------------------------------- MODULE Alarms -------------------------------
(***************************************************************************)
(* How an alarm reaches a person, scripts/wamnotify.py and the forwarding  *)
(* of scripts/login_watch.py.  One host holds the token of the chat and    *)
(* sends; the other parks its alarms in a file, which the login watch of   *)
(* the first reads at every run and sends on.  It can write nothing back,  *)
(* so it remembers by their hashes what it has sent, as long as its state  *)
(* file can be read and written and the hashes are few enough.             *)
(*                                                                         *)
(* An alarm is [host, text, n]: the n-th of that text from that host.  A   *)
(* text is a number, and hashes are in the order of the numbers.           *)
(***************************************************************************)
EXTENDS Integers, Sequences, FiniteSets, SequencesExt

CONSTANTS Texts,            \* a set of numbers
          Repeats,          \* bound: times a text is raised on a host
          STALE_HOURS, KEEP, FORWARD_PER_RUN,
          REMEMBERED,       \* hashes kept, 500
          MaxHours, MaxAtOnce, MaxMishaps, MaxLapses   \* bounds

ASSUME AlarmAssumption ==
  /\ Texts \subseteq Nat /\ IsFiniteSet(Texts)
  /\ KEEP \in Nat /\ FORWARD_PER_RUN \in Nat /\ REMEMBERED \in Nat

VARIABLES hour,
          raised,    \* alarms that some program raised
          sending,   \* programs in send() or park(): alarm -> step
          parked,    \* host -> lines of pending.txt
          heard,     \* what arrived on the telephone
          forwarded, \* login_watch: the hashes in its state file
          watch,     \* login_watch: the run under way
          mishaps,   \* restarts, and files that could not be read or written
          lapses     \* text -> times it was sent, or about to be, and not remembered

alarmVars == <<hour, raised, sending, parked, heard, forwarded, watch, mishaps, lapses>>

Home == "token"
Away == "away"
Hosts == {Home, Away}

Mishap == mishaps < MaxMishaps /\ mishaps' = mishaps + 1
Forgetting(texts) == lapses' = [t \in Texts |-> lapses[t] + IF t \in texts THEN 1 ELSE 0]

Line(alarm) == [at |-> hour, alarm |-> alarm]
Resting == [pc |-> "idle"]

-----------------------------------------------------------------------------
\* Some program has something to say.
Raise(h, t) ==
  LET n == Cardinality({a \in raised : a.host = h /\ a.text = t})
      alarm == [host |-> h, text |-> t, n |-> n + 1]
  IN  /\ n < Repeats /\ Cardinality(DOMAIN sending) < MaxAtOnce
      /\ raised' = raised \cup {alarm}
      /\ sending' = [a \in DOMAIN sending \cup {alarm} |->
                       IF a = alarm THEN [pc |-> IF h = Home THEN "post" ELSE "append"]
                       ELSE sending[a]]
      /\ UNCHANGED <<hour, parked, heard, forwarded, watch, mishaps, lapses>>

Step(alarm, pc) == sending' = [sending EXCEPT ![alarm] = [pc |-> pc]]
Finish(alarm) == sending' = [a \in DOMAIN sending \ {alarm} |-> sending[a]]

\* The answer may be lost after the message arrived: it is parked all the same.
Post(alarm) ==
  /\ sending[alarm].pc = "post"
  /\ \/ heard' = Append(heard, alarm) /\ Finish(alarm)
     \/ heard' \in {heard, Append(heard, alarm)} /\ Step(alarm, "append")
  /\ UNCHANGED <<hour, raised, parked, forwarded, watch, mishaps, lapses>>

\* park: the line is appended, the file read again, emptied, and written.
ParkAppends(alarm) ==
  /\ sending[alarm].pc = "append"
  /\ parked' = [parked EXCEPT ![alarm.host] = Append(@, Line(alarm))]
  /\ Step(alarm, "read")
  /\ UNCHANGED <<hour, raised, heard, forwarded, watch, mishaps, lapses>>

\* The lines that are among these, in their order.
Only(lines, these) ==
  LET upto[i \in 0..Len(lines)] ==
        IF i = 0 THEN <<>>
        ELSE IF lines[i] \in these THEN Append(upto[i - 1], lines[i]) ELSE upto[i - 1]
  IN  upto[Len(lines)]

LastLines(lines, n) == SubSeq(lines, IF Len(lines) > n THEN Len(lines) - n + 1 ELSE 1, Len(lines))
Young(lines) == {l \in ToSet(lines) : l.at >= hour - STALE_HOURS}
ToKeep(lines) == LastLines(Only(lines, Young(lines)), KEEP)

ParkReads(alarm) ==
  /\ sending[alarm].pc = "read"
  /\ sending' = [sending EXCEPT ![alarm] = [pc |-> "cut",
                                        kept |-> ToKeep(parked[alarm.host])]]
  /\ UNCHANGED <<hour, raised, parked, heard, forwarded, watch, mishaps, lapses>>

ParkCuts(alarm) ==
  /\ sending[alarm].pc = "cut"
  /\ parked' = [parked EXCEPT ![alarm.host] = <<>>]
  /\ sending' = [sending EXCEPT ![alarm] = [pc |-> "write", kept |-> sending[alarm].kept]]
  /\ UNCHANGED <<hour, raised, heard, forwarded, watch, mishaps, lapses>>

ParkWrites(alarm) ==
  /\ sending[alarm].pc = "write"
  /\ parked' = [parked EXCEPT ![alarm.host] = sending[alarm].kept]
  /\ Finish(alarm)
  /\ UNCHANGED <<hour, raised, heard, forwarded, watch, mishaps, lapses>>

-----------------------------------------------------------------------------
\* login_watch at the host with the token.
Greatest(S, n) == {x \in S : Cardinality({y \in S : y > x}) < n}

\* A mutant: what was sent is not remembered.
Remembered_Not(old, sent) == old
Remembered(old, sent) == Greatest(old \cup sent, REMEMBERED)

Evicted(texts) == texts \ Greatest(texts, REMEMBERED)

\* An unreadable memory is an empty one; a host that does not answer has no lines.
collect_parked ==
  /\ watch = Resting /\ \A t \in Texts : lapses[t] < MaxLapses
  /\ \E memory \in {forwarded, {}}, lines \in {parked[Away], <<>>} :
       LET unsent == Only(lines, {l \in ToSet(lines) : l.alarm.text \notin memory})
           now == SubSeq(unsent, 1, IF Len(unsent) < FORWARD_PER_RUN THEN Len(unsent)
                                                                   ELSE FORWARD_PER_RUN)
           alarms == [i \in DOMAIN now |-> now[i].alarm]
           taken == {alarms[i].text : i \in DOMAIN alarms}
       IN  /\ now # <<>> \/ memory # forwarded
           /\ IF memory = forwarded THEN UNCHANGED mishaps ELSE Mishap
           /\ Forgetting(forwarded \ memory)
           /\ watch' = [pc |-> "save", out |-> alarms, told |-> memory \cup taken,
                        next |-> Remembered(memory, taken)]
  /\ UNCHANGED <<hour, raised, sending, parked, heard, forwarded>>

\* A refused write is passed over, and the run goes on.
SaveForwarded ==
  /\ watch.pc = "save"
  /\ \/ forwarded' = watch.next /\ Forgetting(Evicted(watch.told)) /\ UNCHANGED mishaps
     \/ forwarded' = forwarded /\ Forgetting(watch.told \ forwarded) /\ Mishap
  /\ watch' = IF watch.out = <<>> THEN Resting ELSE [pc |-> "notify", out |-> watch.out]
  /\ UNCHANGED <<hour, raised, sending, parked, heard>>

\* What is not delivered is parked on this host, where no one collects.
Notify ==
  /\ watch.pc = "notify"
  /\ LET alarm == Head(watch.out) IN
       \/ heard' = Append(heard, alarm) /\ UNCHANGED parked
       \/ heard' = heard /\ parked' = [parked EXCEPT ![Home] = ToKeep(Append(@, Line(alarm)))]
  /\ watch' = IF Len(watch.out) = 1 THEN Resting ELSE [watch EXCEPT !.out = Tail(@)]
  /\ UNCHANGED <<hour, raised, sending, forwarded, mishaps, lapses>>

-----------------------------------------------------------------------------
Hour ==
  /\ hour < MaxHours /\ hour' = hour + 1
  /\ UNCHANGED <<raised, sending, parked, heard, forwarded, watch, mishaps, lapses>>

\* The machine is restarted while a program is at it, or park() meets a file that it
\* cannot open or write: it passes over that and is through.
Kill ==
  /\ Mishap
  /\ \/ watch # Resting /\ watch' = Resting /\ UNCHANGED sending
     \/ \E a \in DOMAIN sending : Finish(a) /\ UNCHANGED watch
  /\ UNCHANGED <<hour, raised, parked, heard, forwarded, lapses>>

AlarmInit ==
  /\ hour = 0 /\ raised = {} /\ sending = <<>> /\ parked = [h \in Hosts |-> <<>>]
  /\ heard = <<>> /\ forwarded = {} /\ watch = Resting /\ mishaps = 0
  /\ lapses = [t \in Texts |-> 0]

AlarmNext ==
  \/ \E h \in Hosts, t \in Texts : Raise(h, t)
  \/ \E a \in DOMAIN sending :
       Post(a) \/ ParkAppends(a) \/ ParkReads(a) \/ ParkCuts(a) \/ ParkWrites(a)
  \/ collect_parked \/ SaveForwarded \/ Notify \/ Hour \/ Kill

AlarmSpec == AlarmInit /\ [][AlarmNext]_alarmVars

-----------------------------------------------------------------------------
Heard(alarm) == \E i \in DOMAIN heard : heard[i] = alarm
InHand(alarm) == \/ alarm \in DOMAIN sending
                 \/ watch # Resting /\ alarm \in ToSet(watch.out)
Waiting(alarm) == \E i \in DOMAIN parked[Away] : parked[Away][i].alarm = alarm

Times(alarm) == Cardinality({i \in DOMAIN heard : heard[i] = alarm})

\* An alarm is told once, and once more at most for every time its text was sent and
\* not remembered: the memory could not be read or written, or held too many others.
\* However often its line is read before it is stale, wherever a run is killed, and
\* whoever parks lines meanwhile, nothing else tells it again.
RepeatsAreLapses == \A a \in raised : Times(a) <= 1 + lapses[a.text]

\* login_watch.py:251, "A line seen once is never sent twice."  It does not hold: see
\* section 5 of the README.
LineSentOnce == \A a \in raised : Times(a) <= 1

\* wamnotify.py:122, "Deliver, or park it for the host that can.  Always."  An
\* alarm that is a day old or less is delivered, on its way, or in the file
\* that the other host reads and not among what it takes for sent.  It does not
\* hold: see section 5 of the README.
DeliveredOrWaiting ==
  \A a \in raised : \/ Heard(a) \/ InHand(a)
                    \/ Waiting(a) /\ a.text \notin forwarded
=============================================================================
