---------------------------- MODULE ReleaseWatch ----------------------------
(***************************************************************************)
(* scripts/release_watch.py: every ten minutes, does the release that a    *)
(* stranger can download verify?  A run reads its state file, asks, speaks *)
(* when the answer is not what the file says, and says it before it writes *)
(* that it has.  The timer starts one run at a time; a person may start    *)
(* one beside it, with --dry-run, which says on the screen what it would   *)
(* have sent, and writes the file like any other.                          *)
(***************************************************************************)
EXTENDS Integers, Sequences

CONSTANTS MaxAsked, MaxReleaseFaults

VARIABLES onFile,     \* the state file: what it says, and where that was told
          asking,     \* run -> how far it is
          spoken,     \* what was said, in order
          asked, releaseFaults

releaseVars == <<onFile, asking, spoken, asked, releaseFaults>>

ReleaseRuns == {"timer", "hand"}
Telephone == "telephone"
Screen == "screen"

\* Where a run speaks: notify() only prints in a dry run.
Speaks(run) == IF run = "timer" THEN {Telephone} ELSE {Telephone, Screen}

\* `told` is not in the file: it is where the run spoke that called it broken.
NoState == [is |-> "nothing", told |-> Telephone]
StateFine == [is |-> "fine", told |-> Telephone]
StateAlarmed(where) == [is |-> "alarmed", told |-> where]

\* `of` is where the alarm was told that a line belongs to.
Sentence(what, where, of) == [line |-> what, to |-> where, of |-> of]

NotAsking == [pc |-> "off"]

\* A file that is not there, or cannot be read, is a first run.
LoadsState(run, where) ==
  /\ asking[run] = NotAsking /\ asked < MaxAsked /\ asked' = asked + 1
  /\ \/ asking' = [asking EXCEPT ![run] = [pc |-> "asks", to |-> where, loaded |-> onFile]]
        /\ UNCHANGED releaseFaults
     \/ asking' = [asking EXCEPT ![run] = [pc |-> "asks", to |-> where, loaded |-> NoState]]
        /\ releaseFaults < MaxReleaseFaults /\ releaseFaults' = releaseFaults + 1
  /\ UNCHANGED <<onFile, spoken>>

\* A mutant: the file is written first.
Order_SaveFirst(line) == <<[do |-> "save"], [do |-> "say", line |-> line]>>
Order(line) == <<[do |-> "say", line |-> line], [do |-> "save"]>>

\* What one answer of check_release_signed.sh leads to: 0 it verifies, 1 it does
\* not, and anything that could not be asked (2, a timeout, no script) nothing.
Consequence(a, answer) ==
  IF answer = "verifies"
  THEN [next |-> StateFine,
        todo |-> (IF a.loaded.is = "alarmed" THEN Order(Sentence("RECOVERED", a.to, a.loaded.told))
                                             ELSE <<[do |-> "save"]>>)
                 \o (IF a.loaded.is = "nothing"
                     THEN <<[do |-> "say", line |-> Sentence("started", a.to, a.to)]>> ELSE <<>>)]
  ELSE IF a.loaded.is = "alarmed" THEN [next |-> a.loaded, todo |-> <<[do |-> "save"]>>]
  ELSE [next |-> StateAlarmed(a.to), todo |-> Order(Sentence("ALARM", a.to, a.to))]

ReadsAnswer(run, answer) ==
  /\ asking[run].pc = "asks"
  /\ \/ answer = "unasked" /\ asking' = [asking EXCEPT ![run] = NotAsking]
     \/ /\ answer # "unasked"
        /\ LET then == Consequence(asking[run], answer) IN
             asking' = [asking EXCEPT ![run] =
                          [pc |-> "run", next |-> then.next, todo |-> then.todo]]
  /\ UNCHANGED <<onFile, spoken, asked, releaseFaults>>

AfterStep(a) == IF Len(a.todo) = 1 THEN NotAsking ELSE [a EXCEPT !.todo = Tail(@)]

SayAnswer(run) ==
  /\ asking[run].pc = "run" /\ Head(asking[run].todo).do = "say"
  /\ spoken' = Append(spoken, Head(asking[run].todo).line)
  /\ asking' = [asking EXCEPT ![run] = AfterStep(@)]
  /\ UNCHANGED <<onFile, asked, releaseFaults>>

\* A refused write is printed and no more.
SaveAnswer(run) ==
  /\ asking[run].pc = "run" /\ Head(asking[run].todo).do = "save"
  /\ \/ onFile' = asking[run].next /\ UNCHANGED releaseFaults
     \/ /\ releaseFaults < MaxReleaseFaults /\ releaseFaults' = releaseFaults + 1
        /\ UNCHANGED onFile
  /\ asking' = [asking EXCEPT ![run] = AfterStep(@)]
  /\ UNCHANGED <<spoken, asked>>

AskerDies(run) ==
  /\ asking[run] # NotAsking /\ asking' = [asking EXCEPT ![run] = NotAsking]
  /\ releaseFaults < MaxReleaseFaults /\ releaseFaults' = releaseFaults + 1
  /\ UNCHANGED <<onFile, spoken, asked>>

ReleaseInit ==
  /\ onFile = NoState /\ asking = [r \in ReleaseRuns |-> NotAsking] /\ spoken = <<>>
  /\ asked = 0 /\ releaseFaults = 0

ReleaseNext ==
  \E run \in ReleaseRuns :
    \/ \E where \in Speaks(run) : LoadsState(run, where)
    \/ \E answer \in {"verifies", "broken", "unasked"} : ReadsAnswer(run, answer)
    \/ SayAnswer(run) \/ SaveAnswer(run) \/ AskerDies(run)

ReleaseSpec == ReleaseInit /\ [][ReleaseNext]_releaseVars

-----------------------------------------------------------------------------
ToldAt(where, upto) == \E i \in 1 .. upto : spoken[i] = Sentence("ALARM", where, where)

\* A release is taken for announced as broken only when that was said, on the
\* telephone if a run that sends called it broken and on the screen if a dry run
\* did, whichever of the two steps a run died between and whoever else wrote the
\* file since it was read.  And nothing is said to be over that was not said, there,
\* to have begun.
SilenceIsInformed ==
  /\ onFile.is = "alarmed" => ToldAt(onFile.told, Len(spoken))
  /\ \A i \in DOMAIN spoken :
       spoken[i].line = "RECOVERED" => ToldAt(spoken[i].of, i - 1)

\* release_watch.py:51, "It alarms once, when the answer changes [...] and says so
\* once more when it recovers": what the telephone is told to be over, it was told.
\* It does not hold: see section 5 of the README.
RecoveryFollowsAlarm ==
  \A i \in DOMAIN spoken :
    spoken[i].line = "RECOVERED" /\ spoken[i].to = Telephone => ToldAt(Telephone, i - 1)
=============================================================================
