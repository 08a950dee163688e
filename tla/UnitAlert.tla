------------------------------ MODULE UnitAlert ------------------------------
(***************************************************************************)
(* scripts/unit_alert.py: systemd starts one for every unit that fails, so *)
(* that several run at once.  All keep their memory in one file, which     *)
(* each writes by way of one temporary file of a fixed name.               *)
(***************************************************************************)
EXTENDS Integers, FiniteSets

CONSTANTS Units, Alerters, COOLDOWN, MaxClock, MaxAlerts

ASSUME UnitAssumption == COOLDOWN \in Nat

VARIABLES clock,
          names,      \* which inode the state and the temporary file are
          inodes,     \* the text of each
          alerters,   \* the programs
          decided,    \* <<unit, time>> of the messages that were to be sent
          hushed,     \* <<unit, time>> of the failures that were only counted
          alerts

unitVars == <<clock, names, inodes, alerters, decided, hushed, alerts>>

None == 0
Torn == <<>>
NotRunning == [pc |-> "off"]
Inodes == 1 .. Cardinality(Alerters) + 1

\* The memory: unit -> time of the last message.  What cannot be read is empty.
NoMemory == [u \in Units |-> -COOLDOWN]
Text == IF names.state = None \/ inodes[names.state] = Torn THEN NoMemory
        ELSE inodes[names.state]

\* A mutant: the time of a message that is not sent is written too.
Remember_Always(memory, u, t) == [memory EXCEPT ![u] = t]
Remember(memory, u, t) == IF t - memory[u] >= COOLDOWN THEN [memory EXCEPT ![u] = t]
                                                       ELSE memory

Starts(a, u) ==
  /\ alerters[a] = NotRunning /\ alerts < MaxAlerts /\ alerts' = alerts + 1
  /\ alerters' = [alerters EXCEPT ![a] = [pc |-> "load", unit |-> u, at |-> clock]]
  /\ UNCHANGED <<clock, names, inodes, decided, hushed>>

Goes(a, pc) == alerters' = [alerters EXCEPT ![a].pc = pc]

\* load and due: the clock was read before the file.
due(a) ==
  /\ alerters[a].pc = "load"
  /\ LET me == alerters[a]
         memory == Text
         next == Remember(memory, me.unit, me.at)
     IN  /\ alerters' = [alerters EXCEPT ![a] =
              [pc |-> "open", unit |-> me.unit, at |-> me.at, text |-> next,
               send |-> me.at - memory[me.unit] >= COOLDOWN]]
         /\ IF me.at - memory[me.unit] >= COOLDOWN
            THEN decided' = decided \cup {<<me.unit, me.at>>} /\ UNCHANGED hushed
            ELSE hushed' = hushed \cup {<<me.unit, me.at>>} /\ UNCHANGED decided
  /\ UNCHANGED <<clock, names, inodes, alerts>>

\* Opening truncates a temporary file that is there already.
OpenTmp(a) ==
  /\ alerters[a].pc = "open"
  /\ \E i \in Inodes :
       /\ IF names.tmp # None THEN i = names.tmp
          ELSE /\ i # names.state
               /\ \A b \in Alerters : "file" \in DOMAIN alerters[b] => alerters[b].file # i
               /\ \A j \in 1 .. i - 1 : \/ j = names.state
                                        \/ \E b \in Alerters : "file" \in DOMAIN alerters[b]
                                                               /\ alerters[b].file = j
       /\ names' = [names EXCEPT !.tmp = i]
       /\ inodes' = [inodes EXCEPT ![i] = Torn]
       /\ alerters' = [alerters EXCEPT ![a] =
            [pc |-> "write", unit |-> @.unit, at |-> @.at, text |-> @.text,
             send |-> @.send, file |-> i]]
  /\ UNCHANGED <<clock, decided, hushed, alerts>>

\* Over another text the longer one leaves its end.
WriteTmp(a) ==
  /\ alerters[a].pc = "write"
  /\ LET i == alerters[a].file IN
       \/ inodes' = [inodes EXCEPT ![i] = alerters[a].text]
       \/ inodes[i] # Torn /\ inodes[i] # alerters[a].text /\ inodes' = [inodes EXCEPT ![i] = Torn]
  /\ Goes(a, "replace")
  /\ UNCHANGED <<clock, names, decided, hushed, alerts>>

\* A temporary file that another has moved away is an error, and passed over.
ReplaceTmp(a) ==
  /\ alerters[a].pc = "replace"
  /\ names' = IF names.tmp = None THEN names ELSE [state |-> names.tmp, tmp |-> None]
  /\ alerters' = [alerters EXCEPT ![a] = IF alerters[a].send
                                         THEN [pc |-> "send"] ELSE NotRunning]
  /\ UNCHANGED <<clock, inodes, decided, hushed, alerts>>

AlerterSends(a) ==
  /\ alerters[a].pc = "send"
  /\ alerters' = [alerters EXCEPT ![a] = NotRunning]
  /\ UNCHANGED <<clock, names, inodes, decided, hushed, alerts>>

UnitClock ==
  /\ clock < MaxClock /\ clock' = clock + 1
  /\ UNCHANGED <<names, inodes, alerters, decided, hushed, alerts>>

UnitInit ==
  /\ clock = 0 /\ names = [state |-> None, tmp |-> None]
  /\ inodes = [i \in Inodes |-> Torn] /\ alerters = [a \in Alerters |-> NotRunning]
  /\ decided = {} /\ hushed = {} /\ alerts = 0

UnitNext ==
  \/ UnitClock
  \/ \E a \in Alerters :
       \/ \E u \in Units : Starts(a, u)
       \/ due(a) \/ OpenTmp(a) \/ WriteTmp(a) \/ ReplaceTmp(a) \/ AlerterSends(a)

UnitSpec == UnitInit /\ [][UnitNext]_unitVars

-----------------------------------------------------------------------------
\* A failure is kept quiet only within the hour of one that was to be told, for
\* the same unit, however the runs over the one file race: a lost or torn
\* memory makes it speak again and never be silent.
QuietIsBounded ==
  \A h \in hushed : \E d \in decided : /\ d[1] = h[1]
                                       /\ h[2] - d[2] < COOLDOWN
=============================================================================
