--------------------------- MODULE MorningReport ---------------------------
(***************************************************************************)
(* scripts/daily_report.py: a numbered message every morning, from one     *)
(* machine, about all of them.  It takes its number, reads the facts of    *)
(* each machine in turn, runs the repository's own checks, and sends.      *)
(***************************************************************************)
EXTENDS Integers, Sequences, FiniteSets, FiniteSetsExt, Functions

CONSTANTS MACHINES,           \* this one first
          Faults,             \* what makes a machine's facts a problem
          Checks,             \* of the repository, in order
          MaxTip, MaxReports, MaxChanges, MaxDowns   \* bounds

ASSUME ReportAssumption ==
  /\ MACHINES \in Seq(Range(MACHINES)) /\ Checks \in Seq(Range(Checks))
  /\ "checks" \notin Range(MACHINES)      \* it stands for this repository in a message

VARIABLES tip,                \* machine -> the tip of its chain
          faults,             \* machine -> what is wrong with it
          broken,             \* checks that would fail
          number,             \* the state file: the last number, or Unwritten
          serial, stage,      \* the run: its number, and what it does next
          facts,              \* machine -> what it told, or Unread
          results,            \* of the checks so far
          arrived,            \* the messages: [n, problems]
          still,              \* history: the world has not moved since the run began
          lasting,            \* history: what has been wrong since before it was read
          written,            \* history: could every number be written?
          changes, downs

reportVars == <<tip, faults, broken, number, serial, stage, facts, results, arrived, still,
                lasting, written, changes, downs>>
world == <<tip, faults, broken, still, lasting, written, changes>>

Unwritten == 0
Unread == [told |-> FALSE]
Machines == Range(MACHINES)
Nothing == [m \in {} |-> Unread]
FaultsThere == UNION {{<<m, f>> : f \in faults[m]} : m \in Machines}
Wrong == FaultsThere \cup {<<"checks", c>> : c \in broken}

-----------------------------------------------------------------------------
\* The world: a block reaches the machines one by one, things break and are mended.
BlockComes(m) ==
  /\ tip[m] < MaxTip /\ tip' = [tip EXCEPT ![m] = @ + 1] /\ still' = FALSE
  /\ UNCHANGED <<faults, broken, number, serial, stage, facts, results, arrived, lasting, written,
                 changes, downs>>

Changes ==
  /\ changes < MaxChanges /\ changes' = changes + 1 /\ still' = FALSE
  /\ \/ /\ \E m \in Machines, f \in Faults : faults' = [faults EXCEPT ![m] = SymDiff(@, {f})]
        /\ UNCHANGED broken
     \/ /\ \E c \in Range(Checks) : broken' = SymDiff(broken, {c})
        /\ UNCHANGED faults
  /\ lasting' = lasting \cap Wrong'
  /\ UNCHANGED <<tip, number, serial, stage, facts, results, arrived, written, downs>>

Down == downs < MaxDowns /\ downs' = downs + 1

\* The machine that sends them goes down.
Dies ==
  /\ stage # "resting" /\ stage' = "resting" /\ Down
  /\ UNCHANGED <<world, number, serial, facts, results, arrived>>

-----------------------------------------------------------------------------
\* A mutant: the number is never written.
Takes_Not == UNCHANGED <<number, written, downs>>

\* next_number: it is used up before anything else is done; a file that cannot be
\* written is passed over.
Takes == \/ number' = number + 1 /\ UNCHANGED <<written, downs>>
         \/ Down /\ written' = FALSE /\ UNCHANGED number

Begins(dry) ==
  /\ stage = "resting" /\ serial < MaxReports
  /\ serial' = number + 1
  /\ IF dry THEN UNCHANGED <<number, written, downs>> ELSE Takes
  /\ stage' = IF dry THEN "dry" ELSE "facts"
  /\ facts' = Nothing /\ results' = <<>> /\ still' = TRUE /\ lasting' = Wrong
  /\ UNCHANGED <<tip, faults, broken, arrived, changes>>

\* read_facts: one machine after another; one that does not answer has no facts.
ReadsFacts ==
  /\ stage \in {"facts", "dry"} /\ Cardinality(DOMAIN facts) < Len(MACHINES)
  /\ LET m == MACHINES[Cardinality(DOMAIN facts) + 1]
         With(told) == [k \in DOMAIN facts \cup {m} |-> IF k = m THEN told ELSE facts[k]]
     IN  \/ /\ facts' = With([told |-> TRUE, tip |-> tip[m], faults |-> faults[m]])
            /\ UNCHANGED downs
         \/ facts' = With(Unread) /\ Down
  /\ UNCHANGED <<world, number, serial, stage, results, arrived>>

\* local_check: it passes, fails, or does not come to an end, and then it is only noted.
Runs ==
  /\ stage \in {"facts", "dry"} /\ DOMAIN facts = Machines /\ Len(results) < Len(Checks)
  /\ LET c == Checks[Len(results) + 1]
     IN  \/ /\ results' = Append(results, IF c \in broken THEN "bad" ELSE "ok")
            /\ UNCHANGED downs
         \/ results' = Append(results, "unknown") /\ Down
  /\ UNCHANGED <<world, number, serial, stage, facts, arrived>>

\* build: what is a problem, and what is only a note.
Told == {m \in Machines : facts[m].told}
FaultsTold == UNION {{<<m, f>> : f \in facts[m].faults} : m \in Told}
ChecksFailed == {<<"checks", Checks[i]>> : i \in {j \in DOMAIN results : results[j] = "bad"}}
TipsDiffer == \E a, b \in Told : facts[a].tip # facts[b].tip
Problems == {<<m, "unread">> : m \in Machines \ Told} \cup FaultsTold \cup ChecksFailed
            \cup {d \in {<<"all", "disagree">>} : TipsDiffer}

\* send: it arrives or it is refused; nothing is tried again.
Sends ==
  /\ stage \in {"facts", "dry"} /\ DOMAIN facts = Machines /\ Len(results) = Len(Checks)
  /\ stage' = "resting"
  /\ IF stage = "dry" THEN UNCHANGED <<arrived, downs>>
     ELSE \/ /\ arrived' = Append(arrived, [n |-> serial, problems |-> Problems,
                                            notes |-> {i \in DOMAIN results : results[i] = "unknown"},
                                            missed |-> lasting \ Problems, still |-> still,
                                            wrong |-> Wrong])
             /\ UNCHANGED downs
          \/ Down /\ UNCHANGED arrived
  /\ UNCHANGED <<world, number, serial, facts, results>>

ReportInit ==
  /\ tip = [m \in Machines |-> 0] /\ faults = [m \in Machines |-> {}] /\ broken = {}
  /\ number = Unwritten /\ serial = 0 /\ stage = "resting" /\ facts = Nothing /\ results = <<>>
  /\ arrived = <<>> /\ still = TRUE /\ lasting = {} /\ written = TRUE /\ changes = 0 /\ downs = 0

ReportNext ==
  \/ (\E m \in Machines : BlockComes(m)) \/ Changes \/ Dies
  \/ (\E dry \in BOOLEAN : Begins(dry)) \/ ReadsFacts \/ Runs \/ Sends

ReportSpec == ReportInit /\ [][ReportNext]_reportVars

-----------------------------------------------------------------------------
\* "A skipped number means that report never arrived" (daily_report.py:331): unless the
\* file could not be written no two messages have one number, and they come in order.
\* "A green message over a broken system is worse than none" (26): what was wrong from
\* the beginning of a run to its end is in the message, but for what the machine did
\* not tell, which is named; and a world that stood still is not accused of anything
\* that is not wrong with it, but for tips that differ while a block is on its way.
MorningIsHonest ==
  /\ written => \A i, j \in DOMAIN arrived : i < j => arrived[i].n < arrived[j].n
  /\ \A i \in DOMAIN arrived :
       LET r == arrived[i]
       IN  /\ \A w \in r.missed : IF w[1] = "checks" THEN r.notes # {}
                                  ELSE <<w[1], "unread">> \in r.problems
           /\ r.still => \A p \in r.problems : p \in r.wrong \/ p[2] \in {"unread", "disagree"}
=============================================================================
