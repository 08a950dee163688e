----------------------------- MODULE ReorgWatch -----------------------------
(***************************************************************************)
(* scripts/check_reorg.py: run every two minutes, it re-reads the hashes   *)
(* of some heights it recorded and leaves a file when one has changed.     *)
(* The chain grows and is reorganised between any two of its questions,    *)
(* the node may not answer, the disk may refuse a file.                    *)
(*                                                                         *)
(* The hash at a height is the number of the branch its block is of.       *)
(***************************************************************************)
EXTENDS Integers, Sequences, FiniteSets, SequencesExt

CONSTANTS OFFSETS, FORGET_AFTER, AUDIT_PER_RUN,
          MaxHeight, MaxBranches, MaxChecks, MaxTrouble   \* bounds

VARIABLES branchAt,    \* the node's chain: height -> branch
          record,      \* the state file
          evidence,    \* ALARM files ever left; kept until a person deletes them
          check,       \* the run under way
          code,        \* exit code of the last run
          checks,      \* runs begun
          trouble      \* failures so far

reorgVars == <<branchAt, record, evidence, check, code, checks, trouble>>

Tip == Cardinality(DOMAIN branchAt) - 1
Unknown == -1
NoRecord == [heights |-> <<>>, tip |-> Unknown, cursor |-> 0]
Asleep == [pc |-> "asleep"]
Sorted(S) == [i \in 1 .. Cardinality(S) |->
                CHOOSE n \in S : Cardinality({m \in S : m < n}) = i - 1]
Highest(S) == CHOOSE n \in S : \A m \in S : m <= n
Lowest(S) == CHOOSE n \in S : \A m \in S : n <= m
With(f, g) == [h \in DOMAIN f \cup DOMAIN g |-> IF h \in DOMAIN g THEN g[h] ELSE f[h]]

-----------------------------------------------------------------------------
\* The node.
Extend(b) ==
  /\ Tip < MaxHeight
  /\ branchAt' = With(branchAt, (Tip + 1) :> b)
  /\ UNCHANGED <<record, evidence, check, code, checks, trouble>>

\* A branch with more work takes over above the fork.
Reorganise(fork, tip) ==
  /\ fork < Tip /\ branchAt[Tip] < MaxBranches
  /\ branchAt' = [h \in 0 .. tip |-> IF h <= fork THEN branchAt[h] ELSE branchAt[Tip] + 1]
  /\ UNCHANGED <<record, evidence, check, code, checks, trouble>>

-----------------------------------------------------------------------------
outstanding_alarms == {e \in evidence : e.kept}

\* What main returns: 1 for a finding, 2 for a question that was not answered.
Ends(findings, unmeasured) ==
  /\ code' = IF findings THEN 1 ELSE IF unmeasured THEN 2 ELSE 0
  /\ check' = Asleep

RunBegins ==
  /\ check = Asleep /\ checks < MaxChecks
  /\ check' = [pc |-> "tip", found |-> outstanding_alarms # {}]
  /\ checks' = checks + 1
  /\ UNCHANGED <<branchAt, record, evidence, code, trouble>>

\* The heights of one run: those near the tip and a slice of the others.  The
\* next slice begins where this one ends.
heights_to_check(tip, known, cursor) ==
  LET near == {h \in {tip - o : o \in OFFSETS} : h >= 0}
      old == Sorted({h \in known \ near : tip - FORGET_AFTER < h /\ h <= tip})
      start == cursor % Len(old)
      take == SubSeq(old \o old, start + 1, start + AUDIT_PER_RUN)
  IN  IF old = <<>> THEN [heights |-> near, cursor |-> 0]
      ELSE [heights |-> near \cup ToSet(take), cursor |-> (start + AUDIT_PER_RUN) % Len(old)]

save_state(heights, tip, cursor) ==
  record' = [heights |-> heights, tip |-> tip, cursor |-> cursor]

\* One round trip for the tip and the branches that compete with it.  A chain
\* of one block has nothing to compare, and the record is begun again.
ReadTip(competing) ==
  /\ check.pc = "tip"
  /\ LET found == check.found \/ competing IN
       IF Tip = 0 THEN save_state(<<>>, 0, 0) /\ Ends(found, FALSE)
       ELSE /\ check' = [pc |-> "hashes", found |-> found, tip |-> Tip]
            /\ UNCHANGED <<record, code>>
  /\ UNCHANGED <<branchAt, evidence, checks, trouble>>

\* A height that is no longer there has no line in the answer.
Read(heights) == [h \in heights \cap DOMAIN branchAt |-> branchAt[h]]

ReadHashes ==
  /\ check.pc = "hashes"
  /\ LET wanted == heights_to_check(check.tip, DOMAIN record.heights, record.cursor)
         now == Read(wanted.heights)
         both == DOMAIN now \cap DOMAIN record.heights
         changed == {h \in both : now[h] # record.heights[h]}
         good == {h \in both \ changed : h < Lowest(changed)}
         compared(pc, low, high) ==
           [pc |-> pc, found |-> check.found \/ changed # {}, tip |-> check.tip, now |-> now,
            cursor |-> wanted.cursor, changed |-> changed, low |-> low, high |-> high,
            unwritten |-> FALSE]
     IN  check' =
           CASE changed = {} -> compared("save", Unknown, Unknown)
             [] changed # {} /\ good = {} -> compared("alarm", Unknown, Lowest(changed))
             [] OTHER -> compared("bracket", Highest(good), Lowest(changed))
  /\ UNCHANGED <<branchAt, record, evidence, code, checks, trouble>>

\* fork_bracket: the middle one of the recorded heights between.  One that
\* cannot be read counts as changed.
Between == {h \in DOMAIN record.heights : check.low < h /\ h < check.high}

Halve ==
  /\ check.pc = "bracket"
  /\ IF Between = {} THEN check' = [check EXCEPT !.pc = "alarm"]
     ELSE LET m == Sorted(Between)[Cardinality(Between) \div 2 + 1]
              holds == m \in DOMAIN branchAt /\ branchAt[m] = record.heights[m]
          IN  check' = IF holds THEN [check EXCEPT !.low = m] ELSE [check EXCEPT !.high = m]
  /\ UNCHANGED <<branchAt, record, evidence, code, checks, trouble>>

raise_alarm ==
  /\ check.pc = "alarm"
  /\ check' = [check EXCEPT !.pc = "save"]
  /\ evidence' = evidence \cup
       {[kept |-> TRUE, from |-> check.high, floor |-> check.low,
         changed |-> {<<h, record.heights[h], check.now[h]>> : h \in check.changed}]}
  /\ UNCHANGED <<branchAt, record, code, checks, trouble>>

\* A mutant: the record is written as soon as the hashes are compared.
SaveReady_Early == check.pc \in {"alarm", "save"}
SaveReady == check.pc = "save"

Kept == {h \in DOMAIN record.heights : h > check.tip - FORGET_AFTER}

SaveState ==
  /\ SaveReady
  /\ save_state(With([h \in Kept |-> record.heights[h]], check.now), check.tip, check.cursor)
  /\ Ends(check.found, FALSE)
  /\ UNCHANGED <<branchAt, evidence, checks, trouble>>

\* The node does not answer, or the record cannot be written; a bracket that
\* cannot be narrowed is reported as it was sampled, and an alarm that cannot be
\* written is only printed; or the machine stops.
Fails ==
  /\ check # Asleep /\ trouble < MaxTrouble /\ trouble' = trouble + 1
  /\ \/ check.pc \in {"tip", "hashes", "save"} /\ Ends(check.found, TRUE)
     \/ /\ check.pc = "bracket" /\ UNCHANGED code
        /\ check' = [check EXCEPT !.pc = "alarm", !.low = Unknown, !.high = Lowest(check.changed)]
     \/ check.pc = "alarm" /\ check' = [check EXCEPT !.pc = "save", !.unwritten = TRUE]
        /\ UNCHANGED code
     \/ check' = Asleep /\ UNCHANGED code
  /\ UNCHANGED <<branchAt, record, evidence, checks>>

\* A person has understood what happened.
Acknowledge ==
  /\ outstanding_alarms # {}
  /\ evidence' = {[e EXCEPT !.kept = FALSE] : e \in evidence}
  /\ UNCHANGED <<branchAt, record, check, code, checks, trouble>>

ReorgInit ==
  /\ branchAt \in {[h \in 0 .. tip |-> 0] : tip \in {0, MaxHeight - 2}}
  /\ record = NoRecord /\ evidence = {} /\ check = Asleep /\ code = 0
  /\ checks = 0 /\ trouble = 0

ReorgNext ==
  \/ Extend(branchAt[Tip])
  \/ \E fork \in 0 .. Tip : \E tip \in fork + 1 .. MaxHeight : Reorganise(fork, tip)
  \/ RunBegins \/ (\E competing \in BOOLEAN : ReadTip(competing)) \/ ReadHashes
  \/ Halve \/ raise_alarm \/ SaveState \/ Fails \/ Acknowledge

ReorgSpec == ReorgInit /\ [][ReorgNext]_reorgVars

-----------------------------------------------------------------------------
\* A step that replaces a recorded hash finds it in a file, or the disk refused it.
RewriteIsOnFile ==
  \A h \in DOMAIN record.heights \cap DOMAIN record'.heights :
    record'.heights[h] # record.heights[h] =>
      \/ \E e \in evidence : <<h, record.heights[h], record'.heights[h]>> \in e.changed
      \/ check.unwritten /\ code' = 1

\* "Leave evidence that outlives the run that found it" (check_reorg.py:186): no
\* recorded hash is replaced before it is in a file that a person must delete;
\* where the disk refused that file, the run that saw it says 1.
RewritesAreOnFile == [][RewriteIsOnFile]_reorgVars
=============================================================================
