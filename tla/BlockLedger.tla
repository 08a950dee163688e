---------------------------- MODULE BlockLedger ----------------------------
(***************************************************************************)
(* What becomes of a block the pool found, as its miners may rely on it.   *)
(* Recording it fixes who shares its reward.  It is then owed until the    *)
(* chain either buries it, and every one of those payees is credited       *)
(* exactly once before it counts as paid, or discards it, and nobody is.   *)
(***************************************************************************)
EXTENDS Naturals

CONSTANTS Blocks, Payees

VARIABLES
  life,     \* where each block stands
  table,    \* the payees fixed when it was recorded
  credits   \* how often each payee was credited for it

vars == <<life, table, credits>>

Lives == {"unrecorded", "owed", "crediting", "paid", "orphaned"}

Init ==
  /\ life = [b \in Blocks |-> "unrecorded"]
  /\ table = [b \in Blocks |-> {}]
  /\ credits = [b \in Blocks |-> [p \in Payees |-> 0]]

Move(b, from, to) == life[b] \in from /\ life' = [life EXCEPT ![b] = to]

\* An orphaned block may be recorded again when its branch wins after all.
Record(b) ==
  /\ Move(b, {"unrecorded", "orphaned"}, "owed")
  /\ table' \in [Blocks -> SUBSET Payees]
  /\ \A c \in Blocks \ {b} : table'[c] = table[c]
  /\ UNCHANGED credits

Claim(b) == Move(b, {"owed"}, "crediting") /\ UNCHANGED <<table, credits>>

Discard(b) == Move(b, {"owed"}, "orphaned") /\ UNCHANGED <<table, credits>>

Credit(b) ==
  \E p \in table[b] :
    /\ life[b] = "crediting"
    /\ credits[b][p] = 0
    /\ credits' = [credits EXCEPT ![b][p] = 1]
    /\ UNCHANGED <<life, table>>

Finish(b) ==
  /\ Move(b, {"crediting"}, "paid")
  /\ \A p \in table[b] : credits[b][p] = 1
  /\ UNCHANGED <<table, credits>>

Next == \E b \in Blocks : Record(b) \/ Claim(b) \/ Discard(b) \/ Credit(b) \/ Finish(b)

Spec == Init /\ [][Next]_vars
=============================================================================
