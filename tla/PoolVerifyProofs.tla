-------------------------- MODULE PoolVerifyProofs --------------------------
(***************************************************************************)
(* The queue in front of the RandomX addon counts right and two threads    *)
(* never compute on one VM, for any number of shares, seeds, threads and   *)
(* places and any setting of the VMs.                                      *)
(***************************************************************************)
EXTENDS PoolVerify, FiniteSetTheorems, SequenceTheorems, TLAPS

Steps == Flying \cup {"new", "refused", "done"}

\* Every variable has its type.
TypeOK ==
  /\ vmSlots \in Nat \ {0} /\ vmCount \in Nat \ {0}
  /\ inAddon \in Nat /\ verifying \in Nat
  /\ pc \in [Shares -> Steps] /\ seed \in [Shares -> Seeds]
  /\ DOMAIN registry \subseteq Seeds /\ IsFiniteSet(DOMAIN registry)
  /\ \A k \in DOMAIN registry : registry[k] \in Shares
  /\ ctx \in [Shares -> Shares]

\* A queue that holds each member of a set once.
Holds(q, S) ==
  /\ q \in Seq(S)
  /\ \A i, j \in 1..Len(q) : q[i] = q[j] => i = j
  /\ \A s \in S : \E i \in 1..Len(q) : q[i] = s

\* A share stands once in the queue that its step is waiting in, and in no other.
QueuesHold ==
  /\ Holds(waiting, In({"waiting"}))
  /\ Holds(libq, In({"queued"}))
  /\ Holds(ready, In({"leave", "enter", "settle"}))

\* The counts count, and the places taken or promised are never more than there are.
PlacesAreCounted ==
  /\ inAddon = Cardinality(In(Inside)) /\ verifying = Cardinality(In(Flying))
  /\ inAddon + Cardinality(In({"enter"})) <= vmSlots
  /\ waiting # <<>> => inAddon + Cardinality(In({"enter"})) = vmSlots

\* A busy VM is that of one thread, which computes on it.
VmsAreHeld ==
  /\ busy \in [Shares -> SUBSET Nat] /\ vm \in [Shares -> Nat]
  /\ \A s \in In({"hash"}) : vm[s] \in busy[ctx[s]]
  /\ \A c \in Shares : \A v \in busy[c] : \E s \in In({"hash"}) : ctx[s] = c /\ vm[s] = v
  /\ VmIsExclusive

\* With one reading of the setting no thread is held by the condition variable.
NobodyWaitsInside == vmSlots = vmCount => In({"asleep"}) = {}

\* The registry keeps to its size.
RegistryIsSmall == Cardinality(DOMAIN registry) <= MaxSeeds

\* The inductive invariant.
IInv == /\ TypeOK /\ QueuesHold /\ PlacesAreCounted
        /\ VmsAreHeld /\ NobodyWaitsInside /\ RegistryIsSmall

-----------------------------------------------------------------------------
\* The first free VM is a free VM: the least of some numbers is one of them.
LEMMA MinIsIn ==
  ASSUME NEW S, S \subseteq Nat, S # {}
  PROVE  Min(S) \in S
<1> DEFINE R == {ss \in Nat \X Nat : ss[1] < ss[2]}
<1>1. IsWellFoundedOn(R, Nat)
  BY NatLessThanWellFounded DEF OpToRel
<1>2. PICK x \in S : \A y \in S : ~(<<y, x>> \in R)
  <2> HIDE DEF R
  <2> QED
    BY <1>1, WFMin
<1>3. \A y \in S : x =< y
  <2> SUFFICES ASSUME NEW y \in S, ~(x =< y) PROVE FALSE
    OBVIOUS
  <2>1. x \in Nat /\ y \in Nat
    OBVIOUS
  <2>2. y < x
    BY <2>1
  <2>3. <<y, x>> \in R
    BY <2>1, <2>2
  <2> QED
    BY <2>3, <1>2
<1> QED
  BY <1>3 DEF Min

\* A queue of JavaScript or of libuv that takes one more, not yet in it, holds it once.
LEMMA HoldsAppend ==
  ASSUME NEW S, NEW q, Holds(q, S), NEW s, s \notin S
  PROVE  Holds(Append(q, s), S \cup {s})
<1> SUFFICES ASSUME NEW r, r = Append(q, s) PROVE Holds(r, S \cup {s})
  OBVIOUS
<1>1. q \in Seq(S) /\ q \in Seq(S \cup {s}) /\ Len(q) \in Nat
  BY SeqMonotonic, LenProperties DEF Holds
<1>2. PICK n \in Nat : n = Len(q)
  BY <1>1
<1>3. /\ r \in Seq(S \cup {s}) /\ Len(r) = n + 1
      /\ \A i \in 1..n : r[i] = q[i]
      /\ r[n + 1] = s
  BY <1>1, <1>2, AppendProperties
<1>4. \A i \in 1..n : q[i] \in S
  BY <1>1, <1>2, ElementOfSeq
<1>5. \A i, j \in 1..n + 1 : r[i] = r[j] => i = j
  <2> SUFFICES ASSUME NEW i \in 1..n + 1, NEW j \in 1..n + 1, r[i] = r[j] PROVE i = j
    OBVIOUS
  <2>1. CASE i \in 1..n /\ j \in 1..n
    BY <2>1, <1>2, <1>3 DEF Holds
  <2>2. CASE i = n + 1 \/ j = n + 1
    BY <2>2, <1>3, <1>4
  <2> QED
    BY <2>1, <2>2
<1>6. \A t \in S \cup {s} : \E i \in 1..n + 1 : r[i] = t
  <2>1. \A t \in S : \E i \in 1..n : q[i] = t
    BY <1>2 DEF Holds
  <2>2. \A i \in 1..n : i \in 1..n + 1
    OBVIOUS
  <2>3. n + 1 \in 1..n + 1
    OBVIOUS
  <2> QED
    BY <2>1, <2>2, <2>3, <1>3
<1> QED
  BY <1>3, <1>5, <1>6 DEF Holds

\* A queue that gives up its first holds the others once.
LEMMA HoldsTail ==
  ASSUME NEW S, NEW q, Holds(q, S), q # <<>>
  PROVE  Head(q) \in S /\ Holds(Tail(q), S \ {Head(q)})
<1> SUFFICES ASSUME NEW r, r = Tail(q) PROVE Head(q) \in S /\ Holds(r, S \ {Head(q)})
  OBVIOUS
<1>1. q \in Seq(S) /\ Len(q) \in Nat \ {0}
  BY EmptySeq DEF Holds
<1>2. PICK n \in Nat : Len(q) = n + 1
  BY <1>1
<1>3. /\ r \in Seq(S) /\ Len(r) = n
      /\ \A i \in 1..n : r[i] = q[i + 1]
      /\ Head(q) = q[1] /\ Head(q) \in S
  BY <1>1, <1>2, HeadTailProperties
<1>4. \A i, j \in 1..n + 1 : q[i] = q[j] => i = j
  BY <1>2 DEF Holds
<1>5. \A i \in 1..n : r[i] \in S /\ r[i] # q[1]
  <2> SUFFICES ASSUME NEW i \in 1..n PROVE r[i] \in S /\ r[i] # q[1]
    OBVIOUS
  <2>1. r[i] \in S
    BY <1>3, ElementOfSeq
  <2>2. i + 1 \in 1..n + 1 /\ 1 \in 1..n + 1 /\ i + 1 # 1
    OBVIOUS
  <2>3. q[i + 1] # q[1]
    BY <2>2, <1>4
  <2> QED
    BY <2>1, <2>3, <1>3
<1>6. r \in Seq(S \ {q[1]})
  <2>1. r \in [1..n -> S]
    BY <1>3, LenProperties
  <2>2. r \in [1..n -> S \ {q[1]}]
    BY <2>1, <1>5
  <2> QED
    BY <2>2, SeqDef, Zenon
<1>7. \A i, j \in 1..n : r[i] = r[j] => i = j
  <2> SUFFICES ASSUME NEW i \in 1..n, NEW j \in 1..n, r[i] = r[j] PROVE i = j
    OBVIOUS
  <2>1. i + 1 \in 1..n + 1 /\ j + 1 \in 1..n + 1 /\ q[i + 1] = q[j + 1]
    BY <1>3
  <2>2. i + 1 = j + 1
    BY <2>1, <1>4
  <2> QED
    BY <2>2
<1>8. \A t \in S \ {q[1]} : \E i \in 1..n : r[i] = t
  <2> SUFFICES ASSUME NEW t \in S \ {q[1]} PROVE \E i \in 1..n : r[i] = t
    OBVIOUS
  <2>1. PICK i \in 1..n + 1 : q[i] = t
    BY <1>2 DEF Holds
  <2>2. i - 1 \in 1..n /\ (i - 1) + 1 = i
    BY <2>1
  <2>3. r[i - 1] = q[i]
    BY <2>2, <1>3
  <2> QED
    BY <2>1, <2>2, <2>3
<1> QED
  BY <1>3, <1>6, <1>7, <1>8 DEF Holds

\* Any set of shares is finite.
LEMMA InIsFinite ==
  ASSUME NEW X
  PROVE  IsFiniteSet(In(X)) /\ Cardinality(In(X)) \in Nat
BY ConstantsAssumption, FS_Subset, FS_CardinalityType DEF In

\* A pool that starts has empty queues, no place taken and no VM busy.
LEMMA InitInv == Init => IInv
<1> SUFFICES ASSUME Init PROVE IInv
  OBVIOUS
<1>1. TypeOK
  <2>1. DOMAIN registry = {}
    BY DEF Init
  <2> QED
    BY <2>1, ConstantsAssumption, FS_EmptySet DEF Init, TypeOK, Steps
<1>2. \A X : "new" \notin X => In(X) = {}
  BY DEF Init, In
<1>3. In(Inside) = {} /\ In(Flying) = {} /\ In({"enter"}) = {} /\ In({"waiting"}) = {}
      /\ In({"queued"}) = {} /\ In({"leave", "enter", "settle"}) = {}
      /\ In({"hash"}) = {} /\ In({"asleep"}) = {}
  BY <1>2 DEF Inside, Flying, Running
<1>4. QueuesHold
  <2>1. Holds(<<>>, {})
    BY DEF Holds
  <2> QED
    BY <2>1, <1>3 DEF Init, QueuesHold
<1>5. PlacesAreCounted
  <2>1. Cardinality({}) = 0
    BY FS_EmptySet
  <2>2. waiting = <<>> /\ inAddon = 0 /\ verifying = 0 /\ vmSlots \in Nat
    BY <1>1 DEF Init, TypeOK
  <2>3. /\ Cardinality(In(Inside)) = 0 /\ Cardinality(In(Flying)) = 0
        /\ Cardinality(In({"enter"})) = 0
    BY <2>1, <1>3
  <2> QED
    BY <2>2, <2>3 DEF PlacesAreCounted
<1>6. VmsAreHeld
  BY <1>3 DEF Init, VmsAreHeld, VmIsExclusive
<1>7. NobodyWaitsInside
  BY <1>3 DEF NobodyWaitsInside
<1>8. RegistryIsSmall
  <2>1. DOMAIN registry = {}
    BY DEF Init
  <2> QED
    BY <2>1, ConstantsAssumption, FS_EmptySet DEF RegistryIsSmall
<1> QED
  BY <1>1, <1>4, <1>5, <1>6, <1>7, <1>8 DEF IInv

-----------------------------------------------------------------------------
\* What a share's step does to a set of shares, and to its size.
LEMMA GotoMoves ==
  ASSUME TypeOK, NEW s \in Shares, NEW step, Goto(s, step), NEW X
  PROVE  /\ step \in X => In(X)' = In(X) \cup {s}
         /\ step \notin X => In(X)' = In(X) \ {s}
         /\ Cardinality(In(X))' = Cardinality(In(X)) - (IF pc[s] \in X THEN 1 ELSE 0)
                                                     + (IF step \in X THEN 1 ELSE 0)
<1>1. pc \in [Shares -> Steps] /\ pc' = [pc EXCEPT ![s] = step]
  BY DEF TypeOK, Goto
<1>2. step \in X => In(X)' = In(X) \cup {s}
  BY <1>1 DEF In
<1>3. step \notin X => In(X)' = In(X) \ {s}
  BY <1>1 DEF In
<1>4. s \in In(X) <=> pc[s] \in X
  BY DEF In
<1>5. IsFiniteSet(In(X)) /\ Cardinality(In(X)) \in Nat
  BY InIsFinite
<1>6. CASE step \in X
  <2>1. Cardinality(In(X) \cup {s}) = IF s \in In(X) THEN Cardinality(In(X))
                                                    ELSE Cardinality(In(X)) + 1
    BY <1>5, FS_AddElement
  <2>2. Cardinality(In(X))' = Cardinality(In(X) \cup {s})
    BY <1>2, <1>6
  <2>3. Cardinality(In(X))' = Cardinality(In(X)) - (IF pc[s] \in X THEN 1 ELSE 0) + 1
    BY <2>1, <2>2, <1>4, <1>5
  <2> QED
    BY <2>3, <1>2, <1>6
<1>7. CASE step \notin X
  <2>1. Cardinality(In(X) \ {s}) = IF s \in In(X) THEN Cardinality(In(X)) - 1
                                                  ELSE Cardinality(In(X))
    BY <1>5, FS_RemoveElement
  <2>2. Cardinality(In(X))' = Cardinality(In(X) \ {s})
    BY <1>3, <1>7
  <2>3. Cardinality(In(X))' = Cardinality(In(X)) - (IF pc[s] \in X THEN 1 ELSE 0) + 0
    BY <2>1, <2>2, <1>4, <1>5
  <2> QED
    BY <2>3, <1>3, <1>7
<1> QED
  BY <1>6, <1>7

\* A step that touches no VM.
LEMMA VmsUntouched ==
  ASSUME VmsAreHeld, NobodyWaitsInside, In({"hash"})' = In({"hash"}),
         In({"asleep"})' \subseteq In({"asleep"}), UNCHANGED <<config, ctx, busy, vm>>
  PROVE  VmsAreHeld' /\ NobodyWaitsInside'
BY DEF VmsAreHeld, VmIsExclusive, NobodyWaitsInside, config

\* BUSY, the answer of processShare to a full queue, moves no count.
LEMMA RefuseInv ==
  ASSUME IInv, NEW s \in Shares, Refuse(s)
  PROVE  IInv'
<1>1. TypeOK /\ Goto(s, "refused") /\ pc[s] = "new"
  BY DEF IInv, Refuse
<1>2. \A X : "new" \notin X /\ "refused" \notin X => In(X)' = In(X)
  BY <1>1 DEF TypeOK, Goto, In
<1>3. /\ In(Inside)' = In(Inside) /\ In(Flying)' = In(Flying)
      /\ In({"enter"})' = In({"enter"}) /\ In({"waiting"})' = In({"waiting"})
      /\ In({"queued"})' = In({"queued"}) /\ In({"hash"})' = In({"hash"})
      /\ In({"asleep"})' = In({"asleep"})
      /\ In({"leave", "enter", "settle"})' = In({"leave", "enter", "settle"})
  BY <1>2 DEF Inside, Flying, Running
<1>4. UNCHANGED <<config, loop, seed, addon>>
  BY DEF Refuse
<1>5. TypeOK'
  BY <1>1, <1>4 DEF TypeOK, Goto, Steps, config, loop, addon
<1>6. QueuesHold' /\ PlacesAreCounted' /\ RegistryIsSmall'
  BY <1>3, <1>4 DEF IInv, QueuesHold, PlacesAreCounted, RegistryIsSmall, config, loop, addon
<1>7. VmsAreHeld' /\ NobodyWaitsInside'
  BY <1>3, <1>4, VmsUntouched DEF IInv, config, addon
<1> QED
  BY <1>5, <1>6, <1>7 DEF IInv

\* processShare up to its await: a place is taken, or none is left and the share waits.
LEMMA SubmitInv ==
  ASSUME IInv, NEW s \in Shares, Submit(s)
  PROVE  IInv'
<1> USE DEF Inside, Flying, Running
<1>1. TypeOK /\ pc[s] = "new" /\ ready = <<>> /\ UNCHANGED <<config, ready, seed, registry, ctx, busy, vm>>
  BY DEF IInv, Submit
<1>2. In({"enter"}) = {}
  <2>1. In({"leave", "enter", "settle"}) = {}
    BY <1>1 DEF IInv, QueuesHold, Holds
  <2> QED
    BY <2>1 DEF In
<1>3. CASE inAddon >= vmSlots /\ waiting' = Append(waiting, s) /\ Goto(s, "waiting")
             /\ UNCHANGED <<inAddon, libq>>
  <2>1. /\ In({"waiting"})' = In({"waiting"}) \cup {s} /\ s \notin In({"waiting"})
        /\ In({"queued"})' = In({"queued"}) /\ In({"hash"})' = In({"hash"})
        /\ In({"asleep"})' = In({"asleep"})
        /\ In({"leave", "enter", "settle"})' = In({"leave", "enter", "settle"})
        /\ In({"enter"})' = In({"enter"})
    BY <1>1, <1>3 DEF TypeOK, Goto, In
  <2>2. Cardinality(In(Inside))' = Cardinality(In(Inside))
    <3>1. In(Inside)' = In(Inside)
      BY <1>1, <1>3 DEF TypeOK, Goto, In
    <3> QED
      BY <3>1
  <2>3. Cardinality(In(Flying))' = Cardinality(In(Flying)) + 1
    BY <1>1, <1>3, GotoMoves, InIsFinite
  <2>4. TypeOK'
    BY <1>1, <1>3 DEF TypeOK, Goto, Steps, config, Submit
  <2>5. QueuesHold'
    BY <1>1, <1>3, <2>1, HoldsAppend DEF IInv, QueuesHold
  <2>6. PlacesAreCounted'
    <3>1. Cardinality(In({"enter"})) = 0
      BY <1>2, FS_EmptySet
    <3> QED
      BY <3>1, <1>1, <1>3, <2>1, <2>2, <2>3 DEF IInv, TypeOK, PlacesAreCounted, Submit, config
  <2>7. VmsAreHeld' /\ NobodyWaitsInside'
    BY <2>1, <1>1, VmsUntouched DEF IInv
  <2>8. RegistryIsSmall'
    BY <1>1 DEF IInv, RegistryIsSmall
  <2> QED
    BY <2>4, <2>5, <2>6, <2>7, <2>8 DEF IInv
<1>4. CASE inAddon < vmSlots /\ Enter(s) /\ Goto(s, "queued") /\ UNCHANGED waiting
  <2>1. /\ In({"waiting"})' = In({"waiting"})
        /\ In({"queued"})' = In({"queued"}) \cup {s} /\ s \notin In({"queued"})
        /\ In({"hash"})' = In({"hash"}) /\ In({"asleep"})' = In({"asleep"})
        /\ In({"leave", "enter", "settle"})' = In({"leave", "enter", "settle"})
        /\ In({"enter"})' = In({"enter"})
    BY <1>1, <1>4 DEF TypeOK, Goto, In
  <2>2. Cardinality(In(Inside))' = Cardinality(In(Inside)) + 1
    BY <1>1, <1>4, GotoMoves, InIsFinite
  <2>3. Cardinality(In(Flying))' = Cardinality(In(Flying)) + 1
    BY <1>1, <1>4, GotoMoves, InIsFinite
  <2>4. TypeOK'
    BY <1>1, <1>4 DEF TypeOK, Goto, Steps, config, Submit, Enter
  <2>5. QueuesHold'
    BY <1>1, <1>4, <2>1, HoldsAppend DEF IInv, QueuesHold, Enter
  <2>6. PlacesAreCounted'
    <3>1. Cardinality(In({"enter"})) = 0
      BY <1>2, FS_EmptySet
    <3>2. waiting = <<>>
      BY <3>1, <1>4 DEF IInv, TypeOK, PlacesAreCounted
    <3> QED
      BY <3>1, <3>2, <1>1, <1>4, <2>1, <2>2, <2>3
      DEF IInv, TypeOK, PlacesAreCounted, Submit, Enter, config
  <2>7. VmsAreHeld' /\ NobodyWaitsInside'
    BY <2>1, <1>1, VmsUntouched DEF IInv
  <2>8. RegistryIsSmall'
    BY <1>1 DEF IInv, RegistryIsSmall
  <2> QED
    BY <2>4, <2>5, <2>6, <2>7, <2>8 DEF IInv
<1> QED
  BY <1>3, <1>4 DEF Submit

\* The addon's callback: the share still has its place.
LEMMA CallBackInv ==
  ASSUME IInv, NEW s \in Shares, CallBack(s)
  PROVE  IInv'
<1> USE DEF Inside, Flying, Running
<1>1. /\ TypeOK /\ pc[s] \in {"back", "failed"} /\ ready = <<>>
      /\ Goto(s, "leave") /\ ready' = <<s>>
      /\ UNCHANGED <<config, inAddon, verifying, waiting, seed, addon>>
  BY DEF IInv, CallBack
<1>2. In({"leave", "enter", "settle"}) = {}
  BY <1>1 DEF IInv, QueuesHold, Holds
<1>3. /\ In(Inside)' = In(Inside) /\ In(Flying)' = In(Flying)
      /\ In({"enter"})' = In({"enter"}) /\ In({"waiting"})' = In({"waiting"})
      /\ In({"queued"})' = In({"queued"}) /\ In({"hash"})' = In({"hash"})
      /\ In({"asleep"})' = In({"asleep"})
  BY <1>1 DEF TypeOK, Goto, In
<1>4. In({"leave", "enter", "settle"})' = {s}
  BY <1>1, <1>2 DEF TypeOK, Goto, In
<1>5. Holds(<<s>>, {s})
  BY DEF Holds
<1>6. TypeOK'
  BY <1>1 DEF TypeOK, Goto, Steps, config, addon
<1>7. QueuesHold'
  BY <1>1, <1>3, <1>4, <1>5 DEF IInv, QueuesHold, addon
<1>8. PlacesAreCounted' /\ RegistryIsSmall'
  BY <1>1, <1>3 DEF IInv, PlacesAreCounted, RegistryIsSmall, config, addon
<1>9. VmsAreHeld' /\ NobodyWaitsInside'
  BY <1>1, <1>3, VmsUntouched DEF IInv, addon
<1> QED
  BY <1>6, <1>7, <1>8, <1>9 DEF IInv

\* The `finally` of _hashWithOneVm: the place given up is promised to the first waiter,
\* so that the places taken and promised stay as many.
LEMMA LeaveInv ==
  ASSUME IInv, NEW s \in Shares, Leave(s)
  PROVE  IInv'
<1> USE DEF Inside, Flying, Running
<1> DEFINE L == {"leave", "enter", "settle"}
<1>1. /\ TypeOK /\ pc[s] = "leave" /\ ready # <<>> /\ Head(ready) = s
      /\ inAddon' = inAddon - 1
      /\ UNCHANGED <<config, verifying, seed, addon>>
  BY DEF IInv, Leave
<1>2. Holds(Tail(ready), In(L) \ {s}) /\ s \in In(L)
  BY <1>1, HoldsTail DEF IInv, QueuesHold
<1>3. CASE waiting = <<>> /\ ready' = Append(Tail(ready), s) /\ Goto(s, "settle") /\ UNCHANGED waiting
  <2>1. /\ In({"waiting"})' = In({"waiting"}) /\ In({"queued"})' = In({"queued"})
        /\ In({"hash"})' = In({"hash"}) /\ In({"asleep"})' = In({"asleep"})
        /\ In({"enter"})' = In({"enter"}) /\ In(Flying)' = In(Flying)
        /\ In(L)' = In(L) /\ In(Inside)' = In(Inside) \ {s} /\ s \in In(Inside)
    BY <1>1, <1>3 DEF TypeOK, Goto, In
  <2>2. Cardinality(In(Inside))' = Cardinality(In(Inside)) - 1
    BY <2>1, FS_RemoveElement, InIsFinite
  <2>3. TypeOK'
    <3>1. inAddon' \in Nat
      <4>1. Cardinality(In(Inside))' \in Nat
        BY <2>1, FS_RemoveElement, FS_CardinalityType, InIsFinite
      <4> QED
        BY <4>1, <1>1, <2>2, InIsFinite DEF IInv, PlacesAreCounted
    <3> QED
      BY <3>1, <1>1, <1>3 DEF TypeOK, Goto, Steps, config, addon
  <2>4. QueuesHold'
    <3>1. Holds(Append(Tail(ready), s), (In(L) \ {s}) \cup {s})
      BY <1>2, HoldsAppend
    <3>2. (In(L) \ {s}) \cup {s} = In(L)
      BY <1>2
    <3> QED
      BY <3>1, <3>2, <2>1, <1>1, <1>3 DEF IInv, QueuesHold, addon
  <2>5. PlacesAreCounted'
    BY <1>1, <1>3, <2>1, <2>2, InIsFinite DEF IInv, TypeOK, PlacesAreCounted, config
  <2>6. VmsAreHeld' /\ NobodyWaitsInside' /\ RegistryIsSmall'
    BY <2>1, <1>1, VmsUntouched DEF IInv, RegistryIsSmall, addon
  <2> QED
    BY <2>3, <2>4, <2>5, <2>6 DEF IInv
<1>4. CASE /\ waiting # <<>> /\ ready' = Tail(ready) \o <<Head(waiting), s>>
           /\ pc' = [pc EXCEPT ![s] = "settle", ![Head(waiting)] = "enter"]
           /\ waiting' = Tail(waiting)
  <2> DEFINE w == Head(waiting)
  <2>1. w \in In({"waiting"}) /\ Holds(Tail(waiting), In({"waiting"}) \ {w})
    BY <1>4, HoldsTail DEF IInv, QueuesHold
  <2>2. w \in Shares /\ pc[w] = "waiting" /\ w # s
    BY <2>1, <1>1 DEF In
  <2> HIDE DEF w
  <2>3. /\ pc' = [pc EXCEPT ![s] = "settle", ![w] = "enter"]
        /\ ready' = Tail(ready) \o <<w, s>> /\ waiting' = Tail(waiting)
    BY <1>4 DEF w
  <2>4. /\ In({"waiting"})' = In({"waiting"}) \ {w} /\ In({"queued"})' = In({"queued"})
        /\ In({"hash"})' = In({"hash"}) /\ In({"asleep"})' = In({"asleep"})
        /\ In({"enter"})' = In({"enter"}) \cup {w} /\ w \notin In({"enter"})
        /\ In(Flying)' = In(Flying) /\ In(L)' = In(L) \cup {w} /\ w \notin In(L)
        /\ In(Inside)' = In(Inside) \ {s} /\ s \in In(Inside)
    BY <1>1, <2>2, <2>3 DEF TypeOK, In
  <2>5. Cardinality(In(Inside))' = Cardinality(In(Inside)) - 1
    BY <2>4, FS_RemoveElement, InIsFinite
  <2>6. Cardinality(In({"enter"}))' = Cardinality(In({"enter"})) + 1
    BY <2>4, FS_AddElement, InIsFinite
  <2>7. TypeOK'
    <3>1. inAddon' \in Nat
      <4>1. Cardinality(In(Inside))' \in Nat
        BY <2>4, FS_RemoveElement, FS_CardinalityType, InIsFinite
      <4> QED
        BY <4>1, <1>1, <2>5, InIsFinite DEF IInv, PlacesAreCounted
    <3>2. pc' \in [Shares -> Steps]
      BY <1>1, <2>2, <2>3 DEF TypeOK, Steps
    <3> QED
      BY <3>1, <3>2, <1>1 DEF TypeOK, config, addon
  <2>8. QueuesHold'
    <3>1. Holds(Append(Append(Tail(ready), w), s), ((In(L) \ {s}) \cup {w}) \cup {s})
      BY <1>2, <2>2, <2>4, HoldsAppend
    <3>2. ((In(L) \ {s}) \cup {w}) \cup {s} = In(L) \cup {w}
      BY <1>2
    <3>3. Append(Append(Tail(ready), w), s) = Tail(ready) \o <<w, s>>
      <4>1. Tail(ready) \in Seq(Shares) /\ w \in Shares
        BY <1>2, <2>2, SeqMonotonic DEF Holds, In
      <4> QED
        BY <4>1
    <3> QED
      BY <3>1, <3>2, <3>3, <2>1, <2>3, <2>4, <1>1 DEF IInv, QueuesHold, addon
  <2>9. PlacesAreCounted'
    BY <1>1, <1>4, <2>4, <2>5, <2>6, InIsFinite, SMTT(60) DEF IInv, TypeOK, PlacesAreCounted, config
  <2>10. VmsAreHeld' /\ NobodyWaitsInside' /\ RegistryIsSmall'
    BY <2>4, <1>1, VmsUntouched DEF IInv, RegistryIsSmall, addon
  <2> QED
    BY <2>7, <2>8, <2>9, <2>10 DEF IInv
<1> QED
  BY <1>3, <1>4 DEF Leave, Goto

\* The woken waiter takes the place it was promised.
LEMMA ResumeInv ==
  ASSUME IInv, NEW s \in Shares, Resume(s)
  PROVE  IInv'
<1> USE DEF Inside, Flying, Running
<1> DEFINE L == {"leave", "enter", "settle"}
<1>1. /\ TypeOK /\ pc[s] = "enter" /\ ready # <<>> /\ Head(ready) = s
      /\ ready' = Tail(ready) /\ Enter(s) /\ Goto(s, "queued")
      /\ UNCHANGED <<config, verifying, waiting, seed, registry, ctx, busy, vm>>
  BY DEF IInv, Resume
<1>2. Holds(Tail(ready), In(L) \ {s})
  BY <1>1, HoldsTail DEF IInv, QueuesHold
<1>3. /\ In({"waiting"})' = In({"waiting"})
      /\ In({"queued"})' = In({"queued"}) \cup {s} /\ s \notin In({"queued"})
      /\ In({"hash"})' = In({"hash"}) /\ In({"asleep"})' = In({"asleep"})
      /\ In(Flying)' = In(Flying) /\ In(L)' = In(L) \ {s}
  BY <1>1 DEF TypeOK, Goto, In
<1>4. Cardinality(In(Inside))' = Cardinality(In(Inside)) + 1
  BY <1>1, GotoMoves, InIsFinite
<1>5. Cardinality(In({"enter"}))' = Cardinality(In({"enter"})) - 1
  BY <1>1, GotoMoves, InIsFinite
<1>6. TypeOK'
  BY <1>1 DEF TypeOK, Goto, Enter, Steps, config
<1>7. QueuesHold'
  <2>1. Holds(waiting', In({"waiting"})')
    BY <1>1, <1>3 DEF IInv, QueuesHold
  <2>2. Holds(libq', In({"queued"})')
    BY <1>1, <1>3, HoldsAppend DEF IInv, QueuesHold, Enter
  <2>3. Holds(ready', In(L)')
    BY <1>1, <1>2, <1>3
  <2> QED
    BY <2>1, <2>2, <2>3 DEF QueuesHold
<1>8. PlacesAreCounted'
  BY <1>1, <1>3, <1>4, <1>5, InIsFinite DEF IInv, TypeOK, PlacesAreCounted, config, Enter
<1>9. VmsAreHeld' /\ NobodyWaitsInside' /\ RegistryIsSmall'
  BY <1>1, <1>3, VmsUntouched DEF IInv, RegistryIsSmall
<1> QED
  BY <1>6, <1>7, <1>8, <1>9 DEF IInv

\* The `finally` of processShare: one verification less.
LEMMA SettleInv ==
  ASSUME IInv, NEW s \in Shares, Settle(s)
  PROVE  IInv'
<1> USE DEF Inside, Flying, Running
<1> DEFINE L == {"leave", "enter", "settle"}
<1>1. /\ TypeOK /\ pc[s] = "settle" /\ ready # <<>> /\ Head(ready) = s
      /\ ready' = Tail(ready) /\ verifying' = verifying - 1 /\ Goto(s, "done")
      /\ UNCHANGED <<config, inAddon, waiting, seed, addon>>
  BY DEF IInv, Settle
<1>2. Holds(Tail(ready), In(L) \ {s})
  BY <1>1, HoldsTail DEF IInv, QueuesHold
<1>3. /\ In({"waiting"})' = In({"waiting"}) /\ In({"queued"})' = In({"queued"})
      /\ In({"hash"})' = In({"hash"}) /\ In({"asleep"})' = In({"asleep"})
      /\ In({"enter"})' = In({"enter"}) /\ In(Inside)' = In(Inside)
      /\ In(L)' = In(L) \ {s} /\ In(Flying)' = In(Flying) \ {s} /\ s \in In(Flying)
  BY <1>1 DEF TypeOK, Goto, In
<1>4. Cardinality(In(Flying))' = Cardinality(In(Flying)) - 1
      /\ Cardinality(In(Flying))' \in Nat
  BY <1>3, FS_RemoveElement, FS_CardinalityType, InIsFinite
<1>5. TypeOK'
  BY <1>1, <1>4 DEF IInv, TypeOK, PlacesAreCounted, Goto, Steps, config, addon
<1>6. QueuesHold'
  BY <1>1, <1>2, <1>3 DEF IInv, QueuesHold, addon
<1>7. PlacesAreCounted'
  BY <1>1, <1>3, <1>4 DEF IInv, PlacesAreCounted, config
<1>8. VmsAreHeld' /\ NobodyWaitsInside' /\ RegistryIsSmall'
  BY <1>1, <1>3, VmsUntouched DEF IInv, RegistryIsSmall, addon
<1> QED
  BY <1>5, <1>6, <1>7, <1>8 DEF IInv

\* A worker that gets a thread keeps its place.
LEMMA DispatchInv ==
  ASSUME IInv, Dispatch
  PROVE  IInv'
<1> USE DEF Inside, Flying, Running
<1> DEFINE L == {"leave", "enter", "settle"}
           s == Head(libq)
<1>1. s \in In({"queued"}) /\ Holds(Tail(libq), In({"queued"}) \ {s})
  BY HoldsTail DEF IInv, QueuesHold, Dispatch
<1>2. /\ TypeOK /\ s \in Shares /\ pc[s] = "queued"
      /\ Goto(s, "context") /\ libq' = Tail(libq)
      /\ UNCHANGED <<config, loop, seed, registry, ctx, busy, vm>>
  BY <1>1 DEF IInv, Dispatch, In
<1> HIDE DEF s
<1>3. /\ In({"waiting"})' = In({"waiting"}) /\ In({"queued"})' = In({"queued"}) \ {s}
      /\ In({"hash"})' = In({"hash"}) /\ In({"asleep"})' = In({"asleep"})
      /\ In({"enter"})' = In({"enter"}) /\ In(Inside)' = In(Inside)
      /\ In(L)' = In(L) /\ In(Flying)' = In(Flying)
  BY <1>2 DEF TypeOK, Goto, In
<1>4. TypeOK'
  BY <1>2 DEF TypeOK, Goto, Steps, config, loop
<1>5. QueuesHold' /\ PlacesAreCounted'
  BY <1>1, <1>2, <1>3 DEF IInv, QueuesHold, PlacesAreCounted, config, loop
<1>6. VmsAreHeld' /\ NobodyWaitsInside' /\ RegistryIsSmall'
  BY <1>2, <1>3, VmsUntouched DEF IInv, RegistryIsSmall
<1> QED
  BY <1>4, <1>5, <1>6 DEF IInv

\* GetContext of randomx_binding.cc: the registry drops one seed before it takes another.
LEMMA GetContextInv ==
  ASSUME IInv, NEW s \in Shares, GetContext(s)
  PROVE  IInv'
<1> USE DEF Inside, Flying, Running
<1> DEFINE L == {"leave", "enter", "settle"}
<1>1. /\ TypeOK /\ pc[s] = "context" /\ (Goto(s, "acquire") \/ Goto(s, "failed"))
      /\ UNCHANGED <<config, loop, seed, libq, busy, vm>>
      /\ ctx' \in [Shares -> Shares] /\ \A t \in Shares : t # s => ctx'[t] = ctx[t]
  <2>1. TypeOK /\ UNCHANGED <<config, loop, seed, libq, busy, vm>> /\ pc[s] = "context"
        /\ (Goto(s, "acquire") \/ Goto(s, "failed"))
    BY DEF IInv, GetContext
  <2>2. seed[s] \in DOMAIN registry => registry[seed[s]] \in Shares
    BY <2>1 DEF TypeOK
  <2> QED
    BY <2>1, <2>2 DEF GetContext, TypeOK
<1>2. /\ In({"waiting"})' = In({"waiting"}) /\ In({"queued"})' = In({"queued"})
      /\ In({"hash"})' = In({"hash"}) /\ In({"asleep"})' = In({"asleep"})
      /\ In({"enter"})' = In({"enter"}) /\ In(Inside)' = In(Inside)
      /\ In(L)' = In(L) /\ In(Flying)' = In(Flying) /\ s \notin In({"hash"})
  BY <1>1 DEF TypeOK, Goto, In
<1>3. /\ DOMAIN Evicted \subseteq DOMAIN registry /\ IsFiniteSet(DOMAIN Evicted)
      /\ Cardinality(DOMAIN Evicted) \in Nat /\ Cardinality(DOMAIN Evicted) < MaxSeeds
      /\ \A k \in DOMAIN Evicted : Evicted[k] \in Shares
  <2>1. /\ IsFiniteSet(DOMAIN registry) /\ Cardinality(DOMAIN registry) \in Nat
        /\ Cardinality(DOMAIN registry) <= MaxSeeds /\ MaxSeeds \in Nat \ {0}
        /\ \A k \in DOMAIN registry : registry[k] \in Shares
    BY <1>1, FS_CardinalityType, ConstantsAssumption DEF IInv, RegistryIsSmall, TypeOK
  <2>2. CASE Cardinality(DOMAIN registry) < MaxSeeds
    BY <2>1, <2>2 DEF Evicted
  <2>3. CASE ~(Cardinality(DOMAIN registry) < MaxSeeds)
    <3> DEFINE m == Min(DOMAIN registry)
               kept == DOMAIN registry \ {m}
    <3>1. DOMAIN registry # {}
      BY <2>1, <2>3, FS_EmptySet
    <3>2. m \in DOMAIN registry
      BY <3>1, <1>1, MinIsIn, ConstantsAssumption DEF TypeOK
    <3>3. Evicted = [k \in kept |-> registry[k]]
      BY <2>3 DEF Evicted, Restrict
    <3>4. IsFiniteSet(kept) /\ Cardinality(kept) = Cardinality(DOMAIN registry) - 1
      BY <3>2, <2>1, FS_RemoveElement
    <3>5. Cardinality(kept) \in Nat
      BY <3>4, FS_CardinalityType
    <3> HIDE DEF m
    <3> QED
      BY <3>3, <3>4, <3>5, <2>1
  <2> QED
    BY <2>2, <2>3
<1>4. /\ DOMAIN registry' \subseteq Seeds /\ IsFiniteSet(DOMAIN registry')
      /\ \A k \in DOMAIN registry' : registry'[k] \in Shares
      /\ Cardinality(DOMAIN registry') <= MaxSeeds
  <2>1. CASE UNCHANGED registry
    BY <2>1, <1>1 DEF IInv, TypeOK, RegistryIsSmall
  <2>2. CASE registry' = Evicted
    BY <2>2, <1>1, <1>3, ConstantsAssumption DEF TypeOK
  <2>3. CASE registry' = [k \in DOMAIN Evicted \cup {seed[s]} |->
                            IF k = seed[s] THEN s ELSE Evicted[k]]
    <3>1. DOMAIN registry' = DOMAIN Evicted \cup {seed[s]} /\ seed[s] \in Seeds
      BY <2>3, <1>1 DEF TypeOK
    <3>2. /\ IsFiniteSet(DOMAIN Evicted \cup {seed[s]})
          /\ Cardinality(DOMAIN Evicted \cup {seed[s]}) <= Cardinality(DOMAIN Evicted) + 1
      BY <1>3, FS_AddElement
    <3>3. Cardinality(DOMAIN registry') <= MaxSeeds
      <4>1. Cardinality(DOMAIN registry') \in Nat
        BY <3>1, <3>2, FS_CardinalityType
      <4> QED
        BY <4>1, <3>1, <3>2, <1>3, ConstantsAssumption
    <3>4. \A k \in DOMAIN registry' : registry'[k] \in Shares
      BY <2>3, <3>1, <1>3
    <3> QED
      BY <3>1, <3>2, <3>3, <3>4, <1>1, <1>3 DEF TypeOK
  <2> QED
    BY <2>1, <2>2, <2>3 DEF GetContext
<1>5. TypeOK'
  BY <1>1, <1>4 DEF TypeOK, Goto, Steps, config, loop
<1>6. QueuesHold' /\ PlacesAreCounted'
  BY <1>1, <1>2 DEF IInv, QueuesHold, PlacesAreCounted, config, loop
<1>7. VmsAreHeld'
  <2>1. \A t \in In({"hash"}) : t \in Shares /\ ctx'[t] = ctx[t]
    BY <1>1, <1>2 DEF In
  <2> QED
    BY <2>1, <1>1, <1>2 DEF IInv, VmsAreHeld, VmIsExclusive
<1>8. NobodyWaitsInside' /\ RegistryIsSmall'
  BY <1>1, <1>2, <1>4 DEF IInv, NobodyWaitsInside, RegistryIsSmall, config
<1> QED
  BY <1>5, <1>6, <1>7, <1>8 DEF IInv

\* What a thread does with the VMs of its context disturbs no queue and no count.
LEMMA VmStep ==
  ASSUME IInv, NEW s \in Shares, pc[s] \in Running, NEW step \in Running \cup {"back"},
         Goto(s, step), UNCHANGED <<config, loop, seed, libq, registry, ctx>>
  PROVE  TypeOK' /\ QueuesHold' /\ PlacesAreCounted' /\ RegistryIsSmall'
<1> USE DEF Inside, Flying, Running
<1> DEFINE L == {"leave", "enter", "settle"}
<1>1. /\ In({"waiting"})' = In({"waiting"}) /\ In({"queued"})' = In({"queued"})
      /\ In({"enter"})' = In({"enter"}) /\ In(Inside)' = In(Inside)
      /\ In(L)' = In(L) /\ In(Flying)' = In(Flying)
  BY DEF IInv, TypeOK, Goto, In
<1>2. TypeOK'
  BY DEF IInv, TypeOK, Goto, Steps, config, loop
<1>3. QueuesHold' /\ PlacesAreCounted' /\ RegistryIsSmall'
  BY <1>1 DEF IInv, QueuesHold, PlacesAreCounted, RegistryIsSmall, config, loop
<1> QED
  BY <1>2, <1>3

\* acquire(): the VM taken was nobody's.
LEMMA AcquireInv ==
  ASSUME IInv, NEW s \in Shares, Acquire(s)
  PROVE  IInv'
<1>1. /\ TypeOK /\ pc[s] \in {"acquire", "woken"} /\ Goto(s, "hash")
      /\ Free(ctx[s]) # {} /\ vm' = [vm EXCEPT ![s] = Min(Free(ctx[s]))]
      /\ busy' = [busy EXCEPT ![ctx[s]] = @ \cup {Min(Free(ctx[s]))}]
      /\ UNCHANGED <<config, loop, seed, libq, registry, ctx>>
  BY DEF IInv, Acquire
<1>2. TypeOK' /\ QueuesHold' /\ PlacesAreCounted' /\ RegistryIsSmall'
  BY <1>1, VmStep DEF Running
<1>3. PICK v \in Nat : v = Min(Free(ctx[s])) /\ v \notin busy[ctx[s]]
  <2>1. Free(ctx[s]) \subseteq Nat
    BY <1>1 DEF TypeOK, Free
  <2> QED
    BY <2>1, <1>1, MinIsIn DEF Free
<1>4. /\ vm' = [vm EXCEPT ![s] = v] /\ ctx' = ctx /\ ctx \in [Shares -> Shares]
      /\ busy' = [busy EXCEPT ![ctx[s]] = @ \cup {v}]
      /\ In({"hash"})' = In({"hash"}) \cup {s} /\ s \notin In({"hash"})
  BY <1>1, <1>3 DEF TypeOK, Goto, In
<1>5. VmsAreHeld'
  <2>1. busy' \in [Shares -> SUBSET Nat] /\ vm' \in [Shares -> Nat]
    BY <1>4 DEF IInv, VmsAreHeld
  <2>2. \A t \in In({"hash"}) : t \in Shares /\ t # s /\ vm'[t] = vm[t] /\ vm[t] \in busy[ctx[t]]
    BY <1>4 DEF IInv, VmsAreHeld, In
  <2>3. vm'[s] = v /\ v \in busy'[ctx[s]] /\ \A c \in Shares : busy[c] \subseteq busy'[c]
    BY <1>4 DEF IInv, VmsAreHeld
  <2>4. \A t \in In({"hash"})' : vm'[t] \in busy'[ctx'[t]]
    BY <1>4, <2>2, <2>3
  <2>5. \A c \in Shares : \A u \in busy'[c] :
          \E t \in In({"hash"})' : ctx'[t] = c /\ vm'[t] = u
    <3> SUFFICES ASSUME NEW c \in Shares, NEW u \in busy'[c]
                 PROVE  \E t \in In({"hash"})' : ctx'[t] = c /\ vm'[t] = u
      OBVIOUS
    <3>1. CASE u \in busy[c]
      BY <3>1, <1>4, <2>2 DEF IInv, VmsAreHeld
    <3>2. CASE u \notin busy[c]
      <4>1. c = ctx[s] /\ u = v
        BY <3>2, <1>4 DEF IInv, VmsAreHeld
      <4> QED
        BY <4>1, <1>4, <2>3
    <3> QED
      BY <3>1, <3>2
  <2>6. VmIsExclusive'
    BY <1>3, <1>4, <2>2, <2>3 DEF IInv, VmsAreHeld, VmIsExclusive
  <2> QED
    BY <2>1, <2>4, <2>5, <2>6 DEF VmsAreHeld
<1>6. NobodyWaitsInside'
  BY <1>1 DEF IInv, NobodyWaitsInside, TypeOK, Goto, In, config
<1> QED
  BY <1>2, <1>5, <1>6 DEF IInv

\* While both sides read the setting alike, a thread that wants a VM finds one: the
\* busy VMs of its context are those of other threads, and there are fewer of these
\* than places.
LEMMA VmIsFree ==
  ASSUME IInv, vmSlots = vmCount, NEW s \in Shares, pc[s] \in {"acquire", "woken"}
  PROVE  Free(ctx[s]) # {}
<1> SUFFICES ASSUME Free(ctx[s]) = {} PROVE FALSE
  OBVIOUS
<1> DEFINE c == ctx[s]
           V == 1..vmCount
           H == In({"hash"})
           holder == [v \in V |-> CHOOSE t \in H : ctx[t] = c /\ vm[t] = v]
<1>1. c \in Shares /\ vmCount \in Nat /\ vmSlots \in Nat /\ inAddon \in Nat
  BY DEF IInv, TypeOK
<1>2. \A v \in V : \E t \in H : ctx[t] = c /\ vm[t] = v
  BY <1>1 DEF IInv, VmsAreHeld, Free
<1>3. \A v \in V : holder[v] \in H /\ vm[holder[v]] = v
  BY <1>2
<1> HIDE DEF holder
<1>4. holder \in Injection(V, H)
  <2>1. holder \in [V -> H]
    BY <1>3 DEF holder
  <2> QED
    BY <2>1, <1>3 DEF Injection, IsInjective
<1>5. Cardinality(V) <= Cardinality(H) /\ Cardinality(V) = vmCount
  BY <1>1, <1>4, FS_Injection, FS_Interval, InIsFinite
<1>6. H \subseteq In(Inside) \ {s} /\ s \in In(Inside)
  BY DEF In, Inside, Running
<1>7. Cardinality(H) <= Cardinality(In(Inside)) - 1
  <2>1. /\ IsFiniteSet(In(Inside) \ {s})
        /\ Cardinality(In(Inside) \ {s}) = Cardinality(In(Inside)) - 1
    BY <1>6, InIsFinite, FS_RemoveElement
  <2>2. Cardinality(H) <= Cardinality(In(Inside) \ {s})
    BY <2>1, <1>6, FS_Subset
  <2> QED
    BY <2>1, <2>2
<1>8. Cardinality(In(Inside)) <= vmSlots
  <2>1. Cardinality(In({"enter"})) \in Nat
    BY InIsFinite
  <2> QED
    BY <2>1, <1>1 DEF IInv, PlacesAreCounted
<1> QED
  BY <1>1, <1>5, <1>7, <1>8, InIsFinite

\* The wait of acquire(): only where the addon took another number of VMs than the setting.
LEMMA SleepInv ==
  ASSUME IInv, NEW s \in Shares, Sleep(s)
  PROVE  IInv'
<1>1. /\ TypeOK /\ pc[s] \in {"acquire", "woken"} /\ Goto(s, "asleep") /\ Free(ctx[s]) = {}
      /\ UNCHANGED <<config, loop, seed, addon>>
  BY DEF IInv, Sleep
<1>2. TypeOK' /\ QueuesHold' /\ PlacesAreCounted' /\ RegistryIsSmall'
  BY <1>1, VmStep DEF Running, addon
<1>3. vmSlots # vmCount
  BY <1>1, VmIsFree
<1>4. In({"hash"})' = In({"hash"})
  BY <1>1 DEF TypeOK, Goto, In
<1>5. VmsAreHeld' /\ NobodyWaitsInside'
  BY <1>1, <1>3, <1>4 DEF IInv, VmsAreHeld, VmIsExclusive, NobodyWaitsInside, config, addon
<1> QED
  BY <1>2, <1>5 DEF IInv

\* release(): the VM given up was of this thread alone.
LEMMA ReleaseInv ==
  ASSUME IInv, NEW s \in Shares, Release(s)
  PROVE  IInv'
<1>1. /\ TypeOK /\ pc[s] = "hash" /\ Goto(s, "notify")
      /\ busy' = [busy EXCEPT ![ctx[s]] = @ \ {vm[s]}]
      /\ UNCHANGED <<config, loop, seed, libq, registry, ctx, vm>>
  BY DEF IInv, Release
<1>2. TypeOK' /\ QueuesHold' /\ PlacesAreCounted' /\ RegistryIsSmall'
  BY <1>1, VmStep DEF Running
<1>3. /\ In({"hash"})' = In({"hash"}) \ {s} /\ s \in In({"hash"})
      /\ ctx \in [Shares -> Shares] /\ \A t \in In({"hash"}) : t \in Shares
  BY <1>1 DEF TypeOK, Goto, In
<1>4. VmsAreHeld'
  <2>1. /\ busy \in [Shares -> SUBSET Nat] /\ vm \in [Shares -> Nat]
        /\ \A t \in In({"hash"}) : vm[t] \in busy[ctx[t]]
        /\ \A c \in Shares : \A v \in busy[c] :
             \E t \in In({"hash"}) : ctx[t] = c /\ vm[t] = v
        /\ \A t, u \in In({"hash"}) : t # u => <<ctx[t], vm[t]>> # <<ctx[u], vm[u]>>
    BY DEF IInv, VmsAreHeld, VmIsExclusive
  <2>2. /\ vm' = vm /\ ctx' = ctx /\ ctx[s] \in Shares /\ busy' \in [Shares -> SUBSET Nat]
        /\ busy'[ctx[s]] = busy[ctx[s]] \ {vm[s]}
        /\ \A c \in Shares : c # ctx[s] => busy'[c] = busy[c]
    BY <1>1, <1>3, <2>1
  <2>3. \A t \in In({"hash"}) \ {s} : vm[t] \in busy'[ctx[t]]
    <3> SUFFICES ASSUME NEW t \in In({"hash"}), t # s PROVE vm[t] \in busy'[ctx[t]]
      OBVIOUS
    <3>1. vm[t] \in busy[ctx[t]] /\ ctx[t] \in Shares
      BY <1>3, <2>1
    <3>2. CASE ctx[t] = ctx[s]
      <4>1. vm[t] # vm[s]
        BY <1>3, <2>1, <3>2
      <4> QED
        BY <2>2, <3>1, <3>2, <4>1
    <3> QED
      BY <2>2, <3>1, <3>2
  <2>4. \A c \in Shares : \A v \in busy'[c] :
          \E t \in In({"hash"}) \ {s} : ctx[t] = c /\ vm[t] = v
    <3> SUFFICES ASSUME NEW c \in Shares, NEW v \in busy'[c]
                 PROVE  \E t \in In({"hash"}) \ {s} : ctx[t] = c /\ vm[t] = v
      OBVIOUS
    <3>1. v \in busy[c] /\ ~(c = ctx[s] /\ v = vm[s])
      BY <2>2
    <3>2. PICK t \in In({"hash"}) : ctx[t] = c /\ vm[t] = v
      BY <2>1, <3>1
    <3> QED
      BY <3>1, <3>2
  <2>5. \A t, u \in In({"hash"})' : t # u => <<ctx'[t], vm'[t]>> # <<ctx'[u], vm'[u]>>
    BY <1>3, <2>1, <2>2
  <2> QED
    BY <1>3, <2>1, <2>2, <2>3, <2>4, <2>5 DEF VmsAreHeld, VmIsExclusive
<1>5. NobodyWaitsInside'
  BY <1>1 DEF IInv, NobodyWaitsInside, TypeOK, Goto, In, config
<1> QED
  BY <1>2, <1>4, <1>5 DEF IInv

\* notify_one: a sleeper is woken, and holds nothing yet.
LEMMA NotifyInv ==
  ASSUME IInv, NEW s \in Shares, Notify(s)
  PROVE  IInv'
<1> USE DEF Inside, Flying, Running
<1> DEFINE L == {"leave", "enter", "settle"}
<1>1. TypeOK /\ pc[s] = "notify" /\ UNCHANGED <<config, loop, seed, addon>>
  BY DEF IInv, Notify
<1>2. /\ In({"waiting"})' = In({"waiting"}) /\ In({"queued"})' = In({"queued"})
      /\ In({"enter"})' = In({"enter"}) /\ In(Inside)' = In(Inside)
      /\ In(L)' = In(L) /\ In(Flying)' = In(Flying) /\ In({"hash"})' = In({"hash"})
      /\ In({"asleep"})' \subseteq In({"asleep"}) /\ pc' \in [Shares -> Steps]
  <2>1. CASE Goto(s, "back")
    BY <2>1, <1>1 DEF TypeOK, Goto, In, Steps
  <2>2. CASE \E t \in Asleep(ctx[s]) : pc' = [pc EXCEPT ![s] = "back", ![t] = "woken"]
    <3>1. PICK t \in Shares : /\ pc[t] = "asleep"
                              /\ pc' = [pc EXCEPT ![s] = "back", ![t] = "woken"]
      BY <2>2 DEF Asleep
    <3> QED
      BY <3>1, <1>1 DEF TypeOK, In, Steps
  <2> QED
    BY <2>1, <2>2 DEF Notify
<1>3. TypeOK'
  BY <1>1, <1>2 DEF TypeOK, config, loop, addon
<1>4. QueuesHold' /\ PlacesAreCounted' /\ RegistryIsSmall'
  BY <1>1, <1>2 DEF IInv, QueuesHold, PlacesAreCounted, RegistryIsSmall, config, loop, addon
<1>5. VmsAreHeld' /\ NobodyWaitsInside'
  BY <1>1, <1>2, VmsUntouched DEF IInv, addon
<1> QED
  BY <1>3, <1>4, <1>5 DEF IInv

\* Every step of the event loop and of the threads keeps the invariant.
LEMMA NextInv == IInv /\ [Next]_vars => IInv'
<1> SUFFICES ASSUME IInv, [Next]_vars PROVE IInv'
  OBVIOUS
<1>1. CASE UNCHANGED vars
  BY <1>1 DEF IInv, TypeOK, QueuesHold, PlacesAreCounted, VmsAreHeld, VmIsExclusive,
      NobodyWaitsInside, RegistryIsSmall, In, vars, config, loop, addon
<1>2. CASE Dispatch
  BY <1>2, DispatchInv
<1>3. ASSUME NEW s \in Shares, Refuse(s) \/ Submit(s) \/ Script(s) \/ Thread(s)
      PROVE  IInv'
  BY <1>3, RefuseInv, SubmitInv, CallBackInv, LeaveInv, ResumeInv, SettleInv,
      GetContextInv, AcquireInv, SleepInv, ReleaseInv, NotifyInv DEF Script, Thread
<1> QED
  BY <1>1, <1>2, <1>3 DEF Next

-----------------------------------------------------------------------------
\* The invariant of _hashWithOneVm's counts and queues and of the addon's VMs holds in
\* every state.
THEOREM InvariantHolds == Spec => []IInv
  BY InitInv, NextInv, PTL DEF Spec

\* Two threads of the addon never compute on the same VM (acquire and release of
\* randomx_binding.cc).
THEOREM NoVmIsShared == Spec => []VmIsExclusive
<1>1. IInv => VmIsExclusive
  BY DEF IInv, VmsAreHeld
<1> QED
  BY <1>1, InvariantHolds, PTL

\* _inAddon and _verifying are exact, a share waits only for a place that is taken, the registry
\* keeps to its size, and with one reading of the setting no thread ever waits on a VM.
THEOREM PlacesAreKept == Spec => []PlacesAreUsed
<1>1. IInv => PlacesAreUsed
  BY DEF IInv, PlacesAreCounted, NobodyWaitsInside, RegistryIsSmall, PlacesAreUsed
<1> QED
  BY <1>1, InvariantHolds, PTL
=============================================================================
