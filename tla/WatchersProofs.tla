--------------------------- MODULE WatchersProofs ---------------------------
(*****************************************************************************)
(* The programs that watch, for any number of units, seeds, hosts, releases  *)
(* and branches, any thresholds and any number of failures.  What each of    *)
(* them says or shows is compared with what it was told, and the invariant   *)
(* follows what a run has read while the world goes on: a decision is taken  *)
(* on what was true when it was read, and is about no more than that.        *)
(*****************************************************************************)
EXTENDS Watchers, SumProofs, SequenceTheorems, TLAPS

-----------------------------------------------------------------------------
(* unit_alert.py.                                                           *)

\* A text that some alerter wrote, or would write: of each unit, when a message of it
\* was last to be sent.
IsMemory(text, ds) ==
  /\ text \in [Units -> Int]
  /\ \A u \in Units : text[u] = -COOLDOWN \/ <<u, text[u]>> \in ds

IsAlerter(x, ds) ==
  \/ x = NotRunning \/ x = [pc |-> "send"]
  \/ /\ x = [pc |-> "load", unit |-> x.unit, at |-> x.at]
     /\ x.unit \in Units /\ x.at \in Nat
  \/ /\ x = [pc |-> "open", unit |-> x.unit, at |-> x.at, text |-> x.text, send |-> x.send]
     /\ x.unit \in Units /\ x.at \in Nat /\ IsMemory(x.text, ds)
  \/ /\ x = [pc |-> x.pc, unit |-> x.unit, at |-> x.at, text |-> x.text, send |-> x.send,
             file |-> x.file]
     /\ x.pc \in {"write", "replace"} /\ x.file \in Inodes
     /\ x.unit \in Units /\ x.at \in Nat /\ IsMemory(x.text, ds)

UnitInv ==
  /\ clock \in Nat
  /\ names \in [state : Inodes \cup {None}, tmp : Inodes \cup {None}]
  /\ inodes = [i \in Inodes |-> inodes[i]]
  /\ \A i \in Inodes : inodes[i] = Torn \/ IsMemory(inodes[i], decided)
  /\ alerters = [a \in Alerters |-> alerters[a]]
  /\ \A a \in Alerters : IsAlerter(alerters[a], decided)
  /\ QuietIsBounded

LEMMA UnitInvInit == UnitInit => UnitInv
BY DEF UnitInit, UnitInv, IsAlerter, QuietIsBounded

\* What was a memory stays one as more is decided.
LEMMA MemoriesStay ==
  ASSUME NEW ds, NEW es, ds \subseteq es, NEW text, IsMemory(text, ds)
  PROVE  IsMemory(text, es)
BY DEF IsMemory

LEMMA AlertersStay ==
  ASSUME NEW ds, NEW es, ds \subseteq es, NEW x, IsAlerter(x, ds)
  PROVE  IsAlerter(x, es)
<1>1. IsMemory(x.text, ds) => IsMemory(x.text, es)
  BY MemoriesStay
<1> QED
  BY <1>1 DEF IsAlerter

\* One alerter moves, its memory among those that were decided.
LEMMA OneMoves ==
  ASSUME UnitInv, NEW a \in Alerters, NEW x, alerters' = [alerters EXCEPT ![a] = x],
         decided \subseteq decided', IsAlerter(x, decided')
  PROVE  /\ alerters' = [b \in Alerters |-> alerters'[b]]
         /\ \A b \in Alerters : IsAlerter(alerters'[b], decided')
<1>1. alerters = [b \in Alerters |-> alerters[b]]
  BY DEF UnitInv
<1>2. alerters' = [b \in Alerters |-> alerters'[b]] /\ alerters'[a] = x
  BY <1>1
<1>3. ASSUME NEW b \in Alerters PROVE IsAlerter(alerters'[b], decided')
  <2>1. CASE b = a
    BY <1>2, <2>1
  <2>2. CASE b # a
    <3>1. alerters'[b] = alerters[b]
      BY <1>1, <2>2
    <3>2. IsAlerter(alerters[b], decided)
      BY DEF UnitInv
    <3> QED
      BY <3>1, <3>2, AlertersStay
  <2> QED
    BY <2>1, <2>2
<1> QED
  BY <1>2, <1>3

\* What is read is a memory, and so is what is made of it.
LEMMA DueKeeps ==
  ASSUME UnitInv, NEW a \in Alerters, due(a)
  PROVE  UnitInv'
<1> USE UnitAssumption
<1> DEFINE me == alerters[a]
           memory == Text
           next == Remember(memory, me.unit, me.at)
           x == [pc |-> "open", unit |-> me.unit, at |-> me.at, text |-> next,
                 send |-> me.at - memory[me.unit] >= COOLDOWN]
<1>1. me.unit \in Units /\ me.at \in Nat
  BY DEF due, UnitInv, IsAlerter, NotRunning
<1>2. IsMemory(memory, decided)
  <2>1. IsMemory(NoMemory, decided)
    BY DEF IsMemory, NoMemory
  <2> QED
    BY <2>1 DEF Text, UnitInv
<1>3. /\ alerters' = [alerters EXCEPT ![a] = x]
      /\ IF me.at - memory[me.unit] >= COOLDOWN
         THEN decided' = decided \cup {<<me.unit, me.at>>} /\ UNCHANGED hushed
         ELSE hushed' = hushed \cup {<<me.unit, me.at>>} /\ UNCHANGED decided
      /\ UNCHANGED <<clock, names, inodes>>
  BY DEF due
<1> HIDE DEF memory
<1>4. IsMemory(next, decided')
  <2>1. CASE me.at - memory[me.unit] >= COOLDOWN
    <3>1. next = [memory EXCEPT ![me.unit] = me.at]
      BY <2>1 DEF Remember
    <3>2. next \in [Units -> Int] /\ next[me.unit] = me.at
      BY <1>1, <1>2, <3>1 DEF IsMemory
    <3>3. \A u \in Units \ {me.unit} : next[u] = memory[u]
      BY <1>1, <1>2, <3>1 DEF IsMemory
    <3>4. decided' = decided \cup {<<me.unit, me.at>>}
      BY <1>3, <2>1
    <3> HIDE DEF next, me
    <3> QED
      BY <1>2, <3>2, <3>3, <3>4 DEF IsMemory
  <2>2. CASE ~(me.at - memory[me.unit] >= COOLDOWN)
    <3>1. next = memory /\ decided' = decided
      BY <1>3, <2>2 DEF Remember
    <3> QED
      BY <1>2, <3>1 DEF IsMemory
  <2> QED
    BY <2>1, <2>2
<1>5. decided \subseteq decided'
  BY <1>3
<1>6. IsAlerter(x, decided')
  <2> HIDE DEF next, me
  <2> QED
    BY <1>1, <1>4 DEF IsAlerter, IsMemory
<1>7. QuietIsBounded'
  <2>1. CASE me.at - memory[me.unit] >= COOLDOWN
    BY <1>3, <1>5, <2>1 DEF UnitInv, QuietIsBounded
  <2>2. CASE ~(me.at - memory[me.unit] >= COOLDOWN)
    <3>1. memory[me.unit] \in Int
      BY <1>1, <1>2 DEF IsMemory
    <3>2. memory[me.unit] # -COOLDOWN
      BY <1>1, <2>2, <3>1
    <3>3. <<me.unit, memory[me.unit]>> \in decided
      BY <1>1, <1>2, <3>2 DEF IsMemory
    <3>4. me.at - memory[me.unit] < COOLDOWN
      BY <1>1, <2>2, <3>1
    <3>5. decided' = decided /\ hushed' = hushed \cup {<<me.unit, me.at>>}
      BY <1>3, <2>2
    <3> HIDE DEF me
    <3> QED
      BY <3>3, <3>4, <3>5 DEF UnitInv, QuietIsBounded
  <2> QED
    BY <2>1, <2>2
<1>8. \A i \in Inodes : inodes'[i] = Torn \/ IsMemory(inodes'[i], decided')
  BY <1>3, <1>5, MemoriesStay DEF UnitInv, Inodes
<1> HIDE DEF x
<1> QED
  BY <1>3, <1>5, <1>6, <1>7, <1>8, OneMoves DEF UnitInv, Inodes

LEMMA FilesKeep ==
  ASSUME UnitInv, NEW a \in Alerters,
         OpenTmp(a) \/ WriteTmp(a) \/ ReplaceTmp(a) \/ AlerterSends(a)
  PROVE  UnitInv'
<1>1. CASE OpenTmp(a)
  <2>1. PICK i \in Inodes :
          /\ names' = [names EXCEPT !.tmp = i]
          /\ inodes' = [inodes EXCEPT ![i] = Torn]
          /\ alerters' = [alerters EXCEPT ![a] =
               [pc |-> "write", unit |-> @.unit, at |-> @.at, text |-> @.text,
                send |-> @.send, file |-> i]]
    BY <1>1 DEF OpenTmp
  <2>2. decided' = decided /\ hushed' = hushed /\ clock' = clock
    BY <1>1 DEF OpenTmp
  <2> DEFINE x == [pc |-> "write", unit |-> alerters[a].unit, at |-> alerters[a].at,
                   text |-> alerters[a].text, send |-> alerters[a].send, file |-> i]
  <2>3. alerters[a].unit \in Units /\ alerters[a].at \in Nat /\ IsMemory(alerters[a].text, decided)
    BY <1>1 DEF OpenTmp, UnitInv, IsAlerter, NotRunning
  <2>4. IsAlerter(x, decided')
    BY <2>2, <2>3 DEF IsAlerter, IsMemory, Inodes
  <2>5. alerters' = [alerters EXCEPT ![a] = x]
    BY <2>1 DEF UnitInv
  <2>6. \A j \in Inodes : inodes'[j] = Torn \/ IsMemory(inodes'[j], decided')
    BY <2>1, <2>2 DEF UnitInv, IsMemory, Inodes
  <2>7. names' \in [state : Inodes \cup {None}, tmp : Inodes \cup {None}]
    BY <2>1 DEF UnitInv
  <2>8. inodes' = [j \in Inodes |-> inodes'[j]]
    BY <2>1 DEF UnitInv
  <2> HIDE DEF x
  <2> QED
    BY <2>2, <2>4, <2>5, <2>6, <2>7, <2>8, OneMoves DEF UnitInv, Inodes, QuietIsBounded
<1>2. CASE WriteTmp(a)
  <2>1. /\ alerters[a] = [pc |-> "write", unit |-> alerters[a].unit, at |-> alerters[a].at,
                          text |-> alerters[a].text, send |-> alerters[a].send,
                          file |-> alerters[a].file]
        /\ alerters[a].file \in Inodes
        /\ alerters[a].unit \in Units /\ alerters[a].at \in Nat /\ IsMemory(alerters[a].text, decided)
    BY <1>2 DEF WriteTmp, UnitInv, IsAlerter, NotRunning
  <2>2. decided' = decided /\ hushed' = hushed /\ clock' = clock /\ names' = names
    BY <1>2 DEF WriteTmp
  <2>3. PICK text \in {Torn, alerters[a].text} :
          inodes' = [inodes EXCEPT ![alerters[a].file] = text]
    BY <1>2 DEF WriteTmp
  <2> DEFINE x == [pc |-> "replace", unit |-> alerters[a].unit, at |-> alerters[a].at,
                   text |-> alerters[a].text, send |-> alerters[a].send,
                   file |-> alerters[a].file]
  <2>4. IsAlerter(x, decided')
    BY <2>1, <2>2 DEF IsAlerter, IsMemory, Inodes
  <2>5. alerters' = [alerters EXCEPT ![a] = x]
    <3>1. alerters' = [alerters EXCEPT ![a] = [alerters[a] EXCEPT !.pc = "replace"]]
      BY <1>2 DEF WriteTmp, Goes
    <3>2. [alerters[a] EXCEPT !.pc = "replace"] = x
      BY <2>1
    <3> QED
      BY <3>1, <3>2
  <2>6. \A j \in Inodes : inodes'[j] = Torn \/ IsMemory(inodes'[j], decided')
    BY <2>1, <2>2, <2>3 DEF UnitInv, IsMemory, Inodes
  <2>7. inodes' = [j \in Inodes |-> inodes'[j]]
    BY <2>3 DEF UnitInv
  <2> HIDE DEF x
  <2> QED
    BY <2>2, <2>4, <2>5, <2>6, <2>7, OneMoves DEF UnitInv, Inodes, QuietIsBounded
<1>3. CASE ReplaceTmp(a)
  <2>1. PICK x \in {[pc |-> "send"], NotRunning} : alerters' = [alerters EXCEPT ![a] = x]
    BY <1>3 DEF ReplaceTmp
  <2>2. /\ decided' = decided /\ hushed' = hushed /\ clock' = clock /\ inodes' = inodes
        /\ names' = IF names.tmp = None THEN names ELSE [state |-> names.tmp, tmp |-> None]
    BY <1>3 DEF ReplaceTmp
  <2>3. names' \in [state : Inodes \cup {None}, tmp : Inodes \cup {None}]
    BY <2>2 DEF UnitInv
  <2>4. IsAlerter(x, decided')
    BY <2>1 DEF IsAlerter
  <2>5. \A j \in Inodes : inodes'[j] = Torn \/ IsMemory(inodes'[j], decided')
    BY <2>2 DEF UnitInv, IsMemory, Inodes
  <2> QED
    BY <2>1, <2>2, <2>3, <2>4, <2>5, OneMoves DEF UnitInv, Inodes, QuietIsBounded
<1>4. CASE AlerterSends(a)
  <2>1. alerters' = [alerters EXCEPT ![a] = NotRunning]
    BY <1>4 DEF AlerterSends
  <2>2. /\ decided' = decided /\ hushed' = hushed /\ clock' = clock /\ inodes' = inodes
        /\ names' = names
    BY <1>4 DEF AlerterSends
  <2>3. IsAlerter(NotRunning, decided')
    BY DEF IsAlerter
  <2>4. \A j \in Inodes : inodes'[j] = Torn \/ IsMemory(inodes'[j], decided')
    BY <2>2 DEF UnitInv, IsMemory, Inodes
  <2> QED
    BY <2>1, <2>2, <2>3, <2>4, OneMoves DEF UnitInv, Inodes, QuietIsBounded
<1> QED
  BY <1>1, <1>2, <1>3, <1>4

LEMMA UnitInvStep == UnitInv /\ [UnitNext]_unitVars => UnitInv'
<1> SUFFICES ASSUME UnitInv, [UnitNext]_unitVars PROVE UnitInv'
  OBVIOUS
<1>1. CASE UnitClock
  BY <1>1 DEF UnitClock, UnitInv, IsAlerter, IsMemory, Inodes, QuietIsBounded
<1>2. ASSUME NEW a \in Alerters, NEW u \in Units, Starts(a, u) PROVE UnitInv'
  <2> DEFINE x == [pc |-> "load", unit |-> u, at |-> clock]
  <2>1. alerters' = [alerters EXCEPT ![a] = x]
    BY <1>2 DEF Starts
  <2>2. /\ decided' = decided /\ hushed' = hushed /\ clock' = clock /\ inodes' = inodes
        /\ names' = names
    BY <1>2 DEF Starts
  <2>3. IsAlerter(x, decided')
    BY DEF IsAlerter, UnitInv
  <2>4. \A j \in Inodes : inodes'[j] = Torn \/ IsMemory(inodes'[j], decided')
    BY <2>2 DEF UnitInv, IsMemory, Inodes
  <2> HIDE DEF x
  <2> QED
    BY <2>1, <2>2, <2>3, <2>4, OneMoves DEF UnitInv, Inodes, QuietIsBounded
<1>3. ASSUME NEW a \in Alerters, due(a) PROVE UnitInv'
  BY <1>3, DueKeeps
<1>4. ASSUME NEW a \in Alerters, OpenTmp(a) \/ WriteTmp(a) \/ ReplaceTmp(a) \/ AlerterSends(a)
      PROVE UnitInv'
  BY <1>4, FilesKeep
<1>5. CASE UNCHANGED unitVars
  BY <1>5 DEF unitVars, UnitInv, IsAlerter, IsMemory, Inodes, QuietIsBounded
<1> QED
  BY <1>1, <1>2, <1>3, <1>4, <1>5 DEF UnitNext

\* unit_alert.py: for any units and any number of alerters over the one file, a failure is
\* kept quiet only within the hour of one that was to be told.
THEOREM QuietIsWithinTheHour == UnitSpec => []QuietIsBounded
<1>1. UnitInv => QuietIsBounded
  BY DEF UnitInv
<1> QED
  BY <1>1, UnitInvInit, UnitInvStep, PTL DEF UnitSpec

-----------------------------------------------------------------------------
(* peer_watch.py.                                                           *)

Belief == [misses : Nat, alarmed : BOOLEAN]

Lines == {"ALARM", "RECOVERED"} \X Seeds

PeerTypes ==
  /\ believed = NoBeliefs \/ believed \in [Seeds -> Belief]
  /\ missing \in [Seeds -> Nat] /\ toldGone \subseteq Seeds /\ forgot \in BOOLEAN
  /\ \/ look = NotLooking
     \/ look = [pc |-> "save", next |-> look.next, out |-> look.out]
        /\ look.next \in [Seeds -> Belief] /\ look.out \subseteq Lines
     \/ look = [pc |-> "say", out |-> look.out] /\ look.out \subseteq Lines

\* What a memory says of a seed is what was seen of it, and who was told of it.
Remembers(memory) ==
  \A s \in Seeds : memory[s].misses = missing[s] /\ (s \in toldGone => memory[s].alarmed)

\* A line that is to be said is of a seed that was missed and not told of, and is in
\* the memory already.
LinesAreNew(memory) ==
  \A s \in Seeds : <<"ALARM", s>> \in look.out =>
    missing[s] >= MISSES_BEFORE_ALARM /\ s \notin toldGone /\ memory[s].alarmed

NothingYet == believed = NoBeliefs /\ toldGone = {} /\ \A s \in Seeds : missing[s] = 0

MemoryIsTrue ==
  ~forgot =>
    /\ look = NotLooking => NothingYet \/ (believed \in [Seeds -> Belief] /\ Remembers(believed))
    /\ look.pc = "save" => Remembers(look.next) /\ LinesAreNew(look.next)
    /\ look.pc = "say" => believed \in [Seeds -> Belief] /\ Remembers(believed)
                          /\ LinesAreNew(believed)

PeerInv == PeerTypes /\ MemoryIsTrue

LEMMA PeerInvInit == PeerInit => PeerInv
<1> SUFFICES ASSUME PeerInit PROVE PeerInv
  OBVIOUS
<1>1. PeerTypes
  BY DEF PeerInit, PeerTypes
<1>2. NothingYet /\ look = NotLooking
  BY DEF PeerInit, NothingYet
<1> QED
  BY <1>1, <1>2 DEF PeerInv, MemoryIsTrue, NotLooking

\* A look takes the memory along.
LEMMA LookedKeeps ==
  ASSUME PeerInv, NEW seen \in SUBSET Seeds, visible_peers(seen)
  PROVE  PeerInv'
<1> DEFINE rec == IF believed = NoBeliefs THEN Unheard ELSE believed
           next == [s \in Seeds |-> Looked(rec[s], s \in seen)]
           out == IF believed = NoBeliefs THEN {} ELSE UNION {Says(s, rec[s], s \in seen) : s \in Seeds}
<1>1. rec \in [Seeds -> Belief]
  BY DEF PeerInv, PeerTypes, Unheard, Belief
<1>2. /\ look' = [pc |-> "save", next |-> next, out |-> out]
      /\ missing' = [s \in Seeds |-> IF s \in seen THEN 0 ELSE missing[s] + 1]
      /\ toldGone' = toldGone \ seen /\ forgot' = forgot /\ believed' = believed
      /\ look = NotLooking
  BY DEF visible_peers
<1>3. next \in [Seeds -> Belief]
  <2> SUFFICES ASSUME NEW s \in Seeds PROVE Looked(rec[s], s \in seen) \in Belief
    OBVIOUS
  <2>1. rec[s].misses \in Nat /\ rec[s].alarmed \in BOOLEAN
    BY <1>1 DEF Belief
  <2> HIDE DEF rec
  <2> QED
    BY <2>1 DEF Looked, Belief
<1>4. PeerTypes'
  <2>1. out \subseteq Lines
    <3> SUFFICES ASSUME NEW s \in Seeds PROVE Says(s, rec[s], s \in seen) \subseteq Lines
      OBVIOUS
    <3> HIDE DEF rec
    <3> QED
      BY DEF Says, Lines
  <2> HIDE DEF rec, next, out
  <2>2. missing' \in [Seeds -> Nat]
    BY <1>2 DEF PeerInv, PeerTypes
  <2>3. toldGone' \subseteq Seeds /\ forgot' \in BOOLEAN
    BY <1>2 DEF PeerInv, PeerTypes
  <2>4. look'.next = next /\ look'.out = out
    BY <1>2
  <2> QED
    BY <1>2, <1>3, <2>1, <2>2, <2>3, <2>4 DEF PeerInv, PeerTypes
<1>5. ASSUME ~forgot, NEW s \in Seeds
      PROVE  rec[s].misses = missing[s] /\ (s \in toldGone => rec[s].alarmed)
  <2>1. CASE NothingYet
    BY <2>1, <1>5 DEF NothingYet, Unheard
  <2>2. CASE believed \in [Seeds -> Belief] /\ Remembers(believed)
    <3>1. believed # NoBeliefs
      BY <2>2, <1>5 DEF NoBeliefs
    <3> QED
      BY <2>2, <3>1, <1>5 DEF Remembers
  <2> QED
    BY <1>2, <1>5, <2>1, <2>2 DEF PeerInv, MemoryIsTrue
<1>6. ASSUME ~forgot, NEW s \in Seeds
      PROVE  /\ next[s].misses = missing'[s] /\ (s \in toldGone' => next[s].alarmed)
             /\ <<"ALARM", s>> \in out => /\ missing'[s] >= MISSES_BEFORE_ALARM
                                          /\ s \notin toldGone' /\ next[s].alarmed
  <2>1. rec[s].misses = missing[s] /\ (s \in toldGone => rec[s].alarmed) /\ missing[s] \in Nat
    BY <1>5, <1>6 DEF PeerInv, PeerTypes
  <2>2. next[s] = Looked(rec[s], s \in seen)
    BY <1>6
  <2>3. missing'[s] = IF s \in seen THEN 0 ELSE missing[s] + 1
    BY <1>2, <1>6
  <2>4. <<"ALARM", s>> \in out =>
          s \notin seen /\ ~rec[s].alarmed /\ rec[s].misses + 1 >= MISSES_BEFORE_ALARM
    <3> SUFFICES ASSUME <<"ALARM", s>> \in out
                 PROVE  s \notin seen /\ ~rec[s].alarmed /\ rec[s].misses + 1 >= MISSES_BEFORE_ALARM
      OBVIOUS
    <3>1. PICK t \in Seeds : <<"ALARM", s>> \in Says(t, rec[t], t \in seen)
      OBVIOUS
    <3>2. t = s /\ t \notin seen /\ ~rec[t].alarmed /\ rec[t].misses + 1 >= MISSES_BEFORE_ALARM
      <4> HIDE DEF rec
      <4> QED
        BY <3>1 DEF Says
    <3> QED
      BY <3>2
  <2>5. next[s].misses = missing'[s]
    <3> HIDE DEF rec, next, out
    <3> QED
      BY <2>1, <2>2, <2>3 DEF Looked
  <2>6. ASSUME s \notin seen, rec[s].alarmed \/ rec[s].misses + 1 >= MISSES_BEFORE_ALARM
        PROVE  next[s].alarmed
    <3> HIDE DEF rec, next, out
    <3>1. Looked(rec[s], FALSE).alarmed
            = (rec[s].alarmed \/ rec[s].misses + 1 >= MISSES_BEFORE_ALARM)
      BY Zenon DEF Looked
    <3>2. (s \in seen) = FALSE
      BY <2>6
    <3>3. next[s].alarmed = (rec[s].alarmed \/ rec[s].misses + 1 >= MISSES_BEFORE_ALARM)
      BY <2>2, <3>1, <3>2, Zenon
    <3> QED
      BY <2>6, <3>3
  <2>7. s \in toldGone' => next[s].alarmed
    <3> HIDE DEF rec, next, out
    <3> QED
      BY <1>2, <2>1, <2>6
  <2>8. <<"ALARM", s>> \in out => missing'[s] >= MISSES_BEFORE_ALARM
    <3> HIDE DEF rec, next, out
    <3> QED
      BY <2>1, <2>3, <2>4
  <2>9. <<"ALARM", s>> \in out => s \notin toldGone' /\ next[s].alarmed
    <3> HIDE DEF rec, next, out
    <3> QED
      BY <1>2, <2>1, <2>4, <2>6
  <2> QED
    BY <2>5, <2>7, <2>8, <2>9
<1>7. ~forgot' => Remembers(look.next)' /\ LinesAreNew(look.next)'
  <2> HIDE DEF rec, next, out
  <2>1. look'.next = next /\ look'.out = out
    BY <1>2
  <2> QED
    BY <1>2, <1>6, <2>1 DEF Remembers, LinesAreNew
<1>8. MemoryIsTrue'
  <2>1. look'.pc = "save" /\ look' # NotLooking
    BY <1>2 DEF NotLooking
  <2> QED
    BY <1>7, <2>1 DEF MemoryIsTrue
<1> QED
  BY <1>4, <1>8 DEF PeerInv

LEMMA PeerInvStep == PeerInv /\ [PeerNext]_peerVars => PeerInv'
<1> SUFFICES ASSUME PeerInv, [PeerNext]_peerVars PROVE PeerInv'
  OBVIOUS
<1> USE DEF PeerInv
<1>1. ASSUME NEW seen \in SUBSET Seeds, visible_peers(seen) PROVE PeerInv'
  BY <1>1, LookedKeeps
<1>2. CASE SaveBeliefs
  <2>1. /\ look = [pc |-> "save", next |-> look.next, out |-> look.out]
        /\ look.next \in [Seeds -> Belief] /\ look.out \subseteq Lines
    BY <1>2 DEF SaveBeliefs, PeerTypes, NotLooking
  <2>2. /\ missing' = missing /\ toldGone' = toldGone
        /\ believed' \in {believed, look.next}
        /\ (forgot' = forgot /\ believed' = look.next) \/ forgot' = TRUE
        /\ look' = IF look.out = {} THEN NotLooking ELSE [pc |-> "say", out |-> look.out]
    BY <1>2 DEF SaveBeliefs
  <2>3. PeerTypes'
    BY <2>1, <2>2 DEF PeerTypes
  <2>4. CASE forgot'
    BY <2>3, <2>4 DEF MemoryIsTrue
  <2>5. CASE ~forgot'
    <3>1. believed' = look.next /\ ~forgot
      BY <2>2, <2>5
    <3>2. Remembers(look.next) /\ LinesAreNew(look.next)
      BY <2>1, <3>1 DEF MemoryIsTrue
    <3>3. Remembers(believed)'
      BY <2>2, <3>1, <3>2 DEF Remembers
    <3>4. look' = NotLooking \/ LinesAreNew(believed)'
      BY <2>2, <3>1, <3>2 DEF LinesAreNew
    <3>5. look'.pc # "save"
      BY <2>2 DEF NotLooking
    <3>6. believed' \in [Seeds -> Belief]
      BY <2>1, <3>1
    <3>7. MemoryIsTrue'
      BY <3>3, <3>4, <3>5, <3>6 DEF MemoryIsTrue, NotLooking
    <3> QED
      BY <2>3, <3>7
  <2> QED
    BY <2>4, <2>5
<1>3. CASE SayLine
  <2>1. look = [pc |-> "say", out |-> look.out] /\ look.out \subseteq Lines
    BY <1>3 DEF SayLine, PeerTypes, NotLooking
  <2>2. PICK line \in look.out :
          /\ look' = IF look.out = {line} THEN NotLooking ELSE [look EXCEPT !.out = @ \ {line}]
          /\ toldGone' = IF line[1] = "ALARM" THEN toldGone \cup {line[2]} ELSE toldGone
    BY <1>3 DEF SayLine
  <2>3. believed' = believed /\ missing' = missing /\ forgot' = forgot
    BY <1>3 DEF SayLine
  <2>4. \/ look' = NotLooking
        \/ look' = [pc |-> "say", out |-> look'.out] /\ look'.out = look.out \ {line}
    BY <2>1, <2>2
  <2>5. PICK s \in Seeds : line \in {<<"ALARM", s>>, <<"RECOVERED", s>>}
    BY <2>1 DEF Lines
  <2>6. toldGone' = IF line = <<"ALARM", s>> THEN toldGone \cup {s} ELSE toldGone
    BY <2>2, <2>5
  <2>7. PeerTypes'
    BY <2>1, <2>3, <2>4, <2>6 DEF PeerTypes
  <2>8. ASSUME ~forgot PROVE MemoryIsTrue'
    <3>1. believed \in [Seeds -> Belief] /\ Remembers(believed) /\ LinesAreNew(believed)
      BY <2>1, <2>8 DEF MemoryIsTrue
    <3>2. Remembers(believed)'
      BY <2>2, <2>3, <2>6, <3>1 DEF Remembers, LinesAreNew
    <3>3. look' = NotLooking \/ LinesAreNew(believed)'
      BY <2>3, <2>4, <2>6, <3>1 DEF LinesAreNew
    <3> QED
      BY <2>3, <2>4, <3>1, <3>2, <3>3 DEF MemoryIsTrue, NotLooking
  <2> QED
    BY <2>3, <2>7, <2>8 DEF MemoryIsTrue
<1>4. CASE LookDies
  <2>1. /\ believed' = believed /\ missing' = missing /\ toldGone' = toldGone
        /\ look' = NotLooking /\ look # NotLooking /\ (forgot' <=> forgot \/ look.pc = "save")
    BY <1>4 DEF LookDies
  <2>2. forgot' \in BOOLEAN
    BY <1>4 DEF LookDies, PeerTypes
  <2>3. PeerTypes'
    BY <2>1, <2>2 DEF PeerTypes
  <2>4. MemoryIsTrue'
    <3> SUFFICES ASSUME ~forgot' PROVE MemoryIsTrue'
      BY DEF MemoryIsTrue
    <3>1. ~forgot /\ look.pc = "say"
      BY <2>1 DEF PeerTypes
    <3>2. believed \in [Seeds -> Belief] /\ Remembers(believed)
      BY <3>1 DEF MemoryIsTrue
    <3> QED
      BY <2>1, <3>2 DEF MemoryIsTrue, NotLooking, Remembers
  <2> QED
    BY <2>3, <2>4
<1>5. CASE UNCHANGED peerVars
  BY <1>5 DEF peerVars, PeerTypes, MemoryIsTrue, NothingYet, Remembers, LinesAreNew
<1> QED
  BY <1>1, <1>2, <1>3, <1>4, <1>5 DEF PeerNext

\* peer_watch.py: for any seeds, looks and failures, an alarm is of a seed that was missed
\* as often as it takes and was not told of since it was last seen.
THEOREM AlarmsAreOfAbsence == PeerSpec => []AlarmIsEarned
<1>1. PeerInv => AlarmIsEarned
  BY DEF PeerInv, PeerTypes, MemoryIsTrue, LinesAreNew, AlarmIsEarned
<1> QED
  BY <1>1, PeerInvInit, PeerInvStep, PTL DEF PeerSpec

-----------------------------------------------------------------------------
(* release_watch.py.                                                        *)

Places == {Telephone, Screen}

\* The two kinds of step a run has before it.
Saving == [do |-> "save"]
Saying(line) == [do |-> "say", line |-> line]

\* All that is ever said.
Alarm(p) == Sentence("ALARM", p, p)
Started(p) == Sentence("started", p, p)
Recovered(p, q) == Sentence("RECOVERED", p, q)
Sayings == {Alarm(p) : p \in Places} \cup {Started(p) : p \in Places}
           \cup {Recovered(p, q) : p \in Places, q \in Places}

WasTold(p, text) == \E i \in DOMAIN text : text[i] = Alarm(p)

\* What may be in the file when this was said.
Informed(state, text) ==
  \/ state \in {NoState, StateFine}
  \/ \E p \in Places : state = StateAlarmed(p) /\ WasTold(p, text)

\* What a run may still have to do, and what was said before it came to that.
Remaining(next, todo, text) ==
  \/ next = StateFine /\ todo = <<Saving>>
  \/ /\ next = StateFine
     /\ \E p \in Places :
          todo \in {<<Saying(Started(p))>>, <<Saving, Saying(Started(p))>>}
  \/ /\ next = StateFine
     /\ \E p, q \in Places : todo = <<Saying(Recovered(p, q)), Saving>> /\ WasTold(q, text)
  \/ \E p \in Places : next = StateAlarmed(p) /\ todo = <<Saying(Alarm(p)), Saving>>
  \/ \E p \in Places : next = StateAlarmed(p) /\ todo = <<Saving>> /\ WasTold(p, text)

IsAsking(a, text) ==
  \/ a = NotAsking
  \/ \E p \in Places : \E loaded :
       a = [pc |-> "asks", to |-> p, loaded |-> loaded] /\ Informed(loaded, text)
  \/ \E next, todo : a = [pc |-> "run", next |-> next, todo |-> todo] /\ Remaining(next, todo, text)

\* What is said to be over was said to have begun.
NothingUnbegun(text) ==
  \A i \in DOMAIN text : text[i].line = "RECOVERED" =>
    \E j \in 1 .. i - 1 : text[j] = Alarm(text[i].of)

ReleaseInv ==
  /\ spoken \in Seq(Sayings) /\ NothingUnbegun(spoken)
  /\ Informed(onFile, spoken)
  /\ asking = [r \in ReleaseRuns |-> asking[r]]
  /\ \A r \in ReleaseRuns : IsAsking(asking[r], spoken)

\* The three kinds of sentence are three.
LEMMA KindsDiffer ==
  /\ \A p : Alarm(p).line = "ALARM" /\ Alarm(p).to = p
  /\ \A p : Started(p).line = "started"
  /\ \A p, q : Recovered(p, q).line = "RECOVERED" /\ Recovered(p, q).of = q
BY DEF Alarm, Started, Recovered, Sentence

LEMMA StatesDiffer ==
  /\ NoState.is = "nothing" /\ StateFine.is = "fine"
  /\ \A p : StateAlarmed(p).is = "alarmed" /\ StateAlarmed(p).told = p
BY DEF NoState, StateFine, StateAlarmed

LEMMA ReleaseInvTells == ReleaseInv => SilenceIsInformed
<1> SUFFICES ASSUME ReleaseInv PROVE SilenceIsInformed
  OBVIOUS
<1>1. spoken \in Seq(Sayings) /\ DOMAIN spoken = 1 .. Len(spoken)
  BY DEF ReleaseInv
<1>2. ASSUME onFile.is = "alarmed" PROVE ToldAt(onFile.told, Len(spoken))
  <2>1. PICK p \in Places : onFile = StateAlarmed(p) /\ WasTold(p, spoken)
    BY <1>2, StatesDiffer DEF ReleaseInv, Informed
  <2>2. onFile.told = p
    BY <2>1, StatesDiffer
  <2> QED
    BY <1>1, <2>1, <2>2 DEF WasTold, ToldAt, Alarm
<1>3. \A i \in DOMAIN spoken :
        spoken[i].line = "RECOVERED" => ToldAt(spoken[i].of, i - 1)
  BY DEF ReleaseInv, NothingUnbegun, ToldAt, Alarm
<1> QED
  BY <1>2, <1>3 DEF SilenceIsInformed

LEMMA ReleaseInvInit == ReleaseInit => ReleaseInv
BY DEF ReleaseInit, ReleaseInv, NothingUnbegun, Informed, IsAsking

\* What is still to be done after a step of a run.
LEMMA AfterIsRest ==
  ASSUME NEW a, NEW text, IsAsking(a, text), a.pc = "run"
  PROVE  /\ a # NotAsking
         /\ Remaining(a.next, a.todo, text)
         /\ Len(a.todo) = 1 => AfterStep(a) = NotAsking
         /\ Len(a.todo) # 1 =>
              AfterStep(a) = [pc |-> "run", next |-> a.next, todo |-> Tail(a.todo)]
<1>1. a # NotAsking
  BY DEF NotAsking
<1>2. \A p, loaded : a # [pc |-> "asks", to |-> p, loaded |-> loaded]
  OBVIOUS
<1>3. PICK next, todo : a = [pc |-> "run", next |-> next, todo |-> todo]
                        /\ Remaining(next, todo, text)
  BY <1>1, <1>2, Zenon DEF IsAsking
<1>4. a = [pc |-> "run", next |-> a.next, todo |-> a.todo] /\ Remaining(a.next, a.todo, text)
  BY <1>3
<1>5. Len(a.todo) # 1 =>
        AfterStep(a) = [pc |-> "run", next |-> a.next, todo |-> Tail(a.todo)]
  BY <1>4 DEF AfterStep
<1>6. Len(a.todo) = 1 => AfterStep(a) = NotAsking
  BY DEF AfterStep
<1> QED
  BY <1>1, <1>4, <1>5, <1>6

\* What was said stays said, and what it allowed it goes on to allow.
LEMMA SaidStaysSaid ==
  ASSUME NEW text \in Seq(Sayings), NEW line \in Sayings
  PROVE  /\ \A p : WasTold(p, text) => WasTold(p, Append(text, line))
         /\ \A p : line = Alarm(p) => WasTold(p, Append(text, line))
         /\ Append(text, line) \in Seq(Sayings)
         /\ NothingUnbegun(text) /\ (line.line = "RECOVERED" => WasTold(line.of, text))
              => NothingUnbegun(Append(text, line))
<1> DEFINE more == Append(text, line)
<1>1. /\ more \in Seq(Sayings) /\ DOMAIN more = 1 .. Len(text) + 1
      /\ DOMAIN text = 1 .. Len(text) /\ Len(text) \in Nat
      /\ \A i \in 1 .. Len(text) : more[i] = text[i]
      /\ more[Len(text) + 1] = line
  <2>1. DOMAIN text = 1 .. Len(text) /\ Len(text) \in Nat
    OBVIOUS
  <2>2. /\ more \in Seq(Sayings) /\ Len(more) = Len(text) + 1
        /\ \A i \in 1 .. Len(text) : more[i] = text[i]
        /\ more[Len(text) + 1] = line
    BY AppendProperties
  <2>3. DOMAIN more = 1 .. Len(more)
    BY <2>2
  <2> QED
    BY <2>1, <2>2, <2>3
<1> HIDE DEF more
<1>2. \A p : WasTold(p, text) => WasTold(p, more)
  BY <1>1 DEF WasTold
<1>3. \A p : line = Alarm(p) => WasTold(p, more)
  BY <1>1 DEF WasTold
<1>4. ASSUME NothingUnbegun(text), line.line = "RECOVERED" => WasTold(line.of, text)
      PROVE  NothingUnbegun(more)
  <2> SUFFICES ASSUME NEW i \in DOMAIN more, more[i].line = "RECOVERED"
               PROVE  \E j \in 1 .. i - 1 : more[j] = Alarm(more[i].of)
    BY DEF NothingUnbegun
  <2>1. CASE i \in 1 .. Len(text)
    <3>1. PICK j \in 1 .. i - 1 : text[j] = Alarm(text[i].of)
      BY <1>1, <1>4, <2>1 DEF NothingUnbegun
    <3> QED
      BY <1>1, <2>1, <3>1
  <2>2. CASE i = Len(text) + 1
    <3>1. PICK j \in 1 .. Len(text) : text[j] = Alarm(line.of)
      BY <1>1, <1>4, <2>2 DEF WasTold
    <3> QED
      BY <1>1, <2>2, <3>1
  <2> QED
    BY <1>1, <2>1, <2>2
<1> QED
  BY <1>1, <1>2, <1>3, <1>4 DEF more

LEMMA StaysInformed ==
  ASSUME NEW text, NEW more, \A p : WasTold(p, text) => WasTold(p, more)
  PROVE  /\ \A state : Informed(state, text) => Informed(state, more)
         /\ \A next, todo : Remaining(next, todo, text) => Remaining(next, todo, more)
         /\ \A a : IsAsking(a, text) => IsAsking(a, more)
<1>1. \A state : Informed(state, text) => Informed(state, more)
  BY Zenon DEF Informed
<1>2. \A next, todo : Remaining(next, todo, text) => Remaining(next, todo, more)
  BY Zenon DEF Remaining
<1>3. \A a : IsAsking(a, text) => IsAsking(a, more)
  BY <1>1, <1>2, Zenon DEF IsAsking
<1> QED
  BY <1>1, <1>2, <1>3

LEMMA ShortLists ==
  \A x, y : /\ <<x>> \o <<>> = <<x>> /\ <<x>> \o <<y>> = <<x, y>>
            /\ <<x, y>> \o <<>> = <<x, y>>
            /\ Len(<<x>>) = 1 /\ Len(<<x, y>>) = 2
            /\ Head(<<x>>) = x /\ Head(<<x, y>>) = x /\ Tail(<<x, y>>) = <<y>>
<1> SUFFICES ASSUME NEW x, NEW y
             PROVE  /\ <<x>> \o <<>> = <<x>> /\ <<x>> \o <<y>> = <<x, y>>
                    /\ <<x, y>> \o <<>> = <<x, y>>
                    /\ Len(<<x>>) = 1 /\ Len(<<x, y>>) = 2
                    /\ Head(<<x>>) = x /\ Head(<<x, y>>) = x /\ Tail(<<x, y>>) = <<y>>
  OBVIOUS
<1> DEFINE either == {x, y}
<1>1. /\ <<x>> \in Seq(either) /\ <<y>> \in Seq(either) /\ <<x, y>> \in Seq(either)
      /\ Len(<<x>>) = 1 /\ Len(<<y>>) = 1 /\ Len(<<x, y>>) = 2
  OBVIOUS
<1> HIDE DEF either
<1>2. <<x>> \o <<>> = <<x>> /\ <<x, y>> \o <<>> = <<x, y>>
  BY <1>1, ConcatEmptySeq
<1>3. /\ <<x>> \o <<y>> \in Seq(either) /\ Len(<<x>> \o <<y>>) = 1 + 1
      /\ \A i \in 1 .. 1 + 1 :
           (<<x>> \o <<y>>)[i] = IF i <= 1 THEN <<x>>[i] ELSE <<y>>[i - 1]
  BY <1>1, ConcatProperties
<1>4. \A i \in 1 .. 2 : (<<x>> \o <<y>>)[i] = <<x, y>>[i]
  BY <1>3
<1>5. Len(<<x>> \o <<y>>) = Len(<<x, y>>)
  BY <1>1, <1>3
<1>6. <<x>> \o <<y>> = <<x, y>>
  BY <1>1, <1>3, <1>4, <1>5, SeqEqual
<1>7. Head(<<x>>) = x /\ Head(<<x, y>>) = x /\ Tail(<<x, y>>) = <<y>>
  OBVIOUS
<1> QED
  BY <1>1, <1>2, <1>6, <1>7

\* An answer leads to one of the lists.
LEMMA ConsequenceRemains ==
  ASSUME NEW a, NEW p \in Places, NEW loaded, NEW text, NEW answer,
         a = [pc |-> "asks", to |-> p, loaded |-> loaded], Informed(loaded, text)
  PROVE  Remaining(Consequence(a, answer).next, Consequence(a, answer).todo, text)
<1>1. a.to = p /\ a.loaded = loaded
  OBVIOUS
<1> DEFINE then == Consequence(a, answer)
<1>2. CASE answer = "verifies" /\ loaded.is = "alarmed"
  <2>1. PICK q \in Places : loaded = StateAlarmed(q) /\ WasTold(q, text)
    BY <1>2, StatesDiffer DEF Informed
  <2>2. loaded.told = q
    BY <2>1, StatesDiffer
  <2>3. then.next = StateFine /\ then.todo = Order(Recovered(p, q)) \o <<>>
    BY <1>1, <1>2, <2>2 DEF Consequence, Recovered
  <2>4. Order(Recovered(p, q)) = <<Saying(Recovered(p, q)), Saving>>
    BY DEF Order, Saying, Saving
  <2>5. then.todo = <<Saying(Recovered(p, q)), Saving>>
    BY <2>3, <2>4, ShortLists
  <2> QED
    BY <2>1, <2>3, <2>5, Zenon DEF Remaining
<1>3. CASE answer = "verifies" /\ loaded.is # "alarmed"
  <2>1. /\ then.next = StateFine
        /\ then.todo = <<Saving>> \o <<>> \/ then.todo = <<Saving>> \o <<Saying(Started(p))>>
    BY <1>1, <1>3 DEF Consequence, Started, Saying, Saving
  <2>2. then.todo = <<Saving>> \/ then.todo = <<Saving, Saying(Started(p))>>
    BY <2>1, ShortLists
  <2> QED
    BY <2>1, <2>2, Zenon DEF Remaining
<1>4. CASE answer # "verifies" /\ loaded.is = "alarmed"
  <2>1. PICK q \in Places : loaded = StateAlarmed(q) /\ WasTold(q, text)
    BY <1>4, StatesDiffer DEF Informed
  <2>2. then.next = StateAlarmed(q) /\ then.todo = <<Saving>>
    BY <1>1, <1>4, <2>1 DEF Consequence, Saving
  <2> QED
    BY <2>1, <2>2, Zenon DEF Remaining
<1>5. CASE answer # "verifies" /\ loaded.is # "alarmed"
  <2>1. then.next = StateAlarmed(p) /\ then.todo = <<Saying(Alarm(p)), Saving>>
    BY <1>1, <1>5 DEF Consequence, Order, Alarm, Saying, Saving
  <2> QED
    BY <2>1, Zenon DEF Remaining
<1> QED
  BY <1>2, <1>3, <1>4, <1>5, Zenon

\* The sentence a run has to say, and what is left when it is said.
LEMMA NextSentence ==
  ASSUME NEW next, NEW todo, NEW text, Remaining(next, todo, text), Head(todo).do = "say"
  PROVE  \E line \in Sayings :
           /\ Head(todo) = Saying(line)
           /\ line.line = "RECOVERED" => WasTold(line.of, text)
           /\ \/ Len(todo) = 1
              \/ /\ Len(todo) # 1 /\ Tail(todo) = <<Saving>>
                 /\ next = StateFine \/ \E p \in Places : line = Alarm(p) /\ next = StateAlarmed(p)
<1>1. CASE todo = <<Saving>> \/ \E p : todo = <<Saving, Saying(Started(p))>>
  <2>1. Head(todo) = Saving
    BY <1>1, ShortLists, Zenon
  <2> QED
    BY <2>1 DEF Saving
<1>2. ASSUME NEW p \in Places, todo = <<Saying(Started(p))>>
      PROVE  /\ Started(p) \in Sayings /\ Head(todo) = Saying(Started(p)) /\ Len(todo) = 1
             /\ Started(p).line # "RECOVERED"
  <2>1. Head(todo) = Saying(Started(p)) /\ Len(todo) = 1
    BY <1>2, ShortLists, Zenon
  <2>2. Started(p) \in Sayings
    BY DEF Sayings
  <2> QED
    BY <2>1, <2>2, KindsDiffer
<1>3. ASSUME NEW p \in Places, NEW q \in Places, todo = <<Saying(Recovered(p, q)), Saving>>
      PROVE  /\ Recovered(p, q) \in Sayings /\ Head(todo) = Saying(Recovered(p, q))
             /\ Len(todo) # 1 /\ Tail(todo) = <<Saving>> /\ Recovered(p, q).of = q
  <2>1. Head(todo) = Saying(Recovered(p, q)) /\ Len(todo) = 2 /\ Tail(todo) = <<Saving>>
    BY <1>3, ShortLists, Zenon
  <2>2. Recovered(p, q) \in Sayings
    BY DEF Sayings
  <2> QED
    BY <2>1, <2>2, KindsDiffer
<1>4. ASSUME NEW p \in Places, todo = <<Saying(Alarm(p)), Saving>>
      PROVE  /\ Alarm(p) \in Sayings /\ Head(todo) = Saying(Alarm(p))
             /\ Len(todo) # 1 /\ Tail(todo) = <<Saving>> /\ Alarm(p).line # "RECOVERED"
  <2>1. Head(todo) = Saying(Alarm(p)) /\ Len(todo) = 2 /\ Tail(todo) = <<Saving>>
    BY <1>4, ShortLists, Zenon
  <2>2. Alarm(p) \in Sayings
    BY DEF Sayings
  <2> QED
    BY <2>1, <2>2, KindsDiffer
<1> QED
  BY <1>1, <1>2, <1>3, <1>4, Zenon DEF Remaining

\* What may be left, and be written, when a run writes.
LEMMA NextSave ==
  ASSUME NEW next, NEW todo, NEW text, Remaining(next, todo, text), Head(todo).do = "save"
  PROVE  /\ Informed(next, text)
         /\ Len(todo) # 1 =>
              next = StateFine /\ \E p \in Places : Tail(todo) = <<Saying(Started(p))>>
<1>1. \A line, rest : todo # <<Saying(line), rest>> /\ todo # <<Saying(line)>>
  <2> SUFFICES ASSUME NEW line, NEW rest, todo = <<Saying(line), rest>> \/ todo = <<Saying(line)>>
               PROVE  FALSE
    BY Zenon
  <2>1. Head(todo) = Saying(line)
    BY ShortLists, Zenon
  <2> QED
    BY <2>1 DEF Saying
<1>2. \/ next = StateFine /\ todo = <<Saving>>
      \/ next = StateFine /\ \E p \in Places : todo = <<Saving, Saying(Started(p))>>
      \/ \E p \in Places : next = StateAlarmed(p) /\ todo = <<Saving>> /\ WasTold(p, text)
  BY <1>1, Zenon DEF Remaining
<1>3. Informed(next, text)
  BY <1>2, Zenon DEF Informed
<1>4. Len(todo) # 1 => next = StateFine /\ \E p \in Places : todo = <<Saving, Saying(Started(p))>>
  BY <1>2, ShortLists, Zenon
<1>5. \A p : todo = <<Saving, Saying(Started(p))>> => Tail(todo) = <<Saying(Started(p))>>
  BY ShortLists, Zenon
<1> QED
  BY <1>3, <1>4, <1>5, Zenon

LEMMA ReleaseInvStep == ReleaseInv /\ [ReleaseNext]_releaseVars => ReleaseInv'
<1> SUFFICES ASSUME ReleaseInv, [ReleaseNext]_releaseVars PROVE ReleaseInv'
  OBVIOUS
<1>1. /\ spoken \in Seq(Sayings) /\ NothingUnbegun(spoken) /\ Informed(onFile, spoken)
      /\ asking = [r \in ReleaseRuns |-> asking[r]]
      /\ \A r \in ReleaseRuns : IsAsking(asking[r], spoken)
  BY DEF ReleaseInv
\* A step of one run, when nothing is said.
<1>2. ASSUME NEW run \in ReleaseRuns, NEW a, IsAsking(a, spoken),
             asking' = [asking EXCEPT ![run] = a], spoken' = spoken, Informed(onFile', spoken)
      PROVE  ReleaseInv'
  <2>1. asking' = [r \in ReleaseRuns |-> asking'[r]]
    BY <1>1, <1>2
  <2>2. \A r \in ReleaseRuns : asking'[r] = a \/ asking'[r] = asking[r]
    BY <1>1, <1>2
  <2>3. \A r \in ReleaseRuns : IsAsking(asking'[r], spoken)
    BY <1>1, <1>2, <2>2, Zenon
  <2> QED
    BY <1>1, <1>2, <2>1, <2>3 DEF ReleaseInv, NothingUnbegun
<1>3. CASE UNCHANGED releaseVars
  <2>1. spoken' = spoken /\ onFile' = onFile /\ asking' = asking
    BY <1>3 DEF releaseVars
  <2> QED
    BY <1>1, <2>1 DEF ReleaseInv, NothingUnbegun
<1>4. ASSUME NEW run \in ReleaseRuns, NEW where \in Speaks(run), LoadsState(run, where)
      PROVE  ReleaseInv'
  <2>1. PICK loaded \in {onFile, NoState} :
          asking' = [asking EXCEPT ![run] = [pc |-> "asks", to |-> where, loaded |-> loaded]]
    BY <1>4 DEF LoadsState
  <2>2. Informed(loaded, spoken)
    BY <1>1, <2>1 DEF Informed
  <2>3. where \in Places
    BY DEF Speaks, Places
  <2>4. IsAsking([pc |-> "asks", to |-> where, loaded |-> loaded], spoken)
    BY <2>2, <2>3, Zenon DEF IsAsking
  <2>5. spoken' = spoken /\ onFile' = onFile
    BY <1>4 DEF LoadsState
  <2> QED
    BY <1>1, <1>2, <2>1, <2>4, <2>5
<1>5. ASSUME NEW run \in ReleaseRuns, NEW answer, ReadsAnswer(run, answer)
      PROVE  ReleaseInv'
  <2>1. asking[run].pc = "asks" /\ spoken' = spoken /\ onFile' = onFile
    BY <1>5 DEF ReadsAnswer
  <2>2. CASE asking' = [asking EXCEPT ![run] = NotAsking]
    <3>1. IsAsking(NotAsking, spoken)
      BY Zenon DEF IsAsking
    <3> QED
      BY <1>1, <1>2, <2>1, <2>2, <3>1
  <2>3. CASE asking' = [asking EXCEPT ![run] =
                          [pc |-> "run", next |-> Consequence(asking[run], answer).next,
                           todo |-> Consequence(asking[run], answer).todo]]
    <3>1. PICK p \in Places : \E loaded :
            asking[run] = [pc |-> "asks", to |-> p, loaded |-> loaded] /\ Informed(loaded, spoken)
      <4>1. asking[run] # NotAsking
        BY <2>1 DEF NotAsking
      <4>2. \A next, todo : asking[run] # [pc |-> "run", next |-> next, todo |-> todo]
        BY <2>1
      <4>3. IsAsking(asking[run], spoken)
        BY <1>1
      <4> QED
        BY <4>1, <4>2, <4>3, Zenon DEF IsAsking
    <3>2. PICK loaded :
            asking[run] = [pc |-> "asks", to |-> p, loaded |-> loaded] /\ Informed(loaded, spoken)
      BY <3>1
    <3>3. Remaining(Consequence(asking[run], answer).next,
                    Consequence(asking[run], answer).todo, spoken)
      BY <3>2, ConsequenceRemains
    <3>4. IsAsking([pc |-> "run", next |-> Consequence(asking[run], answer).next,
                    todo |-> Consequence(asking[run], answer).todo], spoken)
      BY <3>3, Zenon DEF IsAsking
    <3> QED
      BY <1>1, <1>2, <2>1, <2>3, <3>4
  <2> QED
    BY <1>5, <2>2, <2>3, Zenon DEF ReadsAnswer
<1>6. ASSUME NEW run \in ReleaseRuns, SayAnswer(run)
      PROVE  ReleaseInv'
  <2> DEFINE a == asking[run]
  <2>1. /\ a.pc = "run" /\ Head(a.todo).do = "say" /\ onFile' = onFile
        /\ spoken' = Append(spoken, Head(a.todo).line)
        /\ asking' = [asking EXCEPT ![run] = AfterStep(a)]
    BY <1>1, <1>6 DEF SayAnswer
  <2>2. /\ Remaining(a.next, a.todo, spoken)
        /\ Len(a.todo) = 1 => AfterStep(a) = NotAsking
        /\ Len(a.todo) # 1 => AfterStep(a) = [pc |-> "run", next |-> a.next, todo |-> Tail(a.todo)]
    BY <1>1, <2>1, AfterIsRest
  <2>3. PICK line \in Sayings :
           /\ Head(a.todo) = Saying(line)
           /\ line.line = "RECOVERED" => WasTold(line.of, spoken)
           /\ \/ Len(a.todo) = 1
              \/ /\ Len(a.todo) # 1 /\ Tail(a.todo) = <<Saving>>
                 /\ a.next = StateFine
                    \/ \E p \in Places : line = Alarm(p) /\ a.next = StateAlarmed(p)
    BY <2>1, <2>2, NextSentence
  <2>4. spoken' = Append(spoken, line)
    BY <2>1, <2>3 DEF Saying
  <2>5. /\ \A p : WasTold(p, spoken) => WasTold(p, spoken')
        /\ \A p : line = Alarm(p) => WasTold(p, spoken')
        /\ spoken' \in Seq(Sayings) /\ NothingUnbegun(spoken')
    BY <1>1, <2>3, <2>4, SaidStaysSaid
  <2>6. /\ Informed(onFile, spoken')
        /\ \A r \in ReleaseRuns : IsAsking(asking[r], spoken')
    BY <1>1, <2>5, StaysInformed, Zenon
  <2>7. IsAsking(AfterStep(a), spoken')
    <3>1. CASE Len(a.todo) = 1
      BY <2>2, <3>1, Zenon DEF IsAsking
    <3>2. CASE Len(a.todo) # 1
      <4>1. AfterStep(a) = [pc |-> "run", next |-> a.next, todo |-> <<Saving>>]
        BY <2>2, <2>3, <3>2
      <4>2. Remaining(a.next, <<Saving>>, spoken')
        BY <2>3, <2>5, <3>2, Zenon DEF Remaining
      <4> QED
        BY <4>1, <4>2, Zenon DEF IsAsking
    <3> QED
      BY <3>1, <3>2, Zenon
  <2>8. /\ asking' = [r \in ReleaseRuns |-> asking'[r]]
        /\ \A r \in ReleaseRuns : asking'[r] = AfterStep(a) \/ asking'[r] = asking[r]
    BY <1>1, <2>1
  <2>9. \A r \in ReleaseRuns : IsAsking(asking'[r], spoken')
    BY <2>6, <2>7, <2>8, Zenon
  <2> QED
    BY <2>1, <2>5, <2>6, <2>8, <2>9 DEF ReleaseInv, NothingUnbegun
<1>7. ASSUME NEW run \in ReleaseRuns, SaveAnswer(run)
      PROVE  ReleaseInv'
  <2> DEFINE a == asking[run]
  <2>1. /\ a.pc = "run" /\ Head(a.todo).do = "save" /\ spoken' = spoken
        /\ onFile' \in {a.next, onFile}
        /\ asking' = [asking EXCEPT ![run] = AfterStep(a)]
    BY <1>1, <1>7 DEF SaveAnswer
  <2>2. /\ Remaining(a.next, a.todo, spoken)
        /\ Len(a.todo) = 1 => AfterStep(a) = NotAsking
        /\ Len(a.todo) # 1 => AfterStep(a) = [pc |-> "run", next |-> a.next, todo |-> Tail(a.todo)]
    BY <1>1, <2>1, AfterIsRest
  <2>3. /\ Informed(a.next, spoken)
        /\ Len(a.todo) # 1 =>
             a.next = StateFine /\ \E p \in Places : Tail(a.todo) = <<Saying(Started(p))>>
    BY <2>1, <2>2, NextSave
  <2>4. IsAsking(AfterStep(a), spoken)
    <3>1. CASE Len(a.todo) = 1
      BY <2>2, <3>1, Zenon DEF IsAsking
    <3>2. CASE Len(a.todo) # 1
      <4>1. Remaining(a.next, Tail(a.todo), spoken)
        BY <2>3, <3>2 DEF Remaining
      <4> QED
        BY <2>2, <3>2, <4>1, Zenon DEF IsAsking
    <3> QED
      BY <3>1, <3>2, Zenon
  <2>5. Informed(onFile', spoken)
    BY <1>1, <2>1, <2>3
  <2> QED
    BY <1>2, <2>1, <2>4, <2>5
<1>8. ASSUME NEW run \in ReleaseRuns, AskerDies(run)
      PROVE  ReleaseInv'
  <2>1. /\ asking' = [asking EXCEPT ![run] = NotAsking] /\ spoken' = spoken /\ onFile' = onFile
    BY <1>8 DEF AskerDies
  <2>2. IsAsking(NotAsking, spoken)
    BY Zenon DEF IsAsking
  <2> QED
    BY <1>1, <1>2, <2>1, <2>2
<1> QED
  BY <1>3, <1>4, <1>5, <1>6, <1>7, <1>8, Zenon DEF ReleaseNext

\* The release watch takes nothing for announced that was not said where the run that
\* called it broken speaks, and calls nothing over that it did not call broken there,
\* wherever a run died, whatever write was refused and whoever else ran beside it.
THEOREM SilenceIsTold == ReleaseSpec => []SilenceIsInformed
BY ReleaseInvTells, ReleaseInvInit, ReleaseInvStep, PTL DEF ReleaseSpec

-----------------------------------------------------------------------------
(* check_reorg.py.                                                          *)

\* The run under way: it has found what changed of the record that is there.
IsCheck(c) ==
  \/ c = Asleep
  \/ c = [pc |-> "tip", found |-> c.found]
  \/ c = [pc |-> "hashes", found |-> c.found, tip |-> c.tip]
  \/ /\ c = [pc |-> c.pc, found |-> c.found, tip |-> c.tip, now |-> c.now,
             cursor |-> c.cursor, changed |-> c.changed, low |-> c.low, high |-> c.high,
             unwritten |-> c.unwritten]
     /\ c.pc \in {"bracket", "alarm", "save"}
     /\ c.changed = {h \in DOMAIN c.now \cap DOMAIN record.heights : c.now[h] # record.heights[h]}
     /\ c.changed # {} => c.found
     /\ c.pc \in {"bracket", "alarm"} => c.changed # {}

IsEvidence(e) ==
  \E kept, from, below, changed :
    e = [kept |-> kept, from |-> from, floor |-> below, changed |-> changed]

\* Before the record is written, what changed is on file or the run knows that it is not.
ChangesAreFiled ==
  check.pc = "save" /\ check.changed # {} =>
    \/ \E e \in evidence : \A h \in check.changed :
         <<h, record.heights[h], check.now[h]>> \in e.changed
    \/ check.unwritten

ReorgInv ==
  /\ IsCheck(check) /\ (\A e \in evidence : IsEvidence(e))
  /\ ChangesAreFiled

LEMMA ReorgInvInit == ReorgInit => ReorgInv
BY DEF ReorgInit, ReorgInv, IsCheck, ChangesAreFiled, Asleep

LEMMA ReadHashesKeeps ==
  ASSUME ReorgInv, ReadHashes
  PROVE  ReorgInv'
<1> DEFINE wanted == heights_to_check(check.tip, DOMAIN record.heights, record.cursor)
           hashesNow == Read(wanted.heights)
           changed == {h \in DOMAIN hashesNow \cap DOMAIN record.heights : hashesNow[h] # record.heights[h]}
<1>1. /\ check'.changed = changed /\ check'.now = hashesNow /\ check'.pc \in {"bracket", "alarm", "save"}
      /\ check' = [pc |-> check'.pc, found |-> check'.found, tip |-> check'.tip,
                   now |-> check'.now, cursor |-> check'.cursor, changed |-> check'.changed,
                   low |-> check'.low, high |-> check'.high, unwritten |-> check'.unwritten]
      /\ check'.found = (check.found \/ changed # {})
      /\ check'.pc = "save" <=> changed = {}
  BY Zenon DEF ReadHashes
<1>2. record' = record /\ evidence' = evidence
  BY DEF ReadHashes
<1> HIDE DEF hashesNow
<1>3. IsCheck(check)'
  BY <1>1, <1>2 DEF IsCheck
<1>4. ChangesAreFiled'
  BY <1>1 DEF ChangesAreFiled
<1> QED
  BY <1>2, <1>3, <1>4 DEF ReorgInv, IsEvidence

LEMMA ReorgInvStep == ReorgInv /\ [ReorgNext]_reorgVars => ReorgInv'
<1> SUFFICES ASSUME ReorgInv, [ReorgNext]_reorgVars PROVE ReorgInv'
  OBVIOUS
<1>1. ASSUME UNCHANGED <<record, evidence, check>> PROVE ReorgInv'
  BY <1>1 DEF ReorgInv, IsCheck, IsEvidence, ChangesAreFiled
<1>2. CASE \/ Extend(branchAt[Tip])
           \/ \E fork \in 0 .. Tip : \E top \in fork + 1 .. MaxHeight : Reorganise(fork, top)
           \/ UNCHANGED reorgVars
  BY <1>1, <1>2 DEF Extend, Reorganise, reorgVars
<1>3. CASE RunBegins
  BY <1>3 DEF RunBegins, ReorgInv, IsCheck, IsEvidence, ChangesAreFiled
<1>4. ASSUME NEW competing \in BOOLEAN, ReadTip(competing) PROVE ReorgInv'
  <2>1. check'.pc \notin {"bracket", "alarm", "save"} /\ evidence' = evidence
    BY <1>4 DEF ReadTip, Ends, Asleep
  <2>2. IsCheck(check)'
    BY <1>4 DEF ReadTip, Ends, IsCheck
  <2> QED
    BY <2>1, <2>2 DEF ReorgInv, ChangesAreFiled, IsEvidence
<1>5. CASE ReadHashes
  BY <1>5, ReadHashesKeeps
<1>6. CASE Halve
  <2>1. check.pc = "bracket" /\ record' = record /\ evidence' = evidence
    BY <1>6 DEF Halve
  <2>2. \/ check' = [check EXCEPT !.pc = "alarm"]
        \/ \E m : check' = [check EXCEPT !.low = m]
        \/ \E m : check' = [check EXCEPT !.high = m]
    BY <1>6 DEF Halve
  <2>3. IsCheck(check)'
    BY <2>1, <2>2 DEF ReorgInv, IsCheck, Asleep
  <2>4. check'.pc # "save"
    BY <2>1, <2>2 DEF ReorgInv, IsCheck, Asleep
  <2> QED
    BY <2>1, <2>3, <2>4 DEF ReorgInv, IsEvidence, ChangesAreFiled
<1>7. CASE raise_alarm
  <2> DEFINE e == [kept |-> TRUE, from |-> check.high, floor |-> check.low,
                   changed |-> {<<h, record.heights[h], check.now[h]>> : h \in check.changed}]
  <2>1. /\ check.pc = "alarm" /\ record' = record /\ check' = [check EXCEPT !.pc = "save"]
        /\ evidence' = evidence \cup {e}
    BY <1>7 DEF raise_alarm
  <2>2. check'.changed = check.changed /\ check'.now = check.now
    BY <2>1 DEF ReorgInv, IsCheck, Asleep
  <2>3. IsCheck(check)'
    BY <2>1 DEF ReorgInv, IsCheck, Asleep
  <2>4. \A h \in check.changed : <<h, record.heights[h], check.now[h]>> \in e.changed
    OBVIOUS
  <2>5. ChangesAreFiled'
    BY <2>1, <2>2, <2>4 DEF ChangesAreFiled
  <2>6. IsEvidence(e)
    BY DEF IsEvidence
  <2> QED
    BY <2>1, <2>3, <2>5, <2>6 DEF ReorgInv, IsEvidence
<1>8. CASE SaveState
  <2>1. check' = Asleep /\ evidence' = evidence
    BY <1>8 DEF SaveState, Ends
  <2> QED
    BY <2>1 DEF ReorgInv, IsCheck, IsEvidence, ChangesAreFiled, Asleep
<1>9. CASE Fails
  <2>1. record' = record /\ evidence' = evidence
    BY <1>9 DEF Fails
  <2>2. \/ check' = Asleep
        \/ /\ check.pc = "bracket"
           /\ check' = [check EXCEPT !.pc = "alarm", !.low = Unknown, !.high = Lowest(check.changed)]
        \/ check.pc = "alarm" /\ check' = [check EXCEPT !.pc = "save", !.unwritten = TRUE]
    BY <1>9 DEF Fails, Ends
  <2>3. CASE check' = Asleep
    BY <2>1, <2>3 DEF ReorgInv, IsCheck, IsEvidence, ChangesAreFiled, Asleep
  <2>4. CASE /\ check.pc = "bracket"
             /\ check' = [check EXCEPT !.pc = "alarm", !.low = Unknown, !.high = Lowest(check.changed)]
    <3>0. /\ check = [pc |-> "bracket", found |-> check.found, tip |-> check.tip,
                      now |-> check.now, cursor |-> check.cursor, changed |-> check.changed,
                      low |-> check.low, high |-> check.high, unwritten |-> check.unwritten]
          /\ check.changed = {h \in DOMAIN check.now \cap DOMAIN record.heights :
                                check.now[h] # record.heights[h]}
          /\ check.changed # {} /\ check.found
      BY <2>4 DEF ReorgInv, IsCheck, Asleep
    <3>1. check' = [pc |-> "alarm", found |-> check.found, tip |-> check.tip,
                    now |-> check.now, cursor |-> check.cursor, changed |-> check.changed,
                    low |-> Unknown, high |-> Lowest(check.changed),
                    unwritten |-> check.unwritten]
      BY <2>4, <3>0
    <3>2. IsCheck(check)'
      BY <2>1, <3>0, <3>1 DEF IsCheck
    <3> QED
      BY <2>1, <3>1, <3>2 DEF ReorgInv, IsEvidence, ChangesAreFiled
  <2>5. CASE check.pc = "alarm" /\ check' = [check EXCEPT !.pc = "save", !.unwritten = TRUE]
    <3>0. /\ check = [pc |-> "alarm", found |-> check.found, tip |-> check.tip,
                      now |-> check.now, cursor |-> check.cursor, changed |-> check.changed,
                      low |-> check.low, high |-> check.high, unwritten |-> check.unwritten]
          /\ check.changed = {h \in DOMAIN check.now \cap DOMAIN record.heights :
                                check.now[h] # record.heights[h]}
          /\ check.changed # {} /\ check.found
      BY <2>5 DEF ReorgInv, IsCheck, Asleep
    <3>1. check' = [pc |-> "save", found |-> check.found, tip |-> check.tip,
                    now |-> check.now, cursor |-> check.cursor, changed |-> check.changed,
                    low |-> check.low, high |-> check.high, unwritten |-> TRUE]
      BY <2>5, <3>0
    <3>2. IsCheck(check)'
      BY <2>1, <3>0, <3>1 DEF IsCheck
    <3>3. check'.unwritten
      BY <3>1
    <3> QED
      BY <2>1, <3>2, <3>3 DEF ReorgInv, IsEvidence, ChangesAreFiled
  <2> QED
    BY <2>2, <2>3, <2>4, <2>5
<1>10. CASE Acknowledge
  <2>1. /\ record' = record /\ check' = check
        /\ evidence' = {[e EXCEPT !.kept = FALSE] : e \in evidence}
    BY <1>10 DEF Acknowledge
  <2>2. \A e \in evidence : \A no :
          IsEvidence([e EXCEPT !.kept = no]) /\ [e EXCEPT !.kept = no].changed = e.changed
    <3> SUFFICES ASSUME NEW e \in evidence, NEW no
                 PROVE  IsEvidence([e EXCEPT !.kept = no])
                        /\ [e EXCEPT !.kept = no].changed = e.changed
      OBVIOUS
    <3>1. PICK kept, from, below, changed :
            e = [kept |-> kept, from |-> from, floor |-> below, changed |-> changed]
      BY DEF ReorgInv, IsEvidence
    <3>2. [e EXCEPT !.kept = no]
            = [kept |-> no, from |-> from, floor |-> below, changed |-> changed]
      BY <3>1
    <3>3. e.changed = changed /\ [e EXCEPT !.kept = no].changed = changed
      BY <3>1, <3>2
    <3> QED
      BY <3>2, <3>3 DEF IsEvidence
  <2>3. \A e \in evidence' : IsEvidence(e)
    BY <2>1, <2>2
  <2>4. ChangesAreFiled'
    <3>1. \A e \in evidence : [e EXCEPT !.kept = FALSE].changed = e.changed
      BY <2>2, Zenon
    <3>2. \A e \in evidence : [e EXCEPT !.kept = FALSE] \in evidence'
      BY <2>1, Zenon
    <3> DEFINE forgotten(e) == [e EXCEPT !.kept = FALSE]
    <3>3. \A e \in evidence : forgotten(e) \in evidence' /\ forgotten(e).changed = e.changed
      BY <3>1, <3>2, Zenon
    <3> HIDE DEF forgotten
    <3> QED
      BY <2>1, <3>3 DEF ReorgInv, ChangesAreFiled
  <2>5. IsCheck(check)'
    BY <2>1 DEF ReorgInv, IsCheck
  <2> QED
    BY <2>3, <2>4, <2>5 DEF ReorgInv, IsEvidence
<1> QED
  BY <1>2, <1>3, <1>4, <1>5, <1>6, <1>7, <1>8, <1>9, <1>10 DEF ReorgNext

\* The record is written over by a run that knows what it changes.
LEMMA SaveIsOnFile ==
  ASSUME ReorgInv, SaveState
  PROVE  RewriteIsOnFile
<1> DEFINE old == [h \in Kept |-> record.heights[h]]
<1>1. /\ check.pc = "save"
      /\ record'.heights = With(old, check.now)
      /\ code' = IF check.found THEN 1 ELSE IF FALSE THEN 2 ELSE 0
  BY DEF SaveState, SaveReady, save_state, Ends
<1>2. /\ check.changed = {h \in DOMAIN check.now \cap DOMAIN record.heights :
                            check.now[h] # record.heights[h]}
      /\ check.changed # {} => check.found
  BY <1>1 DEF ReorgInv, IsCheck, Asleep
<1> SUFFICES ASSUME NEW h \in DOMAIN record.heights \cap DOMAIN record'.heights,
                    record'.heights[h] # record.heights[h]
             PROVE  \/ \E e \in evidence :
                         <<h, record.heights[h], record'.heights[h]>> \in e.changed
                    \/ check.unwritten /\ code' = 1
  BY DEF RewriteIsOnFile
<1>3. h \in DOMAIN check.now /\ record'.heights[h] = check.now[h]
  BY <1>1 DEF With, Kept
<1>4. h \in check.changed
  BY <1>2, <1>3
<1>5. \/ \E e \in evidence : \A g \in check.changed :
           <<g, record.heights[g], check.now[g]>> \in e.changed
      \/ check.unwritten
  BY <1>1, <1>4 DEF ReorgInv, ChangesAreFiled
<1> QED
  BY <1>1, <1>2, <1>3, <1>4, <1>5

\* check_reorg.py:186: for any chain, any heights and any failures, no hash of the record
\* is written over before it is on file, or the run that could not file it says 1.
THEOREM RewritesAreKept == ReorgSpec => RewritesAreOnFile
<1>1. ReorgInv /\ [ReorgNext]_reorgVars => [RewriteIsOnFile]_reorgVars
  <2> SUFFICES ASSUME ReorgInv, ReorgNext PROVE RewriteIsOnFile \/ UNCHANGED reorgVars
    OBVIOUS
  <2>1. CASE record' = record
    BY <2>1 DEF RewriteIsOnFile
  <2>2. ASSUME NEW competing \in BOOLEAN, ReadTip(competing), record' # record
        PROVE  RewriteIsOnFile
    <3>1. record'.heights = <<>>
      <4>1. CASE Tip = 0
        <5>1. record' = [heights |-> <<>>, tip |-> 0, cursor |-> 0]
          BY <2>2, <4>1, Zenon DEF ReadTip, save_state
        <5> QED
          BY <5>1
      <4>2. CASE Tip # 0
        BY <2>2, <4>2, Zenon DEF ReadTip
      <4> QED
        BY <4>1, <4>2
    <3> QED
      BY <3>1 DEF RewriteIsOnFile
  <2>3. CASE SaveState
    BY <2>3, SaveIsOnFile
  <2> QED
    BY <2>1, <2>2, <2>3 DEF ReorgNext, Extend, Reorganise, RunBegins, ReadHashes, Halve,
                           raise_alarm, Fails, Acknowledge
<1> QED
  BY <1>1, ReorgInvInit, ReorgInvStep, PTL DEF ReorgSpec, RewritesAreOnFile

-----------------------------------------------------------------------------
(* ops/ops.py.                                                              *)

\* The cards put together so far, and the steps of the collector.
CardsAreHonest(cards, ans) ==
  \A i \in DOMAIN cards : cards[i].reachable => <<HOSTS[i], cards[i].checked>> \in ans

IsCollecting(c, ans) ==
  \/ \E pc \in {"off", "sleep", "open"} : c = [pc |-> pc]
  \/ \E h, tries, cards :
       /\ c = [pc |-> "ask", host |-> h, tries |-> tries, cards |-> cards]
       /\ h \in Nat \ {0} /\ DOMAIN cards = 1 .. h - 1 /\ CardsAreHonest(cards, ans)
  \/ \E cards : c = [pc |-> "cards", cards |-> cards] /\ CardsAreHonest(cards, ans)
  \/ \E k : c = [pc |-> "check", check |-> k]
  \/ \E k, ran : c = [pc |-> "wait", check |-> k, ran |-> ran]

ChecksAreHonest(shown, done) ==
  \A c \in DOMAIN shown : shown[c].status = "ok" => <<c, shown[c].ran>> \in done

\* A page, as far as what it calls well goes.
IsPage(page, ans, done) ==
  \E generated, cards, shown :
    /\ page = [generated |-> generated, hosts |-> cards, checks |-> shown]
    /\ CardsAreHonest(cards, ans) /\ ChecksAreHonest(shown, done)

OpsInv ==
  /\ IsCollecting(collecting, answered)
  /\ IsPage(panel, answered, passed) /\ IsPage(stateFile, answered, passed)

LEMMA OpsInvHonest == OpsInv => PanelIsHonest
<1>1. ASSUME NEW page, IsPage(page, answered, passed)
      PROVE  Honest(page)
  <2>1. PICK generated, cards, shown :
          /\ page = [generated |-> generated, hosts |-> cards, checks |-> shown]
          /\ CardsAreHonest(cards, answered) /\ ChecksAreHonest(shown, passed)
    BY <1>1 DEF IsPage
  <2>2. page.hosts = cards /\ page.checks = shown
    BY <2>1
  <2> QED
    BY <2>1, <2>2 DEF Honest, CardsAreHonest, ChecksAreHonest
<1> QED
  BY <1>1 DEF OpsInv, PanelIsHonest

LEMMA EmptyIsPage == \A ans, done : IsPage(Empty, ans, done)
<1> DEFINE cards == [i \in {} |-> 0]
           shown == [c \in {} |-> 0]
<1>1. \A ans, done : CardsAreHonest(cards, ans) /\ ChecksAreHonest(shown, done)
  BY DEF CardsAreHonest, ChecksAreHonest
<1>2. Empty = [generated |-> 0, hosts |-> cards, checks |-> shown]
  BY DEF Empty
<1> HIDE DEF cards, shown
<1> QED
  BY <1>1, <1>2 DEF IsPage

LEMMA OpsInvInit == OpsInit => OpsInv
BY EmptyIsPage DEF OpsInit, OpsInv, IsCollecting, Stopped

\* What was answered and what passed only grows.
LEMMA MoreIsStillHonest ==
  ASSUME NEW ans, NEW more, ans \subseteq more, NEW done, NEW further, done \subseteq further
  PROVE  /\ \A cards : CardsAreHonest(cards, ans) => CardsAreHonest(cards, more)
         /\ \A c : IsCollecting(c, ans) => IsCollecting(c, more)
         /\ \A page : IsPage(page, ans, done) => IsPage(page, more, further)
<1>1. \A cards : CardsAreHonest(cards, ans) => CardsAreHonest(cards, more)
  BY DEF CardsAreHonest
<1>2. \A shown : ChecksAreHonest(shown, done) => ChecksAreHonest(shown, further)
  BY DEF ChecksAreHonest
<1>3. \A c : IsCollecting(c, ans) => IsCollecting(c, more)
  BY <1>1, Zenon DEF IsCollecting
<1>4. \A page : IsPage(page, ans, done) => IsPage(page, more, further)
  BY <1>1, <1>2, Zenon DEF IsPage
<1> QED
  BY <1>1, <1>3, <1>4

\* A card calls a host reachable only when its answer came to the end.
LEMMA CardIsOfAnswer ==
  ASSUME NEW h, NEW out \in _rsh_once(h), collect_host(out).reachable
  PROVE  out.end /\ collect_host(out).checked = now
<1>1. ~(~Marked(out) \/ (out.end /\ out.parts = "words"))
  <2> SUFFICES ASSUME ~Marked(out) \/ (out.end /\ out.parts = "words")
               PROVE  FALSE
    OBVIOUS
  <2>1. collect_host(out) = [reachable |-> FALSE, checked |-> now]
    BY Zenon DEF collect_host
  <2>2. collect_host(out).reachable = FALSE
    BY <2>1
  <2> QED
    BY <2>2, Zenon
<1>2. collect_host(out)
        = [reachable |-> TRUE, checked |-> now, warning |-> out.rc # 0,
           height |-> IF out.end THEN one(out.parts) ELSE "unknown"]
  BY <1>1, Zenon DEF collect_host
<1>3. collect_host(out).checked = now
  BY <1>2
<1> QED
  BY <1>1, <1>3, Zenon DEF Marked

LEMMA RshKeeps ==
  ASSUME OpsInv, rsh
  PROVE  OpsInv'
<1>1. PICK tries, cards :
        /\ collecting = [pc |-> "ask", host |-> collecting.host, tries |-> tries, cards |-> cards]
        /\ collecting.host \in Nat \ {0}
        /\ DOMAIN cards = 1 .. collecting.host - 1 /\ CardsAreHonest(cards, answered)
  <2>1. collecting.pc = "ask"
    BY DEF rsh
  <2> QED
    BY <2>1 DEF OpsInv, IsCollecting
<1> DEFINE who == collecting.host
           h == HOSTS[who]
<1>2. PICK out \in _rsh_once(h) :
        /\ answered' = IF out.end THEN answered \cup {<<h, now>>} ELSE answered
        /\ IF out.rc = 255 /\ collecting.tries + 1 < Tries
           THEN collecting' = [collecting EXCEPT !.tries = @ + 1]
           ELSE LET next == [i \in 1 .. who |-> IF i = who THEN collect_host(out)
                                              ELSE collecting.cards[i]]
                IN  collecting' = IF who = Len(HOSTS)
                                  THEN [pc |-> "cards", cards |-> next]
                                  ELSE [pc |-> "ask", host |-> who + 1, tries |-> 0, cards |-> next]
  BY Zenon DEF rsh
<1>3. passed' = passed /\ panel' = panel /\ stateFile' = stateFile
  BY DEF rsh
<1>4. answered \subseteq answered'
  BY <1>2
<1>5. IsPage(panel', answered', passed') /\ IsPage(stateFile', answered', passed')
  BY <1>3, <1>4, MoreIsStillHonest DEF OpsInv
<1>6. collecting.cards = cards /\ collecting.tries = tries
  BY <1>1
<1>7. CardsAreHonest(cards, answered')
  BY <1>1, <1>4, MoreIsStillHonest
<1>8. CASE out.rc = 255 /\ collecting.tries + 1 < Tries
  <2>1. collecting' = [pc |-> "ask", host |-> who, tries |-> tries + 1, cards |-> cards]
    BY <1>1, <1>2, <1>8
  <2>2. IsCollecting(collecting', answered')
    BY <1>1, <1>7, <2>1 DEF IsCollecting
  <2> QED
    BY <1>5, <2>2 DEF OpsInv
<1>9. CASE ~(out.rc = 255 /\ collecting.tries + 1 < Tries)
  <2> DEFINE next == [i \in 1 .. who |-> IF i = who THEN collect_host(out) ELSE cards[i]]
  <2>1. \/ collecting' = [pc |-> "cards", cards |-> next]
        \/ collecting' = [pc |-> "ask", host |-> who + 1, tries |-> 0, cards |-> next]
    BY <1>2, <1>6, <1>9
  <2>2. DOMAIN next = 1 .. (who + 1) - 1 /\ who + 1 \in Nat \ {0}
    BY <1>1
  <2>3. CardsAreHonest(next, answered')
    <3> SUFFICES ASSUME NEW i \in 1 .. who, next[i].reachable
                 PROVE  <<HOSTS[i], next[i].checked>> \in answered'
      BY <1>1 DEF CardsAreHonest
    <3>1. CASE i = who
      <4>1. next[i] = collect_host(out)
        BY <3>1
      <4>2. out.end /\ collect_host(out).checked = now
        BY <4>1, CardIsOfAnswer
      <4> QED
        BY <1>2, <3>1, <4>1, <4>2
    <3>2. CASE i # who
      <4>1. next[i] = cards[i] /\ i \in DOMAIN cards
        BY <1>1, <3>2
      <4> QED
        BY <1>7, <4>1 DEF CardsAreHonest
    <3> QED
      BY <3>1, <3>2
  <2> HIDE DEF next
  <2>4. IsCollecting(collecting', answered')
    BY <2>1, <2>2, <2>3, Zenon DEF IsCollecting
  <2> QED
    BY <1>5, <2>4 DEF OpsInv
<1> QED
  BY <1>8, <1>9

LEMMA CardsKeeps ==
  ASSUME OpsInv, Cards
  PROVE  OpsInv'
<1>1. PICK cards : collecting.cards = cards /\ CardsAreHonest(cards, answered)
  <2>1. collecting.pc = "cards"
    BY DEF Cards
  <2> QED
    BY <2>1 DEF OpsInv, IsCollecting
<1>2. PICK generated, hosts, shown :
        /\ panel = [generated |-> generated, hosts |-> hosts, checks |-> shown]
        /\ ChecksAreHonest(shown, passed)
  BY DEF OpsInv, IsPage
<1>3. panel' = [panel EXCEPT !.hosts = cards, !.generated = now]
      /\ UNCHANGED <<answered, passed, stateFile>>
  BY <1>1 DEF Cards
<1>4. panel' = [generated |-> now, hosts |-> cards, checks |-> shown]
  BY <1>2, <1>3
<1>5. \/ \E k : collecting' = [pc |-> "check", check |-> k]
      \/ collecting' = [pc |-> "open"]
  BY Zenon DEF Cards
<1>6. IsCollecting(collecting', answered')
  BY <1>5, Zenon DEF IsCollecting
<1>7. IsPage(panel', answered', passed')
  BY <1>1, <1>2, <1>3, <1>4 DEF IsPage
<1> QED
  BY <1>3, <1>6, <1>7 DEF OpsInv

LEMMA RunCheckKeeps ==
  ASSUME OpsInv, run_check
  PROVE  OpsInv'
<1> DEFINE c == CHECKS[collecting.check]
           ran == collecting.ran
<1>1. PICK generated, cards, shown :
        /\ panel = [generated |-> generated, hosts |-> cards, checks |-> shown]
        /\ CardsAreHonest(cards, answered) /\ ChecksAreHonest(shown, passed)
  BY DEF OpsInv, IsPage
<1>2. PICK rc \in {0, 1, 2} :
        /\ passed' = IF rc = 0 THEN passed \cup {<<c, ran>>} ELSE passed
        /\ panel' = [panel EXCEPT
             !.checks = [k \in DOMAIN panel.checks \cup {c} |->
                           IF k = c THEN [status |-> status(rc), ran |-> ran]
                           ELSE panel.checks[k]],
             !.generated = IF collecting.check = Len(CHECKS) THEN now ELSE @]
  BY ZenonT(60) DEF run_check
<1>3. UNCHANGED <<answered, stateFile>>
  BY DEF run_check
<1> DEFINE next == [k \in DOMAIN shown \cup {c} |->
                      IF k = c THEN [status |-> status(rc), ran |-> ran] ELSE shown[k]]
<1>4. PICK at : panel' = [generated |-> at, hosts |-> cards, checks |-> next]
  <2>1. panel.checks = shown
    BY <1>1
  <2> HIDE DEF c, ran
  <2>2. panel' = [panel EXCEPT !.checks = next,
                    !.generated = IF collecting.check = Len(CHECKS) THEN now ELSE @]
    BY <1>2, <2>1
  <2> HIDE DEF next
  <2> QED
    BY <1>1, <2>2
<1>5. passed \subseteq passed'
  BY <1>2
<1>6. ChecksAreHonest(next, passed')
  <2> SUFFICES ASSUME NEW k \in DOMAIN shown \cup {c}, next[k].status = "ok"
               PROVE  <<k, next[k].ran>> \in passed'
    BY DEF ChecksAreHonest
  <2>1. CASE k = c
    <3>1. next[k] = [status |-> status(rc), ran |-> ran]
      BY <2>1
    <3>2. status(rc) = "ok" /\ next[k].ran = ran
      BY <3>1
    <3>3. rc = 0
      BY <3>2 DEF status
    <3> QED
      BY <1>2, <2>1, <3>2, <3>3
  <2>2. CASE k # c
    <3>1. next[k] = shown[k] /\ k \in DOMAIN shown
      BY <2>2
    <3> QED
      BY <1>1, <1>5, <3>1 DEF ChecksAreHonest
  <2> QED
    BY <2>1, <2>2
<1> HIDE DEF next
<1>7. IsPage(panel', answered', passed')
  BY <1>1, <1>3, <1>4, <1>6, Zenon DEF IsPage
<1>8. IsPage(stateFile', answered', passed')
  BY <1>3, <1>5, MoreIsStillHonest DEF OpsInv
<1>9. \/ \E k : collecting' = [pc |-> "check", check |-> k]
      \/ collecting' = [pc |-> "open"]
  BY Zenon DEF run_check
<1>10. IsCollecting(collecting', answered')
  BY <1>9, Zenon DEF IsCollecting
<1> QED
  BY <1>7, <1>8, <1>10 DEF OpsInv

LEMMA OpsInvStep == OpsInv /\ [OpsNext]_opsVars => OpsInv'
<1> SUFFICES ASSUME OpsInv, [OpsNext]_opsVars PROVE OpsInv'
  OBVIOUS
<1>1. CASE UNCHANGED opsVars \/ World \/ OtherListens
  BY <1>1 DEF OpsInv, opsVars, World, OtherListens
<1>2. CASE Main
  <2>1. UNCHANGED <<stateFile, answered, passed>>
    BY <1>2 DEF Main
  <2>2. \/ collecting' = [pc |-> "sleep"] /\ panel' = Empty
        \/ collecting' = collecting /\ panel' = panel
    BY <1>2, Zenon DEF Main, main
  <2>3. IsCollecting(collecting', answered')
    BY <2>1, <2>2 DEF OpsInv, IsCollecting
  <2>4. IsPage(panel', answered', passed')
    BY <2>1, <2>2, EmptyIsPage DEF OpsInv
  <2> QED
    BY <2>1, <2>3, <2>4 DEF OpsInv
<1>3. CASE PanelDies
  <2>1. UNCHANGED <<panel, stateFile, answered, passed>> /\ collecting' = [pc |-> "off"]
    BY <1>3 DEF PanelDies, Stopped
  <2>2. IsCollecting(collecting', answered')
    BY <2>1 DEF IsCollecting
  <2> QED
    BY <2>1, <2>2 DEF OpsInv
<1>4. CASE Round
  <2> DEFINE none == [i \in {} |-> 0]
  <2>1. /\ UNCHANGED <<panel, stateFile, answered, passed>>
        /\ collecting' = [pc |-> "ask", host |-> 1, tries |-> 0, cards |-> none]
    BY <1>4 DEF Round
  <2>2. /\ 1 \in Nat \ {0} /\ DOMAIN none = 1 .. 1 - 1
        /\ CardsAreHonest(none, answered')
    BY DEF CardsAreHonest
  <2> HIDE DEF none
  <2>3. IsCollecting(collecting', answered')
    BY <2>1, <2>2, Zenon DEF IsCollecting
  <2> QED
    BY <2>1, <2>3 DEF OpsInv
<1>5. CASE CheckBegins
  <2>1. /\ UNCHANGED <<panel, stateFile, answered, passed>>
        /\ collecting' = [pc |-> "wait", check |-> collecting.check, ran |-> now]
    BY <1>5 DEF CheckBegins
  <2>2. IsCollecting(collecting', answered')
    BY <2>1 DEF IsCollecting
  <2> QED
    BY <2>1, <2>2 DEF OpsInv
<1>6. CASE WritesState
  <2>1. /\ UNCHANGED <<panel, answered, passed>> /\ stateFile' \in {panel, stateFile}
        /\ collecting' = [pc |-> "sleep"]
    BY <1>6 DEF WritesState
  <2>2. IsCollecting(collecting', answered')
    BY <2>1 DEF IsCollecting
  <2> QED
    BY <2>1, <2>2 DEF OpsInv
<1> QED
  BY <1>1, <1>2, <1>3, <1>4, <1>5, <1>6, RshKeeps, CardsKeeps, RunCheckKeeps DEF OpsNext

\* What the panel and its file call well was so at the moment they name.
THEOREM PanelTellsTheTruth == OpsSpec => []PanelIsHonest
BY OpsInvInit, OpsInvStep, OpsInvHonest, PTL DEF OpsSpec

-----------------------------------------------------------------------------
(* consensus_floor.py and check_peer_versions.py.                           *)

TagValues == [Fields -> UNION {Values[f] : f \in Fields}] \cup {Unreadable}
Connections == [ip : Peers, version : Nat]

\* A field that is exempt at a tag holds there what it was.
ExemptIsZero ==
  \A t \in Usable \cap DOMAIN ASSIGNED_NOT_CHANGED : \A f \in ASSIGNED_NOT_CHANGED[t] :
    tags[t][f] = 0

IsPolling(p) ==
  \/ p = NotWatching
  \/ \E read \in Seq(Connections) : p = [pc |-> "self", read |-> read]
  \/ \E read \in Seq(Connections) : \E current :
       p = [pc |-> "journal", read |-> read, current |-> current]

FloorInv ==
  /\ tags \in Seq(TagValues) /\ peers \in Seq(Connections)
  /\ ExemptIsZero /\ IsPolling(polling)

-----------------------------------------------------------------------------
\* A set of numbers that is bounded has a greatest one.
LEMMA HasGreatest ==
  ASSUME NEW N \in Nat, NEW T, T \subseteq 0 .. N, T # {}
  PROVE  \E top \in T : \A m \in T : m <= top
<1> DEFINE R == {N - x : x \in T}
<1>1. R \subseteq Nat /\ R # {}
  <2>1. \A x \in T : N - x \in Nat
    OBVIOUS
  <2> QED
    BY <2>1
<1> HIDE DEF R
<1>2. PICK r \in R : \A s \in R : r <= s
  BY <1>1, HasLeast
<1>3. PICK top \in T : r = N - top
  BY DEF R
<1>4. ASSUME NEW m \in T PROVE m <= top
  <2>1. N - top <= N - m
    BY <1>2, <1>3 DEF R
  <2> QED
    BY <2>1
<1> QED
  BY <1>4

LEMMA UsableIsBounded ==
  ASSUME FloorInv
  PROVE  Len(tags) \in Nat /\ Usable \subseteq 1 .. Len(tags) /\ Tags = 1 .. Len(tags)
BY DEF FloorInv, Usable, Tags

\* The first tag, the one before and the floor are what they are called.
LEMMA FirstIsFirst ==
  ASSUME FloorInv, Usable # {}
  PROVE  First \in Usable /\ \A u \in Usable : First <= u
<1>1. \E t \in Usable : \A u \in Usable : t <= u
  BY UsableIsBounded, HasLeast
<1> QED
  BY <1>1 DEF First

LEMMA BeforeIsBefore ==
  ASSUME FloorInv, NEW t \in Usable, NEW w \in Usable, w < t
  PROVE  Before(t) \in Usable /\ Before(t) < t /\ w <= Before(t)
<1> DEFINE T == {u \in Usable : u < t}
<1>1. T # {} /\ T \subseteq 0 .. Len(tags) /\ Len(tags) \in Nat
  BY UsableIsBounded
<1>2. \E top \in T : \A m \in T : m <= top
  <2> HIDE DEF T
  <2> QED
    BY <1>1, HasGreatest
<1>3. \E u \in Usable : u < t /\ \A v \in Usable : v < t => v <= u
  BY <1>2
<1> QED
  BY <1>3 DEF Before

LEMMA FloorIsNewest ==
  ASSUME FloorInv, Usable # {}
  PROVE  floor \in Usable /\ \A v \in Usable : v > floor => v # First /\ v \notin RuleChanges
<1>1. First \in Usable /\ (\A u \in Usable : First <= u) /\ Usable \subseteq Nat
  BY FirstIsFirst, UsableIsBounded
<1>2. CASE RuleChanges = {}
  BY <1>1, <1>2 DEF floor
<1>3. CASE RuleChanges # {}
  <2>1. RuleChanges \subseteq Usable
    BY DEF RuleChanges
  <2>2. \E t \in RuleChanges : \A u \in RuleChanges : u <= t
    <3>1. Len(tags) \in Nat /\ RuleChanges \subseteq 0 .. Len(tags)
      BY <2>1, UsableIsBounded
    <3> QED
      BY <1>3, <3>1, HasGreatest
  <2>3. floor \in RuleChanges /\ \A u \in RuleChanges : u <= floor
    BY <1>3, <2>2 DEF floor
  <2> QED
    BY <1>1, <2>1, <2>3
<1> QED
  BY <1>2, <1>3

\* What is written the same decides the same: a field that is left out of one of the
\* two is not assigned in the other, or is exempt and what it was.
LEMMA SameIsSame ==
  ASSUME FloorInv, NEW t \in Usable, NEW u \in Usable, fingerprint(t) = fingerprint(u)
  PROVE  Decides(t) = Decides(u)
<1> DEFINE value(s, f) == IF tags[s][f] = Unassigned THEN 0 ELSE tags[s][f]
           exempt(s, f) == s \in DOMAIN ASSIGNED_NOT_CHANGED /\ f \in ASSIGNED_NOT_CHANGED[s]
<1>1. ASSUME NEW f \in Fields \ NOT_A_VALIDITY_RULE
      PROVE  value(t, f) = value(u, f)
  <2>1. \A s \in Usable : exempt(s, f) => value(s, f) = 0
    BY DEF FloorInv, ExemptIsZero
  <2>2. \A s \in {t, u} : \A v :
          <<f, v>> \in fingerprint(s) <=> ~exempt(s, f) /\ tags[s][f] # Unassigned /\ v = tags[s][f]
    BY DEF fingerprint
  <2>3. CASE \E s \in {t, u} : \A v : <<f, v>> \notin fingerprint(s)
    <3>1. \A s \in {t, u} : exempt(s, f) \/ tags[s][f] = Unassigned
      BY <2>2, <2>3
    <3>2. \A s \in {t, u} : value(s, f) = 0
      BY <2>1, <3>1
    <3> QED
      BY <3>2
  <2>4. CASE \A s \in {t, u} : \E v : <<f, v>> \in fingerprint(s)
    BY <2>2, <2>4
  <2> QED
    BY <2>3, <2>4
<1> QED
  BY <1>1 DEF Decides

\* From the floor on nothing that decides has moved.
LEMMA SinceTheFloor ==
  ASSUME FloorInv, Usable # {}, NEW t \in Usable, t >= floor
  PROVE  Decides(t) = Decides(floor)
<1> DEFINE Bad == {v \in Usable : v >= floor /\ Decides(v) # Decides(floor)}
<1>1. floor \in Usable /\ (\A v \in Usable : v > floor => v # First /\ v \notin RuleChanges)
      /\ Usable \subseteq Nat
  BY FloorIsNewest, UsableIsBounded
<1>2. Bad = {}
  <2> SUFFICES ASSUME Bad # {} PROVE FALSE
    OBVIOUS
  <2>1. Bad \subseteq Nat
    BY <1>1
  <2>2. PICK v \in Bad : \A w \in Bad : v <= w
    <3> HIDE DEF Bad
    <3> QED
      BY <2>1, HasLeast
  <2>3. v \in Usable /\ v > floor /\ Decides(v) # Decides(floor)
    BY <1>1, <2>1
  <2>4. Before(v) \in Usable /\ Before(v) < v /\ floor <= Before(v)
    BY <1>1, <2>3, BeforeIsBefore
  <2>5. fingerprint(v) = fingerprint(Before(v))
    BY <1>1, <2>3 DEF RuleChanges
  <2>6. Decides(v) = Decides(Before(v))
    BY <2>3, <2>4, <2>5, SameIsSame
  <2>7. Decides(Before(v)) = Decides(floor)
    <3>1. Before(v) \in Nat /\ v \in Nat /\ floor \in Nat
      BY <1>1, <2>3, <2>4
    <3>2. ~(v <= Before(v)) /\ Before(v) >= floor
      BY <2>4, <3>1
    <3>3. Before(v) \notin Bad
      <4> HIDE DEF Bad
      <4> QED
        BY <2>2, <3>2
    <3> QED
      BY <2>4, <3>2, <3>3
  <2> QED
    BY <2>3, <2>6, <2>7
<1> QED
  BY <1>2

LEMMA FloorInvAgrees == FloorInv => FollowersAgree
<1> SUFFICES ASSUME FloorInv, NEW t \in Usable, NEW u \in Usable,
                    (t >= floor /\ u >= t) \/ compare_remote(t, u) = 0
             PROVE  Decides(t) = Decides(u)
  BY DEF FollowersAgree
<1>1. CASE t >= floor /\ u >= t
  <2>1. floor \in Usable /\ Usable \subseteq Nat
    BY FloorIsNewest, UsableIsBounded
  <2>2. u >= floor
    BY <1>1, <2>1
  <2> QED
    BY <1>1, <2>2, SinceTheFloor
<1>2. CASE compare_remote(t, u) = 0
  <2>1. fingerprint(t) = fingerprint(u)
    BY <1>2 DEF compare_remote
  <2> QED
    BY <2>1, SameIsSame
<1> QED
  BY <1>1, <1>2

-----------------------------------------------------------------------------
LEMMA FloorInvInit == FloorInit => FloorInv
BY DEF FloorInit, FloorInv, ExemptIsZero, Usable, Tags, IsPolling

LEMMA TagKeeps ==
  ASSUME FloorInv, Tag
  PROVE  FloorInv'
<1>1. PICK values \in TagValues :
        /\ values # Unreadable =>
             \A t \in DOMAIN ASSIGNED_NOT_CHANGED : \A f \in ASSIGNED_NOT_CHANGED[t] :
               Len(tags) + 1 = t => values[f] = 0
        /\ tags' = Append(tags, values)
  BY DEF Tag, TagValues
<1>2. UNCHANGED <<peers, polling>>
  BY DEF Tag
<1>3. /\ tags' \in Seq(TagValues) /\ Len(tags') = Len(tags) + 1 /\ Len(tags) \in Nat
      /\ \A i \in 1 .. Len(tags) : tags'[i] = tags[i]
      /\ tags'[Len(tags) + 1] = values
  BY <1>1, AppendProperties DEF FloorInv
<1>4. ExemptIsZero'
  <2> SUFFICES ASSUME NEW t \in Usable' \cap DOMAIN ASSIGNED_NOT_CHANGED,
                      NEW f \in ASSIGNED_NOT_CHANGED[t]
               PROVE  tags'[t][f] = 0
    BY DEF ExemptIsZero
  <2>1. t \in 1 .. Len(tags) + 1 /\ tags'[t] # Unreadable
    BY <1>3 DEF Usable, Tags
  <2>2. CASE t = Len(tags) + 1
    BY <1>1, <1>3, <2>1, <2>2
  <2>3. CASE t # Len(tags) + 1
    <3>1. t \in 1 .. Len(tags) /\ tags'[t] = tags[t]
      BY <1>3, <2>1, <2>3
    <3>2. t \in Usable
      BY <1>3, <2>1, <3>1 DEF Usable, Tags, FloorInv
    <3> QED
      BY <3>1, <3>2 DEF FloorInv, ExemptIsZero
  <2> QED
    BY <2>2, <2>3
<1> QED
  BY <1>2, <1>3, <1>4 DEF FloorInv, IsPolling

LEMMA FloorInvStep == FloorInv /\ [FloorNext]_floorVars => FloorInv'
<1> SUFFICES ASSUME FloorInv, [FloorNext]_floorVars PROVE FloorInv'
  OBVIOUS
<1>1. CASE UNCHANGED floorVars
  BY <1>1 DEF floorVars, FloorInv, ExemptIsZero, Usable, Tags, IsPolling
<1>2. CASE \E ip \in Peers, version \in Tags \cup {0} : Connect(ip, version)
  <2>1. PICK ip \in Peers, version \in Tags \cup {0} : Connect(ip, version)
    BY <1>2
  <2>2. version \in Nat
    BY DEF FloorInv, Tags
  <2> DEFINE new == [ip |-> ip, version |-> version]
  <2>3. new \in Connections
    BY <2>2 DEF Connections
  <2>4. peers' = Append(peers, new) /\ UNCHANGED <<tags, polling>>
    BY <2>1 DEF Connect
  <2> HIDE DEF new
  <2>5. peers' \in Seq(Connections)
    BY <2>3, <2>4, AppendProperties DEF FloorInv
  <2> QED
    BY <2>4, <2>5 DEF FloorInv, ExemptIsZero, Usable, Tags, IsPolling
<1>3. CASE Leave
  <2>1. peers # <<>> /\ peers' = Tail(peers) /\ UNCHANGED <<tags, polling>>
    BY <1>3 DEF Leave
  <2>2. peers' \in Seq(Connections)
    BY <2>1, HeadTailProperties DEF FloorInv
  <2> QED
    BY <2>1, <2>2 DEF FloorInv, ExemptIsZero, Usable, Tags, IsPolling
<1>4. CASE AskPeers
  <2>1. polling' \in {polling, [pc |-> "self", read |-> peers]} /\ UNCHANGED <<tags, peers>>
    BY <1>4 DEF AskPeers
  <2>2. IsPolling(polling')
    BY <2>1 DEF FloorInv, IsPolling
  <2> QED
    BY <2>1, <2>2 DEF FloorInv, ExemptIsZero, Usable, Tags
<1>5. CASE AskSelf
  <2>1. polling.pc = "self" /\ UNCHANGED <<tags, peers>>
        /\ \E current : polling' = [pc |-> "journal", read |-> polling.read, current |-> current]
    BY <1>5 DEF AskSelf
  <2>2. polling.read \in Seq(Connections)
    BY <2>1 DEF FloorInv, IsPolling, NotWatching
  <2>3. IsPolling(polling')
    BY <2>1, <2>2 DEF IsPolling
  <2> QED
    BY <2>1, <2>3 DEF FloorInv, ExemptIsZero, Usable, Tags
<1>6. CASE Judge
  <2>1. polling' = NotWatching /\ UNCHANGED <<tags, peers>>
    BY <1>6 DEF Judge
  <2> QED
    BY <2>1 DEF FloorInv, ExemptIsZero, Usable, Tags, IsPolling
<1> QED
  BY <1>1, <1>2, <1>3, <1>4, <1>5, <1>6, TagKeeps DEF FloorNext

\* Of an address the version of a connection is told.
LEMMA AddressIsRead ==
  ASSUME NEW read \in Seq(Connections), NEW ip \in DOMAIN by_addr(read)
  PROVE  by_addr(read)[ip] \in Nat
<1> DEFINE T == {i \in DOMAIN read : read[i].ip = ip}
<1>1. T # {} /\ T \subseteq 0 .. Len(read) /\ Len(read) \in Nat
  BY DEF by_addr
<1>2. \E top \in T : \A m \in T : m <= top
  <2> HIDE DEF T
  <2> QED
    BY <1>1, HasGreatest
<1>3. PICK i \in DOMAIN read : by_addr(read)[ip] = read[i].version
  <2>1. \E i \in DOMAIN read : /\ read[i].ip = ip
                               /\ \A j \in DOMAIN read : read[j].ip = ip => j <= i
    BY <1>2
  <2> QED
    BY <2>1 DEF by_addr
<1>4. read[i] \in Connections
  BY ElementOfSeq
<1> QED
  BY <1>3, <1>4 DEF Connections

LEMMA JudgedIsAgreed == FloorInv => GreenIsAgreed
<1> SUFFICES ASSUME FloorInv, Judge, outcome'.code = 0, Usable # {},
                    NEW ip \in DOMAIN by_addr(polling.read) \ Ours
             PROVE  LET v == by_addr(polling.read)[ip]
                    IN  v > 0 /\ (v \in Usable =>
                                    \A u \in Usable : u >= v => Decides(u) = Decides(v))
  BY DEF GreenIsAgreed
<1> DEFINE v == by_addr(polling.read)[ip]
<1>1. polling.read \in Seq(Connections)
  BY DEF Judge, FloorInv, IsPolling, NotWatching
<1>2. v \in Nat
  BY <1>1, AddressIsRead
<1>3. Verdict(polling.read) = 0
  BY DEF Judge
<1>4. ~(v < floor)
  BY <1>3 DEF Verdict
<1>5. floor \in Usable /\ Usable \subseteq Nat \ {0}
  BY FloorIsNewest, UsableIsBounded
<1>6. v >= floor /\ v > 0
  BY <1>2, <1>4, <1>5
<1>7. ASSUME v \in Usable, NEW u \in Usable, u >= v
      PROVE  Decides(u) = Decides(v)
  BY <1>6, <1>7, FloorInvAgrees DEF FollowersAgree
<1> HIDE DEF v
<1> QED
  BY <1>6, <1>7 DEF v

\* Whoever runs the floor or anything newer accepts what the newest release accepts,
\* for every history of tags; and releases that compare as the same decide the same.
THEOREM FollowersAlwaysAgree == FloorSpec => []FollowersAgree
BY FloorInvInit, FloorInvStep, FloorInvAgrees, PTL DEF FloorSpec

\* Green is only said of independent nodes that accept what the newest release accepts.
THEOREM GreenIsOfFollowers == FloorSpec => GreenFollows
<1>1. FloorInv /\ [FloorNext]_floorVars => [GreenIsAgreed]_floorVars
  BY JudgedIsAgreed
<1> QED
  BY <1>1, FloorInvInit, FloorInvStep, PTL DEF FloorSpec, GreenFollows

-----------------------------------------------------------------------------
(* daily_report.py.                                                         *)

WorldOk ==
  /\ faults \in [Machines -> SUBSET Faults] /\ broken \subseteq Range(Checks)
  /\ lasting \subseteq Wrong

\* What was read covers what has been wrong for as long, and, of a world that has
\* stood still, nothing else.
FactsOk ==
  /\ DOMAIN facts \subseteq Machines /\ IsFiniteSet(DOMAIN facts)
  /\ \A m \in DOMAIN facts : facts[m].told =>
       /\ \A f \in Faults : <<m, f>> \in lasting => f \in facts[m].faults
       /\ still => \A f \in facts[m].faults : <<m, f>> \in Wrong

ResultsOk ==
  /\ results \in Seq({"bad", "ok", "unknown"}) /\ Len(results) <= Len(Checks)
  /\ \A j \in DOMAIN results :
       /\ <<"checks", Checks[j]>> \in lasting => results[j] # "ok"
       /\ still /\ results[j] = "bad" => <<"checks", Checks[j]>> \in Wrong

\* The number of a run is above those that arrived.
NumbersOk ==
  /\ number \in Nat /\ serial \in Nat
  /\ \A i \in DOMAIN arrived : arrived[i].n \in Nat
  /\ written => /\ \A i \in DOMAIN arrived : arrived[i].n <= number
                /\ \A i, j \in DOMAIN arrived : i < j => arrived[i].n < arrived[j].n
                /\ stage = "facts" =>
                     serial = number /\ \A i \in DOMAIN arrived : arrived[i].n < serial

MessageIsHonest(r) ==
  /\ \A w \in r.missed : IF w[1] = "checks" THEN r.notes # {} ELSE <<w[1], "unread">> \in r.problems
  /\ r.still => \A p \in r.problems : p \in r.wrong \/ p[2] \in {"unread", "disagree"}

MessagesOk ==
  /\ \E S : arrived \in Seq(S)
  /\ \A i \in DOMAIN arrived : MessageIsHonest(arrived[i])

MorningInv == WorldOk /\ FactsOk /\ ResultsOk /\ NumbersOk /\ MessagesOk

\* A message more.
LEMMA OneMessageMore ==
  ASSUME NEW S, NEW s \in Seq(S), NEW r
  PROVE  /\ \E T : Append(s, r) \in Seq(T)
         /\ Len(s) \in Nat /\ DOMAIN s = 1 .. Len(s) /\ DOMAIN Append(s, r) = 1 .. Len(s) + 1
         /\ \A i \in 1 .. Len(s) : Append(s, r)[i] = s[i]
         /\ Append(s, r)[Len(s) + 1] = r
<1> DEFINE T == S \cup {r}
<1>2. s \in Seq(T) /\ r \in T
  BY SeqMonotonic
<1> HIDE DEF T
<1>3. /\ Append(s, r) \in Seq(T) /\ Len(Append(s, r)) = Len(s) + 1
      /\ \A i \in 1 .. Len(s) : Append(s, r)[i] = s[i]
      /\ Append(s, r)[Len(s) + 1] = r
  BY <1>2, AppendProperties
<1>4. Len(s) \in Nat /\ DOMAIN s = 1 .. Len(s) /\ DOMAIN Append(s, r) = 1 .. Len(s) + 1
  BY <1>2, <1>3, LenProperties
<1> QED
  BY <1>3, <1>4

LEMMA MorningInvInit == ReportInit => MorningInv
<1> SUFFICES ASSUME ReportInit PROVE MorningInv
  OBVIOUS
<1>1. WorldOk
  BY DEF ReportInit, WorldOk
<1>2. FactsOk
  <2>1. DOMAIN facts = {}
    BY DEF ReportInit, Nothing
  <2> QED
    BY <2>1, FS_EmptySet DEF FactsOk
<1>3. ResultsOk
  BY ReportAssumption, LenProperties DEF ReportInit, ResultsOk
<1>4. NumbersOk
  BY DEF ReportInit, NumbersOk, Unwritten
<1>5. MessagesOk
  BY DEF ReportInit, MessagesOk
<1> QED
  BY <1>1, <1>2, <1>3, <1>4, <1>5 DEF MorningInv

\* What is wrong is wrong with a machine or with a check, and not with both.
LEMMA WrongIs ==
  ASSUME WorldOk
  PROVE  /\ \A m \in Machines : \A f : <<m, f>> \in Wrong <=> f \in faults[m]
         /\ \A c : <<"checks", c>> \in Wrong <=> c \in broken
         /\ \A w \in Wrong : \/ \E m \in Machines, f \in Faults : w = <<m, f>>
                             \/ \E c \in Range(Checks) : w = <<"checks", c>>
<1>1. \A m \in Machines : m # "checks"
  BY ReportAssumption DEF Machines
<1>2. \A w : w \in Wrong <=> \/ \E m \in Machines : \E f \in faults[m] : w = <<m, f>>
                             \/ \E c \in broken : w = <<"checks", c>>
  <2> DEFINE has(m) == {<<m, f>> : f \in faults[m]}
  <2>1. \A m, w : w \in has(m) <=> \E f \in faults[m] : w = <<m, f>>
    BY Zenon
  <2>2. FaultsThere = UNION {has(m) : m \in Machines}
    BY Zenon DEF FaultsThere
  <2> HIDE DEF has
  <2>3. \A w : w \in FaultsThere <=> \E m \in Machines : w \in has(m)
    BY <2>2
  <2>4. \A w : w \in Wrong <=> w \in FaultsThere \/ \E c \in broken : w = <<"checks", c>>
    BY DEF Wrong
  <2> QED
    BY <2>1, <2>3, <2>4
<1>3. ASSUME NEW m \in Machines, NEW f
      PROVE  <<m, f>> \in Wrong <=> f \in faults[m]
  BY <1>1, <1>2
<1>4. ASSUME NEW c PROVE <<"checks", c>> \in Wrong <=> c \in broken
  BY <1>1, <1>2
<1>5. ASSUME NEW w \in Wrong
      PROVE  \/ \E m \in Machines, f \in Faults : w = <<m, f>>
             \/ \E c \in Range(Checks) : w = <<"checks", c>>
  BY <1>2 DEF WorldOk
<1> QED
  BY <1>3, <1>4, <1>5

\* What a message calls a problem.
LEMMA ProblemIs ==
  ASSUME NEW p
  PROVE  p \in Problems <=>
           \/ \E m \in Machines \ Told : p = <<m, "unread">>
           \/ \E m \in Told : \E f \in facts[m].faults : p = <<m, f>>
           \/ \E i \in DOMAIN results : results[i] = "bad" /\ p = <<"checks", Checks[i]>>
           \/ /\ \E a, b \in Told : facts[a].tip # facts[b].tip
              /\ p = <<"all", "disagree">>
<1>1. p \in FaultsTold <=> \E m \in Told : \E f \in facts[m].faults : p = <<m, f>>
  <2> DEFINE has(m) == {<<m, f>> : f \in facts[m].faults}
  <2>1. \A m : p \in has(m) <=> \E f \in facts[m].faults : p = <<m, f>>
    BY Zenon
  <2>2. FaultsTold = UNION {has(m) : m \in Told}
    BY Zenon DEF FaultsTold
  <2> HIDE DEF has
  <2> QED
    BY <2>1, <2>2
<1>2. p \in ChecksFailed <=>
        \E i \in DOMAIN results : results[i] = "bad" /\ p = <<"checks", Checks[i]>>
  BY Zenon DEF ChecksFailed
<1>3. p \in Problems <=>
        \/ \E m \in Machines \ Told : p = <<m, "unread">>
        \/ p \in FaultsTold \/ p \in ChecksFailed
        \/ TipsDiffer /\ p = <<"all", "disagree">>
  BY DEF Problems
<1> QED
  BY <1>1, <1>2, <1>3, Zenon DEF TipsDiffer

\* The world moves on, and what was read of it stays.
LEMMA WorldMoves ==
  ASSUME MorningInv,
         (\E m \in Machines : BlockComes(m)) \/ Changes
  PROVE  MorningInv'
<1>1. UNCHANGED <<number, serial, stage, facts, results, arrived, written>> /\ still' = FALSE
  BY DEF BlockComes, Changes
<1>2. WorldOk' /\ lasting' \subseteq lasting
  <2>1. CASE \E m \in Machines : BlockComes(m)
    BY <2>1 DEF BlockComes, MorningInv, WorldOk, Wrong, FaultsThere
  <2>2. CASE Changes
    <3>1. lasting' = lasting \cap Wrong'
      BY <2>2 DEF Changes
    <3>2. faults' \in [Machines -> SUBSET Faults] /\ broken' \subseteq Range(Checks)
      <4>1. CASE broken' = broken /\ \E m \in Machines, f \in Faults :
                   faults' = [faults EXCEPT ![m] = SymDiff(@, {f})]
        BY <4>1 DEF MorningInv, WorldOk, SymDiff
      <4>2. CASE faults' = faults /\ \E c \in Range(Checks) : broken' = SymDiff(broken, {c})
        BY <4>2 DEF MorningInv, WorldOk, SymDiff
      <4> QED
        BY <2>2, <4>1, <4>2 DEF Changes
    <3> QED
      BY <3>1, <3>2 DEF WorldOk
  <2> QED
    BY <2>1, <2>2
<1>3. FactsOk'
  BY <1>1, <1>2 DEF MorningInv, FactsOk
<1>4. ResultsOk'
  BY <1>1, <1>2 DEF MorningInv, ResultsOk
<1>5. NumbersOk' /\ MessagesOk'
  BY <1>1 DEF MorningInv, NumbersOk, MessagesOk
<1> QED
  BY <1>2, <1>3, <1>4, <1>5 DEF MorningInv

LEMMA BeginsReport ==
  ASSUME MorningInv, NEW dry \in BOOLEAN, Begins(dry)
  PROVE  MorningInv'
<1>1. /\ stage = "resting" /\ serial' = number + 1 /\ facts' = Nothing /\ results' = <<>>
      /\ lasting' = Wrong /\ UNCHANGED <<tip, faults, broken, arrived>>
      /\ \/ stage' = "dry" /\ UNCHANGED <<number, written>>
         \/ stage' = "facts" /\ number' = number + 1 /\ UNCHANGED written
         \/ stage' = "facts" /\ number' = number /\ written' = FALSE
  BY Zenon DEF Begins, Takes
<1>2. Wrong' = Wrong
  BY <1>1 DEF Wrong, FaultsThere
<1>3. WorldOk'
  BY <1>1, <1>2 DEF MorningInv, WorldOk
<1>4. FactsOk'
  <2>1. DOMAIN facts' = {}
    BY <1>1 DEF Nothing
  <2> QED
    BY <2>1, FS_EmptySet DEF FactsOk
<1>5. ResultsOk'
  BY <1>1, ReportAssumption, LenProperties DEF ResultsOk
<1>6. NumbersOk'
  BY <1>1 DEF MorningInv, NumbersOk
<1>7. MessagesOk'
  BY <1>1 DEF MorningInv, MessagesOk
<1> QED
  BY <1>3, <1>4, <1>5, <1>6, <1>7 DEF MorningInv

LEMMA ReadsKeeps ==
  ASSUME MorningInv, ReadsFacts
  PROVE  MorningInv'
<1> DEFINE m == MACHINES[Cardinality(DOMAIN facts) + 1]
           Plus(told) == [k \in DOMAIN facts \cup {m} |-> IF k = m THEN told ELSE facts[k]]
           answer == [told |-> TRUE, tip |-> tip[m], faults |-> faults[m]]
<1>1. PICK told \in {answer, Unread} : facts' = Plus(told)
  BY DEF ReadsFacts
<1>2. /\ UNCHANGED <<tip, faults, broken, still, lasting, written, number, serial, stage, results, arrived>>
      /\ Cardinality(DOMAIN facts) < Len(MACHINES)
  BY DEF ReadsFacts, world
<1>3. m \in Machines
  <2>1. Cardinality(DOMAIN facts) \in Nat
    BY FS_CardinalityType DEF MorningInv, FactsOk
  <2>2. Cardinality(DOMAIN facts) + 1 \in 1 .. Len(MACHINES)
    BY <1>2, <2>1, ReportAssumption, LenProperties
  <2> QED
    BY <2>2, ReportAssumption, ElementOfSeq DEF Machines
<1>4. Wrong' = Wrong
  BY <1>2 DEF Wrong, FaultsThere
<1>5. WorldOk'
  BY <1>2, <1>4 DEF MorningInv, WorldOk
<1> HIDE DEF m
<1>6. DOMAIN facts' = DOMAIN facts \cup {m} /\ facts'[m] = told
      /\ \A k \in DOMAIN facts : k # m => facts'[k] = facts[k]
  <2> HIDE DEF answer
  <2> QED
    BY <1>1
<1>7. FactsOk'
  <2>1. DOMAIN facts' \subseteq Machines /\ IsFiniteSet(DOMAIN facts')
    BY <1>3, <1>6, FS_AddElement DEF MorningInv, FactsOk
  <2> SUFFICES ASSUME NEW k \in DOMAIN facts', facts'[k].told
               PROVE  /\ \A f \in Faults : <<k, f>> \in lasting => f \in facts'[k].faults
                      /\ still => \A f \in facts'[k].faults : <<k, f>> \in Wrong
    BY <1>2, <1>4, <2>1, Zenon DEF FactsOk
  <2>2. CASE k = m
    <3>1. told = answer
      BY <1>1, <1>6, <2>2 DEF Unread
    <3>2. facts'[k].faults = faults[m]
      BY <1>6, <2>2, <3>1
    <3>3. \A f : <<m, f>> \in Wrong <=> f \in faults[m]
      BY <1>3, WrongIs DEF MorningInv
    <3>4. lasting \subseteq Wrong /\ faults[m] \subseteq Faults
      BY <1>3 DEF MorningInv, WorldOk
    <3> QED
      BY <2>2, <3>2, <3>3, <3>4
  <2>3. CASE k # m
    <3>1. k \in DOMAIN facts /\ facts'[k] = facts[k]
      BY <1>6, <2>3
    <3> QED
      BY <3>1 DEF MorningInv, FactsOk
  <2> QED
    BY <2>2, <2>3
<1>8. ResultsOk'
  BY <1>2, <1>4 DEF MorningInv, ResultsOk
<1>9. NumbersOk' /\ MessagesOk'
  BY <1>2 DEF MorningInv, NumbersOk, MessagesOk
<1> QED
  BY <1>5, <1>7, <1>8, <1>9 DEF MorningInv

LEMMA RunsKeeps ==
  ASSUME MorningInv, Runs
  PROVE  MorningInv'
<1> DEFINE next == Len(results) + 1
           c == Checks[next]
<1>1. PICK verdict \in {"bad", "ok", "unknown"} :
        /\ results' = Append(results, verdict)
        /\ verdict # "unknown" => verdict = IF c \in broken THEN "bad" ELSE "ok"
  BY DEF Runs
<1>2. /\ UNCHANGED <<tip, faults, broken, still, lasting, written, number, serial, stage, facts, arrived>>
      /\ Len(results) < Len(Checks)
  BY DEF Runs, world
<1>3. Wrong' = Wrong
  BY <1>2 DEF Wrong, FaultsThere
<1>4. WorldOk' /\ FactsOk'
  BY <1>2, <1>3 DEF MorningInv, WorldOk, FactsOk
<1>5. ResultsOk'
  <2>1. results \in Seq({"bad", "ok", "unknown"}) /\ Len(results) \in Nat
    BY DEF MorningInv, ResultsOk
  <2>2. /\ results' \in Seq({"bad", "ok", "unknown"}) /\ Len(results') = Len(results) + 1
        /\ \A j \in 1 .. Len(results) : results'[j] = results[j]
        /\ results'[next] = verdict
    BY <1>1, <2>1, AppendProperties
  <2>3. Len(results') <= Len(Checks)
    BY <1>2, <2>1, <2>2, ReportAssumption, LenProperties
  <2>4. ASSUME NEW j \in DOMAIN results'
        PROVE  /\ <<"checks", Checks[j]>> \in lasting => results'[j] # "ok"
               /\ still /\ results'[j] = "bad" => <<"checks", Checks[j]>> \in Wrong
    <3>1. CASE j = next
      <4>1. /\ <<"checks", c>> \in Wrong <=> c \in broken
            /\ lasting \subseteq Wrong
        BY WrongIs DEF MorningInv, WorldOk
      <4>2. verdict = "ok" => c \notin broken
        BY <1>1
      <4>3. verdict = "bad" => c \in broken
        BY <1>1
      <4> QED
        BY <2>2, <3>1, <4>1, <4>2, <4>3
    <3>2. CASE j # next
      <4>1. j \in DOMAIN results /\ results'[j] = results[j]
        BY <2>1, <2>2, <3>2
      <4> QED
        BY <4>1 DEF MorningInv, ResultsOk
    <3> QED
      BY <3>1, <3>2
  <2> QED
    BY <1>2, <1>3, <2>2, <2>3, <2>4 DEF ResultsOk
<1>6. NumbersOk' /\ MessagesOk'
  BY <1>2 DEF MorningInv, NumbersOk, MessagesOk
<1> QED
  BY <1>4, <1>5, <1>6 DEF MorningInv

\* What a run sends is honest.
LEMMA SentIsHonest ==
  ASSUME MorningInv, DOMAIN facts = Machines, Len(results) = Len(Checks),
         NEW r, NEW at,
         r = [n |-> at, problems |-> Problems,
              notes |-> {i \in DOMAIN results : results[i] = "unknown"},
              missed |-> lasting \ Problems, still |-> still, wrong |-> Wrong]
  PROVE  MessageIsHonest(r)
<1> DEFINE notes == {i \in DOMAIN results : results[i] = "unknown"}
<1>1. /\ r.problems = Problems /\ r.notes = notes /\ r.missed = lasting \ Problems
      /\ r.still = still /\ r.wrong = Wrong
  BY Zenon
<1>2. ASSUME NEW w \in lasting \ Problems
      PROVE  IF w[1] = "checks" THEN notes # {} ELSE <<w[1], "unread">> \in Problems
  <2>1. w \in Wrong
    BY DEF MorningInv, WorldOk
  <2>2. CASE \E m \in Machines, f \in Faults : w = <<m, f>>
    <3>1. PICK m \in Machines, f \in Faults : w = <<m, f>>
      BY <2>2
    <3>2. w[1] = m /\ m # "checks"
      BY <3>1, ReportAssumption DEF Machines
    <3>3. m \notin Told
      <4> SUFFICES ASSUME m \in Told PROVE FALSE
        OBVIOUS
      <4>0. m \in Told
        OBVIOUS
      <4>1. f \in facts[m].faults
        BY <1>2, <3>1 DEF Told, MorningInv, FactsOk
      <4>2. <<m, f>> \in Problems
        BY <4>0, <4>1, ProblemIs, Zenon
      <4> QED
        BY <1>2, <3>1, <4>2
    <3>4. <<m, "unread">> \in Problems
      BY <3>1, <3>3, ProblemIs
    <3> QED
      BY <3>2, <3>4
  <2>3. CASE \E c \in Range(Checks) : w = <<"checks", c>>
    <3>1. PICK c \in Range(Checks) : w = <<"checks", c>>
      BY <2>3
    <3>2. PICK j \in DOMAIN Checks : c = Checks[j]
      BY DEF Range
    <3>3. j \in DOMAIN results
      BY ReportAssumption, LenProperties DEF MorningInv, ResultsOk
    <3>4. results[j] \in {"bad", "unknown"}
      <4>1. results[j] \in {"bad", "ok", "unknown"}
        BY <3>3, ElementOfSeq DEF MorningInv, ResultsOk
      <4> QED
        BY <1>2, <3>1, <3>2, <3>3, <4>1 DEF MorningInv, ResultsOk
    <3>5. results[j] # "bad"
      <4> SUFFICES ASSUME results[j] = "bad" PROVE FALSE
        OBVIOUS
      <4>0. results[j] = "bad"
        OBVIOUS
      <4>1. <<"checks", Checks[j]>> \in Problems
        BY <3>3, <4>0, ProblemIs, Zenon
      <4> QED
        BY <1>2, <3>1, <3>2, <4>1
    <3>6. j \in notes
      BY <3>3, <3>4, <3>5
    <3>7. w[1] = "checks"
      BY <3>1
    <3> QED
      BY <3>6, <3>7
  <2> QED
    BY <2>1, <2>2, <2>3, WrongIs DEF MorningInv
<1>3. ASSUME still, NEW p \in Problems
      PROVE  p \in Wrong \/ p[2] \in {"unread", "disagree"}
  <2>1. CASE \E m \in Machines \ Told : p = <<m, "unread">>
    BY <2>1
  <2>2. CASE \E m \in Told : \E f \in facts[m].faults : p = <<m, f>>
    <3>1. PICK m \in Told : \E f \in facts[m].faults : p = <<m, f>>
      BY <2>2
    <3>2. PICK f \in facts[m].faults : p = <<m, f>>
      BY <3>1
    <3>3. m \in DOMAIN facts /\ facts[m].told
      BY DEF Told
    <3> QED
      BY <1>3, <3>2, <3>3 DEF MorningInv, FactsOk
  <2>3. CASE \E i \in DOMAIN results : results[i] = "bad" /\ p = <<"checks", Checks[i]>>
    <3>1. PICK i \in DOMAIN results : results[i] = "bad" /\ p = <<"checks", Checks[i]>>
      BY <2>3
    <3> QED
      BY <1>3, <3>1 DEF MorningInv, ResultsOk
  <2>4. CASE p = <<"all", "disagree">>
    BY <2>4
  <2> QED
    BY <2>1, <2>2, <2>3, <2>4, ProblemIs, Zenon
<1> HIDE DEF notes
<1> QED
  BY <1>1, <1>2, <1>3, Zenon DEF MessageIsHonest

LEMMA SendsKeeps ==
  ASSUME MorningInv, Sends
  PROVE  MorningInv'
<1>1. /\ stage \in {"facts", "dry"} /\ DOMAIN facts = Machines /\ Len(results) = Len(Checks)
      /\ stage' = "resting"
      /\ UNCHANGED <<tip, faults, broken, still, lasting, written, number, serial, facts, results>>
  BY DEF Sends, world
<1>2. Wrong' = Wrong
  BY <1>1 DEF Wrong, FaultsThere
<1>3. WorldOk' /\ FactsOk' /\ ResultsOk'
  BY <1>1, <1>2 DEF MorningInv, WorldOk, FactsOk, ResultsOk
<1> DEFINE r == [n |-> serial, problems |-> Problems,
                 notes |-> {i \in DOMAIN results : results[i] = "unknown"},
                 missed |-> lasting \ Problems, still |-> still, wrong |-> Wrong]
<1>4. \/ arrived' = arrived
      \/ stage = "facts" /\ arrived' = Append(arrived, r)
  BY <1>1 DEF Sends
<1>5. CASE arrived' = arrived
  BY <1>1, <1>3, <1>5 DEF MorningInv, NumbersOk, MessagesOk
<1>6. CASE stage = "facts" /\ arrived' = Append(arrived, r)
  <2>1. MessageIsHonest(r)
    BY <1>1, SentIsHonest
  <2>2. r.n = serial
    OBVIOUS
  <2> HIDE DEF r
  <2>3. /\ \E S : arrived' \in Seq(S)
        /\ Len(arrived) \in Nat /\ DOMAIN arrived = 1 .. Len(arrived)
        /\ DOMAIN arrived' = 1 .. Len(arrived) + 1
        /\ \A i \in 1 .. Len(arrived) : arrived'[i] = arrived[i]
        /\ arrived'[Len(arrived) + 1] = r
    <3>1. PICK S : arrived \in Seq(S)
      BY DEF MorningInv, MessagesOk
    <3> QED
      BY <1>6, <3>1, OneMessageMore
  <2>4. MessagesOk'
    <3>1. ASSUME NEW i \in DOMAIN arrived' PROVE MessageIsHonest(arrived'[i])
      BY <2>1, <2>3 DEF MorningInv, MessagesOk
    <3> QED
      BY <2>3, <3>1 DEF MessagesOk, MessageIsHonest
  <2>5. NumbersOk'
    <3>1. number \in Nat /\ serial \in Nat /\ \A i \in DOMAIN arrived : arrived[i].n \in Nat
      BY DEF MorningInv, NumbersOk
    <3>2. \A i \in DOMAIN arrived' : arrived'[i].n \in Nat
      BY <2>2, <2>3, <3>1
    <3>3. ASSUME written
          PROVE  /\ \A i \in DOMAIN arrived' : arrived'[i].n <= number
                 /\ \A i, j \in DOMAIN arrived' : i < j => arrived'[i].n < arrived'[j].n
      <4>1. /\ \A i \in DOMAIN arrived : arrived[i].n <= number
            /\ \A i, j \in DOMAIN arrived : i < j => arrived[i].n < arrived[j].n
            /\ serial = number /\ \A i \in DOMAIN arrived : arrived[i].n < serial
        BY <1>6, <3>3 DEF MorningInv, NumbersOk
      <4>2. \A i \in DOMAIN arrived' : arrived'[i].n <= number
        BY <2>2, <2>3, <3>1, <4>1
      <4>3. ASSUME NEW i \in DOMAIN arrived', NEW j \in DOMAIN arrived', i < j
            PROVE  arrived'[i].n < arrived'[j].n
        <5>1. i \in DOMAIN arrived /\ arrived'[i] = arrived[i]
          BY <2>3, <4>3
        <5>2. CASE j \in DOMAIN arrived
          BY <2>3, <4>1, <4>3, <5>1, <5>2
        <5>3. CASE j = Len(arrived) + 1
          BY <2>2, <2>3, <4>1, <5>1, <5>3
        <5> QED
          BY <2>3, <5>2, <5>3
      <4> QED
        BY <4>2, <4>3
    <3> QED
      BY <1>1, <3>1, <3>2, <3>3 DEF NumbersOk
  <2> QED
    BY <1>3, <2>4, <2>5 DEF MorningInv
<1> QED
  BY <1>4, <1>5, <1>6

LEMMA MorningInvStep == MorningInv /\ [ReportNext]_reportVars => MorningInv'
<1> SUFFICES ASSUME MorningInv, [ReportNext]_reportVars PROVE MorningInv'
  OBVIOUS
<1>1. CASE UNCHANGED reportVars \/ Dies
  <2>1. /\ stage' \in {stage, "resting"}
        /\ UNCHANGED <<tip, faults, broken, still, lasting, written, number, serial, facts, results,
                       arrived>>
    BY <1>1 DEF reportVars, Dies, world
  <2>2. Wrong' = Wrong
    BY <2>1 DEF Wrong, FaultsThere
  <2>3. WorldOk' /\ FactsOk' /\ ResultsOk'
    BY <2>1, <2>2 DEF MorningInv, WorldOk, FactsOk, ResultsOk
  <2>4. NumbersOk'
    BY <2>1 DEF MorningInv, NumbersOk
  <2>5. MessagesOk'
    BY <2>1 DEF MorningInv, MessagesOk, MessageIsHonest
  <2> QED
    BY <2>3, <2>4, <2>5 DEF MorningInv
<1> QED
  BY <1>1, WorldMoves, BeginsReport, ReadsKeeps, RunsKeeps, SendsKeeps DEF ReportNext

\* As long as its file can be written no two morning messages bear one number, and they
\* come in order; what is wrong from the beginning of a run to its end is in the message
\* or stands behind an unread machine, and a world that stood still is not accused.
THEOREM MorningsAreHonest == ReportSpec => []MorningIsHonest
<1>1. MorningInv => MorningIsHonest
  BY Zenon DEF MorningInv, NumbersOk, MessagesOk, MessageIsHonest, MorningIsHonest
<1> QED
  BY <1>1, MorningInvInit, MorningInvStep, PTL DEF ReportSpec

-----------------------------------------------------------------------------
(* The alarms on their way.                                                *)

AllAlarms == [host : Hosts, text : Texts, n : Nat]
FileLines == [at : Nat, alarm : AllAlarms]

\* No alarm twice in a file.
Once(lines) == \A i, j \in DOMAIN lines : i # j => lines[i].alarm # lines[j].alarm

\* What is left of a file is of the file, and still no alarm is there twice.
LEMMA OnlyIs ==
  ASSUME NEW L, NEW lines \in Seq(L), NEW these
  PROVE  /\ Only(lines, these) \in Seq(L)
         /\ \A i \in DOMAIN Only(lines, these) :
              /\ Only(lines, these)[i] \in these
              /\ \E j \in DOMAIN lines : Only(lines, these)[i] = lines[j]
         /\ Once(lines) => Once(Only(lines, these))
<1> DEFINE len == Len(lines)
           G == [n \in Nat |-> [q \in Seq(L) |->
                   IF n + 1 \in 1..len /\ lines[n + 1] \in these THEN Append(q, lines[n + 1]) ELSE q]]
           Unrolled(f) == f = [i \in 0..len |->
                                 IF i = 0 THEN <<>>
                                 ELSE IF lines[i] \in these THEN Append(f[i - 1], lines[i])
                                 ELSE f[i - 1]]
           upto == CHOOSE f : Unrolled(f)
<1>1. len \in Nat /\ \A i \in 1..len : lines[i] \in L
  OBVIOUS
<1>2. Only(lines, these) = upto[len]
  BY DEF Only
<1> HIDE DEF len
<1>3. \E f : Unrolled(f)
  <2>1. G \in [Nat -> [Seq(L) -> Seq(L)]]
    <3>1. ASSUME NEW n \in Nat, NEW q \in Seq(L)
          PROVE  (IF n + 1 \in 1..len /\ lines[n + 1] \in these THEN Append(q, lines[n + 1]) ELSE q) \in Seq(L)
      BY <1>1
    <3> QED
      BY <3>1
  <2>2. <<>> \in Seq(L)
    OBVIOUS
  <2>3. PICK f \in [Nat -> Seq(L)] : Recurses(f, <<>>, G)
    BY <2>1, <2>2, HasRecursion
  <2> DEFINE g == [i \in 0..len |-> f[i]]
  <2>4. ASSUME NEW i \in 0..len
        PROVE  g[i] = IF i = 0 THEN <<>>
                      ELSE IF lines[i] \in these THEN Append(g[i - 1], lines[i]) ELSE g[i - 1]
    <3>1. CASE i = 0
      BY <2>3, <3>1 DEF Recurses
    <3>2. CASE i # 0
      <4>1. i - 1 \in Nat /\ i - 1 \in 0..len /\ (i - 1) + 1 = i /\ i \in 1..len
        BY <1>1, <3>2
      <4>2. f[i] = G[i - 1][f[i - 1]]
        BY <2>3, <4>1 DEF Recurses
      <4>3. f[i - 1] \in Seq(L)
        BY <4>1
      <4>4. f[i] = IF lines[i] \in these THEN Append(f[i - 1], lines[i]) ELSE f[i - 1]
        BY <4>1, <4>2, <4>3
      <4> QED
        BY <3>2, <4>1, <4>4
    <3> QED
      BY <3>1, <3>2
  <2>5. Unrolled(g)
    BY <2>4
  <2> QED
    BY <2>5
<1>4. upto = [i \in 0..len |-> IF i = 0 THEN <<>>
                               ELSE IF lines[i] \in these THEN Append(upto[i - 1], lines[i])
                               ELSE upto[i - 1]]
  BY <1>3
<1> HIDE DEF upto
<1> DEFINE Good(i) == /\ upto[i] \in Seq(L)
                      /\ \A k \in DOMAIN upto[i] :
                           upto[i][k] \in these /\ \E j \in 1..i : upto[i][k] = lines[j]
                      /\ Once(lines) => Once(upto[i])
           Bad == {i \in 0..len : ~Good(i)}
<1>5. Bad = {}
  <2> SUFFICES ASSUME Bad # {} PROVE FALSE
    OBVIOUS
  <2>1. PICK i \in Bad : \A l \in Bad : i <= l
    <3>1. Bad \subseteq Nat
      BY <1>1
    <3> HIDE DEF Bad
    <3> QED
      BY <3>1, HasLeast
  <2>2. i \in 0..len /\ i \in Nat
    BY <1>1
  <2>3. CASE i = 0
    <3>1. upto[0] = <<>>
      BY <1>4, <2>2, <2>3
    <3>2. Good(0)
      BY <3>1 DEF Once
    <3> QED
      BY <2>3, <3>2
  <2>4. CASE i # 0
    <3>1. i - 1 \in 0..len /\ ~(i <= i - 1) /\ i \in 1..len /\ i - 1 \in Nat
      BY <2>2, <2>4, <1>1
    <3>2. Good(i - 1)
      <4>1. i - 1 \notin Bad
        <5> HIDE DEF Bad
        <5> QED
          BY <2>1, <3>1
      <4> QED
        BY <3>1, <4>1
    <3>3. PICK q : q = upto[i - 1]
      OBVIOUS
    <3>4. /\ q \in Seq(L) /\ Len(q) \in Nat /\ DOMAIN q = 1..Len(q)
          /\ \A k \in DOMAIN q : q[k] \in these /\ \E j \in 1..(i - 1) : q[k] = lines[j]
          /\ Once(lines) => Once(q)
      BY <3>2, <3>3
    <3>5. CASE lines[i] \in these
      <4>1. upto[i] = Append(q, lines[i])
        BY <1>4, <2>2, <2>4, <3>3, <3>5
      <4>2. PICK r : r = Append(q, lines[i])
        OBVIOUS
      <4>3. lines[i] \in L
        BY <1>1, <3>1
      <4>4. /\ r \in Seq(L) /\ Len(r) = Len(q) + 1 /\ DOMAIN r = 1..(Len(q) + 1)
            /\ r[Len(q) + 1] = lines[i] /\ \A k \in 1..Len(q) : r[k] = q[k]
        BY <3>4, <4>2, <4>3
      <4>5. \A k \in DOMAIN r : k \in 1..Len(q) \/ k = Len(q) + 1
        BY <3>4, <4>4
      <4>6. ASSUME NEW k \in DOMAIN r PROVE r[k] \in these /\ \E j \in 1..i : r[k] = lines[j]
        <5>1. CASE k \in 1..Len(q)
          <6>1. q[k] \in these /\ \E j \in 1..(i - 1) : q[k] = lines[j]
            BY <3>4, <5>1
          <6>2. \A j \in 1..(i - 1) : j \in 1..i
            BY <2>2
          <6> QED
            BY <4>4, <5>1, <6>1, <6>2
        <5>2. CASE k = Len(q) + 1
          <6>1. i \in 1..i
            BY <2>2, <2>4
          <6> QED
            BY <3>5, <4>4, <5>2, <6>1
        <5> QED
          BY <4>5, <5>1, <5>2
      <4>7. ASSUME Once(lines) PROVE Once(r)
        <5>1. Once(q) /\ DOMAIN lines = 1..len
          BY <1>1, <3>4, <4>7 DEF len
        <5>2. \A k \in 1..Len(q) : q[k].alarm # lines[i].alarm
          <6> TAKE k \in 1..Len(q)
          <6>1. PICK j \in 1..(i - 1) : q[k] = lines[j]
            BY <3>4
          <6>2. j \in 1..len /\ j # i
            BY <1>1, <2>2, <3>1
          <6> QED
            BY <3>1, <4>7, <5>1, <6>1, <6>2 DEF Once
        <5>3. \A k, l \in 1..Len(q) : k # l => q[k].alarm # q[l].alarm
          BY <3>4, <5>1 DEF Once
        <5> QED
          BY <4>4, <4>5, <5>2, <5>3 DEF Once
      <4>8. Good(i)
        BY <4>1, <4>2, <4>4, <4>6, <4>7
      <4> QED
        BY <4>8
    <3>6. CASE lines[i] \notin these
      <4>1. upto[i] = q
        BY <1>4, <2>2, <2>4, <3>3, <3>6
      <4>2. \A j \in 1..(i - 1) : j \in 1..i
        BY <2>2
      <4>3. Good(i)
        BY <3>4, <4>1, <4>2
      <4> QED
        BY <4>3
    <3> QED
      BY <3>5, <3>6
  <2> QED
    BY <2>3, <2>4
<1>6. Good(len)
  <2>1. len \in 0..len
    BY <1>1
  <2> QED
    BY <1>5, <2>1
<1>7. DOMAIN lines = 1..len
  BY DEF len
<1> QED
  BY <1>2, <1>6, <1>7

\* Nor in a part of it.
LEMMA PartIs ==
  ASSUME NEW L, NEW lines \in Seq(L), NEW m \in Nat \ {0}, NEW n \in Nat,
         m <= n + 1, n <= Len(lines)
  PROVE  /\ SubSeq(lines, m, n) \in Seq(L)
         /\ \A i \in DOMAIN SubSeq(lines, m, n) :
              \E j \in DOMAIN lines : SubSeq(lines, m, n)[i] = lines[j]
         /\ Once(lines) => Once(SubSeq(lines, m, n))
<1>1. PICK part : part = SubSeq(lines, m, n)
  OBVIOUS
<1>2. part \in Seq(L) /\ Len(part) = n - m + 1 /\ DOMAIN part = 1..(n - m + 1)
  <2>1. \A i \in m..n : lines[i] \in L
    OBVIOUS
  <2> QED
    BY <1>1, <2>1
<1>3. \A i \in 1..(n - m + 1) : part[i] = lines[i + m - 1]
  BY <1>1
<1>4. \A i \in DOMAIN part : i + m - 1 \in DOMAIN lines
  BY <1>2
<1>5. Once(lines) => Once(part)
  <2> SUFFICES ASSUME Once(lines), NEW i \in DOMAIN part, NEW j \in DOMAIN part, i # j
               PROVE  part[i].alarm # part[j].alarm
    BY DEF Once
  <2>1. i + m - 1 # j + m - 1 /\ i + m - 1 \in DOMAIN lines /\ j + m - 1 \in DOMAIN lines
    BY <1>2, <1>4
  <2>2. part[i] = lines[i + m - 1] /\ part[j] = lines[j + m - 1]
    BY <1>2, <1>3
  <2> QED
    BY <2>1, <2>2 DEF Once
<1>6. \A i \in DOMAIN part : \E j \in DOMAIN lines : part[i] = lines[j]
  BY <1>2, <1>3, <1>4
<1> QED
  BY <1>1, <1>2, <1>5, <1>6

\* What park() keeps of a file.
LEMMA KeptIs ==
  ASSUME NEW old \in Seq(FileLines)
  PROVE  /\ ToKeep(old) \in Seq(FileLines) /\ (Once(old) => Once(ToKeep(old)))
         /\ \A i \in DOMAIN ToKeep(old) : \E j \in DOMAIN old : ToKeep(old)[i] = old[j]
<1>1. PICK these, some, kept : these = Young(old) /\ some = Only(old, these) /\ kept = ToKeep(old)
  OBVIOUS
<1>2. /\ some \in Seq(FileLines) /\ (Once(old) => Once(some))
      /\ \A i \in DOMAIN some : \E j \in DOMAIN old : some[i] = old[j]
  BY <1>1, OnlyIs
<1>3. PICK first : first = IF Len(some) > KEEP THEN Len(some) - KEEP + 1 ELSE 1
  OBVIOUS
<1>4. first \in Nat \ {0} /\ Len(some) \in Nat /\ first <= Len(some) + 1 /\ Len(some) <= Len(some)
  BY <1>2, <1>3, AlarmAssumption
<1>5. kept = SubSeq(some, first, Len(some))
  BY <1>1, <1>3 DEF ToKeep, LastLines
<1>6. /\ kept \in Seq(FileLines) /\ (Once(some) => Once(kept))
      /\ \A i \in DOMAIN kept : \E j \in DOMAIN some : kept[i] = some[j]
  <2>1. PICK last : last = Len(some)
    OBVIOUS
  <2>2. last \in Nat /\ first <= last + 1 /\ last <= Len(some) /\ kept = SubSeq(some, first, last)
    BY <1>4, <1>5, <2>1
  <2> QED
    BY <1>2, <1>4, <2>2, PartIs
<1>7. \A i \in DOMAIN kept : \E j \in DOMAIN old : kept[i] = old[j]
  BY <1>2, <1>6
<1> QED
  BY <1>1, <1>2, <1>6, <1>7

\* What is told once more, and how often the others were.
LEMMA OneMoreTime ==
  ASSUME heard \in Seq(AllAlarms)
  PROVE  /\ \A a : Times(a) \in Nat
         /\ (\A i \in DOMAIN heard : heard[i] \in raised) => \A a : a \notin raised => Times(a) = 0
         /\ \A alarm \in AllAlarms : heard' = Append(heard, alarm) =>
              Times(alarm)' = Times(alarm) + 1 /\ \A a : a # alarm => Times(a)' = Times(a)
<1>1. PICK n : n = Len(heard)
  OBVIOUS
<1>2. n \in Nat /\ DOMAIN heard = 1..n
  BY <1>1
<1> DEFINE Stands(a) == {i \in 1..n : heard[i] = a}
<1>3. \A a : IsFiniteSet(Stands(a)) /\ Cardinality(Stands(a)) \in Nat /\ Times(a) = Cardinality(Stands(a))
  <2> TAKE a
  <2>1. IsFiniteSet(1..n) /\ Stands(a) \subseteq 1..n
    BY <1>2, FS_Interval
  <2> QED
    BY <1>2, <2>1, FS_Subset, FS_CardinalityType DEF Times
<1>4. ASSUME \A i \in DOMAIN heard : heard[i] \in raised, NEW a, a \notin raised PROVE Times(a) = 0
  <2>1. Stands(a) = {}
    BY <1>2, <1>4
  <2> QED
    BY <1>3, <2>1, FS_EmptySet
<1>5. ASSUME NEW alarm \in AllAlarms, heard' = Append(heard, alarm)
      PROVE  Times(alarm)' = Times(alarm) + 1 /\ \A a : a # alarm => Times(a)' = Times(a)
  <2>1. PICK more : more = heard'
    OBVIOUS
  <2>2. /\ DOMAIN more = 1..(n + 1) /\ more[n + 1] = alarm /\ \A i \in 1..n : more[i] = heard[i]
    BY <1>1, <1>2, <1>5, <2>1
  <2>3. \A a : Times(a)' = Cardinality({i \in 1..(n + 1) : more[i] = a})
    BY <2>1, <2>2 DEF Times
  <2>4. {i \in 1..(n + 1) : more[i] = alarm} = Stands(alarm) \cup {n + 1} /\ n + 1 \notin Stands(alarm)
    BY <1>2, <2>2
  <2>5. Times(alarm)' = Times(alarm) + 1
    <3>1. PICK before : before = Stands(alarm)
      OBVIOUS
    <3>2. IsFiniteSet(before) /\ Cardinality(before) \in Nat /\ Times(alarm) = Cardinality(before)
      BY <1>3, <3>1
    <3>3. Cardinality(before \cup {n + 1}) = Cardinality(before) + 1
      BY <2>4, <3>1, <3>2, FS_AddElement
    <3>4. Times(alarm)' = Cardinality(before \cup {n + 1})
      BY <2>3, <2>4, <3>1
    <3> QED
      BY <3>2, <3>3, <3>4
  <2>6. \A a : a # alarm => {i \in 1..(n + 1) : more[i] = a} = Stands(a)
    BY <1>2, <2>2
  <2>7. \A a : a # alarm => Times(a)' = Times(a)
    BY <1>3, <2>3, <2>6
  <2> QED
    BY <2>5, <2>7
<1> QED
  BY <1>3, <1>4, <1>5

-----------------------------------------------------------------------------
Same(h, t) == {a \in raised : a.host = h /\ a.text = t}
At(alarm, pc) == alarm \in DOMAIN sending /\ sending[alarm].pc = pc

\* A program that holds the lines it is going to write.
Holds(alarm) == At(alarm, "cut") \/ At(alarm, "write")

\* An alarm of the other host that has been appended to its file, or never will be.
Gone(alarm) == alarm \in raised /\ alarm.host = Away /\ ~At(alarm, "append")
IsFile(lines) == Once(lines) /\ \A i \in DOMAIN lines : Gone(lines[i].alarm)

AlarmTypes ==
  /\ hour \in Nat /\ raised \subseteq AllAlarms /\ IsFiniteSet(raised)
  /\ DOMAIN sending \subseteq raised
  /\ parked \in [Hosts -> Seq(FileLines)] /\ heard \in Seq(AllAlarms) /\ forwarded \subseteq Texts
  /\ \A a \in raised : a.n <= Cardinality(Same(a.host, a.text))

\* The file of the other host, and the copies of it that its programs are about to write.
Files ==
  /\ IsFile(parked[Away])
  /\ \A a \in raised : Holds(a) => sending[a].kept \in Seq(FileLines)
  /\ \A a \in raised : Holds(a) /\ a.host = Away => IsFile(sending[a].kept)
  /\ \A a \in raised : At(a, "post") => a.host = Home

\* How often an alarm of the other host may have been told.
Allowed(alarm) == lapses[alarm.text] + IF alarm.text \in forwarded THEN 1 ELSE 0

\* What this host sends is told once, and what the other said once for each time that
\* it was not remembered, and once more as long as it is.
ToldInv ==
  /\ lapses \in [Texts -> Nat] /\ \A i \in DOMAIN heard : heard[i] \in raised
  /\ \A a \in raised : a.host = Home => Times(a) <= 1 /\ (At(a, "post") => Times(a) = 0)
  /\ \A a \in raised : a.host = Away => Times(a) <= Allowed(a)

Distinct(out) == \A i, j \in DOMAIN out : i # j => out[i] # out[j]

\* What is to be sent on is of the other host.  Before the hashes are saved, a text that
\* is sent on, or that the run does not know of, was told no more often than it was
\* forgotten; afterwards what is sent on may be told once more.
Saves ==
  /\ watch.pc = "save" /\ watch.out \in Seq(AllAlarms) /\ Distinct(watch.out)
  /\ \A i \in DOMAIN watch.out : Gone(watch.out[i])
  /\ watch.told \subseteq Texts /\ watch.next = Greatest(watch.told, REMEMBERED)
  /\ \A i \in DOMAIN watch.out : /\ watch.out[i].text \in watch.told
                                 /\ Times(watch.out[i]) <= lapses[watch.out[i].text]
  /\ \A a \in raised : a.host = Away /\ a.text \notin watch.told => Times(a) <= lapses[a.text]

Notifies ==
  /\ watch.pc = "notify" /\ watch.out \in Seq(AllAlarms) /\ Distinct(watch.out)
  /\ watch.out # <<>>
  /\ \A i \in DOMAIN watch.out : Gone(watch.out[i]) /\ Times(watch.out[i]) + 1 <= Allowed(watch.out[i])

Watching == watch = Resting \/ Saves \/ Notifies

AlarmInv == AlarmTypes /\ Files /\ ToldInv /\ Watching

LEMMA AlarmInvInit == AlarmInit => AlarmInv
<1> SUFFICES ASSUME AlarmInit PROVE AlarmInv
  OBVIOUS
<1>1. DOMAIN sending = {} /\ DOMAIN heard = {} /\ heard \in Seq(AllAlarms)
  BY DEF AlarmInit
<1>2. parked \in [Hosts -> Seq(FileLines)] /\ DOMAIN parked[Away] = {}
  <2>1. <<>> \in Seq(FileLines) /\ Away \in Hosts
    BY DEF Hosts
  <2> QED
    BY <2>1 DEF AlarmInit
<1>3. AlarmTypes
  BY <1>1, <1>2, FS_EmptySet DEF AlarmInit, AlarmTypes
<1>4. Files
  BY <1>1, <1>2 DEF AlarmInit, Files, IsFile, Once, At
<1>5. ToldInv
  BY <1>1 DEF AlarmInit, ToldInv
<1>6. Watching
  BY DEF AlarmInit, Watching
<1> QED
  BY <1>3, <1>4, <1>5, <1>6 DEF AlarmInv

\* What is gone stays gone.
LEMMA GoneStays ==
  ASSUME raised \subseteq raised', \A a \in raised : a.host = Away /\ At(a, "append")' => At(a, "append")
  PROVE  /\ \A a : Gone(a) => Gone(a)'
         /\ \A lines : IsFile(lines) => IsFile(lines)'
<1>1. ASSUME NEW a, Gone(a) PROVE Gone(a)'
  BY <1>1 DEF Gone
<1>2. ASSUME NEW lines, IsFile(lines) PROVE IsFile(lines)'
  BY <1>1, <1>2 DEF IsFile
<1> QED
  BY <1>1, <1>2

\* And then the run of the login watch that is under way goes on.
LEMMA WatchingStays ==
  ASSUME Watching, \A a : Gone(a) => Gone(a)', UNCHANGED <<watch, forwarded, lapses>>, ToldInv,
         raised \subseteq AllAlarms,
         \A a : a.host = Away => Times(a)' = Times(a),
         \A a \in raised' : a \in raised \/ (a \in AllAlarms /\ Times(a) = 0)
  PROVE  Watching'
<1>1. \A a : Gone(a) => a.host = Away
  BY DEF Gone
<1>2. CASE watch = Resting
  BY <1>2 DEF Watching
<1>3. CASE Saves
  <2>1. PICK out, told : out = watch.out /\ told = watch.told
    OBVIOUS
  <2>2. /\ watch.pc = "save" /\ out \in Seq(AllAlarms) /\ Distinct(out)
        /\ \A i \in DOMAIN out : Gone(out[i]) /\ out[i].host = Away
        /\ told \subseteq Texts /\ watch.next = Greatest(told, REMEMBERED)
        /\ \A i \in DOMAIN out : out[i].text \in told /\ Times(out[i]) <= lapses[out[i].text]
        /\ \A a \in raised : a.host = Away /\ a.text \notin told => Times(a) <= lapses[a.text]
    BY <1>1, <1>3, <2>1 DEF Saves
  <2>3. \A i \in DOMAIN out : Gone(out[i])' /\ Times(out[i])' <= lapses'[out[i].text]
    BY <2>2
  <2>4. ASSUME NEW a \in raised', a.host = Away, a.text \notin told PROVE Times(a)' <= lapses'[a.text]
    <3>1. CASE a \in raised
      BY <2>2, <2>4, <3>1
    <3>2. CASE a \in AllAlarms /\ Times(a) = 0
      <4>1. a.text \in Texts /\ lapses[a.text] \in Nat
        BY <3>2 DEF AllAlarms, ToldInv
      <4> QED
        BY <2>4, <3>2, <4>1
    <3> QED
      BY <3>1, <3>2
  <2>5. watch'.out = out /\ watch'.told = told /\ watch'.pc = "save" /\ watch'.next = Greatest(told, REMEMBERED)
    BY <2>1, <2>2
  <2> QED
    BY <2>2, <2>3, <2>4, <2>5 DEF Watching, Saves, Distinct
<1>4. CASE Notifies
  <2>1. PICK out : out = watch.out
    OBVIOUS
  <2>2. /\ watch.pc = "notify" /\ out \in Seq(AllAlarms) /\ Distinct(out) /\ out # <<>>
        /\ \A i \in DOMAIN out : Gone(out[i]) /\ out[i].host = Away /\ Times(out[i]) + 1 <= Allowed(out[i])
    BY <1>1, <1>4, <2>1 DEF Notifies
  <2>3. \A i \in DOMAIN out : Gone(out[i])' /\ Times(out[i])' + 1 <= Allowed(out[i])'
    BY <2>2 DEF Allowed
  <2>4. watch'.out = out /\ watch'.pc = "notify"
    BY <2>1, <2>2
  <2> QED
    BY <2>2, <2>3, <2>4 DEF Watching, Notifies, Distinct
<1> QED
  BY <1>2, <1>3, <1>4 DEF Watching

LEMMA RaiseKeeps ==
  ASSUME AlarmInv, NEW h \in Hosts, NEW t \in Texts, Raise(h, t)
  PROVE  AlarmInv'
<1> DEFINE n == Cardinality(Same(h, t))
           alarm == [host |-> h, text |-> t, n |-> n + 1]
<1>1. IsFiniteSet(Same(h, t)) /\ n \in Nat
  BY FS_Subset, FS_CardinalityType DEF AlarmInv, AlarmTypes, Same
<1>2. PICK new, pc : new = alarm /\ pc = IF h = Home THEN "post" ELSE "append"
  OBVIOUS
<1>3. new \in AllAlarms /\ new \notin raised /\ new.host = h /\ new.text = t /\ new.n = n + 1
  <2>1. new \in AllAlarms /\ new.host = h /\ new.text = t /\ new.n = n + 1
    BY <1>1, <1>2 DEF AllAlarms
  <2>2. ~(n + 1 <= n)
    BY <1>1
  <2> HIDE DEF n
  <2> QED
    BY <2>1, <2>2 DEF AlarmInv, AlarmTypes, n
<1>4. /\ raised' = raised \cup {new} /\ DOMAIN sending' = DOMAIN sending \cup {new}
      /\ sending'[new] = [pc |-> pc]
      /\ \A a \in DOMAIN sending : sending'[a] = sending[a]
  <2>1. raised' = raised \cup {new}
    BY <1>2 DEF Raise, Same
  <2>2. sending' = [a \in DOMAIN sending \cup {new} |-> IF a = new THEN [pc |-> pc] ELSE sending[a]]
    BY <1>2 DEF Raise, Same
  <2>3. new \notin DOMAIN sending
    BY <1>3 DEF AlarmInv, AlarmTypes
  <2> QED
    BY <2>1, <2>2, <2>3
<1>5. UNCHANGED <<hour, parked, heard, forwarded, watch, mishaps, lapses>>
  BY DEF Raise
<1>6. \A a \in raised : \A p : At(a, p)' <=> At(a, p)
  BY <1>3, <1>4 DEF At
<1>7. (\A a : Gone(a) => Gone(a)') /\ \A lines : IsFile(lines) => IsFile(lines)'
  BY <1>4, <1>6, GoneStays
<1>8. AlarmTypes'
  <2>1. raised' \subseteq AllAlarms /\ IsFiniteSet(raised') /\ DOMAIN sending' \subseteq raised'
    BY <1>3, <1>4, FS_AddElement DEF AlarmInv, AlarmTypes
  <2>2. ASSUME NEW a \in raised' PROVE a.n <= Cardinality(Same(a.host, a.text)')
    <3>1. Same(a.host, a.text) \subseteq Same(a.host, a.text)' /\ IsFiniteSet(Same(a.host, a.text)')
      BY <1>4, <2>1, FS_Subset DEF Same
    <3>2. /\ Cardinality(Same(a.host, a.text)) <= Cardinality(Same(a.host, a.text)')
          /\ Cardinality(Same(a.host, a.text)) \in Nat /\ Cardinality(Same(a.host, a.text)') \in Nat
      BY <3>1, FS_Subset, FS_CardinalityType
    <3>3. CASE a = new
      <4>1. Same(h, t)' = Same(h, t) \cup {new} /\ new \notin Same(h, t)
        BY <1>3, <1>4 DEF Same
      <4>2. Cardinality(Same(h, t)') = n + 1
        BY <1>1, <4>1, FS_AddElement
      <4> QED
        BY <1>1, <1>3, <3>3, <4>2
    <3>4. CASE a \in raised
      <4>1. a.n \in Nat /\ a.n <= Cardinality(Same(a.host, a.text))
        BY <3>4 DEF AlarmInv, AlarmTypes, AllAlarms
      <4> QED
        BY <3>2, <4>1
    <3> QED
      BY <1>4, <3>3, <3>4
  <2> QED
    BY <1>5, <2>1, <2>2 DEF AlarmInv, AlarmTypes
<1>9. Files'
  <2>1. At(new, "post")' => new.host = Home
    BY <1>2, <1>3, <1>4 DEF At
  <2>2. ~Holds(new)'
    BY <1>2, <1>4 DEF At, Holds
  <2>3. \A a \in raised : Holds(a) => sending'[a] = sending[a]
    BY <1>4 DEF At, Holds
  <2>4. \A a \in raised : Holds(a)' <=> Holds(a)
    BY <1>6 DEF Holds
  <2> QED
    BY <1>4, <1>5, <1>6, <1>7, <2>1, <2>2, <2>3, <2>4 DEF AlarmInv, Files
<1>10. Times(new) = 0 /\ \A a : Times(a)' = Times(a)
  <2>1. Times(new) = 0
    BY <1>3, OneMoreTime DEF AlarmInv, AlarmTypes, ToldInv
  <2> QED
    BY <1>5, <2>1 DEF Times
<1>11. ToldInv'
  <2>1. \A a \in raised : a.host = Home => Times(a)' <= 1 /\ (At(a, "post")' => Times(a)' = 0)
    BY <1>6, <1>10 DEF AlarmInv, ToldInv
  <2>2. \A a \in raised : a.host = Away => Times(a)' <= Allowed(a)'
    BY <1>5, <1>10 DEF AlarmInv, ToldInv, Allowed
  <2>3. lapses[new.text] \in Nat /\ Allowed(new)' \in Nat /\ 0 <= Allowed(new)'
    BY <1>3, <1>5 DEF AlarmInv, ToldInv, Allowed
  <2> QED
    BY <1>4, <1>5, <1>10, <2>1, <2>2, <2>3 DEF AlarmInv, ToldInv
<1>12. Watching'
  <2>1. \A a \in raised' : a \in raised \/ (a \in AllAlarms /\ Times(a) = 0)
    BY <1>3, <1>4, <1>10
  <2> QED
    BY <1>5, <1>7, <1>10, <2>1, WatchingStays DEF AlarmInv, AlarmTypes
<1> QED
  BY <1>8, <1>9, <1>11, <1>12 DEF AlarmInv

\* One program moves on, and the others stay where they are.
ProgramMoves(alarm) ==
  /\ DOMAIN sending' \subseteq DOMAIN sending
  /\ \A a \in DOMAIN sending' : a # alarm => sending'[a] = sending[a]

LEMMA StepOrFinish ==
  ASSUME NEW alarm \in DOMAIN sending, NEW pc
  PROVE  /\ Step(alarm, pc) => ProgramMoves(alarm) /\ \A p : At(alarm, p)' => p = pc
         /\ Finish(alarm) => ProgramMoves(alarm) /\ \A p : ~At(alarm, p)'
BY DEF Step, Finish, ProgramMoves, At

LEMMA ProgramKeeps ==
  ASSUME AlarmInv, NEW alarm \in DOMAIN sending, ProgramMoves(alarm),
         UNCHANGED <<raised, forwarded, watch, lapses>>,
         hour' = hour, parked' \in [Hosts -> Seq(FileLines)], heard' \in Seq(AllAlarms),
         ~At(alarm, "post")', At(alarm, "append")' => alarm.host = Home \/ At(alarm, "append"),
         Holds(alarm)' => sending'[alarm].kept \in Seq(FileLines)
                          /\ (alarm.host = Away => IsFile(sending[alarm].kept)'),
         IsFile(parked[Away])', ToldInv', \A a : a.host = Away => Times(a)' = Times(a)
  PROVE  AlarmInv'
<1>1. \A a : a # alarm => \A p : At(a, p)' => At(a, p) /\ sending'[a] = sending[a]
  BY DEF ProgramMoves, At
<1>9. \A a : a # alarm => (Holds(a)' => Holds(a))
  BY <1>1 DEF Holds
<1>2. Home # Away
  BY DEF Home, Away
<1>3. \A a \in raised : a.host = Away /\ At(a, "append")' => At(a, "append")
  BY <1>1, <1>2
<1>4. (\A a : Gone(a) => Gone(a)') /\ \A lines : IsFile(lines) => IsFile(lines)'
  BY <1>3, GoneStays
<1>5. AlarmTypes'
  BY DEF AlarmInv, AlarmTypes, ProgramMoves, Same
<1>6. Files'
  <2>1. \A a \in raised : Holds(a)' => sending'[a].kept \in Seq(FileLines)
    BY <1>1, <1>9 DEF Holds, AlarmInv, Files
  <2>2. ASSUME NEW a \in raised, Holds(a)', a.host = Away PROVE IsFile(sending[a].kept)'
    <3>1. CASE a = alarm
      BY <2>2, <3>1
    <3>2. CASE a # alarm
      <4>1. Holds(a) /\ sending'[a] = sending[a]
        BY <1>1, <1>9, <2>2, <3>2 DEF Holds
      <4>2. IsFile(sending[a].kept)
        BY <2>2, <4>1 DEF AlarmInv, Files
      <4>3. PICK kept : kept = sending[a].kept
        OBVIOUS
      <4>4. IsFile(kept)'
        BY <1>4, <4>2, <4>3
      <4>5. kept = sending'[a].kept
        BY <4>1, <4>3
      <4> QED
        BY <4>4, <4>5 DEF IsFile
    <3> QED
      BY <3>1, <3>2
  <2>3. \A a \in raised : At(a, "post")' => a.host = Home
    BY <1>1 DEF AlarmInv, Files
  <2> QED
    BY <2>1, <2>2, <2>3 DEF Files
<1>7. Watching'
  BY <1>4, WatchingStays DEF AlarmInv, AlarmTypes
<1> QED
  BY <1>5, <1>6, <1>7 DEF AlarmInv

\* Nothing is heard that was not, and the others are where they were.
LEMMA ToldStays ==
  ASSUME AlarmInv, NEW alarm \in DOMAIN sending, ProgramMoves(alarm),
         UNCHANGED <<raised, forwarded, heard, lapses>>, ~At(alarm, "post")'
  PROVE  ToldInv' /\ (\A a : Times(a)' = Times(a)) /\ heard' \in Seq(AllAlarms)
<1>1. \A a : At(a, "post")' => At(a, "post")
  BY DEF ProgramMoves, At
<1>2. \A a : Times(a)' = Times(a) /\ Allowed(a)' = Allowed(a)
  BY DEF Times, Allowed
<1>3. heard' \in Seq(AllAlarms)
  BY DEF AlarmInv, AlarmTypes
<1> QED
  BY <1>1, <1>2, <1>3 DEF AlarmInv, ToldInv

\* A file that nothing is done to is still a file.
LEMMA FileStays ==
  ASSUME AlarmInv, NEW alarm \in DOMAIN sending, ProgramMoves(alarm), raised' = raised, parked' = parked,
         At(alarm, "append")' => alarm.host = Home \/ At(alarm, "append")
  PROVE  IsFile(parked[Away])' /\ parked' \in [Hosts -> Seq(FileLines)]
         /\ \A lines : IsFile(lines) => IsFile(lines)'
<1>1. \A a \in raised : a.host = Away /\ At(a, "append")' => At(a, "append")
  BY DEF ProgramMoves, At, Home, Away
<1>2. \A lines : IsFile(lines) => IsFile(lines)'
  BY <1>1, GoneStays
<1>3. PICK lines : lines = parked[Away]
  OBVIOUS
<1>4. IsFile(lines)'
  BY <1>2, <1>3 DEF AlarmInv, Files
<1> QED
  BY <1>2, <1>3, <1>4 DEF AlarmInv, AlarmTypes, IsFile

LEMMA OneMore ==
  ASSUME NEW L, NEW s \in Seq(L), NEW alarm \in L
  PROVE  /\ Append(s, alarm) \in Seq(L) /\ DOMAIN Append(s, alarm) = 1..(Len(s) + 1)
         /\ DOMAIN s = 1..Len(s) /\ Len(s) \in Nat
         /\ \A i \in DOMAIN Append(s, alarm) :
              \/ i \in DOMAIN s /\ Append(s, alarm)[i] = s[i]
              \/ i = Len(s) + 1 /\ i \notin DOMAIN s /\ Append(s, alarm)[i] = alarm
         /\ \A i \in DOMAIN s : i \in DOMAIN Append(s, alarm)
OBVIOUS

LEMMA PostKeeps ==
  ASSUME AlarmInv, NEW alarm \in DOMAIN sending, Post(alarm)
  PROVE  AlarmInv'
<1>1. At(alarm, "post") /\ alarm \in raised /\ alarm \in AllAlarms /\ alarm.host = Home
  BY DEF Post, At, AlarmInv, AlarmTypes, Files
<1>2. /\ UNCHANGED <<hour, raised, parked, forwarded, watch, lapses>>
      /\ (Finish(alarm) \/ Step(alarm, "append")) /\ heard' \in {heard, Append(heard, alarm)}
  BY DEF Post
<1>3. ProgramMoves(alarm) /\ ~At(alarm, "post")' /\ ~Holds(alarm)'
  BY <1>2, StepOrFinish DEF Holds
<1>4. IsFile(parked[Away])' /\ parked' \in [Hosts -> Seq(FileLines)]
  BY <1>1, <1>2, <1>3, FileStays
<1>5. CASE heard' = heard
  BY <1>1, <1>2, <1>3, <1>4, <1>5, ToldStays, ProgramKeeps
<1>6. CASE heard' = Append(heard, alarm)
  <2>1. heard \in Seq(AllAlarms)
    BY DEF AlarmInv, AlarmTypes
  <2>2. Times(alarm) = 0 /\ Times(alarm)' = 1 /\ \A a : a # alarm => Times(a)' = Times(a)
    <3>1. Times(alarm) = 0
      BY <1>1 DEF AlarmInv, ToldInv
    <3> QED
      BY <1>1, <1>6, <2>1, <3>1, OneMoreTime
  <2>3. \A a : At(a, "post")' => At(a, "post") /\ a # alarm
    BY <1>3 DEF ProgramMoves, At
  <2>4. \A a : a.host = Away => a # alarm /\ Times(a)' = Times(a)
    BY <1>1, <2>2 DEF Home, Away
  <2>5. ToldInv'
    <3>1. \A i \in DOMAIN heard' : heard'[i] \in raised
      BY <1>1, <1>6, <2>1, OneMore DEF AlarmInv, ToldInv
    <3>2. \A a \in raised : a.host = Home => Times(a)' <= 1 /\ (At(a, "post")' => Times(a)' = 0)
      BY <2>2, <2>3 DEF AlarmInv, ToldInv
    <3>3. \A a \in raised : a.host = Away => Times(a)' <= Allowed(a)'
      BY <1>2, <2>4 DEF AlarmInv, ToldInv, Allowed
    <3> QED
      BY <1>2, <3>1, <3>2, <3>3 DEF AlarmInv, ToldInv
  <2>6. heard' \in Seq(AllAlarms)
    BY <1>1, <1>6, <2>1, OneMore
  <2> QED
    BY <1>1, <1>2, <1>3, <1>4, <2>4, <2>5, <2>6, ProgramKeeps
<1> QED
  BY <1>5, <1>6 DEF Post

LEMMA ParkAppendsKeeps ==
  ASSUME AlarmInv, NEW alarm \in DOMAIN sending, ParkAppends(alarm)
  PROVE  AlarmInv'
<1>1. At(alarm, "append") /\ alarm \in raised /\ alarm \in AllAlarms /\ alarm.host \in Hosts
  BY DEF ParkAppends, At, AlarmInv, AlarmTypes, AllAlarms
<1>2. /\ UNCHANGED <<hour, raised, heard, forwarded, watch, lapses>> /\ Step(alarm, "read")
      /\ parked' = [parked EXCEPT ![alarm.host] = Append(parked[alarm.host], Line(alarm))]
  BY DEF ParkAppends
<1>3. ProgramMoves(alarm) /\ ~At(alarm, "post")' /\ ~At(alarm, "append")' /\ ~Holds(alarm)'
  BY <1>2, StepOrFinish DEF Holds
<1>4. PICK old, line : old = parked[alarm.host] /\ line = Line(alarm)
  OBVIOUS
<1>5. old \in Seq(FileLines) /\ line \in FileLines /\ line.alarm = alarm
  BY <1>1, <1>4 DEF Line, FileLines, AlarmInv, AlarmTypes
<1>6. PICK more : more = Append(old, line)
  OBVIOUS
<1>7. /\ more \in Seq(FileLines) /\ DOMAIN old = 1..Len(old) /\ Len(old) \in Nat
      /\ DOMAIN more = 1..(Len(old) + 1)
      /\ \A i \in DOMAIN more :
           \/ i \in DOMAIN old /\ more[i] = old[i]
           \/ i = Len(old) + 1 /\ i \notin DOMAIN old /\ more[i] = line
  BY <1>5, <1>6, OneMore
<1>8. parked' \in [Hosts -> Seq(FileLines)] /\ parked' = [parked EXCEPT ![alarm.host] = more]
  BY <1>1, <1>2, <1>4, <1>6, <1>7 DEF AlarmInv, AlarmTypes
<1>9. \A a \in raised : a.host = Away /\ At(a, "append")' => At(a, "append")
  BY <1>3 DEF ProgramMoves, At
<1>10. (\A a : Gone(a) => Gone(a)') /\ \A lines : IsFile(lines) => IsFile(lines)'
  BY <1>2, <1>9, GoneStays
<1>11. IsFile(parked[Away])'
  <2>1. Away \in Hosts /\ parked \in [Hosts -> Seq(FileLines)] /\ IsFile(parked[Away])
    BY DEF Hosts, AlarmInv, AlarmTypes, Files
  <2>2. CASE alarm.host = Away
    <3>1. IsFile(old) /\ IsFile(old)'
      BY <1>4, <1>10, <2>1, <2>2
    <3>2. \A i \in DOMAIN old : old[i].alarm # alarm
      BY <1>1, <3>1 DEF IsFile, Gone
    <3>3. Once(more)
      BY <1>5, <1>7, <3>1, <3>2 DEF IsFile, Once
    <3>4. Gone(alarm)'
      BY <1>1, <1>2, <1>3, <2>2 DEF Gone
    <3>5. \A i \in DOMAIN more : Gone(more[i].alarm)'
      BY <1>5, <1>7, <3>1, <3>4 DEF IsFile
    <3>6. parked'[Away] = more
      BY <1>8, <2>1, <2>2
    <3> QED
      BY <3>3, <3>5, <3>6 DEF IsFile
  <2>3. CASE alarm.host # Away
    <3>1. parked'[Away] = parked[Away]
      BY <1>8, <2>1, <2>3
    <3>2. PICK lines : lines = parked[Away]
      OBVIOUS
    <3>3. IsFile(lines)'
      BY <1>10, <2>1, <3>2
    <3> QED
      BY <3>1, <3>2, <3>3 DEF IsFile
  <2> QED
    BY <2>2, <2>3
<1> QED
  BY <1>2, <1>3, <1>8, <1>11, ToldStays, ProgramKeeps

LEMMA ParkReadsKeeps ==
  ASSUME AlarmInv, NEW alarm \in DOMAIN sending, ParkReads(alarm)
  PROVE  AlarmInv'
<1>1. At(alarm, "read") /\ alarm \in raised /\ alarm.host \in Hosts
  BY DEF ParkReads, At, AlarmInv, AlarmTypes, AllAlarms
<1>2. PICK old, kept : old = parked[alarm.host] /\ kept = ToKeep(old)
  OBVIOUS
<1>3. UNCHANGED <<hour, raised, parked, heard, forwarded, watch, lapses>>
      /\ sending' = [sending EXCEPT ![alarm] = [pc |-> "cut", kept |-> kept]]
  BY <1>2 DEF ParkReads
<1>4. ProgramMoves(alarm) /\ ~At(alarm, "post")' /\ ~At(alarm, "append")' /\ sending'[alarm].kept = kept
  BY <1>3 DEF ProgramMoves, At
<1>5. IsFile(parked[Away])' /\ parked' \in [Hosts -> Seq(FileLines)]
      /\ \A lines : IsFile(lines) => IsFile(lines)'
  BY <1>3, <1>4, FileStays
<1>6. old \in Seq(FileLines)
  BY <1>1, <1>2 DEF AlarmInv, AlarmTypes
<1>7. /\ kept \in Seq(FileLines) /\ (Once(old) => Once(kept))
      /\ \A i \in DOMAIN kept : \E j \in DOMAIN old : kept[i] = old[j]
  BY <1>2, <1>6, KeptIs
<1>8. alarm.host = Away => IsFile(kept)
  BY <1>2, <1>7 DEF AlarmInv, Files, IsFile
<1>9. alarm.host = Away => IsFile(sending[alarm].kept)'
  BY <1>4, <1>5, <1>8 DEF IsFile
<1> QED
  BY <1>3, <1>4, <1>5, <1>7, <1>9, ToldStays, ProgramKeeps

LEMMA ParkCutsKeeps ==
  ASSUME AlarmInv, NEW alarm \in DOMAIN sending, ParkCuts(alarm)
  PROVE  AlarmInv'
<1>1. At(alarm, "cut") /\ alarm \in raised /\ alarm.host \in Hosts
  BY DEF ParkCuts, At, AlarmInv, AlarmTypes, AllAlarms
<1>2. PICK kept, cut : kept = sending[alarm].kept /\ cut = parked'
  OBVIOUS
<1>3. /\ UNCHANGED <<hour, raised, heard, forwarded, watch, lapses>>
      /\ parked' = [parked EXCEPT ![alarm.host] = <<>>]
      /\ sending' = [sending EXCEPT ![alarm] = [pc |-> "write", kept |-> kept]]
  BY <1>2 DEF ParkCuts
<1>4. ProgramMoves(alarm) /\ ~At(alarm, "post")' /\ ~At(alarm, "append")' /\ sending'[alarm].kept = kept
  BY <1>3 DEF ProgramMoves, At
<1>5. kept \in Seq(FileLines) /\ (alarm.host = Away => IsFile(kept))
  BY <1>1, <1>2 DEF AlarmInv, Files, Holds
<1>6. Away \in Hosts /\ parked \in [Hosts -> Seq(FileLines)] /\ IsFile(parked[Away]) /\ <<>> \in Seq(FileLines)
  BY DEF Hosts, AlarmInv, AlarmTypes, Files
<1>7. /\ cut \in [Hosts -> Seq(FileLines)] /\ cut[Away] \in {parked[Away], <<>>}
  BY <1>1, <1>2, <1>3, <1>6
<1>8. \A a \in raised : a.host = Away /\ At(a, "append")' => At(a, "append")
  BY <1>4 DEF ProgramMoves, At
<1>9. \A lines : IsFile(lines) => IsFile(lines)'
  BY <1>3, <1>8, GoneStays
<1>10. IsFile(<<>>)
  BY DEF IsFile, Once
<1>11. IsFile(parked[Away])'
  <2>1. PICK lines : lines = cut[Away]
    OBVIOUS
  <2>2. IsFile(lines)'
    BY <1>6, <1>7, <1>9, <1>10, <2>1
  <2> QED
    BY <1>2, <2>1, <2>2 DEF IsFile
<1>12. alarm.host = Away => IsFile(sending[alarm].kept)'
  BY <1>4, <1>5, <1>9 DEF IsFile
<1> QED
  BY <1>2, <1>3, <1>4, <1>5, <1>7, <1>11, <1>12, ToldStays, ProgramKeeps

LEMMA ParkWritesKeeps ==
  ASSUME AlarmInv, NEW alarm \in DOMAIN sending, ParkWrites(alarm)
  PROVE  AlarmInv'
<1>1. At(alarm, "write") /\ alarm \in raised /\ alarm.host \in Hosts
  BY DEF ParkWrites, At, AlarmInv, AlarmTypes, AllAlarms
<1>2. PICK kept : kept = sending[alarm].kept
  OBVIOUS
<1>3. /\ UNCHANGED <<hour, raised, heard, forwarded, watch, lapses>> /\ Finish(alarm)
      /\ parked' = [parked EXCEPT ![alarm.host] = kept]
  BY <1>2 DEF ParkWrites
<1>4. ProgramMoves(alarm) /\ ~At(alarm, "post")' /\ ~At(alarm, "append")' /\ ~Holds(alarm)'
  BY <1>3, StepOrFinish DEF Holds
<1>5. kept \in Seq(FileLines) /\ (alarm.host = Away => IsFile(kept))
  BY <1>1, <1>2 DEF AlarmInv, Files, Holds
<1>6. Away \in Hosts /\ parked \in [Hosts -> Seq(FileLines)] /\ IsFile(parked[Away])
  BY DEF Hosts, AlarmInv, AlarmTypes, Files
<1>7. parked' \in [Hosts -> Seq(FileLines)] /\ parked'[Away] \in {parked[Away], kept}
      /\ (alarm.host # Away => parked'[Away] = parked[Away])
  BY <1>1, <1>3, <1>5, <1>6
<1>8. \A a \in raised : a.host = Away /\ At(a, "append")' => At(a, "append")
  BY <1>4 DEF ProgramMoves, At
<1>9. \A lines : IsFile(lines) => IsFile(lines)'
  BY <1>3, <1>8, GoneStays
<1>10. PICK lines : lines = parked'[Away]
  OBVIOUS
<1>11. IsFile(lines)
  BY <1>5, <1>6, <1>7, <1>10
<1>12. IsFile(parked[Away])'
  BY <1>9, <1>10, <1>11 DEF IsFile
<1> QED
  BY <1>3, <1>4, <1>7, <1>12, ToldStays, ProgramKeeps

\* What is neither a program's nor the watch's doing.
LEMMA RestStays ==
  ASSUME AlarmInv, UNCHANGED <<raised, sending, parked, heard, forwarded>>, hour' \in Nat
  PROVE  /\ AlarmTypes' /\ Files'
         /\ \A a : (Gone(a)' <=> Gone(a)) /\ Times(a)' = Times(a)
         /\ lapses' = lapses => ToldInv'
         /\ lapses' \in [Texts -> Nat] /\ (\A t \in Texts : lapses[t] <= lapses'[t]) => ToldInv'
<1>1. AlarmTypes'
  BY DEF AlarmInv, AlarmTypes, Same
<1>2. \A a : Gone(a)' <=> Gone(a)
  BY DEF Gone, At
<1>3. Files'
  BY <1>2 DEF AlarmInv, Files, IsFile, At, Holds
<1>4. \A a : Times(a)' = Times(a)
  BY DEF Times
<1>5. ASSUME lapses' \in [Texts -> Nat], \A t \in Texts : lapses[t] <= lapses'[t] PROVE ToldInv'
  <2>1. ASSUME NEW a \in raised, a.host = Away PROVE Times(a)' <= Allowed(a)'
    <3>1. /\ a.text \in Texts /\ lapses[a.text] \in Nat /\ lapses'[a.text] \in Nat
          /\ lapses[a.text] <= lapses'[a.text] /\ Times(a) <= Allowed(a)
      BY <1>5, <2>1 DEF AlarmInv, AlarmTypes, AllAlarms, ToldInv
    <3>2. Times(a) \in Nat
      BY OneMoreTime DEF AlarmInv, AlarmTypes
    <3> QED
      BY <1>4, <3>1, <3>2 DEF Allowed
  <2>2. \A a, p : At(a, p)' <=> At(a, p)
    BY DEF At
  <2> QED
    BY <1>4, <1>5, <2>1, <2>2 DEF AlarmInv, ToldInv
<1>6. lapses' = lapses => ToldInv'
  <2> SUFFICES ASSUME lapses' = lapses PROVE ToldInv'
    OBVIOUS
  <2>1. lapses' \in [Texts -> Nat] /\ \A t \in Texts : lapses[t] <= lapses'[t]
    BY DEF AlarmInv, ToldInv
  <2> QED
    BY <1>5, <2>1
<1> QED
  BY <1>1, <1>2, <1>3, <1>4, <1>5, <1>6

\* What is forgotten is counted.
LEMMA ForgettingCounts ==
  ASSUME lapses \in [Texts -> Nat], NEW texts, Forgetting(texts)
  PROVE  /\ lapses' \in [Texts -> Nat] /\ \A t \in Texts : lapses[t] <= lapses'[t]
         /\ \A t \in Texts \cap texts : lapses'[t] = lapses[t] + 1
BY DEF Forgetting

LEMMA CollectKeeps ==
  ASSUME AlarmInv, collect_parked
  PROVE  AlarmInv'
<1>1. PICK memory \in {forwarded, {}}, old \in {parked[Away], <<>>} :
        LET unsent == Only(old, {l \in ToSet(old) : l.alarm.text \notin memory})
            first == SubSeq(unsent, 1, IF Len(unsent) < FORWARD_PER_RUN THEN Len(unsent)
                                                                      ELSE FORWARD_PER_RUN)
            alarms == [i \in DOMAIN first |-> first[i].alarm]
            taken == {alarms[i].text : i \in DOMAIN alarms}
        IN  /\ Forgetting(forwarded \ memory)
            /\ watch' = [pc |-> "save", out |-> alarms, told |-> memory \cup taken,
                         next |-> Remembered(memory, taken)]
  BY DEF collect_parked
<1>2. PICK these : these = {l \in ToSet(old) : l.alarm.text \notin memory}
  OBVIOUS
<1>3. PICK unsent : unsent = Only(old, these)
  OBVIOUS
<1>4. PICK n : n = IF Len(unsent) < FORWARD_PER_RUN THEN Len(unsent) ELSE FORWARD_PER_RUN
  OBVIOUS
<1>5. PICK coming : coming = SubSeq(unsent, 1, n)
  OBVIOUS
<1>6. PICK out : out = [i \in DOMAIN coming |-> coming[i].alarm]
  OBVIOUS
<1>7. PICK taken : taken = {out[i].text : i \in DOMAIN out}
  OBVIOUS
<1>8. /\ watch' = [pc |-> "save", out |-> out, told |-> memory \cup taken, next |-> Remembered(memory, taken)]
      /\ Forgetting(forwarded \ memory)
      /\ UNCHANGED <<hour, raised, sending, parked, heard, forwarded>>
  <2>1. UNCHANGED <<hour, raised, sending, parked, heard, forwarded>>
    BY DEF collect_parked
  <2> QED
    BY <1>1, <1>2, <1>3, <1>4, <1>5, <1>6, <1>7, <2>1
<1>9. /\ old \in Seq(FileLines) /\ IsFile(old) /\ forwarded \subseteq Texts /\ memory \subseteq forwarded
      /\ hour \in Nat /\ lapses \in [Texts -> Nat]
  <2>1. Away \in Hosts /\ <<>> \in Seq(FileLines) /\ IsFile(<<>>)
    BY DEF Hosts, IsFile, Once
  <2> QED
    BY <2>1 DEF AlarmInv, AlarmTypes, Files, ToldInv
<1>10. /\ unsent \in Seq(FileLines) /\ Once(unsent)
       /\ \A i \in DOMAIN unsent : unsent[i] \in these /\ \E j \in DOMAIN old : unsent[i] = old[j]
  <2>1. Once(old)
    BY <1>9 DEF IsFile
  <2> QED
    BY <1>3, <1>9, <2>1, OnlyIs
<1>11. /\ coming \in Seq(FileLines) /\ Once(coming)
       /\ \A i \in DOMAIN coming : \E j \in DOMAIN unsent : coming[i] = unsent[j]
  <2>1. n \in Nat /\ n <= Len(unsent) /\ 1 <= n + 1 /\ 1 \in Nat \ {0}
    BY <1>4, <1>10, AlarmAssumption
  <2> QED
    BY <1>5, <1>10, <2>1, PartIs
<1>12. \A i \in DOMAIN coming : /\ coming[i].alarm \in AllAlarms /\ Gone(coming[i].alarm)
                               /\ coming[i].alarm.text \notin memory
  <2> TAKE i \in DOMAIN coming
  <2>1. coming[i] \in FileLines
    BY <1>11
  <2>2. PICK j \in DOMAIN unsent : coming[i] = unsent[j]
    BY <1>11
  <2>3. PICK k \in DOMAIN old : unsent[j] = old[k]
    BY <1>10
  <2>4. unsent[j] \in these
    BY <1>10
  <2>5. Gone(old[k].alarm)
    BY <1>9 DEF IsFile
  <2> QED
    BY <1>2, <2>1, <2>2, <2>3, <2>4, <2>5 DEF FileLines
<1>13. DOMAIN out = DOMAIN coming /\ \A i \in DOMAIN coming : out[i] = coming[i].alarm
  BY <1>6
<1>14. out \in Seq(AllAlarms) /\ Distinct(out)
  <2>1. DOMAIN coming = 1..Len(coming) /\ Len(coming) \in Nat
    BY <1>11
  <2>2. out \in [1..Len(coming) -> AllAlarms]
    BY <1>6, <1>12, <2>1
  <2>3. out \in Seq(AllAlarms)
    BY <2>1, <2>2
  <2>4. Distinct(out)
    BY <1>11, <1>13 DEF Distinct, Once
  <2> QED
    BY <2>3, <2>4
<1>15. taken \subseteq Texts
  BY <1>7, <1>12, <1>13 DEF AllAlarms
<1>16. \A i \in DOMAIN out : Gone(out[i]) /\ out[i].text \notin memory /\ out[i].text \in taken
  BY <1>7, <1>12, <1>13
<1>17. /\ lapses' \in [Texts -> Nat] /\ \A t \in Texts : lapses[t] <= lapses'[t]
       /\ \A t \in Texts \cap (forwarded \ memory) : lapses'[t] = lapses[t] + 1
  BY <1>8, <1>9, ForgettingCounts
<1>18. AlarmTypes' /\ Files' /\ ToldInv' /\ \A a : (Gone(a)' <=> Gone(a)) /\ Times(a)' = Times(a)
  BY <1>8, <1>9, <1>17, RestStays
\* What is not in the memory that was read was told as often as it was forgotten.
<1>19. ASSUME NEW a \in raised, a.host = Away, a.text \notin memory PROVE Times(a)' <= lapses'[a.text]
  <2>1. /\ a.text \in Texts /\ lapses[a.text] \in Nat /\ Times(a) <= Allowed(a) /\ lapses'[a.text] \in Nat
    BY <1>9, <1>17, <1>19 DEF AlarmInv, AlarmTypes, AllAlarms, ToldInv
  <2>2. Times(a) \in Nat /\ Times(a)' = Times(a)
    BY <1>18, OneMoreTime DEF AlarmInv, AlarmTypes
  <2>3. CASE a.text \in forwarded
    <3>1. lapses'[a.text] = lapses[a.text] + 1 /\ Allowed(a) = lapses[a.text] + 1
      BY <1>17, <1>19, <2>1, <2>3 DEF Allowed
    <3> QED
      BY <2>1, <2>2, <3>1
  <2>4. CASE a.text \notin forwarded
    <3>1. lapses[a.text] <= lapses'[a.text] /\ Allowed(a) = lapses[a.text]
      BY <1>17, <2>1, <2>4 DEF Allowed
    <3> QED
      BY <2>1, <2>2, <3>1
  <2> QED
    BY <2>3, <2>4
<1>20. PICK told : told = memory \cup taken
  OBVIOUS
<1>21. /\ watch'.pc = "save" /\ watch'.out = out /\ watch'.told = told
       /\ watch'.next = Greatest(told, REMEMBERED)
  BY <1>8, <1>20 DEF Remembered
<1>22. /\ told \subseteq Texts /\ raised' = raised
       /\ \A i \in DOMAIN out : Gone(out[i])' /\ out[i].text \in told /\ Times(out[i])' <= lapses'[out[i].text]
       /\ \A a \in raised : a.host = Away /\ a.text \notin told => Times(a)' <= lapses'[a.text]
  <2>1. \A i \in DOMAIN out : out[i] \in raised /\ out[i].host = Away
    BY <1>16 DEF Gone
  <2> QED
    BY <1>8, <1>9, <1>15, <1>16, <1>18, <1>19, <1>20, <2>1
<1>23. Saves'
  BY <1>14, <1>21, <1>22 DEF Saves, Distinct
<1> QED
  BY <1>18, <1>23 DEF AlarmInv, Watching

LEMMA SaveKeeps ==
  ASSUME AlarmInv, SaveForwarded
  PROVE  AlarmInv'
<1>1. PICK out, told, next : out = watch.out /\ told = watch.told /\ next = watch.next
  OBVIOUS
<1>2. /\ watch.pc = "save" /\ UNCHANGED <<hour, raised, sending, parked, heard>>
      /\ watch' = IF out = <<>> THEN Resting ELSE [pc |-> "notify", out |-> out]
      /\ \/ forwarded' = next /\ Forgetting(Evicted(told))
         \/ forwarded' = forwarded /\ Forgetting(told \ forwarded)
  BY <1>1 DEF SaveForwarded
<1>3. /\ out \in Seq(AllAlarms) /\ Distinct(out) /\ told \subseteq Texts /\ next = Greatest(told, REMEMBERED)
      /\ \A i \in DOMAIN out : Gone(out[i]) /\ out[i].text \in told /\ Times(out[i]) <= lapses[out[i].text]
      /\ \A a \in raised : a.host = Away /\ a.text \notin told => Times(a) <= lapses[a.text]
  <2>1. watch # Resting /\ ~Notifies
    BY <1>2 DEF Resting, Notifies
  <2> QED
    BY <1>1, <2>1 DEF AlarmInv, Watching, Saves
<1>4. next \subseteq told /\ Evicted(told) = told \ next /\ forwarded \subseteq Texts /\ lapses \in [Texts -> Nat]
  BY <1>3 DEF Greatest, Evicted, AlarmInv, AlarmTypes, ToldInv
<1>5. forwarded' \subseteq Texts /\ AlarmTypes'
  <2>1. forwarded' \subseteq Texts
    BY <1>2, <1>3, <1>4
  <2> QED
    BY <1>2, <2>1 DEF AlarmInv, AlarmTypes, Same
<1>6. \A a : (Gone(a)' <=> Gone(a)) /\ Times(a)' = Times(a)
  BY <1>2 DEF Gone, At, Times
<1>7. Files'
  BY <1>2, <1>6 DEF AlarmInv, Files, IsFile, At, Holds
<1>8. /\ lapses' \in [Texts -> Nat] /\ \A t \in Texts : lapses[t] <= lapses'[t]
      /\ \A t \in told : t \notin forwarded' => lapses'[t] = lapses[t] + 1
  BY <1>2, <1>3, <1>4, ForgettingCounts
<1>9. \A t \in Texts : t \notin told => t \notin forwarded' \/ t \in forwarded
  BY <1>2, <1>4
\* What is not among the texts of this run is as it was; of the others, either they
\* are on file now, or they are counted.
<1>10. ASSUME NEW a \in raised, a.host = Away PROVE Times(a)' <= Allowed(a)'
  <2>1. /\ a.text \in Texts /\ lapses[a.text] \in Nat /\ lapses'[a.text] \in Nat
        /\ lapses[a.text] <= lapses'[a.text] /\ Times(a) <= Allowed(a) /\ Times(a) \in Nat
    BY <1>8, <1>10, OneMoreTime DEF AlarmInv, AlarmTypes, AllAlarms, ToldInv
  <2>2. Times(a) <= lapses[a.text] + 1
    BY <2>1 DEF Allowed
  <2>3. CASE a.text \in forwarded'
    <3>1. Allowed(a)' = lapses'[a.text] + 1
      BY <2>3 DEF Allowed
    <3> QED
      BY <1>6, <2>1, <2>2, <3>1
  <2>4. CASE a.text \notin forwarded'
    <3>1. Allowed(a)' = lapses'[a.text]
      BY <2>1, <2>4 DEF Allowed
    <3>2. CASE a.text \in told
      BY <1>6, <1>8, <2>1, <2>2, <2>4, <3>1, <3>2
    <3>3. CASE a.text \notin told
      <4>1. Times(a) <= lapses[a.text]
        BY <1>3, <1>10, <3>3
      <4> QED
        BY <1>6, <2>1, <3>1, <4>1
    <3> QED
      BY <3>2, <3>3
  <2> QED
    BY <2>3, <2>4
<1>11. ToldInv'
  <2>1. \A a, p : At(a, p)' <=> At(a, p)
    BY <1>2 DEF At
  <2> QED
    BY <1>2, <1>6, <1>8, <1>10, <2>1 DEF AlarmInv, ToldInv
<1>12. ASSUME NEW i \in DOMAIN out PROVE Gone(out[i])' /\ Times(out[i])' + 1 <= Allowed(out[i])'
  <2>1. PICK a : a = out[i]
    OBVIOUS
  <2>2. /\ a \in raised /\ a.text \in told /\ a.text \in Texts /\ Times(a) <= lapses[a.text]
        /\ lapses[a.text] \in Nat /\ lapses'[a.text] \in Nat /\ lapses[a.text] <= lapses'[a.text]
        /\ Times(a) \in Nat
    BY <1>3, <1>4, <1>8, <2>1, OneMoreTime DEF Gone, AlarmInv, AlarmTypes
  <2>3. Times(a) + 1 <= Allowed(a)'
    <3>1. CASE a.text \in forwarded'
      <4>1. Allowed(a)' = lapses'[a.text] + 1
        BY <3>1 DEF Allowed
      <4> QED
        BY <2>2, <4>1
    <3>2. CASE a.text \notin forwarded'
      <4>1. Allowed(a)' = lapses'[a.text] /\ lapses'[a.text] = lapses[a.text] + 1
        BY <1>8, <2>2, <3>2 DEF Allowed
      <4> QED
        BY <2>2, <4>1
    <3> QED
      BY <3>1, <3>2
  <2>4. Allowed(out[i])' = Allowed(a)' /\ Times(out[i])' = Times(a)
    BY <1>6, <2>1 DEF Allowed
  <2> QED
    BY <1>3, <1>6, <2>3, <2>4
<1>13. Watching'
  <2>1. CASE out = <<>>
    BY <1>2, <2>1 DEF Watching, Resting
  <2>2. CASE out # <<>>
    <3>1. watch'.pc = "notify" /\ watch'.out = out
      BY <1>2, <2>2
    <3>2. Notifies'
      BY <1>3, <1>12, <2>2, <3>1 DEF Notifies, Distinct
    <3> QED
      BY <3>2 DEF Watching
  <2> QED
    BY <2>1, <2>2
<1> QED
  BY <1>5, <1>7, <1>11, <1>13 DEF AlarmInv

\* What remains to be sent on, when the first has been.
LEMMA TheRest ==
  ASSUME NEW out \in Seq(AllAlarms), out # <<>>, Distinct(out)
  PROVE  /\ 1 \in DOMAIN out /\ Head(out) = out[1] /\ out[1] \in AllAlarms
         /\ Len(out) # 1 => /\ Tail(out) \in Seq(AllAlarms) /\ Tail(out) # <<>>
                            /\ Distinct(Tail(out))
                            /\ \A i \in DOMAIN Tail(out) :
                                 \E j \in DOMAIN out : Tail(out)[i] = out[j] /\ out[j] # out[1]
<1>1. DOMAIN out = 1..Len(out) /\ Len(out) \in Nat /\ Len(out) # 0
  OBVIOUS
<1>2. 1 \in DOMAIN out /\ Head(out) = out[1] /\ out[1] \in AllAlarms
  BY <1>1
<1>3. ASSUME Len(out) # 1
      PROVE  /\ Tail(out) \in Seq(AllAlarms) /\ Tail(out) # <<>> /\ Distinct(Tail(out))
             /\ \A i \in DOMAIN Tail(out) :
                  \E j \in DOMAIN out : Tail(out)[i] = out[j] /\ out[j] # out[1]
  <2>1. PICK rest : rest = Tail(out)
    OBVIOUS
  <2>2. /\ rest \in Seq(AllAlarms) /\ Len(rest) = Len(out) - 1 /\ DOMAIN rest = 1..(Len(out) - 1)
        /\ \A i \in 1..(Len(out) - 1) : rest[i] = out[i + 1]
    BY <1>1, <2>1
  <2>3. rest # <<>>
    BY <1>1, <1>3, <2>2
  <2>4. \A i \in DOMAIN rest : i + 1 \in DOMAIN out /\ i + 1 # 1 /\ rest[i] = out[i + 1]
    BY <1>1, <2>2
  <2>5. \A i, j \in DOMAIN rest : i # j => i + 1 # j + 1
    BY <2>2
  <2>6. Distinct(rest)
    BY <2>4, <2>5 DEF Distinct
  <2>7. \A i \in DOMAIN rest : \E j \in DOMAIN out : rest[i] = out[j] /\ out[j] # out[1]
    BY <1>2, <2>4 DEF Distinct
  <2> QED
    BY <2>1, <2>2, <2>3, <2>6, <2>7
<1> QED
  BY <1>2, <1>3

LEMMA NotifyKeeps ==
  ASSUME AlarmInv, Notify
  PROVE  AlarmInv'
<1>1. PICK out, alarm : out = watch.out /\ alarm = Head(out)
  OBVIOUS
<1>2. /\ watch.pc = "notify"
      /\ \/ heard' = Append(heard, alarm) /\ parked' = parked
         \/ heard' = heard /\ parked' = [parked EXCEPT ![Home] = ToKeep(Append(parked[Home], Line(alarm)))]
      /\ watch' = IF Len(out) = 1 THEN Resting ELSE [watch EXCEPT !.out = Tail(out)]
      /\ UNCHANGED <<hour, raised, sending, forwarded, lapses>>
  BY <1>1 DEF Notify
<1>3. /\ out \in Seq(AllAlarms) /\ out # <<>> /\ Distinct(out)
      /\ \A i \in DOMAIN out : Gone(out[i]) /\ Times(out[i]) + 1 <= Allowed(out[i])
  <2>1. watch # Resting /\ ~Saves
    BY <1>2 DEF Resting, Saves
  <2> QED
    BY <1>1, <2>1 DEF AlarmInv, Watching, Notifies
<1>4. /\ alarm \in AllAlarms /\ Gone(alarm) /\ Times(alarm) + 1 <= Allowed(alarm) /\ alarm = out[1]
      /\ alarm \in raised /\ alarm.host = Away
  BY <1>1, <1>3, TheRest DEF Gone
<1>5. parked' \in [Hosts -> Seq(FileLines)] /\ parked'[Away] = parked[Away] /\ heard' \in Seq(AllAlarms)
  <2>1. /\ parked \in [Hosts -> Seq(FileLines)] /\ heard \in Seq(AllAlarms)
        /\ Home \in Hosts /\ Away \in Hosts /\ Home # Away
    BY DEF AlarmInv, AlarmTypes, Hosts, Home, Away
  <2>2. PICK old, line : old = parked[Home] /\ line = Line(alarm)
    OBVIOUS
  <2>3. old \in Seq(FileLines) /\ line \in FileLines
    BY <1>4, <2>1, <2>2 DEF Line, FileLines, AlarmInv, AlarmTypes
  <2>4. PICK more, kept : more = Append(old, line) /\ kept = ToKeep(more)
    OBVIOUS
  <2>5. kept \in Seq(FileLines)
    <3>1. more \in Seq(FileLines)
      BY <2>3, <2>4, OneMore
    <3> QED
      BY <2>4, <3>1, KeptIs
  <2>6. Append(heard, alarm) \in Seq(AllAlarms)
    BY <1>4, <2>1, OneMore
  <2> QED
    BY <1>2, <2>1, <2>2, <2>4, <2>5, <2>6
<1>6. AlarmTypes'
  BY <1>2, <1>5 DEF AlarmInv, AlarmTypes, Same
<1>7. \A a : Gone(a)' <=> Gone(a)
  BY <1>2 DEF Gone, At
<1>8. Files'
  <2>1. PICK lines : lines = parked[Away]
    OBVIOUS
  <2>2. IsFile(lines) /\ parked'[Away] = lines
    BY <1>5, <2>1 DEF AlarmInv, Files
  <2>3. IsFile(parked[Away])'
    BY <1>7, <2>2 DEF IsFile
  <2>4. \A a : Holds(a)' <=> Holds(a)
    BY <1>2 DEF Holds, At
  <2>5. \A a \in raised : Holds(a) /\ a.host = Away => IsFile(sending[a].kept)'
    BY <1>2, <1>7 DEF AlarmInv, Files, IsFile
  <2> QED
    BY <1>2, <2>3, <2>4, <2>5 DEF AlarmInv, Files, At
<1>9. heard \in Seq(AllAlarms) /\ Times(alarm) \in Nat
  BY OneMoreTime DEF AlarmInv, AlarmTypes
<1>10. Times(alarm)' \in {Times(alarm), Times(alarm) + 1} /\ \A a : a # alarm => Times(a)' = Times(a)
  <2>1. CASE heard' = heard
    BY <2>1 DEF Times
  <2>2. CASE heard' = Append(heard, alarm)
    BY <1>4, <1>9, <2>2, OneMoreTime
  <2> QED
    BY <1>2, <2>1, <2>2
<1>11. \A a : Allowed(a)' = Allowed(a)
  BY <1>2 DEF Allowed
<1>12. ToldInv'
  <2>1. \A i \in DOMAIN heard' : heard'[i] \in raised
    BY <1>2, <1>4, <1>9, OneMore DEF AlarmInv, ToldInv
  <2>2. \A a, p : At(a, p)' <=> At(a, p)
    BY <1>2 DEF At
  <2>3. \A a \in raised : a.host = Home => Times(a)' <= 1 /\ (At(a, "post")' => Times(a)' = 0)
    <3>1. alarm.host # Home
      BY <1>4 DEF Home, Away
    <3> QED
      BY <1>10, <2>2, <3>1 DEF AlarmInv, ToldInv
  <2>4. ASSUME NEW a \in raised, a.host = Away PROVE Times(a)' <= Allowed(a)'
    <3>1. CASE a = alarm
      <4>1. a.text \in Texts /\ lapses[a.text] \in Nat
        BY <2>4 DEF AlarmInv, AlarmTypes, AllAlarms, ToldInv
      <4>2. Allowed(a) \in Nat
        BY <4>1 DEF Allowed
      <4> QED
        BY <1>4, <1>9, <1>10, <1>11, <3>1, <4>2
    <3>2. CASE a # alarm
      BY <1>10, <1>11, <2>4, <3>2 DEF AlarmInv, ToldInv
    <3> QED
      BY <3>1, <3>2
  <2> QED
    BY <1>2, <2>1, <2>3, <2>4 DEF AlarmInv, ToldInv
<1>13. Watching'
  <2>1. CASE Len(out) = 1
    BY <1>2, <2>1 DEF Watching, Resting
  <2>2. CASE Len(out) # 1
    <3>1. PICK rest : rest = Tail(out)
      OBVIOUS
    <3>2. /\ rest \in Seq(AllAlarms) /\ rest # <<>> /\ Distinct(rest)
          /\ \A i \in DOMAIN rest : \E j \in DOMAIN out : rest[i] = out[j] /\ out[j] # out[1]
      BY <1>3, <2>2, <3>1, TheRest
    <3>3. watch' = [watch EXCEPT !.out = rest]
      BY <1>2, <2>2, <3>1
    <3>4. watch'.pc = "notify" /\ watch'.out = rest
      <4>1. watch.pc = "notify" /\ watch.out = out /\ watch # Resting
        BY <1>1, <1>2 DEF Resting
      <4> QED
        BY <3>3, <4>1
    <3>5. ASSUME NEW i \in DOMAIN rest PROVE Gone(rest[i])' /\ Times(rest[i])' + 1 <= Allowed(rest[i])'
      <4>1. PICK j \in DOMAIN out : rest[i] = out[j] /\ out[j] # alarm
        BY <1>4, <3>2
      <4> DEFINE a == out[j]
      <4>2. Gone(a)' /\ Times(a)' = Times(a) /\ Times(a) + 1 <= Allowed(a) /\ Allowed(a)' = Allowed(a)
        BY <1>3, <1>7, <1>10, <1>11, <4>1
      <4>3. Gone(rest[i])' = Gone(a)' /\ Times(rest[i])' = Times(a)' /\ Allowed(rest[i])' = Allowed(a)'
        BY <4>1 DEF Gone, At, Times, Allowed
      <4> QED
        BY <4>2, <4>3
    <3>6. Notifies'
      BY <3>2, <3>4, <3>5 DEF Notifies, Distinct
    <3> QED
      BY <3>6 DEF Watching
  <2> QED
    BY <2>1, <2>2
<1> QED
  BY <1>6, <1>8, <1>12, <1>13 DEF AlarmInv

LEMMA KillKeeps ==
  ASSUME AlarmInv, Kill
  PROVE  AlarmInv'
<1>1. UNCHANGED <<hour, raised, parked, heard, forwarded, lapses>>
  BY DEF Kill
<1>2. CASE watch' = Resting /\ UNCHANGED sending
  <2>1. hour' \in Nat
    BY <1>1 DEF AlarmInv, AlarmTypes
  <2>2. AlarmTypes' /\ Files' /\ ToldInv'
    BY <1>1, <1>2, <2>1, RestStays
  <2> QED
    BY <1>2, <2>2 DEF AlarmInv, Watching, Resting
<1>3. ASSUME NEW a \in DOMAIN sending, Finish(a), UNCHANGED watch PROVE AlarmInv'
  <2>1. ProgramMoves(a) /\ ~At(a, "post")' /\ ~At(a, "append")' /\ ~Holds(a)'
    BY <1>3, StepOrFinish DEF Holds
  <2>2. IsFile(parked[Away])' /\ parked' \in [Hosts -> Seq(FileLines)]
    BY <1>1, <2>1, FileStays
  <2> QED
    BY <1>1, <1>3, <2>1, <2>2, ToldStays, ProgramKeeps
<1> QED
  BY <1>2, <1>3 DEF Kill

\* Time passes, or nothing happens.
LEMMA WaitingKeeps ==
  ASSUME AlarmInv, UNCHANGED <<raised, sending, parked, heard, forwarded, watch, lapses>>, hour' \in Nat
  PROVE  AlarmInv'
<1>1. AlarmTypes' /\ Files' /\ ToldInv' /\ \A a : (Gone(a)' <=> Gone(a)) /\ Times(a)' = Times(a)
  BY RestStays
<1>2. Watching'
  BY <1>1, WatchingStays DEF AlarmInv, AlarmTypes
<1> QED
  BY <1>1, <1>2 DEF AlarmInv

LEMMA AlarmInvStep ==
  ASSUME AlarmInv, [AlarmNext]_alarmVars
  PROVE  AlarmInv'
<1>1. CASE UNCHANGED alarmVars
  <2>1. UNCHANGED <<raised, sending, parked, heard, forwarded, watch, lapses>> /\ hour' \in Nat
    BY <1>1 DEF alarmVars, AlarmInv, AlarmTypes
  <2> QED
    BY <2>1, WaitingKeeps
<1>2. CASE Hour
  <2>1. UNCHANGED <<raised, sending, parked, heard, forwarded, watch, lapses>> /\ hour' \in Nat
    BY <1>2 DEF Hour, AlarmInv, AlarmTypes
  <2> QED
    BY <2>1, WaitingKeeps
<1>3. CASE \E h \in Hosts, t \in Texts : Raise(h, t)
  BY <1>3, RaiseKeeps
<1>4. CASE \E a \in DOMAIN sending :
             Post(a) \/ ParkAppends(a) \/ ParkReads(a) \/ ParkCuts(a) \/ ParkWrites(a)
  BY <1>4, PostKeeps, ParkAppendsKeeps, ParkReadsKeeps, ParkCutsKeeps, ParkWritesKeeps
<1>5. CASE collect_parked \/ SaveForwarded \/ Notify \/ Kill
  BY <1>5, CollectKeeps, SaveKeeps, NotifyKeeps, KillKeeps
<1> QED
  BY <1>1, <1>2, <1>3, <1>4, <1>5 DEF AlarmNext

\* RepeatsAreLapses.  For any texts, however few of their hashes fit into the state file:
\* every time an alarm is told after the first, its text had been sent and was not
\* remembered, whatever is lost, killed or rewritten on the way.
THEOREM AlarmsAreToldAgainForLapses == AlarmSpec => []RepeatsAreLapses
<1>1. AlarmInit => AlarmInv
  BY AlarmInvInit
<1>2. AlarmInv /\ [AlarmNext]_alarmVars => AlarmInv'
  BY AlarmInvStep
<1>3. AlarmInv => RepeatsAreLapses
  <2> SUFFICES ASSUME AlarmInv, NEW a \in raised PROVE Times(a) <= 1 + lapses[a.text]
    BY DEF RepeatsAreLapses
  <2>1. a.host \in Hosts /\ lapses[a.text] \in Nat /\ Times(a) \in Nat
    BY OneMoreTime DEF AlarmInv, AlarmTypes, AllAlarms, ToldInv
  <2>2. CASE a.host = Home
    BY <2>1, <2>2 DEF AlarmInv, ToldInv
  <2>3. CASE a.host = Away
    BY <2>1, <2>3 DEF AlarmInv, ToldInv, Allowed
  <2> QED
    BY <2>1, <2>2, <2>3 DEF Hosts
<1> QED
  BY <1>1, <1>2, <1>3, PTL DEF AlarmSpec

-----------------------------------------------------------------------------
(* The checks of the hosts.                                                *)

OfBackups == {"timers", "run", "archive"}
OfShares == {"finders", "some finders"}
Facts == [about : OfBackups \cup {"room"} \cup OfShares, host : CheckedHosts,
          network : Networks \cup {"all"}, kind : {"ok", "warn", "bad"}]
Inquiries == [check : {"backups", "headroom", "concentration"}, host : DOMAIN CHECKED,
              step : Networks \cup {"first", "run", "end"}, left : SUBSET Networks]

HostTypes ==
  /\ hostTime \in Nat
  /\ timers \in [CheckedHosts -> SUBSET Networks]
  /\ lastBackup \in [Instances -> {"success", "failed", "never"}]
  /\ archive \in [Instances -> Int]
  /\ samples \in [CheckedHosts -> Seq([t : Int, avail : Int])]
  /\ blocks \in Seq(Finders)
  /\ inquiry \in Inquiries \cup {NoCheck} /\ learned \subseteq Facts
  /\ hostExit \in {StillRunning, 0, 1, 2} /\ steady \in BOOLEAN /\ silences \in Nat

SomeKind(k) == \E f \in learned : f.kind = k

\* Nothing is known before a check begins, whoever was silent is among what is known,
\* and the check ends as what is known says.
Course ==
  /\ hostExit # StillRunning =>
       /\ inquiry = NoCheck
       /\ hostExit = IF SomeKind("bad") THEN 1 ELSE IF SomeKind("warn") THEN 2 ELSE 0
  /\ inquiry = NoCheck /\ hostExit = StillRunning => learned = {}
  /\ silences > 0 => SomeKind("bad") \/ SomeKind("warn")

\* Places in CHECKED that the check has left behind.
Visited == IF hostExit # StillRunning \/ (inquiry # NoCheck /\ inquiry.step = "end")
           THEN DOMAIN CHECKED
           ELSE IF inquiry = NoCheck THEN {} ELSE 1..(inquiry.host - 1)

\* check_backups.py: what it knows of hosts that have not changed is so, and it knows
\* enough of those it has left behind.
IsTrue(f) ==
  /\ f.about = "timers" => /\ f.kind = "ok" => timers[f.host] # {}
                           /\ f.kind = "bad" => timers[f.host] = {}
                           /\ f.kind = "warn" => silences > 0
  /\ f.about \in {"run", "archive"} => f.network \in timers[f.host]
  /\ f.about = "run" =>
       /\ f.kind = "ok" => lastBackup[<<f.host, f.network>>] = "success"
       /\ f.kind = "bad" => lastBackup[<<f.host, f.network>>] = "failed"
       /\ f.kind = "warn" => silences > 0 \/ lastBackup[<<f.host, f.network>>] = "never"
  /\ f.about = "archive" => /\ f.kind = "ok" => Fresh(<<f.host, f.network>>)
                            /\ f.kind = "bad" => ~Fresh(<<f.host, f.network>>)
                            /\ f.kind = "warn" => silences > 0

Knows(about, h, n) == \E f \in learned : f.about = about /\ f.host = h /\ f.network = n
Examined(h, n) == Knows("run", h, n) /\ Knows("archive", h, n)
TimersKnown(h) == \E f \in learned : f.about = "timers" /\ f.host = h
TimersUnread(h) == \E f \in learned : f.about = "timers" /\ f.host = h /\ f.kind # "ok"
Complete(h) == /\ TimersKnown(h)
               /\ TimersUnread(h) \/ \A n \in timers[h] : Examined(h, n)

AtHost ==
  inquiry # NoCheck /\ inquiry.step \in Networks \cup {"run"} =>
    /\ inquiry.left \subseteq timers[Host] /\ TimersKnown(Host)
    /\ \A n \in timers[Host] \ inquiry.left : Examined(Host, n)
    /\ inquiry.step \in Networks => inquiry.step \in inquiry.left /\ Knows("run", Host, inquiry.step)

Backups ==
  /\ inquiry.check \in {"none", "backups"}
  /\ \A f \in learned : f.about \in OfBackups
  /\ steady => /\ \A f \in learned : IsTrue(f)
               /\ \A i \in Visited : Complete(CHECKED[i])
               /\ AtHost

\* check_headroom.py: the hosts it has left behind had room, or it knows of one that
\* had not, or did not say.
HasRoom(h) == samples[h] # <<>> /\ samples[h][Len(samples[h])].avail >= FLOOR

Headroom ==
  /\ inquiry.check \in {"none", "headroom"}
  /\ \A f \in learned : f.about = "room"
  /\ SomeKind("bad") \/ SomeKind("warn") \/ \A i \in Visited : HasRoom(CHECKED[i])

\* check_concentration.py asks once.
TooLarge == \E f \in Finders : 100 * Of(DOMAIN blocks, f) >= FAIL * Len(blocks)

Concentration ==
  /\ inquiry.check \in {"none", "concentration"}
  /\ \A f \in learned : f.about \in OfShares
  /\ inquiry # NoCheck /\ inquiry.step # "end" => learned = {}
  /\ \A f, g \in learned : f = g
  /\ steady => \A f \in learned :
       f.about = "finders" /\ silences = 0 /\ Len(blocks) >= MIN_BLOCKS
         => (f.kind = "bad" <=> TooLarge)

HostInv == HostTypes /\ Course /\ (Backups \/ Headroom \/ Concentration)

-----------------------------------------------------------------------------
LEMMA NoCheckIs == NoCheck.check = "none" /\ NoCheck \notin Inquiries
BY DEF NoCheck, Inquiries

LEMMA HostInvInit == HostInit => HostInv
<1> SUFFICES ASSUME HostInit PROVE HostInv
  OBVIOUS
<1> USE HostAssumption
<1>1. samples \in [CheckedHosts -> Seq([t : Int, avail : Int])]
  <2>1. [t |-> -SPAN, avail |-> FLOOR + 1] \in [t : Int, avail : Int]
    OBVIOUS
  <2> DEFINE first == [t |-> -SPAN, avail |-> FLOOR + 1]
  <2>2. <<>> \in Seq([t : Int, avail : Int]) /\ <<first>> \in Seq([t : Int, avail : Int])
    BY <2>1
  <2> QED
    BY <2>2 DEF HostInit
<1>2. hostExit \in {StillRunning, 0, 1, 2} /\ silences \in Nat /\ hostTime \in Nat
  BY DEF HostInit
<1>3. steady \in BOOLEAN
  BY DEF HostInit
<1>4. timers \in [CheckedHosts -> SUBSET Networks]
  BY DEF HostInit
<1>5. lastBackup \in [Instances -> {"success", "failed", "never"}] /\ archive \in [Instances -> Int]
  BY DEF HostInit, NoTime
<1>6. blocks \in Seq(Finders) /\ inquiry \in Inquiries \cup {NoCheck} /\ learned \subseteq Facts
  BY DEF HostInit
<1>7. HostTypes
  BY <1>1, <1>2, <1>3, <1>4, <1>5, <1>6 DEF HostTypes
<1>8. Course
  BY DEF HostInit, Course, StillRunning
<1>9. Headroom
  BY NoCheckIs DEF HostInit, Headroom, Visited, StillRunning
<1> QED
  BY <1>7, <1>8, <1>9 DEF HostInv

\* A check begins with the first host, and nothing is known.
LEMMA CheckStartsKeeps ==
  ASSUME HostInv, NEW kind \in {"backups", "headroom", "concentration"}, CheckStarts(kind)
  PROVE  HostInv'
<1>1. inquiry = NoCheck /\ hostExit = StillRunning /\ hostExit' = hostExit /\ learned' = learned
      /\ silences' = silences /\ samples' = samples
  BY DEF CheckStarts
<1>2. learned' = {}
  BY <1>1 DEF HostInv, Course
<1>3. 1 \in DOMAIN CHECKED
  BY HostAssumption
<1>4. inquiry' = [check |-> kind, host |-> 1, step |-> "first", left |-> {}]
  BY DEF CheckStarts
<1>5. inquiry' \in Inquiries
  BY <1>3, <1>4 DEF Inquiries
<1>6. inquiry'.check = kind /\ inquiry'.host = 1 /\ inquiry'.step = "first"
  BY <1>4
<1>7. HostTypes'
  BY <1>1, <1>5 DEF CheckStarts, HostInv, HostTypes
<1>8. Course'
  BY <1>1, <1>2 DEF HostInv, Course, SomeKind
<1>9. Visited' = {}
  <2>1. Visited' = 1..(inquiry'.host - 1)
    BY <1>1, <1>5, <1>6, NoCheckIs DEF Visited
  <2> QED
    BY <1>6, <2>1
<1>10. AtHost'
  BY <1>6, HostAssumption DEF AtHost
<1>11. CASE kind = "backups"
  BY <1>2, <1>6, <1>7, <1>8, <1>9, <1>10, <1>11 DEF HostInv, Backups
<1>12. CASE kind = "headroom"
  BY <1>2, <1>6, <1>7, <1>8, <1>9, <1>12 DEF HostInv, Headroom
<1>13. CASE kind = "concentration"
  BY <1>2, <1>6, <1>7, <1>8, <1>13 DEF HostInv, Concentration
<1> QED
  BY <1>11, <1>12, <1>13

\* Whatever goes on meanwhile, nothing is claimed of it.
LEMMA MeanwhileKeeps ==
  ASSUME HostInv, steady' = FALSE, UNCHANGED <<samples, inquiry, learned, hostExit, silences>>,
         hostTime' \in Nat, timers' \in [CheckedHosts -> SUBSET Networks],
         lastBackup' \in [Instances -> {"success", "failed", "never"}],
         archive' \in [Instances -> Int], blocks' \in Seq(Finders)
  PROVE  HostInv'
<1>1. HostTypes' /\ Course'
  BY DEF HostInv, HostTypes, Course, SomeKind
<1>2. Visited' = Visited
  BY DEF Visited
<1>3. Backups => Backups'
  BY DEF Backups
<1>4. Headroom => Headroom'
  BY <1>2 DEF Headroom, HasRoom, SomeKind
<1>5. Concentration => Concentration'
  BY DEF Concentration
<1> QED
  BY <1>1, <1>3, <1>4, <1>5 DEF HostInv

LEMMA WorldsKeep ==
  ASSUME HostInv,
         \/ Meanwhile(HostTick)
         \/ \E k \in Instances : Meanwhile(Backup(k)) \/ Meanwhile(Rotated(k)) \/ Meanwhile(Timer(k))
         \/ \E f \in Finders : Meanwhile(Mined(f))
  PROVE  HostInv'
<1>1. steady' = FALSE /\ UNCHANGED <<samples, inquiry, learned, hostExit, silences>>
  BY DEF Meanwhile
<1> USE DEF HostInv, HostTypes
<1>2. CASE Meanwhile(HostTick)
  <2>1. hostTime' = hostTime + 1 /\ UNCHANGED <<timers, lastBackup, archive, blocks>>
    BY <1>2 DEF Meanwhile, HostTick
  <2>2. /\ hostTime' \in Nat /\ timers' \in [CheckedHosts -> SUBSET Networks]
        /\ lastBackup' \in [Instances -> {"success", "failed", "never"}]
        /\ archive' \in [Instances -> Int] /\ blocks' \in Seq(Finders)
    BY <2>1
  <2> QED
    BY <1>1, <2>2, MeanwhileKeeps
<1>3. ASSUME NEW k \in Instances, Meanwhile(Backup(k)) PROVE HostInv'
  <2>1. UNCHANGED <<hostTime, timers, blocks>>
    BY <1>3 DEF Meanwhile, Backup
  <2>2. lastBackup' \in [Instances -> {"success", "failed", "never"}]
    BY <1>3 DEF Meanwhile, Backup
  <2>3. archive' \in [Instances -> Int]
    BY <1>3 DEF Meanwhile, Backup
  <2> QED
    BY <1>1, <2>1, <2>2, <2>3, MeanwhileKeeps
<1>4. ASSUME NEW k \in Instances, Meanwhile(Rotated(k)) PROVE HostInv'
  <2>1. archive' \in [Instances -> Int]
    BY <1>4 DEF Meanwhile, Rotated, NoTime
  <2>2. UNCHANGED <<hostTime, timers, lastBackup, blocks>>
    BY <1>4 DEF Meanwhile, Rotated
  <2> QED
    BY <1>1, <2>1, <2>2, MeanwhileKeeps
<1>5. ASSUME NEW k \in Instances, Meanwhile(Timer(k)) PROVE HostInv'
  <2>1. k[1] \in CheckedHosts /\ k[2] \in Networks
    BY DEF Instances
  <2>2. timers' \in [CheckedHosts -> SUBSET Networks]
    BY <1>5, <2>1 DEF Meanwhile, Timer
  <2> QED
    BY <1>1, <1>5, <2>2, MeanwhileKeeps DEF Meanwhile, Timer
<1>6. ASSUME NEW f \in Finders, Meanwhile(Mined(f)) PROVE HostInv'
  <2>1. blocks' \in Seq(Finders)
    <3>1. CASE Len(blocks) = Window
      <4>1. blocks # <<>>
        BY <3>1, HostAssumption
      <4>2. Tail(blocks) \in Seq(Finders)
        BY <4>1
      <4> QED
        BY <1>6, <3>1, <4>2 DEF Meanwhile, Mined
    <3>2. CASE Len(blocks) # Window
      BY <1>6, <3>2 DEF Meanwhile, Mined
    <3> QED
      BY <3>1, <3>2
  <2> QED
    BY <1>1, <1>6, <2>1, MeanwhileKeeps DEF Meanwhile, Mined
<1> QED
  BY <1>2, <1>3, <1>4, <1>5, <1>6

\* One thing more is known: of the host that was asked.
LEMMA OneMoreIsKnown ==
  ASSUME HostInv, inquiry # NoCheck, NEW f \in Facts, learned' = learned \cup {f},
         inquiry' \in Inquiries, samples' \in [CheckedHosts -> Seq([t : Int, avail : Int])],
         silences' \in {silences, silences + 1}, silences' # silences => f.kind # "ok",
         UNCHANGED <<hostWorld, hostExit>>
  PROVE  HostTypes' /\ Course' /\ hostExit = StillRunning /\ hostExit' = StillRunning
<1>1. HostTypes'
  BY DEF HostInv, HostTypes, hostWorld
<1>2. hostExit = StillRunning /\ hostExit' = StillRunning
  BY DEF HostInv, Course
<1>3. inquiry' # NoCheck
  BY NoCheckIs
<1>4. silences' > 0 => SomeKind("bad")' \/ SomeKind("warn")'
  <2>1. CASE silences' = silences
    BY <2>1 DEF HostInv, Course, SomeKind
  <2>2. CASE silences' # silences
    BY <2>2 DEF SomeKind, Facts
  <2> QED
    BY <2>1, <2>2
<1> QED
  BY <1>1, <1>2, <1>3, <1>4 DEF Course

LEMMA HostIs ==
  ASSUME HostInv, inquiry # NoCheck
  PROVE  /\ Host \in CheckedHosts /\ inquiry.host \in DOMAIN CHECKED /\ Host = CHECKED[inquiry.host]
         /\ DOMAIN CHECKED = 1..Len(CHECKED) /\ Len(CHECKED) \in Nat
         /\ inquiry \in Inquiries
BY HostAssumption DEF HostInv, HostTypes, Inquiries, Host, CheckedHosts

\* After a host comes the next, or the end, and the host is left behind.
LEMMA NextHostIs ==
  ASSUME HostInv, inquiry # NoCheck, inquiry' = NextHost, hostExit' = StillRunning
  PROVE  /\ inquiry' \in Inquiries /\ Visited' = 1..inquiry.host
         /\ inquiry'.step \in {"first", "end"} /\ inquiry'.check = inquiry.check
<1>1. inquiry \in Inquiries /\ inquiry.host \in 1..Len(CHECKED) /\ DOMAIN CHECKED = 1..Len(CHECKED)
      /\ Len(CHECKED) \in Nat
  BY HostIs
<1>2. CASE inquiry.host = Len(CHECKED)
  <2>1. inquiry' = [inquiry EXCEPT !.step = "end"]
    BY <1>2 DEF NextHost
  <2>2. inquiry' \in Inquiries /\ inquiry'.step = "end" /\ inquiry'.check = inquiry.check
    BY <1>1, <2>1 DEF Inquiries
  <2>3. Visited' = DOMAIN CHECKED
    BY <2>2, NoCheckIs DEF Visited
  <2> QED
    BY <1>1, <1>2, <2>2, <2>3
<1>3. CASE inquiry.host # Len(CHECKED)
  <2>1. inquiry' = [inquiry EXCEPT !.host = inquiry.host + 1, !.step = "first", !.left = {}]
    BY <1>3 DEF NextHost
  <2>2. inquiry.host + 1 \in DOMAIN CHECKED
    BY <1>1, <1>3
  <2>3. inquiry' \in Inquiries /\ inquiry'.step = "first" /\ inquiry'.check = inquiry.check
        /\ inquiry'.host = inquiry.host + 1
    BY <1>1, <2>1, <2>2 DEF Inquiries
  <2>4. Visited' = 1..(inquiry'.host - 1)
    BY <2>3, NoCheckIs DEF Visited
  <2> QED
    BY <1>1, <2>3, <2>4
<1> QED
  BY <1>2, <1>3

LEMMA VisitedBefore ==
  ASSUME HostInv, inquiry # NoCheck, inquiry.step # "end"
  PROVE  Visited = 1..(inquiry.host - 1)
BY DEF HostInv, Course, Visited

-----------------------------------------------------------------------------
\* What is true and known stays so while nothing changes.
LEMMA MoreIsKnown ==
  ASSUME HostInv, NEW f \in Facts, learned' = learned \cup {f}, UNCHANGED hostWorld,
         silences' \in {silences, silences + 1}
  PROVE  /\ \A about, h, n : Knows(about, h, n) => Knows(about, h, n)'
         /\ \A h : TimersKnown(h) => TimersKnown(h)'
         /\ \A h : Complete(h) => Complete(h)'
         /\ \A g \in learned : IsTrue(g) => IsTrue(g)'
         /\ Knows(f.about, f.host, f.network)'
         /\ f.about = "timers" => TimersKnown(f.host)' /\ (f.kind # "ok" => TimersUnread(f.host)')
         /\ steady' = steady /\ timers' = timers
<1>1. /\ hostTime' = hostTime /\ timers' = timers /\ lastBackup' = lastBackup
      /\ archive' = archive /\ blocks' = blocks /\ steady' = steady
  BY DEF hostWorld
<1>2. ASSUME NEW about, NEW h, NEW n, Knows(about, h, n) PROVE Knows(about, h, n)'
  BY <1>2 DEF Knows
<1>3. ASSUME NEW h, TimersKnown(h) PROVE TimersKnown(h)'
  BY <1>3 DEF TimersKnown
<1>4. ASSUME NEW h, Complete(h) PROVE Complete(h)'
  <2>1. TimersUnread(h) => TimersUnread(h)'
    BY DEF TimersUnread
  <2>2. \A n : Examined(h, n) => Examined(h, n)'
    BY <1>2 DEF Examined
  <2> QED
    BY <1>1, <1>3, <1>4, <2>1, <2>2 DEF Complete
<1>5. ASSUME NEW g \in learned, IsTrue(g) PROVE IsTrue(g)'
  <2>1. silences > 0 => silences' > 0
    BY DEF HostInv, HostTypes
  <2>2. Fresh(<<g.host, g.network>>)' <=> Fresh(<<g.host, g.network>>)
    BY <1>1 DEF Fresh
  <2> QED
    BY <1>1, <1>5, <2>1, <2>2 DEF IsTrue
<1>6. Knows(f.about, f.host, f.network)'
  BY DEF Knows
<1>7. f.about = "timers" => TimersKnown(f.host)' /\ (f.kind # "ok" => TimersUnread(f.host)')
  BY DEF TimersKnown, TimersUnread
<1> QED
  BY <1>1, <1>2, <1>3, <1>4, <1>5, <1>6, <1>7

\* The backups: with the host that was asked complete the next is due.
LEMMA LeavesHost ==
  ASSUME HostInv, Backups, inquiry.check = "backups", inquiry.step # "end", NEW f \in Facts,
         f.about \in OfBackups,
         learned' = learned \cup {f}, UNCHANGED <<hostWorld, hostExit, samples>>,
         silences' \in {silences, silences + 1}, silences' # silences => f.kind # "ok",
         inquiry' = NextHost, NEW h, h = Host, steady => IsTrue(f)' /\ Complete(h)'
  PROVE  HostInv'
<1>1. inquiry # NoCheck
  BY NoCheckIs
<1>2. hostExit = StillRunning /\ hostExit' = hostExit
  BY <1>1 DEF HostInv, Course
<1>3. inquiry' \in Inquiries /\ Visited' = 1..inquiry.host
      /\ inquiry'.step \in {"first", "end"} /\ inquiry'.check = "backups"
  BY <1>1, <1>2, NextHostIs
<1>4. HostTypes' /\ Course'
  BY <1>1, <1>3, OneMoreIsKnown DEF HostInv, HostTypes
<1>5. AtHost'
  BY <1>3, HostAssumption DEF AtHost
<1>6. /\ \A k : Complete(k) => Complete(k)'
      /\ \A g \in learned : IsTrue(g) => IsTrue(g)'
      /\ steady' = steady
  BY MoreIsKnown
<1>7. ASSUME steady, NEW i \in Visited' PROVE Complete(CHECKED[i])'
  <2>1. inquiry.host \in Nat /\ h = CHECKED[inquiry.host]
    BY <1>1, HostIs
  <2>2. i \in Visited \/ i = inquiry.host
    BY <1>1, <1>3, <2>1, VisitedBefore
  <2>3. CASE i \in Visited
    BY <1>6, <1>7, <2>3 DEF Backups
  <2>4. CASE i = inquiry.host
    BY <1>7, <2>1, <2>4
  <2> QED
    BY <2>2, <2>3, <2>4
<1>8. steady => \A g \in learned' : IsTrue(g)'
  BY <1>6 DEF Backups
<1>9. Backups'
  BY <1>3, <1>5, <1>6, <1>7, <1>8 DEF Backups
<1> QED
  BY <1>4, <1>9 DEF HostInv

\* And without, there is more to ask of it.
LEMMA StaysAtHost ==
  ASSUME HostInv, Backups, inquiry.check = "backups", inquiry.step # "end", NEW f \in Facts,
         f.about \in OfBackups,
         learned' = learned \cup {f}, UNCHANGED <<hostWorld, hostExit, samples>>,
         silences' \in {silences, silences + 1}, silences' # silences => f.kind # "ok",
         NEW step \in Networks \cup {"run"}, NEW left \in SUBSET Networks,
         inquiry' = [inquiry EXCEPT !.step = step, !.left = left],
         steady => IsTrue(f)' /\ AtHost'
  PROVE  HostInv'
<1>1. inquiry # NoCheck
  BY NoCheckIs
<1>2. hostExit = StillRunning /\ hostExit' = hostExit
  BY <1>1 DEF HostInv, Course
<1>3. inquiry \in Inquiries
  BY <1>1, HostIs
<1>4. inquiry' \in Inquiries /\ inquiry'.step # "end" /\ inquiry'.host = inquiry.host
      /\ inquiry'.check = "backups"
  BY <1>3, HostAssumption DEF Inquiries
<1>5. HostTypes' /\ Course'
  BY <1>1, <1>4, OneMoreIsKnown DEF HostInv, HostTypes
<1>6. /\ \A k : Complete(k) => Complete(k)'
      /\ \A g \in learned : IsTrue(g) => IsTrue(g)'
      /\ steady' = steady
  BY MoreIsKnown
<1>7. Visited' = Visited
  BY <1>1, <1>2, <1>4, VisitedBefore, NoCheckIs DEF Visited
<1>8. steady => \A g \in learned' : IsTrue(g)'
  BY <1>6 DEF Backups
<1>9. Backups'
  BY <1>4, <1>6, <1>7, <1>8 DEF Backups
<1> QED
  BY <1>5, <1>9 DEF HostInv

LEMMA FactIs ==
  ASSUME HostInv, inquiry # NoCheck,
         NEW about \in OfBackups \cup {"room"} \cup OfShares, NEW n \in Networks \cup {"all"},
         NEW kind \in {"ok", "warn", "bad"}
  PROVE  /\ Fact(about, n, kind) \in Facts
         /\ Fact(about, n, kind).about = about /\ Fact(about, n, kind).host = Host
         /\ Fact(about, n, kind).network = n /\ Fact(about, n, kind).kind = kind
<1>1. Host \in CheckedHosts
  BY HostIs
<1> QED
  BY <1>1 DEF Fact, Facts

LEMMA AskTimersKeeps == HostInv /\ AskTimers => HostInv'
<1> SUFFICES ASSUME HostInv, AskTimers PROVE HostInv'
  OBVIOUS
<1>1. inquiry.check = "backups" /\ inquiry.step = "first" /\ inquiry # NoCheck
  BY NoCheckIs DEF AskTimers
<1>2. Backups
  BY <1>1 DEF HostInv, Headroom, Concentration
<1>3. UNCHANGED <<hostWorld, samples, hostExit>> /\ timers' = timers
  BY DEF AskTimers, hostWorld
<1>4. ASSUME NEW kind \in {"warn", "bad"}, inquiry' = NextHost,
             learned' = learned \cup {Fact("timers", "all", kind)},
             silences' \in {silences, silences + 1},
             kind = "bad" => timers[Host] = {}, kind = "warn" => silences' > 0
      PROVE  HostInv'
  <2>1. PICK f \in Facts : f = Fact("timers", "all", kind)
    BY <1>1, FactIs DEF OfBackups
  <2>2. f.about = "timers" /\ f.host = Host /\ f.kind = kind
    BY <1>1, <2>1, FactIs DEF OfBackups
  <2>3. PICK h : h = Host
    OBVIOUS
  <2>4. learned' = learned \cup {f}
    BY <1>4, <2>1
  <2>5. IsTrue(f)'
    BY <1>3, <1>4, <2>2 DEF IsTrue
  <2>6. Complete(h)'
    <3>1. TimersKnown(f.host)' /\ TimersUnread(f.host)'
      BY <1>3, <1>4, <2>2, <2>4, MoreIsKnown
    <3>2. f.host = h
      BY <2>2, <2>3
    <3> QED
      BY <3>1, <3>2 DEF Complete
  <2>7. f.about \in OfBackups /\ inquiry.step # "end" /\ (silences' # silences => f.kind # "ok")
    BY <1>1, <2>2 DEF OfBackups
  <2> QED
    BY <1>1, <1>2, <1>3, <1>4, <2>3, <2>4, <2>5, <2>6, <2>7, LeavesHost
<1>5. CASE Silent("timers", "all", NextHost)
  BY <1>4, <1>5 DEF Silent, Lost, HostInv, HostTypes
<1>6. CASE timers[Host] = {} /\ Tells("timers", "all", "bad", NextHost)
  BY <1>4, <1>6 DEF Tells
<1>7. CASE /\ timers[Host] # {}
           /\ Tells("timers", "all", "ok", [inquiry EXCEPT !.step = "run", !.left = timers[Host]])
  <2>1. PICK f \in Facts : f = Fact("timers", "all", "ok")
    BY <1>1, FactIs DEF OfBackups
  <2>2. f.about = "timers" /\ f.host = Host /\ f.kind = "ok"
    BY <1>1, <2>1, FactIs DEF OfBackups
  <2>3. PICK h, left : h = Host /\ left = timers[h]
    OBVIOUS
  <2>4. learned' = learned \cup {f} /\ silences' = silences
        /\ inquiry' = [inquiry EXCEPT !.step = "run", !.left = left]
    BY <1>7, <2>1, <2>3 DEF Tells
  <2>5. IsTrue(f)'
    BY <1>3, <1>7, <2>2 DEF IsTrue
  <2>6. TimersKnown(h)'
    BY <1>3, <2>2, <2>3, <2>4, MoreIsKnown
  <2>7. left \in SUBSET Networks
    BY <1>1, <2>3, HostIs DEF HostInv, HostTypes
  <2>8. inquiry \in Inquiries
    BY <1>1, HostIs
  <2>9. inquiry'.step = "run" /\ inquiry'.left = left /\ Host' = h
    BY <2>3, <2>4, <2>8 DEF Inquiries, Host
  <2>10. AtHost'
    BY <1>3, <2>3, <2>6, <2>9, HostAssumption DEF AtHost
  <2>11. f.about \in OfBackups /\ inquiry.step # "end"
    BY <1>1, <2>2 DEF OfBackups
  <2> QED
    BY <1>1, <1>2, <1>3, <2>4, <2>5, <2>7, <2>10, <2>11, StaysAtHost
<1> QED
  BY <1>5, <1>6, <1>7 DEF AskTimers

LEMMA AskLastRunKeeps ==
  ASSUME HostInv, NEW n \in Networks, AskLastRun(n)
  PROVE  HostInv'
<1>1. inquiry.check = "backups" /\ inquiry.step = "run" /\ inquiry # NoCheck /\ n \in inquiry.left
  BY NoCheckIs DEF AskLastRun
<1>2. Backups
  BY <1>1 DEF HostInv, Headroom, Concentration
<1>3. UNCHANGED <<hostWorld, samples, hostExit>> /\ timers' = timers /\ lastBackup' = lastBackup
  BY DEF AskLastRun, hostWorld
<1>4. PICK h, left : h = Host /\ left = inquiry.left
  OBVIOUS
<1>5. inquiry \in Inquiries /\ h \in CheckedHosts
  BY <1>1, <1>4, HostIs
<1>6. left \in SUBSET Networks /\ [inquiry EXCEPT !.step = n] = [inquiry EXCEPT !.step = n, !.left = left]
  BY <1>4, <1>5 DEF Inquiries
<1>7. steady => AtHost
  BY <1>2 DEF Backups
<1>8. steady => n \in timers[h] /\ left \subseteq timers[h] /\ TimersKnown(h)
                /\ \A m \in timers[h] \ left : Examined(h, m)
  BY <1>1, <1>4, <1>7 DEF AtHost
<1>9. lastBackup[<<h, n>>] \in {"success", "failed", "never"}
  BY <1>5 DEF HostInv, HostTypes, Instances
<1>10. ASSUME NEW kind \in {"ok", "warn", "bad"}, inquiry' = [inquiry EXCEPT !.step = n],
              learned' = learned \cup {Fact("run", n, kind)},
              silences' \in {silences, silences + 1}, silences' # silences => kind # "ok",
              kind = "ok" => lastBackup[<<h, n>>] = "success",
              kind = "bad" => lastBackup[<<h, n>>] = "failed",
              kind = "warn" => silences' > 0 \/ lastBackup[<<h, n>>] = "never"
       PROVE  HostInv'
  <2>1. PICK f \in Facts : f = Fact("run", n, kind)
    BY <1>1, FactIs DEF OfBackups
  <2>2. f.about = "run" /\ f.host = h /\ f.kind = kind /\ f.network = n
    <3>1. "run" \in OfBackups \cup {"room"} \cup OfShares /\ n \in Networks \cup {"all"}
      BY DEF OfBackups
    <3> QED
      BY <1>1, <1>4, <2>1, <3>1, FactIs
  <2>3. learned' = learned \cup {f}
    BY <1>10, <2>1
  <2>4. steady => IsTrue(f)'
    BY <1>3, <1>8, <1>10, <2>2 DEF IsTrue
  <2>5. steady => AtHost'
    <3> SUFFICES ASSUME steady PROVE AtHost'
      OBVIOUS
    <3>1. inquiry'.step = n /\ inquiry'.left = left /\ Host' = h
      BY <1>4, <1>5, <1>10 DEF Inquiries, Host
    <3>2. TimersKnown(h)' /\ (\A m : Examined(h, m) => Examined(h, m)') /\ Knows("run", h, n)'
      BY <1>3, <1>8, <1>10, <2>2, <2>3, MoreIsKnown DEF Examined
    <3> QED
      BY <1>1, <1>3, <1>4, <1>8, <3>1, <3>2 DEF AtHost
  <2>6. f.about \in OfBackups /\ inquiry.step # "end" /\ (silences' # silences => f.kind # "ok")
    BY <1>1, <1>10, <2>2 DEF OfBackups
  <2>7. inquiry' = [inquiry EXCEPT !.step = n, !.left = left]
    BY <1>6, <1>10
  <2> QED
    BY <1>1, <1>2, <1>3, <1>6, <1>10, <2>3, <2>4, <2>5, <2>6, <2>7, StaysAtHost, ZenonT(60)
<1> DEFINE at == [inquiry EXCEPT !.step = n]
           said == CASE lastBackup[<<h, n>>] = "success" -> "ok"
                     [] lastBackup[<<h, n>>] = "failed" -> "bad"
                     [] lastBackup[<<h, n>>] = "never" -> "warn"
<1>11. CASE Silent("run", n, at)
  <2>1. silences' = silences + 1 /\ learned' = learned \cup {Fact("run", n, "warn")} /\ inquiry' = at
    BY <1>11 DEF Silent, Lost
  <2>2. silences' > 0
    BY <2>1 DEF HostInv, HostTypes
  <2> QED
    BY <1>10, <2>1, <2>2
<1>12. CASE Tells("run", n, said, at)
  <2>1. silences' = silences /\ learned' = learned \cup {Fact("run", n, said)} /\ inquiry' = at
    BY <1>12 DEF Tells
  <2>2. /\ said \in {"ok", "warn", "bad"}
        /\ said = "ok" => lastBackup[<<h, n>>] = "success"
        /\ said = "bad" => lastBackup[<<h, n>>] = "failed"
        /\ said = "warn" => lastBackup[<<h, n>>] = "never"
    BY <1>9
  <2> HIDE DEF said
  <2>3. PICK kind \in {"ok", "warn", "bad"} : kind = said
    BY <2>2
  <2> QED
    BY <1>3, <1>10, <2>1, <2>2, <2>3
<1> QED
  BY <1>4, <1>11, <1>12 DEF AskLastRun

LEMMA AskArchiveKeeps == HostInv /\ AskArchive => HostInv'
<1> SUFFICES ASSUME HostInv, AskArchive PROVE HostInv'
  OBVIOUS
<1>1. inquiry.check = "backups" /\ inquiry.step \in Networks /\ inquiry # NoCheck
  BY NoCheckIs DEF AskArchive
<1>2. Backups
  BY <1>1 DEF HostInv, Headroom, Concentration
<1>3. UNCHANGED <<hostWorld, samples, hostExit>> /\ timers' = timers /\ archive' = archive
      /\ hostTime' = hostTime
  BY DEF AskArchive, hostWorld
<1>4. PICK n, h, left : n \in Networks /\ n = inquiry.step /\ h = Host /\ left = inquiry.left
  BY <1>1
<1>5. inquiry \in Inquiries /\ h \in CheckedHosts
  BY <1>1, <1>4, HostIs
<1>6. left \in SUBSET Networks /\ inquiry.step # "end"
  BY <1>1, <1>4, <1>5, HostAssumption DEF Inquiries
<1>7. steady => AtHost
  BY <1>2 DEF Backups
<1>8. steady => /\ n \in timers[h] /\ left \subseteq timers[h] /\ TimersKnown(h) /\ n \in left
                /\ \A m \in timers[h] \ left : Examined(h, m)
                /\ Knows("run", h, n)
  BY <1>1, <1>4, <1>7 DEF AtHost
<1>9. Fresh(<<h, n>>) <=> archive[<<h, n>>] # NoTime /\ hostTime - archive[<<h, n>>] <= MAX_AGE
  BY DEF Fresh
<1>10. ASSUME NEW kind \in {"ok", "warn", "bad"}, inquiry' = NextNetwork(n),
              learned' = learned \cup {Fact("archive", n, kind)},
              silences' \in {silences, silences + 1}, silences' # silences => kind # "ok",
              kind = "ok" => Fresh(<<h, n>>), kind = "bad" => ~Fresh(<<h, n>>),
              kind = "warn" => silences' > 0
       PROVE  HostInv'
  <2>1. PICK f \in Facts : f = Fact("archive", n, kind)
    <3>1. "archive" \in OfBackups \cup {"room"} \cup OfShares /\ n \in Networks \cup {"all"}
      BY <1>4 DEF OfBackups
    <3> QED
      BY <1>1, <3>1, FactIs
  <2>2. f.about = "archive" /\ f.host = h /\ f.kind = kind /\ f.network = n
    BY <1>1, <1>4, <2>1, FactIs DEF OfBackups
  <2>3. learned' = learned \cup {f}
    BY <1>10, <2>1
  <2>4. steady => IsTrue(f)'
    <3>1. Fresh(<<h, n>>)' <=> Fresh(<<h, n>>)
      BY <1>3 DEF Fresh
    <3> QED
      BY <1>3, <1>8, <1>10, <2>2, <3>1 DEF IsTrue
  <2>5. f.about \in OfBackups /\ (silences' # silences => f.kind # "ok")
    BY <1>10, <2>2 DEF OfBackups
  <2>6. steady => /\ TimersKnown(h)' /\ Examined(h, n)'
                  /\ \A m \in timers'[h] \ left : Examined(h, m)'
    BY <1>3, <1>8, <1>10, <2>2, <2>3, MoreIsKnown DEF Examined
  <2>7. CASE left = {n}
    <3>1. inquiry' = NextHost
      BY <1>4, <1>10, <2>7 DEF NextNetwork
    <3>2. steady => Complete(h)'
      BY <2>6, <2>7 DEF Complete
    <3> QED
      BY <1>1, <1>2, <1>3, <1>4, <1>6, <1>10, <2>3, <2>4, <2>5, <3>1, <3>2, LeavesHost
  <2>8. CASE left # {n}
    <3>1. inquiry' = [inquiry EXCEPT !.step = "run", !.left = left \ {n}]
      BY <1>4, <1>10, <2>8 DEF NextNetwork
    <3>2. inquiry'.step = "run" /\ inquiry'.left = left \ {n} /\ Host' = h
      BY <1>4, <1>5, <3>1 DEF Inquiries, Host
    <3>3. steady => AtHost'
      BY <1>3, <1>8, <2>6, <3>2, HostAssumption DEF AtHost
    <3>4. left \ {n} \in SUBSET Networks
      BY <1>6
    <3> QED
      BY <1>1, <1>2, <1>3, <1>6, <1>10, <2>3, <2>4, <2>5, <3>1, <3>3, <3>4, StaysAtHost
  <2> QED
    BY <2>7, <2>8
<1>11. CASE Lost("archive", n, Unfound, NextNetwork(n))
  <2>1. silences' = silences + 1 /\ learned' = learned \cup {Fact("archive", n, "warn")}
        /\ inquiry' = NextNetwork(n)
    BY <1>11 DEF Lost, Unfound
  <2>2. silences' > 0
    BY <2>1 DEF HostInv, HostTypes
  <2> QED
    BY <1>10, <2>1, <2>2
<1>12. CASE archive[<<h, n>>] = NoTime /\ Tells("archive", n, "bad", NextNetwork(n))
  BY <1>9, <1>10, <1>12 DEF Tells
<1>13. CASE /\ archive[<<h, n>>] # NoTime
            /\ Tells("archive", n, IF hostTime - archive[<<h, n>>] <= MAX_AGE THEN "ok" ELSE "bad",
                     NextNetwork(n))
  <2>1. CASE hostTime - archive[<<h, n>>] <= MAX_AGE
    BY <1>9, <1>10, <1>13, <2>1 DEF Tells
  <2>2. CASE ~(hostTime - archive[<<h, n>>] <= MAX_AGE)
    BY <1>9, <1>10, <1>13, <2>2 DEF Tells
  <2> QED
    BY <2>1, <2>2
<1> QED
  BY <1>4, <1>11, <1>12, <1>13 DEF AskArchive

-----------------------------------------------------------------------------
\* check_headroom.py: a host that has room says so of its newest sample.
LEMMA AskRoomKeeps ==
  ASSUME HostInv, NEW level \in Levels, AskRoom(level)
  PROVE  HostInv'
<1>1. inquiry.check = "headroom" /\ inquiry.step = "first" /\ inquiry # NoCheck
  BY NoCheckIs DEF AskRoom
<1>2. Headroom
  BY <1>1 DEF HostInv, Backups, Concentration
<1>3. UNCHANGED <<hostWorld, hostExit>>
  BY DEF AskRoom
<1>4. PICK h : h = Host
  OBVIOUS
<1>5. h \in CheckedHosts /\ h = CHECKED[inquiry.host] /\ inquiry.host \in Nat
  BY <1>1, <1>4, HostIs
<1>6. hostExit = StillRunning /\ hostExit' = StillRunning
  BY <1>1, <1>3 DEF HostInv, Course
<1>7. ASSUME NEW kind \in {"ok", "warn", "bad"}, inquiry' = NextHost,
             learned' = learned \cup {Fact("room", "all", kind)},
             silences' \in {silences, silences + 1}, silences' # silences => kind # "ok",
             samples' \in [CheckedHosts -> Seq([t : Int, avail : Int])],
             \A g \in CheckedHosts : g # h => samples'[g] = samples[g],
             kind = "ok" => HasRoom(h)'
      PROVE  HostInv'
  <2>1. PICK f \in Facts : f = Fact("room", "all", kind)
    BY <1>1, FactIs DEF OfBackups
  <2>2. f.about = "room" /\ f.kind = kind
    BY <1>1, <2>1, FactIs DEF OfBackups
  <2>3. learned' = learned \cup {f}
    BY <1>7, <2>1
  <2>4. inquiry' \in Inquiries /\ Visited' = 1..inquiry.host /\ inquiry'.check = "headroom"
    BY <1>1, <1>6, <1>7, NextHostIs
  <2>5. HostTypes' /\ Course'
    BY <1>1, <1>3, <1>7, <2>2, <2>3, <2>4, OneMoreIsKnown
  <2>6. CASE SomeKind("bad") \/ SomeKind("warn") \/ kind # "ok"
    <3>1. SomeKind("bad")' \/ SomeKind("warn")'
      BY <1>7, <2>2, <2>3, <2>6 DEF SomeKind
    <3> QED
      BY <1>2, <2>2, <2>3, <2>4, <2>5, <3>1 DEF HostInv, Headroom
  <2>7. CASE ~SomeKind("bad") /\ ~SomeKind("warn") /\ kind = "ok"
    <3>1. ASSUME NEW i \in Visited' PROVE HasRoom(CHECKED[i])'
      <4>1. i \in 1..inquiry.host /\ inquiry.host \in 1..Len(CHECKED) /\ Len(CHECKED) \in Nat
        BY <1>1, <2>4, HostIs
      <4>2. CHECKED[i] \in CheckedHosts
        BY <4>1, HostAssumption DEF CheckedHosts
      <4>3. i \in Visited \/ i = inquiry.host
        BY <1>1, <4>1, VisitedBefore
      <4>4. CASE CHECKED[i] = h
        BY <1>7, <2>7, <4>4
      <4>5. CASE CHECKED[i] # h
        <5>1. HasRoom(CHECKED[i])
          BY <1>2, <1>5, <2>7, <4>3, <4>5 DEF Headroom
        <5>2. samples'[CHECKED[i]] = samples[CHECKED[i]]
          BY <1>7, <4>2, <4>5
        <5> QED
          BY <5>1, <5>2 DEF HasRoom
      <4> QED
        BY <4>4, <4>5
    <3> QED
      BY <1>2, <2>2, <2>3, <2>4, <2>5, <3>1 DEF HostInv, Headroom
  <2> QED
    BY <2>6, <2>7
<1> DEFINE fresh == [t |-> hostTime, avail |-> level]
           all == Append(samples[h], fresh)
           history == IF Len(all) > SAMPLES THEN Tail(all) ELSE all
<1>8. CASE Silent("room", "all", NextHost) /\ UNCHANGED samples
  <2>1. silences' = silences + 1 /\ learned' = learned \cup {Fact("room", "all", "warn")}
        /\ inquiry' = NextHost
    BY <1>8 DEF Silent, Lost
  <2> QED
    BY <1>7, <1>8, <2>1 DEF HostInv, HostTypes
<1>9. CASE /\ samples' = [samples EXCEPT ![h] = history]
           /\ Tells("room", "all", report(history, fresh), NextHost)
  <2>1. fresh \in [t : Int, avail : Int] /\ samples[h] \in Seq([t : Int, avail : Int])
    BY <1>5, HostAssumption DEF HostInv, HostTypes
  <2>2. fresh.avail = level /\ level \in Nat
    BY HostAssumption
  <2> HIDE DEF fresh
  <2>3. all \in Seq([t : Int, avail : Int]) /\ Len(all) = Len(samples[h]) + 1 /\ all[Len(all)] = fresh
    BY <2>1
  <2> HIDE DEF all
  <2>4. Len(all) \in Nat /\ all # <<>>
    BY <2>1, <2>3
  <2>5. history \in Seq([t : Int, avail : Int]) /\ history # <<>> /\ history[Len(history)] = fresh
    <3>1. ASSUME Len(all) > SAMPLES
          PROVE  /\ Tail(all) \in Seq([t : Int, avail : Int]) /\ Tail(all) # <<>>
                 /\ Tail(all)[Len(Tail(all))] = fresh
      <4>1. Len(all) > 1
        BY <2>4, <3>1, HostAssumption
      <4>2. Tail(all) \in Seq([t : Int, avail : Int]) /\ Len(Tail(all)) = Len(all) - 1
            /\ \A i \in 1..(Len(all) - 1) : Tail(all)[i] = all[i + 1]
        BY <2>3, <2>4
      <4>3. Tail(all)[Len(all) - 1] = all[Len(all)]
        BY <2>4, <4>1, <4>2
      <4>4. Tail(all) # <<>>
        <5>1. Len(Tail(all)) # Len(<<>>)
          BY <2>4, <4>1, <4>2
        <5> QED
          BY <5>1
      <4> QED
        BY <2>3, <4>2, <4>3, <4>4
    <3>2. (history = Tail(all) /\ Len(all) > SAMPLES) \/ history = all
      OBVIOUS
    <3> HIDE DEF history
    <3> QED
      BY <2>3, <2>4, <3>1, <3>2
  <2> HIDE DEF history
  <2>6. report(history, fresh) \in {"ok", "warn", "bad"}
        /\ (report(history, fresh) = "ok" => fresh.avail >= FLOOR)
    BY <2>2, HostAssumption DEF report
  <2>7. samples' \in [CheckedHosts -> Seq([t : Int, avail : Int])] /\ samples'[h] = history
        /\ \A g \in CheckedHosts : g # h => samples'[g] = samples[g]
    BY <1>5, <1>9, <2>5 DEF HostInv, HostTypes
  <2>8. report(history, fresh) = "ok" => HasRoom(h)'
    BY <2>5, <2>6, <2>7 DEF HasRoom
  <2>9. PICK kind \in {"ok", "warn", "bad"} : kind = report(history, fresh)
    BY <2>6
  <2> QED
    BY <1>7, <1>9, <2>7, <2>8, <2>9 DEF Tells
<1> QED
  BY <1>4, <1>8, <1>9 DEF AskRoom

-----------------------------------------------------------------------------
\* check_concentration.py: of all the blocks, the largest share is too large if one is.
LEMMA TopIs ==
  ASSUME blocks \in Seq(Finders), Len(blocks) >= MIN_BLOCKS
  PROVE  /\ ~(Cardinality(DOMAIN blocks) < MIN_BLOCKS)
         /\ Top(DOMAIN blocks) >= FAIL <=> TooLarge
<1> DEFINE all == DOMAIN blocks
           By(f) == {i \in all : blocks[i] = f}
           F == {By(f) : f \in Finders}
           top == CHOOSE f \in Finders : \A g \in Finders : Of(all, g) <= Of(all, f)
           n == Len(blocks)
<1>1. n \in Nat \ {0} /\ all = 1..n
  BY HostAssumption
<1>2. IsFiniteSet(all) /\ Cardinality(all) = n
  BY <1>1, FS_Interval
<1>3. blocks[1] \in Finders
  BY <1>1
<1> HIDE DEF all, n
<1>4. \E f \in Finders : \A g \in Finders : Of(all, g) <= Of(all, f)
  <2>1. F # {} /\ F \subseteq SUBSET all
    <3>1. By(blocks[1]) \in F
      BY <1>3
    <3>2. \A f : By(f) \subseteq all
      OBVIOUS
    <3> QED
      BY <3>1, <3>2
  <2>2. \E s \in F : \A t \in F : Cardinality(t) <= Cardinality(s)
    BY <1>2, <2>1, HasLargest
  <2> QED
    BY <2>2 DEF Of
<1>5. top \in Finders /\ \A g \in Finders : Of(all, g) <= Of(all, top)
  BY <1>4
<1> HIDE DEF top
<1>6. \A f : Of(all, f) \in Nat
  BY <1>2, FS_Subset, FS_CardinalityType DEF Of
<1>7. Top(all) = (100 * Of(all, top)) \div n
  BY <1>2 DEF Top, top
<1>8. Top(all) >= FAIL <=> 100 * Of(all, top) >= FAIL * n
  <2>1. 100 * Of(all, top) \in Nat
    BY <1>6
  <2>2. FAIL * n <= 100 * Of(all, top) <=> FAIL <= (100 * Of(all, top)) \div n
    BY <1>1, <2>1, HostAssumption, DivIsGreatest
  <2>3. FAIL * n \in Nat
    BY <1>1, HostAssumption
  <2>4. Top(all) \in Nat
    BY <1>1, <1>7, <2>1, DivIs
  <2> QED
    BY <1>7, <2>1, <2>2, <2>3, <2>4, HostAssumption
<1>10. ~(Cardinality(all) < MIN_BLOCKS)
  BY <1>1, <1>2, HostAssumption DEF n
<1>9. TooLarge <=> 100 * Of(all, top) >= FAIL * n
  <2>1. FAIL * n \in Nat
    BY <1>1, HostAssumption
  <2>2. TooLarge <=> \E f \in Finders : 100 * Of(all, f) >= FAIL * n
    BY DEF TooLarge, all, n
  <2>3. \A f \in Finders : 100 * Of(all, f) <= 100 * Of(all, top)
    BY <1>5, <1>6
  <2>4. \A f : 100 * Of(all, f) \in Nat
    BY <1>6
  <2> QED
    BY <1>5, <2>1, <2>2, <2>3, <2>4
<1> QED
  BY <1>8, <1>9, <1>10 DEF all

LEMMA AskFindersKeeps == HostInv /\ AskFinders => HostInv'
<1> SUFFICES ASSUME HostInv, AskFinders PROVE HostInv'
  OBVIOUS
<1>1. inquiry.check = "concentration" /\ inquiry.step = "first" /\ inquiry # NoCheck
  BY NoCheckIs DEF AskFinders
<1>2. Concentration
  BY <1>1 DEF HostInv, Headroom, Backups
<1>3. UNCHANGED <<hostWorld, samples, hostExit>> /\ blocks' = blocks /\ steady' = steady
  BY DEF AskFinders, hostWorld
<1>4. learned = {}
  BY <1>1, <1>2 DEF Concentration
<1>5. inquiry \in Inquiries
  BY <1>1, HostIs
<1>6. ASSUME NEW about \in OfShares, NEW kind \in {"ok", "warn", "bad"},
             inquiry' = [inquiry EXCEPT !.step = "end"],
             learned' = learned \cup {Fact(about, "all", kind)},
             silences' \in {silences, silences + 1}, silences' # silences => kind # "ok",
             about = "finders" /\ silences' = 0 /\ Len(blocks) >= MIN_BLOCKS
               => (kind = "bad" <=> TooLarge)
      PROVE  HostInv'
  <2>1. PICK f \in Facts : f = Fact(about, "all", kind)
    BY <1>1, FactIs
  <2>2. f.about = about /\ f.kind = kind
    BY <1>1, <2>1, FactIs
  <2>3. learned' = {f} /\ learned' = learned \cup {f}
    BY <1>4, <1>6, <2>1
  <2>4. inquiry' \in Inquiries /\ inquiry'.check = "concentration" /\ inquiry'.step = "end"
    BY <1>1, <1>5, <1>6 DEF Inquiries
  <2>5. HostTypes' /\ Course'
    BY <1>1, <1>3, <1>6, <2>2, <2>3, <2>4, OneMoreIsKnown DEF HostInv, HostTypes
  <2>6. TooLarge' <=> TooLarge
    BY <1>3 DEF TooLarge, Of
  <2>7. Concentration'
    BY <1>3, <1>6, <2>2, <2>3, <2>4, <2>6 DEF Concentration
  <2> QED
    BY <2>5, <2>7 DEF HostInv
<1> DEFINE end == [inquiry EXCEPT !.step = "end"]
<1>7. ASSUME NEW kind \in {"warn", "bad"}, Lost("finders", "all", kind, end) PROVE HostInv'
  <2>1. silences' = silences + 1 /\ learned' = learned \cup {Fact("finders", "all", kind)}
        /\ inquiry' = end
    BY <1>7 DEF Lost
  <2>2. silences' > 0 /\ "finders" \in OfShares
    BY <2>1 DEF HostInv, HostTypes, OfShares
  <2> QED
    BY <1>6, <2>1, <2>2
<1>8. CASE Len(blocks) < MIN_BLOCKS /\ Tells("finders", "all", "warn", end)
  <2>1. ~(Len(blocks) >= MIN_BLOCKS) /\ "finders" \in OfShares
    BY <1>8, HostAssumption DEF HostInv, HostTypes, OfShares
  <2> QED
    BY <1>6, <1>8, <2>1 DEF Tells
<1>9. ASSUME Len(blocks) >= MIN_BLOCKS, NEW read \in SUBSET DOMAIN blocks,
             Tells(IF read = DOMAIN blocks THEN "finders" ELSE "some finders", "all",
                   IF Cardinality(read) < MIN_BLOCKS THEN "warn"
                   ELSE IF Top(read) >= FAIL THEN "bad" ELSE "ok", end)
      PROVE  HostInv'
  <2> DEFINE about == IF read = DOMAIN blocks THEN "finders" ELSE "some finders"
             said == IF Cardinality(read) < MIN_BLOCKS THEN "warn"
                     ELSE IF Top(read) >= FAIL THEN "bad" ELSE "ok"
  <2>1. silences' = silences /\ learned' = learned \cup {Fact(about, "all", said)} /\ inquiry' = end
    BY <1>9 DEF Tells
  <2>2. about \in OfShares /\ said \in {"ok", "warn", "bad"}
    BY DEF OfShares
  <2>3. about = "finders" => (said = "bad" <=> TooLarge)
    <3>1. blocks \in Seq(Finders)
      BY DEF HostInv, HostTypes
    <3> QED
      BY <1>9, <3>1, TopIs
  <2> HIDE DEF about, said
  <2>4. PICK a \in OfShares, kind \in {"ok", "warn", "bad"} : a = about /\ kind = said
    BY <2>2
  <2> QED
    BY <1>6, <2>1, <2>3, <2>4
<1> QED
  BY <1>7, <1>8, <1>9 DEF AskFinders

-----------------------------------------------------------------------------
LEMMA CheckEndsKeeps == HostInv /\ CheckEnds => HostInv'
<1> SUFFICES ASSUME HostInv, CheckEnds PROVE HostInv'
  OBVIOUS
<1>1. inquiry.check # "none" /\ inquiry.step = "end" /\ inquiry # NoCheck /\ inquiry' = NoCheck
  BY NoCheckIs DEF CheckEnds
<1>2. UNCHANGED <<hostWorld, samples, learned, silences>>
  BY DEF CheckEnds
<1>3. hostExit' = IF SomeKind("bad") THEN 1 ELSE IF SomeKind("warn") THEN 2 ELSE 0
  BY DEF CheckEnds, SomeKind
<1>4. hostExit' \in {0, 1, 2} /\ hostExit' # StillRunning
  BY <1>3 DEF StillRunning
<1>5. HostTypes'
  BY <1>1, <1>2, <1>4 DEF HostInv, HostTypes, hostWorld
<1>6. Course'
  BY <1>1, <1>2, <1>3, <1>4 DEF HostInv, Course, SomeKind
<1>7. Visited' = DOMAIN CHECKED /\ Visited = DOMAIN CHECKED
  BY <1>1, <1>4 DEF Visited
<1>8. Backups => Backups'
  <2> SUFFICES ASSUME Backups PROVE Backups'
    OBVIOUS
  <2>1. /\ hostTime' = hostTime /\ timers' = timers /\ lastBackup' = lastBackup
        /\ archive' = archive /\ steady' = steady /\ learned' = learned /\ silences' = silences
    BY <1>2 DEF hostWorld
  <2>2. \A f \in learned : IsTrue(f) => IsTrue(f)'
    BY <2>1 DEF IsTrue, Fresh
  <2>3. \A h : Complete(h) => Complete(h)'
    BY <2>1 DEF Complete, TimersKnown, TimersUnread, Examined, Knows
  <2>4. AtHost'
    BY <1>1 DEF AtHost
  <2>5. inquiry'.check \in {"none", "backups"}
    BY <1>1, NoCheckIs
  <2> QED
    BY <1>7, <2>1, <2>2, <2>3, <2>4, <2>5 DEF Backups
<1>9. Headroom => Headroom'
  BY <1>1, <1>2, <1>7, NoCheckIs DEF Headroom, HasRoom, SomeKind
<1>10. Concentration => Concentration'
  <2>1. TooLarge' <=> TooLarge
    BY <1>2 DEF TooLarge, Of, hostWorld
  <2> QED
    BY <1>1, <1>2, <2>1, NoCheckIs DEF Concentration, hostWorld
<1> QED
  BY <1>5, <1>6, <1>8, <1>9, <1>10 DEF HostInv

LEMMA HostInvStep == HostInv /\ [HostNext]_hostVars => HostInv'
<1> SUFFICES ASSUME HostInv, [HostNext]_hostVars PROVE HostInv'
  OBVIOUS
<1>1. CASE UNCHANGED hostVars
  <2>1. /\ hostTime' = hostTime /\ timers' = timers /\ lastBackup' = lastBackup
        /\ archive' = archive /\ samples' = samples /\ blocks' = blocks /\ inquiry' = inquiry
        /\ learned' = learned /\ hostExit' = hostExit /\ steady' = steady /\ silences' = silences
    BY <1>1 DEF hostVars
  <2>2. HostTypes' /\ Course'
    BY <2>1 DEF HostInv, HostTypes, Course, SomeKind
  <2>3. Visited' = Visited
    BY <2>1 DEF Visited
  <2>4. (\A f : IsTrue(f)' <=> IsTrue(f)) /\ (\A h : Complete(h)' <=> Complete(h))
        /\ (AtHost' <=> AtHost)
    <3>1. \A a, h, n : Knows(a, h, n)' <=> Knows(a, h, n)
      BY <2>1 DEF Knows
    <3>2. Host' = Host
      BY <2>1 DEF Host
    <3>3. \A f : IsTrue(f)' <=> IsTrue(f)
      BY <2>1 DEF IsTrue, Fresh
    <3>4. \A h : Complete(h)' <=> Complete(h)
      BY <2>1, <3>1 DEF Complete, TimersKnown, TimersUnread, Examined
    <3>5. AtHost' <=> AtHost
      BY <2>1 DEF AtHost, TimersKnown, Examined, Knows, Host
    <3> QED
      BY <3>3, <3>4, <3>5
  <2>5. Backups => Backups'
    BY <2>1, <2>3, <2>4 DEF Backups
  <2>6. Headroom => Headroom'
    BY <2>1, <2>3 DEF Headroom, HasRoom, SomeKind
  <2>7. Concentration => Concentration'
    BY <2>1 DEF Concentration, TooLarge, Of
  <2> QED
    BY <2>2, <2>5, <2>6, <2>7 DEF HostInv
<1>2. CASE HostNext
  BY <1>2, CheckStartsKeeps, AskTimersKeeps, AskLastRunKeeps, AskArchiveKeeps, AskRoomKeeps,
     AskFindersKeeps, CheckEndsKeeps, WorldsKeep DEF HostNext
<1> QED
  BY <1>1, <1>2

-----------------------------------------------------------------------------
LEMMA HostInvEarned == HostInv => VerdictIsEarned
<1> SUFFICES ASSUME HostInv PROVE VerdictIsEarned
  OBVIOUS
<1>1. /\ hostExit = 0 => ~SomeKind("bad") /\ ~SomeKind("warn")
      /\ hostExit = 1 => SomeKind("bad")
      /\ hostExit # StillRunning /\ ~SomeKind("bad") /\ ~SomeKind("warn") => hostExit = 0
      /\ hostExit # StillRunning /\ SomeKind("bad") => hostExit = 1
  BY DEF HostInv, HostTypes, Course, StillRunning
<1>2. hostExit = 0 => silences = 0
  BY <1>1 DEF HostInv, HostTypes, Course
<1>3. hostExit # StillRunning => Visited = DOMAIN CHECKED
  BY DEF Visited
<1>4. \A h \in CheckedHosts : \E i \in DOMAIN CHECKED : h = CHECKED[i]
  BY DEF CheckedHosts
<1>5. 0 # StillRunning /\ 1 # StillRunning
  BY DEF StillRunning
<1>6. ASSUME hostExit # StillRunning, steady, "timers" \in About
      PROVE  /\ hostExit = 0 => Restorable
             /\ hostExit = 1 => Faulty
             /\ Restorable /\ silences = 0 => hostExit = 0
             /\ Faulty /\ silences = 0 => hostExit = 1
  <2>1. PICK g \in learned : g.about = "timers"
    BY <1>6 DEF About
  <2>2. Backups
    BY <2>1 DEF HostInv, Headroom, Concentration, OfShares
  <2>3. \A f \in learned : /\ f \in Facts /\ f.about \in OfBackups /\ f.host \in CheckedHosts
                           /\ f.kind \in {"ok", "warn", "bad"} /\ IsTrue(f)
    BY <1>6, <2>2 DEF Backups, HostInv, HostTypes, Facts
  <2>4. \A h \in CheckedHosts : Complete(h)
    BY <1>3, <1>4, <1>6, <2>2 DEF Backups
  <2>5. \A h \in CheckedHosts : \A n \in timers[h] : lastBackup[<<h, n>>] \in {"success", "failed", "never"}
    BY DEF HostInv, HostTypes, Instances
  <2>6. ASSUME hostExit = 0, NEW h \in CheckedHosts
        PROVE  timers[h] # {} /\ \A n \in timers[h] : lastBackup[<<h, n>>] = "success" /\ Fresh(<<h, n>>)
    <3>1. \A f \in learned : f.kind = "ok"
      BY <1>1, <2>3, <2>6 DEF SomeKind
    <3>2. TimersKnown(h) /\ \A n \in timers[h] : Examined(h, n)
      BY <2>4, <3>1 DEF Complete, TimersUnread
    <3>3. timers[h] # {}
      BY <2>3, <3>1, <3>2 DEF TimersKnown, IsTrue
    <3>4. ASSUME NEW n \in timers[h] PROVE lastBackup[<<h, n>>] = "success" /\ Fresh(<<h, n>>)
      <4>1. Knows("run", h, n) /\ Knows("archive", h, n)
        BY <3>2 DEF Examined
      <4>2. PICK f \in learned : f.about = "run" /\ f.host = h /\ f.network = n
        BY <4>1 DEF Knows
      <4>3. PICK e \in learned : e.about = "archive" /\ e.host = h /\ e.network = n
        BY <4>1 DEF Knows
      <4> QED
        BY <2>3, <3>1, <4>2, <4>3 DEF IsTrue
    <3> QED
      BY <3>3, <3>4
  <2>7. ASSUME hostExit = 1 PROVE Faulty
    <3>1. PICK f \in learned : f.kind = "bad"
      BY <1>1, <2>7 DEF SomeKind
    <3> QED
      BY <2>3, <3>1 DEF IsTrue, OfBackups, Faulty
  <2>8. ASSUME Restorable, silences = 0 PROVE hostExit = 0
    <3>1. ASSUME NEW f \in learned PROVE f.kind = "ok"
      <4>1. /\ IsTrue(f) /\ f.kind \in {"ok", "warn", "bad"} /\ f.host \in CheckedHosts
            /\ f.about \in {"timers", "run", "archive"}
        BY <2>3 DEF OfBackups
      <4>2. timers[f.host] # {}
        BY <2>8, <4>1 DEF Restorable
      <4>3. f.network \in timers[f.host] =>
              lastBackup[<<f.host, f.network>>] = "success" /\ Fresh(<<f.host, f.network>>)
        BY <2>8, <4>1 DEF Restorable
      <4> QED
        BY <2>8, <4>1, <4>2, <4>3 DEF IsTrue
    <3> QED
      BY <1>1, <1>6, <3>1 DEF SomeKind
  <2>9. ASSUME Faulty, silences = 0 PROVE hostExit = 1
    <3>1. PICK h \in CheckedHosts : \/ timers[h] = {}
                                     \/ \E n \in timers[h] : lastBackup[<<h, n>>] = "failed" \/ ~Fresh(<<h, n>>)
      BY <2>9 DEF Faulty
    <3>2. TimersKnown(h) /\ (TimersUnread(h) \/ \A n \in timers[h] : Examined(h, n))
      BY <2>4 DEF Complete
    <3>3. CASE timers[h] = {}
      <4>1. PICK f \in learned : f.about = "timers" /\ f.host = h
        BY <3>2 DEF TimersKnown
      <4>2. IsTrue(f) /\ f.kind \in {"ok", "warn", "bad"}
        BY <2>3
      <4>3. f.kind = "bad"
        BY <2>9, <3>3, <4>1, <4>2 DEF IsTrue
      <4> QED
        BY <1>1, <1>6, <4>3 DEF SomeKind
    <3>4. CASE TimersUnread(h)
      <4>1. PICK f \in learned : f.about = "timers" /\ f.host = h /\ f.kind # "ok"
        BY <3>4 DEF TimersUnread
      <4>2. IsTrue(f) /\ f.kind \in {"ok", "warn", "bad"}
        BY <2>3
      <4>3. f.kind = "bad"
        BY <2>9, <4>1, <4>2 DEF IsTrue
      <4> QED
        BY <1>1, <1>6, <4>3 DEF SomeKind
    <3>5. ASSUME \A n \in timers[h] : Examined(h, n),
                 NEW n \in timers[h], lastBackup[<<h, n>>] = "failed" \/ ~Fresh(<<h, n>>)
          PROVE  hostExit = 1
      <4>1. Knows("run", h, n) /\ Knows("archive", h, n)
        BY <3>5 DEF Examined
      <4>2. PICK f \in learned : f.about = "run" /\ f.host = h /\ f.network = n
        BY <4>1 DEF Knows
      <4>3. PICK e \in learned : e.about = "archive" /\ e.host = h /\ e.network = n
        BY <4>1 DEF Knows
      <4>4. f.kind = "bad" \/ e.kind = "bad"
        BY <2>3, <2>9, <3>5, <4>2, <4>3 DEF IsTrue
      <4> QED
        BY <1>1, <1>6, <4>2, <4>3, <4>4 DEF SomeKind
    <3> QED
      BY <3>1, <3>2, <3>3, <3>4, <3>5
  <2> QED
    BY <2>6, <2>7, <2>8, <2>9 DEF Restorable
<1>7. ASSUME hostExit = 0, "room" \in About
      PROVE  \A h \in CheckedHosts : samples[h] # <<>> /\ samples[h][Len(samples[h])].avail >= FLOOR
  <2>1. PICK g \in learned : g.about = "room"
    BY <1>7 DEF About
  <2>2. Headroom
    BY <2>1 DEF HostInv, Backups, Concentration, OfBackups, OfShares
  <2>3. \A i \in DOMAIN CHECKED : HasRoom(CHECKED[i])
    BY <1>1, <1>3, <1>5, <1>7, <2>2 DEF Headroom
  <2> QED
    BY <1>4, <2>3 DEF HasRoom
<1>8. ASSUME hostExit # StillRunning, steady, silences = 0, "finders" \in About,
             Len(blocks) >= MIN_BLOCKS
      PROVE  hostExit = 1 <=> TooLarge
  <2>1. PICK g \in learned : g.about = "finders"
    BY <1>8 DEF About
  <2>2. Concentration
    BY <2>1 DEF HostInv, Backups, Headroom, OfBackups
  <2>3. g.kind = "bad" <=> TooLarge
    BY <1>8, <2>1, <2>2 DEF Concentration
  <2>4. SomeKind("bad") <=> g.kind = "bad"
    BY <2>1, <2>2 DEF Concentration, SomeKind
  <2> QED
    BY <1>1, <1>8, <2>3, <2>4
<1> QED
  BY <1>2, <1>6, <1>7, <1>8 DEF VerdictIsEarned, TooLarge

\* check_backups.py, check_headroom.py and check_concentration.py: whatever goes on
\* while the hosts are asked, and whoever does not answer, a pass is earned and a
\* finding is true.
THEOREM VerdictsAreOfHosts == HostSpec => []VerdictIsEarned
<1> QED
  BY HostInvInit, HostInvStep, HostInvEarned, PTL DEF HostSpec

-----------------------------------------------------------------------------
(* The pool's monitor.                                                     *)

\* The pool itself: nobody is owed anything before a block is credited, nothing is paid
\* without a time of it, and the node is never behind.
MoneyTypes ==
  /\ poolTime \in Nat /\ height \in Int /\ poolHeight \in Int
  /\ bal \in [Miners -> Nat] /\ fees \in Int /\ paid \in Nat /\ confirmed \in Nat
  /\ trusted \in Int /\ immature \in Int
  /\ lastPay \in Int /\ postponed \in Int
  /\ exit \in {NotDone, 0, 1} /\ bad \in BOOLEAN /\ stood \in BOOLEAN /\ unread \in Nat

MoneyIs ==
  /\ poolHeight <= height
  /\ confirmed = 0 => \A m \in Miners : bal[m] = 0
  /\ paid > 0 => lastPay # Never

\* Questions in their order.
After(q) ==
  CASE q = "height" -> {"ports", "payments", "wallet", "end"}
    [] q = "ports" -> {"payments", "wallet", "end"}
    [] q = "payments" -> {"wallet", "end"}
    [] q = "wallet" -> {"end"}

Now == [confirmed |-> confirmed, paid |-> paid, owed |-> Owed(bal), fees |-> fees,
        lastPay |-> lastPay, postponed |-> postponed, height |-> poolHeight]

\* Of a pool that has stood still the API's answer is still true, and what was found so
\* far is what there was to find: nothing bad, or one of the four.
Asked ==
  /\ question \in {"api", "height", "ports", "payments", "wallet", "end"}
  /\ question = "api" => bad = FALSE /\ (exit # NotDone => exit = 1 /\ unread > 0)
  /\ exit = 0 => question = "end" /\ bad = FALSE
  /\ exit = 1 => (question = "end" /\ bad = TRUE) \/ unread > 0
  /\ question # "api" /\ stood => snap = Now

FoundGood ==
  stood /\ bad = FALSE =>
    /\ question \in After("height") /\ unread = 0 => height - poolHeight <= LAG
    /\ question \in After("ports") => Works
    /\ question \in After("payments") => ~PaymentsStopped
    /\ question \in After("wallet") => Solvent

FoundBad ==
  stood /\ bad = TRUE /\ unread = 0 /\ question # "api" =>
    \/ height - poolHeight > LAG
    \/ ~Works
    \/ PaymentsStopped
    \/ ~Solvent

MonitorInv == MoneyTypes /\ MoneyIs /\ Asked /\ FoundGood /\ FoundBad

-----------------------------------------------------------------------------
\* What one is owed is no more than what all are owed.
LEMMA OwedIs ==
  ASSUME NEW b, b \in [Miners -> Nat]
  PROVE  /\ Owed(b) \in Nat
         /\ \A m \in Miners : b[m] <= Owed(b)
         /\ \A S \in SUBSET Miners : SumFunctionOnSet(b, S) \in Nat
<1>1. \A S \in SUBSET Miners : SumFunctionOnSet(b, S) \in Nat
  <2> TAKE S \in SUBSET Miners
  <2>1. IsFiniteSet(S)
    BY MonitorAssumption, FS_Subset
  <2> QED
    BY <2>1, SumOfNaturals
<1>2. ASSUME NEW m \in Miners PROVE b[m] <= Owed(b)
  <2>1. SumFunctionOnSet(b, Miners) = b[m] + SumFunctionOnSet(b, Miners \ {m})
    BY MonitorAssumption, SumIsASum
  <2>2. SumFunctionOnSet(b, Miners \ {m}) \in Nat
    BY <1>1
  <2> QED
    BY <2>1, <2>2 DEF Owed
<1> QED
  BY <1>1, <1>2 DEF Owed

LEMMA MonitorInvInit == MonitorInit => MonitorInv
<1> SUFFICES ASSUME MonitorInit PROVE MonitorInv
  OBVIOUS
<1>1. MoneyTypes
  <2>1. Never \in Int /\ NotDone \in Int
    BY DEF Never, NotDone
  <2>2. bad \in BOOLEAN /\ stood \in BOOLEAN
    BY Zenon DEF MonitorInit
  <2> QED
    BY <2>1, <2>2 DEF MonitorInit, MoneyTypes
<1>2. MoneyIs
  BY DEF MonitorInit, MoneyIs
<1>3. Asked
  BY DEF MonitorInit, Asked, NotDone
<1>4. FoundGood /\ FoundBad
  BY DEF MonitorInit, FoundGood, FoundBad, After
<1> QED
  BY <1>1, <1>2, <1>3, <1>4 DEF MonitorInv

\* While the pool moves the check stands, and nothing is claimed of what it has seen.
LEMMA MovesKeeps ==
  ASSUME MonitorInv, Moves
  PROVE  Asked' /\ FoundGood' /\ FoundBad' /\ exit' \in {NotDone, 0, 1} /\ bad' \in BOOLEAN
         /\ stood' \in BOOLEAN /\ unread' \in Nat
<1>1. stood' = FALSE /\ question' = question /\ bad' = bad /\ exit' = exit /\ unread' = unread
      /\ exit = NotDone
  BY DEF Moves, visit
<1>2. Asked'
  BY <1>1 DEF MonitorInv, MoneyTypes, Asked, NotDone
<1>3. FoundGood' /\ FoundBad'
  BY <1>1 DEF FoundGood, FoundBad
<1> QED
  BY <1>1, <1>2, <1>3 DEF MonitorInv, MoneyTypes

LEMMA PoolKeepsMoney ==
  ASSUME MonitorInv,
         Found \/ (\E m \in Miners : Credited(m)) \/ Matured \/ PayRun \/ PoolTick \/ Fault
  PROVE  MonitorInv'
<1>1. Moves
  BY DEF Found, Credited, Matured, PayRun, PoolTick, Fault
<1>2. Asked' /\ FoundGood' /\ FoundBad' /\ exit' \in {NotDone, 0, 1} /\ bad' \in BOOLEAN
      /\ stood' \in BOOLEAN /\ unread' \in Nat
  BY <1>1, MovesKeeps
<1> SUFFICES
      /\ poolTime' \in Nat /\ height' \in Int /\ poolHeight' \in Int
      /\ bal' \in [Miners -> Nat] /\ fees' \in Int /\ paid' \in Nat /\ confirmed' \in Nat
      /\ trusted' \in Int /\ immature' \in Int /\ lastPay' \in Int /\ postponed' \in Int
      /\ MoneyIs'
  BY <1>2 DEF MonitorInv, MoneyTypes
<1> USE MonitorAssumption
<1>3. CASE Found
  BY <1>3 DEF Found, MonitorInv, MoneyTypes, MoneyIs
<1>4. ASSUME NEW m \in Miners, Credited(m) PROVE bal' \in [Miners -> Nat] /\ confirmed' > 0
  BY <1>4 DEF Credited, MonitorInv, MoneyTypes
<1>5. CASE \E m \in Miners : Credited(m)
  BY <1>4, <1>5 DEF Credited, MonitorInv, MoneyTypes, MoneyIs
<1>6. CASE Matured
  BY <1>6 DEF Matured, MonitorInv, MoneyTypes, MoneyIs
<1>7. CASE PayRun
  <2> DEFINE sum == SumFunctionOnSet(bal, Due)
  <2>1. sum \in Nat
    BY OwedIs DEF Due, MonitorInv, MoneyTypes
  <2> HIDE DEF sum
  <2>2. CASE bal' = bal /\ paid' = paid /\ trusted' = trusted /\ lastPay' = lastPay
             /\ postponed' \in {postponed, poolTime}
    BY <1>7, <2>2 DEF PayRun, MonitorInv, MoneyTypes, MoneyIs
  <2>3. CASE /\ Due # {} /\ bal' = [m \in Miners |-> IF m \in Due THEN 0 ELSE bal[m]]
             /\ paid' = paid + sum /\ trusted' = trusted - sum
             /\ lastPay' = poolTime /\ postponed' = Never
    <3>1. bal' \in [Miners -> Nat]
      BY <2>3 DEF MonitorInv, MoneyTypes
    <3>2. confirmed' = confirmed /\ height' = height /\ poolHeight' = poolHeight
          /\ poolTime' = poolTime /\ fees' = fees /\ immature' = immature
      BY <1>7 DEF PayRun
    <3>3. confirmed' = 0 => \A m \in Miners : bal'[m] = 0
      BY <2>3, <3>2 DEF MonitorInv, MoneyIs, MoneyTypes
    <3>4. lastPay' # Never /\ lastPay' \in Int /\ postponed' \in Int
      BY <2>3 DEF MonitorInv, MoneyTypes, Never
    <3> QED
      BY <2>1, <2>3, <3>1, <3>2, <3>3, <3>4 DEF MonitorInv, MoneyTypes, MoneyIs
  <2> QED
    BY <1>7, <2>2, <2>3 DEF PayRun, sum
<1>8. CASE PoolTick
  BY <1>8 DEF PoolTick, money, MonitorInv, MoneyTypes, MoneyIs
<1>9. CASE Fault
  <2>1. height' \in {height, height + LAG + 1} /\ trusted' \in {trusted, 0}
    BY <1>9 DEF Fault
  <2>2. /\ poolTime' = poolTime /\ poolHeight' = poolHeight /\ bal' = bal /\ fees' = fees
        /\ paid' = paid /\ confirmed' = confirmed /\ immature' = immature
        /\ lastPay' = lastPay /\ postponed' = postponed
    BY <1>9 DEF Fault
  <2> QED
    BY <2>1, <2>2 DEF MonitorInv, MoneyTypes, MoneyIs
<1> QED
  BY <1>3, <1>5, <1>6, <1>7, <1>8, <1>9

\* A question leaves the pool as it is.
LEMMA AskingKeepsMoney ==
  ASSUME MonitorInv, UNCHANGED pool, exit' \in {NotDone, 0, 1}, bad' \in BOOLEAN,
         stood' \in BOOLEAN, unread' \in Nat
  PROVE  /\ MoneyTypes' /\ MoneyIs'
         /\ Now' = Now /\ (Solvent <=> Solvent') /\ (Works <=> Works')
         /\ height' = height /\ poolHeight' = poolHeight /\ poolTime' = poolTime
<1>1. /\ poolTime' = poolTime /\ height' = height /\ poolHeight' = poolHeight /\ bal' = bal
      /\ fees' = fees /\ paid' = paid /\ confirmed' = confirmed /\ trusted' = trusted
      /\ immature' = immature /\ lastPay' = lastPay /\ postponed' = postponed /\ ports' = ports
  BY DEF pool, money
<1>2. MoneyTypes' /\ MoneyIs'
  BY <1>1 DEF MonitorInv, MoneyTypes, MoneyIs
<1> QED
  BY <1>1, <1>2 DEF Now, Solvent, Works, Owed

LEMMA AsksKeeps ==
  ASSUME MonitorInv,
         AsksApi \/ AsksHeight \/ AsksPorts \/ AsksPayments \/ AsksWallet \/ PoolVerdict
  PROVE  MonitorInv'
<1>1. UNCHANGED pool /\ exit' \in {NotDone, 0, 1} /\ bad' \in BOOLEAN /\ stood' \in BOOLEAN
      /\ unread' \in Nat
  <2>1. UNCHANGED pool
    BY DEF AsksApi, AsksHeight, AsksPorts, AsksPayments, AsksWallet, PoolVerdict
  <2>2. bad' \in BOOLEAN
    BY Zenon DEF AsksApi, AsksHeight, AsksPorts, AsksPayments, AsksWallet, PoolVerdict, MonitorInv,
       MoneyTypes
  <2>3. stood' \in BOOLEAN
    BY DEF AsksApi, AsksHeight, AsksPorts, AsksPayments, AsksWallet, PoolVerdict, MonitorInv,
       MoneyTypes
  <2>4. exit' \in {NotDone, 0, 1}
    BY DEF AsksApi, AsksHeight, AsksPorts, AsksPayments, AsksWallet, PoolVerdict, MonitorInv,
       MoneyTypes
  <2>5. unread' \in Nat
    BY DEF AsksApi, AsksHeight, AsksPorts, AsksPayments, AsksWallet, PoolVerdict, MonitorInv,
       MoneyTypes
  <2> QED
    BY <2>1, <2>2, <2>3, <2>4, <2>5
<1>2. /\ MoneyTypes' /\ MoneyIs'
      /\ Now' = Now /\ (Solvent <=> Solvent') /\ (Works <=> Works')
      /\ height' = height /\ poolHeight' = poolHeight /\ poolTime' = poolTime
  BY <1>1, AskingKeepsMoney
<1> SUFFICES Asked' /\ FoundGood' /\ FoundBad'
  BY <1>2 DEF MonitorInv
<1>3. snap' = snap => (PaymentsStopped <=> PaymentsStopped')
  BY <1>2 DEF PaymentsStopped, Late
<1>4. CASE AsksApi
  <2>1. CASE snap' = Now /\ question' = "height" /\ stood' = TRUE /\ exit' = exit
             /\ unread' = unread /\ bad' = bad
    <3>1. Asked'
      BY <1>2, <1>4, <2>1 DEF AsksApi, Asked, MonitorInv, NotDone
    <3>2. bad' = FALSE
      BY <1>4, <2>1 DEF AsksApi, Asked, MonitorInv
    <3>3. FoundGood' /\ FoundBad'
      BY <2>1, <3>2 DEF FoundGood, FoundBad, After
    <3> QED
      BY <3>1, <3>3
  <2>2. CASE unread' = unread + 1 /\ exit' = 1 /\ snap' = snap /\ question' = question
             /\ stood' = stood /\ bad' = bad
    <3>1. question' = "api" /\ bad' = FALSE /\ unread' > 0
      BY <1>4, <2>2 DEF AsksApi, Asked, MonitorInv, MoneyTypes
    <3>2. Asked'
      BY <2>2, <3>1 DEF Asked, NotDone
    <3>3. FoundGood' /\ FoundBad'
      BY <3>1 DEF FoundGood, FoundBad, After
    <3> QED
      BY <3>2, <3>3
  <2> QED
    BY <1>4, <2>1, <2>2 DEF AsksApi, Now
<1>5. CASE AsksHeight
  <2>1. question = "height" /\ question' = "ports" /\ snap' = snap /\ exit' = exit /\ stood' = stood
    BY <1>5 DEF AsksHeight
  <2>2. exit = NotDone \/ unread > 0
    BY <2>1 DEF Asked, MonitorInv, MoneyTypes
  <2>3. unread' >= unread /\ (bad = TRUE => bad' = TRUE)
    BY <1>5 DEF AsksHeight, MonitorInv, MoneyTypes
  <2>4. Asked'
    BY <1>2, <2>1, <2>2, <2>3 DEF Asked, MonitorInv, MoneyTypes, NotDone
  <2>5. stood => snap.height = poolHeight
    BY <2>1 DEF MonitorInv, Asked, Now
  <2>6. ASSUME stood, unread' = 0 PROVE bad' = TRUE <=> bad = TRUE \/ height - poolHeight > LAG
    <3>1. unread' = unread /\ unread = 0
      BY <1>5, <2>6 DEF AsksHeight, MonitorInv, MoneyTypes
    <3>2. bad' = (bad \/ height - snap.height > LAG \/ snap.height - height > LAG)
      BY <1>5, <3>1 DEF AsksHeight, MonitorInv, MoneyTypes
    <3>3. ~(poolHeight - height > LAG)
      BY MonitorAssumption DEF MonitorInv, MoneyTypes, MoneyIs
    <3> QED
      BY <2>5, <2>6, <3>2, <3>3, Zenon
  <2>a. unread \in Nat /\ unread' \in Nat /\ bad \in BOOLEAN /\ bad' \in BOOLEAN
    BY <1>1 DEF MonitorInv, MoneyTypes
  <2>7. FoundGood'
    <3> SUFFICES ASSUME stood, bad' = FALSE, unread' = 0 PROVE height - poolHeight <= LAG
      BY <1>2, <2>1 DEF FoundGood, After
    <3>1. ~(height - poolHeight > LAG)
      BY <2>6
    <3> QED
      BY <3>1, MonitorAssumption DEF MonitorInv, MoneyTypes
  <2>8. FoundBad'
    <3> SUFFICES ASSUME stood, bad' = TRUE, unread' = 0
                 PROVE  height - poolHeight > LAG \/ ~Works \/ PaymentsStopped \/ ~Solvent
      BY <1>2, <1>3, <2>1 DEF FoundBad
    <3>1. unread = 0
      BY <2>3, <2>a
    <3>2. bad = TRUE \/ height - poolHeight > LAG
      BY <2>6
    <3> QED
      BY <2>1, <3>1, <3>2 DEF FoundBad, MonitorInv
  <2> QED
    BY <2>4, <2>7, <2>8
<1>6. CASE AsksPorts
  <2>1. question = "ports" /\ question' = "payments" /\ snap' = snap /\ exit' = exit
        /\ stood' = stood /\ unread' = unread
    BY <1>6 DEF AsksPorts
  <2>2. bad' = (bad \/ ~Works)
    BY <1>6, Zenon DEF AsksPorts, Works
  <2>3. bad' = TRUE <=> bad = TRUE \/ ~Works
    BY <2>2, Zenon DEF MonitorInv, MoneyTypes
  <2>4. Asked'
    BY <1>2, <2>1, <2>3 DEF Asked, MonitorInv, MoneyTypes, NotDone
  <2>5. FoundGood'
    BY <1>1, <1>2, <2>1, <2>3 DEF FoundGood, After, MonitorInv, MoneyTypes
  <2>6. FoundBad'
    BY <1>1, <1>2, <1>3, <2>1, <2>3 DEF FoundBad, MonitorInv, MoneyTypes
  <2> QED
    BY <2>4, <2>5, <2>6
<1>7. CASE AsksPayments
  <2>1. question = "payments" /\ question' = "wallet" /\ snap' = snap /\ exit' = exit
        /\ stood' = stood /\ unread' = unread
    BY <1>7 DEF AsksPayments
  <2>2. bad' = (bad \/ PaymentsStopped)
    BY <1>7, Zenon DEF AsksPayments
  <2>3. bad' = TRUE <=> bad = TRUE \/ PaymentsStopped
    BY <2>2, Zenon DEF MonitorInv, MoneyTypes
  <2>4. Asked'
    BY <1>2, <2>1, <2>3 DEF Asked, MonitorInv, MoneyTypes, NotDone
  <2>5. FoundGood'
    BY <1>1, <1>2, <1>3, <2>1, <2>3 DEF FoundGood, After, MonitorInv, MoneyTypes
  <2>6. FoundBad'
    BY <1>1, <1>2, <1>3, <2>1, <2>3 DEF FoundBad, MonitorInv, MoneyTypes
  <2> QED
    BY <2>4, <2>5, <2>6
<1>8. CASE AsksWallet
  <2>1. question = "wallet" /\ question' = "end" /\ snap' = snap /\ exit' = exit
        /\ stood' = stood /\ unread' >= unread
    BY <1>8 DEF AsksWallet, MonitorInv, MoneyTypes
  <2>2. stood => snap.owed = Owed(bal) /\ snap.fees = fees
    BY <2>1 DEF MonitorInv, Asked, Now
  <2>3. trusted + immature < Owed(bal) + fees <=> ~Solvent
    BY OwedIs DEF Solvent, MonitorInv, MoneyTypes
  <2>4. CASE bad' = (bad \/ trusted + immature < snap.owed + snap.fees) /\ unread' = unread
    <3>1. stood => bad' = (bad \/ ~Solvent)
      BY <2>2, <2>3, <2>4, Zenon
    <3>2. stood => (bad' = TRUE <=> bad = TRUE \/ ~Solvent)
      BY <3>1, Zenon DEF MonitorInv, MoneyTypes
    <3>3. bad = TRUE => bad' = TRUE
      BY <2>4
    <3>4. Asked'
      BY <1>2, <2>1, <2>4, <3>3 DEF Asked, MonitorInv, MoneyTypes, NotDone
    <3>5. FoundGood'
      BY <1>1, <1>2, <1>3, <2>1, <2>4, <3>2 DEF FoundGood, After, MonitorInv, MoneyTypes
    <3>6. FoundBad'
      BY <1>1, <1>2, <1>3, <2>1, <2>4, <3>2 DEF FoundBad, MonitorInv, MoneyTypes
    <3> QED
      BY <3>4, <3>5, <3>6
  <2>5. CASE unread' = unread + 1 /\ bad' = TRUE
    <3>1. Asked'
      BY <1>2, <2>1, <2>5 DEF Asked, MonitorInv, MoneyTypes, NotDone
    <3>2. FoundGood' /\ FoundBad'
      BY <2>5 DEF FoundGood, FoundBad, MonitorInv, MoneyTypes
    <3> QED
      BY <3>1, <3>2
  <2> QED
    BY <1>8, <2>4, <2>5 DEF AsksWallet
<1>9. CASE PoolVerdict
  <2>1. question = "end" /\ exit = NotDone /\ question' = question /\ snap' = snap /\ bad' = bad
        /\ stood' = stood /\ unread' = unread /\ exit' = IF bad THEN 1 ELSE 0
    BY <1>9 DEF PoolVerdict
  <2>2. Asked'
    BY <1>2, <2>1 DEF Asked, MonitorInv, MoneyTypes, NotDone
  <2>3. FoundGood' /\ FoundBad'
    BY <1>2, <1>3, <2>1 DEF FoundGood, FoundBad, MonitorInv
  <2> QED
    BY <2>2, <2>3
<1> QED
  BY <1>4, <1>5, <1>6, <1>7, <1>8, <1>9

LEMMA MonitorInvStep == MonitorInv /\ [MonitorNext]_monitorVars => MonitorInv'
<1> SUFFICES ASSUME MonitorInv, [MonitorNext]_monitorVars PROVE MonitorInv'
  OBVIOUS
<1>1. CASE UNCHANGED monitorVars
  <2>1. UNCHANGED pool /\ question' = question /\ snap' = snap /\ bad' = bad /\ exit' = exit
        /\ stood' = stood /\ unread' = unread
    BY <1>1 DEF monitorVars, pool, money
  <2>2. /\ MoneyTypes' /\ MoneyIs'
        /\ Now' = Now /\ (Solvent <=> Solvent') /\ (Works <=> Works')
        /\ height' = height /\ poolHeight' = poolHeight /\ poolTime' = poolTime
    BY <2>1, AskingKeepsMoney DEF MonitorInv, MoneyTypes
  <2>3. PaymentsStopped <=> PaymentsStopped'
    BY <2>1, <2>2 DEF PaymentsStopped, Late
  <2> QED
    BY <2>1, <2>2, <2>3 DEF MonitorInv, Asked, FoundGood, FoundBad
<1>2. CASE MonitorNext
  BY <1>2, AsksKeeps, PoolKeepsMoney DEF MonitorNext
<1> QED
  BY <1>1, <1>2

LEMMA MonitorInvFair == MonitorInv => MonitorIsFair
<1> SUFFICES ASSUME MonitorInv PROVE MonitorIsFair
  OBVIOUS
<1> DEFINE stopped == \/ confirmed > 0 /\ paid = 0
                      \/ /\ paid > 0 /\ Owed(bal) >= MINIMUM
                         /\ poolTime - lastPay > RUNS * INTERVAL
                         /\ postponed = Never \/ poolTime - postponed > RUNS * INTERVAL
<1>1. ASSUME snap = Now PROVE PaymentsStopped <=> stopped
  <2>1. /\ snap.confirmed = confirmed /\ snap.paid = paid /\ snap.owed = Owed(bal)
        /\ snap.lastPay = lastPay /\ snap.postponed = postponed
    BY <1>1 DEF Now
  <2> QED
    BY <2>1, Zenon DEF PaymentsStopped, Late
<1>2. ASSUME exit = 0, stood
      PROVE  /\ Solvent /\ Works
             /\ unread = 0 => height - poolHeight <= LAG
             /\ confirmed > 0 => paid > 0
             /\ Due # {} => Recent(lastPay) \/ Recent(postponed)
  <2>1. question = "end" /\ bad = FALSE /\ snap = Now
    BY <1>2 DEF MonitorInv, Asked
  <2>2. Solvent /\ Works /\ ~PaymentsStopped /\ (unread = 0 => height - poolHeight <= LAG)
    BY <1>2, <2>1 DEF MonitorInv, FoundGood, After
  <2>3. ~stopped
    BY <1>1, <2>1, <2>2
  <2>4. confirmed > 0 => paid > 0
    BY <2>3 DEF MonitorInv, MoneyTypes
  <2>5. ASSUME Due # {} PROVE Recent(lastPay) \/ Recent(postponed)
    <3>1. PICK m \in Miners : bal[m] >= MINIMUM
      BY <2>5 DEF Due
    <3>2. bal[m] \in Nat /\ bal[m] <= Owed(bal) /\ Owed(bal) \in Nat
      BY OwedIs DEF MonitorInv, MoneyTypes
    <3>3. Owed(bal) >= MINIMUM /\ bal[m] # 0
      BY <3>1, <3>2, MonitorAssumption
    <3>4. confirmed > 0
      BY <3>3 DEF MonitorInv, MoneyTypes, MoneyIs
    <3>5. paid > 0 /\ lastPay # Never
      BY <2>4, <3>4 DEF MonitorInv, MoneyIs
    <3>6. ~(poolTime - lastPay > RUNS * INTERVAL)
          \/ ~(postponed = Never \/ poolTime - postponed > RUNS * INTERVAL)
      BY <2>3, <3>3, <3>5
    <3> QED
      BY <3>5, <3>6, MonitorAssumption DEF Recent, MonitorInv, MoneyTypes
  <2> QED
    BY <2>2, <2>4, <2>5
<1>3. ASSUME exit = 1, stood, unread = 0, Solvent, Works, height - poolHeight <= LAG,
             confirmed > 0 => paid > 0, Owed(bal) < MINIMUM \/ Recent(postponed)
      PROVE  FALSE
  <2>1. question = "end" /\ bad = TRUE /\ snap = Now
    BY <1>3 DEF MonitorInv, Asked, MoneyTypes
  <2>2. PaymentsStopped
    BY <1>3, <2>1, MonitorAssumption DEF MonitorInv, FoundBad, MoneyTypes
  <2>3. stopped
    BY <1>1, <2>1, <2>2
  <2>4. ~(Owed(bal) < MINIMUM)
    BY <1>3, <2>3, OwedIs, MonitorAssumption DEF MonitorInv, MoneyTypes
  <2>5. Recent(postponed)
    BY <1>3, <2>4
  <2> QED
    BY <1>3, <2>3, <2>5, MonitorAssumption DEF Recent, MonitorInv, MoneyTypes
<1> QED
  BY <1>2, <1>3 DEF MonitorIsFair

\* check_pool.py's exit codes: whatever the pool does and whichever answer does not come,
\* a verdict on a pool that stood still is a true one.
THEOREM MonitorsAreFair == MonitorSpec => []MonitorIsFair
<1> QED
  BY MonitorInvInit, MonitorInvStep, MonitorInvFair, PTL DEF MonitorSpec

-----------------------------------------------------------------------------
(* All of them together.                                                   *)

\* peer_watch.py, release_watch.py, unit_alert.py: whatever the three of them and the
\* other watchers do side by side, no alarm is early, none is withheld that was not said
\* where the run that found it speaks, and none is kept quiet beyond its hour.
THEOREM AlarmsStayEarned == WatchersSpec => []AlarmsAreEarned
BY AlarmsAreOfAbsence, SilenceIsTold, QuietIsWithinTheHour, PTL
   DEF WatchersSpec, AlarmsAreEarned

\* ops.py, check_consensus_floor.py, daily_report.py: what is shown, passed or reported
\* is as it was, of any hosts, releases and machines.
THEOREM VerdictsStayEarned == WatchersSpec => []VerdictsAreEarned
BY PanelTellsTheTruth, FollowersAlwaysAgree, MorningsAreHonest, PTL
   DEF WatchersSpec, VerdictsAreEarned

\* wamnotify.py, login_watch.py, check_backups.py, check_headroom.py,
\* check_concentration.py, check_pool.py: whoever is told of one thing again is told so
\* because what was sent was not remembered, a pass is earned and a finding is true.
THEOREM ChecksStayFair == WatchersSpec => []ChecksAreFair
BY AlarmsAreToldAgainForLapses, VerdictsAreOfHosts, MonitorsAreFair, PTL
   DEF WatchersSpec, ChecksAreFair
=============================================================================
