----------------------------- MODULE PeerWatch -----------------------------
(***************************************************************************)
(* scripts/peer_watch.py: every five minutes, which of the other seeds are *)
(* among the peers of this node?  It writes what it believes before it     *)
(* says it, the write may be refused, and it may die in between.           *)
(***************************************************************************)
EXTENDS Integers, FiniteSets

CONSTANTS Seeds, MISSES_BEFORE_ALARM, MaxLooks, MaxPeerFaults

VARIABLES believed,   \* the state file
          look,       \* the run under way
          missing,    \* seed -> runs in a row that did not see it
          toldGone,   \* seeds last said to be gone, and not seen since
          forgot,     \* a run has left no memory
          looks, peerFaults

peerVars == <<believed, look, missing, toldGone, forgot, looks, peerFaults>>

NoBeliefs == <<>>
NotLooking == [pc |-> "off"]
Unheard == [s \in Seeds |-> [misses |-> 0, alarmed |-> FALSE]]

-----------------------------------------------------------------------------
\* A mutant: the alarm is not remembered.
Looked_Forgets(rec, there) ==
  [misses |-> IF there THEN 0 ELSE rec.misses + 1, alarmed |-> FALSE]

Looked(rec, there) ==
  IF there THEN [misses |-> 0, alarmed |-> FALSE]
  ELSE [misses |-> rec.misses + 1,
        alarmed |-> rec.alarmed \/ rec.misses + 1 >= MISSES_BEFORE_ALARM]

Says(seed, rec, there) ==
  IF there /\ rec.alarmed THEN {<<"RECOVERED", seed>>}
  ELSE IF ~there /\ ~rec.alarmed /\ rec.misses + 1 >= MISSES_BEFORE_ALARM
       THEN {<<"ALARM", seed>>} ELSE {}

\* getpeerinfo is answered, by nobody or by some of the seeds.  A node that
\* does not answer ends the run there, and its file is not touched.
visible_peers(seen) ==
  /\ look = NotLooking /\ looks < MaxLooks
  /\ LET rec == IF believed = NoBeliefs THEN Unheard ELSE believed
     IN  look' = [pc |-> "save", next |-> [s \in Seeds |-> Looked(rec[s], s \in seen)],
                  out |-> IF believed = NoBeliefs THEN {}
                          ELSE UNION {Says(s, rec[s], s \in seen) : s \in Seeds}]
  /\ looks' = looks + 1
  /\ missing' = [s \in Seeds |-> IF s \in seen THEN 0 ELSE missing[s] + 1]
  /\ toldGone' = toldGone \ seen
  /\ UNCHANGED <<believed, forgot, peerFaults>>

\* A file that cannot be written is printed and no more.
SaveBeliefs ==
  /\ look.pc = "save"
  /\ \/ believed' = look.next /\ UNCHANGED <<forgot, peerFaults>>
     \/ /\ peerFaults < MaxPeerFaults /\ peerFaults' = peerFaults + 1
        /\ forgot' = TRUE /\ UNCHANGED believed
  /\ look' = IF look.out = {} THEN NotLooking ELSE [pc |-> "say", out |-> look.out]
  /\ UNCHANGED <<missing, toldGone, looks>>

\* The lines go out one after the other.
SayLine ==
  /\ look.pc = "say"
  /\ \E line \in look.out :
       /\ look' = IF look.out = {line} THEN NotLooking ELSE [look EXCEPT !.out = @ \ {line}]
       /\ toldGone' = IF line[1] = "ALARM" THEN toldGone \cup {line[2]} ELSE toldGone
  /\ UNCHANGED <<believed, missing, forgot, looks, peerFaults>>

LookDies ==
  /\ look # NotLooking /\ look' = NotLooking
  /\ forgot' = (forgot \/ look.pc = "save")
  /\ peerFaults < MaxPeerFaults /\ peerFaults' = peerFaults + 1
  /\ UNCHANGED <<believed, missing, toldGone, looks>>

PeerInit ==
  /\ believed = NoBeliefs /\ look = NotLooking
  /\ missing = [s \in Seeds |-> 0] /\ toldGone = {} /\ forgot = FALSE
  /\ looks = 0 /\ peerFaults = 0

PeerNext == \/ \E seen \in SUBSET Seeds : visible_peers(seen)
            \/ SaveBeliefs \/ SayLine \/ LookDies

PeerSpec == PeerInit /\ [][PeerNext]_peerVars

-----------------------------------------------------------------------------
\* Nobody is woken for a restart, nor twice for one absence: a seed said to be
\* gone was missed as often as it takes, and was seen since it was last said to
\* be, unless a run between died before its write, or the disk refused it.
AlarmIsEarned ==
  look.pc = "say" =>
    \A s \in Seeds : <<"ALARM", s>> \in look.out =>
      forgot \/ (missing[s] >= MISSES_BEFORE_ALARM /\ s \notin toldGone)
=============================================================================
