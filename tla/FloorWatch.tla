----------------------------- MODULE FloorWatch -----------------------------
(***************************************************************************)
(* The release that last changed a consensus rule, found from the values   *)
(* at every tag (scripts/consensus_floor.py), and who on the network runs  *)
(* something older (scripts/check_peer_versions.py).  A tag is its place   *)
(* among the tags, and 0 a version that nobody could read.                 *)
(***************************************************************************)
EXTENDS Integers, Sequences, FiniteSets

CONSTANTS Unassigned,            \* written nowhere
          Fields,                \* assigned through `consensus.` or written in wam-params.h
          NOT_A_VALIDITY_RULE,   \* a set of fields
          ASSIGNED_NOT_CHANGED,  \* tag -> set of fields
          Values,                \* of each field; 0 is what it is when nobody assigns it
          Peers, Ours,           \* addresses
          MaxTags, MaxJoined     \* bounds

VARIABLES tags,       \* what each tag holds: its values, or files that are not there
          peers,      \* connections, in the order the node lists them: [ip, version]
          journal,    \* versions that introduced themselves within the window
          polling,    \* the run of check_peer_versions
          outcome,    \* its exit code, and what it says beside it
          joined      \* connections so far

floorVars == <<tags, peers, journal, polling, outcome, joined>>

Unreadable == <<>>
Unjudged == [code |-> 2]
NotWatching == [pc |-> "off"]
Tags == DOMAIN tags

\* What a node of a tag accepts.
Decides(t) == [f \in Fields \ NOT_A_VALIDITY_RULE |->
                 IF tags[t][f] = Unassigned THEN 0 ELSE tags[t][f]]

-----------------------------------------------------------------------------
\* Every value that is written at a tag, less those that decide nothing there.
fingerprint(t) ==
  {<<f, tags[t][f]>> : f \in {g \in Fields : /\ tags[t][g] # Unassigned
                                             /\ g \notin NOT_A_VALIDITY_RULE
                                             /\ t \in DOMAIN ASSIGNED_NOT_CHANGED =>
                                                  g \notin ASSIGNED_NOT_CHANGED[t]}}

Usable == {t \in Tags : tags[t] # Unreadable}
Before(t) == CHOOSE u \in Usable : u < t /\ \A v \in Usable : v < t => v <= u
First == CHOOSE t \in Usable : \A u \in Usable : t <= u
RuleChanges == {t \in Usable \ {First} : fingerprint(t) # fingerprint(Before(t))}

\* A mutant: the tag before the newest change.
floor_Early == IF Usable = {} THEN 0
               ELSE IF RuleChanges = {} THEN First
               ELSE Before(CHOOSE t \in RuleChanges : \A u \in RuleChanges : u <= t)
\* The newest tag at which something changed; 0 when there is none to read.
floor == IF Usable = {} THEN 0
         ELSE IF RuleChanges = {} THEN First
         ELSE CHOOSE t \in RuleChanges : \A u \in RuleChanges : u <= t

\* --compare-remote, which install.sh asks: 0 the same, 2 not, 1 unreadable.
compare_remote(a, b) ==
  IF tags[a] = Unreadable \/ tags[b] = Unreadable THEN 1
  ELSE IF fingerprint(a) = fingerprint(b) THEN 0 ELSE 2

\* A release.  A field that is exempt at a tag is assigned there for the first
\* time, and assigned what it was.
\* (What matters to a peer is which tags there are when it is judged.)
Tag ==
  /\ Len(tags) < MaxTags /\ joined = 0 /\ polling = NotWatching
  /\ \E values \in {vs \in [Fields -> UNION {Values[f] : f \in Fields}] :
                      \A f \in Fields : vs[f] \in Values[f]} \cup {Unreadable} :
       /\ values # Unreadable =>
            \A t \in DOMAIN ASSIGNED_NOT_CHANGED : \A f \in ASSIGNED_NOT_CHANGED[t] :
              /\ Len(tags) + 1 < t => values[f] = Unassigned
              /\ Len(tags) + 1 = t => values[f] = 0
       /\ tags' = Append(tags, values)
  /\ UNCHANGED <<peers, journal, polling, outcome, joined>>

-----------------------------------------------------------------------------
\* The network changes before it is asked about.  A node that says nothing of its
\* version is "unknown", and older than all.
Connect(ip, version) ==
  /\ polling = NotWatching /\ outcome = Unjudged
  /\ joined < MaxJoined /\ joined' = joined + 1 /\ version \in Tags \cup {0}
  /\ peers' = Append(peers, [ip |-> ip, version |-> version])
  /\ journal' = journal \cup {version}
  /\ UNCHANGED <<tags, polling, outcome>>

Leave == /\ polling = NotWatching /\ outcome = Unjudged /\ peers # <<>> /\ peers' = Tail(peers)
         /\ UNCHANGED <<tags, journal, polling, outcome, joined>>

\* getpeerinfo, through wamssh.run: a host that cannot be reached, a node that
\* does not answer and an answer that is not JSON are no answer.
AskPeers ==
  /\ polling = NotWatching /\ outcome = Unjudged
  /\ \/ polling' = [pc |-> "self", read |-> peers] /\ UNCHANGED outcome
     \/ UNCHANGED <<polling, outcome>>
  /\ UNCHANGED <<tags, peers, journal, joined>>

\* getnetworkinfo: a version that could not be read is 0.0.0.
AskSelf ==
  /\ polling.pc = "self"
  /\ \E current \in {0, Len(tags)} :
       polling' = [pc |-> "journal", read |-> polling.read, current |-> current]
  /\ UNCHANGED <<tags, peers, journal, outcome, joined>>

\* By address the last connection counts.
by_addr(read) ==
  [ip \in {read[i].ip : i \in DOMAIN read} |->
     read[CHOOSE i \in DOMAIN read : /\ read[i].ip = ip
                                     /\ \A j \in DOMAIN read : read[j].ip = ip => j <= i].version]

\* The exit code: nobody connected and an independent node behind the floor are
\* findings; one that was seen in the journal and one that is merely older are not.
Verdict(read) ==
  LET independent == DOMAIN by_addr(read) \ Ours
      behind == {ip \in independent : by_addr(read)[ip] < floor}
  IN  IF read = <<>> \/ behind # {} THEN 1 ELSE 0

Judge ==
  /\ polling.pc = "journal"
  /\ outcome' = [code |-> Verdict(polling.read),
                 stale |-> \E v \in journal : v < floor,
                 older |-> \E i \in DOMAIN polling.read : polling.read[i].version < polling.current]
  /\ polling' = NotWatching
  /\ UNCHANGED <<tags, peers, journal, joined>>

FloorInit == /\ tags = <<>> /\ peers = <<>> /\ journal = {} /\ polling = NotWatching
             /\ outcome = Unjudged /\ joined = 0
FloorNext == \/ Tag \/ Leave \/ AskPeers \/ AskSelf \/ Judge
             \/ \E ip \in Peers, version \in Tags \cup {0} : Connect(ip, version)

FloorSpec == FloorInit /\ [][FloorNext]_floorVars

-----------------------------------------------------------------------------
\* Whoever runs the floor or anything since accepts what the newest release
\* accepts, however often a rule was changed and changed back and whichever tags
\* cannot be read; and install.sh is told that two releases are the same only when
\* nothing that is compared has moved between them.
FollowersAgree ==
  \A t, u \in Usable : (t >= floor /\ u >= t) \/ compare_remote(t, u) = 0 =>
    Decides(t) = Decides(u)

\* A verdict of 0 is of independent nodes that accept what the newest release accepts.
GreenIsAgreed ==
  Judge /\ outcome'.code = 0 /\ Usable # {} =>
    \A ip \in DOMAIN by_addr(polling.read) \ Ours :
      LET v == by_addr(polling.read)[ip]
      IN  v > 0 /\ (v \in Usable => \A u \in Usable : u >= v => Decides(u) = Decides(v))

\* "Nobody will be rejected" is said of independent nodes that accept what the
\* newest release accepts.  (Not of a network whose floor could not be found.)
GreenFollows == [][GreenIsAgreed]_floorVars

\* consensus_floor.py:211: floor is "the newest tag at which consensus changed", and
\* :124 of a field exempt at one tag: "the next release carrying a different value
\* for it fingerprints differently and moves the floor as it should".  So a floor
\* is a release at which a node began to decide otherwise.  It does not hold: see
\* section 5 of the README.
FloorIsAChange == floor > 0 /\ floor # First => Decides(floor) # Decides(Before(floor))
=============================================================================
