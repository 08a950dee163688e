----------------------------- MODULE Checkpoint -----------------------------
(***************************************************************************)
(* scripts/make_checkpoint.py: which block may be frozen into a release?   *)
(* It asks each node for its height and then each for a hash, while their  *)
(* chains grow and are reorganised.                                        *)
(***************************************************************************)
EXTENDS Integers, Sequences, FiniteSetsExt, Functions

CONSTANTS Nodes,
          Lists,              \* of nodes, as the operator may give them
          Branches,           \* of blocks
          Bury,               \* --bury (1000)
          MaxHeight, MaxReorgs, MaxSilent   \* bounds

ASSUME CheckpointAssumption ==
  Lists \subseteq Seq(Nodes) /\ Bury \in Int /\ MaxHeight \in Nat

VARIABLES active,              \* node -> its active chain: the branch of each block
          hosts, height,      \* asked for; no height is 0
          next,               \* the host whose turn it is
          stage,              \* "tips", "hashes" or "confirm"
          tips, hashes,       \* answers, by host
          rc,
          lowest,             \* history: node -> the shortest its chain was since it was asked
          reorgs, silent

checkpointVars == <<active, hosts, height, next, stage, tips, hashes, rc, lowest, reorgs, silent>>
nodes == <<active, lowest, reorgs>>

Running == -1
None == <<>>
Silence == silent < MaxSilent /\ silent' = silent + 1

Answered(answers, n, answer) ==
  [m \in DOMAIN answers \cup {n} |-> IF m = n THEN answer ELSE answers[m]]

-----------------------------------------------------------------------------
Extends(n, b) ==
  /\ rc = Running /\ Len(active[n]) < MaxHeight
  /\ active' = [active EXCEPT ![n] = Append(@, b)]
  /\ UNCHANGED <<hosts, height, next, stage, tips, hashes, rc, lowest, reorgs, silent>>

\* The node leaves its last blocks for those of a longer chain.
Reorganises(n, kept, b) ==
  /\ rc = Running /\ Len(active[n]) < MaxHeight /\ reorgs < MaxReorgs /\ reorgs' = reorgs + 1
  /\ active' = [active EXCEPT ![n] = SubSeq(@, 1, kept) \o [i \in 1..(Len(@) - kept + 1) |-> b]]
  /\ lowest' = [lowest EXCEPT ![n] = Min({@, kept})]
  /\ UNCHANGED <<hosts, height, next, stage, tips, hashes, rc, silent>>

-----------------------------------------------------------------------------
\* main: fewer than two hosts is no evidence.
Begins(list, h) ==
  /\ rc = Running /\ hosts = <<>> /\ hosts' = list /\ height' = h
  /\ rc' = IF Len(list) < 2 THEN 2 ELSE Running
  /\ UNCHANGED <<nodes, next, stage, tips, hashes, silent>>

\* A mutant: a height that was asked for is believed to be deep enough.
Buried_IfDefault(h) == height # 0 \/ \A n \in DOMAIN tips : tips[n] - h >= Bury

Buried(h) == \A n \in DOMAIN tips : tips[n] - h >= Bury

\* The height that was asked for, or the deepest that every host has buried.
Height == IF height # 0 THEN height ELSE Min(Range(tips)) - Bury

\* getblockcount, host by host.
AsksTip ==
  /\ rc = Running /\ hosts # <<>> /\ stage = "tips" /\ next <= Len(hosts)
  /\ LET n == hosts[next]
     IN  \/ /\ tips' = Answered(tips, n, Len(active[n])) /\ next' = next + 1
            /\ lowest' = [lowest EXCEPT ![n] = Len(active[n])]
            /\ UNCHANGED <<rc, silent>>
         \/ Silence /\ rc' = 1 /\ UNCHANGED <<tips, next, lowest>>
  /\ UNCHANGED <<active, reorgs, hosts, height, stage, hashes>>

\* Nothing is frozen that is not deep on every host.
Settles ==
  /\ rc = Running /\ hosts # <<>> /\ stage = "tips" /\ next > Len(hosts)
  /\ IF Height < 1 \/ ~Buried(Height) THEN rc' = 1 /\ UNCHANGED <<height, next, stage>>
     ELSE height' = Height /\ next' = 1 /\ stage' = "hashes" /\ UNCHANGED rc
  /\ UNCHANGED <<nodes, hosts, tips, hashes, silent>>

\* getblockhash, host by host.  A block is known by its whole past.
AsksHash ==
  /\ rc = Running /\ stage = "hashes" /\ next <= Len(hosts)
  /\ LET n == hosts[next]
     IN  \/ /\ height <= Len(active[n])
            /\ hashes' = Answered(hashes, n, SubSeq(active[n], 1, height)) /\ next' = next + 1
            /\ UNCHANGED <<rc, silent>>
         \/ /\ height > Len(active[n]) /\ rc' = 1 /\ UNCHANGED <<hashes, next, silent>>
         \/ Silence /\ rc' = 1 /\ UNCHANGED <<hashes, next>>
  /\ UNCHANGED <<nodes, hosts, height, stage, tips>>

Agrees ==
  /\ rc = Running /\ stage = "hashes" /\ next > Len(hosts)
  /\ IF Cardinality(Range(hashes)) # 1 THEN rc' = 1 /\ UNCHANGED stage
     ELSE stage' = "confirm" /\ UNCHANGED rc
  /\ UNCHANGED <<nodes, hosts, height, next, tips, hashes, silent>>

\* getblock at the first host: an exception here is only a warning.
Confirms ==
  /\ rc = Running /\ stage = "confirm"
  /\ LET n == hosts[1]
     IN  \/ /\ UNCHANGED silent
            /\ rc' = IF height <= Len(active[n]) /\ SubSeq(active[n], 1, height) = hashes[n]
                     THEN 0 ELSE 1
         \/ Silence /\ rc' = 0
  /\ UNCHANGED <<nodes, hosts, height, next, stage, tips, hashes>>

CheckpointInit ==
  /\ active \in [Nodes -> {<<b>> : b \in Branches}] /\ lowest = [n \in Nodes |-> 0]
  /\ hosts = <<>> /\ height = 0 /\ next = 1 /\ stage = "tips" /\ tips = None /\ hashes = None
  /\ rc = Running /\ reorgs = 0 /\ silent = 0

CheckpointNext ==
  \/ \E n \in Nodes, b \in Branches : \/ Extends(n, b)
                                      \/ \E kept \in 0..(Len(active[n]) - 1) : Reorganises(n, kept, b)
  \/ \E list \in Lists, h \in 0..MaxHeight : Begins(list, h)
  \/ AsksTip \/ Settles \/ AsksHash \/ Agrees \/ Confirms

CheckpointSpec == CheckpointInit /\ [][CheckpointNext]_checkpointVars

-----------------------------------------------------------------------------
\* "A checkpoint that can still be reorganised out is a checkpoint on a guess"
\* (make_checkpoint.py:119-120): whatever came between the answers, the block that is
\* printed is on the chain of every host that was asked, as long as none has been
\* reorganised as deep as --bury below the tip it told.
CheckpointIsShared ==
  rc = 0 => \A n \in Range(hosts) :
              lowest[n] > tips[n] - Bury =>
                \A m \in Range(hosts) : SubSeq(active[n], 1, height) = hashes[m]
=============================================================================
