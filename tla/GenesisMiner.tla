---------------------------- MODULE GenesisMiner ----------------------------
(***************************************************************************)
(* genesis/genesis_generator.py over genesis/randomx_ffi.py: the block is  *)
(* built, its dataset filled and its nonce searched by threads, and the    *)
(* answer is written into chainparams.cpp.  Amounts are in WAM.            *)
(***************************************************************************)
EXTENDS Integers, Sequences, FiniteSets

CONSTANTS Threads,         \* 0 .. threads - 1
          MaxNonce,        \* the end of the nonce space
          Items,           \* of the dataset
          MaxRuns, MaxBroken   \* bounds

ASSUME GenesisAssumption ==
  /\ IsFiniteSet(Threads) /\ Threads # {} /\ Threads = 0 .. Cardinality(Threads) - 1
  /\ MaxNonce \in Nat /\ Items \in Nat

VARIABLES works,       \* nonces whose hash meets the target, in this header
          miner,       \* the run
          workers,     \* its threads, and the nonce each is at
          found, stop, \* shared by them
          tried,       \* <<thread, nonce>> hashed
          filled,      \* items of the dataset, by the threads that fill them
          source, backup,  \* chainparams.cpp and its .bak
          runs, broken

genesisVars == <<works, miner, workers, found, stop, tried, filled, source, backup, runs, broken>>

NETWORKS == [mainnet |-> [pubkey |-> 73], testnet |-> [pubkey |-> 65],
             regtest |-> [pubkey |-> 65]]
NoRun == [pc |-> "off"]
NotFound == -1
NewWorkers == [t \in Threads |-> [pc |-> "new", nonce |-> t]]
Torn == <<>>
Absent == <<0>>

-----------------------------------------------------------------------------
\* Bytes of a script.
BytesOf[n \in Nat] == IF n = 0 THEN <<>> ELSE <<n % 256>> \o BytesOf[n \div 256]

\* A number, with a byte more when its highest bit would be read as a sign.
script_num(n) ==
  LET out == BytesOf[n]
  IN  IF n = 0 THEN <<0>> ELSE IF out[Len(out)] >= 128 THEN out \o <<0>> ELSE out

Little(n, width) ==
  LET b[i \in 1 .. width] == IF i = 1 THEN n ELSE b[i - 1] \div 256
  IN  [i \in 1 .. width |-> b[i] % 256]
varint(n) == CASE n < 253 -> <<n>>
               [] n \in 253 .. 65535 -> <<253>> \o Little(n, 2)
               [] OTHER -> <<254>> \o Little(n, 4)
push_data(data) ==
  LET n == Len(data)
  IN  CASE n < 76 -> <<n>> \o data
        [] n \in 76 .. 255 -> <<76, n>> \o data
        [] OTHER -> <<77>> \o Little(n, 2) \o data

PREMINE_TRANCHE_AMOUNT == 400000
GENESIS_PREMINE == 2000000
PREMINE_UNLOCK_TIMES == <<1820966400, 1852588800, 1884124800, 1915660800, 1947196800>>
LOCKTIME_THRESHOLD == 500000000

p2pkh_script(hash) == <<118, 169, 20>> \o hash \o <<136, 172>>
timelocked_script(hash, locktime) ==
  IF locktime = 0 THEN p2pkh_script(hash)
  ELSE push_data(script_num(locktime)) \o <<177, 117>> \o p2pkh_script(hash)

build_genesis_outputs(hash, single, op_true) ==
  IF op_true THEN <<[value |-> GENESIS_PREMINE, script |-> <<81>>]>>
  ELSE IF single THEN <<[value |-> GENESIS_PREMINE, script |-> p2pkh_script(hash)]>>
  ELSE [i \in DOMAIN PREMINE_UNLOCK_TIMES |->
          [value |-> PREMINE_TRANCHE_AMOUNT,
           script |-> timelocked_script(hash, PREMINE_UNLOCK_TIMES[i])]]

\* The transaction, its amounts left as they are and its phrase 64 bytes of text.
build_coinbase_tx(outputs) ==
  LET sig == push_data(script_num(486604799)) \o push_data(script_num(4))
             \o push_data([i \in 1 .. 64 |-> 0])
      out[i \in 0 .. Len(outputs)] ==
        IF i = 0 THEN <<>> ELSE out[i - 1] \o <<outputs[i].value>>
                                \o varint(Len(outputs[i].script)) \o outputs[i].script
  IN  Little(1, 4) \o varint(1) \o [i \in 1 .. 36 |-> 0] \o varint(Len(sig)) \o sig
      \o Little(0, 4) \o varint(Len(outputs)) \o out[Len(outputs)] \o Little(0, 4)

-----------------------------------------------------------------------------
\* What is given for --address: a text that does not decode, or a payload.
Addresses == {[decodes |-> FALSE], [decodes |-> TRUE, version |-> 73, length |-> 19]}
             \cup {[decodes |-> TRUE, version |-> v, length |-> 20] : v \in {73, 65}}

Accepts(address, net) == /\ address.decodes /\ address.length = 20
                         /\ address.version = NETWORKS[net].pubkey

\* The block is fixed by the address, the outputs and the time; its hash is
\* anything, and so the nonces that work are.
BeginsRun(net, address, full, single, op_true) ==
  /\ miner = NoRun /\ runs < MaxRuns /\ runs' = runs + 1
  /\ IF Accepts(address, net)
     THEN LET outputs == build_genesis_outputs([i \in 1 .. 20 |-> 7], single \/ op_true, op_true)
          IN  /\ miner' = [pc |-> "cache", net |-> net, full |-> full, outputs |-> outputs,
                           merkle |-> build_coinbase_tx(outputs)]
              /\ \E ws \in SUBSET (0 .. MaxNonce) : Cardinality(ws) <= 2 /\ works' = ws
     ELSE UNCHANGED <<miner, works>>
  /\ workers' = NewWorkers /\ found' = NotFound /\ stop' = FALSE
  /\ tried' = {} /\ filled' = [t \in Threads |-> {}]
  /\ UNCHANGED <<source, backup, broken>>

\* randomx_alloc_cache and randomx_alloc_dataset: no memory ends the run.
Allocate ==
  /\ miner.pc = "cache"
  /\ \/ miner' = [miner EXCEPT !.pc = IF miner.full THEN "dataset" ELSE "mine"]
        /\ UNCHANGED broken
     \/ miner' = NoRun /\ broken < MaxBroken /\ broken' = broken + 1
  /\ UNCHANGED <<works, workers, found, stop, tried, filled, source, backup, runs>>

\* The part of the dataset that each thread fills: the last takes what is left.
Part(t) == LET threads == Cardinality(Threads)
               per == Items \div threads
           IN  (t * per) .. (IF t = threads - 1 THEN Items ELSE (t + 1) * per) - 1

InitDataset(t) ==
  /\ miner.pc = "dataset" /\ filled[t] = {} /\ Part(t) # {}
  /\ filled' = [filled EXCEPT ![t] = Part(t)]
  /\ UNCHANGED <<works, miner, workers, found, stop, tried, source, backup, runs, broken>>

DatasetReady ==
  /\ miner.pc = "dataset" /\ \A t \in Threads : filled[t] = Part(t)
  /\ miner' = [miner EXCEPT !.pc = "mine"]
  /\ UNCHANGED <<works, workers, found, stop, tried, filled, source, backup, runs, broken>>

\* new_vm in a thread: a failure is that thread's own end, and nobody hears it.
new_vm(t) ==
  /\ miner.pc = "mine" /\ workers[t].pc = "new"
  /\ \/ workers' = [workers EXCEPT ![t].pc = "hash"] /\ UNCHANGED broken
     \/ /\ broken < MaxBroken /\ broken' = broken + 1
        /\ workers' = [workers EXCEPT ![t].pc = "died"]
  /\ UNCHANGED <<works, miner, found, stop, tried, filled, source, backup, runs>>

\* A mutant: every thread strides by one.
Stride_One(n) == n + 1
Stride(n) == n + Cardinality(Threads)

Hashes(t) ==
  /\ miner.pc = "mine" /\ workers[t].pc = "hash"
  /\ IF stop \/ workers[t].nonce > MaxNonce
     THEN workers' = [workers EXCEPT ![t].pc = "done"] /\ UNCHANGED <<tried, found>>
     ELSE /\ tried' = tried \cup {<<t, workers[t].nonce>>}
          /\ IF workers[t].nonce \in works
             THEN /\ found' = IF found = NotFound THEN workers[t].nonce ELSE found
                  /\ workers' = [workers EXCEPT ![t].pc = "won"]
             ELSE workers' = [workers EXCEPT ![t].nonce = Stride(@)] /\ UNCHANGED found
  /\ UNCHANGED <<works, miner, stop, filled, source, backup, runs, broken>>

\* stop.set() comes after the lock is given back.
SetsStop(t) ==
  /\ miner.pc = "mine" /\ workers[t].pc = "won"
  /\ stop' = TRUE /\ workers' = [workers EXCEPT ![t].pc = "done"]
  /\ UNCHANGED <<works, miner, found, tried, filled, source, backup, runs, broken>>

\* All threads have been joined.
Joined ==
  /\ miner.pc = "mine" /\ \A t \in Threads : workers[t].pc \in {"done", "died"}
  /\ miner' = IF found = NotFound THEN [miner EXCEPT !.pc = "exhausted"]
              ELSE [pc |-> "found", net |-> miner.net,
                    result |-> [nonce |-> found, merkle |-> miner.merkle]]
  /\ UNCHANGED <<works, workers, found, stop, tried, filled, source, backup, runs, broken>>

-----------------------------------------------------------------------------
\* patch_chainparams: a class holds one result of three values, and "\nclass"
\* keeps it to its own.  A result that is there already is refused, and without
\* --patch the file is left alone.
ReadSource ==
  /\ miner.pc = "found"
  /\ \E patch \in BOOLEAN :
       miner' = IF ~patch \/ source = Torn \/ source[miner.net] = miner.result THEN NoRun
                ELSE [pc |-> IF backup = Absent THEN "backup" ELSE "write", src |-> source,
                      text |-> [source EXCEPT ![miner.net] = miner.result]]
  /\ UNCHANGED <<works, workers, found, stop, tried, filled, source, backup, runs, broken>>

\* Opening a file to write it empties it.
Empties == /\ miner.pc \in {"backup", "write"}
           /\ IF miner.pc = "write" THEN source' = Torn /\ UNCHANGED backup
              ELSE backup' = Torn /\ UNCHANGED source
           /\ miner' = [miner EXCEPT !.pc = IF @ = "write" THEN "writing" ELSE "backing"]
           /\ UNCHANGED <<works, workers, found, stop, tried, filled, runs, broken>>

Fills == /\ miner.pc \in {"backing", "writing"}
         /\ IF miner.pc = "backing" THEN backup' = miner.src /\ UNCHANGED source
            ELSE source' = miner.text /\ UNCHANGED backup
         /\ miner' = IF miner.pc = "writing" THEN NoRun ELSE [miner EXCEPT !.pc = "write"]
         /\ UNCHANGED <<works, workers, found, stop, tried, filled, runs, broken>>

GivesUp == /\ miner.pc = "exhausted" /\ miner' = NoRun
           /\ UNCHANGED <<works, workers, found, stop, tried, filled, source, backup, runs, broken>>

\* The machine goes down between two steps.
MinerDies ==
  /\ miner # NoRun /\ miner' = NoRun /\ broken < MaxBroken /\ broken' = broken + 1
  /\ UNCHANGED <<works, workers, found, stop, tried, filled, source, backup, runs>>

Unmined == [nonce |-> NotFound, merkle |-> <<>>]
GenesisInit ==
  /\ works = {} /\ miner = NoRun /\ workers = NewWorkers
  /\ found = NotFound /\ stop = FALSE /\ tried = {} /\ filled = [t \in Threads |-> {}]
  /\ source = [n \in DOMAIN NETWORKS |-> Unmined] /\ backup = Absent
  /\ runs = 0 /\ broken = 0

GenesisNext ==
  \/ \E net \in DOMAIN NETWORKS, address \in Addresses, full, single, op_true \in BOOLEAN :
       BeginsRun(net, address, full, single, op_true)
  \/ Allocate \/ DatasetReady \/ Joined \/ ReadSource \/ Empties \/ Fills \/ GivesUp \/ MinerDies
  \/ \E t \in Threads : InitDataset(t) \/ new_vm(t) \/ Hashes(t) \/ SetsStop(t)

GenesisSpec == GenesisInit /\ [][GenesisNext]_genesisVars

-----------------------------------------------------------------------------
\* The search ends with a nonce that works whenever one does and no thread has
\* died, no nonce is hashed by two threads, and hashing begins over a dataset
\* that is whole and was filled once.
SearchIsSound ==
  /\ miner.pc = "exhausted" /\ (\A t \in Threads : workers[t].pc # "died") => works = {}
  /\ miner.pc = "found" => miner.result.nonce \in works
  /\ \A a, b \in tried : a[2] = b[2] => a = b
  /\ miner.pc = "mine" /\ miner.full =>
       /\ UNION {filled[t] : t \in Threads} = 0 .. Items - 1
       /\ \A t, u \in Threads : t # u => filled[t] \cap filled[u] = {}

\* What an interpreter of scripts reads as the time of a lock.
Number(bytes) ==
  LET top[i \in 0 .. Len(bytes)] ==
        IF i = 0 THEN 0 ELSE top[i - 1] * 256 + bytes[Len(bytes) - i + 1]
  IN  IF bytes[Len(bytes)] >= 128 THEN -1 ELSE top[Len(bytes)]

\* The premine that is mined is the whole of it, and each tranche of it opens at
\* its own time, which no interpreter takes for a height.
TranchesAreLocked ==
  miner.pc = "cache" /\ Len(miner.outputs) > 1 =>
    /\ Len(miner.outputs) * PREMINE_TRANCHE_AMOUNT = GENESIS_PREMINE
    /\ \A i \in DOMAIN miner.outputs :
         LET script == miner.outputs[i].script
             lock == Number(SubSeq(script, 2, script[1] + 1))
         IN  /\ script[script[1] + 2] = 177
             /\ lock = PREMINE_UNLOCK_TIMES[i] /\ lock >= LOCKTIME_THRESHOLD

\* After a run, and after one failure of a run, chainparams.cpp or the copy of it
\* is whole.
SourceSurvives == miner = NoRun /\ broken <= 1 => source # Torn \/ backup \notin {Torn, Absent}

\* genesis_generator.py as a whole: what it finds, what it mines and what it leaves.
GenesisIsSound == SearchIsSound /\ TranchesAreLocked /\ SourceSurvives
=============================================================================
