------------------------------ MODULE DgwModel ------------------------------
(***************************************************************************)
(* scripts/dgw_model.py: a second implementation of the retarget, which is *)
(* believed only after it has predicted every block of a chain that was    *)
(* made by the first (DarkGravity).  The chain is read in batches while it *)
(* grows and is reorganised, and what was read is kept for the next run.   *)
(***************************************************************************)
EXTENDS Integers, Sequences, SequencesExt

CONSTANTS PastBlocks, Spacing, ClampFactor, PowLimit, Base, Digits,  \* as in DarkGravity
          Gaps,               \* between a block and its parent
          STEP,               \* heights in a batch
          Multiple,           \* of the hash rate that arrives
          PhaseBlocks, MaxAfter,   \* blocks with it, and at most after it (600)
          MaxLength, MaxReorgs, MaxLookups   \* bounds

VARIABLES chain,              \* [time, nbits], from genesis
          reading,            \* [tip, start], or none
          blocks,             \* read so far: [height, time, nbits]
          cache,              \* of an earlier run, or none
          moved,              \* history: was the chain reorganised during the read?
          sim,                \* [phase, n, window, nbits, dt], or none
          rc, reorgs, lookups

dgwVars == <<chain, reading, blocks, cache, moved, sim, rc, reorgs, lookups>>

Idle == [tip |-> -1, start |-> 0]
NoSim == [phase |-> "none"]
Unread == <<>>
Running == -1
Traceback == -2               \* Python's own exit status 1

\* compact_to_target.
compact_to_target(nbits) ==
  IF nbits.size <= Digits THEN nbits.word \div Base^(Digits - nbits.size)
  ELSE nbits.word * Base^(nbits.size - Digits)

\* target_to_compact: size and leading digits, and one digit fewer if the first
\* would read as a sign.
target_to_compact(target) ==
  LET size == CHOOSE n \in 0..10 : target < Base^n /\ \A k \in 0..(n - 1) : target >= Base^k
      word == IF size <= Digits THEN target * Base^(Digits - size)
              ELSE target \div Base^(size - Digits)
  IN  IF 2 * word >= Base^Digits THEN [size |-> size + 1, word |-> word \div Base]
      ELSE [size |-> size, word |-> word]

TargetTimespan == PastBlocks * Spacing

\* A mutant: the plain mean.
Average_Plain(targets) == FoldLeft(+, 0, targets) \div Len(targets)

\* The running mean, newest first.
Average(targets) ==
  LET avg[n \in 1..Len(targets)] ==
        IF n = 1 THEN targets[1] ELSE (avg[n - 1] * n + targets[n]) \div (n + 1)
  IN  avg[Len(targets)]

\* dgw: the nBits after a window of [time, nbits], oldest first.
dgw(window) ==
  LET newest_first == Reverse(SubSeq(window, Len(window) - PastBlocks + 1, Len(window)))
      span == newest_first[1].time - newest_first[PastBlocks].time
      actual == IF span < TargetTimespan \div ClampFactor THEN TargetTimespan \div ClampFactor
                ELSE IF span > TargetTimespan * ClampFactor THEN TargetTimespan * ClampFactor
                ELSE span
      new == (Average([n \in 1..PastBlocks |-> compact_to_target(newest_first[n].nbits)])
              * actual) \div TargetTimespan
  IN  IF Len(window) < PastBlocks THEN target_to_compact(PowLimit)
      ELSE target_to_compact(IF new > PowLimit THEN PowLimit ELSE new)

-----------------------------------------------------------------------------
\* The rule itself, of src/wam/pow.cpp, for the block after these.  Slow and
\* Hardest speak of when blocks come, and no rule reads them.
Rule(height, newest) == INSTANCE DarkGravity WITH
  depth <- height, window <- newest, Slow <- 0, Hardest <- 0

Required(c) ==
  LET window == SubSeq(c, Len(c) - PastBlocks + 1, Len(c))
      newest == [n \in 1..PastBlocks |->
                   [target |-> compact_to_target(Reverse(window)[n].nbits),
                    gap |-> IF n = PastBlocks THEN 0
                            ELSE Reverse(window)[n].time - Reverse(window)[n + 1].time]]
  IN  IF Len(c) <= PastBlocks THEN target_to_compact(PowLimit)
      ELSE target_to_compact(Rule(PastBlocks, newest)!GetNextWorkRequired)

Genesis == [time |-> 0, nbits |-> target_to_compact(PowLimit)]
Grown(c, gap) == Append(c, [time |-> c[Len(c)].time + gap, nbits |-> Required(c)])

Mines(gap) ==
  /\ Len(chain) < MaxLength /\ chain' = Grown(chain, gap)
  /\ UNCHANGED <<reading, blocks, cache, moved, sim, rc, reorgs, lookups>>

\* The last blocks give way to others.
Reorganises(kept, gap) ==
  /\ reorgs < MaxReorgs /\ reorgs' = reorgs + 1
  /\ chain' = Grown(SubSeq(chain, 1, kept), gap)
  /\ moved' = (moved \/ reading # Idle)
  /\ UNCHANGED <<reading, blocks, cache, sim, rc, lookups>>

-----------------------------------------------------------------------------
\* main: the kept copy is used if there is one; else read_chain asks for the tip.
Starts ==
  /\ rc = Running /\ reading = Idle /\ blocks = Unread /\ lookups < MaxLookups
  /\ lookups' = lookups + 1
  /\ IF cache # Unread THEN blocks' = cache /\ UNCHANGED <<reading, rc, moved>>
     ELSE \/ /\ reading' = [tip |-> Len(chain) - 1, start |-> 0] /\ moved' = FALSE
             /\ UNCHANGED <<blocks, rc>>
          \/ rc' = 2 /\ UNCHANGED <<reading, blocks, moved>>
  /\ UNCHANGED <<chain, cache, sim, reorgs>>

\* A batch of hashes and its headers, or an exception nothing catches.  A height
\* the chain no longer has is left out.
ReadsBatch ==
  /\ reading # Idle /\ reading.start <= reading.tip
  /\ LET last == IF reading.start + STEP - 1 < reading.tip THEN reading.start + STEP - 1
                 ELSE reading.tip
         got == SelectSeq([i \in 1..(last - reading.start + 1) |-> reading.start + i - 1],
                          LAMBDA h : h < Len(chain))
     IN  \/ /\ blocks' = blocks \o [i \in DOMAIN got |->
                 [height |-> got[i], time |-> chain[got[i] + 1].time,
                  nbits |-> chain[got[i] + 1].nbits]]
            /\ reading' = [reading EXCEPT !.start = last + 1] /\ UNCHANGED rc
         \/ rc' = Traceback /\ reading' = Idle /\ blocks' = Unread
  /\ UNCHANGED <<chain, cache, moved, sim, reorgs, lookups>>

EndsReading ==
  /\ reading # Idle /\ reading.start > reading.tip
  /\ reading' = Idle /\ cache' = blocks
  /\ UNCHANGED <<chain, blocks, moved, sim, rc, reorgs, lookups>>

\* validate: each block of the list from the window's length on.
Mispredicted(read) ==
  {i \in (PastBlocks + 1)..Len(read) :
     dgw(SubSeq(read, i - PastBlocks, i - 1)) # read[i].nbits}

Validates ==
  /\ rc = Running /\ reading = Idle /\ blocks # Unread /\ sim = NoSim
  /\ IF Len(blocks) <= PastBlocks THEN rc' = 2 /\ UNCHANGED sim
     ELSE IF Mispredicted(blocks) # {} THEN rc' = 1 /\ UNCHANGED sim
     ELSE /\ sim' = [phase |-> "with", n |-> 0, dt |-> 0,
                     window |-> [i \in 1..PastBlocks |->
                                   LET b == blocks[Len(blocks) - PastBlocks + i]
                                   IN  [time |-> b.time, nbits |-> b.nbits]],
                     nbits |-> dgw(SubSeq(blocks, Len(blocks) - PastBlocks + 1, Len(blocks)))]
          /\ UNCHANGED rc
  /\ UNCHANGED <<chain, reading, blocks, cache, moved, reorgs, lookups>>

\* interval: rounded, and at least a second.
interval(nbits, m) ==
  LET base == compact_to_target(blocks[Len(blocks)].nbits)
      rate == compact_to_target(nbits) * m
      secs == (2 * Spacing * base + rate) \div (2 * rate)
  IN  IF secs < 1 THEN 1 ELSE secs

\* simulate: a block while the visitor is here, and one after it has left.
Simulates ==
  /\ rc = Running /\ sim # NoSim
  /\ sim.phase = "after" => sim.n < MaxAfter
  /\ LET dt == interval(sim.nbits, IF sim.phase = "with" THEN Multiple ELSE 1)
         window == Append(sim.window, [time |-> sim.window[Len(sim.window)].time + dt,
                                       nbits |-> sim.nbits])
         over == sim.phase = "with" /\ sim.n + 1 = PhaseBlocks
     IN  /\ sim' = [phase |-> IF over THEN "after" ELSE sim.phase,
                    n |-> IF over THEN 0 ELSE sim.n + 1, dt |-> dt,
                    window |-> window, nbits |-> dgw(window)]
         /\ rc' = IF sim.phase = "after" /\ 4 * dt <= 5 * Spacing /\ sim.n > 0 THEN 0 ELSE rc
  /\ UNCHANGED <<chain, reading, blocks, cache, moved, reorgs, lookups>>

NeverReturned ==
  /\ rc = Running /\ sim # NoSim /\ sim.phase = "after" /\ sim.n = MaxAfter
  /\ rc' = 1 /\ UNCHANGED <<chain, reading, blocks, cache, moved, sim, reorgs, lookups>>

\* Somebody runs it again.
Again ==
  /\ rc # Running /\ lookups < MaxLookups
  /\ rc' = Running /\ blocks' = Unread /\ sim' = NoSim
  /\ UNCHANGED <<chain, reading, cache, moved, reorgs, lookups>>

DgwInit ==
  /\ chain = <<Genesis>> /\ reading = Idle /\ blocks = Unread /\ cache = Unread
  /\ moved = FALSE /\ sim = NoSim /\ rc = Running /\ reorgs = 0 /\ lookups = 0

DgwNext ==
  \/ \E gap \in Gaps : Mines(gap) \/ \E kept \in 1..(Len(chain) - 1) : Reorganises(kept, gap)
  \/ Starts \/ ReadsBatch \/ EndsReading \/ Validates \/ Simulates \/ NeverReturned \/ Again

-----------------------------------------------------------------------------
\* "One mismatch and this file is wrong and says so" (dgw_model.py's docstring): on a
\* list that was read from one chain every block past the first window is predicted;
\* so a mismatch there is a fault of the model, and elsewhere a chain that moved.
\* What it simulates, the rule would have required block for block.
ModelFollowsRule ==
  /\ ~moved => \A i \in Mispredicted(blocks) : i = PastBlocks + 1
  /\ sim # NoSim /\ Len(sim.window) > PastBlocks => sim.nbits = Required(sim.window)
  /\ rc = 0 => Len(blocks) > PastBlocks
=============================================================================
