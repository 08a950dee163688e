----------------------------- MODULE DarkGravity -----------------------------
(***************************************************************************)
(* The retarget of src/wam/pow.cpp: DarkGravityWave, GetNextWorkRequired   *)
(* and the range that CheckProofOfWork accepts, on a chain whose blocks    *)
(* come at any time.                                                       *)
(*                                                                         *)
(* Only the last PastBlocks blocks matter, and of their times only the     *)
(* gaps.  The compact form of a target keeps its leading digits; a target  *)
(* here is a number of a few digits in a small base.                       *)
(***************************************************************************)
EXTENDS Integers, Sequences

CONSTANTS
  PastBlocks,   \* WAM_DGW_PAST_BLOCKS
  Spacing,      \* nPowTargetSpacing
  ClampFactor,  \* WAM_DGW_CLAMP_FACTOR
  PowLimit,     \* powLimit, in compact form
  Base,         \* a digit of the compact form, 256 in the code
  Digits,       \* the digits it keeps, 3 in the code
  Gaps,         \* the time between a block and its parent
  Slow,         \* the gap of a network that has lost its hash rate
  Hardest       \* the hardest target at which the network is faster than that

VARIABLES
  depth,    \* the tip's height, up to PastBlocks
  window    \* its last PastBlocks blocks, newest first: target and gap

retargetVars == <<depth, window>>

TargetTimespan == PastBlocks * Spacing

-----------------------------------------------------------------------------

Power ==
  LET power[n \in Nat] == IF n = 0 THEN 1 ELSE Base * power[n - 1] IN power

\* The digits of a target, what the last of k digits that are kept is worth, and
\* whether the first would read as a sign, so that one fewer is kept.
Size(t) == CHOOSE n \in 0..t : t < Power[n] /\ (n = 0 \/ t >= Power[n - 1])
Unit(k) == Power[IF k > Digits THEN k - Digits ELSE 0]
Signed(t) == Size(t) >= Digits /\ 2 * (t \div Unit(Size(t))) >= Power[Digits]

\* GetCompact: the digits below the leading ones are dropped.
Compact(t) ==
  LET low == IF Signed(t) THEN Unit(Size(t) + 1) ELSE Unit(Size(t))
  IN  (t \div low) * low

\* As wam-params.h and chainparams.cpp set them: 24 blocks of 120 seconds and a
\* clamp of 3, whose bounds are whole seconds; and a powLimit that is what its
\* compact form says.
ASSUME RetargetAssumption ==
  /\ PastBlocks \in Nat \ {0} /\ Spacing \in Nat \ {0} /\ ClampFactor \in Nat \ {0}
  /\ (TargetTimespan \div ClampFactor) * ClampFactor = TargetTimespan
  /\ Base \in Nat \ {0} /\ Base % 2 = 0 /\ Digits \in Nat /\ Digits >= 2
  /\ PowLimit \in Nat \ {0} /\ Compact(PowLimit) = PowLimit
\* Below some target, far above zero, no network there is finds blocks in time.
ASSUME WorldAssumption ==
  /\ Gaps \subseteq Int /\ Slow \in Int /\ (PastBlocks - 1) * Slow >= TargetTimespan
  /\ Hardest \in Nat /\ Hardest <= PowLimit
  /\ Hardest > (PastBlocks + 1) * (PastBlocks + ClampFactor)

-----------------------------------------------------------------------------

\* Mutant: the mean is divided by one too few.
Mean_Heavy(targets) ==
  LET mean[n \in 1..Len(targets)] ==
        IF n = 1 THEN targets[1] ELSE (mean[n - 1] * n + targets[n]) \div n
  IN mean[Len(targets)]

\* The running mean, from the newest target to the oldest.
Mean(targets) ==
  LET mean[n \in 1..Len(targets)] ==
        IF n = 1 THEN targets[1] ELSE (mean[n - 1] * n + targets[n]) \div (n + 1)
  IN mean[Len(targets)]

Targets == [i \in 1..PastBlocks |-> window[i].target]

\* The time from the oldest of n blocks to the newest.
Elapsed(gaps) ==
  LET time[n \in 0..Len(gaps)] == IF n = 0 THEN 0 ELSE time[n - 1] + gaps[n]
  IN time[Len(gaps)]

Timespan == Elapsed([i \in 1..(PastBlocks - 1) |-> window[i].gap])

\* Mutant: a timespan is only kept from being too short.
Clamped_OneSided(span) ==
  IF span < TargetTimespan \div ClampFactor THEN TargetTimespan \div ClampFactor ELSE span

Clamped(span) ==
  IF span < TargetTimespan \div ClampFactor THEN TargetTimespan \div ClampFactor
  ELSE IF span > TargetTimespan * ClampFactor THEN TargetTimespan * ClampFactor
  ELSE span

DarkGravityWave ==
  LET new == (Mean(Targets) * Clamped(Timespan)) \div TargetTimespan
  IN Compact(IF new > PowLimit THEN PowLimit ELSE new)

GetNextWorkRequired == IF depth < PastBlocks THEN PowLimit ELSE DarkGravityWave

\* CheckProofOfWork's range, without the hash.
InRange(target) == target > 0 /\ target <= PowLimit

-----------------------------------------------------------------------------

RetargetInit ==
  /\ depth = 0
  /\ window = <<[target |-> PowLimit, gap |-> 0]>>

\* A block is found.  Beyond the Hardest target the network is slow.
Extend(gap) ==
  /\ InRange(GetNextWorkRequired)
  /\ GetNextWorkRequired < Hardest => gap = Slow
  /\ depth' = IF depth < PastBlocks THEN depth + 1 ELSE depth
  /\ window' = SubSeq(<<[target |-> GetNextWorkRequired, gap |-> gap]>> \o window,
                      1, IF Len(window) < PastBlocks THEN Len(window) + 1 ELSE PastBlocks)

RetargetNext == \E gap \in Gaps : Extend(gap)

RetargetSpec == RetargetInit /\ [][RetargetNext]_retargetVars

-----------------------------------------------------------------------------
(* Properties, of the target the next block will need.                      *)

Seen == {window[i].target : i \in 1..Len(window)}

WindowTypeOK ==
  /\ depth \in 0..PastBlocks
  /\ \A i \in 1..Len(window) : InRange(window[i].target) /\ window[i].gap \in Gaps \cup {0}

\* One retarget moves the target by the clamp's factor at most, whatever times
\* the blocks carry, and never out of the range that CheckProofOfWork accepts
\* (pow.cpp 60-61); the chain can always go on.
RetargetIsBounded ==
  LET next == GetNextWorkRequired IN
  depth = PastBlocks =>
    /\ InRange(next)
    /\ \E t \in Seen : next <= t * ClampFactor
    /\ \E t \in Seen : next >= Compact(t \div ClampFactor)

\* A window that took longer than it should never makes mining harder than it
\* was in the whole window, and one that was faster never easier (69-70).
RetargetFollowsTime ==
  LET next == GetNextWorkRequired IN
  depth = PastBlocks =>
    /\ Timespan <= TargetTimespan => \E t \in Seen : next <= t
    /\ Timespan >= TargetTimespan => \E t \in Seen : next >= t
=============================================================================
