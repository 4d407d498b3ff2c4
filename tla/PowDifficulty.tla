---------------------------- MODULE PowDifficulty ----------------------------
(***************************************************************************)
(* Proof-of-work difficulty (core/src/pow/mod.rs).                        *)
(*                                                                         *)
(* U256 arithmetic is kept at a width of W bits (PowConversions): a sum   *)
(* that does not fit panics as U256's `+` does.  The U512 intermediate of *)
(* ProofOfWorkConfig::target_difficulty does not overflow and is computed *)
(* exactly.                                                               *)
(*                                                                         *)
(* The operators of the difficulty adjustment; TargetDifficulty composes  *)
(* them with the cache into the per-period target_difficulty.             *)
(***************************************************************************)
EXTENDS Naturals, PowConversions

CONSTANTS
  InitialDifficulty,      \* ProofOfWorkConfig.initial_difficulty
  BlockGenerationPeriod,  \* ProofOfWorkConfig.block_generation_period
  TimeScale,              \* the 1000000 the timespan is multiplied by
  AdjustmentFactor,       \* DIFFICULTY_ADJUSTMENT_FACTOR
  TestMode                \* ProofOfWorkConfig.test_mode

ASSUME /\ InitialDifficulty \in 1 .. (2^W - 1)
       /\ AdjustmentFactor \in Nat \ {0}
       /\ TestMode \in BOOLEAN

-----------------------------------------------------------------------------
(* Difficulty adjustment.                                                 *)

\* ProofOfWorkConfig::target_difficulty: the difficulty that would have
\* produced the period's blocks at the target rate, clipped to 1..MAX.
target_difficulty_of(block_count, timespan, cur) ==
  IF timespan = 0 \/ block_count <= 1 \/ TestMode THEN InitialDifficulty
  ELSE LET target == (cur * BlockGenerationPeriod * (block_count - 1))
                       \div (timespan * TimeScale)
       IN IF target = 0 THEN 1
          ELSE IF target > MaxU THEN MaxU
          ELSE target

\* get_adjustment_bound: diff -/+ diff / DIFFICULTY_ADJUSTMENT_FACTOR, the
\* lower end at least the initial difficulty.  `diff + adjustment` is a
\* U256 sum: it panics when it does not fit.
AdjustmentOverflows(diff) == diff + diff \div AdjustmentFactor > MaxU

\* Fault: the lower end is not raised to the initial difficulty.
get_adjustment_bound_no_floor(diff) ==
  [lower |-> diff - diff \div AdjustmentFactor,
   upper |-> diff + diff \div AdjustmentFactor]

get_adjustment_bound(diff) ==
  LET adjustment == diff \div AdjustmentFactor
      min_diff == IF diff - adjustment < InitialDifficulty THEN InitialDifficulty
                  ELSE diff - adjustment
      max_diff == diff + adjustment
  IN [lower |-> min_diff,
      upper |-> IF max_diff < min_diff THEN min_diff ELSE max_diff]

\* The clamp of target_difficulty (mod.rs 406-413): the smoothed target
\* brought within the adjustment bound of the current difficulty.
Clamp(target, bound) ==
  IF target > bound.upper THEN bound.upper
  ELSE IF target < bound.lower THEN bound.lower
  ELSE target

=============================================================================
