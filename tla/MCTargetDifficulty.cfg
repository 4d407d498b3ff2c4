\* U256 at 8 bits; DIFFICULTY_ADJUSTMENT_FACTOR 2; one block per period
\* second (block_generation_period / 1000000 = 1).  Two callers, three
\* periods, room for two cache entries: a full cache, evictions, both
\* callers setting the same hash, every clamp and both sides of CIP-86
\* (periods 1 and 2 are before it, period 3 after) all happen.  The initial
\* difficulty 128 is half of MAX: the floor binds, and after one fast
\* period get_adjustment_bound's U256 sum overflows and panics.
CONSTANTS
  W = 8
  InitialDifficulty = 128
  BlockGenerationPeriod = 1
  TimeScale = 1
  AdjustmentFactor = 2
  TestMode = FALSE
  Walks <- MCWalks
  Threads = {t1, t2}
  Capacity = 2
  MaxPeriods = 3
  Cip86Period = 3
  Unlocked = Unlocked
  None = None
SPECIFICATION Spec
\* A U256 overflow in get_adjustment_bound panics the node: no step follows.
CHECK_DEADLOCK FALSE
INVARIANTS
  CacheBounded
  DifficultyAtLeastInitial
  MiningAgreesWithQuality
PROPERTIES
  SetReturns
