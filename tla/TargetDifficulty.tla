--------------------------- MODULE TargetDifficulty ---------------------------
(***************************************************************************)
(* target_difficulty (core/src/pow/mod.rs 353-422) together with the      *)
(* TargetDifficultyManager cache it reads and fills (424-512).            *)
(*                                                                         *)
(* The chain is a sequence of adjustment periods; period i's boundary     *)
(* header carries the difficulty of its blocks, and the block count and   *)
(* timespan the header walk of target_difficulty collects for it (one of  *)
(* Walks, chosen as consensus extends the chain).  A period's hash is     *)
(* its index.  The difficulty of period i + 1 is what target_difficulty   *)
(* returned for the boundary of period i.                                 *)
(*                                                                         *)
(* Threads call target_difficulty(cur_hash) concurrently:                 *)
(*   Get      the manager's get under the read lock: a hit returns;       *)
(*   Compute  on a miss, without a lock: the expected difficulty, the     *)
(*            CIP-86 smoothing, get_adjustment_bound (whose U256 sum      *)
(*            panics the node when it overflows) and the clamp;           *)
(*   set      under the write lock: one step per turn of the evict loop,  *)
(*            then insert, and target_difficulty returns.                 *)
(* The cache is TargetDifficultyCacheInner: a FIFO `meta` of hashes and a *)
(* map `cache` from hash to difficulty.  Two threads that miss the same   *)
(* hash both set it, so meta can hold a hash twice.                       *)
(***************************************************************************)
EXTENDS Naturals, Sequences, SequencesExt, PowDifficulty

CONSTANTS
  Threads,     \* threads calling target_difficulty
  Capacity,    \* TargetDifficultyManager::new(capacity)
  MaxPeriods,  \* adjustment periods consensus reaches
  Walks,       \* [block_count, timespan] pairs a period's header walk gives
  Cip86Period, \* the first period whose boundary height is >= cip86_height
  Unlocked,    \* the write lock is not held
  None         \* a thread has returned nothing yet

ASSUME Capacity \in Nat /\ MaxPeriods \in Nat \ {0}

VARIABLES
  chain,    \* chain[i]: the boundary header of period i
  panicked, \* get_adjustment_bound's U256 sum overflowed: the node is down
  meta,     \* TargetDifficultyCacheInner.meta: VecDeque<H256>
  cache,    \* TargetDifficultyCacheInner.cache: HashMap<H256, U256>
  writer,   \* the thread holding the write lock, or Unlocked
  pc,       \* per thread: "idle", "compute", "set" (waiting for the write
            \* lock), "evict" (in set's loop)
  want,     \* per thread: the hash it asked for and the difficulty to set
  returned  \* per thread: the last [hash, diff] target_difficulty returned

vars == <<chain, panicked, meta, cache, writer, pc, want, returned>>

Hashes == 1 .. MaxPeriods

\* A thread that is not inside target_difficulty wants nothing.
NoWant == [hash |-> 1, diff |-> 0]

Header(d) ==
  {[difficulty |-> d, block_count |-> w[1], timespan |-> w[2]] : w \in Walks}

\* The genesis period has the initial difficulty (ProofOfWorkConfig::new);
\* TargetDifficultyCache::new(capacity) starts empty.
Init ==
  /\ \E h \in Header(InitialDifficulty) : chain = <<h>>
  /\ panicked = FALSE
  /\ meta = <<>>
  /\ cache = <<>>
  /\ writer = Unlocked
  /\ pc = [t \in Threads |-> "idle"]
  /\ want = [t \in Threads |-> NoWant]
  /\ returned = [t \in Threads |-> None]

\* Fault: is_full compares with > instead of >=.
is_full_late == Len(meta) > Capacity

\* TargetDifficultyCacheInner::is_full
is_full == Len(meta) >= Capacity

-----------------------------------------------------------------------------

\* target_difficulty(cur_hash) begins with target_difficulty_manager.get:
\* under the read lock (free of a writer), a hit returns the cached
\* difficulty, a miss goes on to compute it.
Get(t, h) ==
  /\ ~panicked
  /\ pc[t] = "idle"
  /\ writer = Unlocked
  /\ h \in 1 .. Len(chain)
  /\ IF h \in DOMAIN cache
     THEN /\ returned' = [returned EXCEPT ![t] = [hash |-> h, diff |-> cache[h]]]
          /\ UNCHANGED <<pc, want>>
     ELSE /\ pc' = [pc EXCEPT ![t] = "compute"]
          /\ want' = [want EXCEPT ![t].hash = h]
          /\ UNCHANGED returned
  /\ UNCHANGED <<chain, panicked, meta, cache, writer>>

\* The rest of target_difficulty before set: the header walk's block count
\* and timespan give the expected difficulty; from CIP-86 on it is smoothed
\* as 0.8 d + 0.2 d'; get_adjustment_bound(cur_difficulty) panics on a U256
\* overflow, else bounds the result.
Compute(t) ==
  /\ ~panicked
  /\ pc[t] = "compute"
  /\ LET h        == want[t].hash
         hd       == chain[h]
         expected == target_difficulty_of(hd.block_count, hd.timespan, hd.difficulty)
         smoothed == IF h < Cip86Period THEN expected
                     ELSE (hd.difficulty \div 5) * 4 + expected \div 5
     IN IF AdjustmentOverflows(hd.difficulty)
        THEN /\ panicked' = TRUE
             /\ UNCHANGED <<pc, want>>
        ELSE /\ want' = [want EXCEPT ![t].diff =
                           Clamp(smoothed, get_adjustment_bound(hd.difficulty))]
             /\ pc' = [pc EXCEPT ![t] = "set"]
             /\ UNCHANGED panicked
  /\ UNCHANGED <<chain, meta, cache, writer, returned>>

\* set: self.inner.write().
AcquireWrite(t) ==
  /\ pc[t] = "set"
  /\ writer = Unlocked
  /\ writer' = t
  /\ pc' = [pc EXCEPT ![t] = "evict"]
  /\ UNCHANGED <<chain, panicked, meta, cache, want, returned>>

\* Fault: evict_one reads the front of meta without popping it.
Evict_front(t) ==
  /\ pc[t] = "evict"
  /\ is_full
  /\ cache' = IF meta = <<>> THEN cache ELSE RestrictDomain(cache, LAMBDA k : k # Head(meta))
  /\ UNCHANGED <<chain, panicked, meta, writer, pc, want, returned>>

\* One turn of `while inner.is_full() { inner.evict_one() }`: pop the
\* front of meta and remove that hash from the map, if meta had one.
Evict(t) ==
  /\ pc[t] = "evict"
  /\ is_full
  /\ meta' = IF meta = <<>> THEN meta ELSE Tail(meta)
  /\ cache' = IF meta = <<>> THEN cache ELSE RestrictDomain(cache, LAMBDA k : k # Head(meta))
  /\ UNCHANGED <<chain, panicked, writer, pc, want, returned>>

\* The loop exits; insert pushes the hash on meta and (over)writes it in
\* the map; the write guard is dropped as set returns, and
\* target_difficulty returns the difficulty it set.
Insert(t) ==
  /\ pc[t] = "evict"
  /\ ~is_full
  /\ meta' = Append(meta, want[t].hash)
  /\ cache' = (want[t].hash :> want[t].diff) @@ cache
  /\ writer' = Unlocked
  /\ pc' = [pc EXCEPT ![t] = "idle"]
  /\ returned' = [returned EXCEPT ![t] = want[t]]
  /\ want' = [want EXCEPT ![t] = NoWant]
  /\ UNCHANGED <<chain, panicked>>

\* Consensus starts the next period: its blocks carry the difficulty
\* target_difficulty returned for the boundary of the current one.
NewPeriod(t) ==
  /\ ~panicked
  /\ Len(chain) < MaxPeriods
  /\ returned[t] # None
  /\ returned[t].hash = Len(chain)
  /\ \E h \in Header(returned[t].diff) : chain' = Append(chain, h)
  /\ UNCHANGED <<panicked, meta, cache, writer, pc, want, returned>>

Next ==
  \E t \in Threads :
    \/ \E h \in Hashes : Get(t, h)
    \/ Compute(t)
    \/ AcquireWrite(t)
    \/ Evict(t)
    \/ Insert(t)
    \/ NewPeriod(t)

\* Threads are OS threads; parking_lot's RwLock is eventually fair, so a
\* thread waiting for a lock that keeps being released gets it, and a
\* thread that holds it runs.
Fairness ==
  \A t \in Threads :
    /\ SF_vars(AcquireWrite(t))
    /\ WF_vars(Compute(t) \/ Evict(t) \/ Insert(t))

Spec == Init /\ [][Next]_vars /\ Fairness

-----------------------------------------------------------------------------
(* Properties.                                                            *)

\* The map never outgrows the FIFO that evicts from it: meta holds at most
\* `capacity` hashes, and every hash in the map is still in meta, even
\* when two threads that missed the same hash both set it and meta holds
\* it twice.  Otherwise the map would grow without bound.
CacheBounded ==
  /\ Len(meta) <= Capacity
  /\ DOMAIN cache \subseteq Range(meta)

\* Every set returns and releases the write lock: a thread that missed
\* the cache eventually stores its difficulty and goes on, unless the node
\* has panicked.
SetReturns == \A t \in Threads : pc[t] = "set" ~> (pc[t] = "idle" \/ panicked)

\* No period's difficulty falls below the initial difficulty, however the
\* block counts and timespans go and whether target_difficulty computed
\* it or read it from the cache: get_adjustment_bound's floor holds after
\* the CIP-86 smoothing and across periods.
DifficultyAtLeastInitial ==
  \A i \in 1 .. Len(chain) : chain[i].difficulty >= InitialDifficulty

\* Nonces whose upper halves give every lower bound, with and without the
\* top bit.
Nonces == {h * 2^(W \div 2) : h \in 0 .. (2^(W \div 2) - 1)}

\* The difficulties at which validate_hash_against_boundary with
\* difficulty_to_boundary accepts a hash exactly when its reference quality
\* reaches the difficulty, and pow_hash_to_quality computes that quality.
AgreeingDifficulties ==
  {d \in 1 .. MaxU :
     \A hash \in 0 .. MaxU, nonce \in Nonces :
       /\ pow_hash_to_quality(hash, nonce) = RefQuality(hash, nonce)
       /\ validate_hash_against_boundary(hash, nonce, difficulty_to_boundary(d))
            <=> RefQuality(hash, nonce) >= d}

\* At every difficulty a period reaches, mining, validation and the
\* consensus weight of a block agree at every hash and nonce, including
\* exact powers of two, a = MAX and difficulty 1.
MiningAgreesWithQuality ==
  \A i \in 1 .. Len(chain) : chain[i].difficulty \in AgreeingDifficulties

=============================================================================
