# TLA+ models of mazze-rust

This directory holds TLA+ models of the parts of mazze-rust that have state
or an algorithm worth model checking. It also holds the TLC configurations
that check them, and `PROJECT.json`, which records:
- each component and its status;
- each run and what it checks;
- the mutants that show each property can fail;
- the map from each definition to the source lines it models;
- the findings;
- the hazards.

The core is the Jellyfish Merkle tree (JMT), the versioned sparse Merkle tree
behind PoS state storage. `spec.md` specifies it, and its code is in
`src/crates/mazzecore/core/src/pos/storage/jellyfish-merkle/src/`.

Run any check from this directory with `tlc -workers 2 -config <cfg> <module>`.

## 1. The system's parts

| Part | Source | State | Operations that change state | Modules | Status |
|---|---|---|---|---|---|
| JMT insertion and reads | `jellyfish-merkle/src/lib.rs` | a TreeCache for one `put_value_sets` call | `put_value_sets`, `put`, `insert_at*`, `create_leaf_node`; reads `get_with_proof`, `get_root_hash`, `get_range_proof` | `JellyfishMerkle`, `VersionedKV`, `MCJellyfishMerkle` | modelled |
| TreeCache, node types, proofs | not under `src/` (Diem crates) | node_cache, stale_node_index_cache, frozen cache, root key, next version | `new`, `get_node`, `put_node`, `delete_node`, `freeze` | `JellyfishMerkle` | modelled from spec.md 3 and 4.1 |
| MockTreeStore | `jellyfish-merkle/src/mock_tree_store.rs` | node map and stale-index set behind one RwLock | `write_tree_update_batch`, `put_node`, `put_stale_node_index`, `purge_stale_nodes` | `JellyfishMerkle` | modelled, except the restore-only calls |
| PoW conversions, difficulty adjustment and its cache | `core/src/pow/mod.rs` | the chain's period difficulties; the TargetDifficultyManager's FIFO `meta` and map behind one RwLock | `target_difficulty` (get, compute, set with its evict loop and insert), `get_adjustment_bound`, the boundary/difficulty/quality conversions | `PowConversions`, `PowDifficulty`, `TargetDifficulty`, `MCTargetDifficulty` | modelled |
| Stratum miner client | `bins/mazze-miner/src/stratum_clients.rs` | connection, current job | subscribe, receive (30 s timeout), handle notify, mine, submit | `StratumClient` | modelled |
| Keystore cracker | `bins/mazze_store/src/crack.rs` | shared password queue, worker threads | `run`, `look_for_password` | `KeystoreCracker` | modelled |
| eth_feeHistory, receipts, lookups, calls and sends | `client/src/rpc/impls/eth/eth_handler.rs` 82-261, 263-473, 475-909, 911-1289, `rpc/types/fee_history.rs` | none of its own: reads the main chain's phantom blocks and the pool | `fee_history`, `FeeHistory::push_front_block`, `finish`, `compute_reward`; `transaction_receipt`, `block_receipts`, `construct_rpc_receipt`; the block, transaction, uncle and count lookups, `block_number`, `max_priority_fee_per_gas` | `FeeHistory`, `EthReceipts`, `EthBlocks`, `EthCall`, `MCEthRpc` | modelled, with `sign_call`, `call`, `estimate_gas`, `send_raw_transaction`, `gas_price`, `syncing`, `transaction_count`, `chain_id`, `account_pending_transactions`, `balance`, `storage_at`, `code_at`, `logs` and the constant handlers (`EthCall`) |
| Interoperability bridge | `interoperability/src/` | supported chains, public keys | `initiate_swap`, `initiate_transfer`, `BlockchainMessage::new`/`verify`, `process_message` | `Bridge`, `MCBridge` | modelled |
| Governance | `governance/src/` | voters, votes, proposals | register, vote, propose, results | none | not modelled: the crate's `lib.rs` never declares `voting` or `proposals` |
| Performance, privacy, unique id | `performance/`, `privacy/`, `core/src/unique_id.rs` | timed cache, counters | cache get/put | none | not modelled yet |
| RPC, CLI, inspector, PoS types and messages | `client/`, `bins/mazze/`, `pos/types`, `pos/protocol` | none of their own | request translation, I/O | none | not modelled |

### How the JMT parts interact

A writer calls `put_value_sets(sets, first_version)`. It builds a TreeCache on
the store. For each write set at version `v`, it calls `put` per pair, then
`freeze`. `put` walks from the cache's root key through `insert_at`. That
dispatches to `insert_at_internal_node` or `insert_at_leaf_node` and recurses.
Every replaced node is passed to `delete_node`. Every new node goes through
`put_node` at version `v`. The cache reads committed nodes lazily from the
store. The caller hands the returned `TreeUpdateBatch` to
`write_tree_update_batch`, or drops it. `purge_stale_nodes(l)` runs at any time
under the store's write lock. Readers (`get_with_proof`, `get_root_hash`) read
the store only.

### What makes the JMT hard

- The recursion must stage exactly the nodes of the collapsed tree.
- It has several edge cases: an empty root, an update of the same key, and keys
  that diverge deep below a leaf.
- Stale entries must say exactly when each node stops being reachable, or purge
  breaks a readable version or leaks nodes.
- A multi-version batch reads nodes it froze itself.
- A purge can run while a batch lazily reads the store.
- The mock's batch write is not atomic: it writes per node and stops at the
  first error. Purge also stops at its first error.

## 2. Modules

### `VersionedKV` (abstract)
This is what the tree promises, with no tree in it:
- `readable` maps each readable version to a snapshot `Keys -> Values \cup {NoValue}`;
- `staged` is the sequence of snapshots a writer has built;
- `open` and `busy` are the writer's flags;
- `pruned` is the least readable version the last prune was given.

| Action | What it does |
|---|---|
| `Begin` | a writer takes a batch |
| `Write(k, x)` | updates the open snapshot, or opens the next one on top of the last |
| `Seal` | closes the open snapshot |
| `Publish` | appends every staged snapshot to `readable` at once |
| `Abandon` | drops the batch |
| `Prune(l)` | drops the versions below `l`, except the newest, and records `l` |

### `JellyfishMerkle` (detailed)

The keys are `KeyLen` nibbles of one bit each. A hash is an injective term:
- `<<"leaf", k, x>>` for a leaf;
- `<<"internal", childHashes>>` for an internal node;
- the model value `Placeholder` for an empty subtree.

So two hashes are equal exactly when the trees are.

Variables:

| Variable | Code | What it holds |
|---|---|---|
| `store` | `MockTreeStore.data.0` | committed nodes |
| `staleIndex` | `MockTreeStore.data.1` | the stale index |
| `cache` | the TreeCache of a running `put_value_sets` | record, or `NoCache` |
| `setSize` | the position in the current write set | number |
| `failure` | the first Err returned | `"none"` or the failing step |

Actions, one per code path:

| Action | Code |
|---|---|
| `BeginBatch` | `TreeCache::new` |
| `Put(k, x)` | one pair's `put`; an Err aborts the call |
| `FreezeSet` | `freeze` |
| `CommitBatch` | `write_tree_update_batch`: nodes in `NodeKey` order, each refused if present, then stale indices |
| `DiscardBatch` | the caller drops the batch |
| `Purge(l)` | `purge_stale_nodes` with its `take_while` and its early Err |

The insertion code is RECURSIVE operators named as in `lib.rs`:
`insert_at`, `insert_at_internal_node`, `insert_at_leaf_node`,
`create_leaf_node`, and `WrapCommonNibbles` for the loop at lines 544-561.
`GetWithProofFrom` is the loop of `get_with_proof`, and `get_range_proof`
keeps the right-hand siblings of its proof. `Verify` is
`SparseMerkleProof::verify`. The TreeCache, the node types and `Verify` are
not under `src/`. They are modelled from spec.md and marked `spec_modelled` in
`PROJECT.json`. `delete_node` follows the TreeCache the code relies on: a node
staged in the same version is dropped from the cache rather than recorded
stale. This is the only reading under which a second write in version 0
succeeds (lib.rs 362-365).

Reference definitions used by the properties:
- `SubtreeHash` is the sparse Merkle hash of a snapshot, computed directly from
  its keys;
- `Content` is the key/value map a root reaches.

`MCJellyfishMerkleRefinement` extends `MCJellyfishMerkle` with a history
variable, `lastPurge`, the argument of the last `purge_stale_nodes`; the code
keeps no record of it. Without it the abstract `Prune(l)` could pick any `l`
that fits, and a purge that also dropped version `l` would pass as a prune at
`l + 1`. It instantiates `VersionedKV` with this refinement mapping:

| Abstract variable | Maps to |
|---|---|
| `readable` | the content of every version whose root is in the store |
| `staged` | the content of every version the cache has built |
| `open` | a write set is in progress |
| `busy` | a cache exists |
| `pruned` | `lastPurge` |

`CommitBatch` writes a batch in one step, while `write_tree_update_batch`
takes the store's lock once per node and per stale entry (hazard at
`mock_tree_store.rs:99`). So the refinement checks that a published version
never changes and that a purge drops exactly what it should; that a batch
appears all at once is assumed, not checked.

### `MCJellyfishMerkle`
It fixes 4 keys of 3 nibbles: `000`, `001`, `010` and `100`. Together they give:
- one split at depth 0;
- a split at depth 1;
- a split at depth 2 under a run of shared nibbles.

There are two values as model values, with symmetry.

### `PowConversions`, `PowDifficulty`, `TargetDifficulty` and `MCTargetDifficulty`
`PowConversions` translates the conversions of `pow/mod.rs` at a width of
`W` bits instead of 256, keeping their modular arithmetic:
- `nonce_to_lower_bound`;
- `compute_inv_x_times_2_pow_256_floor`;
- `boundary_to_difficulty` and `difficulty_to_boundary`;
- `validate_hash_against_boundary`;
- `pow_hash_to_quality`.

`RefQuality` is the reference they are checked against: `floor(2^W / (a + 1))`
of the hash above its lower bound, capped at MAX. It is computed without the
code's inverse trick.

`PowDifficulty` holds the pure parts of the adjustment:
- `target_difficulty_of`, the expected difficulty of a period;
- `get_adjustment_bound`, whose `diff + adjustment` panics on a U256
  overflow (`AdjustmentOverflows`);
- `Clamp`, the bounding of the result.

`TargetDifficulty` composes them with the TargetDifficultyManager cache,
because `target_difficulty` (mod.rs 353-422) calls the cache's `get` first
and its `set` last. Its state:
- `chain`, the boundary headers of the periods so far. Each carries the
  difficulty of its blocks and the block count and timespan of the header
  walk, one of `Walks`. A period's hash is its index.
- `panicked`, set when the U256 sum overflows.
- `meta` (the VecDeque) and `cache` (the map from hash to difficulty).
- `writer`, the write-lock holder.
- `pc`, `want` and `returned`, each thread's position, the hash and
  difficulty it works on, and what its last call returned.

Actions, each thread calling `target_difficulty(cur_hash)`:
- `Get` is the read-locked lookup; a hit returns.
- `Compute`, on a miss and outside any lock: the expected difficulty, the
  CIP-86 smoothing 0.8 d + 0.2 d' from `Cip86Period` on, and the clamp to
  `get_adjustment_bound` (or the panic).
- `set` runs as `AcquireWrite`, one `Evict` per turn of
  `while is_full() { evict_one() }`, and `Insert`, which releases the lock
  and returns the difficulty.
- `NewPeriod` is consensus starting the next period with the difficulty a
  thread returned for the current boundary.

Two threads missing the same hash both insert it, so `meta` can hold a hash
twice. The headers live in BlockDataManager, which is not in this
repository, so the walks come from a small set.

Fairness is strong on `AcquireWrite`, because parking_lot's RwLock is
eventually fair. It is weak on the steps a thread takes while computing or
holding the lock. `MCTargetDifficulty` defines `Walks`, a set of pairs that a
.cfg cannot write.

### `StratumClient`
This module models the one tokio task of `StratumClient::run`, against a
server that sends lines in order at any time and may close the connection.

Lines are abstracted to the cases the client's branches tell apart:
- garbage;
- a result;
- a notify with its job;
- a notify with too few or no params;
- another method.

A job carries:
- a height, or one that does not parse;
- a pow hash;
- a boundary: a number, hex that does not decode, or more than 32 bytes.

Client actions:
- `Subscribe` and `ReceiveSubscription`;
- `ReceiveMessage`, one turn of the loop, which runs `parse_job` and then
  `StartJob`;
- `ReceiveNothing`, for EOF or the 30 s timeout;
- `MineJob`, `mine_job`: it checks nonces 0, 1, ... with the client's
  `PowComputer::compute` until one passes or the 10 s run out;
- `SubmitShare`.

Server actions: `ServerSend` and `ServerClose`.

`parse_job` keeps the order of the code's checks:
1. hex decode;
2. the 32-byte copy, whose `32 - len` underflows and panics;
3. the height parse;
4. `ProofOfWorkProblem::new`, which asserts a non-zero third argument.

`compute` returns the zero hash while the VM is `None`, and the client's VM
is always `None`. Otherwise it returns `randomx[block_hash][nonce]`, a RandomX
value fixed for the behaviour and chosen in Init. `validate` is
`pow::validate`: the node's check, with a VM keyed by the job's block hash.

Fairness is weak on the client: it is one task, and tokio's timer fires the
timeout.

### `KeystoreCracker`
This module models `run` and the `look_for_password` threads sharing a
`Mutex<VecDeque>` of candidate passwords:
- `Spawn` may fail, as `PresaleWallet::open` with `?`;
- `Join`;
- `Check`, the `while !is_empty()` test;
- `Take`, `split_off(min(len, 32))` under the lock;
- `Try`, one password of the package; the finder clears the queue.

Passwords are `1..NumPasswords`. Init chooses the wallet's password, or none.
Every thread is weakly fair, because they are OS threads.

### `FeeHistory`, `EthReceipts`, `EthBlocks`, `EthCall` and `MCEthRpc`
This module models `eth_feeHistory`. The handler holds the consensus read lock
for the whole request, so `FeeHistoryRequest(block_count, newest)` is one
step. It computes `fee_history` whole:
1. the early return for `block_count = 0`;
2. the height lookup;
3. the loop (`FeeHistoryLoop`, RECURSIVE) with its saturating lower bound and
   its break at 0;
4. `push_front_block`, with its pre-1559 branch and `compute_reward`;
5. the fetch of the block after `newest`;
6. the `oldest_block` rule;
7. `finish`.

`AppendBlock` is consensus extending the main chain; consensus itself is not in
this repository.

A block is its base price (or none), its gas limit and up to `MaxTxs`
transactions. `effective_gas_price` is not in this repository, so each
transaction carries any value for it. A gas-used ratio is kept as the pair it
divides. The reference `RefPercentile` picks the value at a percentile by
counting, with no sort.

`EthReceipts` extends `FeeHistory` with the two receipt handlers over the same
chain:
- `TransactionReceiptRequest(height, idx, best_executed)` models
  `transaction_receipt`. It returns None for an unknown hash, or for an epoch
  past the best executed one. Otherwise it runs its for loop
  (`TransactionReceiptLoop`), which counts the logs of the transactions it
  passes, and it hides a skipped transaction.
- `BlockReceiptsRequest(height)` models `block_receipts`: every receipt in
  order, sharing one `prior_log_index`.

Both build receipts with `construct_rpc_receipt`: gas used from the
accumulated gas, logs numbered within the block, and the effective gas price.
A transaction carries its outcome status, its number of logs and its gas used.
Its hash is its position in the chain. The function's checks for an
inconsistent phantom block are not modelled, because every phantom block
consensus builds passes them.

`response` is the answer to the last request, and each request is one step.
`ReadResponse` is the caller taking that answer. It stutters the handler, and
a new request or block waits for it. Without it, every pending answer would be
recomputed at every later state.

`EthBlocks` extends `EthReceipts` with the handler's block and transaction
lookups over the same chain. Each request is one `Lookup(kind, result)` step,
because the handler holds the consensus read lock throughout:
- `rpc_block` is `block_by_hash` and `block_by_number`.
- `block_transaction_count` is `block_transaction_count_by_hash` and
  `block_transaction_count_by_number`.
- `block_uncles_count_by_hash` and `block_uncles_count_by_number` return 0
  for a known main block.
- `uncle_by_block_and_index` always returns None.
- `transaction_by_hash` looks the hash up in the pool when the transaction
  index does not know it. Otherwise it walks the phantom block and hides a
  skipped transaction.
- `transaction_by_block_hash_and_index` and
  `transaction_by_block_number_and_index` both go through
  `block_tx_by_index`.
- `block_number` returns the height.
- `max_priority_fee_per_gas` is `fee_history(300, latest, [50])`: the sum of
  the first rewards, times `evm_transaction_block_ratio`, over 300.

Some things are abstracted:
- A block hash is its epoch plus whether it is the epoch's main block, and
  only a main block has a phantom block.
- The pool (`PoolSpace`) maps a few hashes to their space.
- `RpcBlock::from_phantom` is not in this repository, so a block is returned
  as its height, hash and transaction count.

No property reads a lookup's answer, so the view `LookupView` merges states
that differ only in which lookup was answered. `TransactionLookupsAgree` is
checked in the states where no answer is pending. Every chain the model
reaches is reached in such a state.

`EthCall` extends `EthBlocks` with the handlers that build, sign, execute and
send transactions, over the same chain:
- `sign_call` picks the transaction type: the request's own
  `transaction_type % 256` when it gives one; otherwise EIP-1559 when a fee
  field is set, EIP-2930 with an access list, else legacy. An unknown type is
  `InvalidParams`. Gas defaults to, and is capped at, `MaxGasCallRequest`;
  the gas price and the two 1559 fees take their defaults per type
  (`max_fee_per_gas`, from lines 104-107).
- `call_epoch` resolves the block: `latest` is the latest state, a hash is
  resolved through consensus and must be its epoch's main block, else
  `BlockNotFound`.
- `exec_call` is `exec_call` after `unset_zero_gas_price`; the executor is not
  in this repository, so its outcome is any of the seven `ExecutionOutcome`
  kinds or an error. `call` and `estimate_gas` map `Finished` to an answer and
  every other outcome to a call error, reverted or not.
- `send_raw_transaction` decodes (any raw may fail to decode) and goes through
  `send_transaction_with_signature`: rejected in catch-up mode, then the pool
  inserts, fails or ignores it.
- `gas_price`, `syncing`, `transaction_count`, `chain_id` and
  `account_pending_transactions` read the pool, the sync phase or the chain.
- `balance`, `storage_at` and `code_at` open the state at an epoch (or fail
  to), then read the account: no account is zero, the zero word or empty
  code, and `code_at` is also empty when `get_code` finds no code.
- `logs` fails, or finds a count of logs, and answers invalid_params when the
  count exceeds `get_logs_filter_max_limit`, if it is set.
- `hashrate`, `author`, `is_mining`, `submit_hashrate`, `accounts` and
  `protocol_version` answer constants (`ConstantAnswers`).

Each handler is one `Lookup` over its set of possible answers. The call
answers of a request do not depend on the chain, so `ResolvedAnswers` is a
constant-level function TLC computes once; only `call_epoch` reads the chain.
`CallBlocks` gives `latest`, the main block at 0 and a hash of epoch 0 that is
not main. `CallView` merges the new answer kinds like `LookupView`.

`MCEthRpc` gives three transactions, so a chain of three blocks stays within a
minute, and two call requests: one that sets only the priority fee above
the default gas price with a zero gas price, and one of type 3 (an EIP-7702
number the code does not know) with an access list and gas above the cap.

### `Bridge` and `MCBridge`
This module models the interoperability crate. A relayer has seen signed
messages and may hand `process_message` any of them with its chains rewritten
or its signature replaced by bytes that do not parse (`Malformed`).

`InitiateSwap(req, sk)` is `initiate_swap`, over a `SwapRequest`, and
`InitiateTransfer(req, sk)` is `initiate_transfer`, over a `TransferRequest`.
Both take the same three steps:
1. the zero-amount check;
2. `to_message`, which is `BlockchainMessage::new` signing the payload with the
   caller's key;
3. `process_message`.

`Relay(m)` is `process_message` of a rewritten or replayed message.
`process_message` keeps the code's order:
1. the supported-chain check;
2. the key lookup;
3. `verify`, whose `from_compact(..).unwrap()` panics on malformed bytes;
4. forwarding.

A signature is the pair (key, payload), so it verifies exactly when it names
the looked-up key and the message's payload. `MCBridge` gives:
- chains `a`, `b`, `c`, with `b` and `c` supported;
- keys registered for `a` and `b`;
- a key `kM` of no chain.

## 3. Runs

| Run | Config | Checks | Bounds | Result |
|---|---|---|---|---|
| `jmt_invariants` | `MCJellyfishMerkle.cfg` | `TypeOK`, `RootHashIsReference`, `ProofsVerify`, `RangeProofsAreRightSiblings`, `StaleIndexExact`, `NoOperationFails` | versions 0..2, at most 2 pairs per set, 2 sets per batch, purge at any level | pass, 95,190 states (about 1 min) |
| `jmt_refinement` | `MCJellyfishMerkleRefinement.cfg` | `ImplementsVersionedKV` | versions 0..1, otherwise as above | pass, 10,996 states (about 1.5 min) |
| `cracker_safety` | `KeystoreCracker.cfg` | `PasswordsConserved`, `FoundStopsAll` | 2 threads, 3 passwords, packages of 2 | pass, 171 states |
| `cracker_termination` | `KeystoreCrackerTermination.cfg` | `Termination` | as above | violation (finding 1) |
| `target_difficulty` | `MCTargetDifficulty.cfg` | `CacheBounded`, `DifficultyAtLeastInitial`, `MiningAgreesWithQuality`, `SetReturns` | W = 8, initial difficulty 128, factor 2, 2 threads, capacity 2, 3 periods, CIP-86 from period 3, walks (5,1), (2,3), (1,1) | pass, 188,553 states (about 45 s) |
| `stratum_session` | `StratumClient.cfg` | `SessionEnds` | W = 8, 3 server lines, heights {1,2}, boundaries {0,1,2,200, bad hex, too long}, RandomX hashes {5,100}, 2 nonces per mining attempt | pass, 362,836 states |
| `stratum_validate` | `StratumClientValidate.cfg` | `ShareValidates` | as above | violation (finding 2) |
| `eth_rpc_chain` | `MCEthRpc.cfg` | `HistoryMatchesChain`, `RewardsArePercentiles`, `ReceiptsMatchBlock`, `TransactionLookupsAgree`, `SignedCallFeesOrdered` | main chain up to height 2, block counts 0..3, request heights up to the tip + 1, up to 2 of 3 transactions per block, percentiles 25, 50, 100 | pass, 581,828 distinct states under `CallView` (about 40 s) |
| `fee_history_oldest` | `MCEthRpcOldest.cfg` | `OldestBlockIsFirstReported` | as above | violation (finding 3) |
| `sign_call_type` | `MCEthRpcTxType.cfg` | `UnknownTypesRejected` | as above | violation (finding 5) |
| `bridge_panic` | `MCBridge.cfg` | `ProcessMessageNeverPanics` | 3 chains, 3 keys, amounts {0,1}, 2 requests, any relaying | violation (finding 6) |
| `bridge_routing` | `MCBridgeForwardedAsRequested.cfg` | `ForwardedAsRequested` | as above | violation (finding 4) |

What the properties say:
- **RootHashIsReference**: the root of every readable version hashes to the
  reference sparse Merkle hash of its contents. So insertion builds exactly the
  collapsed tree, whatever the order of writes and batches.
- **ProofsVerify**: for every readable version and every key,
  `get_with_proof` returns the version's value. Its proof folds to
  `get_root_hash`, and no other value passes that proof.
- **RangeProofsAreRightSiblings**: `get_range_proof` refuses a key the version
  does not hold. For every key it holds, it returns exactly the reference
  hashes of the subtrees to the key's right, lowest first. This checks the bit
  filter, both reversals and the truncating zip against the collapsed tree.
- **StaleIndexExact**: every index entry names a stored node.
  - No version at or after `stale_since_version` reaches that node.
  - The version just before does reach it.
  - Every stored node the latest version does not reach has an entry.

  Together these make purge safe and leak-free.
- **NoOperationFails**: no `put`, batch write or purge returns Err. This covers
  a purge that runs in the middle of a batch.
- **ImplementsVersionedKV**: the tree with its store implements `VersionedKV`:
  a published version never changes, and `purge_stale_nodes(l)` drops
  exactly the versions below `l` but the newest.

Each property has a mutant in `PROJECT.json`. Each mutant is a plausible bug
in the code it replaces, and TLC finds the property violated under that
mutant:
- the rebuilt internal node keeping its old version (`set_version` dropped,
  lib.rs 430);
- a parent keeping its child's old hash;
- siblings not reversed (lib.rs 626);
- range-proof siblings left root-first (lib.rs 682);
- purge removing nodes but not their index entries (mock 129);
- the Null root not deleted before the first leaf replaces it (lib.rs 363);
- purge's `take_while` also taking the entries retired at `l + 1`.

Why the bounds are enough. Three-nibble keys make every insertion case happen:
- the empty root;
- an update of the same key;
- a fork at the root;
- a fork under an internal node;
- a fork below a run of shared nibbles.

Three versions with two-set batches make the rest happen:
- a batch that reads its own frozen nodes;
- stale entries of several ages;
- purges at, below and above the live versions.

The refinement run uses two versions because the mapping is recomputed on every
step (three ran for more than 30 minutes). Two are enough for the purge
boundary: version 0's root is retired at 1, so a purge at 0 that also took
the entries retired at 1 drops a version it must keep, and TLC finds it.

No liveness is checked yet. The JMT has no waiting and no retry loop: every
operation finishes in one step of the model.

### The other components' properties

- **PasswordsConserved**: until the password is found, the queue, the threads'
  packages and the tried set hold every candidate exactly once, however the
  threads interleave their locked steps.
- **FoundStopsAll**: once a thread finds the password, every thread ends and
  `run` returns. This covers a thread that is between its emptiness check and
  its `split_off`.
- **MiningAgreesWithQuality**: at every difficulty the adjustment reaches,
  validating against `difficulty_to_boundary(d)` accepts exactly the hashes
  whose reference quality is at least `d`. `pow_hash_to_quality` computes that
  quality. This holds for every hash and every kind of nonce, at the edges 1,
  MAX and powers of two.
- **CacheBounded**: `meta` never exceeds the capacity, and every hash in the
  map is still in `meta`. This holds even when two threads set the same hash.
- **SetReturns**: a thread that missed the cache eventually stores its value
  and releases the write lock, unless the node has panicked.
- **DifficultyAtLeastInitial**: no period's difficulty falls below the
  initial difficulty, whether `target_difficulty` computed it or read it from
  the cache. The floor of `get_adjustment_bound` holds across periods and
  after the CIP-86 smoothing.
- **SessionEnds**: `run` returns. The 30 s timeout keeps a silent server from
  holding the client.
- **HistoryMatchesChain**: a fee history lists the last
  `min(block_count, newest + 1)` main blocks up to `newest`, oldest first,
  followed by the base price of the next block.
- **RewardsArePercentiles**: each block's rewards are the requested
  percentiles of what its transactions pay at or above the base price.
  `compute_reward`'s sort, truncation and clamp are checked against the
  sort-free reference.
- **ReceiptsMatchBlock**: every receipt, from either handler, carries its
  transaction's own gas used and the block's cumulative gas up to it. Its logs
  are numbered after every log of the transactions before it in the block. A
  transaction receipt is the one asked for, and block receipts list the block
  in order.
- **TransactionLookupsAgree**: in every executed block, each transaction is
  the same whether it is looked up by block hash and index or by block number
  and index. Looked up by its own hash, it is the same transaction, and it is
  hidden exactly when `transaction_receipt` hides its receipt, which happens
  when it was skipped. A block's transaction count matches the receipts
  `parity_getBlockReceipts` lists for it.
- **SignedCallFeesOrdered**: every EIP-1559 call `sign_call` builds, from a
  request that did not set both fees itself, has a priority fee no greater
  than its fee cap. A request that sets only the priority fee gets that fee as
  its cap, not the default gas price below it.
- **UnknownTypesRejected** (expected to fail): `sign_call` rejects a request
  whose transaction type it does not recognize.
- **ProcessMessageNeverPanics** (expected to fail): `process_message`
  answers every message with Ok or a `BridgeError`, and never panics.

Mutants of these properties:
- `split_off` copied instead of taken;
- the finder not clearing the queue;
- `is_full` with `>`;
- an evict that does not pop;
- `compute_inv` without its correction;
- `get_adjustment_bound` without its floor at the initial difficulty;
- a receive with no timeout;
- pushing to the back of the history;
- rewards not sorted;
- `transaction_receipt` not counting the logs of the transactions it passes;
- `transaction_by_hash` returning a skipped transaction;
- `max_fee_per_gas` falling back to the gas price and ignoring the priority
  fee.

### Findings

1. **The cracker never returns, and skips the first passwords** (`crack.rs:77`,
   code bug). `VecDeque::split_off(at)` returns the elements from `at` on and
   keeps the first `at`. So a package is the tail beyond 32, and the first
   `min(len, 32)` passwords stay in the queue. Once the queue holds at most 32,
   every package is empty. The threads spin on a non-empty queue and never try
   those passwords. TLC: 3 passwords with packages of 2; one thread takes
   `<<3>>`, then both threads take empty packages forever.
2. **The stratum client submits nonce 0 for every job without hashing**
   (`stratum_clients.rs:194`, code bug). `connect` builds its `PowComputer`
   with `new()`, whose VM is `None`. Nothing on the client's path calls
   `initialize`; `Miner::mine` does, but the client does not use it. So
   `compute` returns `H256::zero()`, and nonce 0 passes every boundary. TLC:
   a job of difficulty 200 is solved at once with nonce 0, and `pow::validate`,
   which initializes a VM for the job, gets the hash 5 and rejects it.
3. **eth_feeHistory reports the wrong oldest block** (`eth_handler.rs:979`,
   code bug). When the window's lower bound is 1 (`newest = block_count`), the
   loop leaves `current_height` at 0. The rule `if current_height == 0 { 0 }`
   then reports block 0 for a history that starts at block 1. TLC:
   `eth_feeHistory(1, 1)` returns one entry with `oldestBlock` 0.
4. **A relayer can redirect a signed bridge message** (`bridge.rs:31`, code
   bug). `BlockchainMessage::new` signs only the payload, and `process_message`
   routes by the unsigned `from_chain` and `to_chain`. TLC: a request `a -> a`
   is rejected, because `a` is unsupported. The same signed message with
   `to_chain = b` is verified and forwarded to `b`.

5. **eth_call signs a transaction of an unknown type** (`eth_handler.rs:114`,
   code bug). `sign_call` matches on `transaction_type.as_usize() as u8`, so
   a requested type of 258 is truncated to 2 and signed as an EIP-1559 call.
   The match's catch-all arm answers an unrecognized type with
   invalid_params. TLC: the request of type 258 is signed in the initial
   state.

6. **A relayer can crash the bridge** (`lib.rs:34`, code bug).
   `BlockchainMessage::verify` unwraps `Signature::from_compact`, so a
   message whose signature bytes are not a compact signature panics
   `process_message` instead of getting `InvalidSignature`. Anyone who can
   hand the bridge a message can do this. TLC: a swap `a -> b` is
   forwarded, and the same message with its signature replaced by
   malformed bytes panics.

Observed while modelling, with no run spent on them (see the hazards in
`PROJECT.json`):
- The capacity-0 target-difficulty cache spins in its evict loop while holding
  the write lock. Nothing in this repository constructs one.
- `get_adjustment_bound` overflows U256 near `2^256`. At 8 bits TLC reaches it
  after nine fast periods, but no real hash rate reaches that difficulty.
- `parse_job` passes `params[3]`, named `boundary`, as
  `ProofOfWorkProblem::new`'s difficulty argument. Which one the server sends
  is up to the server, which is not in this repository.
- The miner's `main.rs` declares `mod stratum_client;`, but the file is
  `stratum_clients.rs`.

### Fairness, and why the bounds are enough

- **Cracker.** Weak fairness per thread, plus `Join`, because the threads are OS
  threads. Two threads and three passwords in packages of two reach every
  `split_off` case: a full package, a short package and an empty one.
- **Target difficulty.** Strong fairness on `AcquireWrite`, because the
  lock is eventually fair; weak fairness on the steps of a thread that computes
  or holds the lock. Capacity 2 with three periods and two threads reaches
  eviction, a duplicate insert, and a reader blocked by a writer. The walks
  give a fast period (5 blocks in 1 unit), a slow one and a steady one, so the
  difficulty rises to the bound, falls to the floor, and, from 128 at 8 bits,
  overflows U256 and panics. CIP-86 smoothing applies in the third period.
- **Stratum client.** Weak fairness on the client task. Three server lines
  cover every pair of events:
  - a notify while mining;
  - a close while mining;
  - a silent server;
  - a bad line after a good one.
- **Fee history.** Height 2 with block counts 0..3 reaches every case:
  - a window clipped at genesis;
  - the break at 0;
  - the lower bound 1;
  - a newest block that is the tip.
  Two transactions with percentiles 25, 50 and 100 reach the truncation and the
  clamp. Of the three transactions, one has two logs, one fails and uses 2 gas,
  and one is skipped below the base price. A fourth (one log, below the
  base price) reached no case the others miss and quadrupled the run. Two per block put
  logs and gas before a requested transaction, and a skipped one among them.
- **Bridge.** Two requests make both a rejected and an accepted message
  available to the relayer.
- **PoW.** A panic ends a behaviour, which is why `MCTargetDifficulty.cfg`
  disables deadlock checking.

## 4. Plan

Done:
- the JMT and its abstract specification;
- the PoW conversions and difficulty adjustment;
- the keystore cracker;
- the stratum client;
- eth_feeHistory, eth_getTransactionReceipt and parity_getBlockReceipts;
- JMT `get_range_proof`;
- the bridge;
- the block and transaction lookups (`EthBlocks`);
- `sign_call`, `call`, `estimate_gas`, the send handlers, the state readers
  `balance`, `storage_at`, `code_at`, `logs` and the constant handlers
  (`EthCall`);
- `target_difficulty` composed with its cache (`TargetDifficulty`).

Next, most important first:
1. A JMT reader interleaved with the mock's per-node batch write. Spec 5 asks
   for atomic visibility, but `write_tree_update_batch` takes the write lock
   once per node, root first in `NodeKey` order. The mock is compiled only for
   tests and fuzzing, so this would be a statement about the tests' store. A
   useful property would be that such a reader gets a missing-node error and
   never a wrong value.
2. `performance/src/caching.rs` (a timed cache) and `core/src/unique_id.rs`.
   Each is a single locked map or atomic counter with no property beyond the
   library's own.

The transaction lookups are checked by a property about agreement between
handlers, not by one that restates a handler line for line.

## 5. Not modelled

- Governance (`governance/src/`). It is not compiled into its crate:
  `lib.rs` never declares `voting` or `proposals`, and it declares other
  modules that do not exist. Its stores are push-only lists. The
  crate's own tests already show that it accepts duplicate votes and votes on
  closed proposals, which the tests expect it to reject.
- The RPC trace handlers, the conversion of a BlockNumber or log filter and
  the state database they open (`EthCall` takes their answers, or errors,
  from small sets), the pool's own retry of a rejected insert, the CLI binaries, the inspector, and the PoS types and
  message wrappers. They translate requests and do I/O over interfaces that are
  not in this repository, and they hold no state of their own.
- Hashing bytes and the encoding of nodes. They are abstracted to injective
  terms, as spec.md 9 leaves the encoding open.
