------------------------------ MODULE EthBlocks ------------------------------
(***************************************************************************)
(* The block and transaction lookups of the Ethereum-space RPC handler    *)
(* (client/src/rpc/impls/eth/eth_handler.rs), over the main chain of      *)
(* FeeHistory: eth_getBlockBy{Hash,Number}, eth_getBlockTransactionCount- *)
(* By{Hash,Number}, eth_getUncleCountByBlock{Hash,Number}, eth_getUncle-  *)
(* ByBlock{Hash,Number}AndIndex, eth_getTransactionByHash,                *)
(* eth_getTransactionByBlock{Hash,Number}AndIndex, eth_blockNumber and    *)
(* eth_maxPriorityFeePerGas.                                               *)
(*                                                                         *)
(* Consensus's lookups are not in this repository.  As EthReceipts, a     *)
(* transaction's hash is its position <<height, index>> in the chain; a   *)
(* block hash is its epoch and whether it is the epoch's main block; only *)
(* a main block has a phantom block.  The transaction pool holds the      *)
(* hashes of PoolSpace, each in a space.  RpcBlock::from_phantom is not    *)
(* in this repository either: a block is returned as its height, hash and *)
(* transaction count.                                                      *)
(***************************************************************************)
EXTENDS EthReceipts, Integers

CONSTANTS
  PoolSpace, \* the transaction pool: hash |-> "Ethereum" or "Native"
  EvmRatio   \* params().evm_transaction_block_ratio

NoPhantom == -1
Some(x) == [status |-> "ok", value |-> x]

\* Block and transaction hashes of the chain up to one height past its tip.
BlockHashes == [epoch : 0 .. Tip + 1, main : BOOLEAN]
MainHash(h) == [epoch |-> h, main |-> TRUE]
TxHashes == (0 .. Tip + 1) \X (0 .. MaxTxs - 1) \cup DOMAIN PoolSpace

\* get_phantom_block_by_number and get_phantom_block_by_hash: the height of
\* the phantom block, or NoPhantom.
PhantomByNumber(h) == IF h <= Tip THEN h ELSE NoPhantom
PhantomByHash(hash) == IF hash.main THEN PhantomByNumber(hash.epoch) ELSE NoPhantom

\* get_tx_from_txpool: a pooled Ethereum-space transaction, with no block.
get_tx_from_txpool(hash) ==
  IF hash \in DOMAIN PoolSpace /\ PoolSpace[hash] = "Ethereum"
  THEN [status |-> "pending"] ELSE None

\* block_tx_by_index: the idx-th transaction of the phantom block, with its
\* block and the Ethereum-space status of its receipt.
block_tx_by_index(pb, idx) ==
  IF pb = NoPhantom \/ idx >= Len(Block(pb).transactions) THEN None
  ELSE [status |-> Block(pb).transactions[idx + 1].outcome_status,
        block_hash |-> MainHash(pb), block_number |-> pb, transaction_index |-> idx]

\* Fault: a skipped transaction is returned by its hash.
transaction_by_hash_shows_skipped(hash) ==
  IF hash \in DOMAIN PoolSpace \/ hash[1] > Tip \/ hash[2] >= Len(Block(hash[1]).transactions)
  THEN get_tx_from_txpool(hash)
  ELSE block_tx_by_index(PhantomByNumber(hash[1]), hash[2])

\* transaction_by_hash: a hash the transaction index does not know (or
\* whose block has no epoch) is looked up in the pool; otherwise the loop
\* over the phantom block of its epoch finds it, and a skipped one is None.
transaction_by_hash(hash) ==
  IF hash \in DOMAIN PoolSpace \/ hash[1] > Tip \/ hash[2] >= Len(Block(hash[1]).transactions)
  THEN get_tx_from_txpool(hash)
  ELSE LET tx == block_tx_by_index(PhantomByNumber(hash[1]), hash[2])
       IN IF tx.status = "Skipped" THEN None ELSE tx

\* transaction_by_block_{hash,number}_and_index: block_tx_by_index of the
\* phantom block.
transaction_by_block_hash_and_index(hash, idx) == block_tx_by_index(PhantomByHash(hash), idx)
transaction_by_block_number_and_index(h, idx) == block_tx_by_index(PhantomByNumber(h), idx)

\* uncle_by_block_{hash,number}_and_index: there are no uncle blocks.
uncle_by_block_and_index == None

\* block_number: the height of the LatestState epoch.
block_number(latest) == Some(latest)

\* block_uncles_count_by_hash: 0 for the main block of a known epoch.
block_uncles_count_by_hash(hash) ==
  IF hash.epoch > Tip \/ ~hash.main THEN None ELSE Some(0)

\* block_uncles_count_by_number: 0 for an epoch that exists.
block_uncles_count_by_number(h) == IF h > Tip THEN None ELSE Some(0)

\* block_transaction_count_by_{hash,number} of a phantom block.
block_transaction_count(pb) ==
  IF pb = NoPhantom THEN None ELSE Some(Len(Block(pb).transactions))

\* block_by_{hash,number}: RpcBlock::from_phantom of the phantom block.
rpc_block(pb) ==
  IF pb = NoPhantom THEN None
  ELSE Some([number |-> pb, hash |-> MainHash(pb), transactions |-> Len(Block(pb).transactions)])

\* max_priority_fee_per_gas: fee_history(300, latest, [50]); the first
\* reward of each block summed, times evm_ratio, over 300.  (The model's
\* Percentiles start with 50, and compute_reward computes each percentile
\* on its own, so the first reward is the one for [50].)
max_priority_fee_per_gas(latest) ==
  LET fh == fee_history(300, latest) IN
  IF fh.status # "ok" THEN [status |-> "err"]
  ELSE Some((FoldLeft(LAMBDA s, r : s + r[1], 0, fh.reward) * EvmRatio) \div 300)

-----------------------------------------------------------------------------

\* A request to one of the lookups, answered in one step under the
\* consensus read lock; the answer is kept, the request is not.
Lookup(kind, result) ==
  /\ Idle
  /\ response' = [kind |-> kind, result |-> result]
  /\ UNCHANGED chain

BlockNext ==
  \/ EthNext
  \/ \E hash \in BlockHashes :
       \/ Lookup("block", rpc_block(PhantomByHash(hash)))
       \/ Lookup("count", block_transaction_count(PhantomByHash(hash)))
       \/ Lookup("uncles", block_uncles_count_by_hash(hash))
       \/ \E i \in 0 .. MaxTxs - 1 :
            Lookup("transaction", transaction_by_block_hash_and_index(hash, i))
  \/ \E h \in 0 .. Tip + 1 :
       \/ Lookup("block", rpc_block(PhantomByNumber(h)))
       \/ Lookup("count", block_transaction_count(PhantomByNumber(h)))
       \/ Lookup("uncles", block_uncles_count_by_number(h))
       \/ \E i \in 0 .. MaxTxs - 1 :
            Lookup("transaction", transaction_by_block_number_and_index(h, i))
  \/ \E hash \in TxHashes : Lookup("transaction", transaction_by_hash(hash))
  \/ Lookup("uncle", uncle_by_block_and_index)
  \* block_number and max_priority_fee_per_gas at the height consensus
  \* reports for LatestState (get_height_from_epoch_number).
  \/ \E latest \in 0 .. Tip :
       \/ Lookup("block_number", block_number(latest))
       \/ Lookup("max_priority_fee", max_priority_fee_per_gas(latest))

BlockSpec == Init /\ [][BlockNext]_vars

\* The lookups' answers are read by no property and change nothing: two
\* states that differ only in which lookup was answered are one state to
\* the checker.
LookupKinds == {"block", "count", "uncles", "transaction", "uncle",
                "block_number", "max_priority_fee"}
LookupView == <<chain, IF response.kind \in LookupKinds THEN "lookup" ELSE response>>

-----------------------------------------------------------------------------
(* Properties.                                                            *)

\* Every way of reading a transaction of the chain agrees with the others
\* and with its receipt, once its epoch is executed: by block hash and by
\* block number and index the same transaction, skipped or not; by its own
\* hash the same one, except that a skipped transaction is hidden exactly
\* when transaction_receipt hides its receipt; and a block's transaction
\* count, by hash or number, is what parity_getBlockReceipts lists.
\* (Checked whenever no request is pending: every chain is reached so.)
TransactionLookupsAgree ==
  Idle =>
    \A h \in 0 .. Tip :
      /\ block_transaction_count(PhantomByHash(MainHash(h)))
           = Some(Len(block_receipts(h).receipts))
      /\ \A i \in 0 .. Len(Block(h).transactions) - 1 :
           LET byNumber == transaction_by_block_number_and_index(h, i)
               byHash   == transaction_by_hash(<<h, i>>)
               receipt  == transaction_receipt(h, i, Tip)
           IN /\ transaction_by_block_hash_and_index(MainHash(h), i) = byNumber
              /\ byNumber.block_number = h /\ byNumber.transaction_index = i
              /\ (byHash = None) <=> (receipt = None)
              /\ byHash # None =>
                   /\ byHash = byNumber
                   /\ receipt.status_code = byHash.status
                   /\ receipt.block_number = byHash.block_number
                   /\ receipt.transaction_index = byHash.transaction_index

=============================================================================
