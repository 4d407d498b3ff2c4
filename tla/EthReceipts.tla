----------------------------- MODULE EthReceipts -----------------------------
(***************************************************************************)
(* eth_getTransactionReceipt and parity_getBlockReceipts                  *)
(* (client/src/rpc/impls/eth/eth_handler.rs: transaction_receipt,         *)
(* block_receipts and construct_rpc_receipt), over the main chain that    *)
(* FeeHistory reads, so one model serves every request of the handler     *)
(* that reads phantom blocks.                                              *)
(*                                                                         *)
(* A phantom block's receipts are those of its transactions: each records *)
(* its outcome status, its logs (all in the Ethereum space), and the gas  *)
(* used, accumulated over the block.  A log is kept as the indices the    *)
(* RPC receipt gives it; addresses, topics and data are left out.  A      *)
(* transaction's hash is its position in the chain.                        *)
(*                                                                         *)
(* construct_rpc_receipt's checks that a phantom block has as many        *)
(* receipts and errors as transactions and no native-space log hold of    *)
(* every phantom block consensus builds, and are not modelled.            *)
(***************************************************************************)
EXTENDS FeeHistory

\* A transaction receipt is None; a phantom block with no such height is
\* unknown_block; an inconsistent phantom block is internal_error.
None == [status |-> "none"]
UnknownBlock == [status |-> "err"]
InternalError == [status |-> "err"]

\* The receipt's accumulated_gas_used: the gas used by transactions
\* 0 .. idx of the block.
accumulated_gas_used(b, idx) ==
  FoldLeft(LAMBDA s, t : s + t.gas_used, 0, SubSeq(b.transactions, 1, idx + 1))

\* construct_rpc_receipt(b, idx, prior_log_index): the receipt of the
\* idx-th transaction, numbering its logs on from prior_log_index, which
\* it advances by their number; gas_used is the difference of accumulated
\* gas to the previous receipt; the effective gas price is the gas price
\* below the base price, or without one.
construct_rpc_receipt(b, height, idx, prior_log_index) ==
  IF idx >= Len(b.transactions) THEN <<InternalError, prior_log_index>>
  ELSE
  LET tx == b.transactions[idx + 1]
      receipt ==
        [status |-> "ok",
         transaction_index |-> idx,
         block_number |-> height,
         cumulative_gas_used |-> accumulated_gas_used(b, idx),
         gas_used |-> IF idx = 0 THEN accumulated_gas_used(b, 0)
                      ELSE accumulated_gas_used(b, idx) - accumulated_gas_used(b, idx - 1),
         logs |-> [j \in 1 .. tx.logs |->
                     [log_index |-> prior_log_index + j - 1,
                      transaction_log_index |-> j - 1]],
         status_code |-> tx.outcome_status,
         effective_gas_price |->
           IF b.base_price # NoBasePrice /\ tx.gas_price >= b.base_price
           THEN tx.effective ELSE tx.gas_price]
  IN <<receipt, prior_log_index + tx.logs>>

\* Fault: a transaction before the one asked for does not advance
\* prior_log_index.
TransactionReceiptLoop_no_bookkeeping(b, height, target, idx, prior_log_index) ==
  LET RECURSIVE Loop(_, _)
      Loop(i, prior) ==
        IF i >= Len(b.transactions) THEN None
        ELSE IF i = target
             THEN LET r == construct_rpc_receipt(b, height, i, prior)[1]
                  IN IF r.status_code = "Skipped" THEN None ELSE r
             ELSE Loop(i + 1, prior)
  IN Loop(idx, prior_log_index)

\* The for loop of transaction_receipt: walk the block's transactions to
\* the one with the hash; its receipt, or None for a skipped one; each
\* transaction passed adds its logs to prior_log_index.
RECURSIVE TransactionReceiptLoop(_, _, _, _, _)
TransactionReceiptLoop(b, height, target, idx, prior_log_index) ==
  IF idx >= Len(b.transactions) THEN None
  ELSE IF idx = target
       THEN LET r == construct_rpc_receipt(b, height, idx, prior_log_index)[1]
            IN IF r.status_code = "Skipped" THEN None ELSE r
       ELSE TransactionReceiptLoop(b, height, target, idx + 1,
                                   prior_log_index + b.transactions[idx + 1].logs)

\* transaction_receipt: None for a hash the index does not know, or in an
\* epoch beyond the best executed one; otherwise the loop over its block.
transaction_receipt(height, idx, best_executed) ==
  IF height > Tip \/ idx >= Len(Block(height).transactions) THEN None
  ELSE IF height > best_executed THEN None
  ELSE TransactionReceiptLoop(Block(height), height, idx, 0, 0)

\* block_receipts: unknown_block without a phantom block; otherwise every
\* transaction's receipt, in order, sharing prior_log_index.
RECURSIVE BlockReceiptsLoop(_, _, _, _, _)
BlockReceiptsLoop(b, height, idx, prior_log_index, block_receipts) ==
  IF idx >= Len(b.transactions) THEN block_receipts
  ELSE LET c == construct_rpc_receipt(b, height, idx, prior_log_index)
       IN BlockReceiptsLoop(b, height, idx + 1, c[2], Append(block_receipts, c[1]))

block_receipts(height) ==
  IF height > Tip THEN UnknownBlock
  ELSE [status |-> "ok", receipts |-> BlockReceiptsLoop(Block(height), height, 0, 0, <<>>)]

-----------------------------------------------------------------------------

\* An eth_getTransactionReceipt request for the transaction at a position,
\* while consensus has executed up to best_executed.
TransactionReceiptRequest(height, idx, best_executed) ==
  /\ Idle
  /\ response' = [kind |-> "receipt", height |-> height, index |-> idx,
                  result |-> transaction_receipt(height, idx, best_executed)]
  /\ UNCHANGED chain

\* A parity_getBlockReceipts request for a height.
BlockReceiptsRequest(height) ==
  /\ Idle
  /\ response' = [kind |-> "block_receipts", height |-> height,
                  result |-> block_receipts(height)]
  /\ UNCHANGED chain

EthNext ==
  \/ Next
  \/ \E h \in 0 .. Tip + 1, i \in 0 .. MaxTxs - 1, e \in 0 .. Tip :
       TransactionReceiptRequest(h, i, e)
  \/ \E h \in 0 .. Tip + 1 : BlockReceiptsRequest(h)

EthSpec == Init /\ [][EthNext]_vars

-----------------------------------------------------------------------------
(* Properties.                                                            *)

GasUsed(b, k) == FoldLeft(LAMBDA s, t : s + t.gas_used, 0, SubSeq(b.transactions, 1, k))
LogsBefore(b, k) == FoldLeft(LAMBDA s, t : s + t.logs, 0, SubSeq(b.transactions, 1, k))

\* The receipts a response carries.
Receipts ==
  CASE response.kind = "receipt" /\ response.result # None -> {response.result}
    [] response.kind = "block_receipts" /\ response.result.status = "ok" ->
         Range(response.result.receipts)
    [] OTHER -> {}

\* Every receipt either request returns is the one of its transaction in
\* the main chain: its gas used is the transaction's own, its cumulative
\* gas the block's up to it, and its logs are numbered within the block
\* after every log of the transactions before it, whichever request built
\* it (transaction_receipt's bookkeeping of prior_log_index, block_receipts'
\* threading of it, and gas_used's subtraction).  A transaction receipt is
\* the one asked for, and block receipts list the block's transactions.
ReceiptsMatchBlock ==
  /\ \A r \in Receipts :
       LET b == Block(r.block_number)
           k == r.transaction_index
       IN /\ r.gas_used = b.transactions[k + 1].gas_used
          /\ r.cumulative_gas_used = GasUsed(b, k + 1)
          /\ r.logs = [j \in 1 .. b.transactions[k + 1].logs |->
                         [log_index |-> LogsBefore(b, k) + j - 1,
                          transaction_log_index |-> j - 1]]
  /\ response.kind = "receipt" /\ response.result # None =>
       response.result.transaction_index = response.index
         /\ response.result.block_number = response.height
  /\ response.kind = "block_receipts" /\ response.result.status = "ok" =>
       [i \in 1 .. Len(response.result.receipts) |->
          response.result.receipts[i].transaction_index]
         = [i \in 1 .. Len(Block(response.height).transactions) |-> i - 1]

=============================================================================
