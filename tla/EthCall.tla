------------------------------- MODULE EthCall -------------------------------
(***************************************************************************)
(* The Ethereum-space handlers that build or submit a transaction          *)
(* (client/src/rpc/impls/eth/eth_handler.rs): eth_call and                 *)
(* eth_estimateGas through exec_transaction and sign_call,                 *)
(* eth_sendRawTransaction through send_transaction_with_signature, and     *)
(* eth_gasPrice, over the chain of EthBlocks.                              *)
(*                                                                         *)
(* Collaborators not in this repository are nondeterministic: the outcome  *)
(* of consensus's call_virtual, the transaction pool's insertion result    *)
(* and prices, and the sync service's catch-up mode.  A CallRequest keeps  *)
(* the fields sign_call reads to choose the type and the fees; to, from,   *)
(* nonce, value and data are left out, and an access list is whether it   *)
(* is given.  NotSet is an absent Option field.                            *)
(***************************************************************************)
EXTENDS EthBlocks

CONSTANTS
  MaxGasCallRequest, \* MAX_GAS_CALL_REQUEST
  GasPriceDefault,   \* GAS_PRICE_DEFAULT_VALUE
  MinEthTxPrice,     \* tx_pool.config.min_eth_tx_price
  RequestGas,        \* gas limits a request may give
  RequestFees,       \* gas prices and fees a request may give (0 among them)
  CallInputs         \* the requests eth_call and eth_estimateGas receive

NotSet == -1
LEGACY_TX_TYPE == 0
EIP2930_TYPE == 1
EIP1559_TYPE == 2

CallRequests ==
  [gas : RequestGas \cup {NotSet}, gas_price : RequestFees \cup {NotSet},
   max_fee_per_gas : RequestFees \cup {NotSet},
   max_priority_fee_per_gas : RequestFees \cup {NotSet},
   access_list : BOOLEAN, transaction_type : {NotSet, 0, 1, 2, 3, 258}]

\* A BlockNumber: a block hash, or the LatestState tag (the default).
Latest == [kind |-> "latest"]
HashBlock(h) == [kind |-> "hash", hash |-> h]

InvalidParams == [status |-> "err", code |-> "invalid_params"]
BlockNotFound == [status |-> "err", code |-> "not_found"]
RpcError == [status |-> "err", code |-> "rpc_error"]
CatchUpRejected == [status |-> "err", code |-> "request_rejected_in_catch_up_mode"]
CallError(reverted) == [status |-> "err", code |-> "call_execution_error", reverted |-> reverted]

\* Fault: the fee cap defaults to the gas price even when only the
\* priority fee is given.
max_fee_per_gas_from_gas_price(req, gas_price) ==
  IF req.max_fee_per_gas # NotSet THEN req.max_fee_per_gas ELSE gas_price

\* sign_call's fee cap: the request's, else its priority fee, else the gas
\* price.
max_fee_per_gas(req, gas_price) ==
  CASE req.max_fee_per_gas # NotSet -> req.max_fee_per_gas
    [] req.max_priority_fee_per_gas # NotSet -> req.max_priority_fee_per_gas
    [] OTHER -> gas_price

\* sign_call: the transaction type is the request's (as_usize() as u8), or EIP-1559 when a fee
\* cap or priority fee is given, EIP-2930 with an access list, else legacy;
\* gas is capped at MAX_GAS_CALL_REQUEST and the gas price defaults to 1.
\* An unknown type is invalid_params.  A legacy or EIP-2930 transaction
\* carries a gas price, an EIP-1559 one a fee cap and a priority fee (0 by
\* default).
sign_call(req) ==
  LET gas_price == IF req.gas_price = NotSet THEN 1 ELSE req.gas_price
      type == CASE req.transaction_type # NotSet -> req.transaction_type % 256
                [] req.max_fee_per_gas # NotSet \/ req.max_priority_fee_per_gas # NotSet
                     -> EIP1559_TYPE
                [] req.access_list -> EIP2930_TYPE
                [] OTHER -> LEGACY_TX_TYPE
      eip1559 == type = EIP1559_TYPE
  IN IF type \notin {LEGACY_TX_TYPE, EIP2930_TYPE, EIP1559_TYPE} THEN InvalidParams
     ELSE [status |-> "ok", type |-> type,
           gas |-> MinNat(IF req.gas = NotSet THEN MaxGasCallRequest ELSE req.gas,
                          MaxGasCallRequest),
           gas_price |-> IF eip1559 THEN NotSet ELSE gas_price,
           max_fee_per_gas |-> IF eip1559 THEN max_fee_per_gas(req, gas_price) ELSE NotSet,
           max_priority_fee_per_gas |->
             CASE ~eip1559 -> NotSet
               [] req.max_priority_fee_per_gas = NotSet -> 0
               [] OTHER -> req.max_priority_fee_per_gas]

\* CallRequest::unset_zero_gas_price: a zero gas price counts as not set.
unset_zero_gas_price(req) ==
  IF req.gas_price = 0 THEN [req EXCEPT !.gas_price = NotSet] ELSE req

\* exec_transaction's epoch: a block hash names the epoch consensus puts
\* the block in, and only the epoch's main block (the last of its hashes)
\* may be named; LatestState converts as it is.
call_epoch(block) ==
  CASE block.kind = "latest" -> [status |-> "ok", epoch |-> "latest_state"]
    [] block.hash.epoch > Tip -> BlockNotFound
    [] block.hash # MainHash(block.hash.epoch) -> BlockNotFound
    [] OTHER -> [status |-> "ok", epoch |-> block.hash.epoch]

\* call_virtual's outcomes (ExecutionOutcome), and "Err" for its own error.
ExecutionOutcomes ==
  {"OldNonce", "InvalidRecipientAddress", "NotEnoughGasLimit",
   "NotExecutedToReconsiderPacking", "Reverted", "ExecutionError", "Finished"}
CallVirtualResults == ExecutionOutcomes \cup {"Err"}

\* exec_transaction, once the epoch resolves: unset a zero gas price, sign
\* the call, and run it with call_virtual, whose answer is outcome.
exec_call(req, outcome) ==
  LET tx == sign_call(unset_zero_gas_price(req))
  IN CASE tx.status # "ok" -> tx
       [] outcome = "Err" -> RpcError
       [] OTHER -> [status |-> "ok", outcome |-> outcome, tx |-> tx]

\* call and estimate_gas over exec_transaction's result x: every outcome
\* but Finished is a call_execution_error (a revert says so); Finished
\* gives the output, or the estimated gas limit.
call(x) ==
  CASE x.status # "ok" -> x
    [] x.outcome = "Finished" -> Some("output")
    [] OTHER -> CallError(x.outcome = "Reverted")
estimate_gas(x) ==
  CASE x.status # "ok" -> x
    [] x.outcome = "Finished" -> Some("estimated_gas_limit")
    [] OTHER -> CallError(x.outcome = "Reverted")

\* The raw bytes eth_sendRawTransaction receives: whether they decode,
\* the transaction's space, and whether its public key recovers.
RawTransactions ==
  {[decodes |-> FALSE]} \cup [decodes : {TRUE}, space : {"Ethereum", "Native"}, recovers : BOOLEAN]
\* What insert_new_transactions returns for the one transaction: it is
\* signed into the pool, it failed, or it was already known (no result).
InsertResults == {"signed", "failed", "ignored"}

\* send_transaction_with_signature: rejected in catch-up mode, otherwise
\* the pool's answer; a transaction the pool already knew is an error.
send_transaction_with_signature(catch_up_mode, inserted) ==
  CASE catch_up_mode -> CatchUpRejected
    [] inserted = "signed" -> Some("tx_hash")
    [] OTHER -> InvalidParams

\* send_raw_transaction: the bytes must decode to an Ethereum-space
\* transaction whose public key recovers.
send_raw_transaction(raw, catch_up_mode, inserted) ==
  IF ~raw.decodes \/ raw.space # "Ethereum" \/ ~raw.recovers THEN InvalidParams
  ELSE send_transaction_with_signature(catch_up_mode, inserted)

\* gas_price: the pool's parent base price when it has one, otherwise
\* consensus's price (or the default) raised to min_eth_tx_price.
gas_price(base_price, consensus_price) ==
  IF base_price # NoBasePrice THEN Some(base_price)
  ELSE LET p == IF consensus_price = NotSet THEN GasPriceDefault ELSE consensus_price
       IN Some(IF p >= MinEthTxPrice THEN p ELSE MinEthTxPrice)

\* syncing: in catch-up mode, consensus's block count as the starting and
\* current block and the sync graph's as the highest; otherwise None.
syncing(catch_up_mode, consensus_count, sync_graph_count) ==
  IF catch_up_mode
  THEN Some([starting_block |-> consensus_count, current_block |-> consensus_count,
             highest_block |-> sync_graph_count])
  ELSE None

\* transaction_count: for the pending tag, the pool's next nonce;
\* otherwise consensus's next nonce at the epoch (or its error).
transaction_count(num, pool_nonce, consensus_nonce) ==
  IF num = "pending" THEN Some(pool_nonce) ELSE consensus_nonce

\* chain_id and net_version: the best chain id in the Ethereum space.
chain_id(best_chain_id) == Some(best_chain_id)

\* account_pending_transactions: the pool's pending transactions of the
\* account, each without block, index or status, with the status of the
\* first and the pending count.
account_pending_transactions(pending_txs, first_tx_status, pending_count) ==
  Some([pending_transactions |->
          [i \in DOMAIN pending_txs |->
             [hash |-> pending_txs[i], block_hash |-> NotSet, block_number |-> NotSet,
              transaction_index |-> NotSet, status |-> NotSet]],
        first_tx_status |-> first_tx_status, pending_count |-> pending_count])


\* The state an account has at the epoch a state read names: absent, or
\* present with a balance, a storage value at the position, and code that
\* get_code finds or not.
Accounts ==
  {None} \cup [balance : 0 .. 1, storage : 0 .. 1, code : {"code", "no_code"}]

\* balance, storage_at and code_at: the block number converts to an epoch
\* and get_eth_state_db_by_epoch_number opens its state (or the error of
\* either, state_db); the account read gives zero, the zero word or empty
\* code when there is no account, and code_at empty code when get_code
\* finds none.
balance(state_db, acc) ==
  IF state_db # "ok" THEN RpcError
  ELSE Some(IF acc = None THEN 0 ELSE acc.balance)
storage_at(state_db, acc) ==
  IF state_db # "ok" THEN RpcError
  ELSE Some(IF acc = None THEN 0 ELSE acc.storage)
code_at(state_db, acc) ==
  IF state_db # "ok" THEN RpcError
  ELSE Some(IF acc = None \/ acc.code = "no_code" THEN <<>> ELSE <<acc.code>>)

\* logs: the filter converts and consensus finds count logs (~found: the
\* error of either); more logs than get_logs_filter_max_limit, when it is
\* set, is an invalid_params error.
logs(found, count, max_limit) ==
  CASE ~found -> RpcError
    [] max_limit # NotSet /\ count > max_limit -> InvalidParams
    [] OTHER -> Some(count)

\* The handlers of a node that neither mines nor manages accounts answer
\* constants: hashrate zero, author the zero address, is_mining and
\* submit_hashrate false, no accounts, protocol_version 65.
ConstantAnswers ==
  [hashrate |-> Some(0), author |-> Some("zero_address"), is_mining |-> Some(FALSE),
   submit_hashrate |-> Some(FALSE), accounts |-> Some(<<>>), protocol_version |-> Some(65)]

-----------------------------------------------------------------------------

\* The blocks a call names: the latest state, and the main and a non-main
\* block of the first epoch.
CallBlocks ==
  {Latest, HashBlock(MainHash(0)), HashBlock([epoch |-> 0, main |-> FALSE])}

\* The answers a handler can give to one request, over what its
\* collaborators may answer; collaborators' answers that give the same
\* response are one step.  exec_transaction resolves the block first; the
\* answers once it resolves do not depend on the chain.
ResolvedAnswers ==
  [req \in CallInputs |->
     [call |-> {call(exec_call(req, o)) : o \in CallVirtualResults},
      estimate_gas |-> {estimate_gas(exec_call(req, o)) : o \in CallVirtualResults}]]
Answers(req, block) ==
  LET epoch == call_epoch(block)
  IN IF epoch.status = "ok" THEN ResolvedAnswers[req]
     ELSE [call |-> {call(epoch)}, estimate_gas |-> {estimate_gas(epoch)}]
SendRawTransactionAnswers ==
  {send_raw_transaction(raw, catch_up_mode, inserted) :
     raw \in RawTransactions, catch_up_mode \in BOOLEAN, inserted \in InsertResults}
SyncingAnswers == {syncing(c, n, m) : c \in BOOLEAN, n \in 0 .. 1, m \in 0 .. 1}
TransactionCountAnswers ==
  {transaction_count(num, pool_nonce, consensus_nonce) :
     num \in {"pending", "latest"}, pool_nonce \in 0 .. 1,
     consensus_nonce \in {Some(0), Some(1), RpcError}}
ChainIdAnswers == {chain_id(id) : id \in 1 .. 2}
AccountPendingAnswers ==
  {account_pending_transactions(txs, st, n) :
     txs \in {<<>>, <<"tx_hash">>}, st \in {"ready", "future_nonce"}, n \in 0 .. 1}
GasPriceAnswers ==
  {gas_price(base_price, consensus_price) :
     base_price \in BasePrices \cup {NoBasePrice}, consensus_price \in RequestFees \cup {NotSet}}

StateReadAnswers ==
  [k \in {"balance", "storage_at", "code_at"} |->
     {CASE k = "balance" -> balance(db, acc)
        [] k = "storage_at" -> storage_at(db, acc)
        [] OTHER -> code_at(db, acc) :
        db \in {"ok", "err"}, acc \in Accounts}]
LogsAnswers ==
  {logs(found, count, max_limit) :
     found \in BOOLEAN, count \in 0 .. 2, max_limit \in {NotSet, 1}}

CallNext ==
  \/ BlockNext
  \/ \E req \in CallInputs, block \in CallBlocks :
       \/ \E answer \in Answers(req, block).call : Lookup("call", answer)
       \/ \E answer \in Answers(req, block).estimate_gas : Lookup("estimate_gas", answer)
  \/ \E answer \in SendRawTransactionAnswers : Lookup("send_raw_transaction", answer)
  \/ \E answer \in GasPriceAnswers : Lookup("gas_price", answer)
  \/ \E answer \in SyncingAnswers : Lookup("syncing", answer)
  \/ \E answer \in TransactionCountAnswers : Lookup("transaction_count", answer)
  \* chain_id and net_version
  \/ \E answer \in ChainIdAnswers : Lookup("chain_id", answer)
  \/ \E answer \in AccountPendingAnswers : Lookup("account_pending_transactions", answer)
  \/ \E k \in DOMAIN StateReadAnswers : \E answer \in StateReadAnswers[k] : Lookup(k, answer)
  \/ \E answer \in LogsAnswers : Lookup("logs", answer)
  \/ \E k \in DOMAIN ConstantAnswers : Lookup(k, ConstantAnswers[k])

CallSpec == Init /\ [][CallNext]_vars

CallKinds == LookupKinds \cup {"call", "estimate_gas", "send_raw_transaction", "gas_price",
                              "syncing", "transaction_count", "chain_id",
                              "account_pending_transactions", "logs"}
             \cup DOMAIN StateReadAnswers \cup DOMAIN ConstantAnswers
CallView == <<chain, IF response.kind \in CallKinds THEN "lookup" ELSE response>>

-----------------------------------------------------------------------------
(* Properties.                                                            *)

\* sign_call never offers a priority fee above the fee cap unless the
\* request set both: a request giving only a priority fee gets it as the
\* cap.  (A property of every request, independent of the chain.)
SignedCallsKeepFeeOrder ==
  \A req \in CallRequests :
    LET tx == sign_call(unset_zero_gas_price(req))
    IN tx.status = "ok" /\ tx.type = EIP1559_TYPE
       /\ (req.max_fee_per_gas = NotSet \/ req.max_priority_fee_per_gas = NotSet)
       => tx.max_priority_fee_per_gas <= tx.max_fee_per_gas

SignedCallFeesOrdered == Idle => SignedCallsKeepFeeOrder

\* sign_call answers a requested transaction type it does not know with
\* invalid_params "Unrecognized transaction type" (the match's catch-all
\* arm), and never signs the request as a transaction of another type.
\* The type is a U64, so 258 is a type the code does not know.
UnknownTypesRejectedByAll ==
  \A req \in CallRequests :
    req.transaction_type \notin {NotSet, LEGACY_TX_TYPE, EIP2930_TYPE, EIP1559_TYPE}
      => sign_call(req) = InvalidParams

UnknownTypesRejected == Idle => UnknownTypesRejectedByAll

=============================================================================
