------------------------------ MODULE FeeHistory ------------------------------
(***************************************************************************)
(* eth_feeHistory (client/src/rpc/impls/eth/eth_handler.rs, fee_history,  *)
(* and rpc/types/fee_history.rs).                                          *)
(*                                                                         *)
(* The handler holds the consensus read lock for the whole request, so it  *)
(* is one step against a fixed main chain.  It resolves newest_block to a  *)
(* height, walks the chain down from it pushing each block to the front    *)
(* of the history, fetches the block after the newest for the next base    *)
(* price, and reports the oldest block.  The chain is consensus's and      *)
(* grows by main blocks between requests.                                  *)
(*                                                                         *)
(* A block is its Ethereum-space base price (or none, pre-1559), its gas   *)
(* limit and its transactions; a transaction is its gas price, gas limit   *)
(* and the effective_gas_price it pays at the block's base price (that     *)
(* method is not in this repository, so any value is allowed), and what   *)
(* its receipt records (see EthReceipts), from a set Txs.  A gas           *)
(* used ratio, an f64, is kept as the pair it divides.  Percentiles are    *)
(* whole numbers.                                                          *)
(***************************************************************************)
EXTENDS Naturals, Sequences, SequencesExt, TLC

CONSTANTS
  BasePrices,  \* base prices of Ethereum-space main headers
  NoBasePrice, \* a header without base_price
  GasLimits,   \* header gas limits
  Txs,         \* transactions: records with gas_price, gas_limit, effective
  MaxTxs,      \* transactions in a block
  MaxHeight,   \* the main chain grows up to this height
  BlockCounts, \* block_count values requested
  Percentiles  \* reward_percentiles, as a sequence of whole percents

Blocks == [base_price : BasePrices \cup {NoBasePrice}, gas_limit : GasLimits,
           transactions : SeqOf(Txs, MaxTxs)]

VARIABLES
  chain,   \* the main chain: chain[h + 1] is the block at height h
  response \* the last request and what fee_history returned

vars == <<chain, response>>

Block(h) == chain[h + 1]
Tip == Len(chain) - 1

Init ==
  /\ chain \in {<<b>> : b \in Blocks}
  /\ response = [kind |-> "none"]

-----------------------------------------------------------------------------
(* FeeHistory                                                             *)

\* FeeHistory::new()
EmptyHistory ==
  [status |-> "ok", oldest_block |-> 0, base_fee_per_gas |-> <<>>,
   gas_used_ratio |-> <<>>, reward |-> <<>>]

Zeros == [k \in 1 .. Len(Percentiles) |-> 0]

MinNat(x, y) == IF x <= y THEN x ELSE y

\* Fault: the rewards are not sorted before the percentiles are read.
compute_reward_unsorted(txs, base_price) ==
  LET rewards == [i \in 1 .. Len(txs) |->
                    IF txs[i].gas_price < base_price THEN 0 ELSE txs[i].effective]
      n == Len(rewards)
  IN IF n = 0 THEN Zeros
     ELSE [k \in 1 .. Len(Percentiles) |->
             rewards[MinNat((Percentiles[k] * n) \div 100, n - 1) + 1]]

\* compute_reward: a transaction priced below the base price rewards 0,
\* any other its effective gas price; sorted, each percentile reads index
\* per * n / 100, truncated and clamped to n - 1.  No transaction, zeros.
compute_reward(txs, base_price) ==
  LET rewards == SortSeq([i \in 1 .. Len(txs) |->
                            IF txs[i].gas_price < base_price THEN 0
                            ELSE txs[i].effective], <)
      n == Len(rewards)
  IN IF n = 0 THEN Zeros
     ELSE [k \in 1 .. Len(Percentiles) |->
             rewards[MinNat((Percentiles[k] * n) \div 100, n - 1) + 1]]

\* Fault: the block is pushed to the back of the history.
push_front_block_back(fh, b) ==
  IF b.base_price = NoBasePrice
  THEN [fh EXCEPT !.base_fee_per_gas = Append(@, 0),
                  !.gas_used_ratio = Append(@, <<0, 1>>),
                  !.reward = Append(@, Zeros)]
  ELSE [fh EXCEPT !.base_fee_per_gas = Append(@, b.base_price),
                  !.gas_used_ratio =
                    Append(@, <<FoldLeft(LAMBDA s, t : s + t.gas_limit, 0, b.transactions),
                                (b.gas_limit * 5) \div 10>>),
                  !.reward = Append(@, compute_reward(b.transactions, b.base_price))]

\* push_front_block: a header without base price pushes 0, 0.0 and zeros;
\* otherwise its base price, the transactions' summed gas limits over
\* half the block gas limit (the Ethereum space), and the rewards.  (The
\* u128 overflow branch is out of reach of the model's numbers.)
push_front_block(fh, b) ==
  IF b.base_price = NoBasePrice
  THEN [fh EXCEPT !.base_fee_per_gas = <<0>> \o @,
                  !.gas_used_ratio = <<<<0, 1>>>> \o @,
                  !.reward = <<Zeros>> \o @]
  ELSE [fh EXCEPT !.base_fee_per_gas = <<b.base_price>> \o @,
                  !.gas_used_ratio =
                    <<<<FoldLeft(LAMBDA s, t : s + t.gas_limit, 0, b.transactions),
                        (b.gas_limit * 5) \div 10>>>> \o @,
                  !.reward = <<compute_reward(b.transactions, b.base_price)>> \o @]

\* finish: the oldest block, and the base price after the newest at the back.
finish(fh, oldest_block, b) ==
  [fh EXCEPT !.oldest_block = oldest_block,
             !.base_fee_per_gas =
               Append(@, IF b.base_price = NoBasePrice THEN 0 ELSE b.base_price)]

\* The while loop of fee_history, from current_height down to the lower
\* bound, breaking after height 0; returns the history and current_height.
RECURSIVE FeeHistoryLoop(_, _, _)
FeeHistoryLoop(fh, current_height, lower) ==
  IF current_height < lower THEN <<fh, current_height>>
  ELSE LET pushed == push_front_block(fh, Block(current_height)) IN
       IF current_height = 0 THEN <<pushed, 0>>
       ELSE FeeHistoryLoop(pushed, current_height - 1, lower)

\* eth_feeHistory: block_count 0 is an empty history; a newest block the
\* chain does not have, or one with no block after it, is an error.
fee_history(block_count, newest) ==
  IF block_count = 0 THEN EmptyHistory
  ELSE IF newest > Tip THEN [status |-> "err"]
  ELSE LET lower == IF newest >= block_count - 1 THEN newest - (block_count - 1) ELSE 0
           loop == FeeHistoryLoop(EmptyHistory, newest, lower)
           current_height == loop[2]
       IN IF newest + 1 > Tip THEN [status |-> "err"]
          ELSE finish(loop[1], IF current_height = 0 THEN 0 ELSE current_height + 1,
                      Block(newest + 1))

-----------------------------------------------------------------------------

\* No answer is waiting to be read.
Idle == response.kind = "none"

\* Consensus extends the main chain.
AppendBlock(b) ==
  /\ Idle
  /\ Tip < MaxHeight
  /\ chain' = Append(chain, b)
  /\ UNCHANGED response

\* An eth_feeHistory request for a block count and a newest height.
FeeHistoryRequest(block_count, newest) ==
  /\ Idle
  /\ response' = [kind |-> "fee_history", newest |-> newest, block_count |-> block_count,
                  result |-> fee_history(block_count, newest)]
  /\ UNCHANGED chain

\* The caller reads the answer: a stutter of the handler, after which the
\* chain and further requests go on.
ReadResponse ==
  /\ ~Idle
  /\ response' = [kind |-> "none"]
  /\ UNCHANGED chain

Next ==
  \/ \E b \in Blocks : AppendBlock(b)
  \/ \E c \in BlockCounts, h \in 0 .. Tip + 1 : FeeHistoryRequest(c, h)
  \/ ReadResponse

Spec == Init /\ [][Next]_vars

-----------------------------------------------------------------------------
(* Properties.                                                            *)

BaseFee(b) == IF b.base_price = NoBasePrice THEN 0 ELSE b.base_price

\* Reference: the value at percentile p of the rewards v, defined without
\* sorting: at most idx of them are below it and more than idx at most it.
RefPercentile(v, p) ==
  LET n == Len(v)
      idx == MinNat((p * n) \div 100, n - 1)
  IN CHOOSE x \in Range(v) :
       /\ Cardinality({i \in 1 .. n : v[i] < x}) <= idx
       /\ Cardinality({i \in 1 .. n : v[i] <= x}) > idx

RefReward(b) ==
  IF b.base_price = NoBasePrice \/ b.transactions = <<>> THEN Zeros
  ELSE LET v == [i \in 1 .. Len(b.transactions) |->
                   IF b.transactions[i].gas_price < b.base_price THEN 0
                   ELSE b.transactions[i].effective]
       IN [k \in 1 .. Len(Percentiles) |-> RefPercentile(v, Percentiles[k])]

Reported ==
  /\ response.kind = "fee_history"
  /\ response.result.status = "ok"
  /\ response.block_count > 0
Reports == Len(response.result.gas_used_ratio)

\* A history fee_history returns lists, oldest first, the last
\* min(block_count, newest + 1) main blocks up to newest, then the base
\* price of the block after newest: the loop's saturating lower bound,
\* its break at height 0 and push_front keep heights and order.
HistoryMatchesChain ==
  Reported =>
    LET r == response.result
        n == response.newest
    IN /\ Reports = MinNat(response.block_count, n + 1)
       /\ Len(r.base_fee_per_gas) = Reports + 1
       /\ Len(r.reward) = Reports
       /\ \A i \in 1 .. Reports : r.base_fee_per_gas[i] = BaseFee(Block(n - Reports + i))
       /\ r.base_fee_per_gas[Reports + 1] = BaseFee(Block(n + 1))

\* Each block's rewards are the requested percentiles of what its
\* transactions pay above the base price (compute_reward's sort, index
\* truncation and clamp against a sort-free reference).
RewardsArePercentiles ==
  Reported =>
    \A i \in 1 .. Reports :
      response.result.reward[i] = RefReward(Block(response.newest - Reports + i))

\* oldest_block is the height of the first block the history lists (the
\* eth_feeHistory contract: base fees and ratios start at oldestBlock).
OldestBlockIsFirstReported ==
  Reported /\ Reports > 0 =>
    response.result.oldest_block = response.newest - Reports + 1

=============================================================================
