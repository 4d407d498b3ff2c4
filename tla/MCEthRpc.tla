------------------------------ MODULE MCEthRpc ------------------------------
EXTENDS EthCall

CONSTANTS p1, p2

\* Percentiles at, below and above a half, and 100 (clamped to n - 1);
\* 50 first, the percentile max_priority_fee_per_gas asks for.
MCPercentiles == <<50, 25, 100>>

\* Transactions of a block with base price 2: paying at or above it with
\* an effective price of 2 or 1, and below it; succeeding with two logs,
\* failing, or skipped, and using 0, 1 or 2 gas.
MCTxs ==
  {[gas_price |-> 2, gas_limit |-> 1, effective |-> 2,
    outcome_status |-> "Success", logs |-> 2, gas_used |-> 1],
   [gas_price |-> 2, gas_limit |-> 1, effective |-> 1,
    outcome_status |-> "Failed", logs |-> 0, gas_used |-> 2],
   [gas_price |-> 1, gas_limit |-> 1, effective |-> 1,
    outcome_status |-> "Skipped", logs |-> 0, gas_used |-> 0]}

\* The pool holds one Ethereum-space and one native-space transaction.
MCPoolSpace == (p1 :> "Ethereum") @@ (p2 :> "Native")

\* Two calls: an EIP-1559 one giving only a priority fee, and one of an
\* unknown transaction type.
MCCallInputs ==
  {[gas |-> NotSet, gas_price |-> 0, max_fee_per_gas |-> NotSet,
    max_priority_fee_per_gas |-> 3, access_list |-> FALSE, transaction_type |-> NotSet],
   [gas |-> 4, gas_price |-> 1, max_fee_per_gas |-> NotSet,
    max_priority_fee_per_gas |-> NotSet, access_list |-> TRUE, transaction_type |-> 3]}

=============================================================================
