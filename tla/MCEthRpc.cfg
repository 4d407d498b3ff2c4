\* Fee history and receipts over every main chain up to height 2, with requests interleaved.
CONSTANTS
  BasePrices = {2}
  NoBasePrice = NoBasePrice
  GasLimits = {4}
  Txs <- MCTxs
  MaxTxs = 2
  MaxHeight = 2
  BlockCounts = {0, 1, 2, 3}
  Percentiles <- MCPercentiles
  p1 = p1
  p2 = p2
  PoolSpace <- MCPoolSpace
  EvmRatio = 2
  MaxGasCallRequest = 3
  GasPriceDefault = 1
  MinEthTxPrice = 2
  RequestGas = {1, 4}
  RequestFees = {0, 1, 3}
  CallInputs <- MCCallInputs
SPECIFICATION CallSpec
VIEW CallView
INVARIANTS
  HistoryMatchesChain
  RewardsArePercentiles
  ReceiptsMatchBlock
  TransactionLookupsAgree
  SignedCallFeesOrdered
