CONSTANTS
  alice = alice
  bob = bob
  p0 = p0
  p1 = p1
  p2 = p2
  Router = Router
  Tokens = {1, 2}
  Users = {alice, bob}
  PairSlots <- MCPairSlots
  Endow <- MCEndow
  Paths <- MCPaths
  Recipients = {alice}
  Deposits <- MCDeposits
  Offered = {2, 3, 5}
  Withheld = {2}
  Transfers <- MCTransfers
  Given = {1}
  Taken = {1}
  Payees = {p0}
  Endowment = 7
  MaxPairs = 1
  MaxHops = 1
  Amounts = {1, 2, 3}
  Mins = {0, 3}
  Deadlines = {0}
  MaxNegative = 1
  MaxNow = 1
  FeeNum = 7
  FeeDen = 10
  MinLiquidity = 1
  Unit = 2
  Slippage = 5000
  Percents = {50, 100}
  MaxInt = 1000000

SPECIFICATION Spec

INVARIANTS TypeOK PoolsSound QuotesExecute InputsSuffice DepositsDoNotPay EstimatesHold WithdrawalsKeepWorth
