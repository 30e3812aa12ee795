CONSTANTS
  alice = alice
  bob = bob
  p0 = p0
  p1 = p1
  p2 = p2
  Router = Router
  Tokens = {1, 2, 3}
  Users = {alice, bob}
  PairSlots <- MCPairSlots
  Endow <- MCEndow
  Paths <- MCPaths
  Recipients = {alice}
  Deposits <- MCDeposits
  Offered = {2, 4}
  Withheld = {}
  Transfers <- MCTransfers
  Given = {}
  Taken = {1}
  Payees = {p1}
  Endowment = 5
  MaxPairs = 2
  MaxHops = 2
  Amounts = {1, 2}
  Mins = {0, 3}
  Deadlines = {0}
  MaxNegative = 1
  MaxNow = 0
  FeeNum = 9
  FeeDen = 10
  MinLiquidity = 1
  Unit = 2
  Slippage = 5000
  Percents = {50, 100}
  MaxInt = 1000000

SPECIFICATION Spec

INVARIANTS RegistrySound QuotesExecute SwapDelivers ClientsQuoteTheRouter
PROPERTY PairsAreVaults
