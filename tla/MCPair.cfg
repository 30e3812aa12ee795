SPECIFICATION Spec
CONSTANTS
  alice = alice
  bob = bob
  FeeNum = 7
  FeeDen = 10
  MinLiquidity = 1
  MaxInt = 100000
  Users = {alice, bob}
  Pool = pool
  TokenX = tokenX
  TokenY = tokenY
  Endowed = {alice}
  Endowment = 6
  Amounts <- MCAmounts
  Mins = {0}
  Recipients = {alice, pool}
  Expirations = {0}
  Approvals <- MCApprovals
  MaxNegative = 1
  MaxSeq = 1
  EndowX <- MCEndow
  EndowY <- MCEndow
INVARIANTS TypeOK LpAccounted ReservesBacked SupplyBounded
PROPERTIES ShareValueKept TradesAtQuotedPrice HoldersConsent ImplementsVault
