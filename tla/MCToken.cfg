CONSTANTS
  alice = alice
  bob = bob
  Accounts = {alice, bob}
  Admin = alice
  Amounts <- MCAmounts
  Expirations = {0, 1}
  Approvals <- MCApprovals
  MaxInt = 3
  MaxNegative = 1
  MaxSeq = 2

SPECIFICATION Spec

INVARIANTS TypeOK SupplyIsTotal
PROPERTY OwnersConsent
