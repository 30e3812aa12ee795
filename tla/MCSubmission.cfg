SPECIFICATION Spec
CONSTANTS
  Txs = {t1, t2}
  Accounts = {alice, bob}
  TimeBound = 2
  Wait = 2
INVARIANTS TypeOK VerdictsHold
PROPERTIES KeepsPromise SubmissionsEnd
