SPECIFICATION HarnessSpec
CONSTANTS
  Txs = {t1, t2}
  Accounts = {0, 1, 2, 3}
  TimeBound = 2
  Wait = 1
  Users = 4
  Quotes = {5, 101}
INVARIANTS HarnessTypeOK EvidenceBacked SellsWhatWasBought
PROPERTY HarnessEnds
