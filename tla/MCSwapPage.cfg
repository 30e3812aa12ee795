SPECIFICATION Spec
CONSTANTS
  Txs = {t1}
  Accounts = {alice}
  NoAccount = noAccount
  Tokens = {xlm, usdc}
  Native = xlm
  Amounts = {0, 1, 2}
  Balances = {1}
  Prices <- MCPrices
  Bought <- MCBought
  KeepBps = 10000
  MaxStale = 1
  Unknown = unknown
INVARIANTS TypeOK QuoteMatchesForm PaysWhatWasShown BalanceSettles
