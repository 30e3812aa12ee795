SPECIFICATION Spec
CONSTANTS
  Txs = {t1}
  Accounts = {alice}
  NoAccount = noAccount
  Tokens = {xlm, usdc, eurc}
  Native = xlm
  Amounts = {0, 1}
  Balances = {1}
  Prices <- MCPrices
  Bought <- MCBought
  KeepBps = 10000
  MaxStale = 1
  Unknown = unknown
INVARIANT DocTrustlineChecked
