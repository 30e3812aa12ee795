----------------------------- MODULE MCSwapPage -----------------------------
(* SwapPage on small instances: two prices, of which the lower halves.      *)
EXTENDS SwapPage

MCPrices == {1, 2}
MCBought(p, amount) == (amount * p) \div 2
=============================================================================
