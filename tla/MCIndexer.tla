------------------------------ MODULE MCIndexer ------------------------------
(* Indexer on small instances. *)
EXTENDS Indexer

CONSTANTS
  p, q,               \* two pairs
  BlockSizes,         \* how many events a ledger may hold
  Syncs               \* whether pairs are synced outside of trades

MCKinds == IF Syncs THEN Kinds ELSE Kinds \ {"sync"}

MCBlocks == UNION {[1 .. n -> [kind : MCKinds, pair : Pairs]] : n \in BlockSizes}
=============================================================================
