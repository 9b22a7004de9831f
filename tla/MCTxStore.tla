------------------------------ MODULE MCTxStore ------------------------------
(* The record store with room for three records out of four hashes: every  *)
(* order of fresh inserts, re-inserts and evictions.                       *)
EXTENDS TxStore
=============================================================================
