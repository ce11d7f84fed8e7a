---------------------------- MODULE ChainIndexerMC ----------------------------
(***************************************************************************)
(* A short chain with one order, its cancel and a fill, a finality window  *)
(* of one block, run-indexer.js and reconcile.js side by side.             *)
(***************************************************************************)
EXTENDS ChainIndexer, TLC

CONSTANTS a, m, fill, indexer, reconciler

MCOrders == {[hash |-> a, maker |-> m, side |-> "long", price |-> 5, size |-> 1,
              nonce |-> 0, expiry |-> 9, salt |-> "s0", sig |-> "V2"]}
=============================================================================
