---------------------------- MODULE BinaryMarketMC ----------------------------
(***************************************************************************)
(* Instances of BinaryMarket for TLC: twin orders that share a hash, two   *)
(* V1 orders for one nonce, partial fills whose notional rounds down.      *)
(***************************************************************************)
EXTENDS BinaryMarket

CONSTANTS a, b     \* model values: the traders

Signed(maker, price, size, isLong, nonce, expiry, salt) ==
  [maker |-> maker, price |-> price, size |-> size, isLong |-> isLong,
   nonce |-> nonce, expiry |-> expiry, salt |-> salt]

BinaryOrders == {
  Signed(a, 2, 3, FALSE, 0, 1, 1), Signed(a, 2, 3, TRUE, 0, 1, 1),
  Signed(b, 3, 1, FALSE, 0, 0, 0), Signed(b, 3, 2, TRUE, 0, 1, 0) }
=============================================================================
