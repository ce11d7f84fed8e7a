--------------------------- MODULE IndexPublisherMC ---------------------------
(***************************************************************************)
(* A cron job and a dry run beside a book of three orders whose midpoint   *)
(* moves by several of the largest steps.                                  *)
(***************************************************************************)
EXTENDS IndexPublisher

CONSTANTS a, b, c, m, cron, dry

Order(hash, side, price) ==
  [hash |-> hash, maker |-> m, side |-> side, price |-> price, size |-> 1,
   nonce |-> 0, expiry |-> 9, salt |-> hash, sig |-> "V2"]

MCOrders == {Order(a, "long", 12), Order(b, "short", 20), Order(c, "long", 6)}
MCHashes == {a, b, c}
=============================================================================
