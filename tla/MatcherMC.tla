------------------------------ MODULE MatcherMC ------------------------------
(***************************************************************************)
(* A small matcher: one maker, two order hashes (one shared by two twin    *)
(* orders), an Idempotency-Key that every endpoint is called with and a    *)
(* long one, two handlers at once, three requests.  One request lacks the  *)
(* secret; one order cannot be hashed and spells its maker in another way. *)
(***************************************************************************)
EXTENDS Matcher, TLC

CONSTANTS a, b, m, ip, lower, bare, key, long, h1, h2, s0

Order(hash, side, size, nonce, expiry, salt, sig) ==
  [hash |-> hash, maker |-> m, side |-> side, price |-> 5, size |-> size,
   nonce |-> nonce, expiry |-> expiry, salt |-> salt, sig |-> sig]

Bid == Order(a, "long", 2, 0, 2, s0, "V2")
Twin == [Bid EXCEPT !.side = "short", !.sig = "none"]
Single == Order(b, "short", 1, 1, 0, EmptySalt, "V1")
Unsalted == [Single EXCEPT !.salt = NoSalt]

MCOrders == {Bid, Twin, Single, Unsalted}

Post(o, k) ==
  [kind |-> "order", ip |-> ip, key |-> k, order |-> o, spelled |-> lower]
CancelReq(hash, maker, salt, k) ==
  [kind |-> "cancel", ip |-> ip, key |-> k, hash |-> hash, maker |-> maker,
   salt |-> salt]
Fill(hash, q, k, trusted) ==
  [kind |-> "fill", ip |-> ip, key |-> k, hash |-> hash, size |-> q,
   trusted |-> trusted]
Invalidate(n, k) ==
  [kind |-> "invalidate", ip |-> ip, key |-> k, maker |-> m, nonce |-> n,
   trusted |-> TRUE]

MCRequests ==
  {Post(Bid, key), Post(Twin, NoKey), Post(Single, NoKey),
   CancelReq(a, NoMaker, AnySalt, key), CancelReq(NoHash, m, AnySalt, key),
   CancelReq(NoHash, NoMaker, s0, key),
   Fill(a, 1, key, TRUE), Fill(a, 1, long, TRUE), Fill(a, 1, NoKey, FALSE),
   Invalidate(1, key), [Post(Unsalted, NoKey) EXCEPT !.spelled = bare]}

MCHashes == {a, b}
Symmetric == Permutations({h1, h2})
=============================================================================
