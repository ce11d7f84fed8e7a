------------------------------ MODULE RateLimit ------------------------------
(***************************************************************************)
(* The in-memory rate limits of the matcher: one counter per address (all  *)
(* endpoints) and one per maker (POST /orders).  A window is fixed: it     *)
(* opens with the first request after the last one ran out, and rejected   *)
(* requests count too.  An entry that ran out and no entry behave alike,   *)
(* so clean(), which only frees memory, has no operator of its own.        *)
(***************************************************************************)
EXTENDS Integers

CONSTANTS Window,       \* windowMs in ticks of the clock
          IpLimit,      \* maxPerWindow
          MakerLimit    \* perMakerLimit

Entry == [count : Nat, expiry : Int]
NoEntry == [count |-> 0, expiry |-> -1]

Bump(entry, t) ==
  IF entry.expiry < t THEN [count |-> 1, expiry |-> t + Window]
                      ELSE [entry EXCEPT !.count = @ + 1]
=============================================================================
