----------------------------- MODULE FrontendMC -----------------------------
(***************************************************************************)
(* Two tabs and two wallets.  One offer, of size 2 at a price that is not  *)
(* a whole number of hundredths of a percent: the form rounds it up.  The  *)
(* wallets are the operators of the factory too.                           *)
(***************************************************************************)
EXTENDS Frontend, TLC

CONSTANTS t1, t2, a, b

OneOffer == {[price |-> 3, size |-> 2, isLong |-> FALSE]}

Symmetric == Permutations({t1, t2}) \union Permutations({a, b})
=============================================================================
