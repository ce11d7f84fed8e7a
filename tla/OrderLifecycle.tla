---------------------------- MODULE OrderLifecycle ----------------------------
(***************************************************************************)
(* What an exchange promises the signer of an order, whatever keeps the    *)
(* books: the order trades in pieces that never add up to more than its    *)
(* size, and once it is dead it never trades again.  What makes an order   *)
(* dead differs: a spent nonce kills every order, a mark (filled or        *)
(* cancelled) only those whose mark the books look at.                     *)
(***************************************************************************)
EXTENDS Integers

CONSTANTS Ids,        \* identities of orders
          Size,       \* Size[i] is the size order i was signed for
          Revocable   \* orders whose mark is looked at before they trade

VARIABLES traded,   \* size traded against each order
          marked,   \* orders on record as filled or cancelled
          spent     \* orders whose nonce is spent

vars == <<traded, marked, spent>>

Dead == (marked \cap Revocable) \cup spent

Init == /\ traded = [i \in Ids |-> 0]
        /\ marked \in SUBSET Ids
        /\ spent \in SUBSET Ids

OnlyGrow == /\ marked \subseteq marked' /\ marked' \subseteq Ids
            /\ spent \subseteq spent' /\ spent' \subseteq Ids

\* Part of a living order trades; one that is used up is dead from then on.
Trade(i) == /\ i \notin Dead
            /\ \E q \in 1 .. (Size[i] - traded[i]) :
                 traded' = [traded EXCEPT ![i] = @ + q]
            /\ OnlyGrow
            /\ traded'[i] = Size[i] => i \in Dead'

Retire == OnlyGrow /\ UNCHANGED traded

Next == Retire \/ \E i \in Ids : Trade(i)

Spec == Init /\ [][Next]_vars

\* No order trades more than its signer agreed to.
NeverOverfilled == \A i \in Ids : traded[i] <= Size[i]

\* A dead order is never traded again.
DeadIsFinal == [][\A i \in Dead : traded'[i] = traded[i] /\ i \in Dead']_vars
=============================================================================
