------------------------------ MODULE OrderBook ------------------------------
(***************************************************************************)
(* The orders table of one market and the statements the matcher runs on   *)
(* it (services/orderBookService.js over db/orders.js).  Each statement is *)
(* one SQL command and so one step; order_events, fills and cancels are    *)
(* written and never read and are left out.  A row is never deleted: an    *)
(* order that is filled, cancelled or invalidated has nothing remaining.   *)
(***************************************************************************)
EXTENDS Integers, FiniteSets

CONSTANTS Hashes,        \* order hashes
          NoHash,        \* a request that names no order
          Makers,        \* accounts that sign orders
          Orders,        \* the order records clients may post
          NoOrder,
          AnySalt        \* a cancel by maker that gives no salt

\* The hash of an order fixes its size; the side is left out of the hash, so
\* two orders that differ in nothing else share one.
ASSUME OrderAssumption ==
  /\ NoOrder \notin Orders
  /\ NoHash \notin Hashes
  /\ \A o \in Orders : o.hash \in Hashes /\ o.maker \in Makers /\ o.size \in Nat
  /\ \A o, p \in Orders : o.hash = p.hash => o.size = p.size

VARIABLES row,         \* the posted order of each hash, or NoOrder
          remaining,   \* remaining_size of the row
          applied      \* history: size of the fills applied to the row

book == <<row, remaining, applied>>

Posted == {h \in Hashes : row[h] # NoOrder}
Gone == {h \in Posted : remaining[h] = 0}

(***************************************************************************)
(* Reads.                                                                  *)
(***************************************************************************)
LiveOrders(t) == {h \in Posted : remaining[h] > 0 /\ row[h].expiry > t}
Bids(t) == {h \in LiveOrders(t) : row[h].side = "long"}
Asks(t) == {h \in LiveOrders(t) : row[h].side = "short"}

\* The first of getBook's sorted lists: the highest bid, the lowest ask.
BestBid(t) == CHOOSE p \in {row[h].price : h \in Bids(t)} :
                \A h \in Bids(t) : row[h].price <= p
BestAsk(t) == CHOOSE p \in {row[h].price : h \in Asks(t)} :
                \A h \in Asks(t) : row[h].price >= p

Candidates(maker, salt) ==
  {h \in Posted : /\ row[h].maker = maker
                  /\ remaining[h] > 0
                  /\ salt \in {AnySalt, row[h].salt}}

(***************************************************************************)
(* Statements.                                                             *)
(***************************************************************************)
\* Mutation: ON CONFLICT DO UPDATE.
InsertOrderUpsert(o) ==
  /\ row' = [row EXCEPT ![o.hash] = o]
  /\ remaining' = [remaining EXCEPT ![o.hash] = o.size]
  /\ UNCHANGED applied

InsertOrder(o) ==
  IF o.hash \in Posted
    THEN UNCHANGED book
    ELSE /\ row' = [row EXCEPT ![o.hash] = o]
         /\ remaining' = [remaining EXCEPT ![o.hash] = o.size]
         /\ UNCHANGED applied

CancelOrder(h) ==
  /\ remaining' = [remaining EXCEPT ![h] = IF h \in Posted THEN 0 ELSE @]
  /\ UNCHANGED <<row, applied>>

Fits(h, q) == h \in Posted /\ remaining[h] >= q

\* Mutation: no remaining_size >= $3 in the WHERE clause.
ApplyFillUnchecked(h, q) ==
  /\ remaining' = [remaining EXCEPT ![h] = IF h \in Posted THEN @ - q ELSE @]
  /\ applied' = [applied EXCEPT ![h] = IF h \in Posted THEN @ + q ELSE @]
  /\ UNCHANGED row

ApplyFill(h, q) ==
  /\ remaining' = [remaining EXCEPT ![h] = IF Fits(h, q) THEN @ - q ELSE @]
  /\ applied' = [applied EXCEPT ![h] = IF Fits(h, q) THEN @ + q ELSE @]
  /\ UNCHANGED row

Invalidated(maker, nonce) ==
  {h \in Posted : row[h].maker = maker /\ row[h].nonce < nonce}

InvalidateByNonce(maker, nonce) ==
  /\ remaining' = [h \in Hashes |-> IF h \in Invalidated(maker, nonce)
                                      THEN 0 ELSE remaining[h]]
  /\ UNCHANGED <<row, applied>>

(***************************************************************************)
(* What the table promises.                                                *)
(***************************************************************************)
BookTypeOK ==
  /\ row \in [Hashes -> Orders \cup {NoOrder}]
  /\ remaining \in [Hashes -> Nat]
  /\ applied \in [Hashes -> Nat]

\* A row holds the order of its hash, and what is left of it with what was
\* applied to it is never more than the size the maker signed.
BookInv ==
  /\ BookTypeOK
  /\ \A h \in Hashes :
       IF row[h] = NoOrder
         THEN remaining[h] = 0 /\ applied[h] = 0
         ELSE row[h].hash = h /\ remaining[h] + applied[h] <= row[h].size

SignedSize == [h \in Hashes |-> (CHOOSE o \in Orders : o.hash = h).size]

\* A posted order is worked off in pieces that never exceed its size, and one
\* that is cancelled, invalidated or used up is never filled or revived,
\* whatever order the requests and the reconciler run in: the table
\* implements OrderLifecycle.
Lifecycle == INSTANCE OrderLifecycle WITH
  Ids <- Hashes, Size <- SignedSize, Revocable <- Hashes,
  traded <- applied, marked <- Gone, spent <- {}

OrdersKeepPromise == Lifecycle!Spec
=============================================================================
