---------------------------- MODULE OrderBookProofs ----------------------------
(***************************************************************************)
(* What each statement of OrderBook does to the table, for every set of    *)
(* orders: it keeps BookInv, loses no row, brings no order back, and is a  *)
(* step of OrderLifecycle.                                                 *)
(***************************************************************************)
EXTENDS OrderBook, TLAPS

USE OrderAssumption

\* A step that keeps the table and what it promises.
BookStep ==
  /\ BookInv'
  /\ Posted \subseteq Posted' /\ Gone \subseteq Gone'
  /\ \A h \in Posted : row'[h] = row[h]
  /\ [Lifecycle!Next]_(Lifecycle!vars)

\* The signed size of a posted hash is the size in its row.
LEMMA SignedSizeOfRow ==
  ASSUME BookInv, NEW h \in Posted
  PROVE  SignedSize[h] = row[h].size /\ row[h].size \in Nat
  <1>1. row[h] \in Orders /\ row[h].hash = h /\ h \in Hashes
    BY DEF BookInv, BookTypeOK, Posted
  <1>2. (CHOOSE o \in Orders : o.hash = h) \in Orders
        /\ (CHOOSE o \in Orders : o.hash = h).hash = h
    BY <1>1
  <1> QED
    BY <1>1, <1>2 DEF SignedSize

\* A step that fills nothing and retires orders is a step of OrderLifecycle.
LEMMA RetireIsStep ==
  ASSUME UNCHANGED applied, Gone \subseteq Gone'
  PROVE  [Lifecycle!Next]_(Lifecycle!vars)
  BY DEF Lifecycle!Next, Lifecycle!Retire, Lifecycle!OnlyGrow, Gone, Posted

\* A step that leaves the table alone.
LEMMA IdleStep == ASSUME BookInv, UNCHANGED book PROVE BookStep
  <1>1. BookInv'
    BY DEF BookInv, BookTypeOK, book
  <1>2. Posted' = Posted /\ Gone' = Gone /\ row' = row
    BY DEF Posted, Gone, book
  <1> QED
    BY <1>1, <1>2, RetireIsStep DEF BookStep, book

\* Posting an order: a hash that is taken changes nothing.
LEMMA InsertOrderStep ==
  ASSUME BookInv, NEW o \in Orders, InsertOrder(o)
  PROVE  BookStep /\ o.hash \in Posted'
  <1>1. CASE o.hash \in Posted
    <2>1. UNCHANGED book
      BY <1>1 DEF InsertOrder
    <2> QED
      BY <1>1, <2>1, IdleStep DEF BookStep
  <1>2. CASE o.hash \notin Posted
    <2>1. /\ row' = [row EXCEPT ![o.hash] = o]
          /\ remaining' = [remaining EXCEPT ![o.hash] = o.size]
          /\ applied' = applied
      BY <1>2 DEF InsertOrder
    <2>2. o.hash \in Hashes /\ o.size \in Nat /\ o # NoOrder
          /\ row[o.hash] = NoOrder /\ applied[o.hash] = 0
      BY <1>2 DEF BookInv, Posted
    <2>3. BookInv'
      BY <2>1, <2>2 DEF BookInv, BookTypeOK
    <2>4. /\ Posted' = Posted \cup {o.hash}
          /\ \A h \in Posted : row'[h] = row[h] /\ remaining'[h] = remaining[h]
      BY <2>1, <2>2 DEF Posted, BookInv, BookTypeOK
    <2>5. Gone \subseteq Gone'
      BY <2>4 DEF Gone
    <2> QED
      BY <2>1, <2>3, <2>4, <2>5, RetireIsStep DEF BookStep
  <1> QED
    BY <1>1, <1>2

\* Cancelling an order leaves nothing of it; an unknown hash changes nothing.
LEMMA CancelOrderStep ==
  ASSUME BookInv, NEW h \in Hashes, CancelOrder(h)
  PROVE  BookStep /\ (h \in Posted => h \in Gone')
  <1>1. /\ row' = row /\ applied' = applied
        /\ remaining' = [remaining EXCEPT ![h] = IF h \in Posted THEN 0 ELSE @]
    BY DEF CancelOrder
  <1>2. BookInv'
    BY <1>1 DEF BookInv, BookTypeOK, Posted
  <1>3. Posted' = Posted
    BY <1>1 DEF Posted
  <1>4. Gone \subseteq Gone' /\ (h \in Posted => h \in Gone')
    BY <1>1, <1>3 DEF Gone, BookInv, BookTypeOK, Posted
  <1> QED
    BY <1>1, <1>2, <1>3, <1>4, RetireIsStep DEF BookStep

\* Invalidating by nonce empties the rows below it.
LEMMA InvalidateStep ==
  ASSUME BookInv, NEW maker, NEW nonce, InvalidateByNonce(maker, nonce)
  PROVE  BookStep
  <1>1. /\ row' = row /\ applied' = applied
        /\ remaining' = [h \in Hashes |-> IF h \in Invalidated(maker, nonce)
                                            THEN 0 ELSE remaining[h]]
    BY DEF InvalidateByNonce
  <1>2. BookInv'
    BY <1>1 DEF BookInv, BookTypeOK
  <1>3. Posted' = Posted
    BY <1>1 DEF Posted
  <1>4. Gone \subseteq Gone'
    BY <1>1, <1>3 DEF Gone, Posted
  <1> QED
    BY <1>1, <1>2, <1>3, <1>4, RetireIsStep DEF BookStep

\* A fill takes what is left at most, and an order it uses up is gone.
LEMMA ApplyFillStep ==
  ASSUME BookInv, NEW h \in Hashes, NEW q \in Nat, ApplyFill(h, q)
  PROVE  BookStep
  <1>1. CASE ~ Fits(h, q) \/ q = 0
    <2>1. UNCHANGED book
      BY <1>1 DEF ApplyFill, BookInv, BookTypeOK, book
    <2> QED
      BY <2>1, IdleStep
  <1>2. CASE Fits(h, q) /\ q > 0
    <2>1. /\ row' = row
          /\ remaining' = [remaining EXCEPT ![h] = @ - q]
          /\ applied' = [applied EXCEPT ![h] = @ + q]
      BY <1>2 DEF ApplyFill
    <2>2. /\ h \in Posted /\ remaining[h] >= q
          /\ remaining[h] \in Nat /\ applied[h] \in Nat
          /\ row[h].hash = h /\ remaining[h] + applied[h] <= row[h].size
      BY <1>2 DEF Fits, BookInv, BookTypeOK, Posted
    <2>3. SignedSize[h] = row[h].size /\ row[h].size \in Nat
      BY <2>2, SignedSizeOfRow
    <2>4. BookInv'
      BY <2>1, <2>2, <2>3 DEF BookInv, BookTypeOK
    <2>5. Posted' = Posted
      BY <2>1 DEF Posted
    <2>6. h \notin Gone /\ Gone \subseteq Gone' /\ Gone' \subseteq Hashes
      BY <1>2, <2>1, <2>2, <2>5 DEF Gone, BookInv, BookTypeOK, Posted
    <2>7. applied'[h] = SignedSize[h] => h \in Gone'
      BY <2>1, <2>2, <2>3, <2>5 DEF Gone, BookInv, BookTypeOK
    <2>8. q \in 1 .. (SignedSize[h] - applied[h])
      BY <1>2, <2>2, <2>3
    <2>9. Lifecycle!Trade(h)
      BY <2>1, <2>2, <2>6, <2>7, <2>8
      DEF Lifecycle!Trade, Lifecycle!OnlyGrow, Lifecycle!Dead, Gone, Posted
    <2> QED
      BY <2>1, <2>4, <2>5, <2>6, <2>9 DEF BookStep, Lifecycle!Next
  <1> QED
    BY <1>1, <1>2
=============================================================================
