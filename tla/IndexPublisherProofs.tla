------------------------- MODULE IndexPublisherProofs -------------------------
(***************************************************************************)
(* Why the index on chain moves by small steps, for every set of orders    *)
(* and of publishers: the step is measured against the log, so the log has *)
(* to be the chain whenever no price is on its way.                        *)
(***************************************************************************)
EXTENDS IndexPublisher, OrderBookProofs, SumLemmas

USE PublisherAssumption

(***************************************************************************)
(* The inductive invariant.                                                *)
(***************************************************************************)
Prices == Nat \cup {NoPrice}

PublisherTypeOK ==
  /\ last \in Prices /\ index \in Prices
  /\ cycle \in [Publishers -> [pc : {"idle", "clamp", "log", "send"}, price : Prices]]
  /\ drift \in BOOLEAN

Busy(w) == cycle[w].pc # "idle"

\* q is one step from p at most, or there is no p to step from.
InReach(q, p) == p = NoPrice \/ Distance(q, p) <= MaxDelta(p)

\* Cycles take turns; the log is ahead of the chain only while its price is
\* being sent, and that price is one step from the chain.
InStep ==
  /\ \A v, w \in Publishers : Busy(v) /\ Busy(w) => v = w
  /\ (\A w \in Publishers : cycle[w].pc # "send") => last = index
  /\ \A w \in Publishers :
       /\ cycle[w].pc = "log" => InReach(cycle[w].price, last)
       /\ cycle[w].pc = "send" => cycle[w].price = last /\ InReach(last, index)

PublisherInv ==
  /\ BookInv /\ IsFiniteSet(Posted)
  /\ PublisherTypeOK
  /\ \A w \in Publishers : Busy(w) => cycle[w].price \in Nat
  /\ ~ drift => InStep


(***************************************************************************)
(* The price is a number.                                                  *)
(***************************************************************************)
\* Finitely many numbers have a greatest and a least one.
LEMMA Extremes ==
  ASSUME NEW S, IsFiniteSet(S), NEW f, \A x \in S : f[x] \in Nat, S # {}
  PROVE  /\ \E x \in S : \A y \in S : f[y] <= f[x]
         /\ \E x \in S : \A y \in S : f[x] <= f[y]
  <1> DEFINE Has(U) == /\ \E x \in U : \A y \in U : f[y] <= f[x]
                       /\ \E x \in U : \A y \in U : f[x] <= f[y]
             T == {U \in SUBSET S : U # {} => Has(U)}
  <1>1. {} \in T
    OBVIOUS
  <1>2. ASSUME NEW U \in SUBSET S, NEW z \in U, U \ {z} \in T
        PROVE  U \in T
    <2>1. CASE U \ {z} = {}
      <3>1. \A y \in U : y = z
        BY <2>1
      <3> QED
        BY <3>1
    <2>2. CASE U \ {z} # {}
      <3>1. PICK hi \in U \ {z} : \A y \in U \ {z} : f[y] <= f[hi]
        BY <1>2, <2>2
      <3>2. PICK lo \in U \ {z} : \A y \in U \ {z} : f[lo] <= f[y]
        BY <1>2, <2>2
      <3>3. \E x \in U : \A y \in U : f[y] <= f[x]
        <4>1. CASE f[hi] <= f[z]
          <5>1. \A y \in U : f[y] <= f[z]
            BY <3>1, <4>1
          <5> QED
            BY <5>1
        <4>2. CASE f[z] <= f[hi]
          <5>1. \A y \in U : f[y] <= f[hi]
            BY <3>1, <4>2
          <5> QED
            BY <5>1
        <4> QED
          BY <4>1, <4>2
      <3>4. \E x \in U : \A y \in U : f[x] <= f[y]
        <4>1. CASE f[z] <= f[lo]
          <5>1. \A y \in U : f[z] <= f[y]
            BY <3>2, <4>1
          <5> QED
            BY <5>1
        <4>2. CASE f[lo] <= f[z]
          <5>1. \A y \in U : f[lo] <= f[y]
            BY <3>2, <4>2
          <5> QED
            BY <5>1
        <4> QED
          BY <4>1, <4>2
      <3> QED
        BY <3>3, <3>4
    <2> QED
      BY <2>1, <2>2
  <1>3. S \in T
    <2> HIDE DEF T
    <2> QED
      BY <1>1, <1>2, ElementInduction
  <1> QED
    BY <1>3

\* The midpoint, the only side or the default is a natural number.
LEMMA BookPriceTyped ==
  ASSUME BookInv, IsFiniteSet(Posted)
  PROVE  BookPrice \in Nat
  <1> DEFINE f == [h \in Posted |-> row[h].price]
  <1>1. \A h \in Posted : f[h] = row[h].price /\ f[h] \in Nat
    BY DEF BookInv, BookTypeOK, Posted
  <1> HIDE DEF f
  <1>2. /\ Bids(Now) \subseteq Posted /\ IsFiniteSet(Bids(Now))
        /\ Asks(Now) \subseteq Posted /\ IsFiniteSet(Asks(Now))
    BY FS_Subset DEF Bids, Asks, LiveOrders
  <1>3. Bid \in Nat
    <2>1. CASE Bids(Now) = {}
      BY <2>1 DEF Bid
    <2>2. CASE Bids(Now) # {}
      <3>1. PICK h \in Bids(Now) : \A g \in Bids(Now) : f[g] <= f[h]
        BY <1>1, <1>2, <2>2, Extremes
      <3>2. \A g \in Bids(Now) : row[g].price <= row[h].price
        BY <1>1, <1>2, <3>1
      <3>3. BestBid(Now) \in {row[g].price : g \in Bids(Now)}
        BY <3>2 DEF BestBid
      <3> QED
        BY <1>1, <1>2, <2>2, <3>3 DEF Bid
    <2> QED
      BY <2>1, <2>2
  <1>4. Ask \in Nat
    <2>1. CASE Asks(Now) = {}
      BY <2>1 DEF Ask
    <2>2. CASE Asks(Now) # {}
      <3>1. PICK h \in Asks(Now) : \A g \in Asks(Now) : f[h] <= f[g]
        BY <1>1, <1>2, <2>2, Extremes
      <3>2. \A g \in Asks(Now) : row[g].price >= row[h].price
        BY <1>1, <1>2, <3>1
      <3>3. BestAsk(Now) \in {row[g].price : g \in Asks(Now)}
        BY <3>2 DEF BestAsk
      <3> QED
        BY <1>1, <1>2, <2>2, <3>3 DEF Ask
    <2> QED
      BY <2>1, <2>2
  <1>5. (Bid + Ask) \div 2 \in Nat /\ Precision \div 2 \in Nat
    BY <1>3, <1>4
  <1>6. Bid > 0 \/ Bid = 0
    BY <1>3
  <1>7. Ask > 0 \/ Ask = 0
    BY <1>4
  <1>8. BookPrice \in {(Bid + Ask) \div 2, Bid, Ask, Precision \div 2}
    BY <1>6, <1>7, Zenon DEF BookPrice
  <1> QED
    BY <1>3, <1>4, <1>5, <1>8

\* The largest step from a price is a natural number.
LEMMA MaxDeltaTyped == ASSUME NEW p \in Nat PROVE MaxDelta(p) \in Nat
  <1>1. p * MaxDeltaBps \in Nat
    OBVIOUS
  <1>2. \A n \in Nat : n \div Bps \in Nat
    OBVIOUS
  <1> QED
    BY <1>1, <1>2 DEF MaxDelta

\* A clamped price is a natural number one step from the last at most.
LEMMA ClampedInReach ==
  ASSUME NEW q \in Nat, NEW p \in Prices
  PROVE  Clamped(q, p) \in Nat /\ InReach(Clamped(q, p), p)
  <1>1. CASE p = NoPrice
    BY <1>1 DEF Clamped, InReach
  <1>2. CASE p # NoPrice
    <2>1. p \in Nat /\ MaxDelta(p) \in Nat
      BY <1>2, MaxDeltaTyped DEF Prices
    <2> DEFINE d == MaxDelta(p)
    <2> HIDE DEF d
    <2>2. \A e \in Nat : /\ q > p + e => Distance(p + e, p) <= e
                         /\ q < p - e => p - e \in Nat /\ Distance(p - e, p) <= e
                         /\ ~ (q > p + e) /\ ~ (q < p - e) => Distance(q, p) <= e
      BY <2>1 DEF Distance
    <2>3. d \in Nat
      BY <2>1 DEF d
    <2>4. Clamped(q, p) = IF q > p + d THEN p + d
                          ELSE IF q < p - d THEN p - d ELSE q
      BY <1>2 DEF Clamped, d
    <2>5. Clamped(q, p) \in Nat /\ Distance(Clamped(q, p), p) <= d
      BY <2>1, <2>2, <2>3, <2>4
    <2> QED
      BY <2>5 DEF InReach, d
  <1> QED
    BY <1>1, <1>2


(***************************************************************************)
(* Every step keeps the invariant.                                         *)
(***************************************************************************)
LEMMA InitPublisherInv == Init => PublisherInv
  <1> SUFFICES ASSUME Init PROVE PublisherInv
    OBVIOUS
  <1>1. Posted = {}
    BY DEF Init, Posted
  <1>2. BookInv
    BY DEF Init, BookInv, BookTypeOK
  <1>3. PublisherTypeOK /\ \A w \in Publishers : ~ Busy(w) /\ cycle[w].pc = "idle"
    BY DEF Init, PublisherTypeOK, Prices, Idle, Busy
  <1>4. InStep
    BY <1>3 DEF Init, InStep
  <1> QED
    BY <1>1, <1>2, <1>3, <1>4, FS_EmptySet DEF PublisherInv

\* A step that changes the book alone.
LEMMA ChangeBookKeeps ==
  ASSUME PublisherInv, ChangeBook
  PROVE  PublisherInv'
  <1>1. UNCHANGED <<last, index, cycle, drift>>
    BY DEF ChangeBook
  <1>2. BookInv' /\ IsFiniteSet(Posted)'
    <2>1. CASE \E o \in Orders : o.hash \notin Posted /\ InsertOrder(o)
      <3>1. PICK o \in Orders : o.hash \notin Posted /\ InsertOrder(o)
        BY <2>1
      <3>2. BookInv'
        BY <3>1, InsertOrderStep DEF BookStep, PublisherInv
      <3>3. Posted' \subseteq Posted \cup {o.hash}
        BY <3>1 DEF InsertOrder, Posted, PublisherInv, BookInv, BookTypeOK
      <3>4. IsFiniteSet(Posted \cup {o.hash})
        BY FS_AddElement DEF PublisherInv
      <3>5. IsFiniteSet(Posted')
        BY <3>3, <3>4, FS_Subset
      <3> QED
        BY <3>2, <3>5
    <2>2. CASE \E h \in Posted \ Gone : CancelOrder(h)
      <3>1. PICK h \in Posted \ Gone : CancelOrder(h)
        BY <2>2
      <3>2. h \in Hashes
        BY <3>1 DEF Posted
      <3>3. BookInv'
        BY <3>1, <3>2, CancelOrderStep DEF BookStep, PublisherInv
      <3>4. Posted' = Posted
        BY <3>1 DEF CancelOrder, Posted
      <3> QED
        BY <3>3, <3>4 DEF PublisherInv
    <2> QED
      BY <2>1, <2>2 DEF ChangeBook
  <1> QED
    BY <1>1, <1>2 DEF PublisherInv, PublisherTypeOK, InStep, Busy, InReach, Prices

\* A step that leaves book, log, chain and cycles alone.
LEMMA StillKeeps ==
  ASSUME PublisherInv, UNCHANGED <<book, last, index, cycle, drift>>
  PROVE  PublisherInv'
  <1>1. BookInv' /\ Posted' = Posted
    BY DEF PublisherInv, BookInv, BookTypeOK, Posted, book
  <1> QED
    BY <1>1 DEF PublisherInv, PublisherTypeOK, InStep, Busy, InReach, Prices

\* What one step of a cycle does to the cycles.
Moves(w, pc, price) ==
  /\ cycle' = [cycle EXCEPT ![w] = [pc |-> pc, price |-> price]]
  /\ UNCHANGED book

\* A step of a cycle keeps the types and leaves the other cycles alone.
LEMMA MovesTyped ==
  ASSUME PublisherInv, NEW w \in Publishers,
         NEW pc \in {"idle", "clamp", "log", "send"}, NEW price \in Prices,
         Moves(w, pc, price), pc # "idle" => price \in Nat,
         last' \in Prices, index' \in Prices, drift' \in BOOLEAN
  PROVE  /\ BookInv' /\ IsFiniteSet(Posted)' /\ PublisherTypeOK'
         /\ \A v \in Publishers : Busy(v)' => cycle'[v].price \in Nat
         /\ cycle'[w] = [pc |-> pc, price |-> price]
         /\ \A v \in Publishers : v # w => cycle'[v] = cycle[v]
  <1>1. /\ cycle'[w] = [pc |-> pc, price |-> price]
        /\ \A v \in Publishers : v # w => cycle'[v] = cycle[v]
    BY DEF Moves, PublisherInv, PublisherTypeOK
  <1>2. cycle' \in [Publishers -> [pc : {"idle", "clamp", "log", "send"}, price : Prices]]
    BY DEF Moves, PublisherInv, PublisherTypeOK
  <1>3. BookInv' /\ Posted' = Posted
    BY DEF Moves, PublisherInv, BookInv, BookTypeOK, Posted, book
  <1>4. \A v \in Publishers : cycle'[v].pc # "idle" => cycle'[v].price \in Nat
    BY <1>1 DEF PublisherInv, Busy
  <1> QED
    BY <1>1, <1>2, <1>3, <1>4 DEF PublisherInv, PublisherTypeOK, Busy, Prices

\* A cycle starts: if another is under way they have drifted apart.
LEMMA FetchBookKeeps ==
  ASSUME PublisherInv, NEW w \in Publishers, FetchBook(w)
  PROVE  PublisherInv'
  <1>1. BookPrice \in Nat
    BY BookPriceTyped DEF PublisherInv
  <1>2. PICK p \in Nat : p = BookPrice
    BY <1>1
  <1>3. /\ Moves(w, "clamp", p) /\ cycle[w].pc = "idle"
        /\ last' = last /\ index' = index /\ drift' = (drift \/ Others(w))
    BY <1>2 DEF FetchBook, Moves
  <1>4. /\ BookInv' /\ IsFiniteSet(Posted)' /\ PublisherTypeOK'
        /\ \A v \in Publishers : Busy(v)' => cycle'[v].price \in Nat
        /\ cycle'[w] = [pc |-> "clamp", price |-> p]
        /\ \A v \in Publishers : v # w => cycle'[v] = cycle[v]
    BY <1>2, <1>3, MovesTyped DEF PublisherInv, PublisherTypeOK, Prices
  <1>5. ASSUME ~ drift' PROVE InStep'
    <2>1. InStep /\ \A v \in Publishers : v # w => cycle[v].pc = "idle"
      BY <1>3, <1>5 DEF Others, PublisherInv
    <2>2. last = index
      BY <1>3, <2>1 DEF InStep
    <2> QED
      BY <1>3, <1>4, <2>1, <2>2 DEF InStep, Busy
  <1> QED
    BY <1>4, <1>5 DEF PublisherInv

\* The price is clamped to one step from the log.
LEMMA ClampKeeps ==
  ASSUME PublisherInv, NEW w \in Publishers, Clamp(w)
  PROVE  PublisherInv'
  <1>1. cycle[w].pc = "clamp" /\ cycle[w].price \in Nat /\ last \in Prices
    BY DEF Clamp, PublisherInv, PublisherTypeOK, Busy
  <1>2. PICK p \in Nat : p = Clamped(cycle[w].price, last) /\ InReach(p, last)
    BY <1>1, ClampedInReach
  <1>3. /\ Moves(w, "log", p)
        /\ last' = last /\ index' = index /\ drift' = drift
    BY <1>2 DEF Clamp, Moves, PublisherInv, PublisherTypeOK
  <1>4. /\ BookInv' /\ IsFiniteSet(Posted)' /\ PublisherTypeOK'
        /\ \A v \in Publishers : Busy(v)' => cycle'[v].price \in Nat
        /\ cycle'[w] = [pc |-> "log", price |-> p]
        /\ \A v \in Publishers : v # w => cycle'[v] = cycle[v]
    BY <1>2, <1>3, MovesTyped DEF PublisherInv, PublisherTypeOK, Prices
  <1>5. ASSUME ~ drift' PROVE InStep'
    <2>1. InStep /\ \A v \in Publishers : v # w => cycle[v].pc = "idle"
      BY <1>1, <1>3, <1>5 DEF PublisherInv, InStep, Busy
    <2>2. last = index
      BY <1>1, <2>1 DEF InStep
    <2>3. InReach(p, last)'
      BY <1>2, <1>3 DEF InReach
    <2>4. \A v \in Publishers : v # w => cycle'[v].pc = "idle"
      BY <1>4, <2>1
    <2> QED
      BY <1>2, <1>3, <1>4, <2>2, <2>4 DEF InStep, Busy
  <1> QED
    BY <1>4, <1>5 DEF PublisherInv

\* The price is logged: it is now on its way, one step from the chain.
LEMMA LogPublishKeeps ==
  ASSUME PublisherInv, NEW w \in Publishers, LogPublish(w)
  PROVE  PublisherInv'
  <1>1. cycle[w].pc = "log" /\ cycle[w].price \in Nat
    BY DEF LogPublish, PublisherInv, PublisherTypeOK, Busy
  <1>2. PICK p \in Nat : p = cycle[w].price
    BY <1>1
  <1>3. /\ UNCHANGED book /\ last' = p /\ index' = index
        /\ drift' = (drift \/ w \in DryRuns)
    BY <1>2 DEF LogPublish
  <1>4. CASE w \in DryRuns
    <2>1. Moves(w, "idle", NoPrice) /\ drift'
      BY <1>3, <1>4 DEF LogPublish, Moves, Idle
    <2>2. /\ BookInv' /\ IsFiniteSet(Posted)' /\ PublisherTypeOK'
          /\ \A v \in Publishers : Busy(v)' => cycle'[v].price \in Nat
      BY <1>3, <2>1, MovesTyped DEF PublisherInv, PublisherTypeOK, Prices
    <2> QED
      BY <2>1, <2>2 DEF PublisherInv
  <1>5. CASE w \notin DryRuns
    <2>1. Moves(w, "send", p)
      <3>1. [cycle[w] EXCEPT !.pc = "send"] = [pc |-> "send", price |-> p]
        BY <1>2 DEF PublisherInv, PublisherTypeOK
      <3>2. cycle' = [cycle EXCEPT ![w] = [cycle[w] EXCEPT !.pc = "send"]]
        BY <1>5 DEF LogPublish
      <3> QED
        BY <1>3, <3>1, <3>2 DEF Moves
    <2>2. /\ BookInv' /\ IsFiniteSet(Posted)' /\ PublisherTypeOK'
          /\ \A v \in Publishers : Busy(v)' => cycle'[v].price \in Nat
          /\ cycle'[w] = [pc |-> "send", price |-> p]
          /\ \A v \in Publishers : v # w => cycle'[v] = cycle[v]
      BY <1>3, <2>1, MovesTyped DEF PublisherInv, PublisherTypeOK, Prices
    <2>3. ASSUME ~ drift' PROVE InStep'
      <3>1. InStep /\ \A v \in Publishers : v # w => cycle[v].pc = "idle"
        BY <1>1, <1>3, <2>3 DEF PublisherInv, InStep, Busy
      <3>2. last = index /\ InReach(p, last)
        BY <1>1, <1>2, <3>1 DEF InStep
      <3>3. InReach(p, index)
        BY <3>2
      <3>4. \A v \in Publishers : v # w => cycle'[v].pc = "idle"
        BY <2>2, <3>1
      <3>5. InReach(last, index)'
        BY <1>3, <3>3 DEF InReach
      <3> QED
        BY <1>3, <2>2, <3>4, <3>5 DEF InStep, Busy
    <2> QED
      BY <2>2, <2>3 DEF PublisherInv
  <1> QED
    BY <1>4, <1>5


\* The price arrives: log and chain agree again.
LEMMA SetMarketIndexPriceKeeps ==
  ASSUME PublisherInv, NEW w \in Publishers, SetMarketIndexPrice(w)
  PROVE  PublisherInv'
  <1>1. cycle[w].pc = "send" /\ cycle[w].price \in Nat
    BY DEF SetMarketIndexPrice, PublisherInv, PublisherTypeOK, Busy
  <1>2. /\ Moves(w, "idle", NoPrice)
        /\ last' = last /\ index' = cycle[w].price /\ drift' = drift
    BY DEF SetMarketIndexPrice, Moves, Idle
  <1>3. /\ BookInv' /\ IsFiniteSet(Posted)' /\ PublisherTypeOK'
        /\ \A v \in Publishers : Busy(v)' => cycle'[v].price \in Nat
        /\ cycle'[w] = [pc |-> "idle", price |-> NoPrice]
        /\ \A v \in Publishers : v # w => cycle'[v] = cycle[v]
    BY <1>1, <1>2, MovesTyped DEF PublisherInv, PublisherTypeOK, Prices
  <1>4. ASSUME ~ drift' PROVE InStep'
    <2>1. InStep /\ \A v \in Publishers : v # w => cycle[v].pc = "idle"
      BY <1>1, <1>2, <1>4 DEF PublisherInv, InStep, Busy
    <2>2. \A v \in Publishers : cycle'[v].pc = "idle"
      BY <1>3, <2>1
    <2>3. last' = index'
      BY <1>1, <1>2, <2>1 DEF InStep
    <2> QED
      BY <2>2, <2>3 DEF InStep, Busy
  <1> QED
    BY <1>3, <1>4 DEF PublisherInv

\* A cycle breaks off: if its price was logged, the log stays ahead.
LEMMA FailKeeps ==
  ASSUME PublisherInv, NEW w \in Publishers, Fail(w)
  PROVE  PublisherInv'
  <1>1. /\ Moves(w, "idle", NoPrice) /\ cycle[w].pc # "idle"
        /\ last' = last /\ index' = index
        /\ drift' = (drift \/ cycle[w].pc = "send")
    BY DEF Fail, Moves, Idle
  <1>2. /\ BookInv' /\ IsFiniteSet(Posted)' /\ PublisherTypeOK'
        /\ \A v \in Publishers : Busy(v)' => cycle'[v].price \in Nat
        /\ cycle'[w] = [pc |-> "idle", price |-> NoPrice]
        /\ \A v \in Publishers : v # w => cycle'[v] = cycle[v]
    BY <1>1, MovesTyped DEF PublisherInv, PublisherTypeOK, Prices
  <1>3. ASSUME ~ drift' PROVE InStep'
    <2>1. /\ InStep /\ cycle[w].pc # "send"
          /\ \A v \in Publishers : v # w => cycle[v].pc = "idle"
      BY <1>1, <1>3 DEF PublisherInv, InStep, Busy
    <2>2. \A v \in Publishers : cycle'[v].pc = "idle"
      BY <1>2, <2>1
    <2>3. \A v \in Publishers : cycle[v].pc # "send"
      BY <2>1
    <2>4. last' = index'
      BY <1>1, <2>1, <2>3 DEF InStep
    <2> QED
      BY <2>2, <2>4 DEF InStep, Busy
  <1> QED
    BY <1>2, <1>3 DEF PublisherInv

\* Every step keeps the invariant.
LEMMA NextPublisherInv == PublisherInv /\ [Next]_vars => PublisherInv'
  <1> SUFFICES ASSUME PublisherInv, [Next]_vars PROVE PublisherInv'
    OBVIOUS
  <1>1. CASE ChangeBook
    BY <1>1, ChangeBookKeeps
  <1>2. CASE SwitchKill
    BY <1>2, StillKeeps DEF SwitchKill
  <1>3. CASE \E w \in Publishers : Cycle(w) \/ Fail(w)
    BY <1>3, FetchBookKeeps, ClampKeeps, LogPublishKeeps,
       SetMarketIndexPriceKeeps, FailKeeps DEF Cycle
  <1>4. CASE UNCHANGED vars
    BY <1>4, StillKeeps DEF vars
  <1> QED
    BY <1>1, <1>2, <1>3, <1>4 DEF Next

(***************************************************************************)
(* The steps of the index.                                                 *)
(***************************************************************************)
\* Only a price in reach of the index replaces it.
LEMMA IndexStep ==
  ASSUME PublisherInv, [Next]_vars, ~ drift, index # NoPrice
  PROVE  Distance(index', index) <= MaxDelta(index)
  <1>1. index \in Nat /\ MaxDelta(index) \in Nat
    BY MaxDeltaTyped DEF PublisherInv, PublisherTypeOK, Prices
  <1>2. CASE index' = index
    BY <1>1, <1>2 DEF Distance
  <1>3. ASSUME NEW w \in Publishers, SetMarketIndexPrice(w)
        PROVE  Distance(index', index) <= MaxDelta(index)
    <2>1. cycle[w].pc = "send" /\ index' = cycle[w].price
      BY <1>3 DEF SetMarketIndexPrice
    <2>2. index' = last /\ InReach(last, index)
      BY <2>1 DEF PublisherInv, InStep
    <2> QED
      BY <2>2 DEF InReach
  <1>4. index' = index \/ \E w \in Publishers : SetMarketIndexPrice(w)
    BY DEF Next, vars, ChangeBook, SwitchKill, Cycle, FetchBook, Clamp, LogPublish, Fail
  <1> QED
    BY <1>2, <1>3, <1>4

\* Whatever the book does and whichever publishers run, fail or are switched
\* off: as long as each logged price was sent and cycles took turns, the index
\* on chain moves by at most MaxDeltaBps of itself (worker.js).
THEOREM StepsAreSmall == Spec => PublishedStep
  <1>1. Init => PublisherInv
    BY InitPublisherInv
  <1>2. PublisherInv /\ [Next]_vars => PublisherInv'
    BY NextPublisherInv
  <1>3. PublisherInv /\ [Next]_vars =>
          [(~ drift /\ index # NoPrice) => Distance(index', index) <= MaxDelta(index)]_vars
    BY IndexStep
  <1> QED
    BY <1>1, <1>2, <1>3, PTL DEF Spec, PublishedStep
=============================================================================
