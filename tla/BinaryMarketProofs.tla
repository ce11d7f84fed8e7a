-------------------------- MODULE BinaryMarketProofs --------------------------
(***************************************************************************)
(* Theorems of BinaryMarket, for every set of traders and orders and every *)
(* price scale: types (no balance is ever negative), the tokens behind     *)
(* balances and shares, the books behind the orders, and the refinement of *)
(* OrderLifecycle.                                                         *)
(***************************************************************************)
EXTENDS BinaryMarket, SumLemmas, TLAPS

USE BinaryAssumption

\* The fields of an order and of its key have their types.
LEMMA KeyTyped ==
  ASSUME NEW o \in Orders
  PROVE  /\ Key(o) \in Keys
         /\ Key(o).maker = o.maker /\ Key(o).size = o.size
         /\ Key(o).nonce = o.nonce /\ Key(o).salt = o.salt
         /\ o.maker \in Traders /\ o.size \in Nat /\ o.nonce \in Nat
         /\ o.salt \in Nat /\ o.price \in Nat /\ o.isLong \in BOOLEAN
  BY DEF Keys, Key, Order

\* The fields of a key have their types.
LEMMA KeysTyped ==
  ASSUME NEW k \in Keys
  PROVE  k.maker \in Traders /\ k.size \in Nat /\ k.nonce \in Nat /\ k.salt \in Nat
  BY DEF Keys, Key, Order

\* A fill has a natural size, positive for a V2 order.
LEMMA FillSizeTyped ==
  ASSUME TypeOK, NEW o \in Orders, NEW offered \in FillSizes,
         offered > 0, Fillable(o, offered)
  PROVE  /\ FillSize(o, offered) \in Nat
         /\ o.salt = 0 => FillSize(o, offered) = o.size
         /\ o.salt # 0 => /\ FillSize(o, offered) > 0
                          /\ FillSize(o, offered) <= o.size - filledAmount[Key(o)]
  BY KeyTyped DEF TypeOK, FillSize, Remaining, Fillable

\* The integer quotient by a positive number is a natural number.
LEMMA DivNat == ASSUME NEW x \in Nat, NEW y \in Nat, y > 0 PROVE x \div y \in Nat
  OBVIOUS

\* The product of natural numbers is a natural number.
LEMMA MulNat == ASSUME NEW x \in Nat, NEW y \in Nat PROVE x * y \in Nat
  OBVIOUS

\* A swap keeps collateral and YES balances natural.
LEMMA SwapTyped ==
  ASSUME TypeOK, NEW buyer \in Traders, NEW seller \in Traders, buyer # seller,
         NEW price \in Nat, NEW size \in Nat, Swap(buyer, seller, 0, 0, price, size)
  PROVE  /\ collateralBalance' \in [Traders -> Nat]
         /\ yesBalance' \in [Traders -> Nat]
  <1> DEFINE notional == (size * price) \div PRECISION
  <1>1. notional \in Nat
    BY MulNat, DivNat
  <1>2. Fee(notional, 0) = 0
    BY <1>1 DEF Fee, BPS
  <1> HIDE DEF notional
  <1>3. /\ yesBalance[seller] >= size
        /\ collateralBalance[buyer] >= notional + 0
        /\ collateralBalance' = [collateralBalance EXCEPT
             ![buyer] = @ - (notional + 0), ![seller] = @ + (notional - 0)]
        /\ yesBalance' = [yesBalance EXCEPT ![seller] = @ - size, ![buyer] = @ + size]
    BY <1>2 DEF Swap, notional
  <1> QED
    BY <1>1, <1>3 DEF TypeOK

\* What a valid fill does to the books, for the two kinds of orders.
LEMMA FillEffect ==
  ASSUME TypeOK, NEW taker \in Traders, NEW price \in FillPrices,
         NEW offered \in FillSizes, NEW o \in Orders,
         SubmitFill(taker, price, offered, o)
  PROVE  LET size == FillSize(o, offered)
         IN  /\ size \in Nat
             /\ executed' = [executed EXCEPT ![Key(o)] = @ + size]
             /\ o.salt = 0 =>
                  /\ size = o.size
                  /\ nonces[o.maker] = o.nonce
                  /\ nonces' = [nonces EXCEPT ![o.maker] = o.nonce + 1]
                  /\ filledAmount' = filledAmount
             /\ o.salt # 0 =>
                  /\ size > 0 /\ size <= o.size - filledAmount[Key(o)]
                  /\ filledAmount' = [filledAmount EXCEPT ![Key(o)] = @ + size]
                  /\ nonces' = nonces
  <1>1. Fillable(o, offered) /\ offered > 0
    BY DEF SubmitFill, ValidFill
  <1>2. RecordFill(o, FillSize(o, offered))
    BY DEF SubmitFill
  <1>3. o.salt = 0 => nonces[o.maker] = o.nonce
    BY <1>1 DEF Fillable
  <1> QED
    BY <1>1, <1>2, <1>3, FillSizeTyped DEF RecordFill, Add

\* A fill keeps every type.
LEMMA SubmitFillTypeOK ==
  ASSUME TypeOK, NEW taker \in Traders, NEW price \in FillPrices,
         NEW offered \in FillSizes, NEW o \in Orders,
         SubmitFill(taker, price, offered, o)
  PROVE  TypeOK'
  <1> DEFINE size == FillSize(o, offered)
  <1>1. /\ size \in Nat
        /\ executed' = [executed EXCEPT ![Key(o)] = @ + size]
        /\ o.salt = 0 =>
             /\ nonces' = [nonces EXCEPT ![o.maker] = o.nonce + 1]
             /\ filledAmount' = filledAmount
        /\ o.salt # 0 =>
             /\ filledAmount' = [filledAmount EXCEPT ![Key(o)] = @ + size]
             /\ nonces' = nonces
    BY FillEffect
  <1>2. /\ o.isLong => Swap(o.maker, taker, 0, 0, price, size)
        /\ ~o.isLong => Swap(taker, o.maker, 0, 0, price, size)
        /\ taker # o.maker
        /\ UNCHANGED <<noBalance, phase, tokens, now>>
    BY DEF SubmitFill, ValidFill, makerFeeBps, takerFeeBps
  <1> HIDE DEF size
  <1>3. price \in Nat /\ o.maker \in Traders /\ o.nonce \in Nat /\ Key(o) \in Keys
    BY KeyTyped
  <1>4. collateralBalance' \in [Traders -> Nat] /\ yesBalance' \in [Traders -> Nat]
    BY <1>1, <1>2, <1>3, SwapTyped
  <1>5. executed' \in [Keys -> Nat]
    BY <1>1, <1>3 DEF TypeOK
  <1>6. nonces' \in [Traders -> Nat] /\ filledAmount' \in [Keys -> Nat]
    <2>1. CASE o.salt = 0
      BY <1>1, <1>3, <2>1 DEF TypeOK
    <2>2. CASE o.salt # 0
      BY <1>1, <1>3, <2>2 DEF TypeOK
    <2> QED
      BY <2>1, <2>2
  <1> QED
    BY <1>2, <1>4, <1>5, <1>6 DEF TypeOK, phase, tokens

\* The initial state has the types.
LEMMA InitTypeOK == ASSUME Init PROVE TypeOK
  <1>1. resolved \in BOOLEAN /\ outcome \in BOOLEAN
    BY Zenon DEF Init
  <1>2. /\ collateralBalance \in [Traders -> Nat] /\ yesBalance \in [Traders -> Nat]
        /\ noBalance \in [Traders -> Nat] /\ nonces \in [Traders -> Nat]
        /\ wallet \in [Traders -> Nat]
    BY DEF Init
  <1>3. /\ filledAmount \in [Keys -> Nat] /\ executed \in [Keys -> Nat]
        /\ held \in Nat /\ now \in Nat
    BY DEF Init
  <1> QED
    BY <1>1, <1>2, <1>3 DEF TypeOK

\* Every step keeps the types.
LEMMA NextTypeOK == ASSUME TypeOK, [Next]_vars PROVE TypeOK'
  <1>1. CASE UNCHANGED vars
    BY <1>1 DEF vars, balances, ledger, phase, tokens, TypeOK
  <1>2. ASSUME NEW t \in Traders, NEW amount \in Amounts, Deposit(t, amount)
        PROVE  TypeOK'
    BY <1>2 DEF Deposit, TypeOK, Add, Sub, ledger, phase
  <1>3. ASSUME NEW t \in Traders, NEW amount \in Amounts, Withdraw(t, amount)
        PROVE  TypeOK'
    BY <1>3 DEF Withdraw, TypeOK, Add, Sub, ledger, phase
  <1>4. ASSUME NEW t \in Traders, NEW amount \in Amounts, MintShares(t, amount)
        PROVE  TypeOK'
    BY <1>4 DEF MintShares, TypeOK, Add, Sub, ledger, phase, tokens
  <1>5. ASSUME NEW t \in Traders, NEW amount \in Amounts, MergeShares(t, amount)
        PROVE  TypeOK'
    BY <1>5 DEF MergeShares, TypeOK, Add, Sub, ledger, phase, tokens
  <1>6. ASSUME NEW k \in Keys, CancelOrder(k) PROVE TypeOK'
    BY <1>6, KeysTyped DEF CancelOrder, TypeOK, balances, phase, tokens
  <1>7. ASSUME NEW result \in BOOLEAN, Resolve(result) PROVE TypeOK'
    <2>1. resolved' \in BOOLEAN /\ outcome' \in BOOLEAN
      BY <1>7, Zenon DEF Resolve
    <2>2. UNCHANGED <<balances, ledger, tokens, now>>
      BY <1>7, Zenon DEF Resolve
    <2> QED
      BY <2>1, <2>2 DEF TypeOK, balances, ledger, tokens
  <1>8. ASSUME NEW t \in Traders, Redeem(t) PROVE TypeOK'
    BY <1>8 DEF Redeem, Winning, TypeOK, Add, ledger, phase
  <1>9. CASE Tick
    BY <1>9 DEF Tick, TypeOK, balances, ledger, phase, tokens
  <1> QED
    BY <1>1, <1>2, <1>3, <1>4, <1>5, <1>6, <1>7, <1>8, <1>9, SubmitFillTypeOK
    DEF Next

\* In every binary market no sequence of transactions takes a collateral or
\* share balance, or the tokens held, below zero.
THEOREM TypeCorrect == Spec => []TypeOK
  BY InitTypeOK, NextTypeOK, PTL DEF Spec
-----------------------------------------------------------------------------
(* Orders.  The record of what was executed is tied to the two records the  *)
(* contract keeps by LedgerInv, which is what makes the refinement provable. *)

\* Only fills and cancellations touch the books.
LEMMA LedgerFrame ==
  ASSUME [Next]_vars
  PROVE  \/ UNCHANGED ledger
         \/ \E taker \in Traders, price \in FillPrices, size \in FillSizes,
               o \in Orders : SubmitFill(taker, price, size, o)
         \/ \E k \in Keys : CancelOrder(k)
  BY DEF Next, vars, Deposit, Withdraw, MintShares, MergeShares, Resolve, Redeem, Tick

\* No market order has been executed at first.
LEMMA InitLedgerInv == Init => LedgerInv
  BY KeysTyped DEF Init, LedgerInv

\* Every step keeps the ledger invariant.
LEMMA NextLedgerInv ==
  ASSUME TypeOK, LedgerInv, [Next]_vars
  PROVE  LedgerInv'
  <1>1. CASE UNCHANGED ledger
    BY <1>1 DEF ledger, LedgerInv
  <1>2. ASSUME NEW taker \in Traders, NEW price \in FillPrices,
               NEW offered \in FillSizes, NEW o \in Orders,
               SubmitFill(taker, price, offered, o)
        PROVE  LedgerInv'
    <2> DEFINE size == FillSize(o, offered)
    <2>1. /\ size \in Nat
          /\ executed' = [executed EXCEPT ![Key(o)] = @ + size]
          /\ o.salt = 0 =>
               /\ size = o.size
               /\ nonces[o.maker] = o.nonce
               /\ nonces' = [nonces EXCEPT ![o.maker] = o.nonce + 1]
               /\ filledAmount' = filledAmount
          /\ o.salt # 0 =>
               /\ size > 0 /\ size <= o.size - filledAmount[Key(o)]
               /\ filledAmount' = [filledAmount EXCEPT ![Key(o)] = @ + size]
               /\ nonces' = nonces
      BY <1>2, FillEffect
    <2> HIDE DEF size
    <2>2. SUFFICES ASSUME NEW k \in Keys
          PROVE IF k.salt = 0
                THEN executed'[k] <= k.size
                       /\ (nonces'[k.maker] <= k.nonce => executed'[k] = 0)
                ELSE executed'[k] <= filledAmount'[k] /\ filledAmount'[k] <= k.size
      BY DEF LedgerInv
    <2>3. /\ executed \in [Keys -> Nat] /\ filledAmount \in [Keys -> Nat]
          /\ nonces \in [Traders -> Nat]
      BY DEF TypeOK
    <2>4. IF k.salt = 0
          THEN executed[k] <= k.size
                 /\ (nonces[k.maker] <= k.nonce => executed[k] = 0)
          ELSE executed[k] <= filledAmount[k] /\ filledAmount[k] <= k.size
      BY DEF LedgerInv
    <2>5. CASE k = Key(o)
      BY <2>1, <2>3, <2>4, <2>5, KeyTyped, KeysTyped
    <2>6. CASE k # Key(o)
      BY <2>1, <2>3, <2>4, <2>6, KeyTyped, KeysTyped
    <2> QED
      BY <2>5, <2>6
  <1>3. ASSUME NEW c \in Keys, CancelOrder(c) PROVE LedgerInv'
    BY <1>3, KeysTyped DEF CancelOrder, LedgerInv, TypeOK
  <1> QED
    BY <1>1, <1>2, <1>3, LedgerFrame

\* The relation between executed, nonces and filledAmount is invariant.
THEOREM LedgerCorrect == Spec => []LedgerInv
  <1>1. Init => LedgerInv
    BY InitLedgerInv
  <1>2. TypeOK /\ LedgerInv /\ [Next]_vars => LedgerInv'
    BY NextLedgerInv
  <1> QED
    BY <1>1, <1>2, TypeCorrect, PTL DEF Spec

\* The market implements OrderLifecycle: its initial states are initial states
\* there and each of its steps is a trade, a retirement or a stutter.
THEOREM OrdersImplementLifecycle == Spec => OrdersKeepPromise
  <1>1. Init => Lifecycle!Init
    BY DEF Init, Lifecycle!Init, Marked, NonceSpent
  <1>2. ASSUME TypeOK, LedgerInv, [Next]_vars
        PROVE  [Lifecycle!Next]_(Lifecycle!vars)
    <2>1. CASE UNCHANGED ledger
      BY <2>1 DEF ledger, Lifecycle!vars, Marked, NonceSpent
    <2>2. ASSUME NEW taker \in Traders, NEW price \in FillPrices,
                 NEW offered \in FillSizes, NEW o \in Orders,
                 SubmitFill(taker, price, offered, o)
          PROVE  Lifecycle!Next
      <3> DEFINE size == FillSize(o, offered)
                 k == Key(o)
      <3>1. /\ size \in Nat
            /\ executed' = [executed EXCEPT ![k] = @ + size]
            /\ o.salt = 0 =>
                 /\ size = o.size
                 /\ nonces[o.maker] = o.nonce
                 /\ nonces' = [nonces EXCEPT ![o.maker] = o.nonce + 1]
                 /\ filledAmount' = filledAmount
            /\ o.salt # 0 =>
                 /\ size > 0 /\ size <= o.size - filledAmount[k]
                 /\ filledAmount' = [filledAmount EXCEPT ![k] = @ + size]
                 /\ nonces' = nonces
        BY <1>2, <2>2, FillEffect
      <3> HIDE DEF size
      <3>2. k \in Keys /\ k.size = o.size /\ k.salt = o.salt /\ k.maker = o.maker
              /\ k.nonce = o.nonce
        BY KeyTyped
      <3> HIDE DEF k
      <3>3. /\ executed[k] \in Nat /\ filledAmount[k] \in Nat /\ k.size \in Nat
            /\ executed \in [Keys -> Nat] /\ filledAmount \in [Keys -> Nat]
            /\ nonces \in [Traders -> Nat]
        BY <1>2, <3>2, KeysTyped DEF TypeOK
      <3>4. k.salt \in Nat /\ k.nonce \in Nat /\ k.maker \in Traders
        BY <3>2, KeysTyped
      <3>5. k \notin Lifecycle!Dead
        <4>1. CASE o.salt = 0
          BY <3>1, <3>2, <3>3, <3>4, <4>1
          DEF Lifecycle!Dead, Marked, NonceSpent, OrdersV2
        <4>2. CASE o.salt # 0
          BY <3>1, <3>2, <3>3, <4>2
          DEF Lifecycle!Dead, Marked, NonceSpent, OrdersV2
        <4> QED
          BY <4>1, <4>2
      <3>11. IF k.salt = 0
            THEN executed[k] <= k.size
                   /\ (nonces[k.maker] <= k.nonce => executed[k] = 0)
            ELSE executed[k] <= filledAmount[k] /\ filledAmount[k] <= k.size
        BY <1>2, <3>2 DEF LedgerInv
      <3>12. executed[k] + size <= k.size
        <4>1. CASE o.salt = 0
          BY <3>1, <3>2, <3>3, <3>4, <3>11, <4>1
        <4>2. CASE o.salt # 0
          BY <3>1, <3>2, <3>3, <3>11, <4>2
        <4> QED
          BY <4>1, <4>2
      <3>6. executed'[k] = k.size => k \in Lifecycle!Dead'
        <4>1. CASE o.salt = 0
          BY <3>1, <3>2, <3>3, <3>4, <4>1
          DEF Lifecycle!Dead, Marked, NonceSpent, OrdersV2
        <4>2. CASE o.salt # 0
          BY <3>1, <3>2, <3>3, <3>11, <4>2
          DEF Lifecycle!Dead, Marked, NonceSpent, OrdersV2
        <4> QED
          BY <4>1, <4>2
      <3>7. Marked \subseteq Marked' /\ NonceSpent \subseteq NonceSpent'
        BY <3>1, <3>2, <3>3, KeysTyped, KeyTyped DEF Marked, NonceSpent
      <3>8. Lifecycle!OnlyGrow
        BY <3>7 DEF Lifecycle!OnlyGrow, Marked, NonceSpent
      <3>9. CASE size = 0
        <4>1. executed' = executed
          BY <3>1, <3>2, <3>3, <3>9
        <4> QED
          BY <3>8, <4>1 DEF Lifecycle!Next, Lifecycle!Retire
      <3>10. CASE size > 0
        <4>1. size \in 1 .. (k.size - executed[k])
          BY <3>1, <3>3, <3>12, <3>10
        <4>2. Lifecycle!Trade(k)
          BY <3>1, <3>2, <3>3, <3>5, <3>6, <3>8, <4>1 DEF Lifecycle!Trade
        <4> QED
          BY <3>2, <4>2 DEF Lifecycle!Next
      <3> QED
        BY <3>1, <3>9, <3>10
    <2>3. ASSUME NEW c \in Keys, CancelOrder(c) PROVE Lifecycle!Next
      <3>1. Marked \subseteq Marked' /\ NonceSpent \subseteq NonceSpent'
        BY <1>2, <2>3, KeysTyped DEF CancelOrder, Marked, NonceSpent, TypeOK
      <3>2. Lifecycle!OnlyGrow
        BY <3>1 DEF Lifecycle!OnlyGrow, Marked, NonceSpent
      <3> QED
        BY <2>3, <3>2 DEF Lifecycle!Next, Lifecycle!Retire, CancelOrder
    <2> QED
      BY <1>2, <2>1, <2>2, <2>3, LedgerFrame
  <1> QED
    BY <1>1, <1>2, TypeCorrect, LedgerCorrect, PTL
    DEF Spec, OrdersKeepPromise, Lifecycle!Spec
-----------------------------------------------------------------------------
(* The tokens behind balances and shares.  With the types FullyBacked is    *)
(* inductive: every step moves the totals of both sides alike.              *)

\* What one account gains or loses the total gains or loses.
LEMMA TotalAdd ==
  ASSUME NEW f \in [Traders -> Nat], NEW t \in Traders, NEW x \in Nat
  PROVE  /\ Total(f) \in Int
         /\ Total(Add(f, t, x)) = Total(f) + x
         /\ Total(Sub(f, t, x)) = Total(f) - x
  <1>1. f \in [Traders -> Int] /\ x \in Int /\ -x \in Int
    OBVIOUS
  <1>2. Sub(f, t, x) = [f EXCEPT ![t] = @ + (-x)]
    BY <1>1 DEF Sub
  <1>3. SumFunctionOnSet(f, Traders) \in Int
    BY <1>1, SumType
  <1>4. SumFunctionOnSet([f EXCEPT ![t] = @ + x], Traders)
          = SumFunctionOnSet(f, Traders) + x
    BY <1>1, SumCredit
  <1>5. SumFunctionOnSet([f EXCEPT ![t] = @ + (-x)], Traders)
          = SumFunctionOnSet(f, Traders) + (-x)
    BY <1>1, SumCredit
  <1> QED
    BY <1>1, <1>2, <1>3, <1>4, <1>5 DEF Total, Add

\* A swap leaves the totals of collateral and of YES shares as they were.
LEMMA SwapKeepsTotals ==
  ASSUME TypeOK, NEW buyer \in Traders, NEW seller \in Traders, buyer # seller,
         NEW price \in Nat, NEW size \in Nat, Swap(buyer, seller, 0, 0, price, size)
  PROVE  /\ Total(collateralBalance') = Total(collateralBalance)
         /\ Total(yesBalance') = Total(yesBalance)
  <1> DEFINE notional == (size * price) \div PRECISION
  <1>1. notional \in Nat
    BY MulNat, DivNat
  <1>2. Fee(notional, 0) = 0
    BY <1>1 DEF Fee, BPS
  <1> HIDE DEF notional
  <1>3. /\ collateralBalance' = [collateralBalance EXCEPT
             ![buyer] = @ - (notional + 0), ![seller] = @ + (notional - 0)]
        /\ yesBalance' = [yesBalance EXCEPT ![seller] = @ - size, ![buyer] = @ + size]
    BY <1>2 DEF Swap, notional
  <1>4. notional + 0 = notional /\ notional - 0 = notional
    BY <1>1
  <1>5. collateralBalance' = [collateralBalance EXCEPT
             ![buyer] = @ - notional, ![seller] = @ + notional]
    BY <1>3, <1>4
  <1>6. collateralBalance \in [Traders -> Nat] /\ yesBalance \in [Traders -> Nat]
    BY DEF TypeOK
  <1>7. Transfer(collateralBalance, collateralBalance', buyer, seller, Traders)
    BY <1>1, <1>5, <1>6 DEF Transfer
  <1>8. Transfer(yesBalance, yesBalance', buyer, seller, Traders)
    BY <1>3, <1>6 DEF Transfer
  <1> QED
    BY <1>7, <1>8, SumTransfer DEF Total

\* Before the event is resolved: tokens behind collateral and complete sets.
SetsBacked ==
  /\ held = Total(collateralBalance) + Total(yesBalance)
  /\ Total(yesBalance) = Total(noBalance)

\* A market without accounts holds nothing.
LEMMA InitFullyBacked == Init => FullyBacked
  <1>1. SUFFICES ASSUME Init PROVE FullyBacked
    OBVIOUS
  <1>2. \A f : (\A t \in Traders : f[t] = 0) => SumFunctionOnSet(f, Traders) = 0
    BY SumZero
  <1>3. /\ Total(collateralBalance) = 0
        /\ Total(yesBalance) = 0 /\ Total(noBalance) = 0
    BY <1>1, <1>2 DEF Init, Total
  <1>4. held = 0 /\ resolved = FALSE
    BY <1>1 DEF Init
  <1> QED
    BY <1>3, <1>4 DEF FullyBacked

\* Every step keeps the tokens equal to what they stand for.
LEMMA NextFullyBacked ==
  ASSUME TypeOK, FullyBacked, [Next]_vars
  PROVE  FullyBacked'
  <1> USE DEF Total
  <1>1. CASE UNCHANGED <<balances, phase, held>>
    BY <1>1 DEF FullyBacked, balances, phase, Winning
  <1>2. ASSUME NEW t \in Traders, NEW amount \in Amounts,
               \/ Deposit(t, amount) \/ Withdraw(t, amount)
               \/ MintShares(t, amount) \/ MergeShares(t, amount)
        PROVE  FullyBacked'
    <2>1. ~resolved /\ resolved' = resolved
      BY <1>2 DEF Deposit, Withdraw, MintShares, MergeShares, phase
    <2>2. SetsBacked
      BY <2>1 DEF FullyBacked, SetsBacked
    <2>3. /\ collateralBalance \in [Traders -> Nat] /\ amount \in Nat
          /\ yesBalance \in [Traders -> Nat] /\ noBalance \in [Traders -> Nat]
          /\ held \in Nat
      BY DEF TypeOK
    <2>4. SetsBacked'
      <3> HIDE DEF Total
      <3>1. \A f \in [Traders -> Nat] :
              /\ Total(f) \in Int
              /\ Total(Add(f, t, amount)) = Total(f) + amount
              /\ Total(Sub(f, t, amount)) = Total(f) - amount
        BY <2>3, TotalAdd
      <3>2. CASE Deposit(t, amount)
        BY <2>2, <2>3, <3>1, <3>2 DEF Deposit, SetsBacked
      <3>3. CASE Withdraw(t, amount)
        BY <2>2, <2>3, <3>1, <3>3 DEF Withdraw, SetsBacked
      <3>4. CASE MintShares(t, amount)
        BY <2>2, <2>3, <3>1, <3>4 DEF MintShares, SetsBacked, tokens
      <3>5. CASE MergeShares(t, amount)
        BY <2>2, <2>3, <3>1, <3>5 DEF MergeShares, SetsBacked, tokens
      <3> QED
        BY <1>2, <3>2, <3>3, <3>4, <3>5
    <2> QED
      BY <2>1, <2>4 DEF FullyBacked, SetsBacked
  <1>3. ASSUME NEW taker \in Traders, NEW price \in FillPrices,
               NEW offered \in FillSizes, NEW o \in Orders,
               SubmitFill(taker, price, offered, o)
        PROVE  FullyBacked'
    <2> DEFINE size == FillSize(o, offered)
    <2>1. size \in Nat
      BY <1>3, FillEffect
    <2>2. /\ o.isLong => Swap(o.maker, taker, 0, 0, price, size)
          /\ ~o.isLong => Swap(taker, o.maker, 0, 0, price, size)
          /\ taker # o.maker /\ ~resolved
          /\ UNCHANGED <<noBalance, phase, tokens>>
      BY <1>3 DEF SubmitFill, ValidFill, makerFeeBps, takerFeeBps
    <2> HIDE DEF size, Total
    <2>3. price \in Nat /\ o.maker \in Traders
      BY KeyTyped
    <2>4. /\ Total(collateralBalance') = Total(collateralBalance)
          /\ Total(yesBalance') = Total(yesBalance)
      BY <2>1, <2>2, <2>3, SwapKeepsTotals
    <2>5. Total(noBalance') = Total(noBalance) /\ held' = held /\ ~resolved'
      BY <2>2 DEF phase, tokens
    <2> QED
      BY <2>2, <2>4, <2>5 DEF FullyBacked
  <1>4. ASSUME NEW result \in BOOLEAN, Resolve(result) PROVE FullyBacked'
    <2>1. ~resolved /\ resolved' /\ UNCHANGED <<balances, held>>
      BY <1>4 DEF Resolve, tokens
    <2>2. /\ SetsBacked
          /\ Total(yesBalance) \in Int /\ Total(noBalance) \in Int
      BY <2>1, SumType DEF FullyBacked, SetsBacked, TypeOK
    <2>3. Total([t \in Traders |-> Winning(t)]') = Total(yesBalance)
      <3>1. [t \in Traders |-> Winning(t)]' = IF outcome' THEN yesBalance ELSE noBalance
        BY <2>1 DEF Winning, balances, TypeOK
      <3> QED
        BY <2>2, <3>1 DEF SetsBacked
    <2> QED
      BY <2>1, <2>2, <2>3 DEF FullyBacked, SetsBacked, balances
  <1>5. ASSUME NEW t \in Traders, Redeem(t) PROVE FullyBacked'
    <2> DEFINE won == [u \in Traders |-> Winning(u)]
    <2>1. /\ resolved /\ resolved' /\ outcome' = outcome
          /\ held' = held - Winning(t) /\ collateralBalance' = collateralBalance
      BY <1>5 DEF Redeem, phase
    <2>2. won \in [Traders -> Nat] /\ Winning(t) = won[t]
      BY DEF TypeOK, Winning
    <2>3. won' = Sub(won, t, won[t])
      <3>1. CASE outcome
        BY <1>5, <2>1, <3>1 DEF Redeem, Winning, TypeOK, Sub
      <3>2. CASE ~outcome
        BY <1>5, <2>1, <3>2 DEF Redeem, Winning, TypeOK, Sub
      <3> QED
        BY <3>1, <3>2
    <2>4. held = Total(collateralBalance) + Total(won)
      BY <2>1 DEF FullyBacked
    <2>5. SumFunctionOnSet(collateralBalance, Traders) \in Int
      BY SumType DEF TypeOK
    <2> HIDE DEF won, Total
    <2>6. Total(won') = Total(won) - won[t] /\ Total(won) \in Int
      <3>1. won[t] \in Nat
        BY <2>2
      <3> QED
        BY <2>2, <2>3, <3>1, TotalAdd
    <2>7. held' = Total(collateralBalance') + Total(won')
      BY <2>1, <2>2, <2>4, <2>5, <2>6 DEF Total
    <2> QED
      BY <2>1, <2>7 DEF FullyBacked, won
  <1>6. ASSUME NEW k \in Keys, CancelOrder(k) PROVE FullyBacked'
    BY <1>1, <1>6 DEF CancelOrder, tokens
  <1>7. CASE Tick
    BY <1>1, <1>7 DEF Tick, tokens
  <1>8. CASE UNCHANGED vars
    BY <1>1, <1>8 DEF vars, tokens
  <1> QED
    BY <1>2, <1>3, <1>4, <1>5, <1>6, <1>7, <1>8 DEF Next

\* For every set of traders the tokens held equal the collateral balances plus
\* the complete sets, or the winning shares once the event is resolved: no
\* share is ever unbacked and no token without an owner.
THEOREM Backed == Spec => []FullyBacked
  <1>1. TypeOK /\ FullyBacked /\ [Next]_vars => FullyBacked'
    BY NextFullyBacked
  <1> QED
    BY <1>1, InitFullyBacked, TypeCorrect, PTL DEF Spec


\* A balance is within the total.
LEMMA TotalCovers ==
  ASSUME NEW f \in [Traders -> Nat], NEW t \in Traders
  PROVE  Total(f) \in Nat /\ f[t] <= Total(f)
  <1> DEFINE e == [u \in Traders |-> IF u = t THEN f[t] ELSE 0]
  <1>1. OnlyAt(e, t, Traders) /\ e[t] = f[t]
    BY DEF OnlyAt
  <1>2. \A u \in Traders : e[u] \in Int /\ f[u] \in Int /\ e[u] <= f[u]
    OBVIOUS
  <1> HIDE DEF e
  <1>3. SumFunctionOnSet(e, Traders) = f[t]
    BY <1>1, SumOnlyAt, BinaryAssumption
  <1>4. SumFunctionOnSet(e, Traders) <= SumFunctionOnSet(f, Traders)
    BY <1>2, SumMonotonic, BinaryAssumption
  <1>5. SumFunctionOnSet(f, Traders) \in Int /\ f[t] \in Nat
    BY <1>2, SumType, BinaryAssumption
  <1> QED
    BY <1>3, <1>4, <1>5 DEF Total

\* What the guards of Withdraw and Redeem ask of the tokens is always there.
Payable == \A t \in Traders : /\ collateralBalance[t] <= held
                              /\ resolved => Winning(t) <= held

\* No withdrawal and no redemption is ever refused because the market is short of
\* tokens: every balance, and every winning share, can be paid out.
THEOREM ClaimsPayable == Spec => []Payable
  <1>1. TypeOK /\ FullyBacked => Payable
    <2> SUFFICES ASSUME TypeOK, FullyBacked, NEW t \in Traders
                 PROVE  /\ collateralBalance[t] <= held
                        /\ resolved => Winning(t) <= held
      BY DEF Payable
    <2> DEFINE won == [u \in Traders |-> Winning(u)]
    <2>1. /\ collateralBalance \in [Traders -> Nat] /\ yesBalance \in [Traders -> Nat]
          /\ won \in [Traders -> Nat] /\ won[t] = Winning(t)
      BY DEF TypeOK, Winning
    <2>2. resolved => held = Total(collateralBalance) + Total(won)
      BY DEF FullyBacked
    <2>3. ~resolved => held = Total(collateralBalance) + Total(yesBalance)
      BY DEF FullyBacked
    <2> HIDE DEF won
    <2>4. /\ Total(collateralBalance) \in Nat /\ Total(yesBalance) \in Nat
          /\ Total(won) \in Nat
          /\ collateralBalance[t] <= Total(collateralBalance) /\ won[t] <= Total(won)
      BY <2>1, TotalCovers
    <2>5. collateralBalance[t] \in Nat /\ won[t] \in Nat
      BY <2>1
    <2> HIDE DEF Total
    <2> QED
      BY <2>1, <2>2, <2>3, <2>4, <2>5
  <1> QED
    BY <1>1, TypeCorrect, Backed, PTL
=============================================================================
