----------------------------- MODULE BinaryMarket -----------------------------
(***************************************************************************)
(* One YES/NO market, src/src/binary/BinaryMarket.sol, seen by the         *)
(* transactions that change it.  As in EventMarket a transaction is one    *)
(* atomic step and what makes it revert is a guard.  Amounts of zero are   *)
(* left out: the contract returns without a change.                        *)
(***************************************************************************)
EXTENDS Integers, FiniteSets, Functions

CONSTANTS
  PRECISION,     \* 1e18 on chain: the price of a certain share
  Traders,       \* accounts that deposit, trade and redeem
  Orders,        \* the orders makers have signed
  FillPrices,    \* prices offered to submitFill
  FillSizes,     \* sizes offered to submitFill
  Amounts,       \* amounts offered to deposit, withdraw, mint and merge
  MaxTime,       \* bound: the clock stops here
  WalletInit     \* collateral tokens a trader owns outside the market

BPS == 10000
makerFeeBps == 0     \* no transaction sets the fees
takerFeeBps == 0

\* getOrderHash leaves the side out, as in EventMarket.
Key(o) == [maker |-> o.maker, price |-> o.price, size |-> o.size,
           nonce |-> o.nonce, expiry |-> o.expiry, salt |-> o.salt]
Keys == {Key(o) : o \in Orders}

Order == [maker : Traders, price : Nat, size : Nat, isLong : BOOLEAN,
          nonce : Nat, expiry : Nat, salt : Nat]

ASSUME BinaryAssumption ==
  /\ IsFiniteSet(Traders)     \* an address has 160 bits
  /\ PRECISION \in Nat \ {0}
  /\ Orders \subseteq Order
  /\ FillPrices \subseteq Nat /\ FillSizes \subseteq Nat /\ Amounts \subseteq Nat
  /\ MaxTime \in Nat /\ WalletInit \in Nat

VARIABLES
  collateralBalance, yesBalance, noBalance,
  nonces, filledAmount,
  resolved, outcome,
  held, wallet,     \* the ERC-20: tokens of the market and of each trader
  now,              \* block.timestamp
  executed          \* history: size filled so far against each order key

balances == <<collateralBalance, yesBalance, noBalance>>
ledger   == <<nonces, filledAmount, executed>>
phase    == <<resolved, outcome>>
tokens   == <<held, wallet>>
vars     == <<balances, ledger, phase, tokens, now>>

Init ==
  /\ collateralBalance = [t \in Traders |-> 0]
  /\ yesBalance = [t \in Traders |-> 0]
  /\ noBalance = [t \in Traders |-> 0]
  /\ nonces = [t \in Traders |-> 0]
  /\ filledAmount = [k \in Keys |-> 0]
  /\ executed = [k \in Keys |-> 0]
  /\ resolved = FALSE /\ outcome = FALSE
  /\ held = 0 /\ wallet = [t \in Traders |-> WalletInit]
  /\ now = 0

Add(f, t, x) == [f EXCEPT ![t] = @ + x]
Sub(f, t, x) == [f EXCEPT ![t] = @ - x]

-----------------------------------------------------------------------------
(* Order validity and the books, the first half of _submitFillCore.        *)

\* Mutation: what was filled before is not taken off.
RemainingWhole(o) == o.size

Remaining(o) == o.size - filledAmount[Key(o)]

FillSize(o, size) ==
  IF o.salt = 0 THEN o.size
  ELSE IF size <= Remaining(o) THEN size ELSE Remaining(o)

Fillable(o, size) ==
  IF o.salt = 0 THEN nonces[o.maker] = o.nonce /\ size >= o.size
                ELSE filledAmount[Key(o)] < o.size

PriceCrosses(o, price) == IF o.isLong THEN o.price >= price
                                      ELSE o.price <= price

ValidFill(taker, price, size, o) ==
  /\ ~resolved
  /\ price > 0 /\ price <= PRECISION
  /\ size > 0
  /\ now <= o.expiry
  /\ taker # o.maker
  /\ Fillable(o, size)
  /\ PriceCrosses(o, price)

\* Mutation: the nonce of a V1 order is not spent.
RecordFillNonceKept(o, size) ==
  /\ executed' = Add(executed, Key(o), size)
  /\ filledAmount' = IF o.salt = 0 THEN filledAmount
                                   ELSE Add(filledAmount, Key(o), size)
  /\ UNCHANGED nonces

RecordFill(o, size) ==
  /\ executed' = Add(executed, Key(o), size)
  /\ IF o.salt = 0
     THEN nonces' = [nonces EXCEPT ![o.maker] = o.nonce + 1]
          /\ UNCHANGED filledAmount
     ELSE filledAmount' = Add(filledAmount, Key(o), size)
          /\ UNCHANGED nonces

-----------------------------------------------------------------------------
(* Transactions.                                                           *)

Deposit(t, amount) ==
  /\ ~resolved
  /\ amount > 0 /\ amount <= wallet[t]
  /\ wallet' = Sub(wallet, t, amount)
  /\ held' = held + amount
  /\ collateralBalance' = Add(collateralBalance, t, amount)
  /\ UNCHANGED <<yesBalance, noBalance, ledger, phase, now>>

Withdraw(t, amount) ==
  /\ ~resolved
  /\ amount > 0 /\ amount <= collateralBalance[t] /\ amount <= held
  /\ collateralBalance' = Sub(collateralBalance, t, amount)
  /\ held' = held - amount
  /\ wallet' = Add(wallet, t, amount)
  /\ UNCHANGED <<yesBalance, noBalance, ledger, phase, now>>

\* One unit of collateral becomes one YES and one NO.
MintShares(t, amount) ==
  /\ ~resolved
  /\ amount > 0 /\ amount <= collateralBalance[t]
  /\ collateralBalance' = Sub(collateralBalance, t, amount)
  /\ yesBalance' = Add(yesBalance, t, amount)
  /\ noBalance' = Add(noBalance, t, amount)
  /\ UNCHANGED <<ledger, phase, tokens, now>>

MergeShares(t, amount) ==
  /\ ~resolved
  /\ amount > 0 /\ amount <= yesBalance[t] /\ amount <= noBalance[t]
  /\ yesBalance' = Sub(yesBalance, t, amount)
  /\ noBalance' = Sub(noBalance, t, amount)
  /\ collateralBalance' = Add(collateralBalance, t, amount)
  /\ UNCHANGED <<ledger, phase, tokens, now>>

Fee(notional, bps) == (notional * bps) \div BPS

\* Mutation: the buyer's payment is rounded, the seller's proceeds are not.
SwapRoundedApart(buyer, seller, buyerBps, sellerBps, price, size) ==
  LET notional == (size * price) \div PRECISION
      proceeds == (size * price + PRECISION - 1) \div PRECISION
  IN  /\ yesBalance[seller] >= size
      /\ collateralBalance[buyer] >= notional
      /\ collateralBalance' = [collateralBalance EXCEPT
           ![buyer] = @ - notional, ![seller] = @ + proceeds]
      /\ yesBalance' = [yesBalance EXCEPT ![seller] = @ - size, ![buyer] = @ + size]

\* Mutation: the seller's shares are not checked.
SwapUnheld(buyer, seller, buyerBps, sellerBps, price, size) ==
  LET notional == (size * price) \div PRECISION
  IN  /\ collateralBalance[buyer] >= notional
      /\ collateralBalance' = [collateralBalance EXCEPT
           ![buyer] = @ - notional, ![seller] = @ + notional]
      /\ yesBalance' = [yesBalance EXCEPT ![seller] = @ - size, ![buyer] = @ + size]

\* _executeFill(): YES shares of the seller against collateral of the buyer.
Swap(buyer, seller, buyerBps, sellerBps, price, size) ==
  LET notional == (size * price) \div PRECISION
      paid == notional + Fee(notional, buyerBps)
      got  == notional - Fee(notional, sellerBps)
  IN  /\ yesBalance[seller] >= size
      /\ collateralBalance[buyer] >= paid
      /\ collateralBalance' = [collateralBalance EXCEPT
           ![buyer] = @ - paid, ![seller] = @ + got]
      /\ yesBalance' = [yesBalance EXCEPT ![seller] = @ - size, ![buyer] = @ + size]

SubmitFill(taker, price, offered, o) ==
  LET size == FillSize(o, offered)
  IN  /\ ValidFill(taker, price, offered, o)
      /\ RecordFill(o, size)
      /\ IF o.isLong
         THEN Swap(o.maker, taker, makerFeeBps, takerFeeBps, price, size)
         ELSE Swap(taker, o.maker, takerFeeBps, makerFeeBps, price, size)
      /\ UNCHANGED <<noBalance, phase, tokens, now>>

\* cancelOrder() by the maker, in every phase.
CancelOrder(k) ==
  /\ filledAmount[k] < k.size
  /\ filledAmount' = [filledAmount EXCEPT ![k] = k.size]
  /\ UNCHANGED <<balances, nonces, executed, phase, tokens, now>>

Resolve(result) ==
  /\ ~resolved
  /\ resolved' = TRUE
  /\ outcome' = result
  /\ UNCHANGED <<balances, ledger, tokens, now>>

\* Mutation: the amount is always taken from the YES side.
WinningYes(t) == yesBalance[t]

Winning(t) == IF outcome THEN yesBalance[t] ELSE noBalance[t]

\* The winning shares are burnt and paid 1:1.
Redeem(t) ==
  LET amount == Winning(t)
  IN  /\ resolved
      /\ amount > 0 /\ amount <= held
      /\ IF outcome
         THEN yesBalance' = [yesBalance EXCEPT ![t] = 0] /\ UNCHANGED noBalance
         ELSE noBalance' = [noBalance EXCEPT ![t] = 0] /\ UNCHANGED yesBalance
      /\ held' = held - amount
      /\ wallet' = Add(wallet, t, amount)
      /\ UNCHANGED <<collateralBalance, ledger, phase, now>>

Tick ==
  /\ now < MaxTime
  /\ now' = now + 1
  /\ UNCHANGED <<balances, ledger, phase, tokens>>

Next ==
  \/ \E t \in Traders, amount \in Amounts :
       \/ Deposit(t, amount)
       \/ Withdraw(t, amount)
       \/ MintShares(t, amount)
       \/ MergeShares(t, amount)
  \/ \E taker \in Traders, price \in FillPrices, size \in FillSizes,
        o \in Orders : SubmitFill(taker, price, size, o)
  \/ \E k \in Keys : CancelOrder(k)
  \/ \E result \in BOOLEAN : Resolve(result)
  \/ \E t \in Traders : Redeem(t)
  \/ Tick

Spec == Init /\ [][Next]_vars

-----------------------------------------------------------------------------
(* Properties.                                                             *)

\* Every variable has its type; in particular no balance is negative.
TypeOK ==
  /\ collateralBalance \in [Traders -> Nat]
  /\ yesBalance \in [Traders -> Nat] /\ noBalance \in [Traders -> Nat]
  /\ nonces \in [Traders -> Nat]
  /\ filledAmount \in [Keys -> Nat] /\ executed \in [Keys -> Nat]
  /\ resolved \in BOOLEAN /\ outcome \in BOOLEAN
  /\ held \in Nat /\ wallet \in [Traders -> Nat]
  /\ now \in Nat

Total(f) == SumFunctionOnSet(f, Traders)

\* The tokens held are exactly the collateral balances plus one for every
\* complete set of shares, or, once the event is resolved, one for every
\* winning share that was not redeemed: mints, merges, partial fills rounded
\* down and redemptions never leave a share unbacked or a token without owner.
FullyBacked ==
  IF resolved
  THEN held = Total(collateralBalance) + Total([t \in Traders |-> Winning(t)])
  ELSE /\ held = Total(collateralBalance) + Total(yesBalance)
       /\ Total(yesBalance) = Total(noBalance)

\* The books behind the orders, as in EventMarket.
LedgerInv == \A k \in Keys :
  IF k.salt = 0
  THEN executed[k] <= k.size /\ (nonces[k.maker] <= k.nonce => executed[k] = 0)
  ELSE executed[k] <= filledAmount[k] /\ filledAmount[k] <= k.size

\* An order on record as filled or cancelled, and one whose V1 nonce is spent.
\* As in EventMarket the record binds V2 orders only.
Marked == {k \in Keys : filledAmount[k] >= k.size}
NonceSpent == {k \in Keys : k.salt = 0 /\ nonces[k.maker] > k.nonce}
OrdersV2 == {k \in Keys : k.salt # 0}

Lifecycle == INSTANCE OrderLifecycle WITH
  Ids <- Keys, Size <- [k \in Keys |-> k.size], Revocable <- OrdersV2,
  traded <- executed, marked <- Marked, spent <- NonceSpent

\* The market keeps the promise of OrderLifecycle, in which the cancel of a V1
\* order has no part: submitFill() does not look at its mark.
OrdersKeepPromise == Lifecycle!Spec

\* Winners who call redeem() are paid, in whatever order they come.
RedeemFairness == \A t \in Traders : WF_vars(Redeem(t))
RedeemSpec == Spec /\ RedeemFairness

\* Once the event is resolved every winning share is paid in the end.
WinnersArePaid == resolved ~> \A t \in Traders : Winning(t) = 0
=============================================================================
