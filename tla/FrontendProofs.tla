--------------------------- MODULE FrontendProofs ---------------------------
(***************************************************************************)
(* Theorems of Frontend, for any number of tabs and wallets and without    *)
(* its bounds.                                                             *)
(***************************************************************************)
EXTENDS Frontend, SequenceTheorems, TLAPS

USE PanelAssumption, FundsAssumption

(***************************************************************************)
(* The funds panel.                                                        *)
(***************************************************************************)
Views == [allowance : Nat, resolved : BOOLEAN, outcome : BOOLEAN, yes : Nat, no : Nat]

FundsTyped ==
  /\ allowance \in Nat /\ yes \in Nat /\ no \in Nat
  /\ resolved \in BOOLEAN /\ outcome \in BOOLEAN
  /\ view \in [Pages -> Views]
  /\ pending \in [Pages -> [Kinds -> Nat]]

\* What a tab has read and nothing has overtaken is what the chain holds.
Current ==
  \A t \in Pages :
    /\ <<t, "allowance">> \notin outdated => view[t].allowance = allowance
    /\ <<t, "outcome">> \notin outdated => view[t].outcome = outcome
    /\ <<t, "shares">> \notin outdated => view[t].yes = yes /\ view[t].no = no
    /\ view[t].resolved => resolved

\* A transaction in flight that rests on nothing overtaken will succeed.
Sound ==
  \A t \in Pages :
    /\ InFlight(t, "deposit") => \/ pending[t]["deposit"] <= allowance
                                 \/ <<t, "deposit">> \in doubtful
    /\ InFlight(t, "redeem") =>
         (resolved /\ (Winning > 0 \/ <<t, "redeem">> \in doubtful))

FundsInv == FundsTyped /\ Current /\ Sound

\* A tab reads a value.
LEMMA ReadFunds ==
  ASSUME FundsInv, NEW t \in Pages,
         ReadAllowance(t) \/ ReadResolved(t) \/ ReadOutcome(t) \/ ReadShares(t)
  PROVE  FundsInv'
  <1>1. /\ UNCHANGED <<allowance, yes, no, resolved, outcome, pending, doubtful>>
        /\ \A s \in Pages : s # t => view'[s] = view[s]
    BY DEF ReadAllowance, ReadResolved, ReadOutcome, ReadShares, Reads, onchain,
           FundsInv, FundsTyped
  <1>2. view' \in [Pages -> Views]
    <2>1. CASE ReadAllowance(t)
      BY <2>1 DEF ReadAllowance, FundsInv, FundsTyped, Views
    <2>2. CASE ReadResolved(t)
      <3>1. view[t] \in Views /\ view \in [Pages -> Views]
        BY DEF FundsInv, FundsTyped
      <3>2. [view[t] EXCEPT !.resolved = resolved] \in Views
        BY <3>1 DEF Views, FundsInv, FundsTyped
      <3>3. view' = [view EXCEPT ![t] = [view[t] EXCEPT !.resolved = resolved]]
        BY <2>2 DEF ReadResolved
      <3> QED
        BY <3>1, <3>2, <3>3
    <2>3. CASE ReadOutcome(t)
      BY <2>3 DEF ReadOutcome, FundsInv, FundsTyped, Views
    <2>4. CASE ReadShares(t)
      <3>1. view[t] \in Views /\ view \in [Pages -> Views]
        BY DEF FundsInv, FundsTyped
      <3>2. [view[t] EXCEPT !.yes = yes, !.no = no] \in Views
        BY <3>1 DEF Views, FundsInv, FundsTyped
      <3>3. view' = [view EXCEPT ![t] = [view[t] EXCEPT !.yes = yes, !.no = no]]
        BY <2>4 DEF ReadShares
      <3> QED
        BY <3>1, <3>2, <3>3
    <2> QED
      BY <2>1, <2>2, <2>3, <2>4
  <1>3. \A s \in Pages : s # t => \A x : <<s, x>> \in outdated' <=> <<s, x>> \in outdated
    BY DEF ReadAllowance, ReadResolved, ReadOutcome, ReadShares, Reads
  <1>4. /\ <<t, "allowance">> \notin outdated' => view'[t].allowance = allowance
        /\ <<t, "outcome">> \notin outdated' => view'[t].outcome = outcome
        /\ <<t, "shares">> \notin outdated' => view'[t].yes = yes /\ view'[t].no = no
        /\ view'[t].resolved => resolved
    BY DEF ReadAllowance, ReadResolved, ReadOutcome, ReadShares, Reads,
           FundsInv, FundsTyped, Views, Current
  <1>5. Current'
    BY <1>1, <1>3, <1>4 DEF FundsInv, Current
  <1> QED
    BY <1>1, <1>2, <1>5 DEF FundsInv, FundsTyped, Sound, InFlight, Winning

\* A transaction that is sent is sound.
LEMMA SendFunds ==
  ASSUME FundsInv, NEW t \in Pages, NEW k \in Kinds, NEW amount \in Nat, Send(t, k, amount),
         k = "deposit" => HasAllowance(t, amount),
         k = "redeem" => view[t].resolved /\ (IF view[t].outcome THEN view[t].yes
                                              ELSE view[t].no) > 0
  PROVE  FundsInv'
  <1>1. /\ UNCHANGED <<allowance, yes, no, resolved, outcome, view, outdated>>
        /\ pending' = [pending EXCEPT ![t][k] = amount]
        /\ doubtful \subseteq doubtful'
    BY DEF Send, onchain
  <1>2. pending' \in [Pages -> [Kinds -> Nat]]
    BY <1>1 DEF FundsInv, FundsTyped
  <1>3. \A s \in Pages, j \in Kinds : (s = t /\ j = k) \/ pending'[s][j] = pending[s][j]
    BY <1>1 DEF FundsInv, FundsTyped
  <1>4. pending'[t][k] = amount
    BY <1>1 DEF FundsInv, FundsTyped
  <1>5. ASSUME k = "deposit", <<t, "deposit">> \notin doubtful' PROVE amount <= allowance
    <2>1. <<t, "allowance">> \notin outdated
      BY <1>5 DEF Send, BasedOn
    <2> QED
      BY <1>5, <2>1 DEF HasAllowance, FundsInv, Current, FundsTyped, Views
  <1>6. ASSUME k = "redeem" PROVE resolved
    BY <1>6 DEF FundsInv, Current
  <1>7. ASSUME k = "redeem", <<t, "redeem">> \notin doubtful' PROVE Winning > 0
    <2>1. <<t, "outcome">> \notin outdated /\ <<t, "shares">> \notin outdated
      BY <1>7 DEF Send, BasedOn
    <2> QED
      BY <1>7, <2>1 DEF FundsInv, Current, Winning
  <1>8. Sound'
    <2> SUFFICES ASSUME NEW s \in Pages
                 PROVE  /\ InFlight(s, "deposit")' => \/ pending'[s]["deposit"] <= allowance
                                                      \/ <<s, "deposit">> \in doubtful'
                        /\ InFlight(s, "redeem")' =>
                             (resolved /\ (Winning > 0 \/ <<s, "redeem">> \in doubtful'))
      BY <1>1 DEF Sound, Winning
    <2>1. "deposit" \in Kinds /\ "redeem" \in Kinds
      BY DEF Kinds
    <2>2. InFlight(s, "deposit")' => \/ pending'[s]["deposit"] <= allowance
                                     \/ <<s, "deposit">> \in doubtful'
      BY <1>1, <1>3, <1>4, <1>5, <2>1 DEF FundsInv, Sound, InFlight
    <2>3. InFlight(s, "redeem")' => resolved /\ (Winning > 0 \/ <<s, "redeem">> \in doubtful')
      BY <1>1, <1>3, <1>6, <1>7, <2>1 DEF FundsInv, Sound, InFlight
    <2> QED
      BY <2>2, <2>3
  <1> QED
    BY <1>1, <1>2, <1>8 DEF FundsInv, FundsTyped, Current

\* What a mined transaction changes of the numbers a tab reads.
LEMMA MinedFunds ==
  ASSUME FundsTyped, NEW k \in Kinds, NEW amount \in Nat, Mined(k, amount)
  PROVE  /\ allowance' \in Nat /\ yes' \in Nat /\ no' \in Nat
         /\ k \notin {"approve", "deposit"} => allowance' = allowance
         /\ k \notin {"mint", "merge", "redeem"} => yes' = yes /\ no' = no
         /\ resolved /\ k # "redeem" => yes' = yes /\ no' = no
  <1>1. CASE k = "approve" /\ MineApprove(amount)
    BY <1>1 DEF MineApprove, FundsTyped
  <1>2. CASE k = "deposit" /\ MineDeposit(amount)
    BY <1>2 DEF MineDeposit, FundsTyped
  <1>3. CASE k = "withdraw" /\ MineWithdraw(amount)
    BY <1>3 DEF MineWithdraw, FundsTyped
  <1>4. CASE k = "mint" /\ MineMint(amount)
    BY <1>4 DEF MineMint, FundsTyped
  <1>5. CASE k = "merge" /\ MineMerge(amount)
    BY <1>5 DEF MineMerge, FundsTyped
  <1>6. CASE k = "redeem" /\ MineRedeem
    BY <1>6 DEF MineRedeem, FundsTyped
  <1> QED
    BY <1>1, <1>2, <1>3, <1>4, <1>5, <1>6 DEF Mined

\* A transaction comes back mined.
LEMMA MinedReceipt ==
  ASSUME FundsInv, NEW t \in Pages, NEW k \in Kinds, Receipt(t, k),
         Mined(k, pending[t][k]), UNCHANGED <<resolved, outcome>>,
         outdated' = outdated \union (Pages \X Touched(k)),
         doubtful' = (doubtful \union {p \in Pages \X Kinds :
                        InFlight(p[1], p[2]) /\ BasedOn(p[2]) \cap Touched(k) # {}})
                     \ {<<t, k>>}
  PROVE  FundsInv'
  <1>1. pending[t][k] \in Nat
    BY DEF FundsInv, FundsTyped
  <1>2. /\ allowance' \in Nat /\ yes' \in Nat /\ no' \in Nat
        /\ k \notin {"approve", "deposit"} => allowance' = allowance
        /\ k \notin {"mint", "merge", "redeem"} => yes' = yes /\ no' = no
    BY <1>1, MinedFunds DEF FundsInv
  <1>3. view' = view /\ pending' = [pending EXCEPT ![t][k] = 0]
    BY DEF Receipt
  <1>4. FundsTyped'
    BY <1>2, <1>3 DEF FundsInv, FundsTyped
  <1>5. ASSUME NEW s \in Pages
        PROVE  /\ k \in {"approve", "deposit"} => <<s, "allowance">> \in outdated'
               /\ k \in {"mint", "merge", "redeem"} => <<s, "shares">> \in outdated'
               /\ outdated \subseteq outdated'
    BY DEF Touched
  <1>6. Current'
    BY <1>2, <1>3, <1>5 DEF FundsInv, Current
  <1>7. ASSUME NEW s \in Pages, InFlight(s, "deposit")'
        PROVE  pending'[s]["deposit"] <= allowance' \/ <<s, "deposit">> \in doubtful'
    <2>1. "deposit" \in Kinds
      BY DEF Kinds
    <2>2. <<s, "deposit">> # <<t, k>> /\ pending'[s]["deposit"] = pending[s]["deposit"]
      BY <1>3, <1>7, <2>1 DEF InFlight, FundsInv, FundsTyped
    <2>3. CASE k \in {"approve", "deposit"}
      <3>1. BasedOn("deposit") \cap Touched(k) # {}
        BY <2>3 DEF BasedOn, Touched
      <3>2. InFlight(s, "deposit")
        BY <1>7, <2>2 DEF InFlight
      <3> QED
        BY <2>1, <2>2, <3>1, <3>2
    <2>4. CASE k \notin {"approve", "deposit"}
      BY <1>2, <1>7, <2>2, <2>4 DEF InFlight, FundsInv, Sound
    <2> QED
      BY <2>3, <2>4
  <1>8. ASSUME NEW s \in Pages, InFlight(s, "redeem")'
        PROVE  resolved' /\ (Winning' > 0 \/ <<s, "redeem">> \in doubtful')
    <2>1. "redeem" \in Kinds
      BY DEF Kinds
    <2>2. <<s, "redeem">> # <<t, k>> /\ InFlight(s, "redeem")
      BY <1>3, <1>8, <2>1 DEF InFlight, FundsInv, FundsTyped
    <2>3. resolved
      BY <2>2 DEF FundsInv, Sound
    <2>4. CASE k \in {"mint", "merge", "redeem"}
      <3>1. BasedOn("redeem") \cap Touched(k) # {}
        BY <2>4 DEF BasedOn, Touched
      <3> QED
        BY <2>1, <2>2, <2>3, <3>1
    <2>5. CASE k \notin {"mint", "merge", "redeem"}
      BY <1>2, <2>2, <2>3, <2>5 DEF FundsInv, Sound, Winning
    <2> QED
      BY <2>4, <2>5
  <1> QED
    BY <1>4, <1>6, <1>7, <1>8 DEF FundsInv, Sound

\* A transaction comes back reverted.
LEMMA FailedReceipt ==
  ASSUME FundsInv, NEW t \in Pages, NEW k \in Kinds, Receipt(t, k),
         UNCHANGED <<onchain, outdated>>, doubtful' = doubtful \ {<<t, k>>}
  PROVE  FundsInv'
  <1>1. view' = view /\ pending' = [pending EXCEPT ![t][k] = 0]
    BY DEF Receipt
  <1>2. FundsTyped' /\ Current'
    BY <1>1 DEF FundsInv, FundsTyped, Current, onchain
  <1>3. "deposit" \in Kinds /\ "redeem" \in Kinds
    BY DEF Kinds
  <1>4. ASSUME NEW s \in Pages, NEW j \in Kinds, InFlight(s, j)'
        PROVE  <<s, j>> # <<t, k>> /\ pending'[s][j] = pending[s][j]
    BY <1>1, <1>4 DEF InFlight, FundsInv, FundsTyped
  <1>5. Sound'
    BY <1>3, <1>4 DEF FundsInv, Sound, InFlight, Winning, onchain
  <1> QED
    BY <1>2, <1>5 DEF FundsInv

\* No step breaks the invariant.
LEMMA FundsStep == ASSUME FundsInv, FundsNext PROVE FundsInv'
  <1>1. ASSUME NEW t \in Pages, Redeem(t) PROVE FundsInv'
    BY <1>1, SendFunds DEF Redeem, Kinds
  <1>2. ASSUME NEW t \in Pages, NEW amount \in Amounts,
               \/ Approve(t, amount) \/ Deposit(t, amount) \/ Withdraw(t, amount)
               \/ Mint(t, amount) \/ Merge(t, amount)
        PROVE  FundsInv'
    <2>1. amount \in Nat
      OBVIOUS
    <2> QED
      BY <1>2, <2>1, SendFunds DEF Approve, Deposit, Withdraw, Mint, Merge, Kinds
  <1>3. ASSUME NEW t \in Pages, NEW k \in Kinds, Receipt(t, k) PROVE FundsInv'
    BY <1>3, MinedReceipt, FailedReceipt DEF Receipt
  <1>4. ASSUME NEW result \in BOOLEAN, Resolve(result) PROVE FundsInv'
    <2>1. \A s \in Pages : <<s, "outcome">> \in outdated'
      BY <1>4 DEF Resolve
    <2>2. \A s \in Pages : ~ InFlight(s, "redeem")'
      BY <1>4 DEF Resolve, FundsInv, Sound, InFlight
    <2> QED
      BY <1>4, <2>1, <2>2 DEF Resolve, FundsInv, FundsTyped, Current, Sound, InFlight
  <1>5. ASSUME NEW sold \in BOOLEAN, NEW paid \in {0, 1}, Filled(sold, paid) PROVE FundsInv'
    <2>1. yes' \in Nat /\ UNCHANGED <<allowance, no, resolved, outcome, view, pending, doubtful>>
      BY <1>5 DEF Filled, FundsInv, FundsTyped
    <2>2. \A s \in Pages : <<s, "shares">> \in outdated'
      BY <1>5 DEF Filled
    <2>3. outdated \subseteq outdated' /\ ~ resolved
      BY <1>5 DEF Filled
    <2> QED
      BY <2>1, <2>2, <2>3 DEF FundsInv, FundsTyped, Current, Sound, InFlight
  <1> QED
    BY <1>1, <1>2, <1>3, <1>4, <1>5, ReadFunds DEF FundsNext

\* What may be said of a transaction that comes back reverted.
Excused(t) ==
  /\ Failed(t, "deposit") => \/ resolved
                             \/ pending[t]["deposit"] > tokens
                             \/ <<t, "deposit">> \in doubtful
  /\ Failed(t, "redeem") => <<t, "redeem">> \in doubtful

\* One that rests on nothing overtaken comes back mined.
LEMMA FailureStep == ASSUME FundsInv, FundsNext, NEW t \in Pages PROVE Excused(t)
  <1>1. ASSUME NEW k \in Kinds, Failed(t, k) PROVE Receipt(t, k)
    <2>1. pending[t][k] \in Nat /\ pending[t][k] # 0 /\ pending'[t][k] = 0
      BY <1>1 DEF Failed, InFlight, FundsInv, FundsTyped
    <2>2. ASSUME NEW s \in Pages, NEW j \in Kinds, NEW amount \in Nat \ {0}, Send(s, j, amount)
          PROVE  FALSE
      <3>1. pending' = [pending EXCEPT ![s][j] = amount]
        BY <2>2 DEF Send
      <3> QED
        BY <2>1, <3>1 DEF FundsInv, FundsTyped
    <2>3. ASSUME UNCHANGED pending PROVE FALSE
      BY <2>1, <2>3
    <2>4. ASSUME NEW s \in Pages, NEW j \in Kinds, Receipt(s, j) PROVE s = t /\ j = k
      <3>1. pending' = [pending EXCEPT ![s][j] = 0]
        BY <2>4 DEF Receipt
      <3> QED
        BY <2>1, <3>1 DEF FundsInv, FundsTyped
    <2>5. \E s \in Pages, j \in Kinds : Receipt(s, j)
      <3>1. ASSUME NEW s \in Pages, Redeem(s) PROVE FALSE
        BY <2>2, <3>1 DEF Redeem, Kinds
      <3>2. ASSUME NEW s \in Pages, NEW amount \in Amounts,
                   \/ Approve(s, amount) \/ Deposit(s, amount) \/ Withdraw(s, amount)
                   \/ Mint(s, amount) \/ Merge(s, amount)
            PROVE  FALSE
        <4>1. amount \in Nat \ {0}
          OBVIOUS
        <4> QED
          BY <2>2, <3>2, <4>1 DEF Approve, Deposit, Withdraw, Mint, Merge, Kinds
      <3>3. ASSUME NEW s \in Pages,
                   ReadAllowance(s) \/ ReadResolved(s) \/ ReadOutcome(s) \/ ReadShares(s)
            PROVE  FALSE
        BY <2>3, <3>3 DEF ReadAllowance, ReadResolved, ReadOutcome, ReadShares, Reads
      <3>4. ASSUME NEW result \in BOOLEAN, Resolve(result) PROVE FALSE
        BY <2>3, <3>4 DEF Resolve
      <3>5. ASSUME NEW sold \in BOOLEAN, NEW paid \in {0, 1}, Filled(sold, paid) PROVE FALSE
        BY <2>3, <3>5 DEF Filled
      <3> QED
        BY <3>1, <3>2, <3>3, <3>4, <3>5 DEF FundsNext
    <2> QED
      BY <2>4, <2>5
  <1>2. "deposit" \in Kinds /\ "redeem" \in Kinds
    BY DEF Kinds
  <1>3. ASSUME Failed(t, "deposit")
        PROVE  resolved \/ pending[t]["deposit"] > tokens \/ <<t, "deposit">> \in doubtful
    <2>1. pending[t]["deposit"] \in Nat /\ pending[t]["deposit"] > 0
      BY <1>2, <1>3 DEF Failed, InFlight, FundsInv, FundsTyped
    <2>2. ~ MineDeposit(pending[t]["deposit"])
      BY <1>3, <2>1 DEF Failed, MineDeposit, onchain, FundsInv, FundsTyped
    <2>3. Receipt(t, "deposit")
      BY <1>1, <1>2, <1>3
    <2>4. Fails("deposit", pending[t]["deposit"])
      BY <2>2, <2>3 DEF Receipt, Mined
    <2>5. resolved \/ pending[t]["deposit"] > allowance \/ pending[t]["deposit"] > tokens
      BY <2>4 DEF Fails
    <2>6. pending[t]["deposit"] <= allowance \/ <<t, "deposit">> \in doubtful
      BY <2>1 DEF InFlight, FundsInv, Sound
    <2> QED
      BY <2>1, <2>5, <2>6 DEF FundsInv, FundsTyped
  <1>4. ASSUME Failed(t, "redeem") PROVE <<t, "redeem">> \in doubtful
    <2>1. InFlight(t, "redeem") /\ resolved
      BY <1>4 DEF Failed, FundsInv, Sound
    <2>2. ~ MineRedeem
      BY <1>4 DEF Failed, MineRedeem, Winning, onchain, FundsInv, FundsTyped
    <2>3. Receipt(t, "redeem")
      BY <1>1, <1>2, <1>4
    <2>4. Fails("redeem", pending[t]["redeem"])
      BY <2>2, <2>3 DEF Receipt, Mined
    <2>5. Winning = 0
      BY <2>1, <2>4 DEF Fails
    <2>6. ~ (Winning > 0)
      BY <2>5
    <2> QED
      BY <2>1, <2>6 DEF FundsInv, Sound
  <1> QED
    BY <1>3, <1>4 DEF Excused

\* A deposit or a redemption a page offers fails only for a read the chain has
\* overtaken, the resolution or a short wallet (Market.tsx of both frontends).
THEOREM FailedFundsCalls == Spec => FailedFundsCallIsExcused
  <1>1. Init => FundsInv
    <2> SUFFICES ASSUME FundsInit PROVE FundsInv
      BY DEF Init
    <2>1. FundsTyped
      BY DEF FundsInit, FundsTyped, Views
    <2>2. Current
      BY DEF FundsInit, Current
    <2>3. Sound
      BY DEF FundsInit, Sound, InFlight, Kinds
    <2> QED
      BY <2>1, <2>2, <2>3 DEF FundsInv
  <1>2. FundsInv /\ [Next]_page => FundsInv'
    <2>1. ASSUME FundsInv, UNCHANGED funds PROVE FundsInv'
      BY <2>1 DEF FundsInv, FundsTyped, Current, Sound, InFlight, Winning, funds, onchain
    <2> QED
      BY <2>1, FundsStep DEF Next, page
  <1>3. FundsInv /\ [Next]_page => [\A t \in Pages : Excused(t)]_funds
    BY FailureStep DEF Next, page
  <1>4. [\A t \in Pages : Excused(t)]_funds <=>
        [\A t \in Pages :
           /\ Failed(t, "deposit") => \/ resolved
                                     \/ pending[t]["deposit"] > tokens
                                     \/ <<t, "deposit">> \in doubtful
           /\ Failed(t, "redeem") => <<t, "redeem">> \in doubtful]_funds
    BY DEF Excused
  <1> QED
    BY <1>1, <1>2, <1>3, <1>4, PTL DEF Spec, FailedFundsCallIsExcused

(***************************************************************************)
(* The trade panel: types.                                                 *)
(***************************************************************************)
OrderForms == [maker : Wallets, nonce : Int, price : Nat, size : Nat, isLong : BOOLEAN]
Forms == [order : OrderForms \cup {NoOrder}, sig : OrderForms \cup {NoOrder},
          price : Int, size : Nat]
Selections == [index : Nat, deps : Nat \X Nat]
Fills == [taker : Wallets, fill : Forms, read : Int]

PanelTyped ==
  /\ binary \in BOOLEAN /\ account \in Wallets
  /\ signed \subseteq OrderForms /\ stored \in Seq(signed)
  /\ form \in [Tabs -> Forms]
  /\ select \in [Tabs -> Selections]
  /\ seen \in [Tabs -> [Wallets -> Int]]
  /\ nonces \in [Wallets -> Nat]
  /\ byHand \in [Tabs -> BOOLEAN]
  /\ DOMAIN signing = Tabs /\ DOMAIN tx = Tabs
  /\ \A t \in Tabs : signing[t].order = NoOrder \/ signing[t].order \in OrderForms
  /\ \A t \in Tabs : signing[t].at \in Nat /\ signing[t].at <= Len(stored)
  /\ \A t \in Tabs : tx[t] = NoTx \/ tx[t] \in Fills

\* A price as shown is a number.
LEMMA ShownTyped == ASSUME NEW p \in Nat PROVE Shown(p) \in Int
  <1>1. 2 * p + Grain \in Int /\ 2 * Grain \in Nat \ {0}
    OBVIOUS
  <1>2. (2 * p + Grain) \div (2 * Grain) \in Int
    BY <1>1
  <1> QED
    BY <1>2 DEF Shown

\* The form of an order is one.
LEMMA FormTyped == ASSUME NEW o \in OrderForms PROVE FormOf(o) \in Forms
  <1>1. Shown(o.price) \in Int
    BY ShownTyped DEF OrderForms
  <1> QED
    BY <1>1 DEF FormOf, Forms, OrderForms

\* Rendering keeps the types.
LEMMA RenderTyped ==
  ASSUME PanelTyped, signed' \subseteq OrderForms, stored' \in Seq(signed'),
         NEW t \in Tabs, NEW f \in Forms, NEW i \in Nat, NEW hand \in BOOLEAN,
         Render(t, f, i, hand)
  PROVE  /\ form' \in [Tabs -> Forms] /\ select' \in [Tabs -> Selections]
         /\ byHand' \in [Tabs -> BOOLEAN]
  <1> DEFINE deps == <<i, Len(stored')>>
             runs == binary /\ Fires(deps, select[t].deps) /\ i < Len(stored')
             g == IF runs THEN FormOf(stored'[i + 1]) ELSE f
  <1>1. /\ select' = [select EXCEPT ![t] = [index |-> i, deps |-> deps]]
        /\ form' = [form EXCEPT ![t] = g]
        /\ byHand' = [byHand EXCEPT ![t] = hand /\ ~runs]
    BY DEF Render
  <1>2. Len(stored') \in Nat
    OBVIOUS
  <1>3. i < Len(stored') => FormOf(stored'[i + 1]) \in Forms
    BY FormTyped
  <1>4. [index |-> i, deps |-> deps] \in Selections
    BY <1>2 DEF Selections
  <1>5. g \in Forms
    BY <1>3
  <1>6. (hand /\ ~runs) \in BOOLEAN
    OBVIOUS
  <1> HIDE DEF runs, g, deps
  <1>7. form' \in [Tabs -> Forms] /\ select' \in [Tabs -> Selections]
    BY <1>1, <1>4, <1>5 DEF PanelTyped
  <1>8. byHand' \in [Tabs -> BOOLEAN]
    BY <1>1, <1>6 DEF PanelTyped
  <1> QED
    BY <1>7, <1>8

\* What the rest of the panel keeps when a tab renders without signing.
LEMMA RenderStep ==
  ASSUME PanelTyped, NEW t \in Tabs, NEW f \in Forms, NEW i \in Nat, NEW hand \in BOOLEAN,
         stored' = stored, Render(t, f, i, hand),
         UNCHANGED <<binary, account, signing, seen, chain, signed>>
  PROVE  PanelTyped'
  <1>1. signed' \subseteq OrderForms /\ stored' \in Seq(signed')
    BY DEF PanelTyped
  <1>2. /\ form' \in [Tabs -> Forms] /\ select' \in [Tabs -> Selections]
        /\ byHand' \in [Tabs -> BOOLEAN]
    BY <1>1, RenderTyped
  <1> QED
    BY <1>1, <1>2 DEF PanelTyped, chain

\* Every initial state is typed.
LEMMA PanelInitTyped == PanelInit => PanelTyped
  <1> SUFFICES ASSUME PanelInit PROVE PanelTyped
    OBVIOUS
  <1>1. Empty \in Forms /\ <<0, 0>> \in Nat \X Nat
    BY DEF Empty, Forms
  <1>2. [index |-> 0, deps |-> <<0, 0>>] \in Selections
    BY <1>1 DEF Selections
  <1>3. stored \in Seq(signed) /\ Len(stored) = 0
    BY DEF PanelInit
  <1>4. NotSigning.order = NoOrder /\ NotSigning.at = 0
    BY DEF NotSigning
  <1>5. Unread \in Int
    BY DEF Unread
  <1> QED
    BY <1>1, <1>2, <1>3, <1>4, <1>5 DEF PanelInit, NotSelected, PanelTyped

\* An edit by hand.
LEMMA EditTyped ==
  ASSUME PanelTyped, NEW t \in Tabs, NEW f \in Forms, Edit(t, f)
  PROVE  PanelTyped'
  <1>1. select[t].index \in Nat
    BY DEF PanelTyped, Selections
  <1> QED
    BY <1>1, RenderStep DEF Edit

\* Signing appends the order to the list.
LEMMA SignTyped ==
  ASSUME PanelTyped, NEW t \in Tabs, Sign(t)
  PROVE  /\ PanelTyped' /\ stored' = Append(stored, signing[t].order)
         /\ Len(stored') = Len(stored) + 1
  <1> DEFINE o == signing[t].order
             f == [FormOf(o) EXCEPT !.price = o.price]
  <1>1. /\ o \in OrderForms /\ signing[t].at \in Nat
        /\ stored' = Append(stored, o) /\ signed' = signed \cup {o}
        /\ Render(t, f, signing[t].at, FALSE) \/ UNCHANGED <<form, select, byHand>>
        /\ signing' = [signing EXCEPT ![t] = NotSigning]
        /\ UNCHANGED <<binary, account, seen, nonces, tx>>
    BY DEF Sign, PanelTyped, StoreOrder, chain
  <1>2. /\ signed' \subseteq OrderForms /\ stored' \in Seq(signed')
        /\ Len(stored') = Len(stored) + 1
    <2>1. stored \in Seq(signed') /\ o \in signed'
      BY <1>1 DEF PanelTyped
    <2> QED
      BY <1>1, <2>1, AppendProperties DEF PanelTyped
  <1>3. f \in Forms
    <2>1. FormOf(o) \in Forms /\ o.price \in Int
      BY <1>1, FormTyped DEF OrderForms
    <2> QED
      BY <2>1 DEF Forms
  <1> HIDE DEF f
  <1>4. /\ form' \in [Tabs -> Forms] /\ select' \in [Tabs -> Selections]
        /\ byHand' \in [Tabs -> BOOLEAN]
    BY <1>1, <1>2, <1>3, RenderTyped DEF PanelTyped
  <1>5. Len(stored) \in Nat
    BY DEF PanelTyped
  <1>6. /\ DOMAIN signing' = Tabs
        /\ \A s \in Tabs : /\ signing'[s].order = NoOrder \/ signing'[s].order \in OrderForms
                           /\ signing'[s].at \in Nat /\ signing'[s].at <= Len(stored')
    BY <1>1, <1>2, <1>5 DEF PanelTyped, NotSigning
  <1>7. PanelTyped'
    BY <1>1, <1>2, <1>4, <1>6 DEF PanelTyped
  <1> QED
    BY <1>1, <1>2, <1>7

(***************************************************************************)
(* The trade panel: what its steps do to the list and to the forms.        *)
(***************************************************************************)
Bounded == \A t \in Tabs : select[t].deps[2] <= Len(stored)

\* The list only grows.
Grows == /\ Len(stored) <= Len(stored')
         /\ \A j \in 1 .. Len(stored) : stored'[j] = stored[j]

Matches(f, o) == [f EXCEPT !.price = 0] = [FormOf(o) EXCEPT !.price = 0]

Follows(t) == \/ byHand[t]
              \/ select[t].index >= select[t].deps[2]
              \/ Matches(form[t], stored[select[t].index + 1])

\* A tab rendered: in the binary panel, with the list it rendered last, the form already was the
\* order selected, or was edited by hand.
Rendered(t, f, i, hand) ==
  /\ Render(t, f, i, hand)
  /\ \/ ~binary \/ hand \/ i >= Len(stored') \/ Len(stored') # select[t].deps[2]
     \/ Matches(f, stored'[i + 1])

\* The panel of a tab is gone.
Gone(t) == /\ form' = [form EXCEPT ![t] = Empty]
           /\ select' = [select EXCEPT ![t] = NotSelected]
           /\ byHand' = [byHand EXCEPT ![t] = FALSE]

\* A step of a tab renders the tab, ends its panel or leaves all forms alone; the
\* list grows.
Shows == /\ Grows
         /\ \/ UNCHANGED <<form, select, byHand>>
            \/ \E t \in Tabs : Gone(t)
            \/ \E t \in Tabs, f \in Forms, i \in Nat, hand \in BOOLEAN :
                 Rendered(t, f, i, hand)

\* A list that is not written is still the list.
LEMMA SameListGrows == ASSUME PanelTyped, stored' = stored PROVE Grows
  BY DEF Grows, PanelTyped

\* A tab that renders again shows what it showed.
LEMMA RerenderShows ==
  ASSUME PanelTyped, FormFollowsSelection, NEW t \in Tabs, stored' = stored,
         NEW hand \in BOOLEAN, byHand[t] => hand,
         Render(t, form[t], select[t].index, hand)
  PROVE  Rendered(t, form[t], select[t].index, hand)
  BY DEF FormFollowsSelection, Rendered, Matches

\* Signing changes the length of the list.
LEMMA SignShows ==
  ASSUME PanelTyped, Bounded, NEW t \in Tabs, Sign(t)
  PROVE  Shows
  <1> DEFINE o == signing[t].order
             f == [FormOf(o) EXCEPT !.price = o.price]
  <1>1. /\ o \in OrderForms /\ signing[t].at \in Nat
        /\ stored' = Append(stored, o) /\ Len(stored') = Len(stored) + 1
        /\ Render(t, f, signing[t].at, FALSE) \/ UNCHANGED <<form, select, byHand>>
    BY SignTyped DEF Sign, PanelTyped
  <1>2. f \in Forms
    <2>1. FormOf(o) \in Forms /\ o.price \in Int
      BY <1>1, FormTyped DEF OrderForms
    <2> QED
      BY <2>1 DEF Forms
  <1> HIDE DEF f
  <1>3. Grows
    BY <1>1, AppendProperties DEF Grows, PanelTyped
  <1>4. select[t].deps[2] <= Len(stored) /\ Len(stored) \in Nat
        /\ select[t].deps[2] \in Nat
    BY DEF Bounded, PanelTyped, Selections
  <1>5. ASSUME Render(t, f, signing[t].at, FALSE) PROVE Rendered(t, f, signing[t].at, FALSE)
    <2>1. Len(stored') # select[t].deps[2]
      BY <1>1, <1>4
    <2> QED
      BY <1>5, <2>1 DEF Rendered
  <1> QED
    BY <1>1, <1>2, <1>3, <1>5 DEF Shows

\* The forms follow the selection through every step that shows them.
LEMMA FollowStep ==
  ASSUME PanelTyped, PanelTyped', Bounded, FormFollowsSelection, Shows, binary' = binary
  PROVE  FormFollowsSelection' /\ Bounded'
  <1>0. /\ Len(stored) \in Nat /\ Len(stored') \in Nat /\ Len(stored) <= Len(stored')
        /\ binary => \A s \in Tabs : Follows(s)
    <2>1. binary => \A s \in Tabs : Follows(s)
      BY DEF FormFollowsSelection, Follows, Matches
    <2> QED
      BY <2>1 DEF PanelTyped, Shows, Grows
  <1> SUFFICES (binary => \A s \in Tabs : Follows(s)') /\ Bounded'
    BY DEF FormFollowsSelection, Follows, Matches
  <1>1. ASSUME NEW s \in Tabs, select'[s] = select[s]
        PROVE  /\ select'[s].deps[2] <= Len(stored')
               /\ select'[s].index < select'[s].deps[2]
                    => stored'[select'[s].index + 1] = stored[select'[s].index + 1]
    <2>1. /\ select[s].index \in Nat /\ select[s].deps[2] \in Nat
          /\ select[s].deps[2] <= Len(stored)
      BY DEF Bounded, PanelTyped, Selections
    <2>2. \A j \in 1 .. Len(stored) : stored'[j] = stored[j]
      BY DEF Shows, Grows
    <2> DEFINE at == select[s].index
               shown == select[s].deps[2]
    <2>3. at < shown => at + 1 \in 1 .. Len(stored)
      BY <1>0, <2>1
    <2> HIDE DEF at, shown
    <2>4. shown <= Len(stored') /\ (at < shown => stored'[at + 1] = stored[at + 1])
      BY <1>0, <2>1, <2>2, <2>3 DEF shown
    <2> QED
      BY <1>1, <2>4 DEF at, shown
  <1>2. ASSUME NEW s \in Tabs, select'[s] = select[s], form'[s] = form[s],
               byHand'[s] = byHand[s], binary
        PROVE  Follows(s)'
    <2>1. select[s].index \in Nat /\ select[s].deps[2] \in Nat
      BY DEF PanelTyped, Selections
    <2>2. select'[s].index < select'[s].deps[2]
            => stored'[select'[s].index + 1] = stored[select'[s].index + 1]
      BY <1>1, <1>2
    <2>3. Follows(s)
      BY <1>0, <1>2
    <2>4. CASE select[s].index >= select[s].deps[2]
      BY <1>2, <2>4 DEF Follows
    <2>5. CASE byHand[s] \/ Matches(form[s], stored[select[s].index + 1])
      <3>1. byHand[s] => Follows(s)'
        BY <1>2 DEF Follows
      <3>2. CASE select[s].index < select[s].deps[2]
        BY <1>2, <2>2, <2>5, <3>2 DEF Follows, Matches
      <3> QED
        BY <1>2, <2>1, <2>4, <3>2
    <2> QED
      BY <2>3, <2>4, <2>5 DEF Follows
  <1>3. CASE UNCHANGED <<form, select, byHand>>
    BY <1>1, <1>2, <1>3 DEF Bounded
  <1>4. ASSUME NEW t \in Tabs, NEW f \in Forms, NEW i \in Nat, NEW hand \in BOOLEAN,
               Rendered(t, f, i, hand)
        PROVE  (binary => \A s \in Tabs : Follows(s)') /\ Bounded'
    <2> DEFINE deps == <<i, Len(stored')>>
               runs == binary /\ Fires(deps, select[t].deps) /\ i < Len(stored')
    <2>1. /\ select' = [select EXCEPT ![t] = [index |-> i, deps |-> deps]]
          /\ form' = [form EXCEPT ![t] = IF runs THEN FormOf(stored'[i + 1]) ELSE f]
          /\ byHand' = [byHand EXCEPT ![t] = hand /\ ~runs]
      BY <1>4 DEF Rendered, Render
    <2>2. \A s \in Tabs \ {t} : /\ select'[s] = select[s] /\ form'[s] = form[s]
                                /\ byHand'[s] = byHand[s]
      BY <2>1 DEF PanelTyped
    <2>3. /\ select'[t].index = i /\ select'[t].deps[2] = Len(stored')
          /\ form'[t] = (IF runs THEN FormOf(stored'[i + 1]) ELSE f)
          /\ byHand'[t] = (hand /\ ~runs)
      BY <2>1 DEF PanelTyped
    <2>4. ASSUME binary
          PROVE  Follows(t)'
      <3>1. CASE runs
        BY <2>3, <3>1 DEF Follows, Matches
      <3>2. CASE ~ runs /\ i < Len(stored')
        <4>1. deps = select[t].deps
          BY <2>4, <3>2 DEF Fires
        <4>2. Len(stored') = select[t].deps[2]
          BY <4>1
        <4>3. hand \/ Matches(f, stored'[i + 1])
          BY <1>0, <1>4, <2>4, <3>2, <4>2 DEF Rendered
        <4> HIDE DEF runs
        <4>4. form'[t] = f /\ byHand'[t] = hand /\ select'[t].index = i
          BY <2>3, <3>2
        <4> QED
          BY <4>3, <4>4 DEF Follows
      <3>3. CASE i >= Len(stored')
        BY <2>3, <3>3 DEF Follows
      <3> QED
        BY <1>0, <3>1, <3>2, <3>3
    <2>5. Bounded'
      BY <1>0, <1>1, <2>2, <2>3 DEF Bounded
    <2> QED
      BY <1>2, <2>2, <2>4, <2>5
  <1>5. ASSUME NEW t \in Tabs, Gone(t)
        PROVE  (binary => \A s \in Tabs : Follows(s)') /\ Bounded'
    <2>1. \A s \in Tabs \ {t} : /\ select'[s] = select[s] /\ form'[s] = form[s]
                                /\ byHand'[s] = byHand[s]
      BY <1>5 DEF Gone, PanelTyped
    <2>2. select'[t].index = 0 /\ select'[t].deps[2] = 0
      BY <1>5 DEF Gone, NotSelected, PanelTyped
    <2>3. Follows(t)'
      BY <2>2 DEF Follows
    <2>4. Bounded'
      BY <1>0, <1>1, <2>1, <2>2 DEF Bounded
    <2> QED
      BY <1>2, <2>1, <2>3, <2>4
  <1> QED
    BY <1>3, <1>4, <1>5 DEF Shows

(***************************************************************************)
(* The trade panel: the invariant.                                         *)
(***************************************************************************)
PanelInv == PanelTyped /\ Bounded /\ FormFollowsSelection /\ SignedOrdersKept

\* A tab that rerenders.
LEMMA RerenderOK ==
  ASSUME PanelInv, NEW t \in Tabs, Rerender(t)
  PROVE  PanelTyped' /\ Shows
  <1>1. form[t] \in Forms /\ select[t].index \in Nat /\ byHand[t] \in BOOLEAN
    BY DEF PanelInv, PanelTyped, Selections
  <1>2. /\ stored' = stored /\ Render(t, form[t], select[t].index, byHand[t])
        /\ UNCHANGED <<binary, account, signing, seen, chain, signed>>
    BY DEF Rerender
  <1>3. PanelTyped'
    BY <1>1, <1>2, RenderStep DEF PanelInv
  <1>4. Rendered(t, form[t], select[t].index, byHand[t])
    BY <1>1, <1>2, RerenderShows DEF PanelInv
  <1> QED
    BY <1>1, <1>2, <1>3, <1>4, SameListGrows DEF Shows, PanelInv

\* A tab that selects a stored order.
LEMMA SelectOK ==
  ASSUME PanelInv, NEW t \in Tabs, NEW i \in Nat, SelectOrder(t, i)
  PROVE  PanelTyped' /\ Shows
  <1>1. /\ i < Len(stored) /\ stored[i + 1] \in OrderForms
    <2>1. i < select[t].deps[2] /\ select[t].deps[2] \in Nat
          /\ select[t].deps[2] <= Len(stored) /\ Len(stored) \in Nat
      BY DEF SelectOrder, PanelInv, PanelTyped, Bounded, Selections
    <2> QED
      BY <2>1 DEF PanelInv, PanelTyped
  <1>2. FormOf(stored[i + 1]) \in Forms
    BY <1>1, FormTyped
  <1>3. /\ stored' = stored /\ Render(t, FormOf(stored[i + 1]), i, FALSE)
        /\ UNCHANGED <<binary, account, signing, seen, chain, signed>>
    BY DEF SelectOrder
  <1>4. PanelTyped'
    BY <1>2, <1>3, RenderStep DEF PanelInv
  <1>5. Rendered(t, FormOf(stored[i + 1]), i, FALSE)
    BY <1>3 DEF Rendered, Matches
  <1> QED
    BY <1>2, <1>3, <1>4, <1>5, SameListGrows DEF Shows, PanelInv

\* A tab that is edited.
LEMMA EditOK ==
  ASSUME PanelInv, NEW t \in Tabs, NEW f \in Forms, Edit(t, f)
  PROVE  PanelTyped' /\ Shows
  <1>1. PanelTyped'
    BY EditTyped DEF PanelInv
  <1>2. stored' = stored /\ Render(t, f, select[t].index, TRUE) /\ select[t].index \in Nat
    BY DEF Edit, PanelInv, PanelTyped, Selections
  <1>3. Rendered(t, f, select[t].index, TRUE)
    BY <1>2 DEF Rendered
  <1> QED
    BY <1>1, <1>2, <1>3, SameListGrows DEF Shows, PanelInv

\* What a user may put in a form.
LEMMA EditsOK ==
  ASSUME PanelInv, NEW t \in Tabs,
         \/ \E o \in Range(stored) : PasteOrder(t, o) \/ PasteSignature(t, o)
         \/ \E p \in Prices : TypePrice(t, p)
         \/ \E z \in Sizes : TypeSize(t, z)
  PROVE  PanelTyped' /\ Shows
  <1>1. form[t] \in Forms
    BY DEF PanelInv, PanelTyped
  <1>2. ASSUME NEW o \in Range(stored), PasteOrder(t, o) \/ PasteSignature(t, o)
        PROVE  PanelTyped' /\ Shows
    <2>1. o \in OrderForms
      BY DEF Range, PanelInv, PanelTyped
    <2>2. Shown(o.price) \in Int /\ o.size \in Nat
      BY <2>1, ShownTyped DEF OrderForms
    <2>3. /\ [form[t] EXCEPT !.order = o, !.price = Shown(o.price), !.size = o.size] \in Forms
          /\ [form[t] EXCEPT !.sig = o] \in Forms
      BY <1>1, <2>1, <2>2 DEF Forms
    <2> QED
      BY <1>2, <2>3, EditOK DEF PasteOrder, PasteSignature
  <1>3. ASSUME NEW p \in Prices, TypePrice(t, p) PROVE PanelTyped' /\ Shows
    <2>1. [form[t] EXCEPT !.price = p] \in Forms
      BY <1>1 DEF Forms
    <2> QED
      BY <1>3, <2>1, EditOK DEF TypePrice
  <1>4. ASSUME NEW z \in Sizes, TypeSize(t, z) PROVE PanelTyped' /\ Shows
    <2>1. [form[t] EXCEPT !.size = z] \in Forms
      BY <1>1 DEF Forms
    <2> QED
      BY <1>4, <2>1, EditOK DEF TypeSize
  <1> QED
    BY <1>2, <1>3, <1>4

\* The steps that touch neither the forms nor the list.
LEMMA QuietOK ==
  ASSUME PanelInv, NEW t \in Tabs,
         \/ \E w \in Wallets : ReadNonce(t, w) \/ SwitchWallet(w)
         \/ \E f \in Offers : PlaceOrder(t, f)
         \/ RefuseToSign(t) \/ FillOrder(t) \/ Mine(t) \/ Unmount(t)
  PROVE  PanelTyped' /\ Shows
  <1>0. PanelTyped
    BY DEF PanelInv
  <1>1. ASSUME UNCHANGED <<stored, form, select, byHand>> PROVE Shows
    BY <1>0, <1>1, SameListGrows DEF Shows
  <1>2. ASSUME NEW w \in Wallets, ReadNonce(t, w) PROVE PanelTyped' /\ Shows
    <2>1. seen' \in [Tabs -> [Wallets -> Int]]
      BY <1>2 DEF ReadNonce, PanelInv, PanelTyped
    <2> QED
      BY <1>1, <1>2, <2>1 DEF ReadNonce, PanelInv, PanelTyped, chain, history
  <1>3. ASSUME NEW w \in Wallets, SwitchWallet(w) PROVE PanelTyped' /\ Shows
    BY <1>1, <1>3 DEF SwitchWallet, PanelInv, PanelTyped, chain, history
  <1>4. ASSUME NEW f \in Offers, PlaceOrder(t, f) PROVE PanelTyped' /\ Shows
    <2> DEFINE o == [maker |-> account, nonce |-> seen[t][account],
                     price |-> f.price, size |-> f.size, isLong |-> f.isLong]
    <2>1. o \in OrderForms
      BY DEF OrderForms, PanelInv, PanelTyped
    <2>2. select[t].deps[2] \in Nat /\ select[t].deps[2] <= Len(stored)
      BY DEF PanelInv, PanelTyped, Bounded, Selections
    <2>3. /\ signing' = [signing EXCEPT ![t] = [order |-> o, at |-> select[t].deps[2]]]
          /\ UNCHANGED <<binary, account, stored, form, select, seen, chain, history>>
      BY <1>4 DEF PlaceOrder
    <2> HIDE DEF o
    <2> QED
      BY <1>1, <2>1, <2>2, <2>3 DEF PanelInv, PanelTyped, chain, history
  <1>5. CASE RefuseToSign(t)
    <2>1. Len(stored) \in Nat
      BY <1>0 DEF PanelTyped
    <2> QED
      BY <1>0, <1>1, <1>5, <2>1 DEF RefuseToSign, PanelTyped, NotSigning, chain, history
  <1>6. CASE FillOrder(t)
    <2> DEFINE x == [taker |-> account, fill |-> form[t],
                     read |-> seen[t][form[t].order.maker]]
    <2>1. form[t].order \in OrderForms
      BY <1>0, <1>6 DEF FillOrder, Precheck, Foreign, SizeFits, PanelTyped, Forms
    <2>2. x \in Fills
      BY <1>0, <2>1 DEF PanelTyped, OrderForms, Fills
    <2>3. /\ tx' = [tx EXCEPT ![t] = x]
          /\ UNCHANGED <<binary, account, stored, form, select, signing, seen, nonces,
                         history>>
      BY <1>6 DEF FillOrder
    <2> HIDE DEF x
    <2> QED
      BY <1>0, <1>1, <2>2, <2>3 DEF PanelTyped, history
  <1>7. CASE Mine(t)
    <2>2. nonces \in [Wallets -> Nat]
      BY <1>0 DEF PanelTyped
    <2>3. ASSUME NEW m PROVE [nonces EXCEPT ![m] = @ + 1] \in [Wallets -> Nat]
      <3>1. CASE m \in Wallets
        BY <2>2, <3>1
      <3>2. CASE m \notin Wallets
        BY <2>2, <3>2, Zenon
      <3> QED
        BY <3>1, <3>2
    <2>4. nonces' = nonces \/ \E m : nonces' = [nonces EXCEPT ![m] = @ + 1]
      BY <1>7 DEF Mine
    <2>5. nonces' \in [Wallets -> Nat]
      BY <2>2, <2>3, <2>4
    <2> QED
      BY <1>0, <1>1, <1>7, <2>5 DEF Mine, PanelTyped, history
  <1>8. CASE Unmount(t)
    <2>1. Empty \in Forms /\ NotSelected \in Selections /\ Unread \in Int
      BY DEF Empty, Forms, NotSelected, Selections, Unread
    <2>2. /\ form' \in [Tabs -> Forms] /\ select' \in [Tabs -> Selections]
          /\ byHand' \in [Tabs -> BOOLEAN] /\ seen' \in [Tabs -> [Wallets -> Int]]
      BY <1>0, <1>8, <2>1 DEF Unmount, PanelTyped
    <2>3. Gone(t) /\ Grows
      BY <1>0, <1>8, SameListGrows DEF Unmount, Gone
    <2> QED
      BY <1>0, <1>8, <2>2, <2>3 DEF Unmount, PanelTyped, Shows, chain
  <1> QED
    BY <1>2, <1>3, <1>4, <1>5, <1>6, <1>7, <1>8

\* No step loses a signed order.
LEMMA KeptStep ==
  ASSUME PanelInv, PanelNext
  PROVE  SignedOrdersKept'
  <1>1. ASSUME stored' = stored, signed' = signed PROVE SignedOrdersKept'
    BY <1>1 DEF PanelInv, SignedOrdersKept
  <1>2. ASSUME NEW t \in Tabs, Sign(t) PROVE SignedOrdersKept'
    <2> DEFINE o == signing[t].order
    <2>1. stored' = Append(stored, o) /\ signed' = signed \cup {o}
      BY <1>2 DEF Sign, StoreOrder
    <2>2. Range(stored') = Range(stored) \cup {o}
      <3>1. stored \in Seq(signed)
        BY DEF PanelInv, PanelTyped
      <3>2. stored \in Seq(signed \cup {o})
        BY <3>1
      <3>3. /\ Len(stored') = Len(stored) + 1 /\ Len(stored) \in Nat
            /\ \A j \in 1 .. Len(stored) : stored'[j] = stored[j]
            /\ stored'[Len(stored) + 1] = o
            /\ DOMAIN stored = 1 .. Len(stored) /\ DOMAIN stored' = 1 .. Len(stored')
        BY <2>1, <3>2, AppendProperties
      <3> QED
        BY <3>3 DEF Range
    <2> QED
      BY <2>1, <2>2 DEF PanelInv, SignedOrdersKept
  <1>3. ASSUME NEW t \in Tabs, InTab(t), ~ Sign(t)
        PROVE  stored' = stored /\ signed' = signed
    BY <1>3 DEF InTab, Rerender, SelectOrder, PasteOrder, PasteSignature, TypePrice, TypeSize,
                Edit, ReadNonce, PlaceOrder, RefuseToSign, FillOrder, Mine, Unmount,
                history
  <1>4. ASSUME NEW w \in Wallets, SwitchWallet(w) PROVE stored' = stored /\ signed' = signed
    BY <1>4 DEF SwitchWallet, history
  <1>5. ASSUME MarketResolved PROVE stored' = stored /\ signed' = signed
    BY <1>5 DEF MarketResolved, history
  <1> QED
    BY <1>1, <1>2, <1>3, <1>4, <1>5 DEF PanelNext

\* Every step of the panel keeps the invariant.
LEMMA PanelStep == ASSUME PanelInv, PanelNext PROVE PanelInv'
  <1>1. ASSUME NEW t \in Tabs, InTab(t) PROVE PanelTyped' /\ Shows
    <2>1. CASE Rerender(t)
      BY <2>1, RerenderOK
    <2>2. ASSUME NEW i \in 0 .. (MaxOrders - 1), SelectOrder(t, i) PROVE PanelTyped' /\ Shows
      BY <2>2, SelectOK
    <2>3. CASE Sign(t)
      BY <2>3, SignTyped, SignShows DEF PanelInv
    <2> QED
      BY <1>1, <2>1, <2>2, <2>3, EditsOK, QuietOK DEF InTab
  <1>2. PanelTyped' /\ Shows
    <2>1. ASSUME NEW w \in Wallets, SwitchWallet(w) PROVE PanelTyped' /\ Shows
      <3>1. Grows
        BY <2>1, SameListGrows DEF SwitchWallet, PanelInv
      <3>2. Shows
        BY <2>1, <3>1 DEF SwitchWallet, Shows, history
      <3> QED
        BY <2>1, <3>2 DEF SwitchWallet, PanelInv, PanelTyped, chain, history
    <2>2. CASE MarketResolved
      <3>1. Grows
        BY <2>2, SameListGrows DEF MarketResolved, PanelInv
      <3> QED
        BY <2>2, <3>1 DEF MarketResolved, Shows, PanelInv, PanelTyped, history
    <2> QED
      BY <1>1, <2>1, <2>2 DEF PanelNext
  <1>3. binary' = binary
    BY DEF PanelNext, InTab, Rerender, SelectOrder, PasteOrder, PasteSignature, TypePrice,
           TypeSize, Edit, ReadNonce, PlaceOrder, Sign, RefuseToSign, FillOrder, Mine,
           Unmount, SwitchWallet, MarketResolved
  <1>4. FormFollowsSelection' /\ Bounded'
    BY <1>2, <1>3, FollowStep DEF PanelInv
  <1> QED
    BY <1>2, <1>4, KeptStep DEF PanelInv

\* The invariant of the trade panel holds throughout.
THEOREM PanelInvariant == Spec => []PanelInv
  <1>1. Init => PanelInv
    <2> SUFFICES ASSUME Init PROVE PanelInv
      OBVIOUS
    <2>1. PanelInit
      BY DEF Init
    <2>2. /\ stored = <<>> /\ signed = {}
          /\ \A t \in Tabs : select[t].index = 0 /\ select[t].deps[2] = 0
      BY <2>1 DEF PanelInit, NotSelected
    <2>3. Bounded /\ FormFollowsSelection /\ SignedOrdersKept
      BY <2>2 DEF Bounded, FormFollowsSelection, SignedOrdersKept
    <2> QED
      BY <2>1, <2>3, PanelInitTyped DEF PanelInv
  <1>2. PanelInv /\ [Next]_page => PanelInv'
    <2>1. ASSUME PanelInv, UNCHANGED panel PROVE PanelInv'
      BY <2>1 DEF PanelInv, PanelTyped, Bounded, FormFollowsSelection, SignedOrdersKept,
                  panel, chain, history
    <2> QED
      BY <2>1, PanelStep DEF Next, page
  <1> QED
    BY <1>1, <1>2, PTL DEF Spec

\* No signed order is lost from the browser's list (storeOrder reads the list
\* again after the wallet has answered), whatever the tabs do at once.
THEOREM SignedKept == Spec => []SignedOrdersKept
  <1>1. PanelInv => SignedOrdersKept
    BY DEF PanelInv
  <1> QED
    BY <1>1, PanelInvariant, PTL

\* The binary panel's form is the order its dropdown names unless it was edited
\* by hand (the useEffect of the panel).
THEOREM FormFollows == Spec => []FormFollowsSelection
  <1>1. PanelInv => FormFollowsSelection
    BY DEF PanelInv
  <1> QED
    BY <1>1, PanelInvariant, PTL

(***************************************************************************)
(* The trade panel: fills that fail.                                       *)
(***************************************************************************)
\* A fill that waits was prechecked, with a nonce its tab had read.
Checked(x) ==
  /\ x.taker # x.fill.order.maker /\ x.fill.order.maker \in Wallets
  /\ x.fill.size \in Nat /\ x.fill.order.size \in Nat
  /\ Crosses(x.fill.order, x.fill.price)
  /\ x.read = x.fill.order.nonce /\ x.read \in Int

\* Nonces only grow after they are read.
ReadInv == \A t \in Tabs, w \in Wallets : seen[t][w] <= nonces[w]

WaitingInv == \A t \in Tabs : tx[t] # NoTx =>
                 Checked(tx[t]) /\ tx[t].read <= nonces[tx[t].fill.order.maker]

FillInv == PanelInv /\ ReadInv /\ WaitingInv

\* A nonce is raised by the fill that consumes it and by nothing else.
LEMMA NoncesGrow ==
  ASSUME PanelInv, PanelNext
  PROVE  \A w \in Wallets : nonces'[w] \in Nat /\ nonces[w] <= nonces'[w]
  <1>1. nonces \in [Wallets -> Nat]
    BY DEF PanelInv, PanelTyped
  <1>2. nonces' = nonces \/ \E m : nonces' = [nonces EXCEPT ![m] = @ + 1]
    <2>1. ASSUME NEW t \in Tabs, Mine(t)
          PROVE  nonces' = nonces \/ \E m : nonces' = [nonces EXCEPT ![m] = @ + 1]
      BY <2>1 DEF Mine
    <2>2. ASSUME NEW t \in Tabs, InTab(t), ~ Mine(t) PROVE nonces' = nonces
      BY <2>2 DEF InTab, Rerender, SelectOrder, PasteOrder, PasteSignature, TypePrice,
                  TypeSize, Edit, ReadNonce, PlaceOrder, Sign, RefuseToSign, FillOrder, Unmount,
                  chain
    <2>3. ASSUME NEW w \in Wallets, SwitchWallet(w) PROVE nonces' = nonces
      BY <2>3 DEF SwitchWallet, chain
    <2> QED
      BY <2>1, <2>2, <2>3 DEF PanelNext, MarketResolved
  <1>3. ASSUME NEW m, nonces' = [nonces EXCEPT ![m] = @ + 1], NEW w \in Wallets
        PROVE  nonces'[w] \in Nat /\ nonces[w] <= nonces'[w]
    <2>1. nonces'[w] = nonces[w] \/ nonces'[w] = nonces[w] + 1
      BY <1>1, <1>3
    <2> QED
      BY <1>1, <2>1
  <1> QED
    BY <1>1, <1>2, <1>3

\* What a tab has read stays at most what is on chain.
LEMMA ReadStep == ASSUME FillInv, PanelNext PROVE ReadInv'
  <1>1. \A w \in Wallets : /\ nonces[w] \in Nat /\ nonces'[w] \in Nat
                           /\ nonces[w] <= nonces'[w]
    BY NoncesGrow DEF FillInv, PanelInv, PanelTyped
  <1>2. seen \in [Tabs -> [Wallets -> Int]]
    BY DEF FillInv, PanelInv, PanelTyped
  <1>3. CASE seen' = seen
    BY <1>1, <1>2, <1>3 DEF ReadInv, FillInv
  <1>4. ASSUME NEW t \in Tabs, NEW w \in Wallets, ReadNonce(t, w) PROVE ReadInv'
    <2>1. seen' = [seen EXCEPT ![t][w] = nonces[w]]
      BY <1>4 DEF ReadNonce
    <2>2. \A s \in Tabs, v \in Wallets : seen'[s][v] = seen[s][v] \/ seen'[s][v] = nonces[v]
      BY <1>2, <2>1
    <2> QED
      BY <1>1, <1>2, <2>2 DEF ReadInv, FillInv
  <1>5. ASSUME NEW t \in Tabs, InTab(t), ~ \E w \in Wallets : ReadNonce(t, w), ~ Unmount(t)
        PROVE  seen' = seen
    BY <1>5 DEF InTab, Rerender, SelectOrder, PasteOrder, PasteSignature, TypePrice,
                TypeSize, Edit, PlaceOrder, Sign, RefuseToSign, FillOrder, Mine
  <1>6. ASSUME NEW w \in Wallets, SwitchWallet(w) PROVE seen' = seen
    BY <1>6 DEF SwitchWallet
  <1>7. ASSUME NEW t \in Tabs, Unmount(t) PROVE ReadInv'
    <2>1. seen' = [seen EXCEPT ![t] = [w \in Wallets |-> Unread]]
      BY <1>7 DEF Unmount
    <2>2. \A s \in Tabs, v \in Wallets : seen'[s][v] = seen[s][v] \/ seen'[s][v] = -1
      BY <1>2, <2>1 DEF Unread
    <2> QED
      BY <1>1, <1>2, <2>2 DEF ReadInv, FillInv
  <1>8. CASE MarketResolved
    BY <1>3, <1>8 DEF MarketResolved
  <1> QED
    BY <1>3, <1>4, <1>5, <1>6, <1>7, <1>8 DEF PanelNext

\* A waiting fill stays, is mined, or was sent by this step.
LEMMA WaitingStep ==
  ASSUME PanelInv, PanelNext, NEW t \in Tabs
  PROVE  tx'[t] = tx[t] \/ Mine(t) \/ FillOrder(t)
  <1>1. DOMAIN tx = Tabs
    BY DEF PanelInv, PanelTyped
  <1>2. ASSUME NEW s \in Tabs, FillOrder(s) \/ Mine(s)
        PROVE  tx'[t] = tx[t] \/ Mine(t) \/ FillOrder(t)
    <2>1. CASE s = t
      BY <1>2, <2>1
    <2>2. CASE s # t
      BY <1>1, <1>2, <2>2 DEF FillOrder, Mine
    <2> QED
      BY <2>1, <2>2
  <1>3. ASSUME NEW s \in Tabs, InTab(s), ~ FillOrder(s), ~ Mine(s) PROVE tx' = tx
    BY <1>3 DEF InTab, Rerender, SelectOrder, PasteOrder, PasteSignature, TypePrice,
                TypeSize, Edit, ReadNonce, PlaceOrder, Sign, RefuseToSign, Unmount, chain
  <1>4. ASSUME NEW w \in Wallets, SwitchWallet(w) PROVE tx' = tx
    BY <1>4 DEF SwitchWallet, chain
  <1> QED
    BY <1>2, <1>3, <1>4 DEF PanelNext, MarketResolved

\* Fills are sent only when they pass the prechecks.
LEMMA CheckedStep == ASSUME FillInv, PanelNext PROVE WaitingInv'
  <1>1. \A w \in Wallets : /\ nonces[w] \in Nat /\ nonces'[w] \in Nat
                           /\ nonces[w] <= nonces'[w]
    BY NoncesGrow DEF FillInv, PanelInv, PanelTyped
  <1> SUFFICES ASSUME NEW t \in Tabs, tx'[t] # NoTx
               PROVE  Checked(tx'[t]) /\ tx'[t].read <= nonces'[tx'[t].fill.order.maker]
    BY DEF WaitingInv
  <1>2. CASE tx'[t] = tx[t]
    <2>1. Checked(tx[t]) /\ tx[t].read <= nonces[tx[t].fill.order.maker]
      BY <1>2 DEF FillInv, WaitingInv
    <2>2. tx[t].fill.order.maker \in Wallets /\ tx[t].read \in Int
      BY <2>1 DEF Checked
    <2>3. tx[t].read <= nonces'[tx[t].fill.order.maker]
      BY <1>1, <2>1, <2>2
    <2> QED
      BY <1>2, <2>1, <2>3
  <1>3. CASE Mine(t)
    BY <1>3 DEF Mine, FillInv, PanelInv, PanelTyped
  <1>4. CASE FillOrder(t)
    <2> DEFINE o == form[t].order
    <2>1. /\ tx'[t] = [taker |-> account, fill |-> form[t], read |-> seen[t][o.maker]]
          /\ nonces' = nonces
      BY <1>4 DEF FillOrder, FillInv, PanelInv, PanelTyped
    <2>2. o \in OrderForms /\ form[t].size \in Nat
      BY <1>4 DEF FillOrder, Precheck, Foreign, SizeFits, FillInv, PanelInv, PanelTyped, Forms
    <2>3. o.maker \in Wallets /\ o.size \in Nat /\ o.nonce \in Int
      BY <2>2 DEF OrderForms
    <2>4. /\ o.maker # account /\ Crosses(o, form[t].price) /\ seen[t][o.maker] = o.nonce
      BY <1>4 DEF FillOrder, Precheck, Foreign, SizeFits
    <2>5. seen[t][o.maker] <= nonces[o.maker]
      BY <2>3 DEF FillInv, ReadInv
    <2> QED
      BY <2>1, <2>2, <2>3, <2>4, <2>5 DEF Checked
  <1> QED
    BY <1>2, <1>3, <1>4, WaitingStep DEF FillInv

\* A checked fill that fails is excused.
LEMMA RevertStep ==
  ASSUME FillInv, PanelNext, NEW t \in Tabs, binary, Reverts(t)
  PROVE  \/ over
         \/ nonces[tx[t].fill.order.maker] > tx[t].read
         \/ tx[t].fill.size < tx[t].fill.order.size
         \/ tx[t].fill.sig # tx[t].fill.order
  <1> DEFINE x == tx[t]
             m == x.fill.order.maker
  <1>1. Mine(t)
    BY WaitingStep DEF Reverts, FillOrder, FillInv
  <1>2. Checked(x) /\ x.read <= nonces[m]
    BY DEF Reverts, FillInv, WaitingInv
  <1>3. nonces \in [Wallets -> Nat] /\ m \in Wallets
    BY <1>2 DEF Checked, FillInv, PanelInv, PanelTyped
  <1>4. ~ Accepted(x)
    <2>1. SUFFICES ASSUME Accepted(x) PROVE FALSE
      OBVIOUS
    <2>2. nonces' = [nonces EXCEPT ![m] = @ + 1]
      BY <1>1, <2>1 DEF Mine
    <2>3. nonces'[m] = nonces[m] + 1
      BY <1>3, <2>2
    <2> QED
      BY <1>3, <2>3 DEF Reverts
  <1>5. /\ x.read = x.fill.order.nonce /\ x.read \in Int
        /\ x.fill.size \in Nat /\ x.fill.order.size \in Nat
        /\ x.taker # m /\ Crosses(x.fill.order, x.fill.price)
    BY <1>2 DEF Checked
  <1>6. \/ over \/ nonces[m] # x.read \/ ~ (x.fill.size >= x.fill.order.size)
        \/ x.fill.sig # x.fill.order
    BY <1>4, <1>5 DEF Accepted
  <1> HIDE DEF x, m
  <1>7. over \/ nonces[m] > x.read \/ x.fill.size < x.fill.order.size \/ x.fill.sig # x.fill.order
    BY <1>2, <1>3, <1>5, <1>6
  <1> QED
    BY <1>7 DEF x, m

\* A fill the binary panel has prechecked fails only for a nonce read too early,
\* a market resolved since, a size the user cut, or a signature of another order
\* (both sides able to pay, and the order not expired: Accepted).
THEOREM FailedFills == Spec => FailedFillIsExcused
  <1>1. Init => ReadInv /\ WaitingInv
    BY DEF Init, PanelInit, ReadInv, WaitingInv, Unread
  <1>2. FillInv /\ [Next]_page => (ReadInv /\ WaitingInv)'
    <2>1. ASSUME FillInv, UNCHANGED panel PROVE (ReadInv /\ WaitingInv)'
      BY <2>1 DEF FillInv, ReadInv, WaitingInv, Checked, Crosses, panel, chain
    <2> QED
      BY <2>1, ReadStep, CheckedStep DEF Next, page
  <1>3. FillInv /\ [Next]_page =>
          [\A t \in Tabs : binary /\ Reverts(t) =>
             LET f == tx[t].fill
             IN  \/ over
                 \/ nonces[f.order.maker] > tx[t].read
                 \/ f.size < f.order.size
                 \/ f.sig # f.order]_panel
    BY RevertStep DEF Next, page
  <1> QED
    BY <1>1, <1>2, <1>3, PanelInvariant, PTL DEF Spec, FillInv, FailedFillIsExcused
-----------------------------------------------------------------------------
USE AdminAssumption

(***************************************************************************)
(* The invariant: a waiting call names a market that exists, and one sent  *)
(* from a row is one that row offered, on what the page had read.          *)
(***************************************************************************)
Owners == Operators \union {Nobody}
EventInfos == [oracle : Owners, resolved : BOOLEAN, outcome : BOOLEAN, paused : BOOLEAN]
MarketInfos == [resolved : BOOLEAN, outcome : BOOLEAN, closeOnly : BOOLEAN]
Rows == [Ids -> [resolved : BOOLEAN, closeOnly : BOOLEAN]]
Args == [on : BOOLEAN, due : Nat, oracle : Owners, page : BOOLEAN]
Asked == {"create", "resolve", "closeOnly", "pause", "admin", "beacon"}
Calls == [do : Asked, id : Nat, args : Args, admin : Owners, resolved : BOOLEAN]

Expected(p, c) ==
  /\ c.do \in {"resolve", "closeOnly", "pause"} => c.id \in DOMAIN markets
  /\ c.do = "pause" => perpetual
  /\ c.args.page => /\ c.do \in {"resolve", "closeOnly"}
                    /\ perpetual => c.admin = p
                    /\ c.do = "resolve" => ~ c.resolved

Waiting(p) == {c \in Calls : Expected(p, c)}

AdminTyped ==
  /\ perpetual \in BOOLEAN /\ clock \in Nat
  /\ admin \in Owners /\ beacon \in BOOLEAN
  /\ markets \in Seq(MarketInfos) /\ events \in Seq(EventInfos)
  /\ known \in [Operators -> [admin : Owners, count : Nat, rows : Rows]]
  /\ DOMAIN queue = Operators

QueueInv == \A p \in Operators : queue[p] \in Seq(Waiting(p))
CountInv == \A p \in Operators : known[p].count <= Len(markets)

AdminInv ==
  /\ AdminTyped /\ QueueInv /\ CountInv
  /\ RecordsAgree
  /\ ~ perpetual => events = <<>>

\* Calls stay expected as markets are added.
LEMMA StillWaiting ==
  ASSUME AdminTyped, markets' \in Seq(MarketInfos), Len(markets') >= Len(markets),
         perpetual' = perpetual, NEW p \in Operators
  PROVE  Seq(Waiting(p)) \subseteq Seq(Waiting(p)')
  <1>1. DOMAIN markets \subseteq DOMAIN markets'
    <2>1. /\ DOMAIN markets = 1 .. Len(markets) /\ Len(markets) \in Nat
          /\ DOMAIN markets' = 1 .. Len(markets') /\ Len(markets') \in Nat
      BY LenProperties DEF AdminTyped
    <2> QED
      BY <2>1
  <1>2. Waiting(p) \subseteq Waiting(p)'
    BY <1>1 DEF Waiting, Expected
  <1> QED
    BY <1>2

\* A call that is sent is one its page offered.
LEMMA SendStep ==
  ASSUME AdminInv, NEW p \in Operators, NEW do \in Asked, NEW i \in Nat, NEW args \in Args,
         do \in {"resolve", "closeOnly", "pause"} => i \in DOMAIN markets,
         do = "pause" => perpetual,
         args.page => /\ do \in {"resolve", "closeOnly"} /\ i # 0
                      /\ perpetual => known[p].admin = p
                      /\ do = "resolve" => ~ known[p].rows[i].resolved,
         SendCall(p, do, i, args)
  PROVE  AdminInv'
  <1> DEFINE c == [do |-> do, id |-> i, args |-> args, admin |-> known[p].admin,
                   resolved |-> i # 0 /\ known[p].rows[i].resolved]
  <1>1. known[p] \in [admin : Owners, count : Nat, rows : Rows]
    BY DEF AdminInv, AdminTyped
  <1>2. c.resolved \in BOOLEAN
    OBVIOUS
  <1>3. c \in Calls
    BY <1>1, <1>2 DEF Calls
  <1>4. Expected(p, c)
    BY DEF Expected
  <1>5. c \in Waiting(p)
    BY <1>3, <1>4 DEF Waiting
  <1>6. queue' = [queue EXCEPT ![p] = Append(queue[p], c)]
    BY DEF SendCall
  <1> HIDE DEF c
  <1>7. Append(queue[p], c) \in Seq(Waiting(p))
    BY <1>5, AppendProperties DEF AdminInv, QueueInv
  <1>8. \A q \in Operators : queue'[q] \in Seq(Waiting(q))
    BY <1>6, <1>7 DEF AdminInv, AdminTyped, QueueInv
  <1>9. /\ UNCHANGED <<perpetual, admin, beacon, events, markets, clock, known>>
        /\ DOMAIN queue' = Operators
    BY <1>6 DEF SendCall, factory, AdminInv, AdminTyped
  <1>10. QueueInv'
    BY <1>8, <1>9 DEF QueueInv, Waiting, Expected
  <1> QED
    BY <1>9, <1>10 DEF AdminInv, AdminTyped, CountInv, RecordsAgree


\* Whatever an operator sends keeps the invariant.
LEMMA SendsOK ==
  ASSUME AdminInv, NEW p \in Operators,
         \/ \E days \in Days, oracle \in Operators : CreateEvent(p, days, oracle)
         \/ CreateMarket(p)
         \/ \E i \in Ids : \/ ToggleCloseOnly(p, i)
                           \/ \E result \in BOOLEAN : ResolveRow(p, i, result)
         \/ CallFactory(p)
  PROVE  AdminInv'
  <1>1. NoArgs \in Args
    BY DEF NoArgs, Args, Owners
  <1>2. clock \in Nat /\ known[p].count \in Nat /\ known[p].rows \in Rows
    BY DEF AdminInv, AdminTyped
  <1>3. \A i \in Ids : i <= known[p].count => i \in DOMAIN markets
    <2>1. DOMAIN markets = 1 .. Len(markets) /\ Len(markets) \in Nat
      BY LenProperties DEF AdminInv, AdminTyped
    <2> QED
      BY <1>2, <2>1 DEF AdminInv, CountInv, Ids
  <1>4. ASSUME NEW days \in Days, NEW oracle \in Operators, CreateEvent(p, days, oracle)
        PROVE  AdminInv'
    <2> DEFINE args == EventArgs(clock + days, oracle)
    <2>1. args \in Args /\ ~ args.page
      BY <1>2 DEF EventArgs, Args, Owners
    <2>2. SendCall(p, "create", 0, args)
      BY <1>4 DEF CreateEvent
    <2> HIDE DEF args
    <2> QED
      BY <2>1, <2>2, SendStep DEF Asked
  <1>5. CASE CreateMarket(p)
    BY <1>1, <1>5, SendStep DEF CreateMarket, Asked, NoArgs
  <1>6. ASSUME NEW i \in Ids, ToggleCloseOnly(p, i) PROVE AdminInv'
    <2> DEFINE args == RowArgs(~ known[p].rows[i].closeOnly)
    <2>1. args \in Args /\ args.page
      BY DEF RowArgs, Args, Owners
    <2>2. SendCall(p, "closeOnly", i, args) /\ i \in DOMAIN markets
          /\ (perpetual => known[p].admin = p) /\ i \in Nat /\ i # 0
      BY <1>3, <1>6 DEF ToggleCloseOnly, NoArgs, ShownTo, Ids
    <2> HIDE DEF args
    <2> QED
      BY <2>1, <2>2, SendStep DEF Asked
  <1>7. ASSUME NEW i \in Ids, NEW result \in BOOLEAN, ResolveRow(p, i, result) PROVE AdminInv'
    <2> DEFINE args == RowArgs(result)
    <2>1. args \in Args /\ args.page
      BY DEF RowArgs, Args, Owners
    <2>2. SendCall(p, "resolve", i, args) /\ i \in DOMAIN markets
          /\ (perpetual => known[p].admin = p) /\ i \in Nat /\ i # 0
          /\ ~ known[p].rows[i].resolved
      BY <1>3, <1>7 DEF ResolveRow, NoArgs, Offered, ShownTo, Ids
    <2> HIDE DEF args
    <2> QED
      BY <2>1, <2>2, SendStep DEF Asked
  <1>8. CASE CallFactory(p)
    <2>1. ASSUME NEW q \in Operators, SendCall(p, "admin", 0, [NoArgs EXCEPT !.oracle = q])
          PROVE  AdminInv'
      <3>1. [NoArgs EXCEPT !.oracle = q] \in Args /\ ~ [NoArgs EXCEPT !.oracle = q].page
        BY DEF NoArgs, Args, Owners
      <3> QED
        BY <2>1, <3>1, SendStep DEF Asked
    <2>2. ASSUME NEW on \in BOOLEAN
          PROVE  [NoArgs EXCEPT !.on = on] \in Args /\ ~ [NoArgs EXCEPT !.on = on].page
      BY DEF NoArgs, Args, Owners
    <2>3. ASSUME NEW on \in BOOLEAN, SendCall(p, "beacon", 0, [NoArgs EXCEPT !.on = on])
          PROVE  AdminInv'
      BY <2>2, <2>3, SendStep DEF Asked
    <2>4. ASSUME perpetual, NEW i \in DOMAIN events, NEW on \in BOOLEAN,
                 NEW do \in {"pause", "resolve"},
                 SendCall(p, do, i, [NoArgs EXCEPT !.on = on])
          PROVE  AdminInv'
      <3>1. i \in DOMAIN markets /\ i \in Nat
        BY <2>4, LenProperties DEF AdminInv, AdminTyped, RecordsAgree
      <3> QED
        BY <2>2, <2>4, <3>1, SendStep DEF Asked
    <2> QED
      BY <1>8, <2>1, <2>3, <2>4 DEF CallFactory
  <1> QED
    BY <1>4, <1>5, <1>6, <1>7, <1>8

\* Reading keeps the invariant: what is read is a market, and markets stay.
LEMMA ReadsOK ==
  ASSUME AdminInv, NEW p \in Operators,
         ReadAdmin(p) \/ ReadCount(p) \/ \E i \in Ids : ReadRow(p, i)
  PROVE  AdminInv'
  <1>1. UNCHANGED <<perpetual, admin, beacon, events, markets, clock, queue>>
    BY DEF ReadAdmin, ReadCount, ReadRow, factory
  <1>2. known[p] \in [admin : Owners, count : Nat, rows : Rows]
    BY DEF AdminInv, AdminTyped
  <1>3. Len(markets) \in Nat /\ admin \in Owners
    BY LenProperties DEF AdminInv, AdminTyped
  <1>4. ASSUME NEW new \in [admin : Owners, count : Nat, rows : Rows],
               new.count <= Len(markets), known' = [known EXCEPT ![p] = new]
        PROVE  AdminInv'
    <2>1. /\ known' \in [Operators -> [admin : Owners, count : Nat, rows : Rows]]
          /\ \A q \in Operators : known'[q] = known[q] \/ known'[q] = new
      BY <1>4 DEF AdminInv, AdminTyped
    <2>2. CountInv'
      BY <1>1, <1>4, <2>1 DEF CountInv, AdminInv
    <2>3. QueueInv'
      BY <1>1 DEF QueueInv, Waiting, Expected, AdminInv
    <2> QED
      BY <1>1, <2>1, <2>2, <2>3 DEF AdminInv, AdminTyped, RecordsAgree
  <1>5. CASE ReadAdmin(p)
    <2>1. /\ [known[p] EXCEPT !.admin = admin] \in [admin : Owners, count : Nat, rows : Rows]
          /\ [known[p] EXCEPT !.admin = admin].count = known[p].count
      BY <1>2, <1>3
    <2> QED
      BY <1>4, <1>5, <2>1 DEF ReadAdmin, AdminInv, CountInv
  <1>6. CASE ReadCount(p)
    <2> DEFINE new == [known[p] EXCEPT !.count = Len(markets)]
    <2>1. new \in [admin : Owners, count : Nat, rows : Rows] /\ new.count = Len(markets)
      BY <1>2, <1>3
    <2>2. known' = [known EXCEPT ![p] = new]
      BY <1>6 DEF ReadCount
    <2>3. new.count <= Len(markets)
      BY <1>3, <2>1
    <2> HIDE DEF new
    <2> QED
      BY <1>4, <2>1, <2>2, <2>3
  <1>7. ASSUME NEW i \in Ids, ReadRow(p, i) PROVE AdminInv'
    <2> DEFINE row == [resolved |-> markets[i].resolved, closeOnly |-> markets[i].closeOnly]
               new == [known[p] EXCEPT !.rows = [known[p].rows EXCEPT ![i] = row]]
    <2>1. i \in 1 .. Len(markets)
      BY <1>2, <1>3, <1>7 DEF ReadRow, Ids, AdminInv, CountInv
    <2>2. markets[i] \in MarketInfos
      BY <2>1, ElementOfSeq DEF AdminInv, AdminTyped
    <2>3. row \in [resolved : BOOLEAN, closeOnly : BOOLEAN]
      BY <2>2 DEF MarketInfos
    <2>4. known' = [known EXCEPT ![p] = new]
      BY <1>7 DEF ReadRow
    <2> HIDE DEF row
    <2>5. [known[p].rows EXCEPT ![i] = row] \in Rows
      BY <1>2, <2>3 DEF Rows
    <2>6. new \in [admin : Owners, count : Nat, rows : Rows] /\ new.count = known[p].count
      BY <1>2, <2>5
    <2> HIDE DEF new
    <2> QED
      BY <1>4, <2>4, <2>6 DEF AdminInv, CountInv
  <1> QED
    BY <1>5, <1>6, <1>7

(***************************************************************************)
(* Mining.                                                                 *)
(***************************************************************************)
\* What holds of the factory and its markets after a call is mined.
FactoryTyped ==
  /\ admin \in Owners /\ beacon \in BOOLEAN
  /\ markets \in Seq(MarketInfos) /\ events \in Seq(EventInfos)
  /\ RecordsAgree
  /\ ~ perpetual => events = <<>>

\* The entries of market i are replaced in both lists.
Replaced(i, e, m) ==
  /\ UNCHANGED <<perpetual, admin, beacon>>
  /\ events' = IF perpetual THEN [events EXCEPT ![i] = e] ELSE events
  /\ markets' = [markets EXCEPT ![i] = m]

\* The copies stay equal if the new entries are.
LEMMA ReplaceStep ==
  ASSUME AdminInv, NEW i \in DOMAIN markets, NEW e \in EventInfos, NEW m \in MarketInfos,
         e.resolved = m.resolved, e.outcome = m.outcome, Replaced(i, e, m)
  PROVE  /\ FactoryTyped' /\ Len(markets') = Len(markets)
         /\ \A j \in 1 .. Len(markets) : markets'[j] = IF j = i THEN m ELSE markets[j]
  <1>1. /\ markets \in Seq(MarketInfos) /\ events \in Seq(EventInfos)
        /\ i \in 1 .. Len(markets) /\ perpetual \in BOOLEAN
    BY LenProperties DEF AdminInv, AdminTyped
  <1>0. /\ UNCHANGED <<perpetual, admin, beacon>>
        /\ markets' = [markets EXCEPT ![i] = m]
        /\ events' = IF perpetual THEN [events EXCEPT ![i] = e] ELSE events
    BY DEF Replaced
  <1>2. /\ markets' \in Seq(MarketInfos) /\ Len(markets') = Len(markets)
        /\ \A j \in 1 .. Len(markets) : markets'[j] = IF j = i THEN m ELSE markets[j]
    BY <1>0, <1>1, ExceptSeq
  <1>3. CASE ~ perpetual
    BY <1>0, <1>1, <1>2, <1>3 DEF FactoryTyped, RecordsAgree, AdminInv, AdminTyped
  <1>4. CASE perpetual
    <2>1. Len(events) = Len(markets)
      BY <1>4 DEF AdminInv, RecordsAgree
    <2>2. /\ events' \in Seq(EventInfos) /\ Len(events') = Len(events)
          /\ \A j \in 1 .. Len(events) : events'[j] = IF j = i THEN e ELSE events[j]
      BY <1>0, <1>1, <1>4, <2>1, ExceptSeq
    <2>3. DOMAIN markets = 1 .. Len(markets) /\ DOMAIN markets' = 1 .. Len(markets)
      BY <1>1, <1>2, LenProperties
    <2>4. RecordsAgree'
      BY <1>0, <1>2, <1>4, <2>1, <2>2, <2>3 DEF RecordsAgree, AdminInv
    <2> QED
      BY <1>0, <1>2, <1>4, <2>2, <2>4 DEF FactoryTyped, AdminInv, AdminTyped
  <1> QED
    BY <1>1, <1>2, <1>3, <1>4

\* Resolving: only a market that is not resolved, and both copies at once.
LEMMA ResolveStep ==
  ASSUME AdminInv, NEW c \in Calls, c.id \in DOMAIN markets, MineResolve(c),
         perpetual' = perpetual
  PROVE  /\ FactoryTyped' /\ Len(markets') = Len(markets)
         /\ ~ markets[c.id].resolved /\ markets'[c.id].resolved
         /\ \A j \in 1 .. Len(markets) : j # c.id => markets'[j] = markets[j]
  <1> DEFINE i == c.id
             m == [markets[i] EXCEPT !.resolved = TRUE, !.outcome = c.args.on]
             e == [events[i] EXCEPT !.resolved = TRUE, !.outcome = c.args.on]
  <1>1. /\ i \in 1 .. Len(markets) /\ DOMAIN markets = 1 .. Len(markets)
        /\ markets[i] \in MarketInfos /\ c.args.on \in BOOLEAN
    BY LenProperties, ElementOfSeq DEF AdminInv, AdminTyped, Calls, Args
  <1>2. m \in MarketInfos /\ m.resolved /\ m.outcome = c.args.on
    BY <1>1 DEF MarketInfos
  <1>3. /\ markets' = [markets EXCEPT ![i] = m] /\ ~ markets[i].resolved
        /\ UNCHANGED <<admin, beacon>>
    BY DEF MineResolve, Unresolved
  <1>4. events' = IF perpetual THEN [events EXCEPT ![i] = e] ELSE events
    BY DEF MineResolve
  <1>5. CASE perpetual
    <2>1. events[i] \in EventInfos
      BY <1>1, <1>5, ElementOfSeq DEF AdminInv, AdminTyped, RecordsAgree
    <2>2. e \in EventInfos /\ e.resolved /\ e.outcome = c.args.on
      BY <1>1, <2>1 DEF EventInfos
    <2>3. Replaced(i, e, m)
      BY <1>3, <1>4 DEF Replaced
    <2>4. i \in DOMAIN markets /\ e.resolved = m.resolved /\ e.outcome = m.outcome
      BY <1>1, <1>2, <2>2 DEF EventInfos, MarketInfos
    <2>6. e \in EventInfos /\ m \in MarketInfos
      BY <1>2, <2>2
    <2> HIDE DEF m, e, i
    <2>5. /\ FactoryTyped' /\ Len(markets') = Len(markets)
          /\ \A j \in 1 .. Len(markets) : markets'[j] = IF j = i THEN m ELSE markets[j]
      BY <2>3, <2>4, <2>6, ReplaceStep
    <2> QED
      BY <1>1, <1>2, <1>3, <2>5 DEF i
  <1>6. CASE ~ perpetual
    <2> DEFINE any == [oracle |-> Nobody, resolved |-> TRUE, outcome |-> c.args.on,
                       paused |-> FALSE]
    <2>1. any \in EventInfos /\ any.resolved /\ any.outcome = c.args.on
      BY <1>1 DEF EventInfos, Owners
    <2>2. Replaced(i, any, m)
      BY <1>3, <1>4, <1>6 DEF Replaced
    <2>3. i \in DOMAIN markets /\ any.resolved = m.resolved /\ any.outcome = m.outcome
      BY <1>1, <1>2, <2>1 DEF EventInfos, MarketInfos
    <2>5. any \in EventInfos /\ m \in MarketInfos
      BY <1>2, <2>1
    <2> HIDE DEF m, any, i
    <2>4. /\ FactoryTyped' /\ Len(markets') = Len(markets)
          /\ \A j \in 1 .. Len(markets) : markets'[j] = IF j = i THEN m ELSE markets[j]
      BY <2>2, <2>3, <2>5, ReplaceStep
    <2> QED
      BY <1>1, <1>2, <1>3, <2>4 DEF i
  <1> QED
    BY <1>5, <1>6

\* A market that is created joins both lists, unresolved in both.
LEMMA CreateStep ==
  ASSUME AdminInv, NEW c \in Calls, MineCreate(c), perpetual' = perpetual
  PROVE  /\ FactoryTyped' /\ Len(markets') = Len(markets) + 1
         /\ \A j \in 1 .. Len(markets) : markets'[j] = markets[j]
  <1> DEFINE e == [oracle |-> c.args.oracle, resolved |-> FALSE, outcome |-> FALSE,
                   paused |-> FALSE]
  <1>1. /\ markets \in Seq(MarketInfos) /\ events \in Seq(EventInfos)
        /\ perpetual \in BOOLEAN
    BY DEF AdminInv, AdminTyped
  <1>2. /\ NewMarket \in MarketInfos /\ ~ NewMarket.resolved /\ ~ NewMarket.outcome
        /\ NewMarket.resolved = FALSE /\ NewMarket.outcome = FALSE
    BY DEF NewMarket, MarketInfos
  <1>3. /\ markets' = Append(markets, NewMarket) /\ UNCHANGED <<admin, beacon>>
        /\ events' = IF ~ perpetual THEN events ELSE Append(events, e)
    BY DEF MineCreate
  <1>4. /\ markets' \in Seq(MarketInfos) /\ Len(markets') = Len(markets) + 1
        /\ \A j \in 1 .. Len(markets) : markets'[j] = markets[j]
        /\ markets'[Len(markets) + 1] = NewMarket
    BY <1>1, <1>2, <1>3, AppendProperties
  <1>5. e \in EventInfos /\ e.resolved = FALSE /\ e.outcome = FALSE
    BY DEF Calls, Args, EventInfos
  <1> HIDE DEF e
  <1>6. CASE ~ perpetual
    BY <1>1, <1>3, <1>4, <1>6 DEF FactoryTyped, RecordsAgree, AdminInv, AdminTyped
  <1>7. CASE perpetual
    <2>1. /\ events' \in Seq(EventInfos) /\ Len(events') = Len(events) + 1
          /\ \A j \in 1 .. Len(events) : events'[j] = events[j]
          /\ events'[Len(events) + 1] = e
      BY <1>1, <1>3, <1>5, <1>7, AppendProperties
    <2>2. /\ Len(events) = Len(markets) /\ Len(markets) \in Nat
          /\ \A j \in 1 .. Len(markets) : /\ events[j].resolved = markets[j].resolved
                                          /\ events[j].outcome = markets[j].outcome
      BY <1>1, <1>7, LenProperties DEF AdminInv, RecordsAgree
    <2>3. DOMAIN markets' = 1 .. (Len(markets) + 1)
      BY <1>4, LenProperties
    <2>4. \A j \in DOMAIN markets' : /\ events'[j].resolved = markets'[j].resolved
                                     /\ events'[j].outcome = markets'[j].outcome
      <3> SUFFICES ASSUME NEW j \in 1 .. (Len(markets) + 1)
                   PROVE  /\ events'[j].resolved = markets'[j].resolved
                          /\ events'[j].outcome = markets'[j].outcome
        BY <2>3
      <3>1. CASE j = Len(markets) + 1
        BY <1>2, <1>4, <1>5, <2>1, <2>2, <3>1
      <3>2. CASE j \in 1 .. Len(markets)
        BY <1>4, <2>1, <2>2, <3>2
      <3> QED
        BY <2>2, <3>1, <3>2
    <2> QED
      BY <1>3, <1>4, <1>7, <2>1, <2>2, <2>4 DEF FactoryTyped, RecordsAgree, AdminInv, AdminTyped
  <1> QED
    BY <1>1, <1>4, <1>6, <1>7

\* The other calls change neither copy of a resolution.
LEMMA SettingStep ==
  ASSUME AdminInv, NEW p \in Operators, NEW c \in Waiting(p), MineSetting(c),
         perpetual' = perpetual
  PROVE  /\ FactoryTyped' /\ Len(markets') = Len(markets)
         /\ \A j \in 1 .. Len(markets) : /\ markets'[j].resolved = markets[j].resolved
                                         /\ markets'[j].outcome = markets[j].outcome
         /\ c.do = "closeOnly" => markets'[c.id].closeOnly = c.args.on
  <1>1. /\ markets \in Seq(MarketInfos) /\ events \in Seq(EventInfos)
        /\ DOMAIN markets = 1 .. Len(markets) /\ Len(markets) \in Nat
        /\ perpetual \in BOOLEAN /\ admin \in Owners /\ beacon \in BOOLEAN
    BY LenProperties DEF AdminInv, AdminTyped
  <1>2. c.args \in Args /\ Expected(p, c)
    BY DEF Waiting, Calls
  <1>3. \A j \in 1 .. Len(markets) : markets[j] \in MarketInfos
    BY <1>1, ElementOfSeq
  <1>4. perpetual => \A j \in 1 .. Len(markets) : events[j] \in EventInfos
    BY <1>1, ElementOfSeq DEF AdminInv, RecordsAgree
  <1>5. CASE /\ c.do = "closeOnly"
             /\ markets' = [markets EXCEPT ![c.id].closeOnly = c.args.on]
             /\ UNCHANGED <<admin, beacon, events>>
    <2> DEFINE i == c.id
               m == [markets[i] EXCEPT !.closeOnly = c.args.on]
    <2>1. i \in 1 .. Len(markets) /\ markets[i] \in MarketInfos /\ c.args.on \in BOOLEAN
      BY <1>1, <1>2, <1>3, <1>5 DEF Expected, Args
    <2>2. /\ m \in MarketInfos /\ m.closeOnly = c.args.on
          /\ m.resolved = markets[i].resolved /\ m.outcome = markets[i].outcome
      BY <2>1 DEF MarketInfos
    <2>3. markets' = [markets EXCEPT ![i] = m]
      BY <1>5
    <2>4. CASE perpetual
      <3>1. /\ events[i] \in EventInfos
            /\ events[i].resolved = m.resolved /\ events[i].outcome = m.outcome
        BY <1>1, <1>4, <2>1, <2>2, <2>4 DEF AdminInv, RecordsAgree
      <3>2. events' = [events EXCEPT ![i] = events[i]]
        BY <1>1, <1>5
      <3>4. Replaced(i, events[i], m) /\ i \in DOMAIN markets
        BY <1>1, <1>5, <2>1, <2>3, <2>4, <3>2 DEF Replaced
      <3> HIDE DEF m, i
      <3>3. /\ FactoryTyped' /\ Len(markets') = Len(markets)
            /\ \A j \in 1 .. Len(markets) : markets'[j] = IF j = i THEN m ELSE markets[j]
        BY <2>2, <3>1, <3>4, ReplaceStep
      <3> QED
        BY <2>1, <2>2, <3>3 DEF i
    <2>5. CASE ~ perpetual
      <3> DEFINE any == [oracle |-> Nobody, resolved |-> m.resolved, outcome |-> m.outcome,
                         paused |-> FALSE]
      <3>1. any \in EventInfos /\ any.resolved = m.resolved /\ any.outcome = m.outcome
        BY <2>2 DEF EventInfos, MarketInfos, Owners
      <3>3. Replaced(i, any, m) /\ i \in DOMAIN markets
        BY <1>1, <1>5, <2>1, <2>3, <2>5 DEF Replaced
      <3> HIDE DEF m, any, i
      <3>2. /\ FactoryTyped' /\ Len(markets') = Len(markets)
            /\ \A j \in 1 .. Len(markets) : markets'[j] = IF j = i THEN m ELSE markets[j]
        BY <2>2, <3>1, <3>3, ReplaceStep
      <3> QED
        BY <2>1, <2>2, <3>2 DEF i
    <2> QED
      BY <1>1, <2>4, <2>5
  <1>6. CASE /\ c.do = "pause"
             /\ events' = [events EXCEPT ![c.id].paused = c.args.on]
             /\ UNCHANGED <<admin, beacon, markets>>
    <2> DEFINE i == c.id
               e == [events[i] EXCEPT !.paused = c.args.on]
    <2>1. /\ i \in 1 .. Len(markets) /\ perpetual /\ c.args.on \in BOOLEAN
          /\ markets[i] \in MarketInfos
      BY <1>1, <1>2, <1>3, <1>6 DEF Expected, Args
    <2>2. e \in EventInfos /\ e.resolved = events[i].resolved /\ e.outcome = events[i].outcome
      BY <1>4, <2>1 DEF EventInfos
    <2>3. e.resolved = markets[i].resolved /\ e.outcome = markets[i].outcome
      BY <1>1, <2>1, <2>2 DEF AdminInv, RecordsAgree
    <2>4. events' = [events EXCEPT ![i] = e] /\ markets' = [markets EXCEPT ![i] = markets[i]]
      BY <1>1, <1>6
    <2>5. Replaced(i, e, markets[i]) /\ i \in DOMAIN markets
      BY <1>1, <1>6, <2>1, <2>4 DEF Replaced
    <2> HIDE DEF e, i
    <2>6. FactoryTyped'
      BY <2>1, <2>2, <2>3, <2>5, ReplaceStep
    <2> QED
      BY <1>6, <2>6
  <1>7. ASSUME UNCHANGED <<events, markets>>, admin' \in Owners, beacon' \in BOOLEAN
        PROVE  FactoryTyped' /\ Len(markets') = Len(markets)
    BY <1>7 DEF FactoryTyped, RecordsAgree, AdminInv, AdminTyped
  <1>8. CASE \/ c.do = "admin" /\ admin' = c.args.oracle /\ UNCHANGED <<beacon, events, markets>>
             \/ c.do = "beacon" /\ beacon' = c.args.on /\ UNCHANGED <<admin, events, markets>>
    BY <1>1, <1>2, <1>7, <1>8 DEF Args
  <1> QED
    BY <1>5, <1>6, <1>8 DEF MineSetting

\* The head of a queue is a call that waits; the rest wait on.
LEMMA HeadWaits ==
  ASSUME AdminInv, NEW p \in Operators, queue[p] # <<>>
  PROVE  /\ Head(queue[p]) \in Waiting(p) /\ Head(queue[p]) \in Calls
         /\ Tail(queue[p]) \in Seq(Waiting(p))
  BY HeadTailProperties DEF AdminInv, QueueInv, Waiting

\* Whatever is mined keeps the invariant, and no market's resolution is undone.
LEMMA MineStep ==
  ASSUME AdminInv, NEW p \in Operators, MineNext(p)
  PROVE  /\ AdminInv'
         /\ \A j \in 1 .. Len(markets) : markets[j].resolved =>
              markets'[j].resolved /\ markets'[j].outcome = markets[j].outcome
  <1> DEFINE c == Head(queue[p])
  <1>1. c \in Waiting(p) /\ c \in Calls /\ Tail(queue[p]) \in Seq(Waiting(p))
    BY HeadWaits DEF MineNext
  <1>2. /\ UNCHANGED <<perpetual, clock, known, sends>>
        /\ queue' = [queue EXCEPT ![p] = Tail(queue[p])]
        /\ MineCall(p, c) \/ (Refused(p, c) /\ UNCHANGED factory)
    BY DEF MineNext
  <1> HIDE DEF c
  <1>3. Len(markets) \in Nat /\ DOMAIN markets = 1 .. Len(markets)
    BY LenProperties DEF AdminInv, AdminTyped
  <1>4. /\ FactoryTyped' /\ Len(markets') \in Nat /\ Len(markets') >= Len(markets)
        /\ \A j \in 1 .. Len(markets) : markets[j].resolved =>
             markets'[j].resolved /\ markets'[j].outcome = markets[j].outcome
    <2>1. CASE UNCHANGED factory
      BY <1>2, <1>3, <2>1 DEF FactoryTyped, RecordsAgree, AdminInv, AdminTyped, factory
    <2>2. CASE MineCreate(c)
      BY <1>1, <1>2, <1>3, <2>2, CreateStep
    <2>3. CASE c.do = "resolve" /\ MineResolve(c)
      <3>1. c.id \in DOMAIN markets
        BY <1>1, <2>3 DEF Waiting, Expected
      <3> QED
        BY <1>1, <1>2, <1>3, <2>3, <3>1, ResolveStep
    <2>4. CASE MineSetting(c)
      BY <1>1, <1>2, <1>3, <2>4, SettingStep
    <2> QED
      BY <1>2, <2>1, <2>2, <2>3, <2>4 DEF MineCall
  <1>5. \A q \in Operators : Seq(Waiting(q)) \subseteq Seq(Waiting(q)')
    BY <1>2, <1>4, StillWaiting DEF AdminInv, FactoryTyped
  <1>6. DOMAIN queue' = Operators /\ QueueInv'
    BY <1>1, <1>2, <1>5 DEF AdminInv, AdminTyped, QueueInv
  <1>7. CountInv'
    <2>1. \A q \in Operators : known[q].count \in Nat
      BY DEF AdminInv, AdminTyped
    <2> QED
      BY <1>2, <1>3, <1>4, <2>1 DEF AdminInv, CountInv
  <1> QED
    BY <1>2, <1>4, <1>6, <1>7 DEF AdminInv, AdminTyped, FactoryTyped

Final ==
  \A j \in DOMAIN markets : markets[j].resolved =>
    markets'[j].resolved /\ markets'[j].outcome = markets[j].outcome

\* Every step of the operators keeps the invariant and every resolution.
LEMMA AdminStep == ASSUME AdminInv, AdminNext PROVE AdminInv' /\ Final
  <1>1. ASSUME UNCHANGED <<perpetual, events, markets, known, queue>>,
               admin' \in Owners, beacon' \in BOOLEAN, clock' \in Nat
        PROVE  AdminInv' /\ Final
    <2>1. QueueInv'
      BY <1>1 DEF AdminInv, QueueInv, Waiting, Expected
    <2> QED
      BY <1>1, <2>1 DEF AdminInv, AdminTyped, CountInv, RecordsAgree, Final
  <1>2. admin \in Owners /\ beacon \in BOOLEAN /\ clock \in Nat
    BY DEF AdminInv, AdminTyped
  <1>3. ASSUME NEW p \in Operators, NEW on \in BOOLEAN, Initialize(p, on)
        PROVE  AdminInv' /\ Final
    BY <1>1, <1>2, <1>3 DEF Initialize, Owners
  <1>4. CASE NextBlock
    BY <1>1, <1>2, <1>4 DEF NextBlock, factory
  <1>5. ASSUME NEW p \in Operators, MineNext(p) PROVE AdminInv' /\ Final
    BY <1>5, MineStep, LenProperties DEF AdminInv, AdminTyped, Final
  <1>6. ASSUME NEW p \in Operators, OperatorStep(p), ~ MineNext(p) PROVE AdminInv' /\ Final
    <2>1. UNCHANGED markets
      BY <1>6 DEF OperatorStep, ReadAdmin, ReadCount, ReadRow, CreateEvent, CreateMarket,
                  ToggleCloseOnly, ResolveRow, CallFactory, SendCall, factory
    <2> QED
      BY <1>6, <2>1, ReadsOK, SendsOK DEF OperatorStep, Final
  <1> QED
    BY <1>3, <1>4, <1>5, <1>6 DEF AdminNext

\* The invariant of the factories and their pages holds throughout.
THEOREM AdminInvariant == Spec => []AdminInv
  <1>1. Init => AdminInv
    <2> SUFFICES ASSUME AdminInit PROVE AdminInv
      BY DEF Init
    <2>1. [resolved |-> FALSE, closeOnly |-> FALSE] \in [resolved : BOOLEAN, closeOnly : BOOLEAN]
      OBVIOUS
    <2>2. [i \in Ids |-> [resolved |-> FALSE, closeOnly |-> FALSE]] \in Rows
      BY <2>1 DEF Rows
    <2>3. known \in [Operators -> [admin : Owners, count : Nat, rows : Rows]]
      BY <2>2 DEF AdminInit, Owners
    <2>4. \A p \in Operators : known[p].count = 0
      BY DEF AdminInit
    <2>5. AdminTyped
      BY <2>3, EmptySeq DEF AdminInit, AdminTyped, Owners
    <2>8. QueueInv
      BY EmptySeq DEF AdminInit, QueueInv
    <2>6. CountInv
      BY <2>4 DEF AdminInit, CountInv
    <2>7. RecordsAgree
      BY DEF AdminInit, RecordsAgree
    <2> QED
      BY <2>5, <2>6, <2>7, <2>8 DEF AdminInv, AdminInit
  <1>2. AdminInv /\ [Next]_page => AdminInv'
    <2>1. ASSUME AdminInv, UNCHANGED adminPage PROVE AdminInv'
      BY <2>1 DEF AdminInv, AdminTyped, QueueInv, Waiting, Expected, CountInv, RecordsAgree,
                  adminPage, factory
    <2> QED
      BY <2>1, AdminStep DEF Next, page
  <1> QED
    BY <1>1, <1>2, PTL DEF Spec

\* EventFactory's record and its market tell the same resolution, whoever
\* resolves (resolveEvent writes the record and then calls the market).
THEOREM RecordsAlwaysAgree == Spec => []RecordsAgree
  <1>1. AdminInv => RecordsAgree
    BY DEF AdminInv
  <1> QED
    BY <1>1, AdminInvariant, PTL

\* The first resolution of a market is the last (AlreadyResolved), however many
\* operators send one.
THEOREM FirstResolutionStays == Spec => ResolutionIsFinal
  <1>1. AdminInv /\ [Next]_page =>
          [\A i \in DOMAIN markets : markets[i].resolved =>
             markets'[i].resolved /\ markets'[i].outcome = markets[i].outcome]_adminPage
    BY AdminStep DEF Next, page, Final
  <1> QED
    BY <1>1, AdminInvariant, PTL DEF Spec, ResolutionIsFinal

\* What a row sent fails only with an excuse.
LEMMA FailStep ==
  ASSUME AdminInv, AdminNext, NEW p \in Operators, queue'[p] # queue[p],
         Len(queue'[p]) < Len(queue[p]), Head(queue[p]).args.page, UNCHANGED factory
  PROVE  LET c == Head(queue[p])
         IN  \/ c.admin # admin
             \/ ~ perpetual /\ c.admin # p
             \/ ~ c.resolved /\ markets[c.id].resolved
             \/ c.do = "closeOnly" /\ c.args.on = markets[c.id].closeOnly
  <1> DEFINE c == Head(queue[p])
  <1>0. DOMAIN queue = Operators /\ perpetual \in BOOLEAN
    BY DEF AdminInv, AdminTyped
  <1>1. MineNext(p)
    <2>1. ASSUME NEW q \in Operators, MineNext(q), q # p PROVE FALSE
      BY <1>0, <2>1 DEF MineNext
    <2>2. ASSUME NEW q \in Operators, OperatorStep(q), ~ MineNext(q), q # p PROVE FALSE
      BY <1>0, <2>2 DEF OperatorStep, ReadAdmin, ReadCount, ReadRow, CreateEvent, CreateMarket,
                  ToggleCloseOnly, ResolveRow, CallFactory, SendCall
    <2>3. ASSUME OperatorStep(p), ~ MineNext(p) PROVE FALSE
      <3>1. ASSUME NEW call, queue' = [queue EXCEPT ![p] = Append(queue[p], call)] PROVE FALSE
        <4>1. queue'[p] = Append(queue[p], call) /\ queue[p] \in Seq(Waiting(p))
          BY <1>0, <3>1 DEF AdminInv, QueueInv
        <4>2. queue[p] \in Seq(Waiting(p) \union {call}) /\ call \in Waiting(p) \union {call}
          BY <4>1
        <4>3. Len(queue'[p]) = Len(queue[p]) + 1 /\ Len(queue[p]) \in Nat
          BY <4>1, <4>2, AppendProperties, LenProperties
        <4> QED
          BY <4>3
      <3>2. queue' = queue \/ \E call : queue' = [queue EXCEPT ![p] = Append(queue[p], call)]
        BY <2>3 DEF OperatorStep, ReadAdmin, ReadCount, ReadRow, CreateEvent, CreateMarket,
                    ToggleCloseOnly, ResolveRow, CallFactory, SendCall
      <3> QED
        BY <3>1, <3>2
    <2> QED
      BY <2>1, <2>2, <2>3 DEF AdminNext, Initialize, NextBlock
  <1>2. c \in Waiting(p) /\ Expected(p, c)
    BY <1>1, HeadWaits DEF MineNext, Waiting
  <1>3. /\ c.do \in {"resolve", "closeOnly"} /\ c.id \in DOMAIN markets
        /\ perpetual => c.admin = p
        /\ c.do = "resolve" => ~ c.resolved
    BY <1>2 DEF Expected
  <1>4. /\ MineCall(p, c) \/ Refused(p, c)
        /\ perpetual' = perpetual
    BY <1>1 DEF MineNext
  <1>5. ASSUME ~ Unresolved(c.id) PROVE markets[c.id].resolved
    BY <1>3, <1>5 DEF Unresolved, AdminInv, RecordsAgree
  <1> HIDE DEF c
  <1>6. CASE Refused(p, c)
    BY <1>3, <1>5, <1>6 DEF Refused, Authorized, c
  <1>7. CASE c.do = "resolve" /\ MineResolve(c)
    BY <1>2, <1>3, <1>4, <1>7, ResolveStep DEF Waiting, factory
  <1>8. CASE MineSetting(c)
    <2>1. c.do = "closeOnly"
      BY <1>3, <1>8 DEF MineSetting
    <2> QED
      BY <1>2, <1>4, <1>8, <2>1, SettingStep DEF factory, c
  <1> QED
    BY <1>3, <1>4, <1>6, <1>7, <1>8 DEF MineCall

\* A call a page offered reverts only because the admin or the market changed
\* after they were read, or in the binary page for want of a check of the admin.
THEOREM FailedCalls == Spec => FailedCallIsExcused
  <1>1. AdminInv /\ [Next]_page =>
          [\A p \in Operators :
             LET c == Head(queue[p])
             IN  queue'[p] # queue[p] /\ Len(queue'[p]) < Len(queue[p])
                   /\ c.args.page /\ UNCHANGED factory =>
                   \/ c.admin # admin
                   \/ ~ perpetual /\ c.admin # p
                   \/ ~ c.resolved /\ markets[c.id].resolved
                   \/ c.do = "closeOnly" /\ c.args.on = markets[c.id].closeOnly]_adminPage
    BY FailStep DEF Next, page
  <1> QED
    BY <1>1, AdminInvariant, PTL DEF Spec, FailedCallIsExcused
=============================================================================
