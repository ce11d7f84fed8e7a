------------------------------ MODULE FundsPanel ------------------------------
(***************************************************************************)
(* The rest of a market page (Market.tsx of both frontends): one wallet    *)
(* approves, deposits, withdraws, mints, merges and redeems from several   *)
(* tabs.  A tab acts on what it last read from chain; its transactions are *)
(* mined later, against the chain as it is then.                           *)
(***************************************************************************)
EXTENDS Integers

CONSTANTS Pages,        \* the tabs the page is open in
          Amounts,      \* what a user may type
          WalletInit,   \* tokens at the start
          SharesInit,   \* shares of each side minted before
          MaxCalls      \* transactions sent, fills of the wallet's orders too

ASSUME FundsAssumption ==
  /\ Amounts \subseteq Nat \ {0}
  /\ WalletInit \in Nat /\ SharesInit \in Nat /\ MaxCalls \in Nat

VARIABLES allowance, tokens, collateral, yes, no, resolved, outcome,  \* on chain
          view,      \* per tab: allowance, resolved, outcome and shares as read
          pending,   \* per tab and kind: the amount waiting for its receipt
          calls,
          outdated,  \* history: what a tab has not read, or the chain has overtaken
          doubtful   \* history: transactions in flight that rest on such a read

onchain == <<allowance, tokens, collateral, yes, no, resolved, outcome>>
funds == <<onchain, view, pending, calls, outdated, doubtful>>

Kinds == {"approve", "deposit", "withdraw", "mint", "merge", "redeem"}

FundsInit ==
  /\ allowance = 0 /\ tokens = WalletInit /\ collateral = 0
  /\ yes = SharesInit /\ no = SharesInit
  /\ resolved = FALSE /\ outcome = FALSE
  /\ view = [t \in Pages |-> [allowance |-> 0, resolved |-> FALSE,
                             outcome |-> FALSE, yes |-> 0, no |-> 0]]
  /\ pending = [t \in Pages |-> [k \in Kinds |-> 0]]
  /\ calls = 0
  /\ outdated = Pages \X {"allowance", "outcome", "shares"}
  /\ doubtful = {}

\* What the page reads before it offers a button, and what a mined transaction
\* of the wallet changes of it.
BasedOn(k) ==
  CASE k = "deposit" -> {"allowance"}
    [] k = "redeem"  -> {"outcome", "shares"}
    [] OTHER         -> {}

Touched(k) ==
  CASE k \in {"approve", "deposit"}      -> {"allowance"}
    [] k \in {"mint", "merge", "redeem"} -> {"shares"}
    [] OTHER                             -> {}

(***************************************************************************)
(* The page.                                                               *)
(***************************************************************************)
Reads(t, x) ==
  /\ outdated' = outdated \ {<<t, x>>}
  /\ UNCHANGED <<onchain, pending, calls, doubtful>>

\* refetchAllowance once an approval is mined; any read of a window in focus.
ReadAllowance(t) ==
  view' = [view EXCEPT ![t].allowance = allowance] /\ Reads(t, "allowance")

\* Each value of the market is a read of its own and may be older than another.
ReadResolved(t) ==
  view' = [view EXCEPT ![t].resolved = resolved] /\ Reads(t, "resolved")
ReadOutcome(t) ==
  view' = [view EXCEPT ![t].outcome = outcome] /\ Reads(t, "outcome")
ReadShares(t) ==
  view' = [view EXCEPT ![t].yes = yes, ![t].no = no] /\ Reads(t, "shares")

\* A button is disabled while its own transaction waits for a receipt.
Send(t, k, amount) ==
  /\ calls < MaxCalls
  /\ calls' = calls + 1
  /\ pending[t][k] = 0
  /\ pending' = [pending EXCEPT ![t][k] = amount]
  /\ doubtful' = doubtful \union
       {<<t, k>> : x \in {y \in BasedOn(k) : <<t, y>> \in outdated}}
  /\ UNCHANGED <<onchain, view, outdated>>

\* Mutation: Deposit is offered before the allowance is there.
HasAllowanceUnread(t, amount) == view[t].allowance >= 0

HasAllowance(t, amount) == view[t].allowance >= amount

Approve(t, amount) ==
  ~view[t].resolved /\ ~HasAllowance(t, amount) /\ Send(t, "approve", amount)
Deposit(t, amount) ==
  ~view[t].resolved /\ HasAllowance(t, amount) /\ Send(t, "deposit", amount)
Withdraw(t, amount) == ~view[t].resolved /\ Send(t, "withdraw", amount)
Mint(t, amount) == ~view[t].resolved /\ Send(t, "mint", amount)
Merge(t, amount) == ~view[t].resolved /\ Send(t, "merge", amount)
Redeem(t) ==
  /\ view[t].resolved
  /\ (IF view[t].outcome THEN view[t].yes ELSE view[t].no) > 0
  /\ Send(t, "redeem", 1)

(***************************************************************************)
(* The chain.  A transaction is mined with its effect, or reverts.         *)
(***************************************************************************)
MineApprove(amount) ==
  /\ allowance' = amount
  /\ UNCHANGED <<tokens, collateral, yes, no>>

MineDeposit(amount) ==
  /\ ~resolved /\ amount <= allowance /\ amount <= tokens
  /\ allowance' = allowance - amount
  /\ tokens' = tokens - amount
  /\ collateral' = collateral + amount
  /\ UNCHANGED <<yes, no>>

MineWithdraw(amount) ==
  /\ ~resolved /\ amount <= collateral
  /\ collateral' = collateral - amount
  /\ tokens' = tokens + amount
  /\ UNCHANGED <<allowance, yes, no>>

MineMint(amount) ==
  /\ ~resolved /\ amount <= collateral
  /\ collateral' = collateral - amount
  /\ yes' = yes + amount /\ no' = no + amount
  /\ UNCHANGED <<allowance, tokens>>

MineMerge(amount) ==
  /\ ~resolved /\ amount <= yes /\ amount <= no
  /\ collateral' = collateral + amount
  /\ yes' = yes - amount /\ no' = no - amount
  /\ UNCHANGED <<allowance, tokens>>

Winning == IF outcome THEN yes ELSE no

MineRedeem ==
  /\ resolved /\ Winning > 0
  /\ tokens' = tokens + Winning
  /\ yes' = (IF outcome THEN 0 ELSE yes) /\ no' = (IF outcome THEN no ELSE 0)
  /\ UNCHANGED <<allowance, collateral>>

Mined(k, amount) ==
  \/ k = "approve"  /\ MineApprove(amount)
  \/ k = "deposit"  /\ MineDeposit(amount)
  \/ k = "withdraw" /\ MineWithdraw(amount)
  \/ k = "mint"     /\ MineMint(amount)
  \/ k = "merge"    /\ MineMerge(amount)
  \/ k = "redeem"   /\ MineRedeem

Fails(k, amount) ==
  CASE k = "approve"  -> FALSE
    [] k = "deposit"  -> resolved \/ amount > allowance \/ amount > tokens
    [] k = "withdraw" -> resolved \/ amount > collateral
    [] k = "mint"     -> resolved \/ amount > collateral
    [] k = "merge"    -> resolved \/ amount > yes \/ amount > no
    [] k = "redeem"   -> ~resolved \/ Winning = 0

InFlight(t, k) == pending[t][k] > 0

Receipt(t, k) ==
  /\ InFlight(t, k)
  /\ \/ /\ Mined(k, pending[t][k]) /\ UNCHANGED <<resolved, outcome>>
        /\ outdated' = outdated \union (Pages \X Touched(k))
        /\ doubtful' = (doubtful \union {p \in Pages \X Kinds :
                           InFlight(p[1], p[2]) /\ BasedOn(p[2]) \cap Touched(k) # {}})
                        \ {<<t, k>>}
     \/ /\ Fails(k, pending[t][k]) /\ UNCHANGED <<onchain, outdated>>
        /\ doubtful' = doubtful \ {<<t, k>>}
  /\ pending' = [pending EXCEPT ![t][k] = 0]
  /\ UNCHANGED <<view, calls>>

Resolve(result) ==
  /\ ~resolved
  /\ resolved' = TRUE /\ outcome' = result
  /\ outdated' = outdated \union (Pages \X {"outcome"})
  /\ UNCHANGED <<allowance, tokens, collateral, yes, no, view, pending, calls, doubtful>>

\* A fill of one of the wallet's orders buys or sells a YES share for at most its
\* worth.
Filled(sold, paid) ==
  /\ ~resolved
  /\ calls < MaxCalls
  /\ calls' = calls + 1
  /\ IF sold THEN /\ yes > 0
                  /\ yes' = yes - 1 /\ collateral' = collateral + paid
             ELSE /\ paid <= collateral
                  /\ yes' = yes + 1 /\ collateral' = collateral - paid
  /\ outdated' = outdated \union (Pages \X {"shares"})
  /\ UNCHANGED <<allowance, tokens, no, resolved, outcome, view, pending, doubtful>>

FundsNext ==
  \/ \E t \in Pages :
       \/ ReadAllowance(t) \/ ReadResolved(t) \/ ReadOutcome(t) \/ ReadShares(t)
       \/ Redeem(t)
       \/ \E amount \in Amounts :
            \/ Approve(t, amount) \/ Deposit(t, amount) \/ Withdraw(t, amount)
            \/ Mint(t, amount) \/ Merge(t, amount)
       \/ \E k \in Kinds : Receipt(t, k)
  \/ \E result \in BOOLEAN : Resolve(result)
  \/ \E sold \in BOOLEAN, paid \in {0, 1} : Filled(sold, paid)

(***************************************************************************)
(* Properties.                                                             *)
(***************************************************************************)
Failed(t, k) == InFlight(t, k) /\ pending'[t][k] = 0 /\ UNCHANGED onchain

\* The page offers Deposit and Redeem on what it has read: a deposit fails only
\* because the market was resolved, the wallet is short (which the page shows
\* and does not check) or its allowance was used or set again between the read
\* and the receipt; a redemption only because the shares or the outcome it
\* rests on were read before a change.  No other order of reads, transactions
\* of either tab and resolution makes one fail.
FailedFundsCallIsExcused ==
  [][\A t \in Pages :
       /\ Failed(t, "deposit") => \/ resolved
                                 \/ pending[t]["deposit"] > tokens
                                 \/ <<t, "deposit">> \in doubtful
       /\ Failed(t, "redeem") => <<t, "redeem">> \in doubtful]_funds
=============================================================================
