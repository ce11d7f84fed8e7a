------------------------------ MODULE TradePanel ------------------------------
(***************************************************************************)
(* The trade panel of a market page (TradePanel.tsx of both frontends),    *)
(* open in several tabs of one browser.  The tabs share the wallet and the *)
(* list of signed orders in localStorage; each has a form, a dropdown over *)
(* the list as it last rendered it, and a cache of nonces read from chain. *)
(* Orders are V1 orders: no salt, one nonce per maker.                     *)
(***************************************************************************)
EXTENDS Integers, Sequences, SequencesExt

CONSTANTS Tabs, Wallets,
          Offers,        \* price, size and side a user may type
          Prices, Sizes, \* what a user may type on the taker's side
          Grain,         \* price units in the 0.01 % a form can show
          NoOrder, NoTx,
          MaxOrders,
          MaxExtras      \* edits by hand, and the resolution of the market

ASSUME PanelAssumption ==
  /\ Grain \in Nat \ {0}
  /\ \A f \in Offers : /\ f.price \in Nat \ {0} /\ f.size \in Nat \ {0}
                        /\ f.isLong \in BOOLEAN
  /\ Prices \subseteq Nat /\ Sizes \subseteq Nat
  /\ MaxOrders \in Nat /\ MaxExtras \in Nat

Unread == -1

VARIABLES binary,    \* the frontend: the binary market's or the perpetual's
          account,   \* the wallet connected
          stored,    \* localStorage[STORAGE_KEY][market]
          form,      \* per tab: order, signature, price, size
          select,    \* per tab: selectedOrderIndex and the dependencies the
                     \* effect last ran with
          signing,   \* per tab: the order being signed, storedOrders.length
          seen,      \* per tab: nonces read from chain
          nonces, over,   \* on chain: nonces; the market is resolved
          mounted,   \* the tabs whose page has not read that it is
          tx,        \* per tab: the fill waiting for its receipt and, as
                     \* history, the nonce of its maker as it was read
          extras,
          signed,    \* history: orders signed
          byHand     \* history, per tab: the form was edited since it was filled

chain == <<nonces, over, tx>>
history == <<signed, byHand>>
panel == <<binary, account, stored, form, select, signing, seen, mounted, chain, extras, history>>

Empty == [order |-> NoOrder, sig |-> NoOrder, price |-> 0, size |-> 0]
NotSigning == [order |-> NoOrder, at |-> 0]

NotSelected == [index |-> 0, deps |-> <<0, 0>>]

PanelInit ==
  /\ binary \in BOOLEAN
  /\ account \in Wallets
  /\ stored = <<>>
  /\ form = [t \in Tabs |-> Empty]
  /\ select = [t \in Tabs |-> NotSelected]
  /\ signing = [t \in Tabs |-> NotSigning]
  /\ seen = [t \in Tabs |-> [w \in Wallets |-> Unread]]
  /\ nonces = [w \in Wallets |-> 0] /\ over = FALSE
  /\ mounted = Tabs
  /\ tx = [t \in Tabs |-> NoTx]
  /\ extras = 0
  /\ signed = {} /\ byHand = [t \in Tabs |-> FALSE]

(***************************************************************************)
(* The form.                                                               *)
(***************************************************************************)
\* A price is shown as a percentage with two decimals.
Shown(price) == ((2 * price + Grain) \div (2 * Grain)) * Grain

FormOf(o) == [order |-> o, sig |-> o, price |-> Shown(o.price), size |-> o.size]

\* Mutation: the effect depends on the selection alone.
FiresOnSelection(deps, old) == deps[1] # old[1]

\* useEffect: it runs when the selection or the length of the list changed.
Fires(deps, old) == deps # old

\* The tab renders: state f and index i are set, and in the binary frontend the
\* effect then fills the form from the list as it is now.
Render(t, f, i, hand) ==
  LET deps == <<i, Len(stored')>>
      runs == binary /\ Fires(deps, select[t].deps) /\ i < Len(stored')
  IN  /\ select' = [select EXCEPT ![t] = [index |-> i, deps |-> deps]]
      /\ form' = [form EXCEPT ![t] = IF runs THEN FormOf(stored'[i + 1]) ELSE f]
      /\ byHand' = [byHand EXCEPT ![t] = hand /\ ~runs]

\* A read refetched, another state set: the list is read again.
Rerender(t) ==
  /\ UNCHANGED stored
  /\ Render(t, form[t], select[t].index, byHand[t])
  /\ UNCHANGED <<binary, account, signing, seen, mounted, chain, extras, signed>>

\* onChange of the dropdown, which offers the list as last rendered.
SelectOrder(t, i) ==
  /\ i < select[t].deps[2]
  /\ UNCHANGED stored
  /\ Render(t, FormOf(stored[i + 1]), i, FALSE)
  /\ UNCHANGED <<binary, account, signing, seen, mounted, chain, extras, signed>>

Edit(t, f) ==
  /\ extras < MaxExtras
  /\ extras' = extras + 1
  /\ UNCHANGED stored
  /\ Render(t, f, select[t].index, TRUE)
  /\ UNCHANGED <<binary, account, signing, seen, mounted, chain, signed>>

\* A pasted order sets price and size too, a pasted signature only itself.
PasteOrder(t, o) ==
  Edit(t, [form[t] EXCEPT !.order = o, !.price = Shown(o.price), !.size = o.size])
PasteSignature(t, o) == Edit(t, [form[t] EXCEPT !.sig = o])
TypePrice(t, p) == Edit(t, [form[t] EXCEPT !.price = p])
TypeSize(t, s) == Edit(t, [form[t] EXCEPT !.size = s])

(***************************************************************************)
(* Reads, the wallet, and signing an order as maker.                       *)
(***************************************************************************)
\* useReadContract("nonces") of the connected wallet and of the form's maker.
ReadNonce(t, w) ==
  /\ w = account \/ (form[t].order # NoOrder /\ form[t].order.maker = w)
  /\ seen' = [seen EXCEPT ![t][w] = nonces[w]]
  /\ UNCHANGED <<binary, account, stored, form, select, signing, mounted, chain, extras, history>>

SwitchWallet(w) ==
  /\ account' = w
  /\ UNCHANGED <<binary, stored, form, select, signing, seen, mounted, chain, extras, history>>

\* placeOrder up to signTypedData: nonce and length are those of the render.
PlaceOrder(t, f) ==
  /\ signing[t] = NotSigning
  /\ Len(stored) < MaxOrders
  /\ seen[t][account] # Unread
  /\ signing' = [signing EXCEPT ![t] =
       [order |-> [maker |-> account, nonce |-> seen[t][account],
                   price |-> f.price, size |-> f.size, isLong |-> f.isLong],
        at |-> select[t].deps[2]]]
  /\ UNCHANGED <<binary, account, stored, form, select, seen, mounted, chain, extras, history>>

\* Mutation: the order is added to the list as it was before the wallet asked.
StoreOrderRendered(t) == SubSeq(stored, 1, signing[t].at) \o <<signing[t].order>>

\* storeOrder: the list is read again after the wallet has answered.
StoreOrder(t) == Append(stored, signing[t].order)

\* The wallet signs; the order is stored, shown and selected by the old length.
\* The price typed is shown as it was typed.  A panel no longer mounted stores
\* the order too.
Sign(t) ==
  LET o == signing[t].order
  IN  /\ o # NoOrder
      /\ Len(stored) < MaxOrders
      /\ stored' = StoreOrder(t)
      /\ signed' = signed \union {o}
      /\ \/ t \in mounted
            /\ Render(t, [FormOf(o) EXCEPT !.price = o.price], signing[t].at, FALSE)
         \/ t \notin mounted /\ UNCHANGED <<form, select, byHand>>
      /\ signing' = [signing EXCEPT ![t] = NotSigning]
      /\ UNCHANGED <<binary, account, seen, mounted, chain, extras>>

RefuseToSign(t) ==
  /\ signing[t] # NotSigning
  /\ signing' = [signing EXCEPT ![t] = NotSigning]
  /\ UNCHANGED <<binary, account, stored, form, select, seen, mounted, chain, extras, history>>

(***************************************************************************)
(* Filling an order as taker.                                              *)
(***************************************************************************)
Crosses(o, price) == IF o.isLong THEN o.price >= price ELSE o.price <= price

\* The taker is not the maker, and cannot take more than the order's size.
Foreign(f) == f.order.maker # account
SizeFits(f) == f.price > 0 /\ f.size > 0 /\ f.size <= f.order.size

\* Mutation: the nonce of the order is not compared.
PrecheckNonceSkipped(t) ==
  LET f == form[t] IN
  f.order # NoOrder /\ Foreign(f) /\ SizeFits(f) /\ Crosses(f.order, f.price)

\* precheckErrors is empty: besides, the order is for the nonce read last.
Precheck(t) ==
  LET f == form[t] IN
  /\ f.order # NoOrder /\ Foreign(f) /\ SizeFits(f) /\ Crosses(f.order, f.price)
  /\ seen[t][f.order.maker] = f.order.nonce

FillOrder(t) ==
  /\ Precheck(t)
  /\ tx[t] = NoTx
  /\ form[t].sig # NoOrder
  /\ tx' = [tx EXCEPT ![t] = [taker |-> account, fill |-> form[t],
                               read |-> seen[t][form[t].order.maker]]]
  /\ UNCHANGED <<binary, account, stored, form, select, signing, seen, mounted,
                 nonces, over, extras, history>>

\* submitFillV1 of the binary market accepts the fill, the collateral and shares
\* of both sides and the time left allowing.  submitFill of the perpetual market
\* decodes seven fields where its panel encodes six.
Accepted(x) ==
  /\ binary /\ ~over
  /\ x.taker # x.fill.order.maker
  /\ nonces[x.fill.order.maker] = x.fill.order.nonce
  /\ x.fill.size >= x.fill.order.size
  /\ Crosses(x.fill.order, x.fill.price)
  /\ x.fill.sig = x.fill.order

Mine(t) ==
  /\ tx[t] # NoTx
  /\ tx' = [tx EXCEPT ![t] = NoTx]
  /\ nonces' = IF Accepted(tx[t])
               THEN [nonces EXCEPT ![tx[t].fill.order.maker] = @ + 1]
               ELSE nonces
  /\ UNCHANGED <<binary, account, stored, form, select, signing, seen, mounted,
                 over, extras, history>>

\* The oracle resolves the market, at any time.
MarketResolved ==
  /\ ~over
  /\ over' = TRUE
  /\ extras < MaxExtras
  /\ extras' = extras + 1
  /\ UNCHANGED <<binary, account, stored, form, select, signing, seen, mounted,
                 nonces, tx, history>>

\* The page reads that the market is resolved and stops rendering the panel,
\* whose state goes with it; a signature or a receipt it waits for still comes.
Unmount(t) ==
  /\ over
  /\ mounted' = mounted \ {t}
  /\ form' = [form EXCEPT ![t] = Empty]
  /\ select' = [select EXCEPT ![t] = NotSelected]
  /\ byHand' = [byHand EXCEPT ![t] = FALSE]
  /\ seen' = [seen EXCEPT ![t] = [w \in Wallets |-> Unread]]
  /\ UNCHANGED <<binary, account, stored, signing, chain, extras, signed>>

InTab(t) ==
  \/ /\ t \in mounted
     /\ \/ Rerender(t)
        \/ \E i \in 0..(MaxOrders - 1) : SelectOrder(t, i)
        \/ \E o \in Range(stored) : PasteOrder(t, o) \/ PasteSignature(t, o)
        \/ \E p \in Prices : TypePrice(t, p)
        \/ \E s \in Sizes : TypeSize(t, s)
        \/ \E w \in Wallets : ReadNonce(t, w)
        \/ \E f \in Offers : PlaceOrder(t, f)
        \/ FillOrder(t) \/ Unmount(t)
  \/ Sign(t) \/ RefuseToSign(t) \/ Mine(t)

PanelNext ==
  \/ \E t \in Tabs : InTab(t)
  \/ \E w \in Wallets : SwitchWallet(w)
  \/ MarketResolved

(***************************************************************************)
(* Properties.                                                             *)
(***************************************************************************)
\* No signed order is lost from the list, although two tabs sign at once and
\* each reads the list before its wallet asks and writes it after.
SignedOrdersKept == signed \subseteq Range(stored)

\* In the binary panel the form is the order the dropdown names, unless it was
\* edited by hand since: the index chosen before a signature may by then be
\* another tab's order, and the effect shows that one.
FormFollowsSelection ==
  binary => \A t \in Tabs :
    \/ byHand[t]
    \/ select[t].index >= select[t].deps[2]
    \/ [form[t] EXCEPT !.price = 0]
         = [FormOf(stored[select[t].index + 1]) EXCEPT !.price = 0]

Reverts(t) == tx[t] # NoTx /\ tx'[t] = NoTx /\ nonces' = nonces

\* A fill the binary panel has checked fails on chain only because another fill
\* of the maker was mined after the tab read the nonce, because the market was
\* resolved before it was mined, or because the size or the signature was put in
\* by hand.  (The panel forbids sizes above the order's; the chain, below.  What
\* the panel does not check at all is assumed of Accepted: that both sides can
\* pay, and that the order does not expire while the fill waits.)
FailedFillIsExcused ==
  [][\A t \in Tabs : binary /\ Reverts(t) =>
       LET f == tx[t].fill
       IN  \/ over
           \/ nonces[f.order.maker] > tx[t].read
           \/ f.size < f.order.size
           \/ f.sig # f.order]_panel
=============================================================================
