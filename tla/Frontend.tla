------------------------------- MODULE Frontend -------------------------------
(***************************************************************************)
(* The pages of a frontend: the trade panel and the funds panel of a       *)
(* market page, and the pages of the factory's admin.  They share nothing  *)
(* but the wallet, and the steps of one commute with those of another; a   *)
(* behaviour exercises one of them, chosen at the start.                   *)
(***************************************************************************)
EXTENDS TradePanel, FundsPanel, AdminPage

CONSTANT Parts   \* what a behaviour may exercise
VARIABLE part

page == <<panel, funds, adminPage, part>>

ASSUME PartsAssumption == Parts \subseteq {"trade", "funds", "admin"}

\* The frontend of the perpetual market, or of the binary market; the funds
\* panel of the former is a part of the latter's.
Init ==
  /\ PanelInit /\ FundsInit /\ AdminInit
  /\ part \in Parts
  /\ perpetual = ~binary
  /\ part = "funds" => binary

Next ==
  \/ part = "trade" /\ PanelNext /\ UNCHANGED <<funds, adminPage, part>>
  \/ part = "funds" /\ FundsNext /\ UNCHANGED <<panel, adminPage, part>>
  \/ part = "admin" /\ AdminNext /\ UNCHANGED <<panel, funds, part>>

Spec == Init /\ [][Next]_page
=============================================================================
