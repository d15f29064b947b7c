------------------------------ MODULE RestReads ------------------------------
(***************************************************************************)
(* The read side of the API: clients ask for quotes, symbols and pages of   *)
(* the trade history while the bot loop goes on writing them.               *)
(***************************************************************************)
EXTENDS MarketData, TradeHistory

vars == <<marketVars, pagingVars>>

Init == MarketInit /\ HistoryInit

Next ==
  \/ MarketNext /\ UNCHANGED pagingVars
  \/ HistoryNext /\ UNCHANGED marketVars

Spec == Init /\ [][Next]_vars

TypeOK == MarketTypeOK /\ HistoryTypeOK
=============================================================================
