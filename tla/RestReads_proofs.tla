-------------------------- MODULE RestReads_proofs --------------------------
(***************************************************************************)
(* Theorems about the read side as a whole.  The market data and the trade   *)
(* history share no state, so what is proved of each alone holds of the two *)
(* interleaved: RestReads implements both specifications, under the         *)
(* identity, and inherits their invariants.                                 *)
(***************************************************************************)
EXTENDS RestReads, MarketData_proofs, TradeHistory_proofs

\* A step of the read side is a step of one part and leaves the other as it was.
LEMMA StepOfParts ==
  [Next]_vars => [MarketNext]_marketVars /\ [HistoryNext]_pagingVars
BY DEF Next, vars

\* The bot loop's market data behave as if no one read the trade history ...
THEOREM ImplementsMarket == Spec => MarketSpec
<1>1. Init => MarketInit
  BY DEF Init
<1> QED BY <1>1, StepOfParts, PTL DEF Spec, MarketSpec

\* ... and the history and its readers as if there were no market data.
THEOREM ImplementsHistory == Spec => HistorySpec
<1>1. Init => HistoryInit
  BY DEF Init
<1> QED BY <1>1, StepOfParts, PTL DEF Spec, HistorySpec

\* Type correctness of the read side, for any catalog, list, capacity and limit.
THEOREM TypeCorrect == Spec => []TypeOK
<1>1. MarketTypeOK /\ HistoryTypeOK => TypeOK
  BY DEF TypeOK
<1> QED BY <1>1, ImplementsMarket, ImplementsHistory, MarketTypeCorrect, HistoryTypeCorrect, PTL

\* What clients are shown of symbols and quotes, while others read the history:
\* names subscribed to once, no quote hidden, REST and ticks in agreement.
THEOREM ReadsMarket ==
  Spec => [](SubscribedOnceByName /\ NoQuoteHidden /\ RestAgreesWithTicks)
BY ImplementsMarket, SubscriptionCorrect, QuotesCorrect, TicksCorrect, PTL

\* What they are shown of the history, while quotes come in: no surviving trade
\* skipped, and pages that cut the history into pieces.
THEOREM ReadsHistory == Spec => [](NoSurvivorSkipped /\ PagesCutHistory)
BY ImplementsHistory, SurvivorsRead, PagesCorrect, PTL
=============================================================================
