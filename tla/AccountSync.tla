----------------------------- MODULE AccountSync -----------------------------
(***************************************************************************)
(* src/bot/src/bot_loop.rs: how the bot keeps its copy of the account in    *)
(* step with the server.  The bot reads the stream of Broker one message at *)
(* a time, from the startup requests through initial_reconcile to the       *)
(* select! loop of run, and dispatches each through handle_incoming.        *)
(*                                                                          *)
(* An execution event is applied in steps, one per lock of AppState it      *)
(* takes: REST and WebSocket readers may come in between them.  A frame is  *)
(* sent in the same step as the write it tells of, for nothing is awaited   *)
(* between the two; WsFanout is about the readers that see them apart.      *)
(*                                                                          *)
(* The Vecs of AppState keep one row per id, so they are functions from ids *)
(* here; their order matters to the HTTP handlers only (OrderEntry).        *)
(***************************************************************************)
EXTENDS Broker, FiniteSets

CONSTANT TradesCapacity   \* state::TRADES_CAPACITY

ASSUME TradesCapacityAssumption == TradesCapacity \in Nat \ {0}

VARIABLES
  phase,      \* where the bot's task is
  request,    \* ProtoOAReconcileReq: not sent, at the server, answered or refused, or
              \* answered by a message without payload
  rcvd,       \* messages of stream the bot has taken off the connection
  applying,   \* what apply_execution has yet to do with the last of them: nothing,
              \* both tables or the orders
  status,     \* AppState.connection_status
  positions,  \* AppState.positions
  orders,     \* AppState.orders
  trades,     \* AppState.trades, newest at the back
  frames      \* every WsFrame handed to AppState.ws_tx, in order

botVars == <<phase, request, rcvd, applying, status, positions, orders, trades, frames>>
vars == <<brokerVars, botVars>>

Phases == {"starting",     \* fetch_symbols, fetch_trader
           "reconciling",  \* initial_reconcile waits for the answer
           "loading",      \* fetch_symbol_details, subscribe_to_spots
           "running",      \* run: the select! loop
           "failed",       \* a startup step returned Err: main ends
           "down"}         \* run returned Err: main ends

Reading  == {"starting", "reconciling", "loading", "running"}
Stopped  == {"failed", "down"}
ShownPosition == [volume : 0 .. MaxVolume]

\* Mutant of OrderStatus: EXPIRED forgotten.
OrderStatusNoExpiry(s) ==
  CASE s = "FILLED" -> "filled"
    [] s = "CANCELLED" -> "cancelled"
    [] s = "REJECTED" -> "rejected"
    [] OTHER -> "pending"

\* Order rows are shown through OrderStatus::from_internal.
OrderStatus(s) ==
  CASE s = "FILLED" -> "filled"
    [] s = "CANCELLED" -> "cancelled"
    [] s \in {"REJECTED", "EXPIRED"} -> "rejected"
    [] OTHER -> "pending"

DtoStatuses == {"pending", "filled", "cancelled", "rejected"}

\* WsFrame.
Frame ==
  [kind : {"status"}, connection : {"authenticated", "disconnected"}]
    \cup [kind : {"position_update"}, id : PositionId, volume : 0 .. MaxVolume]
    \cup [kind : {"position_closed"}, id : PositionId]
    \cup [kind : {"order_update"}, id : OrderId, status : DtoStatuses, volume : Volumes]
    \cup [kind : {"execution"}, id : OrderId, status : DtoStatuses]

Trade == [id : Nat, position_id : PositionId, volume : Volumes]

-----------------------------------------------------------------------------
\* apply_execution, position side.
Closed(m) == m.position # Absent /\ m.position.row.status = "CLOSED"

\* Mutant of TradesAfter: the oldest trade is evicted one trade late.
TradesEvictedLate(m) ==
  IF Closed(m) /\ m.closing # Absent
    THEN Append(IF Len(trades) > TradesCapacity THEN Tail(trades) ELSE trades,
                [id |-> m.closing.deal_id, position_id |-> m.position.id,
                 volume |-> m.closing.volume])
    ELSE trades

\* append_trade, called only for a deal that closes its position for good.
TradesAfter(m) ==
  IF Closed(m) /\ m.closing # Absent
    THEN Append(IF Len(trades) >= TradesCapacity THEN Tail(trades) ELSE trades,
                [id |-> m.closing.deal_id, position_id |-> m.position.id,
                 volume |-> m.closing.volume])
    ELSE trades

\* Mutant of PositionsAfter: the event's volume is added to the row's.
PositionsSummed(m) ==
  IF m.position = Absent THEN positions
  ELSE LET held == positions[m.position.id]
       IN [positions EXCEPT ![m.position.id] =
             IF Closed(m) THEN Absent
             ELSE [volume |-> m.position.row.volume
                                + IF held = Absent THEN 0 ELSE held.volume]]

PositionsAfter(m) ==
  IF m.position = Absent THEN positions
  ELSE [positions EXCEPT ![m.position.id] =
          IF Closed(m) THEN Absent ELSE [volume |-> m.position.row.volume]]

PositionFrames(m) ==
  IF m.position = Absent THEN << >>
  ELSE IF Closed(m) THEN <<[kind |-> "position_closed", id |-> m.position.id]>>
  ELSE <<[kind |-> "position_update", id |-> m.position.id,
          volume |-> m.position.row.volume]>>

\* apply_execution, order side.
\* Mutant of Terminal: EXPIRED forgotten.
TerminalNoExpiry(s) == s \in {"FILLED", "CANCELLED", "REJECTED"}

Terminal(s) == s \in {"FILLED", "CANCELLED", "EXPIRED", "REJECTED"}

\* Mutant of OrdersAfter: rows are updated, never added.
OrdersKnownOnly(m) ==
  IF m.order = Absent \/ orders[m.order.id] = Absent THEN orders
  ELSE [orders EXCEPT ![m.order.id] =
          IF Terminal(m.order.row.status) THEN Absent ELSE m.order.row]

OrdersAfter(m) ==
  IF m.order = Absent THEN orders
  ELSE [orders EXCEPT ![m.order.id] =
          IF Terminal(m.order.row.status) THEN Absent ELSE m.order.row]

OrderFrames(m) ==
  IF m.order = Absent THEN << >>
  ELSE LET s == OrderStatus(m.order.row.status)
       IN <<[kind |-> "order_update", id |-> m.order.id, status |-> s,
             volume |-> m.order.row.volume],
            [kind |-> "execution", id |-> m.order.id, status |-> s]>>

-----------------------------------------------------------------------------
\* Mutant of HasNext: the last message waits for the one after it.
HasNextOneLate == phase \in Reading /\ applying = "nothing" /\ rcvd + 1 < Len(stream)

\* recv_raw: the next message, in the order the server sent them, once the one
\* before is done with.
HasNext == phase \in Reading /\ applying = "nothing" /\ rcvd < Len(stream)
Incoming == stream[rcvd + 1]
Latest == stream[rcvd]

\* apply_execution: the closing deal is recorded under the lock of trades ...
HandleExecution ==
  /\ HasNext /\ Incoming.type = "execution"
  /\ rcvd' = rcvd + 1
  /\ trades' = TradesAfter(Incoming)
  /\ applying' = "tables"
  /\ UNCHANGED <<brokerVars, phase, request, status, positions, orders, frames>>

\* ... then the position side under that of positions ...
ApplyPosition ==
  /\ applying = "tables"
  /\ positions' = PositionsAfter(Latest)
  /\ frames' = frames \o PositionFrames(Latest)
  /\ applying' = "orders"
  /\ UNCHANGED <<brokerVars, phase, request, rcvd, status, orders, trades>>

\* ... and last the order side, under that of orders.
ApplyOrder ==
  /\ applying = "orders"
  /\ orders' = OrdersAfter(Latest)
  /\ frames' = frames \o OrderFrames(Latest)
  /\ applying' = "nothing"
  /\ UNCHANGED <<brokerVars, phase, request, rcvd, status, positions, trades>>

\* An order error reaches the clients as a rejected execution, the tables stay.
HandleOrderError ==
  /\ HasNext /\ Incoming.type = "order_error"
  /\ rcvd' = rcvd + 1
  /\ frames' = Append(frames, [kind |-> "execution", id |-> Incoming.id, status |-> "rejected"])
  /\ UNCHANGED <<brokerVars, phase, request, applying, status, positions, orders, trades>>

\* An error response is only logged; the server's heartbeat is answered at once ...
HandleOther ==
  /\ HasNext /\ Incoming.type \in {"error", "heartbeat"}
  /\ rcvd' = rcvd + 1
  /\ UNCHANGED <<brokerVars, phase, request, applying, status, positions, orders, trades,
                 frames>>

\* ... and when the answer cannot be sent, `?' leaves the loop: a startup step
\* fails, run returns without touching the status.
ReplyFails ==
  /\ HasNext /\ Incoming.type = "heartbeat"
  /\ rcvd' = rcvd + 1
  /\ phase' = IF phase = "running" THEN "down" ELSE "failed"
  /\ UNCHANGED <<brokerVars, request, applying, status, positions, orders, trades, frames>>

\* recv_raw returns Err: run says so before it returns, the startup steps do not.
ConnectionLost ==
  /\ phase \in Reading /\ applying = "nothing"
  /\ IF phase = "running"
       THEN /\ phase' = "down"
            /\ status' = "disconnected"
            /\ frames' = Append(frames, [kind |-> "status", connection |-> "disconnected"])
       ELSE /\ phase' = "failed"
            /\ UNCHANGED <<status, frames>>
  /\ UNCHANGED <<brokerVars, request, rcvd, applying, positions, orders, trades>>

\* initial_reconcile: the request ...
RequestReconcile ==
  /\ phase = "starting" /\ applying = "nothing"
  /\ phase' = "reconciling"
  /\ request' = "sent"
  /\ UNCHANGED <<brokerVars, rcvd, applying, status, positions, orders, trades, frames>>

\* ... and its answer, which replaces both tables: two locks, but no reader yet.
HandleReconcile ==
  /\ phase = "reconciling"
  /\ HasNext /\ Incoming.type = "reconcile"
  /\ rcvd' = rcvd + 1
  /\ positions' = Incoming.positions
  /\ orders' = Incoming.orders
  /\ phase' = "loading"
  /\ UNCHANGED <<brokerVars, request, applying, status, trades, frames>>

\* An answer without a payload is taken for good and leaves the tables alone.
HandleHollowReconcile ==
  /\ phase = "reconciling"
  /\ HasNext /\ Incoming.type = "hollow_reconcile"
  /\ rcvd' = rcvd + 1
  /\ request' = "hollow"
  /\ phase' = "loading"
  /\ UNCHANGED <<brokerVars, applying, status, positions, orders, trades, frames>>

\* fetch_symbol_details and subscribe_to_spots are done, main spawns run and the
\* API; run first tells the clients the status.  A details request that is refused
\* or never answered leaves the bot where it is (Startup).
StartLoop ==
  /\ phase = "loading" /\ applying = "nothing"
  /\ phase' = "running"
  /\ frames' = Append(frames, [kind |-> "status", connection |-> status])
  /\ UNCHANGED <<brokerVars, request, rcvd, applying, status, positions, orders, trades>>

\* The server's side.
BrokerTrades == Trading /\ UNCHANGED botVars

BrokerAnswers ==
  /\ request = "sent"
  /\ request' = "answered"
  /\ AnswerReconcile \/ AnswerHollow
  /\ UNCHANGED <<phase, rcvd, applying, status, positions, orders, trades, frames>>

BrokerRefuses ==
  /\ request = "sent"
  /\ request' = "refused"
  /\ RefuseReconcile
  /\ UNCHANGED <<phase, rcvd, applying, status, positions, orders, trades, frames>>

-----------------------------------------------------------------------------
\* main has authenticated; AppState::new starts with empty tables.
Init ==
  /\ BrokerInit
  /\ phase = "starting"
  /\ request = "none"
  /\ rcvd = 0
  /\ applying = "nothing"
  /\ status = "authenticated"
  /\ positions = [p \in PositionId |-> Absent]
  /\ orders = [o \in OrderId |-> Absent]
  /\ trades = << >>
  /\ frames = << >>

Receive ==
  \/ HandleExecution \/ ApplyPosition \/ ApplyOrder
  \/ HandleOrderError \/ HandleOther
  \/ HandleReconcile \/ HandleHollowReconcile

Next ==
  \/ Receive
  \/ ReplyFails
  \/ ConnectionLost
  \/ RequestReconcile
  \/ StartLoop
  \/ BrokerTrades
  \/ BrokerAnswers
  \/ BrokerRefuses

Spec == Init /\ [][Next]_vars

\* The bot's task runs whenever a message is there (tokio polls it) and no reader
\* keeps a table for ever.  Nothing is assumed of the server, neither that it
\* answers the reconcile request nor that fetch_symbol_details gets its answer.
Fairness == WF_vars(Receive)

FairSpec == Spec /\ Fairness

-----------------------------------------------------------------------------
(* Properties *)

TypeOK ==
  /\ BrokerTypeOK
  /\ phase \in Phases
  /\ request \in {"none", "sent", "answered", "refused", "hollow"}
  /\ rcvd \in 0 .. Len(stream)
  /\ applying \in {"nothing", "tables", "orders"}
  /\ applying # "nothing" => phase \in Reading /\ rcvd > 0 /\ Latest.type = "execution"
  /\ status \in {"authenticated", "disconnected"}
  /\ positions \in [PositionId -> ShownPosition \cup {Absent}]
  /\ orders \in [OrderId -> OrderRow \cup {Absent}]
  /\ trades \in Seq(Trade)
  /\ frames \in Seq(Frame)

\* What a client takes for open: the rows with a volume.
Filled(table) ==
  [p \in PositionId |-> IF table[p] # Absent /\ table[p].volume > 0 THEN table[p] ELSE Absent]

\* The reconcile answer, if it brought anything, has been taken in.
Synced == phase \in {"loading", "running", "down"} /\ request # "hollow"

\* The entry of the account's history each table has reached: the positions are ahead
\* while the orders of the same message wait for their lock.
PositionsAt == IF applying = "tables" THEN rcvd ELSE rcvd + 1
OrdersAt    == IF applying = "nothing" THEN rcvd + 1 ELSE rcvd

\* Whatever executions arrived before, during and after initial_reconcile, the order
\* table holds the working orders, and the rows with a volume of the position table
\* the open positions, of the account as of the last message taken in: no event is
\* applied twice, dropped, or undone by the reconcile answer, and no terminal order
\* or closed position lingers.  While a message is being applied the orders, or both
\* tables, are still those before it.  Rows without a volume are left out: those that
\* come with pending orders stay when the order ends without a position part.
TablesMirrorBook ==
  Synced => /\ orders = WorkingOrders(books[OrdersAt])
            /\ Filled(positions) = OpenPositions(books[PositionsAt])

\* The same as a promise to clients, over whole behaviours (MirroredBook): they
\* see the tables from the moment main starts the API.
ServedView ==
  IF Synced /\ phase # "loading"
    THEN [orders |-> orders, positions |-> Filled(positions)]
    ELSE Absent

Mirror == INSTANCE MirroredBook WITH
  Books <- Book, Orders <- WorkingOrders, Positions <- OpenPositions, Blank <- Absent,
  history <- books, positionsAt <- PositionsAt, ordersAt <- OrdersAt, shown <- ServedView

ImplementsMirroredBook == Mirror!MirrorSpec

FullClosing(m) == m.type = "execution" /\ m.closing # Absent /\ Closed(m)
Closings == {n \in 1 .. rcvd : FullClosing(stream[n])}
ClosedSince(n) == Cardinality({k \in Closings : k > n})

\* append_trade evicts exactly the oldest: the trade history holds the newest
\* TradesCapacity deals that closed a position for good, oldest first, those from
\* before the reconcile included.  The deals that close a part are missing
\* (EveryClosingDealRecorded).
TradesAreNewestClosings ==
  LET all == Cardinality(Closings)
  IN /\ Len(trades) = IF all > TradesCapacity THEN TradesCapacity ELSE all
     /\ \A n \in Closings : ClosedSince(n) < Len(trades) =>
          trades[Len(trades) - ClosedSince(n)].id = stream[n].closing.deal_id

\* What a client does with a frame: position_update and order_update put a row,
\* position_closed and an order_update that is no longer pending take one away.
ApplyFrame(view, f) ==
  CASE f.kind = "position_update" -> [view EXCEPT !.positions[f.id] = [volume |-> f.volume]]
    [] f.kind = "position_closed" -> [view EXCEPT !.positions[f.id] = Absent]
    [] f.kind = "order_update"    ->
         [view EXCEPT !.orders[f.id] = IF f.status = "pending" THEN [volume |-> f.volume]
                                                               ELSE Absent]
    [] OTHER -> view

ClientView ==
  [positions |-> positions,
   orders |-> [o \in OrderId |-> IF orders[o] = Absent THEN Absent
                                  ELSE [volume |-> orders[o].volume]]]

AppliedFrames(view, fs) ==
  LET after[n \in 0 .. Len(fs)] == IF n = 0 THEN view ELSE ApplyFrame(after[n - 1], fs[n])
  IN after[Len(fs)]

FramesSent == SubSeq(frames', Len(frames) + 1, Len(frames'))

\* The frames a step of the running loop sends tell a client exactly what the
\* step did to the tables: with the snapshot it was replayed, a WS client needs
\* nothing else to stay in step.
FramesTellTables ==
  [][phase = "running" => AppliedFrames(ClientView, FramesSent) = ClientView']_vars

\* Messages are taken in for good: whatever the server sent is taken in sooner or
\* later, or the bot has stopped, as long as the stream is not torn (Framing) and no
\* reader keeps a table for ever (WsFanout).
EveryMessageTakenIn ==
  \A n \in 1 .. MaxMessages + 1 : Len(stream) >= n ~> (rcvd >= n \/ phase \in Stopped)

(* What the sources say and the code does not do *)

ClosingDeals == {n \in 1 .. rcvd : stream[n].type = "execution" /\ stream[n].closing # Absent}

\* dto.rs:143: a Trade is "appended to `AppState::trades` on a closing execution";
\* bot_loop.rs:537: "Capture a Trade for closing deals before we drop the position".
\* Each closing deal taken in is in the history, or as many newer ones as it holds are.
EveryClosingDealRecorded ==
  \A n \in ClosingDeals :
    \/ \E i \in DOMAIN trades : trades[i].id = stream[n].closing.deal_id
    \/ Cardinality({k \in ClosingDeals : k > n}) >= TradesCapacity
=============================================================================
