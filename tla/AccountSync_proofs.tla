------------------------- MODULE AccountSync_proofs -------------------------
(***************************************************************************)
(* Theorems about AccountSync: it stays within its types; from the          *)
(* reconcile answer on the bot's tables are the account's working orders    *)
(* and open positions as of the messages each has taken in; so it           *)
(* implements MirroredBook; the frames of a step tell a client what the     *)
(* step did; and the trade history holds the newest full closings.          *)
(***************************************************************************)
EXTENDS AccountSync, SequenceTheorems, FiniteSetTheorems, TLAPS

USE BrokerAssumption, TradesCapacityAssumption

-----------------------------------------------------------------------------
(* The server: every step of it publishes one message. *)

LEMMA EffectType ==
  ASSUME NEW b \in Book, NEW m \in Message
  PROVE  Effect(b, m) \in Book
<1>1. CASE m.type # "execution"
  BY <1>1 DEF Effect
<1>2. CASE m.type = "execution"
  <2>1. m \in ExecutionEvent
    BY <1>2 DEF Message, ReconcileRes, OtherMessage
  <2>2. /\ m.order # Absent => m.order.id \in OrderId /\ m.order.row \in OrderRow
        /\ m.position # Absent => m.position.id \in PositionId /\ m.position.row \in PositionRow
    BY <2>1 DEF ExecutionEvent, OrderPart, PositionPart
  <2> QED BY <1>2, <2>2 DEF Effect, Book
<1> QED BY <1>1, <1>2

\* A reconcile answer carries the book it was made from.
Snapshot(b, m) ==
  m.type = "reconcile" => /\ m.orders = WorkingOrders(b)
                          /\ m.positions = OpenPositions(b)

Published(m) == m \in Message /\ Publish(m) /\ Snapshot(CurrentBook, m)

LEMMA CurrentBookType ==
  ASSUME BrokerTypeOK PROVE CurrentBook \in Book
BY DEF BrokerTypeOK, CurrentBook

LEMMA ExecutionPublishes ==
  ASSUME NEW o \in OrderPart, NEW p \in PositionPart, NEW c \in ClosingDeal,
         Execution(o, p, c)
  PROVE  \E m \in Message : Published(m)
<1> DEFINE m == [type |-> "execution", order |-> o, position |-> p, closing |-> c]
<1>1. m \in ExecutionEvent
  BY DEF ExecutionEvent
<1>2. m \in Message /\ Publish(m) /\ m.type # "reconcile"
  BY <1>1 DEF Message, Execution
<1> HIDE DEF m
<1> QED BY <1>2 DEF Published, Snapshot

LEMMA TradingPublishes ==
  ASSUME BrokerTypeOK, Trading
  PROVE  \E m \in Message : Published(m)
<1>b. CurrentBook \in Book
  BY CurrentBookType
<1>1. ASSUME NEW o \in OrderId, NEW v \in Volumes, AcceptMarket(o, v) \/ Replace(o, v)
      PROVE  \E m \in Message : Published(m)
  <2> DEFINE part == [id |-> o, row |-> [status |-> "ACCEPTED", volume |-> v]]
  <2>1. part \in OrderPart
    BY DEF OrderPart, OrderRow, OrderStatuses
  <2>2. Execution(part, Absent, Absent)
    BY <1>1 DEF AcceptMarket, Accept, Replace
  <2> QED BY <2>1, <2>2, ExecutionPublishes DEF PositionPart, ClosingDeal
<1>2. ASSUME NEW o \in OrderId, NEW v \in Volumes, NEW p \in PositionId, AcceptPending(o, v, p)
      PROVE  \E m \in Message : Published(m)
  <2> DEFINE part == [id |-> o, row |-> [status |-> "ACCEPTED", volume |-> v]]
             empty == [id |-> p, row |-> [status |-> "CREATED", volume |-> 0]]
  <2>1. part \in OrderPart /\ empty \in PositionPart
    BY DEF OrderPart, OrderRow, OrderStatuses, PositionPart, PositionRow
  <2>2. Execution(part, empty, Absent)
    BY <1>2 DEF AcceptPending, Accept
  <2> QED BY <2>1, <2>2, ExecutionPublishes DEF ClosingDeal
<1>3. ASSUME NEW o \in OrderId, NEW p \in PositionId, FillOpening(o, p) \/ FillClosing(o, p)
      PROVE  \E m \in Message : Published(m)
  <2>1. CurrentBook.orders[o] \in OrderRow /\ CurrentBook.orders[o].volume \in Volumes
    BY <1>b, <1>3 DEF FillOpening, FillClosing, IsWorking, Book, OrderRow
  <2>2. OrderIn(o, "FILLED") \in OrderPart
    BY <2>1 DEF OrderIn, OrderPart, OrderRow, OrderStatuses
  <2>3. CASE FillOpening(o, p)
    <3> DEFINE held == IF PositionStatus(p) = "OPEN" THEN CurrentBook.positions[p].volume ELSE 0
               volume == held + CurrentBook.orders[o].volume
               part == [id |-> p, row |-> [status |-> "OPEN", volume |-> volume]]
    <3>1. held \in 0 .. MaxVolume
      BY <1>b DEF Book, PositionRow, PositionStatus, Volumes
    <3>2. volume <= MaxVolume /\ Execution(OrderIn(o, "FILLED"), part, Absent)
      BY <2>3 DEF FillOpening
    <3>3. volume \in Volumes
      BY <3>1, <3>2, <2>1 DEF Volumes
    <3> HIDE DEF volume
    <3>4. part \in PositionPart
      BY <3>3 DEF PositionPart, PositionRow
    <3> QED BY <2>2, <3>2, <3>4, ExecutionPublishes DEF ClosingDeal
  <2>4. CASE FillClosing(o, p)
    <3> DEFINE closed == CurrentBook.orders[o].volume
               volume == CurrentBook.positions[p].volume - closed
               part == [id |-> p, row |-> [status |-> IF volume = 0 THEN "CLOSED" ELSE "OPEN",
                                           volume |-> volume]]
               deal == [deal_id |-> Len(stream) + 1, volume |-> closed]
    <3>1. CurrentBook.positions[p].volume \in Volumes
      BY <1>b, <2>4 DEF FillClosing, Book, PositionRow, PositionStatus
    <3>2. volume >= 0 /\ Execution(OrderIn(o, "FILLED"), part, deal)
      BY <2>4 DEF FillClosing
    <3>3. volume \in 0 .. MaxVolume
      BY <3>1, <3>2, <2>1 DEF Volumes
    <3>4. deal \in ClosingDeal
      BY <2>1 DEF ClosingDeal, BrokerTypeOK
    <3> HIDE DEF volume, deal
    <3>5. part \in PositionPart
      BY <3>3 DEF PositionPart, PositionRow, Volumes
    <3> QED BY <2>2, <3>2, <3>4, <3>5, ExecutionPublishes
  <2> QED BY <1>3, <2>3, <2>4
<1>4. ASSUME NEW o \in OrderId, NEW s \in {"CANCELLED", "EXPIRED", "REJECTED"}, End(o, s)
      PROVE  \E m \in Message : Published(m)
  <2>1. OrderIn(o, s) \in OrderPart
    BY <1>b, <1>4 DEF End, IsWorking, Book, OrderRow, OrderIn, OrderPart, OrderStatuses
  <2> QED BY <1>4, <2>1, ExecutionPublishes DEF End, PositionPart, ClosingDeal
<1>5. ASSUME NEW o \in OrderId, Refuse(o)
      PROVE  \E m \in Message : Published(m)
  <2> DEFINE part == [id |-> o, row |-> [status |-> "REJECTED", volume |-> 1]]
  <2>1. part \in OrderPart
    BY DEF OrderPart, OrderRow, OrderStatuses, Volumes
  <2> QED BY <1>5, <2>1, ExecutionPublishes DEF Refuse, PositionPart, ClosingDeal
<1>6. ASSUME NEW o \in OrderId, OrderError(o)
      PROVE  \E m \in Message : Published(m)
  <2> DEFINE m == [type |-> "order_error", id |-> o]
  <2>1. m \in Message /\ Publish(m) /\ m.type # "reconcile"
    BY <1>6 DEF OrderError, Message, OtherMessage
  <2> HIDE DEF m
  <2> QED BY <2>1 DEF Published, Snapshot
<1>7. ASSUME NEW p \in PositionId, Swap(p)
      PROVE  \E m \in Message : Published(m)
  <2>1. [id |-> p, row |-> CurrentBook.positions[p]] \in PositionPart
    BY <1>b, <1>7 DEF Swap, PositionStatus, Book, PositionPart
  <2> QED BY <1>7, <2>1, ExecutionPublishes DEF Swap, OrderPart, ClosingDeal
<1>8. ASSUME Ping PROVE \E m \in Message : Published(m)
  <2> DEFINE m == [type |-> "heartbeat"]
  <2>1. m \in Message /\ Publish(m) /\ m.type # "reconcile"
    BY <1>8 DEF Ping, Message, OtherMessage
  <2> HIDE DEF m
  <2> QED BY <2>1 DEF Published, Snapshot
<1> QED BY <1>1, <1>2, <1>3, <1>4, <1>5, <1>6, <1>7, <1>8 DEF Trading

LEMMA AnswerPublishes ==
  ASSUME BrokerTypeOK, AnswerReconcile \/ AnswerHollow \/ RefuseReconcile
  PROVE  \E m \in Message : Published(m)
<1>b. CurrentBook \in Book
  BY CurrentBookType
<1>1. CASE AnswerReconcile
  <2> DEFINE m == [type |-> "reconcile", orders |-> WorkingOrders(CurrentBook),
                   positions |-> OpenPositions(CurrentBook)]
  <2>1. WorkingOrders(CurrentBook) \in [OrderId -> OrderRow \cup {Absent}]
    BY <1>b DEF WorkingOrders, Book
  <2>2. OpenPositions(CurrentBook) \in [PositionId -> [volume : Volumes] \cup {Absent}]
    BY <1>b DEF OpenPositions, Book, PositionRow
  <2>3. m \in Message
    BY <2>1, <2>2 DEF Message, ReconcileRes
  <2>4. Publish(m)
    BY <1>1 DEF AnswerReconcile
  <2> QED BY <2>3, <2>4 DEF Published, Snapshot
<1>2. CASE RefuseReconcile
  <2> DEFINE m == [type |-> "error"]
  <2>1. m \in Message /\ Publish(m) /\ m.type # "reconcile"
    BY <1>2 DEF RefuseReconcile, Message, OtherMessage
  <2> HIDE DEF m
  <2> QED BY <2>1 DEF Published, Snapshot
<1>3. CASE AnswerHollow
  <2> DEFINE m == [type |-> "hollow_reconcile"]
  <2>1. m \in Message /\ Publish(m) /\ m.type # "reconcile"
    BY <1>3 DEF AnswerHollow, Message, OtherMessage
  <2> HIDE DEF m
  <2> QED BY <2>1 DEF Published, Snapshot
<1> QED BY <1>1, <1>2, <1>3

LEMMA PublishType ==
  ASSUME BrokerTypeOK, NEW m \in Message, Publish(m)
  PROVE  BrokerTypeOK'
<1>1. Effect(CurrentBook, m) \in Book
  BY CurrentBookType, EffectType
<1>2. Len(stream') = Len(stream) + 1 /\ Len(books') = Len(books) + 1
  BY DEF Publish, BrokerTypeOK
<1> QED BY <1>1, <1>2 DEF Publish, BrokerTypeOK

-----------------------------------------------------------------------------
(* Type correctness *)

\* The state of the server and of the bot are initially within their types.
LEMMA InitType == Init => TypeOK
<1> SUFFICES ASSUME Init PROVE TypeOK
  OBVIOUS
<1>1. PICK os \in [OrderId -> {Absent} \cup [status : {"ACCEPTED"}, volume : {1}]],
           ps \in [PositionId -> {Absent} \cup [status : {"OPEN"}, volume : Volumes]] :
           books = <<[orders |-> os, positions |-> ps]>>
  BY DEF Init, BrokerInit
<1>2. os \in [OrderId -> OrderRow \cup {Absent}]
  BY DEF OrderRow, OrderStatuses, Volumes
<1>3. ps \in [PositionId -> PositionRow \cup {Absent}]
  BY DEF PositionRow
<1>4. BrokerTypeOK
  BY <1>1, <1>2, <1>3 DEF Init, BrokerInit, BrokerTypeOK, Book
<1> QED BY <1>4 DEF Init, TypeOK, Phases

\* What one execution event does to the bot's tables stays within their types.
LEMMA ExecutionType ==
  ASSUME TypeOK, NEW m \in ExecutionEvent
  PROVE  /\ PositionsAfter(m) \in [PositionId -> ShownPosition \cup {Absent}]
         /\ OrdersAfter(m) \in [OrderId -> OrderRow \cup {Absent}]
         /\ TradesAfter(m) \in Seq(Trade)
         /\ PositionFrames(m) \in Seq(Frame)
         /\ OrderFrames(m) \in Seq(Frame)
<1>1. /\ m.order # Absent => m.order.id \in OrderId /\ m.order.row \in OrderRow
      /\ m.position # Absent => m.position.id \in PositionId /\ m.position.row \in PositionRow
      /\ m.closing # Absent => m.closing.deal_id \in Nat /\ m.closing.volume \in Volumes
  BY DEF ExecutionEvent, OrderPart, PositionPart, ClosingDeal
<1>2. m.position # Absent => m.position.row.volume \in 0 .. MaxVolume
  BY <1>1 DEF PositionRow, Volumes
<1>3. PositionsAfter(m) \in [PositionId -> ShownPosition \cup {Absent}]
  BY <1>1, <1>2 DEF TypeOK, PositionsAfter, ShownPosition
<1>4. OrdersAfter(m) \in [OrderId -> OrderRow \cup {Absent}]
  BY <1>1 DEF TypeOK, OrdersAfter
<1>5. TradesAfter(m) \in Seq(Trade)
  <2>1. CASE Closed(m) /\ m.closing # Absent
    <3> DEFINE kept == IF Len(trades) >= TradesCapacity THEN Tail(trades) ELSE trades
               trade == [id |-> m.closing.deal_id, position_id |-> m.position.id,
                         volume |-> m.closing.volume]
    <3>1. trade \in Trade
      BY <1>1, <2>1 DEF Trade, Closed
    <3>2. kept \in Seq(Trade)
      BY DEF TypeOK
    <3>3. TradesAfter(m) = Append(kept, trade)
      BY <2>1 DEF TradesAfter
    <3> HIDE DEF kept, trade
    <3> QED BY <3>1, <3>2, <3>3
  <2>2. CASE ~(Closed(m) /\ m.closing # Absent)
    BY <2>2 DEF TradesAfter, TypeOK
  <2> QED BY <2>1, <2>2
<1>6. PositionFrames(m) \in Seq(Frame)
  <2>1. CASE m.position = Absent
    BY <2>1 DEF PositionFrames
  <2>2. CASE m.position # Absent
    <3> DEFINE gone == [kind |-> "position_closed", id |-> m.position.id]
               update == [kind |-> "position_update", id |-> m.position.id,
                          volume |-> m.position.row.volume]
    <3>1. gone \in Frame /\ update \in Frame
      BY <1>1, <1>2, <2>2 DEF Frame
    <3>2. PositionFrames(m) = IF Closed(m) THEN <<gone>> ELSE <<update>>
      BY <2>2 DEF PositionFrames
    <3> HIDE DEF gone, update
    <3> QED BY <3>1, <3>2
  <2> QED BY <2>1, <2>2
<1>7. OrderFrames(m) \in Seq(Frame)
  <2>1. CASE m.order = Absent
    BY <2>1 DEF OrderFrames
  <2>2. CASE m.order # Absent
    <3> DEFINE s == OrderStatus(m.order.row.status)
               update == [kind |-> "order_update", id |-> m.order.id, status |-> s,
                          volume |-> m.order.row.volume]
               execution == [kind |-> "execution", id |-> m.order.id, status |-> s]
    <3>1. s \in DtoStatuses
      BY DEF OrderStatus, DtoStatuses
    <3>2. m.order.row.volume \in Volumes
      BY <1>1, <2>2 DEF OrderRow
    <3> HIDE DEF s
    <3>3. update \in Frame /\ execution \in Frame
      BY <1>1, <2>2, <3>1, <3>2 DEF Frame
    <3>4. OrderFrames(m) = <<update, execution>>
      BY <2>2 DEF OrderFrames, s
    <3> QED BY <3>3, <3>4
  <2> QED BY <2>1, <2>2
<1> QED BY <1>3, <1>4, <1>5, <1>6, <1>7

LEMMA IncomingType ==
  ASSUME TypeOK, HasNext
  PROVE  /\ Incoming \in Message
         /\ rcvd + 1 \in 0 .. Len(stream)
         /\ rcvd + 1 \in 1 .. Len(stream)
BY DEF TypeOK, BrokerTypeOK, HasNext, Incoming

\* The message being applied is an execution event.
LEMMA LatestType ==
  ASSUME TypeOK, applying # "nothing"
  PROVE  /\ Latest \in ExecutionEvent
         /\ phase \in Reading
         /\ rcvd \in 1 .. Len(stream)
<1>1. rcvd \in 1 .. Len(stream) /\ Latest.type = "execution" /\ phase \in Reading
  BY DEF TypeOK, BrokerTypeOK
<1>2. Latest \in Message
  BY <1>1 DEF Latest, TypeOK, BrokerTypeOK
<1> QED BY <1>1, <1>2 DEF Message, ReconcileRes, OtherMessage

\* Every step of the server or of the bot keeps both within their types.
LEMMA NextType == TypeOK /\ [Next]_vars => TypeOK'
<1> SUFFICES ASSUME TypeOK, [Next]_vars PROVE TypeOK'
  OBVIOUS
<1>1. CASE HandleExecution
  <2>1. Incoming \in ExecutionEvent /\ rcvd \in Nat
    BY <1>1, IncomingType
       DEF HandleExecution, Message, ReconcileRes, OtherMessage, TypeOK, BrokerTypeOK
  <2>2. Latest' = Incoming
    BY <1>1 DEF HandleExecution, Latest, Incoming, brokerVars
  <2> QED BY <1>1, <2>1, <2>2, ExecutionType, IncomingType
      DEF HandleExecution, HasNext, TypeOK, BrokerTypeOK, brokerVars
<1>a. CASE ApplyPosition
  <2>1. Latest \in ExecutionEvent /\ Latest' = Latest
    BY <1>a, LatestType DEF ApplyPosition, Latest, brokerVars
  <2>2. frames' \in Seq(Frame)
    BY <1>a, <2>1, ExecutionType DEF ApplyPosition, TypeOK
  <2> QED BY <1>a, <2>1, <2>2, ExecutionType, LatestType
      DEF ApplyPosition, TypeOK, BrokerTypeOK, brokerVars
<1>b. CASE ApplyOrder
  <2>1. Latest \in ExecutionEvent
    BY <1>b, LatestType DEF ApplyOrder
  <2>2. frames' \in Seq(Frame)
    BY <1>b, <2>1, ExecutionType DEF ApplyOrder, TypeOK
  <2> QED BY <1>b, <2>1, <2>2, ExecutionType
      DEF ApplyOrder, TypeOK, BrokerTypeOK, brokerVars
<1>2. CASE HandleOrderError
  <2>1. Incoming.id \in OrderId
    BY <1>2, IncomingType DEF HandleOrderError, Message, ReconcileRes, OtherMessage, ExecutionEvent
  <2>2. [kind |-> "execution", id |-> Incoming.id, status |-> "rejected"] \in Frame
    BY <2>1 DEF Frame, DtoStatuses
  <2> QED BY <1>2, <2>2, IncomingType
      DEF HandleOrderError, HasNext, TypeOK, BrokerTypeOK, brokerVars
<1>3. CASE HandleOther
  BY <1>3, IncomingType DEF HandleOther, HasNext, TypeOK, BrokerTypeOK, brokerVars
<1>4. CASE HandleReconcile
  <2>1. /\ Incoming.orders \in [OrderId -> OrderRow \cup {Absent}]
        /\ Incoming.positions \in [PositionId -> [volume : Volumes] \cup {Absent}]
    BY <1>4, IncomingType DEF HandleReconcile, Message, ReconcileRes, OtherMessage, ExecutionEvent
  <2>2. [volume : Volumes] \subseteq ShownPosition
    BY DEF ShownPosition, Volumes
  <2>3. Incoming.positions \in [PositionId -> ShownPosition \cup {Absent}]
    BY <2>1, <2>2
  <2> QED BY <1>4, <2>1, <2>3, IncomingType
      DEF HandleReconcile, HasNext, TypeOK, BrokerTypeOK, brokerVars, Phases
<1>c. CASE HandleHollowReconcile
  BY <1>c, IncomingType
     DEF HandleHollowReconcile, HasNext, TypeOK, BrokerTypeOK, brokerVars, Phases
<1>5. CASE ReplyFails
  BY <1>5, IncomingType DEF ReplyFails, HasNext, TypeOK, BrokerTypeOK, brokerVars, Phases
<1>6. CASE ConnectionLost
  <2> DEFINE frame == [kind |-> "status", connection |-> "disconnected"]
  <2>1. frame \in Frame
    BY DEF Frame
  <2>2. frames' = frames \/ frames' = Append(frames, frame)
    BY <1>6 DEF ConnectionLost
  <2>3. frames \in Seq(Frame) /\ Append(frames, frame) \in Seq(Frame)
    BY <2>1 DEF TypeOK
  <2>4. frames' \in Seq(Frame)
    BY <2>2, <2>3
  <2> QED BY <1>6, <2>4 DEF ConnectionLost, TypeOK, BrokerTypeOK, brokerVars, Phases
<1>7. CASE RequestReconcile
  BY <1>7 DEF RequestReconcile, TypeOK, BrokerTypeOK, brokerVars, Phases
<1>8. CASE StartLoop
  <2>1. [kind |-> "status", connection |-> status] \in Frame
    BY DEF Frame, TypeOK
  <2> QED BY <1>8, <2>1 DEF StartLoop, TypeOK, BrokerTypeOK, brokerVars, Phases
<1>9. ASSUME BrokerTypeOK', UNCHANGED <<phase, rcvd, applying, status, positions, orders, trades, frames>>,
             request' \in {"none", "sent", "answered", "refused", "hollow"},
             Len(stream') = Len(stream) + 1, \A i \in 1 .. rcvd : stream'[i] = stream[i]
      PROVE  TypeOK'
  BY <1>9 DEF TypeOK, BrokerTypeOK, Latest
<1>10. ASSUME \E m \in Message : Published(m)
       PROVE  /\ BrokerTypeOK' /\ Len(stream') = Len(stream) + 1
              /\ \A i \in 1 .. rcvd : stream'[i] = stream[i]
  BY <1>10, PublishType DEF Published, Publish, TypeOK, BrokerTypeOK
<1>11. CASE BrokerTrades
  BY <1>9, <1>10, <1>11, TradingPublishes DEF BrokerTrades, TypeOK, botVars
<1>12. CASE BrokerAnswers \/ BrokerRefuses
  BY <1>9, <1>10, <1>12, AnswerPublishes DEF BrokerAnswers, BrokerRefuses, TypeOK
<1>13. CASE UNCHANGED vars
  BY <1>13 DEF vars, brokerVars, botVars, TypeOK, BrokerTypeOK, Latest
<1> QED BY <1>1, <1>a, <1>b, <1>c, <1>2, <1>3, <1>4, <1>5, <1>6, <1>7, <1>8, <1>11, <1>12, <1>13
    DEF Next, Receive

\* Type correctness of the server's stream and of AppState, for every account size,
\* number of messages and trade capacity.
THEOREM TypeCorrect == Spec => []TypeOK
BY InitType, NextType, PTL DEF Spec

-----------------------------------------------------------------------------
(* The mirror.  TablesMirrorBook is not inductive by itself: that the next  *)
(* message leads from the book reached to the next one, and that a          *)
(* reconcile answer shows the book it finds, is a fact about the stream.    *)

StreamTellsBooks ==
  \A i \in DOMAIN stream : /\ books[i + 1] = Effect(books[i], stream[i])
                           /\ Snapshot(books[i], stream[i])

MirrorInv == StreamTellsBooks /\ TablesMirrorBook

\* Publishing extends both histories and rewrites neither.
LEMMA PublishExtends ==
  ASSUME BrokerTypeOK, StreamTellsBooks, NEW m \in Message, Published(m)
  PROVE  /\ StreamTellsBooks'
         /\ \A i \in 1 .. Len(books) : books'[i] = books[i]
<1>1. /\ stream' = Append(stream, m)
      /\ books' = Append(books, Effect(books[Len(books)], m))
      /\ Snapshot(books[Len(books)], m)
  BY DEF Published, Publish, CurrentBook
<1>2. /\ stream \in Seq(Message) /\ books \in Seq(Book)
      /\ Len(books) = Len(stream) + 1
  BY DEF BrokerTypeOK
<1>3. /\ \A i \in 1 .. Len(books) : books'[i] = books[i]
      /\ \A i \in 1 .. Len(stream) : stream'[i] = stream[i]
      /\ DOMAIN stream' = 1 .. Len(stream) + 1
      /\ stream'[Len(stream) + 1] = m
      /\ books'[Len(stream) + 2] = Effect(books[Len(books)], m)
  BY <1>1, <1>2
<1>4. ASSUME NEW i \in DOMAIN stream'
      PROVE  books'[i + 1] = Effect(books'[i], stream'[i]) /\ Snapshot(books'[i], stream'[i])
  <2>1. CASE i = Len(stream) + 1
    BY <1>1, <1>2, <1>3, <2>1
  <2>2. CASE i \in 1 .. Len(stream)
    <3>1. books[i + 1] = Effect(books[i], stream[i]) /\ Snapshot(books[i], stream[i])
      BY <1>2, <2>2 DEF StreamTellsBooks
    <3>2. i \in 1 .. Len(books) /\ i + 1 \in 1 .. Len(books)
      BY <1>2, <2>2
    <3> QED BY <1>3, <2>2, <3>1, <3>2
  <2> QED BY <1>2, <1>3, <2>1, <2>2
<1>5. StreamTellsBooks'
  BY <1>4 DEF StreamTellsBooks, Effect, Snapshot, WorkingOrders, OpenPositions
<1> QED BY <1>3, <1>5

\* apply_execution does to each table what the event does to the account.
LEMMA OrdersMirror ==
  ASSUME NEW b \in Book, NEW m \in ExecutionEvent, TypeOK, orders = WorkingOrders(b)
  PROVE  OrdersAfter(m) = WorkingOrders(Effect(b, m))
<1>1. /\ m.type = "execution"
      /\ m.order # Absent => m.order.id \in OrderId /\ m.order.row \in OrderRow
  BY DEF ExecutionEvent, OrderPart
<1>2. CASE m.order = Absent
  BY <1>1, <1>2 DEF OrdersAfter, Effect, WorkingOrders
<1>3. CASE m.order # Absent
  <2>1. Terminal(m.order.row.status) <=> m.order.row.status # "ACCEPTED"
    BY <1>1, <1>3 DEF Terminal, OrderRow, OrderStatuses
  <2>2. Effect(b, m).orders = [b.orders EXCEPT ![m.order.id] = m.order.row]
    BY <1>1, <1>3 DEF Effect
  <2>3. m.order.row # Absent
    BY <1>1, <1>3
  <2>4. b.orders \in [OrderId -> OrderRow \cup {Absent}]
    BY DEF Book
  <2> QED BY <1>1, <1>3, <2>1, <2>2, <2>3, <2>4 DEF OrdersAfter, WorkingOrders
<1> QED BY <1>2, <1>3

LEMMA PositionsMirror ==
  ASSUME NEW b \in Book, NEW m \in ExecutionEvent, TypeOK,
         Filled(positions) = OpenPositions(b)
  PROVE  Filled(PositionsAfter(m)) = OpenPositions(Effect(b, m))
<1>1. /\ m.type = "execution"
      /\ m.position # Absent => m.position.id \in PositionId /\ m.position.row \in PositionRow
  BY DEF ExecutionEvent, PositionPart
<1>2. CASE m.position = Absent
  BY <1>1, <1>2 DEF PositionsAfter, Effect, OpenPositions
<1>3. CASE m.position # Absent
  <2> DEFINE row == m.position.row
  <2>1. /\ row.status = "OPEN" => row.volume \in Nat /\ row.volume > 0
        /\ row.status # "OPEN" => row.volume = 0
        /\ row # Absent
    BY <1>1, <1>3 DEF PositionRow, Volumes
  <2>2. Effect(b, m).positions = [b.positions EXCEPT ![m.position.id] = row]
    BY <1>1, <1>3 DEF Effect
  <2>3. b.positions \in [PositionId -> PositionRow \cup {Absent}]
    BY DEF Book
  <2>4. positions \in [PositionId -> ShownPosition \cup {Absent}]
    BY DEF TypeOK
  <2>5. PositionsAfter(m) = [positions EXCEPT ![m.position.id] =
                               IF row.status = "CLOSED" THEN Absent ELSE [volume |-> row.volume]]
    BY <1>3 DEF PositionsAfter, Closed
  <2>6. row.status # "CLOSED" => [volume |-> row.volume] # Absent
    BY <2>1
  <2>7. ASSUME NEW p \in PositionId
        PROVE  Filled(PositionsAfter(m))[p] = OpenPositions(Effect(b, m))[p]
    <3>1. CASE p = m.position.id
      BY <1>1, <2>1, <2>2, <2>3, <2>4, <2>5, <2>6, <3>1 DEF Filled, OpenPositions
    <3>2. CASE p # m.position.id
      <4>1. PositionsAfter(m)[p] = positions[p] /\ Effect(b, m).positions[p] = b.positions[p]
        BY <2>2, <2>3, <2>4, <2>5, <3>2
      <4>2. Filled(positions)[p] = OpenPositions(b)[p]
        OBVIOUS
      <4> QED BY <4>1, <4>2 DEF Filled, OpenPositions
    <3> QED BY <3>1, <3>2
  <2> QED BY <2>7 DEF Filled, OpenPositions
<1> QED BY <1>2, <1>3

\* What a reconcile answer brings has a volume: all of it is shown as open.
LEMMA SnapshotFilled ==
  ASSUME NEW b \in Book
  PROVE  Filled(OpenPositions(b)) = OpenPositions(b)
BY DEF Filled, OpenPositions, Book, PositionRow, Volumes

LEMMA InitMirror == Init => MirrorInv
BY DEF Init, BrokerInit, MirrorInv, StreamTellsBooks, TablesMirrorBook, Synced

LEMMA NextMirror == TypeOK /\ TypeOK' /\ MirrorInv /\ [Next]_vars => MirrorInv'
<1> SUFFICES ASSUME TypeOK, TypeOK', MirrorInv, [Next]_vars PROVE MirrorInv'
  OBVIOUS
<1> USE DEF MirrorInv
<1>1. /\ rcvd \in 0 .. Len(stream) /\ Len(books) = Len(stream) + 1
      /\ books \in Seq(Book) /\ stream \in Seq(Message)
  BY DEF TypeOK, BrokerTypeOK
<1>2. ASSUME UNCHANGED brokerVars PROVE StreamTellsBooks'
  BY <1>2 DEF StreamTellsBooks, brokerVars, Effect, Snapshot, WorkingOrders, OpenPositions
<1>3. ASSUME HasNext
      PROVE  /\ Incoming \in Message
             /\ books[rcvd + 1] \in Book
             /\ books[rcvd + 2] = Effect(books[rcvd + 1], Incoming)
             /\ Snapshot(books[rcvd + 1], Incoming)
  <2>1. rcvd + 1 \in DOMAIN stream /\ rcvd + 1 \in DOMAIN books
    BY <1>1, <1>3 DEF HasNext
  <2>2. (rcvd + 1) + 1 = rcvd + 2
    BY <1>1
  <2> QED BY <1>1, <2>1, <2>2 DEF StreamTellsBooks, Incoming
\* A step that leaves the tables where they are.
<1>10. ASSUME UNCHANGED <<brokerVars, PositionsAt, OrdersAt, positions, orders>>, Synced' => Synced
       PROVE  MirrorInv'
  BY <1>2, <1>10 DEF TablesMirrorBook, Filled, brokerVars, WorkingOrders, OpenPositions
<1>e. CASE HandleExecution
  <2>1. PositionsAt' = PositionsAt /\ OrdersAt' = OrdersAt
    BY <1>1, <1>e DEF HandleExecution, HasNext, PositionsAt, OrdersAt
  <2> QED BY <1>10, <1>e, <2>1 DEF HandleExecution, Synced
\* The message being applied leads from the entry before it to its own.
<1>a. ASSUME applying # "nothing"
      PROVE  /\ Latest \in ExecutionEvent /\ rcvd \in 1 .. Len(stream)
             /\ books[rcvd] \in Book /\ books[rcvd + 1] = Effect(books[rcvd], Latest)
  <2>1. Latest \in ExecutionEvent /\ rcvd \in 1 .. Len(stream)
    BY <1>a, LatestType
  <2> QED BY <1>1, <2>1 DEF StreamTellsBooks, Latest
<1>b. CASE ApplyPosition
  <2>1. /\ PositionsAt = rcvd /\ PositionsAt' = rcvd + 1
        /\ OrdersAt = rcvd /\ OrdersAt' = rcvd
        /\ UNCHANGED brokerVars /\ Synced' = Synced
    BY <1>b DEF ApplyPosition, PositionsAt, OrdersAt, Synced
  <2>2. ASSUME Synced
        PROVE  Filled(PositionsAfter(Latest)) = OpenPositions(books[rcvd + 1])
    BY <1>a, <1>b, <2>1, <2>2, PositionsMirror DEF ApplyPosition, TablesMirrorBook
  <2>3. TablesMirrorBook'
    BY <1>b, <2>1, <2>2 DEF ApplyPosition, TablesMirrorBook, Filled, brokerVars, WorkingOrders, OpenPositions
  <2> QED BY <1>2, <2>1, <2>3
<1>c. CASE ApplyOrder
  <2>1. /\ PositionsAt = rcvd + 1 /\ PositionsAt' = rcvd + 1
        /\ OrdersAt = rcvd /\ OrdersAt' = rcvd + 1
        /\ UNCHANGED brokerVars /\ Synced' = Synced
    BY <1>c DEF ApplyOrder, PositionsAt, OrdersAt, Synced
  <2>2. ASSUME Synced
        PROVE  OrdersAfter(Latest) = WorkingOrders(books[rcvd + 1])
    BY <1>a, <1>c, <2>1, <2>2, OrdersMirror DEF ApplyOrder, TablesMirrorBook
  <2>3. TablesMirrorBook'
    BY <1>c, <2>1, <2>2 DEF ApplyOrder, TablesMirrorBook, Filled, brokerVars, WorkingOrders, OpenPositions
  <2> QED BY <1>2, <2>1, <2>3
<1>5. ASSUME HasNext, Incoming.type # "execution", rcvd' = rcvd + 1,
             UNCHANGED <<brokerVars, applying, positions, orders>>, Synced' => Synced
      PROVE  MirrorInv'
  <2>1. books[rcvd + 2] = books[rcvd + 1]
    BY <1>3, <1>5 DEF Effect
  <2>2. /\ PositionsAt = rcvd + 1 /\ OrdersAt = rcvd + 1
        /\ PositionsAt' = rcvd + 2 /\ OrdersAt' = rcvd + 2
    BY <1>1, <1>5 DEF HasNext, PositionsAt, OrdersAt
  <2>3. TablesMirrorBook'
    BY <1>5, <2>1, <2>2 DEF TablesMirrorBook, Filled, brokerVars, WorkingOrders, OpenPositions
  <2> QED BY <1>2, <1>5, <2>3
<1>6. CASE HandleOrderError
  BY <1>5, <1>6 DEF HandleOrderError, Synced
<1>7. CASE HandleOther
  BY <1>5, <1>7 DEF HandleOther, Synced
<1>8. CASE ReplyFails
  BY <1>5, <1>8 DEF ReplyFails, Synced, HasNext, Reading
<1>9. CASE HandleReconcile
  <2>1. /\ orders' = WorkingOrders(books[rcvd + 1])
        /\ positions' = OpenPositions(books[rcvd + 1])
        /\ books[rcvd + 2] = books[rcvd + 1]
        /\ books[rcvd + 1] \in Book
    BY <1>3, <1>9 DEF HandleReconcile, Snapshot, Effect
  <2>2. PositionsAt' = rcvd + 2 /\ OrdersAt' = rcvd + 2 /\ UNCHANGED brokerVars
    BY <1>1, <1>9 DEF HandleReconcile, HasNext, PositionsAt, OrdersAt
  <2>3. Filled(positions') = OpenPositions(books[rcvd + 2])
    BY <2>1, SnapshotFilled
  <2>4. TablesMirrorBook'
    BY <2>1, <2>2, <2>3 DEF TablesMirrorBook, Filled, brokerVars, WorkingOrders, OpenPositions
  <2> QED BY <1>2, <2>2, <2>4
<1>d. CASE HandleHollowReconcile
  BY <1>2, <1>d DEF HandleHollowReconcile, TablesMirrorBook, Synced
<1>f. ASSUME UNCHANGED <<rcvd, applying>> PROVE UNCHANGED <<PositionsAt, OrdersAt>>
  BY <1>f DEF PositionsAt, OrdersAt
<1>11. CASE ConnectionLost
  BY <1>10, <1>11, <1>f DEF ConnectionLost, Synced
<1>12. CASE RequestReconcile
  BY <1>10, <1>12, <1>f DEF RequestReconcile, Synced
<1>13. CASE StartLoop
  BY <1>10, <1>13, <1>f DEF StartLoop, Synced
<1>14. CASE UNCHANGED vars
  BY <1>10, <1>14, <1>f DEF vars, botVars, Synced
<1>15. ASSUME \E m \in Message : Published(m),
              UNCHANGED <<rcvd, applying, positions, orders>>, Synced' => Synced
       PROVE  MirrorInv'
  <2>1. /\ StreamTellsBooks'
        /\ \A i \in 1 .. Len(books) : books'[i] = books[i]
    BY <1>15, PublishExtends DEF TypeOK
  <2>2. PositionsAt \in 1 .. Len(books) /\ OrdersAt \in 1 .. Len(books)
    BY <1>1, LatestType DEF PositionsAt, OrdersAt
  <2>3. books'[PositionsAt'] = books[PositionsAt] /\ books'[OrdersAt'] = books[OrdersAt]
    BY <1>15, <1>f, <2>1, <2>2
  <2>4. TablesMirrorBook'
    BY <1>15, <2>3 DEF TablesMirrorBook, Filled, WorkingOrders, OpenPositions
  <2> QED BY <2>1, <2>4
<1>16. CASE BrokerTrades
  BY <1>15, <1>16, TradingPublishes DEF BrokerTrades, TypeOK, botVars, Synced
<1>17. CASE BrokerAnswers \/ BrokerRefuses
  BY <1>15, <1>17, AnswerPublishes DEF BrokerAnswers, BrokerRefuses, TypeOK, Synced
<1> QED BY <1>e, <1>b, <1>c, <1>d, <1>6, <1>7, <1>8, <1>9, <1>11, <1>12, <1>13, <1>14, <1>16, <1>17
    DEF Next, Receive

\* initial_reconcile and apply_execution together keep each table that of the account,
\* as of the messages it has taken in, whatever arrives before, during and after the
\* handshake.
THEOREM MirrorCorrect == Spec => []TablesMirrorBook
<1>1. TypeOK /\ MirrorInv /\ [Next]_vars => (TypeOK /\ MirrorInv)'
  BY NextType, NextMirror
<1>2. Init => TypeOK /\ MirrorInv
  BY InitType, InitMirror
<1>3. MirrorInv => TablesMirrorBook
  BY DEF MirrorInv
<1> QED BY <1>1, <1>2, <1>3, PTL DEF Spec

-----------------------------------------------------------------------------
(* Refinement: AccountSync implements MirroredBook. *)

LEMMA InitRefines == Init => Mirror!MirrorInit
<1> SUFFICES ASSUME Init PROVE Mirror!MirrorInit
  OBVIOUS
<1>1. TypeOK
  BY InitType
<1>2. Len(books) = 1 /\ books = <<books[1]>>
  BY DEF Init, BrokerInit
<1>3. books[1] \in Book
  BY <1>1, <1>2 DEF TypeOK, BrokerTypeOK
<1> QED BY <1>2, <1>3 DEF Init, Mirror!MirrorInit, ServedView, PositionsAt, OrdersAt, Synced

LEMMA StepRefines ==
  TypeOK /\ TypeOK' /\ MirrorInv /\ MirrorInv' /\ [Next]_vars
    => [Mirror!MirrorNext]_(Mirror!mirrorVars)
<1> SUFFICES ASSUME TypeOK, TypeOK', MirrorInv, MirrorInv', [Next]_vars
             PROVE  Mirror!MirrorNext \/ UNCHANGED Mirror!mirrorVars
  OBVIOUS
<1> DEFINE Serving == Synced /\ phase # "loading"
<1>1. /\ rcvd \in 0 .. Len(stream) /\ Len(books) = Len(stream) + 1
      /\ rcvd' \in 0 .. Len(stream') /\ Len(books') = Len(stream') + 1
      /\ books \in Seq(Book) /\ books' \in Seq(Book)
  BY DEF TypeOK, BrokerTypeOK
<1>2. Serving => ServedView = Mirror!View(books, PositionsAt, OrdersAt)
  BY DEF MirrorInv, TablesMirrorBook, ServedView, Mirror!View
<1>3. Serving' => ServedView' = Mirror!View(books', PositionsAt', OrdersAt')
  BY DEF MirrorInv, TablesMirrorBook, Synced, ServedView, Mirror!View,
         WorkingOrders, OpenPositions, Filled
<1>i. PositionsAt \in 1 .. Len(books) /\ OrdersAt \in 1 .. Len(books)
  BY <1>1, LatestType DEF PositionsAt, OrdersAt
<1>4. Serving => ServedView # Absent
  <2>1. Mirror!View(books, PositionsAt, OrdersAt) \in
          [orders : [OrderId -> OrderRow \cup {Absent}],
           positions : [PositionId -> [volume : Nat] \cup {Absent}]]
    <3>1. books[PositionsAt] \in Book /\ books[OrdersAt] \in Book
      BY <1>1, <1>i
    <3>2. WorkingOrders(books[OrdersAt]) \in [OrderId -> OrderRow \cup {Absent}]
      BY <3>1 DEF WorkingOrders, Book
    <3>3. OpenPositions(books[PositionsAt]) \in [PositionId -> [volume : Nat] \cup {Absent}]
      BY <3>1 DEF OpenPositions, Book, PositionRow, Volumes
    <3> QED BY <3>2, <3>3 DEF Mirror!View
  <2> QED BY <1>2, <2>1
<1>5. ~Serving => ServedView = Absent
  BY DEF ServedView
<1>6. ~Serving' => ServedView' = Absent
  BY DEF ServedView, Synced
<1> HIDE DEF Serving
\* A table takes in the next message, or both do: seen by clients once there are any.
<1>7. ASSUME UNCHANGED books, Serving' <=> Serving,
             PositionsAt' \in {PositionsAt, PositionsAt + 1}, PositionsAt' <= Len(books),
             OrdersAt' \in {OrdersAt, OrdersAt + 1},
             OrdersAt' \in {PositionsAt', PositionsAt' - 1}
      PROVE  Mirror!Advance
  <2>1. CASE Serving
    BY <1>3, <1>4, <1>7, <2>1 DEF Mirror!Advance
  <2>2. CASE ~Serving
    BY <1>5, <1>6, <1>7, <2>2 DEF Mirror!Advance
  <2> QED BY <2>1, <2>2
<1>8. ASSUME HasNext, rcvd' = rcvd + 1, UNCHANGED <<books, applying>>, Serving' <=> Serving
      PROVE  Mirror!MirrorNext
  <2>1. /\ PositionsAt' = PositionsAt + 1 /\ OrdersAt' = OrdersAt + 1
        /\ PositionsAt' = OrdersAt' /\ PositionsAt' <= Len(books)
    BY <1>1, <1>8 DEF HasNext, PositionsAt, OrdersAt
  <2> QED BY <1>7, <1>8, <2>1 DEF Mirror!MirrorNext
\* A step that changes nothing clients see.
<1>13. ASSUME UNCHANGED <<books, positions, orders, PositionsAt, OrdersAt>>, Serving' <=> Serving
       PROVE  UNCHANGED Mirror!mirrorVars
  <2>1. ServedView' = ServedView
    <3>1. CASE Serving
      BY <1>2, <1>3, <1>13, <3>1
    <3>2. CASE ~Serving
      BY <1>5, <1>6, <1>13, <3>2
    <3> QED BY <3>1, <3>2
  <2> QED BY <1>13, <2>1 DEF Mirror!mirrorVars
<1>f. ASSUME UNCHANGED <<rcvd, applying>> PROVE UNCHANGED <<PositionsAt, OrdersAt>>
  BY <1>f DEF PositionsAt, OrdersAt
<1>9. CASE HandleExecution
  <2>1. PositionsAt' = PositionsAt /\ OrdersAt' = OrdersAt
    BY <1>1, <1>9 DEF HandleExecution, HasNext, PositionsAt, OrdersAt
  <2> QED BY <1>9, <1>13, <2>1 DEF HandleExecution, brokerVars, Serving, Synced
<1>a. CASE ApplyPosition
  <2>1. /\ PositionsAt' = PositionsAt + 1 /\ OrdersAt' = OrdersAt
        /\ OrdersAt' = PositionsAt' - 1 /\ PositionsAt' <= Len(books)
    BY <1>1, <1>a DEF ApplyPosition, PositionsAt, OrdersAt
  <2>2. UNCHANGED books /\ (Serving' <=> Serving)
    BY <1>a DEF ApplyPosition, brokerVars, Serving, Synced
  <2> QED BY <1>7, <2>1, <2>2 DEF Mirror!MirrorNext
<1>b. CASE ApplyOrder
  <2>1. /\ PositionsAt' = PositionsAt /\ OrdersAt' = OrdersAt + 1
        /\ OrdersAt' = PositionsAt' /\ PositionsAt' <= Len(books)
    BY <1>1, <1>b DEF ApplyOrder, PositionsAt, OrdersAt
  <2>2. UNCHANGED books /\ (Serving' <=> Serving)
    BY <1>b DEF ApplyOrder, brokerVars, Serving, Synced
  <2> QED BY <1>7, <2>1, <2>2 DEF Mirror!MirrorNext
<1>10. CASE HandleOrderError \/ HandleOther
  BY <1>8, <1>10 DEF HandleOrderError, HandleOther, brokerVars, Serving, Synced
<1>11. CASE HandleReconcile \/ HandleHollowReconcile
  <2>1. ~Serving /\ ~Serving'
    BY <1>11 DEF HandleReconcile, HandleHollowReconcile, Serving, Synced
  <2> QED BY <1>8, <1>11, <2>1 DEF HandleReconcile, HandleHollowReconcile, brokerVars
<1>12. CASE ReplyFails
  <2>1. Serving' <=> Serving
    BY <1>12 DEF ReplyFails, HasNext, Reading, Serving, Synced
  <2> QED BY <1>8, <1>12, <2>1 DEF ReplyFails, brokerVars
<1>14. CASE ConnectionLost
  BY <1>13, <1>14, <1>f DEF ConnectionLost, Reading, Serving, Synced, brokerVars
<1>15. CASE RequestReconcile
  BY <1>13, <1>15, <1>f DEF RequestReconcile, Serving, Synced, brokerVars
<1>16. CASE UNCHANGED vars
  BY <1>13, <1>16, <1>f DEF vars, botVars, Serving, Synced, brokerVars
<1>17. CASE StartLoop
  <2>1. /\ books' = books /\ PositionsAt' = PositionsAt /\ OrdersAt' = OrdersAt
        /\ PositionsAt = OrdersAt /\ ~Serving
    BY <1>17, <1>f DEF StartLoop, brokerVars, PositionsAt, OrdersAt, Serving
  <2>2. CASE Serving'
    BY <1>3, <1>5, <2>1, <2>2 DEF Mirror!MirrorNext, Mirror!Serve
  <2>3. CASE ~Serving'
    BY <1>13, <1>17, <2>1, <2>3 DEF StartLoop
  <2> QED BY <2>2, <2>3
<1>18. ASSUME \E m \in Message : Published(m),
              UNCHANGED <<rcvd, applying, positions, orders>>, Serving' <=> Serving
       PROVE  Mirror!MirrorNext
  <2>1. PICK m \in Message : books' = Append(books, Effect(CurrentBook, m))
    BY <1>18 DEF Published, Publish
  <2>2. Len(books') = Len(books) + 1 /\ books'[Len(books')] = Effect(CurrentBook, m)
    BY <1>1, <2>1
  <2>3. books'[Len(books')] \in Book
    BY <1>1, <2>2
  <2>4. \A i \in 1 .. Len(books) : books'[i] = books[i]
    BY <1>1, <2>1
  <2>5. UNCHANGED <<PositionsAt, OrdersAt>>
    BY <1>18, <1>f
  <2>6. Mirror!View(books', PositionsAt', OrdersAt') = Mirror!View(books, PositionsAt, OrdersAt)
    BY <1>i, <2>4, <2>5 DEF Mirror!View, WorkingOrders, OpenPositions
  <2>7. ServedView' = ServedView
    <3>1. CASE Serving
      BY <1>2, <1>3, <1>18, <2>6, <3>1
    <3>2. CASE ~Serving
      BY <1>5, <1>6, <1>18, <3>2
    <3> QED BY <3>1, <3>2
  <2> QED BY <2>1, <2>2, <2>3, <2>5, <2>7 DEF Mirror!Evolve, Mirror!MirrorNext
<1>19. CASE BrokerTrades
  BY <1>18, <1>19, TradingPublishes DEF BrokerTrades, TypeOK, botVars, Serving, Synced
<1>20. CASE BrokerAnswers \/ BrokerRefuses
  BY <1>18, <1>20, AnswerPublishes DEF BrokerAnswers, BrokerRefuses, TypeOK, Serving, Synced
<1> QED BY <1>9, <1>a, <1>b, <1>10, <1>11, <1>12, <1>14, <1>15, <1>16, <1>17, <1>19, <1>20
    DEF Next, Receive

\* Clients of the API see each table move through the account's history entry by entry,
\* none skipped and none undone, the orders at most one entry behind the positions.
THEOREM Refinement == Spec => ImplementsMirroredBook
<1>1. TypeOK /\ MirrorInv /\ [Next]_vars
        => (TypeOK /\ MirrorInv)' /\ [Mirror!MirrorNext]_(Mirror!mirrorVars)
  BY NextType, NextMirror, StepRefines
<1>2. Init => TypeOK /\ MirrorInv /\ Mirror!MirrorInit
  BY InitType, InitMirror, InitRefines
<1> QED BY <1>1, <1>2, PTL DEF Spec, ImplementsMirroredBook, Mirror!MirrorSpec

-----------------------------------------------------------------------------
(* The frames.  A step sends two frames at most, so the fold over them is   *)
(* unrolled by exhibiting the function it is defined by.                    *)

LEMMA FramesApplied ==
  ASSUME NEW view, NEW fs, Len(fs) \in 0 .. 2
  PROVE  AppliedFrames(view, fs) =
           IF Len(fs) = 0 THEN view
           ELSE IF Len(fs) = 1 THEN ApplyFrame(view, fs[1])
           ELSE ApplyFrame(ApplyFrame(view, fs[1]), fs[2])
<1> DEFINE Step(g) == [n \in 0 .. Len(fs) |-> IF n = 0 THEN view ELSE ApplyFrame(g[n - 1], fs[n])]
           after == CHOOSE g : g = Step(g)
           one == ApplyFrame(view, fs[1])
           h == [n \in 0 .. Len(fs) |-> IF n = 0 THEN view ELSE IF n = 1 THEN one
                                        ELSE ApplyFrame(one, fs[2])]
<1>1. h = Step(h)
  <2>1. ASSUME NEW n \in 0 .. Len(fs) PROVE h[n] = Step(h)[n]
    <3>1. CASE n = 0
      BY <3>1
    <3>2. CASE n = 1
      <4>1. h[0] = view /\ h[1] = one
        BY <3>2
      <4> QED BY <3>2, <4>1
    <3>3. CASE n = 2
      <4>1. h[1] = one /\ h[2] = ApplyFrame(one, fs[2])
        BY <3>3
      <4> QED BY <3>3, <4>1
    <3> QED BY <3>1, <3>2, <3>3
  <2> QED BY <2>1
<1>2. AppliedFrames(view, fs) = after[Len(fs)]
  BY DEF AppliedFrames
<1> HIDE DEF Step
<1>3. after = Step(after)
  BY <1>1
<1> HIDE DEF after
<1>4. ASSUME NEW n \in 0 .. Len(fs)
      PROVE  after[n] = IF n = 0 THEN view ELSE ApplyFrame(after[n - 1], fs[n])
  <2>1. Step(after)[n] = IF n = 0 THEN view ELSE ApplyFrame(after[n - 1], fs[n])
    BY DEF Step
  <2> QED BY <1>3, <2>1
<1>5. CASE Len(fs) = 0
  BY <1>2, <1>4, <1>5
<1>6. CASE Len(fs) = 1
  BY <1>2, <1>4, <1>6
<1>7. CASE Len(fs) = 2
  BY <1>2, <1>4, <1>7
<1> QED BY <1>5, <1>6, <1>7

LEMMA SentIsSuffix ==
  ASSUME NEW fs \in Seq(Frame), frames \in Seq(Frame), frames' = frames \o fs
  PROVE  FramesSent = fs
<1>1. /\ Len(frames') = Len(frames) + Len(fs)
      /\ \A i \in 1 .. Len(fs) : frames'[Len(frames) + i] = fs[i]
      /\ frames' \in Seq(Frame)
  OBVIOUS
<1>2. /\ FramesSent \in Seq(Frame) /\ Len(FramesSent) = Len(fs)
      /\ \A i \in 1 .. Len(fs) : FramesSent[i] = frames'[Len(frames) + i]
  BY <1>1 DEF FramesSent
<1> QED BY <1>1, <1>2, SeqEqual

\* What a client makes of the order table.
OrdersShown(table) ==
  [o \in OrderId |-> IF table[o] = Absent THEN Absent ELSE [volume |-> table[o].volume]]

LEMMA PositionTold ==
  ASSUME TypeOK, NEW m \in ExecutionEvent, m.position # Absent, NEW os
  PROVE  /\ PositionFrames(m) \in Seq(Frame) /\ Len(PositionFrames(m)) = 1
         /\ ApplyFrame([positions |-> positions, orders |-> os], PositionFrames(m)[1])
              = [positions |-> PositionsAfter(m), orders |-> os]
<1>1. positions \in [PositionId -> ShownPosition \cup {Absent}]
  BY DEF TypeOK
<1>2. PositionFrames(m) \in Seq(Frame)
  BY ExecutionType
<1>3. CASE Closed(m)
  BY <1>1, <1>2, <1>3 DEF PositionFrames, ApplyFrame, PositionsAfter
<1>4. CASE ~Closed(m)
  BY <1>1, <1>2, <1>4 DEF PositionFrames, ApplyFrame, PositionsAfter
<1> QED BY <1>3, <1>4

\* An order row leaves the table exactly when it is shown as no longer pending.
LEMMA TerminalShown ==
  ASSUME NEW s \in OrderStatuses
  PROVE  OrderStatus(s) = "pending" <=> ~Terminal(s)
BY DEF OrderStatuses, OrderStatus, Terminal

LEMMA OrderTold ==
  ASSUME TypeOK, NEW m \in ExecutionEvent, m.order # Absent, NEW ps
  PROVE  /\ OrderFrames(m) \in Seq(Frame) /\ Len(OrderFrames(m)) = 2
         /\ ApplyFrame(ApplyFrame([positions |-> ps, orders |-> OrdersShown(orders)],
                                  OrderFrames(m)[1]), OrderFrames(m)[2])
              = [positions |-> ps, orders |-> OrdersShown(OrdersAfter(m))]
<1> DEFINE o == m.order.id
           row == m.order.row
           s == OrderStatus(row.status)
           view == [positions |-> ps, orders |-> OrdersShown(orders)]
           update == [kind |-> "order_update", id |-> o, status |-> s, volume |-> row.volume]
           execution == [kind |-> "execution", id |-> o, status |-> s]
<1>1. /\ orders \in [OrderId -> OrderRow \cup {Absent}]
      /\ o \in OrderId /\ row \in OrderRow /\ row # Absent /\ row.status \in OrderStatuses
  BY DEF TypeOK, ExecutionEvent, OrderPart, OrderRow
<1>2. OrderFrames(m) = <<update, execution>> /\ OrderFrames(m) \in Seq(Frame)
  BY ExecutionType DEF OrderFrames
<1>3. s = "pending" <=> ~Terminal(row.status)
  BY <1>1, TerminalShown
<1>4. OrdersAfter(m) = [orders EXCEPT ![o] = IF Terminal(row.status) THEN Absent ELSE row]
  BY DEF OrdersAfter
<1> HIDE DEF s, row, o
<1>5. OrdersShown(OrdersAfter(m)) =
        [OrdersShown(orders) EXCEPT ![o] = IF s = "pending" THEN [volume |-> row.volume] ELSE Absent]
  BY <1>1, <1>3, <1>4 DEF OrdersShown
<1>6. ApplyFrame(view, update) = [positions |-> ps, orders |-> OrdersShown(OrdersAfter(m))]
  BY <1>5 DEF ApplyFrame
<1>7. ApplyFrame(ApplyFrame(view, update), execution) = ApplyFrame(view, update)
  BY DEF ApplyFrame
<1> QED BY <1>2, <1>6, <1>7

LEMMA PositionStepTold ==
  ASSUME TypeOK, ApplyPosition
  PROVE  AppliedFrames(ClientView, FramesSent) = ClientView'
<1> DEFINE m == Latest
           pf == PositionFrames(m)
<1>1. m \in ExecutionEvent
  BY LatestType DEF ApplyPosition
<1>2. pf \in Seq(Frame) /\ frames \in Seq(Frame) /\ frames' = frames \o pf
  BY <1>1, ExecutionType DEF ApplyPosition, TypeOK
<1>3. /\ ClientView = [positions |-> positions, orders |-> OrdersShown(orders)]
      /\ ClientView' = [positions |-> PositionsAfter(m), orders |-> OrdersShown(orders)]
  BY DEF ClientView, OrdersShown, ApplyPosition
<1>4. FramesSent = pf
  BY <1>2, SentIsSuffix
<1>5. CASE m.position = Absent
  <2>1. pf = << >> /\ PositionsAfter(m) = positions
    BY <1>5 DEF PositionFrames, PositionsAfter
  <2> QED BY <1>3, <1>4, <2>1, FramesApplied
<1>6. CASE m.position # Absent
  <2>1. /\ Len(pf) = 1
        /\ ApplyFrame([positions |-> positions, orders |-> OrdersShown(orders)], pf[1])
             = [positions |-> PositionsAfter(m), orders |-> OrdersShown(orders)]
    BY <1>1, <1>6, PositionTold
  <2> HIDE DEF m, pf
  <2> QED BY <1>3, <1>4, <2>1, FramesApplied
<1> QED BY <1>5, <1>6

LEMMA OrderStepTold ==
  ASSUME TypeOK, ApplyOrder
  PROVE  AppliedFrames(ClientView, FramesSent) = ClientView'
<1> DEFINE m == Latest
           of == OrderFrames(m)
<1>1. m \in ExecutionEvent
  BY LatestType DEF ApplyOrder
<1>2. of \in Seq(Frame) /\ frames \in Seq(Frame) /\ frames' = frames \o of
  BY <1>1, ExecutionType DEF ApplyOrder, TypeOK
<1>3. /\ ClientView = [positions |-> positions, orders |-> OrdersShown(orders)]
      /\ ClientView' = [positions |-> positions, orders |-> OrdersShown(OrdersAfter(m))]
  BY DEF ClientView, OrdersShown, ApplyOrder
<1>4. FramesSent = of
  BY <1>2, SentIsSuffix
<1>5. CASE m.order = Absent
  <2>1. of = << >> /\ OrdersAfter(m) = orders
    BY <1>5 DEF OrderFrames, OrdersAfter
  <2> QED BY <1>3, <1>4, <2>1, FramesApplied
<1>6. CASE m.order # Absent
  <2>1. /\ Len(of) = 2
        /\ ApplyFrame(ApplyFrame([positions |-> positions, orders |-> OrdersShown(orders)],
                                 of[1]), of[2])
             = [positions |-> positions, orders |-> OrdersShown(OrdersAfter(m))]
    BY <1>1, <1>6, OrderTold
  <2> HIDE DEF m, of
  <2> QED BY <1>3, <1>4, <2>1, FramesApplied
<1> QED BY <1>5, <1>6

\* The other steps of the running loop send a frame that is about no row, or none.
LEMMA OthersTold ==
  ASSUME TypeOK, UNCHANGED <<positions, orders>>,
         frames' = frames \/ \E f \in Frame : /\ f.kind \in {"status", "execution"}
                                              /\ frames' = Append(frames, f)
  PROVE  AppliedFrames(ClientView, FramesSent) = ClientView'
<1>1. frames \in Seq(Frame)
  BY DEF TypeOK
<1>2. ClientView' = ClientView
  BY DEF ClientView
<1>3. CASE frames' = frames
  <2>1. frames \o << >> = frames
    BY <1>1, ConcatEmptySeq
  <2>2. frames' = frames \o << >>
    BY <1>3, <2>1
  <2>3. << >> \in Seq(Frame)
    OBVIOUS
  <2>4. FramesSent = << >>
    BY <1>1, <2>2, <2>3, SentIsSuffix
  <2> QED BY <1>2, <2>4, FramesApplied
<1>4. ASSUME NEW f \in Frame, f.kind \in {"status", "execution"}, frames' = Append(frames, f)
      PROVE  AppliedFrames(ClientView, FramesSent) = ClientView'
  <2>1. <<f>> \in Seq(Frame) /\ frames' = frames \o <<f>>
    BY <1>1, <1>4, AppendIsConcat
  <2>2. FramesSent = <<f>>
    BY <1>1, <2>1, SentIsSuffix
  <2>3. ApplyFrame(ClientView, f) = ClientView
    BY <1>4 DEF ApplyFrame
  <2>4. Len(<<f>>) = 1 /\ <<f>>[1] = f
    OBVIOUS
  <2> QED BY <1>2, <2>2, <2>3, <2>4, FramesApplied
<1> QED BY <1>3, <1>4

LEMMA NextTold ==
  TypeOK /\ [Next]_vars
    => (phase = "running" => AppliedFrames(ClientView, FramesSent) = ClientView')
<1> SUFFICES ASSUME TypeOK, [Next]_vars, phase = "running"
             PROVE  AppliedFrames(ClientView, FramesSent) = ClientView'
  OBVIOUS
<1>1. CASE ApplyPosition
  BY <1>1, PositionStepTold
<1>a. CASE ApplyOrder
  BY <1>a, OrderStepTold
<1>2. CASE HandleOrderError
  <2>1. Incoming.id \in OrderId
    BY <1>2, IncomingType DEF HandleOrderError, Message, ReconcileRes, OtherMessage, ExecutionEvent
  <2>2. [kind |-> "execution", id |-> Incoming.id, status |-> "rejected"] \in Frame
    BY <2>1 DEF Frame, DtoStatuses
  <2> QED BY <1>2, <2>2, OthersTold DEF HandleOrderError
<1>3. CASE HandleExecution \/ HandleOther \/ ReplyFails
  BY <1>3, OthersTold DEF HandleExecution, HandleOther, ReplyFails
<1>4. CASE ConnectionLost
  <2>1. [kind |-> "status", connection |-> "disconnected"] \in Frame
    BY DEF Frame
  <2> QED BY <1>4, <2>1, OthersTold DEF ConnectionLost
<1>5. CASE HandleReconcile \/ HandleHollowReconcile \/ RequestReconcile \/ StartLoop
  BY <1>5 DEF HandleReconcile, HandleHollowReconcile, RequestReconcile, StartLoop
<1>6. CASE BrokerTrades \/ BrokerAnswers \/ BrokerRefuses
  BY <1>6, OthersTold DEF BrokerTrades, BrokerAnswers, BrokerRefuses, botVars
<1>7. CASE UNCHANGED vars
  BY <1>7, OthersTold DEF vars, botVars
<1> QED BY <1>1, <1>a, <1>2, <1>3, <1>4, <1>5, <1>6, <1>7 DEF Next, Receive

\* Whatever one step does to the tables, the frames sent with it tell: a client
\* that held the tables before and applies them holds the tables after, for any
\* number of orders and positions and any volumes.
THEOREM FramesCorrect == Spec => FramesTellTables
BY InitType, NextType, NextTold, PTL DEF Spec, FramesTellTables

-----------------------------------------------------------------------------
(* The trade history.  The property is inductive, given the types: a        *)
(* closing taken in makes every earlier one older by one, and the eviction  *)
(* moves it down by one.                                                    *)

LEMMA ClosingsFinite ==
  ASSUME TypeOK
  PROVE  /\ IsFiniteSet(Closings) /\ Cardinality(Closings) \in Nat /\ Closings \subseteq 1 .. rcvd
         /\ rcvd \in Nat
         /\ \A n \in Closings : /\ IsFiniteSet({k \in Closings : k > n})
                                /\ ClosedSince(n) \in Nat
<1>1. rcvd \in Nat
  BY DEF TypeOK, BrokerTypeOK
<1>2. IsFiniteSet(1 .. rcvd)
  BY <1>1, FS_Interval
<1>3. Closings \subseteq 1 .. rcvd
  BY DEF Closings
<1>4. IsFiniteSet(Closings)
  BY <1>2, <1>3, FS_Subset
<1>5. \A n \in Closings : IsFiniteSet({k \in Closings : k > n})
  BY <1>4, FS_Subset
<1> QED BY <1>1, <1>3, <1>4, <1>5, FS_CardinalityType DEF ClosedSince

\* A step that takes in no closing leaves what was recorded.
LEMMA NothingClosed ==
  ASSUME TradesAreNewestClosings, trades' = trades, Closings' = Closings,
         \A n \in Closings : stream'[n] = stream[n]
  PROVE  TradesAreNewestClosings'
<1>1. \A n : ClosedSince(n)' = ClosedSince(n)
  BY DEF ClosedSince
<1> QED BY <1>1 DEF TradesAreNewestClosings

LEMMA SomethingClosed ==
  ASSUME TypeOK, TradesAreNewestClosings, HandleExecution, FullClosing(Incoming)
  PROVE  TradesAreNewestClosings'
<1>0. PICK r : r = rcvd + 1
  OBVIOUS
<1> DEFINE C == Closings
           D == Closings'
           since(n) == {k \in C : k > n}
           after(n) == {k \in D : k > n}
           trade == [id |-> Incoming.closing.deal_id, position_id |-> Incoming.position.id,
                     volume |-> Incoming.closing.volume]
           kept == IF Len(trades) >= TradesCapacity THEN Tail(trades) ELSE trades
<1>1. /\ rcvd' = r /\ stream' = stream /\ stream[r] = Incoming /\ trades' = TradesAfter(Incoming)
      /\ trades \in Seq(Trade)
  BY <1>0 DEF HandleExecution, Incoming, brokerVars, TypeOK
<1>2. /\ IsFiniteSet(C) /\ Cardinality(C) \in Nat /\ C \subseteq 1 .. rcvd /\ rcvd \in Nat
      /\ \A n \in C : IsFiniteSet(since(n)) /\ ClosedSince(n) \in Nat
  BY ClosingsFinite
<1>3. D = C \cup {r} /\ r \notin C
  <2>1. 1 .. rcvd' = 1 .. rcvd \cup {r}
    BY <1>0, <1>1, <1>2
  <2>2. FullClosing(stream[r]) /\ \A n : FullClosing(stream'[n]) = FullClosing(stream[n])
    BY <1>1 DEF FullClosing, Closed
  <2>3. D = {n \in 1 .. rcvd' : FullClosing(stream[n])}
    BY <1>1 DEF Closings, FullClosing, Closed
  <2> QED BY <1>0, <1>2, <2>1, <2>2, <2>3 DEF Closings
<1>4. Cardinality(D) = Cardinality(C) + 1
  BY <1>2, <1>3, FS_AddElement
<1>5. \A n \in C : ClosedSince(n)' = ClosedSince(n) + 1
  <2> SUFFICES ASSUME NEW n \in C PROVE ClosedSince(n)' = ClosedSince(n) + 1
    OBVIOUS
  <2>1. after(n) = since(n) \cup {r} /\ r \notin since(n)
    BY <1>0, <1>2, <1>3
  <2>2. Cardinality(after(n)) = Cardinality(since(n)) + 1
    BY <1>2, <2>1, FS_AddElement
  <2> QED BY <2>2 DEF ClosedSince
<1>6. ClosedSince(r)' = 0
  <2>1. after(r) = {}
    BY <1>0, <1>2, <1>3
  <2>2. Cardinality(after(r)) = 0
    BY <2>1, FS_EmptySet
  <2> QED BY <2>2 DEF ClosedSince
<1>7. trades' = Append(kept, trade)
  BY <1>1 DEF TradesAfter, FullClosing
<1>8. /\ kept \in Seq(Trade) /\ Len(trades) \in Nat
      /\ Len(kept) = IF Len(trades) >= TradesCapacity THEN Len(trades) - 1 ELSE Len(trades)
      /\ \A i \in 1 .. Len(kept) :
           kept[i] = IF Len(trades) >= TradesCapacity THEN trades[i + 1] ELSE trades[i]
  BY <1>1
<1> HIDE DEF C, D, trade, kept
<1>9. /\ Len(trades') = Len(kept) + 1 /\ trades'[Len(kept) + 1] = trade
      /\ \A i \in 1 .. Len(kept) : trades'[i] = kept[i]
  BY <1>7, <1>8
<1>10. /\ Len(trades) = IF Cardinality(C) > TradesCapacity THEN TradesCapacity ELSE Cardinality(C)
       /\ \A n \in C : ClosedSince(n) < Len(trades) =>
            trades[Len(trades) - ClosedSince(n)].id = stream[n].closing.deal_id
  BY DEF TradesAreNewestClosings, C
<1>11. Len(trades') = IF Cardinality(D) > TradesCapacity THEN TradesCapacity ELSE Cardinality(D)
  BY <1>2, <1>4, <1>8, <1>9, <1>10
<1>12. ASSUME NEW n \in D, ClosedSince(n)' < Len(trades')
       PROVE  trades'[Len(trades') - ClosedSince(n)'].id = stream'[n].closing.deal_id
  <2>1. CASE n = r
    <3>1. trades'[Len(trades') - ClosedSince(n)'] = trade
      BY <1>6, <1>8, <1>9, <2>1
    <3> QED BY <1>1, <2>1, <3>1 DEF trade
  <2>2. CASE n \in C
    <3> DEFINE a == ClosedSince(n)
               i == Len(kept) - a
    <3>1. a \in Nat /\ ClosedSince(n)' = a + 1
      BY <1>2, <1>5, <2>2
    <3> HIDE DEF a
    <3>2. i \in 1 .. Len(kept) /\ Len(trades') - ClosedSince(n)' = i
      BY <1>8, <1>9, <1>12, <3>1
    <3>3. trades'[i] = kept[i]
      BY <1>9, <3>2
    <3>4. CASE Len(trades) >= TradesCapacity
      <4>1. i + 1 = Len(trades) - a /\ kept[i] = trades[i + 1] /\ a < Len(trades)
        BY <1>8, <3>1, <3>2, <3>4
      <4> QED BY <1>1, <1>10, <2>2, <3>2, <3>3, <4>1 DEF a
    <3>5. CASE ~(Len(trades) >= TradesCapacity)
      <4>1. i = Len(trades) - a /\ kept[i] = trades[i] /\ a < Len(trades)
        BY <1>8, <3>1, <3>2, <3>5
      <4> QED BY <1>1, <1>10, <2>2, <3>2, <3>3, <4>1 DEF a
    <3> QED BY <3>4, <3>5
  <2> QED BY <1>3, <2>1, <2>2
<1> QED BY <1>11, <1>12 DEF TradesAreNewestClosings, D

LEMMA InitTrades == Init => TradesAreNewestClosings
<1> SUFFICES ASSUME Init PROVE TradesAreNewestClosings
  OBVIOUS
<1>1. Closings = {} /\ Len(trades) = 0
  BY DEF Init, Closings
<1>2. Cardinality(Closings) = 0
  BY <1>1, FS_EmptySet
<1> QED BY <1>1, <1>2 DEF TradesAreNewestClosings

LEMMA NextTrades == TypeOK /\ TradesAreNewestClosings /\ [Next]_vars => TradesAreNewestClosings'
<1> SUFFICES ASSUME TypeOK, TradesAreNewestClosings, [Next]_vars PROVE TradesAreNewestClosings'
  OBVIOUS
<1>1. Closings \subseteq 1 .. rcvd /\ rcvd \in Nat
  BY ClosingsFinite
\* A message taken in that is no closing, or is not recorded as one.
<1>2. ASSUME HasNext, ~FullClosing(Incoming), rcvd' = rcvd + 1, stream' = stream, trades' = trades
      PROVE  TradesAreNewestClosings'
  <2>1. 1 .. rcvd' = 1 .. rcvd \cup {rcvd + 1}
    BY <1>1, <1>2
  <2>2. Closings' = Closings
    BY <1>1, <1>2, <2>1 DEF Closings, FullClosing, Closed, Incoming
  <2> QED BY <1>2, <2>2, NothingClosed
<1>3. CASE HandleExecution
  <2>1. CASE FullClosing(Incoming)
    BY <1>3, <2>1, SomethingClosed
  <2>2. CASE ~FullClosing(Incoming)
    <3>1. trades' = trades
      BY <1>3, <2>2 DEF HandleExecution, TradesAfter, FullClosing
    <3> QED BY <1>2, <1>3, <2>2, <3>1 DEF HandleExecution, brokerVars
  <2> QED BY <2>1, <2>2
<1>4. CASE HandleOrderError \/ HandleOther \/ HandleReconcile \/ HandleHollowReconcile \/ ReplyFails
  BY <1>2, <1>4
     DEF HandleOrderError, HandleOther, HandleReconcile, HandleHollowReconcile, ReplyFails,
         brokerVars, FullClosing
\* No message is taken in; the stream may get longer.
<1>5. ASSUME UNCHANGED <<rcvd, trades>>, \A n \in 1 .. rcvd : stream'[n] = stream[n]
      PROVE  TradesAreNewestClosings'
  <2>1. Closings' = Closings
    BY <1>5 DEF Closings, FullClosing, Closed
  <2> QED BY <1>1, <1>5, <2>1, NothingClosed
<1>6. CASE ApplyPosition \/ ApplyOrder \/ ConnectionLost \/ RequestReconcile \/ StartLoop \/ UNCHANGED vars
  BY <1>5, <1>6
     DEF ApplyPosition, ApplyOrder, ConnectionLost, RequestReconcile, StartLoop, vars, botVars, brokerVars
<1>7. ASSUME \E m \in Message : Published(m), UNCHANGED <<rcvd, trades>>
      PROVE  TradesAreNewestClosings'
  <2>1. PICK m \in Message : stream' = Append(stream, m)
    BY <1>7 DEF Published, Publish
  <2>2. stream \in Seq(Message) /\ rcvd \in 0 .. Len(stream)
    BY DEF TypeOK, BrokerTypeOK
  <2>3. \A n \in 1 .. rcvd : stream'[n] = stream[n]
    BY <2>1, <2>2
  <2> QED BY <1>5, <1>7, <2>3
<1>8. CASE BrokerTrades
  BY <1>7, <1>8, TradingPublishes DEF BrokerTrades, TypeOK, botVars
<1>9. CASE BrokerAnswers \/ BrokerRefuses
  BY <1>7, <1>9, AnswerPublishes DEF BrokerAnswers, BrokerRefuses, TypeOK
<1> QED BY <1>3, <1>4, <1>6, <1>8, <1>9 DEF Next, Receive

\* append_trade keeps the newest closings: for any capacity, the trade history is the
\* last full closings taken in, in their order, those from before the reconcile
\* included.
THEOREM TradesCorrect == Spec => []TradesAreNewestClosings
<1>1. TypeOK /\ TradesAreNewestClosings /\ [Next]_vars => (TypeOK /\ TradesAreNewestClosings)'
  BY NextType, NextTrades
<1>2. Init => TypeOK /\ TradesAreNewestClosings
  BY InitType, InitTrades
<1> QED BY <1>1, <1>2, PTL DEF Spec
=============================================================================
