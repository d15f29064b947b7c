------------------------------- MODULE Broker -------------------------------
(***************************************************************************)
(* The cTrader server as src/bot sees it: an external component.  Its       *)
(* account book (orders and positions) moves forward one message at a time, *)
(* and every message is appended to the one TCP stream the bot reads.       *)
(*                                                                          *)
(* books[k+1] is the book after the first k messages of stream, so that     *)
(* books is the whole history of the account on this connection.  Ids are   *)
(* never reused, terminal orders and closed positions stay in the book.     *)
(***************************************************************************)
EXTENDS Integers, Sequences

CONSTANTS OrderId, PositionId,   \* the ids the server may hand out
          MaxVolume,             \* bound: volume of an order or a position, in lots
          MaxMessages,           \* bound: messages the server sends on its own
          Absent                 \* no row, no part, no value

Volumes == 1 .. MaxVolume

OrderStatuses == {"ACCEPTED", "FILLED", "REJECTED", "EXPIRED", "CANCELLED"}

OrderRow == [status : OrderStatuses, volume : Volumes]

\* A position is OPEN with a volume, or empty: CREATED for a pending order,
\* CLOSED after its last deal.
PositionRow == [status : {"OPEN"}, volume : Volumes]
                 \cup [status : {"CREATED", "CLOSED"}, volume : {0}]

Book == [orders    : [OrderId -> OrderRow \cup {Absent}],
         positions : [PositionId -> PositionRow \cup {Absent}]]

\* An execution event: optional order, position and closing deal.
OrderPart    == [id : OrderId, row : OrderRow] \cup {Absent}
PositionPart == [id : PositionId, row : PositionRow] \cup {Absent}
ClosingDeal  == [deal_id : Nat, volume : Volumes] \cup {Absent}

ExecutionEvent == [type : {"execution"}, order : OrderPart,
                   position : PositionPart, closing : ClosingDeal]

\* What the book shows to a client: working orders and open positions.
WorkingOrders(book) ==
  [o \in OrderId |-> IF book.orders[o] # Absent /\ book.orders[o].status = "ACCEPTED"
                       THEN book.orders[o] ELSE Absent]

OpenPositions(book) ==
  [p \in PositionId |-> IF book.positions[p] # Absent /\ book.positions[p].status = "OPEN"
                          THEN [volume |-> book.positions[p].volume] ELSE Absent]

ReconcileRes == [type : {"reconcile"},
                 orders : [OrderId -> OrderRow \cup {Absent}],
                 positions : [PositionId -> [volume : Volumes] \cup {Absent}]]

OtherMessage == [type : {"heartbeat", "error", "hollow_reconcile"}]
                  \cup [type : {"order_error"}, id : OrderId]

Message == ExecutionEvent \cup ReconcileRes \cup OtherMessage

ASSUME BrokerAssumption ==
  /\ MaxVolume \in Nat \ {0} /\ MaxMessages \in Nat
  /\ Absent \notin OrderRow \cup PositionRow \cup [volume : Nat]
  /\ Absent \notin [id : OrderId, row : OrderRow] \cup [id : PositionId, row : PositionRow]
  /\ Absent \notin [deal_id : Nat, volume : Volumes]
  /\ Absent \notin [orders : [OrderId -> OrderRow \cup {Absent}],
                    positions : [PositionId -> [volume : Nat] \cup {Absent}]]

-----------------------------------------------------------------------------
VARIABLES books,    \* Seq(Book): the account's history, one book per message
          stream    \* Seq(Message): everything sent to the bot, in order

brokerVars == <<books, stream>>

BrokerTypeOK ==
  /\ books \in Seq(Book)
  /\ stream \in Seq(Message)
  /\ Len(books) = Len(stream) + 1

\* The account may hold working orders and open positions when the bot connects.
BrokerInit ==
  /\ stream = << >>
  /\ \E os \in [OrderId -> {Absent} \cup [status : {"ACCEPTED"}, volume : {1}]],
        ps \in [PositionId -> {Absent} \cup [status : {"OPEN"}, volume : Volumes]] :
          books = <<[orders |-> os, positions |-> ps]>>

CurrentBook == books[Len(books)]

\* The book a message leaves behind.
Effect(book, m) ==
  IF m.type # "execution" THEN book
  ELSE [orders    |-> IF m.order = Absent THEN book.orders
                        ELSE [book.orders EXCEPT ![m.order.id] = m.order.row],
        positions |-> IF m.position = Absent THEN book.positions
                        ELSE [book.positions EXCEPT ![m.position.id] = m.position.row]]

Publish(m) ==
  /\ stream' = Append(stream, m)
  /\ books' = Append(books, Effect(CurrentBook, m))

Execution(order, position, closing) ==
  /\ Len(stream) < MaxMessages
  /\ Publish([type |-> "execution", order |-> order,
              position |-> position, closing |-> closing])

IsWorking(o) == CurrentBook.orders[o] # Absent /\ CurrentBook.orders[o].status = "ACCEPTED"

PositionStatus(p) ==
  IF CurrentBook.positions[p] = Absent THEN "NONE" ELSE CurrentBook.positions[p].status

OrderIn(o, s) == [id |-> o, row |-> [status |-> s, volume |-> CurrentBook.orders[o].volume]]

\* A new order is accepted; a pending one may bring an empty position along.
Accept(o, v, position) ==
  /\ CurrentBook.orders[o] = Absent
  /\ Execution([id |-> o, row |-> [status |-> "ACCEPTED", volume |-> v]], position, Absent)

AcceptMarket(o, v) == Accept(o, v, Absent)

AcceptPending(o, v, p) ==
  /\ CurrentBook.positions[p] = Absent
  /\ Accept(o, v, [id |-> p, row |-> [status |-> "CREATED", volume |-> 0]])

Replace(o, v) ==
  /\ IsWorking(o) /\ CurrentBook.orders[o].volume # v
  /\ Execution([id |-> o, row |-> [status |-> "ACCEPTED", volume |-> v]], Absent, Absent)

\* The order is filled and opens position p or adds to it.
FillOpening(o, p) ==
  LET held == IF PositionStatus(p) = "OPEN" THEN CurrentBook.positions[p].volume ELSE 0
      volume == held + CurrentBook.orders[o].volume
  IN /\ IsWorking(o)
     /\ PositionStatus(p) \in {"NONE", "CREATED", "OPEN"}
     /\ volume <= MaxVolume
     /\ Execution(OrderIn(o, "FILLED"),
                  [id |-> p, row |-> [status |-> "OPEN", volume |-> volume]], Absent)

\* The order is filled and closes position p, in part or for good.
FillClosing(o, p) ==
  LET closed == CurrentBook.orders[o].volume
      volume == CurrentBook.positions[p].volume - closed
  IN /\ IsWorking(o) /\ PositionStatus(p) = "OPEN"
     /\ volume >= 0
     /\ Execution(OrderIn(o, "FILLED"),
                  [id |-> p, row |-> [status |-> IF volume = 0 THEN "CLOSED" ELSE "OPEN",
                                      volume |-> volume]],
                  [deal_id |-> Len(stream) + 1, volume |-> closed])

End(o, s) ==
  /\ IsWorking(o)
  /\ Execution(OrderIn(o, s), Absent, Absent)

\* The server refuses an order it never accepted.
Refuse(o) ==
  /\ CurrentBook.orders[o] = Absent
  /\ Execution([id |-> o, row |-> [status |-> "REJECTED", volume |-> 1]], Absent, Absent)

\* A swap or a stop-loss change: a position event without an order.
Swap(p) ==
  /\ PositionStatus(p) = "OPEN"
  /\ Execution(Absent, [id |-> p, row |-> CurrentBook.positions[p]], Absent)

Ping == Len(stream) < MaxMessages /\ Publish([type |-> "heartbeat"])

OrderError(o) ==
  /\ Len(stream) < MaxMessages
  /\ IsWorking(o)
  /\ Publish([type |-> "order_error", id |-> o])

\* The answer to ProtoOAReconcileReq: pending orders and open positions as of now.
AnswerReconcile ==
  Publish([type |-> "reconcile", orders |-> WorkingOrders(CurrentBook),
           positions |-> OpenPositions(CurrentBook)])

\* ... or an answer without a payload ...
AnswerHollow == Publish([type |-> "hollow_reconcile"])

\* ... or a ProtoOAErrorRes instead.
RefuseReconcile == Publish([type |-> "error"])

Trading ==
  \/ \E o \in OrderId, v \in Volumes : AcceptMarket(o, v) \/ Replace(o, v)
  \/ \E o \in OrderId, v \in Volumes, p \in PositionId : AcceptPending(o, v, p)
  \/ \E o \in OrderId, p \in PositionId : FillOpening(o, p) \/ FillClosing(o, p)
  \/ \E o \in OrderId, s \in {"CANCELLED", "EXPIRED", "REJECTED"} : End(o, s)
  \/ \E o \in OrderId : Refuse(o) \/ OrderError(o)
  \/ \E p \in PositionId : Swap(p)
  \/ Ping
=============================================================================
