----------------------------- MODULE OrderEntry -----------------------------
(***************************************************************************)
(* How an HTTP call becomes a request at the server and gets its answer:    *)
(* the handlers of api/routes/orders.rs and positions.rs, the bounded       *)
(* command channel AppState.cmd_tx, a oneshot per call, the bot loop        *)
(* (handle_command, handle_incoming) and the rows of AppState.orders, whose *)
(* order in the Vec is what place_order's answer depends on.                *)
(*                                                                          *)
(* A call runs concurrently with every other one, with the bot loop and     *)
(* with the server; it may be abandoned by its client at any await.  The    *)
(* loop itself waits for peers: for the guard of a table that a WebSocket   *)
(* client keeps while the table is replayed to it, and for the server to    *)
(* take what it writes to the connection.                                   *)
(***************************************************************************)
EXTENDS Integers, Sequences

CONSTANTS PlaceCall, CancelCall, CloseCall,   \* the HTTP calls, by route
          FullClose,                          \* the close calls that name no volume
          OrderId, PositionId,                \* the server's ids
          ChannelCapacity,                    \* mpsc::channel(64)
          Absent

Call == PlaceCall \cup CancelCall \cup CloseCall

Code == {"ok", "pending_execution", "bad_request", "bot_error", "bot_channel_closed",
         "bot_channel_dropped", "not_found"}

Answer == [code : Code, order : OrderId \cup {Absent}]

ASSUME OrderEntryAssumption ==
  /\ PlaceCall \cap CancelCall = {} /\ PlaceCall \cap CloseCall = {}
  /\ CancelCall \cap CloseCall = {} /\ FullClose \subseteq CloseCall
  /\ ChannelCapacity \in Nat \ {0}
  /\ Absent \notin OrderId \cup PositionId \cup Call \cup Answer

VARIABLES
  \* the handlers, one per call
  pc,         \* idle, sending (cmd_tx.send), waiting (rx), polling, unseen (a
              \* poll found nothing), done, gone
  target,     \* the id in the path of a cancel or close call
  baseline,   \* place_order's baseline_count
  answer,     \* what the handler returned
  \* shared with the bot loop
  channel,    \* cmd_tx / cmd_rx: calls whose command is queued
  resp,       \* the oneshot of each call: none, ok, err, dropped
  orders,     \* AppState.orders, the ids of its rows in Vec order
  positions,  \* AppState.positions, the ids of its rows
  loop,       \* running, down (run returned: cmd_rx is gone), exited (main too)
  \* the connection, one FIFO stream each way
  requests,   \* calls whose request is on its way to the server
  events,     \* the server's events on their way to the bot
  \* handle_execution, and what holds it up
  applying,   \* the event it is applying, or Absent
  writing,    \* the table it writes next: positions, orders, or none
  held,       \* tables whose read guard a client that does not read keeps in its
              \* replay, and "wire" while the server does not take what is sent
  \* the server
  book,       \* status of every order: none, working, ended
  open,       \* open positions
  owner,      \* the call an order was created for, Absent for any other terminal
  \* history
  sent,       \* calls whose request was written to the connection
  atBaseline, \* the ids in orders when a place call took its baseline
  seen        \* place calls for whose order the bot has taken in an event

callVars   == <<pc, target, baseline, answer, atBaseline>>
tableVars  == <<orders, positions>>
brokerVars == <<book, open, owner>>
stepVars   == <<applying, writing>>
vars == <<callVars, channel, resp, tableVars, loop, requests, events,
          stepVars, held, brokerVars, sent, seen>>

Finish(r, code, order) ==
  /\ pc' = [pc EXCEPT ![r] = "done"]
  /\ answer' = [answer EXCEPT ![r] = [code |-> code, order |-> order]]

Rows == {orders[i] : i \in DOMAIN orders}

\* tokio's RwLock is fair: behind a waiting writer no reader gets in.
Readable(table) == ~(writing = table /\ table \in held)

-----------------------------------------------------------------------------
(* The handlers *)

\* into_internal refuses an unknown symbol, i64::parse a malformed id.
BadRequest(r) ==
  /\ pc[r] = "idle"
  /\ Finish(r, "bad_request", Absent)
  /\ UNCHANGED <<target, baseline, atBaseline, channel, resp, tableVars, loop, requests,
                 events, stepVars, held, brokerVars, sent, seen>>

\* place_order takes the length of the table before it sends its command.
TakeBaseline(r) ==
  /\ r \in PlaceCall /\ pc[r] = "idle"
  /\ Readable("orders")
  /\ baseline' = [baseline EXCEPT ![r] = Len(orders)]
  /\ atBaseline' = [atBaseline EXCEPT ![r] = Rows]
  /\ pc' = [pc EXCEPT ![r] = "sending"]
  /\ UNCHANGED <<target, answer, channel, resp, tableVars, loop, requests, events,
                 stepVars, held, brokerVars, sent, seen>>

NameTarget(r) ==
  /\ r \in CancelCall \cup CloseCall /\ pc[r] = "idle"
  /\ \E id \in IF r \in CancelCall THEN OrderId ELSE PositionId :
       target' = [target EXCEPT ![r] = id]
  /\ pc' = [pc EXCEPT ![r] = "sending"]
  /\ UNCHANGED <<baseline, answer, atBaseline, channel, resp, tableVars, loop, requests,
                 events, stepVars, held, brokerVars, sent, seen>>

\* Mutant of Room: one too many.
RoomForOneMore == Len(channel) <= ChannelCapacity

Room == Len(channel) < ChannelCapacity

\* cmd_tx.send waits for room, and fails once the receiver is gone.
SendCommand(r) ==
  /\ pc[r] = "sending" /\ loop = "running"
  /\ Room
  /\ channel' = Append(channel, r)
  /\ pc' = [pc EXCEPT ![r] = "waiting"]
  /\ UNCHANGED <<target, baseline, answer, atBaseline, resp, tableVars, loop, requests,
                 events, stepVars, held, brokerVars, sent, seen>>

ChannelClosed(r) ==
  /\ pc[r] = "sending" /\ loop = "down"
  /\ Finish(r, "bot_channel_closed", Absent)
  /\ UNCHANGED <<target, baseline, atBaseline, channel, resp, tableVars, loop, requests,
                 events, stepVars, held, brokerVars, sent, seen>>

\* rx.await.  A cancel or close call answers with its row, if it is still there;
\* place_order goes on to wait_for_new_order.
Awaken(r) ==
  /\ pc[r] = "waiting" /\ loop # "exited"
  /\ \/ /\ resp[r] = "ok" /\ r \in PlaceCall
        /\ pc' = [pc EXCEPT ![r] = "polling"]
        /\ UNCHANGED answer
     \/ /\ resp[r] = "ok" /\ r \in CancelCall /\ Readable("orders")
        /\ IF target[r] \in Rows THEN Finish(r, "ok", target[r])
                                 ELSE Finish(r, "not_found", Absent)
     \/ /\ resp[r] = "ok" /\ r \in CloseCall /\ Readable("positions")
        /\ IF target[r] \in positions THEN Finish(r, "ok", Absent)
                                      ELSE Finish(r, "not_found", Absent)
     \/ resp[r] = "err" /\ Finish(r, "bot_error", Absent)
     \/ resp[r] = "dropped" /\ Finish(r, "bot_channel_dropped", Absent)
  /\ UNCHANGED <<target, baseline, atBaseline, channel, resp, tableVars, loop, requests,
                 events, stepVars, held, brokerVars, sent, seen>>

\* Mutant of Outgrown: >= for >.
OutgrownOrEqual(r) == Len(orders) >= baseline[r] /\ orders # << >>

Outgrown(r) == Len(orders) > baseline[r]

\* wait_for_new_order reads the table under its lock: it has outgrown the
\* baseline and its last row is the answer ...
EchoLast(r) ==
  /\ pc[r] = "polling" /\ loop # "exited" /\ Readable("orders")
  /\ Outgrown(r)
  /\ Finish(r, "ok", orders[Len(orders)])
  /\ UNCHANGED <<target, baseline, atBaseline, channel, resp, tableVars, loop, requests,
                 events, stepVars, held, brokerVars, sent, seen>>

\* ... or it has not.  Then, without the lock, the clock decides between another
\* poll and the deadline.
PollEmpty(r) ==
  /\ pc[r] = "polling" /\ loop # "exited" /\ Readable("orders")
  /\ ~Outgrown(r)
  /\ pc' = [pc EXCEPT ![r] = "unseen"]
  /\ UNCHANGED <<target, baseline, answer, atBaseline, channel, resp, tableVars, loop,
                 requests, events, stepVars, held, brokerVars, sent, seen>>

PollAgain(r) ==
  /\ pc[r] = "unseen" /\ loop # "exited"
  /\ pc' = [pc EXCEPT ![r] = "polling"]
  /\ UNCHANGED <<target, baseline, answer, atBaseline, channel, resp, tableVars, loop,
                 requests, events, stepVars, held, brokerVars, sent, seen>>

\* Mutant of Deadline: polls for ever.
NoDeadline(r) == FALSE

Deadline(r) ==
  /\ pc[r] = "unseen" /\ loop # "exited"
  /\ Finish(r, "pending_execution", Absent)
  /\ UNCHANGED <<target, baseline, atBaseline, channel, resp, tableVars, loop, requests,
                 events, stepVars, held, brokerVars, sent, seen>>

\* The client goes away: axum drops the handler wherever it awaits.
Abandon(r) ==
  /\ pc[r] \in {"sending", "waiting", "polling", "unseen"}
  /\ pc' = [pc EXCEPT ![r] = "gone"]
  /\ UNCHANGED <<target, baseline, answer, atBaseline, channel, resp, tableVars, loop,
                 requests, events, stepVars, held, brokerVars, sent, seen>>

-----------------------------------------------------------------------------
(* The bot loop *)

\* The loop is in its select!, not inside one of the branches.
Selecting == loop = "running" /\ writing = "none" /\ "wire" \notin held

Respond(r, out) == resp' = [resp EXCEPT ![r] = out]

\* Mutant of HandleCommand: the response does not wait for the send.
HandleCommandAckFirst ==
  /\ Selecting /\ channel # << >>
  /\ LET r == Head(channel)
     IN /\ Respond(r, "ok")
        /\ \/ requests' = Append(requests, r) /\ sent' = sent \cup {r}
           \/ UNCHANGED <<requests, sent>>
  /\ channel' = Tail(channel)
  /\ UNCHANGED <<callVars, tableVars, loop, events, stepVars, held, brokerVars, seen>>

\* Mutant of HandleCommand: a command whose send failed is left for the next turn.
HandleCommandRetried ==
  /\ Selecting /\ channel # << >>
  /\ LET r == Head(channel)
     IN \/ /\ Respond(r, "ok")
           /\ requests' = Append(requests, r)
           /\ sent' = sent \cup {r}
           /\ channel' = Tail(channel)
        \/ /\ Respond(r, "err")
           /\ UNCHANGED <<channel, requests, sent>>
  /\ UNCHANGED <<callVars, tableVars, loop, events, stepVars, held, brokerVars, seen>>

\* handle_command.  A close call without a volume takes it from the position's
\* row; the send comes last, and its outcome is the response.
HandleCommand ==
  /\ Selecting /\ channel # << >>
  /\ LET r == Head(channel)
     IN \/ /\ r \in FullClose => target[r] \in positions
           /\ Respond(r, "ok")
           /\ requests' = Append(requests, r)
           /\ sent' = sent \cup {r}
        \/ /\ Respond(r, "err")
           /\ UNCHANGED <<requests, sent>>
  /\ channel' = Tail(channel)
  /\ UNCHANGED <<callVars, tableVars, loop, events, stepVars, held, brokerVars, seen>>

RowOf(o) == CHOOSE i \in DOMAIN orders : orders[i] = o

\* Mutant of OrdersAfter: terminal rows stay.
OrdersKeepingEnded(e) ==
  IF e.order \in Rows THEN orders ELSE Append(orders, e.order)

\* apply_execution on the Vecs: a known row is overwritten in place, a new
\* working one pushed at the end, a terminal one taken out.
OrdersAfter(e) ==
  IF e.order \in Rows
    THEN IF e.working THEN orders
         ELSE SubSeq(orders, 1, RowOf(e.order) - 1)
                \o SubSeq(orders, RowOf(e.order) + 1, Len(orders))
    ELSE IF e.working THEN Append(orders, e.order) ELSE orders

\* handle_incoming takes a message.  An order error changes no table; an execution
\* writes the positions, if it carries one, and then the orders.
TakeEvent ==
  /\ Selecting /\ events # << >>
  /\ events' = Tail(events)
  /\ LET e == Head(events)
     IN \/ e.order = Absent /\ UNCHANGED stepVars
        \/ /\ e.order # Absent
           /\ applying' = e
           /\ writing' \in IF e.closed = Absent THEN {"positions", "orders"} ELSE {"positions"}
  /\ UNCHANGED <<callVars, channel, resp, tableVars, loop, requests, held, brokerVars,
                 sent, seen>>

\* Each write waits until no reader keeps the table.
WritePositions ==
  /\ writing = "positions" /\ "positions" \notin held
  /\ positions' = positions \ {applying.closed}
  /\ writing' = "orders"
  /\ UNCHANGED <<callVars, channel, resp, orders, loop, requests, events, applying, held,
                 brokerVars, sent, seen>>

WriteOrders ==
  /\ writing = "orders" /\ "orders" \notin held
  /\ orders' = OrdersAfter(applying)
  /\ seen' = seen \cup {owner[applying.order]}
  /\ applying' = Absent
  /\ writing' = "none"
  /\ UNCHANGED <<callVars, channel, resp, positions, loop, requests, events, held,
                 brokerVars, sent>>

\* Mutant of SendersDropped: the oneshots outlive the channel.
SendersKept == resp

\* The oneshot of a command that is dropped from the channel.
SendersDropped ==
  [r \in Call |-> IF \E i \in DOMAIN channel : channel[i] = r THEN "dropped" ELSE resp[r]]

\* run returns Err: cmd_rx and every queued command are dropped with it, and so is
\* the connection.  A reader that keeps a table holds up nobody any more.
LoopEnds ==
  /\ Selecting
  /\ loop' = "down"
  /\ resp' = SendersDropped
  /\ channel' = << >>
  /\ events' = << >>
  /\ held' = {}
  /\ UNCHANGED <<callVars, tableVars, requests, stepVars, brokerVars, sent, seen>>

\* main's select! sees it and returns: every call still open loses its connection.
ProcessExits ==
  /\ loop = "down"
  /\ loop' = "exited"
  /\ pc' = [r \in Call |-> IF pc[r] = "done" THEN "done" ELSE "gone"]
  /\ UNCHANGED <<target, baseline, answer, atBaseline, channel, resp, tableVars,
                 requests, events, stepVars, held, brokerVars, sent, seen>>

-----------------------------------------------------------------------------
(* Slow peers: external *)

\* A client stops reading while handle_socket replays a table to it, under the
\* table's read guard and without a timeout; or the server stops reading, and
\* conn.send waits.  An empty table is replayed without a wait.
Stall(x) ==
  /\ loop = "running" /\ x \notin held
  /\ \/ x = "orders" /\ orders # << >>
     \/ x = "positions" /\ positions # {}
     \/ x = "wire" /\ writing = "none"
  /\ held' = held \cup {x}
  /\ UNCHANGED <<callVars, channel, resp, tableVars, loop, requests, events, stepVars,
                 brokerVars, sent, seen>>

Release(x) ==
  /\ x \in held
  /\ held' = held \ {x}
  /\ UNCHANGED <<callVars, channel, resp, tableVars, loop, requests, events, stepVars,
                 brokerVars, sent, seen>>

-----------------------------------------------------------------------------
(* The server, as long as the bot is connected to it: external *)

Event(o, working, closed) == [order |-> o, working |-> working, closed |-> closed]

Emit(es) ==
  /\ loop = "running"
  /\ events' = events \o es
  /\ UNCHANGED <<callVars, channel, resp, tableVars, loop, stepVars, held, sent, seen>>

\* A new order: accepted, and then ended by BrokerEnds, or refused by an order
\* error that names no order.
BrokerAccepts(o) ==
  /\ requests # << >> /\ Head(requests) \in PlaceCall
  /\ book[o] = "none"
  /\ book' = [book EXCEPT ![o] = "working"]
  /\ owner' = [owner EXCEPT ![o] = Head(requests)]
  /\ requests' = Tail(requests)
  /\ Emit(<<Event(o, TRUE, Absent)>>)
  /\ UNCHANGED open

BrokerRefuses ==
  /\ requests # << >> /\ Head(requests) \in PlaceCall
  /\ requests' = Tail(requests)
  /\ Emit(<<Event(Absent, FALSE, Absent)>>)
  /\ UNCHANGED <<book, open, owner>>

BrokerCancels ==
  /\ requests # << >> /\ Head(requests) \in CancelCall
  /\ LET o == target[Head(requests)]
     IN IF book[o] = "working"
          THEN book' = [book EXCEPT ![o] = "ended"] /\ Emit(<<Event(o, FALSE, Absent)>>)
          ELSE UNCHANGED book /\ Emit(<<Event(Absent, FALSE, Absent)>>)
  /\ requests' = Tail(requests)
  /\ UNCHANGED <<open, owner>>

\* Closing a position takes an order of its own: accepted, then filled.
BrokerCloses(o) ==
  /\ requests # << >> /\ Head(requests) \in CloseCall
  /\ book[o] = "none"
  /\ LET p == target[Head(requests)]
     IN IF p \in open
          THEN /\ open' = open \ {p}
               /\ book' = [book EXCEPT ![o] = "ended"]
               /\ owner' = [owner EXCEPT ![o] = Head(requests)]
               /\ Emit(<<Event(o, TRUE, Absent), Event(o, FALSE, p)>>)
          ELSE /\ Emit(<<Event(Absent, FALSE, Absent)>>)
               /\ UNCHANGED <<open, book, owner>>
  /\ requests' = Tail(requests)

\* An order is filled, cancelled elsewhere or expires.
BrokerEnds(o) ==
  /\ book[o] = "working"
  /\ book' = [book EXCEPT ![o] = "ended"]
  /\ Emit(<<Event(o, FALSE, Absent)>>)
  /\ UNCHANGED <<open, owner, requests>>

\* The same account is traded from another terminal.
BrokerOther(o) ==
  /\ book[o] = "none"
  /\ book' = [book EXCEPT ![o] = "working"]
  /\ Emit(<<Event(o, TRUE, Absent)>>)
  /\ UNCHANGED <<open, owner, requests>>

-----------------------------------------------------------------------------
\* The API opens after initial_reconcile: the tables are the server's.
Init ==
  /\ pc = [r \in Call |-> "idle"]
  /\ target = [r \in Call |-> Absent]
  /\ baseline = [r \in Call |-> 0]
  /\ answer = [r \in Call |-> Absent]
  /\ channel = << >>
  /\ resp = [r \in Call |-> "none"]
  /\ orders \in {<< >>} \cup {<<o>> : o \in OrderId}
  /\ positions \in SUBSET PositionId
  /\ loop = "running"
  /\ requests = << >>
  /\ events = << >>
  /\ applying = Absent
  /\ writing = "none"
  /\ held = {}
  /\ book = [o \in OrderId |-> IF o \in Rows THEN "working" ELSE "none"]
  /\ open = positions
  /\ owner = [o \in OrderId |-> Absent]
  /\ sent = {}
  /\ atBaseline = [r \in Call |-> {}]
  /\ seen = {}

Handler(r) ==
  \/ SendCommand(r) \/ ChannelClosed(r) \/ Awaken(r)
  \/ EchoLast(r) \/ PollEmpty(r) \/ PollAgain(r) \/ Deadline(r)

Arrival(r) == BadRequest(r) \/ TakeBaseline(r) \/ NameTarget(r)

BotLoop == HandleCommand \/ TakeEvent \/ WritePositions \/ WriteOrders

Peers == \E x \in {"orders", "positions", "wire"} : Stall(x) \/ Release(x)

Server ==
  \/ BrokerRefuses \/ BrokerCancels
  \/ \E o \in OrderId : BrokerAccepts(o) \/ BrokerCloses(o) \/ BrokerEnds(o) \/ BrokerOther(o)

Next ==
  \/ \E r \in Call : Arrival(r) \/ Handler(r) \/ Abandon(r)
  \/ BotLoop
  \/ LoopEnds
  \/ ProcessExits
  \/ Peers
  \/ Server

Spec == Init /\ [][Next]_vars

\* tokio polls every handler and both branches of the loop's select!; main ends
\* the process after its loop.  A handler that keeps polling meets its deadline,
\* because time passes.  Nothing is assumed of clients or the server: a stall may
\* last for ever.
Fairness ==
  /\ \A r \in Call : WF_vars(Handler(r)) /\ SF_vars(Deadline(r))
  /\ WF_vars(HandleCommand)
  /\ WF_vars(TakeEvent) /\ WF_vars(WritePositions) /\ WF_vars(WriteOrders)
  /\ WF_vars(ProcessExits)

FairSpec == Spec /\ Fairness

-----------------------------------------------------------------------------
(* Properties *)

Events == [order : OrderId \cup {Absent}, working : BOOLEAN, closed : PositionId \cup {Absent}]

TypeOK ==
  /\ pc \in [Call -> {"idle", "sending", "waiting", "polling", "unseen", "done", "gone"}]
  /\ target \in [Call -> OrderId \cup PositionId \cup {Absent}]
  /\ baseline \in [Call -> Nat]
  /\ answer \in [Call -> Answer \cup {Absent}]
  /\ channel \in Seq(Call) /\ Len(channel) <= ChannelCapacity
  /\ resp \in [Call -> {"none", "ok", "err", "dropped"}]
  /\ orders \in Seq(OrderId)
  /\ positions \in SUBSET PositionId
  /\ loop \in {"running", "down", "exited"}
  /\ requests \in Seq(Call)
  /\ events \in Seq(Events)
  /\ writing \in {"none", "positions", "orders"}
  /\ applying \in Events \cup {Absent}
  /\ writing # "none" => loop = "running" /\ applying \in Events /\ applying.order # Absent
  /\ held \in SUBSET {"orders", "positions", "wire"}
  /\ book \in [OrderId -> {"none", "working", "ended"}]
  /\ open \in SUBSET PositionId
  /\ owner \in [OrderId -> Call \cup {Absent}]
  /\ sent \in SUBSET Call
  /\ atBaseline \in [Call -> SUBSET OrderId]
  /\ seen \in SUBSET (Call \cup {Absent})

Answered(r, codes) == answer[r] # Absent /\ answer[r].code \in codes

\* orders.rs:56-59: the baseline keeps place_order from echoing an order that was
\* in the table before the call, however rows are added and removed while it
\* waits ("a buy -> sell sequence would echo the buy back").
NeverEchoesPreexisting ==
  \A r \in PlaceCall : Answered(r, {"ok"}) => answer[r].order \notin atBaseline[r]

\* The client can rely on the error code: a call that failed on the way to the
\* bot loop never reached the server, and any other answer but a failed send
\* says the request was written.  A retry after the former cannot duplicate.
AnswerTellsWhetherSent ==
  \A r \in Call :
    /\ Answered(r, {"bad_request", "bot_channel_closed", "bot_channel_dropped"}) => r \notin sent
    /\ Answered(r, {"ok", "pending_execution", "not_found"}) => r \in sent

\* No waiting handler is forgotten: as long as the loop runs, a call without a
\* response has exactly one command in the channel, and one with a response none.
\* Once the loop is gone every waiting handler has its response.
CommandOwedToWaiter ==
  \A r \in Call :
    LET queued == {i \in DOMAIN channel : channel[i] = r}
    IN /\ \A i, j \in queued : i = j
       /\ pc[r] = "waiting" => (resp[r] = "none" <=> queued # {})
       /\ queued # {} => loop = "running" /\ pc[r] \in {"waiting", "gone"}

\* A row per order: events that race a call's response never duplicate a row or
\* bring back one that was taken out.
RowsAreOrdersOnce ==
  /\ \A i, j \in DOMAIN orders : orders[i] = orders[j] => i = j
  /\ \A o \in OrderId : o \in Rows /\ book[o] = "ended" /\ loop = "running" =>
       \/ \E i \in DOMAIN events : events[i].order = o /\ ~events[i].working
       \/ writing # "none" /\ applying.order = o /\ ~applying.working

\* What a caller knows of its request, by the answer it got.
ToldTo(r) ==
  CASE pc[r] = "gone" -> "left"
    [] Answered(r, {"bad_request", "bot_channel_closed", "bot_channel_dropped"}) -> "failed"
    [] Answered(r, {"bot_error"}) -> "error"
    [] Answered(r, {"ok", "pending_execution", "not_found"}) -> "sent"
    [] OTHER -> "waiting"

Once == INSTANCE RequestOnce WITH
  Callers <- Call, wire <- requests, written <- sent, told <- [r \in Call |-> ToldTo(r)]

\* The same as a promise over whole behaviours (RequestOnce): handlers, channel and
\* bot loop together never write a request twice, nor after its caller was told that
\* it failed, and the server takes the requests in the order they were written.
ImplementsRequestOnce == Once!OnceSpec

\* Every call is answered, or its client or the process is gone: a wait on the
\* channel, the oneshot or the table lasts for ever only if a peer that does not
\* read keeps the bot waiting, again and again.  Once the last stall is over, whatever it
\* has piled up, every call gets its answer.
EveryCallAnswered ==
  \A r \in Call :
    pc[r] \in {"sending", "waiting", "polling", "unseen"}
      ~> pc[r] \in {"done", "gone"} \/ held # {}

(* What the sources say and the code does not do *)

\* orders.rs:131-133: growth past the baseline signals "our order's ExecutionEvent
\* landed".  Any order's does: another call's, another terminal's.
EchoIsOwnOrder ==
  \A r \in PlaceCall : Answered(r, {"ok"}) => owner[answer[r].order] = r

\* orders.rs:103-104: a 202 means "we didn't see the ExecutionEvent within the
\* budget".  Leave aside a row that appears between the last poll and the
\* deadline (Outgrown): the loop may also have taken in both the acceptance and
\* the fill between two polls, and then the row is gone for good.
PendingMeansUnseen ==
  [][\A r \in PlaceCall : Deadline(r) /\ ~Outgrown(r) => r \notin seen]_vars
=============================================================================
