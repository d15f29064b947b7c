------------------------------ MODULE WsFanout ------------------------------
(***************************************************************************)
(* api/ws.rs and the emitting half of bot_loop.rs: how WebSocket clients    *)
(* get the account.  A socket task replays the two tables, each under its   *)
(* RwLock, then subscribes to the broadcast channel ws_tx and forwards what *)
(* arrives.  Meanwhile the bot loop writes a row and only then, without the *)
(* lock, emits the row's frame; the channel keeps the newest frames only.   *)
(*                                                                          *)
(* Writes are numbered.  What a row holds, a removed row included, is the   *)
(* number of the write that left it, and so is what a client shows of it.   *)
(***************************************************************************)
EXTENDS Integers, Sequences, FiniteSets

CONSTANTS Client,
          PositionId, OrderId,   \* rows of AppState.positions and .orders
          Capacity,              \* broadcast::channel(1024)
          MaxFrames,             \* bound: frames emitted
          Absent

Row == PositionId \cup OrderId

ASSUME WsFanoutAssumption ==
  /\ Capacity \in Nat \ {0} /\ MaxFrames \in Nat
  /\ PositionId \cap OrderId = {} /\ Absent \notin Row

VARIABLES
  table,    \* [Row -> Nat]: AppState.positions and .orders
  writes,   \* row writes so far
  work,     \* what is left of the apply_execution under way
  log,      \* every frame sent to ws_tx; the channel retains the last Capacity
  pc,       \* each socket task: see Stages
  view,     \* what the client shows
  cursor,   \* rx: frames of log behind the receiver
  missed    \* history: rows with a frame the client was never sent

vars == <<table, writes, work, log, pc, view, cursor, missed>>

Stages == {"closed", "connected", "positions", "between", "orders", "replayed",
           "live", "gone"}

-----------------------------------------------------------------------------
(* The locks: tokio's RwLock is fair, a waiting writer keeps new readers out *)

\* Mutant of Guarded: the replay guards live as long as the socket task.
GuardsKept(c) ==
  {r \in Row : \/ r \in PositionId /\ pc[c] \in Stages \ {"closed", "connected", "gone"}
               \/ r \in OrderId /\ pc[c] \in {"orders", "replayed", "live"}}

Guarded(c) == CASE pc[c] = "positions" -> PositionId
                [] pc[c] = "orders"    -> OrderId
                [] OTHER               -> {}

WriterWaits(rows) == work # << >> /\ Head(work).do = "write" /\ Head(work).row \in rows

-----------------------------------------------------------------------------
(* bot_loop: apply_execution and emit *)

Write(r) == <<[do |-> "write", row |-> r]>>
Emit(r)  == <<[do |-> "emit", row |-> r]>>

\* Mutant of Side: the frame is sent before the row is written.
EmitFirst(rows) ==
  IF rows = {} THEN << >>
  ELSE LET r == CHOOSE x \in rows : TRUE IN Emit(r) \o Write(r)

\* One side of an execution event: its row is written, then its frame sent.
Side(rows) ==
  IF rows = {} THEN << >>
  ELSE LET r == CHOOSE x \in rows : TRUE IN Write(r) \o Emit(r)

\* An event carries a position, an order, or both; the order's execution frame
\* names no row content.
BeginExecution ==
  /\ work = << >> /\ Len(log) + 3 <= MaxFrames
  /\ \E ps \in {{}} \cup {{p} : p \in PositionId}, os \in {{}} \cup {{o} : o \in OrderId} :
       /\ ps \cup os # {}
       /\ work' = Side(ps) \o Side(os) \o (IF os = {} THEN << >> ELSE Emit(Absent))
  /\ UNCHANGED <<table, writes, log, pc, view, cursor, missed>>

WriteRow ==
  /\ work # << >> /\ Head(work).do = "write"
  /\ \A c \in Client : Head(work).row \notin Guarded(c)
  /\ writes' = writes + 1
  /\ table' = [table EXCEPT ![Head(work).row] = writes']
  /\ work' = Tail(work)
  /\ UNCHANGED <<log, pc, view, cursor, missed>>

\* Past the replay of a row and not subscribed yet.
InGap(c, r) ==
  IF r \in PositionId THEN pc[c] \in {"between", "orders", "replayed"}
                      ELSE pc[c] = "replayed"

Send(r) ==
  /\ log' = Append(log, [row |-> r, write |-> IF r = Absent THEN 0 ELSE table[r]])
  /\ missed' = [c \in Client |-> IF r # Absent /\ InGap(c, r)
                                   THEN missed[c] \cup {r} ELSE missed[c]]

EmitFrame ==
  /\ work # << >> /\ Head(work).do = "emit"
  /\ Send(Head(work).row)
  /\ work' = Tail(work)
  /\ UNCHANGED <<table, writes, pc, view, cursor>>

\* Heartbeats and ticks, and log lines of any task at any time, take room in the
\* channel as well; the bound keeps room for the frames of the event under way.
EmitOther ==
  /\ Len(log) + Cardinality({i \in DOMAIN work : work[i].do = "emit"}) < MaxFrames
  /\ Send(Absent)
  /\ UNCHANGED <<table, writes, work, pc, view, cursor>>

-----------------------------------------------------------------------------
(* ws: handle_socket.  No send has a timeout: it waits for the client to read *)

Goto(c, stage) == pc' = [pc EXCEPT ![c] = stage]

\* The socket is upgraded and the status frame sent.
Connect(c) ==
  /\ pc[c] = "closed"
  /\ Goto(c, "connected")
  /\ UNCHANGED <<table, writes, work, log, view, cursor, missed>>

\* Rows are sent one by one under the read guard, which keeps them as they are
\* until the last one is out.
BeginReplay(c) ==
  /\ \/ pc[c] = "connected" /\ ~WriterWaits(PositionId) /\ Goto(c, "positions")
     \/ pc[c] = "between" /\ ~WriterWaits(OrderId) /\ Goto(c, "orders")
  /\ UNCHANGED <<table, writes, work, log, view, cursor, missed>>

EndReplay(c) ==
  /\ pc[c] \in {"positions", "orders"}
  /\ view' = [view EXCEPT ![c] = [r \in Row |-> IF r \in Guarded(c) THEN table[r] ELSE @[r]]]
  /\ Goto(c, IF pc[c] = "positions" THEN "between" ELSE "replayed")
  /\ UNCHANGED <<table, writes, work, log, cursor, missed>>

\* Where the oldest frame still in the channel starts.
Retained == IF Len(log) > Capacity THEN Len(log) - Capacity ELSE 0

\* Mutants of FirstFrame: one frame late; from the oldest frame retained.
FrameAfterNext == Len(log) + 1

OldestRetained == Retained

\* ws_tx.subscribe: the frames sent from now on.
FirstFrame == Len(log)

Subscribe(c) ==
  /\ pc[c] = "replayed"
  /\ cursor' = [cursor EXCEPT ![c] = FirstFrame]
  /\ Goto(c, "live")
  /\ UNCHANGED <<table, writes, work, log, view, missed>>

\* rx.recv returns a frame and it is sent on ...
Forward(c) ==
  /\ pc[c] = "live" /\ cursor[c] < Len(log) /\ cursor[c] >= Retained
  /\ cursor' = [cursor EXCEPT ![c] = @ + 1]
  /\ LET f == log[cursor[c] + 1]
     IN IF f.row = Absent THEN UNCHANGED <<view, missed>>
        ELSE /\ view' = [view EXCEPT ![c][f.row] = f.write]
             /\ missed' = [missed EXCEPT ![c] = @ \ {f.row}]
  /\ UNCHANGED <<table, writes, work, log, pc>>

\* ... or Lagged: the frames the channel has overwritten are skipped.
Lagged(c) ==
  /\ pc[c] = "live" /\ cursor[c] < Retained
  /\ cursor' = [cursor EXCEPT ![c] = Retained]
  /\ missed' = [missed EXCEPT ![c] =
                  @ \cup ({log[i].row : i \in cursor[c] + 1 .. Retained} \cap Row)]
  /\ UNCHANGED <<table, writes, work, log, pc, view>>

\* A send fails or the client closes: the task returns, its guard with it.
Leave(c) ==
  /\ pc[c] \notin {"closed", "gone"}
  /\ Goto(c, "gone")
  /\ UNCHANGED <<table, writes, work, log, view, cursor, missed>>

-----------------------------------------------------------------------------
Init ==
  /\ table = [r \in Row |-> 0]
  /\ writes = 0
  /\ work = << >>
  /\ log = << >>
  /\ pc = [c \in Client |-> "closed"]
  /\ view = [c \in Client |-> [r \in Row |-> 0]]
  /\ cursor = [c \in Client |-> 0]
  /\ missed = [c \in Client |-> {}]

BotLoop == BeginExecution \/ WriteRow \/ EmitFrame \/ EmitOther

Socket(c) == BeginReplay(c) \/ EndReplay(c) \/ Subscribe(c) \/ Forward(c) \/ Lagged(c)

Next ==
  \/ BotLoop
  \/ \E c \in Client : Connect(c) \/ Socket(c) \/ Leave(c)

Spec == Init /\ [][Next]_vars

\* The bot loop carries on with an execution event as soon as no guard keeps it from
\* its write.  Of the socket tasks nothing is assumed: EndReplay waits, without a
\* timeout, until the client has read the replay or is found gone.
FairSpec == Spec /\ WF_vars(WriteRow \/ EmitFrame)

-----------------------------------------------------------------------------
(* Properties *)

TypeOK ==
  /\ table \in [Row -> 0 .. writes]
  /\ writes \in Nat
  /\ work \in Seq([do : {"write", "emit"}, row : Row \cup {Absent}])
  /\ log \in Seq([row : Row \cup {Absent}, write : Nat])
  /\ pc \in [Client -> Stages]
  /\ view \in [Client -> [Row -> Nat]]
  /\ cursor \in [Client -> 0 .. Len(log)]
  /\ missed \in [Client -> SUBSET Row]

CaughtUp(c) == pc[c] = "live" /\ cursor[c] = Len(log) /\ work = << >>

\* Replay and stream fit together row by row: a client that has been sent every
\* frame there is shows the table, except for a row whose newest frame fell in the gap
\* between replay and subscription or was overwritten; the next frame of that
\* row puts it right.
OnlyMissedRowsAreStale ==
  \A c \in Client : CaughtUp(c) => \A r \in Row \ missed[c] : view[c][r] = table[r]

\* Nothing older than what a client shows is on its way to it, although its replay and
\* the frames come from two sources and a row is written before its frame is sent: no
\* frame older than the replayed row is forwarded, and none announces a row not
\* written yet.
ViewOnlyAdvances ==
  /\ \A c \in Client, r \in Row : view[c][r] <= table[r]
  /\ \A c \in Client, r \in Row : pc[c] = "live" =>
       \A i \in cursor[c] + 1 .. Len(log) : log[i].row = r => log[i].write >= view[c][r]

\* Nothing but a replay still being sent holds up the bot loop: an execution event
\* under way is applied and announced, however many clients come, stream, fall behind
\* and go, or a client is in the replay of the very table to be written next.
ExecutionsFinish ==
  work # << >> ~>
    \/ work = << >>
    \/ \E c \in Client : /\ pc[c] \in {"positions", "orders"}
                       /\ WriterWaits(IF pc[c] = "positions" THEN PositionId ELSE OrderId)

(* What the sources say and the code does not do *)

\* ws.rs:3-5: "On connect we replay the current view of the world ... Then we
\* forward the live ws_tx stream."  A frame sent between the two is in neither.
CaughtUpShowsTables ==
  \A c \in Client : CaughtUp(c) => view[c] = table
=============================================================================
