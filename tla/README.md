# A TLA+ verification project for ctrader-bot

`src/bot` is a Rust process that keeps one TLS connection to the cTrader Open API,
mirrors one trading account in memory, and offers that mirror and a few commands
over HTTP and WebSocket. This directory models the parts of it in which order,
concurrency and failure matter, checks them with TLC on small instances and proves
the safety properties for every value of the constants with TLAPS.

The modules are written from the code under `src/bot/src`. `PROJECT.json` names,
for every definition that models code, the lines it stands for. The cTrader server
is not in the repository; it is modelled from how the bot uses its messages and is
marked external, as are dotenvy and the clients of the API.

## 1. The system

```
            TLS stream                    AppState (Arc, RwLocks)           HTTP / WS
 cTrader  <------------>  connection.rs   positions, orders, trades,   <--- routes/*.rs
 server     protobuf      auth.rs         quotes, account, status      ---> ws.rs
                          bot_loop.rs --->  ws_tx (broadcast 1024)
   .env  <---> main.rs, auth.rs       <---  cmd_tx (mpsc 64, a oneshot per command)
```

`main.rs` reads its configuration, authenticates (rotating the tokens if need be),
runs the startup steps on the connection one after the other (symbols, trader,
reconcile, symbol details, spot subscription), spawns `bot_loop::run` and the API
server, and ends the process when the first of the two returns. `run` is one task: a
`select!` over the next message (`recv_raw`), the next command and a heartbeat timer.
Every HTTP call and every WebSocket client is a tokio task of its own. They meet in
the `RwLock`s of `AppState` and the two channels. What survives the process is
`.env` and the server's view of the tokens.

### Inventory

| Component | State | Operations | What is hard | What makes it correct |
|---|---|---|---|---|
| Bot loop, message dispatch (`bot_loop.rs`, `state.rs`) | `positions`, `orders`, `trades`, `connection_status` | `initial_reconcile`, `handle_incoming`, `apply_execution`, `append_trade`, `emit`, `run` | executions before, between and after the reconcile request and its answer; readers between the writes of one execution; optional parts of an event; eviction | each table is the account's as of the last message, or of the one before while one is being applied; clients see each change once, in order |
| Order entry (`routes/orders.rs`, `routes/positions.rs`, `handle_command`) | command channel, oneshots, rows in Vec order | `place_order`, `cancel_order`, `close_position`, `wait_for_new_order` | concurrent calls, other terminals, polls against events, a deadline, the loop ending, a client leaving, a peer that does not read | an answer arrives, it tells whether the request went out, and it names the right order |
| Framing (`connection.rs`) | `read_buf` | `recv_raw`, `fill_buf` | bytes cut anywhere; `select!` drops the future; reads that fail | messages come out whole, once, in order |
| WebSocket fan-out (`ws.rs`, `emit`) | broadcast ring, a receiver per client, replay guards | connect, replay, subscribe, forward, lag, leave | replay and stream are two sources; a lagging client; locks held across sends | a client shows the tables, and no row goes back in time |
| Authentication (`auth.rs`) | tokens in memory and in `.env` | application auth, account auth, refresh, persist, `replace_env_key` | a crash after the refresh request, before or within the write; a rotation after the process has gone; other messages during the handshake | the next start finds the pair in force; one refresh per start |
| Startup and lifecycle (`main.rs`, `bot_loop.rs`) | the phase | the requests above, their refusals, serving, ending, starting again | refusals without a timeout; messages of other kinds in between; tokens that expire | it serves what it has loaded, or ends |
| Symbol catalog (`symbols.rs`, `main.rs`) | names, ids, details; the configured list | `parse_symbol_list`, `populate`, `put_meta`, lookups | spelling, repetition, ids that share a name | every configured symbol the catalog has is subscribed to once |
| Quotes (`bot_loop.rs`, `routes/quotes.rs`) | last quote per symbol | spot events, reads | one-sided events | REST and ticks do not contradict each other |
| Trade history endpoint (`routes/trades.rs`) | none (reads `trades`) | paging | growth and eviction between pages; `page * limit` | pages do not skip what stays |
| Account and status endpoints | `account`, times | reads | - | only loaded data is served |
| DTOs, log layer, configuration | little | conversion | - | statuses map to what clients know |
| Strategy endpoint, metrics, build script | none | - | - | - |

`PROJECT.json` lists each with its status, and the hazards with their lines and the
properties that cover them.

## 2. Modules

| Module | Models | State <-> code |
|---|---|---|
| `Broker` | the server (external): the account book and the messages about it | `books` is the account's whole history, one book per message; `stream` every message sent |
| `AccountSync` | `bot_loop.rs` against `Broker` | `positions`, `orders`, `trades`, `status` are the `AppState` fields; `rcvd` the messages taken in; `phase` where the task is; `applying` how far `apply_execution` has got; `frames` all that went to `ws_tx` |
| `MirroredBook` | abstract specification: what clients are promised about the account | `positionsAt` and `ordersAt` are the entries of the account's history the two tables have reached |
| `RequestOnce` | abstract specification: what callers are promised about their requests | `wire` the requests under way, `written` the calls whose request went out, `told` what each caller knows |
| `MessageStream` | abstract specification: the connection as the handlers take it to be | `sent` and `returned` the messages in and out, `broken` once a read was torn |
| `OrderEntry` | the three POST/DELETE handlers, command channel, oneshots, `handle_command`, Vec order of `orders` | `pc` per HTTP call; `channel`, `resp` the two kinds of channel; `events`, `requests` the connection; `applying`, `writing` where `apply_execution` is, `held` what a peer that does not read keeps it from |
| `Framing` | `recv_raw`, `fill_buf`, and being a branch of `select!` | `filled`, `taken` delimit `read_buf`; `reader`, `need` are the future's local state, `mode` who calls it and how that ended, `torn` records its loss |
| `WsFanout` | `handle_socket` against row writes and `emit` | `log` and `cursor` are the broadcast channel and its receivers; `Guarded` the read guards of the replays |
| `EnvFile` | `.env`: lookups through dotenvy, `replace_env_key`, what a crash within `fs::write` leaves | operators on sequences of lines |
| `Startup` | a process from `Config::from_env` to its end and the next start: `auth.rs`, the startup requests, the server's answers and tokens | `phase`, `config`, `loaded` are the process; `file` and `shell` its environment; `issued`, `accessLive`, `session`, `asked`, `orphaned` the server; `pairAtStart`, `refused`, `mishap` are history |
| `MarketData` | symbol catalog, configured list, subscription, spot events, quotes, ticks | `map`, `reverse`, `meta` are `SymbolCatalog`; `configured` and `subscribed` are kept by place in the list; `lastTick` what WebSocket clients saw last |
| `TradeHistory` | `append_trade`'s eviction against a client that pages through `GET /api/trades` | `history` is `AppState.trades`, `page`, `limit`, `got` the client |
| `RestReads` | `MarketData` and `TradeHistory` side by side: the read side of the API | |
| `MCOrderEntry`, `MCRestReads` | instances for TLC | bounds, symmetry |
| `*_proofs` | theorems, section 5 | |

`AccountSync` EXTENDS `Broker` and INSTANCEs `MirroredBook`, `OrderEntry` INSTANCEs
`RequestOnce`, `Framing` INSTANCEs `MessageStream`, `Startup` EXTENDS `EnvFile`,
`RestReads` EXTENDS `MarketData` and `TradeHistory`. The other modules look at
the same bot loop from their own side, at the granularity their questions need:
`AccountSync` applies an execution in one step per lock, because readers get in between
the locks; `WsFanout` splits each write from its frame as well, because a socket task
may read the row, subscribe or lag between the two, and looks at single rows;
`OrderEntry` keeps the order of the rows and forgets their content; `TradeHistory` numbers the trades `AccountSync`
describes; `Startup` keeps which answers have come and forgets what they hold.

How actions correspond to code: an action is what happens between two awaits that
matter. In `AccountSync`, `HandleExecution` takes an execution off the connection and
records its closing deal, `ApplyPosition` writes the positions and sends their frame,
`ApplyOrder` the orders and their two frames; until `ApplyOrder` no other message is
taken in. The reconcile answer writes both tables in one step, since no reader is there
before the API opens; an answer without a payload leaves them alone
(`HandleHollowReconcile`). In `OrderEntry`,
`TakeBaseline`, `SendCommand`, `Awaken`, `EchoLast`, `PollEmpty`, `PollAgain` and
`Deadline` are the stretches of `place_order` and `wait_for_new_order` between its
awaits, `HandleCommand` the whole of `handle_command`, `TakeEvent`, `WritePositions` and
`WriteOrders` the stretches of `handle_incoming` between its locks. `Stall` and
`Release` are peers that stop reading: a WebSocket client whose replay keeps a table's
read guard, so that the loop's write waits, and behind it every new reader of that table
(`Readable`), or the server, so that `conn.send` waits. In `Framing`, `FillBuf` is one
read from the socket, `ReadPrefix` and `ReadBody` are the two halves of `recv_raw`,
`OtherBranch` is `select!` dropping it, `ReadFails` the error of a read and
`CallerLeaves` a caller that does not come back for the next message. In `WsFanout`, `WriteRow` needs the write
lock, `BeginReplay` takes a read lock unless a writer waits (tokio's lock is fair).
In `Startup`, every wait of `auth.rs` and of the startup requests takes the first
message of `inbox`: `auth.rs` takes it for the answer (`HandshakeFails` when it is not),
`bot_loop.rs` passes other messages on to `handle_incoming` (`PassOver`);
`BeginWrite` and `EndWrite` are the two ends of `fs::write`, and a `Crash` between them
leaves a prefix of the file. A process that ends takes back nothing it has sent: a
refresh request that was under way stays at the server (`orphaned`), which may rotate
the tokens later, also during the next start (`RotateLate`).

### Abstractions

- Ids, symbols, prices and timestamps are model values or absent; volumes are small
  numbers because partial and full closes and replaced orders differ by them.
- One row per id: `apply_execution` overwrites or pushes, so a table is a function
  from ids in `AccountSync` and `WsFanout`. Vec order is kept in `OrderEntry`, where
  the answer is the last row.
- The connection is a FIFO stream in each direction. Inbound that is `MessageStream`, which
  `Framing` implements until a read is torn (see the findings for when one is).
- An undecodable message ends `run` by `?`, as `ReplyFails` does in `AccountSync` and
  `CallerLeaves` in `Framing`. The bot's own
  heartbeat changes no state but the time of the last one, also when it cannot be sent
  (that is only logged); it matters as a branch that drops `recv_raw` (`Framing`) and as
  frames in the broadcast channel (`WsFanout`), and is left out of `AccountSync`.
- `OrderEntry` models the close order of a position as accepted and then filled, and
  the server's refusal as an error without an order id. A close for the whole position
  (`FullClose`: the body names no volume) looks the row up and may find none; a close
  with a volume does not look.
- A token is the number of the pair the server issued it in; `Blank` is the empty
  string or the stub of `.env.example`, `Cut` a token of which a crash left the first
  characters. Lines of other keys, comments and blank lines are one kind of line.
- In `AccountSync` a frame is sent with the write it tells of (nothing is awaited in
  between), and in `MarketData` a quote is stored with its tick: a reader on another
  thread may see the quote an instant before the tick.
- A symbol name is a word and whether it is spelled in upper case. A price is known by
  the spot event that brought it, so a quote of prices of two moments shows as one.
- `connection_status` and the frames of `emit` are in `AccountSync`; `Startup` and
  `MarketData` leave them out.

## 3. Runs

Every run checks its properties on all interleavings of its instance. The bounds:

- `AccountSync`: two orders, two positions, volumes up to 2, two messages of the
  server's own besides the reconcile answer, under fairness and without symmetry, so that
  safety, refinement and liveness are one run. Working orders and open positions may exist
  at the start, so two messages reach a fill, a partial and a full close, and two closings
  with a history of capacity 1, which evicts. The proofs lift these bounds.
- `OrderEntry`: a channel of one slot and a call of each kind, in the ranges that
  `MCOrderEntry` names (`Within`): an order call among three orders of anybody with one
  event on its way at a time; an order and a close call with one order; an order and a
  cancel call, or a close call alone, with one order and one stalled peer at a time. At
  most one row exists at the start; the server takes the lowest free order id
  (`Ascending`), as ids are interchangeable. The bounds hold back only arriving calls,
  peers and the server, none of which is assumed fair, and never the bot. `OrderEntryEcho`
  and `OrderEntryUnseen` have calls and orders of their own, without these ranges. The
  proofs cover any number of calls and orders and a channel of any capacity.
- `Framing*`: `PrefixLen = 2`, `MaxSize = 2`, three messages: prefixes can be cut, bodies
  can be empty, shorter than or as long as a prefix, and one read can hold several
  messages. The proofs lift these bounds.
- `WsFanout`: two clients, `Capacity = 2`, five frames: a client lags, and goes on
  afterwards. `WsFanoutGap` has one client and a channel that never overflows, so that only
  the gap is to blame. The proofs lift these bounds.
- `Startup`: three pairs are issued after the first one, so that two starts and a
  request of a dead process rotate the tokens; one message nobody asked for is on its way at a time. The file starts in every
  arrangement of the two keys: missing, repeated, out of order, among other lines, or
  there is none; the pair may be exported instead.
- `RestReads`: two symbols that may share a word, in two spellings, a list of up to two
  fragments (`MaxListed`), two spot events; a history of capacity 2 over three trades,
  pages of up to 2, and a `usize` of two bits, so that `page * limit` exceeds it.
- Where ids are interchangeable and no liveness is asked, symmetry is used (`RestReads`).

| Run | Shows |
|---|---|
| `AccountSync` | `TablesMirrorBook`: from a reconcile answer with a payload on, each table is the account's as of the last message, or of the one before while a message is being applied; `ImplementsMirroredBook`: what REST and WebSocket readers see moves through the account's history one message at a time, the orders at most one message behind the positions; `TradesAreNewestClosings`: the history is the newest full closings, oldest first; `FramesTellTables`: the frames of a step are exactly what it did to the tables; `EveryMessageTakenIn`: no message waits for ever, on a stream that is not torn and with readers that let go |
| `OrderEntry` | `NeverEchoesPreexisting`: the answer is never an order from before the call; `RowsAreOrdersOnce`: rows neither double nor come back; `AnswerTellsWhetherSent`: error codes tell whether the request went out; `CommandOwedToWaiter`: a waiter has one command queued, or its response; `ImplementsRequestOnce`: a request goes out at most once, never after its caller was told that it failed, and in the order it was written; `EveryCallAnswered`: unless its client or the process goes, a call waits for ever only if some peer keeps stalling the bot |
| `Framing` | `IntactUnlessTorn`, `StartupIntact`: messages arrive whole, once, in order unless a read is dropped between prefix and body; the startup steps never do that; `ImplementsMessageStream`: so the connection is the stream of messages the other modules read from; `EveryMessageReturned`: and all of them, also when the server closes right after, unless a read was torn or failed, or the caller stopped over an earlier message |
| `WsFanout` | `OnlyMissedRowsAreStale`: a client that has been sent everything is stale only on rows with a missed frame; `ViewOnlyAdvances`: nothing older than what a client shows is on its way to it; `ExecutionsFinish`: nothing holds up an execution under way but a client that is still in the replay of the very table to be written |
| `Startup` | `NextStartHoldsPair`: whatever was rotated, refused or crashed before, a start finds the pair in force, unless a process ended between sending its refresh request and the end of the write, the answer was empty, or the write failed or had no file; `OneRefreshPerStart`: no start spends two refresh tokens, one spent late by the process before it included; `NeverReplacesLivePair`: none is spent while the access token at hand is in force and lives; `ServesWhatWasLoaded`: clients are let in only when the account is there and none of the five awaited requests was refused (the spot subscription is not awaited, and its refusal is passed over); `OnlyRefusalStalls`: a start serves or ends, unless the server refused a request |
| `RestReads` | `SubscribedOnceByName`, `NoQuoteHidden`: catalog, list and quotes agree on names; `RestAgreesWithTicks`: REST shows the last tick, or something newer with a side of 0; `NoSurvivorSkipped`: paging skips no trade that was there and stays; `PagesCutHistory`: pages are exactly the slices of the history |

Each of these properties has a mutant: an operator with a plausible bug, commented
"Mutant of ..." above the definition it replaces, under which TLC finds the property
violated. They are used by no specification.

Runs with `CHECK_DEADLOCK FALSE`: all of them. The process ends, clients leave, calls
are answered once, and the bounds stop the server; that something goes on as long as
it must is what the liveness properties say.

### Findings: what the sources say and the code does not do

Six runs check a sentence of the sources and expect TLC to refute it.

| Run | The sentence | What happens |
|---|---|---|
| `AccountSyncPartialClose` | `dto.rs:143`: a trade is appended "on a closing execution"; `bot_loop.rs:537`: "Capture a Trade for closing deals" | only a deal that closes its position for good is recorded (`bot_loop.rs:538`); a partial close leaves no trade |
| `FramingTorn` | `connection.rs:80-81`: `recv_raw` reads the next message of the stream | `select!` drops it between prefix and body when a command or the heartbeat is ready; the length is lost, and the next call takes body bytes for a length |
| `OrderEntryEcho` | `orders.rs:131-133`: growth past the baseline signals *our* order | any order's row makes it grow: another call's, another terminal's |
| `OrderEntryUnseen` | `orders.rs:103-104`: a 202 means the event was not seen in time | an order accepted and filled between two polls is gone from the table; its events were seen |
| `WsFanoutGap` | `ws.rs:4-5`: the current view is replayed, then the stream forwarded | the subscription comes after both replays; a frame in between is in neither |
| `StartupNoRecovery` | `main.rs:35-37`: with a refresh token the bot can recover from an expired access token at startup "or later" | while it serves, the server's `ProtoOAAccountsTokenInvalidatedEvent` is only logged; nothing refreshes until somebody starts the process again |

Smaller observations, in the model or met beside it, without a run of their own:

- The empty position that the server creates for a pending order gets a row in
  `positions`, so `TablesMirrorBook` compares the rows with a volume (`Filled`). The row stays when the
  order ends without a position part; no property says that it must not.
- The two tables are two locks: a reader may see the positions of one message with the
  orders of the one before, for as long as a replay keeps the orders
  (`MirroredBook` promises no more). A `ReconcileRes` without a payload opens the API on
  tables that were never given the account.
- Nothing has a timeout towards a peer: a WebSocket client that stops reading in its replay
  stalls the bot loop, and with it commands, heartbeats and handlers that read the table
  (`ExecutionsFinish`, `EveryCallAnswered`); a server that never answers a startup
  request, or refuses one, leaves the start waiting.
- A close or cancel call whose row goes before the handler looks for it is answered 404
  although it succeeded (`positions.rs:75`).
- An order error without an order id is only logged, and the call it belongs to is
  answered 202 "order accepted" (`orders.rs:110`).
- The configured names are upper-cased and the catalog's are not, so a name the broker
  spells otherwise is never found. `main.rs:168` says such names were warned about when
  parsed; the parser does not know the catalog. `symbols.rs:10-11` says unknown ids are
  logged once per id; they are logged at every lookup.
- An exported token hides `.env`: after a rotation the next start still sees the old
  pair. `NextStartHoldsPair` excludes it (`shell = Absent`).
- A one-sided spot event makes REST show 0 for the other side until the next event
  with both; `RestAgreesWithTicks` says that this is all that can differ.

## 4. Fairness

Safety properties assume nothing. The liveness properties assume:

- `AccountSync`: the task is polled when a message is there and no reader keeps a table
  for ever (`WF(Receive)`; `WsFanout` and `OrderEntry` are about readers that do). The
  server need not answer the reconcile request, nor the details request after it; then
  the startup waits for ever, as the code has no timeout there, and goes on taking in
  what else comes.
- `OrderEntry`: each handler and both branches of the loop are polled. `HandleCommand`
  and `TakeEvent` are fair each on its own because tokio's `select!` picks a ready
  branch at random. `SF(Deadline)` says that time passes: a handler that keeps
  finding the table unchanged is past its deadline at some poll. Nothing is assumed
  of clients or of the server: a stall need not end.
- `Framing`: the pending `recv_raw` is polled when the socket has bytes. Failing reads
  and callers that give up may happen and need not.
- `WsFanout`: an execution under way goes on as soon as no guard keeps it from its write.
  Of the socket tasks and their clients nothing is assumed: a replay need not end.
- `Startup`: a started process runs (`WF(Authenticate)`, `WF(Proceed)`), and the server
  answers what it is asked, if only by a refusal (`WF(Server)`). Nobody has to start the
  process, and no crash is assumed or excluded.

## 5. Proofs

Every safety invariant and action property of the runs, and the three refinements, are
theorems for all values of the constants. The constants' assumptions are the only ones:
numbers are natural, capacities positive, `Absent` is none of the values it stands
beside, the broker's catalog is finite.

| Module | Theorems | The argument |
|---|---|---|
| `AccountSync_proofs` | `TypeCorrect`, `MirrorCorrect`, `Refinement`, `FramesCorrect`, `TradesCorrect` | Every step of the server publishes one well-formed message (`TradingPublishes`, `AnswerPublishes`). That the next message leads from the book reached to the next one is a fact about the stream: `MirrorInv` adds `StreamTellsBooks` (each book is the effect of its message on the book before, a reconcile answer shows the book it was made from). For the refinement, the server's steps are `Evolve`, taking a message in is `Advance` of the positions' place, of the orders' or of both, `StartLoop` is `Serve`, the rest stutters. `FramesCorrect`: a step emits no more frames than a message has parts, so what a client makes of them is unrolled frame by frame (`FramesApplied`), and each of the three frames of an execution is compared with the row it tells of (`PositionTold`, `OrderTold`, `ExecutionTold`). `TradesCorrect`: the property counts, for each closing, those taken in since; it is inductive with the types: a closing makes all earlier ones older by one, and the eviction moves them down by one. |
| `OrderEntry_proofs` | `TypeCorrect`, `AnswerCorrect`, `WaiterCorrect`, `RowsCorrect`, `EchoCorrect`, `Refinement` | `TypeInv` adds that a call under way names an order. `Owed` follows each call from its command to its response and says what it may be told. `Table` says in which order the news of an order reach the bot (`News`), those in the channel and the one being applied, and that the rows of a baseline never are further down the table than its length (`Aged`): the row behind the baseline is not one of them. `Refinement`: `HandleCommand` is `Write` where the connection takes the request, an answer is `Tell`, and `Owed` is why what a caller is told is still true then: a response `ok` or a row means that the request was written, a closed channel that it never will be. |
| `Framing_proofs` | `TypeCorrect`, `IntactCorrect`, `StartupCorrect`, `Refinement` | `IntactUnlessTorn` says nothing of where the reader stands. `FramingInv` adds `Laid` (the messages lie one behind the other, so an offset is the start of one message only) and `Aligned` (without a torn read, the reader stands at the start of the first message not delivered, or behind its prefix with its length). `Refinement`: a message written is `Send`, `ReadBody` is `Return` of the next one by `Aligned`, dropping a read between prefix and body is `Break`, the rest stutters. |
| `WsFanout_proofs` | `TypeCorrect`, `AdvanceCorrect`, `KeptCorrect` | `TypeInv` adds that a row's write is followed by its frame (`Paired`). `Advance`: the frames of a row ascend and end with the row as it is, unless its frame is still to be sent. `Behind`: a client shows nothing newer than a frame it will be sent. `Kept`: a client that missed no frame of a row shows it, or will be sent it. |
| `Startup_proofs` | `TypeCorrect`, `OneRefreshCorrect`, `NextStartCorrect`, `ReplacementCorrect`, `ServedCorrect` | `Exchange`: a request and its answer are never on their way together, so a message is an answer to what was asked. `OneSpent`: the pair in force is the one the process started with, or the next after it, which is there once the process holds or is sent a pair, and while a dead process's request is still at the server it is the first. `PairOnItsWay` and `PairSafe`: the pair in force is in a message to the process that waits for it, in its memory while it writes, or in the file; `ReplaceSays` and `LookupSays` are what rewriting does to what dotenvy finds. `Doomed`: once the server has said that the access token is invalid it stays so until the refresh is answered, since nothing revives it but a rotation, and one asked for by a dead process leaves the access token at hand out of force. `Served`: a request is asked only after the answers before it, and a refusal leaves the process with nothing on its way. `Typed`: tokens are whole when they are written. |
| `MarketData_proofs` | `MarketTypeCorrect`, `SubscriptionCorrect`, `QuotesCorrect`, `TicksCorrect` | `Agree`: the two maps of the catalog agree on every name that resolves, since an id is listed once. `Asked`: only such names were subscribed to. `Fresh`: a stored quote is newer than its name's last tick, or is that tick. |
| `TradeHistory_proofs` | `HistoryTypeCorrect`, `SurvivorsRead`, `PagesCorrect` | `Numbered`: the history is an interval of the trades recorded. `Covered`: what the pages read so far have given, counted from the newest trade of the moment, so that a trade recorded between two pages only weakens it. |
| `RestReads_proofs` | `ImplementsMarket`, `ImplementsHistory`, `TypeCorrect`, `ReadsMarket`, `ReadsHistory` | Every step of the composition is a step of one part that leaves the other alone (`StepOfParts`), so it implements each part's specification, and what is proved of a part holds of the whole. |

Only model-checked:

- liveness under fairness, which is out of the prover's reach: `EveryMessageTakenIn`,
  `EveryCallAnswered`, `EveryMessageReturned`,
  `ExecutionsFinish`, `OnlyRefusalStalls`.

## 6. Not modelled

- The wire format, TLS, protobuf decoding beyond its failing, JSON, prices and P&L
  arithmetic, logging text, metrics. The strategy endpoint has no state: it refuses.
- Partial fills of an order, `POSITION_STATUS_ERROR`, margin calls, deposits.
- An answer to `ProtoOAReconcileReq` that arrives twice (the bot asks once).
- Which of two lookups of a configured name, of `main` for the details and of
  `subscribe_to_spots` for the spots, gives what: they are one definition.
- `.env` lines in forms dotenvy reads and `replace_env_key` does not know (`export KEY=`,
  blanks around `=`): there a new line would be appended that the old one shadows. A
  `.env` in the working directory besides the one next to the sources.
- What the server does with a close of more than is open: it is not to be read from
  `src/bot`, and with it whether the volume a close without a volume takes from its row
  may be stale to any effect.

## 7. What could come next

- The close path with volumes, given the server's rules for closes that exceed the
  position.
- A composition of `Startup` with `AccountSync`: the reconcile answer of the one is the
  moment from which the other promises the tables.
  They share nothing else, and every state of the one goes with every state of the
  other, so this is for the prover rather than for TLC.
