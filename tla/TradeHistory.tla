---------------------------- MODULE TradeHistory ----------------------------
(***************************************************************************)
(* GET /api/trades (api/routes/trades.rs): a client reads the history page  *)
(* by page while the bot loop appends trades and evicts the oldest.         *)
(***************************************************************************)
EXTENDS Integers, Sequences

CONSTANTS HistoryCapacity,  \* state::TRADES_CAPACITY
          MaxLimit,         \* trades.rs: MAX_LIMIT
          UsizeMax,         \* the largest usize
          MaxTrades         \* bound on the trades recorded

ASSUME HistoryAssumption ==
  /\ HistoryCapacity \in Nat \ {0} /\ MaxLimit \in Nat \ {0} /\ MaxTrades \in Nat
  /\ UsizeMax \in Nat /\ HistoryCapacity <= UsizeMax /\ MaxLimit <= UsizeMax

VARIABLES
  history,   \* AppState.trades, newest at the back: trades are numbered as they come
  recorded,  \* how many trades have been recorded
  reader,    \* the client: idle, reading or done
  limit,     \* the limit parameter of its requests
  page,      \* the page it asks for next
  got,       \* the trades it has been sent
  mark       \* recorded, when it began

historyVars == <<history, recorded>>
readerVars == <<reader, limit, page, got, mark>>
pagingVars == <<historyVars, readerVars>>

-----------------------------------------------------------------------------
\* Mutant of Evicted: a trade too late.
EvictedLate(trades) == IF Len(trades) > HistoryCapacity THEN Tail(trades) ELSE trades

\* append_trade makes room first ...
Evicted(trades) == IF Len(trades) >= HistoryCapacity THEN Tail(trades) ELSE trades

\* ... and then appends.
Record ==
  /\ recorded < MaxTrades
  /\ recorded' = recorded + 1
  /\ history' = Append(Evicted(history), recorded + 1)
  /\ UNCHANGED readerVars

Clamp(l) == IF l < 1 THEN 1 ELSE IF l > MaxLimit THEN MaxLimit ELSE l

\* Mutant of Start: the product wraps around.
StartWrapping(p, l) == (p * l) % (UsizeMax + 1)

\* page.saturating_mul(limit).
Start(p, l) == IF p * l > UsizeMax THEN UsizeMax ELSE p * l

\* Mutant of PageOf: oldest first.
PageOldestFirst(trades, p, l) ==
  LET start == Start(p, Clamp(l))
      left == Len(trades) - start
      size == IF left <= 0 THEN 0 ELSE IF left < Clamp(l) THEN left ELSE Clamp(l)
  IN [i \in 1 .. size |-> trades[start + i]]

\* list_trades: newest first, skip the pages before, take one.
PageOf(trades, p, l) ==
  LET start == Start(p, Clamp(l))
      left == Len(trades) - start
      size == IF left <= 0 THEN 0 ELSE IF left < Clamp(l) THEN left ELSE Clamp(l)
  IN [i \in 1 .. size |-> trades[Len(trades) - start - i + 1]]

-----------------------------------------------------------------------------
\* A client: external.  It reads from the first page on to the first empty one,
\* each request answered under the read lock.  list_trades clamps the limit anew at
\* each request, to the same number, so that number stands for the parameter.
Begin ==
  /\ reader = "idle"
  /\ \E l \in 0 .. MaxLimit + 1 : limit' = Clamp(l)
  /\ reader' = "reading"
  /\ page' = 0 /\ got' = {} /\ mark' = recorded
  /\ UNCHANGED historyVars

ReadPage ==
  /\ reader = "reading" /\ page <= UsizeMax
  /\ LET trades == PageOf(history, page, limit)
     IN /\ got' = got \cup {trades[i] : i \in DOMAIN trades}
        /\ IF trades = << >> THEN reader' = "done" /\ UNCHANGED page
                             ELSE page' = page + 1 /\ UNCHANGED reader
  /\ UNCHANGED <<historyVars, limit, mark>>

HistoryInit ==
  /\ history = << >> /\ recorded = 0
  /\ reader = "idle" /\ limit = 0 /\ page = 0 /\ got = {} /\ mark = 0

HistoryNext == Record \/ Begin \/ ReadPage

HistorySpec == HistoryInit /\ [][HistoryNext]_pagingVars

-----------------------------------------------------------------------------
(* Properties *)

HistoryTypeOK ==
  /\ history \in Seq(Nat) /\ Len(history) <= HistoryCapacity
  /\ recorded \in Nat
  /\ reader \in {"idle", "reading", "done"}
  /\ limit \in 0 .. MaxLimit
  /\ page \in Nat
  /\ got \in SUBSET (1 .. recorded)
  /\ mark \in 0 .. recorded

\* Trades recorded between two requests shift all later pages, and the oldest may be
\* evicted: a client may be sent a trade twice, but none that was there when it
\* began and is there when it ends is skipped.
NoSurvivorSkipped ==
  reader = "done" =>
    \A i \in DOMAIN history : history[i] <= mark => history[i] \in got

\* At one moment the pages cut the history into pieces: whatever the page and the
\* limit, the i-th trade of a page is the one at its place from the newest, and a page
\* past the end is empty, also where page * limit exceeds a usize.
PagesCutHistory ==
  \A p \in 0 .. UsizeMax, l \in 0 .. MaxLimit + 1 :
    LET out == PageOf(history, p, l)
        place == p * Clamp(l)
    IN /\ \A i \in 1 .. Clamp(l) :
            place + i <= Len(history) <=> i \in DOMAIN out
       /\ \A i \in DOMAIN out : out[i] = recorded - place - i + 1
=============================================================================
