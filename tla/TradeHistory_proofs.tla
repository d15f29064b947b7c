------------------------- MODULE TradeHistory_proofs -------------------------
(***************************************************************************)
(* Proofs about TradeHistory, for every capacity, page size and width of    *)
(* usize.                                                                   *)
(*                                                                          *)
(* NoSurvivorSkipped is not inductive: it is silent until the reader is     *)
(* done.  Covered says what the pages read so far have given it, counted    *)
(* from the newest trade of the moment, so that a trade recorded between    *)
(* two pages only weakens it; Numbered, that the history is an interval of  *)
(* the trades recorded, which turns a place in it into a number.            *)
(***************************************************************************)
EXTENDS TradeHistory, TLAPS

USE HistoryAssumption

Numbered ==
  /\ Len(history) <= recorded
  /\ \A i \in 1 .. Len(history) : history[i] = recorded - Len(history) + i

Covered ==
  reader = "reading" =>
    \A t \in Nat : /\ recorded - Len(history) < t /\ t <= mark
                   /\ recorded - page * Clamp(limit) < t
                   => t \in got

HistoryInv == HistoryTypeOK /\ Numbered /\ Covered /\ NoSurvivorSkipped

\* What the clamp of list_trades bounds: a page is neither empty nor too long.
LEMMA ClampBounds ==
  ASSUME NEW l \in Nat
  PROVE  Clamp(l) \in 1 .. MaxLimit
BY DEF Clamp

\* The start of a page is its place, or past the end of any history.
LEMMA StartPlace ==
  ASSUME NEW p \in Nat, NEW l \in Nat
  PROVE  /\ p * Clamp(l) \in Nat
         /\ Start(p, Clamp(l)) \in Nat
         /\ Start(p, Clamp(l)) <= p * Clamp(l)
         /\ Start(p, Clamp(l)) = p * Clamp(l) \/ Start(p, Clamp(l)) >= HistoryCapacity
<1>1. Clamp(l) \in Nat
  BY ClampBounds
<1>2. p * Clamp(l) \in Nat
  BY <1>1
<1> QED BY <1>2 DEF Start

\* A page is the trades at their places, counted from the newest.
LEMMA PageContent ==
  ASSUME HistoryTypeOK, Numbered, NEW p \in Nat, NEW l \in Nat
  PROVE  LET out == PageOf(history, p, l)
             place == p * Clamp(l)
         IN /\ \E size \in 0 .. Clamp(l) : out \in [1 .. size -> Nat]
            /\ out = << >> <=> DOMAIN out = {}
            /\ \A i \in 1 .. Clamp(l) : place + i <= Len(history) <=> i \in DOMAIN out
            /\ \A i \in DOMAIN out : out[i] = recorded - place - i + 1
<1> DEFINE out == PageOf(history, p, l)
           place == p * Clamp(l)
           start == Start(p, Clamp(l))
           left == Len(history) - start
           size == IF left <= 0 THEN 0 ELSE IF left < Clamp(l) THEN left ELSE Clamp(l)
<1> HIDE DEF start, place
<1>1. Clamp(l) \in 1 .. MaxLimit /\ Clamp(l) \in Nat
  BY ClampBounds
<1>2. /\ start \in Nat /\ place \in Nat /\ start <= place
      /\ start = place \/ start >= HistoryCapacity
  BY StartPlace DEF start, place
<1>3. Len(history) \in Nat /\ Len(history) <= HistoryCapacity /\ recorded \in Nat
  BY DEF HistoryTypeOK
<1>4. size \in 0 .. Clamp(l)
  BY <1>1, <1>2, <1>3
<1>5. out = [i \in 1 .. size |-> history[Len(history) - start - i + 1]]
  BY DEF PageOf, start
<1>6. DOMAIN out = 1 .. size
  BY <1>5
<1>7. ASSUME NEW i \in 1 .. size
      PROVE  out[i] = recorded - place - i + 1 /\ out[i] \in Nat
  <2> DEFINE k == Len(history) - start - i + 1
  <2>1. out[i] = history[k]
    BY <1>5
  <2>2. k \in 1 .. Len(history) /\ start = place
    BY <1>1, <1>2, <1>3
  <2>3. history[k] = recorded - Len(history) + k
    BY <2>2 DEF Numbered
  <2>4. recorded - Len(history) \in Nat
    BY <1>3 DEF Numbered
  <2> QED BY <1>2, <1>3, <2>1, <2>2, <2>3, <2>4
<1>8. out \in [1 .. size -> Nat]
  BY <1>5, <1>7
<1>9. \A i \in 1 .. Clamp(l) : place + i <= Len(history) <=> i \in 1 .. size
  BY <1>1, <1>2, <1>3
<1>10. out = << >> <=> DOMAIN out = {}
  BY <1>5, <1>6
<1> QED BY <1>4, <1>6, <1>7, <1>8, <1>9, <1>10 DEF place

LEMMA InitHistory == HistoryInit => HistoryInv
<1> SUFFICES ASSUME HistoryInit PROVE HistoryInv
  OBVIOUS
<1>1. history = << >> /\ Len(history) = 0 /\ history \in Seq(Nat) /\ DOMAIN history = {}
  BY DEF HistoryInit
<1>2. HistoryTypeOK
  BY <1>1 DEF HistoryInit, HistoryTypeOK
<1>3. Numbered /\ Covered /\ NoSurvivorSkipped
  BY <1>1 DEF HistoryInit, Numbered, Covered, NoSurvivorSkipped
<1> QED BY <1>2, <1>3 DEF HistoryInv

\* The numbers in the history are the newest recorded ones.
LEMMA HistoryNumbers ==
  ASSUME HistoryTypeOK, Numbered
  PROVE  /\ DOMAIN history = 1 .. Len(history) /\ Len(history) \in Nat
         /\ \A i \in DOMAIN history : /\ history[i] \in Nat /\ history[i] <= recorded
                                      /\ recorded - Len(history) < history[i]
         /\ \A t \in Nat : recorded - Len(history) < t /\ t <= recorded =>
              \E i \in DOMAIN history : history[i] = t
<1>1. DOMAIN history = 1 .. Len(history) /\ Len(history) \in Nat /\ recorded \in Nat
  BY DEF HistoryTypeOK
<1>2. \A i \in DOMAIN history : /\ history[i] \in Nat /\ history[i] <= recorded
                               /\ recorded - Len(history) < history[i]
  BY <1>1 DEF Numbered
<1>3. ASSUME NEW t \in Nat, recorded - Len(history) < t, t <= recorded
      PROVE  \E i \in DOMAIN history : history[i] = t
  <2> DEFINE i == t - (recorded - Len(history))
  <2>1. i \in 1 .. Len(history)
    BY <1>1, <1>3
  <2>2. history[i] = t
    BY <1>1, <1>3, <2>1 DEF Numbered
  <2> QED BY <1>1, <2>1, <2>2
<1> QED BY <1>1, <1>2, <1>3

\* Room is made before the trade is appended.
LEMMA RecordHistory ==
  ASSUME HistoryTypeOK, Numbered, Record
  PROVE  /\ history' \in Seq(Nat) /\ Len(history') <= HistoryCapacity
         /\ Len(history) <= Len(history') /\ Len(history') <= Len(history) + 1
         /\ Numbered'
<1> DEFINE kept == Evicted(history)
<1>1. history \in Seq(Nat) /\ Len(history) \in Nat /\ recorded \in Nat
  BY DEF HistoryTypeOK
<1>2. /\ kept \in Seq(Nat) /\ Len(kept) \in Nat
      /\ Len(kept) <= HistoryCapacity - 1
      /\ Len(kept) <= Len(history) /\ Len(history) - 1 <= Len(kept)
      /\ \A i \in 1 .. Len(kept) : kept[i] = recorded - Len(kept) + i
  <2>1. CASE Len(history) >= HistoryCapacity
    <3>1. kept = Tail(history) /\ history # << >>
      BY <2>1, <1>1 DEF Evicted
    <3>2. kept \in Seq(Nat) /\ Len(kept) = Len(history) - 1
      BY <1>1, <3>1
    <3>3. \A i \in 1 .. Len(kept) : kept[i] = history[i + 1]
      BY <1>1, <3>1, <3>2
    <3>4. Len(history) <= HistoryCapacity /\ HistoryCapacity \in Nat
      BY HistoryAssumption DEF HistoryTypeOK
    <3>5. \A i \in 1 .. Len(kept) : kept[i] = recorded - Len(kept) + i
      <4> TAKE i \in 1 .. Len(kept)
      <4>1. i + 1 \in 1 .. Len(history)
        BY <1>1, <3>2
      <4>2. history[i + 1] = recorded - Len(history) + (i + 1)
        BY <4>1 DEF Numbered
      <4> QED BY <1>1, <3>2, <3>3, <4>2
    <3> HIDE DEF kept
    <3> QED BY <1>1, <3>2, <3>4, <3>5
  <2>2. CASE ~(Len(history) >= HistoryCapacity)
    BY <2>2, <1>1 DEF Evicted, Numbered
  <2> QED BY <2>1, <2>2
<1> HIDE DEF kept
<1>3. history' = Append(kept, recorded + 1) /\ recorded' = recorded + 1
  BY DEF Record, kept
<1>4. history' \in Seq(Nat) /\ Len(history') = Len(kept) + 1
  BY <1>1, <1>2, <1>3
<1>5. \A i \in 1 .. Len(history') : history'[i] = recorded' - Len(history') + i
  BY <1>1, <1>2, <1>3, <1>4
<1>6. Len(history) <= recorded
  BY DEF Numbered
<1> QED BY <1>1, <1>2, <1>3, <1>4, <1>5, <1>6 DEF Numbered

\* Once the reader is done, covered means read.
LEMMA RecordKeeps == HistoryInv /\ Record => HistoryInv'
<1> SUFFICES ASSUME HistoryInv, Record PROVE HistoryInv'
  OBVIOUS
<1> USE DEF HistoryInv
<1>1. /\ recorded' = recorded + 1 /\ recorded \in Nat /\ mark \in 0 .. recorded
      /\ UNCHANGED <<reader, limit, page, got, mark>>
  BY DEF Record, readerVars, HistoryTypeOK
<1>2. HistoryTypeOK'
  BY <1>1, RecordHistory DEF HistoryTypeOK
<1>3. Numbered'
  BY RecordHistory
<1>4. Len(history') \in Nat /\ Len(history) \in Nat
  BY <1>2 DEF HistoryTypeOK
<1>5. recorded - Len(history) <= recorded' - Len(history')
  BY <1>1, <1>4, RecordHistory
<1>6. Covered'
  <2>1. page * Clamp(limit) \in Nat
    <3>1. page \in Nat /\ limit \in Nat
      BY DEF HistoryTypeOK
    <3> QED BY <3>1, StartPlace
  <2>2. (page * Clamp(limit))' = page * Clamp(limit)
    BY <1>1 DEF Clamp
  <2> QED BY <1>1, <1>4, <1>5, <2>1, <2>2 DEF Covered
<1>7. NoSurvivorSkipped'
  <2> SUFFICES ASSUME reader' = "done", NEW i \in DOMAIN history', history'[i] <= mark'
               PROVE  history'[i] \in got'
    BY DEF NoSurvivorSkipped
  <2>1. /\ history'[i] \in Nat /\ recorded' - Len(history') < history'[i]
    <3>1. i \in 1 .. Len(history') /\ history' \in Seq(Nat)
      BY <1>2 DEF HistoryTypeOK
    <3>2. history'[i] = recorded' - Len(history') + i
      BY <1>3, <3>1 DEF Numbered
    <3> QED BY <1>1, <1>4, <3>1, <3>2
  <2>2. recorded - Len(history) < history'[i] /\ history'[i] <= recorded
    BY <1>1, <1>4, <1>5, <2>1
  <2>3. PICK j \in DOMAIN history : history[j] = history'[i]
    BY <2>1, <2>2, HistoryNumbers
  <2> QED BY <1>1, <2>3 DEF NoSurvivorSkipped
<1> QED BY <1>2, <1>3, <1>6, <1>7

LEMMA BeginKeeps == HistoryInv /\ Begin => HistoryInv'
<1> SUFFICES ASSUME HistoryInv, Begin PROVE HistoryInv'
  OBVIOUS
<1> USE DEF HistoryInv
<1>1. /\ UNCHANGED <<history, recorded>> /\ reader' = "reading" /\ page' = 0
      /\ got' = {} /\ mark' = recorded /\ limit' \in 0 .. MaxLimit
  BY HistoryAssumption DEF Begin, Clamp, historyVars
<1>2. HistoryTypeOK'
  BY <1>1 DEF HistoryTypeOK
<1>3. Numbered' /\ NoSurvivorSkipped'
  BY <1>1 DEF Numbered, NoSurvivorSkipped
<1>4. Covered'
  <2>1. Clamp(limit') \in Nat
    BY <1>1, ClampBounds
  <2>2. (page * Clamp(limit))' = 0
    BY <1>1, <2>1
  <2> QED BY <1>1, <2>2 DEF Covered, HistoryTypeOK
<1> QED BY <1>2, <1>3, <1>4

LEMMA ReadPageKeeps == HistoryInv /\ ReadPage => HistoryInv'
<1> SUFFICES ASSUME HistoryInv, ReadPage PROVE HistoryInv'
  OBVIOUS
<1> USE DEF HistoryInv
<1> DEFINE out == PageOf(history, page, limit)
           place == page * Clamp(limit)
<1>1. /\ UNCHANGED <<history, recorded, limit, mark>> /\ reader = "reading"
      /\ got' = got \cup {out[i] : i \in DOMAIN out}
      /\ \/ out = << >> /\ reader' = "done" /\ page' = page
         \/ out # << >> /\ reader' = "reading" /\ page' = page + 1
  BY DEF ReadPage, historyVars
<1>2. page \in Nat /\ limit \in Nat /\ recorded \in Nat /\ Len(history) \in Nat
      /\ mark \in 0 .. recorded
  BY DEF HistoryTypeOK
<1>3. place \in Nat /\ Clamp(limit) \in 1 .. MaxLimit
  BY <1>2, ClampBounds, StartPlace
<1>4. /\ \E size \in 0 .. Clamp(limit) : out \in [1 .. size -> Nat]
      /\ out = << >> <=> DOMAIN out = {}
      /\ \A i \in 1 .. Clamp(limit) : place + i <= Len(history) <=> i \in DOMAIN out
      /\ \A i \in DOMAIN out : out[i] = recorded - place - i + 1
  BY <1>2, PageContent
<1> HIDE DEF out, place
<1>5. HistoryTypeOK'
  <2>1. \A i \in DOMAIN out : i \in 1 .. Clamp(limit) /\ out[i] \in 1 .. recorded
    <3>1. \A i \in DOMAIN out : i \in 1 .. Clamp(limit)
      BY <1>3, <1>4
    <3>2. Len(history) <= recorded
      BY DEF Numbered
    <3> QED BY <1>2, <1>3, <1>4, <3>1, <3>2
  <2>2. got' \in SUBSET (1 .. recorded')
    BY <1>1, <2>1 DEF HistoryTypeOK
  <2>3. page' \in Nat /\ reader' \in {"idle", "reading", "done"}
    BY <1>1, <1>2
  <2> QED BY <1>1, <2>2, <2>3 DEF HistoryTypeOK
<1>6. Numbered'
  BY <1>1 DEF Numbered
\* The trades of this page are those between its place and the next.
<1>7. ASSUME NEW t \in Nat, recorded - Len(history) < t, t <= mark,
             recorded - (place + Clamp(limit)) < t
      PROVE  t \in got'
  <2>1. CASE recorded - place < t
    BY <1>1, <1>7, <2>1 DEF Covered, place
  <2>2. CASE t <= recorded - place
    <3> DEFINE i == recorded - place - t + 1
    <3>1. i \in 1 .. Clamp(limit) /\ place + i <= Len(history)
      BY <1>2, <1>3, <1>7, <2>2
    <3>2. i \in DOMAIN out /\ out[i] = t
      BY <1>2, <1>3, <1>4, <3>1
    <3> QED BY <1>1, <3>2
  <2> QED BY <1>2, <1>3, <2>1, <2>2
<1>8. Covered'
  <2> SUFFICES ASSUME reader' = "reading" PROVE Covered'
    BY DEF Covered
  <2>1. page' = page + 1
    BY <1>1
  <2>2. (page * Clamp(limit))' = place + Clamp(limit)
    <3>1. \A c \in Nat : (page + 1) * c = page * c + c
      BY <1>2
    <3> QED BY <1>1, <1>3, <2>1, <3>1 DEF place
  <2> QED BY <1>1, <1>7, <2>2 DEF Covered
<1>9. NoSurvivorSkipped'
  <2> SUFFICES ASSUME reader' = "done", NEW i \in DOMAIN history, history[i] <= mark
               PROVE  history[i] \in got'
    BY <1>1 DEF NoSurvivorSkipped
  <2>1. DOMAIN out = {}
    BY <1>1, <1>4
  <2>2. Len(history) <= place
    BY <1>2, <1>3, <1>4, <2>1
  <2>3. history[i] \in Nat /\ recorded - Len(history) < history[i]
    BY HistoryNumbers
  <2> QED BY <1>2, <1>3, <1>7, <2>2, <2>3
<1> QED BY <1>5, <1>6, <1>8, <1>9

LEMMA NextHistory == HistoryInv /\ [HistoryNext]_pagingVars => HistoryInv'
<1> SUFFICES ASSUME HistoryInv, [HistoryNext]_pagingVars PROVE HistoryInv'
  OBVIOUS
<1>1. CASE UNCHANGED pagingVars
  BY <1>1 DEF pagingVars, historyVars, readerVars, HistoryInv, HistoryTypeOK, Numbered,
     Covered, NoSurvivorSkipped
<1> QED BY <1>1, RecordKeeps, BeginKeeps, ReadPageKeeps DEF HistoryNext

\* trades.rs and append_trade: the history never exceeds its capacity, and a reader has
\* been sent only trades that were recorded.
THEOREM HistoryTypeCorrect == HistorySpec => []HistoryTypeOK
<1>1. HistoryInv => HistoryTypeOK
  BY DEF HistoryInv
<1> QED BY <1>1, InitHistory, NextHistory, PTL DEF HistorySpec

\* trades.rs:35-41: a client that reads to the first empty page is sent every trade
\* that was there when it began and still is, however many are recorded and evicted
\* between its requests.
THEOREM SurvivorsRead == HistorySpec => []NoSurvivorSkipped
<1>1. HistoryInv => NoSurvivorSkipped
  BY DEF HistoryInv
<1> QED BY <1>1, InitHistory, NextHistory, PTL DEF HistorySpec

\* trades.rs:31-41: whatever page and limit a client asks for, saturation included, it is
\* sent exactly the trades at the places of that page.
THEOREM PagesCorrect == HistorySpec => []PagesCutHistory
<1>1. HistoryInv => PagesCutHistory
  <2> SUFFICES ASSUME HistoryInv, NEW p \in 0 .. UsizeMax, NEW l \in 0 .. MaxLimit + 1
               PROVE  LET out == PageOf(history, p, l)
                          place == p * Clamp(l)
                      IN /\ \A i \in 1 .. Clamp(l) :
                              place + i <= Len(history) <=> i \in DOMAIN out
                         /\ \A i \in DOMAIN out : out[i] = recorded - place - i + 1
    BY DEF PagesCutHistory
  <2>1. p \in Nat /\ l \in Nat
    OBVIOUS
  <2> QED BY <2>1, PageContent DEF HistoryInv
<1> QED BY <1>1, InitHistory, NextHistory, PTL DEF HistorySpec
=============================================================================
