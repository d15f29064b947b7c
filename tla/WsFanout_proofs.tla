--------------------------- MODULE WsFanout_proofs ---------------------------
(***************************************************************************)
(* Theorems about WsFanout, for any number of clients, rows and frames and  *)
(* a broadcast channel of any capacity.                                     *)
(*                                                                          *)
(* What a client shows follows from what the channel holds: Advance says    *)
(* that the frames of a row advance and end with it, or that the bot loop   *)
(* has one still to send (Pending); Kept, that a client which has missed no *)
(* frame of a row shows it, or will be sent it; Behind, that it shows       *)
(* nothing newer than the row or a frame it is still to be sent.            *)
(***************************************************************************)
EXTENDS WsFanout, SequenceTheorems, TLAPS

USE WsFanoutAssumption

-----------------------------------------------------------------------------
(* Types *)

Item == [do : {"write", "emit"}, row : Row \cup {Absent}]
Frame == [row : Row \cup {Absent}, write : Nat]

\* A row's write is followed by its frame.
Paired(w) ==
  \A i \in DOMAIN w : w[i].do = "write" =>
    /\ w[i].row \in Row
    /\ i + 1 \in DOMAIN w /\ w[i + 1].do = "emit" /\ w[i + 1].row = w[i].row

TypeInv == TypeOK /\ Paired(work)

LEMMA TakeFirst ==
  ASSUME NEW S, NEW s \in Seq(S), s # << >>
  PROVE  /\ Head(s) \in S /\ Head(s) = s[1] /\ 1 \in DOMAIN s /\ Tail(s) \in Seq(S)
         /\ \A i \in DOMAIN Tail(s) : i \in Nat /\ i + 1 \in DOMAIN s /\ Tail(s)[i] = s[i + 1]
         /\ \A i \in DOMAIN s : i = 1 \/ \E j \in DOMAIN Tail(s) : i = j + 1
         /\ \A i \in DOMAIN s : i # 1 => i - 1 \in DOMAIN Tail(s)
<1>1. /\ Len(s) \in Nat /\ Len(s) > 0 /\ DOMAIN s = 1 .. Len(s)
      /\ Head(s) = s[1] /\ Tail(s) \in Seq(S) /\ DOMAIN Tail(s) = 1 .. Len(s) - 1
      /\ \A i \in 1 .. Len(s) - 1 : Tail(s)[i] = s[i + 1]
  OBVIOUS
<1>2. \A i \in 2 .. Len(s) : i - 1 \in DOMAIN Tail(s) /\ i = (i - 1) + 1
  BY <1>1
<1>3. \A i \in DOMAIN s : i = 1 \/ i \in 2 .. Len(s)
  BY <1>1
<1>4. \A i \in DOMAIN s : i = 1 \/ \E j \in DOMAIN Tail(s) : i = j + 1
  BY <1>2, <1>3
<1>5. \A i \in DOMAIN s : i # 1 => i - 1 \in DOMAIN Tail(s)
  BY <1>2, <1>3
<1>6. Head(s) \in S /\ 1 \in DOMAIN s
  BY <1>1
<1>7. \A i \in DOMAIN Tail(s) : i \in Nat /\ i + 1 \in DOMAIN s /\ Tail(s)[i] = s[i + 1]
  BY <1>1
<1> QED BY <1>1, <1>4, <1>5, <1>6, <1>7

LEMMA PutLast ==
  ASSUME NEW S, NEW s \in Seq(S), NEW e \in S
  PROVE  /\ Append(s, e) \in Seq(S) /\ Len(Append(s, e)) = Len(s) + 1 /\ Len(s) \in Nat
         /\ Len(s) + 1 \in DOMAIN Append(s, e) /\ Append(s, e)[Len(s) + 1] = e
         /\ \A i \in DOMAIN s : i \in DOMAIN Append(s, e) /\ Append(s, e)[i] = s[i]
                                /\ i <= Len(s)
         /\ \A i \in DOMAIN Append(s, e) : i \in DOMAIN s \/ i = Len(s) + 1
OBVIOUS

LEMMA JoinPaired ==
  ASSUME NEW u \in Seq(Item), NEW v \in Seq(Item), Paired(u), Paired(v)
  PROVE  u \o v \in Seq(Item) /\ Paired(u \o v)
<1> DEFINE w == u \o v
<1>1. /\ w \in Seq(Item) /\ Len(w) = Len(u) + Len(v)
      /\ \A i \in 1 .. Len(u) + Len(v) : w[i] = IF i <= Len(u) THEN u[i] ELSE v[i - Len(u)]
  BY ConcatProperties
<1>2. /\ Len(u) \in Nat /\ Len(v) \in Nat /\ DOMAIN u = 1 .. Len(u) /\ DOMAIN v = 1 .. Len(v)
      /\ DOMAIN w = 1 .. Len(u) + Len(v)
  BY <1>1
<1> HIDE DEF w
<1>3. Paired(w)
  <2> SUFFICES ASSUME NEW i \in DOMAIN w, w[i].do = "write"
               PROVE  /\ w[i].row \in Row /\ i + 1 \in DOMAIN w
                      /\ w[i + 1].do = "emit" /\ w[i + 1].row = w[i].row
    BY DEF Paired
  <2>1. i \in 1 .. Len(u) + Len(v)
    BY <1>2
  <2>2. CASE i <= Len(u)
    <3>1. w[i] = u[i] /\ i \in DOMAIN u
      BY <1>1, <1>2, <2>1, <2>2
    <3>2. u[i].row \in Row /\ i + 1 \in DOMAIN u /\ u[i + 1].do = "emit" /\ u[i + 1].row = u[i].row
      BY <2>2, <3>1 DEF Paired
    <3>3. i + 1 \in 1 .. Len(u) + Len(v) /\ i + 1 <= Len(u)
      BY <1>2, <3>2
    <3>4. w[i + 1] = u[i + 1]
      BY <1>1, <3>3
    <3> QED BY <1>2, <3>1, <3>2, <3>3, <3>4
  <2>3. CASE ~(i <= Len(u))
    <3> DEFINE j == i - Len(u)
    <3>1. w[i] = v[j] /\ j \in DOMAIN v /\ j \in Nat
      BY <1>1, <1>2, <2>1, <2>3
    <3>2. v[j].row \in Row /\ j + 1 \in DOMAIN v /\ v[j + 1].do = "emit" /\ v[j + 1].row = v[j].row
      BY <3>1 DEF Paired
    <3>3. i + 1 \in 1 .. Len(u) + Len(v) /\ ~(i + 1 <= Len(u)) /\ (i + 1) - Len(u) = j + 1
      BY <1>2, <2>1, <2>3, <3>2
    <3>4. w[i + 1] = v[j + 1]
      BY <1>1, <3>3
    <3> QED BY <1>2, <3>1, <3>2, <3>3, <3>4
  <2> QED BY <2>2, <2>3
<1> QED BY <1>1, <1>3 DEF w

LEMMA SideSays ==
  ASSUME NEW rows, rows = {} \/ \E r \in Row : rows = {r}
  PROVE  Side(rows) \in Seq(Item) /\ Paired(Side(rows))
<1>1. CASE rows = {}
  BY <1>1 DEF Side, Paired
<1>2. CASE \E r \in Row : rows = {r}
  <2>1. PICK r \in Row : rows = {r}
    BY <1>2
  <2> DEFINE first == [do |-> "write", row |-> r]
             second == [do |-> "emit", row |-> r]
             both == <<first>> \o <<second>>
  <2>2. rows # {} /\ (CHOOSE x \in rows : TRUE) = r
    BY <2>1
  <2>3. Side(rows) = both
    BY <2>2 DEF Side, Write, Emit
  <2>4. first \in Item /\ second \in Item
    BY DEF Item
  <2>5. /\ first.do = "write" /\ first.row = r /\ second.do = "emit" /\ second.row = r
    OBVIOUS
  <2> HIDE DEF first, second
  <2>6. both = Append(<<first>>, second)
    BY <2>4, AppendIsConcat
  <2>7. /\ both \in Seq(Item) /\ DOMAIN both = 1 .. 2 /\ both[1] = first /\ both[2] = second
    BY <2>4, <2>6
  <2> HIDE DEF both
  <2>8. Paired(both)
    BY <2>5, <2>7 DEF Paired
  <2> QED BY <2>3, <2>7, <2>8
<1> QED BY <1>1, <1>2

\* What an event makes the bot loop do.
LEMMA ExecutionWork ==
  ASSUME BeginExecution
  PROVE  work' \in Seq(Item) /\ Paired(work')
<1>1. PICK ps \in {{}} \cup {{p} : p \in PositionId}, os \in {{}} \cup {{o} : o \in OrderId} :
        work' = (Side(ps) \o Side(os)) \o (IF os = {} THEN << >> ELSE Emit(Absent))
  BY DEF BeginExecution
<1>2. /\ Side(ps) \in Seq(Item) /\ Paired(Side(ps))
      /\ Side(os) \in Seq(Item) /\ Paired(Side(os))
  BY SideSays DEF Row
<1>3. << >> \in Seq(Item) /\ Paired(<< >>)
  BY DEF Paired
<1>4. Emit(Absent) \in Seq(Item) /\ Paired(Emit(Absent))
  BY DEF Emit, Item, Paired
<1> DEFINE last == IF os = {} THEN << >> ELSE Emit(Absent)
<1>5. last \in Seq(Item) /\ Paired(last)
  BY <1>3, <1>4
<1> HIDE DEF last
<1>6. Side(ps) \o Side(os) \in Seq(Item) /\ Paired(Side(ps) \o Side(os))
  BY <1>2, JoinPaired
<1>7. work' = (Side(ps) \o Side(os)) \o last
  BY <1>1 DEF last
<1> QED BY <1>5, <1>6, <1>7, JoinPaired

LEMMA InitType == Init => TypeInv
<1> SUFFICES ASSUME Init PROVE TypeInv
  OBVIOUS
<1>1. DOMAIN work = {} /\ work \in Seq(Item) /\ log \in Seq(Frame) /\ Len(log) = 0
  BY DEF Init
<1>2. TypeOK
  BY <1>1 DEF Init, TypeOK, Stages, Item, Frame
<1> QED BY <1>1, <1>2 DEF TypeInv, Paired

\* A frame is sent.
LEMMA SendType ==
  ASSUME TypeOK, NEW r \in Row \cup {Absent}, Send(r)
  PROVE  /\ log' \in Seq(Frame)
         /\ cursor \in [Client -> 0 .. Len(log')]
         /\ missed' \in [Client -> SUBSET Row]
<1>1. [row |-> r, write |-> IF r = Absent THEN 0 ELSE table[r]] \in Frame /\ log \in Seq(Frame)
  BY DEF TypeOK, Frame
<1>2. log' \in Seq(Frame) /\ Len(log') = Len(log) + 1 /\ Len(log) \in Nat
  BY <1>1, PutLast DEF Send
<1>3. cursor \in [Client -> 0 .. Len(log')]
  BY <1>2 DEF TypeOK
<1>4. missed' \in [Client -> SUBSET Row]
  BY DEF Send, TypeOK
<1> QED BY <1>2, <1>3, <1>4

LEMMA BotType ==
  ASSUME TypeInv, BotLoop
  PROVE  TypeInv'
<1>1. /\ work \in Seq(Item) /\ writes \in Nat /\ table \in [Row -> 0 .. writes]
      /\ TypeOK /\ Paired(work)
  BY DEF TypeInv, TypeOK, Item
<1>2. ASSUME work # << >>, work' = Tail(work)
      PROVE  work' \in Seq(Item) /\ Paired(work') /\ Head(work) \in Item
             /\ (Head(work).do = "write" => Head(work).row \in Row)
  <2>1. /\ Head(work) \in Item /\ Head(work) = work[1] /\ 1 \in DOMAIN work /\ work' \in Seq(Item)
        /\ \A i \in DOMAIN work' : i \in Nat /\ i + 1 \in DOMAIN work /\ work'[i] = work[i + 1]
        /\ \A i \in DOMAIN work : i # 1 => i - 1 \in DOMAIN work'
    BY <1>1, <1>2, TakeFirst
  <2>2. Paired(work')
    <3> SUFFICES ASSUME NEW i \in DOMAIN work', work'[i].do = "write"
                 PROVE  /\ work'[i].row \in Row /\ i + 1 \in DOMAIN work'
                        /\ work'[i + 1].do = "emit" /\ work'[i + 1].row = work'[i].row
      BY DEF Paired
    <3>1. i \in Nat /\ i + 1 \in DOMAIN work /\ work'[i] = work[i + 1]
      BY <2>1
    <3>2. /\ work[i + 1].row \in Row /\ (i + 1) + 1 \in DOMAIN work
          /\ work[(i + 1) + 1].do = "emit" /\ work[(i + 1) + 1].row = work[i + 1].row
      BY <1>1, <3>1 DEF Paired
    <3>3. (i + 1) + 1 # 1 /\ ((i + 1) + 1) - 1 = i + 1
      BY <3>1
    <3>4. i + 1 \in DOMAIN work'
      BY <2>1, <3>2, <3>3
    <3>5. work'[i + 1] = work[(i + 1) + 1]
      BY <2>1, <3>4
    <3> QED BY <3>1, <3>2, <3>4, <3>5
  <2> QED BY <1>1, <2>1, <2>2 DEF Paired
<1>3. CASE BeginExecution
  BY <1>1, <1>3, ExecutionWork DEF BeginExecution, TypeInv, TypeOK, Item
<1>4. CASE WriteRow
  <2>1. /\ work' \in Seq(Item) /\ Paired(work') /\ Head(work).row \in Row
        /\ writes' = writes + 1 /\ table' = [table EXCEPT ![Head(work).row] = writes']
        /\ UNCHANGED <<log, pc, view, cursor, missed>>
    BY <1>2, <1>4 DEF WriteRow
  <2>2. writes' \in Nat /\ table' \in [Row -> 0 .. writes']
    BY <1>1, <2>1
  <2> QED BY <1>1, <2>1, <2>2 DEF TypeInv, TypeOK, Item
<1>5. CASE EmitFrame
  <2>1. work' \in Seq(Item) /\ Paired(work') /\ Head(work).row \in Row \cup {Absent}
    BY <1>2, <1>5 DEF EmitFrame, Item
  <2>2. /\ log' \in Seq(Frame) /\ cursor \in [Client -> 0 .. Len(log')]
        /\ missed' \in [Client -> SUBSET Row]
    BY <1>1, <1>5, <2>1, SendType DEF EmitFrame
  <2> QED BY <1>1, <1>5, <2>1, <2>2 DEF EmitFrame, TypeInv, TypeOK, Item, Frame
<1>6. CASE EmitOther
  <2>1. /\ log' \in Seq(Frame) /\ cursor \in [Client -> 0 .. Len(log')]
        /\ missed' \in [Client -> SUBSET Row]
    BY <1>1, <1>6, SendType DEF EmitOther
  <2> QED BY <1>1, <1>6, <2>1 DEF EmitOther, TypeInv, TypeOK, Frame
<1> QED BY <1>3, <1>4, <1>5, <1>6 DEF BotLoop

LEMMA ClientType ==
  ASSUME TypeInv, NEW c \in Client, Connect(c) \/ Socket(c) \/ Leave(c)
  PROVE  TypeInv'
<1>1. /\ log \in Seq(Frame) /\ Len(log) \in Nat /\ Retained \in 0 .. Len(log)
      /\ DOMAIN log = 1 .. Len(log)
  BY DEF TypeInv, TypeOK, Frame, Retained
<1>2. CASE Connect(c) \/ BeginReplay(c) \/ Leave(c)
  BY <1>2 DEF Connect, BeginReplay, Leave, Goto, TypeInv, TypeOK, Stages
<1>3. CASE EndReplay(c)
  BY <1>3 DEF EndReplay, Goto, TypeInv, TypeOK, Stages
<1>4. CASE Subscribe(c)
  BY <1>1, <1>4 DEF Subscribe, FirstFrame, Goto, TypeInv, TypeOK, Stages
<1>5. CASE Forward(c)
  <2>1. cursor[c] + 1 \in 1 .. Len(log)
    BY <1>1, <1>5 DEF Forward, TypeInv, TypeOK
  <2>2. log[cursor[c] + 1] \in Frame
    BY <1>1, <2>1
  <2>3. cursor' \in [Client -> 0 .. Len(log)]
    BY <1>1, <1>5, <2>1 DEF Forward, TypeInv, TypeOK
  <2>4. view' \in [Client -> [Row -> Nat]] /\ missed' \in [Client -> SUBSET Row]
    <3> DEFINE f == log[cursor[c] + 1]
    <3>1. f.row \in Row \cup {Absent} /\ f.write \in Nat
      BY <2>2 DEF Frame
    <3>2. \/ f.row = Absent /\ UNCHANGED <<view, missed>>
          \/ /\ f.row # Absent /\ view' = [view EXCEPT ![c][f.row] = f.write]
             /\ missed' = [missed EXCEPT ![c] = @ \ {f.row}]
      BY <1>5 DEF Forward
    <3> HIDE DEF f
    <3>3. view \in [Client -> [Row -> Nat]] /\ missed \in [Client -> SUBSET Row]
      BY DEF TypeInv, TypeOK
    <3>4. CASE f.row = Absent
      BY <3>2, <3>3, <3>4
    <3>5. CASE f.row # Absent
      <4>1. view[c] \in [Row -> Nat] /\ f.row \in Row
        BY <3>1, <3>3, <3>5
      <4>2. [view[c] EXCEPT ![f.row] = f.write] \in [Row -> Nat]
        BY <3>1, <4>1
      <4>3. view' = [view EXCEPT ![c] = [view[c] EXCEPT ![f.row] = f.write]]
        BY <3>2, <3>5
      <4>4. view' \in [Client -> [Row -> Nat]]
        BY <3>3, <4>2, <4>3
      <4> QED BY <3>2, <3>3, <3>5, <4>4
    <3> QED BY <3>4, <3>5
  <2> QED BY <1>5, <2>3, <2>4 DEF Forward, TypeInv, TypeOK
<1>6. CASE Lagged(c)
  BY <1>1, <1>6 DEF Lagged, TypeInv, TypeOK
<1> QED BY <1>2, <1>3, <1>4, <1>5, <1>6 DEF Socket

LEMMA NextType == TypeInv /\ [Next]_vars => TypeInv'
<1> SUFFICES ASSUME TypeInv, [Next]_vars PROVE TypeInv'
  OBVIOUS
<1>1. CASE UNCHANGED vars
  BY <1>1 DEF vars, TypeInv, TypeOK, Paired
<1> QED BY <1>1, BotType, ClientType DEF Next

THEOREM TypeInvCorrect == Spec => []TypeInv
BY InitType, NextType, PTL DEF Spec

\* The variables keep their types; in particular no receiver is ahead of the channel.
THEOREM TypeCorrect == Spec => []TypeOK
<1>1. TypeInv => TypeOK
  BY DEF TypeInv
<1> QED BY <1>1, TypeInvCorrect, PTL

-----------------------------------------------------------------------------
(* What the clients show *)

\* The bot loop has a frame of the row still to send.
Pending(r) == \E i \in DOMAIN work : work[i].do = "emit" /\ work[i].row = r

\* The frames of a row advance, not beyond the row, and lead to the row as it is.
Advance(r) ==
  /\ \A i \in DOMAIN log : log[i].row = r => log[i].write <= table[r]
  /\ \A i, j \in DOMAIN log : i <= j /\ log[i].row = r /\ log[j].row = r
                              => log[i].write <= log[j].write
  /\ \A i \in DOMAIN log : log[i].row = r =>
       Pending(r) \/ \E j \in DOMAIN log : i <= j /\ log[j].row = r /\ log[j].write = table[r]

\* A client is not ahead of the row, nor of the frames it will be sent.
Behind(c, r) ==
  /\ view[c][r] <= table[r]
  /\ pc[c] = "live" =>
       \A i \in DOMAIN log : i > cursor[c] /\ log[i].row = r => view[c][r] <= log[i].write

\* A client that has been sent a row since it connected, and missed none of its
\* frames, shows it or will be sent it.
Covered(c, r) == pc[c] = "live" \/ InGap(c, r)

Kept(c, r) ==
  Covered(c, r) /\ r \notin missed[c] =>
    \/ Pending(r) \/ view[c][r] = table[r]
    \/ /\ pc[c] = "live"
       /\ \E j \in DOMAIN log : j > cursor[c] /\ log[j].row = r /\ log[j].write = table[r]

FanoutInv == \A r \in Row : Advance(r) /\ \A c \in Client : Behind(c, r) /\ Kept(c, r)

LEMMA InitFanout == Init => FanoutInv
<1> SUFFICES ASSUME Init, NEW r \in Row
             PROVE  Advance(r) /\ \A c \in Client : Behind(c, r) /\ Kept(c, r)
  BY DEF FanoutInv
<1>1. DOMAIN log = {} /\ table[r] = 0
      /\ \A c \in Client : view[c][r] = 0 /\ pc[c] = "closed"
  BY DEF Init
<1> QED BY <1>1 DEF Advance, Behind, Kept, Covered, InGap

\* A row is written: its frame is still to be sent.
LEMMA WriteFanout ==
  ASSUME TypeInv, FanoutInv, WriteRow
  PROVE  FanoutInv'
<1>0. /\ work \in Seq(Item) /\ work # << >> /\ work' = Tail(work) /\ Head(work).do = "write"
      /\ writes' = writes + 1 /\ table' = [table EXCEPT ![Head(work).row] = writes']
      /\ UNCHANGED <<log, pc, view, cursor, missed>>
      /\ writes \in Nat /\ table \in [Row -> 0 .. writes] /\ view \in [Client -> [Row -> Nat]]
      /\ log \in Seq(Frame)
  BY DEF WriteRow, TypeInv, TypeOK, Item, Frame
<1>2. /\ Head(work) = work[1] /\ 1 \in DOMAIN work
      /\ \A i \in DOMAIN Tail(work) : i \in Nat /\ i + 1 \in DOMAIN work /\ Tail(work)[i] = work[i + 1]
      /\ \A i \in DOMAIN work : i # 1 => i - 1 \in DOMAIN Tail(work)
      /\ \A i \in DOMAIN work : i = 1 \/ \E j \in DOMAIN Tail(work) : i = j + 1
  BY <1>0, TakeFirst
<1>3. PICK r0 \in Row : Head(work).row = r0 /\ 2 \in DOMAIN work /\ work[2].do = "emit"
                        /\ work[2].row = r0
  <2>1. 1 + 1 = 2
    OBVIOUS
  <2> QED BY <1>0, <1>2, <2>1 DEF TypeInv, Paired
<1>1. table' = [table EXCEPT ![r0] = writes']
  BY <1>0, <1>3
<1>4. Pending(r0)'
  <2>1. 2 - 1 = 1 /\ 1 + 1 = 2
    OBVIOUS
  <2>2. 1 \in DOMAIN work'
    BY <1>0, <1>1, <1>2, <1>3, <2>1
  <2>3. work'[1] = work[2]
    BY <1>0, <1>1, <1>2, <2>1, <2>2
  <2> QED BY <1>3, <2>2, <2>3 DEF Pending
<1>5. \A r \in Row : Pending(r) => Pending(r)'
  BY <1>0, <1>1, <1>2 DEF Pending
<1>6. \A r \in Row : /\ table[r] \in Nat /\ table'[r] \in Nat /\ table[r] <= table'[r]
                     /\ r # r0 => table'[r] = table[r]
  BY <1>0, <1>1, <1>3
<1> SUFFICES ASSUME NEW r \in Row PROVE Advance(r)' /\ \A c \in Client : Behind(c, r)' /\ Kept(c, r)'
  BY DEF FanoutInv
<1>7. \A i \in DOMAIN log : log[i].write \in Nat
  <2>1. \A i \in DOMAIN log : log[i] \in Frame
    BY <1>0, <1>1
  <2> QED BY <2>1 DEF Frame
<1>8. Advance(r)'
  <2>1. Advance(r) /\ log' = log
    BY <1>0 DEF FanoutInv
  <2>4. /\ table[r] \in Nat /\ table'[r] \in Nat /\ table[r] <= table'[r]
        /\ r # r0 => table'[r] = table[r]
    BY <1>6
  <2>5. Pending(r) => Pending(r)'
    BY <1>5
  <2>2. ASSUME NEW i \in DOMAIN log, log[i].row = r
        PROVE  log[i].write <= table'[r]
    <3>1. log[i].write <= table[r] /\ log[i].write \in Nat
      BY <1>7, <2>1, <2>2 DEF Advance
    <3> QED BY <2>4, <3>1
  <2>3. \A i \in DOMAIN log : log[i].row = r =>
          Pending(r)' \/ \E j \in DOMAIN log : i <= j /\ log[j].row = r /\ log[j].write = table'[r]
    <3>1. CASE r = r0
      BY <1>4, <3>1
    <3>2. CASE r # r0
      <4>1. table'[r] = table[r]
        BY <2>4, <3>2
      <4>2. \A i \in DOMAIN log : log[i].row = r =>
              Pending(r) \/ \E j \in DOMAIN log : i <= j /\ log[j].row = r /\ log[j].write = table[r]
        BY <2>1 DEF Advance
      <4> QED BY <2>5, <4>1, <4>2
    <3> QED BY <3>1, <3>2
  <2> QED BY <2>1, <2>2, <2>3 DEF Advance
<1>9. ASSUME NEW c \in Client PROVE Behind(c, r)' /\ Kept(c, r)'
  <2>1. view[c][r] \in Nat /\ Behind(c, r) /\ Kept(c, r)
    BY <1>0, <1>1 DEF FanoutInv
  <2>2. Behind(c, r)'
    BY <1>0, <1>1, <1>6, <2>1 DEF Behind
  <2>3. Kept(c, r)'
    BY <1>0, <1>1, <1>4, <1>5, <1>6, <2>1 DEF Kept, Covered, InGap
  <2> QED BY <2>2, <2>3
<1> QED BY <1>8, <1>9

\* A frame is sent: it holds the row as it is, and who is in the gap misses it.
LEMMA SendFanout ==
  ASSUME TypeInv, FanoutInv, NEW r0 \in Row \cup {Absent}, Send(r0),
         UNCHANGED <<table, pc, view, cursor>>,
         \A r \in Row : Pending(r) => r = r0 \/ Pending(r)'
  PROVE  FanoutInv'
<1> DEFINE e == [row |-> r0, write |-> IF r0 = Absent THEN 0 ELSE table[r0]]
           n == Len(log) + 1
<1>1. /\ log \in Seq(Frame) /\ table \in [Row -> 0 .. writes] /\ writes \in Nat
      /\ view \in [Client -> [Row -> Nat]] /\ cursor \in [Client -> 0 .. Len(log)]
      /\ missed \in [Client -> SUBSET Row] /\ Len(log) \in Nat
  BY DEF TypeInv, TypeOK, Frame
<1>2. /\ e \in Frame /\ e.row = r0 /\ (r0 # Absent => e.write = table[r0])
  BY <1>1 DEF Frame
<1>3. log' = Append(log, e)
  BY DEF Send
<1> HIDE DEF e
<1>4. /\ n \in DOMAIN log' /\ log'[n] = e
      /\ \A i \in DOMAIN log : i \in DOMAIN log' /\ log'[i] = log[i] /\ i < n /\ i \in Nat
      /\ \A i \in DOMAIN log' : i \in DOMAIN log \/ i = n
  BY <1>1, <1>2, <1>3, PutLast
<1>5. \A c \in Client : /\ cursor[c] < n /\ cursor[c] \in Nat
                       /\ \A r \in Row : view[c][r] \in Nat
  BY <1>1
<1>6. \A c \in Client : missed'[c] = IF r0 # Absent /\ InGap(c, r0)
                                       THEN missed[c] \cup {r0} ELSE missed[c]
  BY DEF Send
<1> HIDE DEF n
<1>7. \A i \in DOMAIN log : log[i].write \in Nat
  <2>1. \A i \in DOMAIN log : log[i] \in Frame
    BY <1>1
  <2> QED BY <2>1 DEF Frame
<1> SUFFICES ASSUME NEW r \in Row PROVE Advance(r)' /\ \A c \in Client : Behind(c, r)' /\ Kept(c, r)'
  BY DEF FanoutInv
<1>8. r # Absent /\ table[r] \in Nat /\ Advance(r)
  BY <1>1 DEF FanoutInv
<1>9. Advance(r)'
  <2>1. \A i \in DOMAIN log' : log'[i].row = r => log'[i].write <= table'[r]
    BY <1>2, <1>4, <1>8 DEF Advance
  <2>2. \A i, j \in DOMAIN log' : i <= j /\ log'[i].row = r /\ log'[j].row = r
                                 => log'[i].write <= log'[j].write
    <3> SUFFICES ASSUME NEW i \in DOMAIN log', NEW j \in DOMAIN log', i <= j,
                        log'[i].row = r, log'[j].row = r
                 PROVE  log'[i].write <= log'[j].write
      OBVIOUS
    <3>1. CASE j = n
      <4>1. log'[j].write = table[r]
        BY <1>2, <1>4, <1>8, <3>1
      <4> QED BY <2>1, <4>1
    <3>2. CASE j # n
      <4>1. n \in Nat /\ j < n /\ j \in Nat /\ j \in DOMAIN log
        BY <1>1, <1>4, <3>2 DEF n
      <4>2. i \in DOMAIN log
        BY <1>4, <4>1
      <4> QED BY <1>4, <1>8, <4>1, <4>2 DEF Advance
    <3> QED BY <3>1, <3>2
  <2>3. ASSUME NEW i \in DOMAIN log', log'[i].row = r
        PROVE  Pending(r)' \/ \E j \in DOMAIN log' : i <= j /\ log'[j].row = r
                                                     /\ log'[j].write = table'[r]
    <3>0. n \in Nat /\ i \in Nat /\ i <= n
      BY <1>1, <1>4 DEF n
    <3>1. CASE r = r0
      BY <1>2, <1>4, <1>8, <3>0, <3>1
    <3>2. CASE r # r0
      <4>1. i \in DOMAIN log /\ log[i].row = r
        BY <1>2, <1>4, <2>3, <3>2
      <4>2. Pending(r) \/ \E j \in DOMAIN log : i <= j /\ log[j].row = r /\ log[j].write = table[r]
        BY <1>8, <4>1 DEF Advance
      <4> QED BY <1>4, <3>2, <4>2
    <3> QED BY <3>1, <3>2
  <2> QED BY <2>1, <2>2, <2>3 DEF Advance
<1>10. ASSUME NEW c \in Client PROVE Behind(c, r)' /\ Kept(c, r)'
  <2>1. Behind(c, r) /\ Kept(c, r)
    BY DEF FanoutInv
  <2>2. Behind(c, r)'
    BY <1>2, <1>4, <1>8, <2>1 DEF Behind
  <2>3. Kept(c, r)'
    <3>1. CASE r = r0
      BY <1>2, <1>4, <1>5, <1>6, <1>8, <3>1 DEF Kept, Covered, InGap
    <3>2. CASE r # r0
      BY <1>4, <1>6, <2>1, <3>2 DEF Kept, Covered, InGap
    <3> QED BY <3>1, <3>2
  <2> QED BY <2>2, <2>3
<1> QED BY <1>9, <1>10

LEMMA EmitFanout ==
  ASSUME TypeInv, FanoutInv, EmitFrame \/ EmitOther
  PROVE  FanoutInv'
<1>1. CASE EmitFrame
  <2>1. work \in Seq(Item) /\ work # << >> /\ work' = Tail(work) /\ Send(Head(work).row)
        /\ UNCHANGED <<table, pc, view, cursor>>
    BY <1>1 DEF EmitFrame, TypeInv, TypeOK, Item
  <2>2. /\ Head(work) \in Item /\ Head(work) = work[1]
        /\ \A i \in DOMAIN Tail(work) : i \in Nat /\ i + 1 \in DOMAIN work
                                       /\ Tail(work)[i] = work[i + 1]
        /\ \A i \in DOMAIN work : i = 1 \/ \E j \in DOMAIN Tail(work) : i = j + 1
    BY <2>1, TakeFirst
  <2>3. Head(work).row \in Row \cup {Absent}
    BY <2>2 DEF Item
  <2>4. \A r \in Row : Pending(r) => r = Head(work).row \/ Pending(r)'
    BY <2>1, <2>2 DEF Pending
  <2> QED BY <2>1, <2>3, <2>4, SendFanout
<1>2. CASE EmitOther
  <2>1. Send(Absent) /\ UNCHANGED <<table, work, pc, view, cursor>>
    BY <1>2 DEF EmitOther
  <2>2. \A r \in Row : Pending(r) => Pending(r)'
    BY <2>1 DEF Pending
  <2> QED BY <2>1, <2>2, SendFanout
<1> QED BY <1>1, <1>2

\* The steps of a client's socket task.
LEMMA ClientFanout ==
  ASSUME TypeInv, FanoutInv, NEW c \in Client, Connect(c) \/ Socket(c) \/ Leave(c)
  PROVE  FanoutInv'
<1>1. /\ log \in Seq(Frame) /\ table \in [Row -> 0 .. writes] /\ writes \in Nat
      /\ pc \in [Client -> Stages] /\ view \in [Client -> [Row -> Nat]]
      /\ cursor \in [Client -> 0 .. Len(log)] /\ missed \in [Client -> SUBSET Row]
  BY DEF TypeInv, TypeOK, Frame
<1>2. UNCHANGED <<table, work, log>>
  BY DEF Connect, Socket, BeginReplay, EndReplay, Subscribe, Forward, Lagged, Leave
<1>3. \A r \in Row : Advance(r)' /\ (Pending(r)' <=> Pending(r))
  BY <1>2 DEF FanoutInv, Advance, Pending
<1>4. /\ DOMAIN log = 1 .. Len(log) /\ Len(log) \in Nat /\ DOMAIN log \subseteq Nat
      /\ \A i \in DOMAIN log : log[i].write \in Nat /\ log[i].row \in Row \cup {Absent}
  <2>1. \A i \in DOMAIN log : log[i] \in Frame
    BY <1>1
  <2> QED BY <1>1, <2>1 DEF Frame
<1>5. \A d \in Client \ {c} : /\ pc'[d] = pc[d] /\ view'[d] = view[d] /\ cursor'[d] = cursor[d]
                             /\ missed'[d] = missed[d]
  BY <1>1 DEF Connect, Socket, BeginReplay, EndReplay, Subscribe, Forward, Lagged, Leave, Goto
<1> SUFFICES ASSUME NEW r \in Row
             PROVE  \A d \in Client : Behind(d, r)' /\ Kept(d, r)'
  BY <1>3 DEF FanoutInv
<1>6. \A d \in Client \ {c} : Behind(d, r)' /\ Kept(d, r)'
  BY <1>2, <1>3, <1>5 DEF FanoutInv, Behind, Kept, Covered, InGap
<1>7. /\ Behind(c, r) /\ Kept(c, r) /\ Advance(r)
      /\ view[c][r] \in Nat /\ table[r] \in Nat /\ cursor[c] \in Nat
  BY <1>1 DEF FanoutInv
<1>8. CASE Connect(c) \/ BeginReplay(c) \/ Leave(c)
  <2>1. /\ UNCHANGED <<view, cursor, missed>> /\ pc'[c] # "live"
        /\ pc'[c] \in {"connected", "positions", "orders", "gone"}
        /\ pc'[c] = "orders" => pc[c] = "between"
    BY <1>1, <1>8 DEF Connect, BeginReplay, Leave, Goto
  <2>2. InGap(c, r)' => InGap(c, r)
    BY <2>1 DEF InGap
  <2>3. Behind(c, r)'
    BY <1>2, <1>7, <2>1 DEF Behind
  <2>4. Covered(c, r)' => Covered(c, r) /\ pc[c] # "live"
    BY <2>1, <2>2 DEF Covered, InGap
  <2>5. Kept(c, r)'
    BY <1>2, <1>3, <1>7, <2>1, <2>4 DEF Kept
  <2> QED BY <1>6, <2>3, <2>5
<1>9. CASE EndReplay(c)
  <2>1. /\ UNCHANGED <<cursor, missed>> /\ pc[c] \in {"positions", "orders"}
        /\ pc'[c] = IF pc[c] = "positions" THEN "between" ELSE "replayed"
        /\ view'[c][r] = IF r \in Guarded(c) THEN table[r] ELSE view[c][r]
    BY <1>1, <1>9 DEF EndReplay, Goto
  <2>2. Covered(c, r)' => Covered(c, r) \/ r \in Guarded(c)
    BY <2>1 DEF Covered, InGap, Guarded, Row
  <2>3. Behind(c, r)'
    BY <1>2, <1>7, <2>1 DEF Behind
  <2>4. Kept(c, r)'
    BY <1>2, <1>3, <1>7, <2>1, <2>2 DEF Kept
  <2> QED BY <1>6, <2>3, <2>4
<1>10. CASE Subscribe(c)
  <2>1. /\ UNCHANGED <<view, missed>> /\ pc[c] = "replayed" /\ pc'[c] = "live"
        /\ cursor'[c] = Len(log)
    BY <1>1, <1>10 DEF Subscribe, FirstFrame, Goto
  <2>2. \A i \in DOMAIN log : ~(i > cursor'[c])
    BY <1>4, <2>1
  <2>3. Behind(c, r)'
    BY <1>2, <1>7, <2>1, <2>2 DEF Behind
  <2>4. Covered(c, r) /\ pc[c] # "live"
    BY <2>1 DEF Covered, InGap
  <2>5. Kept(c, r)'
    BY <1>2, <1>3, <1>7, <2>1, <2>4 DEF Kept
  <2> QED BY <1>6, <2>3, <2>5
<1>11. CASE Forward(c)
  <2> DEFINE n == cursor[c] + 1
             f == log[n]
  <2>1. /\ pc[c] = "live" /\ pc' = pc /\ cursor'[c] = n /\ n \in DOMAIN log /\ n > cursor[c]
        /\ n \in Nat
    BY <1>1, <1>4, <1>7, <1>11 DEF Forward
  <2>2. \/ f.row = Absent /\ UNCHANGED <<view, missed>>
        \/ /\ f.row # Absent /\ view' = [view EXCEPT ![c][f.row] = f.write]
           /\ missed' = [missed EXCEPT ![c] = @ \ {f.row}]
    BY <1>11 DEF Forward
  <2>3. \A i \in DOMAIN log : i > n => i > cursor[c] /\ n <= i
    BY <1>4, <1>7
  <2>4. \A i \in DOMAIN log : i > cursor[c] => i = n \/ i > n
    BY <1>4, <1>7
  <2>5. f.row \in Row \cup {Absent} /\ f.write \in Nat
    BY <1>4, <2>1
  <2>6. r # Absent
    OBVIOUS
  <2>7. CASE f.row # r
    <3>1. view'[c][r] = view[c][r] /\ (r \in missed'[c] <=> r \in missed[c])
      BY <1>1, <2>2, <2>5, <2>7
    <3>2. Behind(c, r)'
      BY <1>2, <1>7, <2>1, <2>3, <3>1 DEF Behind
    <3>3. Kept(c, r)'
      <4>1. Covered(c, r)
        BY <2>1 DEF Covered
      <4>2. ASSUME NEW j \in DOMAIN log, j > cursor[c], log[j].row = r
            PROVE  j > cursor'[c]
        BY <2>1, <2>4, <2>7, <4>2
      <4> QED BY <1>2, <1>3, <1>7, <2>1, <3>1, <4>1, <4>2 DEF Kept
    <3> QED BY <1>6, <3>2, <3>3
  <2>8. CASE f.row = r
    <3>1. view'[c][r] = f.write
      BY <1>1, <2>2, <2>5, <2>6, <2>8
    <3>2. f.write <= table[r]
      BY <1>7, <2>1, <2>8 DEF Advance
    <3>3. \A i \in DOMAIN log : i > n /\ log[i].row = r => f.write <= log[i].write
      BY <1>7, <2>1, <2>3, <2>8 DEF Advance
    <3>4. Behind(c, r)'
      BY <1>2, <2>1, <3>1, <3>2, <3>3 DEF Behind
    <3>5. Pending(r) \/ \E j \in DOMAIN log : n <= j /\ log[j].row = r /\ log[j].write = table[r]
      BY <1>7, <2>1, <2>8 DEF Advance
    <3>6. Kept(c, r)'
      <4>1. CASE Pending(r)
        BY <1>3, <4>1 DEF Kept
      <4>2. CASE \E j \in DOMAIN log : n <= j /\ log[j].row = r /\ log[j].write = table[r]
        <5>1. PICK j \in DOMAIN log : n <= j /\ log[j].row = r /\ log[j].write = table[r]
          BY <4>2
        <5>2. CASE j = n
          BY <1>2, <3>1, <5>1, <5>2 DEF Kept
        <5>3. CASE j # n
          <6>1. j > cursor'[c]
            BY <1>4, <2>1, <5>1, <5>3
          <6> QED BY <1>2, <2>1, <5>1, <6>1 DEF Kept
        <5> QED BY <5>2, <5>3
      <4> QED BY <3>5, <4>1, <4>2
    <3> QED BY <1>6, <3>4, <3>6
  <2> QED BY <2>7, <2>8
<1>12. CASE Lagged(c)
  <2>1. /\ pc[c] = "live" /\ UNCHANGED <<pc, view>> /\ cursor[c] < Retained
        /\ cursor'[c] = Retained
        /\ missed'[c] = missed[c] \cup ({log[i].row : i \in cursor[c] + 1 .. Retained} \cap Row)
    BY <1>1, <1>12 DEF Lagged
  <2>2. Retained \in Nat
    BY <1>4, WsFanoutAssumption DEF Retained
  <2> HIDE DEF Retained
  <2>3. Behind(c, r)'
    <3>1. \A i \in DOMAIN log : i > cursor'[c] => i > cursor[c]
      BY <1>4, <1>7, <2>1, <2>2
    <3> QED BY <1>2, <1>7, <2>1, <3>1 DEF Behind
  <2>4. Kept(c, r)'
    <3> SUFFICES ASSUME r \notin missed'[c]
                 PROVE  \/ Pending(r)' \/ view'[c][r] = table'[r]
                        \/ \E j \in DOMAIN log : /\ j > cursor'[c] /\ log[j].row = r
                                                 /\ log[j].write = table[r]
      BY <1>2, <2>1 DEF Kept
    <3>1. r \notin missed[c] /\ \A i \in cursor[c] + 1 .. Retained : log[i].row # r
      BY <2>1
    <3>2. Covered(c, r)
      BY <2>1 DEF Covered
    <3>3. ASSUME NEW j \in DOMAIN log, j > cursor[c], log[j].row = r
          PROVE  j > cursor'[c]
      BY <1>4, <1>7, <2>1, <2>2, <3>1, <3>3
    <3> QED BY <1>2, <1>3, <1>7, <2>1, <3>1, <3>2, <3>3 DEF Kept
  <2> QED BY <1>6, <2>3, <2>4
<1> QED BY <1>8, <1>9, <1>10, <1>11, <1>12 DEF Socket

LEMMA NextFanout == TypeInv /\ FanoutInv /\ [Next]_vars => FanoutInv'
<1> SUFFICES ASSUME TypeInv, FanoutInv, [Next]_vars PROVE FanoutInv'
  OBVIOUS
<1>1. CASE BeginExecution
  <2>1. work = << >> /\ UNCHANGED <<table, log, pc, view, cursor, missed>>
    BY <1>1 DEF BeginExecution
  <2>2. \A r \in Row : ~Pending(r)
    BY <2>1 DEF Pending
  <2> QED BY <2>1, <2>2 DEF FanoutInv, Advance, Behind, Kept, Covered, InGap
<1>2. CASE UNCHANGED vars
  BY <1>2 DEF vars, FanoutInv, Advance, Behind, Kept, Covered, InGap, Pending
<1> QED BY <1>1, <1>2, WriteFanout, EmitFanout, ClientFanout DEF Next, BotLoop

THEOREM FanoutCorrect == Spec => []FanoutInv
BY InitFanout, NextFanout, TypeInvCorrect, PTL DEF Spec

\* Nothing older is on its way to a client: what it was replayed, or sent last, is not
\* newer than the row nor newer than any frame it is still to be sent.
THEOREM AdvanceCorrect == Spec => []ViewOnlyAdvances
<1>1. TypeInv /\ FanoutInv => ViewOnlyAdvances
  <2> SUFFICES ASSUME TypeInv, FanoutInv, NEW c \in Client, NEW r \in Row
               PROVE  /\ view[c][r] <= table[r]
                      /\ pc[c] = "live" => \A i \in cursor[c] + 1 .. Len(log) :
                                             log[i].row = r => log[i].write >= view[c][r]
    BY DEF ViewOnlyAdvances
  <2>1. Behind(c, r)
    BY DEF FanoutInv
  <2>2. /\ log \in Seq(Frame) /\ cursor[c] \in Nat /\ view[c][r] \in Nat
    BY DEF TypeInv, TypeOK, Frame
  <2>3. \A i \in cursor[c] + 1 .. Len(log) : i \in DOMAIN log /\ i > cursor[c]
    BY <2>2
  <2> QED BY <2>1, <2>2, <2>3 DEF Behind
<1> QED BY <1>1, TypeInvCorrect, FanoutCorrect, PTL

\* Replay and stream fit together row by row: a client that has been sent every
\* frame there is shows every row none of whose frames it missed.
THEOREM KeptCorrect == Spec => []OnlyMissedRowsAreStale
<1>1. TypeInv /\ FanoutInv => OnlyMissedRowsAreStale
  <2> SUFFICES ASSUME TypeInv, FanoutInv, NEW c \in Client, CaughtUp(c), NEW r \in Row \ missed[c]
               PROVE  view[c][r] = table[r]
    BY DEF OnlyMissedRowsAreStale
  <2>1. Kept(c, r) /\ Covered(c, r)
    BY DEF FanoutInv, CaughtUp, Covered
  <2>2. ~Pending(r)
    BY DEF CaughtUp, Pending
  <2>3. log \in Seq(Frame) /\ \A j \in DOMAIN log : ~(j > cursor[c])
    BY DEF TypeInv, TypeOK, Frame, CaughtUp
  <2> QED BY <2>1, <2>2, <2>3 DEF Kept
<1> QED BY <1>1, TypeInvCorrect, FanoutCorrect, PTL
=============================================================================
