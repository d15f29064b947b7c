-------------------------- MODULE OrderEntry_proofs --------------------------
(***************************************************************************)
(* Theorems about OrderEntry, for any number of calls, orders and positions *)
(* and a channel of any capacity.                                           *)
(*                                                                          *)
(* None of the properties is inductive.  TypeInv adds to the types that a   *)
(* cancel call under way names an order; Owed follows each call from its    *)
(* command to its response, and carries the refinement of RequestOnce;      *)
(* Table says in which order the news of an order reach the bot, and that   *)
(* the rows of a baseline stay above its length.                            *)
(***************************************************************************)
EXTENDS OrderEntry, SequenceTheorems, TLAPS

USE OrderEntryAssumption

-----------------------------------------------------------------------------
(* Sequences *)

LEMMA TakeFirst ==
  ASSUME NEW S, NEW s \in Seq(S), s # << >>
  PROVE  /\ Head(s) \in S /\ Head(s) = s[1] /\ 1 \in DOMAIN s
         /\ Tail(s) \in Seq(S) /\ Len(Tail(s)) <= Len(s)
         /\ \A i \in DOMAIN Tail(s) : i \in Nat /\ i + 1 \in DOMAIN s /\ i + 1 # 1
                                      /\ Tail(s)[i] = s[i + 1]
         /\ \A i \in DOMAIN s : i = 1 \/ \E j \in DOMAIN Tail(s) : i = j + 1
<1>1. /\ Len(s) \in Nat /\ Len(s) > 0 /\ DOMAIN s = 1 .. Len(s)
      /\ Head(s) = s[1] /\ Tail(s) \in Seq(S) /\ Len(Tail(s)) = Len(s) - 1
      /\ DOMAIN Tail(s) = 1 .. Len(s) - 1
      /\ \A i \in 1 .. Len(s) - 1 : Tail(s)[i] = s[i + 1]
  OBVIOUS
<1>2. \A i \in 2 .. Len(s) : i - 1 \in DOMAIN Tail(s) /\ i = (i - 1) + 1
  BY <1>1
<1>3. \A i \in DOMAIN s : i = 1 \/ i \in 2 .. Len(s)
  BY <1>1
<1>4. \A i \in DOMAIN s : i = 1 \/ \E j \in DOMAIN Tail(s) : i = j + 1
  BY <1>2, <1>3
<1> QED BY <1>1, <1>4

LEMMA PutLast ==
  ASSUME NEW S, NEW s \in Seq(S), NEW e \in S
  PROVE  /\ Append(s, e) \in Seq(S) /\ Len(Append(s, e)) = Len(s) + 1
         /\ Len(s) + 1 \in DOMAIN Append(s, e) /\ Append(s, e)[Len(s) + 1] = e
         /\ \A i \in DOMAIN s : i \in DOMAIN Append(s, e) /\ Append(s, e)[i] = s[i]
                                /\ i <= Len(s)
         /\ \A i \in DOMAIN Append(s, e) : i \in DOMAIN s \/ i = Len(s) + 1
OBVIOUS

LeftOut(s, k) == SubSeq(s, 1, k - 1) \o SubSeq(s, k + 1, Len(s))

LEMMA LeaveOut ==
  ASSUME NEW S, NEW s \in Seq(S), NEW k \in DOMAIN s
  PROVE  /\ LeftOut(s, k) \in Seq(S)
         /\ \A i \in DOMAIN LeftOut(s, k) :
              \/ i < k /\ i \in DOMAIN s /\ LeftOut(s, k)[i] = s[i]
              \/ i >= k /\ i + 1 \in DOMAIN s /\ LeftOut(s, k)[i] = s[i + 1]
<1> DEFINE u == SubSeq(s, 1, k - 1)
           v == SubSeq(s, k + 1, Len(s))
           t == LeftOut(s, k)
<1>1. Len(s) \in Nat /\ DOMAIN s = 1 .. Len(s) /\ k \in 1 .. Len(s)
  OBVIOUS
<1>2. u \in Seq(S) /\ Len(u) = k - 1 /\ \A i \in 1 .. k - 1 : u[i] = s[i]
  BY <1>1
<1>3. v \in Seq(S) /\ Len(v) = Len(s) - k /\ \A i \in 1 .. Len(s) - k : v[i] = s[k + i]
  BY <1>1
<1>4. t = u \o v
  BY DEF LeftOut
<1> HIDE DEF u, v, t
<1>5. /\ t \in Seq(S) /\ Len(t) = Len(s) - 1
      /\ \A i \in 1 .. Len(s) - 1 : t[i] = IF i <= k - 1 THEN u[i] ELSE v[i - (k - 1)]
  <2>1. Len(u) + Len(v) = Len(s) - 1
    BY <1>1, <1>2, <1>3
  <2>2. /\ u \o v \in Seq(S) /\ Len(u \o v) = Len(u) + Len(v)
        /\ \A i \in 1 .. Len(u) + Len(v) :
             (u \o v)[i] = IF i <= Len(u) THEN u[i] ELSE v[i - Len(u)]
    <3>1. u \in Seq(S) /\ v \in Seq(S)
      BY <1>2, <1>3
    <3> QED BY <3>1, ConcatProperties
  <2> QED BY <1>2, <1>4, <2>1, <2>2
<1>6. DOMAIN t = 1 .. Len(s) - 1
  BY <1>5
<1> SUFFICES ASSUME NEW i \in DOMAIN t
             PROVE  \/ i < k /\ i \in DOMAIN s /\ t[i] = s[i]
                    \/ i >= k /\ i + 1 \in DOMAIN s /\ t[i] = s[i + 1]
  BY <1>5 DEF t
<1>7. i \in 1 .. Len(s) - 1 /\ i \in Int
  BY <1>6
<1>8. CASE i <= k - 1
  <2>1. t[i] = u[i] /\ i \in 1 .. k - 1
    BY <1>5, <1>7, <1>8
  <2> QED BY <1>1, <1>2, <1>7, <1>8, <2>1
<1>9. CASE ~(i <= k - 1)
  <2> DEFINE j == i - (k - 1)
  <2>1. t[i] = v[j]
    BY <1>5, <1>7, <1>9
  <2>2. j \in 1 .. Len(s) - k /\ k + j = i + 1 /\ i >= k /\ i + 1 \in DOMAIN s
    BY <1>1, <1>7, <1>9
  <2> HIDE DEF j
  <2> QED BY <1>3, <2>1, <2>2
<1> QED BY <1>8, <1>9

-----------------------------------------------------------------------------
(* Types *)


\* A cancel call that is under way names an order.
Names ==
  /\ \A i \in DOMAIN channel : pc[channel[i]] # "idle"
  /\ \A i \in DOMAIN requests : requests[i] \in sent
  /\ \A r \in sent : pc[r] # "idle"
  /\ \A r \in CancelCall : pc[r] = "sending" => target[r] \in OrderId
  /\ \A i \in DOMAIN channel : channel[i] \in CancelCall => target[channel[i]] \in OrderId
  /\ \A r \in sent : r \in CancelCall => target[r] \in OrderId

TypeInv == TypeOK /\ Names

LEMMA InitType == Init => TypeInv
<1> SUFFICES ASSUME Init PROVE TypeInv
  OBVIOUS
<1>1. orders \in Seq(OrderId)
  <2>1. << >> \in Seq(OrderId) /\ \A o \in OrderId : <<o>> \in Seq(OrderId)
    OBVIOUS
  <2>2. orders = << >> \/ \E o \in OrderId : orders = <<o>>
    BY DEF Init
  <2> QED BY <2>1, <2>2
<1>2. TypeOK
  BY <1>1 DEF Init, TypeOK, Code
<1>3. Names
  BY DEF Init, Names, Call
<1> QED BY <1>2, <1>3 DEF TypeInv

LEMMA NamesKept ==
  ASSUME TypeInv, UNCHANGED <<channel, requests, sent>>,
         \A c \in Call : pc[c] # "idle" => pc'[c] # "idle" /\ target'[c] = target[c],
         \A c \in Call : c \in CancelCall /\ pc'[c] = "sending" => target'[c] \in OrderId
  PROVE  Names'
<1>1. /\ \A i \in DOMAIN channel : channel[i] \in Call
      /\ sent \subseteq Call
  BY DEF TypeInv, TypeOK
<1>2. /\ \A i \in DOMAIN channel : pc[channel[i]] # "idle"
      /\ \A i \in DOMAIN requests : requests[i] \in sent
      /\ \A c \in sent : pc[c] # "idle"
      /\ \A i \in DOMAIN channel : channel[i] \in CancelCall => target[channel[i]] \in OrderId
      /\ \A c \in sent : c \in CancelCall => target[c] \in OrderId
  BY DEF TypeInv, Names
<1>3. CancelCall \subseteq Call
  BY DEF Call
<1> QED BY <1>1, <1>2, <1>3 DEF Names

\* The steps of a handler, but for the sending of its command.
LEMMA HandlerType ==
  ASSUME TypeInv, NEW r \in Call,
         \/ BadRequest(r) \/ TakeBaseline(r) \/ NameTarget(r) \/ ChannelClosed(r)
         \/ Awaken(r) \/ EchoLast(r) \/ PollEmpty(r) \/ PollAgain(r) \/ Deadline(r)
         \/ Abandon(r)
  PROVE  TypeInv'
<1> USE DEF TypeInv
<1>0. orders \in Seq(OrderId) /\ Rows \subseteq OrderId
  BY DEF TypeOK, Rows
<1> CancelCall \subseteq Call
  BY DEF Call
<1>1. CASE \E code \in Code, o \in OrderId \cup {Absent} :
             /\ Finish(r, code, o)
             /\ UNCHANGED <<target, baseline, atBaseline, channel, resp, tableVars, loop,
                            requests, events, stepVars, held, brokerVars, sent, seen>>
  <2>1. TypeOK'
    BY <1>1 DEF TypeOK, Answer, Finish, tableVars, stepVars, brokerVars
  <2>2. /\ \A c \in Call : pc[c] # "idle" => pc'[c] # "idle" /\ target'[c] = target[c]
        /\ \A c \in Call : pc'[c] = "sending" => pc[c] = "sending" /\ target'[c] = target[c]
    BY <1>1 DEF TypeOK, Finish
  <2>3. Names'
    BY <1>1, <2>2, NamesKept DEF Names
  <2> QED BY <2>1, <2>3
<1>2. CASE \E stage \in {"polling", "unseen", "gone"} :
             /\ pc[r] # "idle" /\ pc' = [pc EXCEPT ![r] = stage]
             /\ UNCHANGED <<target, baseline, answer, atBaseline, channel, resp, tableVars,
                            loop, requests, events, stepVars, held, brokerVars, sent, seen>>
  <2>1. TypeOK'
    BY <1>2 DEF TypeOK, tableVars, stepVars, brokerVars
  <2>2. /\ \A c \in Call : pc[c] # "idle" => pc'[c] # "idle" /\ target'[c] = target[c]
        /\ \A c \in Call : pc'[c] = "sending" => pc[c] = "sending" /\ target'[c] = target[c]
    BY <1>2 DEF TypeOK
  <2>3. Names'
    BY <1>2, <2>2, NamesKept DEF Names
  <2> QED BY <2>1, <2>3
<1>3. CASE TakeBaseline(r)
  <2>1. TypeOK'
    BY <1>0, <1>3 DEF TypeOK, TakeBaseline, tableVars, stepVars, brokerVars
  <2>2. /\ \A c \in Call : pc[c] # "idle" => pc'[c] # "idle" /\ target'[c] = target[c]
        /\ \A c \in CancelCall : pc'[c] = "sending" => pc[c] = "sending" /\ target'[c] = target[c]
    BY <1>3 DEF TypeOK, TakeBaseline
  <2>3. Names'
    BY <1>3, <2>2, NamesKept DEF TakeBaseline, Names
  <2> QED BY <2>1, <2>3
<1>4. CASE NameTarget(r)
  <2>1. TypeOK'
    BY <1>4 DEF TypeOK, NameTarget, tableVars, stepVars, brokerVars
  <2>2. /\ \A c \in Call : pc[c] # "idle" => pc'[c] # "idle" /\ target'[c] = target[c]
        /\ \A c \in CancelCall : pc'[c] = "sending" =>
             target'[c] \in OrderId \/ (pc[c] = "sending" /\ target'[c] = target[c])
    BY <1>4 DEF TypeOK, NameTarget
  <2>3. Names'
    BY <1>4, <2>2, NamesKept DEF NameTarget, Names
  <2> QED BY <2>1, <2>3
<1>5. CASE Awaken(r)
  <2>1. CASE resp[r] = "ok" /\ r \in PlaceCall
    <3>1. ~(r \in CancelCall) /\ ~(r \in CloseCall)
      BY <2>1
    <3> QED BY <1>2, <1>5, <2>1, <3>1 DEF Awaken
  <2>2. CASE resp[r] = "ok" /\ r \in CancelCall
    <3>1. \E code \in Code, o \in OrderId \cup {Absent} : Finish(r, code, o)
      BY <1>0, <1>5, <2>2 DEF Awaken, Code
    <3> QED BY <1>1, <1>5, <3>1 DEF Awaken
  <2>3. CASE resp[r] = "ok" /\ r \in CloseCall
    <3>1. \E code \in Code, o \in OrderId \cup {Absent} : Finish(r, code, o)
      BY <1>5, <2>3 DEF Awaken, Code
    <3> QED BY <1>1, <1>5, <3>1 DEF Awaken
  <2>4. CASE resp[r] # "ok"
    <3>1. \E code \in Code, o \in OrderId \cup {Absent} : Finish(r, code, o)
      BY <1>5, <2>4 DEF Awaken, Code
    <3> QED BY <1>1, <1>5, <3>1 DEF Awaken
  <2> QED BY <2>1, <2>2, <2>3, <2>4 DEF Call
<1>6. CASE EchoLast(r)
  <2>1. orders[Len(orders)] \in OrderId
    BY <1>0, <1>6 DEF TypeOK, EchoLast, Outgrown
  <2>2. "ok" \in Code
    BY DEF Code
  <2> QED BY <1>1, <1>6, <2>1, <2>2 DEF EchoLast
<1>7. CASE BadRequest(r) \/ ChannelClosed(r) \/ Deadline(r)
  BY <1>1, <1>7 DEF BadRequest, ChannelClosed, Deadline, Code
<1>8. CASE PollEmpty(r) \/ PollAgain(r) \/ Abandon(r)
  BY <1>2, <1>8 DEF PollEmpty, PollAgain, Abandon
<1> QED BY <1>3, <1>4, <1>5, <1>6, <1>7, <1>8

\* A command enters the channel.
LEMMA SendType ==
  ASSUME TypeInv, NEW r \in Call, SendCommand(r)
  PROVE  TypeInv'
<1>1. /\ channel \in Seq(Call) /\ channel' = Append(channel, r)
      /\ Len(channel) < ChannelCapacity /\ Len(channel) \in Nat
  BY DEF TypeInv, TypeOK, SendCommand, Room
<1>2. /\ channel' \in Seq(Call) /\ Len(channel') <= ChannelCapacity
      /\ \A i \in DOMAIN channel' : channel'[i] = r \/ (i \in DOMAIN channel /\ channel'[i] = channel[i])
  BY <1>1, PutLast
<1>3. TypeOK'
  BY <1>2 DEF TypeInv, TypeOK, SendCommand, tableVars, stepVars, brokerVars
<1>4. Names'
  BY <1>2 DEF TypeInv, TypeOK, Names, SendCommand, tableVars, stepVars, brokerVars
<1> QED BY <1>3, <1>4 DEF TypeInv

\* A command leaves it.
LEMMA CommandType ==
  ASSUME TypeInv, HandleCommand
  PROVE  TypeInv'
<1> DEFINE r == Head(channel)
<1>1. channel \in Seq(Call) /\ requests \in Seq(Call) /\ channel # << >> /\ channel' = Tail(channel)
  BY DEF TypeInv, TypeOK, HandleCommand
<1>2. /\ r \in Call /\ r = channel[1] /\ 1 \in DOMAIN channel /\ channel' \in Seq(Call)
      /\ Len(channel') <= Len(channel)
      /\ \A i \in DOMAIN channel' : i + 1 \in DOMAIN channel /\ channel'[i] = channel[i + 1]
  BY <1>1, TakeFirst
<1>3. \/ requests' = Append(requests, r) /\ sent' = sent \cup {r} /\ resp' = [resp EXCEPT ![r] = "ok"]
      \/ UNCHANGED <<requests, sent>> /\ resp' = [resp EXCEPT ![r] = "err"]
  BY DEF HandleCommand, Respond
<1>4. /\ requests' \in Seq(Call)
      /\ \A i \in DOMAIN requests' : (i \in DOMAIN requests /\ requests'[i] = requests[i])
                                       \/ (requests'[i] = r /\ r \in sent')
  <2>1. CASE requests' = Append(requests, r) /\ sent' = sent \cup {r}
    BY <1>1, <1>2, <2>1, PutLast
  <2>2. CASE UNCHANGED <<requests, sent>>
    BY <1>1, <2>2
  <2> QED BY <1>3, <2>1, <2>2
<1>5. UNCHANGED <<callVars, tableVars, loop, events, stepVars, held, brokerVars, seen>>
  BY DEF HandleCommand
<1> HIDE DEF r
<1>6. Len(channel') <= ChannelCapacity
  BY <1>1, <1>2 DEF TypeInv, TypeOK
<1>7. TypeOK'
  BY <1>2, <1>3, <1>4, <1>5, <1>6 DEF TypeInv, TypeOK, callVars, tableVars, stepVars, brokerVars
<1>8. Names'
  BY <1>2, <1>3, <1>4, <1>5 DEF TypeInv, TypeOK, Names, callVars, tableVars, stepVars, brokerVars
<1> QED BY <1>7, <1>8 DEF TypeInv

\* What WriteOrders makes of the table is one of three tables.
LEMMA OrdersBecome ==
  ASSUME TypeOK, NEW e \in Events, e.order # Absent
  PROVE  \/ OrdersAfter(e) = orders /\ (e.working <=> e.order \in Rows)
         \/ /\ OrdersAfter(e) = Append(orders, e.order)
            /\ e.working /\ e.order \notin Rows
         \/ /\ OrdersAfter(e) = LeftOut(orders, RowOf(e.order))
            /\ ~e.working /\ RowOf(e.order) \in DOMAIN orders
            /\ orders[RowOf(e.order)] = e.order
BY DEF OrdersAfter, LeftOut, RowOf, Rows, Events

LEMMA EventType ==
  ASSUME TypeInv, TakeEvent \/ WritePositions
  PROVE  TypeInv'
<1>1. CASE TakeEvent
  <2> DEFINE e == Head(events)
  <2>1. events \in Seq(Events) /\ events # << >> /\ events' = Tail(events)
    BY <1>1 DEF TypeInv, TypeOK, TakeEvent
  <2>2. e \in Events /\ events' \in Seq(Events)
    BY <2>1, TakeFirst
  <2>3. \/ UNCHANGED stepVars
        \/ e.order # Absent /\ applying' = e /\ writing' \in {"positions", "orders"}
    BY <1>1 DEF TakeEvent
  <2>4. UNCHANGED <<callVars, channel, resp, tableVars, loop, requests, held, brokerVars, sent, seen>>
    BY <1>1 DEF TakeEvent
  <2>7. loop = "running"
    BY <1>1 DEF TakeEvent, Selecting
  <2> HIDE DEF e
  <2>5. TypeOK'
    BY <2>2, <2>3, <2>4, <2>7 DEF TypeInv, TypeOK, stepVars, callVars, tableVars, brokerVars
  <2>6. Names'
    BY <2>4 DEF TypeInv, Names, callVars
  <2> QED BY <2>5, <2>6 DEF TypeInv
<1>2. CASE WritePositions
  <2>1. TypeOK'
    BY <1>2 DEF WritePositions, TypeInv, TypeOK, callVars, brokerVars
  <2>2. Names'
    BY <1>2 DEF WritePositions, TypeInv, Names, callVars
  <2> QED BY <2>1, <2>2 DEF TypeInv
<1> QED BY <1>1, <1>2

LEMMA WriteType ==
  ASSUME TypeInv, WriteOrders
  PROVE  TypeInv'
<1> DEFINE e == applying
<1>1. e \in Events /\ e.order # Absent /\ e.order \in OrderId /\ orders \in Seq(OrderId)
  BY DEF WriteOrders, TypeInv, TypeOK, Events
<1>2. UNCHANGED <<callVars, channel, resp, positions, loop, requests, events, held, brokerVars, sent>>
  BY DEF WriteOrders
<1>3. /\ orders' = OrdersAfter(e) /\ seen' = seen \cup {owner[e.order]}
      /\ writing' = "none" /\ applying' = Absent
  BY DEF WriteOrders
<1> HIDE DEF e
<1>4. OrdersAfter(e) \in Seq(OrderId)
  <2>1. CASE OrdersAfter(e) = orders
    BY <1>1, <2>1
  <2>2. CASE OrdersAfter(e) = Append(orders, e.order)
    BY <1>1, <2>2, PutLast
  <2>3. CASE OrdersAfter(e) = LeftOut(orders, RowOf(e.order)) /\ RowOf(e.order) \in DOMAIN orders
    BY <1>1, <2>3, LeaveOut
  <2> QED BY <1>1, <2>1, <2>2, <2>3, OrdersBecome DEF TypeInv
<1>5. seen' \in SUBSET (Call \cup {Absent})
  BY <1>1, <1>3 DEF TypeInv, TypeOK
<1>6. TypeOK'
  BY <1>2, <1>3, <1>4, <1>5 DEF TypeInv, TypeOK, callVars, brokerVars
<1>7. Names'
  BY <1>2 DEF TypeInv, Names, callVars
<1> QED BY <1>6, <1>7 DEF TypeInv

\* Peers stall and go on.
LEMMA PeersType ==
  ASSUME TypeInv, Peers
  PROVE  TypeInv'
<1>1. /\ held' \in SUBSET {"orders", "positions", "wire"}
      /\ UNCHANGED <<callVars, channel, resp, tableVars, loop, requests, events, stepVars,
                    brokerVars, sent, seen>>
  BY DEF Peers, Stall, Release, TypeInv, TypeOK
<1> QED BY <1>1 DEF TypeInv, TypeOK, Names, callVars, tableVars, stepVars, brokerVars

LEMMA EndType == TypeInv /\ (LoopEnds \/ ProcessExits) => TypeInv'
<1>1. ASSUME TypeInv, LoopEnds PROVE TypeInv'
  <2>1. channel' = << >> /\ resp' \in [Call -> {"none", "ok", "err", "dropped"}] /\ Len(<< >>) = 0
    BY <1>1 DEF LoopEnds, SendersDropped, TypeInv, TypeOK
  <2>2. << >> \in Seq(Call) /\ << >> \in Seq(Events) /\ DOMAIN channel' = {}
    BY <2>1
  <2>3. TypeOK'
    BY <1>1, <2>1, <2>2 DEF LoopEnds, Selecting, TypeInv, TypeOK, callVars, tableVars, stepVars, brokerVars
  <2>4. Names'
    BY <1>1, <2>2 DEF LoopEnds, TypeInv, Names, callVars
  <2> QED BY <2>3, <2>4 DEF TypeInv
<1>2. ASSUME TypeInv, ProcessExits PROVE TypeInv'
  <2>1. TypeOK'
    BY <1>2 DEF ProcessExits, TypeInv, TypeOK, tableVars, stepVars, brokerVars
  <2>2. Names'
    <3>1. /\ \A c \in Call : pc'[c] # "idle" /\ pc'[c] # "sending"
          /\ UNCHANGED <<target, channel, requests, sent>>
      BY <1>2 DEF ProcessExits
    <3> QED BY <1>2, <3>1, NamesKept
  <2> QED BY <2>1, <2>2 DEF TypeInv
<1> QED BY <1>1, <1>2

\* A step of the server sends nothing, or news of an order, or both acceptance
\* and fill of one.
LEMMA NewsType ==
  ASSUME NEW o \in OrderId, NEW p \in PositionId, NEW q \in {Absent} \cup {p}
  PROVE  /\ Event(o, TRUE, Absent) \in Events /\ Event(o, FALSE, q) \in Events
         /\ Event(Absent, FALSE, Absent) \in Events
BY DEF Event, Events

LEMMA ServerType ==
  ASSUME TypeInv, Server
  PROVE  TypeInv'
<1>1. requests \in Seq(Call) /\ events \in Seq(Events)
  BY DEF TypeInv, TypeOK
<1>2. ASSUME requests # << >>
      PROVE  Head(requests) \in Call /\ Head(requests) \in sent /\ Tail(requests) \in Seq(Call)
             /\ \A i \in DOMAIN Tail(requests) : Tail(requests)[i] \in sent
  BY <1>1, <1>2, TakeFirst DEF TypeInv, Names
<1>3. \A i \in DOMAIN requests : requests[i] \in sent
  BY DEF TypeInv, Names
<1>4. ASSUME NEW es \in Seq(Events), Emit(es),
             requests' = requests \/ (requests # << >> /\ requests' = Tail(requests)),
             book' \in [OrderId -> {"none", "working", "ended"}], open' \subseteq open,
             owner' \in [OrderId -> Call \cup {Absent}]
      PROVE  TypeInv'
  <2>1. events' \in Seq(Events)
    BY <1>1, <1>4, ConcatProperties DEF Emit
  <2>2. requests' \in Seq(Call) /\ \A i \in DOMAIN requests' : requests'[i] \in sent
    BY <1>1, <1>2, <1>3, <1>4
  <2>3. UNCHANGED <<pc, target, baseline, answer, atBaseline, channel, resp, orders, positions,
                    loop, applying, writing, held, sent, seen>>
    BY <1>4 DEF Emit, callVars, tableVars, stepVars
  <2>4. TypeOK'
    BY <1>4, <2>1, <2>2, <2>3 DEF TypeInv, TypeOK
  <2>5. Names'
    BY <2>2, <2>3 DEF TypeInv, Names
  <2> QED BY <2>4, <2>5 DEF TypeInv
<1>5. /\ \A o \in OrderId : <<Event(o, TRUE, Absent)>> \in Seq(Events)
                           /\ <<Event(o, FALSE, Absent)>> \in Seq(Events)
      /\ \A o \in OrderId, p \in PositionId :
           <<Event(o, TRUE, Absent), Event(o, FALSE, p)>> \in Seq(Events)
      /\ <<Event(Absent, FALSE, Absent)>> \in Seq(Events)
  <2>1. \A e, f \in Events : <<e>> \in Seq(Events) /\ <<e, f>> \in Seq(Events)
    OBVIOUS
  <2>2. /\ \A o \in OrderId : Event(o, TRUE, Absent) \in Events
                             /\ Event(o, FALSE, Absent) \in Events
        /\ \A o \in OrderId, p \in PositionId : Event(o, FALSE, p) \in Events
        /\ Event(Absent, FALSE, Absent) \in Events
    BY DEF Event, Events
  <2> QED BY <2>1, <2>2
<1>6. /\ book \in [OrderId -> {"none", "working", "ended"}]
      /\ owner \in [OrderId -> Call \cup {Absent}]
      /\ \A r \in sent : r \in CancelCall => target[r] \in OrderId
  BY DEF TypeInv, TypeOK, Names
<1>7. CASE BrokerRefuses
  BY <1>4, <1>5, <1>6, <1>7 DEF BrokerRefuses
<1>8. CASE BrokerCancels
  <2> DEFINE o == target[Head(requests)]
  <2>1. requests # << >> /\ o \in OrderId /\ requests' = Tail(requests) /\ UNCHANGED <<open, owner>>
    BY <1>2, <1>6, <1>8 DEF BrokerCancels
  <2>2. \/ book' = [book EXCEPT ![o] = "ended"] /\ Emit(<<Event(o, FALSE, Absent)>>)
        \/ UNCHANGED book /\ Emit(<<Event(Absent, FALSE, Absent)>>)
    BY <1>8 DEF BrokerCancels
  <2> HIDE DEF o
  <2>3. book' \in [OrderId -> {"none", "working", "ended"}]
    BY <1>6, <2>1, <2>2
  <2>4. \E es \in Seq(Events) : Emit(es)
    BY <1>5, <2>1, <2>2
  <2> QED BY <1>4, <1>6, <2>1, <2>3, <2>4
<1>9. ASSUME NEW o \in OrderId, BrokerAccepts(o) \/ BrokerEnds(o) \/ BrokerOther(o)
      PROVE  TypeInv'
  <2>1. /\ book' \in [OrderId -> {"none", "working", "ended"}]
        /\ owner' \in [OrderId -> Call \cup {Absent}]
        /\ open' = open
        /\ requests' = requests \/ (requests # << >> /\ requests' = Tail(requests))
    BY <1>2, <1>6, <1>9 DEF BrokerAccepts, BrokerEnds, BrokerOther
  <2>2. \E es \in Seq(Events) : Emit(es)
    BY <1>5, <1>9 DEF BrokerAccepts, BrokerEnds, BrokerOther
  <2> QED BY <1>4, <2>1, <2>2
<1>10. ASSUME NEW o \in OrderId, BrokerCloses(o)
       PROVE  TypeInv'
  <2> DEFINE p == target[Head(requests)]
  <2>1. requests # << >> /\ Head(requests) \in Call /\ requests' = Tail(requests)
    BY <1>2, <1>10 DEF BrokerCloses
  <2>2. \/ /\ p \in open /\ open' = open \ {p} /\ book' = [book EXCEPT ![o] = "ended"]
           /\ owner' = [owner EXCEPT ![o] = Head(requests)]
           /\ Emit(<<Event(o, TRUE, Absent), Event(o, FALSE, p)>>)
        \/ Emit(<<Event(Absent, FALSE, Absent)>>) /\ UNCHANGED <<open, book, owner>>
    BY <1>10 DEF BrokerCloses
  <2> HIDE DEF p
  <2>3. open \subseteq PositionId
    BY DEF TypeInv, TypeOK
  <2>4. /\ book' \in [OrderId -> {"none", "working", "ended"}]
        /\ owner' \in [OrderId -> Call \cup {Absent}]
        /\ open' \subseteq open
    BY <1>6, <2>1, <2>2
  <2>5. \E es \in Seq(Events) : Emit(es)
    BY <1>5, <2>2, <2>3
  <2> QED BY <1>4, <2>1, <2>4, <2>5
<1> QED BY <1>7, <1>8, <1>9, <1>10 DEF Server

LEMMA NextType == TypeInv /\ [Next]_vars => TypeInv'
<1> SUFFICES ASSUME TypeInv, [Next]_vars PROVE TypeInv'
  OBVIOUS
<1>1. CASE \E r \in Call : Arrival(r) \/ Handler(r) \/ Abandon(r)
  BY <1>1, HandlerType, SendType DEF Arrival, Handler
<1>2. CASE BotLoop \/ LoopEnds \/ ProcessExits \/ Peers \/ Server
  BY <1>2, CommandType, EventType, WriteType, EndType, PeersType, ServerType DEF BotLoop
<1>3. CASE UNCHANGED vars
  BY <1>3 DEF TypeInv, TypeOK, Names, vars, callVars, tableVars, stepVars, brokerVars
<1> QED BY <1>1, <1>2, <1>3 DEF Next

\* Whatever calls and clients do, the variables keep their types.
THEOREM TypeCorrect == Spec => []TypeOK
<1>1. TypeInv => TypeOK
  BY DEF TypeInv
<1> QED BY <1>1, InitType, NextType, PTL DEF Spec

THEOREM TypeInvCorrect == Spec => []TypeInv
BY InitType, NextType, PTL DEF Spec

-----------------------------------------------------------------------------
(* What a call is owed and told *)

\* A command in the channel is its call's only one, and has no response.
Queued ==
  /\ \A i, j \in DOMAIN channel : channel[i] = channel[j] => i = j
  /\ \A i \in DOMAIN channel : /\ loop = "running"
                              /\ pc[channel[i]] \in {"waiting", "gone"}
                              /\ resp[channel[i]] = "none"

Expects(r) ==
  /\ pc[r] = "waiting" /\ resp[r] = "none" => \E i \in DOMAIN channel : channel[i] = r
  /\ pc[r] \in {"idle", "sending"} => resp[r] = "none"
  /\ pc[r] \in {"polling", "unseen"} => resp[r] = "ok"
  /\ r \in sent <=> resp[r] = "ok"

\* A call has an answer only when it is done, and the answer tells the truth.
Told(r) ==
  /\ answer[r] # Absent => pc[r] = "done"
  /\ Answered(r, {"bad_request", "bot_channel_closed", "bot_channel_dropped"}) => r \notin sent
  /\ Answered(r, {"ok", "pending_execution", "not_found"}) => r \in sent

Owed == Queued /\ \A r \in Call : Expects(r) /\ Told(r)

LEMMA InitOwed == Init => Owed
BY DEF Init, Owed, Queued, Expects, Told, Answered

\* A handler reads the response, and answers.
LEMMA HandlerOwed ==
  ASSUME TypeInv, Owed, NEW r \in Call,
         \/ BadRequest(r) \/ TakeBaseline(r) \/ NameTarget(r) \/ ChannelClosed(r)
         \/ Awaken(r) \/ EchoLast(r) \/ PollEmpty(r) \/ PollAgain(r) \/ Deadline(r)
         \/ Abandon(r)
  PROVE  Owed'
<1>0. /\ pc \in [Call -> {"idle", "sending", "waiting", "polling", "unseen", "done", "gone"}]
      /\ answer \in [Call -> Answer \cup {Absent}]
      /\ resp \in [Call -> {"none", "ok", "err", "dropped"}]
      /\ \A i \in DOMAIN channel : channel[i] \in Call
  BY DEF TypeInv, TypeOK
<1>1. UNCHANGED <<channel, resp, loop, sent>>
  BY DEF BadRequest, TakeBaseline, NameTarget, ChannelClosed, Awaken, EchoLast, PollEmpty,
         PollAgain, Deadline, Abandon
<1>2. /\ \A c \in Call \ {r} : pc'[c] = pc[c] /\ answer'[c] = answer[c]
      /\ pc'[r] \notin {"idle", "waiting"}
      /\ pc'[r] = "sending" => pc[r] = "idle"
      /\ pc[r] = "waiting" => resp[r] # "none" \/ pc'[r] = "gone"
      /\ pc[r] = "gone" => pc'[r] = "gone"
  BY <1>0 DEF BadRequest, TakeBaseline, NameTarget, ChannelClosed, Awaken, EchoLast, PollEmpty,
         PollAgain, Deadline, Abandon, Finish
<1>3. Queued'
  BY <1>0, <1>1, <1>2 DEF Owed, Queued
<1>4. ASSUME NEW c \in Call \ {r} PROVE Expects(c)' /\ Told(c)'
  BY <1>1, <1>2 DEF Owed, Expects, Told, Answered
<1>5. Expects(r)
  BY DEF Owed
<1>6. pc'[r] \in {"polling", "unseen"} => resp[r] = "ok"
  BY <1>0, <1>5 DEF BadRequest, TakeBaseline, NameTarget, ChannelClosed, Awaken, EchoLast,
         PollEmpty, PollAgain, Deadline, Abandon, Finish, Expects
<1>7. Expects(r)'
  BY <1>1, <1>2, <1>5, <1>6 DEF Expects
<1>8. Told(r)'
  <2>1. ASSUME NEW code, NEW o, Finish(r, code, o),
               code \in {"bad_request", "bot_channel_closed", "bot_channel_dropped"}
                 => resp[r] # "ok",
               code \in {"ok", "pending_execution", "not_found"} => resp[r] = "ok"
        PROVE  Told(r)'
    <3>1. pc'[r] = "done" /\ answer'[r].code = code
      BY <1>0, <2>1 DEF Finish
    <3> QED BY <1>1, <1>5, <2>1, <3>1 DEF Told, Answered, Expects
  <2>2. CASE BadRequest(r) \/ ChannelClosed(r)
    BY <1>5, <2>1, <2>2 DEF BadRequest, ChannelClosed, Expects
  <2>3. CASE EchoLast(r) \/ Deadline(r)
    BY <1>5, <2>1, <2>3 DEF EchoLast, Deadline, Expects
  <2>4. ASSUME UNCHANGED answer, pc[r] # "done"
        PROVE  Told(r)'
    BY <2>4 DEF Owed, Told, Answered
  <2>5. CASE TakeBaseline(r) \/ NameTarget(r) \/ PollEmpty(r) \/ PollAgain(r) \/ Abandon(r)
    BY <2>4, <2>5 DEF TakeBaseline, NameTarget, PollEmpty, PollAgain, Abandon
  <2>6. CASE Awaken(r)
    BY <2>1, <2>4, <2>6 DEF Awaken
  <2> QED BY <2>2, <2>3, <2>5, <2>6
<1> QED BY <1>3, <1>4, <1>7, <1>8 DEF Owed

LEMMA SendOwed ==
  ASSUME TypeInv, Owed, NEW r \in Call, SendCommand(r)
  PROVE  Owed'
<1>0. /\ pc \in [Call -> {"idle", "sending", "waiting", "polling", "unseen", "done", "gone"}]
      /\ \A i \in DOMAIN channel : channel[i] \in Call
      /\ channel \in Seq(Call) /\ Len(channel) \in Nat
  BY DEF TypeInv, TypeOK
<1>1. /\ pc[r] = "sending" /\ pc' = [pc EXCEPT ![r] = "waiting"] /\ channel' = Append(channel, r)
      /\ loop = "running" /\ UNCHANGED <<resp, loop, sent, answer>>
  BY DEF SendCommand
<1>2. /\ Len(channel) + 1 \in DOMAIN channel' /\ channel'[Len(channel) + 1] = r
      /\ \A i \in DOMAIN channel : i \in DOMAIN channel' /\ channel'[i] = channel[i]
                                   /\ i <= Len(channel)
      /\ \A i \in DOMAIN channel' : i \in DOMAIN channel \/ i = Len(channel) + 1
  BY <1>0, <1>1, PutLast
<1>3. resp[r] = "none" /\ \A i \in DOMAIN channel : channel[i] # r
  BY <1>1 DEF Owed, Queued, Expects
<1>4. Queued'
  BY <1>0, <1>1, <1>2, <1>3 DEF Owed, Queued
<1>5. ASSUME NEW c \in Call PROVE Expects(c)' /\ Told(c)'
  <2>1. CASE c = r
    BY <1>0, <1>1, <1>2, <1>3, <2>1 DEF Owed, Expects, Told, Answered
  <2>2. CASE c # r
    BY <1>0, <1>1, <1>2, <2>2 DEF Owed, Expects, Told, Answered
  <2> QED BY <2>1, <2>2
<1> QED BY <1>4, <1>5 DEF Owed

\* The bot loop takes a command and responds to it.
LEMMA CommandOwed ==
  ASSUME TypeInv, Owed, HandleCommand
  PROVE  Owed'
<1> DEFINE r == Head(channel)
<1>0. /\ channel \in Seq(Call) /\ \A i \in DOMAIN channel : channel[i] \in Call
      /\ resp \in [Call -> {"none", "ok", "err", "dropped"}]
  BY DEF TypeInv, TypeOK
<1>1. /\ channel # << >> /\ channel' = Tail(channel) /\ loop = "running"
      /\ UNCHANGED <<pc, answer, loop>>
  BY DEF HandleCommand, Selecting, callVars
<1>2. /\ r \in Call /\ r = channel[1] /\ 1 \in DOMAIN channel
      /\ \A i \in DOMAIN channel' : i \in Nat /\ i + 1 \in DOMAIN channel /\ i + 1 # 1
                                    /\ channel'[i] = channel[i + 1]
      /\ \A i \in DOMAIN channel : i = 1 \/ \E j \in DOMAIN channel' : i = j + 1
  BY <1>0, <1>1, TakeFirst
<1>3. \/ sent' = sent \cup {r} /\ resp' = [resp EXCEPT ![r] = "ok"]
      \/ sent' = sent /\ resp' = [resp EXCEPT ![r] = "err"]
  BY DEF HandleCommand, Respond
<1> HIDE DEF r
<1>4. /\ pc[r] \in {"waiting", "gone"} /\ resp[r] = "none"
      /\ \A i \in DOMAIN channel' : channel'[i] # r
  BY <1>1, <1>2 DEF Owed, Queued
<1>5. Queued'
  <2>1. \A i, j \in DOMAIN channel' : channel'[i] = channel'[j] => i = j
    BY <1>2 DEF Owed, Queued
  <2>2. \A i \in DOMAIN channel' : resp'[channel'[i]] = resp[channel'[i]]
    BY <1>0, <1>2, <1>3, <1>4
  <2> QED BY <1>1, <1>2, <2>1, <2>2 DEF Owed, Queued
<1>6. ASSUME NEW c \in Call PROVE Expects(c)' /\ Told(c)'
  <2>1. CASE c = r
    BY <1>0, <1>1, <1>3, <1>4, <2>1 DEF Owed, Expects, Told, Answered
  <2>2. CASE c # r
    <3>1. resp'[c] = resp[c] /\ (c \in sent' <=> c \in sent)
      BY <1>0, <1>3, <2>2
    <3> QED BY <1>1, <1>2, <2>2, <3>1 DEF Owed, Expects, Told, Answered
  <2> QED BY <2>1, <2>2
<1> QED BY <1>5, <1>6 DEF Owed

\* Commands dropped with the channel are responded to by their oneshots.
LEMMA EndOwed ==
  ASSUME TypeInv, Owed, LoopEnds \/ ProcessExits
  PROVE  Owed'
<1>0. /\ resp \in [Call -> {"none", "ok", "err", "dropped"}]
      /\ \A i \in DOMAIN channel : channel[i] \in Call
  BY DEF TypeInv, TypeOK
<1>1. CASE LoopEnds
  <2>1. /\ DOMAIN channel' = {} /\ UNCHANGED <<pc, answer, sent>>
        /\ resp' = [c \in Call |-> IF \E i \in DOMAIN channel : channel[i] = c
                                    THEN "dropped" ELSE resp[c]]
    BY <1>1 DEF LoopEnds, SendersDropped, callVars
  <2>2. Queued'
    BY <2>1 DEF Queued
  <2>3. ASSUME NEW c \in Call PROVE Expects(c)' /\ Told(c)'
    <3>1. Expects(c) /\ Told(c)
      BY DEF Owed
    <3>2. CASE \E i \in DOMAIN channel : channel[i] = c
      <4>1. pc[c] \in {"waiting", "gone"} /\ resp[c] = "none" /\ resp'[c] = "dropped"
        BY <2>1, <3>2 DEF Owed, Queued
      <4> QED BY <2>1, <3>1, <4>1 DEF Expects, Told, Answered
    <3>3. CASE ~\E i \in DOMAIN channel : channel[i] = c
      BY <2>1, <3>1, <3>3 DEF Expects, Told, Answered
    <3> QED BY <3>2, <3>3
  <2> QED BY <2>2, <2>3 DEF Owed
<1>2. CASE ProcessExits
  <2>1. /\ pc' = [c \in Call |-> IF pc[c] = "done" THEN "done" ELSE "gone"]
        /\ loop = "down" /\ UNCHANGED <<channel, resp, sent, answer>>
    BY <1>2 DEF ProcessExits
  <2>2. DOMAIN channel = {}
    BY <2>1 DEF Owed, Queued
  <2>3. Queued'
    BY <2>1, <2>2 DEF Queued
  <2>4. ASSUME NEW c \in Call PROVE Expects(c)' /\ Told(c)'
    BY <2>1 DEF Owed, Expects, Told, Answered
  <2> QED BY <2>3, <2>4 DEF Owed
<1> QED BY <1>1, <1>2

LEMMA NextOwed == TypeInv /\ Owed /\ [Next]_vars => Owed'
<1> SUFFICES ASSUME TypeInv, Owed, [Next]_vars PROVE Owed'
  OBVIOUS
<1>1. CASE \E r \in Call : Arrival(r) \/ Handler(r) \/ Abandon(r)
  BY <1>1, HandlerOwed, SendOwed DEF Arrival, Handler
<1>2. CASE HandleCommand \/ LoopEnds \/ ProcessExits
  BY <1>2, CommandOwed, EndOwed
<1>3. CASE TakeEvent \/ WritePositions \/ WriteOrders \/ Peers \/ Server \/ UNCHANGED vars
  <2>1. UNCHANGED <<pc, channel, resp, loop, sent, answer>>
    BY <1>3 DEF TakeEvent, WritePositions, WriteOrders, Peers, Stall, Release, Server, BrokerRefuses, BrokerCancels, BrokerAccepts, BrokerCloses,
                BrokerEnds, BrokerOther, Emit, vars, callVars
  <2> QED BY <2>1 DEF Owed, Queued, Expects, Told, Answered
<1> QED BY <1>1, <1>2, <1>3 DEF Next, BotLoop

THEOREM OwedCorrect == Spec => []Owed
BY InitOwed, NextOwed, TypeInvCorrect, PTL DEF Spec

\* The error code tells a client whether its request was written to the
\* connection: a call that failed on the way to the bot loop never was, and one
\* that was answered by its row, or by its absence, was.
THEOREM AnswerCorrect == Spec => []AnswerTellsWhetherSent
<1>1. Owed => AnswerTellsWhetherSent
  BY DEF Owed, Told, AnswerTellsWhetherSent
<1> QED BY <1>1, OwedCorrect, PTL

\* No waiting handler is forgotten by the channel or by its oneshot, for channels of
\* every capacity, also when the bot loop ends with commands queued.
THEOREM WaiterCorrect == Spec => []CommandOwedToWaiter
<1>1. Owed => CommandOwedToWaiter
  BY DEF Owed, Queued, Expects, CommandOwedToWaiter
<1> QED BY <1>1, OwedCorrect, PTL

-----------------------------------------------------------------------------
(* Refinement: OrderEntry implements RequestOnce. *)

OnceTold == [c \in Call |-> ToldTo(c)]

\* What a call that has no answer has been told follows from where it is.
LEMMA ToldWhile ==
  ASSUME TypeInv, Owed, NEW r \in Call
  PROVE  /\ pc[r] = "gone" => ToldTo(r) = "left"
         /\ pc[r] \notin {"gone", "done"} => ToldTo(r) = "waiting" /\ answer[r] = Absent
         /\ pc[r] = "done" => ToldTo(r) # "left"
BY DEF Owed, Told, ToldTo, Answered

\* Nothing new is told.
LEMMA ToldStays ==
  ASSUME UNCHANGED <<pc, answer>>
  PROVE  OnceTold' = OnceTold
BY DEF OnceTold, ToldTo, Answered

\* A handler goes on without an answer.
LEMMA ToldGoesOn ==
  ASSUME TypeInv, Owed, NEW r \in Call, NEW stage \in {"sending", "waiting", "polling", "unseen"},
         pc[r] \notin {"gone", "done"}, pc' = [pc EXCEPT ![r] = stage], UNCHANGED answer
  PROVE  OnceTold' = OnceTold
<1>1. pc \in [Call -> {"idle", "sending", "waiting", "polling", "unseen", "done", "gone"}]
  BY DEF TypeInv, TypeOK
<1>2. answer[r] = Absent
  BY DEF Owed, Told
<1>3. ASSUME NEW c \in Call PROVE ToldTo(c)' = ToldTo(c)
  BY <1>1, <1>2 DEF ToldTo, Answered
<1> QED BY <1>3 DEF OnceTold

\* An answer tells the caller what became of its request.
LEMMA AnswerTells ==
  ASSUME TypeInv, Owed, Owed', NEW r \in Call, NEW code \in Code,
         NEW o \in OrderId \cup {Absent}, Finish(r, code, o),
         pc[r] \notin {"gone", "done"}, UNCHANGED <<requests, sent>>
  PROVE  \E what \in {"sent", "failed", "error"} : Once!Tell(r, what)
<1> DEFINE what == IF code = "bot_error" THEN "error"
                   ELSE IF code \in {"ok", "pending_execution", "not_found"} THEN "sent"
                   ELSE "failed"
<1>1. /\ pc \in [Call -> {"idle", "sending", "waiting", "polling", "unseen", "done", "gone"}]
      /\ answer \in [Call -> Answer \cup {Absent}]
  BY DEF TypeInv, TypeOK
<1>2. /\ pc'[r] = "done" /\ answer'[r] = [code |-> code, order |-> o]
      /\ \A c \in Call \ {r} : pc'[c] = pc[c] /\ answer'[c] = answer[c]
  BY <1>1 DEF Finish
<1>3. answer'[r] # Absent /\ answer'[r].code = code
  BY <1>2 DEF Answer
<1>4. ToldTo(r)' = what
  BY <1>2, <1>3 DEF ToldTo, Answered, Code
<1>5. /\ what = "sent" => r \in sent
      /\ what = "failed" => r \notin sent
  BY <1>3 DEF Owed, Told, Answered, Code
<1>6. ASSUME NEW c \in Call \ {r} PROVE ToldTo(c)' = ToldTo(c)
  BY <1>2 DEF ToldTo, Answered
<1>7. what \in {"sent", "failed", "error"}
  OBVIOUS
<1> HIDE DEF what
<1>8. OnceTold' = [OnceTold EXCEPT ![r] = what]
  BY <1>4, <1>6 DEF OnceTold
<1>9. OnceTold[r] = "waiting"
  BY ToldWhile DEF OnceTold
<1>10. Once!Tell(r, what)
  BY <1>5, <1>8, <1>9 DEF Once!Tell, OnceTold
<1> QED BY <1>7, <1>10

\* Callers leave: one of them, or all that have no answer.
LEMMA Leaves ==
  ASSUME TypeInv, Owed, NEW cs \in SUBSET Call, \A c \in cs : pc[c] \notin {"gone", "done"},
         pc' = [c \in Call |-> IF c \in cs THEN "gone" ELSE pc[c]],
         UNCHANGED <<answer, requests, sent>>
  PROVE  Once!Leave(cs)
<1>1. \A c \in cs : OnceTold[c] = "waiting"
  BY ToldWhile DEF OnceTold
<1>2. ASSUME NEW c \in Call
      PROVE  ToldTo(c)' = IF c \in cs THEN "left" ELSE ToldTo(c)
  <2>1. CASE c \in cs
    <3>1. pc'[c] = "gone" /\ answer'[c] = Absent
      BY <2>1, ToldWhile
    <3> QED BY <2>1, <3>1 DEF ToldTo, Answered
  <2>2. CASE c \notin cs
    <3>1. pc'[c] = pc[c]
      BY <2>2
    <3> QED BY <2>2, <3>1 DEF ToldTo, Answered
  <2> QED BY <2>1, <2>2
<1>3. OnceTold' = [c \in Call |-> IF c \in cs THEN "left" ELSE OnceTold[c]]
  BY <1>2 DEF OnceTold
<1> QED BY <1>1, <1>3 DEF Once!Leave, OnceTold

LEMMA HandlerRefines ==
  ASSUME TypeInv, Owed, Owed', NEW r \in Call, Arrival(r) \/ Handler(r) \/ Abandon(r)
  PROVE  Once!OnceNext \/ UNCHANGED Once!onceVars
<1>1. UNCHANGED <<requests, sent>>
  BY DEF Arrival, Handler, BadRequest, TakeBaseline, NameTarget, SendCommand, ChannelClosed,
         Awaken, EchoLast, PollEmpty, PollAgain, Deadline, Abandon
<1>2. ASSUME NEW code \in Code, NEW o \in OrderId \cup {Absent}, Finish(r, code, o),
             pc[r] \notin {"gone", "done"}
      PROVE  Once!OnceNext
  BY <1>1, <1>2, AnswerTells DEF Once!OnceNext
<1>3. ASSUME NEW stage \in {"sending", "waiting", "polling", "unseen"},
             pc[r] \notin {"gone", "done"}, pc' = [pc EXCEPT ![r] = stage], UNCHANGED answer
      PROVE  UNCHANGED Once!onceVars
  BY <1>1, <1>3, ToldGoesOn DEF Once!onceVars, OnceTold
<1>4. CASE BadRequest(r) \/ ChannelClosed(r) \/ Deadline(r)
  BY <1>2, <1>4 DEF BadRequest, ChannelClosed, Deadline, Code
<1>5. CASE EchoLast(r)
  <2>1. orders[Len(orders)] \in OrderId
    BY <1>5 DEF TypeInv, TypeOK, EchoLast, Outgrown
  <2> QED BY <1>2, <1>5, <2>1 DEF EchoLast, Code
<1>6. CASE Awaken(r)
  <2>1. Rows \subseteq OrderId
    BY DEF Rows, TypeInv, TypeOK
  <2>2. pc[r] = "waiting"
    BY <1>6 DEF Awaken
  <2>3. CASE \E code \in Code, o \in OrderId \cup {Absent} : Finish(r, code, o)
    BY <1>2, <2>2, <2>3
  <2>4. CASE pc' = [pc EXCEPT ![r] = "polling"] /\ UNCHANGED answer
    BY <1>3, <2>2, <2>4
  <2>5. \/ pc' = [pc EXCEPT ![r] = "polling"] /\ UNCHANGED answer
        \/ target[r] \in Rows /\ Finish(r, "ok", target[r])
        \/ Finish(r, "ok", Absent) \/ Finish(r, "not_found", Absent)
        \/ Finish(r, "bot_error", Absent) \/ Finish(r, "bot_channel_dropped", Absent)
    BY <1>6 DEF Awaken
  <2> QED BY <2>1, <2>3, <2>4, <2>5 DEF Code
<1>7. CASE TakeBaseline(r) \/ NameTarget(r) \/ SendCommand(r) \/ PollEmpty(r) \/ PollAgain(r)
  BY <1>3, <1>7 DEF TakeBaseline, NameTarget, SendCommand, PollEmpty, PollAgain
<1>8. CASE Abandon(r)
  <2>1. pc' = [c \in Call |-> IF c \in {r} THEN "gone" ELSE pc[c]]
    BY <1>8 DEF Abandon, TypeInv, TypeOK
  <2>2. \A c \in {r} : pc[c] \notin {"gone", "done"}
    BY <1>8 DEF Abandon
  <2>3. Once!Leave({r})
    BY <1>1, <1>8, <2>1, <2>2, Leaves DEF Abandon
  <2> QED BY <2>3 DEF Once!OnceNext
<1> QED BY <1>4, <1>5, <1>6, <1>7, <1>8 DEF Arrival, Handler

\* The bot loop writes the request of a call that has had none written.
LEMMA CommandRefines ==
  ASSUME TypeInv, Owed, HandleCommand
  PROVE  Once!OnceNext \/ UNCHANGED Once!onceVars
<1> DEFINE r == Head(channel)
<1>1. channel \in Seq(Call) /\ channel # << >>
  BY DEF HandleCommand, TypeInv, TypeOK
<1>2. r \in Call /\ r = channel[1] /\ 1 \in DOMAIN channel
  BY <1>1, TakeFirst
<1>3. OnceTold' = OnceTold
  BY ToldStays DEF HandleCommand, callVars
<1>4. \/ requests' = Append(requests, r) /\ sent' = sent \cup {r}
      \/ UNCHANGED <<requests, sent>>
  BY DEF HandleCommand
<1> HIDE DEF r
<1>5. pc[r] \in {"waiting", "gone"} /\ r \notin sent
  BY <1>2 DEF Owed, Queued, Expects
<1>6. OnceTold[r] \in {"waiting", "left"}
  BY <1>2, <1>5, ToldWhile DEF OnceTold
<1>7. CASE requests' = Append(requests, r) /\ sent' = sent \cup {r}
  <2>1. Once!Write(r)
    BY <1>3, <1>5, <1>6, <1>7 DEF Once!Write, OnceTold
  <2> QED BY <1>2, <2>1 DEF Once!OnceNext
<1>8. CASE UNCHANGED <<requests, sent>>
  BY <1>3, <1>8 DEF Once!onceVars, OnceTold
<1> QED BY <1>4, <1>7, <1>8

LEMMA OnceStep ==
  TypeInv /\ Owed /\ Owed' /\ [Next]_vars => [Once!OnceNext]_(Once!onceVars)
<1> SUFFICES ASSUME TypeInv, Owed, Owed', [Next]_vars
             PROVE  Once!OnceNext \/ UNCHANGED Once!onceVars
  OBVIOUS
<1>1. CASE \E r \in Call : Arrival(r) \/ Handler(r) \/ Abandon(r)
  BY <1>1, HandlerRefines
<1>2. CASE HandleCommand
  BY <1>2, CommandRefines
<1>3. ASSUME UNCHANGED <<pc, answer, requests, sent>>
      PROVE  UNCHANGED Once!onceVars
  BY <1>3, ToldStays DEF Once!onceVars, OnceTold
<1>4. CASE TakeEvent \/ WritePositions \/ WriteOrders \/ Peers \/ LoopEnds \/ UNCHANGED vars
  BY <1>3, <1>4 DEF TakeEvent, WritePositions, WriteOrders, Peers, Stall, Release, LoopEnds, vars,
                    callVars
<1>5. CASE ProcessExits
  <2> DEFINE cs == {c \in Call : pc[c] \notin {"gone", "done"}}
  <2>1. pc' = [c \in Call |-> IF c \in cs THEN "gone" ELSE pc[c]]
    BY <1>5 DEF ProcessExits, TypeInv, TypeOK
  <2>2. Once!Leave(cs)
    BY <1>5, <2>1, Leaves DEF ProcessExits
  <2> QED BY <2>2 DEF Once!OnceNext
<1>6. CASE Server
  <2>1. UNCHANGED <<pc, answer, sent>>
    BY <1>6 DEF Server, BrokerRefuses, BrokerCancels, BrokerAccepts, BrokerCloses, BrokerEnds,
                BrokerOther, Emit, callVars
  <2>2. OnceTold' = OnceTold
    BY <2>1, ToldStays
  <2>3. requests' = requests \/ (requests # << >> /\ requests' = Tail(requests))
    BY <1>6 DEF Server, BrokerRefuses, BrokerCancels, BrokerAccepts, BrokerCloses, BrokerEnds,
                BrokerOther
  <2> QED BY <2>1, <2>2, <2>3 DEF Once!OnceNext, Once!Deliver, Once!onceVars, OnceTold
<1> QED BY <1>1, <1>2, <1>4, <1>5, <1>6 DEF Next, BotLoop

LEMMA OnceStart == Init => Once!OnceInit
BY DEF Init, Once!OnceInit, ToldTo, Answered

\* A request goes out at most once, never after its caller was told of an error, and
\* what callers are told is true: for any number of calls, whoever leaves and wherever
\* the bot loop ends.
THEOREM Refinement == Spec => ImplementsRequestOnce
<1>1. TypeInv /\ Owed /\ [Next]_vars => (TypeInv /\ Owed)' /\ [Once!OnceNext]_(Once!onceVars)
  BY NextType, NextOwed, OnceStep
<1>2. Init => TypeInv /\ Owed /\ Once!OnceInit
  BY InitType, InitOwed, OnceStart
<1> QED BY <1>1, <1>2, PTL DEF Spec, ImplementsRequestOnce, Once!OnceSpec

-----------------------------------------------------------------------------
(* The table of orders *)

\* Where the events of a stream say that an order works, and that it has ended.
Starts(q, o) == {i \in DOMAIN q : q[i].order = o /\ q[i].working}
Ends(q, o) == {i \in DOMAIN q : q[i].order = o /\ ~q[i].working}

\* The events the table has still to take in: the one being applied, and those on
\* their way.
Stream == IF writing = "none" THEN events ELSE <<applying>> \o events

LEMMA StreamType ==
  ASSUME TypeInv
  PROVE  Stream \in Seq(Events)
<1>1. events \in Seq(Events) /\ (writing # "none" => <<applying>> \in Seq(Events))
  BY DEF TypeInv, TypeOK
<1> QED BY <1>1, ConcatProperties DEF Stream

\* A table that is written has taken in the first of them.
LEMMA StreamWritten ==
  ASSUME TypeInv, WriteOrders
  PROVE  /\ Stream # << >> /\ Head(Stream) = applying /\ Stream' = Tail(Stream)
         /\ applying.order # Absent
<1>1. events \in Seq(Events) /\ applying \in Events /\ applying.order # Absent
  BY DEF WriteOrders, TypeInv, TypeOK
<1>2. Stream = <<applying>> \o events /\ Stream' = events
  BY DEF WriteOrders, Stream
<1>3. /\ <<applying>> \o events # << >> /\ Head(<<applying>> \o events) = applying
      /\ Tail(<<applying>> \o events) = events
  BY <1>1
<1> QED BY <1>1, <1>2, <1>3

\* Taking an event changes nothing, unless it names no order and is done with.
LEMMA StreamTaken ==
  ASSUME TypeInv, TakeEvent
  PROVE  \/ Stream' = Stream
         \/ Stream # << >> /\ Head(Stream).order = Absent /\ Stream' = Tail(Stream)
<1>1. events \in Seq(Events) /\ events # << >> /\ events' = Tail(events) /\ Stream = events
  BY DEF TakeEvent, Selecting, Stream, TypeInv, TypeOK
<1>2. events = <<Head(events)>> \o Tail(events)
  BY <1>1
<1>3. CASE Head(events).order = Absent /\ UNCHANGED stepVars
  BY <1>1, <1>3 DEF TakeEvent, Selecting, Stream, stepVars
<1>4. CASE applying' = Head(events) /\ writing' \in {"positions", "orders"}
  BY <1>1, <1>2, <1>4 DEF Stream
<1> QED BY <1>3, <1>4 DEF TakeEvent

LEMMA StreamEmits ==
  ASSUME TypeInv, NEW es \in Seq(Events), Emit(es)
  PROVE  Stream' = Stream \o es
<1>1. events \in Seq(Events) /\ (writing # "none" => <<applying>> \in Seq(Events))
  BY DEF TypeInv, TypeOK
<1>2. events' = events \o es /\ UNCHANGED <<applying, writing>>
  BY DEF Emit, stepVars
<1>3. CASE writing = "none"
  BY <1>2, <1>3 DEF Stream
<1>4. CASE writing # "none"
  <2>1. (<<applying>> \o events) \o es = <<applying>> \o (events \o es)
    BY <1>1, <1>4, ConcatAssociative
  <2> QED BY <1>2, <1>4, <2>1 DEF Stream
<1> QED BY <1>3, <1>4

New(o) == o \notin Rows /\ \A r \in Call : o \notin atBaseline[r]

\* The news of an order come once and in their order; while it is new to the bot it
\* is in no baseline, and while it has ended at the server only, its end is on its way.
News(o) ==
  /\ \A i, j \in Starts(Stream, o) : i = j
  /\ \A i \in Starts(Stream, o), j \in Ends(Stream, o) : i < j
  /\ Starts(Stream, o) # {} => New(o)
  /\ book[o] = "none" => Starts(Stream, o) = {} /\ Ends(Stream, o) = {} /\ New(o)
  /\ book[o] = "ended" /\ (o \in Rows \/ Starts(Stream, o) # {}) => Ends(Stream, o) # {}

\* The rows of a baseline never are further down the table than its length.
Aged(r) == \A i \in DOMAIN orders : orders[i] \in atBaseline[r] => i <= baseline[r]

Table ==
  /\ \A i, j \in DOMAIN orders : orders[i] = orders[j] => i = j
  /\ loop = "running" => \A o \in OrderId : News(o)
  /\ \A r \in Call : Aged(r)

LEMMA InitTable == Init => Table
<1> SUFFICES ASSUME Init PROVE Table
  OBVIOUS
<1>1. /\ Stream = << >> /\ DOMAIN Stream = {} /\ \A r \in Call : atBaseline[r] = {}
      /\ \A o \in OrderId : book[o] = IF o \in Rows THEN "working" ELSE "none"
  BY DEF Init, Stream
<1>2. \A i, j \in DOMAIN orders : orders[i] = orders[j] => i = j
  <2>1. orders = << >> \/ \E o \in OrderId : orders = <<o>>
    BY DEF Init
  <2> QED BY <2>1
<1>3. \A o \in OrderId : News(o)
  BY <1>1 DEF News, Starts, Ends, New
<1> QED BY <1>1, <1>2, <1>3 DEF Table, Aged

\* The first event is taken off the stream.
LEMMA TakeNews ==
  ASSUME NEW q \in Seq(Events), q # << >>, NEW o
  PROVE  /\ \A i \in Starts(Tail(q), o) : i \in Nat /\ i + 1 \in Starts(q, o) /\ i + 1 # 1
         /\ \A i \in Ends(Tail(q), o) : i \in Nat /\ i + 1 \in Ends(q, o) /\ i + 1 # 1
         /\ \A i \in Ends(q, o) : i = 1 \/ Ends(Tail(q), o) # {}
         /\ 1 \in DOMAIN q /\ Head(q) = q[1]
<1>1. /\ Head(q) = q[1] /\ 1 \in DOMAIN q
      /\ \A i \in DOMAIN Tail(q) : i \in Nat /\ i + 1 \in DOMAIN q /\ i + 1 # 1
                                   /\ Tail(q)[i] = q[i + 1]
      /\ \A i \in DOMAIN q : i = 1 \/ \E j \in DOMAIN Tail(q) : i = j + 1
  BY TakeFirst
<1> QED BY <1>1 DEF Starts, Ends

\* The table takes in the first event of the stream.
LEMMA EventTable ==
  ASSUME TypeInv, Table, loop = "running", Stream # << >>, Stream' = Tail(Stream),
         Head(Stream).order = Absent => orders' = orders,
         Head(Stream).order # Absent => orders' = OrdersAfter(Head(Stream)),
         UNCHANGED <<book, baseline, atBaseline>>
  PROVE  Table'
<1> DEFINE e == Head(Stream)
<1>1. Stream \in Seq(Events) /\ Stream # << >> /\ Stream' = Tail(Stream)
  BY StreamType
<1>2. e \in Events /\ e = Stream[1] /\ 1 \in DOMAIN Stream
  BY <1>1, TakeFirst
<1>3. \A o \in OrderId :
        /\ \A i \in Starts(Stream', o) : i \in Nat /\ i + 1 \in Starts(Stream, o) /\ i + 1 # 1
        /\ \A i \in Ends(Stream', o) : i \in Nat /\ i + 1 \in Ends(Stream, o) /\ i + 1 # 1
        /\ \A i \in Ends(Stream, o) : i = 1 \/ Ends(Stream', o) # {}
  BY <1>1, TakeNews
<1>4. UNCHANGED <<book, baseline, atBaseline>>
  OBVIOUS
<1>5. orders \in Seq(OrderId) /\ Len(orders) \in Nat
      /\ \A r \in Call : baseline[r] \in Nat
  BY DEF TypeInv, TypeOK
<1>6. e.order = Absent => orders' = orders
  OBVIOUS
<1>7. e.order # Absent => orders' = OrdersAfter(e)
  OBVIOUS
<1> HIDE DEF e
\* The news of an order, whatever becomes of the table, so long as only the order
\* that starts gets a row and the one that ends loses it.
<1>8. ASSUME NEW o \in OrderId, o \in Rows' => o \in Rows \/ 1 \in Starts(Stream, o),
             1 \in Ends(Stream, o) => o \notin Rows'
      PROVE  News(o)'
  <2>1. News(o)
    BY DEF Table
  <2>2. Starts(Stream, o) \subseteq Nat /\ Ends(Stream, o) \subseteq Nat
    BY <1>1 DEF Starts, Ends
  <2>3. \A i, j \in Starts(Stream', o) : i = j
    BY <1>3, <2>1 DEF News
  <2>4. \A i \in Starts(Stream', o), j \in Ends(Stream', o) : i < j
    <3> SUFFICES ASSUME NEW i \in Starts(Stream', o), NEW j \in Ends(Stream', o) PROVE i < j
      OBVIOUS
    <3>1. i \in Nat /\ j \in Nat /\ i + 1 < j + 1
      BY <1>3, <2>1 DEF News
    <3> QED BY <3>1
  <2>5. Starts(Stream', o) # {} => New(o)'
    <3> SUFFICES ASSUME NEW i \in Starts(Stream', o) PROVE New(o)'
      OBVIOUS
    <3>1. i + 1 \in Starts(Stream, o) /\ 1 \notin Starts(Stream, o)
      BY <1>3, <2>1 DEF News
    <3> QED BY <1>4, <1>8, <2>1, <3>1 DEF News, New
  <2>6. book'[o] = "none" => Starts(Stream', o) = {} /\ Ends(Stream', o) = {} /\ New(o)'
    BY <1>3, <1>4, <1>8, <2>1 DEF News, New
  <2>7. book'[o] = "ended" /\ (o \in Rows' \/ Starts(Stream', o) # {}) => Ends(Stream', o) # {}
    <3> SUFFICES ASSUME book'[o] = "ended", o \in Rows' \/ Starts(Stream', o) # {}
                 PROVE  Ends(Stream', o) # {}
      OBVIOUS
    <3>1. Ends(Stream, o) # {}
      BY <1>3, <1>4, <1>8, <2>1 DEF News
    <3>2. 1 \notin Ends(Stream, o)
      <4>1. CASE o \in Rows'
        BY <1>8, <4>1
      <4>2. CASE Starts(Stream', o) # {}
        <5>1. PICK i \in Starts(Stream', o) : i \in Nat /\ i + 1 \in Starts(Stream, o)
          BY <1>3, <4>2
        <5>2. 1 \in Ends(Stream, o) => i + 1 < 1
          BY <2>1, <5>1 DEF News
        <5> QED BY <5>1, <5>2
      <4> QED BY <4>1, <4>2
    <3> QED BY <1>3, <3>1, <3>2
  <2> QED BY <2>3, <2>4, <2>5, <2>6, <2>7 DEF News
<1>9. /\ \A o \in OrderId : o # Absent
      /\ \A o : 1 \in Starts(Stream, o) <=> e.order = o /\ e.working
      /\ \A o : 1 \in Ends(Stream, o) <=> e.order = o /\ ~e.working
  BY <1>2 DEF Starts, Ends
<1>10. CASE orders' = orders /\ (e.order = Absent \/ (e.working <=> e.order \in Rows))
  <2>1. Rows' = Rows
    BY <1>10 DEF Rows
  <2>2. \A o \in OrderId : News(o)'
    BY <1>8, <1>9, <1>10, <2>1
  <2> QED BY <1>4, <1>10, <2>2 DEF Table, Aged
<1>11. CASE /\ orders' = Append(orders, e.order) /\ e.order # Absent /\ e.working
            /\ e.order \notin Rows
  <2>1. e.order \in OrderId
    BY <1>2, <1>11 DEF Events
  <2>2. /\ Len(orders) + 1 \in DOMAIN orders' /\ orders'[Len(orders) + 1] = e.order
        /\ \A i \in DOMAIN orders : i \in DOMAIN orders' /\ orders'[i] = orders[i]
        /\ \A i \in DOMAIN orders' : i \in DOMAIN orders \/ i = Len(orders) + 1
    BY <1>5, <1>11, <2>1, PutLast
  <2>3. Rows' = Rows \cup {e.order}
    BY <2>2 DEF Rows
  <2>4. \A o \in OrderId : News(o)'
    BY <1>8, <1>9, <1>11, <2>3
  <2>5. \A i, j \in DOMAIN orders' : orders'[i] = orders'[j] => i = j
    BY <1>11, <2>2 DEF Table, Rows
  <2>6. News(e.order) /\ Starts(Stream, e.order) # {}
    BY <1>9, <1>11, <2>1 DEF Table
  <2>7. ASSUME NEW r \in Call PROVE Aged(r)'
    <3>1. e.order \notin atBaseline[r] /\ Aged(r)
      BY <2>6 DEF News, New, Table
    <3> QED BY <1>4, <2>2, <3>1 DEF Aged
  <2> QED BY <2>4, <2>5, <2>7 DEF Table
<1>12. CASE /\ orders' = LeftOut(orders, RowOf(e.order)) /\ e.order # Absent /\ ~e.working
            /\ RowOf(e.order) \in DOMAIN orders /\ orders[RowOf(e.order)] = e.order
  <2> DEFINE k == RowOf(e.order)
  <2>1. /\ k \in DOMAIN orders /\ orders[k] = e.order
        /\ \A i \in DOMAIN orders' : \/ i < k /\ i \in DOMAIN orders /\ orders'[i] = orders[i]
                                     \/ i >= k /\ i + 1 \in DOMAIN orders /\ orders'[i] = orders[i + 1]
    BY <1>5, <1>12, LeaveOut
  <2>2. orders' \in Seq(OrderId)
    BY <1>5, <1>12, LeaveOut
  <2> HIDE DEF k
  <2>3. DOMAIN orders \subseteq Nat /\ DOMAIN orders' \subseteq Nat
    BY <1>5, <2>2
  <2>4. Rows' \subseteq Rows /\ e.order \notin Rows'
    <3>1. \A i \in DOMAIN orders' : orders'[i] \in Rows
      BY <2>1 DEF Rows
    <3>2. ASSUME NEW i \in DOMAIN orders' PROVE orders'[i] # e.order
      <4>1. i \in Nat /\ k \in Nat
        BY <2>1, <2>3
      <4>2. CASE i < k /\ i \in DOMAIN orders /\ orders'[i] = orders[i]
        BY <2>1, <4>1, <4>2 DEF Table
      <4>3. CASE i >= k /\ i + 1 \in DOMAIN orders /\ orders'[i] = orders[i + 1]
        BY <2>1, <4>1, <4>3 DEF Table
      <4> QED BY <2>1, <4>2, <4>3
    <3> QED BY <3>1, <3>2 DEF Rows
  <2>5. \A o \in OrderId : News(o)'
    BY <1>8, <1>9, <2>4
  <2>6. ASSUME NEW i \in DOMAIN orders', NEW j \in DOMAIN orders', orders'[i] = orders'[j]
        PROVE  i = j
    <3>1. i \in Nat /\ j \in Nat /\ k \in Nat
      BY <2>1, <2>3
    <3>2. PICK m \in DOMAIN orders : orders'[i] = orders[m] /\ m = IF i < k THEN i ELSE i + 1
      BY <2>1, <3>1
    <3>3. PICK n \in DOMAIN orders : orders'[j] = orders[n] /\ n = IF j < k THEN j ELSE j + 1
      BY <2>1, <3>1
    <3>4. m = n
      BY <2>6, <3>2, <3>3 DEF Table
    <3> QED BY <3>1, <3>2, <3>3, <3>4
  <2>7. ASSUME NEW r \in Call PROVE Aged(r)'
    <3> SUFFICES ASSUME NEW i \in DOMAIN orders', orders'[i] \in atBaseline[r]
                 PROVE  i <= baseline[r]
      BY <1>4 DEF Aged
    <3>1. i \in Nat /\ baseline[r] \in Nat
      BY <1>5, <2>3
    <3>2. i <= baseline[r] \/ i + 1 <= baseline[r]
      BY <2>1 DEF Table, Aged
    <3> QED BY <3>1, <3>2
  <2> QED BY <2>5, <2>6, <2>7 DEF Table
<1> QED BY <1>2, <1>6, <1>7, <1>10, <1>11, <1>12, OrdersBecome DEF TypeInv

\* The server sends one event more.
LEMMA SendNews ==
  ASSUME NEW q \in Seq(Events), NEW e \in Events, NEW o
  PROVE  /\ Append(q, e) \in Seq(Events)
         /\ Len(q) + 1 \in Nat /\ \A i \in Starts(q, o) \cup Ends(q, o) : i < Len(q) + 1
         /\ Starts(Append(q, e), o) = IF e.order = o /\ e.working
                                        THEN Starts(q, o) \cup {Len(q) + 1} ELSE Starts(q, o)
         /\ Ends(Append(q, e), o) = IF e.order = o /\ ~e.working
                                      THEN Ends(q, o) \cup {Len(q) + 1} ELSE Ends(q, o)
<1> DEFINE longer == Append(q, e)
<1>1. /\ longer \in Seq(Events) /\ Len(q) \in Nat
      /\ Len(q) + 1 \in DOMAIN longer /\ longer[Len(q) + 1] = e
      /\ \A i \in DOMAIN q : i \in DOMAIN longer /\ longer[i] = q[i] /\ i <= Len(q) /\ i \in Nat
      /\ \A i \in DOMAIN longer : i \in DOMAIN q \/ i = Len(q) + 1
  BY PutLast
<1> HIDE DEF longer
<1>2. Len(q) + 1 \notin DOMAIN q
  BY <1>1
<1>3. Starts(longer, o) = IF e.order = o /\ e.working
                            THEN Starts(q, o) \cup {Len(q) + 1} ELSE Starts(q, o)
  BY <1>1, <1>2 DEF Starts
<1>4. Ends(longer, o) = IF e.order = o /\ ~e.working
                          THEN Ends(q, o) \cup {Len(q) + 1} ELSE Ends(q, o)
  BY <1>1, <1>2 DEF Ends
<1>5. \A i \in Starts(q, o) \cup Ends(q, o) : i < Len(q) + 1
  BY <1>1 DEF Starts, Ends
<1> QED BY <1>1, <1>3, <1>4, <1>5 DEF longer

LEMMA EmitAppends ==
  ASSUME NEW q \in Seq(Events), NEW e \in Events, NEW f \in Events
  PROVE  q \o <<e>> = Append(q, e) /\ q \o <<e, f>> = Append(Append(q, e), f)
<1>1. <<e>> = Append(<< >>, e) /\ <<e, f>> = Append(Append(<< >>, e), f)
  OBVIOUS
<1>2. q \o <<e>> = Append(q, e)
  BY AppendIsConcat
<1>3. q \o <<e, f>> = Append(Append(q, e), f)
  OBVIOUS
<1> QED BY <1>2, <1>3

LEMMA ServerTable ==
  ASSUME TypeInv, Table, Server
  PROVE  Table'
<1>1. /\ Stream \in Seq(Events) /\ book \in [OrderId -> {"none", "working", "ended"}]
      /\ Len(Stream) \in Nat /\ \A o \in OrderId : o # Absent
  BY StreamType DEF TypeInv, TypeOK
<1>l. loop = "running"
  BY DEF Server, BrokerRefuses, BrokerCancels, BrokerAccepts, BrokerCloses, BrokerEnds,
         BrokerOther, Emit
<1>s. \A g \in Seq(Events) : Emit(g) => Stream' = Stream \o g
  BY StreamEmits
<1>t. \A g, h \in Events : <<g>> \in Seq(Events) /\ <<g, h>> \in Seq(Events)
  OBVIOUS
<1>2. UNCHANGED <<orders, baseline, atBaseline>>
  BY DEF Server, BrokerRefuses, BrokerCancels, BrokerAccepts, BrokerCloses, BrokerEnds,
         BrokerOther, Emit, callVars, tableVars
<1>3. \A o : New(o)' <=> New(o)
  BY <1>2 DEF New, Rows
<1>4. ASSUME NEW o \in OrderId, Starts(Stream', o) = Starts(Stream, o),
             Ends(Stream', o) = Ends(Stream, o), book'[o] = book[o]
      PROVE  News(o)'
  <2>1. News(o) /\ Rows' = Rows
    BY <1>2, <1>l DEF Table, Rows
  <2> QED BY <1>3, <1>4, <2>1 DEF News
<1>5. ASSUME \A o \in OrderId : News(o)'
      PROVE  Table'
  BY <1>2, <1>5 DEF Table, Aged
<1>6. CASE Emit(<<Event(Absent, FALSE, Absent)>>) /\ UNCHANGED book
  <2> DEFINE e == Event(Absent, FALSE, Absent)
  <2>1. e \in Events /\ e.order = Absent
    BY DEF Event, Events
  <2>2. Stream' = Append(Stream, e)
    BY <1>1, <1>6, <2>1, <1>s, <1>t, EmitAppends
  <2> HIDE DEF e
  <2>3. \A o \in OrderId : Starts(Stream', o) = Starts(Stream, o) /\ Ends(Stream', o) = Ends(Stream, o)
    BY <1>1, <2>1, <2>2, SendNews
  <2> QED BY <1>4, <1>5, <1>6, <2>3
<1>7. ASSUME NEW o \in OrderId, book[o] = "none", book' = [book EXCEPT ![o] = "working"],
             Emit(<<Event(o, TRUE, Absent)>>)
      PROVE  Table'
  <2> DEFINE e == Event(o, TRUE, Absent)
             n == Len(Stream) + 1
  <2>1. e \in Events /\ e.order = o /\ e.working
    BY DEF Event, Events
  <2>2. Stream' = Append(Stream, e)
    BY <1>1, <1>7, <2>1, <1>s, <1>t, EmitAppends
  <2> HIDE DEF e
  <2>3. \A c \in OrderId : /\ Starts(Stream', c) = IF c = o THEN Starts(Stream, c) \cup {n}
                                                         ELSE Starts(Stream, c)
                          /\ Ends(Stream', c) = Ends(Stream, c)
    BY <1>1, <2>1, <2>2, SendNews
  <2>4. News(o) /\ book'[o] = "working"
    BY <1>1, <1>7, <1>l DEF Table
  <2>5. News(o)'
    BY <1>3, <1>7, <2>3, <2>4 DEF News
  <2>6. ASSUME NEW c \in OrderId, c # o PROVE News(c)'
    BY <1>1, <1>4, <1>7, <2>3, <2>6
  <2> QED BY <1>5, <2>5, <2>6
<1>8. ASSUME NEW o \in OrderId, book[o] = "working", book' = [book EXCEPT ![o] = "ended"],
             Emit(<<Event(o, FALSE, Absent)>>)
      PROVE  Table'
  <2> DEFINE e == Event(o, FALSE, Absent)
             n == Len(Stream) + 1
  <2>1. e \in Events /\ e.order = o /\ ~e.working
    BY DEF Event, Events
  <2>2. Stream' = Append(Stream, e)
    BY <1>1, <1>8, <2>1, <1>s, <1>t, EmitAppends
  <2> HIDE DEF e
  <2>3. \A c \in OrderId : /\ Ends(Stream', c) = IF c = o THEN Ends(Stream, c) \cup {n}
                                                       ELSE Ends(Stream, c)
                          /\ Starts(Stream', c) = Starts(Stream, c)
                          /\ \A i \in Starts(Stream, c) : i < n
    BY <1>1, <2>1, <2>2, SendNews
  <2>4. News(o) /\ book'[o] = "ended"
    BY <1>1, <1>8, <1>l DEF Table
  <2> HIDE DEF n
  <2>5. News(o)'
    BY <1>3, <1>8, <2>3, <2>4 DEF News
  <2>6. ASSUME NEW c \in OrderId, c # o PROVE News(c)'
    BY <1>1, <1>4, <1>8, <2>3, <2>6
  <2> QED BY <1>5, <2>5, <2>6
<1>9. ASSUME NEW o \in OrderId, NEW p \in PositionId, book[o] = "none",
             book' = [book EXCEPT ![o] = "ended"],
             Emit(<<Event(o, TRUE, Absent), Event(o, FALSE, p)>>)
      PROVE  Table'
  <2> DEFINE e == Event(o, TRUE, Absent)
             f == Event(o, FALSE, p)
             n == Len(Stream) + 1
             once == Append(Stream, e)
             m == Len(once) + 1
  <2>1. e \in Events /\ e.order = o /\ e.working /\ f \in Events /\ f.order = o /\ ~f.working
    BY DEF Event, Events
  <2>2. Stream' = Append(once, f)
    <3>1. Stream' = Stream \o <<e, f>>
      BY <1>9, <2>1, <1>s, <1>t
    <3>2. Stream \o <<e, f>> = Append(Append(Stream, e), f)
      BY <1>1, <2>1, EmitAppends
    <3> QED BY <3>1, <3>2
  <2>3. \A c \in OrderId : /\ Starts(once, c) = IF c = o THEN Starts(Stream, c) \cup {n}
                                                      ELSE Starts(Stream, c)
                          /\ Ends(once, c) = Ends(Stream, c)
    BY <1>1, <2>1, SendNews
  <2>4. once \in Seq(Events)
    BY <1>1, <2>1, SendNews
  <2> HIDE DEF e, f, once
  <2>5. \A c \in OrderId : /\ Ends(Stream', c) = IF c = o THEN Ends(once, c) \cup {m}
                                                       ELSE Ends(once, c)
                          /\ Starts(Stream', c) = Starts(once, c)
                          /\ \A i \in Starts(once, c) : i < m
    BY <2>1, <2>2, <2>4, SendNews
  <2>6. News(o) /\ book'[o] = "ended"
    BY <1>1, <1>9, <1>l DEF Table
  <2> HIDE DEF m
  <2>7. News(o)'
    BY <1>3, <1>9, <2>3, <2>5, <2>6 DEF News
  <2>8. ASSUME NEW c \in OrderId, c # o PROVE News(c)'
    BY <1>1, <1>4, <1>9, <2>3, <2>5, <2>8
  <2> QED BY <1>5, <2>7, <2>8
<1>10. CASE BrokerRefuses
  BY <1>6, <1>10 DEF BrokerRefuses
<1>11. CASE BrokerCancels
  <2> DEFINE o == target[Head(requests)]
  <2>1. o \in OrderId
    <3>1. requests \in Seq(Call) /\ requests # << >> /\ Head(requests) \in CancelCall
      BY <1>11 DEF TypeInv, TypeOK, BrokerCancels
    <3>2. Head(requests) \in sent
      BY <3>1, TakeFirst DEF TypeInv, Names
    <3> QED BY <3>1, <3>2 DEF TypeInv, Names
  <2>2. \/ /\ book[o] = "working" /\ book' = [book EXCEPT ![o] = "ended"]
           /\ Emit(<<Event(o, FALSE, Absent)>>)
        \/ UNCHANGED book /\ Emit(<<Event(Absent, FALSE, Absent)>>)
    BY <1>11 DEF BrokerCancels
  <2> HIDE DEF o
  <2> QED BY <1>6, <1>8, <2>1, <2>2
<1>12. ASSUME NEW o \in OrderId, BrokerAccepts(o) \/ BrokerOther(o) PROVE Table'
  BY <1>7, <1>12 DEF BrokerAccepts, BrokerOther
<1>13. ASSUME NEW o \in OrderId, BrokerEnds(o) PROVE Table'
  BY <1>8, <1>13 DEF BrokerEnds
<1>14. ASSUME NEW o \in OrderId, BrokerCloses(o) PROVE Table'
  <2> DEFINE p == target[Head(requests)]
  <2>1. \/ /\ p \in open /\ book[o] = "none" /\ book' = [book EXCEPT ![o] = "ended"]
           /\ Emit(<<Event(o, TRUE, Absent), Event(o, FALSE, p)>>)
        \/ Emit(<<Event(Absent, FALSE, Absent)>>) /\ UNCHANGED book
    BY <1>14 DEF BrokerCloses
  <2>2. open \subseteq PositionId
    BY DEF TypeInv, TypeOK
  <2> HIDE DEF p
  <2> QED BY <1>6, <1>9, <2>1, <2>2
<1> QED BY <1>10, <1>11, <1>12, <1>13, <1>14 DEF Server

LEMMA NextTable == TypeInv /\ Table /\ [Next]_vars => Table'
<1> SUFFICES ASSUME TypeInv, Table, [Next]_vars PROVE Table'
  OBVIOUS
<1>1. ASSUME UNCHANGED <<orders, Stream, book, baseline, atBaseline>>, loop' = "running" => loop = "running"
      PROVE  Table'
  BY <1>1 DEF Table, News, New, Aged, Starts, Ends, Rows
<1>5. ASSUME UNCHANGED <<orders, baseline, atBaseline>>, loop' # "running"
      PROVE  Table'
  BY <1>5 DEF Table, Aged
<1>2. ASSUME NEW r \in Call, TakeBaseline(r) PROVE Table'
  <2>1. /\ UNCHANGED <<orders, Stream, book, loop>>
        /\ baseline' = [baseline EXCEPT ![r] = Len(orders)]
        /\ atBaseline' = [atBaseline EXCEPT ![r] = Rows]
    BY <1>2 DEF TakeBaseline, tableVars, stepVars, brokerVars, Stream
  <2>2. /\ baseline \in [Call -> Nat] /\ atBaseline \in [Call -> SUBSET OrderId]
        /\ orders \in Seq(OrderId) /\ \A i \in DOMAIN orders : i <= Len(orders)
    BY DEF TypeInv, TypeOK
  <2>3. \A o \in OrderId : New(o) => New(o)'
    BY <2>1, <2>2 DEF New, Rows
  <2>4. ASSUME loop = "running", NEW o \in OrderId PROVE News(o)'
    <3>1. /\ Rows' = Rows /\ book'[o] = book[o]
          /\ Starts(Stream', o) = Starts(Stream, o) /\ Ends(Stream', o) = Ends(Stream, o)
      BY <2>1 DEF Rows
    <3> QED BY <2>3, <2>4, <3>1 DEF Table, News
  <2>5. \A c \in Call : Aged(c)'
    BY <2>1, <2>2 DEF Table, Aged
  <2> QED BY <2>1, <2>4, <2>5 DEF Table
<1>3. ASSUME NEW r \in Call,
             BadRequest(r) \/ NameTarget(r) \/ Handler(r) \/ Abandon(r)
      PROVE  Table'
  BY <1>1, <1>3 DEF BadRequest, NameTarget, Handler, SendCommand, ChannelClosed, Awaken, EchoLast,
                    PollEmpty, PollAgain, Deadline, Abandon, tableVars, stepVars, brokerVars,
                    Stream
<1>4. CASE HandleCommand \/ Peers \/ UNCHANGED vars
  BY <1>1, <1>4 DEF HandleCommand, Peers, Stall, Release, vars, callVars, tableVars, brokerVars,
                    stepVars, Stream
<1>6. CASE LoopEnds \/ ProcessExits
  BY <1>5, <1>6 DEF LoopEnds, ProcessExits, callVars, tableVars
<1>7. CASE TakeEvent
  <2>1. UNCHANGED <<orders, book, baseline, atBaseline, loop>> /\ loop = "running"
    BY <1>7 DEF TakeEvent, Selecting, callVars, tableVars, brokerVars
  <2>2. CASE Stream' = Stream
    BY <1>1, <2>1, <2>2
  <2>3. CASE Stream # << >> /\ Head(Stream).order = Absent /\ Stream' = Tail(Stream)
    BY <2>1, <2>3, EventTable
  <2> QED BY <1>7, <2>2, <2>3, StreamTaken
<1>8. CASE WritePositions
  <2>1. UNCHANGED <<orders, book, baseline, atBaseline, loop>>
    BY <1>8 DEF WritePositions, callVars, brokerVars
  <2>2. UNCHANGED Stream
    BY <1>8 DEF WritePositions, Stream
  <2> QED BY <1>1, <2>1, <2>2
<1>9. CASE WriteOrders
  <2>1. UNCHANGED <<book, baseline, atBaseline, loop>> /\ orders' = OrdersAfter(applying)
    BY <1>9 DEF WriteOrders, callVars, brokerVars
  <2>2. CASE loop = "running"
    BY <1>9, <2>1, <2>2, EventTable, StreamWritten
  <2> QED BY <1>9, <2>2 DEF TypeInv, TypeOK, WriteOrders
<1> QED BY <1>2, <1>3, <1>4, <1>6, <1>7, <1>8, <1>9, ServerTable DEF Next, Arrival, BotLoop

THEOREM TableCorrect == Spec => []Table
BY InitTable, NextTable, TypeInvCorrect, PTL DEF Spec

\* A row per order, for any number of orders and any interleaving of Stream and
\* calls: none is duplicated, and none that was taken out comes back.
THEOREM RowsCorrect == Spec => []RowsAreOrdersOnce
<1>1. TypeInv /\ Table => RowsAreOrdersOnce
  <2> SUFFICES ASSUME TypeInv, Table PROVE RowsAreOrdersOnce
    OBVIOUS
  <2>1. ASSUME NEW o \in OrderId, o \in Rows, book[o] = "ended", loop = "running"
        PROVE  \/ \E i \in DOMAIN events : events[i].order = o /\ ~events[i].working
               \/ writing # "none" /\ applying.order = o /\ ~applying.working
    <3>1. PICK i \in DOMAIN Stream : Stream[i].order = o /\ ~Stream[i].working
      BY <2>1 DEF Table, News, Ends
    <3>2. CASE writing = "none"
      BY <3>1, <3>2 DEF Stream
    <3>3. CASE writing # "none"
      <4>1. applying \in Events /\ events \in Seq(Events)
        BY <3>3 DEF TypeInv, TypeOK
      <4>2. \A k \in DOMAIN (<<applying>> \o events) :
              \/ (<<applying>> \o events)[k] = applying
              \/ k - 1 \in DOMAIN events /\ (<<applying>> \o events)[k] = events[k - 1]
        BY <4>1
      <4> QED BY <3>1, <3>3, <4>2 DEF Stream
    <3> QED BY <3>2, <3>3
  <2> QED BY <2>1 DEF Table, RowsAreOrdersOnce
<1> QED BY <1>1, TypeInvCorrect, TableCorrect, PTL

LEMMA NextEcho == TypeInv /\ Owed /\ Table /\ NeverEchoesPreexisting /\ [Next]_vars => NeverEchoesPreexisting'
<1> SUFFICES ASSUME TypeInv, Owed, Table, NeverEchoesPreexisting, [Next]_vars,
                    NEW c \in PlaceCall, Answered(c, {"ok"})'
             PROVE  answer'[c].order \notin atBaseline'[c]
  BY DEF NeverEchoesPreexisting
<1>0. /\ c \in Call /\ c \notin CancelCall /\ c \notin CloseCall
      /\ answer \in [Call -> Answer \cup {Absent}]
      /\ atBaseline \in [Call -> SUBSET OrderId]
      /\ answer'[c] # Absent /\ answer'[c].code = "ok"
  BY DEF TypeInv, TypeOK, Call, Answered
<1>1. CASE answer'[c] = answer[c] /\ atBaseline'[c] = atBaseline[c]
  BY <1>0, <1>1 DEF NeverEchoesPreexisting, Answered
<1>2. ASSUME NEW r \in Call, TakeBaseline(r)
      PROVE  answer'[c].order \notin atBaseline'[c]
  <2>1. pc[r] = "idle" /\ UNCHANGED answer /\ atBaseline' = [atBaseline EXCEPT ![r] = Rows]
    BY <1>2 DEF TakeBaseline
  <2>2. c # r
    BY <1>0, <2>1 DEF Owed, Told
  <2> QED BY <1>0, <1>1, <2>1, <2>2
<1>3. ASSUME NEW r \in Call, EchoLast(r)
      PROVE  answer'[c].order \notin atBaseline'[c]
  <2>1. CASE c # r
    BY <1>0, <1>1, <1>3, <2>1 DEF EchoLast, Finish
  <2>2. CASE c = r
    <3>1. /\ answer'[c].order = orders[Len(orders)] /\ atBaseline' = atBaseline
          /\ Len(orders) > baseline[c]
      BY <1>0, <1>3, <2>2 DEF EchoLast, Finish, Outgrown
    <3>2. orders \in Seq(OrderId) /\ baseline[c] \in Nat
      BY <1>0 DEF TypeInv, TypeOK
    <3>3. Len(orders) \in DOMAIN orders /\ ~(Len(orders) <= baseline[c])
      BY <3>1, <3>2
    <3> QED BY <1>0, <3>1, <3>3 DEF Table, Aged
  <2> QED BY <2>1, <2>2
<1>4. ASSUME NEW r \in Call,
             \/ BadRequest(r) \/ NameTarget(r) \/ SendCommand(r) \/ ChannelClosed(r) \/ Awaken(r)
             \/ PollEmpty(r) \/ PollAgain(r) \/ Deadline(r) \/ Abandon(r)
      PROVE  answer'[c].order \notin atBaseline'[c]
  <2>1. atBaseline' = atBaseline
    BY <1>4 DEF BadRequest, NameTarget, SendCommand, ChannelClosed, Awaken, PollEmpty, PollAgain,
                Deadline, Abandon
  <2>2. c # r => answer'[c] = answer[c]
    BY <1>0, <1>4 DEF BadRequest, NameTarget, SendCommand, ChannelClosed, Awaken, PollEmpty,
                      PollAgain, Deadline, Abandon, Finish
  <2>3. c = r => answer'[c] = answer[c]
    BY <1>0, <1>4 DEF BadRequest, NameTarget, SendCommand, ChannelClosed, Awaken, PollEmpty,
                      PollAgain, Deadline, Abandon, Finish
  <2> QED BY <1>1, <2>1, <2>2, <2>3
<1>5. CASE BotLoop \/ LoopEnds \/ ProcessExits \/ Peers \/ Server \/ UNCHANGED vars
  <2>1. UNCHANGED <<answer, atBaseline>>
    BY <1>5 DEF BotLoop, HandleCommand, TakeEvent, WritePositions, WriteOrders, LoopEnds,
                ProcessExits, Peers, Stall, Release, Server, BrokerRefuses,
                BrokerCancels, BrokerAccepts, BrokerCloses, BrokerEnds, BrokerOther, Emit, vars,
                callVars
  <2> QED BY <1>1, <2>1
<1> QED BY <1>2, <1>3, <1>4, <1>5 DEF Next, Arrival, Handler, BotLoop

\* orders.rs:56-59: for any number of orders and calls, place_order never answers
\* with an order that was in the table before the call.
THEOREM EchoCorrect == Spec => []NeverEchoesPreexisting
<1>1. Init => NeverEchoesPreexisting
  BY DEF Init, NeverEchoesPreexisting, Answered, Call
<1> QED BY <1>1, NextEcho, TypeInvCorrect, OwedCorrect, TableCorrect, PTL DEF Spec
=============================================================================
