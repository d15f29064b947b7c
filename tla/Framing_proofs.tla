---------------------------- MODULE Framing_proofs ----------------------------
(***************************************************************************)
(* Proofs about Framing, for prefixes and bodies of every length and any    *)
(* number of messages.                                                      *)
(*                                                                          *)
(* IntactUnlessTorn is not inductive: it says nothing of where the reader   *)
(* stands.  Aligned adds that, without a torn read, the reader stands at    *)
(* the start of the first message not delivered, or behind its prefix with  *)
(* its length; Laid, that the messages lie one behind the other, so that    *)
(* the offset of a prefix names one message only.                           *)
(***************************************************************************)
EXTENDS Framing, TLAPS

USE FramingAssumption

\* Where message k + 1 starts, or will start.
StartAfter(k) == IF k < Len(wire) THEN wire[k + 1].start ELSE written

Laid ==
  /\ StartAfter(0) = 0
  /\ \A k \in 1 .. Len(wire) : /\ StartAfter(k) = wire[k].start + PrefixLen + wire[k].size
                               /\ wire[k].start < written
  /\ \A j, k \in 1 .. Len(wire) : j < k => wire[j].start < wire[k].start

Aligned ==
  LET n == Len(delivered)
  IN ~torn => /\ DeliveredInOrder
              /\ reader = "prefix" => taken = StartAfter(n)
              /\ reader = "body" => /\ n < Len(wire)
                                    /\ taken = wire[n + 1].start + PrefixLen
                                    /\ need = wire[n + 1].size

FramingInv == TypeOK /\ Laid /\ Aligned /\ (mode = "startup" => ~torn)

LEMMA SequencesTyped ==
  ASSUME TypeOK
  PROVE  /\ Len(wire) \in Nat /\ DOMAIN wire = 1 .. Len(wire)
         /\ \A k \in 1 .. Len(wire) : wire[k].start \in Nat /\ wire[k].size \in Nat
         /\ Len(delivered) \in Nat /\ DOMAIN delivered = 1 .. Len(delivered)
<1>1. wire \in Seq(Interval) /\ delivered \in Seq(Interval)
  BY DEF TypeOK
<1>2. \A k \in 1 .. Len(wire) : wire[k] \in Interval
  BY <1>1
<1> QED BY <1>1, <1>2 DEF Interval

LEMMA InitInv == Init => FramingInv
<1> SUFFICES ASSUME Init PROVE FramingInv
  OBVIOUS
<1>1. Len(wire) = 0 /\ Len(delivered) = 0 /\ DOMAIN delivered = {} /\ 1 .. 0 = {}
  BY DEF Init
<1>2. TypeOK
  <2>1. wire \in Seq(Interval) /\ delivered \in Seq(Interval)
    BY DEF Init
  <2>2. written \in Nat /\ filled \in 0 .. written /\ taken \in 0 .. filled /\ need \in Nat
    BY DEF Init
  <2> QED BY <2>1, <2>2 DEF Init, TypeOK
<1>3. Laid
  BY <1>1 DEF Init, Laid, StartAfter
<1>4. Aligned
  BY <1>1 DEF Init, Aligned, StartAfter, DeliveredInOrder
<1> QED BY <1>2, <1>3, <1>4 DEF Init, FramingInv

\* The server's next message extends the layout and moves nothing.
LEMMA WritesInv == FramingInv /\ ServerWrites => FramingInv'
<1> SUFFICES ASSUME FramingInv, ServerWrites PROVE FramingInv'
  OBVIOUS
<1>1. PICK size \in 0 .. MaxSize :
        /\ wire' = Append(wire, [start |-> written, size |-> size])
        /\ written' = written + PrefixLen + size
  BY DEF ServerWrites
<1>2. UNCHANGED <<filled, taken, mode, reader, need, delivered, torn, ended>>
  BY DEF ServerWrites, readerVars
<1>3. TypeOK /\ Laid /\ Aligned
  BY DEF FramingInv
<1>4. size \in Nat /\ written \in Nat /\ [start |-> written, size |-> size] \in Interval
  BY <1>3 DEF TypeOK, Interval
<1>5. TypeOK'
  <2>1. wire' \in Seq(Interval)
    BY <1>1, <1>3, <1>4 DEF TypeOK
  <2>2. written' \in Nat /\ written <= written'
    BY <1>1, <1>4
  <2> QED BY <1>2, <1>3, <2>1, <2>2 DEF TypeOK
<1>6. /\ Len(wire) \in Nat /\ Len(delivered) \in Nat
      /\ DOMAIN wire = 1 .. Len(wire) /\ DOMAIN delivered = 1 .. Len(delivered)
      /\ \A k \in 1 .. Len(wire) : wire[k].start \in Nat /\ wire[k].size \in Nat
  BY <1>3, SequencesTyped
<1>7. /\ Len(wire') = Len(wire) + 1
      /\ \A k \in 1 .. Len(wire) : wire'[k] = wire[k]
      /\ wire'[Len(wire) + 1] = [start |-> written, size |-> size]
  BY <1>1, <1>3, <1>4 DEF TypeOK
<1>8. \A k \in 0 .. Len(wire) : StartAfter(k)' = StartAfter(k)
  <2> SUFFICES ASSUME NEW k \in 0 .. Len(wire) PROVE StartAfter(k)' = StartAfter(k)
    OBVIOUS
  <2>1. StartAfter(k)' = wire'[k + 1].start
    BY <1>6, <1>7 DEF StartAfter
  <2>2. CASE k < Len(wire)
    <3>1. k + 1 \in 1 .. Len(wire)
      BY <1>6, <2>2
    <3> QED BY <1>7, <2>1, <2>2, <3>1 DEF StartAfter
  <2>3. CASE k = Len(wire)
    BY <1>6, <1>7, <2>1, <2>3 DEF StartAfter
  <2>4. k < Len(wire) \/ k = Len(wire)
    <3>1. Len(wire) \in Nat
      BY <1>6
    <3> QED BY <3>1
  <2> QED BY <2>2, <2>3, <2>4
<1>9. Laid'
  <2>1. StartAfter(0)' = 0
    BY <1>3, <1>6, <1>8 DEF Laid
  <2>2. ASSUME NEW k \in 1 .. Len(wire')
        PROVE /\ StartAfter(k)' = wire'[k].start + PrefixLen + wire'[k].size
              /\ wire'[k].start < written'
    <3>1. CASE k \in 1 .. Len(wire)
      <4>1. StartAfter(k) = wire[k].start + PrefixLen + wire[k].size /\ wire[k].start < written
        BY <1>3, <3>1 DEF Laid
      <4>2. StartAfter(k)' = StartAfter(k) /\ wire'[k] = wire[k]
        BY <1>6, <1>7, <1>8, <3>1
      <4> QED BY <1>1, <1>4, <1>6, <3>1, <4>1, <4>2
    <3>2. CASE k = Len(wire) + 1
      <4>1. StartAfter(k)' = written'
        BY <1>6, <1>7, <3>2 DEF StartAfter
      <4> QED BY <1>1, <1>4, <1>7, <3>2, <4>1
    <3> QED BY <1>6, <1>7, <3>1, <3>2
  <2>3. ASSUME NEW j \in 1 .. Len(wire'), NEW k \in 1 .. Len(wire'), j < k
        PROVE wire'[j].start < wire'[k].start
    <3>1. j \in 1 .. Len(wire) /\ wire'[j] = wire[j]
      BY <1>6, <1>7, <2>3
    <3>2. CASE k \in 1 .. Len(wire)
      BY <1>3, <1>7, <2>3, <3>1, <3>2 DEF Laid
    <3>3. CASE k = Len(wire) + 1
      BY <1>3, <1>7, <3>1, <3>3 DEF Laid
    <3> QED BY <1>6, <1>7, <3>2, <3>3
  <2> QED BY <2>1, <2>2, <2>3 DEF Laid
<1>10. Aligned'
  <2> SUFFICES ASSUME ~torn PROVE Aligned'
    BY <1>2 DEF Aligned
  <2>1. DeliveredInOrder
    BY <1>3 DEF Aligned
  <2>2. DeliveredInOrder'
    BY <1>2, <1>6, <1>7, <2>1 DEF DeliveredInOrder
  <2>3. StartAfter(Len(delivered))' = StartAfter(Len(delivered))
    <3>1. Len(delivered) \in 0 .. Len(wire)
      BY <1>6, <2>1 DEF DeliveredInOrder
    <3> QED BY <1>2, <1>8, <3>1 DEF StartAfter
  <2>4. ASSUME reader = "body"
        PROVE Len(delivered) < Len(wire) /\ wire'[Len(delivered) + 1] = wire[Len(delivered) + 1]
    <3>1. Len(delivered) < Len(wire)
      BY <1>3, <2>4 DEF Aligned
    <3>2. Len(delivered) + 1 \in 1 .. Len(wire)
      BY <1>6, <3>1
    <3> QED BY <1>7, <3>1, <3>2
  <2> QED BY <1>2, <1>3, <1>6, <1>7, <2>2, <2>3, <2>4 DEF Aligned
<1> QED BY <1>2, <1>5, <1>9, <1>10 DEF FramingInv

\* Taking the length off: the prefix the reader stands at is that of the first
\* message not delivered.
LEMMA PrefixInv == FramingInv /\ ReadPrefix => FramingInv'
<1> SUFFICES ASSUME FramingInv, ReadPrefix PROVE FramingInv'
  OBVIOUS
<1> DEFINE n == Len(delivered)
<1>1. /\ reader = "prefix" /\ reader' = "body"
      /\ filled - taken >= PrefixLen /\ taken' = taken + PrefixLen
      /\ need' \in Lengths
      /\ UNCHANGED <<wire, written, ended, filled, mode, delivered, torn>>
  BY DEF ReadPrefix, Buffered, serverVars
<1>2. TypeOK /\ Laid /\ Aligned
  BY DEF FramingInv
<1>3. /\ Len(wire) \in Nat /\ n \in Nat
      /\ DOMAIN wire = 1 .. Len(wire)
      /\ \A k \in 1 .. Len(wire) : wire[k].start \in Nat /\ wire[k].size \in Nat
  BY <1>2, SequencesTyped
<1>4. need' \in Nat
  BY <1>1, <1>3 DEF Lengths
<1>5. TypeOK'
  BY <1>1, <1>2, <1>4 DEF TypeOK
<1>6. Laid'
  BY <1>1, <1>2 DEF Laid, StartAfter
<1>7. ASSUME ~torn PROVE n < Len(wire) /\ taken = wire[n + 1].start /\ need' = wire[n + 1].size
  <2>1. DeliveredInOrder /\ taken = StartAfter(n)
    BY <1>1, <1>2, <1>7 DEF Aligned
  <2>2. taken < written
    BY <1>1, <1>2 DEF TypeOK
  <2>3. n < Len(wire) /\ n + 1 \in 1 .. Len(wire)
    BY <1>2, <1>3, <2>1, <2>2 DEF StartAfter, DeliveredInOrder, TypeOK
  <2>4. taken = wire[n + 1].start
    BY <2>1, <2>3 DEF StartAfter
  <2>5. \A k \in 1 .. Len(wire) : wire[k].start = taken => k = n + 1
    <3> SUFFICES ASSUME NEW k \in 1 .. Len(wire), wire[k].start = taken PROVE k = n + 1
      OBVIOUS
    <3>1. \A i, j \in 1 .. Len(wire) : i < j => wire[i].start < wire[j].start
      BY <1>2 DEF Laid
    <3>2. wire[k].start \in Nat /\ ~(k < n + 1) /\ ~(n + 1 < k)
      BY <1>3, <2>3, <2>4, <3>1
    <3> QED BY <1>3, <2>3, <3>2
  <2>6. need' = wire[n + 1].size
    BY <1>1, <1>3, <2>3, <2>4, <2>5 DEF Lengths
  <2> QED BY <2>3, <2>4, <2>6
<1>8. Aligned'
  BY <1>1, <1>2, <1>3, <1>7 DEF Aligned, DeliveredInOrder
<1> QED BY <1>1, <1>5, <1>6, <1>8 DEF FramingInv

\* Returning a body: it is the next message's, and the reader stands behind it.
LEMMA BodyInv == FramingInv /\ ReadBody => FramingInv'
<1> SUFFICES ASSUME FramingInv, ReadBody PROVE FramingInv'
  OBVIOUS
<1> DEFINE n == Len(delivered)
<1>1. /\ reader = "body" /\ reader' = "prefix"
      /\ filled - taken >= need /\ taken' = taken + need /\ need' = 0
      /\ delivered' = Append(delivered, [start |-> taken, size |-> need])
      /\ UNCHANGED <<wire, written, ended, filled, mode, torn>>
  BY DEF ReadBody, Buffered, serverVars
<1>2. TypeOK /\ Laid /\ Aligned
  BY DEF FramingInv
<1>3. /\ Len(wire) \in Nat /\ n \in Nat
      /\ DOMAIN wire = 1 .. Len(wire) /\ DOMAIN delivered = 1 .. n
      /\ \A k \in 1 .. Len(wire) : wire[k].start \in Nat /\ wire[k].size \in Nat
  BY <1>2, SequencesTyped
<1>4. /\ [start |-> taken, size |-> need] \in Interval
      /\ filled \in Nat /\ taken \in Nat /\ need \in Nat
  BY <1>2 DEF TypeOK, Interval
<1>5. TypeOK'
  <2>1. delivered' \in Seq(Interval)
    BY <1>1, <1>2, <1>4 DEF TypeOK
  <2> QED BY <1>1, <1>2, <1>4, <2>1 DEF TypeOK
<1>6. Laid'
  BY <1>1, <1>2 DEF Laid, StartAfter
<1>7. /\ Len(delivered') = n + 1
      /\ DOMAIN delivered' = 1 .. (n + 1)
      /\ \A k \in 1 .. n : delivered'[k] = delivered[k]
      /\ delivered'[n + 1] = [start |-> taken, size |-> need]
  BY <1>1, <1>2, <1>4 DEF TypeOK
<1>8. ASSUME ~torn PROVE DeliveredInOrder' /\ taken' = StartAfter(n + 1)
  <2>1. /\ DeliveredInOrder /\ n < Len(wire)
        /\ taken = wire[n + 1].start + PrefixLen /\ need = wire[n + 1].size
    BY <1>1, <1>2, <1>8 DEF Aligned
  <2>2. n + 1 \in 1 .. Len(wire)
    BY <1>3, <2>1
  <2>3. DeliveredInOrder'
    <3> SUFFICES ASSUME NEW k \in 1 .. (n + 1)
                 PROVE delivered'[k] = [start |-> wire[k].start + PrefixLen, size |-> wire[k].size]
      BY <1>1, <1>3, <1>7, <2>1 DEF DeliveredInOrder
    <3>1. CASE k \in 1 .. n
      BY <1>3, <1>7, <2>1, <3>1 DEF DeliveredInOrder
    <3>2. CASE k = n + 1
      BY <1>7, <2>1, <3>2
    <3> QED BY <1>3, <3>1, <3>2
  <2>4. StartAfter(n + 1) = wire[n + 1].start + PrefixLen + wire[n + 1].size
    BY <1>2, <2>2 DEF Laid
  <2> QED BY <1>1, <2>1, <2>3, <2>4
<1>9. Aligned'
  BY <1>1, <1>7, <1>8 DEF Aligned, StartAfter
<1> QED BY <1>1, <1>2, <1>5, <1>6, <1>9 DEF FramingInv

LEMMA NextInv == FramingInv /\ [Next]_vars => FramingInv'
<1> SUFFICES ASSUME FramingInv, [Next]_vars PROVE FramingInv'
  OBVIOUS
<1>1. CASE ServerWrites
  BY <1>1, WritesInv
<1>2. CASE ReadPrefix
  BY <1>2, PrefixInv
<1>3. CASE ReadBody
  BY <1>3, BodyInv
<1> USE DEF FramingInv, TypeOK, Laid, Aligned, StartAfter, DeliveredInOrder,
            serverVars, readerVars
<1>4. CASE ServerCloses
  BY <1>4 DEF ServerCloses
<1>5. CASE FillBuf
  BY <1>5 DEF FillBuf
<1>6. CASE EndOfStream
  BY <1>6 DEF EndOfStream
<1>7. CASE EnterLoop
  BY <1>7 DEF EnterLoop
<1>8. CASE OtherBranch
  BY <1>8 DEF OtherBranch
<1>9. CASE ReadFails \/ CallerLeaves
  BY <1>9 DEF ReadFails, CallerLeaves
<1>10. CASE UNCHANGED vars
  BY <1>10 DEF vars
<1> QED BY <1>1, <1>2, <1>3, <1>4, <1>5, <1>6, <1>7, <1>8, <1>9, <1>10 DEF Next, RecvRaw

LEMMA InvAlways == Spec => []FramingInv
  BY InitInv, NextInv, PTL DEF Spec

\* recv_raw never advances past the bytes it has read, nor reads more than was
\* written.
THEOREM TypeCorrect == Spec => []TypeOK
<1>1. FramingInv => TypeOK
  BY DEF FramingInv
<1> QED BY <1>1, InvAlways, PTL

\* Unless a read was dropped between prefix and body, recv_raw has returned the
\* server's messages whole, once and in order.
THEOREM IntactCorrect == Spec => []IntactUnlessTorn
<1>1. FramingInv => IntactUnlessTorn
  BY DEF FramingInv, Aligned, IntactUnlessTorn
<1> QED BY <1>1, InvAlways, PTL

\* The startup steps never lose a message.
THEOREM StartupCorrect == Spec => []StartupIntact
<1>1. FramingInv => StartupIntact
  BY DEF FramingInv, Aligned, StartupIntact
<1> QED BY <1>1, InvAlways, PTL
-----------------------------------------------------------------------------
(* The stream of messages *)

LEMMA BodiesAre ==
  ASSUME TypeOK
  PROVE  /\ Len(Bodies) = Len(wire) /\ DOMAIN Bodies = 1 .. Len(wire)
         /\ \A k \in 1 .. Len(wire) :
              Bodies[k] = [start |-> wire[k].start + PrefixLen, size |-> wire[k].size]
<1>1. Len(wire) \in Nat /\ DOMAIN wire = 1 .. Len(wire)
  BY SequencesTyped
<1>2. DOMAIN Bodies = 1 .. Len(wire)
  BY <1>1 DEF Bodies
<1>3. Len(Bodies) = Len(wire)
  BY <1>1, <1>2
<1> QED BY <1>1, <1>2, <1>3 DEF Bodies

\* A message written is one more body behind the others.
LEMMA WritesSend == FramingInv /\ ServerWrites => Stream!Send
<1> SUFFICES ASSUME FramingInv, ServerWrites PROVE Stream!Send
  OBVIOUS
<1>1. PICK size \in 0 .. MaxSize : wire' = Append(wire, [start |-> written, size |-> size])
  BY DEF ServerWrites
<1>2. UNCHANGED <<delivered, torn>> /\ TypeOK
  BY DEF ServerWrites, readerVars, FramingInv
<1>3. /\ wire \in Seq(Interval) /\ Len(wire) \in Nat /\ DOMAIN wire = 1 .. Len(wire)
      /\ [start |-> written, size |-> size] \in Interval
  BY <1>2 DEF TypeOK, Interval
<1>4. /\ Len(wire') = Len(wire) + 1 /\ DOMAIN wire' = 1 .. Len(wire) + 1
      /\ \A k \in 1 .. Len(wire) : wire'[k] = wire[k]
  BY <1>1, <1>3
<1>5. DOMAIN Bodies' = 1 .. Len(wire) + 1
  BY <1>4 DEF Bodies
<1>6. Len(Bodies') = Len(Bodies) + 1
  BY <1>2, <1>3, <1>5, BodiesAre
<1>7. \A k \in DOMAIN Bodies : Bodies'[k] = Bodies[k]
  BY <1>3, <1>4 DEF Bodies
<1> QED BY <1>2, <1>6, <1>7 DEF Stream!Send, Stream!Extends

\* What ReadBody returns is the next message, unless a read was torn.
LEMMA BodyReturns == FramingInv /\ ReadBody => Stream!Return
<1> SUFFICES ASSUME FramingInv, ReadBody PROVE Stream!Return
  OBVIOUS
<1> DEFINE n == Len(delivered)
           body == [start |-> taken, size |-> need]
<1>1. /\ reader = "body" /\ delivered' = Append(delivered, body) /\ UNCHANGED <<wire, torn>>
  BY DEF ReadBody, serverVars
<1>2. TypeOK /\ Aligned /\ body \in Interval /\ delivered \in Seq(Interval)
  BY DEF FramingInv, TypeOK, Interval
<1>3. UNCHANGED Bodies
  BY <1>1 DEF Bodies
<1>4. ASSUME ~torn PROVE n < Len(Bodies) /\ body = Bodies[n + 1]
  <2>1. n < Len(wire) /\ taken = wire[n + 1].start + PrefixLen /\ need = wire[n + 1].size
    BY <1>1, <1>2, <1>4 DEF Aligned
  <2>2. n + 1 \in 1 .. Len(wire)
    BY <1>2, <2>1, SequencesTyped
  <2> QED BY <1>2, <2>1, <2>2, BodiesAre
<1> HIDE DEF body
<1>5. /\ n \in Nat /\ Len(delivered') = n + 1 /\ delivered'[n + 1] = body
      /\ \A k \in DOMAIN delivered : delivered'[k] = delivered[k]
  BY <1>1, <1>2
<1> QED BY <1>1, <1>3, <1>4, <1>5 DEF Stream!Return, Stream!Extends

\* Every other step leaves the stream alone, or tears a read.
LEMMA StreamStep == FramingInv /\ [Next]_vars => [Stream!StreamNext]_(Stream!streamVars)
<1> SUFFICES ASSUME FramingInv, [Next]_vars PROVE [Stream!StreamNext]_(Stream!streamVars)
  OBVIOUS
<1>1. CASE ServerWrites
  BY <1>1, WritesSend DEF Stream!StreamNext
<1>2. CASE ReadBody
  BY <1>2, BodyReturns DEF Stream!StreamNext
<1>3. CASE UNCHANGED <<wire, delivered, torn>>
  BY <1>3 DEF Bodies, Stream!streamVars
<1>4. CASE OtherBranch
  <2>1. UNCHANGED <<wire, delivered>> /\ torn' = (torn \/ reader = "body")
    BY <1>4 DEF OtherBranch, serverVars
  <2>2. torn' = torn \/ torn' = TRUE
    BY <2>1 DEF FramingInv, TypeOK
  <2>3. CASE torn' = TRUE
    BY <2>1, <2>3 DEF Bodies, Stream!Break, Stream!StreamNext
  <2> QED BY <1>3, <2>1, <2>2, <2>3
<1> QED BY <1>1, <1>2, <1>3, <1>4 DEF Next, RecvRaw, ServerCloses, FillBuf, EndOfStream,
        ReadFails, CallerLeaves, ReadPrefix, EnterLoop, vars, serverVars, readerVars

\* recv_raw over bytes, buffer and select! is the stream of whole messages in their
\* order that the handlers take it to be, until a read is dropped between prefix
\* and body.
THEOREM Refinement == Spec => ImplementsMessageStream
<1>1. Init => Stream!StreamInit
  <2> SUFFICES ASSUME Init PROVE Stream!StreamInit
    OBVIOUS
  <2>1. DOMAIN wire = {} /\ wire = << >> /\ delivered = << >> /\ torn = FALSE
    BY DEF Init
  <2>2. Bodies = << >>
    BY <2>1 DEF Bodies
  <2> QED BY <2>1, <2>2 DEF Stream!StreamInit
<1> QED BY <1>1, StreamStep, InvAlways, PTL DEF Spec, ImplementsMessageStream, Stream!StreamSpec
=============================================================================
