------------------------------- MODULE Framing -------------------------------
(***************************************************************************)
(* connection.rs: cutting the inbound byte stream into messages.  Each      *)
(* message is a length prefix and a body.  recv_raw keeps what it has read  *)
(* but not yet used in read_buf, and the length it has taken off in a local *)
(* variable, which is gone when the future is dropped: the startup steps    *)
(* await recv_raw to its end, the select! of bot_loop::run drops it         *)
(* whenever a command or the heartbeat is ready first.                      *)
(*                                                                          *)
(* Bytes are named by their offset in the stream: read_buf always holds the *)
(* interval taken .. filled - 1.                                            *)
(***************************************************************************)
EXTENDS Integers, Sequences

CONSTANTS PrefixLen,    \* 4 bytes in the protocol
          MaxSize,      \* bound: bytes of a body
          MaxFrames     \* bound: messages the server writes

ASSUME FramingAssumption ==
  PrefixLen \in Nat \ {0} /\ MaxSize \in Nat /\ MaxFrames \in Nat

VARIABLES
  \* the server's side of the stream
  wire,       \* Seq of [start, size]: the messages written, by offset of their prefix
  written,    \* bytes written so far
  ended,      \* the server has closed the connection
  \* CTraderConnection
  filled,     \* bytes read off the socket
  taken,      \* bytes advanced past in read_buf
  \* the recv_raw future
  mode,       \* startup: awaited; select: a branch of select!; closed: it returned Err
              \* at the server's close; broken: for a failed read; left: its caller
              \* does not call it again
  reader,     \* prefix, body: which of its two loops it is in
  need,       \* msg_len
  delivered,  \* Seq of [start, size]: the bodies returned, by offset of their first byte
  \* history
  torn        \* a future was dropped between prefix and body

serverVars == <<wire, written, ended>>
readerVars == <<filled, taken, mode, reader, need, delivered, torn>>
vars == <<serverVars, readerVars>>

-----------------------------------------------------------------------------
(* The server: external *)

ServerWrites ==
  /\ ~ended /\ Len(wire) < MaxFrames
  /\ \E size \in 0 .. MaxSize :
       /\ wire' = Append(wire, [start |-> written, size |-> size])
       /\ written' = written + PrefixLen + size
  /\ UNCHANGED <<ended, readerVars>>

ServerCloses ==
  /\ ~ended /\ ended' = TRUE
  /\ UNCHANGED <<wire, written, readerVars>>

-----------------------------------------------------------------------------
(* recv_raw *)

\* Mutant of Buffered: off by one.
BufferedOneMore == filled - taken + 1

Buffered == filled - taken

Running == mode \in {"startup", "select"}

Starved ==
  /\ Running
  /\ Buffered < IF reader = "prefix" THEN PrefixLen ELSE need

\* fill_buf takes whatever part of the written bytes the socket hands out ...
FillBuf ==
  /\ Starved
  /\ \E upto \in filled + 1 .. written : filled' = upto
  /\ UNCHANGED <<serverVars, taken, mode, reader, need, delivered, torn>>

\* Mutant of EndOfStream: what is still unread is given up.
EndOfStreamAtOnce ==
  /\ Starved /\ ended
  /\ mode' = "closed"
  /\ UNCHANGED <<serverVars, filled, taken, reader, need, delivered, torn>>

\* ... and fails when there is none left to come.
EndOfStream ==
  /\ Starved /\ ended /\ filled = written
  /\ mode' = "closed"
  /\ UNCHANGED <<serverVars, filled, taken, reader, need, delivered, torn>>

\* The read itself fails, with or without bytes on their way.
ReadFails ==
  /\ Starved
  /\ mode' = "broken"
  /\ UNCHANGED <<serverVars, filled, taken, reader, need, delivered, torn>>

\* The message returned last does not decode, or its handler fails or never returns:
\* what is still in read_buf stays there.
CallerLeaves ==
  /\ Running /\ reader = "prefix" /\ delivered # << >>
  /\ mode' = "left"
  /\ UNCHANGED <<serverVars, filled, taken, reader, need, delivered, torn>>

\* The length the next bytes spell: the right one at a message's start, anything
\* elsewhere.
Lengths ==
  LET here == {k \in DOMAIN wire : wire[k].start = taken}
  IN IF here # {} THEN {wire[k].size : k \in here} ELSE 0 .. MaxSize

ReadPrefix ==
  /\ Running /\ reader = "prefix"
  /\ Buffered >= PrefixLen
  /\ need' \in Lengths
  /\ taken' = taken + PrefixLen
  /\ reader' = "body"
  /\ UNCHANGED <<serverVars, filled, mode, delivered, torn>>

\* Mutant of ReadBody: the body is copied out and not taken off the buffer.
ReadBodyLeftThere ==
  /\ Running /\ reader = "body"
  /\ Buffered >= need
  /\ delivered' = Append(delivered, [start |-> taken, size |-> need])
  /\ reader' = "prefix" /\ need' = 0
  /\ UNCHANGED <<serverVars, filled, taken, mode, torn>>

ReadBody ==
  /\ Running /\ reader = "body"
  /\ Buffered >= need
  /\ delivered' = Append(delivered, [start |-> taken, size |-> need])
  /\ taken' = taken + need
  /\ reader' = "prefix" /\ need' = 0
  /\ UNCHANGED <<serverVars, filled, mode, torn>>

\* main spawns run: from now on recv_raw is a branch of select!.
EnterLoop ==
  /\ mode = "startup" /\ reader = "prefix"
  /\ mode' = "select"
  /\ UNCHANGED <<serverVars, filled, taken, reader, need, delivered, torn>>

\* Mutant of OtherBranch: the buffer goes with the future.
OtherBranchLosesBuffer ==
  /\ mode = "select" /\ Starved
  /\ reader' = "prefix" /\ need' = 0
  /\ torn' = (torn \/ reader = "body")
  /\ taken' = filled
  /\ UNCHANGED <<serverVars, filled, mode, delivered>>

\* Mutant of OtherBranch: the startup steps select too.
OtherBranchAlways ==
  /\ Running /\ Starved
  /\ reader' = "prefix" /\ need' = 0
  /\ torn' = (torn \/ reader = "body")
  /\ UNCHANGED <<serverVars, filled, taken, mode, delivered>>

\* The heartbeat or a command is ready while recv_raw waits for bytes: select!
\* runs that branch and drops the future, the next iteration makes a new one.
OtherBranch ==
  /\ mode = "select" /\ Starved
  /\ reader' = "prefix" /\ need' = 0
  /\ torn' = (torn \/ reader = "body")
  /\ UNCHANGED <<serverVars, filled, taken, mode, delivered>>

-----------------------------------------------------------------------------
Init ==
  /\ wire = << >> /\ written = 0 /\ ended = FALSE
  /\ filled = 0 /\ taken = 0
  /\ mode = "startup" /\ reader = "prefix" /\ need = 0
  /\ delivered = << >>
  /\ torn = FALSE

RecvRaw == FillBuf \/ EndOfStream \/ ReadPrefix \/ ReadBody

Next ==
  \/ ServerWrites \/ ServerCloses
  \/ RecvRaw
  \/ EnterLoop
  \/ OtherBranch
  \/ ReadFails \/ CallerLeaves

Spec == Init /\ [][Next]_vars

\* The runtime polls the pending recv_raw whenever the socket has bytes.  That a read
\* fails, or that the caller gives up, may happen and need not.
FairSpec == Spec /\ WF_vars(RecvRaw)

-----------------------------------------------------------------------------
(* Properties *)

Interval == [start : Nat, size : Nat]

TypeOK ==
  /\ wire \in Seq(Interval) /\ written \in Nat /\ ended \in BOOLEAN
  /\ filled \in 0 .. written
  /\ taken \in 0 .. filled
  /\ mode \in {"startup", "select", "closed", "broken", "left"}
  /\ reader \in {"prefix", "body"} /\ need \in Nat
  /\ delivered \in Seq(Interval)
  /\ torn \in BOOLEAN

\* What was returned is a prefix of what was written, body for body.
DeliveredInOrder ==
  /\ Len(delivered) <= Len(wire)
  /\ \A k \in DOMAIN delivered :
       delivered[k] = [start |-> wire[k].start + PrefixLen, size |-> wire[k].size]

\* However the socket cuts the bytes, and wherever else the future is dropped,
\* recv_raw returns the server's messages in order, whole and once, as long as
\* it is never dropped between a prefix and its body.
IntactUnlessTorn == ~torn => DeliveredInOrder

\* While the startup steps await it, nothing can drop the future.
StartupIntact == mode = "startup" => DeliveredInOrder

\* The bodies within the stream of bytes.
Bodies == [k \in DOMAIN wire |-> [start |-> wire[k].start + PrefixLen, size |-> wire[k].size]]

Stream == INSTANCE MessageStream WITH
  sent <- Bodies, returned <- delivered, broken <- torn

\* The same as a promise over whole behaviours (MessageStream): until a read is torn
\* the buffer, its two loops and select! together are the stream of messages that
\* AccountSync takes the connection to be.
ImplementsMessageStream == Stream!StreamSpec

\* Every message the server wrote is returned in the end, also when the server closes
\* right after it, unless a read was torn or failed, or the caller stopped over an
\* earlier message.
EveryMessageReturned ==
  \A k \in 1 .. MaxFrames :
    Len(wire) >= k ~> Len(delivered) >= k \/ torn \/ mode \in {"broken", "left"}

(* What the sources say and the code does not do *)

\* connection.rs:80-81: recv_raw "reads the next Protobuf message from the
\* stream" and "blocks until the whole message has been received".
RecvReturnsNextMessage == DeliveredInOrder
=============================================================================
