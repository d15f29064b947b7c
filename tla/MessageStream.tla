---------------------------- MODULE MessageStream ----------------------------
(***************************************************************************)
(* The connection as the handlers of bot_loop.rs take it to be, without     *)
(* bytes, prefixes or a buffer: the server's messages come out of recv_raw  *)
(* whole, each once, in the order they were sent.  AccountSync reads its    *)
(* stream in this way.                                                      *)
(*                                                                          *)
(* Once the stream is broken nothing is promised of what is returned, but   *)
(* that what was returned before stays as it is.                            *)
(***************************************************************************)
EXTENDS Naturals, Sequences

VARIABLES
  sent,      \* the messages, oldest first
  returned,  \* what recv_raw has returned
  broken

streamVars == <<sent, returned, broken>>

StreamInit == sent = << >> /\ returned = << >> /\ broken = FALSE

Extends(longer, s) ==
  /\ Len(longer) = Len(s) + 1
  /\ \A k \in DOMAIN s : longer[k] = s[k]

Send ==
  /\ Extends(sent', sent)
  /\ UNCHANGED <<returned, broken>>

Return ==
  /\ Extends(returned', returned)
  /\ \/ broken
     \/ Len(returned) < Len(sent) /\ returned'[Len(returned')] = sent[Len(returned')]
  /\ UNCHANGED <<sent, broken>>

Break == broken' = TRUE /\ UNCHANGED <<sent, returned>>

StreamNext == Send \/ Return \/ Break

StreamSpec == StreamInit /\ [][StreamNext]_streamVars
=============================================================================
