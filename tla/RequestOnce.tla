----------------------------- MODULE RequestOnce -----------------------------
(***************************************************************************)
(* What order entry promises to its callers, without handlers, channel or   *)
(* bot loop: a call's request goes out at most once, in the order the       *)
(* server takes them, and what the caller is told of it stays true.         *)
(*                                                                          *)
(* A caller that leaves may still have its request written; one that was    *)
(* told of an error never has.                                              *)
(***************************************************************************)
EXTENDS Sequences

CONSTANT Callers

VARIABLES
  wire,     \* requests on their way to the server, oldest first
  written,  \* calls whose request has gone out
  told      \* what each caller knows: waiting for its answer, left, that the request
            \* was sent, that it failed before it was sent, or that an error occurred

onceVars == <<wire, written, told>>

OnceInit ==
  /\ wire = << >>
  /\ written = {}
  /\ told = [c \in Callers |-> "waiting"]

Write(c) ==
  /\ c \notin written /\ told[c] \in {"waiting", "left"}
  /\ wire' = Append(wire, c)
  /\ written' = written \cup {c}
  /\ UNCHANGED told

Deliver ==
  /\ wire # << >>
  /\ wire' = Tail(wire)
  /\ UNCHANGED <<written, told>>

Tell(c, what) ==
  /\ told[c] = "waiting"
  /\ what = "sent" => c \in written
  /\ what = "failed" => c \notin written
  /\ told' = [told EXCEPT ![c] = what]
  /\ UNCHANGED <<wire, written>>

\* Callers leave one by one, or all at once when the process ends.
Leave(cs) ==
  /\ \A c \in cs : told[c] = "waiting"
  /\ told' = [c \in Callers |-> IF c \in cs THEN "left" ELSE told[c]]
  /\ UNCHANGED <<wire, written>>

OnceNext ==
  \/ \E c \in Callers : Write(c) \/ \E what \in {"sent", "failed", "error"} : Tell(c, what)
  \/ Deliver
  \/ \E cs \in SUBSET Callers : Leave(cs)

OnceSpec == OnceInit /\ [][OnceNext]_onceVars
=============================================================================
