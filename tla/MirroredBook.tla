---------------------------- MODULE MirroredBook ----------------------------
(***************************************************************************)
(* What the bot promises its REST and WS clients about the account: from    *)
(* the moment the API opens, the positions shown are those of one entry of  *)
(* the account's history and the orders those of one entry, the same or the *)
(* one just before.  Each moves forward entry by entry: no table is shown   *)
(* that the account never had, no change is skipped and none is undone.     *)
(* That both tables are of the same moment is NOT promised.                 *)
(***************************************************************************)
EXTENDS Naturals, Sequences

CONSTANTS Books,                     \* the states an account book can be in
          Orders(_), Positions(_),   \* what a client is to see of a book
          Blank                      \* shown while there is no API

VARIABLES history,                \* Seq(Books): the account, one entry per message
          positionsAt, ordersAt,  \* the entries the two tables have reached
          shown                   \* what a client sees

mirrorVars == <<history, positionsAt, ordersAt, shown>>

View(h, p, o) == [orders |-> Orders(h[o]), positions |-> Positions(h[p])]

MirrorInit ==
  /\ Len(history) = 1 /\ history[1] \in Books /\ history = <<history[1]>>
  /\ positionsAt = 1 /\ ordersAt = 1
  /\ shown = Blank

\* The account changes; the client does not see it yet.
Evolve ==
  /\ Len(history') = Len(history) + 1
  /\ history'[Len(history')] \in Books
  /\ history' = Append(history, history'[Len(history')])
  /\ UNCHANGED <<positionsAt, ordersAt, shown>>

\* One table or both take in the next entry, and show it once there are clients.
Advance ==
  /\ positionsAt' \in {positionsAt, positionsAt + 1} /\ positionsAt' <= Len(history)
  /\ ordersAt' \in {ordersAt, ordersAt + 1}
  /\ ordersAt' \in {positionsAt', positionsAt' - 1}
  /\ shown' = IF shown = Blank THEN Blank ELSE View(history, positionsAt', ordersAt')
  /\ UNCHANGED history

\* The API opens: the first thing shown is already the entry reached, in both tables.
Serve ==
  /\ shown = Blank /\ positionsAt = ordersAt
  /\ shown' = View(history, positionsAt, ordersAt)
  /\ UNCHANGED <<history, positionsAt, ordersAt>>

MirrorNext == Evolve \/ Advance \/ Serve

MirrorSpec == MirrorInit /\ [][MirrorNext]_mirrorVars
=============================================================================
