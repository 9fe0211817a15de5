--------------------------- MODULE PresenceEdges ---------------------------
(***************************************************************************)
(* What the hub of server/ws.go promises about presence, without locks,    *)
(* database, queues or handler phases: a user is online or not, and every  *)
(* change from one to the other leaves exactly one connection owing the    *)
(* announcement of that change to the user's friends.  Sessions that open  *)
(* or close while another session of the same user is up owe nothing.      *)
(***************************************************************************)
CONSTANTS
  Users,   \* account uuids
  Conns,   \* WebSocket connections
  Owner    \* the account a connection was authenticated as

VARIABLES
  online,  \* users with at least one session
  duty     \* what each connection still has to announce

vars == <<online, duty>>

Duties == {"none", "up", "down"}

TypeOK ==
  /\ online \in SUBSET Users
  /\ duty \in [Conns -> Duties]

Init ==
  /\ online = {}
  /\ duty = [c \in Conns |-> "none"]

\* The first session of Owner[c] opens: c announces it.
Rise(c) ==
  /\ Owner[c] \notin online
  /\ duty[c] = "none"
  /\ online' = online \cup {Owner[c]}
  /\ duty' = [duty EXCEPT ![c] = "up"]

\* The last session of Owner[c] closes: c announces it.
Fall(c) ==
  /\ Owner[c] \in online
  /\ duty[c] = "none"
  /\ online' = online \ {Owner[c]}
  /\ duty' = [duty EXCEPT ![c] = "down"]

\* The announcement has been made.
Announced(c) ==
  /\ duty[c] # "none"
  /\ duty' = [duty EXCEPT ![c] = "none"]
  /\ UNCHANGED online

\* The process stops; obligations die with it.
Halt ==
  /\ online' = {}
  /\ duty' = [c \in Conns |-> "none"]

Next ==
  \/ \E c \in Conns : Rise(c) \/ Fall(c) \/ Announced(c)
  \/ Halt

SafeSpec == Init /\ [][Next]_vars

Spec == SafeSpec /\ \A c \in Conns : WF_vars(Announced(c))
=============================================================================
