------------------------------ MODULE Messages ------------------------------
(***************************************************************************)
(* The message handlers of the Go server (server/messages.go) on the       *)
(* messages table (server/db.go).                                          *)
(*                                                                         *)
(* Every handler reads first (is the pair friends? whose message is it?)   *)
(* and writes in a later statement by message id or by pair; there is no   *)
(* transaction.  The friendships table appears as the set of accepted      *)
(* pairs, which other handlers change at any time (module Friendships).    *)
(***************************************************************************)
EXTENDS Integers, FiniteSets

CONSTANTS
  Users,    \* account uuids
  Requests, \* HTTP requests in flight, each slot reused when answered
  MaxId     \* bound on the AUTOINCREMENT ids of messages

ASSUME MaxIdAssumption == MaxId \in Nat

Pairs == {p \in SUBSET Users : \E a, b \in Users : a # b /\ p = {a, b}}
Ids == 1..MaxId

\* A row; by is who wrote the content it has now, wanted whether the two were
\* friends at some time while the request that sent it was served.
Rows == [from : Users, to : Users, by : Users, read : BOOLEAN, wanted : BOOLEAN]
NoRow == [gone |-> TRUE]
Idle == [op |-> "idle"]

VARIABLES
  known,   \* users with a row in the users table
  friends, \* pairs whose friendship is accepted
  msgs,    \* the messages table, by id
  nextId,  \* sqlite_sequence of messages
  req,     \* what each request has to do next
  opened   \* observer: <<u, v>> when u has been let into the conversation with v

vars == <<known, friends, msgs, nextId, req, opened>>

\* Requests about a conversation, and requests about one message; a send that
\* was let through remembers it.
Talking == [op : {"send", "get"}, me : Users, other : Users,
            stage : {"check", "write"}, wanted : BOOLEAN]
Changing == [op : {"edit", "delete"}, me : Users, id : Ids, stage : {"check", "write"}]

TypeOK ==
  /\ known \in SUBSET Users
  /\ friends \in SUBSET Pairs
  /\ msgs \in [Ids -> Rows \cup {NoRow}]
  /\ nextId \in 1..MaxId + 1
  /\ req \in [Requests -> Talking \cup Changing \cup {Idle}]
  /\ opened \in SUBSET (Users \X Users)

Init ==
  /\ known = Users
  /\ friends = {}
  /\ msgs = [i \in Ids |-> NoRow]
  /\ nextId = 1
  /\ req = [r \in Requests |-> Idle]
  /\ opened = {}

-----------------------------------------------------------------------------
(* The other tables *)

\* The pair becomes friends; a request being served for it sees so.
Befriend(p) ==
  /\ p \subseteq known /\ p \notin friends
  /\ friends' = friends \cup {p}
  /\ req' = [r \in Requests |->
       IF req[r] \in Talking /\ {req[r].me, req[r].other} = p
       THEN [req[r] EXCEPT !.wanted = TRUE] ELSE req[r]]
  /\ UNCHANGED <<known, msgs, nextId, opened>>

\* The friendship is removed or blocked.
Unfriend(p) ==
  /\ p \in friends
  /\ friends' = friends \ {p}
  /\ UNCHANGED <<known, msgs, nextId, req, opened>>

\* "users delete": the user's friendships and messages go with the row.
DeleteUser(u) ==
  /\ u \in known
  /\ known' = known \ {u}
  /\ friends' = {p \in friends : u \notin p}
  /\ msgs' = [i \in Ids |->
       IF msgs[i] # NoRow /\ u \in {msgs[i].from, msgs[i].to} THEN NoRow ELSE msgs[i]]
  /\ UNCHANGED <<nextId, req, opened>>

Register(u) ==
  /\ u \notin known
  /\ known' = known \cup {u}
  /\ UNCHANGED <<friends, msgs, nextId, req, opened>>

-----------------------------------------------------------------------------
(* Requests *)

At(r, op, stage) == req[r] # Idle /\ req[r].op = op /\ req[r].stage = stage
Answer(r) == req' = [req EXCEPT ![r] = Idle]
Proceed(r) == req' = [req EXCEPT ![r].stage = "write"]

\* Seeded fault: the row's status is not looked at
areFriends_AnyRow(a, b) == {a, b} \subseteq known

areFriends(a, b) == {a, b} \in friends

\* A request arrives, from a user whose row may be gone by now.
ArriveTalking(r, op, me, other) ==
  /\ req[r] = Idle
  /\ req' = [req EXCEPT ![r] = [op |-> op, me |-> me, other |-> other,
                                stage |-> "check", wanted |-> {me, other} \in friends]]
  /\ UNCHANGED <<known, friends, msgs, nextId, opened>>

\* Any message id may be named in the path.
ArriveChanging(r, op, me, id) ==
  /\ req[r] = Idle
  /\ req' = [req EXCEPT ![r] = [op |-> op, me |-> me, id |-> id, stage |-> "check"]]
  /\ UNCHANGED <<known, friends, msgs, nextId, opened>>

\* handleMessagesSend, handleMessagesGet: only friends go on.
CheckFriends(r, op) ==
  /\ At(r, op, "check")
  /\ IF areFriends(req[r].me, req[r].other)
     THEN /\ Proceed(r)
          /\ opened' = IF op = "get" THEN opened \cup {<<req[r].me, req[r].other>>}
                                     ELSE opened
     ELSE Answer(r) /\ UNCHANGED opened
  /\ UNCHANGED <<known, friends, msgs, nextId>>

\* handleMessagesEdit, handleMessagesDelete: only the author goes on.
CheckAuthor(r, op) ==
  /\ At(r, op, "check")
  /\ IF msgs[req[r].id] # NoRow /\ msgs[req[r].id].from = req[r].me
     THEN Proceed(r)
     ELSE Answer(r)
  /\ UNCHANGED <<known, friends, msgs, nextId, opened>>

\* Seeded fault: ids without AUTOINCREMENT, one above the largest in the table
WriteSend_Reuses(r) ==
  /\ At(r, "send", "write")
  /\ IF {req[r].me, req[r].other} \subseteq known
     THEN \E id \in Ids :
            /\ \A i \in Ids : i >= id => msgs[i] = NoRow
            /\ id > 1 => msgs[id - 1] # NoRow
            /\ msgs' = [msgs EXCEPT ![id] =
                 [from |-> req[r].me, to |-> req[r].other, by |-> req[r].me,
                  read |-> FALSE, wanted |-> req[r].wanted]]
            /\ nextId' = IF id >= nextId THEN id + 1 ELSE nextId
     ELSE UNCHANGED <<msgs, nextId>>
  /\ Answer(r)
  /\ UNCHANGED <<known, friends, opened>>

\* INSERT, which the foreign keys may refuse
WriteSend(r) ==
  /\ At(r, "send", "write")
  /\ IF {req[r].me, req[r].other} \subseteq known
     THEN /\ nextId <= MaxId
          /\ msgs' = [msgs EXCEPT ![nextId] =
               [from |-> req[r].me, to |-> req[r].other, by |-> req[r].me,
                read |-> FALSE, wanted |-> req[r].wanted]]
          /\ nextId' = nextId + 1
     ELSE UNCHANGED <<msgs, nextId>>
  /\ Answer(r)
  /\ UNCHANGED <<known, friends, opened>>

\* Seeded fault: the UPDATE takes both directions, as the SELECT before it does.
WriteGet_BothWays(r) ==
  /\ At(r, "get", "write")
  /\ msgs' = [i \in Ids |->
       IF msgs[i] # NoRow /\ {msgs[i].to, msgs[i].from} = {req[r].me, req[r].other}
       THEN [msgs[i] EXCEPT !.read = TRUE] ELSE msgs[i]]
  /\ Answer(r)
  /\ UNCHANGED <<known, friends, nextId, opened>>

\* The UPDATE that follows the SELECT of a page: every unread message of the
\* other to me is marked, including those the page did not hold.
WriteGet(r) ==
  /\ At(r, "get", "write")
  /\ msgs' = [i \in Ids |->
       IF msgs[i] # NoRow /\ msgs[i].to = req[r].me /\ msgs[i].from = req[r].other
       THEN [msgs[i] EXCEPT !.read = TRUE] ELSE msgs[i]]
  /\ Answer(r)
  /\ UNCHANGED <<known, friends, nextId, opened>>

\* UPDATE ... WHERE id: no row is touched when it is gone.
WriteEdit(r) ==
  LET id == req[r].id IN
  /\ At(r, "edit", "write")
  /\ msgs' = IF msgs[id] # NoRow THEN [msgs EXCEPT ![id].by = req[r].me] ELSE msgs
  /\ Answer(r)
  /\ UNCHANGED <<known, friends, nextId, opened>>

\* DELETE ... WHERE id
WriteDelete(r) ==
  /\ At(r, "delete", "write")
  /\ msgs' = [msgs EXCEPT ![req[r].id] = NoRow]
  /\ Answer(r)
  /\ UNCHANGED <<known, friends, nextId, opened>>

\* A statement fails: the answer is a 500 and nothing is written.
Fails(r) ==
  /\ req[r] # Idle
  /\ Answer(r)
  /\ UNCHANGED <<known, friends, msgs, nextId, opened>>

Next ==
  \/ \E p \in Pairs : Befriend(p) \/ Unfriend(p)
  \/ \E u \in Users : Register(u) \/ DeleteUser(u)
  \/ \E r \in Requests :
       \/ \E op \in {"send", "get"}, me, other \in Users : ArriveTalking(r, op, me, other)
       \/ \E op \in {"edit", "delete"}, me \in Users, id \in Ids :
            ArriveChanging(r, op, me, id)
       \/ \E op \in {"send", "get"} : CheckFriends(r, op)
       \/ \E op \in {"edit", "delete"} : CheckAuthor(r, op)
       \/ WriteSend(r) \/ WriteGet(r) \/ WriteEdit(r) \/ WriteDelete(r)
       \/ Fails(r)

Spec == Init /\ [][Next]_vars

-----------------------------------------------------------------------------
(* Properties *)

\* Who wrote what a message says is who it is from: no edit lands on another
\* user's message, although the author is checked in an earlier statement, by
\* an id, and the message may have been deleted since.
Authorship == \A i \in Ids : msgs[i] # NoRow => msgs[i].by = msgs[i].from

\* Every message was sent by a request during which the two were friends.
SentAmongFriends == \A i \in Ids : msgs[i] # NoRow => msgs[i].wanted

\* A message counts as read only if its recipient has been let into the
\* conversation with its sender.
ReadWasOpened ==
  \A i \in Ids : msgs[i] # NoRow /\ msgs[i].read => <<msgs[i].to, msgs[i].from>> \in opened

\* No message outlives its sender or its recipient.
References ==
  \A i \in Ids : msgs[i] # NoRow => {msgs[i].from, msgs[i].to} \subseteq known
=============================================================================
