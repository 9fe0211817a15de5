----------------------------- MODULE Friendships -----------------------------
(***************************************************************************)
(* The friendship handlers of the Go server (server/friends.go) on the     *)
(* friendships and users tables (server/db.go).                            *)
(*                                                                         *)
(* Each request is served by a goroutine of its own and, except for block, *)
(* reads the pair's row in one statement and writes it in a later one;     *)
(* there is no transaction.  Anything may happen to the row in between, so *)
(* a handler writes on the strength of what it read (req[r].row).  The     *)
(* pushes to connected clients that follow the write are Presence's.       *)
(***************************************************************************)
EXTENDS Integers, FiniteSets

CONSTANTS
  Users,    \* account uuids
  Requests, \* HTTP requests in flight, each slot reused when answered
  MaxId     \* bound on the AUTOINCREMENT ids of friendship rows

ASSUME MaxIdAssumption == MaxId \in Nat

\* pair(a, b) orders the two uuids; here the pair is the set.
Pairs == {p \in SUBSET Users : \E a, b \in Users : a # b /\ p = {a, b}}

Ids == 1..MaxId
Rows == [id : Ids, status : {"pending", "accepted", "blocked"}, by : Users]
NoRow == [id |-> 0, status |-> "none", by |-> "nobody"]

Ops == {"add", "accept", "delete", "block"}
Idle == [op |-> "idle"]

VARIABLES
  known,  \* users with a row in the users table
  tokens, \* users whose access token is in the server's cache
  rows,   \* the friendships table, by pair
  nextId, \* sqlite_sequence of friendships
  req,    \* what each request has to do: read, or write what it decided
  agreed, \* observer: who wants the friendship the pair's row stands for
  raced   \* observer: pairs blocked while an acceptance of the row was on its way

wishes == <<agreed, raced>>
vars == <<known, tokens, rows, nextId, req, wishes>>

\* A handler before its read, and one between its read and its write
Reading == [op : Ops, me : Users, other : Users, stage : {"read"}]
Writing == [op : {"insert", "accept", "delete"}, me : Users, other : Users,
            stage : {"write"}, id : Ids \cup {0}]

TypeOK ==
  /\ known \in SUBSET Users
  /\ tokens \in SUBSET Users
  /\ rows \in [Pairs -> Rows \cup {NoRow}]
  /\ nextId \in 1..MaxId + 1
  /\ req \in [Requests -> Reading \cup Writing \cup {Idle}]
  /\ agreed \in [Pairs -> SUBSET Users]
  /\ raced \in SUBSET Pairs

Init ==
  /\ known = {}
  /\ tokens = {}
  /\ rows = [p \in Pairs |-> NoRow]
  /\ nextId = 1
  /\ req = [r \in Requests |-> Idle]
  /\ agreed = [p \in Pairs |-> {}]
  /\ raced = {}

-----------------------------------------------------------------------------
(* The users table *)

\* verifyMinecraftToken with a cold cache: the profile is cached and upserted
Register(u) ==
  /\ u \notin tokens
  /\ tokens' = tokens \cup {u}
  /\ known' = known \cup {u}
  /\ UNCHANGED <<rows, nextId, req, wishes>>

\* The cached entry passes cacheTTL.
TokenExpires(u) ==
  /\ u \in tokens
  /\ tokens' = tokens \ {u}
  /\ UNCHANGED <<known, rows, nextId, req, wishes>>

\* "users delete" of the shell; ON DELETE CASCADE takes the user's friendships.
DeleteUser(u) ==
  /\ u \in known
  /\ known' = known \ {u}
  /\ rows' = [p \in Pairs |-> IF u \in p THEN NoRow ELSE rows[p]]
  /\ agreed' = [p \in Pairs |-> IF u \in p THEN {} ELSE agreed[p]]
  /\ raced' = {p \in raced : u \notin p}
  /\ UNCHANGED <<tokens, nextId, req>>

-----------------------------------------------------------------------------
(* Requests *)

\* A request of me about other arrives and passes authMiddleware.  The token
\* stays cached after the user's row is deleted, so me need not be known.  "add"
\* looks its target up by name; the others take any uuid.
Arrive(r, op, me, other) ==
  /\ req[r] = Idle
  /\ me \in tokens
  /\ me # other
  /\ op = "add" => other \in known
  /\ req' = [req EXCEPT ![r] = [op |-> op, me |-> me, other |-> other, stage |-> "read"]]
  /\ UNCHANGED <<known, tokens, rows, nextId, wishes>>

\* The handler decided on a write of the row it read.
Decide(r, op, id) ==
  req' = [req EXCEPT ![r] = [op |-> op, me |-> @.me, other |-> @.other,
                             stage |-> "write", id |-> id]]

\* The handler answers, whatever the answer.
Answer(r) == req' = [req EXCEPT ![r] = Idle]

At(r, op, stage) == req[r] # Idle /\ req[r].op = op /\ req[r].stage = stage
PairOf(r) == {req[r].me, req[r].other}

\* handleFriendAdd: a new request, the acceptance of the other's, or a refusal
ReadAdd(r) ==
  LET row == rows[PairOf(r)] IN
  /\ At(r, "add", "read")
  /\ \/ row = NoRow /\ Decide(r, "insert", 0)
     \/ row.status = "pending" /\ row.by # req[r].me /\ Decide(r, "accept", row.id)
     \/ row.status \in {"accepted", "blocked"} /\ Answer(r)
     \/ row.status = "pending" /\ row.by = req[r].me /\ Answer(r)
  /\ UNCHANGED <<known, tokens, rows, nextId, wishes>>

\* handleFriendAccept
ReadAccept(r) ==
  LET row == rows[PairOf(r)] IN
  /\ At(r, "accept", "read")
  /\ IF row.status = "pending" /\ row.by # req[r].me
     THEN Decide(r, "accept", row.id)
     ELSE Answer(r)
  /\ UNCHANGED <<known, tokens, rows, nextId, wishes>>

\* handleFriendDelete, whatever the row's status
ReadDelete(r) ==
  LET row == rows[PairOf(r)] IN
  /\ At(r, "delete", "read")
  /\ IF row # NoRow THEN Decide(r, "delete", row.id) ELSE Answer(r)
  /\ UNCHANGED <<known, tokens, rows, nextId, wishes>>

\* Seeded fault: INSERT ... ON CONFLICT DO UPDATE, as in handleFriendBlock
WriteInsert_Upserts(r) ==
  LET p == PairOf(r) IN
  /\ At(r, "insert", "write")
  /\ p \subseteq known
  /\ IF rows[p] # NoRow
     THEN /\ rows' = [rows EXCEPT ![p].status = "pending"]
          /\ UNCHANGED <<nextId, wishes>>
     ELSE /\ nextId <= MaxId
          /\ rows' = [rows EXCEPT ![p] =
                        [id |-> nextId, status |-> "pending", by |-> req[r].me]]
          /\ nextId' = nextId + 1
          /\ agreed' = [agreed EXCEPT ![p] = {req[r].me}]
          /\ raced' = raced \ {p}
  /\ Answer(r)
  /\ UNCHANGED <<known, tokens>>

\* INSERT of a pending row; UNIQUE(user_a, user_b) and the foreign keys may
\* refuse it.
WriteInsert(r) ==
  LET p == PairOf(r) IN
  /\ At(r, "insert", "write")
  /\ IF rows[p] = NoRow /\ p \subseteq known
     THEN /\ nextId <= MaxId
          /\ rows' = [rows EXCEPT ![p] =
                        [id |-> nextId, status |-> "pending", by |-> req[r].me]]
          /\ nextId' = nextId + 1
          /\ agreed' = [agreed EXCEPT ![p] = {req[r].me}]
          /\ raced' = raced \ {p}
     ELSE UNCHANGED <<rows, nextId, wishes>>
  /\ Answer(r)
  /\ UNCHANGED <<known, tokens>>

\* Seeded fault: UPDATE ... WHERE user_a = ? AND user_b = ?
WriteAccept_ByPair(r) ==
  LET p == PairOf(r) IN
  /\ At(r, "accept", "write")
  /\ IF rows[p] # NoRow
     THEN /\ rows' = [rows EXCEPT ![p].status = "accepted"]
          /\ agreed' = [agreed EXCEPT ![p] = @ \cup {req[r].me}]
          /\ UNCHANGED raced
     ELSE UNCHANGED <<rows, wishes>>
  /\ Answer(r)
  /\ UNCHANGED <<known, tokens, nextId>>

\* UPDATE ... SET status = 'accepted' WHERE id: the row with the id that was
\* read, in whatever state it is by now, or no row at all.
WriteAccept(r) ==
  LET p == PairOf(r) IN
  /\ At(r, "accept", "write")
  /\ IF rows[p].id = req[r].id
     THEN /\ rows' = [rows EXCEPT ![p].status = "accepted"]
          /\ agreed' = [agreed EXCEPT ![p] = @ \cup {req[r].me}]
          /\ UNCHANGED raced
     ELSE UNCHANGED <<rows, wishes>>
  /\ Answer(r)
  /\ UNCHANGED <<known, tokens, nextId>>

\* DELETE by pair
WriteDelete(r) ==
  LET p == PairOf(r) IN
  /\ At(r, "delete", "write")
  /\ rows' = [rows EXCEPT ![p] = NoRow]
  /\ agreed' = [agreed EXCEPT ![p] = {}]
  /\ raced' = raced \ {p}
  /\ Answer(r)
  /\ UNCHANGED <<known, tokens, nextId>>

\* An accept or an add has read the pair's present row and has yet to accept it.
Racing(p) ==
  \E r \in Requests :
    At(r, "accept", "write") /\ PairOf(r) = p /\ req[r].id = rows[p].id

\* handleFriendBlock: one INSERT ... ON CONFLICT DO UPDATE, without a read.
\* An existing row keeps its id; a new one takes the next.  Whatever was agreed
\* on is off.
WriteBlock(r) ==
  LET p == PairOf(r) IN
  /\ At(r, "block", "read")
  /\ \/ /\ ~(p \subseteq known)
        /\ UNCHANGED <<rows, nextId, wishes>>
     \/ /\ p \subseteq known /\ rows[p] # NoRow
        /\ rows' = [rows EXCEPT ![p] =
                      [id |-> rows[p].id, status |-> "blocked", by |-> req[r].me]]
        /\ agreed' = [agreed EXCEPT ![p] = {}]
        /\ raced' = IF Racing(p) THEN raced \cup {p} ELSE raced \ {p}
        /\ UNCHANGED nextId
     \/ /\ p \subseteq known /\ rows[p] = NoRow
        /\ nextId <= MaxId
        /\ rows' = [rows EXCEPT ![p] =
                      [id |-> nextId, status |-> "blocked", by |-> req[r].me]]
        /\ nextId' = nextId + 1
        /\ agreed' = [agreed EXCEPT ![p] = {}]
        /\ raced' = raced \ {p}
  /\ Answer(r)
  /\ UNCHANGED <<known, tokens>>

\* A statement fails (the disk, a locked database): the answer is a 500 and
\* nothing is written.
Fails(r) ==
  /\ req[r] # Idle
  /\ Answer(r)
  /\ UNCHANGED <<known, tokens, rows, nextId, wishes>>

Next ==
  \/ \E u \in Users : Register(u) \/ TokenExpires(u) \/ DeleteUser(u)
  \/ \E r \in Requests :
       \/ \E op \in Ops, me, other \in Users : Arrive(r, op, me, other)
       \/ ReadAdd(r) \/ ReadAccept(r) \/ ReadDelete(r)
       \/ WriteInsert(r) \/ WriteAccept(r) \/ WriteDelete(r) \/ WriteBlock(r)
       \/ Fails(r)

Spec == Init /\ [][Next]_vars

-----------------------------------------------------------------------------
(* Properties *)

\* A friendship is accepted only if each of the two asked for it or accepted
\* it, and neither has blocked the other since, whatever requests, removals and
\* blocks overlap: handleFriendAccept updates the row with the id it read, and
\* ids are never used twice.  The one way out is the update's own: it looks at
\* the id and not at the status, so that a block that lands between its read
\* and its write (raced) is turned into a friendship.
Consent ==
  \A p \in Pairs :
    rows[p].status = "accepted" => agreed[p] = p \/ p \in raced

\* No friendship row outlives either of its users (the foreign keys and their
\* cascade), although handlers write for users deleted since they read.
References == \A p \in Pairs : rows[p] # NoRow => p \subseteq known

\* A friendship that was accepted or blocked never falls back to a pending
\* request while its row lasts, although an add decided to insert before the
\* row was there; and only a block changes who the row is attributed to.
RowKeepsStanding ==
  \A p \in Pairs :
    rows'[p].id = rows[p].id =>
      /\ rows[p].status \in {"accepted", "blocked"} => rows'[p].status # "pending"
      /\ rows'[p].by # rows[p].by => rows'[p].status = "blocked"
StandingKept == [][RowKeepsStanding]_vars
=============================================================================
