------------------------------ MODULE Presence ------------------------------
(***************************************************************************)
(* The presence half of the Go server: the WebSocket hub (server/ws.go),   *)
(* the status column of the users table (server/db.go), the token check's  *)
(* upsert of that column (server/auth.go) and the frames that the          *)
(* acceptance of a friendship pushes (server/friends.go).                  *)
(*                                                                         *)
(* Every connection runs handleWS in a goroutine of its own: it enters the *)
(* hub, writes "online" to the database, greets the client, announces the  *)
(* user to their friends if this is the first session, reads status        *)
(* messages until the socket fails, leaves the hub and, if it was the last *)
(* session, writes "offline" and announces that.  Only the hub's own map   *)
(* is under a lock: each step between two of those lines can interleave    *)
(* with the handlers of every other connection.                            *)
(*                                                                         *)
(* One action is one critical section, one SQL statement (the pool holds a *)
(* single database connection, so statements are atomic), or one           *)
(* non-blocking channel send of a friend_status frame; the other frames    *)
(* (hello, friend_accepted and the rest) say nothing of a status and are   *)
(* left out.  Accepted friendships are only added to here: requests,       *)
(* removals and blocks are Friendships'.                                   *)
(***************************************************************************)
EXTENDS Integers, FiniteSets

CONSTANTS
  Users,      \* account uuids, each with a row in the users table
  Conns,      \* connection objects; one may be reused once nobody refers to it
  Owner,      \* [Conns -> Users]: the account a connection authenticates as
  Friends,    \* [Users -> SUBSET Users]: who may be or become whose friend
  Accepts,    \* requests that accept a friendship, each answered once
  Accepter,   \* [Accepts -> Users]: the account such a request comes from
  Values,     \* the statuses a client may send: "online", "ingame", "away"
  Sends,      \* [Users -> SUBSET Values]: the statuses a user's client does send
  Missing,    \* users whose token may be missing from the cache
  Kickable,   \* users the administrator may kick
  CanRestart, \* the process may stop and start again
  Failing     \* users for whom a SQL statement may fail

ASSUME OwnerAssumption == Owner \in [Conns -> Users]
ASSUME FriendsAssumption ==
  /\ Friends \in [Users -> SUBSET Users]
  /\ \A u \in Users, f \in Users : f \in Friends[u] <=> u \in Friends[f]
ASSUME AccepterAssumption == Accepter \in [Accepts -> Users]
ASSUME ValuesAssumption == "online" \in Values /\ "offline" \notin Values
ASSUME SendsAssumption == Sends \in [Users -> SUBSET Values]
ASSUME SwitchAssumption ==
  /\ Missing \subseteq Users
  /\ Kickable \subseteq Users
  /\ CanRestart \in BOOLEAN
  /\ Failing \subseteq Users

Status == Values \cup {"offline"}

\* A handler that accepts a friendship: "to" will be told the status of "about";
\* that is the last it does, or the other way round follows.
Idle == [step |-> "idle"]
Answered == [step |-> "answered"]
Accepting == [step : {"check", "read", "notify", "push"}, about : Users, to : Users,
              last : BOOLEAN, read : Status]

\* The handler's place in handleWS: between the two calls a name stands for.
Registered == {"added", "greeting", "announcing", "reading", "relaying", "closing"}
Broadcasting == {"announcing", "relaying", "farewell"}
Phases == Registered \cup {"idle", "verified", "leaving", "farewell"}

VARIABLES
  clients,    \* Hub.clients: the registered connections of each user
  status,     \* users.status in the database
  pc,         \* the phase of each connection's handler
  wasOffline, \* what Hub.add returned to the handler
  say,        \* the status the handler is broadcasting
  asked,      \* broadcastStatus has read the user's friends
  todo,       \* broadcastStatus: friends not yet notified
  targets,    \* notify: connections of the snapshot not yet written to
  friends,    \* the accepted rows of friendships
  accept,     \* the place of each handler that accepts a friendship
  left,       \* its notify: connections of the snapshot not yet written to
  open,       \* the socket is up
  kicking,    \* Kick: connections of the snapshot not yet closed
  \* what an observer remembers:
  told,       \* the status of each user in the last frame about them for a connection
  orphaned,   \* users whose row says online though no handler will clear it
  unannounced, \* users whose row was last written by a token check, or whose
              \* last status failed to reach the row or all of their friends
  overtaken,  \* accepting handlers overtaken by a broadcast since they read a row
  outdated    \* <<d, u>>: d was last sent a status of u read before u's last one

hubVars == <<clients, wasOffline>>
bcVars == <<say, asked, todo, targets>>
netVars == <<open, kicking, told>>
dbVars == <<status, orphaned, unannounced>>
friendVars == <<friends, accept, left, overtaken, outdated>>
vars == <<hubVars, dbVars, pc, bcVars, netVars, friendVars>>

ConnsOf(u) == {c \in Conns : Owner[c] = u}

\* No frame yet, or the last found the queue full
Nothing == "nothing"
Dropped == "dropped"
NothingTold == [u \in Users |-> Nothing]

TypeOK ==
  /\ clients \in [Users -> SUBSET Conns]
  /\ status \in [Users -> Status]
  /\ pc \in [Conns -> Phases]
  /\ wasOffline \in [Conns -> BOOLEAN]
  /\ say \in [Conns -> Status]
  /\ asked \in [Conns -> BOOLEAN]
  /\ todo \in [Conns -> SUBSET Users]
  /\ targets \in [Conns -> SUBSET Conns]
  /\ open \in [Conns -> BOOLEAN]
  /\ kicking \in SUBSET Conns
  /\ told \in [Conns -> [Users -> Status \cup {Nothing, Dropped}]]
  /\ orphaned \in SUBSET Users
  /\ unannounced \in SUBSET Users
  /\ friends \in [Users -> SUBSET Users]
  /\ accept \in [Accepts -> Accepting \cup {Idle, Answered}]
  /\ left \in [Accepts -> SUBSET Conns]
  /\ overtaken \in SUBSET Accepts
  /\ outdated \in SUBSET (Conns \X Users)

\* The rows keep whatever the previous run left in them.
Init ==
  /\ clients = [u \in Users |-> {}]
  /\ status \in [Users -> Status]
  /\ pc = [c \in Conns |-> "idle"]
  /\ wasOffline = [c \in Conns |-> FALSE]
  /\ say = [c \in Conns |-> "offline"]
  /\ asked = [c \in Conns |-> FALSE]
  /\ todo = [c \in Conns |-> {}]
  /\ targets = [c \in Conns |-> {}]
  /\ open = [c \in Conns |-> FALSE]
  /\ kicking = {}
  /\ told = [c \in Conns |-> NothingTold]
  /\ orphaned = {u \in Users : status[u] # "offline"}
  /\ unannounced = {}
  /\ friends \in [Users -> SUBSET Users]
  /\ \A u \in Users :
       friends[u] \subseteq Friends[u] /\ \A f \in friends[u] : u \in friends[f]
  /\ accept = [r \in Accepts |-> Idle]
  /\ left = [r \in Accepts |-> {}]
  /\ overtaken = {}
  /\ outdated = {}

-----------------------------------------------------------------------------
(* The token check *)

\* A handler that will still write the user's row when its session ends.
Attended(u) == \E c \in ConnsOf(u) : pc[c] \in Registered \cup {"leaving"}

\* verifyMinecraftToken past the cache: the upsert says 'online' whatever the
\* request was for.
Upsert(u) ==
  /\ status' = [status EXCEPT ![u] = "online"]
  /\ orphaned' = IF Attended(u) THEN orphaned ELSE orphaned \cup {u}
  /\ unannounced' = unannounced \cup {u}

\* A REST request of u whose token is not in the cache.
AuthenticateREST(u) ==
  /\ u \in Missing
  /\ Upsert(u)
  /\ UNCHANGED <<hubVars, pc, bcVars, netVars, friendVars>>

\* No goroutine holds a reference to the connection object.
Unreferenced(c) ==
  /\ c \notin kicking
  /\ \A d \in Conns : c \notin targets[d]
  /\ \A r \in Accepts : c \notin left[r]

\* handleWS up to the upgrade: the token is good, from the cache or not.
Connect(c) ==
  /\ pc[c] = "idle"
  /\ Unreferenced(c)
  /\ pc' = [pc EXCEPT ![c] = "verified"]
  /\ open' = [open EXCEPT ![c] = TRUE]
  /\ told' = [told EXCEPT ![c] = NothingTold]
  /\ \/ UNCHANGED dbVars
     \/ Owner[c] \in Missing /\ Upsert(Owner[c])
  /\ outdated' = {p \in outdated : p[1] # c}
  /\ UNCHANGED <<hubVars, bcVars, kicking, friends, accept, left, overtaken>>

\* The upgrade fails: the handler returns, the row stays as the check left it.
UpgradeFails(c) ==
  /\ pc[c] = "verified"
  /\ pc' = [pc EXCEPT ![c] = "idle"]
  /\ open' = [open EXCEPT ![c] = FALSE]
  /\ UNCHANGED <<hubVars, dbVars, bcVars, kicking, told, friendVars>>

-----------------------------------------------------------------------------
(* Entering the hub *)

HubAdd(c) ==
  LET u == Owner[c] IN
  /\ pc[c] = "verified"
  /\ wasOffline' = [wasOffline EXCEPT ![c] = clients[u] = {}]
  /\ clients' = [clients EXCEPT ![u] = @ \cup {c}]
  /\ pc' = [pc EXCEPT ![c] = "added"]
  /\ UNCHANGED <<dbVars, bcVars, netVars, friendVars>>

\* UPDATE users SET status.  The error is ignored: the row may stay as it was.
Record(u, st) ==
  \/ /\ status' = [status EXCEPT ![u] = st]
     /\ unannounced' = unannounced \ {u}
  \/ /\ u \in Failing
     /\ UNCHANGED status
     /\ unannounced' = unannounced \cup {u}

MarkOnline(c) ==
  /\ pc[c] = "added"
  /\ Record(Owner[c], "online")
  /\ pc' = [pc EXCEPT ![c] = "greeting"]
  /\ UNCHANGED <<hubVars, orphaned, bcVars, netVars, friendVars>>

\* broadcastStatus is called.
StartBroadcast(c, st) ==
  /\ say' = [say EXCEPT ![c] = st]
  /\ UNCHANGED <<asked, todo, targets>>

\* hello, and the branch on wasOffline
Greet(c) ==
  /\ pc[c] = "greeting"
  /\ IF wasOffline[c]
     THEN /\ pc' = [pc EXCEPT ![c] = "announcing"]
          /\ StartBroadcast(c, "online")
     ELSE /\ pc' = [pc EXCEPT ![c] = "reading"]
          /\ UNCHANGED bcVars
  /\ UNCHANGED <<hubVars, dbVars, netVars, friendVars>>

-----------------------------------------------------------------------------
(* broadcastStatus and notify *)

\* getFriendUUIDsOf.  When the query fails nobody will be notified, when a row
\* cannot be read its friend will not.
ReadFriends(c) ==
  /\ pc[c] \in Broadcasting
  /\ ~asked[c]
  /\ asked' = [asked EXCEPT ![c] = TRUE]
  /\ \/ /\ todo' = [todo EXCEPT ![c] = friends[Owner[c]]]
        /\ UNCHANGED unannounced
     \/ /\ Owner[c] \in Failing
        /\ \E some \in SUBSET friends[Owner[c]] : todo' = [todo EXCEPT ![c] = some]
        /\ unannounced' = unannounced \cup {Owner[c]}
  /\ UNCHANGED <<hubVars, status, orphaned, pc, say, targets, netVars, friendVars>>

\* A handler that accepts has read u's row and has yet to tell f of it.
Telling(r, u, f) ==
  /\ accept[r].step \in {"notify", "push"}
  /\ accept[r].about = u
  /\ accept[r].to = f

\* notify, under the lock: the friend's connections at this moment
Snapshot(c, f) ==
  /\ pc[c] \in Broadcasting
  /\ targets[c] = {}
  /\ f \in todo[c]
  /\ todo' = [todo EXCEPT ![c] = @ \ {f}]
  /\ targets' = [targets EXCEPT ![c] = clients[f]]
  /\ overtaken' = overtaken \cup {r \in Accepts : Telling(r, Owner[c], f)}
  /\ UNCHANGED <<hubVars, dbVars, pc, say, asked, netVars, friends, accept, left, outdated>>

\* wsConn.writeJSON: the send never blocks; a queue that is full, because the
\* client is slow or writePump has not started, drops the frame.  The channel
\* keeps its order: what is sent last is received last.
WriteJSON(d, u, st) ==
  told' \in {[told EXCEPT ![d][u] = x] : x \in {st, Dropped}}

\* notify, after the unlock: one send
Push(c, d) ==
  /\ d \in targets[c]
  /\ targets' = [targets EXCEPT ![c] = @ \ {d}]
  /\ WriteJSON(d, Owner[c], say[c])
  /\ outdated' = outdated \ {<<d, Owner[c]>>}
  /\ UNCHANGED <<hubVars, dbVars, pc, say, asked, todo, open, kicking,
                 friends, accept, left, overtaken>>

EndBroadcast(c) ==
  /\ pc[c] \in Broadcasting
  /\ asked[c]
  /\ todo[c] = {}
  /\ targets[c] = {}
  /\ pc' = [pc EXCEPT ![c] = IF pc[c] = "farewell" THEN "idle" ELSE "reading"]
  /\ say' = [say EXCEPT ![c] = "offline"]
  /\ asked' = [asked EXCEPT ![c] = FALSE]
  /\ UNCHANGED <<hubVars, dbVars, todo, targets, netVars, friendVars>>

-----------------------------------------------------------------------------
(* The two pumps *)

\* Seeded fault: the new status is stored and not relayed.
ReadStatus_NotRelayed(c, v) ==
  /\ pc[c] = "reading"
  /\ open[c]
  /\ v \in Sends[Owner[c]]
  /\ status' = [status EXCEPT ![Owner[c]] = v]
  /\ unannounced' = unannounced \ {Owner[c]}
  /\ UNCHANGED <<hubVars, pc, orphaned, bcVars, netVars, friendVars>>

\* readPump: a status message; any other message changes nothing
ReadStatus(c, v) ==
  /\ pc[c] = "reading"
  /\ open[c]
  /\ v \in Sends[Owner[c]]
  /\ Record(Owner[c], v)
  /\ pc' = [pc EXCEPT ![c] = "relaying"]
  /\ StartBroadcast(c, v)
  /\ UNCHANGED <<hubVars, orphaned, netVars, friendVars>>

\* Seeded fault: "offline" is written before the session leaves the hub.
ReadFails_MarksOffline(c) ==
  /\ pc[c] = "reading"
  /\ ~open[c]
  /\ pc' = [pc EXCEPT ![c] = "closing"]
  /\ status' = [status EXCEPT ![Owner[c]] = "offline"]
  /\ UNCHANGED <<hubVars, orphaned, unannounced, bcVars, netVars, friendVars>>

\* readPump: ReadMessage fails; the deferred Close and close(done).  What is
\* still in the queue will not be sent any more.
ReadFails(c) ==
  /\ pc[c] = "reading"
  /\ ~open[c]
  /\ pc' = [pc EXCEPT ![c] = "closing"]
  /\ told' = [told EXCEPT ![c] = NothingTold]
  /\ UNCHANGED <<hubVars, dbVars, bcVars, open, kicking, friendVars>>

\* The client closes the socket, or the read deadline passes without a pong;
\* only ReadMessage notices, so it may as well happen there.
Disconnect(c) ==
  /\ pc[c] = "reading"
  /\ open[c]
  /\ open' = [open EXCEPT ![c] = FALSE]
  /\ UNCHANGED <<hubVars, dbVars, pc, bcVars, kicking, told, friendVars>>

-----------------------------------------------------------------------------
(* Leaving the hub *)

\* Seeded fault: the session that came first says goodbye, not the last one.
HubRemove_FirstLeaves(c) ==
  LET u == Owner[c] IN
  /\ pc[c] = "closing"
  /\ clients' = [clients EXCEPT ![u] = @ \ {c}]
  /\ wasOffline' = [wasOffline EXCEPT ![c] = FALSE]
  /\ pc' = [pc EXCEPT ![c] = IF wasOffline[c] THEN "leaving" ELSE "idle"]
  /\ UNCHANGED <<dbVars, bcVars, netVars, friendVars>>

HubRemove(c) ==
  LET u == Owner[c] IN
  /\ pc[c] = "closing"
  /\ clients' = [clients EXCEPT ![u] = @ \ {c}]
  /\ wasOffline' = [wasOffline EXCEPT ![c] = FALSE]
  /\ pc' = [pc EXCEPT ![c] = IF clients[u] = {c} THEN "leaving" ELSE "idle"]
  /\ UNCHANGED <<dbVars, bcVars, netVars, friendVars>>

\* Seeded fault: the last session ends without touching the row.
MarkOffline_Forgets(c) ==
  /\ pc[c] = "leaving"
  /\ pc' = [pc EXCEPT ![c] = "farewell"]
  /\ StartBroadcast(c, "offline")
  /\ UNCHANGED <<hubVars, dbVars, netVars, friendVars>>

MarkOffline(c) ==
  LET u == Owner[c] IN
  /\ pc[c] = "leaving"
  /\ Record(u, "offline")
  /\ orphaned' = IF status'[u] = "offline" THEN orphaned \ {u}
                 ELSE IF \E d \in ConnsOf(u) \ {c} : pc[d] \in Registered \cup {"leaving"}
                 THEN orphaned
                 ELSE orphaned \cup {u}
  /\ pc' = [pc EXCEPT ![c] = "farewell"]
  /\ StartBroadcast(c, "offline")
  /\ UNCHANGED <<hubVars, netVars, friendVars>>

-----------------------------------------------------------------------------
(* Accepting a friendship: handleFriendAccept, and handleFriendAdd of one     *)
(* who has been asked.  What the two have in common follows their UPDATE.     *)

\* The row is accepted, perhaps not for the first time: two requests may have
\* read it pending.
AcceptFriend(r, other) ==
  LET me == Accepter[r] IN
  /\ accept[r] = Idle
  /\ other \in Friends[me]
  /\ friends' = [friends EXCEPT ![me] = @ \cup {other}, ![other] = @ \cup {me}]
  /\ accept' = [accept EXCEPT ![r] =
       [step |-> "check", about |-> me, to |-> other, last |-> FALSE, read |-> "offline"]]
  /\ UNCHANGED <<hubVars, dbVars, pc, bcVars, netVars, left, overtaken, outdated>>

\* Told of the one status, or spared it: the other way round, or the answer
Turn(a) ==
  IF a.last THEN Answered
  ELSE [step |-> "check", about |-> a.to, to |-> a.about, last |-> TRUE, read |-> "offline"]

\* isOnline
CheckOnline(r) ==
  LET a == accept[r] IN
  /\ a.step = "check"
  /\ accept' = [accept EXCEPT ![r] =
       IF clients[a.about] # {} THEN [a EXCEPT !.step = "read"] ELSE Turn(a)]
  /\ UNCHANGED <<hubVars, dbVars, pc, bcVars, netVars, friends, left, overtaken, outdated>>

\* getUserBasic
ReadRow(r) ==
  LET a == accept[r] IN
  /\ a.step = "read"
  /\ \/ accept' = [accept EXCEPT ![r] =
                     [a EXCEPT !.step = "notify", !.read = status[a.about]]]
     \/ a.about \in Failing /\ accept' = [accept EXCEPT ![r] = Turn(a)]
  /\ overtaken' = overtaken \ {r}
  /\ UNCHANGED <<hubVars, dbVars, pc, bcVars, netVars, friends, left, outdated>>

\* notify, under the lock
SnapshotFriend(r) ==
  LET a == accept[r] IN
  /\ a.step = "notify"
  /\ left' = [left EXCEPT ![r] = clients[a.to]]
  /\ accept' = [accept EXCEPT ![r] = [a EXCEPT !.step = "push"]]
  /\ UNCHANGED <<hubVars, dbVars, pc, bcVars, netVars, friends, overtaken, outdated>>

\* notify, after the unlock: one send
PushFriend(r, d) ==
  LET a == accept[r] IN
  /\ a.step = "push"
  /\ d \in left[r]
  /\ left' = [left EXCEPT ![r] = @ \ {d}]
  /\ WriteJSON(d, a.about, a.read)
  /\ outdated' = IF r \in overtaken THEN outdated \cup {<<d, a.about>>} ELSE outdated
  /\ UNCHANGED <<hubVars, dbVars, pc, bcVars, open, kicking, friends, accept, overtaken>>

\* notify returns
EndPush(r) ==
  LET a == accept[r] IN
  /\ a.step = "push"
  /\ left[r] = {}
  /\ accept' = [accept EXCEPT ![r] = Turn(a)]
  /\ UNCHANGED <<hubVars, dbVars, pc, bcVars, netVars, friends, left, overtaken, outdated>>

-----------------------------------------------------------------------------
(* The administrator and the process *)

\* Kick, under the lock.  The shell runs one command at a time.
Kick(u) ==
  /\ u \in Kickable
  /\ kicking = {}
  /\ kicking' = clients[u]
  /\ UNCHANGED <<hubVars, dbVars, pc, bcVars, open, told, friendVars>>

\* Kick, after the unlock
KickClose(c) ==
  /\ c \in kicking
  /\ kicking' = kicking \ {c}
  /\ open' = [open EXCEPT ![c] = FALSE]
  /\ UNCHANGED <<hubVars, dbVars, pc, bcVars, told, friendVars>>

\* The process ends, by a signal, "stop" or a crash, and starts again.
\* Shutdown does not wait for hijacked connections, so no handler reaches its
\* last writes, and start-up leaves the users table as it finds it.
Restart ==
  /\ CanRestart
  /\ clients' = [u \in Users |-> {}]
  /\ pc' = [c \in Conns |-> "idle"]
  /\ wasOffline' = [c \in Conns |-> FALSE]
  /\ say' = [c \in Conns |-> "offline"]
  /\ asked' = [c \in Conns |-> FALSE]
  /\ todo' = [c \in Conns |-> {}]
  /\ targets' = [c \in Conns |-> {}]
  /\ open' = [c \in Conns |-> FALSE]
  /\ kicking' = {}
  /\ told' = [c \in Conns |-> NothingTold]
  /\ orphaned' = {u \in Users : status[u] # "offline"}
  /\ unannounced' = {}
  /\ accept' = [r \in Accepts |-> Idle]
  /\ left' = [r \in Accepts |-> {}]
  /\ overtaken' = {}
  /\ outdated' = {}
  /\ UNCHANGED <<status, friends>>

Broadcast(c) ==
  \/ ReadFriends(c)
  \/ \E f \in Users : Snapshot(c, f)
  \/ \E d \in Conns : Push(c, d)
  \/ EndBroadcast(c)

\* What the handler's goroutine does by itself
Handler(c) ==
  \/ HubAdd(c)
  \/ MarkOnline(c)
  \/ Greet(c)
  \/ Broadcast(c)
  \/ ReadFails(c)
  \/ HubRemove(c)
  \/ MarkOffline(c)

\* A request that accepts a friendship
Acceptance(r) ==
  \/ \E other \in Users : AcceptFriend(r, other)
  \/ CheckOnline(r)
  \/ ReadRow(r)
  \/ SnapshotFriend(r)
  \/ \E d \in Conns : PushFriend(r, d)
  \/ EndPush(r)

Next ==
  \/ \E u \in Users : AuthenticateREST(u) \/ Kick(u)
  \/ \E c \in Conns :
       \/ Connect(c) \/ UpgradeFails(c)
       \/ Handler(c)
       \/ \E v \in Values : ReadStatus(c, v)
       \/ Disconnect(c)
       \/ KickClose(c)
  \/ \E r \in Accepts : Acceptance(r)
  \/ Restart

SafeSpec == Init /\ [][Next]_vars

\* Goroutines run, and the shell finishes a command it has started.
Fairness ==
  /\ \A c \in Conns : WF_vars(Handler(c))
  /\ \A c \in Conns : WF_vars(KickClose(c))

Spec == SafeSpec /\ Fairness
-----------------------------------------------------------------------------
(* Properties *)

\* The hub holds a connection exactly from its add to its remove, under its
\* owner: no handler is lost from the map while it serves its client, none is
\* left behind (Hub.add, Hub.remove).
HubExact ==
  \A u \in Users : clients[u] = {c \in ConnsOf(u) : pc[c] \in Registered}

\* Whenever the database says a user is online, ingame or away, a handler that
\* will still write "offline" is there to do so -- unless a token check or a
\* restart left the row so with no session to end (orphaned), whatever the
\* order in which overlapping sessions of the user write.
OnlineIsAttended ==
  \A u \in Users \ orphaned : status[u] # "offline" => Attended(u)

\* One session of a user, the one that found them offline, owes their friends
\* the news: two can never announce the same arrival (wasOffline).
OneAnnouncer ==
  \A c, d \in Conns :
    /\ pc[c] \in Registered /\ wasOffline[c]
    /\ pc[d] \in Registered /\ wasOffline[d]
    /\ Owner[c] = Owner[d]
    => c = d

\* A connection object serves one session at a time and no two of a user's
\* sessions overlap, not even while one is still writing its farewell.
OneSessionEach == \A c, d \in Conns : Owner[c] = Owner[d] => c = d

\* Without overlapping sessions the database never says "offline" of a user
\* whose session has been recorded, unless the recording failed.  (With
\* overlapping ones it can: the late "offline" of a closed session lands after
\* the "online" of the next.)
RecordedIsOnline ==
  OneSessionEach =>
    \A c \in Conns :
      /\ pc[c] \in Registered \ {"added"}
      /\ Owner[c] \notin unannounced
      => status[Owner[c]] # "offline"

\* No handler of u is between a write of u's status and the end of the
\* broadcast that follows it.
Settled(u) == \A c \in ConnsOf(u) : pc[c] \notin Broadcasting \cup {"greeting"}

\* Without overlapping sessions, once u's handler has nothing left to announce,
\* the last status of u that d's client was sent is the one in the database,
\* whoever sent it: u's own broadcasts or the acceptance of a friendship.  The
\* exceptions: the last frame about u was dropped by d's full queue; a token
\* check wrote the row behind the hub's back, or a statement about u failed
\* (unannounced); an acceptance that had read u's row was overtaken by u's next
\* broadcast and sent what it had read after it (outdated).
WatcherAgrees ==
  OneSessionEach =>
    \A u \in Users, d \in Conns :
      /\ pc[d] \in Registered
      /\ Settled(u) /\ u \notin unannounced
      /\ told[d][u] \notin {Nothing, Dropped} /\ <<d, u>> \notin outdated
      => told[d][u] = status[u]

\* A user who stays away ends up "offline" in the database, or orphaned.
AwayBecomesOffline ==
  \A u \in Users :
    <>[](clients[u] = {}) => <>[](status[u] = "offline" \/ u \in orphaned)

\* The obligations of PresenceEdges, read off the handlers' phases.
Duty(c) ==
  IF pc[c] \in {"added", "greeting", "announcing"} /\ wasOffline[c] THEN "up"
  ELSE IF pc[c] \in {"leaving", "farewell"} THEN "down"
  ELSE "none"

Edges == INSTANCE PresenceEdges WITH
  online <- {u \in Users : clients[u] # {}},
  duty <- [c \in Conns |-> Duty(c)]

\* The hub and its handlers implement PresenceEdges: every rise and fall of a
\* user is announced by exactly one handler, however sessions overlap.
ImplementsEdges == Edges!SafeSpec
AnnouncesEdges == Edges!Spec
=============================================================================
