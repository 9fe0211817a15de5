--------------------------- MODULE PresenceProofs ---------------------------
(***************************************************************************)
(* What holds of Presence for every set of users, connections, friendships *)
(* and acceptances, whatever statements fail and frames are dropped,       *)
(* proved with TLAPS.                                                      *)
(***************************************************************************)
EXTENDS Presence, TLAPS

\* An acceptance under way is a record of its own kind.
LEMMA AcceptingType ==
  ASSUME TypeOK, NEW r \in Accepts,
         accept[r].step \in {"check", "read", "notify", "push"}
  PROVE  /\ accept[r] \in Accepting
         /\ accept[r].about \in Users /\ accept[r].to \in Users
         /\ accept[r].read \in Status
BY DEF TypeOK, Accepting, Idle, Answered

LEMMA TurnType ==
  ASSUME NEW a \in Accepting
  PROVE  Turn(a) \in Accepting \cup {Answered}
<1>1. CASE a.last
  BY <1>1 DEF Turn
<1>2. CASE ~a.last
  BY <1>2 DEF Turn, Accepting, Status
<1> QED
  BY <1>1, <1>2

\* A send leaves the status, or the mark that the queue was full.
LEMMA WriteJSONType ==
  ASSUME TypeOK, NEW d \in Conns, NEW u \in Users, NEW st \in Status,
         WriteJSON(d, u, st)
  PROVE  told' \in [Conns -> [Users -> Status \cup {Nothing, Dropped}]]
<1>1. PICK x \in {st, Dropped} : told' = [told EXCEPT ![d][u] = x]
  BY DEF WriteJSON
<1> QED
  BY <1>1 DEF TypeOK

LEMMA RecordType ==
  ASSUME TypeOK, NEW u \in Users, NEW st \in Status, Record(u, st)
  PROVE  status' \in [Users -> Status] /\ unannounced' \in SUBSET Users
BY DEF Record, TypeOK

\* An acceptance reads the hub and the rows, and writes neither.
LEMMA AcceptanceFrame ==
  ASSUME NEW r \in Accepts, Acceptance(r)
  PROVE  UNCHANGED <<hubVars, dbVars, pc, bcVars, open, kicking>>
BY DEF Acceptance, AcceptFriend, CheckOnline, ReadRow, SnapshotFriend, PushFriend,
       EndPush, netVars

LEMMA AcceptanceType ==
  ASSUME TypeOK, NEW r \in Accepts, Acceptance(r)
  PROVE  TypeOK'
<1> USE AccepterAssumption DEF TypeOK
<1>1. UNCHANGED <<hubVars, dbVars, pc, bcVars, open, kicking>>
  BY AcceptanceFrame
<1>2. SUFFICES /\ told' \in [Conns -> [Users -> Status \cup {Nothing, Dropped}]]
               /\ friends' \in [Users -> SUBSET Users]
               /\ accept' \in [Accepts -> Accepting \cup {Idle, Answered}]
               /\ left' \in [Accepts -> SUBSET Conns]
               /\ overtaken' \in SUBSET Accepts
               /\ outdated' \in SUBSET (Conns \X Users)
  BY <1>1 DEF hubVars, dbVars, bcVars
<1>3. ASSUME NEW other \in Users, AcceptFriend(r, other) PROVE <1>2!1
  <2>1. [step |-> "check", about |-> Accepter[r], to |-> other, last |-> FALSE,
         read |-> "offline"] \in Accepting
    BY DEF Accepting, Status
  <2> QED
    BY <1>3, <2>1 DEF AcceptFriend, netVars
<1>4. CASE CheckOnline(r)
  <2>1. accept[r] \in Accepting
    BY <1>4, AcceptingType DEF CheckOnline
  <2>2. [accept[r] EXCEPT !.step = "read"] \in Accepting
    BY <2>1 DEF Accepting
  <2>3. Turn(accept[r]) \in Accepting \cup {Answered}
    BY <2>1, TurnType
  <2> QED
    BY <1>4, <2>2, <2>3 DEF CheckOnline, netVars
<1>5. CASE ReadRow(r)
  <2>1. accept[r] \in Accepting /\ accept[r].about \in Users
    BY <1>5, AcceptingType DEF ReadRow
  <2>2. [accept[r] EXCEPT !.step = "notify", !.read = status[accept[r].about]]
          \in Accepting
    BY <2>1 DEF Accepting
  <2>3. Turn(accept[r]) \in Accepting \cup {Answered}
    BY <2>1, TurnType
  <2> QED
    BY <1>5, <2>2, <2>3 DEF ReadRow, netVars
<1>6. CASE SnapshotFriend(r)
  <2>1. accept[r] \in Accepting /\ accept[r].to \in Users
    BY <1>6, AcceptingType DEF SnapshotFriend
  <2>2. [accept[r] EXCEPT !.step = "push"] \in Accepting
    BY <2>1 DEF Accepting
  <2> QED
    BY <1>6, <2>1, <2>2 DEF SnapshotFriend, netVars
<1>7. ASSUME NEW d \in Conns, PushFriend(r, d) PROVE <1>2!1
  <2>1. accept[r].about \in Users /\ accept[r].read \in Status
    BY <1>7, AcceptingType DEF PushFriend
  <2>2. told' \in [Conns -> [Users -> Status \cup {Nothing, Dropped}]]
    BY <1>7, <2>1, WriteJSONType DEF PushFriend
  <2> QED
    BY <1>7, <2>1, <2>2 DEF PushFriend
<1>8. CASE EndPush(r)
  <2>1. Turn(accept[r]) \in Accepting \cup {Answered}
    BY <1>8, AcceptingType, TurnType DEF EndPush
  <2> QED
    BY <1>8, <2>1 DEF EndPush, netVars
<1> QED
  BY <1>3, <1>4, <1>5, <1>6, <1>7, <1>8 DEF Acceptance

LEMMA TypeKept ==
  ASSUME TypeOK, [Next]_vars
  PROVE  TypeOK'
<1> USE OwnerAssumption, FriendsAssumption, ValuesAssumption, SendsAssumption
    DEF Status, Phases, Registered, Broadcasting, NothingTold
<1> USE DEF hubVars, bcVars, netVars, dbVars, friendVars
<1>1. ASSUME NEW u \in Users, AuthenticateREST(u) PROVE TypeOK'
  BY <1>1 DEF TypeOK, AuthenticateREST, Upsert
<1>2. ASSUME NEW u \in Users, Kick(u) PROVE TypeOK'
  BY <1>2 DEF TypeOK, Kick
<1>3. ASSUME NEW c \in Conns, Connect(c) PROVE TypeOK'
  <2>1. /\ status' \in [Users -> Status]
        /\ orphaned' \in SUBSET Users
        /\ unannounced' \in SUBSET Users
    <3>1. Owner[c] \in Users
      OBVIOUS
    <3>2. CASE UNCHANGED dbVars
      BY <3>2 DEF TypeOK
    <3>3. CASE Upsert(Owner[c])
      BY <3>1, <3>3 DEF TypeOK, Upsert
    <3> QED
      BY <1>3, <3>2, <3>3 DEF Connect
  <2>2. outdated' \in SUBSET (Conns \X Users)
    BY <1>3 DEF TypeOK, Connect
  <2>3. /\ pc' \in [Conns -> Phases]
        /\ open' \in [Conns -> BOOLEAN]
        /\ told' \in [Conns -> [Users -> Status \cup {Nothing, Dropped}]]
    BY <1>3 DEF TypeOK, Connect
  <2> QED
    BY <1>3, <2>1, <2>2, <2>3 DEF TypeOK, Connect
<1>4. ASSUME NEW c \in Conns, UpgradeFails(c) PROVE TypeOK'
  BY <1>4 DEF TypeOK, UpgradeFails
<1>5. ASSUME NEW c \in Conns, HubAdd(c) PROVE TypeOK'
  BY <1>5 DEF TypeOK, HubAdd
<1>6. ASSUME NEW c \in Conns, MarkOnline(c) PROVE TypeOK'
  BY <1>6, RecordType DEF TypeOK, MarkOnline
<1>7. ASSUME NEW c \in Conns, Greet(c) PROVE TypeOK'
  <2>1. say' \in [Conns -> Status] /\ pc' \in [Conns -> Phases]
        /\ UNCHANGED <<asked, todo, targets>>
    <3>1. CASE wasOffline[c]
      <4>1. /\ say' = [say EXCEPT ![c] = "online"]
            /\ pc' = [pc EXCEPT ![c] = "announcing"]
            /\ UNCHANGED <<asked, todo, targets>>
        BY <1>7, <3>1 DEF Greet, StartBroadcast
      <4>2. pc' \in [Conns -> Phases]
        BY <4>1 DEF TypeOK
      <4>3. say' \in [Conns -> Status]
        BY <4>1 DEF TypeOK
      <4> QED
        BY <4>1, <4>2, <4>3
    <3>2. CASE ~wasOffline[c]
      BY <1>7, <3>2 DEF TypeOK, Greet
    <3> QED
      BY <3>1, <3>2
  <2> QED
    BY <1>7, <2>1 DEF TypeOK, Greet
<1>8. ASSUME NEW c \in Conns, ReadFriends(c) PROVE TypeOK'
  <2>1. todo' \in [Conns -> SUBSET Users] /\ unannounced' \in SUBSET Users
    <3>1. PICK some \in SUBSET friends[Owner[c]] : todo' = [todo EXCEPT ![c] = some]
      BY <1>8 DEF ReadFriends
    <3>2. some \in SUBSET Users
      BY <3>1 DEF TypeOK
    <3>3. todo' \in [Conns -> SUBSET Users]
      BY <3>1, <3>2 DEF TypeOK
    <3> QED
      BY <1>8, <3>3 DEF ReadFriends, TypeOK
  <2>2. asked' \in [Conns -> BOOLEAN]
    BY <1>8 DEF TypeOK, ReadFriends
  <2> QED
    BY <1>8, <2>1, <2>2 DEF TypeOK, ReadFriends
<1>9. ASSUME NEW c \in Conns, NEW f \in Users, Snapshot(c, f) PROVE TypeOK'
  BY <1>9 DEF TypeOK, Snapshot
<1>10. ASSUME NEW c \in Conns, NEW d \in Conns, Push(c, d) PROVE TypeOK'
  <2>1. told' \in [Conns -> [Users -> Status \cup {Nothing, Dropped}]]
    BY <1>10, WriteJSONType DEF TypeOK, Push
  <2> QED
    BY <1>10, <2>1 DEF TypeOK, Push
<1>11. ASSUME NEW c \in Conns, EndBroadcast(c) PROVE TypeOK'
  BY <1>11 DEF TypeOK, EndBroadcast
<1>12. ASSUME NEW c \in Conns, NEW v \in Values, ReadStatus(c, v) PROVE TypeOK'
  BY <1>12, RecordType DEF TypeOK, ReadStatus, StartBroadcast
<1>13. ASSUME NEW c \in Conns, ReadFails(c) PROVE TypeOK'
  BY <1>13 DEF TypeOK, ReadFails
<1>14. ASSUME NEW c \in Conns, Disconnect(c) PROVE TypeOK'
  BY <1>14 DEF TypeOK, Disconnect
<1>15. ASSUME NEW c \in Conns, HubRemove(c) PROVE TypeOK'
  BY <1>15 DEF TypeOK, HubRemove
<1>16. ASSUME NEW c \in Conns, MarkOffline(c) PROVE TypeOK'
  <2>1. status' \in [Users -> Status] /\ unannounced' \in SUBSET Users
    BY <1>16, RecordType DEF MarkOffline
  <2>2. orphaned' \in SUBSET Users
    BY <1>16 DEF TypeOK, MarkOffline
  <2> QED
    BY <1>16, <2>1, <2>2 DEF TypeOK, MarkOffline, StartBroadcast
<1>17. ASSUME NEW c \in Conns, KickClose(c) PROVE TypeOK'
  BY <1>17 DEF TypeOK, KickClose
<1>18. ASSUME Restart PROVE TypeOK'
  BY <1>18 DEF TypeOK, Restart
<1>19. CASE UNCHANGED vars
  BY <1>19 DEF TypeOK, vars
<1> QED
  BY <1>1, <1>2, <1>3, <1>4, <1>5, <1>6, <1>7, <1>8, <1>9, <1>10, <1>11,
     <1>12, <1>13, <1>14, <1>15, <1>16, <1>17, <1>18, <1>19, AcceptanceType
  DEF Next, Handler, Broadcast

\* Every variable keeps its type.
THEOREM TypeCorrect == SafeSpec => []TypeOK
<1>1. Init => TypeOK
  BY OwnerAssumption, ValuesAssumption
  DEF Init, TypeOK, Status, Phases, NothingTold
<1> QED
  BY <1>1, TypeKept, PTL DEF SafeSpec

-----------------------------------------------------------------------------
(***************************************************************************)
(* The three facts about the hub and the users table are inductive         *)
(* together: HubExact says that the map is the set of handlers between add *)
(* and remove, which is what makes "the map was empty" (wasOffline, the    *)
(* last one out) mean "no other handler is registered".                    *)
(***************************************************************************)
HubInv == HubExact /\ OnlineIsAttended /\ OneAnnouncer

\* A step that moves one handler between phases on the same side of add and
\* remove, and writes the status of no user but an attended one.
LEMMA PhaseStep ==
  ASSUME TypeOK, HubInv, NEW c \in Conns, NEW p \in Phases,
         UNCHANGED <<clients, wasOffline, orphaned>>,
         pc' = [pc EXCEPT ![c] = p],
         pc[c] \in Registered <=> p \in Registered,
         pc[c] # "leaving",
         \A u \in Users : status'[u] = status[u] \/ (u = Owner[c] /\ p \in Registered)
  PROVE  HubInv'
<1> USE OwnerAssumption DEF HubInv, ConnsOf, TypeOK
<1>1. \A d \in Conns : pc'[d] \in Registered <=> pc[d] \in Registered
  OBVIOUS
<1>2. \A d \in Conns : pc[d] = "leaving" => pc'[d] = "leaving"
  OBVIOUS
<1>3. HubExact'
  BY <1>1 DEF HubExact
<1>4. OneAnnouncer'
  BY <1>1 DEF OneAnnouncer
<1>5. OnlineIsAttended'
  <2> SUFFICES ASSUME NEW u \in Users \ orphaned, status'[u] # "offline"
               PROVE  Attended(u)'
    BY DEF OnlineIsAttended
  <2>1. CASE status'[u] = status[u]
    BY <2>1, <1>1, <1>2 DEF OnlineIsAttended, Attended
  <2>2. CASE u = Owner[c] /\ p \in Registered
    BY <2>2 DEF Attended
  <2> QED
    BY <2>1, <2>2
<1> QED
  BY <1>3, <1>4, <1>5

\* A token check cannot leave a row unattended without marking it orphaned.
LEMMA UpsertStep ==
  ASSUME TypeOK, HubInv, NEW u \in Users, Upsert(u),
         UNCHANGED <<clients, wasOffline>>,
         \A d \in Conns : pc'[d] \in Registered <=> pc[d] \in Registered,
         \A d \in Conns : pc[d] = "leaving" => pc'[d] = "leaving"
  PROVE  HubInv'
<1> USE OwnerAssumption DEF HubInv, ConnsOf
<1>1. HubExact'
  BY DEF HubExact
<1>2. OneAnnouncer'
  BY DEF OneAnnouncer
<1>3. \A v \in Users : Attended(v) => Attended(v)'
  BY DEF Attended
<1>4. OnlineIsAttended'
  <2> SUFFICES ASSUME NEW v \in Users \ orphaned', status'[v] # "offline"
               PROVE  Attended(v)'
    BY DEF OnlineIsAttended
  <2>1. CASE v = u
    BY <2>1, <1>3 DEF Upsert
  <2>2. CASE v # u
    <3>1. v \notin orphaned /\ status[v] # "offline"
      BY <2>2 DEF Upsert, TypeOK
    <3> QED
      BY <3>1, <1>3 DEF OnlineIsAttended
  <2> QED
    BY <2>1, <2>2
<1> QED
  BY <1>1, <1>2, <1>4

LEMMA HubAddStep ==
  ASSUME TypeOK, HubInv, NEW c \in Conns, HubAdd(c)
  PROVE  HubInv'
<1> USE OwnerAssumption DEF HubInv, ConnsOf, TypeOK
<1>1. /\ pc[c] = "verified"
      /\ pc' = [pc EXCEPT ![c] = "added"]
      /\ clients' = [clients EXCEPT ![Owner[c]] = @ \cup {c}]
      /\ wasOffline' = [wasOffline EXCEPT ![c] = clients[Owner[c]] = {}]
      /\ UNCHANGED <<status, orphaned>>
  BY DEF HubAdd, dbVars
<1>2. HubExact'
  BY <1>1 DEF HubExact, Registered
<1>3. OneAnnouncer'
  <2> SUFFICES ASSUME NEW d \in Conns, NEW e \in Conns, d # e,
                      pc'[d] \in Registered, pc'[e] \in Registered,
                      wasOffline'[d], wasOffline'[e],
                      Owner[d] = Owner[e]
               PROVE  FALSE
    BY DEF OneAnnouncer
  <2>1. CASE d # c /\ e # c
    BY <1>1, <2>1 DEF OneAnnouncer
  <2>2. CASE d = c
    <3>1. e \in clients[Owner[c]]
      BY <1>1, <2>2 DEF HubExact
    <3> QED
      BY <1>1, <2>2, <3>1
  <2>3. CASE e = c
    <3>1. d \in clients[Owner[c]]
      BY <1>1, <2>3 DEF HubExact
    <3> QED
      BY <1>1, <2>3, <3>1
  <2> QED
    BY <2>1, <2>2, <2>3
<1>4. OnlineIsAttended'
  <2>1. \A u \in Users : Attended(u) => Attended(u)'
    BY <1>1 DEF Attended, Registered
  <2> QED
    BY <1>1, <2>1 DEF OnlineIsAttended
<1> QED
  BY <1>2, <1>3, <1>4

LEMMA HubRemoveStep ==
  ASSUME TypeOK, HubInv, NEW c \in Conns, HubRemove(c)
  PROVE  HubInv'
<1> USE OwnerAssumption DEF HubInv, ConnsOf, TypeOK
<1>1. /\ pc[c] = "closing"
      /\ pc' = [pc EXCEPT ![c] = IF clients[Owner[c]] = {c} THEN "leaving" ELSE "idle"]
      /\ clients' = [clients EXCEPT ![Owner[c]] = @ \ {c}]
      /\ wasOffline' = [wasOffline EXCEPT ![c] = FALSE]
      /\ UNCHANGED <<status, orphaned>>
  BY DEF HubRemove, dbVars
<1>2. HubExact'
  BY <1>1 DEF HubExact, Registered
<1>3. OneAnnouncer'
  BY <1>1 DEF OneAnnouncer, Registered
<1>4. OnlineIsAttended'
  <2> SUFFICES ASSUME NEW u \in Users, Attended(u)
               PROVE  Attended(u)'
    BY <1>1 DEF OnlineIsAttended
  <2>1. PICK d \in Conns : Owner[d] = u /\ pc[d] \in Registered \cup {"leaving"}
    BY DEF Attended
  <2>2. CASE d # c
    BY <1>1, <2>1, <2>2 DEF Attended
  <2>3. CASE d = c /\ clients[u] = {c}
    BY <1>1, <2>1, <2>3 DEF Attended
  <2>4. CASE d = c /\ clients[u] # {c}
    <3>1. c \in clients[u]
      BY <1>1, <2>1, <2>4 DEF HubExact, Registered
    <3>2. PICK e \in clients[u] : e # c
      BY <2>4, <3>1
    <3>3. e \in Conns /\ Owner[e] = u /\ pc[e] \in Registered
      BY <3>2 DEF HubExact
    <3> QED
      BY <1>1, <3>2, <3>3 DEF Attended
  <2> QED
    BY <2>2, <2>3, <2>4
<1> QED
  BY <1>2, <1>3, <1>4

LEMMA MarkOfflineStep ==
  ASSUME TypeOK, HubInv, NEW c \in Conns, MarkOffline(c)
  PROVE  HubInv'
<1> USE OwnerAssumption DEF HubInv, ConnsOf, TypeOK
<1>1. /\ pc[c] = "leaving"
      /\ pc' = [pc EXCEPT ![c] = "farewell"]
      /\ \A u \in Users \ {Owner[c]} : status'[u] = status[u]
      /\ \A u \in Users \ {Owner[c]} : u \in orphaned => u \in orphaned'
      /\ UNCHANGED <<clients, wasOffline>>
  BY DEF MarkOffline, Record, hubVars
<1>2. \A d \in Conns : pc'[d] \in Registered <=> pc[d] \in Registered
  BY <1>1 DEF Registered
<1>3. HubExact'
  BY <1>1, <1>2 DEF HubExact
<1>4. OneAnnouncer'
  BY <1>1, <1>2 DEF OneAnnouncer
<1>5. OnlineIsAttended'
  <2> SUFFICES ASSUME NEW u \in Users \ orphaned', status'[u] # "offline"
               PROVE  Attended(u)'
    BY DEF OnlineIsAttended
  <2>1. CASE u # Owner[c]
    <3>1. u \notin orphaned /\ status[u] # "offline"
      BY <1>1, <2>1
    <3>2. PICK d \in Conns : Owner[d] = u /\ pc[d] \in Registered \cup {"leaving"}
      BY <3>1 DEF OnlineIsAttended, Attended
    <3> QED
      BY <1>1, <2>1, <3>2 DEF Attended
  <2>2. CASE u = Owner[c]
    <3>1. PICK d \in ConnsOf(u) \ {c} : pc[d] \in Registered \cup {"leaving"}
      BY <2>2 DEF MarkOffline
    <3>2. pc'[d] = pc[d]
      BY <1>1, <3>1
    <3> QED
      BY <3>1, <3>2 DEF Attended
  <2> QED
    BY <2>1, <2>2
<1> QED
  BY <1>3, <1>4, <1>5

\* The hub's map is exact, a row that says online is attended or orphaned, and
\* an arrival has one announcer: in every reachable state, for any number of
\* overlapping sessions.
THEOREM HubCorrect == SafeSpec => [](HubExact /\ OnlineIsAttended /\ OneAnnouncer)
<1>1. Init => HubInv
  BY OwnerAssumption
  DEF Init, HubInv, HubExact, OnlineIsAttended, OneAnnouncer, ConnsOf, Registered
<1>2. TypeOK /\ HubInv /\ [Next]_vars => HubInv'
  <2> SUFFICES ASSUME TypeOK, HubInv, [Next]_vars PROVE HubInv'
    OBVIOUS
  <2> USE OwnerAssumption
  <2>1. ASSUME NEW u \in Users, AuthenticateREST(u) PROVE HubInv'
    BY <2>1, UpsertStep DEF AuthenticateREST, hubVars
  <2>2. ASSUME NEW c \in Conns, Connect(c) PROVE HubInv'
    <3>1. /\ pc[c] = "idle"
          /\ pc' = [pc EXCEPT ![c] = "verified"]
          /\ UNCHANGED <<clients, wasOffline>>
      BY <2>2 DEF Connect, hubVars
    <3>2. CASE UNCHANGED dbVars
      BY <3>1, <3>2, PhaseStep DEF dbVars, Phases, Registered
    <3>3. CASE Upsert(Owner[c])
      BY <3>1, <3>3, UpsertStep DEF Registered, TypeOK
    <3> QED
      BY <2>2, <3>2, <3>3 DEF Connect
  <2>3. ASSUME NEW c \in Conns, UpgradeFails(c) PROVE HubInv'
    BY <2>3, PhaseStep DEF UpgradeFails, hubVars, dbVars, Phases, Registered
  <2>4. ASSUME NEW c \in Conns, HubAdd(c) PROVE HubInv'
    BY <2>4, HubAddStep
  <2>5. ASSUME NEW c \in Conns, MarkOnline(c) PROVE HubInv'
    BY <2>5, PhaseStep DEF MarkOnline, Record, hubVars, Phases, Registered, TypeOK
  <2>6. ASSUME NEW c \in Conns, Greet(c) PROVE HubInv'
    <3>1. PICK p \in {"announcing", "reading"} : pc' = [pc EXCEPT ![c] = p]
      BY <2>6 DEF Greet
    <3> QED
      BY <2>6, <3>1, PhaseStep DEF Greet, hubVars, dbVars, Phases, Registered
  <2>7. ASSUME NEW c \in Conns, EndBroadcast(c) PROVE HubInv'
    <3>1. PICK p \in {"idle", "reading"} :
            /\ pc' = [pc EXCEPT ![c] = p]
            /\ p \in Registered <=> pc[c] \in Registered
      BY <2>7 DEF EndBroadcast, Registered, Broadcasting
    <3>2. pc[c] # "leaving"
      BY <2>7 DEF EndBroadcast, Broadcasting
    <3> QED
      BY <2>7, <3>1, <3>2, PhaseStep
      DEF EndBroadcast, hubVars, dbVars, Phases, Registered
  <2>8. ASSUME NEW c \in Conns, NEW v \in Values, ReadStatus(c, v) PROVE HubInv'
    BY <2>8, PhaseStep DEF ReadStatus, Record, hubVars, Phases, Registered, TypeOK
  <2>9. ASSUME NEW c \in Conns, ReadFails(c) PROVE HubInv'
    BY <2>9, PhaseStep DEF ReadFails, hubVars, dbVars, Phases, Registered
  <2>10. ASSUME NEW c \in Conns, HubRemove(c) PROVE HubInv'
    BY <2>10, HubRemoveStep
  <2>11. ASSUME NEW c \in Conns, MarkOffline(c) PROVE HubInv'
    BY <2>11, MarkOfflineStep
  <2>12. CASE Restart
    BY <2>12
    DEF Restart, HubInv, HubExact, OnlineIsAttended, OneAnnouncer, ConnsOf, Registered
  <2>13. CASE UNCHANGED <<hubVars, status, orphaned, pc>>
    BY <2>13
    DEF hubVars, HubInv, HubExact, OnlineIsAttended, OneAnnouncer,
        Attended, ConnsOf
  <2>14. ASSUME \/ \E u \in Users : Kick(u)
                \/ \E c \in Conns : KickClose(c) \/ Disconnect(c) \/ ReadFriends(c)
                \/ \E c \in Conns, f \in Users : Snapshot(c, f)
                \/ \E c \in Conns, d \in Conns : Push(c, d)
                \/ \E r \in Accepts : Acceptance(r)
                \/ UNCHANGED vars
         PROVE  UNCHANGED <<hubVars, status, orphaned, pc>>
    BY <2>14, AcceptanceFrame
    DEF Kick, KickClose, Disconnect, ReadFriends, Snapshot, Push, vars, dbVars
  <2> QED
    BY <2>1, <2>2, <2>3, <2>4, <2>5, <2>6, <2>7, <2>8, <2>9, <2>10, <2>11,
       <2>12, <2>13, <2>14
    DEF Next, Handler, Broadcast
<1>3. HubInv => HubExact /\ OnlineIsAttended /\ OneAnnouncer
  BY DEF HubInv
<1> QED
  BY <1>1, <1>2, <1>3, TypeCorrect, PTL DEF SafeSpec

-----------------------------------------------------------------------------
(***************************************************************************)
(* With one session per user the database does not err on the other side   *)
(* either.  The step that breaks this when sessions overlap is MarkOffline *)
(* of one session after MarkOnline of the next.                            *)
(***************************************************************************)

\* A recorded session's user is never "offline" in the database, provided the
\* sessions of a user do not overlap and the recording did not fail.
THEOREM RecordedOnline == SafeSpec => []RecordedIsOnline
<1> DEFINE Recorded == Registered \ {"added"}
<1>1. Init => RecordedIsOnline
  BY DEF Init, RecordedIsOnline, Registered
<1>2. TypeOK /\ RecordedIsOnline /\ [Next]_vars => RecordedIsOnline'
  <2> SUFFICES ASSUME TypeOK, RecordedIsOnline, [Next]_vars, OneSessionEach,
                      NEW c \in Conns, pc'[c] \in Recorded,
                      Owner[c] \notin unannounced'
               PROVE  status'[Owner[c]] # "offline"
    BY DEF RecordedIsOnline, OneSessionEach
  <2> USE OwnerAssumption, ValuesAssumption DEF TypeOK, Registered
  <2>1. ASSUME pc[c] \in Recorded, status'[Owner[c]] = status[Owner[c]],
               Owner[c] \notin unannounced
        PROVE  status'[Owner[c]] # "offline"
    BY <2>1 DEF RecordedIsOnline
  <2>2. ASSUME NEW d \in Conns, MarkOffline(d)
        PROVE  status'[Owner[c]] # "offline"
    <3>1. d # c
      BY <2>2 DEF MarkOffline
    <3>2. Owner[d] # Owner[c]
      BY <3>1 DEF OneSessionEach
    <3> QED
      BY <2>1, <2>2, <3>1, <3>2 DEF MarkOffline, Record
  <2>3. ASSUME NEW d \in Conns, MarkOnline(d)
        PROVE  status'[Owner[c]] # "offline"
    <3>1. CASE Owner[d] = Owner[c]
      BY <2>3, <3>1 DEF MarkOnline, Record
    <3>2. CASE Owner[d] # Owner[c]
      BY <2>1, <2>3, <3>2 DEF MarkOnline, Record
    <3> QED
      BY <3>1, <3>2
  <2>4. ASSUME NEW d \in Conns, NEW v \in Values, ReadStatus(d, v)
        PROVE  status'[Owner[c]] # "offline"
    <3>1. CASE Owner[d] = Owner[c]
      BY <2>4, <3>1 DEF ReadStatus, Record
    <3>2. CASE Owner[d] # Owner[c]
      BY <2>1, <2>4, <3>2 DEF ReadStatus, Record
    <3> QED
      BY <3>1, <3>2
  <2>5. ASSUME NEW v \in Users, Upsert(v), pc[c] \in Recorded
        PROVE  status'[Owner[c]] # "offline"
    BY <2>1, <2>5 DEF Upsert
  <2>6. ASSUME NEW v \in Users, AuthenticateREST(v)
        PROVE  status'[Owner[c]] # "offline"
    BY <2>5, <2>6 DEF AuthenticateREST
  <2>7. ASSUME NEW d \in Conns, Connect(d)
        PROVE  status'[Owner[c]] # "offline"
    <3>1. pc[c] \in Recorded
      BY <2>7 DEF Connect
    <3> QED
      BY <2>1, <2>5, <2>7, <3>1 DEF Connect, dbVars
  <2>8. ASSUME NEW d \in Conns,
               \/ UpgradeFails(d) \/ HubAdd(d) \/ Greet(d) \/ EndBroadcast(d)
               \/ ReadFails(d) \/ HubRemove(d)
        PROVE  status'[Owner[c]] # "offline"
    <3>1. pc[c] \in Recorded /\ UNCHANGED <<status, unannounced>>
      BY <2>8
      DEF UpgradeFails, HubAdd, Greet, EndBroadcast, ReadFails, HubRemove,
          Broadcasting, dbVars
    <3> QED
      BY <2>1, <3>1
  <2>9. ASSUME \/ \E u \in Users : Kick(u)
               \/ \E d \in Conns : KickClose(d) \/ Disconnect(d) \/ ReadFriends(d)
               \/ \E d \in Conns, f \in Users : Snapshot(d, f)
               \/ \E d \in Conns, e \in Conns : Push(d, e)
               \/ \E r \in Accepts : Acceptance(r)
               \/ UNCHANGED vars
        PROVE  status'[Owner[c]] # "offline"
    <3>1. UNCHANGED <<pc, status>> /\ unannounced \subseteq unannounced'
      BY <2>9, AcceptanceFrame
      DEF Kick, KickClose, Disconnect, ReadFriends, Snapshot, Push, vars, dbVars
    <3> QED
      BY <2>1, <3>1
  <2>10. CASE Restart
    BY <2>10 DEF Restart
  <2> QED
    BY <2>2, <2>3, <2>4, <2>6, <2>7, <2>8, <2>9, <2>10
    DEF Next, Handler, Broadcast
<1> QED
  BY <1>1, <1>2, TypeCorrect, PTL DEF SafeSpec

-----------------------------------------------------------------------------
(***************************************************************************)
(* Refinement.  HubAdd of the first session is Rise, HubRemove of the last *)
(* one is Fall, the end of the broadcast each of them owes is Announced,   *)
(* Restart is Halt, and everything else is a stutter.                      *)
(***************************************************************************)
LEMMA EdgesInit == Init => Edges!Init
BY OwnerAssumption DEF Init, Edges!Init, Duty

\* A step that leaves the map, the phases and wasOffline alone
LEMMA EdgesQuiet ==
  ASSUME UNCHANGED <<clients, wasOffline, pc>>
  PROVE  UNCHANGED Edges!vars
BY DEF Edges!vars, Duty

\* A step of one handler that leaves the map alone
LEMMA EdgesPhase ==
  ASSUME TypeOK, NEW c \in Conns, NEW p \in Phases,
         UNCHANGED <<clients, wasOffline>>,
         pc' = [pc EXCEPT ![c] = p]
  PROVE  /\ Duty(c)' = Duty(c) => UNCHANGED Edges!vars
         /\ Duty(c) # "none" /\ Duty(c)' = "none" => Edges!Announced(c)
<1>1. \A d \in Conns \ {c} : Duty(d)' = Duty(d)
  BY DEF Duty, TypeOK
<1>2. UNCHANGED {u \in Users : clients[u] # {}}
  OBVIOUS
<1>3. ASSUME Duty(c)' = Duty(c) PROVE UNCHANGED Edges!vars
  BY <1>1, <1>2, <1>3 DEF Edges!vars
<1>4. ASSUME Duty(c) # "none", Duty(c)' = "none" PROVE Edges!Announced(c)
  BY <1>1, <1>2, <1>4 DEF Edges!Announced
<1> QED
  BY <1>3, <1>4

LEMMA EdgesAdd ==
  ASSUME TypeOK, NEW c \in Conns, HubAdd(c)
  PROVE  [Edges!Next]_(Edges!vars)
<1> DEFINE u == Owner[c]
<1> USE OwnerAssumption DEF TypeOK
<1>1. /\ pc[c] = "verified"
      /\ pc' = [pc EXCEPT ![c] = "added"]
      /\ clients' = [clients EXCEPT ![u] = @ \cup {c}]
      /\ wasOffline' = [wasOffline EXCEPT ![c] = clients[u] = {}]
  BY DEF HubAdd
<1>2. \A d \in Conns \ {c} : Duty(d)' = Duty(d)
  BY <1>1 DEF Duty
<1>3. Duty(c) = "none"
  BY <1>1 DEF Duty
<1>4. {v \in Users : clients'[v] # {}} = {v \in Users : clients[v] # {}} \cup {u}
  <2>1. u \in Users /\ clients'[u] = clients[u] \cup {c}
    BY <1>1
  <2>2. \A v \in Users \ {u} : clients'[v] = clients[v]
    BY <1>1
  <2>3. clients'[u] # {}
    BY <2>1
  <2> HIDE DEF u
  <2> QED
    BY <2>1, <2>2, <2>3
<1>5. CASE clients[u] = {}
  <2>1. Duty(c)' = "up"
    BY <1>1, <1>5 DEF Duty
  <2>2. Edges!Rise(c)
    BY <1>2, <1>3, <1>4, <1>5, <2>1 DEF Edges!Rise
  <2> QED
    BY <2>2 DEF Edges!Next
<1>6. CASE clients[u] # {}
  <2>1. Duty(c)' = "none"
    BY <1>1, <1>6 DEF Duty
  <2>2. UNCHANGED Edges!vars
    BY <1>2, <1>3, <1>4, <1>6, <2>1 DEF Edges!vars
  <2> QED
    BY <2>2
<1> QED
  BY <1>5, <1>6

LEMMA EdgesRemove ==
  ASSUME TypeOK, HubExact, NEW c \in Conns, HubRemove(c)
  PROVE  [Edges!Next]_(Edges!vars)
<1> DEFINE u == Owner[c]
<1> USE OwnerAssumption DEF TypeOK
<1>1. /\ pc[c] = "closing"
      /\ pc' = [pc EXCEPT ![c] = IF clients[u] = {c} THEN "leaving" ELSE "idle"]
      /\ clients' = [clients EXCEPT ![u] = @ \ {c}]
      /\ wasOffline' = [wasOffline EXCEPT ![c] = FALSE]
  BY DEF HubRemove
<1>2. \A d \in Conns \ {c} : Duty(d)' = Duty(d)
  BY <1>1 DEF Duty
<1>3. Duty(c) = "none"
  BY <1>1 DEF Duty
<1>4. c \in clients[u]
  BY <1>1 DEF HubExact, ConnsOf, Registered
<1>5. CASE clients[u] = {c}
  <2>1. Duty(c)' = "down"
    BY <1>1, <1>5 DEF Duty
  <2>2. {v \in Users : clients'[v] # {}} = {v \in Users : clients[v] # {}} \ {u}
    BY <1>1, <1>5
  <2>3. Edges!Fall(c)
    BY <1>2, <1>3, <1>4, <2>1, <2>2 DEF Edges!Fall
  <2> QED
    BY <2>3 DEF Edges!Next
<1>6. CASE clients[u] # {c}
  <2>1. Duty(c)' = "none"
    BY <1>1, <1>6 DEF Duty
  <2>2. {v \in Users : clients'[v] # {}} = {v \in Users : clients[v] # {}}
    BY <1>1, <1>4, <1>6
  <2>3. UNCHANGED Edges!vars
    BY <1>2, <1>3, <2>1, <2>2 DEF Edges!vars
  <2> QED
    BY <2>3
<1> QED
  BY <1>5, <1>6

\* Every behaviour of the hub and its handlers is, through the mapping, one of
\* PresenceEdges: each rise and fall of a user leaves one handler owing its
\* announcement, for any number of overlapping sessions.
THEOREM EdgesRefined == SafeSpec => ImplementsEdges
<1>1. TypeOK /\ HubExact /\ [Next]_vars => [Edges!Next]_(Edges!vars)
  <2> SUFFICES ASSUME TypeOK, HubExact, [Next]_vars
               PROVE  [Edges!Next]_(Edges!vars)
    OBVIOUS
  <2>1. ASSUME NEW c \in Conns, Connect(c) \/ UpgradeFails(c)
        PROVE  UNCHANGED Edges!vars
    BY <2>1, EdgesPhase DEF Connect, UpgradeFails, hubVars, Phases, Duty, TypeOK
  <2>2. ASSUME NEW c \in Conns, HubAdd(c) PROVE [Edges!Next]_(Edges!vars)
    BY <2>2, EdgesAdd
  <2>3. ASSUME NEW c \in Conns, MarkOnline(c) \/ ReadFails(c)
        PROVE  UNCHANGED Edges!vars
    <3>1. CASE MarkOnline(c)
      <4>1. pc' = [pc EXCEPT ![c] = "greeting"] /\ UNCHANGED <<clients, wasOffline>>
        BY <3>1 DEF MarkOnline, hubVars
      <4>2. Duty(c)' = Duty(c)
        BY <3>1, <4>1 DEF MarkOnline, Duty, TypeOK
      <4> QED
        BY <4>1, <4>2, EdgesPhase DEF Phases, Registered
    <3>2. CASE ReadFails(c)
      <4>1. pc' = [pc EXCEPT ![c] = "closing"] /\ UNCHANGED <<clients, wasOffline>>
        BY <3>2 DEF ReadFails, hubVars
      <4>2. Duty(c)' = Duty(c)
        BY <3>2, <4>1 DEF ReadFails, Duty, TypeOK
      <4> QED
        BY <4>1, <4>2, EdgesPhase DEF Phases, Registered
    <3> QED
      BY <2>3, <3>1, <3>2
  <2>4. ASSUME NEW c \in Conns, Greet(c) PROVE UNCHANGED Edges!vars
    BY <2>4, EdgesPhase DEF Greet, hubVars, Phases, Registered, Duty, TypeOK
  <2>5. ASSUME NEW c \in Conns, NEW v \in Values, ReadStatus(c, v)
        PROVE  UNCHANGED Edges!vars
    BY <2>5, EdgesPhase DEF ReadStatus, hubVars, Phases, Registered, Duty, TypeOK
  <2>6. ASSUME NEW c \in Conns, EndBroadcast(c) PROVE [Edges!Next]_(Edges!vars)
    <3>1. PICK p \in {"idle", "reading"} : pc' = [pc EXCEPT ![c] = p]
      BY <2>6 DEF EndBroadcast
    <3>2. Duty(c)' = "none"
      BY <3>1 DEF Duty, TypeOK
    <3>3. CASE Duty(c) = "none"
      BY <2>6, <3>1, <3>2, <3>3, EdgesPhase
      DEF EndBroadcast, hubVars, Phases, Registered
    <3>4. CASE Duty(c) # "none"
      BY <2>6, <3>1, <3>2, <3>4, EdgesPhase
      DEF EndBroadcast, hubVars, Phases, Registered, Edges!Next
    <3> QED
      BY <3>3, <3>4
  <2>7. ASSUME NEW c \in Conns, HubRemove(c) PROVE [Edges!Next]_(Edges!vars)
    BY <2>7, EdgesRemove
  <2>8. ASSUME NEW c \in Conns, MarkOffline(c) PROVE UNCHANGED Edges!vars
    BY <2>8, EdgesPhase DEF MarkOffline, hubVars, Phases, Registered, Duty, TypeOK
  <2>9. CASE Restart
    <3>1. \A c \in Conns : pc'[c] = "idle"
      BY <2>9 DEF Restart
    <3>2. \A c \in Conns : Duty(c)' = "none"
      BY <3>1 DEF Duty
    <3>3. {u \in Users : clients'[u] # {}} = {}
      BY <2>9 DEF Restart
    <3>4. Edges!Halt
      BY <3>2, <3>3 DEF Edges!Halt
    <3> QED
      BY <3>4 DEF Edges!Next
  <2>10. ASSUME \/ \E u \in Users : AuthenticateREST(u) \/ Kick(u)
                \/ \E c \in Conns : KickClose(c) \/ Disconnect(c) \/ ReadFriends(c)
                \/ \E c \in Conns, f \in Users : Snapshot(c, f)
                \/ \E c \in Conns, d \in Conns : Push(c, d)
                \/ \E r \in Accepts : Acceptance(r)
                \/ UNCHANGED vars
         PROVE  UNCHANGED Edges!vars
    <3>1. UNCHANGED <<clients, wasOffline, pc>>
      BY <2>10, AcceptanceFrame
      DEF AuthenticateREST, Kick, KickClose, Disconnect, ReadFriends, Snapshot,
          Push, vars, hubVars
    <3> QED
      BY <3>1, EdgesQuiet
  <2> QED
    BY <2>1, <2>2, <2>3, <2>4, <2>5, <2>6, <2>7, <2>8, <2>9, <2>10
    DEF Next, Handler, Broadcast
<1> QED
  BY <1>1, EdgesInit, TypeCorrect, HubCorrect, PTL
  DEF SafeSpec, ImplementsEdges, Edges!SafeSpec
-----------------------------------------------------------------------------
(***************************************************************************)
(* What a watcher was last told.  The invariant is that the last frame     *)
(* about u that a connection was sent says what u's row says, or that u's  *)
(* handler still owes the connection a frame (Owes).  For it to survive, a *)
(* status broadcast must reach everyone who was ever told anything         *)
(* (AmongFriends), an arriving session must start from nothing (Fresh),    *)
(* what a handler says must be what it wrote (Saying), and what an         *)
(* acceptance has read must be the row, or be followed by the broadcast of *)
(* the row that replaced it (Reading).                                     *)
(***************************************************************************)

\* The handler of c has yet to look up the connections of f.
OwesTo(c, f) ==
  \/ pc[c] = "greeting"
  \/ pc[c] \in Broadcasting /\ (~asked[c] \/ f \in todo[c])

\* The handler of c has yet to send d's client the status of c's user.
Owes(c, d) == OwesTo(c, Owner[d]) \/ d \in targets[c]

Heard(d, u) == told[d][u] \notin {Nothing, Dropped}

Asking == \A c \in Conns : asked[c] => pc[c] \in Broadcasting

AmongFriends ==
  /\ \A c \in Conns : todo[c] \subseteq friends[Owner[c]]
  /\ \A c, d \in Conns :
       d \in targets[c] => Owner[d] \in friends[Owner[c]] /\ pc[c] \in Broadcasting
  /\ \A d \in Conns, u \in Users : Heard(d, u) => Owner[d] \in friends[u]

\* Who is told by an acceptance is a friend already.
Accepted(a) ==
  a.step \in {"check", "read", "notify", "push"} =>
    a.to \in friends[a.about] /\ a.about \in friends[a.to]

Introduced ==
  \A r \in Accepts :
    /\ Accepted(accept[r])
    /\ \A d \in left[r] : accept[r].step = "push" /\ Owner[d] = accept[r].to

Fresh ==
  \A d \in Conns : pc[d] = "verified" =>
    /\ told[d] = NothingTold
    /\ \A c \in Conns : d \notin targets[c]
    /\ \A r \in Accepts : d \notin left[r]

Saying ==
  \A c \in Conns :
    /\ pc[c] \in {"added", "greeting", "announcing"} => wasOffline[c]
    /\ Owner[c] \notin unannounced =>
         /\ pc[c] \in Broadcasting => say[c] = status[Owner[c]]
         /\ pc[c] = "greeting" => status[Owner[c]] = "online"

\* What r has read of u's row is what the row says, or will be replaced.
Current(r, u) ==
  \/ accept[r].read = status[u]
  \/ \E c \in Conns : Owner[c] = u /\ OwesTo(c, accept[r].to)

Reading ==
  \A r \in Accepts :
    /\ accept[r].step \in {"notify", "push"}
    /\ r \notin overtaken
    /\ accept[r].about \notin unannounced
    => Current(r, accept[r].about)

Watching ==
  \A u \in Users, d \in Conns :
    /\ pc[d] \in Registered
    /\ u \notin unannounced /\ <<d, u>> \notin outdated
    /\ Heard(d, u)
    => told[d][u] = status[u] \/ \E c \in Conns : Owner[c] = u /\ Owes(c, d)

Parts == Asking /\ AmongFriends /\ Introduced /\ Fresh /\ Saying /\ Reading /\ Watching
WInv == OneSessionEach => Parts

\* Steps that touch neither broadcasts, nor acceptances, nor what clients are
\* told
Elsewhere ==
  \/ \E u \in Users : AuthenticateREST(u) \/ Kick(u)
  \/ \E c \in Conns : KickClose(c) \/ Disconnect(c)
  \/ UNCHANGED vars

LEMMA ElsewhereStep ==
  ASSUME Elsewhere
  PROVE  UNCHANGED <<hubVars, pc, bcVars, told, friendVars>>
BY DEF Elsewhere, AuthenticateREST, Kick, KickClose, Disconnect, vars, netVars

\* Steps of one handler that move it, and tell nobody anything
Moves(c) == UpgradeFails(c) \/ HubAdd(c) \/ MarkOnline(c) \/ HubRemove(c)

LEMMA MovesStep ==
  ASSUME TypeOK, NEW c \in Conns, Moves(c)
  PROVE  /\ UNCHANGED <<bcVars, told, friendVars>>
         /\ pc' = [pc EXCEPT ![c] = pc'[c]]
         /\ \/ pc[c] = "verified" /\ pc'[c] \in {"idle", "added"}
            \/ pc[c] = "added" /\ pc'[c] = "greeting"
            \/ pc[c] = "closing" /\ pc'[c] \in {"idle", "leaving"}
BY DEF Moves, UpgradeFails, HubAdd, MarkOnline, HubRemove, netVars, TypeOK

\* Steps that begin a broadcast
Starts(c) == Greet(c) \/ MarkOffline(c) \/ \E v \in Values : ReadStatus(c, v)

LEMMA StartsStep ==
  ASSUME TypeOK, NEW c \in Conns, Starts(c)
  PROVE  /\ UNCHANGED <<asked, todo, targets, told, friendVars>>
         /\ pc' = [pc EXCEPT ![c] = pc'[c]]
         /\ \/ /\ pc[c] = "greeting"
               /\ pc'[c] = IF wasOffline[c] THEN "announcing" ELSE "reading"
            \/ pc[c] = "leaving" /\ pc'[c] = "farewell"
            \/ pc[c] = "reading" /\ pc'[c] = "relaying"
<1>1. CASE Greet(c)
  BY <1>1 DEF Greet, StartBroadcast, bcVars, netVars, TypeOK
<1>2. CASE MarkOffline(c)
  BY <1>2 DEF MarkOffline, StartBroadcast, netVars, TypeOK
<1>3. CASE \E v \in Values : ReadStatus(c, v)
  BY <1>3 DEF ReadStatus, StartBroadcast, netVars, TypeOK
<1> QED
  BY <1>1, <1>2, <1>3 DEF Starts

\* A send changes what one connection was last told of one user.
LEMMA SendStep ==
  ASSUME TypeOK, NEW d \in Conns, NEW u \in Users, NEW st, WriteJSON(d, u, st)
  PROVE  /\ told'[d][u] \in {st, Dropped}
         /\ \A e \in Conns, v \in Users : e # d \/ v # u => told'[e][v] = told[e][v]
         /\ \A e \in Conns : e # d => told'[e] = told[e]
BY DEF WriteJSON, TypeOK

LEMMA TurnFacts ==
  ASSUME NEW a \in Accepting
  PROVE  /\ Turn(a).step \in {"check", "answered"}
         /\ Turn(a).step = "check" => Turn(a).about = a.to /\ Turn(a).to = a.about
BY DEF Turn, Answered

LEMMA FriendsGrow ==
  ASSUME TypeOK, [Next]_vars
  PROVE  \A u \in Users : friends[u] \subseteq friends'[u]
<1>1. ASSUME NEW r \in Accepts, NEW other \in Users, AcceptFriend(r, other)
      PROVE  \A u \in Users : friends[u] \subseteq friends'[u]
  BY <1>1, AccepterAssumption DEF AcceptFriend, TypeOK
<1>2. ASSUME Next, \A r \in Accepts, other \in Users : ~AcceptFriend(r, other)
      PROVE  UNCHANGED friends
  BY <1>2
  DEF Next, Handler, Broadcast, Acceptance, AuthenticateREST, Kick, Connect,
      UpgradeFails, ReadStatus, Disconnect, KickClose, HubAdd, MarkOnline, Greet,
      ReadFriends, Snapshot, Push, EndBroadcast, ReadFails, HubRemove, MarkOffline,
      CheckOnline, ReadRow, SnapshotFriend, PushFriend, EndPush, Restart, friendVars
<1> QED
  BY <1>1, <1>2 DEF vars, friendVars

\* Only a broadcast looks friends up, once.
LEMMA AskingKept ==
  ASSUME TypeOK, Asking, [Next]_vars
  PROVE  Asking'
<1> USE DEF TypeOK
<1>1. ASSUME UNCHANGED asked,
             \A c \in Conns : pc[c] \in Broadcasting => pc'[c] \in Broadcasting
      PROVE  Asking'
  BY <1>1 DEF Asking
<1>2. CASE Elsewhere
  BY <1>1, <1>2, ElsewhereStep DEF bcVars
<1>3. ASSUME NEW c \in Conns, Moves(c) PROVE Asking'
  BY <1>1, <1>3, MovesStep DEF bcVars, Broadcasting
<1>4. ASSUME NEW c \in Conns, Starts(c) PROVE Asking'
  BY <1>1, <1>4, StartsStep DEF Broadcasting
<1>5. ASSUME NEW c \in Conns, Connect(c) \/ ReadFails(c) PROVE Asking'
  BY <1>1, <1>5 DEF Connect, ReadFails, bcVars, Broadcasting
<1>6. ASSUME NEW c \in Conns, ReadFriends(c) PROVE Asking'
  BY <1>6 DEF ReadFriends, Asking
<1>7. ASSUME NEW c \in Conns,
             \/ \E f \in Users : Snapshot(c, f)
             \/ \E d \in Conns : Push(c, d)
      PROVE  Asking'
  BY <1>1, <1>7 DEF Snapshot, Push
<1>8. ASSUME NEW c \in Conns, EndBroadcast(c) PROVE Asking'
  BY <1>8 DEF EndBroadcast, Asking
<1>9. ASSUME NEW r \in Accepts, Acceptance(r) PROVE Asking'
  BY <1>1, <1>9, AcceptanceFrame DEF bcVars
<1>10. CASE Restart
  BY <1>10 DEF Restart, Asking
<1> QED
  BY <1>2, <1>3, <1>4, <1>5, <1>6, <1>7, <1>8, <1>9, <1>10
  DEF Next, Handler, Broadcast, Elsewhere, Moves, Starts

\* Acceptances under way are of friends, and tell the one the status of the
\* other.
LEMMA IntroducedKept ==
  ASSUME TypeOK, HubExact, Introduced, [Next]_vars
  PROVE  Introduced'
<1> USE DEF TypeOK
<1>1. ASSUME NEW a \in Accepting, Accepted(a) PROVE Accepted(a)'
  BY <1>1, FriendsGrow DEF Accepted, Accepting
<1>2. ASSUME NEW r \in Accepts, Accepted(accept[r]), accept'[r] = accept[r]
      PROVE  Accepted(accept[r])'
  <2>1. CASE accept[r] \in Accepting
    BY <1>1, <1>2, <2>1 DEF Accepted
  <2>2. CASE accept[r] \in {Idle, Answered}
    BY <1>2, <2>2 DEF Accepted, Idle, Answered
  <2> QED
    BY <2>1, <2>2
<1>3. ASSUME UNCHANGED <<accept, left>> PROVE Introduced'
  BY <1>2, <1>3 DEF Introduced
<1>4. ASSUME NEW r \in Accepts,
             \A q \in Accepts \ {r} : accept'[q] = accept[q] /\ left'[q] = left[q],
             Accepted(accept[r])',
             \A d \in left'[r] : accept'[r].step = "push" /\ Owner[d] = accept'[r].to
      PROVE  Introduced'
  BY <1>2, <1>4 DEF Introduced
<1>5. ASSUME NEW r \in Accepts, NEW other \in Users, AcceptFriend(r, other)
      PROVE  Introduced'
  <2> DEFINE me == Accepter[r]
             a == [step |-> "check", about |-> me, to |-> other, last |-> FALSE,
                   read |-> "offline"]
  <2>1. me \in Users /\ accept[r] = Idle
    BY <1>5, AccepterAssumption DEF AcceptFriend
  <2>2. left[r] = {}
    BY <2>1 DEF Introduced, Idle
  <2>3. /\ other \in friends'[me] /\ me \in friends'[other]
        /\ accept' = [accept EXCEPT ![r] = a] /\ UNCHANGED left
    BY <1>5, <2>1 DEF AcceptFriend
  <2>4. accept'[r] = a
    BY <2>3
  <2>5. Accepted(accept[r])'
    BY <2>3, <2>4 DEF Accepted
  <2> QED
    BY <1>4, <2>2, <2>3, <2>5
<1>6. ASSUME NEW r \in Accepts, NEW b, UNCHANGED left, left[r] = {},
             accept' = [accept EXCEPT ![r] = b],
             \/ b = Turn(accept[r])
             \/ b.step \in {"read", "notify"} /\ b.about = accept[r].about
                                              /\ b.to = accept[r].to,
             accept[r].step \in {"check", "read", "push"}
      PROVE  Introduced'
  <2>1. /\ accept[r] \in Accepting /\ accept[r].about \in Users /\ accept[r].to \in Users
        /\ accept'[r] = b
    BY <1>6, AcceptingType
  <2>2. accept[r].to \in friends'[accept[r].about]
        /\ accept[r].about \in friends'[accept[r].to]
    BY <1>6, <2>1, FriendsGrow DEF Introduced, Accepted
  <2>3. Accepted(accept[r])'
    BY <1>6, <2>1, <2>2, TurnFacts DEF Accepted
  <2> QED
    BY <1>4, <1>6, <2>3
<1>7. ASSUME NEW r \in Accepts, CheckOnline(r) PROVE Introduced'
  <2>1. accept[r] \in Accepting /\ left[r] = {}
    BY <1>7, AcceptingType DEF CheckOnline, Introduced
  <2>2. PICK b \in {Turn(accept[r]), [accept[r] EXCEPT !.step = "read"]} :
               accept' = [accept EXCEPT ![r] = b]
    BY <1>7 DEF CheckOnline
  <2>3. \/ b = Turn(accept[r])
        \/ b.step \in {"read", "notify"} /\ b.about = accept[r].about
                                         /\ b.to = accept[r].to
    BY <2>1, <2>2 DEF Accepting
  <2> QED
    BY <1>6, <1>7, <2>1, <2>2, <2>3 DEF CheckOnline
<1>8. ASSUME NEW r \in Accepts, ReadRow(r) PROVE Introduced'
  <2>1. accept[r] \in Accepting /\ left[r] = {}
    BY <1>8, AcceptingType DEF ReadRow, Introduced
  <2>2. PICK b \in {Turn(accept[r]),
                    [accept[r] EXCEPT !.step = "notify",
                                      !.read = status[accept[r].about]]} :
               accept' = [accept EXCEPT ![r] = b]
    BY <1>8 DEF ReadRow
  <2>3. \/ b = Turn(accept[r])
        \/ b.step \in {"read", "notify"} /\ b.about = accept[r].about
                                         /\ b.to = accept[r].to
    BY <2>1, <2>2 DEF Accepting
  <2> QED
    BY <1>6, <1>8, <2>1, <2>2, <2>3 DEF ReadRow
<1>9. ASSUME NEW r \in Accepts, SnapshotFriend(r) PROVE Introduced'
  <2> DEFINE b == [accept[r] EXCEPT !.step = "push"]
  <2>1. accept[r] \in Accepting /\ accept[r].about \in Users /\ accept[r].to \in Users
    BY <1>9, AcceptingType DEF SnapshotFriend
  <2>2. /\ accept' = [accept EXCEPT ![r] = b]
        /\ left' = [left EXCEPT ![r] = clients[accept[r].to]]
    BY <1>9 DEF SnapshotFriend
  <2>3. b.step = "push" /\ b.about = accept[r].about /\ b.to = accept[r].to
    BY <2>1 DEF Accepting
  <2>4. accept[r].to \in friends'[accept[r].about]
        /\ accept[r].about \in friends'[accept[r].to]
    BY <1>9, <2>1, FriendsGrow DEF SnapshotFriend, Introduced, Accepted
  <2> HIDE DEF b
  <2>5. accept'[r] = b
    BY <2>2
  <2>6. Accepted(accept[r])'
    BY <2>3, <2>4, <2>5 DEF Accepted
  <2>7. \A d \in left'[r] : Owner[d] = accept[r].to
    BY <2>1, <2>2 DEF HubExact, ConnsOf
  <2> QED
    BY <1>4, <2>2, <2>3, <2>5, <2>6, <2>7
<1>10. ASSUME NEW r \in Accepts, NEW d \in Conns, PushFriend(r, d) PROVE Introduced'
  <2>1. UNCHANGED accept /\ left' = [left EXCEPT ![r] = @ \ {d}]
    BY <1>10 DEF PushFriend
  <2>2. Accepted(accept[r])'
    BY <1>2, <2>1 DEF Introduced
  <2> QED
    BY <1>4, <2>1, <2>2 DEF Introduced
<1>11. ASSUME NEW r \in Accepts, EndPush(r) PROVE Introduced'
  BY <1>6, <1>11 DEF EndPush
<1>12. CASE Elsewhere
  BY <1>3, <1>12, ElsewhereStep DEF friendVars
<1>13. ASSUME NEW c \in Conns, Moves(c) PROVE Introduced'
  BY <1>3, <1>13, MovesStep DEF friendVars
<1>14. ASSUME NEW c \in Conns, Starts(c) PROVE Introduced'
  BY <1>3, <1>14, StartsStep DEF friendVars
<1>15. ASSUME NEW c \in Conns,
              \/ Connect(c) \/ ReadFails(c) \/ ReadFriends(c) \/ EndBroadcast(c)
              \/ \E f \in Users : Snapshot(c, f)
              \/ \E d \in Conns : Push(c, d)
       PROVE  Introduced'
  BY <1>3, <1>15
  DEF Connect, ReadFails, ReadFriends, EndBroadcast, Snapshot, Push, friendVars
<1>16. CASE Restart
  BY <1>16 DEF Restart, Introduced, Accepted, Idle
<1> QED
  BY <1>5, <1>7, <1>8, <1>9, <1>10, <1>11, <1>12, <1>13, <1>14, <1>15, <1>16
  DEF Next, Handler, Broadcast, Acceptance, Elsewhere, Moves, Starts

\* A broadcast is owed to friends only, and only friends ever hear of a user.
LEMMA AmongFriendsKept ==
  ASSUME TypeOK, HubExact, Asking, AmongFriends, Introduced, [Next]_vars
  PROVE  AmongFriends'
<1> USE OwnerAssumption DEF TypeOK
<1>1. \A u \in Users : friends[u] \subseteq friends'[u]
  BY FriendsGrow
<1>2. ASSUME UNCHANGED <<todo, targets>>,
             \A c \in Conns : targets[c] # {} /\ pc[c] \in Broadcasting
                                => pc'[c] \in Broadcasting,
             \A d \in Conns, u \in Users : Heard(d, u)' =>
               Heard(d, u) \/ Owner[d] \in friends[u]
      PROVE  AmongFriends'
  BY <1>1, <1>2 DEF AmongFriends
<1>3. ASSUME UNCHANGED told
      PROVE  \A d \in Conns, u \in Users : Heard(d, u)' => Heard(d, u)
  BY <1>3 DEF Heard
<1>4. ASSUME NEW c \in Conns, told' = [told EXCEPT ![c] = NothingTold]
      PROVE  \A d \in Conns, u \in Users : Heard(d, u)' => Heard(d, u)
  BY <1>4 DEF Heard, NothingTold
<1>5. CASE Elsewhere
  BY <1>2, <1>3, <1>5, ElsewhereStep DEF bcVars
<1>6. ASSUME NEW c \in Conns, Moves(c) PROVE AmongFriends'
  BY <1>2, <1>3, <1>6, MovesStep DEF bcVars, Broadcasting
<1>7. ASSUME NEW c \in Conns, Starts(c) PROVE AmongFriends'
  BY <1>2, <1>3, <1>7, StartsStep DEF Broadcasting
<1>8. ASSUME NEW c \in Conns, Connect(c) \/ ReadFails(c) PROVE AmongFriends'
  BY <1>2, <1>4, <1>8 DEF Connect, ReadFails, bcVars, Broadcasting
<1>9. ASSUME NEW c \in Conns, ReadFriends(c) PROVE AmongFriends'
  <2>1. /\ UNCHANGED <<pc, targets, told, friends>>
        /\ \E some \in SUBSET friends[Owner[c]] : todo' = [todo EXCEPT ![c] = some]
    BY <1>9 DEF ReadFriends, netVars, friendVars
  <2> QED
    BY <1>3, <2>1 DEF AmongFriends
<1>10. ASSUME NEW c \in Conns, NEW f \in Users, Snapshot(c, f) PROVE AmongFriends'
  <2>1. /\ UNCHANGED <<pc, told, friends>>
        /\ pc[c] \in Broadcasting /\ f \in friends[Owner[c]]
        /\ todo' = [todo EXCEPT ![c] = @ \ {f}]
        /\ targets' = [targets EXCEPT ![c] = clients[f]]
    BY <1>10 DEF Snapshot, netVars, AmongFriends
  <2>2. \A d \in clients[f] : Owner[d] = f
    BY DEF HubExact, ConnsOf
  <2> QED
    BY <1>3, <2>1, <2>2 DEF AmongFriends
<1>11. ASSUME NEW c \in Conns, NEW d \in Conns, Push(c, d) PROVE AmongFriends'
  <2>1. /\ UNCHANGED <<pc, todo, friends>>
        /\ targets' = [targets EXCEPT ![c] = @ \ {d}]
        /\ Owner[d] \in friends[Owner[c]]
        /\ WriteJSON(d, Owner[c], say[c])
    BY <1>11 DEF Push, AmongFriends
  <2>2. \A e \in Conns, u \in Users :
          Heard(e, u)' => Heard(e, u) \/ (e = d /\ u = Owner[c])
    BY <2>1, SendStep DEF Heard
  <2> QED
    BY <2>1, <2>2 DEF AmongFriends
<1>12. ASSUME NEW c \in Conns, EndBroadcast(c) PROVE AmongFriends'
  BY <1>2, <1>3, <1>12 DEF EndBroadcast, netVars
<1>13. ASSUME NEW r \in Accepts, Acceptance(r) PROVE AmongFriends'
  <2>1. UNCHANGED <<pc, todo, targets>>
    BY <1>13, AcceptanceFrame DEF bcVars
  <2>2. CASE UNCHANGED told
    BY <1>2, <1>3, <2>1, <2>2
  <2>3. ASSUME NEW d \in Conns, PushFriend(r, d) PROVE AmongFriends'
    <3>1. /\ accept[r].about \in Users
          /\ Owner[d] \in friends[accept[r].about]
          /\ WriteJSON(d, accept[r].about, accept[r].read)
      BY <2>3, AcceptingType DEF PushFriend, Introduced, Accepted
    <3>2. \A e \in Conns, u \in Users :
            Heard(e, u)' => Heard(e, u) \/ (e = d /\ u = accept[r].about)
      BY <3>1, SendStep DEF Heard
    <3> QED
      BY <1>2, <2>1, <3>1, <3>2
  <2> QED
    BY <1>13, <2>2, <2>3
    DEF Acceptance, AcceptFriend, CheckOnline, ReadRow, SnapshotFriend, EndPush, netVars
<1>14. CASE Restart
  <2>1. /\ \A c \in Conns : todo'[c] = {} /\ targets'[c] = {}
        /\ \A d \in Conns : told'[d] = NothingTold
    BY <1>14 DEF Restart
  <2>2. \A d \in Conns, u \in Users : ~Heard(d, u)'
    BY <2>1 DEF Heard, NothingTold
  <2> QED
    BY <2>1, <2>2 DEF AmongFriends
<1> QED
  BY <1>5, <1>6, <1>7, <1>8, <1>9, <1>10, <1>11, <1>12, <1>13, <1>14
  DEF Next, Handler, Broadcast, Elsewhere, Moves, Starts

\* A session that has yet to enter the hub has been told nothing and nobody is
\* about to tell it anything.
LEMMA FreshKept ==
  ASSUME TypeOK, HubExact, AmongFriends, Fresh, [Next]_vars
  PROVE  Fresh'
<1> USE DEF TypeOK
<1>1. \A u \in Users : \A d \in clients[u] : pc[d] # "verified"
  BY DEF HubExact, Registered
<1>2. ASSUME UNCHANGED told,
             \A c \in Conns : targets'[c] \subseteq targets[c],
             \A r \in Accepts : left'[r] \subseteq left[r],
             \A d \in Conns : pc'[d] = "verified" => pc[d] = "verified"
      PROVE  Fresh'
  BY <1>2 DEF Fresh
<1>3. CASE Elsewhere
  BY <1>2, <1>3, ElsewhereStep DEF bcVars, friendVars
<1>4. ASSUME NEW c \in Conns, Moves(c) PROVE Fresh'
  BY <1>2, <1>4, MovesStep DEF bcVars, friendVars
<1>5. ASSUME NEW c \in Conns, Starts(c) PROVE Fresh'
  BY <1>2, <1>5, StartsStep DEF friendVars
<1>6. ASSUME NEW c \in Conns, Connect(c) PROVE Fresh'
  BY <1>6 DEF Connect, Unreferenced, bcVars, Fresh
<1>7. ASSUME NEW c \in Conns, EndBroadcast(c) \/ ReadFriends(c) PROVE Fresh'
  BY <1>2, <1>7 DEF EndBroadcast, ReadFriends, netVars, friendVars
<1>8. ASSUME NEW c \in Conns, NEW f \in Users, Snapshot(c, f) PROVE Fresh'
  BY <1>1, <1>8 DEF Snapshot, netVars, Fresh
<1>9. ASSUME NEW c \in Conns, NEW d \in Conns, Push(c, d) PROVE Fresh'
  <2>1. /\ UNCHANGED <<pc, left>> /\ d \in targets[c]
        /\ targets' = [targets EXCEPT ![c] = @ \ {d}]
    BY <1>9 DEF Push
  <2>2. \A e \in Conns \ {d} : told'[e] = told[e]
    BY <1>9, SendStep, OwnerAssumption DEF Push
  <2> QED
    BY <2>1, <2>2 DEF Fresh
<1>10. ASSUME NEW c \in Conns, ReadFails(c) PROVE Fresh'
  BY <1>10 DEF ReadFails, bcVars, friendVars, Fresh
<1>11. ASSUME NEW r \in Accepts, Acceptance(r) PROVE Fresh'
  <2>1. UNCHANGED <<pc, targets>>
    BY <1>11, AcceptanceFrame DEF bcVars
  <2>2. CASE SnapshotFriend(r)
    <3>1. accept[r].to \in Users
      BY <2>2, AcceptingType DEF SnapshotFriend
    <3>2. left' = [left EXCEPT ![r] = clients[accept[r].to]] /\ UNCHANGED told
      BY <2>2 DEF SnapshotFriend, netVars
    <3> QED
      BY <1>1, <2>1, <3>1, <3>2 DEF Fresh
  <2>3. ASSUME NEW d \in Conns, PushFriend(r, d) PROVE Fresh'
    <3>1. d \in left[r] /\ left' = [left EXCEPT ![r] = @ \ {d}]
      BY <2>3 DEF PushFriend
    <3>2. \A e \in Conns \ {d} : told'[e] = told[e]
      BY <2>3, AcceptingType, SendStep DEF PushFriend
    <3> QED
      BY <2>1, <3>1, <3>2 DEF Fresh
  <2>4. CASE UNCHANGED <<told, left>>
    BY <1>2, <2>1, <2>4
  <2> QED
    BY <1>11, <2>2, <2>3, <2>4
    DEF Acceptance, AcceptFriend, CheckOnline, ReadRow, EndPush, netVars
<1>12. CASE Restart
  BY <1>12 DEF Restart, Fresh
<1> QED
  BY <1>3, <1>4, <1>5, <1>6, <1>7, <1>8, <1>9, <1>10, <1>11, <1>12
  DEF Next, Handler, Broadcast, Elsewhere, Moves, Starts

\* With one session per user, what the user's handler broadcasts is what it
\* last wrote to the row, and every session announces its arrival.
LEMMA SayingKept ==
  ASSUME OneSessionEach, TypeOK, HubExact, Saying, [Next]_vars
  PROVE  Saying'
<1> USE OwnerAssumption DEF TypeOK
<1>1. ASSUME \A c \in Conns : pc'[c] \in {"added", "greeting", "announcing"} =>
               pc'[c] = pc[c] /\ wasOffline'[c] = wasOffline[c],
             \A c \in Conns :
               pc'[c] \in Broadcasting \cup {"greeting"}
               /\ Owner[c] \notin unannounced' =>
                 /\ pc'[c] = pc[c] /\ say'[c] = say[c]
                 /\ status'[Owner[c]] = status[Owner[c]]
                 /\ Owner[c] \notin unannounced
      PROVE  Saying'
  <2> SUFFICES ASSUME NEW c \in Conns
               PROVE  /\ pc'[c] \in {"added", "greeting", "announcing"} => wasOffline'[c]
                      /\ Owner[c] \notin unannounced' =>
                           /\ pc'[c] \in Broadcasting => say'[c] = status'[Owner[c]]
                           /\ pc'[c] = "greeting" => status'[Owner[c]] = "online"
    BY DEF Saying
  <2>1. pc'[c] \in {"added", "greeting", "announcing"} => wasOffline'[c]
    BY <1>1 DEF Saying
  <2>2. ASSUME Owner[c] \notin unannounced', pc'[c] \in Broadcasting \cup {"greeting"}
        PROVE  /\ pc'[c] \in Broadcasting => say'[c] = status'[Owner[c]]
               /\ pc'[c] = "greeting" => status'[Owner[c]] = "online"
    BY <1>1, <2>2 DEF Saying
  <2> QED
    BY <2>1, <2>2
<1>2. ASSUME NEW c \in Conns,
             \A d \in Conns \ {c} :
               /\ pc'[d] = pc[d] /\ wasOffline'[d] = wasOffline[d]
               /\ say'[d] = say[d] /\ status'[Owner[d]] = status[Owner[d]]
               /\ Owner[d] \in unannounced' <=> Owner[d] \in unannounced,
             pc'[c] \in {"added", "greeting", "announcing"} => wasOffline'[c],
             Owner[c] \notin unannounced' =>
               /\ pc'[c] \in Broadcasting => say'[c] = status'[Owner[c]]
               /\ pc'[c] = "greeting" => status'[Owner[c]] = "online"
      PROVE  Saying'
  <2>1. ASSUME NEW d \in Conns, d # c
        PROVE  /\ pc'[d] \in {"added", "greeting", "announcing"} => wasOffline'[d]
               /\ Owner[d] \notin unannounced' =>
                    /\ pc'[d] \in Broadcasting => say'[d] = status'[Owner[d]]
                    /\ pc'[d] = "greeting" => status'[Owner[d]] = "online"
    BY <1>2, <2>1 DEF Saying
  <2> QED
    BY <1>2, <2>1 DEF Saying
<1>3. \A c, d \in Conns : c # d => Owner[c] # Owner[d]
  BY DEF OneSessionEach
<1>4. ASSUME NEW u \in Users, Upsert(u)
      PROVE  \A c \in Conns : Owner[c] \notin unannounced' =>
               /\ Owner[c] \notin unannounced
               /\ status'[Owner[c]] = status[Owner[c]]
  BY <1>4 DEF Upsert
<1>5. ASSUME NEW c \in Conns, NEW st, Record(Owner[c], st)
       PROVE  /\ Owner[c] \notin unannounced' => status'[Owner[c]] = st
              /\ \A d \in Conns \ {c} :
                   /\ status'[Owner[d]] = status[Owner[d]]
                   /\ Owner[d] \in unannounced' <=> Owner[d] \in unannounced
  BY <1>3, <1>5 DEF Record
<1>6. ASSUME NEW u \in Users, AuthenticateREST(u) PROVE Saying'
  BY <1>1, <1>4, <1>6 DEF AuthenticateREST, hubVars, bcVars
<1>7. ASSUME UNCHANGED <<pc, wasOffline, say, status, unannounced>> PROVE Saying'
  BY <1>7 DEF Saying
<1>8. ASSUME \/ \E u \in Users : Kick(u)
             \/ \E c \in Conns : KickClose(c) \/ Disconnect(c)
             \/ \E c \in Conns, f \in Users : Snapshot(c, f)
             \/ \E c, d \in Conns : Push(c, d)
             \/ \E r \in Accepts : Acceptance(r)
             \/ UNCHANGED vars
      PROVE  Saying'
  <2>1. UNCHANGED <<pc, wasOffline, say, status, unannounced>>
    BY <1>8, AcceptanceFrame
    DEF Kick, KickClose, Disconnect, Snapshot, Push, vars, hubVars, dbVars, bcVars
  <2> QED
    BY <1>7, <2>1
<1>9. ASSUME NEW c \in Conns, Connect(c) PROVE Saying'
  <2>1. /\ pc'[c] = "verified" /\ \A d \in Conns \ {c} : pc'[d] = pc[d]
        /\ UNCHANGED <<wasOffline, say>>
    BY <1>9 DEF Connect, hubVars, bcVars
  <2>2. \A d \in Conns : Owner[d] \notin unannounced' =>
          Owner[d] \notin unannounced /\ status'[Owner[d]] = status[Owner[d]]
    BY <1>4, <1>9 DEF Connect, dbVars
  <2> QED
    BY <1>1, <2>1, <2>2 DEF Broadcasting
<1>10. ASSUME NEW c \in Conns, UpgradeFails(c) \/ ReadFails(c) PROVE Saying'
  BY <1>1, <1>10 DEF UpgradeFails, ReadFails, hubVars, dbVars, bcVars, Broadcasting
<1>11. ASSUME NEW c \in Conns, HubRemove(c) PROVE Saying'
  BY <1>1, <1>11 DEF HubRemove, dbVars, bcVars, Broadcasting
<1>12. ASSUME NEW c \in Conns, HubAdd(c) PROVE Saying'
  <2>1. clients[Owner[c]] = {}
    <3> SUFFICES ASSUME NEW d \in clients[Owner[c]] PROVE FALSE
      OBVIOUS
    <3>1. d \in Conns /\ Owner[d] = Owner[c] /\ pc[d] \in Registered
      BY DEF HubExact, ConnsOf
    <3>2. d = c /\ pc[c] = "verified"
      BY <1>12, <3>1 DEF OneSessionEach, HubAdd
    <3> QED
      BY <3>1, <3>2 DEF Registered
  <2> QED
    BY <1>2, <1>12, <2>1 DEF HubAdd, dbVars, bcVars, Broadcasting
<1>13. ASSUME NEW c \in Conns, MarkOnline(c) PROVE Saying'
  <2>1. wasOffline[c]
    BY <1>13 DEF MarkOnline, Saying
  <2> QED
    BY <1>2, <1>13, <1>5, <2>1 DEF MarkOnline, hubVars, bcVars, Broadcasting
<1>14. ASSUME NEW c \in Conns, Greet(c) PROVE Saying'
  <2>1. wasOffline[c] /\ (Owner[c] \notin unannounced => status[Owner[c]] = "online")
    BY <1>14 DEF Greet, Saying
  <2>2. /\ pc' = [pc EXCEPT ![c] = "announcing"]
        /\ say' = [say EXCEPT ![c] = "online"]
        /\ UNCHANGED <<wasOffline, status, unannounced>>
    BY <1>14, <2>1 DEF Greet, StartBroadcast, hubVars, dbVars
  <2>3. say'[c] = "online"
    BY <2>2
  <2> QED
    BY <1>2, <2>1, <2>2, <2>3
<1>15. ASSUME NEW c \in Conns, EndBroadcast(c) PROVE Saying'
  <2>1. /\ pc'[c] \in {"idle", "reading"}
        /\ \A d \in Conns \ {c} : pc'[d] = pc[d] /\ say'[d] = say[d]
        /\ UNCHANGED <<wasOffline, status, unannounced>>
    BY <1>15 DEF EndBroadcast, hubVars, dbVars
  <2> QED
    BY <1>2, <2>1 DEF Broadcasting
<1>16. ASSUME NEW c \in Conns, NEW v \in Values, ReadStatus(c, v) PROVE Saying'
  <2>1. /\ pc' = [pc EXCEPT ![c] = "relaying"]
        /\ say' = [say EXCEPT ![c] = v]
        /\ Record(Owner[c], v)
        /\ UNCHANGED wasOffline
    BY <1>16 DEF ReadStatus, StartBroadcast, hubVars
  <2> QED
    BY <1>2, <1>5, <2>1
<1>17. ASSUME NEW c \in Conns, MarkOffline(c) PROVE Saying'
  <2>1. /\ pc' = [pc EXCEPT ![c] = "farewell"]
        /\ say' = [say EXCEPT ![c] = "offline"]
        /\ Record(Owner[c], "offline")
        /\ UNCHANGED wasOffline
    BY <1>17 DEF MarkOffline, StartBroadcast, hubVars
  <2> QED
    BY <1>2, <1>5, <2>1
<1>18. ASSUME NEW c \in Conns, ReadFriends(c) PROVE Saying'
  <2>1. UNCHANGED <<pc, wasOffline, say, status>> /\ unannounced \subseteq unannounced'
    BY <1>18 DEF ReadFriends, hubVars
  <2> QED
    BY <1>1, <2>1
<1>19. CASE Restart
  BY <1>19 DEF Restart, Saying, Broadcasting
<1> QED
  BY <1>6, <1>8, <1>9, <1>10, <1>11, <1>12, <1>13, <1>14, <1>15, <1>16, <1>17, <1>18,
     <1>19
  DEF Next, Handler, Broadcast

\* A handler stays in debt to a friend until it looks up the friend's
\* connections, unless looking up the friends fails.
LEMMA DebtKept ==
  ASSUME TypeOK, Asking, Saying, [Next]_vars, ~Restart,
         NEW c \in Conns, NEW f \in Users, OwesTo(c, f),
         Owner[c] \notin unannounced', f \in friends[Owner[c]], ~Snapshot(c, f)
  PROVE  OwesTo(c, f)'
<1> USE OwnerAssumption DEF TypeOK
<1>1. ASSUME UNCHANGED <<asked, todo>>, pc'[c] = pc[c] PROVE OwesTo(c, f)'
  BY <1>1 DEF OwesTo
<1>2. CASE Elsewhere
  BY <1>1, <1>2, ElsewhereStep DEF bcVars
<1>3. ASSUME NEW d \in Conns, Moves(d) PROVE OwesTo(c, f)'
  <2>1. d # c
    BY <1>3, MovesStep DEF OwesTo, Broadcasting
  <2> QED
    BY <1>1, <1>3, <2>1, MovesStep DEF bcVars
<1>4. ASSUME NEW d \in Conns, Starts(d) PROVE OwesTo(c, f)'
  <2>1. CASE d = c
    <3>1. pc[c] = "greeting" /\ pc'[c] = "announcing"
      BY <1>4, <2>1, StartsStep DEF OwesTo, Broadcasting, Saying
    <3>2. ~asked'[c]
      BY <1>4, <2>1, <3>1, StartsStep DEF Asking, Broadcasting
    <3> QED
      BY <3>1, <3>2 DEF OwesTo, Broadcasting
  <2>2. CASE d # c
    BY <1>1, <1>4, <2>2, StartsStep
  <2> QED
    BY <2>1, <2>2
<1>5. ASSUME NEW d \in Conns, Connect(d) \/ ReadFails(d) PROVE OwesTo(c, f)'
  <2>1. d # c
    BY <1>5 DEF Connect, ReadFails, OwesTo, Broadcasting
  <2> QED
    BY <1>1, <1>5, <2>1 DEF Connect, ReadFails, bcVars
<1>6. ASSUME NEW d \in Conns, ReadFriends(d) PROVE OwesTo(c, f)'
  <2>1. CASE d = c
    <3>1. unannounced' # unannounced \cup {Owner[c]}
      BY <2>1
    <3>2. /\ pc'[c] = pc[c] /\ pc[c] \in Broadcasting
          /\ todo' = [todo EXCEPT ![c] = friends[Owner[c]]]
      BY <1>6, <2>1, <3>1 DEF ReadFriends
    <3> QED
      BY <3>2 DEF OwesTo
  <2>2. CASE d # c
    <3>1. asked'[c] = asked[c] /\ todo'[c] = todo[c] /\ pc'[c] = pc[c]
      BY <1>6, <2>2 DEF ReadFriends
    <3> QED
      BY <3>1 DEF OwesTo
  <2> QED
    BY <2>1, <2>2
<1>7. ASSUME NEW d \in Conns, NEW g \in Users, Snapshot(d, g) PROVE OwesTo(c, f)'
  <2>1. d # c \/ g # f
    BY <1>7
  <2>2. /\ UNCHANGED <<pc, asked>>
        /\ todo' = [todo EXCEPT ![d] = @ \ {g}]
    BY <1>7 DEF Snapshot
  <2> QED
    BY <2>1, <2>2 DEF OwesTo
<1>8. ASSUME NEW d \in Conns, NEW e \in Conns, Push(d, e) PROVE OwesTo(c, f)'
  BY <1>1, <1>8 DEF Push
<1>9. ASSUME NEW d \in Conns, EndBroadcast(d) PROVE OwesTo(c, f)'
  <2>1. d # c
    BY <1>9 DEF EndBroadcast, OwesTo, Broadcasting
  <2>2. pc'[c] = pc[c] /\ asked'[c] = asked[c] /\ UNCHANGED todo
    BY <1>9, <2>1 DEF EndBroadcast
  <2> QED
    BY <2>2 DEF OwesTo
<1>10. ASSUME NEW r \in Accepts, Acceptance(r) PROVE OwesTo(c, f)'
  BY <1>1, <1>10, AcceptanceFrame DEF bcVars
<1> QED
  BY <1>2, <1>3, <1>4, <1>5, <1>6, <1>7, <1>8, <1>9, <1>10
  DEF Next, Handler, Broadcast, Elsewhere, Moves, Starts

\* Whoever writes a row owes all friends the news.
LEMMA DebtIncurred ==
  ASSUME TypeOK, Asking, [Next]_vars, ~Restart, NEW u \in Users, u \notin unannounced',
         u \in unannounced \/ status'[u] # status[u]
  PROVE  \E c \in Conns : Owner[c] = u /\ \A f \in Users : OwesTo(c, f)'
<1> USE OwnerAssumption DEF TypeOK
<1>1. ASSUME NEW v \in Users, Upsert(v) PROVE FALSE
  BY <1>1 DEF Upsert
<1>2. ASSUME NEW c \in Conns, NEW st, Record(Owner[c], st) PROVE u = Owner[c]
  BY <1>2 DEF Record
<1>3. ASSUME NEW c \in Conns, MarkOnline(c)
      PROVE  u = Owner[c] /\ \A f \in Users : OwesTo(c, f)'
  <2>1. u = Owner[c]
    BY <1>2, <1>3 DEF MarkOnline
  <2>2. pc'[c] = "greeting"
    BY <1>3 DEF MarkOnline
  <2> QED
    BY <2>1, <2>2 DEF OwesTo
<1>4. ASSUME NEW c \in Conns, MarkOffline(c) \/ \E v \in Values : ReadStatus(c, v)
      PROVE  u = Owner[c] /\ \A f \in Users : OwesTo(c, f)'
  <2>1. u = Owner[c]
    BY <1>2, <1>4 DEF MarkOffline, ReadStatus
  <2>2. pc'[c] \in Broadcasting
    BY <1>4 DEF MarkOffline, ReadStatus, Broadcasting
  <2>3. ~asked'[c]
    BY <1>4 DEF MarkOffline, ReadStatus, StartBroadcast, Asking, Broadcasting
  <2> QED
    BY <2>1, <2>2, <2>3 DEF OwesTo
<1>5. ASSUME NEW v \in Users, AuthenticateREST(v) \/ Kick(v) PROVE FALSE
  BY <1>1, <1>5 DEF AuthenticateREST, Kick, dbVars
<1>6. ASSUME NEW c \in Conns, Connect(c) PROVE FALSE
  BY <1>1, <1>6 DEF Connect, dbVars
<1>7. ASSUME NEW c \in Conns,
             \/ KickClose(c) \/ Disconnect(c) \/ UpgradeFails(c) \/ HubAdd(c)
             \/ HubRemove(c) \/ Greet(c) \/ EndBroadcast(c) \/ ReadFails(c)
             \/ ReadFriends(c)
             \/ \E f \in Users : Snapshot(c, f)
             \/ \E d \in Conns : Push(c, d)
      PROVE  FALSE
  <2>1. UNCHANGED status /\ unannounced \subseteq unannounced'
    BY <1>7
    DEF KickClose, Disconnect, UpgradeFails, HubAdd, HubRemove, Greet, EndBroadcast,
        ReadFails, ReadFriends, Snapshot, Push, dbVars
  <2> QED
    BY <2>1
<1>8. ASSUME NEW r \in Accepts, Acceptance(r) PROVE FALSE
  BY <1>8, AcceptanceFrame DEF dbVars
<1>9. CASE UNCHANGED vars
  BY <1>9 DEF vars, dbVars
<1> QED
  BY <1>3, <1>4, <1>5, <1>6, <1>7, <1>8, <1>9 DEF Next, Handler, Broadcast

\* What an acceptance is about to tell was read before this step, unless this is
\* the step that reads it.
LEMMA ReadBefore ==
  ASSUME TypeOK, [Next]_vars, ~Restart, NEW r \in Accepts, ~ReadRow(r),
         accept'[r].step \in {"notify", "push"}, r \notin overtaken'
  PROVE  /\ accept[r].step \in {"notify", "push"}
         /\ accept'[r].about = accept[r].about
         /\ accept'[r].to = accept[r].to
         /\ accept'[r].read = accept[r].read
         /\ r \notin overtaken
<1> USE DEF TypeOK
<1> DEFINE AsBefore == /\ accept[r].step \in {"notify", "push"}
                       /\ accept'[r].about = accept[r].about
                       /\ accept'[r].to = accept[r].to
                       /\ accept'[r].read = accept[r].read
                       /\ r \notin overtaken
<1>1. ASSUME accept'[r] = accept[r], r \in overtaken => r \in overtaken'
      PROVE  AsBefore
  BY <1>1
<1>2. ASSUME NEW q \in Accepts, Acceptance(q), q # r PROVE AsBefore
  <2>1. accept'[r] = accept[r] /\ (r \in overtaken => r \in overtaken')
    BY <1>2
    DEF Acceptance, AcceptFriend, CheckOnline, ReadRow, SnapshotFriend, PushFriend,
        EndPush
  <2> QED
    BY <1>1, <2>1
<1>3. CASE Acceptance(r)
  <2>1. CASE \E other \in Users : AcceptFriend(r, other)
    <3>1. accept'[r].step = "check"
      BY <2>1 DEF AcceptFriend
    <3> QED
      BY <3>1
  <2>2. CASE CheckOnline(r)
    <3>1. accept[r] \in Accepting
      BY <2>2, AcceptingType DEF CheckOnline
    <3>2. accept'[r] \in {[accept[r] EXCEPT !.step = "read"], Turn(accept[r])}
      BY <2>2 DEF CheckOnline
    <3>3. accept'[r].step \in {"read", "check", "answered"}
      BY <3>1, <3>2, TurnFacts DEF Accepting
    <3> QED
      BY <3>3
  <2>3. CASE SnapshotFriend(r)
    <3>1. accept[r] \in Accepting /\ accept[r].step = "notify"
      BY <2>3, AcceptingType DEF SnapshotFriend
    <3>2. accept'[r] = [accept[r] EXCEPT !.step = "push"] /\ UNCHANGED overtaken
      BY <2>3 DEF SnapshotFriend
    <3> QED
      BY <3>1, <3>2 DEF Accepting
  <2>4. CASE \E d \in Conns : PushFriend(r, d)
    BY <1>1, <2>4 DEF PushFriend
  <2>5. CASE EndPush(r)
    <3>1. accept[r] \in Accepting
      BY <2>5, AcceptingType DEF EndPush
    <3>2. accept'[r] = Turn(accept[r])
      BY <2>5 DEF EndPush
    <3> QED
      BY <3>1, <3>2, TurnFacts
  <2> QED
    BY <1>3, <2>1, <2>2, <2>3, <2>4, <2>5 DEF Acceptance
<1>4. CASE Elsewhere
  BY <1>1, <1>4, ElsewhereStep DEF friendVars
<1>5. ASSUME NEW c \in Conns, Moves(c) PROVE AsBefore
  BY <1>1, <1>5, MovesStep DEF friendVars
<1>6. ASSUME NEW c \in Conns, Starts(c) PROVE AsBefore
  BY <1>1, <1>6, StartsStep DEF friendVars
<1>7. ASSUME NEW c \in Conns,
             \/ Connect(c) \/ ReadFails(c) \/ ReadFriends(c) \/ EndBroadcast(c)
             \/ \E f \in Users : Snapshot(c, f)
             \/ \E d \in Conns : Push(c, d)
      PROVE  AsBefore
  BY <1>1, <1>7
  DEF Connect, ReadFails, ReadFriends, EndBroadcast, Snapshot, Push, friendVars
<1> QED
  BY <1>2, <1>3, <1>4, <1>5, <1>6, <1>7
  DEF Next, Handler, Broadcast, Elsewhere, Moves, Starts

\* What an acceptance is about to tell is the row, unless a broadcast has
\* overtaken it or is about to: a write of the row incurs a debt to the friend,
\* and the broadcast that pays it overtakes.
LEMMA ReadingKept ==
  ASSUME TypeOK, Asking, Introduced, Saying, Reading, [Next]_vars
  PROVE  Reading'
<1> USE DEF TypeOK
<1>1. CASE Restart
  BY <1>1 DEF Restart, Reading, Idle
<1>2. ASSUME ~Restart, NEW r \in Accepts, NEW u,
             accept'[r].step \in {"notify", "push"}, r \notin overtaken',
             accept'[r].about = u, u \notin unannounced'
      PROVE  Current(r, u)'
  <2>1. TypeOK'
    BY TypeKept
  <2>2. u \in Users /\ accept'[r].to \in Users
    <3>1. accept'[r] \in Accepting \cup {Idle, Answered}
      BY <2>1
    <3>2. accept'[r] \in Accepting
      BY <1>2, <3>1 DEF Idle, Answered
    <3> QED
      BY <1>2, <3>2 DEF Accepting
  <2>3. CASE u \in unannounced \/ status'[u] # status[u]
    <3>1. PICK c \in Conns : Owner[c] = u /\ \A f \in Users : OwesTo(c, f)'
      BY <1>2, <2>2, <2>3, DebtIncurred
    <3> QED
      BY <2>2, <3>1 DEF Current
  <2>4. CASE u \notin unannounced /\ status'[u] = status[u] /\ ReadRow(r)
    <3>1. accept[r] \in Accepting
      BY <2>4, AcceptingType DEF ReadRow
    <3>2. accept'[r] \in {Turn(accept[r]),
                          [accept[r] EXCEPT !.step = "notify",
                                            !.read = status[accept[r].about]]}
      BY <2>4 DEF ReadRow
    <3>3. accept'[r].read = status[accept[r].about] /\ accept'[r].about = accept[r].about
      BY <1>2, <3>1, <3>2, TurnFacts DEF Accepting
    <3> QED
      BY <1>2, <2>4, <3>3 DEF Current
  <2>5. CASE u \notin unannounced /\ status'[u] = status[u] /\ ~ReadRow(r)
    <3>1. /\ accept[r].step \in {"notify", "push"}
          /\ u = accept[r].about
          /\ accept'[r].to = accept[r].to
          /\ accept'[r].read = accept[r].read
          /\ r \notin overtaken
      BY <1>2, <2>5, ReadBefore
    <3>2. CASE accept[r].read = status[u]
      BY <2>5, <3>1, <3>2 DEF Current
    <3>3. CASE accept[r].read # status[u]
      <4>1. PICK c \in Conns : Owner[c] = u /\ OwesTo(c, accept[r].to)
        BY <2>5, <3>1, <3>3 DEF Reading, Current
      <4>2. accept[r].to \in friends[u]
        BY <3>1 DEF Introduced, Accepted
      <4>3. ~Snapshot(c, accept[r].to)
        BY <1>2, <3>1, <4>1 DEF Snapshot, Telling
      <4>4. OwesTo(c, accept[r].to)'
        BY <1>2, <2>2, <3>1, <4>1, <4>2, <4>3, DebtKept
      <4> QED
        BY <3>1, <4>1, <4>4 DEF Current
    <3> QED
      BY <3>2, <3>3
  <2> QED
    BY <2>3, <2>4, <2>5
<1> QED
  BY <1>1, <1>2 DEF Reading

\* What a connection was told of a user before this step, unless this step
\* tells it something of that user.
LEMMA ToldBefore ==
  ASSUME TypeOK, [Next]_vars, ~Restart, NEW d \in Conns, NEW u \in Users,
         Heard(d, u)', <<d, u>> \notin outdated', pc'[d] \in Registered,
         \A c \in Conns : Push(c, d) => Owner[c] # u,
         \A r \in Accepts : PushFriend(r, d) => accept[r].about # u
  PROVE  /\ told'[d][u] = told[d][u]
         /\ <<d, u>> \notin outdated
         /\ pc[d] \in Registered \cup {"verified"}
<1> USE OwnerAssumption DEF TypeOK
<1> DEFINE AsBefore == /\ told'[d][u] = told[d][u]
                       /\ <<d, u>> \notin outdated
                       /\ pc[d] \in Registered \cup {"verified"}
<1>1. ASSUME UNCHANGED <<told, outdated>>,
             pc'[d] = pc[d] \/ pc[d] \in Registered \cup {"verified"}
      PROVE  AsBefore
  BY <1>1
<1>2. CASE Elsewhere
  BY <1>1, <1>2, ElsewhereStep DEF friendVars
<1>3. ASSUME NEW c \in Conns, Moves(c) PROVE AsBefore
  BY <1>1, <1>3, MovesStep DEF friendVars, Registered
<1>4. ASSUME NEW c \in Conns, Starts(c) PROVE AsBefore
  BY <1>1, <1>4, StartsStep DEF friendVars, Registered
<1>5. ASSUME NEW c \in Conns, Connect(c) PROVE AsBefore
  <2>1. d # c
    BY <1>5 DEF Connect, Registered
  <2>2. told'[d] = told[d] /\ pc'[d] = pc[d]
    BY <1>5, <2>1 DEF Connect
  <2>3. <<d, u>> \notin outdated
    BY <1>5, <2>1 DEF Connect
  <2> QED
    BY <2>2, <2>3
<1>6. ASSUME NEW c \in Conns, ReadFails(c) PROVE AsBefore
  <2>1. d # c
    BY <1>6 DEF ReadFails, Heard, NothingTold
  <2> QED
    BY <1>6, <2>1 DEF ReadFails, friendVars
<1>7. ASSUME NEW c \in Conns,
             ReadFriends(c) \/ EndBroadcast(c) \/ \E f \in Users : Snapshot(c, f)
      PROVE  AsBefore
  BY <1>1, <1>7
  DEF ReadFriends, EndBroadcast, Snapshot, netVars, friendVars, Registered, Broadcasting
<1>8. ASSUME NEW c \in Conns, NEW e \in Conns, Push(c, e) PROVE AsBefore
  <2>1. e # d \/ Owner[c] # u
    BY <1>8
  <2>2. told'[d][u] = told[d][u] /\ pc'[d] = pc[d]
    BY <1>8, <2>1, SendStep DEF Push
  <2>3. outdated' = outdated \ {<<e, Owner[c]>>}
    BY <1>8 DEF Push
  <2>4. <<d, u>> \notin outdated
    BY <2>1, <2>3
  <2> QED
    BY <2>2, <2>4
<1>9. ASSUME NEW r \in Accepts, Acceptance(r) PROVE AsBefore
  <2>1. pc'[d] = pc[d]
    BY <1>9, AcceptanceFrame
  <2>2. ASSUME NEW e \in Conns, PushFriend(r, e) PROVE AsBefore
    <3>1. e # d \/ accept[r].about # u
      BY <2>2
    <3>2. accept[r].about \in Users /\ WriteJSON(e, accept[r].about, accept[r].read)
      BY <2>2, AcceptingType DEF PushFriend
    <3>3. told'[d][u] = told[d][u]
      BY <3>1, <3>2, SendStep
    <3>4. outdated \subseteq outdated'
      BY <2>2 DEF PushFriend
    <3> QED
      BY <2>1, <3>3, <3>4
  <2>3. CASE \A e \in Conns : ~PushFriend(r, e)
    <3>1. UNCHANGED <<told, outdated>>
      BY <1>9, <2>3
      DEF Acceptance, AcceptFriend, CheckOnline, ReadRow, SnapshotFriend, EndPush, netVars
    <3> QED
      BY <1>1, <2>1, <3>1
  <2> QED
    BY <2>2, <2>3
<1> QED
  BY <1>2, <1>3, <1>4, <1>5, <1>6, <1>7, <1>8, <1>9
  DEF Next, Handler, Broadcast, Elsewhere, Moves, Starts

\* A debt to a connection is kept until the connection has been sent a frame.
LEMMA OwesKept ==
  ASSUME TypeOK, HubExact, Asking, AmongFriends, Saying, [Next]_vars, ~Restart,
         NEW c \in Conns, NEW d \in Conns, Owes(c, d), Heard(d, Owner[c]),
         Owner[c] \notin unannounced', pc[d] \in Registered, ~Push(c, d)
  PROVE  Owes(c, d)'
<1> USE OwnerAssumption DEF TypeOK
<1>1. CASE Snapshot(c, Owner[d])
  <2>1. d \in targets'[c]
    BY <1>1 DEF Snapshot, HubExact, ConnsOf
  <2> QED
    BY <2>1 DEF Owes
<1>2. CASE OwesTo(c, Owner[d]) /\ ~Snapshot(c, Owner[d])
  <2>1. Owner[d] \in friends[Owner[c]]
    BY DEF AmongFriends
  <2>2. OwesTo(c, Owner[d])'
    BY <1>2, <2>1, DebtKept
  <2> QED
    BY <2>2 DEF Owes
<1>3. CASE d \in targets[c]
  <2>1. ASSUME UNCHANGED targets PROVE Owes(c, d)'
    BY <1>3, <2>1 DEF Owes
  <2>2. CASE Elsewhere
    BY <2>1, <2>2, ElsewhereStep DEF bcVars
  <2>3. ASSUME NEW b \in Conns, Moves(b) PROVE Owes(c, d)'
    BY <2>1, <2>3, MovesStep DEF bcVars
  <2>4. ASSUME NEW b \in Conns, Starts(b) PROVE Owes(c, d)'
    BY <2>1, <2>4, StartsStep
  <2>5. ASSUME NEW b \in Conns,
               Connect(b) \/ ReadFails(b) \/ ReadFriends(b) \/ EndBroadcast(b)
        PROVE  Owes(c, d)'
    BY <2>1, <2>5 DEF Connect, ReadFails, ReadFriends, EndBroadcast, bcVars
  <2>6. ASSUME NEW b \in Conns, NEW f \in Users, Snapshot(b, f) PROVE Owes(c, d)'
    BY <1>3, <2>6 DEF Snapshot, Owes
  <2>7. ASSUME NEW b \in Conns, NEW e \in Conns, Push(b, e) PROVE Owes(c, d)'
    <3>1. b # c \/ e # d
      BY <2>7
    <3>2. targets' = [targets EXCEPT ![b] = @ \ {e}]
      BY <2>7 DEF Push
    <3>3. d \in targets'[c]
      BY <1>3, <3>1, <3>2
    <3> QED
      BY <3>3 DEF Owes
  <2>8. ASSUME NEW r \in Accepts, Acceptance(r) PROVE Owes(c, d)'
    BY <2>1, <2>8, AcceptanceFrame DEF bcVars
  <2> QED
    BY <2>2, <2>3, <2>4, <2>5, <2>6, <2>7, <2>8
    DEF Next, Handler, Broadcast, Elsewhere, Moves, Starts
<1> QED
  BY <1>1, <1>2, <1>3 DEF Owes

\* What a watcher was last told is the row, or its owner's handler owes it a
\* frame: each step that writes a row incurs the debt, each send pays one
\* watcher, and an acceptance that was not overtaken tells the row itself.
LEMMA WatchingKept ==
  ASSUME TypeOK, HubExact, Parts, [Next]_vars
  PROVE  Watching'
<1> USE OwnerAssumption DEF TypeOK
<1>1. CASE Restart
  BY <1>1 DEF Restart, Watching, Registered
<1>2. ASSUME ~Restart, NEW u \in Users, NEW d \in Conns,
             pc'[d] \in Registered, u \notin unannounced', <<d, u>> \notin outdated',
             Heard(d, u)'
      PROVE  told'[d][u] = status'[u] \/ \E c \in Conns : Owner[c] = u /\ Owes(c, d)'
  <2>1. CASE u \in unannounced \/ status'[u] # status[u]
    <3>1. PICK c \in Conns : Owner[c] = u /\ \A f \in Users : OwesTo(c, f)'
      BY <1>2, <2>1, DebtIncurred DEF Parts
    <3> QED
      BY <3>1 DEF Owes
  <2>2. ASSUME NEW c \in Conns, Push(c, d), Owner[c] = u,
               u \notin unannounced, status'[u] = status[u]
        PROVE  told'[d][u] = status'[u]
    <3>1. pc[c] \in Broadcasting
      BY <2>2 DEF Push, Parts, AmongFriends
    <3>2. say[c] = status[u]
      BY <2>2, <3>1 DEF Parts, Saying
    <3>3. told'[d][u] \in {say[c], Dropped}
      BY <2>2, SendStep DEF Push
    <3> QED
      BY <1>2, <2>2, <3>2, <3>3 DEF Heard
  <2>3. ASSUME NEW r \in Accepts, PushFriend(r, d), accept[r].about = u,
               u \notin unannounced, status'[u] = status[u]
        PROVE  told'[d][u] = status'[u] \/ \E c \in Conns : Owner[c] = u /\ Owes(c, d)'
    <3>1. told'[d][u] \in {accept[r].read, Dropped}
      BY <2>3, SendStep DEF PushFriend
    <3>2. told'[d][u] = accept[r].read
      BY <1>2, <3>1 DEF Heard
    <3>3. r \notin overtaken
      BY <1>2, <2>3 DEF PushFriend
    <3>4. Current(r, u)
      BY <2>3, <3>3 DEF PushFriend, Parts, Reading
    <3>5. CASE accept[r].read = status[u]
      BY <2>3, <3>2, <3>5
    <3>6. ASSUME NEW c \in Conns, Owner[c] = u, OwesTo(c, accept[r].to)
          PROVE  Owes(c, d)'
      <4>1. accept[r].to = Owner[d]
        BY <2>3 DEF PushFriend, Parts, Introduced
      <4>2. UNCHANGED <<pc, asked, todo>>
        BY <2>3 DEF PushFriend, bcVars
      <4> QED
        BY <3>6, <4>1, <4>2 DEF Owes, OwesTo
    <3> QED
      BY <3>4, <3>5, <3>6 DEF Current
  <2>4. CASE /\ u \notin unannounced /\ status'[u] = status[u]
             /\ \A c \in Conns : Push(c, d) => Owner[c] # u
             /\ \A r \in Accepts : PushFriend(r, d) => accept[r].about # u
    <3>1. /\ told'[d][u] = told[d][u]
          /\ <<d, u>> \notin outdated
          /\ pc[d] \in Registered \cup {"verified"}
      BY <1>2, <2>4, ToldBefore
    <3>2. Heard(d, u)
      BY <1>2, <3>1 DEF Heard
    <3>3. pc[d] \in Registered
      BY <3>1, <3>2 DEF Parts, Fresh, Heard, NothingTold
    <3>4. CASE told[d][u] = status[u]
      BY <2>4, <3>1, <3>4
    <3>5. CASE told[d][u] # status[u]
      <4>1. PICK c \in Conns : Owner[c] = u /\ Owes(c, d)
        BY <2>4, <3>1, <3>2, <3>3, <3>5 DEF Parts, Watching
      <4>2. Owes(c, d)'
        BY <1>2, <2>4, <3>2, <3>3, <4>1, OwesKept DEF Parts
      <4> QED
        BY <4>1, <4>2
    <3> QED
      BY <3>4, <3>5
  <2> QED
    BY <2>1, <2>2, <2>3, <2>4
<1> QED
  BY <1>1, <1>2 DEF Watching

\* The last status of a user that a friend's client was sent is the one in the
\* database, once the user's handler has nothing left to announce: for any
\* number of users, any friendships and any acceptances of new ones, as long as
\* a user's sessions do not overlap, that frame was not dropped nor sent by an
\* acceptance that a broadcast had overtaken, and no token check or failing
\* statement came between the row and its announcement.
THEOREM WatcherAgreesHolds == SafeSpec => []WatcherAgrees
<1>1. Init => WInv
  <2> SUFFICES ASSUME Init PROVE Parts
    BY DEF WInv
  <2> USE OwnerAssumption DEF Init
  <2>1. \A d \in Conns, u \in Users : ~Heard(d, u)
    BY DEF Heard, NothingTold
  <2> QED
    BY <2>1
    DEF Parts, Asking, AmongFriends, Introduced, Accepted, Fresh, Saying, Reading,
        Watching, Idle, Registered, Broadcasting
<1>2. TypeOK /\ HubExact /\ WInv /\ [Next]_vars => WInv'
  <2> SUFFICES ASSUME TypeOK, HubExact, OneSessionEach, Parts, [Next]_vars
               PROVE  Parts'
    BY DEF WInv, OneSessionEach
  <2> QED
    BY AskingKept, AmongFriendsKept, IntroducedKept, FreshKept, SayingKept,
       ReadingKept, WatchingKept
    DEF Parts
<1>3. TypeOK /\ WInv => WatcherAgrees
  <2> SUFFICES ASSUME OneSessionEach, TypeOK, Parts,
                      NEW u \in Users, NEW d \in Conns,
                      pc[d] \in Registered, Settled(u), u \notin unannounced,
                      told[d][u] \notin {Nothing, Dropped}, <<d, u>> \notin outdated
               PROVE  told[d][u] = status[u]
    BY DEF WInv, WatcherAgrees
  <2>1. \A c \in Conns : Owner[c] = u => ~Owes(c, d)
    BY DEF Settled, ConnsOf, Owes, OwesTo, Parts, AmongFriends
  <2> QED
    BY <2>1 DEF Parts, Watching, Heard
<1> QED
  BY <1>1, <1>2, <1>3, TypeCorrect, HubCorrect, PTL DEF SafeSpec
=============================================================================
