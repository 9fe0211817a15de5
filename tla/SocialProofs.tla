---------------------------- MODULE SocialProofs ----------------------------
(***************************************************************************)
(* What holds of what others are given to read of a player, proved with    *)
(* TLAPS: the messages of the server's conversations, for every set of     *)
(* users and every number of requests in flight (Messages), and the status *)
(* on Discord, for every number of games, lines and requests               *)
(* (DiscordStatus, whose specification is StatusSpec).                     *)
(***************************************************************************)
EXTENDS Messages, DiscordStatus, TLAPS

-----------------------------------------------------------------------------
(***************************************************************************)
(* Messages.                                                               *)
(***************************************************************************)

\* Ids not handed out yet have no row.
FutureEmpty == \A i \in Ids : i >= nextId => msgs[i] = NoRow

\* A request let through the author check names a message that was there; if
\* it still is, it is the requester's.
AuthorsOnly ==
  \A r \in Requests : At(r, "edit", "write") \/ At(r, "delete", "write") =>
    /\ req[r] \in Changing
    /\ req[r].id < nextId
    /\ msgs[req[r].id] # NoRow => msgs[req[r].id].from = req[r].me

\* A request about a conversation knows whether its two users are friends now,
\* and one let through was among friends, and is recorded as an opening.
FriendsOnly ==
  \A r \in Requests : req[r] \in Talking =>
    /\ {req[r].me, req[r].other} \in friends => req[r].wanted
    /\ req[r].stage = "write" => req[r].wanted
    /\ At(r, "get", "write") => <<req[r].me, req[r].other>> \in opened

\* Whatever holds of each row
GoodRow(i) ==
  msgs[i] # NoRow =>
    /\ msgs[i].by = msgs[i].from
    /\ msgs[i].wanted
    /\ msgs[i].read => <<msgs[i].to, msgs[i].from>> \in opened
    /\ {msgs[i].from, msgs[i].to} \subseteq known
GoodRows == \A i \in Ids : GoodRow(i)

IInv ==
  /\ TypeOK
  /\ FutureEmpty
  /\ AuthorsOnly
  /\ FriendsOnly
  /\ GoodRows

-----------------------------------------------------------------------------
(* Shapes *)

LEMMA Kinds ==
  /\ \A x \in Talking : x \notin Changing /\ x # Idle /\ x.op \in {"send", "get"}
  /\ \A x \in Changing : x # Idle /\ x.op \in {"edit", "delete"}
BY DEF Talking, Changing, Idle

LEMMA TalkingAt ==
  ASSUME TypeOK, NEW r \in Requests, NEW op \in {"send", "get"}, NEW st, At(r, op, st)
  PROVE  req[r] \in Talking /\ req[r].me \in Users /\ req[r].other \in Users
         /\ req[r].wanted \in BOOLEAN
<1>1. req[r] \in Talking
  BY Kinds DEF TypeOK, At
<1> QED
  BY <1>1 DEF Talking

LEMMA ChangingAt ==
  ASSUME TypeOK, NEW r \in Requests, NEW op \in {"edit", "delete"}, NEW st, At(r, op, st)
  PROVE  req[r] \in Changing /\ req[r].me \in Users /\ req[r].id \in Ids
<1>1. req[r] \in Changing
  BY Kinds DEF TypeOK, At
<1> QED
  BY <1>1 DEF Changing

LEMMA RowShape ==
  ASSUME TypeOK, NEW i \in Ids, msgs[i] # NoRow
  PROVE  /\ msgs[i] \in Rows
         /\ msgs[i].from \in Users /\ msgs[i].to \in Users /\ msgs[i].by \in Users
         /\ msgs[i].read \in BOOLEAN /\ msgs[i].wanted \in BOOLEAN
BY DEF TypeOK, Rows

LEMMA RowExists == \A x \in Rows : x # NoRow
BY DEF Rows, NoRow

-----------------------------------------------------------------------------
(* Steps of requests *)

\* A request is answered; the rows may change meanwhile as long as none
\* changes hands and none appears among the ids handed out.
LEMMA AnswerStep ==
  ASSUME IInv, NEW r \in Requests, Answer(r),
         UNCHANGED <<known, friends, opened>>,
         nextId' \in nextId..MaxId + 1,
         msgs' \in [Ids -> Rows \cup {NoRow}],
         \A i \in Ids : i >= nextId' => msgs'[i] = NoRow,
         \A i \in Ids : i < nextId /\ msgs'[i] # NoRow =>
           msgs[i] # NoRow /\ msgs'[i].from = msgs[i].from,
         GoodRows'
  PROVE  IInv'
<1> USE DEF IInv
<1>1. /\ req' \in [Requests -> Talking \cup Changing \cup {Idle}]
      /\ req'[r] = Idle
      /\ \A q \in Requests : q # r => req'[q] = req[q]
  BY DEF TypeOK, Answer
<1>2. nextId \in 1..MaxId + 1 /\ nextId' \in 1..MaxId + 1 /\ nextId <= nextId'
  BY MaxIdAssumption DEF TypeOK
<1>3. TypeOK'
  BY <1>1, <1>2 DEF TypeOK
<1>4. FutureEmpty'
  BY DEF FutureEmpty
<1>5. AuthorsOnly'
  <2> SUFFICES ASSUME NEW q \in Requests, At(q, "edit", "write")' \/ At(q, "delete", "write")'
               PROVE  /\ req'[q] \in Changing
                      /\ req'[q].id < nextId'
                      /\ msgs'[req'[q].id] # NoRow => msgs'[req'[q].id].from = req'[q].me
    BY DEF AuthorsOnly
  <2>1. req'[q] = req[q] /\ (At(q, "edit", "write") \/ At(q, "delete", "write"))
    BY <1>1 DEF At
  <2>2. req[q].id \in Ids /\ req[q] \in Changing
    BY <2>1, ChangingAt
  <2>3. /\ req[q].id < nextId
        /\ msgs[req[q].id] # NoRow => msgs[req[q].id].from = req[q].me
    BY <2>1 DEF AuthorsOnly
  <2>4. req[q].id < nextId'
    BY <1>2, <2>2, <2>3, MaxIdAssumption DEF Ids
  <2> QED
    BY <2>1, <2>2, <2>3, <2>4
<1>6. FriendsOnly'
  BY <1>1, Kinds DEF FriendsOnly, At
<1> QED
  BY <1>3, <1>4, <1>5, <1>6

\* A step that leaves the rows alone and gives one request a new state
LEMMA RequestStep ==
  ASSUME IInv, NEW r \in Requests,
         NEW new \in Talking \cup Changing \cup {Idle}, req' = [req EXCEPT ![r] = new],
         UNCHANGED <<known, friends, msgs, nextId>>,
         opened' \in SUBSET (Users \X Users), opened \subseteq opened',
         new \in Changing /\ new.stage = "write" =>
           new.id < nextId /\ (msgs[new.id] # NoRow => msgs[new.id].from = new.me),
         new \in Talking =>
           /\ {new.me, new.other} \in friends => new.wanted
           /\ new.stage = "write" => new.wanted
           /\ new.op = "get" /\ new.stage = "write" => <<new.me, new.other>> \in opened'
  PROVE  IInv'
<1> USE DEF IInv
<1>1. /\ req' \in [Requests -> Talking \cup Changing \cup {Idle}]
      /\ req'[r] = new
      /\ \A q \in Requests : q # r => req'[q] = req[q]
  BY DEF TypeOK
<1>2. TypeOK' /\ FutureEmpty'
  BY <1>1 DEF TypeOK, FutureEmpty
<1>3. AuthorsOnly'
  <2> SUFFICES ASSUME NEW q \in Requests, At(q, "edit", "write")' \/ At(q, "delete", "write")'
               PROVE  /\ req'[q] \in Changing
                      /\ req'[q].id < nextId
                      /\ msgs[req'[q].id] # NoRow => msgs[req'[q].id].from = req'[q].me
    BY DEF AuthorsOnly
  <2>1. CASE q = r
    BY <1>1, <2>1, Kinds DEF At
  <2>2. CASE q # r
    BY <1>1, <2>2 DEF At, AuthorsOnly
  <2> QED
    BY <2>1, <2>2
<1>4. FriendsOnly'
  <2> SUFFICES ASSUME NEW q \in Requests, req'[q] \in Talking
               PROVE  /\ {req'[q].me, req'[q].other} \in friends => req'[q].wanted
                      /\ req'[q].stage = "write" => req'[q].wanted
                      /\ At(q, "get", "write")' =>
                           <<req'[q].me, req'[q].other>> \in opened'
    BY DEF FriendsOnly
  <2>1. CASE q = r
    BY <1>1, <2>1 DEF At
  <2>2. CASE q # r
    BY <1>1, <2>2 DEF At, FriendsOnly
  <2> QED
    BY <2>1, <2>2
<1>5. GoodRows'
  BY DEF GoodRows, GoodRow
<1> QED
  BY <1>2, <1>3, <1>4, <1>5

LEMMA CheckFriendsStep ==
  ASSUME IInv, NEW r \in Requests, NEW op \in {"send", "get"}, CheckFriends(r, op)
  PROVE  IInv'
<1> USE DEF IInv
<1>1. /\ req[r] \in Talking /\ req[r].me \in Users /\ req[r].other \in Users
      /\ req[r].op = op
  BY TalkingAt DEF CheckFriends, At
<1>2. CASE areFriends(req[r].me, req[r].other)
  <2> DEFINE new == [req[r] EXCEPT !.stage = "write"]
  <2>1. req' = [req EXCEPT ![r] = new] /\ UNCHANGED <<known, friends, msgs, nextId>>
    BY <1>2 DEF CheckFriends, Proceed
  <2>2. /\ new \in Talking
        /\ new.me = req[r].me /\ new.other = req[r].other /\ new.op = op
        /\ new.wanted = req[r].wanted
    BY <1>1 DEF Talking
  <2>3. new.wanted
    BY <1>1, <1>2, <2>2 DEF FriendsOnly, areFriends
  <2>4. /\ opened' \in SUBSET (Users \X Users) /\ opened \subseteq opened'
        /\ op = "get" => <<new.me, new.other>> \in opened'
    BY <1>1, <1>2, <2>2 DEF CheckFriends, TypeOK
  <2>5. new \notin Changing
    BY <2>2, Kinds
  <2> HIDE DEF new
  <2> QED
    BY <2>1, <2>2, <2>3, <2>4, <2>5, RequestStep
<1>3. CASE ~areFriends(req[r].me, req[r].other)
  BY <1>3, RequestStep, Kinds DEF CheckFriends, Answer, TypeOK
<1> QED
  BY <1>2, <1>3

LEMMA CheckAuthorStep ==
  ASSUME IInv, NEW r \in Requests, NEW op \in {"edit", "delete"}, CheckAuthor(r, op)
  PROVE  IInv'
<1> USE DEF IInv
<1>1. /\ req[r] \in Changing /\ req[r].me \in Users /\ req[r].id \in Ids
      /\ req[r].op = op
  BY ChangingAt DEF CheckAuthor, At
<1>2. CASE msgs[req[r].id] # NoRow /\ msgs[req[r].id].from = req[r].me
  <2> DEFINE new == [req[r] EXCEPT !.stage = "write"]
  <2>1. /\ req' = [req EXCEPT ![r] = new]
        /\ UNCHANGED <<known, friends, msgs, nextId, opened>>
    BY <1>2 DEF CheckAuthor, Proceed
  <2>2. new \in Changing /\ new.me = req[r].me /\ new.id = req[r].id
    BY <1>1 DEF Changing
  <2>3. new.id < nextId
    BY <1>1, <1>2, <2>2, MaxIdAssumption DEF FutureEmpty, TypeOK, Ids
  <2>4. new \notin Talking
    BY <2>2, Kinds
  <2> HIDE DEF new
  <2> QED
    BY <1>2, <2>1, <2>2, <2>3, <2>4, RequestStep DEF TypeOK
<1>3. CASE ~(msgs[req[r].id] # NoRow /\ msgs[req[r].id].from = req[r].me)
  BY <1>3, RequestStep, Kinds DEF CheckAuthor, Answer, TypeOK
<1> QED
  BY <1>2, <1>3

LEMMA WriteSendStep ==
  ASSUME IInv, NEW r \in Requests, WriteSend(r)
  PROVE  IInv'
<1> USE DEF IInv
<1>1. req[r] \in Talking /\ req[r].me \in Users /\ req[r].other \in Users
      /\ req[r].wanted \in BOOLEAN /\ req[r].wanted
  BY TalkingAt DEF WriteSend, FriendsOnly, At
<1>2. Answer(r) /\ UNCHANGED <<known, friends, opened>>
  BY DEF WriteSend
<1>3. CASE {req[r].me, req[r].other} \subseteq known
  <2> DEFINE row == [from |-> req[r].me, to |-> req[r].other, by |-> req[r].me,
                     read |-> FALSE, wanted |-> req[r].wanted]
  <2>1. nextId <= MaxId /\ nextId' = nextId + 1 /\ msgs' = [msgs EXCEPT ![nextId] = row]
    BY <1>3 DEF WriteSend
  <2>2. nextId \in Ids /\ nextId \in Nat /\ nextId' \in nextId..MaxId + 1
    BY <2>1, MaxIdAssumption DEF TypeOK, Ids
  <2>3. row \in Rows
    BY <1>1 DEF Rows
  <2>4. /\ row.from = req[r].me /\ row.to = req[r].other /\ row.by = req[r].me
        /\ row.read = FALSE /\ row.wanted = req[r].wanted
    OBVIOUS
  <2> HIDE DEF row
  <2>5. /\ msgs' \in [Ids -> Rows \cup {NoRow}]
        /\ msgs'[nextId] = row
        /\ \A i \in Ids : i # nextId => msgs'[i] = msgs[i]
    BY <2>1, <2>2, <2>3 DEF TypeOK
  <2>6. \A i \in Ids : i >= nextId' => msgs'[i] = NoRow
    BY <2>1, <2>2, <2>5, MaxIdAssumption DEF FutureEmpty, Ids
  <2>7. \A i \in Ids : i < nextId => msgs'[i] = msgs[i]
    BY <2>2, <2>5, MaxIdAssumption DEF Ids
  <2>8. GoodRows'
    <3>1. ASSUME NEW i \in Ids PROVE GoodRow(i)'
      <4>1. CASE i = nextId
        BY <1>1, <1>2, <1>3, <2>4, <2>5, <4>1 DEF GoodRow
      <4>2. CASE i # nextId
        BY <1>2, <2>5, <4>2 DEF GoodRow, GoodRows
      <4> QED
        BY <4>1, <4>2
    <3> QED
      BY <3>1 DEF GoodRows
  <2> QED
    BY <1>2, <2>2, <2>5, <2>6, <2>7, <2>8, AnswerStep
<1>4. CASE ~({req[r].me, req[r].other} \subseteq known)
  BY <1>2, <1>4, RequestStep, Kinds DEF WriteSend, Answer, TypeOK
<1> QED
  BY <1>3, <1>4

LEMMA WriteGetStep ==
  ASSUME IInv, NEW r \in Requests, WriteGet(r)
  PROVE  IInv'
<1> USE DEF IInv
<1>1. <<req[r].me, req[r].other>> \in opened
  BY TalkingAt DEF WriteGet, FriendsOnly
<1>2. Answer(r) /\ UNCHANGED <<known, friends, nextId, opened>>
  BY DEF WriteGet
<1>3. ASSUME NEW i \in Ids
      PROVE  /\ msgs'[i] \in Rows \cup {NoRow}
             /\ msgs[i] = NoRow => msgs'[i] = NoRow
             /\ msgs'[i] # NoRow => msgs[i] # NoRow /\ msgs'[i].from = msgs[i].from
             /\ GoodRow(i)'
  <2>1. CASE msgs[i] # NoRow /\ msgs[i].to = req[r].me /\ msgs[i].from = req[r].other
    <3>1. msgs'[i] = [msgs[i] EXCEPT !.read = TRUE] /\ msgs[i] \in Rows
      BY <2>1, RowShape DEF WriteGet
    <3>2. /\ msgs'[i] \in Rows
          /\ msgs'[i].from = msgs[i].from /\ msgs'[i].to = msgs[i].to
          /\ msgs'[i].by = msgs[i].by /\ msgs'[i].wanted = msgs[i].wanted
      BY <3>1 DEF Rows
    <3> QED
      BY <1>1, <1>2, <2>1, <3>2 DEF GoodRow, GoodRows
  <2>2. CASE ~(msgs[i] # NoRow /\ msgs[i].to = req[r].me /\ msgs[i].from = req[r].other)
    <3>1. msgs'[i] = msgs[i]
      BY <2>2 DEF WriteGet
    <3> QED
      BY <1>2, <3>1 DEF GoodRow, GoodRows, TypeOK
  <2> QED
    BY <2>1, <2>2
<1>4. msgs' \in [Ids -> Rows \cup {NoRow}]
  BY <1>3 DEF WriteGet
<1>5. nextId' \in nextId..MaxId + 1
  BY <1>2, MaxIdAssumption DEF TypeOK
<1>6. \A i \in Ids : i >= nextId' => msgs'[i] = NoRow
  BY <1>2, <1>3 DEF FutureEmpty
<1> QED
  BY <1>2, <1>3, <1>4, <1>5, <1>6, AnswerStep DEF GoodRows

\* An edit or a deletion: one row changes, and not its sender.
LEMMA ChangeStep ==
  ASSUME IInv, NEW r \in Requests, At(r, "edit", "write") \/ At(r, "delete", "write"),
         Answer(r), UNCHANGED <<known, friends, nextId, opened>>,
         \/ msgs' = msgs
         \/ msgs' = [msgs EXCEPT ![req[r].id] = NoRow]
         \/ /\ msgs[req[r].id] # NoRow
            /\ msgs' = [msgs EXCEPT ![req[r].id].by = req[r].me]
  PROVE  IInv'
<1> USE DEF IInv
<1>1. req[r] \in Changing /\ req[r].me \in Users /\ req[r].id \in Ids
  BY ChangingAt
<1>2. ASSUME NEW i \in Ids
      PROVE  /\ msgs'[i] \in Rows \cup {NoRow}
             /\ msgs[i] = NoRow => msgs'[i] = NoRow
             /\ msgs'[i] # NoRow => msgs[i] # NoRow /\ msgs'[i].from = msgs[i].from
             /\ GoodRow(i)'
  <2>1. CASE msgs'[i] = msgs[i] \/ msgs'[i] = NoRow
    BY <2>1 DEF GoodRow, GoodRows, TypeOK
  <2>2. CASE /\ i = req[r].id /\ msgs[i] # NoRow
             /\ msgs' = [msgs EXCEPT ![i].by = req[r].me]
    <3>1. msgs'[i] = [msgs[i] EXCEPT !.by = req[r].me] /\ msgs[i] \in Rows
      BY <2>2, RowShape DEF TypeOK
    <3>2. /\ msgs'[i] \in Rows
          /\ msgs'[i].from = msgs[i].from /\ msgs'[i].to = msgs[i].to
          /\ msgs'[i].read = msgs[i].read /\ msgs'[i].wanted = msgs[i].wanted
          /\ msgs'[i].by = req[r].me
      BY <1>1, <3>1 DEF Rows
    <3>3. msgs[i].from = req[r].me
      BY <2>2 DEF AuthorsOnly
    <3> QED
      BY <2>2, <3>2, <3>3 DEF GoodRow, GoodRows
  <2> QED
    BY <1>1, <2>1, <2>2 DEF TypeOK
<1>3. msgs' \in [Ids -> Rows \cup {NoRow}]
  <2>1. DOMAIN msgs' = Ids /\ msgs' = [i \in Ids |-> msgs'[i]]
    BY <1>1 DEF TypeOK
  <2> QED
    BY <1>2, <2>1
<1>4. nextId' \in nextId..MaxId + 1
  BY MaxIdAssumption DEF TypeOK
<1>5. \A i \in Ids : i >= nextId' => msgs'[i] = NoRow
  BY <1>2 DEF FutureEmpty
<1> QED
  BY <1>2, <1>3, <1>4, <1>5, AnswerStep DEF GoodRows

-----------------------------------------------------------------------------
(* Steps of the other tables *)

LEMMA BefriendStep ==
  ASSUME IInv, NEW p \in Pairs, Befriend(p)
  PROVE  IInv'
<1> USE DEF IInv
<1>1. UNCHANGED <<known, msgs, nextId, opened>> /\ friends' = friends \cup {p}
  BY DEF Befriend
<1>2. ASSUME NEW r \in Requests
      PROVE  /\ req'[r] \in Talking \cup Changing \cup {Idle}
             /\ req[r] \notin Talking => req'[r] = req[r]
             /\ req[r] \in Talking =>
                  /\ req'[r] \in Talking
                  /\ req'[r].op = req[r].op /\ req'[r].stage = req[r].stage
                  /\ req'[r].me = req[r].me /\ req'[r].other = req[r].other
                  /\ req'[r].wanted = (req[r].wanted \/ {req[r].me, req[r].other} = p)
  <2>1. CASE req[r] \in Talking /\ {req[r].me, req[r].other} = p
    <3>1. req'[r] = [req[r] EXCEPT !.wanted = TRUE]
      BY <2>1 DEF Befriend
    <3> QED
      BY <2>1, <3>1 DEF Talking
  <2>2. CASE ~(req[r] \in Talking /\ {req[r].me, req[r].other} = p)
    <3>1. req'[r] = req[r]
      BY <2>2 DEF Befriend
    <3>2. req[r] \in Talking => req[r].wanted \in BOOLEAN
      BY DEF Talking
    <3> QED
      BY <2>2, <3>1, <3>2 DEF TypeOK
  <2> QED
    BY <2>1, <2>2
<1>3. TypeOK'
  BY <1>1, <1>2 DEF TypeOK, Befriend
<1>4. AuthorsOnly'
  BY <1>1, <1>2, Kinds DEF AuthorsOnly, At, TypeOK
<1>5. FriendsOnly'
  <2> SUFFICES ASSUME NEW r \in Requests, req'[r] \in Talking
               PROVE  /\ {req'[r].me, req'[r].other} \in friends' => req'[r].wanted
                      /\ req'[r].stage = "write" => req'[r].wanted
                      /\ At(r, "get", "write")' =>
                           <<req'[r].me, req'[r].other>> \in opened'
    BY DEF FriendsOnly
  <2>1. req[r] \in Talking
    BY <1>2
  <2> QED
    BY <1>1, <1>2, <2>1, Kinds DEF FriendsOnly, At
<1>6. FutureEmpty' /\ GoodRows'
  BY <1>1 DEF FutureEmpty, GoodRows, GoodRow
<1> QED
  BY <1>3, <1>4, <1>5, <1>6

LEMMA AccountStep ==
  ASSUME IInv, UNCHANGED <<nextId, req, opened>>,
         known' \in SUBSET Users, friends' \in SUBSET Pairs,
         friends' \subseteq friends,
         msgs' \in [Ids -> Rows \cup {NoRow}],
         \A i \in Ids : msgs'[i] \in {msgs[i], NoRow},
         \A i \in Ids : msgs'[i] # NoRow => {msgs[i].from, msgs[i].to} \subseteq known'
  PROVE  IInv'
<1> USE DEF IInv
<1>1. TypeOK' /\ FutureEmpty'
  BY DEF TypeOK, FutureEmpty
<1>2. AuthorsOnly'
  <2> SUFFICES ASSUME NEW q \in Requests, At(q, "edit", "write") \/ At(q, "delete", "write")
               PROVE  /\ req[q] \in Changing
                      /\ req[q].id < nextId
                      /\ msgs'[req[q].id] # NoRow => msgs'[req[q].id].from = req[q].me
    BY DEF AuthorsOnly, At
  <2>1. req[q].id \in Ids
    BY ChangingAt
  <2> QED
    BY <2>1 DEF AuthorsOnly
<1>3. FriendsOnly'
  BY DEF FriendsOnly, At
<1>4. GoodRows'
  BY DEF GoodRows, GoodRow
<1> QED
  BY <1>1, <1>2, <1>3, <1>4

LEMMA DeleteUserStep ==
  ASSUME IInv, NEW u \in Users, DeleteUser(u)
  PROVE  IInv'
<1> USE DEF IInv, DeleteUser
<1>1. \A i \in Ids : msgs'[i] \in {msgs[i], NoRow}
  OBVIOUS
<1>2. msgs' \in [Ids -> Rows \cup {NoRow}]
  BY DEF TypeOK
<1>3. \A i \in Ids : msgs'[i] # NoRow => {msgs[i].from, msgs[i].to} \subseteq known'
  BY DEF GoodRows, GoodRow
<1>4. friends' \in SUBSET Pairs /\ friends' \subseteq friends /\ known' \in SUBSET Users
  BY DEF TypeOK
<1> QED
  BY <1>1, <1>2, <1>3, <1>4, AccountStep

-----------------------------------------------------------------------------
(* Theorems *)

LEMMA Inductive == IInv /\ [Next]_vars => IInv'
<1> SUFFICES ASSUME IInv, [Next]_vars PROVE IInv'
  OBVIOUS
<1>1. ASSUME NEW p \in Pairs, Befriend(p) PROVE IInv'
  BY <1>1, BefriendStep
<1>2. ASSUME NEW p \in Pairs, Unfriend(p) PROVE IInv'
  BY <1>2, AccountStep DEF Unfriend, IInv, TypeOK, GoodRows, GoodRow
<1>3. ASSUME NEW u \in Users, Register(u) PROVE IInv'
  BY <1>3, AccountStep DEF Register, IInv, TypeOK, GoodRows, GoodRow
<1>4. ASSUME NEW u \in Users, DeleteUser(u) PROVE IInv'
  BY <1>4, DeleteUserStep
<1>5. ASSUME NEW r \in Requests, NEW op \in {"send", "get"}, NEW me \in Users,
             NEW other \in Users, ArriveTalking(r, op, me, other)
      PROVE  IInv'
  <2> DEFINE new == [op |-> op, me |-> me, other |-> other, stage |-> "check",
                     wanted |-> {me, other} \in friends]
  <2>1. new \in Talking
    <3>1. ({me, other} \in friends) \in BOOLEAN
      OBVIOUS
    <3> QED
      BY <3>1 DEF Talking
  <2>2. new.stage # "write" /\ new.wanted = ({new.me, new.other} \in friends)
    OBVIOUS
  <2>3. req' = [req EXCEPT ![r] = new] /\ UNCHANGED <<known, friends, msgs, nextId, opened>>
    BY <1>5 DEF ArriveTalking
  <2> HIDE DEF new
  <2> QED
    BY <2>1, <2>2, <2>3, RequestStep DEF IInv, TypeOK
<1>6. ASSUME NEW r \in Requests, NEW op \in {"edit", "delete"}, NEW me \in Users,
             NEW id \in Ids, ArriveChanging(r, op, me, id)
      PROVE  IInv'
  <2> DEFINE new == [op |-> op, me |-> me, id |-> id, stage |-> "check"]
  <2>1. new \in Changing /\ new.stage # "write"
    BY DEF Changing
  <2>2. req' = [req EXCEPT ![r] = new] /\ UNCHANGED <<known, friends, msgs, nextId, opened>>
    BY <1>6 DEF ArriveChanging
  <2>3. new \notin Talking
    BY <2>1, Kinds
  <2> HIDE DEF new
  <2> QED
    BY <2>1, <2>2, <2>3, RequestStep DEF IInv, TypeOK
<1>7. ASSUME NEW r \in Requests, NEW op \in {"send", "get"}, CheckFriends(r, op) PROVE IInv'
  BY <1>7, CheckFriendsStep
<1>8. ASSUME NEW r \in Requests, NEW op \in {"edit", "delete"}, CheckAuthor(r, op) PROVE IInv'
  BY <1>8, CheckAuthorStep
<1>9. ASSUME NEW r \in Requests, WriteSend(r) PROVE IInv'
  BY <1>9, WriteSendStep
<1>10. ASSUME NEW r \in Requests, WriteGet(r) PROVE IInv'
  BY <1>10, WriteGetStep
<1>11. ASSUME NEW r \in Requests, WriteEdit(r) PROVE IInv'
  BY <1>11, ChangeStep DEF WriteEdit
<1>12. ASSUME NEW r \in Requests, WriteDelete(r) PROVE IInv'
  BY <1>12, ChangeStep DEF WriteDelete
<1>13. ASSUME NEW r \in Requests, Fails(r) PROVE IInv'
  BY <1>13, RequestStep, Kinds DEF Fails, Answer, IInv, TypeOK
<1>14. CASE UNCHANGED vars
  BY <1>14 DEF vars, IInv, TypeOK, FutureEmpty, AuthorsOnly, FriendsOnly, GoodRows,
               GoodRow, At
<1> QED
  BY <1>1, <1>2, <1>3, <1>4, <1>5, <1>6, <1>7, <1>8, <1>9, <1>10, <1>11, <1>12,
     <1>13, <1>14 DEF Next

LEMMA InvariantHolds == Spec => []IInv
<1>1. Init => IInv
  BY Kinds, MaxIdAssumption
     DEF Init, IInv, TypeOK, FutureEmpty, AuthorsOnly, FriendsOnly, GoodRows, GoodRow, At
<1> QED
  BY <1>1, Inductive, PTL DEF Spec

\* Every variable of Messages keeps its type.
THEOREM TypeCorrect == Spec => []TypeOK
BY InvariantHolds, PTL DEF IInv

\* Only its author ever changes what a message says.
THEOREM AuthorshipHolds == Spec => []Authorship
<1>1. IInv => Authorship
  BY DEF IInv, GoodRows, GoodRow, Authorship
<1> QED
  BY <1>1, InvariantHolds, PTL

\* Messages are sent among friends, read marks follow openings, and rows refer
\* to users that exist.
THEOREM RowsHold == Spec => [](SentAmongFriends /\ ReadWasOpened /\ References)
<1>1. IInv => SentAmongFriends /\ ReadWasOpened /\ References
  BY DEF IInv, GoodRows, GoodRow, SentAmongFriends, ReadWasOpened, References
<1> QED
  BY <1>1, InvariantHolds, PTL

\* Every message stored was sent by a request during which the two were friends,
\* however its check and its insert interleave with requests that end that.
THEOREM SentAmongFriendsHolds == Spec => []SentAmongFriends
BY RowsHold, PTL

-----------------------------------------------------------------------------
(***************************************************************************)
(* DiscordStatus.                                                          *)
(***************************************************************************)

Places == {"off", "made", "hello", "hello2", "idle", "enter", "header", "body"}
DiscordStates == {"off", "fresh", "ready", "broken"}

\* The statuses there are.
LEMMA StatusesAre ==
  /\ None \notin Games /\ Games \subseteq Nat
  /\ Blank \in Statuses /\ Blank.is = "nothing"
  /\ \A s \in {"launching", "login", "idle"} : Own(s) \in Statuses /\ Own(s).is = s
  /\ \A g \in Games, n \in Games \cup {None} :
       InGame(g, n) \in Statuses /\ InGame(g, n) = [is |-> "game", of |-> g, name |-> n]
BY StatusAssumption DEF Statuses, Own, Blank, InGame, None, Games

\* The threads there are.
LEMMA ThreadsAre ==
  /\ Start \in Threads /\ Page \in Threads /\ Launch \in Threads /\ Bridge \in Threads
  /\ Start # Page /\ Start # Launch /\ Start # Bridge /\ Page # Launch /\ Page # Bridge
  /\ Launch # Bridge /\ Nobody \notin Threads
BY DEF Start, Page, Launch, Bridge, Threads, Nobody

-----------------------------------------------------------------------------
(* What the parts of the actions do.                                       *)

\* An update is dropped, or begins.
LEMMA UpdateDoes ==
  ASSUME StatusTypeOK, NEW t \in Threads, NEW s \in Statuses, Update(t, s)
  PROVE  /\ pc' \in [Threads -> Places] /\ want' \in [Threads -> Statuses]
         /\ \A u \in Threads \ {t} : pc'[u] = pc[u] /\ want'[u] = want[u]
         /\ sock = "none" => pc'[t] = "idle" /\ want'[t] = Blank
         /\ sock # "none" => pc'[t] = "enter" /\ want'[t] = s
         /\ early' \subseteq {"mixed", "covered"} /\ early \subseteq early'
         /\ t # Start /\ pc[Start] # "idle" => early' # {}
         /\ t # Start /\ sock # "none" /\ pc[Start] \in {"made", "hello", "hello2"}
              => "mixed" \in early'
BY StatusesAre DEF Update, Ends, Goto, StatusTypeOK, Places

\* A part of a frame that is written is the first of one, the end of an update,
\* the end of the handshake, or nothing that Discord understands.
LEMMA ArriveDoes ==
  ASSUME StatusTypeOK, NEW t \in Threads, NEW part \in {"header", "body"}, Writes(t, part)
  PROVE  /\ sock = "up" /\ discord \in {"fresh", "ready"}
         /\ \/ /\ part = "header" /\ half = Nobody
               /\ half' = t /\ discord' = discord /\ shown' = shown
            \/ /\ part = "body" /\ half = t /\ discord = "ready"
               /\ half' = Nobody /\ discord' = "ready" /\ shown' = want[t]
            \/ /\ part = "body" /\ half = t /\ discord = "fresh" /\ pc[t] = "hello2"
               /\ half' = Nobody /\ discord' = "ready" /\ shown' = shown
            \/ /\ part = "header" => half # Nobody
               /\ part = "body" => half # t \/ (discord = "fresh" /\ pc[t] # "hello2")
               /\ half' = Nobody /\ discord' = "broken" /\ shown' = Blank
<1>1. sock = "up" /\ discord \in {"fresh", "ready"} /\ Arrives(t, part)
  BY DEF Writes, Reached
<1>2. CASE part = "header"
  BY <1>1, <1>2 DEF Arrives
<1>3. CASE part = "body"
  <2>1. CASE half = t /\ discord = "ready"
    BY <1>1, <1>3, <2>1 DEF Arrives
  <2>2. CASE half = t /\ discord = "fresh" /\ pc[t] = "hello2"
    BY <1>1, <1>3, <2>2 DEF Arrives
  <2>3. CASE half # t \/ (discord = "fresh" /\ pc[t] # "hello2")
    <3>1. ~(half = t /\ discord = "ready")
      BY <2>3
    <3>2. half' = Nobody /\ discord' = "broken"
      BY <1>1, <1>3, <2>3 DEF Arrives
    <3>3. shown' = Blank
      BY <1>1, <3>1, <3>2, Zenon DEF Arrives
    <3> QED
      BY <1>1, <1>3, <2>3, <3>2, <3>3
  <2> QED
    BY <1>1, <2>1, <2>2, <2>3
<1> QED
  BY <1>1, <1>2, <1>3

LEMMA EndsDoes ==
  ASSUME StatusTypeOK, NEW t \in Threads, Ends(t)
  PROVE  /\ pc' \in [Threads -> Places] /\ want' \in [Threads -> Statuses]
         /\ \A u \in Threads \ {t} : pc'[u] = pc[u] /\ want'[u] = want[u]
         /\ pc'[t] = "idle" /\ want'[t] = Blank
BY StatusesAre DEF Ends, Goto, StatusTypeOK, Places

LEMMA GotoDoes ==
  ASSUME StatusTypeOK, NEW t \in Threads, NEW s \in Places, Goto(t, s)
  PROVE  /\ pc' \in [Threads -> Places] /\ pc'[t] = s
         /\ \A u \in Threads \ {t} : pc'[u] = pc[u]
BY DEF Goto, StatusTypeOK, Places

-----------------------------------------------------------------------------
(* The types.                                                              *)

Lines == [by : Games, is : Words]

\* What Discord makes of what is written has the right kind.
LEMMA WriteTypes ==
  ASSUME StatusTypeOK, NEW t \in Threads, NEW part \in {"header", "body"},
         Writes(t, part) \/ WriteFails
  PROVE  /\ discord' \in DiscordStates /\ half' \in Threads \cup {Nobody}
         /\ shown' \in Statuses
<1>1. CASE Writes(t, part)
  BY <1>1, ArriveDoes, StatusesAre DEF StatusTypeOK, DiscordStates
<1>2. CASE WriteFails
  BY <1>2 DEF WriteFails, StatusTypeOK, DiscordStates
<1> QED
  BY <1>1, <1>2

LEMMA WorkTypes ==
  ASSUME StatusTypeOK, NEW t \in Threads, Work(t)
  PROVE  StatusTypeOK'
<1>1. CASE Enter(t)
  BY <1>1, GotoDoes DEF Enter, StatusTypeOK, player, Places
<1>2. CASE SendHeader(t)
  <2>1. /\ pc' \in [Threads -> Places] /\ want' \in [Threads -> Statuses]
        /\ lock' \in {lock, Nobody}
    BY <1>2, GotoDoes, EndsDoes DEF SendHeader, StatusTypeOK, Places
  <2>2. Writes(t, "header") \/ WriteFails
    BY <1>2 DEF SendHeader
  <2> QED
    BY <1>2, <2>1, <2>2, WriteTypes DEF SendHeader, StatusTypeOK, player, Places, DiscordStates
<1>3. CASE SendBody(t)
  <2>1. Writes(t, "body") \/ WriteFails
    BY <1>3 DEF SendBody
  <2> QED
    BY <1>3, <2>1, EndsDoes, WriteTypes
       DEF SendBody, StatusTypeOK, player, Places, DiscordStates
<1> QED
  BY <1>1, <1>2, <1>3 DEF Work

LEMMA StartTypes ==
  ASSUME StatusTypeOK, StartThread
  PROVE  StatusTypeOK'
<1>1. CASE MakeSocket
  BY <1>1, GotoDoes, ThreadsAre DEF MakeSocket, StatusTypeOK, player, Places
<1>2. CASE Connect
  BY <1>2, GotoDoes, ThreadsAre DEF Connect, StatusTypeOK, player, Places
<1>3. ASSUME NEW part \in {"header", "body"}, NEW from, Handshake(part, from)
      PROVE  StatusTypeOK'
  <2>1. Writes(Start, part) \/ WriteFails
    BY <1>3 DEF Handshake
  <2>2. /\ discord' \in DiscordStates /\ half' \in Threads \cup {Nobody}
        /\ shown' \in Statuses
    BY <2>1, WriteTypes, ThreadsAre
  <2>3. /\ pc' \in [Threads -> Places] /\ want' \in [Threads -> Statuses]
        /\ early' \subseteq {"mixed", "covered"} /\ sock' \in {sock, "none"}
    <3>1. CASE Goto(Start, "hello2") /\ UNCHANGED <<want, early, sock>>
      BY <3>1, GotoDoes, ThreadsAre DEF StatusTypeOK, Places
    <3>2. CASE Update(Start, Own("launching")) /\ UNCHANGED sock
      BY <3>2, UpdateDoes, ThreadsAre, StatusesAre
    <3>3. CASE Goto(Start, "idle") /\ sock' = "none" /\ UNCHANGED <<want, early>>
      BY <3>3, GotoDoes, ThreadsAre DEF StatusTypeOK, Places
    <3> QED
      BY <1>3, <3>1, <3>2, <3>3 DEF Handshake
  <2> QED
    BY <1>3, <2>2, <2>3 DEF Handshake, StatusTypeOK, player, Places, DiscordStates
<1> QED
  BY <1>1, <1>2, <1>3 DEF StartThread, HelloHeader, HelloBody

\* A line that is taken is one of a game.
LEMMA TakesDoes ==
  ASSUME StatusTypeOK, NEW l, Takes(l)
  PROVE  /\ lines # << >> /\ Head(lines) \in Lines /\ Head(lines).by \in Games
         /\ lines' = Tail(lines) /\ lines' \in Seq(Lines) /\ Len(lines') <= MaxLines
<1>1. lines \in Seq(Lines) /\ lines # << >> /\ Len(lines) <= MaxLines /\ lines' = Tail(lines)
  BY DEF Takes, StatusTypeOK, Lines
<1>2. Head(lines) \in Lines /\ Tail(lines) \in Seq(Lines)
  BY <1>1
<1>3. Len(Tail(lines)) <= MaxLines
  BY <1>1, StatusAssumption
<1> QED
  BY <1>1, <1>2, <1>3 DEF Lines

LEMMA ReadTypes ==
  ASSUME StatusTypeOK, Reads
  PROVE  StatusTypeOK'
<1>1. CASE Hello
  <2>1. /\ Head(lines).by \in Games /\ lines' \in Seq(Lines) /\ Len(lines') <= MaxLines
        /\ UNCHANGED <<connection, game, games, asks, late>>
    BY <1>1, TakesDoes DEF Hello, Takes
  <2>2. /\ pc' \in [Threads -> Places] /\ want' \in [Threads -> Statuses]
        /\ early' \subseteq {"mixed", "covered"}
    <3>1. InGame(Head(lines).by, Head(lines).by) \in Statuses
      BY <2>1, StatusesAre
    <3> QED
      BY <1>1, <3>1, UpdateDoes, ThreadsAre DEF Hello
  <2>3. mc_name' \in Games \cup {None} /\ named' \subseteq Games
    BY <1>1, <2>1 DEF Hello, bridge_set_player_name, StatusTypeOK
  <2> QED
    BY <2>1, <2>2, <2>3 DEF StatusTypeOK, connection, Places, Lines
<1>2. CASE bridge_handle_discord
  <2>1. InGame(Head(lines).by, mc_name) \in Statuses
    BY <1>2, TakesDoes, StatusesAre DEF bridge_handle_discord, StatusTypeOK
  <2> QED
    BY <1>2, <2>1, TakesDoes, UpdateDoes, ThreadsAre
       DEF bridge_handle_discord, Takes, StatusTypeOK, connection, Places, Lines
<1>3. CASE DiscordClear
  BY <1>3, TakesDoes, UpdateDoes, StatusesAre, ThreadsAre
     DEF DiscordClear, Takes, StatusTypeOK, connection, Places, Lines
<1>4. CASE Ignored
  BY <1>4, TakesDoes DEF Ignored, Takes, StatusTypeOK, connection, Places, Lines
<1> QED
  BY <1>1, <1>2, <1>3, <1>4 DEF Reads

LEMMA OtherTypes ==
  ASSUME StatusTypeOK,
         \/ \E s \in {"idle", "login"} : PageSets(s)
         \/ GameStarts \/ GameEnds
         \/ \E l \in Words : GameSends(l)
         \/ discord_rpc_shutdown \/ DiscordEnds
  PROVE  StatusTypeOK'
<1>1. ASSUME NEW s \in {"idle", "login"}, PageSets(s)
      PROVE  StatusTypeOK'
  BY <1>1, UpdateDoes, StatusesAre, ThreadsAre, StatusAssumption
     DEF PageSets, StatusTypeOK, connection, Places
<1>2. CASE GameStarts
  BY <1>2, StatusAssumption DEF GameStarts, StatusTypeOK, connection, Games
<1>3. CASE GameEnds
  BY <1>3, UpdateDoes, StatusesAre, ThreadsAre
     DEF GameEnds, StatusTypeOK, connection, Places
<1>4. ASSUME NEW l \in Words, GameSends(l)
      PROVE  StatusTypeOK'
  <2>1. [by |-> game, is |-> l] \in Lines
    BY <1>4 DEF GameSends, StatusTypeOK, Lines
  <2>2. lines' \in Seq(Lines) /\ Len(lines') <= MaxLines
    BY <1>4, <2>1, StatusAssumption DEF GameSends, StatusTypeOK, Lines
  <2> QED
    BY <1>4, <2>2 DEF GameSends, StatusTypeOK, connection, Lines
<1>5. CASE discord_rpc_shutdown
  BY <1>5, StatusesAre DEF discord_rpc_shutdown, StatusTypeOK, player
<1>6. CASE DiscordEnds
  BY <1>6, StatusesAre DEF DiscordEnds, StatusTypeOK, player
<1> QED
  BY <1>1, <1>2, <1>3, <1>4, <1>5, <1>6

LEMMA TypeInit == StatusInit => StatusTypeOK
<1> SUFFICES ASSUME StatusInit
             PROVE  StatusTypeOK
  OBVIOUS
<1>1. /\ pc \in [Threads -> Places] /\ want \in [Threads -> Statuses]
  BY StatusesAre DEF StatusInit, Places
<1>2. lines \in Seq(Lines) /\ Len(lines) <= MaxLines
  <2>1. << >> \in Seq(Lines) /\ Len(<< >>) = 0
    OBVIOUS
  <2> QED
    BY <2>1, StatusAssumption DEF StatusInit
<1>3. games \in 0..MaxGames /\ asks \in 0..MaxAsks
  BY StatusAssumption DEF StatusInit
<1> QED
  BY <1>1, <1>2, <1>3, StatusesAre DEF StatusInit, StatusTypeOK, Places, Lines

LEMMA TypeStep == StatusTypeOK /\ [StatusNext]_statusVars => StatusTypeOK'
<1> SUFFICES ASSUME StatusTypeOK, [StatusNext]_statusVars
             PROVE  StatusTypeOK'
  OBVIOUS
<1>1. CASE UNCHANGED statusVars
  BY <1>1 DEF statusVars, connection, player, StatusTypeOK
<1> QED
  BY <1>1, StartTypes, ReadTypes, WorkTypes, OtherTypes DEF StatusNext

\* The parts of an update and what each thread sends are always of the kinds the
\* code expects, and no more lines are on their way than there may be.
THEOREM StatusTypeCorrect == StatusSpec => []StatusTypeOK
BY TypeInit, TypeStep, PTL DEF StatusSpec

-----------------------------------------------------------------------------
(* FramesWhole: who is writing.                                            *)

\* Where a thread is once it shares the socket with the others
Sharing == {"idle", "enter", "header", "body"}

\* The lock is held by who writes, by nobody else; only the connecting thread
\* writes without it; and a launch thread has no update to make while its game
\* runs.
Locked ==
  /\ StatusTypeOK
  /\ \A t \in Threads : pc[t] \in {"header", "body"} <=> lock = t
  /\ \A t \in Threads \ {Start} : pc[t] \in Sharing
  /\ game # None => pc[Launch] = "idle"

\* Until the handshake is through, all others are idle; and of a frame that is
\* half written, the one who wrote the first half is to write the second.
Frames ==
  /\ pc[Start] \notin Sharing => \A t \in Threads \ {Start} : pc[t] = "idle"
  /\ pc[Start] = "off" => sock = "none"
  /\ discord = "fresh" => /\ pc[Start] \notin Sharing
                          /\ pc[Start] \in {"hello", "hello2"} => sock = "up"
  /\ discord = "ready" => pc[Start] \in Sharing
  /\ discord # "broken"
  /\ half # Nobody => Reached /\ pc[half] \in {"body", "hello2"}
  /\ discord \in {"fresh", "ready"} =>
       \A t \in Threads : pc[t] \in {"body", "hello2"} => half = t

FInv == Locked /\ ("mixed" \notin early => Frames)

\* An update that begins on an idle thread disturbs no frame.
LEMMA UpdateFrames ==
  ASSUME FInv, NEW t \in Threads \ {Start}, NEW s \in Statuses, Update(t, s), pc[t] = "idle",
         UNCHANGED connection, StatusTypeOK', game' # None => pc'[Launch] = "idle"
  PROVE  FInv'
<1>1. /\ \A u \in Threads \ {t} : pc'[u] = pc[u]
      /\ sock = "none" => pc'[t] = "idle"
      /\ sock # "none" => pc'[t] = "enter"
      /\ early \subseteq early'
      /\ sock # "none" /\ pc[Start] \in {"made", "hello", "hello2"} => "mixed" \in early'
  BY UpdateDoes DEF FInv, Locked
<1>2. UNCHANGED <<sock, lock, discord, half>>
  BY DEF connection
<1>3. pc'[t] \in {"idle", "enter"} /\ lock # t
  BY <1>1 DEF FInv, Locked
<1>4. Locked'
  BY <1>1, <1>2, <1>3 DEF FInv, Locked, Sharing
<1>5. ASSUME "mixed" \notin early'
      PROVE  Frames'
  <2>1. Frames
    BY <1>1, <1>5 DEF FInv
  <2>2. pc[Start] \notin Sharing => pc'[t] = "idle"
    BY <1>1, <1>5, <2>1, ThreadsAre DEF Frames, FInv, Locked, StatusTypeOK, Sharing
  <2>3. half # t
    BY <2>1, ThreadsAre DEF Frames
  <2> QED
    BY <1>1, <1>2, <1>3, <2>1, <2>2, <2>3, ThreadsAre
       DEF Frames, FInv, Locked, StatusTypeOK, Sharing, Reached
<1> QED
  BY <1>4, <1>5 DEF FInv

LEMMA WorkFrames ==
  ASSUME FInv, NEW t \in Threads, Work(t), StatusTypeOK'
  PROVE  FInv'
<1>1. CASE Enter(t)
  <2>1. /\ \A u \in Threads \ {t} : pc'[u] = pc[u]
        /\ pc[t] = "enter" /\ pc'[t] = "header" /\ lock = Nobody /\ lock' = t
        /\ UNCHANGED <<sock, discord, half, early, game>>
    BY <1>1, GotoDoes DEF Enter, FInv, Locked, Places, player
  <2>2. Locked'
    BY <2>1, ThreadsAre DEF FInv, Locked, Sharing
  <2>3. Frames => Frames'
    BY <2>1, ThreadsAre DEF Frames, FInv, Locked, StatusTypeOK, Sharing, Reached
  <2> QED
    BY <2>1, <2>2, <2>3 DEF FInv
<1>2. CASE SendHeader(t) /\ Writes(t, "header")
  <2>1. /\ \A u \in Threads \ {t} : pc'[u] = pc[u]
        /\ pc[t] = "header" /\ pc'[t] = "body"
        /\ UNCHANGED <<sock, lock, early, game>>
    <3>1. ~WriteFails
      BY <1>2 DEF Writes, WriteFails
    <3> QED
      BY <1>2, <3>1, GotoDoes DEF SendHeader, FInv, Locked, Places, player
  <2>2. Locked'
    BY <2>1, ThreadsAre DEF FInv, Locked, Sharing
  <2>3. ASSUME Frames
        PROVE  Frames'
    <3>1. \A u \in Threads : pc[u] \notin {"body", "hello2"}
      BY <2>1, <2>3, ThreadsAre DEF FInv, Locked, Frames, StatusTypeOK, Sharing
    <3>2. half = Nobody
      BY <2>3, <3>1 DEF Frames, FInv, Locked, StatusTypeOK
    <3>3. half' = t /\ discord' = discord /\ Reached /\ Reached'
      BY <1>2, <2>1, <3>2, ArriveDoes DEF FInv, Locked, Writes, Reached
    <3> QED
      BY <2>1, <2>3, <3>1, <3>3, ThreadsAre DEF Frames, FInv, Locked, StatusTypeOK, Sharing
  <2> QED
    BY <2>1, <2>2, <2>3 DEF FInv
<1>3. CASE (SendHeader(t) \/ SendBody(t)) /\ WriteFails
  <2>1. /\ \A u \in Threads \ {t} : pc'[u] = pc[u]
        /\ pc[t] \in {"header", "body"} /\ pc'[t] = "idle" /\ lock' = Nobody
        /\ UNCHANGED <<sock, discord, half, early, game>>
    <3>1. ~Writes(t, "header") /\ ~Writes(t, "body")
      BY <1>3 DEF Writes, WriteFails
    <3> QED
      BY <1>3, <3>1, EndsDoes DEF SendHeader, SendBody, WriteFails, FInv, Locked, player
  <2>2. Locked'
    BY <2>1, ThreadsAre DEF FInv, Locked, Sharing
  <2>3. ASSUME Frames
        PROVE  Frames'
    <3>1. half = Nobody /\ (discord = "off" \/ sock # "up")
      BY <1>3, <2>3 DEF WriteFails, Reached, Frames, FInv, Locked, StatusTypeOK
    <3>2. discord \notin {"fresh", "ready"} \/ pc[t] # "body"
      BY <2>1, <2>3, <3>1, ThreadsAre DEF Frames
    <3> QED
      BY <2>1, <2>3, <3>1, <3>2, ThreadsAre DEF Frames, FInv, Locked, StatusTypeOK, Sharing
  <2> QED
    BY <2>1, <2>2, <2>3 DEF FInv
<1>4. CASE SendBody(t) /\ Writes(t, "body")
  <2>1. /\ \A u \in Threads \ {t} : pc'[u] = pc[u]
        /\ pc[t] = "body" /\ pc'[t] = "idle" /\ lock' = Nobody
        /\ UNCHANGED <<sock, early, game>>
    BY <1>4, EndsDoes DEF SendBody, FInv, Locked, player
  <2>2. Locked'
    BY <2>1, ThreadsAre DEF FInv, Locked, Sharing
  <2>3. ASSUME Frames
        PROVE  Frames'
    <3>1. half = t /\ discord = "ready"
      BY <1>4, <2>1, <2>3, ArriveDoes, ThreadsAre DEF Frames, FInv, Locked, Sharing
    <3>2. half' = Nobody /\ discord' = "ready"
      BY <1>4, <2>1, <3>1, ArriveDoes DEF FInv, Locked
    <3>3. \A u \in Threads : pc'[u] \notin {"body", "hello2"}
      BY <2>1, <2>3, <3>1, ThreadsAre DEF Frames, FInv, Locked, Sharing
    <3> QED
      BY <2>1, <2>3, <3>1, <3>2, <3>3, ThreadsAre DEF Frames, FInv, Locked, StatusTypeOK, Sharing
  <2> QED
    BY <2>1, <2>2, <2>3 DEF FInv
<1> QED
  BY <1>1, <1>2, <1>3, <1>4 DEF Work, SendHeader, SendBody

LEMMA StartFrames ==
  ASSUME FInv, StartThread, StatusTypeOK'
  PROVE  FInv'
<1>1. CASE MakeSocket
  <2>1. /\ \A u \in Threads \ {Start} : pc'[u] = pc[u]
        /\ pc[Start] = "off" /\ pc'[Start] = "made" /\ sock' = "made"
        /\ UNCHANGED <<lock, discord, half, early, game>>
    BY <1>1, GotoDoes, ThreadsAre DEF MakeSocket, FInv, Locked, Places, player
  <2>2. Locked'
    BY <2>1, ThreadsAre DEF FInv, Locked, Sharing
  <2>3. Frames => Frames'
    BY <2>1, ThreadsAre DEF Frames, FInv, Locked, StatusTypeOK, Sharing, Reached
  <2> QED
    BY <2>1, <2>2, <2>3 DEF FInv
<1>2. CASE Connect
  <2>1. /\ \A u \in Threads \ {Start} : pc'[u] = pc[u]
        /\ pc[Start] = "made"
        /\ \/ discord = "fresh" /\ sock' = "up" /\ pc'[Start] = "hello"
           \/ discord # "fresh" /\ sock' = "none" /\ pc'[Start] = "idle"
        /\ UNCHANGED <<lock, discord, half, early, game>>
    BY <1>2, GotoDoes, ThreadsAre DEF Connect, FInv, Locked, Places, player
  <2>2. Locked'
    BY <2>1, ThreadsAre DEF FInv, Locked, Sharing
  <2>3. Frames => Frames'
    BY <2>1, ThreadsAre DEF Frames, FInv, Locked, StatusTypeOK, Sharing, Reached
  <2> QED
    BY <2>1, <2>2, <2>3 DEF FInv
<1>3. ASSUME NEW part \in {"header", "body"}, NEW from \in {"hello", "hello2"},
             Handshake(part, from), WriteFails
      PROVE  FInv'
  <2>1. /\ \A u \in Threads \ {Start} : pc'[u] = pc[u]
        /\ pc[Start] = from /\ pc'[Start] = "idle" /\ sock' = "none"
        /\ UNCHANGED <<lock, discord, half, early, game>>
    <3>1. ~Writes(Start, part)
      BY <1>3 DEF Writes, WriteFails
    <3> QED
      BY <1>3, <3>1, GotoDoes, ThreadsAre
         DEF Handshake, WriteFails, FInv, Locked, Places, player
  <2>2. Locked'
    BY <2>1, ThreadsAre DEF FInv, Locked, Sharing
  <2>3. ASSUME Frames
        PROVE  Frames'
    <3>1. half = Nobody /\ ~Reached
      BY <1>3, <2>3 DEF WriteFails, Frames
    <3>2. discord \notin {"fresh", "ready"} \/ from # "hello2"
      BY <2>1, <2>3, <3>1, ThreadsAre DEF Frames
    <3>3. discord # "ready"
      BY <2>1, <2>3 DEF Frames, Sharing
    <3>4. discord # "fresh"
      BY <3>1, <2>1, <2>3 DEF Reached, Frames, FInv, Locked
    <3> QED
      BY <2>1, <2>3, <3>1, <3>2, <3>3, <3>4, ThreadsAre
         DEF Frames, FInv, Locked, StatusTypeOK, Sharing, Reached
  <2> QED
    BY <2>1, <2>2, <2>3 DEF FInv
<1>4. CASE HelloHeader /\ Writes(Start, "header")
  <2>1. /\ \A u \in Threads \ {Start} : pc'[u] = pc[u]
        /\ pc[Start] = "hello" /\ pc'[Start] = "hello2"
        /\ UNCHANGED <<sock, lock, early, game>>
    <3>1. ~WriteFails
      BY <1>4 DEF Writes, WriteFails
    <3> QED
      BY <1>4, <3>1, GotoDoes, ThreadsAre
         DEF HelloHeader, Handshake, FInv, Locked, Places, player
  <2>2. Locked'
    BY <2>1, ThreadsAre DEF FInv, Locked, Sharing
  <2>3. ASSUME Frames
        PROVE  Frames'
    <3>1. \A u \in Threads : pc[u] \notin {"body", "hello2"}
      BY <2>1, <2>3, ThreadsAre DEF Frames, FInv, Locked, Sharing
    <3>2. half = Nobody
      BY <2>3, <3>1 DEF Frames, FInv, Locked, StatusTypeOK
    <3>3. half' = Start /\ discord' = discord /\ Reached /\ Reached'
      BY <1>4, <2>1, <3>2, ArriveDoes, ThreadsAre DEF FInv, Locked, Writes, Reached
    <3> QED
      BY <2>1, <2>3, <3>1, <3>3, ThreadsAre DEF Frames, FInv, Locked, StatusTypeOK, Sharing
  <2> QED
    BY <2>1, <2>2, <2>3 DEF FInv
<1>5. CASE HelloBody /\ Writes(Start, "body")
  <2>1. /\ \A u \in Threads \ {Start} : pc'[u] = pc[u]
        /\ pc[Start] = "hello2" /\ pc'[Start] = "enter"
        /\ early \subseteq early' /\ UNCHANGED <<sock, lock, game>>
    <3>1. ~WriteFails /\ sock # "none"
      BY <1>5 DEF Writes, WriteFails, Reached
    <3> QED
      BY <1>5, <3>1, UpdateDoes, StatusesAre, ThreadsAre
         DEF HelloBody, Handshake, FInv, Locked, player
  <2>2. Locked'
    BY <2>1, ThreadsAre DEF FInv, Locked, Sharing
  <2>3. ASSUME Frames
        PROVE  Frames'
    <3>1. half = Start /\ discord = "fresh"
      BY <1>5, <2>1, <2>3, ArriveDoes, ThreadsAre DEF Frames, FInv, Locked, Sharing
    <3>2. half' = Nobody /\ discord' = "ready"
      BY <1>5, <2>1, <3>1, ArriveDoes, ThreadsAre DEF FInv, Locked
    <3>3. \A u \in Threads : pc'[u] \notin {"body", "hello2"}
      BY <2>1, <2>3, ThreadsAre DEF Frames, Sharing
    <3> QED
      BY <2>1, <3>2, <3>3, ThreadsAre DEF Frames, Sharing
  <2> QED
    BY <2>1, <2>2, <2>3 DEF FInv
<1> QED
  BY <1>1, <1>2, <1>3, <1>4, <1>5 DEF StartThread, HelloHeader, HelloBody, Handshake

LEMMA OtherFrames ==
  ASSUME FInv, StatusTypeOK',
         \/ Reads \/ \E s \in {"idle", "login"} : PageSets(s)
         \/ GameStarts \/ GameEnds
         \/ \E l \in Words : GameSends(l)
         \/ discord_rpc_shutdown \/ DiscordEnds
  PROVE  FInv'
<1>1. CASE Hello \/ bridge_handle_discord \/ DiscordClear
  <2>1. /\ pc[Bridge] = "idle" /\ UNCHANGED connection /\ game' = game
        /\ lines # << >> /\ Head(lines).by \in Games
    BY <1>1, TakesDoes DEF Hello, bridge_handle_discord, DiscordClear, Takes, FInv, Locked
  <2>2. PICK s \in Statuses : Update(Bridge, s)
    <3>1. \A n \in Games \cup {None} : InGame(Head(lines).by, n) \in Statuses
      BY <2>1, StatusesAre
    <3> QED
      BY <1>1, <2>1, <3>1, StatusesAre
         DEF Hello, bridge_handle_discord, DiscordClear, FInv, Locked, StatusTypeOK
  <2>3. game' # None => pc'[Launch] = "idle"
    BY <2>1, <2>2, UpdateDoes, ThreadsAre DEF FInv, Locked
  <2> QED
    BY <2>1, <2>2, <2>3, UpdateFrames, ThreadsAre
<1>2. ASSUME NEW s \in {"idle", "login"}, PageSets(s)
      PROVE  FInv'
  <2>1. Own(s) \in Statuses /\ Update(Page, Own(s)) /\ game' = game
    BY <1>2, StatusesAre DEF PageSets
  <2>2. game' # None => pc'[Launch] = "idle"
    BY <2>1, UpdateDoes, ThreadsAre DEF FInv, Locked
  <2> QED
    BY <1>2, <2>1, <2>2, UpdateFrames, ThreadsAre DEF PageSets
<1>3. CASE GameEnds
  <2>1. /\ Own("idle") \in Statuses /\ Update(Launch, Own("idle")) /\ game' = None
        /\ pc[Launch] = "idle" /\ UNCHANGED connection
    BY <1>3, StatusesAre DEF GameEnds, FInv, Locked
  <2> QED
    BY <2>1, UpdateFrames, ThreadsAre
<1>4. CASE GameStarts \/ Ignored \/ \E l \in Words : GameSends(l)
  <2>1. /\ UNCHANGED <<connection, pc, early>>
        /\ game' # None => pc[Launch] = "idle"
    BY <1>4 DEF GameStarts, Ignored, Takes, GameSends, FInv, Locked
  <2> QED
    BY <2>1 DEF FInv, Locked, Frames, connection, Reached
<1>5. CASE discord_rpc_shutdown \/ DiscordEnds
  <2>1. /\ UNCHANGED <<lock, pc, early, game>> /\ half' = Nobody /\ discord' = "off"
        /\ sock' \in {sock, "none"}
    BY <1>5 DEF discord_rpc_shutdown, DiscordEnds, player
  <2> QED
    BY <2>1 DEF FInv, Locked, Frames
<1> QED
  BY <1>1, <1>2, <1>3, <1>4, <1>5 DEF Reads

LEMMA FHolds == StatusSpec => []FInv
<1>1. StatusInit => FInv
  BY TypeInit, ThreadsAre
     DEF StatusInit, FInv, Locked, Frames, Sharing, Reached
<1>2. FInv /\ [StatusNext]_statusVars => FInv'
  <2> SUFFICES ASSUME FInv, [StatusNext]_statusVars
               PROVE  FInv'
    OBVIOUS
  <2>1. StatusTypeOK'
    BY TypeStep DEF FInv, Locked
  <2>2. CASE UNCHANGED statusVars
    BY <2>2 DEF statusVars, connection, player, FInv, Locked, StatusTypeOK, Frames, Reached
  <2> QED
    BY <2>1, <2>2, StartFrames, WorkFrames, OtherFrames DEF StatusNext
<1> QED
  BY <1>1, <1>2, PTL DEF StatusSpec

\* The updates of the four threads never mix on the wire, unless one began before
\* the connecting thread, which takes no lock, was through.
THEOREM FramesWholeHolds == StatusSpec => []FramesWhole
<1>1. FInv => FramesWhole
  BY DEF FInv, Frames, FramesWhole
<1> QED
  BY <1>1, FHolds, PTL

-----------------------------------------------------------------------------
(* StatusTrue: what is shown.                                              *)

\* Only a connection that is up and past the handshake shows anything, and only
\* the bridge thread asks for a game, only the connecting one for "launching".
Showing ==
  /\ discord # "ready" => shown = Blank
  /\ discord = "ready" => sock = "up" /\ pc[Start] \in Sharing
  /\ \A t \in Threads : /\ want[t].is = "game" => t = Bridge
                        /\ want[t].is = "launching" => t = Start

\* Lines come in the order of the games, of which the one with a name that came
\* last is the one the name is from.
InOrder ==
  /\ \A i, j \in DOMAIN lines : i <= j => lines[i].by <= lines[j].by
  /\ \A i \in DOMAIN lines : lines[i].by <= games /\ \A g \in named : g <= lines[i].by
  /\ \A g \in named : g <= games /\ g <= mc_name
  /\ mc_name # None => mc_name \in named
  /\ game \in {None, games}

\* A game that gave a name is called by that name.
Fits(s) == s.is = "game" /\ s.of \in named => s.name = s.of

Called == Fits(want[Bridge]) /\ (pc[Bridge] = "idle" => Fits(shown))

\* When a game has ended and its lines are read, the launch thread is about to
\* say so, or has done it.
Over ==
  game = None /\ ~late =>
    /\ lines = << >> /\ pc[Bridge] = "idle"
    /\ shown.is = "game" => pc[Launch] # "idle"

\* When the start was through before the page said anything, the same of the page.
Said ==
  asks > 0 /\ early = {} =>
    /\ pc[Start] = "idle"
    /\ shown.is = "launching" => pc[Page] # "idle"

SInv == Locked /\ Showing /\ InOrder /\ Called /\ Over /\ Said

\* A step of an update shows what was asked for, nothing, or what was shown.
LEMMA WorkDoes ==
  ASSUME Locked, Showing, NEW t \in Threads, Work(t)
  PROVE  /\ \A u \in Threads \ {t} : pc'[u] = pc[u] /\ want'[u] = want[u]
         /\ pc[t] \in Sharing \ {"idle"} /\ pc'[t] \in Sharing
         /\ \/ pc'[t] # "idle" /\ want'[t] = want[t] /\ shown' \in {shown, Blank}
            \/ pc'[t] = "idle" /\ want'[t] = Blank /\ shown' \in {want[t], Blank}
         /\ discord' # "ready" => shown' = Blank
         /\ discord' = "ready" => discord = "ready"
         /\ UNCHANGED <<sock, player, early>>
<1>1. CASE Enter(t)
  BY <1>1, GotoDoes DEF Enter, Locked, Showing, Places, Sharing
<1>2. CASE SendHeader(t) /\ Writes(t, "header")
  <2>1. ~WriteFails
    BY <1>2 DEF Writes, WriteFails
  <2>2. /\ \A u \in Threads \ {t} : pc'[u] = pc[u]
        /\ pc[t] = "header" /\ pc'[t] = "body" /\ UNCHANGED <<want, sock, player, early>>
    BY <1>2, <2>1, GotoDoes DEF SendHeader, Locked, Places
  <2>3. \/ discord' = discord /\ shown' = shown
        \/ discord' = "broken" /\ shown' = Blank
    BY <1>2, ArriveDoes DEF Locked
  <2> QED
    BY <2>2, <2>3 DEF Showing, Sharing
<1>3. CASE (SendHeader(t) \/ SendBody(t)) /\ WriteFails
  <2>1. ~Writes(t, "header") /\ ~Writes(t, "body")
    BY <1>3 DEF Writes, WriteFails
  <2>2. Ends(t) /\ pc[t] \in {"header", "body"} /\ UNCHANGED <<discord, shown, sock, player, early>>
    BY <1>3, <2>1 DEF SendHeader, SendBody, WriteFails
  <2>3. discord # "ready" /\ shown = Blank
    BY <1>3 DEF WriteFails, Reached, Showing
  <2> QED
    BY <2>2, <2>3, EndsDoes DEF Locked, Sharing
<1>4. CASE SendBody(t) /\ Writes(t, "body")
  <2>1. Ends(t) /\ pc[t] = "body" /\ UNCHANGED <<sock, player, early>>
    BY <1>4 DEF SendBody
  <2>2. \/ discord = "ready" /\ discord' = "ready" /\ shown' = want[t]
        \/ discord' = "broken" /\ shown' = Blank
    BY <1>4, <2>1, ArriveDoes DEF Locked
  <2> QED
    BY <2>1, <2>2, EndsDoes DEF Locked, Sharing
<1> QED
  BY <1>1, <1>2, <1>3, <1>4 DEF Work, SendHeader, SendBody

\* The connecting thread shows nothing yet.
LEMMA StartDoes ==
  ASSUME Locked, Showing, StartThread
  PROVE  /\ \A u \in Threads \ {Start} : pc'[u] = pc[u] /\ want'[u] = want[u]
         /\ pc[Start] \notin Sharing
         /\ want'[Start] \in {want[Start], Own("launching"), Blank}
         /\ shown' = Blank
         /\ discord' = "ready" => sock' = "up" /\ pc'[Start] \in Sharing
         /\ early \subseteq early' /\ UNCHANGED player
<1>1. CASE MakeSocket \/ Connect
  <2>1. /\ \A u \in Threads \ {Start} : pc'[u] = pc[u]
        /\ pc[Start] \in {"off", "made"} /\ UNCHANGED <<discord, shown, want, player, early>>
    BY <1>1, GotoDoes, ThreadsAre DEF MakeSocket, Connect, Locked, Places
  <2> QED
    BY <2>1 DEF Showing, Sharing
<1>2. ASSUME NEW part \in {"header", "body"}, NEW from \in {"hello", "hello2"},
             Handshake(part, from), WriteFails
      PROVE  /\ \A u \in Threads \ {Start} : pc'[u] = pc[u]
             /\ pc[Start] = from /\ UNCHANGED <<discord, shown, want, player, early>>
  <2>1. ~Writes(Start, part)
    BY <1>2 DEF Writes, WriteFails
  <2> QED
    BY <1>2, <2>1, GotoDoes, ThreadsAre DEF Handshake, WriteFails, Locked, Places
<1>3. CASE HelloHeader /\ Writes(Start, "header")
  <2>1. ~WriteFails
    BY <1>3 DEF Writes, WriteFails
  <2>2. /\ \A u \in Threads \ {Start} : pc'[u] = pc[u]
        /\ pc[Start] = "hello" /\ UNCHANGED <<sock, want, player, early>>
    BY <1>3, <2>1, GotoDoes, ThreadsAre DEF HelloHeader, Handshake, Locked, Places
  <2>3. discord # "ready" /\ shown = Blank
    BY <2>2 DEF Showing, Sharing
  <2>4. discord' # "ready" /\ shown' = Blank
    BY <1>3, <2>3, ArriveDoes, ThreadsAre DEF Locked
  <2> QED
    BY <2>2, <2>4 DEF Sharing
<1>4. CASE HelloBody /\ Writes(Start, "body")
  <2>1. ~WriteFails /\ sock = "up"
    BY <1>4 DEF Writes, WriteFails, Reached
  <2>2. /\ \A u \in Threads \ {Start} : pc'[u] = pc[u] /\ want'[u] = want[u]
        /\ pc[Start] = "hello2" /\ pc'[Start] = "enter" /\ want'[Start] = Own("launching")
        /\ early \subseteq early' /\ UNCHANGED <<sock, player>>
    BY <1>4, <2>1, UpdateDoes, StatusesAre, ThreadsAre DEF HelloBody, Handshake, Locked
  <2>3. discord # "ready" /\ shown = Blank
    BY <2>2 DEF Showing, Sharing
  <2>4. shown' = Blank
    BY <1>4, <2>3, ArriveDoes, ThreadsAre DEF Locked
  <2> QED
    BY <2>1, <2>2, <2>4 DEF Sharing
<1>5. CASE (HelloHeader \/ HelloBody) /\ WriteFails
  <2>1. /\ \A u \in Threads \ {Start} : pc'[u] = pc[u]
        /\ pc[Start] \in {"hello", "hello2"} /\ UNCHANGED <<discord, shown, want, player, early>>
    BY <1>5, <1>2 DEF HelloHeader, HelloBody
  <2> QED
    BY <2>1 DEF Showing, Sharing
<1> QED
  BY <1>1, <1>3, <1>4, <1>5 DEF StartThread, HelloHeader, HelloBody, Handshake

LEMMA WorkShows ==
  ASSUME SInv, Locked', NEW t \in Threads, Work(t)
  PROVE  SInv'
<1>1. /\ \A u \in Threads \ {t} : pc'[u] = pc[u] /\ want'[u] = want[u]
      /\ pc[t] \in Sharing \ {"idle"} /\ pc'[t] \in Sharing
      /\ \/ pc'[t] # "idle" /\ want'[t] = want[t] /\ shown' \in {shown, Blank}
         \/ pc'[t] = "idle" /\ want'[t] = Blank /\ shown' \in {want[t], Blank}
      /\ discord' # "ready" => shown' = Blank
      /\ discord' = "ready" => discord = "ready"
      /\ UNCHANGED <<sock, player, early>>
  BY WorkDoes DEF SInv
<1>2. Showing'
  BY <1>1, StatusesAre, ThreadsAre DEF SInv, Showing
<1>3. InOrder'
  BY <1>1 DEF SInv, InOrder, player
<1>4. Called'
  <2>1. Fits(want[Bridge])' /\ Fits(Blank)'
    BY <1>1, StatusesAre, ThreadsAre DEF SInv, Called, Fits, player
  <2>2. ASSUME pc'[Bridge] = "idle"
        PROVE  Fits(shown)'
    <3>1. CASE t = Bridge
      BY <1>1, <2>1, <2>2, <3>1 DEF SInv, Called, Fits, player
    <3>2. CASE t # Bridge
      <4>1. want[t].is # "game" /\ pc[Bridge] = "idle"
        BY <1>1, <2>2, <3>2, ThreadsAre DEF SInv, Showing
      <4> QED
        BY <1>1, <2>1, <4>1 DEF SInv, Called, Fits, player
    <3> QED
      BY <3>1, <3>2
  <2> QED
    BY <2>1, <2>2 DEF Called
<1>5. Over'
  <2> SUFFICES ASSUME game' = None, ~late'
               PROVE  /\ lines' = << >> /\ pc'[Bridge] = "idle"
                      /\ shown'.is = "game" => pc'[Launch] # "idle"
    BY DEF Over
  <2>1. lines' = << >> /\ pc[Bridge] = "idle" /\ (shown.is = "game" => pc[Launch] # "idle")
    BY <1>1 DEF SInv, Over, player
  <2>2. t # Bridge /\ want[t].is # "game"
    BY <1>1, <2>1 DEF SInv, Showing
  <2> QED
    BY <1>1, <2>1, <2>2, StatusesAre, ThreadsAre
<1>6. Said'
  <2> SUFFICES ASSUME asks' > 0, early' = {}
               PROVE  /\ pc'[Start] = "idle"
                      /\ shown'.is = "launching" => pc'[Page] # "idle"
    BY DEF Said
  <2>1. pc[Start] = "idle" /\ (shown.is = "launching" => pc[Page] # "idle")
    BY <1>1 DEF SInv, Said, player
  <2>2. t # Start /\ want[t].is # "launching"
    BY <1>1, <2>1 DEF SInv, Showing
  <2> QED
    BY <1>1, <2>1, <2>2, StatusesAre, ThreadsAre
<1> QED
  BY <1>2, <1>3, <1>4, <1>5, <1>6 DEF SInv

LEMMA StartShows ==
  ASSUME SInv, Locked', StartThread
  PROVE  SInv'
<1>1. /\ \A u \in Threads \ {Start} : pc'[u] = pc[u] /\ want'[u] = want[u]
      /\ pc[Start] \notin Sharing
      /\ want'[Start] \in {want[Start], Own("launching"), Blank}
      /\ shown' = Blank
      /\ discord' = "ready" => sock' = "up" /\ pc'[Start] \in Sharing
      /\ early \subseteq early' /\ UNCHANGED player
  BY StartDoes DEF SInv
<1>2. Showing'
  <2>1. /\ want'[Start].is = "launching" \/ want'[Start] = want[Start]
           \/ want'[Start].is = "nothing"
    BY <1>1, StatusesAre
  <2> QED
    BY <1>1, <2>1, ThreadsAre DEF SInv, Showing
<1>3. InOrder'
  BY <1>1 DEF SInv, InOrder, player
<1>4. Called'
  BY <1>1, StatusesAre, ThreadsAre DEF SInv, Called, Fits, player
<1>5. Over'
  BY <1>1, StatusesAre, ThreadsAre DEF SInv, Over, player
<1>6. Said'
  <2>1. asks' > 0 /\ early' = {} => FALSE
    BY <1>1 DEF SInv, Said, Sharing, player
  <2> QED
    BY <2>1 DEF Said
<1> QED
  BY <1>2, <1>3, <1>4, <1>5, <1>6 DEF SInv

\* What an update of an idle thread changes.
LEMMA BeginDoes ==
  ASSUME Locked, Showing, NEW t \in Threads \ {Start}, NEW s \in Statuses, Update(t, s),
         UNCHANGED connection
  PROVE  /\ \A u \in Threads \ {t} : pc'[u] = pc[u] /\ want'[u] = want[u]
         /\ \/ pc'[t] = "idle" /\ want'[t] = Blank /\ shown = Blank
            \/ pc'[t] = "enter" /\ want'[t] = s
         /\ UNCHANGED <<sock, discord, shown>>
         /\ early \subseteq early' /\ (early' = {} => pc[Start] = "idle")
         /\ (s.is = "game" => t = Bridge) /\ s.is # "launching" => Showing'
<1>1. /\ \A u \in Threads \ {t} : pc'[u] = pc[u] /\ want'[u] = want[u]
      /\ \/ sock = "none" /\ pc'[t] = "idle" /\ want'[t] = Blank
         \/ sock # "none" /\ pc'[t] = "enter" /\ want'[t] = s
      /\ early \subseteq early' /\ (early' = {} => pc[Start] = "idle")
  BY UpdateDoes DEF Locked
<1>2. UNCHANGED <<sock, discord, shown>>
  BY DEF connection
<1>3. sock = "none" => shown = Blank
  BY DEF Showing
<1>4. ASSUME s.is = "game" => t = Bridge, s.is # "launching"
      PROVE  Showing'
  BY <1>1, <1>2, <1>4, StatusesAre, ThreadsAre DEF Showing
<1> QED
  BY <1>1, <1>2, <1>3, <1>4

\* A line that is read is the oldest.
LEMMA TakesOrder ==
  ASSUME SInv, NEW l, Takes(l)
  PROVE  /\ \A i, j \in DOMAIN lines' : i <= j => lines'[i].by <= lines'[j].by
         /\ \A i \in DOMAIN lines' :
              /\ Head(lines).by <= lines'[i].by /\ lines'[i].by <= games
              /\ \A g \in named : g <= lines'[i].by
         /\ Head(lines).by \in Games /\ Head(lines).by <= games
         /\ \A g \in named : g <= Head(lines).by
         /\ game # None \/ late
<1>1. lines # << >> /\ lines \in Seq(Lines) /\ lines' = Tail(lines) /\ Head(lines).by \in Games
  BY TakesDoes DEF SInv, Locked, StatusTypeOK, Lines
<1>2. /\ DOMAIN lines = 1..Len(lines) /\ Len(lines) \in Nat \ {0} /\ Head(lines) = lines[1]
      /\ DOMAIN lines' = 1..(Len(lines) - 1)
      /\ \A i \in DOMAIN lines' : lines'[i] = lines[i + 1]
  BY <1>1
<1>3. 1 \in DOMAIN lines /\ \A i \in DOMAIN lines' : i + 1 \in DOMAIN lines /\ 1 <= i + 1
  BY <1>2
<1>4. \A i, j \in DOMAIN lines' : i <= j => lines'[i].by <= lines'[j].by
  BY <1>2, <1>3 DEF SInv, InOrder
<1>5. \A i \in DOMAIN lines' :
        /\ Head(lines).by <= lines'[i].by /\ lines'[i].by <= games
        /\ \A g \in named : g <= lines'[i].by
  BY <1>2, <1>3 DEF SInv, InOrder
<1>6. Head(lines).by <= games /\ \A g \in named : g <= Head(lines).by
  BY <1>2, <1>3 DEF SInv, InOrder
<1> QED
  BY <1>1, <1>4, <1>5, <1>6 DEF SInv, Over

\* A line of the game is read by an idle bridge thread.
LEMMA ReadShows ==
  ASSUME SInv, Locked', Reads
  PROVE  SInv'
<1>1. /\ pc[Bridge] = "idle" /\ lines # << >>
      /\ UNCHANGED <<connection, game, games, asks, late>>
      /\ \A i, j \in DOMAIN lines' : i <= j => lines'[i].by <= lines'[j].by
      /\ \A i \in DOMAIN lines' :
           /\ Head(lines).by <= lines'[i].by /\ lines'[i].by <= games
           /\ \A g \in named : g <= lines'[i].by
      /\ Head(lines).by \in Games /\ Head(lines).by <= games
      /\ \A g \in named : g <= Head(lines).by
      /\ game # None \/ late
  <2>1. PICK l \in Words : Takes(l)
    BY DEF Reads, Hello, bridge_handle_discord, DiscordClear, Ignored, Words
  <2> QED
    BY <2>1, TakesOrder, TakesDoes DEF Takes, SInv, Locked
<1>0. PICK g0 \in Games : g0 = Head(lines).by
  BY <1>1
<1>2. Over'
  BY <1>1 DEF Over
<1>3. ASSUME mc_name' = g0, named' = named \cup {g0}
      PROVE  InOrder'
  BY <1>0, <1>1, <1>3, StatusesAre DEF SInv, InOrder
<1>4. ASSUME mc_name' = mc_name, named' = named
      PROVE  InOrder'
  BY <1>1, <1>4 DEF SInv, InOrder
<1>5. ASSUME NEW s \in Statuses, Update(Bridge, s), s.is # "launching", Fits(s)',
             Fits(Blank)', InOrder'
      PROVE  SInv'
  <2>1. /\ \A u \in Threads \ {Bridge} : pc'[u] = pc[u] /\ want'[u] = want[u]
        /\ \/ pc'[Bridge] = "idle" /\ want'[Bridge] = Blank /\ shown = Blank
           \/ pc'[Bridge] = "enter" /\ want'[Bridge] = s
        /\ UNCHANGED <<sock, discord, shown>>
        /\ early \subseteq early' /\ Showing'
    BY <1>1, <1>5, BeginDoes, ThreadsAre DEF SInv
  <2>2. Called'
    BY <1>5, <2>1 DEF Called, Fits
  <2>3. Said'
    BY <1>1, <2>1, ThreadsAre DEF SInv, Said
  <2> QED
    BY <1>2, <1>5, <2>1, <2>2, <2>3 DEF SInv
<1>6. Fits(Blank)'
  BY StatusesAre DEF Fits
<1>7. CASE Hello
  <2>1. /\ Update(Bridge, InGame(g0, g0)) /\ mc_name' = g0 /\ named' = named \cup {g0}
    BY <1>0, <1>7 DEF Hello, bridge_set_player_name
  <2>2. InGame(g0, g0) \in Statuses /\ InGame(g0, g0) = [is |-> "game", of |-> g0, name |-> g0]
    BY StatusesAre
  <2>3. Fits(InGame(g0, g0))'
    BY <2>2 DEF Fits, InGame
  <2>4. InOrder'
    BY <1>3, <2>1
  <2> QED
    BY <1>5, <1>6, <2>1, <2>2, <2>3, <2>4
<1>8. CASE bridge_handle_discord
  <2>0. PICK n \in Games \cup {None} : n = mc_name
    BY DEF SInv, Locked, StatusTypeOK
  <2>1. Update(Bridge, InGame(g0, n)) /\ mc_name' = mc_name /\ named' = named
    BY <1>0, <1>8, <2>0 DEF bridge_handle_discord
  <2>2. /\ InGame(g0, n) \in Statuses
        /\ InGame(g0, n) = [is |-> "game", of |-> g0, name |-> n]
    BY StatusesAre
  <2>3. g0 \in named => mc_name = g0
    <3>1. ASSUME g0 \in named
          PROVE  mc_name = g0
      <4>1. g0 <= mc_name /\ g0 \in Nat \ {0}
        BY <3>1 DEF SInv, InOrder, Games
      <4>2. mc_name \in Nat /\ mc_name # None
        BY <4>1, StatusesAre DEF SInv, Locked, StatusTypeOK, None
      <4>3. mc_name <= g0
        BY <1>0, <1>1, <4>2 DEF SInv, InOrder
      <4> QED
        BY <4>1, <4>2, <4>3
    <3> QED
      BY <3>1
  <2>4. Fits(InGame(g0, n))'
    BY <2>0, <2>1, <2>2, <2>3 DEF Fits, InGame
  <2>5. InOrder'
    BY <1>4, <2>1
  <2> QED
    BY <1>5, <1>6, <2>1, <2>2, <2>4, <2>5
<1>9. CASE DiscordClear
  BY <1>4, <1>5, <1>6, <1>9, StatusesAre DEF DiscordClear
<1>10. CASE Ignored
  <2>1. UNCHANGED <<pc, want, early, mc_name, named, connection>>
    BY <1>1, <1>10 DEF Ignored
  <2> QED
    BY <1>1, <1>2, <1>4, <2>1 DEF SInv, Showing, Called, Fits, Said, connection
<1> QED
  BY <1>7, <1>8, <1>9, <1>10 DEF Reads

LEMMA OtherShows ==
  ASSUME SInv, Locked',
         \/ \E s \in {"idle", "login"} : PageSets(s)
         \/ GameStarts \/ GameEnds
         \/ \E l \in Words : GameSends(l)
         \/ discord_rpc_shutdown \/ DiscordEnds
  PROVE  SInv'
<1>1. ASSUME NEW s \in {"idle", "login"}, PageSets(s)
      PROVE  SInv'
  <2>1. /\ Own(s) \in Statuses /\ Own(s).is = s /\ Update(Page, Own(s)) /\ pc[Page] = "idle"
        /\ asks' = asks + 1
        /\ UNCHANGED <<connection, mc_name, game, games, lines, named, late>>
    BY <1>1, StatusesAre DEF PageSets
  <2>2. /\ \A u \in Threads \ {Page} : pc'[u] = pc[u] /\ want'[u] = want[u]
        /\ \/ pc'[Page] = "idle" /\ shown = Blank
           \/ pc'[Page] = "enter"
        /\ UNCHANGED <<sock, discord, shown>>
        /\ early' = {} => pc[Start] = "idle"
        /\ Showing'
    BY <2>1, BeginDoes, ThreadsAre DEF SInv
  <2>3. InOrder' /\ Called' /\ Over'
    BY <2>1, <2>2, ThreadsAre DEF SInv, InOrder, Called, Fits, Over
  <2>4. Said'
    BY <2>2, StatusesAre, ThreadsAre DEF Said
  <2> QED
    BY <2>2, <2>3, <2>4 DEF SInv
<1>2. CASE GameStarts
  <2>1. /\ game = None /\ game' = games + 1 /\ games' = games + 1 /\ games \in Nat
        /\ UNCHANGED <<connection, pc, want, mc_name, lines, asks, named, late, early>>
    BY <1>2 DEF GameStarts, SInv, Locked, StatusTypeOK
  <2>2. InOrder'
    <3>1. \A i \in DOMAIN lines : lines[i].by \in Nat
      <4>1. lines \in Seq(Lines)
        BY DEF SInv, Locked, StatusTypeOK, Lines
      <4>2. \A i \in DOMAIN lines : lines[i] \in Lines
        BY <4>1
      <4>3. \A x \in Lines : x.by \in Nat
        BY StatusesAre DEF Lines
      <4> QED
        BY <4>2, <4>3
    <3>2. \A g \in named : g \in Nat
      BY StatusesAre DEF SInv, Locked, StatusTypeOK
    <3> QED
      BY <2>1, <3>1, <3>2 DEF SInv, InOrder
  <2>3. Over'
    BY <2>1, StatusesAre DEF Over, None
  <2> QED
    BY <2>1, <2>2, <2>3 DEF SInv, Showing, Called, Fits, Said, connection
<1>3. CASE GameEnds
  <2>1. /\ Own("idle") \in Statuses /\ Own("idle").is = "idle" /\ Update(Launch, Own("idle"))
        /\ game # None /\ game' = None /\ pc[Launch] = "idle"
        /\ late' = (late \/ lines # <<>> \/ pc[Bridge] # "idle")
        /\ UNCHANGED <<connection, mc_name, games, lines, asks, named>>
    BY <1>3, StatusesAre DEF GameEnds, SInv, Locked
  <2>2. /\ \A u \in Threads \ {Launch} : pc'[u] = pc[u] /\ want'[u] = want[u]
        /\ \/ pc'[Launch] = "idle" /\ shown = Blank
           \/ pc'[Launch] = "enter"
        /\ UNCHANGED <<sock, discord, shown>>
        /\ early \subseteq early' /\ Showing'
    BY <2>1, BeginDoes, ThreadsAre DEF SInv
  <2>3. InOrder' /\ Called'
    BY <2>1, <2>2, ThreadsAre DEF SInv, InOrder, Called, Fits
  <2>4. Over'
    BY <2>1, <2>2, StatusesAre, ThreadsAre DEF Over
  <2>5. Said'
    BY <2>1, <2>2, ThreadsAre DEF SInv, Said
  <2> QED
    BY <2>2, <2>3, <2>4, <2>5 DEF SInv
<1>4. ASSUME NEW l \in Words, GameSends(l)
      PROVE  SInv'
  <2> DEFINE line == [by |-> game, is |-> l]
  <2>1. /\ game # None /\ game = games /\ line \in Lines /\ lines' = Append(lines, line)
        /\ UNCHANGED <<connection, pc, want, mc_name, game, games, asks, named, late, early>>
    BY <1>4 DEF GameSends, SInv, InOrder, Locked, StatusTypeOK, Lines
  <2>2. /\ lines \in Seq(Lines) /\ DOMAIN lines = 1..Len(lines) /\ Len(lines) \in Nat
        /\ DOMAIN lines' = 1..(Len(lines) + 1)
        /\ \A i \in DOMAIN lines : lines'[i] = lines[i]
        /\ lines'[Len(lines) + 1] = line
    BY <2>1 DEF SInv, Locked, StatusTypeOK, Lines
  <2>3. \A i \in DOMAIN lines' : i \in DOMAIN lines \/ lines'[i].by = games
    BY <2>1, <2>2
  <2>4. games \in Nat
    BY DEF SInv, Locked, StatusTypeOK
  <2>5. InOrder'
    <3>1. \A i, j \in DOMAIN lines' : i <= j => lines'[i].by <= lines'[j].by
      <4> SUFFICES ASSUME NEW i \in DOMAIN lines', NEW j \in DOMAIN lines', i <= j
                   PROVE  lines'[i].by <= lines'[j].by
        OBVIOUS
      <4>1. CASE j \in DOMAIN lines
        <5>1. i \in DOMAIN lines
          BY <2>2, <4>1
        <5> QED
          BY <2>2, <4>1, <5>1 DEF SInv, InOrder
      <4>2. CASE lines'[j].by = games
        BY <2>2, <2>3, <2>4, <4>2 DEF SInv, InOrder
      <4> QED
        BY <2>3, <4>1, <4>2
    <3>2. \A i \in DOMAIN lines' : lines'[i].by <= games /\ \A g \in named : g <= lines'[i].by
      BY <2>2, <2>3, <2>4 DEF SInv, InOrder
    <3> QED
      BY <2>1, <3>1, <3>2 DEF SInv, InOrder
  <2>6. Over'
    BY <2>1 DEF Over
  <2> QED
    BY <2>1, <2>5, <2>6 DEF SInv, Showing, Called, Fits, Said, connection
<1>5. CASE discord_rpc_shutdown \/ DiscordEnds
  <2>1. /\ UNCHANGED <<lock, pc, want, player, early>> /\ discord' = "off" /\ shown' = Blank
    BY <1>5 DEF discord_rpc_shutdown, DiscordEnds
  <2>2. Showing' /\ InOrder'
    BY <2>1 DEF SInv, Showing, InOrder, player
  <2>3. Called' /\ Over' /\ Said'
    BY <2>1, StatusesAre DEF SInv, Called, Fits, Over, Said, player
  <2> QED
    BY <2>2, <2>3 DEF SInv
<1> QED
  BY <1>1, <1>2, <1>3, <1>4, <1>5

LEMMA SHolds == StatusSpec => []SInv
<1>1. StatusInit => SInv
  <2> SUFFICES ASSUME StatusInit
               PROVE  SInv
    OBVIOUS
  <2>1. Locked /\ Showing /\ Called /\ Over /\ Said
    BY TypeInit, StatusesAre, ThreadsAre
       DEF StatusInit, Locked, Showing, Called, Fits, Over, Said, Sharing
  <2>2. InOrder
    BY DEF StatusInit, InOrder
  <2> QED
    BY <2>1, <2>2 DEF SInv
<1>2. SInv /\ Locked' /\ [StatusNext]_statusVars => SInv'
  <2> SUFFICES ASSUME SInv, Locked', [StatusNext]_statusVars
               PROVE  SInv'
    OBVIOUS
  <2>1. CASE UNCHANGED statusVars
    BY <2>1 DEF statusVars, connection, player, SInv, Showing, InOrder, Called, Fits, Over, Said
  <2> QED
    BY <2>1, StartShows, WorkShows, ReadShows, OtherShows DEF StatusNext
<1>3. FInv => Locked
  BY DEF FInv
<1> QED
  BY <1>1, <1>2, <1>3, FHolds, PTL DEF StatusSpec

\* When all is quiet no game is shown that has ended, unless it ended with lines
\* unread; a game is shown under no other's name; and what the page said is not
\* covered by the start, unless it was said before the handshake.
THEOREM StatusTrueHolds == StatusSpec => []StatusTrue
<1>1. SInv => StatusTrue
  BY ThreadsAre DEF SInv, Called, Fits, Over, Said, StatusTrue, Quiet
<1> QED
  BY <1>1, SHolds, PTL

=============================================================================
