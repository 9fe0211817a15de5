---------------------------- MODULE AccountProofs ---------------------------
(***************************************************************************)
(* What holds of Account for every set of users and launch threads, and    *)
(* for any number of tokens and faults, proved with TLAPS.                 *)
(*                                                                         *)
(* A step of one call leaves what the others hold alone (Moves), and until *)
(* it comes to the file it leaves that alone too (Still): MoveStep says    *)
(* what such a step must see to.  The steps of Microsoft's answer, of the  *)
(* file and of a restart have lemmas of their own.                         *)
(***************************************************************************)
EXTENDS Account, TLAPS

(* Where a call knows its user, and where it has a token to save.          *)
Knowing == {"exchange", "token", "xbox", "xsts", "mc", "profile", "open", "write"}
Carrying == {"xbox", "xsts", "mc", "profile", "open", "write"}

\* What a call holds at each of its steps, and whose the descriptors are.
Calls ==
    /\ \A a \in Actors : /\ pc[a] \in Knowing => held[a].user \in Users
                         /\ held[a].new # NoToken <=> pc[a] \in Carrying
    /\ \A l \in Threads : job[l] \in {"none", "resolve"}
    /\ \A a \in fds : pc[a] = "write"
    /\ pc[Ui] = "write" => Ui \in fds

\* Who writes is about to write the account that is signed in.
Kept == /\ ~strayed => \A a \in fds : held[a].user = owner
        /\ AccountKept

\* A token that a call has got is taken, is not on disk yet, and is nobody
\* else's; the one it replaces is spoken for as long as it is not.
Succession ==
    /\ live \subseteq 1..given /\ (Readable => file.token <= given)
    /\ \A a \in Actors : held[a].new <= given /\ held[a].old <= given
    /\ \A a \in Actors : held[a].new # NoToken =>
          /\ held[a].new \in live
          /\ Readable => file.token # held[a].new
          /\ \A b \in Actors : held[b].old # held[a].new
    /\ \A a, b \in Actors :
          held[a].new # NoToken /\ held[a].new = held[b].new => a = b
    /\ TokenKept

\* A launch during which nobody else changed the file finds an account in it.
Undisturbed ==
    \A l \in Threads \ touched :
       /\ pc[l] \in (Knowing \ {"write"}) \cup {"read"} => Readable
       /\ pc[l] = "write" => l \in fds
       /\ pc[l] = "resolved" /\ ~strayed => launchAs[l] = owner

IInv == TypeOK /\ Calls /\ Kept /\ Succession /\ Undisturbed

Held == [user : Users \cup {Nobody}, old : Tokens \cup {NoToken},
         new : Tokens \cup {NoToken}]

LEMMA Shapes ==
  /\ \A u \in Users : u # Nobody
  /\ Absent \notin Accounts /\ Torn \notin Accounts /\ Absent # Torn
  /\ \A u, t : Saved(u, t).user = u /\ Saved(u, t).token = t
  /\ \A u, t : Saved(u, t) # Absent /\ Saved(u, t) # Torn
  /\ \A u \in Users, t \in Tokens : Saved(u, t) \in Accounts
  /\ \A f \in Accounts : f.user \in Users /\ f.token \in Tokens /\ f # Absent
<1>1. \A u \in Users : u # Nobody
  BY UsersAssumption
<1>2. Absent # Torn
  <2>1. Absent.is = "absent" /\ Torn.is = "torn"
    BY DEF Absent, Torn
  <2> QED
    BY <2>1
<1>3. \A u, t : Saved(u, t).user = u /\ Saved(u, t).token = t
  BY DEF Saved
<1>4. \A u, t : Saved(u, t) # Absent /\ Saved(u, t) # Torn
  <2>1. \A u, t : Saved(u, t).is = "account"
    BY DEF Saved
  <2>2. Absent.is = "absent" /\ Torn.is = "torn"
    BY DEF Absent, Torn
  <2> QED
    BY <2>1, <2>2
<1>5. \A u \in Users, t \in Tokens : Saved(u, t) \in Accounts
  BY DEF Accounts
<1>6. \A f \in Accounts : \E u \in Users, t \in Tokens : f = Saved(u, t)
  BY DEF Accounts
<1> QED
  BY <1>1, <1>2, <1>3, <1>4, <1>5, <1>6

LEMMA Numbers ==
  /\ NoToken \notin Tokens /\ Tokens \subseteq Nat /\ NoToken \in Nat
  /\ \A t \in Tokens : t > 0
  /\ Nothing \in Held
  /\ Nothing.new = NoToken /\ Nothing.old = NoToken /\ Nothing.user = Nobody
BY AccountAssumption DEF NoToken, Tokens, Nothing, Held

LEMMA HeldTypes ==
  ASSUME TypeOK, NEW a \in Actors
  PROVE  /\ held[a] \in Held
         /\ held[a].user \in Users \cup {Nobody}
         /\ held[a].old \in Tokens \cup {NoToken} /\ held[a].old \in Nat
         /\ held[a].new \in Tokens \cup {NoToken} /\ held[a].new \in Nat
<1>1. held[a] \in Held
  BY DEF TypeOK, Held
<1> QED
  BY <1>1, Numbers DEF Held

-----------------------------------------------------------------------------
\* A step of one call that leaves the file, its descriptors, what Microsoft
\* takes and who is signed in alone.
Still == UNCHANGED <<file, fds, live, given, owner, strayed>>
Moves(a) == \A b \in Actors \ {a} :
              pc'[b] = pc[b] /\ held'[b] = held[b] /\ job'[b] = job[b]

LEMMA CallsMove ==
  ASSUME IInv, NEW a \in Actors, Moves(a), UNCHANGED fds,
         pc[a] # "write", pc'[a] # "write",
         pc'[a] \in Knowing => held'[a].user \in Users,
         held'[a].new # NoToken <=> pc'[a] \in Carrying,
         a \in Threads => job'[a] \in {"none", "resolve"}
  PROVE  Calls'
<1>1. \A b \in Actors : /\ pc'[b] \in Knowing => held'[b].user \in Users
                        /\ held'[b].new # NoToken <=> pc'[b] \in Carrying
  BY DEF Moves, IInv, Calls
<1>2. \A l \in Threads : job'[l] \in {"none", "resolve"}
  BY DEF Moves, IInv, Calls, Actors
<1>3. \A b \in fds' : pc'[b] = "write"
  BY DEF Moves, IInv, Calls, TypeOK
<1>4. pc'[Ui] = "write" => Ui \in fds'
  BY DEF Moves, IInv, Calls, Actors
<1> QED
  BY <1>1, <1>2, <1>3, <1>4 DEF Calls

LEMMA KeptMove ==
  ASSUME IInv, NEW a \in Actors, Moves(a), UNCHANGED <<file, fds, owner, strayed>>,
         pc[a] # "write", faults \in Nat, faults' \in Nat, faults <= faults',
         status' = "idle" => \/ status = "idle" \/ faults' > 0
                             \/ strayed \/ owner # Nobody
  PROVE  Kept'
<1>1. \A b \in fds' : b \in Actors \ {a} /\ held'[b] = held[b]
  BY DEF Moves, IInv, Calls, TypeOK
<1>2. ~strayed' => \A b \in fds' : held'[b].user = owner'
  BY <1>1 DEF IInv, Kept
<1>3. AccountKept'
  BY DEF IInv, Kept, AccountKept, Readable
<1> QED
  BY <1>2, <1>3 DEF Kept

LEMMA SuccessionMove ==
  ASSUME IInv, NEW a \in Actors, Moves(a), UNCHANGED <<file, live, given>>,
         held'[a].new \in {held[a].new, NoToken},
         held'[a].new # NoToken => held'[a].old = held[a].old,
         \/ held'[a].old \in {held[a].old, NoToken}
         \/ Readable /\ held'[a].old = file.token,
         dropped \subseteq dropped',
         held[a].new # NoToken /\ held'[a].new = NoToken =>
            held[a].old \in dropped' \cup {NoToken}
  PROVE  Succession'
<1> USE Numbers, Shapes
<1>1. Succession /\ TypeOK
  BY DEF IInv
<1>2. given \in Nat
  BY <1>1, AccountAssumption DEF TypeOK
<1>3. \A b \in Actors : held'[b].new <= given' /\ held'[b].old <= given'
  BY <1>1, <1>2 DEF Succession, Moves, NoToken
<1>4. \A b \in Actors : held'[b].new \in {held[b].new, NoToken}
  BY DEF Moves
<1>5. \A b, c \in Actors : held'[b].new # NoToken => held'[c].old # held'[b].new
  <2> SUFFICES ASSUME NEW b \in Actors, NEW c \in Actors, held'[b].new # NoToken
               PROVE  held'[c].old # held'[b].new
    OBVIOUS
  <2>1. held'[b].new = held[b].new
    BY <1>4
  <2>2. held[c].old # held[b].new /\ (Readable => file.token # held[b].new)
    BY <1>1, <2>1 DEF Succession
  <2> QED
    BY <2>1, <2>2 DEF Moves
<1>6. \A b, c \in Actors :
        held'[b].new # NoToken /\ held'[b].new = held'[c].new => b = c
  BY <1>1, <1>4 DEF Succession
<1>7. \A b \in Actors : held'[b].new # NoToken =>
        held'[b].new \in live' /\ (Readable' => file'.token # held'[b].new)
  BY <1>1, <1>4 DEF Succession, Readable
<1>8. TokenKept'
  <2> SUFFICES ASSUME Readable, file.token \notin live, file.token \notin dropped'
               PROVE  \E b \in Actors : held'[b].new # NoToken
                                        /\ held'[b].old = file.token
    BY DEF TokenKept, Readable
  <2>1. PICK b \in Actors : held[b].new # NoToken /\ held[b].old = file.token
    BY <1>1 DEF Succession, TokenKept
  <2>2. CASE b # a
    BY <2>1, <2>2 DEF Moves
  <2>3. CASE b = a
    <3>1. file.token # NoToken
      BY DEF Readable
    <3>2. held'[a].new # NoToken
      BY <2>1, <2>3, <3>1
    <3> QED
      BY <2>1, <2>3, <3>2
  <2> QED
    BY <2>2, <2>3
<1>9. live' \subseteq 1..given' /\ (Readable' => file'.token <= given')
  BY <1>1 DEF Succession, Readable
<1> QED
  BY <1>3, <1>5, <1>6, <1>7, <1>8, <1>9 DEF Succession

LEMMA UndisturbedMove ==
  ASSUME IInv, NEW a \in Actors, Moves(a), UNCHANGED <<file, fds, owner, strayed>>,
         pc'[a] # "write",
         \A l \in Threads \ {a} : launchAs'[l] = launchAs[l],
         touched \ {a} \subseteq touched',
         a \in Threads \ touched' =>
           /\ pc'[a] \in Knowing \cup {"read"} => Readable
           /\ pc'[a] = "resolved" /\ ~strayed => launchAs'[a] = owner
  PROVE  Undisturbed'
BY DEF IInv, Undisturbed, Moves, Actors, Readable

\* What a step of one call must see to for the invariant to go on holding.
LEMMA MoveStep ==
  ASSUME IInv, TypeOK', NEW a \in Actors, Moves(a), Still,
         pc[a] # "write", pc'[a] # "write",
         pc'[a] \in Knowing => held'[a].user \in Users,
         held'[a].new # NoToken <=> pc'[a] \in Carrying,
         a \in Threads => job'[a] \in {"none", "resolve"},
         faults <= faults',
         status' = "idle" => \/ status = "idle" \/ faults' > 0
                             \/ strayed \/ owner # Nobody,
         held'[a].new \in {held[a].new, NoToken},
         held'[a].new # NoToken => held'[a].old = held[a].old,
         \/ held'[a].old \in {held[a].old, NoToken}
         \/ Readable /\ held'[a].old = file.token,
         dropped \subseteq dropped',
         held[a].new # NoToken /\ held'[a].new = NoToken =>
            held[a].old \in dropped' \cup {NoToken},
         \A l \in Threads \ {a} : launchAs'[l] = launchAs[l],
         touched \ {a} \subseteq touched',
         a \in Threads \ touched' =>
           /\ pc'[a] \in Knowing \cup {"read"} => Readable
           /\ pc'[a] = "resolved" /\ ~strayed => launchAs'[a] = owner
  PROVE  IInv'
<1>1. faults \in Nat /\ faults' \in Nat
  BY AccountAssumption DEF IInv, TypeOK
<1>2. UNCHANGED <<file, fds, live, given, owner, strayed>>
  BY DEF Still
<1>3. Calls'
  BY <1>2, CallsMove
<1>4. Kept'
  BY <1>1, <1>2, KeptMove
<1>5. Succession'
  BY <1>2, SuccessionMove
<1>6. Undisturbed'
  BY <1>2, UndisturbedMove
<1> QED
  BY <1>3, <1>4, <1>5, <1>6 DEF IInv

-----------------------------------------------------------------------------
(* How calls end.                                                          *)

CallTypes ==
    /\ pc \in [Actors -> Steps]
    /\ job \in [Actors -> {"none", "check", "token", "login", "resolve"}]
    /\ held \in [Actors -> Held]

LEMMA ActorsType == Ui \in Actors /\ Threads \subseteq Actors /\ Ui \notin Threads
BY AccountAssumption DEF Actors

LEMMA HeldIsNamed == TypeOK => CallTypes
BY DEF TypeOK, CallTypes, Held

\* One entry of each of the three functions changes at most.
LEMMA EntryStep ==
  ASSUME CallTypes, NEW a \in Actors, NEW p \in Steps,
         NEW j \in {"none", "check", "token", "login", "resolve"}, NEW h \in Held,
         pc' = [pc EXCEPT ![a] = p], job' = [job EXCEPT ![a] = j],
         held' = [held EXCEPT ![a] = h]
  PROVE  /\ CallTypes' /\ Moves(a)
         /\ pc'[a] = p /\ job'[a] = j /\ held'[a] = h
BY DEF CallTypes, Moves

LEMMA ForgetStep ==
  ASSUME TypeOK, NEW a \in Actors, Forget(a)
  PROVE  /\ dropped \subseteq dropped' /\ dropped' \subseteq Tokens
         /\ held[a].new # NoToken => held[a].old \in dropped' \cup {NoToken}
BY HeldTypes DEF Forget, TypeOK

LEMMA EndsStep ==
  ASSUME TypeOK, NEW a \in Actors, Ends(a)
  PROVE  /\ CallTypes' /\ Moves(a)
         /\ pc'[a] = "idle" /\ job'[a] = "none" /\ held'[a] = Nothing
<1>1. Nothing \in Held /\ "idle" \in Steps
  BY Numbers DEF Steps
<1> QED
  BY <1>1, EntryStep, HeldIsNamed DEF Ends

LEMMA PassesStep ==
  ASSUME TypeOK, NEW a \in Actors, Passes(a)
  PROVE  /\ CallTypes' /\ Moves(a) /\ held'[a] = Nothing
         /\ pc'[a] \in {"idle", "read"} /\ job'[a] \in {"none", job[a]}
         /\ \/ job[a] \in {"check", "login"} /\ pc'[a] = "idle" /\ status' = "idle"
            \/ job[a] \notin {"check", "login"} /\ pc'[a] = "read" /\ status' = status
<1>1. CASE job[a] \in {"check", "login"}
  <2>1. Ends(a) /\ status' = "idle"
    BY <1>1 DEF Passes
  <2> QED
    BY <1>1, <2>1, EndsStep
<1>2. CASE job[a] \notin {"check", "login"}
  <2>1. /\ pc' = [pc EXCEPT ![a] = "read"] /\ held' = [held EXCEPT ![a] = Nothing]
        /\ job' = job /\ status' = status
    BY <1>2 DEF Passes, Goto
  <2>2. job' = [job EXCEPT ![a] = job[a]] /\ CallTypes
    BY <2>1, HeldIsNamed DEF CallTypes
  <2>3. /\ job[a] \in {"none", "check", "token", "login", "resolve"}
        /\ Nothing \in Held /\ "read" \in Steps
    BY <2>2, Numbers DEF CallTypes, Steps
  <2>4. CallTypes' /\ Moves(a) /\ pc'[a] = "read" /\ job'[a] = job[a] /\ held'[a] = Nothing
    BY <2>1, <2>2, <2>3, EntryStep
  <2> QED
    BY <1>2, <2>1, <2>4
<1> QED
  BY <1>1, <1>2

\* A step of one call that changes neither its job nor what it holds
LEMMA GotoStep ==
  ASSUME TypeOK, NEW a \in Actors, NEW p \in Steps, Goto(a, p), UNCHANGED <<job, held>>
  PROVE  /\ CallTypes' /\ Moves(a)
         /\ pc'[a] = p /\ job'[a] = job[a] /\ held'[a] = held[a]
<1>1. CallTypes /\ pc' = [pc EXCEPT ![a] = p]
  BY HeldIsNamed DEF Goto
<1>2. /\ job' = [job EXCEPT ![a] = job[a]] /\ held' = [held EXCEPT ![a] = held[a]]
      /\ job[a] \in {"none", "check", "token", "login", "resolve"} /\ held[a] \in Held
  BY <1>1 DEF CallTypes
<1> QED
  BY <1>1, <1>2, EntryStep

\* The file, the tokens and the observations of TypeOK
DataTypes ==
    /\ file \in Accounts \cup {Absent, Torn} /\ fresh \in BOOLEAN
    /\ live \subseteq Tokens /\ given \in 0..MaxTokens
    /\ fds \subseteq Actors /\ status \in {"start", "login", "idle"}
    /\ launchAs \in [Threads -> Users \cup {Nobody, Player}]
    /\ owner \in Users \cup {Nobody} /\ strayed \in BOOLEAN
    /\ dropped \subseteq Tokens /\ touched \subseteq Threads
    /\ faults \in 0..MaxFaults

LEMMA Types == TypeOK <=> CallTypes /\ DataTypes
BY DEF TypeOK, CallTypes, DataTypes, Held

LEMMA TypesAfter == ASSUME CallTypes', DataTypes' PROVE TypeOK'
BY DEF TypeOK, CallTypes, DataTypes, Held

LEMMA FailsStep ==
  ASSUME IInv, NEW a \in Actors, pc[a] # "write", Fails(a)
  PROVE  IInv'
<1> USE Numbers
<1>1. /\ Ends(a) /\ Forget(a) /\ status' \in {status, "login"}
      /\ UNCHANGED <<file, fresh, fds, live, given, launchAs, owner, strayed,
                     touched, faults>>
  BY DEF Fails, diskVars, outside
<1>2. TypeOK /\ DataTypes
  BY Types DEF IInv
<1>3. /\ CallTypes' /\ Moves(a)
      /\ pc'[a] = "idle" /\ job'[a] = "none" /\ held'[a] = Nothing
  BY <1>1, <1>2, EndsStep
<1>4. /\ dropped \subseteq dropped' /\ dropped' \subseteq Tokens
      /\ held[a].new # NoToken => held[a].old \in dropped' \cup {NoToken}
  BY <1>1, <1>2, ForgetStep
<1>5. DataTypes'
  BY <1>1, <1>2, <1>4 DEF DataTypes
<1>6. TypeOK' /\ Still
  BY <1>1, <1>3, <1>5, TypesAfter DEF Still
<1>7. faults \in Nat
  BY <1>2, AccountAssumption DEF DataTypes
<1> QED
  BY <1>1, <1>3, <1>4, <1>6, <1>7, MoveStep DEF Knowing, Carrying

\* A step that goes on with what the call holds, before it writes
LEMMA OnwardStep ==
  ASSUME IInv, NEW a \in Actors, NEW p \in Steps, Goto(a, p), UNCHANGED <<job, held>>,
         UNCHANGED <<file, fresh, fds, live, given, launchAs, owner, strayed,
                     touched, faults, dropped, status>>,
         pc[a] # "write", p # "write",
         p \in Knowing => held[a].user \in Users,
         p \in Carrying <=> pc[a] \in Carrying,
         p \in Knowing \cup {"read"} => pc[a] \in Knowing,
         p # "resolved"
  PROVE  IInv'
<1>1. TypeOK /\ DataTypes /\ CallTypes /\ Calls /\ Undisturbed
  BY Types DEF IInv
<1>2. /\ CallTypes' /\ Moves(a)
      /\ pc'[a] = p /\ job'[a] = job[a] /\ held'[a] = held[a]
  BY <1>1, GotoStep
<1>3. DataTypes'
  BY <1>1 DEF DataTypes
<1>4. TypeOK' /\ Still
  BY <1>2, <1>3, TypesAfter DEF Still
<1>5. faults \in Nat
  BY <1>1, AccountAssumption DEF DataTypes
<1>6. a \in Threads => job'[a] \in {"none", "resolve"}
  BY <1>1, <1>2 DEF Calls
<1>7. held'[a].new # NoToken <=> pc'[a] \in Carrying
  BY <1>1, <1>2 DEF Calls
<1>8. a \in Threads /\ a \notin touched /\ p \in Knowing \cup {"read"} => Readable
  BY <1>1 DEF Undisturbed
<1> QED
  BY <1>2, <1>4, <1>5, <1>6, <1>7, <1>8, MoveStep

-----------------------------------------------------------------------------
(* The steps that leave the file alone.                                    *)

LEMMA BeginStep ==
  ASSUME IInv, NEW a \in Actors,
         NEW j \in {"check", "token", "login", "resolve"},
         NEW p \in {"validate", "code"}, Begin(a, j, p),
         a \in Threads => j = "resolve",
         \A l \in Threads \ {a} : launchAs'[l] = launchAs[l],
         launchAs' \in [Threads -> Users \cup {Nobody, Player}],
         touched \ {a} \subseteq touched', touched' \subseteq Threads
  PROVE  IInv'
<1>1. TypeOK /\ DataTypes /\ CallTypes /\ Calls
  BY Types DEF IInv
<1>2. /\ pc[a] = "idle" /\ pc' = [pc EXCEPT ![a] = p] /\ job' = [job EXCEPT ![a] = j]
      /\ held' = held
      /\ UNCHANGED <<file, fresh, fds, live, given, status, owner, strayed, dropped,
                     faults>>
  BY DEF Begin, Goto, diskVars, outside
<1>3. held' = [held EXCEPT ![a] = held[a]] /\ held[a] \in Held /\ p \in Steps
  BY <1>1, <1>2 DEF CallTypes, Steps
<1>4. /\ CallTypes' /\ Moves(a)
      /\ pc'[a] = p /\ job'[a] = j /\ held'[a] = held[a]
  BY <1>1, <1>2, <1>3, EntryStep
<1>5. DataTypes'
  BY <1>1, <1>2 DEF DataTypes
<1>6. TypeOK' /\ Still
  BY <1>2, <1>4, <1>5, TypesAfter DEF Still
<1>7. faults \in Nat
  BY <1>1, AccountAssumption DEF DataTypes
<1>8. held'[a].new = NoToken /\ held[a].new = NoToken
  BY <1>1, <1>2, <1>4 DEF Calls, Carrying
<1>9. /\ pc'[a] \notin Knowing \cup Carrying \cup {"write", "read", "resolved"}
      /\ pc[a] # "write"
  BY <1>2, <1>4 DEF Knowing, Carrying
<1> QED
  BY <1>2, <1>4, <1>6, <1>7, <1>8, <1>9, MoveStep

LEMMA RequestStep ==
  ASSUME IInv,
         \/ on_check_account \/ on_get_mc_token \/ on_login_microsoft
         \/ \E l \in Threads : resolve_account(l)
  PROVE  IInv'
<1> USE ActorsType
<1>1. launchAs \in [Threads -> Users \cup {Nobody, Player}] /\ touched \subseteq Threads
  BY DEF IInv, TypeOK
<1>2. CASE on_check_account
  BY <1>1, <1>2, BeginStep DEF on_check_account
<1>3. CASE on_get_mc_token
  BY <1>1, <1>3, BeginStep DEF on_get_mc_token
<1>4. CASE on_login_microsoft
  BY <1>1, <1>4, BeginStep DEF on_login_microsoft
<1>5. ASSUME NEW l \in Threads, resolve_account(l) PROVE IInv'
  BY <1>1, <1>5, BeginStep DEF resolve_account
<1> QED
  BY <1>2, <1>3, <1>4, <1>5

LEMMA ValidateStep ==
  ASSUME IInv, NEW a \in Actors, ms_auth_validate(a)
  PROVE  IInv'
<1> USE Numbers
<1>1. TypeOK /\ DataTypes /\ CallTypes /\ Calls
  BY Types DEF IInv
<1>2. /\ pc[a] = "validate"
      /\ UNCHANGED <<file, fresh, fds, live, given, launchAs, owner, strayed,
                     touched, faults, dropped>>
  BY DEF ms_auth_validate, diskVars, outside, history
<1>3. CASE Readable /\ fresh
  <2>1. Passes(a)
    BY <1>3 DEF ms_auth_validate
  <2>2. /\ CallTypes' /\ Moves(a) /\ held'[a] = Nothing
        /\ pc'[a] \in {"idle", "read"} /\ job'[a] \in {"none", job[a]}
        /\ status' \in {"idle", status}
    BY <1>1, <2>1, PassesStep
  <2>3. DataTypes'
    BY <1>1, <1>2, <2>2 DEF DataTypes
  <2>4. TypeOK' /\ Still
    BY <1>2, <2>2, <2>3, TypesAfter DEF Still
  <2>5. faults \in Nat
    BY <1>1, AccountAssumption DEF DataTypes
  <2>6. held[a].new = NoToken
    BY <1>1, <1>2 DEF Calls, Carrying
  <2>7. strayed \/ owner # Nobody
    BY <1>3, Shapes DEF IInv, Kept, AccountKept, Readable
  <2>8. a \in Threads => job'[a] \in {"none", "resolve"}
    BY <1>1, <2>2 DEF Calls
  <2>9. pc'[a] \notin Knowing \cup Carrying \cup {"write", "resolved"}
    BY <2>2 DEF Knowing, Carrying
  <2> QED
    BY <1>2, <1>3, <2>2, <2>4, <2>5, <2>6, <2>7, <2>8, <2>9, MoveStep
<1>4. CASE ~(Readable /\ fresh)
  <2>1. Goto(a, "reread") /\ UNCHANGED <<job, held, status>>
    BY <1>4 DEF ms_auth_validate
  <2> QED
    BY <1>2, <2>1, OnwardStep DEF Knowing, Carrying, Steps
<1> QED
  BY <1>3, <1>4

LEMMA ReadRefreshStep ==
  ASSUME IInv, NEW a \in Actors, ReadRefresh(a)
  PROVE  IInv'
<1>1. TypeOK /\ DataTypes /\ CallTypes /\ Calls
  BY Types DEF IInv
<1>2. pc[a] = "reread"
  BY DEF ReadRefresh
<1>3. CASE Fails(a)
  BY <1>2, <1>3, FailsStep
<1>4. CASE ~Fails(a)
  <2> DEFINE h == [Nothing EXCEPT !.user = file.user, !.old = file.token]
  <2>1. /\ Readable /\ pc' = [pc EXCEPT ![a] = "token"] /\ held' = [held EXCEPT ![a] = h]
        /\ UNCHANGED <<file, fresh, fds, live, given, job, status, launchAs, owner,
                       strayed, dropped, touched, faults>>
    BY <1>4 DEF ReadRefresh, Goto, diskVars, outside, history
  <2>2. file.user \in Users /\ file.token \in Tokens
    BY <2>1, Shapes DEF Readable
  <2>3. h.user = file.user /\ h.old = file.token /\ h.new = NoToken
    BY DEF Nothing
  <2>4. h \in Held
    BY <2>2, Numbers DEF Held
  <2> HIDE DEF h
  <2>5. /\ job' = [job EXCEPT ![a] = job[a]]
        /\ job[a] \in {"none", "check", "token", "login", "resolve"} /\ "token" \in Steps
        /\ CallTypes
    BY <1>1, <2>1 DEF CallTypes, Steps
  <2>6. /\ CallTypes' /\ Moves(a)
        /\ pc'[a] = "token" /\ job'[a] = job[a] /\ held'[a] = h
    BY <2>1, <2>4, <2>5, EntryStep
  <2>7. DataTypes'
    BY <1>1, <2>1 DEF DataTypes
  <2>8. TypeOK' /\ Still
    BY <2>1, <2>6, <2>7, TypesAfter DEF Still
  <2>9. held[a].new = NoToken /\ (a \in Threads => job'[a] \in {"none", "resolve"})
    BY <1>1, <1>2, <2>6 DEF Calls, Carrying
  <2>10. faults \in Nat
    BY <1>1, AccountAssumption DEF DataTypes
  <2>11. pc'[a] \notin Carrying \cup {"write", "resolved"}
    BY <2>6 DEF Carrying
  <2> QED
    BY <1>2, <2>1, <2>2, <2>3, <2>6, <2>8, <2>9, <2>10, <2>11, MoveStep, Numbers
<1> QED
  BY <1>3, <1>4

\* The browser has named the account that signs in.
LEMMA NamedStep ==
  ASSUME IInv, NEW a \in Actors \ Threads, pc[a] = "code", NEW u \in Users,
         held' = [held EXCEPT ![a].user = u], Goto(a, "exchange"),
         UNCHANGED <<diskVars, outside, job, status, launchAs, history>>
  PROVE  IInv'
<1>1. TypeOK /\ DataTypes /\ CallTypes /\ Calls
  BY Types DEF IInv
<1> DEFINE h == [held[a] EXCEPT !.user = u]
<1>2. /\ pc' = [pc EXCEPT ![a] = "exchange"] /\ held' = [held EXCEPT ![a] = h]
      /\ UNCHANGED <<file, fresh, fds, live, given, job, status, launchAs, owner,
                     strayed, dropped, touched, faults>>
  BY DEF Goto, diskVars, outside, history
<1>3. held[a] \in Held
  BY <1>1 DEF CallTypes
<1>4. h \in Held /\ h.user = u /\ h.old = held[a].old /\ h.new = held[a].new
  BY <1>3 DEF Held
<1> HIDE DEF h
<1>5. /\ job' = [job EXCEPT ![a] = job[a]]
      /\ job[a] \in {"none", "check", "token", "login", "resolve"}
      /\ "exchange" \in Steps
  BY <1>1, <1>2 DEF CallTypes, Steps
<1>6. /\ CallTypes' /\ Moves(a)
      /\ pc'[a] = "exchange" /\ job'[a] = job[a] /\ held'[a] = h
  <2>1. a \in Actors
    OBVIOUS
  <2>2. CallTypes'
    BY <1>1, <1>2, <1>4, <1>5, <2>1 DEF CallTypes
  <2>3. Moves(a)
    BY <1>1, <1>2, <2>1 DEF CallTypes, Moves
  <2>4. pc'[a] = "exchange" /\ job'[a] = job[a] /\ held'[a] = h
    BY <1>1, <1>2, <2>1 DEF CallTypes
  <2> QED
    BY <2>2, <2>3, <2>4
<1>7. DataTypes'
  BY <1>1, <1>2 DEF DataTypes
<1>8. TypeOK' /\ Still
  BY <1>2, <1>6, <1>7, TypesAfter DEF Still
<1>9. held[a].new = NoToken
  BY <1>1 DEF Calls, Carrying
<1>10. faults \in Nat
  BY <1>1, AccountAssumption DEF DataTypes
<1>11. pc'[a] \notin Carrying \cup {"write", "resolved"}
  BY <1>6 DEF Carrying
<1> QED
  BY <1>2, <1>4, <1>6, <1>8, <1>9, <1>10, <1>11, MoveStep, Numbers

LEMMA BrowserStep ==
  ASSUME IInv, wait_for_oauth_code
  PROVE  IInv'
<1>1. Ui \in Actors \ Threads /\ pc[Ui] = "code"
  BY ActorsType DEF wait_for_oauth_code
<1>2. CASE Fails(Ui)
  BY <1>1, <1>2, FailsStep
<1>3. CASE ~Fails(Ui)
  <2>1. PICK u \in Users :
          /\ held' = [held EXCEPT ![Ui].user = u] /\ Goto(Ui, "exchange")
          /\ UNCHANGED <<diskVars, outside, job, status, launchAs, history>>
    BY <1>3 DEF wait_for_oauth_code
  <2> QED
    BY <1>1, <2>1, NamedStep
<1> QED
  BY <1>2, <1>3

LEMMA CallStep ==
  ASSUME IInv, NEW a \in Actors, NEW p \in {"xbox", "xsts", "mc", "profile"}, Call(a, p)
  PROVE  IInv'
<1>1. pc[a] = p
  BY DEF Call
<1>2. CASE Fails(a)
  BY <1>1, <1>2, FailsStep
<1>3. CASE ~Fails(a)
  <2>1. /\ Goto(a, After(p)) /\ UNCHANGED <<job, held>>
        /\ UNCHANGED <<file, fresh, fds, live, given, launchAs, owner, strayed,
                       touched, faults, dropped, status>>
    BY <1>3 DEF Call, diskVars, outside, history
  <2>2. After(p) \in {"xsts", "mc", "profile", "open"}
    BY DEF After
  <2>3. held[a].user \in Users
    BY <1>1 DEF IInv, Calls, Knowing
  <2> QED
    BY <1>1, <2>1, <2>2, <2>3, OnwardStep DEF Knowing, Carrying, Steps
<1> QED
  BY <1>2, <1>3

LEMMA ReadBackStep ==
  ASSUME IInv, NEW a \in Actors, ReadBack(a)
  PROVE  IInv'
<1> USE Numbers
<1>1. TypeOK /\ DataTypes /\ CallTypes /\ Calls /\ Undisturbed
  BY Types DEF IInv
<1>2. /\ pc[a] = "read"
      /\ UNCHANGED <<file, fresh, fds, live, given, status, owner, strayed, dropped,
                     touched, faults>>
  BY DEF ReadBack, diskVars, outside, history
<1>3. faults \in Nat /\ held[a].new = NoToken
  BY <1>1, <1>2, AccountAssumption DEF DataTypes, Calls, Carrying
<1>4. CASE a = Ui
  <2>1. Ends(a) /\ UNCHANGED launchAs
    BY <1>4 DEF ReadBack
  <2>2. /\ CallTypes' /\ Moves(a)
        /\ pc'[a] = "idle" /\ job'[a] = "none" /\ held'[a] = Nothing
    BY <1>1, <2>1, EndsStep
  <2>3. DataTypes'
    BY <1>1, <1>2, <2>1 DEF DataTypes
  <2>4. TypeOK' /\ Still
    BY <1>2, <2>2, <2>3, TypesAfter DEF Still
  <2>5. pc'[a] \notin Knowing \cup Carrying \cup {"write", "read", "resolved"}
    BY <2>2 DEF Knowing, Carrying
  <2> QED
    BY <1>2, <1>3, <2>1, <2>2, <2>4, <2>5, MoveStep
<1>5. CASE a # Ui
  <2>1. a \in Threads
    BY <1>5 DEF Actors
  <2> DEFINE u == IF Readable THEN file.user ELSE Player
  <2>2. /\ Goto(a, "resolved") /\ UNCHANGED <<job, held>>
        /\ launchAs' = [launchAs EXCEPT ![a] = u]
    BY <1>5 DEF ReadBack
  <2>3. u \in Users \cup {Nobody, Player}
    BY Shapes DEF Readable
  <2>4. /\ CallTypes' /\ Moves(a)
        /\ pc'[a] = "resolved" /\ job'[a] = job[a] /\ held'[a] = held[a]
    BY <1>1, <2>2, GotoStep DEF Steps
  <2>5. a \notin touched /\ ~strayed => u = owner
    BY <1>1, <1>2, <2>1 DEF Undisturbed, IInv, Kept, AccountKept
  <2> HIDE DEF u
  <2>6. DataTypes'
    BY <1>1, <1>2, <2>2, <2>3 DEF DataTypes
  <2>7. TypeOK' /\ Still
    BY <1>2, <2>4, <2>6, TypesAfter DEF Still
  <2>8. /\ launchAs'[a] = u
        /\ \A l \in Threads \ {a} : launchAs'[l] = launchAs[l]
    BY <1>1, <2>1, <2>2 DEF DataTypes
  <2>9. a \in Threads => job'[a] \in {"none", "resolve"}
    BY <1>1, <2>4 DEF Calls
  <2>10. pc'[a] \notin Knowing \cup Carrying \cup {"write", "read"}
    BY <2>4 DEF Knowing, Carrying
  <2> QED
    BY <1>2, <1>3, <2>4, <2>5, <2>7, <2>8, <2>9, <2>10, MoveStep
<1> QED
  BY <1>4, <1>5

LEMMA LeavesStep ==
  ASSUME IInv, NEW l \in Threads, Leaves(l)
  PROVE  IInv'
<1> USE Numbers, ActorsType
<1>1. TypeOK /\ DataTypes /\ CallTypes /\ Calls
  BY Types DEF IInv
<1>2. /\ pc[l] = "resolved" /\ Ends(l) /\ launchAs' = [launchAs EXCEPT ![l] = Nobody]
      /\ UNCHANGED <<file, fresh, fds, live, given, status, owner, strayed, dropped,
                     touched, faults>>
  BY DEF Leaves, diskVars, outside, history
<1>3. faults \in Nat /\ held[l].new = NoToken
  BY <1>1, <1>2, AccountAssumption DEF DataTypes, Calls, Carrying
<1>4. /\ CallTypes' /\ Moves(l)
      /\ pc'[l] = "idle" /\ job'[l] = "none" /\ held'[l] = Nothing
  BY <1>1, <1>2, EndsStep
<1>5. DataTypes'
  BY <1>1, <1>2 DEF DataTypes
<1>6. TypeOK' /\ Still
  BY <1>2, <1>4, <1>5, TypesAfter DEF Still
<1>7. pc'[l] \notin Knowing \cup Carrying \cup {"write", "read", "resolved"}
  BY <1>4 DEF Knowing, Carrying
<1>8. \A m \in Threads \ {l} : launchAs'[m] = launchAs[m]
  BY <1>1, <1>2 DEF DataTypes
<1> QED
  BY <1>2, <1>3, <1>4, <1>6, <1>7, <1>8, MoveStep

\* The account is not saved, and the call goes on as if it were.
LEMMA OpenFailsStep ==
  ASSUME IInv, NEW a \in Actors, OpenFails(a)
  PROVE  IInv'
<1> USE Numbers
<1>1. TypeOK /\ DataTypes /\ CallTypes /\ Calls /\ Undisturbed
  BY Types DEF IInv
<1>2. /\ pc[a] = "open" /\ Passes(a) /\ Forget(a)
      /\ faults < MaxFaults /\ faults' = faults + 1
      /\ UNCHANGED <<file, fresh, fds, live, given, launchAs, owner, strayed, touched>>
  BY DEF OpenFails, diskVars, outside
<1>3. /\ CallTypes' /\ Moves(a) /\ held'[a] = Nothing
      /\ pc'[a] \in {"idle", "read"} /\ job'[a] \in {"none", job[a]}
      /\ status' \in {"idle", status}
  BY <1>1, <1>2, PassesStep
<1>4. /\ dropped \subseteq dropped' /\ dropped' \subseteq Tokens
      /\ held[a].new # NoToken => held[a].old \in dropped' \cup {NoToken}
  BY <1>1, <1>2, ForgetStep
<1>5. /\ faults \in Nat /\ faults' \in 0..MaxFaults
      /\ faults <= faults' /\ faults' > 0
  BY <1>1, <1>2, AccountAssumption DEF DataTypes
<1>6. DataTypes'
  BY <1>1, <1>2, <1>3, <1>4, <1>5 DEF DataTypes
<1>7. TypeOK' /\ Still
  BY <1>2, <1>3, <1>6, TypesAfter DEF Still
<1>8. a \in Threads => job'[a] \in {"none", "resolve"}
  BY <1>1, <1>3 DEF Calls
<1>9. pc'[a] \notin Knowing \cup Carrying \cup {"write", "resolved"}
  BY <1>3 DEF Knowing, Carrying
<1>10. a \in Threads \ touched' => Readable
  BY <1>1, <1>2 DEF Undisturbed, Knowing
<1> QED
  BY <1>2, <1>3, <1>4, <1>5, <1>7, <1>8, <1>9, <1>10, MoveStep

-----------------------------------------------------------------------------
(* Microsoft's answer.                                                     *)

\* The token that comes is nobody's yet, and the one that goes is the caller's.
LEMMA GivenSuccession ==
  ASSUME IInv, NEW a \in Actors, Moves(a), UNCHANGED <<file, dropped>>,
         held[a].new = NoToken, held'[a].old = held[a].old, held'[a].new = given + 1,
         given' = given + 1,
         NEW retired \in SUBSET {held[a].old}, live' = (live \ retired) \cup {given'}
  PROVE  Succession'
<1> USE Numbers, Shapes
<1>1. Succession /\ TypeOK /\ given \in Nat
  BY AccountAssumption DEF IInv, TypeOK
<1>2. \A b \in Actors : /\ held[b].new <= given /\ held[b].old <= given
                        /\ held[b].new \in Nat /\ held[b].old \in Nat
  BY <1>1, HeldTypes DEF Succession
<1>3. \A b \in Actors : held'[b].old = held[b].old /\ (b # a => held'[b].new = held[b].new)
  BY DEF Moves
<1>4. \A b \in Actors : held'[b].new <= given' /\ held'[b].old <= given'
  BY <1>1, <1>2, <1>3
<1>5. live \subseteq 1..given /\ live' \subseteq 1..given'
  <2>1. live \subseteq 1..given
    BY <1>1 DEF Succession
  <2>2. 1..given \subseteq 1..given' /\ given' \in 1..given'
    BY <1>1
  <2> QED
    BY <2>1, <2>2
<1>6. Readable => file.token <= given /\ file.token \in Nat /\ file.token # given + 1
  <2>1. Readable => file.token <= given /\ file.token \in Nat
    BY <1>1 DEF Succession, Readable
  <2> QED
    BY <1>1, <2>1
<1>7. \A b, c \in Actors : held'[b].new # NoToken => held'[c].old # held'[b].new
  <2> SUFFICES ASSUME NEW b \in Actors, NEW c \in Actors, held'[b].new # NoToken
               PROVE  held[c].old # held'[b].new
    BY <1>3
  <2>1. CASE b = a
    <3>1. held[c].old <= given /\ held[c].old \in Nat
      BY <1>2
    <3> QED
      BY <1>1, <2>1, <3>1
  <2>2. CASE b # a
    BY <1>1, <1>3, <2>2 DEF Succession
  <2> QED
    BY <2>1, <2>2
<1>8. \A b, c \in Actors :
        held'[b].new # NoToken /\ held'[b].new = held'[c].new => b = c
  <2>1. \A b \in Actors \ {a} : held'[b].new = held[b].new /\ held'[b].new # given + 1
    <3> SUFFICES ASSUME NEW b \in Actors \ {a}
                 PROVE  held'[b].new = held[b].new /\ held'[b].new # given + 1
      OBVIOUS
    <3>1. held'[b].new = held[b].new /\ held[b].new <= given /\ held[b].new \in Nat
      BY <1>2, <1>3
    <3> QED
      BY <1>1, <3>1
  <2> QED
    BY <1>1, <2>1 DEF Succession
<1>9. \A b \in Actors : held'[b].new # NoToken =>
        held'[b].new \in live' /\ (Readable' => file'.token # held'[b].new)
  <2> SUFFICES ASSUME NEW b \in Actors, held'[b].new # NoToken
               PROVE  held'[b].new \in live' /\ (Readable => file.token # held'[b].new)
    BY DEF Readable
  <2>1. CASE b = a
    BY <1>6, <2>1
  <2>2. CASE b # a
    <3>1. /\ held'[b].new = held[b].new /\ held[b].new \in live
          /\ Readable => file.token # held[b].new
          /\ held[a].old # held[b].new
      BY <1>1, <1>3, <2>2 DEF Succession
    <3> QED
      BY <3>1
  <2> QED
    BY <2>1, <2>2
<1>10. TokenKept'
  <2> SUFFICES ASSUME Readable, file.token \notin live', file.token \notin dropped
               PROVE  \E b \in Actors : held'[b].new # NoToken
                                        /\ held'[b].old = file.token
    BY DEF TokenKept, Readable
  <2>1. CASE file.token \in live
    <3>1. file.token = held[a].old
      BY <2>1
    <3>2. held'[a].new # NoToken /\ held'[a].old = file.token
      BY <1>1, <3>1 DEF NoToken
    <3> QED
      BY <3>2
  <2>2. CASE file.token \notin live
    <3>1. PICK b \in Actors : held[b].new # NoToken /\ held[b].old = file.token
      BY <1>1, <2>2 DEF Succession, TokenKept
    <3>2. b # a
      BY <3>1
    <3> QED
      BY <1>3, <3>1, <3>2
  <2> QED
    BY <2>1, <2>2
<1>11. Readable' => file'.token <= given'
  BY <1>1, <1>6 DEF Readable
<1> QED
  BY <1>4, <1>5, <1>7, <1>8, <1>9, <1>10, <1>11 DEF Succession

LEMMA GivenStep ==
  ASSUME IInv, NEW a \in Actors, pc[a] \in {"token", "exchange"}, Given(a, "xbox")
  PROVE  IInv'
<1> USE Numbers
<1>1. TypeOK /\ DataTypes /\ CallTypes /\ Calls /\ Undisturbed /\ given \in Nat
  BY Types, AccountAssumption DEF IInv, TypeOK
<1> DEFINE h == [held[a] EXCEPT !.new = given']
<1>2. /\ given < MaxTokens /\ given' = given + 1
      /\ pc' = [pc EXCEPT ![a] = "xbox"] /\ held' = [held EXCEPT ![a] = h]
      /\ UNCHANGED <<file, fresh, fds, job, status, launchAs, owner,
                     strayed, dropped, touched, faults>>
  BY DEF Given, Goto, diskVars, history
<1>3. PICK retired \in SUBSET {held[a].old} : live' = (live \ retired) \cup {given'}
  BY DEF Given
<1>4. held[a] \in Held
  BY <1>1 DEF CallTypes
<1>5. given' \in Tokens /\ given' \in 0..MaxTokens
  BY <1>1, <1>2, AccountAssumption DEF Tokens
<1>6. h \in Held /\ h.user = held[a].user /\ h.old = held[a].old /\ h.new = given'
  BY <1>4, <1>5 DEF Held
<1> HIDE DEF h
<1>7. /\ job' = [job EXCEPT ![a] = job[a]]
      /\ job[a] \in {"none", "check", "token", "login", "resolve"}
      /\ "xbox" \in Steps
  BY <1>1, <1>2 DEF CallTypes, Steps
<1>8. /\ CallTypes' /\ Moves(a)
      /\ pc'[a] = "xbox" /\ job'[a] = job[a] /\ held'[a] = h
  <2>1. CallTypes'
    BY <1>1, <1>2, <1>6, <1>7 DEF CallTypes
  <2>2. Moves(a)
    BY <1>1, <1>2 DEF CallTypes, Moves
  <2>3. pc'[a] = "xbox" /\ job'[a] = job[a] /\ held'[a] = h
    BY <1>1, <1>2 DEF CallTypes
  <2> QED
    BY <2>1, <2>2, <2>3
<1>9. live' \subseteq Tokens
  BY <1>1, <1>3, <1>5 DEF DataTypes
<1>10. DataTypes'
  BY <1>1, <1>2, <1>5, <1>9 DEF DataTypes
<1>11. TypeOK'
  BY <1>8, <1>10, TypesAfter
<1>12. held[a].new = NoToken /\ held[a].user \in Users
  BY <1>1 DEF Calls, Carrying, Knowing
<1>13. Succession'
  BY <1>2, <1>3, <1>6, <1>8, <1>12, GivenSuccession
<1>14. /\ held'[a].user \in Users /\ held'[a].new # NoToken
       /\ a \in Threads => job'[a] \in {"none", "resolve"}
  BY <1>1, <1>5, <1>6, <1>8, <1>12 DEF Calls
<1>15. Calls'
  BY <1>2, <1>8, <1>14, CallsMove DEF Carrying
<1>16. Kept'
  <2>1. faults \in Nat /\ faults' = faults
    BY <1>1, <1>2, AccountAssumption DEF DataTypes
  <2> QED
    BY <1>2, <1>8, <2>1, KeptMove
<1>17. Undisturbed'
  <2>1. a \in Threads \ touched => Readable
    BY <1>1 DEF Undisturbed, Knowing
  <2> QED
    BY <1>2, <1>8, <2>1, UndisturbedMove
<1> QED
  BY <1>11, <1>13, <1>15, <1>16, <1>17 DEF IInv

-----------------------------------------------------------------------------
(* The file changes.                                                       *)

LEMMA LogoutStep ==
  ASSUME IInv, on_logout_account
  PROVE  IInv'
<1> USE Shapes
<1>1. /\ pc[Ui] = "idle" /\ file' = Absent /\ fresh' = FALSE /\ fds' = {}
      /\ status' = "login" /\ owner' = Nobody /\ strayed' = FALSE /\ touched' = Threads
      /\ UNCHANGED <<live, given, pc, job, held, launchAs, dropped, faults>>
  BY DEF on_logout_account, outside
<1>2. TypeOK'
  BY <1>1 DEF IInv, TypeOK
<1>3. Calls'
  BY <1>1 DEF IInv, Calls
<1>4. ~Readable'
  BY <1>1 DEF Readable
<1>5. Kept'
  BY <1>1, <1>4 DEF Kept, AccountKept
<1>6. Succession'
  BY <1>1, <1>4 DEF IInv, Succession, TokenKept
<1>7. Undisturbed'
  BY <1>1 DEF Undisturbed
<1> QED
  BY <1>2, <1>3, <1>5, <1>6, <1>7 DEF IInv

LEMMA OpenStep ==
  ASSUME IInv, NEW a \in Actors, Open(a)
  PROVE  IInv'
<1> USE Shapes, ActorsType
<1>1. TypeOK /\ DataTypes /\ CallTypes /\ Calls /\ Kept /\ Succession
  BY Types DEF IInv
<1>2. /\ pc[a] = "open" /\ Goto(a, "write") /\ UNCHANGED <<job, held>>
      /\ file' = Torn /\ fresh' = FALSE /\ fds' = fds \cup {a}
      /\ UNCHANGED <<live, given, status, launchAs, dropped, faults>>
      /\ touched' = IF a = Ui THEN Threads ELSE touched \cup (Threads \ {a})
  BY DEF Open, outside
<1>3. held[a].user \in Users /\ held[a].new # NoToken
  BY <1>1, <1>2 DEF Calls, Knowing, Carrying
<1>4. /\ owner' \in {owner, held[a].user} /\ strayed' \in BOOLEAN
      /\ ~strayed' => /\ owner' = held[a].user
                      /\ fds = {} \/ (~strayed /\ owner' = owner)
  <2>1. CASE job[a] = "login"
    BY <2>1 DEF Open
  <2>2. CASE job[a] # "login"
    BY <1>1, <2>2 DEF Open, DataTypes
  <2> QED
    BY <2>1, <2>2
<1>5. /\ CallTypes' /\ Moves(a)
      /\ pc'[a] = "write" /\ job'[a] = job[a] /\ held'[a] = held[a]
  BY <1>1, <1>2, GotoStep DEF Steps
<1>6. DataTypes'
  <2>1. touched' \subseteq Threads
    BY <1>1, <1>2 DEF DataTypes
  <2> QED
    BY <1>1, <1>2, <1>3, <1>4, <2>1 DEF DataTypes
<1>7. Calls'
  <2>1. \A b \in Actors : /\ pc'[b] \in Knowing => held'[b].user \in Users
                          /\ held'[b].new # NoToken <=> pc'[b] \in Carrying
    BY <1>1, <1>3, <1>5 DEF Moves, Calls, Carrying
  <2>2. \A b \in fds' : pc'[b] = "write"
    BY <1>1, <1>2, <1>5 DEF Moves, Calls, DataTypes
  <2>3. pc'[Ui] = "write" => Ui \in fds'
    BY <1>1, <1>2, <1>5 DEF Moves, Calls
  <2> QED
    BY <1>1, <1>2, <2>1, <2>2, <2>3 DEF Calls
<1>8. ~Readable'
  BY <1>2 DEF Readable
<1>9. Kept'
  <2>1. ~strayed' => \A b \in fds' : held'[b].user = owner'
    BY <1>1, <1>2, <1>4 DEF Kept
  <2>2. AccountKept'
    BY <1>2, <1>3, <1>4, <1>8 DEF AccountKept
  <2> QED
    BY <2>1, <2>2 DEF Kept
<1>10. Succession'
  BY <1>1, <1>2, <1>8 DEF Succession, TokenKept
<1>11. Undisturbed'
  <2> SUFFICES ASSUME NEW l \in Threads \ touched'
               PROVE  pc'[l] = "write" /\ l \in fds'
    BY DEF Undisturbed, Knowing
  <2>1. l = a
    BY <1>2
  <2> QED
    BY <1>2, <1>5, <2>1
<1> QED
  BY <1>5, <1>6, <1>7, <1>9, <1>10, <1>11, TypesAfter DEF IInv

\* What every outcome of a write has in common
LEMMA WritePasses ==
  ASSUME IInv, NEW a \in Actors, Write(a)
  PROVE  /\ CallTypes' /\ Moves(a) /\ held'[a] = Nothing
         /\ pc[a] = "write" /\ pc'[a] \in {"idle", "read"}
         /\ job'[a] \in {"none", job[a]} /\ status' \in {"idle", status}
         /\ fds' = fds \ {a} /\ UNCHANGED <<live, given, launchAs, owner, strayed>>
         /\ held[a].user \in Users /\ held[a].new \in live \cap Tokens
         /\ Calls'
<1> USE Numbers, ActorsType
<1>1. TypeOK /\ Calls /\ Succession
  BY DEF IInv
<1>2. /\ pc[a] = "write" /\ Passes(a)
      /\ fds' = fds \ {a} /\ UNCHANGED <<live, given, launchAs, owner, strayed>>
  BY DEF Write, outside
<1>3. /\ CallTypes' /\ Moves(a) /\ held'[a] = Nothing
      /\ pc'[a] \in {"idle", "read"} /\ job'[a] \in {"none", job[a]}
      /\ status' \in {"idle", status}
  BY <1>1, <1>2, PassesStep
<1>4. held[a].user \in Users /\ held[a].new # NoToken
  BY <1>1, <1>2 DEF Calls, Knowing, Carrying
<1>5. held[a].new \in live /\ live \subseteq Tokens
  BY <1>1, <1>4 DEF Succession, TypeOK
<1>6. Calls'
  <2>1. \A b \in Actors : /\ pc'[b] \in Knowing => held'[b].user \in Users
                          /\ held'[b].new # NoToken <=> pc'[b] \in Carrying
    BY <1>1, <1>3 DEF Moves, Calls, Knowing, Carrying
  <2>2. \A l \in Threads : job'[l] \in {"none", "resolve"}
    BY <1>1, <1>3 DEF Moves, Calls
  <2>3. \A b \in fds' : pc'[b] = "write"
    BY <1>1, <1>2, <1>3 DEF Moves, Calls, TypeOK
  <2>4. pc'[Ui] = "write" => Ui \in fds'
    BY <1>1, <1>2, <1>3 DEF Moves, Calls
  <2> QED
    BY <2>1, <2>2, <2>3, <2>4 DEF Calls
<1> QED
  BY <1>2, <1>3, <1>4, <1>5, <1>6

\* The account that signed in or was refreshed is on disk.
LEMMA WholeWrite ==
  ASSUME IInv, NEW a \in Actors, Write(a), a \in fds,
         file' = Saved(held[a].user, held[a].new), fresh' = TRUE,
         UNCHANGED <<dropped, touched, faults>>
  PROVE  IInv'
<1> USE Numbers, Shapes
<1>1. TypeOK /\ DataTypes /\ Kept /\ Succession /\ Undisturbed
  BY Types DEF IInv
<1>2. /\ CallTypes' /\ Moves(a) /\ held'[a] = Nothing
      /\ pc[a] = "write" /\ pc'[a] \in {"idle", "read"}
      /\ status' \in {"idle", status}
      /\ fds' = fds \ {a} /\ UNCHANGED <<live, given, launchAs, owner, strayed>>
      /\ held[a].user \in Users /\ held[a].new \in live \cap Tokens
      /\ Calls'
  BY WritePasses
<1>3. /\ file' \in Accounts /\ Readable' /\ file'.user = held[a].user
      /\ file'.token = held[a].new /\ file' # Absent
  <2> DEFINE u == held[a].user
  <2> DEFINE t == held[a].new
  <2>1. u \in Users /\ t \in Tokens /\ file' = Saved(u, t)
    BY <1>2
  <2> HIDE DEF u, t
  <2>2. file' \in Accounts /\ file'.user = u /\ file'.token = t /\ file' # Absent
    BY <2>1
  <2> QED
    BY <2>2 DEF Readable, u, t
<1>4. DataTypes'
  BY <1>1, <1>2, <1>3 DEF DataTypes
<1>5. TypeOK'
  BY <1>2, <1>4, TypesAfter
<1>6. ~strayed => held[a].user = owner /\ \A b \in fds : held[b].user = owner
  BY <1>1 DEF Kept
<1>7. Kept'
  <2>1. ~strayed' => \A b \in fds' : held'[b].user = owner'
    BY <1>1, <1>2, <1>6 DEF Moves, DataTypes
  <2>2. AccountKept'
    BY <1>2, <1>3, <1>6 DEF AccountKept
  <2> QED
    BY <2>1, <2>2 DEF Kept
<1>8. Succession'
  <2>1. given \in Nat /\ held[a].new <= given /\ held[a].new # NoToken
    BY <1>1, <1>2, AccountAssumption DEF Succession, DataTypes
  <2>2. \A b \in Actors : /\ held'[b].new \in {held[b].new, NoToken}
                          /\ held'[b].old \in {held[b].old, NoToken}
                          /\ held'[b].new # NoToken => b # a
    BY <1>2 DEF Moves
  <2>3. \A b \in Actors : held'[b].new <= given' /\ held'[b].old <= given'
    BY <1>1, <1>2, <2>1, <2>2 DEF Succession, NoToken
  <2>4. \A b \in Actors : held'[b].new # NoToken =>
          /\ held'[b].new \in live' /\ file'.token # held'[b].new
          /\ \A c \in Actors : held'[c].old # held'[b].new
    <3> SUFFICES ASSUME NEW b \in Actors, held'[b].new # NoToken
                 PROVE  /\ held'[b].new \in live' /\ file'.token # held'[b].new
                        /\ \A c \in Actors : held'[c].old # held'[b].new
      OBVIOUS
    <3>1. held'[b].new = held[b].new /\ b # a
      BY <2>2
    <3>2. /\ held[b].new \in live /\ held[a].new # held[b].new
          /\ \A c \in Actors : held[c].old # held[b].new
      BY <1>1, <2>1, <3>1 DEF Succession
    <3> QED
      BY <1>2, <1>3, <2>2, <3>1, <3>2
  <2>5. \A b, c \in Actors :
          held'[b].new # NoToken /\ held'[b].new = held'[c].new => b = c
    BY <1>1, <2>2 DEF Succession
  <2>6. TokenKept' /\ live' \subseteq 1..given' /\ (Readable' => file'.token <= given')
    BY <1>1, <1>2, <1>3, <2>1 DEF TokenKept, Succession
  <2> QED
    BY <2>3, <2>4, <2>5, <2>6 DEF Succession
<1>9. Undisturbed'
  BY <1>1, <1>2, <1>3 DEF Undisturbed, Moves, Actors, Knowing
<1> QED
  BY <1>2, <1>5, <1>7, <1>8, <1>9 DEF IInv

\* The disk was full, and the file is part of an account.
LEMMA TornWrite ==
  ASSUME IInv, NEW a \in Actors, Write(a), a \in fds, faults < MaxFaults,
         faults' = faults + 1, file' = Torn, fresh' = FALSE, touched' = Threads, Forget(a)
  PROVE  IInv'
<1> USE Numbers, Shapes
<1>1. TypeOK /\ DataTypes /\ Kept /\ Succession
  BY Types DEF IInv
<1>2. /\ CallTypes' /\ Moves(a) /\ held'[a] = Nothing
      /\ pc[a] = "write" /\ pc'[a] \in {"idle", "read"}
      /\ status' \in {"idle", status}
      /\ fds' = fds \ {a} /\ UNCHANGED <<live, given, launchAs, owner, strayed>>
      /\ held[a].user \in Users /\ held[a].new \in live \cap Tokens
      /\ Calls'
  BY WritePasses
<1>3. dropped' \subseteq Tokens
  BY <1>1, ForgetStep
<1>4. faults' \in 0..MaxFaults
  BY <1>1, AccountAssumption DEF DataTypes
<1>5. TypeOK'
  <2>1. DataTypes'
    BY <1>1, <1>2, <1>3, <1>4 DEF DataTypes
  <2> QED
    BY <1>2, <2>1, TypesAfter
<1>6. ~strayed => held[a].user = owner /\ \A b \in fds : held[b].user = owner
  BY <1>1 DEF Kept
<1>7. ~Readable'
  BY DEF Readable
<1>8. Kept'
  <2>1. ~strayed' => \A b \in fds' : held'[b].user = owner'
    BY <1>1, <1>2, <1>6 DEF Moves, DataTypes
  <2>2. AccountKept'
    BY <1>2, <1>6, <1>7 DEF AccountKept
  <2> QED
    BY <2>1, <2>2 DEF Kept
<1>9. Succession'
  <2>1. \A b \in Actors : /\ held'[b].new \in {held[b].new, NoToken}
                          /\ held'[b].old \in {held[b].old, NoToken}
    BY <1>2 DEF Moves
  <2>2. \A b \in Actors : held'[b].new <= given' /\ held'[b].old <= given'
    <3>1. given \in Nat
      BY <1>1, AccountAssumption DEF DataTypes
    <3> QED
      BY <1>1, <1>2, <2>1, <3>1 DEF Succession, NoToken
  <2>3. \A b \in Actors : held'[b].new # NoToken =>
          held'[b].new \in live' /\ \A c \in Actors : held'[c].old # held'[b].new
    BY <1>1, <1>2, <2>1 DEF Succession
  <2>4. \A b, c \in Actors :
          held'[b].new # NoToken /\ held'[b].new = held'[c].new => b = c
    BY <1>1, <2>1 DEF Succession
  <2> QED
    BY <1>1, <1>2, <1>7, <2>2, <2>3, <2>4 DEF Succession, TokenKept
<1>10. Undisturbed'
  BY DEF Undisturbed
<1> QED
  BY <1>2, <1>5, <1>8, <1>9, <1>10 DEF IInv

\* What is written has no name any more.
LEMMA LostWrite ==
  ASSUME IInv, NEW a \in Actors, Write(a), a \notin fds, Forget(a),
         UNCHANGED <<file, fresh, touched, faults>>
  PROVE  IInv'
<1> USE Numbers
<1>1. TypeOK /\ DataTypes /\ Calls /\ Kept /\ Undisturbed
  BY Types DEF IInv
<1>2. /\ CallTypes' /\ Moves(a) /\ held'[a] = Nothing
      /\ pc[a] = "write" /\ pc'[a] \in {"idle", "read"}
      /\ status' \in {"idle", status} /\ job'[a] \in {"none", job[a]}
      /\ fds' = fds \ {a} /\ UNCHANGED <<live, given, launchAs, owner, strayed>>
      /\ Calls'
  BY WritePasses
<1>3. /\ dropped \subseteq dropped' /\ dropped' \subseteq Tokens
      /\ held[a].new # NoToken => held[a].old \in dropped' \cup {NoToken}
  BY <1>1, ForgetStep
<1>4. TypeOK'
  <2>1. DataTypes'
    BY <1>1, <1>2, <1>3 DEF DataTypes
  <2> QED
    BY <1>2, <2>1, TypesAfter
<1>5. a \in Threads \cap touched /\ job[a] \in {"none", "resolve"}
  BY <1>1, <1>2 DEF Calls, Undisturbed, Actors
<1>6. status' = status
  <2>1. Passes(a)
    BY DEF Write
  <2> QED
    BY <1>1, <1>5, <2>1, PassesStep
<1>7. fds' = fds
  BY <1>2
<1>8. Kept'
  <2>1. ~strayed' => \A b \in fds' : held'[b].user = owner'
    BY <1>1, <1>2, <1>7 DEF Moves, DataTypes, Kept
  <2>2. AccountKept'
    BY <1>1, <1>2, <1>6 DEF Kept, AccountKept, Readable
  <2> QED
    BY <2>1, <2>2 DEF Kept
<1>9. Succession'
  BY <1>2, <1>3, SuccessionMove
<1>10. Undisturbed'
  BY <1>1, <1>2, <1>5, <1>7 DEF Undisturbed, Moves, Actors, Readable
<1> QED
  BY <1>2, <1>4, <1>8, <1>9, <1>10 DEF IInv

LEMMA WriteStep ==
  ASSUME IInv, NEW a \in Actors, Write(a)
  PROVE  IInv'
<1>1. CASE /\ a \in fds
           /\ file' = Saved(held[a].user, held[a].new) /\ fresh' = TRUE
           /\ UNCHANGED <<dropped, touched, faults>>
  BY <1>1, WholeWrite
<1>2. CASE /\ a \in fds /\ faults < MaxFaults /\ faults' = faults + 1
           /\ file' = Torn /\ fresh' = FALSE
           /\ touched' = Threads /\ Forget(a)
  BY <1>2, TornWrite
<1>3. CASE /\ a \notin fds /\ Forget(a)
           /\ UNCHANGED <<file, fresh, touched, faults>>
  BY <1>3, LostWrite
<1> QED
  BY <1>1, <1>2, <1>3 DEF Write

-----------------------------------------------------------------------------
LEMMA RestartStep ==
  ASSUME IInv, Restart
  PROVE  IInv'
<1> USE Numbers
<1>1. TypeOK /\ DataTypes /\ Kept /\ Succession
  BY Types DEF IInv
<1>2. /\ faults < MaxFaults /\ faults' = faults + 1
      /\ pc' = [a \in Actors |-> "idle"] /\ job' = [a \in Actors |-> "none"]
      /\ held' = [a \in Actors |-> Nothing] /\ fds' = {} /\ status' = "start"
      /\ launchAs' = [l \in Threads |-> Nobody]
      /\ UNCHANGED <<file, fresh, live, given, owner, strayed, touched>>
  BY DEF Restart, outside
<1> DEFINE Left == {held[a].old : a \in {b \in Actors : held[b].new # NoToken}} \ {NoToken}
<1>3. dropped' = dropped \cup Left
  BY DEF Restart
<1>4. Left \subseteq Tokens
  BY <1>1, HeldTypes
<1>5. \A b \in Actors : held[b].new # NoToken => held[b].old \in Left \cup {NoToken}
  OBVIOUS
<1> HIDE DEF Left
<1>6. CallTypes'
  BY <1>2 DEF CallTypes, Steps
<1>7. DataTypes'
  <2>1. faults' \in 0..MaxFaults
    BY <1>1, <1>2, AccountAssumption DEF DataTypes
  <2>2. dropped' \subseteq Tokens
    BY <1>1, <1>3, <1>4 DEF DataTypes
  <2> QED
    BY <1>1, <1>2, <2>1, <2>2 DEF DataTypes
<1>8. TypeOK'
  BY <1>6, <1>7, TypesAfter
<1>9. Calls'
  BY <1>2, ActorsType DEF Calls, Knowing, Carrying
<1>10. Kept'
  <2>1. AccountKept'
    BY <1>1, <1>2 DEF Kept, AccountKept, Readable
  <2> QED
    BY <1>2, <2>1 DEF Kept
<1>11. Succession'
  <2>1. given \in Nat
    BY <1>1, AccountAssumption DEF DataTypes
  <2>2. TokenKept'
    <3> SUFFICES ASSUME Readable PROVE file.token \in live \cup dropped'
      BY <1>2 DEF TokenKept, Readable
    <3>1. file.token # NoToken
      BY Shapes DEF Readable
    <3>2. \/ file.token \in live \cup dropped
          \/ \E b \in Actors : held[b].new # NoToken /\ held[b].old = file.token
      BY <1>1 DEF Succession, TokenKept
    <3> QED
      BY <1>3, <1>5, <3>1, <3>2
  <2> QED
    BY <1>1, <1>2, <2>1, <2>2 DEF Succession, Readable, NoToken
<1>12. Undisturbed'
  BY <1>2 DEF Undisturbed, Actors, Knowing
<1> QED
  BY <1>8, <1>9, <1>10, <1>11, <1>12 DEF IInv

LEMMA AgesStep ==
  ASSUME IInv, Ages \/ UNCHANGED vars
  PROVE  IInv'
<1>1. /\ fresh' \in {fresh, FALSE}
      /\ UNCHANGED <<file, fds, live, given, pc, job, held, status, launchAs, owner,
                     strayed, dropped, touched, faults>>
  BY DEF Ages, vars, diskVars, outside, history
<1>2. TypeOK'
  BY <1>1 DEF IInv, TypeOK
<1>3. Calls' /\ Kept'
  BY <1>1 DEF IInv, Calls, Kept, AccountKept, Readable
<1>4. Succession'
  BY <1>1 DEF IInv, Succession, TokenKept, Readable
<1>5. Undisturbed'
  BY <1>1 DEF IInv, Undisturbed, Readable
<1> QED
  BY <1>2, <1>3, <1>4, <1>5 DEF IInv

LEMMA ActorStep ==
  ASSUME IInv, NEW a \in Actors, Step(a)
  PROVE  IInv'
<1>1. CASE ms_auth_validate(a)
  BY <1>1, ValidateStep
<1>2. CASE ReadRefresh(a)
  BY <1>2, ReadRefreshStep
<1>3. CASE refresh_ms_token(a)
  BY <1>3, GivenStep, FailsStep DEF refresh_ms_token
<1>4. CASE xbox_auth(a) \/ xsts_auth(a) \/ mc_auth(a) \/ mc_profile(a)
  BY <1>4, CallStep DEF xbox_auth, xsts_auth, mc_auth, mc_profile
<1>5. CASE Open(a)
  BY <1>5, OpenStep
<1>6. CASE OpenFails(a)
  BY <1>6, OpenFailsStep
<1>7. CASE Write(a)
  BY <1>7, WriteStep
<1>8. CASE ReadBack(a)
  BY <1>8, ReadBackStep
<1> QED
  BY <1>1, <1>2, <1>3, <1>4, <1>5, <1>6, <1>7, <1>8 DEF Step

LEMMA InvInit == Init => IInv
<1> SUFFICES ASSUME Init PROVE IInv
  OBVIOUS
<1> USE Numbers, ActorsType, AccountAssumption
<1>1. TypeOK
  <2>1. CallTypes
    BY DEF Init, CallTypes, Steps
  <2>2. DataTypes
    <3>1. 0 \in 0..MaxTokens /\ 0 \in 0..MaxFaults
      OBVIOUS
    <3>2. launchAs \in [Threads -> Users \cup {Nobody, Player}]
      BY DEF Init
    <3> QED
      BY <3>1, <3>2 DEF Init, DataTypes
  <2> QED
    BY <2>1, <2>2, Types
<1>2. Calls
  BY DEF Init, Calls, Knowing, Carrying
<1>3. ~Readable
  BY Shapes DEF Init, Readable
<1>4. Kept
  BY <1>3 DEF Init, Kept, AccountKept
<1>5. Succession
  BY <1>3 DEF Init, Succession, TokenKept, NoToken
<1>6. Undisturbed
  BY DEF Init, Undisturbed, Knowing, Actors
<1> QED
  BY <1>1, <1>2, <1>4, <1>5, <1>6 DEF IInv

LEMMA InvNext == IInv /\ [Next]_vars => IInv'
<1> SUFFICES ASSUME IInv, [Next]_vars PROVE IInv'
  OBVIOUS
<1>1. CASE Request
  BY <1>1, RequestStep, LogoutStep DEF Request
<1>2. CASE wait_for_oauth_code
  BY <1>2, BrowserStep
<1>3. CASE exchange_code_for_token
  BY <1>3, GivenStep, FailsStep, ActorsType DEF exchange_code_for_token
<1>4. CASE \E a \in Actors : Step(a)
  BY <1>4, ActorStep
<1>5. CASE \E l \in Threads : Leaves(l)
  BY <1>5, LeavesStep
<1>6. CASE Ages \/ UNCHANGED vars
  BY <1>6, AgesStep
<1>7. CASE Restart
  BY <1>7, RestartStep
<1> QED
  BY <1>1, <1>2, <1>3, <1>4, <1>5, <1>6, <1>7 DEF Next

LEMMA Inductive == Spec => []IInv
BY InvInit, InvNext, PTL DEF Spec

-----------------------------------------------------------------------------
(* The account file, the tokens and the calls keep their types.            *)
THEOREM TypeCorrect == Spec => []TypeOK
<1>1. IInv => TypeOK
  BY DEF IInv
<1> QED
  BY <1>1, Inductive, PTL

(* For any number of users, launches, crashes and full disks, the account  *)
(* on disk is the one that signed in last, and there is none after a       *)
(* logout, unless a refresh that began before wrote it (ms_auth_login,     *)
(* ms_auth_refresh, on_logout_account).                                    *)
THEOREM AccountKeptHolds == Spec => []AccountKept
<1>1. IInv => AccountKept
  BY DEF IInv, Kept
<1> QED
  BY <1>1, Inductive, PTL

(* The refresh token on disk is one Microsoft takes, unless a call holds   *)
(* its successor or ended without saving it, however many calls overlap    *)
(* (refresh_ms_token, exchange_code_for_token, write_file).                *)
THEOREM TokenKeptHolds == Spec => []TokenKept
<1>1. IInv => TokenKept
  BY DEF IInv, Succession
<1> QED
  BY <1>1, Inductive, PTL

(* Every launch during which nobody else changed the file goes on as the   *)
(* player who is signed in (resolve_account).                              *)
THEOREM LaunchAccountHolds == Spec => []LaunchAccount
<1>1. IInv => LaunchAccount
  BY DEF IInv, Undisturbed, LaunchAccount
<1> QED
  BY <1>1, Inductive, PTL
=============================================================================
