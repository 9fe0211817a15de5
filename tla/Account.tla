------------------------------- MODULE Account ------------------------------
(***************************************************************************)
(* The signed-in account of the launcher: the file account.json, the calls *)
(* to Microsoft, Xbox and Minecraft that fill it (net/ms_auth.c), the      *)
(* page's requests about it (ipc/auth_handlers.c) and the account of a     *)
(* launch (launch/account.c).                                              *)
(*                                                                         *)
(* The page's requests run one after the other on the thread of the        *)
(* window; a launch reads and refreshes the account on a thread of its     *)
(* own, and no lock is taken.  The file is opened with "wb" and written at *)
(* the close: a reader in between, and a start after a crash in between,   *)
(* find a file that does not parse (Torn).                                 *)
(***************************************************************************)
EXTENDS Naturals

CONSTANTS
    Users,      \* Minecraft accounts
    Ui,         \* the thread of the window
    Threads,    \* launch threads
    MaxTokens,  \* bound: refresh tokens Microsoft gives out
    MaxFaults   \* bound: crashes, files that cannot be written

ASSUME AccountAssumption == /\ MaxTokens \in Nat /\ MaxFaults \in Nat
                            /\ Ui \notin Threads

Actors == {Ui} \cup Threads

(* Contents of account.json other than an account.                         *)
Absent == [is |-> "absent"]
Torn == [is |-> "torn"]
NoToken == 0
Tokens == 1..MaxTokens
Saved(u, t) == [is |-> "account", user |-> u, token |-> t]
Accounts == {Saved(u, t) : u \in Users, t \in Tokens}

(* Users a launch goes on as, or the file is about, when there is none.    *)
Nobody == "nobody"
Player == "Player"

ASSUME UsersAssumption == Nobody \notin Users

VARIABLES
    file,       \* account.json
    fresh,      \* its Minecraft token is younger than 23 hours
    live,       \* refresh tokens Microsoft still takes
    given,      \* how many it has given out
    pc,         \* where each thread is in its call
    job,        \* the request it serves
    held,       \* what its call has obtained: user, token used, token got
    fds,        \* threads with a descriptor on the file of that name
    status,     \* what Discord shows: start, login menu, idle
    launchAs,   \* per launch, the account it goes on with
    owner,      \* history: who signed in last, unless signed out since
    strayed,    \* history: see Open
    dropped,    \* history: tokens whose successor was lost
    touched,    \* history: launches during which the page changed the file
    faults      \* how many faults there were

diskVars == <<file, fresh, fds>>
outside == <<live, given>>
history == <<owner, strayed, dropped, touched, faults>>
vars == <<diskVars, outside, pc, job, held, status, launchAs, history>>

Nothing == [user |-> Nobody, old |-> NoToken, new |-> NoToken]

Steps == {"idle", "validate", "reread", "code", "exchange", "token", "xbox",
          "xsts", "mc", "profile", "open", "write", "read", "resolved"}

TypeOK ==
    /\ file \in Accounts \cup {Absent, Torn} /\ fresh \in BOOLEAN
    /\ live \subseteq Tokens /\ given \in 0..MaxTokens
    /\ pc \in [Actors -> Steps]
    /\ job \in [Actors -> {"none", "check", "token", "login", "resolve"}]
    /\ held \in [Actors -> [user : Users \cup {Nobody},
                            old : Tokens \cup {NoToken},
                            new : Tokens \cup {NoToken}]]
    /\ fds \subseteq Actors /\ status \in {"start", "login", "idle"}
    /\ launchAs \in [Threads -> Users \cup {Nobody, Player}]
    /\ owner \in Users \cup {Nobody} /\ strayed \in BOOLEAN
    /\ dropped \subseteq Tokens /\ touched \subseteq Threads
    /\ faults \in 0..MaxFaults

Init ==
    /\ file = Absent /\ fresh = FALSE /\ live = {} /\ given = 0
    /\ pc = [a \in Actors |-> "idle"] /\ job = [a \in Actors |-> "none"]
    /\ held = [a \in Actors |-> Nothing] /\ fds = {} /\ status = "start"
    /\ launchAs = [l \in Threads |-> Nobody]
    /\ owner = Nobody /\ strayed = FALSE /\ dropped = {} /\ touched = {}
    /\ faults = 0

-----------------------------------------------------------------------------
(* How a call goes on and ends.                                            *)

Goto(a, s) == pc' = [pc EXCEPT ![a] = s]

(* cJSON_Parse(read_file(...)) is an account.                              *)
Readable == file \in Accounts

(* A chain that Microsoft has given a token to ends without saving it.     *)
Forget(a) ==
    dropped' = IF held[a].new = NoToken THEN dropped
               ELSE dropped \cup ({held[a].old} \ {NoToken})

Ends(a) == /\ pc' = [pc EXCEPT ![a] = "idle"]
           /\ job' = [job EXCEPT ![a] = "none"]
           /\ held' = [held EXCEPT ![a] = Nothing]

(* Seeded fault: an account that could not be checked is removed.          *)
Fails_Removes(a) ==
    /\ Ends(a) /\ Forget(a)
    /\ status' = IF job[a] = "check" THEN "login" ELSE status
    /\ file' = Absent /\ fresh' = FALSE /\ fds' = {}
    /\ UNCHANGED <<outside, launchAs, owner, strayed, touched, faults>>

(* The call failed: on_check_account answers false, the others answer an   *)
(* error, and a launch is over.  The file is left as it is.                *)
Fails(a) ==
    /\ Ends(a) /\ Forget(a)
    /\ status' = IF job[a] = "check" THEN "login" ELSE status
    /\ UNCHANGED <<diskVars, outside, launchAs, owner, strayed, touched, faults>>

(* The account is valid, refreshed or signed in: the check and the login   *)
(* answer, the token and the launch go on to read the file.                *)
Passes(a) ==
    IF job[a] \in {"check", "login"}
    THEN Ends(a) /\ status' = "idle"
    ELSE /\ Goto(a, "read") /\ held' = [held EXCEPT ![a] = Nothing]
         /\ UNCHANGED <<job, status>>

-----------------------------------------------------------------------------
(* The requests.                                                           *)

Begin(a, j, s) ==
    /\ pc[a] = "idle" /\ Goto(a, s) /\ job' = [job EXCEPT ![a] = j]
    /\ UNCHANGED <<diskVars, outside, held, status, owner, strayed, dropped, faults>>

on_check_account ==
    Begin(Ui, "check", "validate") /\ UNCHANGED <<launchAs, touched>>

on_get_mc_token ==
    Begin(Ui, "token", "validate") /\ UNCHANGED <<launchAs, touched>>

on_login_microsoft ==
    Begin(Ui, "login", "code") /\ UNCHANGED <<launchAs, touched>>

(* resolve_account, called by launch thread l.                             *)
resolve_account(l) ==
    /\ Begin(l, "resolve", "validate")
    /\ launchAs' = [launchAs EXCEPT ![l] = Nobody]
    /\ touched' = touched \ {l}

(* The file is removed; who has it open writes to a file without a name.   *)
on_logout_account ==
    /\ pc[Ui] = "idle"
    /\ file' = Absent /\ fresh' = FALSE /\ fds' = {}
    /\ status' = "login"
    /\ owner' = Nobody /\ strayed' = FALSE /\ touched' = Threads
    /\ UNCHANGED <<outside, pc, job, held, launchAs, dropped, faults>>

(* on_get_mc_token reads the file again after the check, as does a launch, *)
(* which goes on as Player without a token when there is nothing to read.  *)
ReadBack(a) ==
    /\ pc[a] = "read"
    /\ IF a = Ui
       THEN /\ Ends(a) /\ UNCHANGED launchAs
       ELSE /\ Goto(a, "resolved") /\ UNCHANGED <<job, held>>
            /\ launchAs' = [launchAs EXCEPT ![a] =
                                IF Readable THEN file.user ELSE Player]
    /\ UNCHANGED <<diskVars, outside, status, history>>

(* The launch goes on to the game: the thread takes no part any more.      *)
Leaves(l) ==
    /\ pc[l] = "resolved" /\ Ends(l)
    /\ launchAs' = [launchAs EXCEPT ![l] = Nobody]
    /\ UNCHANGED <<diskVars, outside, status, history>>
-----------------------------------------------------------------------------
(* net/ms_auth.c.                                                          *)

(* Seeded fault: a file that is there is taken for an account.             *)
ms_auth_validate_AnyFile(a) ==
    /\ pc[a] = "validate"
    /\ IF file = Torn \/ (Readable /\ fresh)
       THEN Passes(a) ELSE Goto(a, "reread") /\ UNCHANGED <<job, held, status>>
    /\ UNCHANGED <<diskVars, outside, launchAs, history>>

(* ms_auth_validate: 0 for an account whose token is younger than 23 hours,*)
(* and an error for a file that is not there, damaged, or too old.         *)
ms_auth_validate(a) ==
    /\ pc[a] = "validate"
    /\ IF Readable /\ fresh
       THEN Passes(a) ELSE Goto(a, "reread") /\ UNCHANGED <<job, held, status>>
    /\ UNCHANGED <<diskVars, outside, launchAs, history>>

(* ms_auth_refresh reads the file once more for the refresh token.         *)
ReadRefresh(a) ==
    /\ pc[a] = "reread"
    /\ \/ /\ Readable /\ Goto(a, "token")
          /\ held' = [held EXCEPT ![a] = [Nothing EXCEPT !.user = file.user,
                                                        !.old = file.token]]
          /\ UNCHANGED <<diskVars, outside, job, status, launchAs, history>>
       \/ ~Readable /\ Fails(a)

(* What a call made before the next one, which ms_auth_login and           *)
(* ms_auth_refresh make in this order.                                     *)
After(s) == CASE s = "xbox" -> "xsts" [] s = "xsts" -> "mc"
              [] s = "mc" -> "profile" [] s = "profile" -> "open"

(* Microsoft gives out a token; it may stop taking the one it replaces.    *)
Given(a, next) ==
    /\ given < MaxTokens /\ given' = given + 1
    /\ \E retired \in SUBSET {held[a].old} :
           live' = (live \ retired) \cup {given'}
    /\ held' = [held EXCEPT ![a].new = given'] /\ Goto(a, next)
    /\ UNCHANGED <<diskVars, job, status, launchAs, history>>

(* Seeded fault: a refused token is read and tried again.                  *)
refresh_ms_token_Again(a) ==
    /\ pc[a] = "token"
    /\ \/ held[a].old \in live /\ Given(a, "xbox")
       \/ /\ held[a].old \notin live /\ Goto(a, "reread")
          /\ UNCHANGED <<diskVars, outside, job, held, status, launchAs, history>>

(* refresh_ms_token: answered for a token Microsoft still takes.           *)
refresh_ms_token(a) ==
    /\ pc[a] = "token"
    /\ \/ held[a].old \in live /\ Given(a, "xbox")
       \/ Fails(a)

(* wait_for_oauth_code: the browser calls back with a code for the account *)
(* the player chose, or the port is taken, or what calls has no code.  The *)
(* window's thread waits in accept for as long as nobody does.             *)
wait_for_oauth_code ==
    /\ pc[Ui] = "code"
    /\ \/ \E u \in Users :
             /\ held' = [held EXCEPT ![Ui].user = u] /\ Goto(Ui, "exchange")
             /\ UNCHANGED <<diskVars, outside, job, status, launchAs, history>>
       \/ Fails(Ui)

(* exchange_code_for_token.                                                *)
exchange_code_for_token ==
    /\ pc[Ui] = "exchange"
    /\ Given(Ui, "xbox") \/ Fails(Ui)

(* One call to Xbox or Minecraft: an answer with what is needed, within 30 *)
(* seconds, or an error, which ends the chain.                             *)
Call(a, s) ==
    /\ pc[a] = s
    /\ \/ /\ Goto(a, After(s))
          /\ UNCHANGED <<diskVars, outside, job, held, status, launchAs, history>>
       \/ Fails(a)

xbox_auth(a) == Call(a, "xbox")
xsts_auth(a) == Call(a, "xsts")
mc_auth(a) == Call(a, "mc")
mc_profile(a) == Call(a, "profile")

-----------------------------------------------------------------------------
(* write_file, whose result nobody looks at.                               *)

(* Opening truncates the file, or creates it.  A login makes its account   *)
(* the one signed in.  A refresh that began before a login or a logout     *)
(* writes the account of that time (strayed).                              *)
Open(a) ==
    /\ pc[a] = "open" /\ Goto(a, "write")
    /\ file' = Torn /\ fresh' = FALSE /\ fds' = fds \cup {a}
    /\ IF job[a] = "login"
       THEN owner' = held[a].user /\ strayed' = (fds # {})
       ELSE /\ UNCHANGED owner
            /\ strayed' = (strayed \/ held[a].user # owner)
    /\ touched' = IF a = Ui THEN Threads ELSE touched \cup (Threads \ {a})
    /\ UNCHANGED <<outside, job, held, status, launchAs, dropped, faults>>

(* The file cannot be opened: the caller goes on as if it were saved.      *)
OpenFails(a) ==
    /\ pc[a] = "open" /\ faults < MaxFaults /\ faults' = faults + 1
    /\ Passes(a) /\ Forget(a)
    /\ UNCHANGED <<diskVars, outside, launchAs, owner, strayed, touched>>

(* Seeded fault: the account is saved with the token that was used.        *)
Write_OldToken(a) ==
    /\ pc[a] = "write" /\ Passes(a) /\ fds' = fds \ {a}
    /\ a \in fds
    /\ file' = Saved(held[a].user, IF held[a].old = NoToken THEN held[a].new
                                                          ELSE held[a].old)
    /\ fresh' = TRUE
    /\ UNCHANGED <<outside, launchAs, owner, strayed, dropped, touched, faults>>

(* fwrite and fclose: the whole text, or part of it on a full disk.  A     *)
(* file that was removed in between stays removed.                         *)
Write(a) ==
    /\ pc[a] = "write" /\ Passes(a) /\ fds' = fds \ {a}
    /\ \/ /\ a \in fds
          /\ file' = Saved(held[a].user, held[a].new) /\ fresh' = TRUE
          /\ UNCHANGED <<dropped, touched, faults>>
       \/ /\ a \in fds /\ faults < MaxFaults /\ faults' = faults + 1
          /\ file' = Torn /\ fresh' = FALSE
          /\ touched' = Threads /\ Forget(a)
       \/ /\ a \notin fds /\ Forget(a)
          /\ UNCHANGED <<file, fresh, touched, faults>>
    /\ UNCHANGED <<outside, launchAs, owner, strayed>>

-----------------------------------------------------------------------------
(* 23 hours pass.                                                          *)
Ages == /\ fresh /\ fresh' = FALSE
        /\ UNCHANGED <<file, fds, outside, pc, job, held, status, launchAs, history>>

(* The launcher ends or dies, at any step of its threads, and is started.  *)
Restart ==
    /\ faults < MaxFaults /\ faults' = faults + 1
    /\ pc' = [a \in Actors |-> "idle"] /\ job' = [a \in Actors |-> "none"]
    /\ held' = [a \in Actors |-> Nothing] /\ fds' = {} /\ status' = "start"
    /\ launchAs' = [l \in Threads |-> Nobody]
    /\ dropped' = dropped \cup ({held[a].old : a \in {b \in Actors :
                                      held[b].new # NoToken}} \ {NoToken})
    /\ UNCHANGED <<file, fresh, outside, owner, strayed, touched>>

Step(a) ==
    \/ ms_auth_validate(a) \/ ReadRefresh(a) \/ refresh_ms_token(a)
    \/ xbox_auth(a) \/ xsts_auth(a) \/ mc_auth(a) \/ mc_profile(a)
    \/ Open(a) \/ OpenFails(a) \/ Write(a) \/ ReadBack(a)

Request ==
    \/ on_check_account \/ on_get_mc_token \/ on_login_microsoft
    \/ on_logout_account
    \/ \E l \in Threads : resolve_account(l)

Next ==
    \/ Request \/ wait_for_oauth_code \/ exchange_code_for_token
    \/ \E a \in Actors : Step(a)
    \/ \E l \in Threads : Leaves(l)
    \/ Ages \/ Restart

(* The window's thread runs, and every call of its chain has a time limit; *)
(* nothing is said of the browser.                                         *)
Fairness == WF_vars(Step(Ui) \/ exchange_code_for_token)

Spec == Init /\ [][Next]_vars /\ Fairness
-----------------------------------------------------------------------------
(* Properties.                                                             *)

(* The account on disk is the one that signed in last, and there is none   *)
(* after a logout: no failed check, refused token, crash or overlapping    *)
(* call changes or brings back an account, except a refresh that was under *)
(* way when the player signed in or out and wrote the file afterwards.     *)
AccountKept ==
    ~strayed => /\ Readable => file.user = owner
                /\ file = Absent <=> owner = Nobody
                /\ status = "idle" => owner # Nobody \/ faults > 0

(* The refresh token on disk is one Microsoft takes, unless a call has its *)
(* successor and is still to save it, or ended between Microsoft's answer  *)
(* and the write (ms_auth.c:741-807), which costs the player a new login.  *)
TokenKept ==
    Readable => \/ file.token \in live \cup dropped
                \/ \E a \in Actors : held[a].new # NoToken
                                     /\ held[a].old = file.token

(* A launch goes on as the player who is signed in.  The name Player and   *)
(* the empty token, which account.c fills in first, are for a launch       *)
(* during which somebody else removed or rewrote the file.                 *)
LaunchAccount ==
    \A l \in Threads :
        pc[l] = "resolved" /\ l \notin touched /\ ~strayed => launchAs[l] = owner

(* The page is answered: a check, a token or what follows the browser's    *)
(* call ends, whatever Microsoft, the disk and the launch threads do, and  *)
(* the window, whose thread serves the request, moves again.               *)
UiAnswered == (pc[Ui] \notin {"idle", "code"}) ~> (pc[Ui] = "idle")
-----------------------------------------------------------------------------
=============================================================================
