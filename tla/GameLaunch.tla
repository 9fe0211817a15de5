------------------------------ MODULE GameLaunch -----------------------------
(***************************************************************************)
(* Starting and stopping the game from the launcher's window:              *)
(*   the page      features/launch.js, components/tabs/instances.html,     *)
(*                 and the way out of it and back: settings.html, login.js *)
(*   the handlers  ipc/game_handlers.c, ipc/instance_handlers.c            *)
(*   the threads   launch_thread down to run_game_process and process_run  *)
(*                                                                         *)
(* The handlers run on the UI thread.  A launch thread talks to the page   *)
(* by ui_eval, which queues a script for that thread, and to the handlers  *)
(* by two variables without a lock, game_running and g_mc_process.  What   *)
(* keeps a second launch out while the first one prepares is the page: the *)
(* overlay over it and the disabled button.  Signing out and in again      *)
(* loads the page anew, and the new page knows nothing of what goes on.    *)
(***************************************************************************)
EXTENDS Naturals, Sequences, FiniteSets

CONSTANTS
    Threads,    \* launch threads; their number bounds the launches under way
    None,       \* no child process
    MaxPending  \* bound: timers and scripts pending when something is clicked

ASSUME LaunchAssumption ==
    /\ IsFiniteSet(Threads) /\ Threads # {} /\ None \notin Threads
    /\ MaxPending \in Nat

VARIABLES
    at,         \* "app", "leaving" while logout_account is at work, "login"
    overlay,    \* the launch overlay covers the page
    btnOn,      \* launchBtn is enabled
    group,      \* playGroup is shown, rather than killBtn
    timers,     \* pending timeouts: "hide" after an error, "done" after 100 %
    creating,   \* test launches waiting for create_instance
    calls,      \* calls of the page that the UI thread has not handled
    events,     \* scripts and answers queued for the page
    running,    \* game_running
    proc,       \* g_mc_process: the thread whose child it names, or None
    pc,         \* where each launch thread is
    alive,      \* threads whose game process runs
    reloaded,   \* history: the page was loaded while a launch was under way
    strayed     \* history: the test tab was used, or something took over 800 ms

face == <<overlay, btnOn, group, timers, creating>>
page == <<at, face>>
native == <<running, proc, pc, alive>>
history == <<reloaded, strayed>>
vars == <<page, calls, events, native, history>>

(* none -> prep -> ready -> flagged -> posted -> forked -> playing         *)
(*      -> reaped -> over -> lowered -> none                               *)
Places == {"none", "prep", "ready", "flagged", "posted", "forked",
           "playing", "reaped", "over", "lowered"}

TypeOK ==
    /\ at \in {"app", "leaving", "login"}
    /\ overlay \in BOOLEAN /\ btnOn \in BOOLEAN /\ group \in BOOLEAN
    /\ timers \in [{"hide", "done"} -> Nat] /\ creating \in Nat
    /\ calls \in Seq({"launch_mc", "launch_instance", "kill_game"})
    /\ events \in Seq({"done", "error", "refused", "start", "stop"})
    /\ running \in BOOLEAN /\ proc \in Threads \cup {None}
    /\ pc \in [Threads -> Places] /\ alive \subseteq Threads
    /\ reloaded \in BOOLEAN /\ strayed \in BOOLEAN

Init == /\ at = "app" /\ overlay = FALSE /\ btnOn = TRUE /\ group = TRUE
        /\ timers = [k \in {"hide", "done"} |-> 0] /\ creating = 0
        /\ calls = << >> /\ events = << >>
        /\ running = FALSE /\ proc = None
        /\ pc = [t \in Threads |-> "none"] /\ alive = {}
        /\ reloaded = FALSE /\ strayed = FALSE

----------------------------------------------------------------------------
(* The page.                                                               *)

Busy == {t \in Threads : pc[t] # "none"}

(* Bound on what the player starts.                                        *)
Room == /\ Cardinality(Busy) + Len(calls) + creating < Cardinality(Threads)
        /\ timers["hide"] + timers["done"] + Len(events) < MaxPending

(* What can be clicked: the overlay covers the page, and so does the       *)
(* dialog that asks for the logout until logout_account has answered.      *)
Open == at = "app" /\ ~overlay

(* launchGame.                                                             *)
ClickPlay == /\ Open /\ group /\ btnOn /\ Room
             /\ btnOn' = FALSE /\ overlay' = TRUE
             /\ calls' = Append(calls, "launch_mc")
             /\ UNCHANGED <<at, group, timers, creating, events, native, history>>

(* testInstanceLaunch: the overlay comes up only when the instance exists. *)
ClickTest == /\ Open /\ Room
             /\ creating' = creating + 1 /\ strayed' = TRUE
             /\ UNCHANGED <<at, overlay, btnOn, group, timers, calls, events, native, reloaded>>

Created == /\ creating > 0
           /\ creating' = creating - 1 /\ overlay' = TRUE
           /\ calls' = Append(calls, "launch_instance")
           /\ UNCHANGED <<at, btnOn, group, timers, events, native, history>>

Timer(k) == timers' = [timers EXCEPT ![k] = @ + 1]

(* overlayError does not show the overlay; it hides it three seconds later.*)
CreateFails == /\ creating > 0
               /\ creating' = creating - 1 /\ Timer("hide")
               /\ UNCHANGED <<at, overlay, btnOn, group, calls, events, native, history>>

ClickKill == /\ Open /\ ~group /\ calls = << >>
             /\ calls' = Append(calls, "kill_game")
             /\ UNCHANGED <<page, events, native, history>>

(* selectVersion ends in updatePlayButton.                                 *)
SelectVersion == /\ Open /\ group /\ ~btnOn
                 /\ btnOn' = TRUE
                 /\ UNCHANGED <<at, overlay, group, timers, creating>>
                 /\ UNCHANGED <<calls, events, native, history>>

(* confirmLogout.  Its answer may find the overlay up: a test launch whose *)
(* instance has been created in between.                                   *)
ClickLogout == /\ Open /\ at' = "leaving"
               /\ UNCHANGED <<face, calls, events, native, history>>

LogoutFails == /\ at = "leaving" /\ at' = "app"
               /\ UNCHANGED <<face, calls, events, native, history>>

(* A page as it is loaded: play.html's markup, and no timer or promise.    *)
Fresh == /\ overlay' = FALSE /\ btnOn' = TRUE /\ group' = TRUE
         /\ timers' = [k \in {"hide", "done"} |-> 0] /\ creating' = 0

Leave == /\ at = "leaving" /\ at' = "login" /\ Fresh
         /\ UNCHANGED <<calls, events, native, history>>

(* The page of login.js has none of the functions that the scripts call.   *)
Lost == /\ at = "login" /\ events # << >> /\ events' = Tail(events)
        /\ UNCHANGED <<page, calls, native, history>>

(* loginWithMicrosoft: its own call and answer pass through the same two   *)
(* queues, behind the calls of the page that is gone and their answers.    *)
(* The new page does not ask on_game_status.                               *)
SignIn == /\ at = "login" /\ at' = "app" /\ Fresh
          /\ calls = << >> /\ \A i \in DOMAIN events : events[i] # "refused"
          /\ reloaded' = (Busy # {})
          /\ UNCHANGED <<calls, events, native, strayed>>

Handle(e) == at # "login" /\ events # << >> /\ Head(events) = e /\ events' = Tail(events)

(* Seeded fault: the overlay goes as soon as the bar is full.              *)
OnLaunchProgress_Fault ==
    /\ Handle("done")
    /\ overlay' = FALSE /\ btnOn' = TRUE
    /\ UNCHANGED <<at, group, timers, creating, calls, native, history>>

OnLaunchProgress == /\ Handle("done") /\ Timer("done")
                    /\ UNCHANGED <<at, overlay, btnOn, group, creating, calls, native, history>>

(* Seeded fault: the button is left disabled after an error.               *)
OnLaunchError_Fault ==
    /\ Handle("error") /\ Timer("hide")
    /\ UNCHANGED <<at, overlay, btnOn, group, creating, calls, native, history>>

OnLaunchError == /\ Handle("error") /\ Timer("hide")
                 /\ btnOn' = TRUE
                 /\ UNCHANGED <<at, overlay, group, creating, calls, native, history>>

(* Seeded fault: a refusal is only written to the log.                     *)
Refused_Fault == /\ Handle("refused")
                 /\ UNCHANGED <<page, calls, native, history>>

(* The promise of launch_mc or launch_instance is rejected: overlayError,  *)
(* and the button stays as it is.                                          *)
Refused == /\ Handle("refused") /\ Timer("hide")
           /\ UNCHANGED <<at, overlay, btnOn, group, creating, calls, native, history>>

OnGameStart == /\ Handle("start") /\ group' = FALSE
               /\ UNCHANGED <<at, overlay, btnOn, timers, creating, calls, native, history>>
OnGameStop  == /\ Handle("stop") /\ group' = TRUE
               /\ UNCHANGED <<at, overlay, btnOn, timers, creating, calls, native, history>>

HideTimer == /\ timers["hide"] > 0
             /\ timers' = [timers EXCEPT !["hide"] = @ - 1]
             /\ overlay' = FALSE
             /\ UNCHANGED <<at, btnOn, group, creating, calls, events, native, history>>

(* 800 ms after the bar was full.  Unless something is slow, the thread    *)
(* has raised its flag and its script has been run by then.                *)
InTime == events = << >> /\ \A t \in Threads : pc[t] \notin {"ready", "flagged"}

DoneTimer == /\ timers["done"] > 0
             /\ timers' = [timers EXCEPT !["done"] = @ - 1]
             /\ overlay' = FALSE /\ btnOn' = TRUE
             /\ strayed' = (strayed \/ ~InTime)
             /\ UNCHANGED <<at, group, creating, calls, events, native, reloaded>>

----------------------------------------------------------------------------
(* The handlers, on the UI thread.                                         *)

Take(c) == calls # << >> /\ Head(calls) \in c /\ calls' = Tail(calls)
Launches == {"launch_mc", "launch_instance"}

(* on_launch and on_launch_instance: refused while a game runs, otherwise  *)
(* a thread of its own.                                                    *)
LaunchRefused == /\ Take(Launches) /\ running
                 /\ events' = Append(events, "refused")
                 /\ UNCHANGED <<page, native, history>>

LaunchStarts == /\ Take(Launches) /\ ~running
                /\ \E t \in Threads : pc[t] = "none" /\ pc' = [pc EXCEPT ![t] = "prep"]
                /\ UNCHANGED <<page, events, running, proc, alive, history>>

(* on_kill_game: process_kill signals the child that g_mc_process names.   *)
KillGame == /\ Take({"kill_game"})
            /\ alive' = alive \ {proc}
            /\ UNCHANGED <<page, events, running, proc, pc, history>>

----------------------------------------------------------------------------
(* A launch thread.                                                        *)

Move(t, from, to) == pc[t] = from /\ pc' = [pc EXCEPT ![t] = to]
Post(e) == events' = Append(events, e)

(* Every step that fails reports it and ends the thread.                   *)
PrepFails(t) == /\ Move(t, "prep", "none") /\ Post("error")
                /\ UNCHANGED <<page, calls, running, proc, alive, history>>

(* launch_report("Lancement !", 100).                                      *)
PrepDone(t) == /\ Move(t, "prep", "ready") /\ Post("done")
               /\ UNCHANGED <<page, calls, running, proc, alive, history>>

RaiseFlag(t) == /\ Move(t, "ready", "flagged") /\ running' = TRUE
                /\ UNCHANGED <<page, calls, events, proc, alive, history>>

PostStart(t) == /\ Move(t, "flagged", "posted") /\ Post("start")
                /\ UNCHANGED <<page, calls, running, proc, alive, history>>

Fork(t) == /\ Move(t, "posted", "forked") /\ alive' = alive \cup {t}
           /\ UNCHANGED <<page, calls, events, running, proc, history>>

ForkFails(t) == /\ Move(t, "posted", "over")
                /\ UNCHANGED <<page, calls, events, running, proc, alive, history>>

SetProc(t) == /\ Move(t, "forked", "playing") /\ proc' = t
              /\ UNCHANGED <<page, calls, events, running, alive, history>>

(* The player leaves the game, or it crashes.                              *)
Exit(t) == /\ t \in alive /\ alive' = alive \ {t}
           /\ UNCHANGED <<page, calls, events, running, proc, pc, history>>

Reap(t) == /\ t \notin alive /\ Move(t, "playing", "reaped")
           /\ UNCHANGED <<page, calls, events, running, proc, alive, history>>

ClearProc(t) == /\ Move(t, "reaped", "over") /\ proc' = None
                /\ UNCHANGED <<page, calls, events, running, alive, history>>

(* Seeded fault: the flag is lowered as soon as the game is started.       *)
LowerFlag_Fault(t) == /\ pc[t] \in {"playing", "over"}
                      /\ pc' = [pc EXCEPT ![t] = IF @ = "over" THEN "lowered" ELSE @]
                      /\ running' = FALSE
                      /\ UNCHANGED <<page, calls, events, proc, alive, history>>

LowerFlag(t) == /\ Move(t, "over", "lowered") /\ running' = FALSE
                /\ UNCHANGED <<page, calls, events, proc, alive, history>>

PostStop(t) == /\ Move(t, "lowered", "none") /\ Post("stop")
               /\ UNCHANGED <<page, calls, running, proc, alive, history>>

----------------------------------------------------------------------------
UiWork == \/ Created \/ CreateFails
          \/ OnLaunchProgress \/ OnLaunchError \/ Refused \/ OnGameStart \/ OnGameStop
          \/ LaunchRefused \/ LaunchStarts \/ KillGame \/ Lost

ThreadWork(t) ==
    \/ PrepFails(t) \/ PrepDone(t) \/ RaiseFlag(t) \/ PostStart(t)
    \/ Fork(t) \/ ForkFails(t) \/ SetProc(t)
    \/ Reap(t) \/ ClearProc(t) \/ LowerFlag(t) \/ PostStop(t)

Player == ClickPlay \/ ClickTest \/ ClickKill \/ SelectVersion \/ ClickLogout

Account == LogoutFails \/ Leave \/ SignIn

Next == \/ Player \/ Account \/ UiWork \/ HideTimer \/ DoneTimer
        \/ \E t \in Threads : ThreadWork(t) \/ Exit(t)

Spec == Init /\ [][Next]_vars

(* The UI thread keeps serving its queues, timers fire, and a launch       *)
(* thread is scheduled.  Nothing is assumed of the player, of the account *)
(* service, of the game, which may run on, nor of a launch that is         *)
(* preparing: its transfers have no time limit (download.c:36) and the     *)
(* Java tools it runs have none.                                           *)
Scheduled(t) == pc[t] # "prep" /\ ThreadWork(t)

FairSpec == /\ Spec
            /\ WF_vars(UiWork) /\ WF_vars(HideTimer) /\ WF_vars(DoneTimer)
            /\ \A t \in Threads : WF_vars(Scheduled(t))

----------------------------------------------------------------------------
(* Properties.                                                             *)

(* From the play tab, and with a thread that gets on within 800 ms, no two *)
(* launches are under way at a time: the class path and the list of        *)
(* libraries are static buffers that every launch thread writes, and two   *)
(* games would share one game directory.                                   *)
OneLaunch ==
    ~strayed => Cardinality({t \in Threads : pc[t] \notin {"none", "lowered"}}) <= 1

(* Likewise, while a game process runs game_running says so, and the kill  *)
(* button reaches it from the moment fork has returned.                    *)
GameKnown == ~strayed => \A t \in alive : running /\ (pc[t] # "forked" => proc = t)

(* Likewise, when nothing is under way the page lets the player start a    *)
(* game: no overlay, the button shown and enabled.  A page that was loaded *)
(* while a game ran offers Play although on_launch refuses it, and after   *)
(* the refusal nothing enables the button; all else holds of it too.       *)
Quiet == /\ Busy = {} /\ creating = 0 /\ calls = << >> /\ events = << >>
         /\ timers["hide"] = 0 /\ timers["done"] = 0
QuietMeansReady == Quiet /\ ~strayed => ~overlay /\ group /\ (btnOn \/ reloaded)

(* The overlay always goes away again, whichever of success, failure and   *)
(* refusal ends the launch and whatever other launches do meanwhile,       *)
(* provided that no launch prepares for ever.                              *)
PrepsEnd == \A t \in Threads : pc[t] = "prep" ~> pc[t] # "prep"
OverlayEnds == PrepsEnd => (overlay ~> ~overlay)

=============================================================================
