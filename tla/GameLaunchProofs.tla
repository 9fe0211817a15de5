-------------------------- MODULE GameLaunchProofs ---------------------------
(***************************************************************************)
(* What holds of GameLaunch for every number of launch threads and of      *)
(* pending timers and scripts, proved with TLAPS.                          *)
(***************************************************************************)
EXTENDS GameLaunch, SequenceTheorems, FiniteSetTheorems, TLAPS

Call == {"launch_mc", "launch_instance", "kill_game"}
Event == {"done", "error", "refused", "start", "stop"}

LEMMA AppendIn ==
  ASSUME NEW S, NEW q \in Seq(S), NEW x \in S
  PROVE  Append(q, x) \in Seq(S)
OBVIOUS

LEMMA TailIn ==
  ASSUME NEW S, NEW q \in Seq(S), q # << >>
  PROVE  Tail(q) \in Seq(S) /\ Head(q) \in S
OBVIOUS

LEMMA QueueTypes ==
  ASSUME TypeOK
  PROVE  /\ \A c \in Call : Append(calls, c) \in Seq(Call)
         /\ \A e \in Event : Append(events, e) \in Seq(Event)
         /\ calls # << >> => Tail(calls) \in Seq(Call)
         /\ events # << >> => Tail(events) \in Seq(Event)
<1>1. calls \in Seq(Call) /\ events \in Seq(Event)
  BY DEF TypeOK, Call, Event
<1> QED
  BY <1>1, AppendIn, TailIn

LEMMA TimerTypes ==
  ASSUME TypeOK, NEW k \in {"hide", "done"}
  PROVE  /\ Timer(k) => timers' \in [{"hide", "done"} -> Nat]
         /\ timers[k] > 0 =>
              [timers EXCEPT ![k] = @ - 1] \in [{"hide", "done"} -> Nat]
BY DEF TypeOK, Timer

LEMMA MoveType ==
  ASSUME TypeOK, NEW t \in Threads, NEW from, NEW to \in Places, Move(t, from, to)
  PROVE  pc' \in [Threads -> Places]
BY DEF TypeOK, Move

LEMMA PlayerStep == ASSUME TypeOK, Player PROVE TypeOK'
<1> USE QueueTypes DEF Call, Event
<1>1. CASE ClickPlay
  BY <1>1 DEF TypeOK, ClickPlay, native, history
<1>2. CASE ClickTest
  BY <1>2 DEF TypeOK, ClickTest, native
<1>3. CASE ClickKill
  BY <1>3 DEF TypeOK, ClickKill, page, face, native, history
<1>4. CASE SelectVersion
  BY <1>4 DEF TypeOK, SelectVersion, native, history
<1>5. CASE ClickLogout
  BY <1>5 DEF TypeOK, ClickLogout, face, native, history
<1> QED
  BY <1>1, <1>2, <1>3, <1>4, <1>5 DEF Player

LEMMA LoadStep == ASSUME TypeOK, Account \/ Lost PROVE TypeOK'
<1> USE QueueTypes DEF Call, Event
<1>1. ASSUME Fresh
      PROVE  /\ overlay' \in BOOLEAN /\ btnOn' \in BOOLEAN /\ group' \in BOOLEAN
             /\ timers' \in [{"hide", "done"} -> Nat] /\ creating' \in Nat
  BY <1>1 DEF Fresh
<1>2. CASE LogoutFails
  BY <1>2 DEF TypeOK, LogoutFails, face, native, history
<1>3. CASE Leave
  BY <1>1, <1>3 DEF TypeOK, Leave, native, history
<1>4. CASE SignIn
  BY <1>1, <1>4 DEF TypeOK, SignIn, native
<1>5. CASE Lost
  BY <1>5 DEF TypeOK, Lost, page, face, native, history
<1> QED
  BY <1>2, <1>3, <1>4, <1>5 DEF Account

LEMMA PageStep ==
  ASSUME TypeOK,
         \/ Created \/ CreateFails \/ OnLaunchProgress \/ OnLaunchError \/ Refused
         \/ OnGameStart \/ OnGameStop \/ HideTimer \/ DoneTimer
  PROVE  TypeOK'
<1> USE QueueTypes, TimerTypes DEF Call, Event
<1>1. CASE Created
  BY <1>1 DEF TypeOK, Created, native, history
<1>2. CASE CreateFails
  BY <1>2 DEF TypeOK, CreateFails, native, history
<1>3. CASE OnLaunchProgress
  BY <1>3 DEF TypeOK, OnLaunchProgress, Handle, native, history
<1>4. CASE OnLaunchError
  BY <1>4 DEF TypeOK, OnLaunchError, Handle, native, history
<1>5. CASE Refused
  BY <1>5 DEF TypeOK, Refused, Handle, native, history
<1>6. CASE OnGameStart
  BY <1>6 DEF TypeOK, OnGameStart, Handle, native, history
<1>7. CASE OnGameStop
  BY <1>7 DEF TypeOK, OnGameStop, Handle, native, history
<1>8. CASE HideTimer
  BY <1>8 DEF TypeOK, HideTimer, native, history
<1>9. CASE DoneTimer
  BY <1>9 DEF TypeOK, DoneTimer, InTime, native
<1> QED
  BY <1>1, <1>2, <1>3, <1>4, <1>5, <1>6, <1>7, <1>8, <1>9

LEMMA HandlerStep ==
  ASSUME TypeOK, LaunchRefused \/ LaunchStarts \/ KillGame
  PROVE  TypeOK'
<1> USE QueueTypes DEF Call, Event
<1>1. CASE LaunchRefused
  BY <1>1 DEF TypeOK, LaunchRefused, Take, page, face, native, history
<1>2. CASE LaunchStarts
  <2>1. pc' \in [Threads -> Places]
    BY <1>2 DEF TypeOK, LaunchStarts, Places
  <2> QED
    BY <1>2, <2>1 DEF TypeOK, LaunchStarts, Take, page, face, history
<1>3. CASE KillGame
  BY <1>3 DEF TypeOK, KillGame, Take, page, face, history
<1> QED
  BY <1>1, <1>2, <1>3

LEMMA ThreadStep ==
  ASSUME TypeOK, NEW t \in Threads, ThreadWork(t) \/ Exit(t)
  PROVE  TypeOK'
<1>0. pc' \in [Threads -> Places]
  <2>1. CASE Exit(t)
    BY <2>1 DEF TypeOK, Exit
  <2>2. CASE ThreadWork(t)
    <3>1. \E from, to \in Places : Move(t, from, to)
      BY <2>2 DEF ThreadWork, PrepFails, PrepDone, RaiseFlag, PostStart, Fork, ForkFails,
                  SetProc, Reap, ClearProc, LowerFlag, PostStop, Places
    <3> QED
      BY <3>1, MoveType
  <2> QED
    BY <2>1, <2>2
<1> USE QueueTypes, <1>0 DEF Call, Event
<1>1. CASE PrepFails(t) \/ PrepDone(t) \/ PostStart(t) \/ PostStop(t)
  BY <1>1 DEF TypeOK, PrepFails, PrepDone, PostStart, PostStop, Post, page, face, history
<1>2. CASE RaiseFlag(t) \/ LowerFlag(t)
  BY <1>2 DEF TypeOK, RaiseFlag, LowerFlag, page, face, history
<1>3. CASE Fork(t) \/ ForkFails(t) \/ Reap(t) \/ Exit(t)
  BY <1>3 DEF TypeOK, Fork, ForkFails, Reap, Exit, page, face, history
<1>4. CASE SetProc(t) \/ ClearProc(t)
  BY <1>4 DEF TypeOK, SetProc, ClearProc, page, face, history
<1> QED
  BY <1>1, <1>2, <1>3, <1>4 DEF ThreadWork

LEMMA TypeStep == TypeOK /\ [Next]_vars => TypeOK'
<1> SUFFICES ASSUME TypeOK, [Next]_vars PROVE TypeOK'
  OBVIOUS
<1>1. CASE UNCHANGED vars
  BY <1>1 DEF TypeOK, vars, page, face, native, history
<1> QED
  BY <1>1, PlayerStep, LoadStep, PageStep, HandlerStep, ThreadStep DEF Next, UiWork

LEMMA TypeInit == Init => TypeOK
<1> SUFFICES ASSUME Init PROVE TypeOK
  OBVIOUS
<1>1. calls \in Seq(Call) /\ events \in Seq(Event)
  BY DEF Init
<1>2. timers \in [{"hide", "done"} -> Nat]
  BY DEF Init
<1>3. pc \in [Threads -> Places]
  BY DEF Init, Places
<1> QED
  BY <1>1, <1>2, <1>3 DEF Init, TypeOK, Call, Event

\* The queues between page, handlers and threads hold only what each side
\* knows, and g_mc_process names a launch thread's child or none.
THEOREM TypeCorrect == Spec => []TypeOK
BY TypeInit, TypeStep, PTL DEF Spec
----------------------------------------------------------------------------
(* The inductive invariant of OneLaunch, GameKnown and QuietMeansReady.    *)
(*                                                                         *)
(* As long as nothing strayed there is one token.  A click takes it from   *)
(* the page to the queue of calls, the handler to a launch thread, the     *)
(* thread to a script for the page, the script to a timer, and the timer   *)
(* gives it back; the overlay covers the page until then.  Among the       *)
(* scripts there may be "stop"s of threads that have lowered their flag:   *)
(* a page that was loaded while a game ran does not wait for them.         *)

Launching == {"prep", "ready", "flagged"}
Started == {"posted", "forked", "playing", "reaped", "over", "lowered"}

Only(S) == \A i \in 1..Len(events) : events[i] \in S
One(e, S) == \E k \in 1..Len(events) :
                /\ events[k] = e
                /\ \A i \in 1..Len(events) : i # k => events[i] \in S

Pending(hide, done) == timers["hide"] = hide /\ timers["done"] = done

(* A kill that was clicked late may wait in front of a launch.             *)
Kills == {<< >>, <<"kill_game">>}
Clicked == {<<"launch_mc">>, <<"kill_game", "launch_mc">>}

(* The page has seen every launch that is under way begin.                 *)
Aware == at # "login" /\ ~reloaded

(* The places of the token; t is the thread that has it or had it last.    *)
Idle(t) == /\ ~overlay /\ calls \in Kills /\ Only({"stop"}) /\ Pending(0, 0)
           /\ pc[t] \notin Launching /\ (btnOn \/ (reloaded /\ at # "login"))
Called(t) == /\ overlay /\ calls \in Clicked /\ Only({"stop"}) /\ Pending(0, 0)
             /\ pc[t] \notin Launching /\ (Aware => \A u \in Threads : pc[u] = "none")
Preparing(t) == /\ overlay /\ calls = << >> /\ Only({"stop"}) /\ Pending(0, 0)
                /\ pc[t] = "prep"
Failing(t) == /\ overlay /\ calls = << >> /\ One("error", {"stop"}) /\ Pending(0, 0)
              /\ pc[t] \notin Launching
Refusing(t) == /\ overlay /\ calls = << >> /\ One("refused", {"stop"}) /\ Pending(0, 0)
               /\ pc[t] \notin Launching /\ ~Aware
Hiding(t) == /\ overlay /\ calls = << >> /\ Only({"stop"}) /\ Pending(1, 0)
             /\ pc[t] \notin Launching /\ (Aware => btnOn)
Full(t) == /\ overlay /\ calls = << >> /\ One("done", {"start", "stop"}) /\ Pending(0, 0)
           /\ pc[t] # "prep"
Timed(t) == /\ overlay /\ calls = << >> /\ Only({"start", "stop"}) /\ Pending(0, 1)
            /\ pc[t] # "prep"

Token(t) == /\ \/ Idle(t) \/ Called(t) \/ Preparing(t) \/ Failing(t) \/ Refusing(t)
               \/ Hiding(t) \/ Full(t) \/ Timed(t)
            /\ at # "app" => Idle(t)

(* The two variables and the process, by where the thread is.              *)
Known(t) == /\ running <=> pc[t] \in (Started \cup {"flagged"}) \ {"lowered"}
            /\ proc = IF pc[t] \in {"playing", "reaped"} THEN t ELSE None
            /\ alive \subseteq {t}
            /\ alive # {} => pc[t] \in {"forked", "playing"}

Others(t) == \A u \in Threads \ {t} : pc[u] \in {"none", "lowered"}

OneToken == \E t \in Threads : Others(t) /\ Known(t) /\ Token(t)

(* Such a page sees one launch at a time, and shows the kill button from   *)
(* its "start" to its "stop", or is about to.                              *)
KillShown == \/ ~group /\ \A j \in 1..Len(events) : events[j] # "stop"
             \/ \E i \in 1..Len(events) :
                   /\ events[i] = "start"
                   /\ \A j \in 1..Len(events) : j > i => events[j] # "stop"

OneSeen == /\ \E t \in Threads : \A u \in Threads \ {t} : pc[u] = "none"
           /\ (\E u \in Threads : pc[u] \in Started) => KillShown

(* Whatever strayed: where the kill button is or will be shown, a "stop"   *)
(* is still to come.                                                       *)
Stopping(i) == \/ \E u \in Threads : pc[u] \in Started
               \/ \E j \in 1..Len(events) : j > i /\ events[j] = "stop"
StopComes == /\ at = "login" => group
             /\ ~group => Stopping(0)
             /\ \A i \in 1..Len(events) : events[i] = "start" => Stopping(i)

Straight == OneToken /\ creating = 0 /\ (Aware => OneSeen)
IInv == TypeOK /\ StopComes /\ (~strayed => Straight)

(* The queue of scripts, a script longer or shorter.                       *)
LEMMA Posted ==
  ASSUME TypeOK, NEW e \in Event, Post(e)
  PROVE  /\ Len(events) \in Nat /\ Len(events') = Len(events) + 1
         /\ events'[Len(events) + 1] = e
         /\ \A i \in 1..Len(events) : events'[i] = events[i]
<1>1. events \in Seq(Event)
  BY DEF TypeOK, Event
<1> QED
  BY <1>1 DEF Post

LEMMA Popped ==
  ASSUME TypeOK, events # << >>, events' = Tail(events)
  PROVE  /\ Len(events) \in Nat \ {0} /\ Len(events') = Len(events) - 1
         /\ Head(events) = events[1]
         /\ \A i \in 1..Len(events') : events'[i] = events[i + 1]
<1>1. events \in Seq(Event)
  BY DEF TypeOK, Event
<1>2. Len(events) \in Nat \ {0}
  BY <1>1
<1>3. Len(Tail(events)) = Len(events) - 1
      /\ \A i \in 1..Len(Tail(events)) : Tail(events)[i] = events[i + 1]
  BY <1>1, <1>2
<1> QED
  BY <1>2, <1>3

LEMMA PostKeeps ==
  ASSUME TypeOK, NEW e \in Event, Post(e), NEW S, NEW x
  PROVE  /\ Only(S) /\ e \in S => Only(S)'
         /\ One(x, S) /\ e \in S => One(x, S)'
         /\ Only(S) => One(e, S)'
<1>1. \A i \in 1..Len(events') : i \in 1..Len(events) \/ i = Len(events) + 1
  BY Posted
<1>2. /\ 1..Len(events) \subseteq 1..Len(events') /\ Len(events) + 1 \in 1..Len(events')
      /\ Len(events) + 1 \notin 1..Len(events)
  BY Posted
<1>3. ASSUME Only(S), e \in S PROVE Only(S)'
  BY <1>1, <1>3, Posted DEF Only
<1>4. ASSUME One(x, S), e \in S PROVE One(x, S)'
  <2>1. PICK k \in 1..Len(events) :
           events[k] = x /\ \A i \in 1..Len(events) : i # k => events[i] \in S
    BY <1>4 DEF One
  <2>2. k \in 1..Len(events') /\ events'[k] = x
    BY <1>2, <2>1, Posted
  <2>3. \A i \in 1..Len(events') : i # k => events'[i] \in S
    BY <1>1, <1>4, <2>1, Posted
  <2> QED
    BY <2>2, <2>3 DEF One
<1>5. ASSUME Only(S) PROVE One(e, S)'
  <2>1. \A i \in 1..Len(events') : i # Len(events) + 1 => events'[i] \in S
    BY <1>1, <1>5, Posted DEF Only
  <2> QED
    BY <1>2, <2>1, Posted DEF One
<1> QED
  BY <1>3, <1>4, <1>5

LEMMA PopKeeps ==
  ASSUME TypeOK, events # << >>, events' = Tail(events), NEW S, NEW x, x \notin S
  PROVE  /\ Only(S) => Only(S)' /\ Head(events) \in S
         /\ One(x, S) /\ Head(events) \in S => One(x, S)'
         /\ One(x, S) /\ Head(events) \notin S => Only(S)' /\ Head(events) = x
<1>1. \A i \in 1..Len(events') : i + 1 \in 1..Len(events) /\ i + 1 # 1
  BY Popped
<1>2. 1 \in 1..Len(events) /\ \A i \in 1..Len(events) : i = 1 \/ i - 1 \in 1..Len(events')
  BY Popped
<1>3. ASSUME Only(S) PROVE Only(S)' /\ Head(events) \in S
  BY <1>1, <1>2, <1>3, Popped DEF Only
<1>4. ASSUME One(x, S), Head(events) \in S PROVE One(x, S)'
  <2>1. PICK k \in 1..Len(events) :
           events[k] = x /\ \A i \in 1..Len(events) : i # k => events[i] \in S
    BY <1>4 DEF One
  <2>2. k # 1
    BY <1>4, <2>1, Popped
  <2>3. k - 1 \in 1..Len(events') /\ events'[k - 1] = x
    BY <1>2, <2>1, <2>2, Popped
  <2>4. \A i \in 1..Len(events') : i # k - 1 => events'[i] \in S
    BY <1>1, <2>1, Popped
  <2> QED
    BY <2>3, <2>4 DEF One
<1>5. ASSUME One(x, S), Head(events) \notin S PROVE Only(S)' /\ Head(events) = x
  <2>1. PICK k \in 1..Len(events) :
           events[k] = x /\ \A i \in 1..Len(events) : i # k => events[i] \in S
    BY <1>5 DEF One
  <2>2. k = 1
    BY <1>2, <1>5, <2>1, Popped
  <2> QED
    BY <1>1, <2>1, <2>2, Popped DEF Only
<1> QED
  BY <1>3, <1>4, <1>5

LEMMA EmptyQueue == ASSUME events = << >>, NEW S PROVE Only(S)
BY DEF Only
----------------------------------------------------------------------------
(* StopComes, which holds of every page.                                   *)

LEMMA StopPosted ==
  ASSUME TypeOK, StopComes, NEW e \in Event, Post(e), at' = at, group' = group,
         \/ e = "stop"
         \/ /\ (\E u \in Threads : pc[u] \in Started) => \E u \in Threads : pc'[u] \in Started
            /\ e = "start" => \E u \in Threads : pc'[u] \in Started
  PROVE  StopComes'
<1>1. /\ \A i \in 1..Len(events') : i \in 1..Len(events) \/ i = Len(events) + 1
      /\ 1..Len(events) \subseteq 1..Len(events') /\ Len(events) + 1 \in 1..Len(events')
      /\ \A i \in 1..Len(events) : Len(events) + 1 > i
      /\ Len(events) + 1 > 0
  BY Posted
<1>2. ASSUME NEW i \in 0..Len(events), Stopping(i) PROVE Stopping(i)'
  BY <1>1, <1>2, Posted DEF Stopping
<1>3. ~group' => Stopping(0)'
  BY <1>2, Posted DEF StopComes
<1>4. ASSUME NEW i \in 1..Len(events'), events'[i] = "start" PROVE Stopping(i)'
  <2>1. CASE i \in 1..Len(events)
    BY <1>2, <1>4, <2>1, Posted DEF StopComes
  <2>2. CASE i = Len(events) + 1
    BY <1>4, <2>2, Posted DEF Stopping
  <2> QED
    BY <1>1, <2>1, <2>2
<1> QED
  BY <1>3, <1>4 DEF StopComes

LEMMA StopPopped ==
  ASSUME TypeOK, StopComes, events # << >>, events' = Tail(events), pc' = pc,
         at' = "login" => group',
         \/ group'
         \/ group' = group /\ Head(events) # "stop"
         \/ Head(events) = "start"
  PROVE  StopComes'
<1>1. /\ 1 \in 1..Len(events) /\ Head(events) = events[1]
      /\ \A j \in 1..Len(events) : j > 1 => j - 1 \in 1..Len(events') /\ events'[j - 1] = events[j]
  BY Popped
<1>2. ASSUME NEW i \in 1..Len(events), Stopping(i) PROVE Stopping(i - 1)'
  <2>1. CASE \E u \in Threads : pc[u] \in Started
    BY <2>1 DEF Stopping
  <2>2. CASE \E j \in 1..Len(events) : j > i /\ events[j] = "stop"
    <3>1. PICK j \in 1..Len(events) : j > i /\ events[j] = "stop"
      BY <2>2
    <3>2. j - 1 \in 1..Len(events') /\ events'[j - 1] = "stop" /\ j - 1 > i - 1
      BY <1>1, <3>1
    <3> QED
      BY <3>2 DEF Stopping
  <2> QED
    BY <1>2, <2>1, <2>2 DEF Stopping
<1>3. ASSUME ~group' PROVE Stopping(0)'
  <2>1. Stopping(1)
    <3>1. CASE Head(events) = "start"
      BY <1>1, <3>1 DEF StopComes
    <3>2. CASE ~group /\ Head(events) # "stop"
      <4>1. Stopping(0)
        BY <3>2 DEF StopComes
      <4>2. \A j \in 1..Len(events) : events[j] = "stop" => j > 1
        BY <1>1, <3>2, Popped
      <4> QED
        BY <4>1, <4>2 DEF Stopping
    <3> QED
      BY <1>3, <3>1, <3>2
  <2> QED
    BY <1>1, <1>2, <2>1
<1>4. ASSUME NEW i \in 1..Len(events'), events'[i] = "start" PROVE Stopping(i)'
  <2>1. i + 1 \in 1..Len(events) /\ events[i + 1] = "start" /\ (i + 1) - 1 = i
    BY <1>4, Popped
  <2>2. Stopping(i + 1)
    BY <2>1 DEF StopComes
  <2> QED
    BY <1>2, <2>1, <2>2
<1> QED
  BY <1>3, <1>4 DEF StopComes

LEMMA StopKept ==
  ASSUME StopComes, events' = events, group' \/ group' = group, at' = "login" => group',
         (\E u \in Threads : pc[u] \in Started) => \E u \in Threads : pc'[u] \in Started
  PROVE  StopComes'
BY DEF StopComes, Stopping

LEMMA Moved ==
  ASSUME TypeOK, NEW t \in Threads, NEW from, NEW to, Move(t, from, to)
  PROVE  pc[t] = from /\ pc'[t] = to /\ \A u \in Threads \ {t} : pc'[u] = pc[u]
BY DEF TypeOK, Move

LEMMA StopStep == TypeOK /\ StopComes /\ [Next]_vars => StopComes'
<1> SUFFICES ASSUME TypeOK, StopComes, [Next]_vars PROVE StopComes'
  OBVIOUS
<1>1. CASE Player \/ Account \/ LaunchStarts \/ KillGame \/ Created \/ CreateFails
           \/ HideTimer \/ DoneTimer
  <2>1. events' = events /\ (group' \/ group' = group)
    BY <1>1 DEF Player, Account, ClickPlay, ClickTest, ClickKill, SelectVersion, ClickLogout,
                LogoutFails, Leave, SignIn, Fresh, LaunchStarts, KillGame, Created, CreateFails,
                HideTimer, DoneTimer, page, face
  <2>2. pc' = pc \/ \E t \in Threads : pc[t] = "none" /\ pc' = [pc EXCEPT ![t] = "prep"]
    BY <1>1 DEF Player, Account, ClickPlay, ClickTest, ClickKill, SelectVersion, ClickLogout,
                LogoutFails, Leave, SignIn, LaunchStarts, KillGame, Created, CreateFails,
                HideTimer, DoneTimer, native
  <2>3. \A u \in Threads : pc[u] \in Started => pc'[u] \in Started
    BY <2>2 DEF TypeOK, Started
  <2>4. at' = "login" => group'
    BY <1>1 DEF Player, Account, ClickPlay, ClickTest, ClickKill, SelectVersion, ClickLogout,
                LogoutFails, Leave, SignIn, Fresh, LaunchStarts, KillGame, Created, CreateFails,
                HideTimer, DoneTimer, page, face, StopComes
  <2> QED
    BY <2>1, <2>3, <2>4, StopKept
<1>2. CASE OnLaunchProgress \/ OnLaunchError \/ Refused \/ OnGameStart \/ OnGameStop \/ Lost
  <2>1. pc' = pc /\ events # << >> /\ events' = Tail(events)
    BY <1>2 DEF OnLaunchProgress, OnLaunchError, Refused, OnGameStart, OnGameStop, Lost,
                Handle, native
  <2>2. CASE OnLaunchProgress \/ OnLaunchError \/ Refused
    BY <2>1, <2>2, StopPopped DEF OnLaunchProgress, OnLaunchError, Refused, Handle
  <2>3. CASE OnGameStart
    BY <2>1, <2>3, StopPopped DEF OnGameStart, Handle
  <2>4. CASE OnGameStop
    BY <2>1, <2>4, StopPopped DEF OnGameStop, Handle
  <2>5. CASE Lost
    BY <2>1, <2>5, StopPopped DEF Lost, page, face, StopComes
  <2> QED
    BY <1>2, <2>2, <2>3, <2>4, <2>5
<1>3. CASE LaunchRefused
  BY <1>3, StopPosted DEF LaunchRefused, Post, page, face, native, Event
<1>4. ASSUME NEW t \in Threads, ThreadWork(t) \/ Exit(t) PROVE StopComes'
  <2>1. at' = at /\ group' = group
    BY <1>4 DEF ThreadWork, PrepFails, PrepDone, RaiseFlag, PostStart, Fork, ForkFails,
                SetProc, Reap, ClearProc, LowerFlag, PostStop, Exit, page, face
  <2>2. CASE PrepFails(t)
    <3>1. \A u \in Threads : pc[u] \in Started => pc'[u] \in Started
      BY <2>2, Moved DEF PrepFails, Started
    <3> QED
      BY <2>1, <2>2, <3>1, StopPosted DEF PrepFails, Event
  <2>3. CASE PrepDone(t)
    <3>1. \A u \in Threads : pc[u] \in Started => pc'[u] \in Started
      BY <2>3, Moved DEF PrepDone, Started
    <3> QED
      BY <2>1, <2>3, <3>1, StopPosted DEF PrepDone, Event
  <2>4. CASE PostStart(t)
    <3>1. pc'[t] \in Started /\ Post("start")
      BY <2>4, Moved DEF PostStart, Started
    <3> QED
      BY <2>1, <3>1, StopPosted DEF Event
  <2>5. CASE PostStop(t)
    BY <2>1, <2>5, StopPosted DEF PostStop, Event
  <2>6. CASE \/ RaiseFlag(t) \/ Fork(t) \/ ForkFails(t) \/ SetProc(t)
             \/ Reap(t) \/ ClearProc(t) \/ LowerFlag(t) \/ Exit(t)
    <3>1. events' = events
      BY <2>6 DEF RaiseFlag, Fork, ForkFails, SetProc, Reap, ClearProc, LowerFlag, Exit
    <3>2. CASE Exit(t)
      BY <2>1, <3>1, <3>2, StopKept DEF Exit, StopComes
    <3>3. CASE \/ RaiseFlag(t) \/ Fork(t) \/ ForkFails(t) \/ SetProc(t)
               \/ Reap(t) \/ ClearProc(t) \/ LowerFlag(t)
      <4>1. \A u \in Threads : pc[u] \in Started => pc'[u] \in Started
        BY <3>3, Moved DEF RaiseFlag, Fork, ForkFails, SetProc, Reap, ClearProc, LowerFlag,
                           Started
      <4> QED
        BY <2>1, <3>1, <4>1, StopKept DEF StopComes
    <3> QED
      BY <2>6, <3>2, <3>3
  <2> QED
    BY <1>4, <2>2, <2>3, <2>4, <2>5, <2>6 DEF ThreadWork
<1>5. CASE UNCHANGED vars
  BY <1>5, StopKept DEF vars, page, face, native, StopComes
<1> QED
  BY <1>1, <1>2, <1>3, <1>4, <1>5 DEF Next, UiWork
----------------------------------------------------------------------------
(* The token.                                                              *)

(* The calls of the page that wait for the UI thread.                      *)
LEMMA Appended ==
  ASSUME NEW x, NEW y
  PROVE  Append(<< >>, x) = <<x>> /\ Append(<<x>>, y) = <<x, y>>
<1>1. Append(<< >>, x) = <<x>>
  OBVIOUS
<1> DEFINE S == {x, y}
<1>2. Append(<<x>>, y) = <<x, y>>
  <2>1. <<x>> \in Seq(S) /\ Append(<<x>>, y) \in Seq(S) /\ <<x, y>> \in Seq(S)
    OBVIOUS
  <2>2. /\ Len(Append(<<x>>, y)) = 2 /\ Len(<<x, y>>) = 2
        /\ Append(<<x>>, y)[1] = x /\ Append(<<x>>, y)[2] = y
        /\ <<x, y>>[1] = x /\ <<x, y>>[2] = y
    OBVIOUS
  <2>3. \A i \in 1..2 : i = 1 \/ i = 2
    OBVIOUS
  <2> HIDE DEF S
  <2> QED
    BY <2>1, <2>2, <2>3, SeqEqual
<1> QED
  BY <1>1, <1>2

LEMMA HeadTail ==
  ASSUME NEW x, NEW y
  PROVE  /\ Head(<<x>>) = x /\ Tail(<<x>>) = << >>
         /\ Head(<<x, y>>) = x /\ Tail(<<x, y>>) = <<y>>
<1>1. Head(<<x>>) = x /\ Head(<<x, y>>) = x
  OBVIOUS
<1>2. Tail(<<x>>) = << >>
  OBVIOUS
<1>3. Tail(<<x, y>>) = <<y>>
  OBVIOUS
<1> QED
  BY <1>1, <1>2, <1>3

LEMMA Asked ==
  /\ Append(<< >>, "launch_mc") = <<"launch_mc">>
  /\ Append(<<"kill_game">>, "launch_mc") = <<"kill_game", "launch_mc">>
  /\ Append(<< >>, "kill_game") = <<"kill_game">>
BY Appended, Zenon

LEMMA Taken ==
  ASSUME NEW c, Take(c)
  PROVE  /\ calls # << >>
         /\ calls = <<"kill_game">> => "kill_game" \in c /\ calls' = << >>
         /\ calls = <<"launch_mc">> => "launch_mc" \in c /\ calls' = << >>
         /\ calls = <<"kill_game", "launch_mc">> => "kill_game" \in c /\ calls' = <<"launch_mc">>
<1>1. calls # << >> /\ Head(calls) \in c /\ calls' = Tail(calls)
  BY DEF Take
<1>2. ASSUME NEW x, NEW y
      PROVE  /\ calls = <<x>> => x \in c /\ calls' = << >>
             /\ calls = <<x, y>> => x \in c /\ calls' = <<y>>
  <2>1. ASSUME calls = <<x>> PROVE x \in c /\ calls' = << >>
    BY <1>1, <2>1, HeadTail
  <2>2. ASSUME calls = <<x, y>> PROVE x \in c /\ calls' = <<y>>
    BY <1>1, <2>2, HeadTail
  <2> QED
    BY <2>1, <2>2
<1> QED
  BY <1>1, <1>2, Zenon

LEMMA PlayerToken ==
  ASSUME TypeOK, OneToken, Aware => OneSeen,
         ClickPlay \/ ClickKill \/ SelectVersion \/ ClickLogout
  PROVE  OneToken'
<1> PICK t \in Threads : Others(t) /\ Known(t) /\ Token(t)
  BY DEF OneToken
<1>1. UNCHANGED <<events, native, timers, reloaded>>
  BY DEF ClickPlay, ClickKill, SelectVersion, ClickLogout, page, face, history
<1>2. Others(t)' /\ Known(t)' /\ Only({"stop"})' = Only({"stop"})
  BY <1>1 DEF Others, Known, native, Only
<1>3. Idle(t)
  BY DEF ClickPlay, ClickKill, SelectVersion, ClickLogout, Open, Token, Called, Preparing,
         Failing, Refusing, Hiding, Full, Timed
<1>4. CASE ClickPlay
  <2>1. ASSUME Aware PROVE \A u \in Threads : pc[u] = "none"
    <3>1. group /\ \A i \in 1..Len(events) : events[i] = "stop"
      BY <1>3, <1>4 DEF ClickPlay, Idle, Only
    <3>2. ~KillShown
      BY <3>1 DEF KillShown
    <3>3. \A u \in Threads : pc[u] \notin Started
      BY <2>1, <3>2 DEF OneSeen
    <3>4. \A u \in Threads \ {t} : pc[u] = "none"
      BY <3>3 DEF Others, Started
    <3>5. pc[t] = "none"
      BY <1>3, <3>3 DEF Idle, TypeOK, Places, Started, Launching
    <3> QED
      BY <3>4, <3>5
  <2>2. Called(t)'
    BY <1>1, <1>2, <1>3, <1>4, <2>1, Asked
       DEF ClickPlay, Idle, Called, Kills, Clicked, Pending, Aware, native
  <2>3. at' = "app"
    BY <1>4 DEF ClickPlay, Open
  <2> QED
    BY <1>2, <2>2, <2>3 DEF OneToken, Token
<1>5. CASE ClickKill \/ SelectVersion \/ ClickLogout
  <2>1. Idle(t)'
    <3>1. CASE ClickKill
      BY <1>1, <1>2, <1>3, <3>1, Asked
         DEF ClickKill, page, face, Idle, Kills, Pending, Aware, native
    <3>2. CASE SelectVersion \/ ClickLogout
      BY <1>1, <1>2, <1>3, <3>2
         DEF SelectVersion, ClickLogout, Open, face, Idle, Pending, Aware, native
    <3> QED
      BY <1>5, <3>1, <3>2
  <2> QED
    BY <1>2, <2>1 DEF OneToken, Token
<1> QED
  BY <1>4, <1>5

(* A page that is left or loaded leaves the token where it is: only a page *)
(* that nothing covers can be left.                                        *)
LEMMA LoadToken ==
  ASSUME TypeOK, OneToken, Account \/ Lost
  PROVE  OneToken'
<1> PICK t \in Threads : Others(t) /\ Known(t) /\ Token(t)
  BY DEF OneToken
<1>1. Others(t)' /\ Known(t)'
  BY DEF Account, LogoutFails, Leave, SignIn, Lost, Others, Known, native
<1>2. Idle(t) /\ pc' = pc /\ calls' = calls
  BY DEF Account, LogoutFails, Leave, SignIn, Lost, Token, native
<1>3. Only({"stop"})'
  <2>1. CASE Account
    BY <1>2, <2>1 DEF Account, LogoutFails, Leave, SignIn, Idle, Only
  <2>2. CASE Lost
    <3>1. "none" \notin {"stop"}
      OBVIOUS
    <3> QED
      BY <1>2, <2>2, <3>1, PopKeeps DEF Lost, Idle
  <2> QED
    BY <2>1, <2>2
<1>4. Pending(0, 0)' /\ ~overlay' /\ (btnOn' \/ (reloaded' /\ at' # "login"))
  <2>1. CASE LogoutFails \/ Lost
    BY <1>2, <2>1 DEF LogoutFails, Lost, page, face, history, Idle, Pending, Aware
  <2>2. CASE Leave \/ SignIn
    BY <2>2 DEF Leave, SignIn, Fresh, Pending
  <2> QED
    BY <2>1, <2>2 DEF Account
<1>5. Idle(t)'
  BY <1>2, <1>3, <1>4 DEF Idle
<1> QED
  BY <1>1, <1>5 DEF OneToken, Token

LEMMA ScriptToken ==
  ASSUME TypeOK, OneToken,
         OnLaunchProgress \/ OnLaunchError \/ Refused \/ OnGameStart \/ OnGameStop
  PROVE  OneToken'
<1> PICK t \in Threads : Others(t) /\ Known(t) /\ Token(t)
  BY DEF OneToken
<1>1. UNCHANGED <<at, overlay, calls, native, reloaded>>
  BY DEF OnLaunchProgress, OnLaunchError, Refused, OnGameStart, OnGameStop, history
<1>2. Others(t)' /\ Known(t)'
  BY <1>1 DEF Others, Known, native
<1>3. events # << >> /\ events' = Tail(events)
  BY DEF OnLaunchProgress, OnLaunchError, Refused, OnGameStart, OnGameStop, Handle
<1>4. /\ OnLaunchProgress => Head(events) = "done"
      /\ OnLaunchError => Head(events) = "error"
      /\ Refused => Head(events) = "refused"
      /\ OnGameStart => Head(events) = "start"
      /\ OnGameStop => Head(events) = "stop"
  BY DEF OnLaunchProgress, OnLaunchError, Refused, OnGameStart, OnGameStop, Handle
<1>5. /\ Only({"stop"}) => Head(events) = "stop" /\ Only({"stop"})'
      /\ Only({"start", "stop"}) => Head(events) \in {"start", "stop"} /\ Only({"start", "stop"})'
  <2>1. "none" \notin {"stop"} /\ "none" \notin {"start", "stop"}
    OBVIOUS
  <2> QED
    BY <1>3, <2>1, PopKeeps
<1>6. /\ One("error", {"stop"}) =>
           IF Head(events) = "stop" THEN One("error", {"stop"})'
           ELSE Head(events) = "error" /\ Only({"stop"})'
      /\ One("refused", {"stop"}) =>
           IF Head(events) = "stop" THEN One("refused", {"stop"})'
           ELSE Head(events) = "refused" /\ Only({"stop"})'
      /\ One("done", {"start", "stop"}) =>
           IF Head(events) \in {"start", "stop"} THEN One("done", {"start", "stop"})'
           ELSE Head(events) = "done" /\ Only({"start", "stop"})'
  <2>1. "error" \notin {"stop"} /\ "refused" \notin {"stop"} /\ "done" \notin {"start", "stop"}
    OBVIOUS
  <2> QED
    BY <1>3, <2>1, PopKeeps
<1>7. CASE OnGameStart \/ OnGameStop
  <2>1. UNCHANGED <<timers, btnOn, Aware>>
    BY <1>1, <1>7 DEF OnGameStart, OnGameStop, Aware
  <2>2. Head(events) \in {"start", "stop"}
    BY <1>4, <1>7
  <2>3. /\ Idle(t) => Idle(t)'
        /\ Called(t) => Called(t)'
        /\ Preparing(t) => Preparing(t)'
        /\ Failing(t) => Failing(t)'
        /\ Refusing(t) => Refusing(t)'
        /\ Hiding(t) => Hiding(t)'
        /\ Full(t) => Full(t)'
        /\ Timed(t) => Timed(t)'
    BY <1>1, <1>5, <1>6, <2>1, <2>2
       DEF Idle, Called, Preparing, Failing, Refusing, Hiding, Full, Timed, Pending, native
  <2> QED
    BY <1>1, <1>2, <2>3 DEF OneToken, Token
<1>8. CASE OnLaunchProgress
  <2>1. Full(t)
    BY <1>4, <1>5, <1>6, <1>8 DEF Token, Idle, Called, Preparing, Failing, Refusing, Hiding, Timed
  <2>2. Timed(t)'
    BY <1>1, <1>4, <1>6, <1>8, <2>1
       DEF OnLaunchProgress, Timer, TypeOK, Full, Timed, Pending, native
  <2> QED
    BY <1>1, <1>2, <2>1, <2>2 DEF OneToken, Token, Full, Idle
<1>9. CASE OnLaunchError
  <2>1. Failing(t)
    BY <1>4, <1>5, <1>6, <1>9 DEF Token, Idle, Called, Preparing, Refusing, Hiding, Full, Timed
  <2>2. Hiding(t)'
    BY <1>1, <1>4, <1>6, <1>9, <2>1
       DEF OnLaunchError, Timer, TypeOK, Failing, Hiding, Pending, native
  <2> QED
    BY <1>1, <1>2, <2>1, <2>2 DEF OneToken, Token, Failing, Idle
<1>10. CASE Refused
  <2>1. Refusing(t)
    BY <1>4, <1>5, <1>6, <1>10 DEF Token, Idle, Called, Preparing, Failing, Hiding, Full, Timed
  <2>2. Hiding(t)'
    BY <1>1, <1>4, <1>6, <1>10, <2>1
       DEF Refused, Timer, TypeOK, Refusing, Hiding, Pending, Aware, native
  <2> QED
    BY <1>1, <1>2, <2>1, <2>2 DEF OneToken, Token, Refusing, Idle
<1> QED
  BY <1>7, <1>8, <1>9, <1>10

(* In time: the scripts have been run, and the thread has raised its flag, *)
(* so that what comes up with the play button has no launch under way that *)
(* on_launch would not refuse to double.                                   *)
LEMMA TimerToken ==
  ASSUME TypeOK, OneToken, HideTimer \/ (DoneTimer /\ InTime)
  PROVE  OneToken'
<1> PICK t \in Threads : Others(t) /\ Known(t) /\ Token(t)
  BY DEF OneToken
<1>1. UNCHANGED <<at, calls, events, native, reloaded>>
  BY DEF HideTimer, DoneTimer, history
<1>2. Others(t)' /\ Known(t)' /\ Aware' = Aware /\ (Only({"stop"}) => Only({"stop"})')
  BY <1>1 DEF Others, Known, native, Aware, Only
<1>3. CASE HideTimer
  <2>1. Hiding(t)
    BY <1>3 DEF HideTimer, Token, Idle, Called, Preparing, Failing, Refusing, Full, Timed, Pending
  <2>2. at = "app" /\ (btnOn \/ reloaded)
    BY <2>1 DEF Token, Hiding, Idle, Aware
  <2>3. Idle(t)'
    BY <1>1, <1>2, <1>3, <2>1, <2>2 DEF HideTimer, TypeOK, Hiding, Idle, Pending, Kills, native
  <2> QED
    BY <1>2, <2>3 DEF OneToken, Token
<1>4. CASE DoneTimer /\ InTime
  <2>1. Timed(t)
    BY <1>4 DEF DoneTimer, Token, Idle, Called, Preparing, Failing, Refusing, Hiding, Full, Pending
  <2>2. Only({"stop"}) /\ pc[t] \notin Launching
    BY <1>4, <2>1, EmptyQueue DEF InTime, Timed, Launching
  <2>3. Idle(t)'
    BY <1>1, <1>2, <1>4, <2>1, <2>2 DEF DoneTimer, TypeOK, Timed, Idle, Pending, Kills, native
  <2> QED
    BY <1>2, <2>3 DEF OneToken, Token
<1> QED
  BY <1>3, <1>4
(* The thread that takes the token need not be the one that had it last.   *)
LEMMA HandlerToken ==
  ASSUME TypeOK, OneToken, LaunchRefused \/ LaunchStarts \/ KillGame
  PROVE  OneToken'
<1> PICK t \in Threads : Others(t) /\ Known(t) /\ Token(t)
  BY DEF OneToken
<1>1. ASSUME Take(Launches) PROVE Called(t) /\ at = "app"
  <2>1. calls # << >> /\ calls # <<"kill_game">>
    BY <1>1, Taken DEF Launches
  <2> QED
    BY <2>1 DEF Token, Idle, Preparing, Failing, Refusing, Hiding, Full, Timed, Kills, Called
<1>2. CASE LaunchRefused
  <2>1. Called(t) /\ at = "app" /\ Take(Launches)
    BY <1>1, <1>2 DEF LaunchRefused
  <2>2. calls' = << >>
    BY <2>1, Taken DEF Called, Clicked, Launches
  <2>3. ~Aware
    BY <1>2, <2>1 DEF LaunchRefused, Called, Known, Started
  <2>4. One("refused", {"stop"})'
    BY <1>2, <2>1, PostKeeps DEF LaunchRefused, Called, Post, Event
  <2>5. Refusing(t)'
    BY <1>2, <2>1, <2>2, <2>3, <2>4
       DEF LaunchRefused, page, face, native, history, Called, Refusing, Pending, Aware
  <2>6. Others(t)' /\ Known(t)' /\ at' = "app"
    BY <1>2, <2>1 DEF LaunchRefused, page, native, Others, Known
  <2> QED
    BY <2>5, <2>6 DEF OneToken, Token
<1>3. CASE LaunchStarts
  <2>1. Called(t) /\ at = "app" /\ Take(Launches)
    BY <1>1, <1>3 DEF LaunchStarts
  <2>2. pc[t] \in {"none", "lowered"} /\ proc = None /\ alive = {}
    BY <1>3, <2>1 DEF LaunchStarts, Called, Known, TypeOK, Places, Launching, Started
  <2>3. PICK u \in Threads : pc[u] = "none" /\ pc' = [pc EXCEPT ![u] = "prep"]
    BY <1>3 DEF LaunchStarts
  <2>4. Others(u)' /\ pc'[u] = "prep"
    BY <2>2, <2>3 DEF Others, TypeOK
  <2>5. Known(u)'
    BY <1>3, <2>2, <2>4 DEF LaunchStarts, Known, Started
  <2>6. calls' = << >>
    BY <2>1, Taken DEF Called, Clicked, Launches
  <2>7. Preparing(u)' /\ at' = "app"
    BY <1>3, <2>1, <2>4, <2>6 DEF LaunchStarts, page, face, Called, Preparing, Pending, Only
  <2> QED
    BY <2>4, <2>5, <2>7 DEF OneToken, Token
<1>4. CASE KillGame
  <2>1. Others(t)' /\ Known(t)'
    BY <1>4 DEF KillGame, Others, Known
  <2>2. Take({"kill_game"})
    BY <1>4 DEF KillGame
  <2>3. /\ calls # << >> /\ calls # <<"launch_mc">>
        /\ calls = <<"kill_game">> => calls' = << >>
        /\ calls = <<"kill_game", "launch_mc">> => calls' = <<"launch_mc">>
    BY <2>2, Taken
  <2>4. Idle(t) \/ Called(t)
    BY <2>3 DEF Token, Preparing, Failing, Refusing, Hiding, Full, Timed
  <2>5. Idle(t) => Idle(t)'
    BY <1>4, <2>3 DEF KillGame, page, face, history, Idle, Pending, Only, Kills, Aware
  <2>6. Called(t) => Called(t)'
    BY <1>4, <2>3 DEF KillGame, page, face, history, Called, Pending, Only, Clicked, Aware
  <2> QED
    BY <1>4, <2>1, <2>4, <2>5, <2>6 DEF OneToken, Token, KillGame, page
<1> QED
  BY <1>2, <1>3, <1>4

(* A thread that has lowered its flag has only its "stop" left to post.    *)
LEMMA StopToken ==
  ASSUME TypeOK, OneToken, NEW u \in Threads, PostStop(u)
  PROVE  OneToken'
<1> PICK t \in Threads : Others(t) /\ Known(t) /\ Token(t)
  BY DEF OneToken
<1>1. /\ pc[u] = "lowered" /\ pc'[u] = "none"
      /\ \A v \in Threads \ {u} : pc'[v] = pc[v]
  BY Moved DEF PostStop
<1>2. Others(t)' /\ Known(t)'
  BY <1>1 DEF PostStop, Others, Known, Started
<1>3. pc'[t] \notin Launching <=> pc[t] \notin Launching
  BY <1>1 DEF Launching
<1>4. (pc'[t] = "prep" <=> pc[t] = "prep")
      /\ ((\A v \in Threads : pc[v] = "none") => \A v \in Threads : pc'[v] = "none")
  BY <1>1
<1>5. /\ Only({"stop"}) => Only({"stop"})'
      /\ Only({"start", "stop"}) => Only({"start", "stop"})'
      /\ One("error", {"stop"}) => One("error", {"stop"})'
      /\ One("refused", {"stop"}) => One("refused", {"stop"})'
      /\ One("done", {"start", "stop"}) => One("done", {"start", "stop"})'
  <2>1. Post("stop") /\ "stop" \in Event /\ "stop" \in {"stop"} /\ "stop" \in {"start", "stop"}
    BY DEF PostStop, Event
  <2> QED
    BY <2>1, PostKeeps
<1>6. UNCHANGED <<at, overlay, btnOn, timers, calls, reloaded, Aware>>
  BY DEF PostStop, page, face, history, Aware
<1>7. /\ Idle(t) => Idle(t)'
      /\ Called(t) => Called(t)'
      /\ Preparing(t) => Preparing(t)'
      /\ Failing(t) => Failing(t)'
      /\ Refusing(t) => Refusing(t)'
      /\ Hiding(t) => Hiding(t)'
      /\ Full(t) => Full(t)'
      /\ Timed(t) => Timed(t)'
  BY <1>3, <1>4, <1>5, <1>6
     DEF Idle, Called, Preparing, Failing, Refusing, Hiding, Full, Timed, Pending
<1> QED
  BY <1>2, <1>6, <1>7 DEF OneToken, Token

(* Every other step is one of the thread that has the token or had it last.*)
LEMMA OthersRest ==
  ASSUME NEW t \in Threads, NEW u \in Threads, Others(t), Known(t),
         ThreadWork(u) \/ Exit(u), ~PostStop(u)
  PROVE  u = t
<1>1. ASSUME ThreadWork(u) PROVE pc[u] \notin {"none", "lowered"}
  BY <1>1 DEF ThreadWork, PrepFails, PrepDone, RaiseFlag, PostStart, Fork, ForkFails,
              SetProc, Reap, ClearProc, LowerFlag, Move
<1>2. ASSUME Exit(u) PROVE u \in {t}
  BY <1>2 DEF Exit, Known
<1> QED
  BY <1>1, <1>2 DEF Others

LEMMA ThreadKnown ==
  ASSUME TypeOK, NEW t \in Threads, Others(t), Known(t), ThreadWork(t) \/ Exit(t)
  PROVE  Others(t)' /\ Known(t)'
<1> USE DEF Known, Others, Started
<1>1. CASE PrepFails(t)
  BY <1>1, Moved DEF PrepFails
<1>2. CASE PrepDone(t)
  BY <1>2, Moved DEF PrepDone
<1>3. CASE RaiseFlag(t)
  BY <1>3, Moved DEF RaiseFlag
<1>4. CASE PostStart(t)
  BY <1>4, Moved DEF PostStart
<1>5. CASE Fork(t)
  BY <1>5, Moved DEF Fork
<1>6. CASE ForkFails(t)
  BY <1>6, Moved DEF ForkFails
<1>7. CASE SetProc(t)
  BY <1>7, Moved DEF SetProc
<1>8. CASE Reap(t)
  BY <1>8, Moved DEF Reap
<1>9. CASE ClearProc(t)
  BY <1>9, Moved DEF ClearProc
<1>10. CASE LowerFlag(t)
  BY <1>10, Moved DEF LowerFlag
<1>11. CASE PostStop(t)
  BY <1>11, Moved DEF PostStop
<1>12. CASE Exit(t)
  BY <1>12 DEF Exit
<1> QED
  BY <1>1, <1>2, <1>3, <1>4, <1>5, <1>6, <1>7, <1>8, <1>9, <1>10, <1>11, <1>12 DEF ThreadWork

(* What a thread does before its "start" moves the token on; what it does  *)
(* from then on keeps it where it is.                                      *)
LEMMA ThreadToken ==
  ASSUME TypeOK, OneToken, NEW u \in Threads, ThreadWork(u) \/ Exit(u)
  PROVE  OneToken'
<1> SUFFICES ASSUME ~PostStop(u) PROVE OneToken'
  BY StopToken
<1> PICK t \in Threads : Others(t) /\ Known(t) /\ Token(t)
  BY DEF OneToken
<1>0. ThreadWork(t) \/ Exit(t)
  BY OthersRest
<1>1. Others(t)' /\ Known(t)'
  BY <1>0, ThreadKnown
<1>2. ~PostStop(t)
  BY OthersRest
<1>3. UNCHANGED <<at, overlay, btnOn, timers, calls, reloaded, Aware>>
  BY <1>0, <1>2 DEF ThreadWork, PrepFails, PrepDone, RaiseFlag, PostStart, Fork, ForkFails,
     SetProc, Reap, ClearProc, LowerFlag, Exit, page, face, history, Aware
<1>4. CASE PrepFails(t) \/ PrepDone(t)
  <2>1. Preparing(t)
    BY <1>4 DEF PrepFails, PrepDone, Move, Token, Idle, Called, Failing, Refusing, Hiding,
                Full, Timed, Launching
  <2>2. ~Idle(t)
    BY <2>1 DEF Preparing, Idle
  <2>3. ASSUME PrepFails(t) PROVE Failing(t)'
    <3>1. pc'[t] = "none" /\ Post("error")
      BY <2>3, Moved DEF PrepFails
    <3>2. One("error", {"stop"})'
      BY <2>1, <3>1, PostKeeps DEF Preparing, Event
    <3> QED
      BY <1>3, <2>1, <3>1, <3>2 DEF Preparing, Failing, Pending, Launching
  <2>4. ASSUME PrepDone(t) PROVE Full(t)'
    <3>1. pc'[t] = "ready" /\ Post("done")
      BY <2>4, Moved DEF PrepDone
    <3>2. Only({"start", "stop"})
      BY <2>1 DEF Preparing, Only
    <3>3. One("done", {"start", "stop"})'
      BY <3>1, <3>2, PostKeeps DEF Event
    <3> QED
      BY <1>3, <2>1, <3>1, <3>3 DEF Preparing, Full, Pending
  <2> QED
    BY <1>1, <1>3, <1>4, <2>2, <2>3, <2>4 DEF OneToken, Token
<1>5. CASE RaiseFlag(t) \/ PostStart(t)
  <2>1. pc[t] \in {"ready", "flagged"} /\ pc'[t] # "prep"
    BY <1>5, Moved DEF RaiseFlag, PostStart
  <2>2. Full(t) \/ Timed(t)
    BY <2>1 DEF Token, Idle, Called, Preparing, Failing, Refusing, Hiding, Launching
  <2>3. ~Idle(t)
    BY <2>1 DEF Idle, Launching
  <2>4. /\ Only({"start", "stop"}) => Only({"start", "stop"})'
        /\ One("done", {"start", "stop"}) => One("done", {"start", "stop"})'
    <3>1. CASE RaiseFlag(t)
      BY <3>1 DEF RaiseFlag, Only, One
    <3>2. CASE PostStart(t)
      <4>1. Post("start") /\ "start" \in Event /\ "start" \in {"start", "stop"}
        BY <3>2 DEF PostStart, Event
      <4> QED
        BY <4>1, PostKeeps
    <3> QED
      BY <1>5, <3>1, <3>2
  <2>5. /\ Full(t) => Full(t)'
        /\ Timed(t) => Timed(t)'
    BY <1>3, <2>1, <2>4 DEF Full, Timed, Pending
  <2> QED
    BY <1>1, <1>3, <2>2, <2>3, <2>5 DEF OneToken, Token
<1>6. CASE \/ Fork(t) \/ ForkFails(t) \/ SetProc(t) \/ Exit(t)
           \/ Reap(t) \/ ClearProc(t) \/ LowerFlag(t)
  <2>1. pc[t] \in Started /\ pc'[t] \in Started
    <3>1. CASE Exit(t)
      BY <1>6, <3>1 DEF Exit, Known, Started
    <3>2. CASE \/ Fork(t) \/ ForkFails(t) \/ SetProc(t)
               \/ Reap(t) \/ ClearProc(t) \/ LowerFlag(t)
      BY <3>2, Moved DEF Fork, ForkFails, SetProc, Reap, ClearProc, LowerFlag, Started
    <3> QED
      BY <1>6, <3>1, <3>2
  <2>2. events' = events
    BY <1>6 DEF Fork, ForkFails, SetProc, Reap, ClearProc, LowerFlag, Exit
  <2>3. /\ \A S : Only(S)' = Only(S)
        /\ \A x, S : One(x, S)' = One(x, S)
    BY <2>2 DEF Only, One
  <2>4. /\ Idle(t) => Idle(t)'
        /\ Called(t) => Called(t)'
        /\ ~Preparing(t)
        /\ Failing(t) => Failing(t)'
        /\ Refusing(t) => Refusing(t)'
        /\ Hiding(t) => Hiding(t)'
        /\ Full(t) => Full(t)'
        /\ Timed(t) => Timed(t)'
    BY <1>3, <2>1, <2>3 DEF Idle, Called, Preparing, Failing, Refusing, Hiding, Full, Timed,
                            Pending, Launching, Started
  <2> QED
    BY <1>1, <1>3, <2>4 DEF OneToken, Token
<1> QED
  BY <1>0, <1>2, <1>4, <1>5, <1>6 DEF ThreadWork
----------------------------------------------------------------------------
(* What a page shows that has seen every launch begin.                     *)

LEMMA ShownPosted ==
  ASSUME TypeOK, NEW e \in Event, Post(e), e # "stop", group' = group,
         KillShown \/ e = "start"
  PROVE  KillShown'
<1>1. /\ \A i \in 1..Len(events') : i \in 1..Len(events) \/ i = Len(events) + 1
      /\ 1..Len(events) \subseteq 1..Len(events') /\ Len(events) + 1 \in 1..Len(events')
  BY Posted
<1>2. CASE e = "start"
  <2>1. \A j \in 1..Len(events') : ~(j > Len(events) + 1)
    BY Posted
  <2> QED
    BY <1>1, <1>2, <2>1, Posted DEF KillShown
<1>3. CASE ~group /\ \A j \in 1..Len(events) : events[j] # "stop"
  <2>1. \A j \in 1..Len(events') : events'[j] # "stop"
    BY <1>1, <1>3, Posted
  <2> QED
    BY <1>3, <2>1 DEF KillShown
<1>4. CASE \E i \in 1..Len(events) :
              /\ events[i] = "start"
              /\ \A j \in 1..Len(events) : j > i => events[j] # "stop"
  <2>1. PICK i \in 1..Len(events) :
              /\ events[i] = "start"
              /\ \A j \in 1..Len(events) : j > i => events[j] # "stop"
    BY <1>4
  <2>2. i \in 1..Len(events') /\ events'[i] = "start"
    BY <1>1, <2>1, Posted
  <2>3. \A j \in 1..Len(events') : j > i => events'[j] # "stop"
    BY <1>1, <2>1, Posted
  <2> QED
    BY <2>2, <2>3 DEF KillShown
<1> QED
  BY <1>2, <1>3, <1>4 DEF KillShown

LEMMA ShownPopped ==
  ASSUME TypeOK, KillShown, events # << >>, events' = Tail(events),
         IF Head(events) = "start" THEN ~group' ELSE group' = group \/ Head(events) = "stop"
  PROVE  KillShown'
<1>1. /\ \A i \in 1..Len(events') : i + 1 \in 1..Len(events)
      /\ 1 \in 1..Len(events)
      /\ \A i \in 1..Len(events) : i = 1 \/ i - 1 \in 1..Len(events')
  BY Popped
<1>2. CASE ~group /\ \A j \in 1..Len(events) : events[j] # "stop"
  <2>1. ~group'
    BY <1>1, <1>2, Popped
  <2>2. \A j \in 1..Len(events') : events'[j] # "stop"
    BY <1>1, <1>2, Popped
  <2> QED
    BY <2>1, <2>2 DEF KillShown
<1>3. CASE \E i \in 1..Len(events) :
              /\ events[i] = "start"
              /\ \A j \in 1..Len(events) : j > i => events[j] # "stop"
  <2>1. PICK i \in 1..Len(events) :
              /\ events[i] = "start"
              /\ \A j \in 1..Len(events) : j > i => events[j] # "stop"
    BY <1>3
  <2>2. CASE i = 1
    <3>1. ~group'
      BY <2>1, <2>2, Popped
    <3>2. \A j \in 1..Len(events') : events'[j] # "stop"
      BY <1>1, <2>1, <2>2, Popped
    <3> QED
      BY <3>1, <3>2 DEF KillShown
  <2>3. CASE i # 1
    <3>1. i - 1 \in 1..Len(events') /\ events'[i - 1] = "start"
      BY <1>1, <2>1, <2>3, Popped
    <3>2. \A j \in 1..Len(events') : j > i - 1 => events'[j] # "stop"
      BY <1>1, <2>1, Popped
    <3> QED
      BY <3>1, <3>2 DEF KillShown
  <2> QED
    BY <2>2, <2>3
<1> QED
  BY <1>2, <1>3 DEF KillShown

LEMMA SeenKept ==
  ASSUME TypeOK, OneSeen, events' = events, group' = group,
         \A u \in Threads : /\ pc[u] = "none" => pc'[u] = "none"
                            /\ pc'[u] \in Started => pc[u] \in Started
  PROVE  OneSeen'
<1>1. KillShown' = KillShown
  BY DEF KillShown
<1> QED
  BY <1>1 DEF OneSeen

LEMMA SeenStep ==
  ASSUME TypeOK, Straight, ~strayed, ~strayed', [Next]_vars, Aware'
  PROVE  OneSeen'
<1>1. CASE SignIn
  <2>1. \A u \in Threads : pc'[u] = "none"
    BY <1>1 DEF SignIn, Aware, Busy, native
  <2>2. \E t \in Threads : TRUE
    BY LaunchAssumption
  <2> QED
    BY <2>1, <2>2 DEF OneSeen, Started
<1>2. ~Leave /\ ~Lost
  BY DEF Leave, Lost, page, Aware
<1> SUFFICES ASSUME ~SignIn PROVE OneSeen'
  BY <1>1
<1>3. Aware /\ OneSeen
  <2>1. Aware' = Aware
    BY <1>2 DEF Next, Player, Account, UiWork, ThreadWork, ClickPlay, ClickTest, ClickKill,
       SelectVersion, ClickLogout, LogoutFails, Created, CreateFails, OnLaunchProgress,
       OnLaunchError, Refused, OnGameStart, OnGameStop, HideTimer, DoneTimer, LaunchRefused,
       LaunchStarts, KillGame, PrepFails, PrepDone, RaiseFlag, PostStart, Fork, ForkFails,
       SetProc, Reap, ClearProc, LowerFlag, PostStop, Exit, vars, page, history, Aware, Open
  <2> QED
    BY <2>1 DEF Straight
<1>4. CASE \/ Player \/ LogoutFails \/ KillGame \/ HideTimer \/ DoneTimer \/ UNCHANGED vars
  <2>1. events' = events /\ group' = group /\ pc' = pc
    BY <1>4 DEF Player, ClickPlay, ClickTest, ClickKill, SelectVersion, ClickLogout, LogoutFails,
       KillGame, HideTimer, DoneTimer, vars, page, face, native
  <2> QED
    BY <1>3, <2>1, SeenKept
<1>5. CASE Created \/ CreateFails
  BY <1>5 DEF Created, CreateFails, Straight
<1>6. CASE OnLaunchProgress \/ OnLaunchError \/ Refused \/ OnGameStart \/ OnGameStop
  <2>1. pc' = pc /\ events # << >> /\ events' = Tail(events)
    BY <1>6 DEF OnLaunchProgress, OnLaunchError, Refused, OnGameStart, OnGameStop, Handle, native
  <2>2. IF Head(events) = "start" THEN ~group' ELSE group' = group \/ Head(events) = "stop"
    BY <1>6 DEF OnLaunchProgress, OnLaunchError, Refused, OnGameStart, OnGameStop, Handle
  <2> QED
    BY <1>3, <2>1, <2>2, ShownPopped DEF OneSeen
<1>7. CASE LaunchRefused
  <2>1. Post("refused") /\ group' = group /\ pc' = pc
    BY <1>7 DEF LaunchRefused, Post, page, face, native
  <2> QED
    BY <1>3, <2>1, ShownPosted DEF OneSeen, Event
<1>8. CASE LaunchStarts
  <2>1. PICK t \in Threads : Others(t) /\ Known(t) /\ Token(t)
    BY DEF Straight, OneToken
  <2>2. calls # << >> /\ calls # <<"kill_game">>
    BY <1>8, Taken DEF LaunchStarts, Launches
  <2>3. Called(t)
    BY <2>1, <2>2 DEF Token, Idle, Preparing, Failing, Refusing, Hiding, Full, Timed, Kills
  <2>4. \A u \in Threads : pc[u] = "none"
    BY <1>3, <2>3 DEF Called
  <2>5. PICK u \in Threads : pc' = [pc EXCEPT ![u] = "prep"]
    BY <1>8 DEF LaunchStarts
  <2>6. pc'[u] = "prep" /\ \A v \in Threads \ {u} : pc'[v] = "none"
    BY <2>4, <2>5 DEF TypeOK
  <2> QED
    BY <2>6 DEF OneSeen, Started
<1>9. ASSUME NEW t \in Threads, ThreadWork(t) \/ Exit(t) PROVE OneSeen'
  <2>1. group' = group
    BY <1>9 DEF ThreadWork, PrepFails, PrepDone, RaiseFlag, PostStart, Fork, ForkFails,
                SetProc, Reap, ClearProc, LowerFlag, PostStop, Exit, page, face
  <2>2. CASE Exit(t)
    BY <1>3, <2>1, <2>2, SeenKept DEF Exit
  <2>3. CASE ThreadWork(t)
    <3>1. pc[t] # "none" /\ \A u \in Threads \ {t} : pc'[u] = pc[u]
      BY <2>3, Moved DEF ThreadWork, PrepFails, PrepDone, RaiseFlag, PostStart, Fork, ForkFails,
                         SetProc, Reap, ClearProc, LowerFlag, PostStop
    <3>2. \A u \in Threads \ {t} : pc[u] = "none" /\ pc'[u] = "none"
      BY <1>3, <3>1 DEF OneSeen
    <3>3. CASE PostStop(t)
      <4>1. pc'[t] = "none"
        BY <3>3, Moved DEF PostStop
      <4> QED
        BY <3>2, <4>1 DEF OneSeen, Started
    <3>4. CASE PostStart(t)
      <4>1. KillShown'
        BY <2>1, <3>4, ShownPosted DEF PostStart, Event
      <4> QED
        BY <3>2, <4>1 DEF OneSeen
    <3>5. CASE PrepFails(t) \/ PrepDone(t) \/ RaiseFlag(t)
      <4>1. pc'[t] \notin Started
        BY <3>5, Moved DEF PrepFails, PrepDone, RaiseFlag, Started
      <4> QED
        BY <3>2, <4>1 DEF OneSeen, Started
    <3>6. CASE \/ Fork(t) \/ ForkFails(t) \/ SetProc(t)
               \/ Reap(t) \/ ClearProc(t) \/ LowerFlag(t)
      <4>1. pc[t] \in Started /\ events' = events
        BY <3>6, Moved DEF Fork, ForkFails, SetProc, Reap, ClearProc, LowerFlag, Started
      <4> QED
        BY <1>3, <2>1, <3>1, <3>2, <4>1, SeenKept
    <3> QED
      BY <2>3, <3>3, <3>4, <3>5, <3>6 DEF ThreadWork
  <2> QED
    BY <1>9, <2>2, <2>3
<1> QED
  BY <1>2, <1>4, <1>5, <1>6, <1>7, <1>8, <1>9 DEF Next, Account, UiWork

----------------------------------------------------------------------------
(* A test launch, and a timer that fires before the thread has got on, set *)
(* strayed; without them every step moves the token on or keeps it.        *)
LEMMA TokenStep ==
  ASSUME TypeOK, Straight, ~strayed, [Next]_vars, ~strayed'
  PROVE  OneToken' /\ creating' = 0
<1>1. CASE UNCHANGED vars
  BY <1>1 DEF vars, page, face, native, history, Straight, OneToken, Others, Known, Token, Idle,
              Called, Preparing, Failing, Refusing, Hiding, Full, Timed, Pending, Only, One, Aware
<1>2. CASE ClickPlay \/ ClickKill \/ SelectVersion \/ ClickLogout
  BY <1>2, PlayerToken DEF Straight, ClickPlay, ClickKill, SelectVersion, ClickLogout, page, face
<1>3. CASE Account \/ Lost
  BY <1>3, LoadToken DEF Straight, Account, LogoutFails, Leave, SignIn, Fresh, Lost, page, face
<1>4. CASE OnLaunchProgress \/ OnLaunchError \/ Refused \/ OnGameStart \/ OnGameStop
  BY <1>4, ScriptToken DEF Straight, OnLaunchProgress, OnLaunchError, Refused, OnGameStart,
                           OnGameStop
<1>5. CASE HideTimer \/ DoneTimer
  BY <1>5, TimerToken DEF Straight, HideTimer, DoneTimer
<1>6. CASE LaunchRefused \/ LaunchStarts \/ KillGame
  BY <1>6, HandlerToken DEF Straight, LaunchRefused, LaunchStarts, KillGame, page, face
<1>7. ASSUME NEW u \in Threads, ThreadWork(u) \/ Exit(u) PROVE OneToken' /\ creating' = 0
  <2>1. UNCHANGED page
    BY <1>7 DEF ThreadWork, PrepFails, PrepDone, RaiseFlag, PostStart, Fork, ForkFails,
                SetProc, Reap, ClearProc, LowerFlag, PostStop, Exit
  <2> QED
    BY <1>7, <2>1, ThreadToken DEF Straight, page, face
<1>8. ~ClickTest /\ ~Created /\ ~CreateFails
  BY DEF Straight, ClickTest, Created, CreateFails
<1> QED
  BY <1>1, <1>2, <1>3, <1>4, <1>5, <1>6, <1>7, <1>8 DEF Next, Player, UiWork

LEMMA IInvInit == Init => IInv
<1> SUFFICES ASSUME Init PROVE IInv
  OBVIOUS
<1>1. TypeOK
  BY TypeInit
<1>2. PICK t \in Threads : TRUE
  BY LaunchAssumption
<1>3. Others(t) /\ Known(t) /\ Idle(t)
  BY <1>2, EmptyQueue DEF Init, Others, Known, Idle, Pending, Kills, Started, Launching
<1>4. OneSeen /\ StopComes
  BY <1>2 DEF Init, OneSeen, StopComes, Stopping, Started
<1> QED
  BY <1>1, <1>2, <1>3, <1>4 DEF IInv, Straight, OneToken, Token, Init

LEMMA IInvStep == IInv /\ [Next]_vars => IInv'
<1> SUFFICES ASSUME IInv, [Next]_vars PROVE IInv'
  OBVIOUS
<1>1. TypeOK' /\ StopComes'
  BY TypeStep, StopStep DEF IInv
<1>2. strayed => strayed'
  BY DEF Next, Player, Account, UiWork, ThreadWork, ClickPlay, ClickTest, ClickKill,
         SelectVersion, ClickLogout, LogoutFails, Leave, SignIn, Lost, Created, CreateFails,
         OnLaunchProgress, OnLaunchError, Refused, OnGameStart, OnGameStop, HideTimer,
         DoneTimer, LaunchRefused, LaunchStarts, KillGame, PrepFails, PrepDone, RaiseFlag,
         PostStart, Fork, ForkFails, SetProc, Reap, ClearProc, LowerFlag, PostStop, Exit,
         vars, history
<1>3. ASSUME ~strayed' PROVE Straight'
  BY <1>2, <1>3, TokenStep, SeenStep DEF IInv, Straight
<1> QED
  BY <1>1, <1>3 DEF IInv

LEMMA IInvHolds == Spec => []IInv
BY IInvInit, IInvStep, PTL DEF Spec

\* From the play tab no two launches are ever under way together, also after
\* the page was loaded again while a game ran: the overlay and the button keep
\* the page from asking for a second one until the first has raised
\* game_running, and on_launch refuses it from then on.
THEOREM OneLaunchHolds == Spec => []OneLaunch
<1>1. IInv => OneLaunch
  <2> SUFFICES ASSUME IInv, ~strayed
               PROVE  Cardinality({u \in Threads : pc[u] \notin {"none", "lowered"}}) <= 1
    BY DEF OneLaunch
  <2>1. PICK t \in Threads : Others(t)
    BY DEF IInv, Straight, OneToken
  <2>2. {u \in Threads : pc[u] \notin {"none", "lowered"}} \subseteq {t}
    BY <2>1 DEF Others
  <2>3. IsFiniteSet({t}) /\ Cardinality({t}) = 1
    BY FS_Singleton
  <2> DEFINE S == {u \in Threads : pc[u] \notin {"none", "lowered"}}
  <2> HIDE DEF S
  <2> QED
    BY <2>2, <2>3, FS_Subset DEF S
<1> QED
  BY <1>1, IInvHolds, PTL

\* While a game process runs, game_running refuses a second launch, and from
\* process_run's assignment on g_mc_process names the process that the kill
\* button must reach.
THEOREM GameKnownHolds == Spec => []GameKnown
<1>1. IInv => GameKnown
  <2> SUFFICES ASSUME IInv, ~strayed, NEW u \in alive
               PROVE  running /\ (pc[u] # "forked" => proc = u)
    BY DEF GameKnown
  <2>1. PICK t \in Threads : Known(t)
    BY DEF IInv, Straight, OneToken
  <2> QED
    BY <2>1 DEF Known, Started
<1> QED
  BY <1>1, IInvHolds, PTL

\* Once every launch, script and timer is through, the page has no overlay and
\* shows its play button, enabled unless the page was loaded while a game ran:
\* no path of success or failure leaves the player with a page that cannot
\* start the game, and no refusal either but of a launch that such a page
\* asked for.
THEOREM QuietMeansReadyHolds == Spec => []QuietMeansReady
<1>1. IInv => QuietMeansReady
  <2> SUFFICES ASSUME IInv, ~strayed, Quiet PROVE ~overlay /\ group /\ (btnOn \/ reloaded)
    BY DEF QuietMeansReady
  <2>1. PICK t \in Threads : Token(t)
    BY DEF IInv, Straight, OneToken
  <2>2. \A u \in Threads : pc[u] = "none"
    BY DEF Quiet, Busy
  <2>3. Idle(t)
    BY <2>1, <2>2 DEF Quiet, Token, Called, Preparing, Failing, Refusing, Hiding, Full, Timed,
                      Pending, Clicked, One
  <2>4. group
    BY <2>2 DEF IInv, StopComes, Stopping, Quiet, Started
  <2> QED
    BY <2>3, <2>4 DEF Idle
<1> QED
  BY <1>1, IInvHolds, PTL

=============================================================================
