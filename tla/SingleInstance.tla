---------------------------- MODULE SingleInstance ---------------------------
(***************************************************************************)
(* How a launcher finds out that another one is running, and wakes it, on  *)
(* POSIX: the lock file of platform/single_instance.c, main and            *)
(* launcher_init around it, and the bridge thread (ipc/bridge), which      *)
(* serves one client at a time: the running game, or a launcher that asks  *)
(* for the window.                                                         *)
(*                                                                         *)
(* A launcher here is one run of the program, numbered in the order they   *)
(* start; one that gives way holds nothing, and its crash is left out.  No *)
(* descriptor is opened close-on-exec, so a game process holds the lock    *)
(* and the listening socket of its launcher for as long as it runs.        *)
(***************************************************************************)
EXTENDS Naturals, Sequences

CONSTANTS
    N,          \* bound: runs of the launcher
    Players,    \* bound: those in which somebody plays
    Backlog     \* connections the kernel queues for listen(fd, 1)

ASSUME LauncherAssumption == /\ N \in Nat /\ Backlog \in Nat \ {0}
                             /\ Players \subseteq 1..N

Launchers == 1..N

(* Files and ports are named by the launcher that created them.            *)
None == 0
Ref == Launchers \cup {None}

VARIABLES
    pc,         \* where each launcher's main thread is
    path,       \* the file that has the name ceroclient.lock
    opened,     \* the lock file each launcher has open
    holder,     \* per file, the launcher that has it locked
    text,       \* the port that can be read in the file of that name
    dial,       \* the port a launcher that gave way is about to call
    bridge,     \* launchers whose bridge thread has come to listen
    calls,      \* per bridge, the connections not accepted yet
    serving,    \* per bridge, the connection being read
    game,       \* per launcher, its game: not there, running, connected
    shown,      \* launchers whose window is on the screen
    loose       \* history: see OpenFails and Unlink

lockVars == <<path, opened, holder, text, loose>>
bridgeVars == <<bridge, calls, serving>>
vars == <<pc, lockVars, dial, bridgeVars, game, shown>>

(* off -> opened -> locked -> boot -> ready -> run -> unlink -> gone *)
(*               -> wake -> dial -> gone                                   *)
Places == {"off", "opened", "wake", "dial", "locked", "boot", "ready", "run",
           "unlink", "gone"}

TypeOK ==
    /\ pc \in [Launchers -> Places]
    /\ path \in Ref /\ opened \in [Launchers -> Ref]
    /\ holder \in [Launchers -> Ref] /\ text \in Ref
    /\ dial \in [Launchers -> Ref]
    /\ bridge \subseteq Launchers /\ shown \subseteq Launchers
    /\ calls \in [Launchers -> Seq({"show", "game", "closed"})]
    /\ \A l \in Launchers : Len(calls[l]) <= Backlog
    /\ serving \in [Launchers -> {"none", "show", "game", "closed"}]
    /\ game \in [Launchers -> {"none", "up", "joined"}]
    /\ loose \in BOOLEAN

Init == /\ pc = [l \in Launchers |-> "off"]
        /\ path = None /\ opened = [l \in Launchers |-> None]
        /\ holder = [f \in Launchers |-> None] /\ text = None
        /\ dial = [l \in Launchers |-> None]
        /\ bridge = {} /\ shown = {} /\ loose = FALSE
        /\ calls = [l \in Launchers |-> << >>]
        /\ serving = [l \in Launchers |-> "none"]
        /\ game = [l \in Launchers |-> "none"]

Alive(l) == pc[l] \notin {"off", "gone"}

(* What is left of the socket of a process that ends with or without game. *)
SocketOf(l, playing) ==
    /\ bridge' = IF playing THEN bridge ELSE bridge \ {l}
    /\ calls' = IF playing THEN calls ELSE [calls EXCEPT ![l] = << >>]
    /\ serving' = [serving EXCEPT ![l] = "none"]

Move(l, from, to) == pc[l] = from /\ pc' = [pc EXCEPT ![l] = to]

----------------------------------------------------------------------------
(* single_instance_check.                                                  *)

Turn(l) == \A m \in 1..(l - 1) : pc[m] # "off"

(* open(O_CREAT): the file that has the name, or else a new one.           *)
Open(l) == LET f == IF path = None THEN l ELSE path IN
           /\ Move(l, "off", "opened") /\ Turn(l)
           /\ path' = f /\ opened' = [opened EXCEPT ![l] = f]
           /\ UNCHANGED <<holder, text, loose, dial, bridgeVars, game, shown>>

(* The launcher goes on without a lock.                                    *)
OpenFails(l) == /\ Move(l, "off", "boot") /\ Turn(l) /\ loose' = TRUE
                /\ UNCHANGED <<path, opened, holder, text, dial, bridgeVars, game, shown>>

Lock(l) == /\ Move(l, "opened", "locked")
           /\ holder[opened[l]] = None
           /\ holder' = [holder EXCEPT ![opened[l]] = l]
           /\ UNCHANGED <<path, opened, text, loose, dial, bridgeVars, game, shown>>

(* Seeded fault: the launcher that gives way removes the file as well.     *)
GiveWay_Fault(l) ==
    /\ pc[l] = "opened" /\ holder[opened[l]] # None
    /\ pc' = [pc EXCEPT ![l] = "wake"]
    /\ opened' = [opened EXCEPT ![l] = None] /\ path' = None /\ text' = None
    /\ UNCHANGED <<holder, loose, dial, bridgeVars, game, shown>>

GiveWay(l) == /\ pc[l] = "opened" /\ holder[opened[l]] # None
              /\ pc' = [pc EXCEPT ![l] = "wake"]
              /\ opened' = [opened EXCEPT ![l] = None]
              /\ UNCHANGED <<path, holder, text, loose, dial, bridgeVars, game, shown>>

(* A pid and no port.                                                      *)
WritePid(l) == /\ Move(l, "locked", "boot")
               /\ text' = IF opened[l] = path THEN None ELSE text
               /\ UNCHANGED <<path, opened, holder, loose, dial, bridgeVars, game, shown>>

(* read_existing_port opens the name again.                                *)
ReadPort(l) == /\ pc[l] = "wake"
               /\ pc' = [pc EXCEPT ![l] = IF text = None THEN "gone" ELSE "dial"]
               /\ dial' = [dial EXCEPT ![l] = text]
               /\ UNCHANGED <<lockVars, bridgeVars, game, shown>>

(* connect, SHOW and close; nobody there, or a full queue, is no error.    *)
Dial(l) == LET p == dial[l] IN
           /\ Move(l, "dial", "gone") /\ dial' = [dial EXCEPT ![l] = None]
           /\ calls' = IF p \in bridge /\ Len(calls[p]) < Backlog
                       THEN [calls EXCEPT ![p] = Append(@, "show")] ELSE calls
           /\ UNCHANGED <<lockVars, bridge, serving, game, shown>>

----------------------------------------------------------------------------
(* launcher_init, the window, and the end.                                 *)

(* The bridge thread binds a port of its own.                              *)
BridgeListens(l) == /\ pc[l] \in {"boot", "ready", "run", "unlink"}
                    /\ l \notin bridge
                    /\ bridge' = bridge \cup {l}
                    /\ UNCHANGED <<pc, lockVars, dial, calls, serving, game, shown>>

(* 100 ms after the thread was created; the port is 0 if it was slow.      *)
WritePort(l) ==
    /\ Move(l, "boot", "ready")
    /\ text' = IF opened[l] = None \/ opened[l] # path THEN text
               ELSE IF l \in bridge THEN l ELSE None
    /\ UNCHANGED <<path, opened, holder, loose, dial, bridgeVars, game, shown>>

CreateUI(l) == /\ Move(l, "ready", "run") /\ shown' = shown \cup {l}
               /\ UNCHANGED <<lockVars, dial, bridgeVars, game>>

(* The window is closed to the tray.                                       *)
Hide(l) == /\ pc[l] = "run" /\ l \in shown /\ shown' = shown \ {l}
           /\ UNCHANGED <<pc, lockVars, dial, bridgeVars, game>>

(* launcher_shutdown, when the player quits or no window can be made:      *)
(* single_instance_release is LOCK_UN, close, and then unlink by name.     *)
Quit(l) == /\ pc[l] \in {"ready", "run"}
           /\ pc' = [pc EXCEPT ![l] = IF opened[l] = None THEN "gone" ELSE "unlink"]
           /\ holder' = [f \in Launchers |-> IF holder[f] = l THEN None ELSE holder[f]]
           /\ opened' = [opened EXCEPT ![l] = None] /\ shown' = shown \ {l}
           /\ IF opened[l] = None THEN SocketOf(l, game[l] # "none") ELSE UNCHANGED bridgeVars
           /\ UNCHANGED <<path, text, loose, dial, game>>

Unlink(l) == /\ Move(l, "unlink", "gone")
             /\ path' = None /\ text' = None
             /\ loose' = (loose \/ \E m \in Launchers : path # None /\ opened[m] = path)
             /\ SocketOf(l, game[l] # "none")
             /\ UNCHANGED <<opened, holder, dial, game, shown>>

(* The kernel closes what no game shares; the lock file stays.             *)
Crash(l) == /\ Alive(l) /\ pc[l] \notin {"opened", "wake", "dial"}
            /\ pc' = [pc EXCEPT ![l] = "gone"]
            /\ opened' = [opened EXCEPT ![l] = None]
            /\ holder' = [f \in Launchers |->
                             IF holder[f] = l /\ game[l] = "none" THEN None ELSE holder[f]]
            /\ SocketOf(l, game[l] # "none")
            /\ shown' = shown \ {l}
            /\ UNCHANGED <<path, text, loose, dial, game>>

----------------------------------------------------------------------------
(* The bridge thread and the game.                                         *)

(* bridge_thread: one connection at a time.                                *)
Accept(l) == /\ Alive(l) /\ serving[l] = "none" /\ calls[l] # << >>
             /\ calls' = [calls EXCEPT ![l] = Tail(@)]
             /\ serving' = [serving EXCEPT ![l] = Head(calls[l])]
             /\ UNCHANGED <<pc, lockVars, dial, bridge, game, shown>>

(* Seeded fault: the read goes on at the end of the connection.            *)
ClientEnds_Fault(l) == /\ Alive(l) /\ serving[l] = "show"
                       /\ shown' = IF pc[l] = "run" THEN shown \cup {l} ELSE shown
                       /\ UNCHANGED <<pc, lockVars, dial, bridgeVars, game>>

(* bridge_handle_client reads to the end; SHOW is for a window that exists.*)
ClientEnds(l) == /\ Alive(l) /\ serving[l] \in {"show", "closed"}
                 /\ shown' = IF serving[l] = "show" /\ pc[l] = "run"
                             THEN shown \cup {l} ELSE shown
                 /\ serving' = [serving EXCEPT ![l] = "none"]
                 /\ UNCHANGED <<pc, lockVars, dial, bridge, calls, game>>

StartGame(l) == /\ l \in Players /\ pc[l] = "run" /\ game[l] = "none"
                /\ game' = [game EXCEPT ![l] = "up"]
                /\ UNCHANGED <<pc, lockVars, dial, bridgeVars, shown>>

(* LauncherConnection.connect, once, with the port of the command line.    *)
GameConnects(l) == /\ game[l] = "up" /\ l \in bridge /\ Len(calls[l]) < Backlog
                   /\ game' = [game EXCEPT ![l] = "joined"]
                   /\ calls' = [calls EXCEPT ![l] = Append(@, "game")]
                   /\ UNCHANGED <<pc, lockVars, dial, bridge, serving, shown>>

(* The shutdown hook says SHOW; a game that is killed says nothing.        *)
GameEnds(l) == \E last \in {"show", "closed"} :
    LET Ended(call) == IF call = "game" THEN last ELSE call IN
    /\ game[l] # "none"
    /\ game' = [game EXCEPT ![l] = "none"]
    /\ IF ~Alive(l) THEN SocketOf(l, FALSE) ELSE
          /\ serving' = [serving EXCEPT ![l] = Ended(@)]
          /\ calls' = [calls EXCEPT ![l] = [i \in DOMAIN @ |-> Ended(@[i])]]
          /\ UNCHANGED bridge
    /\ holder' = [f \in Launchers |->
                     IF holder[f] = l /\ ~Alive(l) THEN None ELSE holder[f]]
    /\ UNCHANGED <<pc, path, opened, text, loose, dial, shown>>

----------------------------------------------------------------------------
Main(l) == \/ Lock(l) \/ GiveWay(l) \/ WritePid(l) \/ ReadPort(l) \/ Dial(l)
           \/ WritePort(l) \/ CreateUI(l) \/ Unlink(l)
Thread(l) == BridgeListens(l) \/ Accept(l) \/ ClientEnds(l)
World(l) == \/ Open(l) \/ OpenFails(l) \/ Hide(l) \/ Quit(l) \/ Crash(l)
            \/ StartGame(l) \/ GameConnects(l) \/ GameEnds(l)

Next == \E l \in Launchers : Main(l) \/ Thread(l) \/ World(l)

SafeSpec == Init /\ [][Next]_vars

(* Both threads of a launcher are scheduled; what players do, crashes and  *)
(* the ends of games are not promised.                                     *)
Spec == SafeSpec /\ \A l \in Launchers : WF_vars(Main(l)) /\ WF_vars(Thread(l))

----------------------------------------------------------------------------
(* Properties.                                                             *)

(* At most one launcher runs with its window.  Two ways out: the lock file *)
(* cannot be opened, or a launcher that quits unlinks it after another has *)
(* opened it.                                                              *)
Running == {l \in Launchers : pc[l] \in {"locked", "boot", "ready", "run"}}
OneRuns == ~loose => \A l, m \in Running : l = m

(* A launcher that gives way to one that has published its port and has no *)
(* game brings its window to the screen, whatever else calls the bridge    *)
(* and however many games came and went before, unless what they left      *)
(* fills the queue.                                                        *)
Calls == \E l \in Launchers : pc[l] = "wake"
Jammed(p) == Len(calls[p]) = Backlog /\ \A i \in DOMAIN calls[p] : calls[p][i] # "show"
Serves(p) == pc[p] = "run" /\ text = p /\ game[p] = "none" /\ ~Jammed(p)
Woken == \A p \in Launchers : (Calls /\ Serves(p)) ~> (p \in shown \/ ~Serves(p))

=============================================================================
