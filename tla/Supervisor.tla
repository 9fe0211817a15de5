----------------------------- MODULE Supervisor -----------------------------
(***************************************************************************)
(* ceroboot (server/ceroboot/src/main.rs): it keeps one container of the   *)
(* server running, installs new images of a tag, and goes back to the      *)
(* previous image when the installed one keeps crashing.                   *)
(*                                                                         *)
(* One thread runs the loop and takes events from a channel.  A watcher    *)
(* thread per start reports the container's exit, a check thread pulls the *)
(* tag and reports a candidate.  A start increments gen and so does a      *)
(* stop: of a generation the loop only asks whether it is the current one, *)
(* so an exit is here mine or not, and older watchers are one.             *)
(*                                                                         *)
(* Docker is external; its calls succeed or fail as the code sees them.    *)
(***************************************************************************)
EXTENDS Integers, Sequences

CONSTANTS
  Images,        \* digests the tag may point to
  CrashLimit,    \* FAST_CRASH_LIMIT
  Ways           \* how it is started, with what may go wrong in one behaviour

\* ceroboot is killed, and is started again after it ended; the state file cannot
\* be written; docker wait fails while the container runs; docker stop and kill, rm
\* or inspect fail, which is ignored; a check thread panics; a check sends and
\* finishes while a timeout is being handled.
Troubles == {"dies", "unsaved", "watch", "stuck", "panic", "late"}

ASSUME CrashLimitAssumption == CrashLimit \in Nat \ {0}
ASSUME WaysAssumption ==
  Ways \subseteq [assumeCurrent : BOOLEAN, troubles : SUBSET Troubles]

None == "none"
ASSUME NoneAssumption == None \notin Images

Digest == Images \cup {None}
State == [installed : Digest, previous : Digest, bad : Digest]
Fresh == [installed |-> None, previous |-> None, bad |-> None]

\* The container: there or not, running or not, and how it ended
Boxes == [img : Images, up : BOOLEAN, clean : BOOLEAN]
NoBox == [img |-> None, up |-> FALSE, clean |-> FALSE]

Events == [type : {"exit"}, mine : BOOLEAN, success : BOOLEAN]
            \cup [type : {"ready"}, found : Digest] \cup {[type |-> "shutdown"]}

\* A check thread: none, pulling, or about to send what it found
Checks == [at : {"idle", "pulling"}] \cup [at : {"found"}, found : Digest]
NoCheck == [at |-> "idle"]
Pulling == [at |-> "pulling"]

VARIABLES
  pc,          \* what the loop is doing: "wait" for an event, "timed" out, "save", "start"
  booting,     \* bootstrap has not returned yet
  st,          \* the state in memory
  disk,        \* the state file
  unsaved,     \* history: some save of the state file has failed
  abandoned,   \* history: ceroboot ended while a container ran that it took for gone
  given,       \* the option -assume-current, and the troubles of this behaviour
  held,        \* cur is Some
  downloading, \* as in the code
  restarting,  \* restart_at is Some
  fast,        \* fast_crashes
  queue,       \* the channel
  watch,       \* the current generation's watcher has not reported
  stale,       \* nor has some older one
  check,       \* the check thread
  box,         \* external: the container of the supervised name
  tag          \* external: the digest the tag points to

loopVars == <<pc, booting, held, restarting, fast>>
threadVars == <<queue, watch, stale, check>>
stateFile == <<disk, unsaved, given>>
vars == <<loopVars, st, stateFile, downloading, threadVars, box,
                 abandoned, tag>>

TypeOK ==
  /\ pc \in {"down", "boot", "wait", "timed", "save", "start"}
  /\ st \in State /\ disk \in State
  /\ {booting, held, downloading, restarting, unsaved, abandoned, watch, stale} \subseteq BOOLEAN
  /\ given \in Ways
  /\ fast \in 0..CrashLimit - 1
  /\ queue \in Seq(Events)
  /\ check \in Checks
  /\ box \in Boxes \cup {NoBox}
  /\ tag \in Images

Init ==
  /\ pc = "boot" /\ booting = TRUE
  /\ st = Fresh /\ disk = Fresh /\ unsaved = FALSE /\ abandoned = FALSE
  /\ given \in Ways
  /\ held = FALSE /\ downloading = FALSE /\ restarting = FALSE /\ fast = 0
  /\ queue = <<>> /\ watch = FALSE /\ stale = FALSE /\ check = NoCheck
  /\ box = NoBox
  /\ tag \in Images

-----------------------------------------------------------------------------
(* Start and stop *)

\* The process is gone, and its threads with it.
Gone ==
  /\ pc' = "down" /\ booting' = FALSE
  /\ held' = FALSE /\ downloading' = FALSE /\ restarting' = FALSE /\ fast' = 0
  /\ queue' = <<>> /\ watch' = FALSE /\ stale' = FALSE /\ check' = NoCheck
  /\ st' = Fresh

May(trouble) == trouble \in given.troubles

\* Called when ceroboot ends with the container as it is
Abandon == abandoned' = (abandoned \/ (pc # "boot" /\ ~held /\ box.up))

\* The container after a docker stop, kill or rm that would have left it as b: a
\* failure is ignored.
After(b) == box' = b \/ (May("stuck") /\ box' = box)

\* The events of q once the generation has moved on
Outdated(q) ==
  [i \in DOMAIN q |-> IF q[i].type = "exit" THEN [q[i] EXCEPT !.mine = FALSE] ELSE q[i]]

\* start: whatever has the name is removed, the installed image is run and
\* watched under a new generation.
StartOk ==
  /\ pc = "start" /\ st.installed # None
  /\ box' = [img |-> st.installed, up |-> TRUE, clean |-> FALSE]
  /\ queue' = Outdated(queue)
  /\ watch' = TRUE /\ stale' = (stale \/ watch)
  /\ held' = TRUE
  /\ pc' = "wait" /\ booting' = FALSE
  \* after bootstrap, run starts the first check at once
  /\ downloading' = (booting \/ downloading)
  /\ check' = IF booting THEN Pulling ELSE check
  /\ UNCHANGED <<st, stateFile, restarting, fast, abandoned, tag>>

\* The image cannot be had or run, or the container runs and docker attach
\* cannot be spawned: run returns the error.
StartFails ==
  /\ pc = "start"
  /\ box' \in {NoBox} \cup [img : {st.installed} \cap Images, up : {TRUE}, clean : {FALSE}]
  /\ Gone
  /\ UNCHANGED <<stateFile, abandoned, tag>>

\* What has the name could not be removed, and nothing is run beside it.
StartInTheWay ==
  /\ pc = "start" /\ May("stuck") /\ box # NoBox
  /\ Abandon
  /\ Gone
  /\ UNCHANGED <<stateFile, box, tag>>

\* save_state: a temporary file and a rename; a failure is only logged.
Saved(s) ==
  /\ \/ disk' = s /\ UNCHANGED unsaved
     \/ May("unsaved") /\ unsaved' = TRUE /\ UNCHANGED disk
  /\ UNCHANGED given

Save ==
  /\ pc = "save"
  /\ Saved(st)
  /\ pc' = "start"
  /\ UNCHANGED <<booting, st, held, downloading, restarting, fast, threadVars, box,
                 abandoned, tag>>

-----------------------------------------------------------------------------
(* bootstrap *)

\* A container there is to adopt
Adopts == given.assumeCurrent /\ box.up

\* Seeded fault: the adopted container gets no watcher.
BootAdopt_Unwatched ==
  /\ pc = "boot" /\ Adopts
  /\ LET s == IF disk.installed = None THEN [disk EXCEPT !.installed = box.img] ELSE disk
     IN st' = s /\ Saved(s)
  /\ held' = TRUE
  /\ pc' = "wait" /\ booting' = FALSE
  /\ downloading' = TRUE /\ check' = Pulling
  /\ UNCHANGED <<restarting, fast, queue, watch, stale, box,
                 abandoned, tag>>

\* -assume-current and a running container: it is attached to as it is, and
\* known by the digest of the state file, or else its own.
BootAdopt ==
  /\ pc = "boot" /\ Adopts
  /\ LET s == IF disk.installed = None THEN [disk EXCEPT !.installed = box.img] ELSE disk
     IN st' = s /\ Saved(s)
  /\ watch' = TRUE /\ held' = TRUE
  /\ pc' = "wait" /\ booting' = FALSE
  /\ downloading' = TRUE /\ check' = Pulling
  /\ UNCHANGED <<restarting, fast, queue, stale, box, abandoned, tag>>

\* Otherwise, or when inspect fails, the tag is pulled and installed, whatever was
\* installed before.
BootInstall ==
  /\ pc = "boot" /\ (Adopts => May("stuck"))
  /\ After(NoBox)
  /\ st' = [disk EXCEPT !.previous = disk.installed, !.installed = tag]
  /\ pc' = "save"
  /\ UNCHANGED <<booting, held, downloading, restarting, fast, threadVars, stateFile, abandoned,
                 tag>>

\* docker login, reading the digest or docker attach fails, or else the pull
\* does, after the old container was removed.
BootFails ==
  /\ pc = "boot"
  /\ box' = box \/ ((Adopts => May("stuck")) /\ box' = NoBox)
  /\ Gone
  /\ UNCHANGED <<stateFile, abandoned, tag>>

-----------------------------------------------------------------------------
(* The loop: one event at a time *)

Takes(type) == pc = "wait" /\ queue # <<>> /\ Head(queue).type = type

\* An exit of a container that has been stopped or replaced
ExitStale ==
  /\ Takes("exit") /\ ~Head(queue).mine
  /\ queue' = Tail(queue)
  /\ UNCHANGED <<loopVars, st, stateFile, downloading, watch, stale, check, box, abandoned, tag>>

\* The supervised container exited cleanly: ceroboot ends too.
ExitClean ==
  /\ Takes("exit") /\ Head(queue).mine /\ Head(queue).success
  /\ Abandon
  /\ Gone
  /\ UNCHANGED <<stateFile, box, tag>>

\* It crashed during a check: its answer will start something.
ExitWhileDownloading ==
  /\ Takes("exit") /\ Head(queue).mine /\ ~Head(queue).success
  /\ downloading
  /\ queue' = Tail(queue)
  /\ held' = FALSE
  /\ UNCHANGED <<pc, booting, restarting, fast, st, stateFile, downloading, watch, stale,
                 check, box, abandoned, tag>>

\* It crashed: quick says whether it lived less than FAST_CRASH_WINDOW, hasImage
\* whether rollback finds or pulls the previous image.
ExitCrash(quick, hasImage) ==
  LET n == IF quick THEN fast + 1 ELSE 0 IN
  /\ Takes("exit") /\ Head(queue).mine /\ ~Head(queue).success
  /\ ~downloading
  /\ queue' = Tail(queue)
  /\ held' = FALSE
  /\ fast' = IF n >= CrashLimit THEN 0 ELSE n
  /\ IF n >= CrashLimit /\ st.previous # None /\ hasImage
     THEN /\ st' = [installed |-> st.previous, previous |-> None, bad |-> st.installed]
          /\ pc' = "save"
          /\ UNCHANGED restarting
     ELSE /\ restarting' = TRUE
          /\ UNCHANGED <<st, pc>>
  /\ UNCHANGED <<booting, stateFile, downloading, watch, stale, check, box, abandoned, tag>>

\* Seeded fault: nothing is started when the container is down.
ReadyNone_OnlyClears ==
  /\ Takes("ready") /\ Head(queue).found = None
  /\ queue' = Tail(queue)
  /\ downloading' = FALSE
  /\ restarting' = (held /\ restarting)
  /\ UNCHANGED <<pc, booting, held, fast, st, stateFile, watch, stale, check, box, abandoned, tag>>

\* A check found nothing to install.
ReadyNone ==
  /\ Takes("ready") /\ Head(queue).found = None
  /\ queue' = Tail(queue)
  /\ downloading' = FALSE
  /\ IF ~held THEN restarting' = FALSE /\ pc' = "start" ELSE UNCHANGED <<restarting, pc>>
  /\ UNCHANGED <<booting, held, fast, st, stateFile, watch, stale, check, box, abandoned, tag>>

\* Seeded fault: the new state is not saved.
ReadySome_Unsaved ==
  LET q == Tail(queue) IN
  /\ Takes("ready") /\ Head(queue).found # None
  /\ IF held
     THEN /\ queue' = Outdated(q) /\ watch' = FALSE /\ stale' = (stale \/ watch)
          /\ After([box EXCEPT !.up = FALSE])
     ELSE queue' = q /\ UNCHANGED <<watch, stale, box>>
  /\ held' = FALSE
  /\ st' = [st EXCEPT !.previous = st.installed, !.installed = Head(queue).found]
  /\ pc' = "start"
  /\ downloading' = FALSE /\ restarting' = FALSE /\ fast' = 0
  /\ UNCHANGED <<booting, stateFile, check, abandoned, tag>>

\* A check found an image: stop_server, then the new state, then start.
ReadySome ==
  LET q == Tail(queue) IN
  /\ Takes("ready") /\ Head(queue).found # None
  /\ IF held
     THEN /\ queue' = Outdated(q) /\ watch' = FALSE /\ stale' = (stale \/ watch)
          /\ After([box EXCEPT !.up = FALSE])
     ELSE queue' = q /\ UNCHANGED <<watch, stale, box>>
  /\ held' = FALSE
  /\ st' = [st EXCEPT !.previous = st.installed, !.installed = Head(queue).found]
  /\ pc' = "save"
  /\ downloading' = FALSE /\ restarting' = FALSE /\ fast' = 0
  /\ UNCHANGED <<booting, stateFile, check, abandoned, tag>>

\* stop_server, then run returns.
HandleShutdown ==
  /\ Takes("shutdown")
  /\ IF held THEN After([box EXCEPT !.up = FALSE]) ELSE box' = box
  /\ Abandon
  /\ Gone
  /\ UNCHANGED <<stateFile, tag>>

\* recv_timeout finds the channel empty until restart_at or next_check.
Timeout ==
  /\ pc = "wait" /\ queue = <<>>
  /\ pc' = "timed"
  /\ UNCHANGED <<booting, held, restarting, fast, st, stateFile, downloading, threadVars, box,
                 abandoned, tag>>

\* A check is still running: nothing else is served, a due restart included.
TimedDownloading ==
  /\ pc = "timed" /\ downloading /\ check # NoCheck
  /\ pc' = "wait"
  /\ UNCHANGED <<booting, held, restarting, fast, st, stateFile, downloading, threadVars, box,
                 abandoned, tag>>

\* restart_at is due, or else next_check is.
TimedRestart ==
  /\ pc = "timed" /\ (downloading => check = NoCheck)
  /\ restarting
  /\ downloading' = FALSE
  /\ restarting' = FALSE
  /\ pc' = IF ~held THEN "start" ELSE "wait"
  /\ UNCHANGED <<booting, held, fast, st, stateFile, threadVars, box,
                 abandoned, tag>>

TimedCheck ==
  /\ pc = "timed" /\ (downloading => check = NoCheck)
  /\ downloading' = TRUE
  /\ check' = Pulling
  /\ pc' = "wait"
  /\ UNCHANGED <<booting, held, restarting, fast, st, stateFile, queue, watch, stale, box,
                 abandoned, tag>>

-----------------------------------------------------------------------------
(* The other threads, and the world outside *)

\* Seeded fault: the bad image is accepted again.
CheckDecides_ForgetsBad(ok) ==
  /\ check = Pulling
  /\ check' = [at |-> "found",
               found |-> IF ok /\ tag # st.installed THEN tag ELSE None]
  /\ UNCHANGED <<loopVars, st, stateFile, downloading, queue, watch, stale, box,
                 abandoned, tag>>

\* check_for_update: the pull fails, or its digest is compared with the state.
CheckDecides(ok) ==
  /\ check = Pulling
  /\ check' = [at |-> "found",
               found |-> IF ok /\ tag \notin {st.installed, st.bad} THEN tag ELSE None]
  /\ UNCHANGED <<loopVars, st, stateFile, downloading, queue, watch, stale, box,
                 abandoned, tag>>

CheckSends ==
  /\ check.at = "found"
  /\ pc = "timed" => May("late")
  /\ queue' = Append(queue, [type |-> "ready", found |-> check.found])
  /\ check' = NoCheck
  /\ UNCHANGED <<loopVars, st, stateFile, downloading, watch, stale, box, abandoned, tag>>

\* The check thread panics.
CheckDies ==
  /\ May("panic") /\ check # NoCheck
  /\ check' = NoCheck
  /\ UNCHANGED <<loopVars, st, stateFile, downloading, queue, watch, stale, box,
                 abandoned, tag>>

\* The current watcher's docker wait returns.
WatcherReports ==
  /\ watch
  /\ \E ok \in BOOLEAN :
       /\ \/ ~box.up /\ ok = box.clean
          \/ May("watch") /\ ~ok
       /\ queue' = Append(queue, [type |-> "exit", mine |-> TRUE, success |-> ok])
  /\ watch' = FALSE
  /\ UNCHANGED <<loopVars, st, stateFile, downloading, stale, check, box, abandoned, tag>>

StaleReports ==
  /\ stale
  /\ \E ok \in BOOLEAN :
       queue' = Append(queue, [type |-> "exit", mine |-> FALSE, success |-> ok])
  /\ stale' = FALSE
  /\ UNCHANGED <<loopVars, st, stateFile, downloading, watch, check, box, abandoned, tag>>

\* Ctrl-C or SIGTERM
Interrupt ==
  /\ pc # "down"
  /\ \A i \in DOMAIN queue : queue[i].type # "shutdown"
  /\ queue' = Append(queue, [type |-> "shutdown"])
  /\ UNCHANGED <<loopVars, st, stateFile, downloading, watch, stale, check, box, abandoned, tag>>

\* The server in the container exits, cleanly or not.
BoxExits(clean) ==
  /\ box.up
  /\ box' = [box EXCEPT !.up = FALSE, !.clean = clean]
  /\ UNCHANGED <<loopVars, st, stateFile, downloading, threadVars, abandoned, tag>>

\* A new image is pushed under the tag, or an old one again.
Publish(d) ==
  /\ tag # d
  /\ tag' = d
  /\ UNCHANGED <<loopVars, st, stateFile, downloading, threadVars, box, abandoned>>

\* ceroboot is killed; the container, detached, lives on.
Die ==
  /\ May("dies") /\ pc # "down"
  /\ Abandon
  /\ Gone
  /\ UNCHANGED <<stateFile, box, tag>>

\* It is started again.
Boot ==
  /\ May("dies") /\ pc = "down"
  /\ pc' = "boot" /\ booting' = TRUE
  /\ UNCHANGED <<held, restarting, fast, st, stateFile, downloading, threadVars, box,
                 abandoned, tag>>

Loop ==
  \/ StartOk \/ StartFails \/ StartInTheWay \/ Save
  \/ BootAdopt \/ BootInstall \/ BootFails
  \/ ExitStale \/ ExitClean \/ ExitWhileDownloading
  \/ \E quick, hasImage \in BOOLEAN : ExitCrash(quick, hasImage)
  \/ ReadyNone \/ ReadySome \/ HandleShutdown
  \/ Timeout \/ TimedDownloading \/ TimedRestart \/ TimedCheck

Check == (\E ok \in BOOLEAN : CheckDecides(ok)) \/ CheckSends

Next ==
  \/ Loop \/ Check \/ CheckDies
  \/ WatcherReports \/ StaleReports
  \/ Interrupt \/ Die \/ Boot
  \/ \E clean \in BOOLEAN : BoxExits(clean)
  \/ \E d \in Images : Publish(d)

SafeSpec == Init /\ [][Next]_vars

\* The loop always goes on; docker pull and docker wait return in the end.  A check
\* that ends waits while a timeout is handled (but for "late"), so its fairness is strong.
Spec == SafeSpec /\ WF_vars(Loop) /\ SF_vars(Check) /\ WF_vars(WatcherReports)

-----------------------------------------------------------------------------
(* Properties *)

Settled == pc \in {"wait", "timed"}

\* The container the loop holds runs the installed image, however often ceroboot
\* was killed and adopted what it found, as long as its state could be saved --
\* and ceroboot never ended while a container ran that it took for gone: when docker
\* wait fails, or stop or rm do, it may end with the next image saved and the old
\* one running, and adopt that one for the next when it is started again.
RunsInstalled ==
  Settled /\ held /\ ~unsaved /\ ~abandoned => box.img = st.installed

\* What the loop believes of its container is true or about to be: one that runs
\* is the one it holds, so that the exit of a replaced container is never taken for
\* its own; and the end of the one it holds is on its way -- unless docker wait
\* has failed.
HeldIsTrue ==
  Settled /\ ~May("watch") =>
    /\ box.up => held
    /\ held /\ ~box.up =>
         watch \/ \E i \in DOMAIN queue : queue[i].type = "exit" /\ queue[i].mine

\* Within one life of ceroboot the image that was found bad is not installed again,
\* and a rollback changes the image; unless a second check starts beside the answer
\* of the first.
BadStaysOut ==
  ~May("dies") /\ ~May("late") =>
    /\ st.bad # None => st.installed # st.bad
    /\ st.previous # None => st.previous # st.installed

\* A server that is down comes back, or ceroboot ends, as long as checks end.
BackUp ==
  (pc # "down" /\ ~box.up) ~> (box.up \/ pc = "down" \/ May("panic"))
=============================================================================
