---------------------------- MODULE LauncherProofs ---------------------------
(***************************************************************************)
(* What holds of SingleInstance for every number of launchers, whoever     *)
(* plays and however long the queue of the bridge; then what holds of      *)
(* Library for every number of launch threads, whatever names, amounts of  *)
(* memory, settings and versions there are, and however many requests and  *)
(* faults.                                                                 *)
(***************************************************************************)
EXTENDS SingleInstance, Library, TLAPS

-----------------------------------------------------------------------------
(* SingleInstance.                                                         *)

LockTypes ==
  /\ pc \in [Launchers -> Places]
  /\ path \in Ref
  /\ opened \in [Launchers -> Ref]
  /\ holder \in [Launchers -> Ref]
  /\ loose \in BOOLEAN

\* A launcher has no file open before it starts, and one when it tries the lock.
OpensFirst == \A l \in Launchers : /\ pc[l] = "off" => opened[l] = None
                                   /\ pc[l] = "opened" => opened[l] # None

\* A launcher that runs and has a file open has that file locked.
HoldsIts == \A l \in Running : opened[l] # None => holder[opened[l]] = l

\* As long as every open succeeds and no open file is unlinked, all launchers
\* that have a file open have the same one, and each that runs has one.
OneFile == ~loose => /\ \A l \in Launchers : opened[l] # None => opened[l] = path
                     /\ \A l \in Running : opened[l] # None

IInv == LockTypes /\ OpensFirst /\ HoldsIts /\ OneFile

LEMMA NoneApart == \A l \in Launchers : l # None
BY LauncherAssumption DEF Launchers, None

LEMMA InvInit == Init => IInv
BY DEF Init, IInv, LockTypes, OpensFirst, HoldsIts, OneFile, Running, Places, Ref

-----------------------------------------------------------------------------
(* One lemma per step that touches the lock.                               *)

LEMMA OpenStep == ASSUME IInv, NEW l \in Launchers, Open(l) PROVE IInv'
<1> DEFINE f == IF path = None THEN l ELSE path
<1>1. /\ pc[l] = "off" /\ pc' = [pc EXCEPT ![l] = "opened"]
      /\ path' = f /\ opened' = [opened EXCEPT ![l] = f]
      /\ holder' = holder /\ loose' = loose
  BY DEF Open, Move
<1>2. f \in Launchers /\ f # None
  BY NoneApart DEF IInv, LockTypes, Ref
<1> HIDE DEF f
<1>3. LockTypes'
  BY <1>1, <1>2 DEF IInv, LockTypes, Places, Ref
<1>4. OpensFirst'
  BY <1>1, <1>2 DEF IInv, LockTypes, OpensFirst
<1>5. \A m \in Launchers : m \in Running' => m # l /\ m \in Running
  BY <1>1 DEF IInv, LockTypes, Running
<1>6. HoldsIts'
  BY <1>1, <1>5 DEF IInv, LockTypes, HoldsIts, Running
<1>7. ASSUME ~loose, NEW m \in Launchers, m # l, opened[m] # None PROVE opened[m] = f
  BY <1>7, NoneApart DEF IInv, OneFile, f
<1>8. OneFile'
  BY <1>1, <1>2, <1>5, <1>7 DEF IInv, LockTypes, OneFile, Running
<1> QED
  BY <1>3, <1>4, <1>6, <1>8 DEF IInv

LEMMA OpenFailsStep == ASSUME IInv, NEW l \in Launchers, OpenFails(l) PROVE IInv'
<1>1. /\ pc[l] = "off" /\ pc' = [pc EXCEPT ![l] = "boot"] /\ loose' = TRUE
      /\ path' = path /\ opened' = opened /\ holder' = holder
  BY DEF OpenFails, Move
<1> QED
  BY <1>1 DEF IInv, LockTypes, OpensFirst, HoldsIts, OneFile, Running, Places

LEMMA LockStep == ASSUME IInv, NEW l \in Launchers, Lock(l) PROVE IInv'
<1>1. /\ pc[l] = "opened" /\ pc' = [pc EXCEPT ![l] = "locked"]
      /\ holder[opened[l]] = None /\ holder' = [holder EXCEPT ![opened[l]] = l]
      /\ path' = path /\ opened' = opened /\ loose' = loose
  BY DEF Lock, Move
<1>2. opened[l] \in Launchers /\ opened[l] # None
  BY <1>1 DEF IInv, LockTypes, OpensFirst, Ref
<1>3. LockTypes'
  BY <1>1, <1>2 DEF IInv, LockTypes, Places, Ref
<1>4. OpensFirst'
  BY <1>1 DEF IInv, LockTypes, OpensFirst
<1>5. \A m \in Launchers : m \in Running' => m = l \/ m \in Running
  BY <1>1 DEF IInv, LockTypes, Running
<1>6. ASSUME NEW m \in Running', opened'[m] # None PROVE holder'[opened'[m]] = m
  <2>1. CASE m = l
    BY <1>1, <1>2, <2>1 DEF IInv, LockTypes
  <2>2. CASE m # l
    <3>1. m \in Running /\ m \in Launchers
      BY <1>5, <1>6, <2>2 DEF Running
    <3>2. holder[opened[m]] = m
      BY <1>1, <1>6, <3>1 DEF IInv, HoldsIts
    <3>3. opened[m] # opened[l] /\ opened[m] \in Launchers
      BY <1>1, <1>6, <3>1, <3>2, NoneApart DEF IInv, LockTypes, Ref
    <3> QED
      BY <1>1, <3>2, <3>3 DEF IInv, LockTypes
  <2> QED
    BY <2>1, <2>2
<1>7. HoldsIts'
  BY <1>6 DEF HoldsIts
<1>8. OneFile'
  BY <1>1, <1>2, <1>5 DEF IInv, OneFile, Running
<1> QED
  BY <1>3, <1>4, <1>7, <1>8 DEF IInv

\* A launcher that leaves, giving way, quitting or crashing, closes its file;
\* who held the lock still does unless it is the one that leaves.
LEMMA LeaveStep ==
  ASSUME IInv, NEW l \in Launchers, pc[l] # "off",
         NEW to \in {"wake", "unlink", "gone"}, pc' = [pc EXCEPT ![l] = to],
         opened' = [opened EXCEPT ![l] = None],
         holder' \in [Launchers -> Ref],
         \A f \in Launchers : holder[f] # l => holder'[f] = holder[f],
         path' = path, loose' = loose
  PROVE  IInv'
<1>1. LockTypes'
  BY DEF IInv, LockTypes, Places, Ref
<1>2. OpensFirst'
  BY DEF IInv, LockTypes, OpensFirst
<1>3. \A m \in Launchers : m \in Running' => m # l /\ m \in Running
  BY DEF IInv, LockTypes, Running
<1>4. HoldsIts'
  BY <1>3 DEF IInv, LockTypes, HoldsIts, Running, Ref
<1>5. OneFile'
  BY <1>3 DEF IInv, LockTypes, OneFile, Running
<1> QED
  BY <1>1, <1>2, <1>4, <1>5 DEF IInv

LEMMA UnlinkStep == ASSUME IInv, NEW l \in Launchers, Unlink(l) PROVE IInv'
<1>1. /\ pc[l] = "unlink" /\ pc' = [pc EXCEPT ![l] = "gone"]
      /\ path' = None /\ opened' = opened /\ holder' = holder
      /\ loose' = (loose \/ \E m \in Launchers : path # None /\ opened[m] = path)
  BY DEF Unlink, Move
<1>2. LockTypes'
  BY <1>1 DEF IInv, LockTypes, Places, Ref
<1>3. OpensFirst' /\ HoldsIts'
  BY <1>1 DEF IInv, LockTypes, OpensFirst, HoldsIts, Running
<1>4. ~loose' => \A m \in Launchers : opened[m] = None
  BY <1>1 DEF IInv, OneFile
<1>5. ~loose' => Running' = {}
  BY <1>1, <1>4 DEF IInv, LockTypes, OneFile, Running
<1>6. OneFile'
  BY <1>1, <1>4, <1>5 DEF OneFile
<1> QED
  BY <1>2, <1>3, <1>6 DEF IInv

\* Steps of a launcher that leave the lock alone.
LEMMA MoveStep ==
  ASSUME IInv, NEW l \in Launchers, NEW from, NEW to, Move(l, from, to),
         <<from, to>> \in {<<"locked", "boot">>, <<"boot", "ready">>, <<"ready", "run">>,
                           <<"wake", "dial">>, <<"wake", "gone">>, <<"dial", "gone">>},
         path' = path, opened' = opened, holder' = holder, loose' = loose
  PROVE  IInv'
<1>1. Running' = Running
  BY DEF IInv, LockTypes, Move, Running
<1> QED
  BY <1>1 DEF IInv, LockTypes, OpensFirst, HoldsIts, OneFile, Move, Places

LEMMA SameStep ==
  ASSUME IInv, pc' = pc, path' = path, opened' = opened, loose' = loose,
         holder' \in [Launchers -> Ref],
         \A f \in Launchers : holder[f] \in Running => holder'[f] = holder[f]
  PROVE  IInv'
BY DEF IInv, LockTypes, OpensFirst, HoldsIts, OneFile, Running, Ref

-----------------------------------------------------------------------------
LEMMA MainStep == ASSUME IInv, NEW l \in Launchers, Main(l) PROVE IInv'
<1>1. CASE Lock(l)
  BY <1>1, LockStep
<1>2. CASE GiveWay(l)
  BY <1>2, LeaveStep DEF GiveWay, IInv, LockTypes
<1>3. CASE WritePid(l)
  BY <1>3, MoveStep DEF WritePid
<1>4. CASE ReadPort(l)
  <2>1. PICK to \in {"dial", "gone"} : Move(l, "wake", to)
    BY <1>4 DEF ReadPort, Move
  <2> QED
    BY <1>4, <2>1, MoveStep DEF ReadPort, lockVars
<1>5. CASE Dial(l)
  BY <1>5, MoveStep DEF Dial, lockVars
<1>6. CASE WritePort(l)
  BY <1>6, MoveStep DEF WritePort
<1>7. CASE CreateUI(l)
  BY <1>7, MoveStep DEF CreateUI, lockVars
<1>8. CASE Unlink(l)
  BY <1>8, UnlinkStep
<1> QED
  BY <1>1, <1>2, <1>3, <1>4, <1>5, <1>6, <1>7, <1>8 DEF Main

LEMMA ThreadStep == ASSUME IInv, NEW l \in Launchers, Thread(l) PROVE IInv'
<1>1. UNCHANGED <<pc, path, opened, holder, loose>>
  BY DEF Thread, BridgeListens, Accept, ClientEnds, lockVars
<1> QED
  BY <1>1, SameStep DEF IInv, LockTypes

LEMMA WorldStep == ASSUME IInv, NEW l \in Launchers, World(l) PROVE IInv'
<1>0. holder \in [Launchers -> Ref] /\ None \in Ref
  BY DEF IInv, LockTypes, Ref
<1>1. CASE Open(l)
  BY <1>1, OpenStep
<1>2. CASE OpenFails(l)
  BY <1>2, OpenFailsStep
<1>3. CASE Quit(l)
  <2>1. PICK to \in {"unlink", "gone"} : pc' = [pc EXCEPT ![l] = to]
    BY <1>3 DEF Quit
  <2>2. holder' = [f \in Launchers |-> IF holder[f] = l THEN None ELSE holder[f]]
    BY <1>3 DEF Quit
  <2>3. /\ holder' \in [Launchers -> Ref]
        /\ \A f \in Launchers : holder[f] # l => holder'[f] = holder[f]
    BY <1>0, <2>2
  <2> QED
    BY <1>3, <2>1, <2>3, LeaveStep DEF Quit
<1>4. CASE Crash(l)
  <2>1. holder' = [f \in Launchers |->
                     IF holder[f] = l /\ game[l] = "none" THEN None ELSE holder[f]]
    BY <1>4 DEF Crash
  <2>2. /\ holder' \in [Launchers -> Ref]
        /\ \A f \in Launchers : holder[f] # l => holder'[f] = holder[f]
    BY <1>0, <2>1
  <2> QED
    BY <1>4, <2>2, LeaveStep DEF Crash, Alive
<1>5. CASE GameEnds(l)
  <2>1. /\ holder' = [f \in Launchers |->
                        IF holder[f] = l /\ ~Alive(l) THEN None ELSE holder[f]]
        /\ UNCHANGED <<pc, path, opened, loose>>
    BY <1>5 DEF GameEnds
  <2>2. Alive(l) \/ l \notin Running
    BY DEF Alive, Running
  <2>3. /\ holder' \in [Launchers -> Ref]
        /\ \A f \in Launchers : holder[f] \in Running => holder'[f] = holder[f]
    BY <1>0, <2>1, <2>2
  <2> QED
    BY <2>1, <2>3, SameStep
<1>6. CASE Hide(l) \/ StartGame(l) \/ GameConnects(l)
  <2>1. UNCHANGED <<pc, path, opened, holder, loose>>
    BY <1>6 DEF Hide, StartGame, GameConnects, lockVars
  <2> QED
    BY <1>0, <2>1, SameStep
<1> QED
  BY <1>1, <1>2, <1>3, <1>4, <1>5, <1>6 DEF World

LEMMA InvStep == IInv /\ [Next]_vars => IInv'
<1> SUFFICES ASSUME IInv, [Next]_vars PROVE IInv'
  OBVIOUS
<1>1. CASE UNCHANGED vars
  BY <1>1, SameStep DEF vars, lockVars, IInv, LockTypes
<1> QED
  BY <1>1, MainStep, ThreadStep, WorldStep DEF Next

LEMMA InvOne == IInv => OneRuns
<1> SUFFICES ASSUME IInv, ~loose, NEW l \in Running, NEW m \in Running PROVE l = m
  BY DEF OneRuns
<1>1. opened[l] = path /\ opened[m] = path /\ path # None
  BY DEF IInv, OneFile, Running
<1> QED
  BY <1>1 DEF IInv, HoldsIts

\* single_instance_check lets one launcher run at a time, whoever crashes,
\* quits, plays or gives way, as long as the lock file can be opened and is
\* not unlinked by one launcher after another has opened it.
THEOREM OneLauncherRuns == SafeSpec => []OneRuns
BY InvInit, InvStep, InvOne, PTL DEF SafeSpec

-----------------------------------------------------------------------------
(* The rest of the type invariant.                                         *)

Call == {"show", "game", "closed"}

PortTypes == text \in Ref /\ dial \in [Launchers -> Ref]

SocketTypes ==
  /\ bridge \subseteq Launchers /\ shown \subseteq Launchers
  /\ calls \in [Launchers -> Seq(Call)]
  /\ \A l \in Launchers : Len(calls[l]) <= Backlog
  /\ serving \in [Launchers -> Call \cup {"none"}]
  /\ game \in [Launchers -> {"none", "up", "joined"}]

LEMMA QueueAppend ==
  ASSUME SocketTypes, NEW l \in Launchers, Len(calls[l]) < Backlog, NEW c \in Call,
         calls' = [calls EXCEPT ![l] = Append(@, c)]
  PROVE  /\ calls' \in [Launchers -> Seq(Call)]
         /\ \A m \in Launchers : Len(calls'[m]) <= Backlog
<1>1. calls[l] \in Seq(Call)
  BY DEF SocketTypes
<1>2. Append(calls[l], c) \in Seq(Call) /\ Len(Append(calls[l], c)) = Len(calls[l]) + 1
  BY <1>1
<1>3. Len(calls[l]) \in Nat
  BY <1>1
<1> QED
  BY <1>2, <1>3, LauncherAssumption DEF SocketTypes

LEMMA QueueTail ==
  ASSUME SocketTypes, NEW l \in Launchers, calls[l] # << >>
  PROVE  /\ Head(calls[l]) \in Call
         /\ [calls EXCEPT ![l] = Tail(@)] \in [Launchers -> Seq(Call)]
         /\ \A m \in Launchers : Len([calls EXCEPT ![l] = Tail(@)][m]) <= Backlog
<1>1. calls[l] \in Seq(Call)
  BY DEF SocketTypes
<1>2. /\ Head(calls[l]) \in Call /\ Tail(calls[l]) \in Seq(Call)
      /\ Len(Tail(calls[l])) = Len(calls[l]) - 1 /\ Len(calls[l]) \in Nat
  BY <1>1
<1> QED
  BY <1>2, LauncherAssumption DEF SocketTypes

LEMMA SocketOfType ==
  ASSUME SocketTypes, NEW l \in Launchers, NEW playing \in BOOLEAN, SocketOf(l, playing)
  PROVE  /\ bridge' \subseteq Launchers
         /\ calls' \in [Launchers -> Seq(Call)]
         /\ \A m \in Launchers : Len(calls'[m]) <= Backlog
         /\ serving' \in [Launchers -> Call \cup {"none"}]
<1>1. << >> \in Seq(Call) /\ Len(<< >>) = 0
  OBVIOUS
<1> QED
  BY <1>1, LauncherAssumption DEF SocketTypes, SocketOf

LEMMA PortStep ==
  ASSUME LockTypes, PortTypes, NEW l \in Launchers, Main(l) \/ Thread(l) \/ World(l)
  PROVE  PortTypes'
<1> USE DEF PortTypes, Ref
<1>1. CASE Main(l)
  BY <1>1 DEF Main, Lock, GiveWay, WritePid, ReadPort, Dial, WritePort, CreateUI, Unlink,
              lockVars
<1>2. CASE Thread(l)
  BY <1>2 DEF Thread, BridgeListens, Accept, ClientEnds, lockVars
<1>3. CASE World(l)
  BY <1>3 DEF World, Open, OpenFails, Hide, Quit, Crash, StartGame, GameConnects, GameEnds,
              lockVars
<1> QED
  BY <1>1, <1>2, <1>3

LEMMA SocketStep ==
  ASSUME LockTypes, PortTypes, SocketTypes, NEW l \in Launchers,
         Main(l) \/ Thread(l) \/ World(l)
  PROVE  SocketTypes'
<1>1. CASE Lock(l) \/ GiveWay(l) \/ WritePid(l) \/ ReadPort(l) \/ WritePort(l)
           \/ CreateUI(l) \/ Open(l) \/ OpenFails(l) \/ Hide(l)
  <2>1. calls' = calls /\ bridge' = bridge /\ serving' = serving /\ game' = game
    BY <1>1 DEF Lock, GiveWay, WritePid, ReadPort, WritePort, CreateUI, Open, OpenFails,
                Hide, bridgeVars
  <2>2. shown' \subseteq Launchers
    BY <1>1 DEF SocketTypes, Lock, GiveWay, WritePid, ReadPort, WritePort, CreateUI, Open,
                OpenFails, Hide
  <2> QED
    BY <2>1, <2>2 DEF SocketTypes
<1>8. CASE BridgeListens(l)
  BY <1>8 DEF SocketTypes, BridgeListens
<1>9. CASE StartGame(l)
  BY <1>9 DEF SocketTypes, StartGame, bridgeVars
<1>2. CASE Dial(l)
  <2>1. CASE calls' = calls
    BY <1>2, <2>1 DEF SocketTypes, Dial
  <2>2. CASE calls' # calls
    <3>1. dial[l] \in Launchers /\ Len(calls[dial[l]]) < Backlog
          /\ calls' = [calls EXCEPT ![dial[l]] = Append(@, "show")]
      BY <1>2, <2>2 DEF Dial, SocketTypes
    <3> QED
      BY <1>2, <3>1, QueueAppend DEF SocketTypes, Dial, Call
  <2> QED
    BY <2>1, <2>2
<1>3. CASE Accept(l)
  BY <1>3, QueueTail DEF SocketTypes, Accept
<1>4. CASE ClientEnds(l)
  BY <1>4 DEF SocketTypes, ClientEnds
<1>5. CASE GameConnects(l)
  BY <1>5, QueueAppend DEF SocketTypes, GameConnects, Call
<1>6. CASE Quit(l) \/ Unlink(l) \/ Crash(l)
  <2>1. SocketOf(l, game[l] # "none") \/ UNCHANGED bridgeVars
    BY <1>6 DEF Quit, Unlink, Crash
  <2>2. game' = game /\ shown' \subseteq shown
    BY <1>6 DEF Quit, Unlink, Crash
  <2> QED
    BY <2>1, <2>2, SocketOfType DEF SocketTypes, bridgeVars
<1>7. CASE GameEnds(l)
  <2>1. game' \in [Launchers -> {"none", "up", "joined"}] /\ shown' = shown
    BY <1>7 DEF GameEnds, SocketTypes
  <2>2. CASE ~Alive(l)
    BY <1>7, <2>1, <2>2, SocketOfType DEF SocketTypes, GameEnds
  <2>3. CASE Alive(l)
    <3> DEFINE Ended(call, last) == IF call = "game" THEN last ELSE call
               EndedCalls(last) == [i \in DOMAIN calls[l] |-> Ended(calls[l][i], last)]
    <3>1. PICK last \in {"show", "closed"} :
            /\ serving' = [serving EXCEPT ![l] = Ended(@, last)]
            /\ calls' = [calls EXCEPT ![l] = EndedCalls(last)]
            /\ bridge' = bridge
      BY <1>7, <2>3 DEF GameEnds
    <3>2. calls[l] \in Seq(Call)
      BY DEF SocketTypes
    <3>3. EndedCalls(last) \in Seq(Call) /\ Len(EndedCalls(last)) = Len(calls[l])
      BY <3>2 DEF Call
    <3>4. serving' \in [Launchers -> Call \cup {"none"}]
      BY <3>1 DEF SocketTypes, Call
    <3> HIDE DEF EndedCalls
    <3> QED
      BY <2>1, <3>1, <3>3, <3>4 DEF SocketTypes
  <2> QED
    BY <2>2, <2>3
<1> QED
  BY <1>1, <1>2, <1>3, <1>4, <1>5, <1>6, <1>7, <1>8, <1>9 DEF Main, Thread, World

TypeInv == IInv /\ PortTypes /\ SocketTypes

LEMMA TypeStep == TypeInv /\ [Next]_vars => TypeInv'
<1> SUFFICES ASSUME TypeInv, [Next]_vars PROVE TypeInv'
  OBVIOUS
<1>1. CASE UNCHANGED vars
  BY <1>1, InvStep DEF TypeInv, PortTypes, SocketTypes, vars, lockVars, bridgeVars
<1>2. CASE Next
  BY <1>2, InvStep, PortStep, SocketStep DEF Next, TypeInv, IInv
<1> QED
  BY <1>1, <1>2

\* Names, ports and queues stay what they are meant to be; no queue of the
\* bridge grows beyond what listen allows.
THEOREM TypeCorrect == SafeSpec => []TypeOK
<1>1. Init => TypeInv
  <2> SUFFICES ASSUME Init PROVE PortTypes /\ SocketTypes
    BY InvInit DEF TypeInv
  <2>1. << >> \in Seq(Call) /\ Len(<< >>) = 0
    OBVIOUS
  <2> QED
    BY <2>1, LauncherAssumption DEF Init, PortTypes, SocketTypes, Ref
<1>2. TypeInv => TypeOK
  BY DEF TypeInv, IInv, LockTypes, PortTypes, SocketTypes, TypeOK, Call
<1> QED
  BY <1>1, <1>2, TypeStep, PTL DEF SafeSpec

-----------------------------------------------------------------------------
(* Library: what is asked for, and the documents.                          *)

Touches == [kind : {"touch"}, id : Ids]
IndexOps == Touches \cup [kind : {"delete"}, id : Ids]
              \cup [kind : {"create", "rename"}, id : Ids, name : Names]
              \cup [kind : {"ram"}, id : Ids, ram : Rams]
SaveOps == [kind : {"save"}, key : Keys \cup {"ram"}, value : Rams]
VersionOps == [kind : {"version"}, version : Versions]
Changes == IndexOps \cup SaveOps \cup VersionOps

LEMMA ChangesAre ==
  /\ \A o \in IndexOps :
       /\ o.kind \in {"touch", "delete", "create", "rename", "ram"} /\ o.id \in Ids
       /\ o.kind \in {"create", "rename"} => o.name \in Names
       /\ o.kind = "ram" => o.ram \in Rams
       /\ File(o) = "index"
  /\ \A o \in SaveOps : /\ o.kind = "save" /\ o.key \in Keys \cup {"ram"} /\ o.value \in Rams
                        /\ File(o) = "settings"
  /\ \A o \in VersionOps : o.kind = "version" /\ o.version \in Versions /\ File(o) = "config"
  /\ \A o \in Touches : o.kind = "touch" /\ o \in IndexOps
  /\ NoOp.kind = "none" /\ File(NoOp) = "index"
<1>1. \A o \in IndexOps :
        /\ o.kind \in {"touch", "delete", "create", "rename", "ram"} /\ o.id \in Ids
        /\ o.kind \in {"create", "rename"} => o.name \in Names
        /\ o.kind = "ram" => o.ram \in Rams
  BY DEF IndexOps, Touches
<1>2. \A o \in SaveOps : /\ o.kind = "save" /\ o.key \in Keys \cup {"ram"} /\ o.value \in Rams
  BY DEF SaveOps
<1>3. \A o \in VersionOps : o.kind = "version" /\ o.version \in Versions
  BY DEF VersionOps
<1>4. \A o \in Touches : o.kind = "touch" /\ o \in IndexOps
  BY DEF Touches, IndexOps
<1>5. NoOp.kind = "none"
  BY DEF NoOp
<1> QED
  BY <1>1, <1>2, <1>3, <1>4, <1>5 DEF File

\* A document maps some of the names to values.
LEMMA PartialIs ==
  ASSUME NEW D, NEW R, NEW d
  PROVE  d \in Partial(D, R) <=> /\ d = [x \in DOMAIN d |-> d[x]] /\ DOMAIN d \subseteq D
                                 /\ \A x \in DOMAIN d : d[x] \in R
BY DEF Partial

LEMMA PutIs ==
  ASSUME NEW D, NEW R, NEW d \in Partial(D, R), NEW k \in D, NEW v \in R
  PROVE  /\ Put(d, k, v) \in Partial(D, R)
         /\ DOMAIN Put(d, k, v) = DOMAIN d \cup {k}
         /\ Put(d, k, v)[k] = v
         /\ \A x \in DOMAIN d \ {k} : Put(d, k, v)[x] = d[x]
<1>1. /\ DOMAIN Put(d, k, v) = DOMAIN d \cup {k} /\ Put(d, k, v)[k] = v
      /\ \A x \in DOMAIN d \ {k} : Put(d, k, v)[x] = d[x]
      /\ Put(d, k, v) = [x \in DOMAIN Put(d, k, v) |-> Put(d, k, v)[x]]
  BY DEF Put
<1>2. DOMAIN d \subseteq D /\ \A x \in DOMAIN d : d[x] \in R
  BY PartialIs
<1>3. DOMAIN Put(d, k, v) \subseteq D /\ \A x \in DOMAIN Put(d, k, v) : Put(d, k, v)[x] \in R
  BY <1>1, <1>2
<1> QED
  BY <1>1, <1>3, PartialIs

LEMMA EmptyIs ==
  ASSUME NEW D, NEW R
  PROVE  Empty \in Partial(D, R)
<1>1. DOMAIN Empty = {} /\ Empty = [x \in DOMAIN Empty |-> Empty[x]]
  BY DEF Empty
<1> QED
  BY <1>1, PartialIs

LEMMA ClampIs ==
  \A r \in Nat : clamp_ram_mb(r) \in MinRam..MaxRam /\ clamp_ram_mb(r) \in Nat
                 /\ clamp_ram_mb(r) \in {r, MinRam, MaxRam}
BY LibraryAssumption DEF clamp_ram_mb

\* What the request does to the list, and what it does to what is said of it.
PromisedBy(o, m) ==
  IF o.kind # "touch" /\ (o.kind = "create" \/ o.id \in DOMAIN m) THEN Promise(o, m) ELSE m

Entry(i) == [name |-> i.name, ram |-> i.ram]

LEMMA ListedIs ==
  ASSUME NEW d \in Lists
  PROVE  /\ Listed(d) = [i \in DOMAIN d |-> Entry(d[i])]
         /\ DOMAIN Listed(d) = DOMAIN d
         /\ \A i \in DOMAIN d : Listed(d)[i] = Entry(d[i])
BY DEF Listed, Entry

LEMMA ApplyIndex ==
  ASSUME NEW o \in IndexOps, NEW d \in Lists, Found(o, d)
  PROVE  Apply(o, d) \in Lists /\ Listed(Apply(o, d)) = PromisedBy(o, Listed(d))
<1>1. /\ d = [x \in DOMAIN d |-> d[x]] /\ DOMAIN d \subseteq Ids
      /\ \A x \in DOMAIN d : d[x] \in Instances
  BY PartialIs DEF Lists
<1>2. /\ DOMAIN Listed(d) = DOMAIN d
      /\ \A i \in DOMAIN d : Listed(d)[i] = Entry(d[i])
  BY ListedIs
<1>3. CASE o.kind = "create"
  <2> DEFINE e == [name |-> o.name, ram |-> 0, played |-> FALSE]
  <2>1. e \in Instances /\ Entry(e) = [name |-> o.name, ram |-> 0]
    BY <1>3, ChangesAre, LibraryAssumption DEF Instances, Entry
  <2>2. Apply(o, d) = Put(d, o.id, e)
    BY <1>3 DEF Apply, instance_create
  <2> HIDE DEF e
  <2>3. /\ Put(d, o.id, e) \in Lists /\ DOMAIN Put(d, o.id, e) = DOMAIN d \cup {o.id}
        /\ Put(d, o.id, e)[o.id] = e
        /\ \A x \in DOMAIN d \ {o.id} : Put(d, o.id, e)[x] = d[x]
    BY <2>1, PutIs, ChangesAre DEF Lists
  <2>4. Listed(Put(d, o.id, e)) = Put(Listed(d), o.id, Entry(e))
    BY <1>2, <2>3, ListedIs DEF Put
  <2> QED
    BY <1>3, <2>1, <2>2, <2>3, <2>4 DEF PromisedBy, Promise
<1>4. CASE o.kind = "delete"
  <2>1. Apply(o, d) = [x \in DOMAIN d \ {o.id} |-> d[x]]
    BY <1>4 DEF Apply, instance_delete, Restrict
  <2>2. Apply(o, d) \in Lists
    BY <1>1, <2>1, PartialIs DEF Lists
  <2>3. Listed(Apply(o, d)) = [x \in DOMAIN d \ {o.id} |-> Listed(d)[x]]
    BY <1>2, <2>1, <2>2, ListedIs
  <2>4. o.id \in DOMAIN d
    BY <1>4 DEF Found
  <2> QED
    BY <1>2, <1>4, <2>2, <2>3, <2>4 DEF PromisedBy, Promise, Restrict
<1>5. CASE o.kind \in {"rename", "ram", "touch"}
  <2>1. o.id \in DOMAIN d
    BY <1>5 DEF Found
  <2> DEFINE i == d[o.id]
             e == CASE o.kind = "rename" -> [i EXCEPT !.name = o.name]
                    [] o.kind = "ram" -> [i EXCEPT !.ram = o.ram]
                    [] o.kind = "touch" -> [i EXCEPT !.played = TRUE]
  <2>2. i \in Instances
    BY <1>1, <2>1
  <2>3. e \in Instances
    BY <1>5, <2>2, ChangesAre DEF Instances
  <2>4. /\ o.kind = "rename" => Entry(e) = [name |-> o.name, ram |-> i.ram]
        /\ o.kind = "ram" => Entry(e) = [name |-> i.name, ram |-> o.ram]
        /\ o.kind = "touch" => Entry(e) = Entry(i)
    BY <2>2 DEF Instances, Entry
  <2>5. Apply(o, d) = [d EXCEPT ![o.id] = e]
    BY <1>5 DEF Apply, instance_rename, instance_set_ram, instance_touch_last_played
  <2> HIDE DEF e
  <2>6. /\ Apply(o, d) \in Lists /\ DOMAIN Apply(o, d) = DOMAIN d
        /\ Apply(o, d)[o.id] = e
        /\ \A x \in DOMAIN d \ {o.id} : Apply(o, d)[x] = d[x]
    <3>1. /\ DOMAIN Apply(o, d) = DOMAIN d /\ Apply(o, d)[o.id] = e
          /\ \A x \in DOMAIN d \ {o.id} : Apply(o, d)[x] = d[x]
          /\ Apply(o, d) = [x \in DOMAIN Apply(o, d) |-> Apply(o, d)[x]]
      BY <1>1, <2>1, <2>5
    <3>2. \A x \in DOMAIN Apply(o, d) : Apply(o, d)[x] \in Instances
      BY <1>1, <2>3, <3>1
    <3> QED
      BY <1>1, <3>1, <3>2, PartialIs DEF Lists
  <2>7. Listed(Apply(o, d)) = Put(Listed(d), o.id, Entry(e))
    <3>1. Listed(Apply(o, d)) = [x \in DOMAIN d |-> Entry(Apply(o, d)[x])]
      BY <2>6, ListedIs
    <3>2. \A x \in DOMAIN d : Entry(Apply(o, d)[x]) = IF x = o.id THEN Entry(e) ELSE Listed(d)[x]
      BY <1>2, <2>6
    <3>3. DOMAIN Listed(d) \cup {o.id} = DOMAIN d
      BY <1>2, <2>1
    <3> QED
      BY <3>1, <3>2, <3>3 DEF Put
  <2>8. o.kind = "touch" => Put(Listed(d), o.id, Entry(i)) = Listed(d)
    <3>1. Listed(d) = [x \in DOMAIN Listed(d) |-> Listed(d)[x]]
      BY ListedIs
    <3> QED
      BY <1>2, <2>1, <3>1 DEF Put
  <2>9. Listed(d)[o.id].ram = i.ram /\ Listed(d)[o.id].name = i.name
    BY <1>2, <2>1 DEF Entry
  <2> QED
    BY <1>2, <1>5, <2>1, <2>4, <2>6, <2>7, <2>8, <2>9 DEF PromisedBy, Promise
<1> QED
  BY <1>3, <1>4, <1>5, ChangesAre

-----------------------------------------------------------------------------
(* The types.                                                              *)

Steps == {"idle", "load", "open", "write", "args", "touch"}

\* Who changes a file has loaded a document of its kind.
Documents ==
  /\ DOMAIN op = Actors /\ DOMAIN mem = Actors
  /\ \A a \in Actors : at[a] \in {"load", "open", "write"} => op[a] \in Changes
  /\ \A a \in Actors : at[a] \in {"open", "write"} =>
       /\ op[a] \in IndexOps => mem[a] \in Lists
       /\ op[a] \in SaveOps => mem[a] \in Settings
  /\ \A l \in Threads : at[l] \in {"load", "open", "write"} => op[l] \in Touches
  /\ \A l \in Threads : at[l] \in {"args", "touch"} => inst[l].id \in Ids
  /\ wanted \in Settings

Typed == LibraryTypeOK /\ Documents

Valued(o) == IF o.key = "ram" THEN clamp_ram_mb(o.value) ELSE o.value

LEMMA LoadedIs ==
  /\ \A f \in Lists \cup {Torn} : Loaded(f) \in Lists /\ (f # Torn => Loaded(f) = f)
  /\ \A f \in Settings \cup {Torn} : Loaded(f) \in Settings /\ (f # Torn => Loaded(f) = f)
  /\ Loaded(Torn) = Empty
BY EmptyIs DEF Loaded, Lists, Settings

LEMMA MergeIs ==
  ASSUME NEW o \in SaveOps, NEW d \in Settings
  PROVE  /\ Merge(o, d) = Put(d, o.key, Valued(o))
         /\ Valued(o) \in Rams \cup {MinRam, MaxRam}
         /\ Put(d, o.key, Valued(o)) \in Settings
<1>1. o.key \in Keys \cup {"ram"} /\ o.value \in Rams /\ o.value \in Nat
  BY ChangesAre, LibraryAssumption
<1>2. Valued(o) \in Rams \cup {MinRam, MaxRam}
  BY <1>1, ClampIs DEF Valued
<1>3. Put(d, o.key, Valued(o)) \in Settings
  BY <1>1, <1>2, PutIs DEF Settings
<1> QED
  BY <1>2, <1>3 DEF Merge, Valued

\* What an answer adds to what the page was told.
LEMMA AnsweredIs ==
  ASSUME Typed, NEW a \in Actors, op[a] \in Changes, Answered(a)
  PROVE  /\ op[a] \in IndexOps =>
              meant' = PromisedBy(op[a], meant) /\ wanted' = wanted /\ chosen' = chosen
         /\ op[a] \in SaveOps =>
              /\ meant' = meant /\ wanted' = Put(wanted, op[a].key, Valued(op[a]))
              /\ chosen' = chosen
         /\ op[a] \in VersionOps =>
              /\ meant' = meant /\ wanted' = wanted
              /\ chosen' = [chosen EXCEPT !.lastVersion = op[a].version]
         /\ wanted' \in Settings
         /\ chosen' \in [lastVersion : Versions \cup {"none"}, theme : {"dark", "none"}]
<1>1. CASE op[a] \in IndexOps
  BY <1>1, ChangesAre DEF Answered, PromisedBy, Typed, Documents, LibraryTypeOK, Changes
<1>2. CASE op[a] \in SaveOps
  <2>1. op[a].kind = "save" /\ File(op[a]) = "settings"
    BY <1>2, ChangesAre
  <2>2. meant' = meant /\ wanted' = Put(wanted, op[a].key, Valued(op[a])) /\ chosen' = chosen
    BY <2>1 DEF Answered, Valued
  <2>3. wanted' \in Settings
    BY <1>2, <2>2, MergeIs DEF Typed, Documents
  <2> QED
    BY <2>1, <2>2, <2>3, ChangesAre DEF Typed, LibraryTypeOK
<1>3. CASE op[a] \in VersionOps
  <2>1. op[a].kind = "version" /\ op[a].version \in Versions /\ File(op[a]) = "config"
    BY <1>3, ChangesAre
  <2>2. /\ meant' = meant /\ wanted' = wanted
        /\ chosen' = [chosen EXCEPT !.lastVersion = op[a].version]
    BY <2>1 DEF Answered
  <2> QED
    BY <2>1, <2>2, ChangesAre DEF Typed, Documents, LibraryTypeOK
<1> QED
  BY <1>1, <1>2, <1>3 DEF Changes

\* An actor that has done, or gives up, is idle again.
LEMMA EndsDoes ==
  ASSUME Typed, NEW a \in Actors, Ends(a)
  PROVE  /\ at' \in [Actors -> Steps] /\ at'[a] = "idle"
         /\ \A b \in Actors \ {a} : at'[b] = at[b] /\ op'[b] = op[b] /\ mem'[b] = mem[b]
         /\ DOMAIN op' = Actors /\ DOMAIN mem' = Actors
         /\ stale' = stale \ {a} /\ stale' \subseteq Actors
BY DEF Ends, Typed, Documents, LibraryTypeOK, Steps

\* A step of one actor leaves the documents of the others.
LEMMA OthersTyped ==
  ASSUME Typed, NEW a \in Actors, LibraryTypeOK', inst' = inst, wanted' \in Settings,
         DOMAIN op' = Actors, DOMAIN mem' = Actors,
         \A b \in Actors \ {a} : at'[b] = at[b] /\ op'[b] = op[b] /\ mem'[b] = mem[b],
         at'[a] \notin {"args", "touch"},
         at'[a] \in {"load", "open", "write"} =>
           op'[a] \in Changes /\ (a \in Threads => op'[a] \in Touches),
         at'[a] \in {"open", "write"} =>
           /\ op'[a] \in IndexOps => mem'[a] \in Lists
           /\ op'[a] \in SaveOps => mem'[a] \in Settings
  PROVE  Typed'
BY DEF Typed, Documents, Actors

\* The requests of the page.
LEMMA AsksOf ==
  ASSUME Typed,
         \/ on_create_instance \/ on_delete_instance \/ on_rename_instance
         \/ on_set_instance_ram \/ on_save_settings \/ on_set_version
  PROVE  \E o \in Changes : Asks(o)
<1>1. CASE on_create_instance
  <2>1. PICK n \in Names : Asks([kind |-> "create", id |-> ops + 1, name |-> n])
    BY <1>1 DEF on_create_instance
  <2>2. ops + 1 \in Ids
    BY <2>1, LibraryAssumption DEF Asks, Typed, LibraryTypeOK, Ids
  <2>3. [kind |-> "create", id |-> ops + 1, name |-> n] \in Changes
    BY <2>2 DEF Changes, IndexOps
  <2> QED
    BY <2>1, <2>3
<1>2. CASE on_delete_instance
  <2>1. PICK i \in Ids : Asks([kind |-> "delete", id |-> i])
    BY <1>2 DEF on_delete_instance
  <2>2. [kind |-> "delete", id |-> i] \in Changes
    BY DEF Changes, IndexOps
  <2> QED
    BY <2>1, <2>2
<1>3. CASE on_rename_instance
  <2>1. PICK i \in Ids, n \in Names : Asks([kind |-> "rename", id |-> i, name |-> n])
    BY <1>3 DEF on_rename_instance
  <2>2. [kind |-> "rename", id |-> i, name |-> n] \in Changes
    BY DEF Changes, IndexOps
  <2> QED
    BY <2>1, <2>2
<1>4. CASE on_set_instance_ram
  <2>1. PICK i \in Ids, r \in Rams : Asks([kind |-> "ram", id |-> i, ram |-> r])
    BY <1>4 DEF on_set_instance_ram
  <2>2. [kind |-> "ram", id |-> i, ram |-> r] \in Changes
    BY DEF Changes, IndexOps
  <2> QED
    BY <2>1, <2>2
<1>5. CASE on_save_settings
  <2>1. PICK k \in Keys \cup {"ram"}, v \in Rams : Asks([kind |-> "save", key |-> k, value |-> v])
    BY <1>5 DEF on_save_settings
  <2>2. [kind |-> "save", key |-> k, value |-> v] \in Changes
    BY DEF Changes, SaveOps
  <2> QED
    BY <2>1, <2>2
<1>6. CASE on_set_version
  <2>1. PICK v \in Versions : Asks([kind |-> "version", version |-> v])
    BY <1>6 DEF on_set_version
  <2>2. [kind |-> "version", version |-> v] \in Changes
    BY DEF Changes, VersionOps
  <2> QED
    BY <2>1, <2>2
<1> QED
  BY <1>1, <1>2, <1>3, <1>4, <1>5, <1>6

LEMMA AsksTyped ==
  ASSUME Typed, NEW o \in Changes, Asks(o)
  PROVE  Typed'
<1>1. /\ at' = [at EXCEPT ![Ui] = "load"] /\ op' = [op EXCEPT ![Ui] = o] /\ ops' = ops + 1
      /\ UNCHANGED <<files, mem, launches, history, faults>> /\ ops < MaxOps
  BY DEF Asks
<1>2. LibraryTypeOK'
  BY <1>1, LibraryAssumption
     DEF Typed, LibraryTypeOK, files, launches, history, saved, Actors
<1>3. /\ at'[Ui] = "load" /\ op'[Ui] = o /\ DOMAIN op' = Actors /\ Ui \in Actors
      /\ \A b \in Actors \ {Ui} : at'[b] = at[b] /\ op'[b] = op[b] /\ mem'[b] = mem[b]
  BY <1>1 DEF Typed, Documents, LibraryTypeOK, Actors
<1>4. Ui \notin Threads
  BY LibraryAssumption
<1>5. inst' = inst /\ wanted' \in Settings /\ DOMAIN mem' = Actors
  BY <1>1 DEF launches, history, saved, Typed, Documents
<1> QED
  BY <1>2, <1>3, <1>4, <1>5, OthersTyped

LEMMA LoadTyped ==
  ASSUME Typed, NEW a \in Actors, Load(a)
  PROVE  Typed'
<1>1. op[a] \in Changes /\ at[a] = "load" /\ (a \in Threads => op[a] \in Touches)
  BY DEF Load, Typed, Documents
<1>2. CASE Found(op[a], Target(a))
  <2>1. /\ at' = [at EXCEPT ![a] = "open"] /\ mem' = [mem EXCEPT ![a] = Apply(op[a], Target(a))]
        /\ stale' \in {stale, stale \cup {a}}
        /\ UNCHANGED <<op, saved, files, launches, disturbed, broken, unsaved, ops, faults>>
    BY <1>2 DEF Load
  <2>2. LibraryTypeOK'
    BY <2>1 DEF Typed, LibraryTypeOK, files, launches, saved, Actors
  <2>3. op[a] \in IndexOps => Apply(op[a], Target(a)) \in Lists
    <3>1. ASSUME op[a] \in IndexOps
          PROVE  Apply(op[a], Target(a)) \in Lists
      <4>1. Target(a) = Loaded(index)
        BY <3>1, ChangesAre DEF Target
      <4>2. Target(a) \in Lists
        BY <4>1, LoadedIs DEF Typed, LibraryTypeOK
      <4> QED
        BY <1>2, <3>1, <4>2, ApplyIndex
    <3> QED
      BY <3>1
  <2>4. op[a] \in SaveOps => Apply(op[a], Target(a)) \in Settings
    <3>1. ASSUME op[a] \in SaveOps
          PROVE  Apply(op[a], Target(a)) \in Settings
      <4>1. Target(a) = Loaded(settings) /\ op[a].kind = "save"
        BY <3>1, ChangesAre DEF Target
      <4>2. Target(a) \in Settings
        BY <4>1, LoadedIs DEF Typed, LibraryTypeOK
      <4>3. Apply(op[a], Target(a)) = Merge(op[a], Target(a))
        BY <4>1 DEF Apply
      <4> QED
        BY <3>1, <4>2, <4>3, MergeIs
    <3> QED
      BY <3>1
  <2>5. /\ at'[a] = "open" /\ op'[a] = op[a] /\ mem'[a] = Apply(op[a], Target(a))
        /\ \A b \in Actors \ {a} : at'[b] = at[b] /\ op'[b] = op[b] /\ mem'[b] = mem[b]
        /\ DOMAIN op' = Actors /\ DOMAIN mem' = Actors
        /\ inst' = inst /\ wanted' \in Settings
    BY <2>1 DEF Typed, Documents, LibraryTypeOK, launches, saved
  <2> QED
    BY <1>1, <2>2, <2>3, <2>4, <2>5, OthersTyped
<1>3. CASE ~Found(op[a], Target(a))
  <2>1. /\ Ends(a) /\ (Answered(a) \/ UNCHANGED saved)
        /\ UNCHANGED <<files, launches, disturbed, broken, unsaved, ops, faults>>
    BY <1>3 DEF Load
  <2>2. /\ wanted' \in Settings
        /\ chosen' \in [lastVersion : Versions \cup {"none"}, theme : {"dark", "none"}]
    BY <1>1, <2>1, AnsweredIs DEF saved, Typed, Documents, LibraryTypeOK
  <2>3. LibraryTypeOK'
    BY <2>1, <2>2, EndsDoes DEF Typed, LibraryTypeOK, files, launches, Steps
  <2> QED
    BY <2>1, <2>2, <2>3, EndsDoes, OthersTyped DEF launches
<1> QED
  BY <1>2, <1>3

LEMMA TruncateTyped ==
  ASSUME Typed, NEW a \in Actors, Truncate(a)
  PROVE  Typed'
<1>1. /\ at[a] = "open" /\ at' = [at EXCEPT ![a] = "write"]
      /\ settings' \in {settings, Torn} /\ index' \in {index, Torn}
      /\ stale' \subseteq Actors /\ disturbed' \in BOOLEAN
      /\ UNCHANGED <<op, mem, launches, saved, broken, unsaved, ops, faults>>
  BY DEF Truncate, Typed, LibraryTypeOK
<1>2. LibraryTypeOK'
  BY <1>1 DEF Typed, LibraryTypeOK, launches, saved
<1>3. /\ at'[a] = "write" /\ op'[a] = op[a] /\ mem'[a] = mem[a]
      /\ \A b \in Actors \ {a} : at'[b] = at[b] /\ op'[b] = op[b] /\ mem'[b] = mem[b]
      /\ inst' = inst /\ wanted' \in Settings /\ DOMAIN op' = Actors /\ DOMAIN mem' = Actors
  BY <1>1 DEF Typed, Documents, LibraryTypeOK, launches, saved
<1>4. /\ op[a] \in Changes /\ (a \in Threads => op[a] \in Touches)
      /\ op[a] \in IndexOps => mem[a] \in Lists
      /\ op[a] \in SaveOps => mem[a] \in Settings
  BY <1>1 DEF Typed, Documents
<1> QED
  BY <1>2, <1>3, <1>4, OthersTyped

LEMMA EndingTyped ==
  ASSUME Typed, NEW a \in Actors, CannotOpen(a) \/ Write(a) \/ WriteShort(a)
  PROVE  Typed'
<1>1. /\ op[a] \in Changes
      /\ at[a] \in {"open", "write"}
      /\ op[a] \in IndexOps => mem[a] \in Lists
      /\ op[a] \in SaveOps => mem[a] \in Settings
  BY DEF CannotOpen, Write, WriteShort, Typed, Documents
<1>2. /\ Ends(a) /\ (Answered(a) \/ UNCHANGED saved) /\ UNCHANGED <<launches, ops>>
      /\ faults' \in 0..MaxFaults
  BY LibraryAssumption DEF CannotOpen, Write, WriteShort, Typed, LibraryTypeOK
<1>3. /\ index' \in Lists \cup {Torn} /\ settings' \in Settings \cup {Torn}
      /\ disturbed' \in BOOLEAN /\ broken' \in BOOLEAN /\ unsaved' \subseteq {"open", "torn"}
  <2>1. CASE CannotOpen(a)
    BY <2>1 DEF CannotOpen, Typed, LibraryTypeOK, files
  <2>2. CASE Write(a)
    <3>1. File(op[a]) = "index" => op[a] \in IndexOps
      BY <1>1, ChangesAre DEF Changes
    <3>2. File(op[a]) = "settings" => op[a] \in SaveOps
      BY <1>1, ChangesAre DEF Changes
    <3> QED
      BY <1>1, <2>2, <3>1, <3>2 DEF Write, Typed, LibraryTypeOK
  <2>3. CASE WriteShort(a)
    BY <2>3 DEF WriteShort, Typed, LibraryTypeOK
  <2> QED
    BY <2>1, <2>2, <2>3
<1>4. /\ wanted' \in Settings
      /\ chosen' \in [lastVersion : Versions \cup {"none"}, theme : {"dark", "none"}]
  BY <1>1, <1>2, AnsweredIs DEF saved, Typed, Documents, LibraryTypeOK
<1>5. LibraryTypeOK'
  BY <1>2, <1>3, <1>4, EndsDoes DEF Typed, LibraryTypeOK, launches, Steps
<1> QED
  BY <1>2, <1>4, <1>5, EndsDoes, OthersTyped DEF launches

LEMMA ConfiguredIs ==
  ASSUME LibraryTypeOK
  PROVE  ConfiguredRam \in MinRam..MaxRam /\ ConfiguredRam \in Nat
<1> DEFINE d == Loaded(settings)
           r == IF "ram" \in DOMAIN d THEN IF d["ram"] > 0 THEN d["ram"] ELSE DefaultRam
                ELSE DefaultRam
<1>1. d \in Settings
  BY LoadedIs DEF LibraryTypeOK
<1>2. "ram" \in DOMAIN d => d["ram"] \in Nat
  BY <1>1, PartialIs, LibraryAssumption DEF Settings
<1>3. r \in Nat
  BY <1>2, LibraryAssumption
<1>4. ConfiguredRam = clamp_ram_mb(r)
  BY DEF ConfiguredRam
<1> HIDE DEF r
<1> QED
  BY <1>3, <1>4, ClampIs

LEMMA LaunchTyped ==
  ASSUME Typed, NEW l \in Threads,
         (\E i \in Ids : instance_get(l, i)) \/ LaunchRam(l) \/ Touch(l)
  PROVE  Typed'
<1>0. l \in Actors
  BY DEF Actors
<1>1. ASSUME NEW i \in Ids, instance_get(l, i)
      PROVE  Typed'
  <2>1. Loaded(index) \in Lists /\ i \in DOMAIN Loaded(index)
    BY <1>1, LoadedIs DEF instance_get, Typed, LibraryTypeOK
  <2>2. index # Torn
    BY <2>1, LoadedIs DEF Empty
  <2>3. index \in Lists /\ i \in DOMAIN index
    BY <2>1, <2>2, LoadedIs DEF Typed, LibraryTypeOK
  <2>4. index[i].ram \in Rams
    <3>1. index[i] \in Instances
      BY <2>3, PartialIs DEF Lists
    <3> QED
      BY <3>1 DEF Instances
  <2>5. /\ at' = [at EXCEPT ![l] = "args"]
        /\ inst' = [inst EXCEPT ![l] = [id |-> i, ram |-> index[i].ram]]
        /\ UNCHANGED <<files, op, mem, ram, history, ops, faults>>
    BY <1>1 DEF instance_get
  <2>6. LibraryTypeOK'
    BY <1>0, <2>4, <2>5 DEF Typed, LibraryTypeOK, files, history, saved
  <2>7. /\ at'[l] = "args" /\ \A b \in Actors \ {l} : at'[b] = at[b]
        /\ inst'[l].id = i /\ \A b \in Threads \ {l} : inst'[b] = inst[b]
    BY <1>0, <2>5 DEF Typed, LibraryTypeOK
  <2> QED
    BY <1>0, <2>5, <2>6, <2>7 DEF Typed, Documents, Actors, history, saved
<1>2. CASE LaunchRam(l)
  <2>1. inst[l].ram \in Nat /\ ConfiguredRam \in Nat
    BY ConfiguredIs, LibraryAssumption DEF Typed, LibraryTypeOK
  <2>2. /\ at[l] = "args" /\ at' = [at EXCEPT ![l] = "touch"]
        /\ ram' = [ram EXCEPT ![l] = IF inst[l].ram > 0 THEN inst[l].ram ELSE ConfiguredRam]
        /\ UNCHANGED <<files, op, mem, inst, history, ops, faults>>
    BY <1>2 DEF LaunchRam
  <2>3. LibraryTypeOK'
    BY <1>0, <2>1, <2>2 DEF Typed, LibraryTypeOK, files, history, saved
  <2>4. at'[l] = "touch" /\ \A b \in Actors \ {l} : at'[b] = at[b]
    BY <1>0, <2>2 DEF Typed, LibraryTypeOK
  <2> QED
    BY <1>0, <2>2, <2>3, <2>4 DEF Typed, Documents, Actors, history, saved
<1>3. CASE Touch(l)
  <2>1. /\ at[l] = "touch" /\ at' = [at EXCEPT ![l] = "load"]
        /\ op' = [op EXCEPT ![l] = [kind |-> "touch", id |-> inst[l].id]]
        /\ inst' = [inst EXCEPT ![l] = NoInst] /\ ram' = [ram EXCEPT ![l] = 0]
        /\ UNCHANGED <<files, mem, history, ops, faults>>
    BY <1>3 DEF Touch
  <2>2. inst[l].id \in Ids
    BY <2>1 DEF Typed, Documents
  <2>3. LibraryTypeOK'
    BY <1>0, <2>1, LibraryAssumption DEF Typed, LibraryTypeOK, files, history, saved, NoInst
  <2>4. /\ at'[l] = "load" /\ \A b \in Actors \ {l} : at'[b] = at[b]
        /\ op'[l] = [kind |-> "touch", id |-> inst[l].id] /\ DOMAIN op' = Actors
        /\ \A b \in Actors \ {l} : op'[b] = op[b]
        /\ \A b \in Threads \ {l} : inst'[b] = inst[b]
    BY <1>0, <2>1 DEF Typed, Documents, LibraryTypeOK
  <2>5. op'[l] \in Touches /\ op'[l] \in Changes
    BY <2>2, <2>4 DEF Touches, Changes, IndexOps
  <2> QED
    BY <1>0, <2>1, <2>3, <2>4, <2>5 DEF Typed, Documents, Actors, history, saved
<1> QED
  BY <1>1, <1>2, <1>3

LEMMA RestartTyped ==
  ASSUME Typed, Restart
  PROVE  Typed'
<1>1. /\ at' = [a \in Actors |-> "idle"] /\ op' = [a \in Actors |-> NoOp]
      /\ mem' = [a \in Actors |-> Empty] /\ stale' = {}
      /\ inst' = [l \in Threads |-> NoInst] /\ ram' = [l \in Threads |-> 0]
      /\ disturbed' \in BOOLEAN /\ broken' \in BOOLEAN /\ unsaved' \subseteq {"open", "torn"}
      /\ faults' \in 0..MaxFaults /\ UNCHANGED <<index, settings, saved, ops>>
  BY LibraryAssumption DEF Restart, Typed, LibraryTypeOK
<1>2. inst' \in [Threads -> [id : Ids \cup {0}, ram : Rams]] /\ ram' \in [Threads -> Nat]
  BY <1>1, LibraryAssumption DEF NoInst
<1>3. LibraryTypeOK'
  BY <1>1, <1>2 DEF Typed, LibraryTypeOK, saved
<1> QED
  BY <1>1, <1>3 DEF Typed, Documents, saved, Actors

LEMMA TypedInit == LibraryInit => Typed
<1> SUFFICES ASSUME LibraryInit
             PROVE  Typed
  OBVIOUS
<1>1. Empty \in Lists /\ settings \in Settings
  BY EmptyIs, DocumentsAssumption DEF LibraryInit, Lists
<1>2. inst \in [Threads -> [id : Ids \cup {0}, ram : Rams]] /\ ram \in [Threads -> Nat]
  BY LibraryAssumption DEF LibraryInit, NoInst
<1>3. chosen \in [lastVersion : Versions \cup {"none"}, theme : {"dark", "none"}]
  BY DEF LibraryInit
<1>4. ops \in 0..MaxOps /\ faults \in 0..MaxFaults
  BY LibraryAssumption DEF LibraryInit
<1>5. LibraryTypeOK
  BY <1>1, <1>2, <1>3, <1>4 DEF LibraryInit, LibraryTypeOK
<1> QED
  BY <1>1, <1>5 DEF LibraryInit, Typed, Documents, Actors

LEMMA TypedStep == Typed /\ [LibraryNext]_libraryVars => Typed'
<1> SUFFICES ASSUME Typed, [LibraryNext]_libraryVars
             PROVE  Typed'
  OBVIOUS
<1>1. CASE UNCHANGED libraryVars
  BY <1>1 DEF libraryVars, Typed, Documents, LibraryTypeOK
<1> QED
  BY <1>1, AsksOf, AsksTyped, LoadTyped, TruncateTyped, EndingTyped, LaunchTyped, RestartTyped
     DEF LibraryNext

LEMMA TypedHolds == LibrarySpec => []Typed
BY TypedInit, TypedStep, PTL DEF LibrarySpec

\* The files hold documents of their kinds, or are torn; who changes one has
\* loaded such a document; and every launch has an amount of memory.
THEOREM LibraryTypeCorrect == LibrarySpec => []LibraryTypeOK
<1>1. Typed => LibraryTypeOK
  BY DEF Typed
<1> QED
  BY <1>1, TypedHolds, PTL

-----------------------------------------------------------------------------
(* IndexKept: who saves the index, and what the others have loaded.        *)

Indexing(a) == Rewriting(a) /\ File(op[a]) = "index"
Saving(a) == at[a] = "write" /\ File(op[a]) = "index"

\* One actor writes at a time, and what it writes is the list with its one change;
\* who has loaded the index before is known to be behind, and else has changed the
\* list as it is.
KInv ==
  ~disturbed =>
    /\ \A a \in Actors : Saving(a) =>
         /\ index = Torn /\ Listed(mem[a]) = PromisedBy(op[a], meant)
         /\ \A b \in Actors \ {a} : Indexing(b) => b \in stale /\ at[b] = "open"
    /\ (\A a \in Actors : ~Saving(a)) => index # Torn /\ Listed(index) = meant
    /\ \A a \in Actors : at[a] = "open" /\ File(op[a]) = "index" /\ a \notin stale =>
         index # Torn /\ Found(op[a], index) /\ mem[a] = Apply(op[a], index)

\* A step of an actor that neither was writing the index nor has it loaded now.
LEMMA AsideKept ==
  ASSUME KInv, NEW a \in Actors, UNCHANGED <<index, meant, disturbed>>,
         \A b \in Actors \ {a} : /\ at'[b] = at[b] /\ op'[b] = op[b] /\ mem'[b] = mem[b]
                                 /\ b \in stale' <=> b \in stale,
         ~Saving(a), ~Indexing(a)'
  PROVE  KInv'
<1>1. /\ ~Saving(a)' /\ ~(at'[a] = "open" /\ File(op'[a]) = "index")
      /\ \A b \in Actors \ {a} : /\ Saving(b)' <=> Saving(b)
                                 /\ Indexing(b)' <=> Indexing(b)
  BY DEF Saving, Indexing, Rewriting
<1>2. (\A b \in Actors : ~Saving(b)') => \A b \in Actors : ~Saving(b)
  BY <1>1
<1> QED
  BY <1>1, <1>2 DEF KInv

LEMMA LoadKept ==
  ASSUME Typed, KInv, NEW a \in Actors, Load(a)
  PROVE  KInv'
<1>1. op[a] \in Changes /\ at[a] = "load" /\ ~Saving(a) /\ UNCHANGED <<index, disturbed>>
  BY DEF Load, Typed, Documents, Saving, files
<1>2. CASE ~Found(op[a], Target(a))
  <2>1. Ends(a) /\ meant' = meant
    <3>1. Ends(a) /\ ((op[a].kind = "version" /\ Answered(a)) \/ meant' = meant)
      BY <1>2 DEF Load, saved
    <3>2. op[a].kind = "version" => op[a] \in VersionOps
      BY <1>1, ChangesAre DEF Changes
    <3> QED
      BY <1>1, <3>1, <3>2, AnsweredIs
  <2>2. ~Indexing(a)'
    BY <2>1, EndsDoes DEF Indexing, Rewriting
  <2> QED
    BY <1>1, <2>1, <2>2, EndsDoes, AsideKept
<1>3. CASE Found(op[a], Target(a))
  <2>1. /\ at' = [at EXCEPT ![a] = "open"] /\ mem' = [mem EXCEPT ![a] = Apply(op[a], Target(a))]
        /\ stale' = IF index = Torn /\ File(op[a]) = "index" THEN stale \cup {a} ELSE stale
        /\ UNCHANGED <<op, meant>>
    BY <1>3 DEF Load, saved
  <2>2. /\ \A b \in Actors \ {a} : /\ at'[b] = at[b] /\ op'[b] = op[b] /\ mem'[b] = mem[b]
                                   /\ b \in stale' <=> b \in stale
        /\ at'[a] = "open" /\ op'[a] = op[a] /\ mem'[a] = Apply(op[a], Target(a))
    BY <2>1 DEF Typed, Documents, LibraryTypeOK
  <2>3. CASE File(op[a]) # "index"
    <3>1. ~Indexing(a)'
      BY <2>2, <2>3 DEF Indexing
    <3> QED
      BY <1>1, <2>1, <2>2, <3>1, AsideKept
  <2>4. CASE File(op[a]) = "index"
    <3>1. Target(a) = Loaded(index)
      BY <2>4, <1>1, ChangesAre DEF Target
    <3>2. index # Torn => Target(a) = index
      BY <3>1, LoadedIs DEF Typed, LibraryTypeOK
    <3>3. \A b \in Actors : Saving(b)' <=> Saving(b)
      BY <1>1, <2>2 DEF Saving
    <3>4. \A b \in Actors \ {a} : Indexing(b)' <=> Indexing(b)
      BY <2>2 DEF Indexing, Rewriting
    <3>5. index = Torn => a \in stale'
      BY <2>1, <2>4
    <3> QED
      BY <1>1, <1>3, <2>1, <2>2, <3>2, <3>3, <3>4, <3>5 DEF KInv
  <2> QED
    BY <2>3, <2>4
<1> QED
  BY <1>2, <1>3

LEMMA TruncateKept ==
  ASSUME Typed, KInv, NEW a \in Actors, Truncate(a)
  PROVE  KInv'
<1>1. /\ at[a] = "open" /\ op[a] \in Changes /\ UNCHANGED <<op, mem, meant>>
      /\ at' = [at EXCEPT ![a] = "write"]
  BY DEF Truncate, Typed, Documents, saved
<1>2. /\ at'[a] = "write" /\ ~Saving(a)
      /\ \A b \in Actors \ {a} : at'[b] = at[b]
  BY <1>1 DEF Typed, LibraryTypeOK, Saving
<1>3. CASE File(op[a]) # "index"
  <2>1. UNCHANGED <<index, stale, disturbed>>
    BY <1>3 DEF Truncate
  <2>2. ~Indexing(a)'
    BY <1>1, <1>3 DEF Indexing
  <2> QED
    BY <1>1, <1>2, <2>1, <2>2, AsideKept
<1>4. CASE File(op[a]) = "index" /\ ~disturbed'
  <2>1. /\ index' = Torn /\ ~disturbed /\ a \notin stale
        /\ \A b \in Actors \ {a} : Indexing(b) => b \in stale'
    <3>1. /\ disturbed' = (disturbed \/ a \in stale) /\ index' = Torn
          /\ stale' = stale \cup {b \in Actors \ {a} : Rewriting(b) /\ File(op[b]) = "index"}
      BY <1>4 DEF Truncate
    <3>2. ~disturbed /\ a \notin stale
      BY <1>4, <3>1
    <3> QED
      BY <3>1, <3>2 DEF Indexing
  <2>2. index # Torn /\ Found(op[a], index) /\ mem[a] = Apply(op[a], index)
    BY <1>1, <1>4, <2>1 DEF KInv
  <2>3. \A b \in Actors : ~Saving(b)
    BY <2>1, <2>2 DEF KInv
  <2>4. Listed(index) = meant /\ index \in Lists
    BY <2>1, <2>2, <2>3 DEF KInv, Typed, LibraryTypeOK
  <2>5. op[a] \in IndexOps
    BY <1>1, <1>4, ChangesAre DEF Changes
  <2>6. Listed(mem[a]) = PromisedBy(op[a], meant)
    BY <2>2, <2>4, <2>5, ApplyIndex
  <2>7. \A b \in Actors \ {a} : /\ ~Saving(b)'
                                /\ Indexing(b)' => b \in stale' /\ at'[b] = "open"
    BY <1>1, <1>2, <2>1, <2>3 DEF Saving, Indexing, Rewriting
  <2>8. Saving(a)'
    BY <1>1, <1>2, <1>4 DEF Saving
  <2>9. \A b \in Actors : ~(at'[b] = "open" /\ File(op'[b]) = "index" /\ b \notin stale')
    BY <1>1, <1>2, <2>1 DEF Indexing, Rewriting
  <2> QED
    BY <1>1, <2>1, <2>6, <2>7, <2>8, <2>9 DEF KInv
<1> QED
  BY <1>3, <1>4 DEF KInv

LEMMA EndingKept ==
  ASSUME Typed, KInv, NEW a \in Actors, CannotOpen(a) \/ Write(a) \/ WriteShort(a)
  PROVE  KInv'
<1>1. op[a] \in Changes /\ at[a] \in {"open", "write"} /\ Ends(a)
  BY DEF CannotOpen, Write, WriteShort, Typed, Documents
<1>2. /\ ~Indexing(a)' /\ at'[a] = "idle"
      /\ \A b \in Actors \ {a} : /\ at'[b] = at[b] /\ op'[b] = op[b] /\ mem'[b] = mem[b]
                                 /\ b \in stale' <=> b \in stale
  BY <1>1, EndsDoes DEF Indexing, Rewriting
<1>3. op[a] \notin IndexOps => (Answered(a) => meant' = meant) /\ File(op[a]) # "index"
  BY <1>1, AnsweredIs, ChangesAre DEF Changes
<1>4. CASE CannotOpen(a)
  <2>1. ~Saving(a) /\ UNCHANGED <<index, disturbed>>
    BY <1>4 DEF CannotOpen, Saving, files
  <2>2. meant' = meant
    <3>1. op[a].kind = "version" => op[a] \notin IndexOps
      BY ChangesAre
    <3> QED
      BY <1>3, <1>4, <3>1 DEF CannotOpen, saved
  <2> QED
    BY <1>2, <2>1, <2>2, AsideKept
<1>5. CASE (Write(a) \/ WriteShort(a)) /\ op[a] \notin IndexOps
  <2>1. meant' = meant /\ ~Saving(a)
    BY <1>3, <1>5 DEF Write, WriteShort, Saving
  <2>2. UNCHANGED <<index, disturbed>>
    BY <1>3, <1>5 DEF Write, WriteShort
  <2> QED
    BY <1>2, <2>1, <2>2, AsideKept
<1>6. CASE Write(a) /\ op[a] \in IndexOps /\ ~disturbed
  <2>1. /\ File(op[a]) = "index" /\ index' = mem[a] /\ mem[a] \in Lists
        /\ meant' = PromisedBy(op[a], meant) /\ Saving(a)
    BY <1>1, <1>6, ChangesAre, AnsweredIs DEF Write, Saving, Typed, Documents
  <2>2. /\ Listed(mem[a]) = PromisedBy(op[a], meant)
        /\ \A b \in Actors \ {a} : Indexing(b) => b \in stale /\ at[b] = "open"
    BY <1>6, <2>1 DEF KInv
  <2>3. \A b \in Actors : ~Saving(b)'
    BY <1>2, <2>2 DEF Saving, Indexing, Rewriting
  <2>4. \A b \in Actors : ~(at'[b] = "open" /\ File(op'[b]) = "index" /\ b \notin stale')
    BY <1>2, <2>2 DEF Indexing, Rewriting
  <2>5. index' # Torn
    BY <2>1, DocumentsAssumption
  <2> QED
    BY <2>1, <2>2, <2>3, <2>4, <2>5 DEF KInv
<1>7. CASE Write(a) /\ disturbed
  BY <1>7 DEF Write, KInv
<1>8. CASE WriteShort(a) /\ op[a] \in IndexOps
  BY <1>8, ChangesAre DEF WriteShort, KInv
<1> QED
  BY <1>4, <1>5, <1>6, <1>7, <1>8

LEMMA OtherKept ==
  ASSUME Typed, KInv,
         \/ \E o \in Changes : Asks(o)
         \/ \E l \in Threads : (\E i \in Ids : instance_get(l, i)) \/ LaunchRam(l) \/ Touch(l)
         \/ Restart
  PROVE  KInv'
<1>1. ASSUME NEW o \in Changes, Asks(o)
      PROVE  KInv'
  <2>1. /\ at[Ui] = "idle" /\ at' = [at EXCEPT ![Ui] = "load"] /\ op' = [op EXCEPT ![Ui] = o]
        /\ UNCHANGED <<mem, index, meant, disturbed, stale>>
    BY <1>1 DEF Asks, files, history, saved
  <2>2. /\ Ui \in Actors /\ ~Saving(Ui) /\ ~Indexing(Ui)'
        /\ \A b \in Actors \ {Ui} : at'[b] = at[b] /\ op'[b] = op[b]
    BY <2>1 DEF Actors, Typed, Documents, LibraryTypeOK, Saving, Indexing, Rewriting
  <2> QED
    BY <2>1, <2>2, AsideKept
<1>2. ASSUME NEW l \in Threads,
             (\E i \in Ids : instance_get(l, i)) \/ LaunchRam(l) \/ Touch(l)
      PROVE  KInv'
  <2>1. PICK s \in {"args", "touch", "load"} : at' = [at EXCEPT ![l] = s]
    BY <1>2 DEF instance_get, LaunchRam, Touch
  <2>2. /\ at[l] \in {"idle", "args", "touch"}
        /\ \A b \in Actors \ {l} : op'[b] = op[b]
        /\ UNCHANGED <<mem, index, meant, disturbed, stale>>
    <3>1. CASE \E i \in Ids : instance_get(l, i)
      BY <3>1 DEF instance_get, files, history, saved
    <3>2. CASE LaunchRam(l)
      BY <3>2 DEF LaunchRam, files, history, saved
    <3>3. CASE Touch(l)
      BY <3>3 DEF Touch, files, history, saved, Typed, Documents
    <3> QED
      BY <1>2, <3>1, <3>2, <3>3
  <2>3. /\ l \in Actors /\ ~Saving(l) /\ ~Indexing(l)'
        /\ \A b \in Actors \ {l} : at'[b] = at[b] /\ op'[b] = op[b]
    BY <2>1, <2>2 DEF Actors, Typed, Documents, LibraryTypeOK, Saving, Indexing, Rewriting
  <2> QED
    BY <2>2, <2>3, AsideKept
<1>3. CASE Restart
  <2>1. /\ at' = [a \in Actors |-> "idle"] /\ UNCHANGED <<index, meant>>
        /\ disturbed' = (disturbed \/ index = Torn)
    BY <1>3 DEF Restart, saved
  <2>2. \A a \in Actors : ~Saving(a)' /\ at'[a] # "open"
    BY <2>1 DEF Saving
  <2>3. ~disturbed' => index # Torn /\ \A a \in Actors : ~Saving(a)
    BY <2>1 DEF KInv
  <2> QED
    BY <2>1, <2>2, <2>3 DEF KInv
<1> QED
  BY <1>1, <1>2, <1>3

LEMMA KHolds == LibrarySpec => []KInv
<1>1. LibraryInit => KInv
  <2> SUFFICES ASSUME LibraryInit
               PROVE  KInv
    OBVIOUS
  <2>1. index = Empty /\ meant = Empty /\ at = [a \in Actors |-> "idle"]
    BY DEF LibraryInit
  <2>2. Empty \in Lists /\ Empty # Torn /\ DOMAIN Empty = {}
    BY EmptyIs, DocumentsAssumption DEF Lists, Empty
  <2>3. Listed(Empty) = Empty
    BY <2>2 DEF Listed, Empty
  <2>4. \A a \in Actors : ~Saving(a) /\ at[a] # "open"
    BY <2>1 DEF Saving
  <2> QED
    BY <2>1, <2>2, <2>3, <2>4 DEF KInv
<1>2. Typed /\ KInv /\ [LibraryNext]_libraryVars => KInv'
  <2> SUFFICES ASSUME Typed, KInv, [LibraryNext]_libraryVars
               PROVE  KInv'
    OBVIOUS
  <2>1. CASE UNCHANGED libraryVars
    BY <2>1 DEF libraryVars, KInv, Saving, Indexing, Rewriting
  <2> QED
    BY <2>1, AsksOf, LoadKept, TruncateKept, EndingKept, OtherKept DEF LibraryNext
<1> QED
  BY <1>1, <1>2, TypedHolds, PTL DEF LibrarySpec

\* When nobody rewrites it the index holds the instances the page was told of,
\* until a crash or a full disk tears it or two rewrites overlap.
THEOREM IndexKeptHolds == LibrarySpec => []IndexKept
<1>1. KInv => IndexKept
  BY DEF KInv, IndexKept, Saving
<1> QED
  BY <1>1, KHolds, PTL
-----------------------------------------------------------------------------
(* SettingsKept: what is saved is what the page was told, with one change. *)

Storing == Rewriting(Ui) /\ File(op[Ui]) = "settings"
Emptied == at[Ui] = "write" /\ File(op[Ui]) = "settings"
Asked == Put(wanted, op[Ui].key, Valued(op[Ui]))

\* Each setting that is there has the value saved last.
Agree(d, w) == \A k \in DOMAIN d : k \in DOMAIN w /\ d[k] = w[k]

YInv ==
  /\ Storing => Agree(mem[Ui], Asked) /\ (~broken => mem[Ui] = Asked)
  /\ Emptied => settings = Torn
  /\ ~Emptied => /\ settings # Torn => Agree(settings, wanted)
                 /\ ~broken => settings = wanted

LEMMA AgreePut ==
  ASSUME NEW d \in Settings, NEW w \in Settings, Agree(d, w),
         NEW k \in Keys \cup {"ram"}, NEW v \in Rams \cup {MinRam, MaxRam}
  PROVE  Agree(Put(d, k, v), Put(w, k, v))
<1>1. /\ DOMAIN Put(d, k, v) = DOMAIN d \cup {k} /\ Put(d, k, v)[k] = v
      /\ \A x \in DOMAIN d \ {k} : Put(d, k, v)[x] = d[x]
  BY DEF Put
<1>2. /\ DOMAIN Put(w, k, v) = DOMAIN w \cup {k} /\ Put(w, k, v)[k] = v
      /\ \A x \in DOMAIN w \ {k} : Put(w, k, v)[x] = w[x]
  BY DEF Put
<1> QED
  BY <1>1, <1>2 DEF Agree

\* A launch only ever changes the index.
LEMMA LaunchesTouch ==
  ASSUME Typed, NEW l \in Threads, at[l] \in {"load", "open", "write"}
  PROVE  op[l] \in IndexOps /\ File(op[l]) = "index" /\ l # Ui
BY ChangesAre, LibraryAssumption DEF Typed, Documents

\* A step that leaves the settings and what was said of them, of another actor or of
\* the window between two rewrites.
LEMMA SettingsAside ==
  ASSUME YInv, UNCHANGED <<settings, wanted, broken>>,
         \/ at'[Ui] = at[Ui] /\ op'[Ui] = op[Ui] /\ mem'[Ui] = mem[Ui]
         \/ ~Emptied /\ ~Storing'
  PROVE  YInv'
<1>1. CASE at'[Ui] = at[Ui] /\ op'[Ui] = op[Ui] /\ mem'[Ui] = mem[Ui]
  BY <1>1 DEF YInv, Storing, Emptied, Asked, Rewriting
<1>2. CASE ~Emptied /\ ~Storing'
  <2>1. ~Emptied'
    BY <1>2 DEF Storing, Emptied, Rewriting
  <2> QED
    BY <1>2, <2>1 DEF YInv
<1> QED
  BY <1>1, <1>2

LEMMA LoadSettings ==
  ASSUME Typed, YInv, NEW a \in Actors, Load(a)
  PROVE  YInv'
<1>1. op[a] \in Changes /\ at[a] = "load" /\ UNCHANGED <<settings, broken>>
  BY DEF Load, Typed, Documents, files
<1>2. CASE a # Ui
  <2>1. a \in Threads
    BY <1>2 DEF Actors
  <2>2. op[a].kind = "touch"
    BY <1>1, <2>1, ChangesAre DEF Typed, Documents
  <2>3. /\ wanted' = wanted /\ Ui \in Actors
        /\ at'[Ui] = at[Ui] /\ op'[Ui] = op[Ui] /\ mem'[Ui] = mem[Ui]
    BY <1>2, <2>2 DEF Load, Ends, saved, Typed, Documents, LibraryTypeOK, Actors
  <2> QED
    BY <1>1, <2>3, SettingsAside
<1>3. CASE a = Ui /\ ~Found(op[a], Target(a))
  <2>1. Ends(a) /\ wanted' = wanted
    BY <1>3 DEF Load, Answered, saved
  <2>2. ~Emptied /\ ~Storing'
    BY <1>1, <1>3, <2>1, EndsDoes DEF Emptied, Storing, Rewriting
  <2> QED
    BY <1>1, <2>1, <2>2, SettingsAside
<1>4. CASE a = Ui /\ Found(op[a], Target(a))
  <2>1. /\ at' = [at EXCEPT ![a] = "open"] /\ mem' = [mem EXCEPT ![a] = Apply(op[a], Target(a))]
        /\ UNCHANGED <<op, wanted>>
    BY <1>4 DEF Load, saved
  <2>2. /\ at'[Ui] = "open" /\ op'[Ui] = op[Ui] /\ mem'[Ui] = Apply(op[Ui], Target(Ui))
        /\ ~Emptied /\ ~Emptied'
    BY <1>1, <1>4, <2>1 DEF Typed, Documents, LibraryTypeOK, Emptied
  <2>3. CASE File(op[Ui]) # "settings"
    BY <1>1, <2>1, <2>2, <2>3, SettingsAside DEF Storing
  <2>4. CASE File(op[Ui]) = "settings"
    <3>1. op[Ui] \in SaveOps /\ op[Ui].kind = "save"
      BY <1>1, <1>4, <2>4, ChangesAre DEF Changes
    <3>2. Target(Ui) = Loaded(settings)
      BY <2>4 DEF Target
    <3>3. Target(Ui) \in Settings /\ wanted \in Settings
      BY <3>2, LoadedIs DEF Typed, Documents, LibraryTypeOK
    <3>4. /\ mem'[Ui] = Put(Target(Ui), op[Ui].key, Valued(op[Ui]))
          /\ Valued(op[Ui]) \in Rams \cup {MinRam, MaxRam}
      <4>1. Apply(op[Ui], Target(Ui)) = Merge(op[Ui], Target(Ui))
        BY <3>1 DEF Apply
      <4> QED
        BY <2>2, <3>1, <3>3, <4>1, MergeIs
    <3>5. Agree(Target(Ui), wanted) /\ (~broken => Target(Ui) = wanted)
      <4>1. CASE settings = Torn
        <5>1. Target(Ui) = Empty /\ DOMAIN Empty = {}
          BY <3>2, <4>1, LoadedIs DEF Empty
        <5>2. broken
          BY <2>2, <4>1, DocumentsAssumption DEF YInv, Typed, Documents
        <5> QED
          BY <5>1, <5>2 DEF Agree
      <4>2. CASE settings # Torn
        <5>1. Target(Ui) = settings
          BY <3>2, <4>2, LoadedIs DEF Typed, LibraryTypeOK
        <5> QED
          BY <2>2, <4>2, <5>1 DEF YInv
      <4> QED
        BY <4>1, <4>2
    <3>6. op[Ui].key \in Keys \cup {"ram"}
      BY <3>1, ChangesAre
    <3>7. Agree(mem'[Ui], Asked) /\ (~broken => mem'[Ui] = Asked) /\ Asked' = Asked
      BY <2>1, <2>2, <3>3, <3>4, <3>5, <3>6, AgreePut DEF Asked
    <3> QED
      BY <1>1, <2>1, <2>2, <3>7 DEF YInv
  <2> QED
    BY <2>3, <2>4
<1> QED
  BY <1>2, <1>3, <1>4

LEMMA TruncateSettings ==
  ASSUME Typed, YInv, NEW a \in Actors, Truncate(a)
  PROVE  YInv'
<1>1. /\ at[a] = "open" /\ op[a] \in Changes /\ UNCHANGED <<op, mem, wanted, broken>>
      /\ at' = [at EXCEPT ![a] = "write"]
      /\ settings' = IF File(op[a]) = "settings" THEN Torn ELSE settings
  BY DEF Truncate, Typed, Documents, saved
<1>2. CASE a # Ui
  <2>1. a \in Threads /\ Ui \in Actors
    BY <1>2 DEF Actors
  <2>2. settings' = settings /\ at'[Ui] = at[Ui]
    BY <1>1, <1>2, <2>1, LaunchesTouch DEF Typed, LibraryTypeOK
  <2> QED
    BY <1>1, <2>2, SettingsAside
<1>3. CASE a = Ui
  <2>1. at[Ui] = "open" /\ at'[Ui] = "write" /\ ~Emptied
    BY <1>1, <1>3 DEF Typed, LibraryTypeOK, Emptied
  <2>2. CASE File(op[Ui]) # "settings"
    BY <1>1, <1>3, <2>1, <2>2, SettingsAside DEF Storing
  <2>3. CASE File(op[Ui]) = "settings"
    <3>1. settings' = Torn /\ Emptied' /\ Storing /\ Asked' = Asked
      BY <1>1, <1>3, <2>1, <2>3 DEF Emptied, Storing, Rewriting, Asked
    <3> QED
      BY <1>1, <3>1 DEF YInv
  <2> QED
    BY <2>2, <2>3
<1> QED
  BY <1>2, <1>3

LEMMA EndingSettings ==
  ASSUME Typed, YInv, NEW a \in Actors, CannotOpen(a) \/ Write(a) \/ WriteShort(a)
  PROVE  YInv'
<1>1. /\ op[a] \in Changes /\ at[a] \in {"open", "write"} /\ Ends(a)
      /\ Ui \in Actors /\ at'[a] = "idle"
  BY EndsDoes DEF CannotOpen, Write, WriteShort, Typed, Documents, Actors
<1>2. File(op[a]) = "settings" => a = Ui /\ op[a] \in SaveOps
  <2>1. op[a] \in SaveOps \/ File(op[a]) # "settings"
    BY <1>1, ChangesAre DEF Changes
  <2> QED
    BY <1>1, <2>1, LaunchesTouch DEF Actors
<1>3. File(op[a]) # "settings" =>
        /\ Answered(a) => wanted' = wanted
        /\ op[a].kind # "save"
  BY <1>1, AnsweredIs, ChangesAre DEF Changes
<1>4. CASE CannotOpen(a)
  <2>1. UNCHANGED <<settings, broken>> /\ at[a] = "open"
    BY <1>4 DEF CannotOpen, files
  <2>2. wanted' = wanted
    BY <1>2, <1>3, <1>4, ChangesAre DEF CannotOpen, saved
  <2>3. CASE a = Ui
    BY <1>1, <2>1, <2>2, <2>3, SettingsAside DEF Emptied, Storing, Rewriting
  <2>4. CASE a # Ui
    BY <1>1, <2>1, <2>2, <2>4, EndsDoes, SettingsAside
  <2> QED
    BY <2>3, <2>4
<1>5. CASE (Write(a) \/ WriteShort(a)) /\ File(op[a]) # "settings"
  <2>1. UNCHANGED <<settings, wanted, broken>>
    BY <1>3, <1>5 DEF Write, WriteShort
  <2>2. CASE a = Ui
    BY <1>1, <1>5, <2>1, <2>2, SettingsAside DEF Emptied, Storing, Rewriting
  <2>3. CASE a # Ui
    BY <1>1, <2>1, <2>3, EndsDoes, SettingsAside
  <2> QED
    BY <2>2, <2>3
<1>6. CASE (Write(a) \/ WriteShort(a)) /\ File(op[a]) = "settings"
  <2>1. /\ a = Ui /\ Emptied /\ Storing /\ ~Emptied' /\ ~Storing' /\ wanted' = Asked
    BY <1>1, <1>2, <1>6, AnsweredIs
       DEF Write, WriteShort, Emptied, Storing, Rewriting, Asked
  <2>2. \/ settings' = mem[Ui] /\ broken' = broken
        \/ settings' = Torn /\ broken'
    BY <1>6, <2>1 DEF Write, WriteShort
  <2> QED
    BY <2>1, <2>2 DEF YInv
<1> QED
  BY <1>4, <1>5, <1>6

LEMMA OtherSettings ==
  ASSUME Typed, YInv,
         \/ \E o \in Changes : Asks(o)
         \/ \E l \in Threads : (\E i \in Ids : instance_get(l, i)) \/ LaunchRam(l) \/ Touch(l)
         \/ Restart
  PROVE  YInv'
<1>1. ASSUME NEW o \in Changes, Asks(o)
      PROVE  YInv'
  <2>1. /\ at[Ui] = "idle" /\ at'[Ui] = "load" /\ UNCHANGED <<settings, wanted, broken>>
    BY <1>1 DEF Asks, files, history, saved, Typed, LibraryTypeOK, Actors
  <2> QED
    BY <2>1, SettingsAside DEF Emptied, Storing, Rewriting
<1>2. ASSUME NEW l \in Threads,
             (\E i \in Ids : instance_get(l, i)) \/ LaunchRam(l) \/ Touch(l)
      PROVE  YInv'
  <2>0. l # Ui /\ Ui \in Actors
    BY LibraryAssumption DEF Actors
  <2>1. at'[Ui] = at[Ui]
    BY <1>2, <2>0 DEF instance_get, LaunchRam, Touch, Typed, LibraryTypeOK
  <2>2. op'[Ui] = op[Ui]
    BY <1>2, <2>0 DEF instance_get, LaunchRam, Touch, Typed, Documents
  <2>3. UNCHANGED <<mem, settings, wanted, broken>>
    BY <1>2 DEF instance_get, LaunchRam, Touch, files, history, saved
  <2> QED
    BY <2>1, <2>2, <2>3, SettingsAside
<1>3. CASE Restart
  <2>1. /\ at'[Ui] = "idle" /\ UNCHANGED <<settings, wanted>>
        /\ broken' = (broken \/ settings = Torn)
    BY <1>3 DEF Restart, saved, Actors
  <2>2. ~Emptied' /\ ~Storing'
    BY <2>1 DEF Emptied, Storing, Rewriting
  <2> QED
    BY <2>1, <2>2 DEF YInv
<1> QED
  BY <1>1, <1>2, <1>3

LEMMA YHolds == LibrarySpec => []YInv
<1>1. LibraryInit => YInv
  <2> SUFFICES ASSUME LibraryInit
               PROVE  YInv
    OBVIOUS
  <2>1. ~Emptied /\ ~Storing /\ settings = wanted
    BY DEF LibraryInit, Emptied, Storing, Rewriting, Actors
  <2> QED
    BY <2>1 DEF YInv, Agree
<1>2. Typed /\ YInv /\ [LibraryNext]_libraryVars => YInv'
  <2> SUFFICES ASSUME Typed, YInv, [LibraryNext]_libraryVars
               PROVE  YInv'
    OBVIOUS
  <2>1. CASE UNCHANGED libraryVars
    BY <2>1, SettingsAside DEF libraryVars
  <2> QED
    BY <2>1, AsksOf, LoadSettings, TruncateSettings, EndingSettings, OtherSettings
       DEF LibraryNext
<1> QED
  BY <1>1, <1>2, TypedHolds, PTL DEF LibrarySpec

\* An amount of memory is worked out only where the settings are read, and clamped
\* there.
LEMMA RamHolds == LibrarySpec => []RamFits
<1>1. LibraryInit => RamFits
  BY DEF LibraryInit, RamFits, Actors
<1>2. Typed /\ RamFits /\ [LibraryNext]_libraryVars => RamFits'
  <2> SUFFICES ASSUME Typed, RamFits, [LibraryNext]_libraryVars, NEW l \in Threads,
                      at'[l] = "touch", inst'[l].ram = 0
               PROVE  ram'[l] \in MinRam..MaxRam
    BY DEF RamFits
  <2>0. l \in Actors
    BY DEF Actors
  <2>1. CASE at[l] = "touch" /\ inst'[l] = inst[l] /\ ram'[l] = ram[l]
    BY <2>1 DEF RamFits
  <2>2. CASE LaunchRam(l)
    <3>1. inst[l].ram = 0 /\ ram'[l] = IF inst[l].ram > 0 THEN inst[l].ram ELSE ConfiguredRam
      BY <2>2 DEF LaunchRam, Typed, LibraryTypeOK
    <3> QED
      BY <3>1, ConfiguredIs DEF Typed
  <2>3. ASSUME NEW k \in Threads \ {l},
               (\E i \in Ids : instance_get(k, i)) \/ LaunchRam(k) \/ Touch(k)
        PROVE  at[l] = "touch" /\ inst'[l] = inst[l] /\ ram'[l] = ram[l]
    BY <2>0, <2>3 DEF instance_get, LaunchRam, Touch, Typed, LibraryTypeOK
  <2>4. ~((\E i \in Ids : instance_get(l, i)) \/ Touch(l))
    BY <2>0 DEF instance_get, Touch, Typed, LibraryTypeOK
  <2>5. ASSUME NEW o \in Changes, Asks(o)
        PROVE  at[l] = "touch" /\ inst' = inst /\ ram' = ram
    BY <2>0, <2>5, LibraryAssumption DEF Asks, launches, Typed, LibraryTypeOK
  <2>6. ASSUME NEW a \in Actors,
               Load(a) \/ Truncate(a) \/ CannotOpen(a) \/ Write(a) \/ WriteShort(a)
        PROVE  at[l] = "touch" /\ inst' = inst /\ ram' = ram
    <3>1. inst' = inst /\ ram' = ram
      BY <2>6 DEF Load, Truncate, CannotOpen, Write, WriteShort, launches
    <3>2. PICK s \in {"open", "write", "idle"} : at' = [at EXCEPT ![a] = s]
      BY <2>6 DEF Load, Truncate, CannotOpen, Write, WriteShort, Ends
    <3> QED
      BY <2>0, <3>1, <3>2 DEF Typed, LibraryTypeOK
  <2>7. ~Restart
    BY <2>0 DEF Restart
  <2>8. CASE UNCHANGED libraryVars
    BY <2>1, <2>8 DEF libraryVars
  <2> QED
    BY <2>1, <2>2, <2>3, <2>4, <2>5, <2>6, <2>7, <2>8, AsksOf DEF LibraryNext
<1> QED
  BY <1>1, <1>2, TypedHolds, PTL DEF LibrarySpec

\* Each setting has the value saved last until the file is torn, and whatever is
\* there later was saved since; a launch takes the memory that is left to it.
THEOREM SettingsKeptHolds == LibrarySpec => []SettingsKept
<1>1. YInv /\ RamFits => SettingsKept
  BY DEF YInv, SettingsKept, Emptied, Agree
<1> QED
  BY <1>1, YHolds, RamHolds, PTL

-----------------------------------------------------------------------------
(* ConfigKept: the text of config.json.                                    *)

Named == {"lastVersion", "theme"}
Tokens == {Opens, Closes, Comma, Half, Token("no file", "")}
            \cup {Key(k) : k \in Named} \cup {Value(v) : v \in Versions \cup {"none", "dark"}}

\* A text, whole or cut short: each key is there once at most, the brace that closes
\* it is its end, and what follows a key is a value.
Shape(t) ==
  /\ t \in Seq(Tokens)
  /\ \A k \in Named : \A i, j \in 1..Len(t) : t[i] = Key(k) /\ t[j] = Key(k) => i = j
  /\ \A i \in 1..(Len(t) - 1) :
       t[i] # Closes /\ (t[i].t = "key" => t[i + 1].t \in {"value", "half"})

Whole(t) == t = NoFile \/ (t # << >> /\ t[Len(t)] = Closes)

LEMMA TokensDiffer ==
  /\ \A k \in Named : /\ Key(k).t = "key" /\ Key(k) \in Tokens
                      /\ Key(k) \notin {Opens, Closes, Comma, Half, NoFile[1]}
                      /\ \A v : Key(k) # Value(v)
  /\ \A v : Value(v).t = "value" /\ Value(v) # Closes
  /\ Half.t = "half" /\ Half # Closes /\ Opens.t = "{" /\ Comma.t = "," /\ Closes.t = "}"
  /\ NoFile[1].t = "no file" /\ NoFile[1] # Closes
  /\ Opens # Closes /\ Comma # Closes
  /\ Key("lastVersion") # Key("theme")
  /\ {Opens, Closes, Comma, Half} \subseteq Tokens
<1>1. \A s, x : Token(s, x).t = s /\ Token(s, x).x = x
  BY DEF Token
<1>2. NoFile[1] = Token("no file", "") /\ Len(NoFile) = 1
  BY DEF NoFile
<1>3. /\ \A k : Key(k).t = "key" /\ Key(k).x = k
      /\ \A v : Value(v).t = "value"
      /\ Half.t = "half" /\ Opens.t = "{" /\ Comma.t = "," /\ Closes.t = "}"
      /\ NoFile[1].t = "no file"
  BY <1>1, <1>2 DEF Key, Value, Opens, Closes, Comma, Half
<1>4. /\ \A k \in Named : Key(k) \in Tokens
      /\ {Opens, Closes, Comma, Half} \subseteq Tokens
  BY DEF Tokens
<1>5. Key("lastVersion") # Key("theme")
  <2>1. Key("lastVersion").x # Key("theme").x
    BY <1>3
  <2> QED
    BY <2>1
<1>6. \A x, y : x.t # y.t => x # y
  OBVIOUS
<1>7. /\ \A v : Value(v) # Closes
      /\ Half # Closes /\ Opens # Closes /\ Comma # Closes /\ NoFile[1] # Closes
  BY <1>3, <1>6
<1>8. \A k : /\ Key(k) \notin {Opens, Closes, Comma, Half, NoFile[1]}
             /\ \A v : Key(k) # Value(v)
  BY <1>3, <1>6
<1> QED
  BY <1>3, <1>4, <1>5, <1>7, <1>8

\* Where the value of a key is found.
LEMMA FindIs ==
  ASSUME NEW t, Shape(t), NEW k \in Named
  PROVE  /\ \A i \in 1..Len(t) : t[i] = Key(k) =>
              find_json_value(t, k) = IF i = Len(t) THEN 0 ELSE i + 1
         /\ (\A i \in 1..Len(t) : t[i] # Key(k)) => find_json_value(t, k) = 0
<1>0. Len(t) \in Nat
  BY DEF Shape
<1>1. ASSUME NEW i \in 1..Len(t), t[i] = Key(k)
      PROVE  find_json_value(t, k) = IF i = Len(t) THEN 0 ELSE i + 1
  <2>1. {n \in 1..Len(t) : t[n] = Key(k)} = {i}
    BY <1>1 DEF Shape
  <2>2. SelectInSeq(t, LAMBDA x : x = Key(k)) = i
    BY <1>0, <2>1 DEF SelectInSeq, Min
  <2> QED
    BY <1>0, <2>2 DEF find_json_value
<1>2. ASSUME \A i \in 1..Len(t) : t[i] # Key(k)
      PROVE  find_json_value(t, k) = 0
  <2>1. {n \in 1..Len(t) : t[n] = Key(k)} = {}
    BY <1>2
  <2>2. SelectInSeq(t, LAMBDA x : x = Key(k)) = 0
    BY <2>1 DEF SelectInSeq
  <2> QED
    BY <2>2 DEF find_json_value
<1> QED
  BY <1>1, <1>2

LEMMA GetIs ==
  ASSUME NEW t, Shape(t), NEW k \in Named
  PROVE  /\ \A i \in 1..(Len(t) - 1) : t[i] = Key(k) => config_get(t, k) = t[i + 1]
         /\ (\A i \in 1..(Len(t) - 1) : t[i] # Key(k)) => config_get(t, k) = Value("none")
<1>0. Len(t) \in Nat
  BY DEF Shape
<1>1. ASSUME NEW i \in 1..(Len(t) - 1), t[i] = Key(k)
      PROVE  config_get(t, k) = t[i + 1]
  <2>1. find_json_value(t, k) = i + 1 /\ i + 1 # 0
    BY <1>0, <1>1, FindIs
  <2> QED
    BY <2>1 DEF config_get
<1>2. ASSUME \A i \in 1..(Len(t) - 1) : t[i] # Key(k)
      PROVE  config_get(t, k) = Value("none")
  <2>1. find_json_value(t, k) = 0
    <3>1. CASE \A i \in 1..Len(t) : t[i] # Key(k)
      BY <3>1, FindIs
    <3>2. CASE \E i \in 1..Len(t) : t[i] = Key(k)
      <4>1. PICK i \in 1..Len(t) : t[i] = Key(k)
        BY <3>2
      <4>2. i = Len(t)
        BY <1>0, <1>2, <4>1
      <4> QED
        BY <4>1, <4>2, FindIs
    <3> QED
      BY <3>1, <3>2
  <2> QED
    BY <2>1 DEF config_get
<1> QED
  BY <1>1, <1>2

\* The brace that closes a text is found where it ends.
LEMMA CloseIs ==
  ASSUME NEW t, Shape(t)
  PROVE  LET close == SelectLastInSeq(t, LAMBDA x : x = Closes)
         IN  /\ t # << >> /\ t[Len(t)] = Closes => close = Len(t)
             /\ ~(t # << >> /\ t[Len(t)] = Closes) => close = 0
<1>0. Len(t) \in Nat /\ (t # << >> => Len(t) > 0) /\ (t = << >> => Len(t) = 0)
  BY DEF Shape
<1>1. CASE t # << >> /\ t[Len(t)] = Closes
  <2>1. {n \in 1..Len(t) : t[n] = Closes} = {Len(t)}
    BY <1>0, <1>1 DEF Shape
  <2>2. SelectLastInSeq(t, LAMBDA x : x = Closes) = Len(t)
    BY <1>0, <2>1 DEF SelectLastInSeq, Max
  <2> QED
    BY <1>1, <2>2
<1>2. CASE ~(t # << >> /\ t[Len(t)] = Closes)
  <2>1. {n \in 1..Len(t) : t[n] = Closes} = {}
    BY <1>0, <1>2 DEF Shape
  <2>2. SelectLastInSeq(t, LAMBDA x : x = Closes) = 0
    BY <2>1 DEF SelectLastInSeq
  <2> QED
    BY <1>2, <2>2
<1> QED
  BY <1>1, <1>2
-----------------------------------------------------------------------------
\* What config_set makes of a text.

\* The value of lastVersion is put in the place of the one that is there.
LEMMA SetInPlace ==
  ASSUME NEW t, Shape(t), NEW v \in Versions,
         NEW p \in 1..(Len(t) - 1), t[p] = Key("lastVersion")
  PROVE  LET u == [t EXCEPT ![p + 1] = Value(v)]
         IN  /\ config_set(t, "lastVersion", v) = Text(u) /\ Shape(u)
             /\ config_get(u, "lastVersion") = Value(v)
             /\ config_get(u, "theme") = config_get(t, "theme")
             /\ Whole(t) => Whole(u)
<1> DEFINE u == [t EXCEPT ![p + 1] = Value(v)]
<1>0. Len(t) \in Nat /\ t \in Seq(Tokens) /\ {"lastVersion", "theme"} \subseteq Named
  BY DEF Shape, Named
<1>1. find_json_value(t, "lastVersion") = p + 1 /\ p + 1 # 0
  BY <1>0, FindIs
<1>2. config_set(t, "lastVersion", v) = Text(u)
  BY <1>1 DEF config_set
<1>3. t[p + 1].t \in {"value", "half"}
  BY <1>0, TokensDiffer DEF Shape
<1>4. /\ u \in Seq(Tokens) /\ Len(u) = Len(t) /\ u[p + 1] = Value(v)
      /\ \A i \in 1..Len(t) : i # p + 1 => u[i] = t[i]
  <2>1. Value(v) \in Tokens
    BY DEF Tokens
  <2> QED
    BY <1>0, <2>1
<1> HIDE DEF u
<1>5. \A k \in Named, i \in 1..Len(t) : u[i] = Key(k) <=> t[i] = Key(k)
  <2> SUFFICES ASSUME NEW k \in Named, NEW i \in 1..Len(t)
               PROVE  u[i] = Key(k) <=> t[i] = Key(k)
    OBVIOUS
  <2>1. Key(k) # Value(v) /\ t[p + 1] # Key(k)
    BY <1>3, TokensDiffer
  <2> QED
    BY <1>4, <2>1
<1>6. Shape(u)
  <2>1. \A k \in Named : \A i, j \in 1..Len(u) : u[i] = Key(k) /\ u[j] = Key(k) => i = j
    BY <1>4, <1>5 DEF Shape
  <2>2. ASSUME NEW i \in 1..(Len(u) - 1)
        PROVE  u[i] # Closes /\ (u[i].t = "key" => u[i + 1].t \in {"value", "half"})
    <3>1. /\ t[i] # Closes /\ (t[i].t = "key" => t[i + 1].t \in {"value", "half"})
          /\ i \in 1..Len(t) /\ i + 1 \in 1..Len(t)
      BY <1>0, <1>4 DEF Shape
    <3>2. Value(v).t = "value" /\ Value(v) # Closes
      BY TokensDiffer
    <3>3. CASE i = p + 1
      BY <1>4, <3>2, <3>3
    <3>4. CASE i = p
      BY <1>4, <3>1, <3>2, <3>4
    <3>5. CASE i # p /\ i # p + 1
      BY <1>4, <3>1, <3>5
    <3> QED
      BY <3>3, <3>4, <3>5
  <2> QED
    BY <1>4, <2>1, <2>2 DEF Shape
<1>7. config_get(u, "lastVersion") = Value(v)
  BY <1>0, <1>4, <1>6, GetIs
<1>8. config_get(u, "theme") = config_get(t, "theme")
  <2>1. CASE \E q \in 1..(Len(t) - 1) : t[q] = Key("theme")
    <3>1. PICK q \in 1..(Len(t) - 1) : t[q] = Key("theme")
      BY <2>1
    <3>2. q # p /\ q + 1 # p + 1 /\ q + 1 \in 1..Len(t) /\ q \in 1..Len(t)
      <4>1. q # p
        BY <3>1, TokensDiffer
      <4> QED
        BY <1>0, <4>1
    <3>3. u[q] = Key("theme") /\ u[q + 1] = t[q + 1]
      BY <1>0, <1>4, <1>5, <3>1, <3>2
    <3> QED
      BY <1>0, <1>4, <1>6, <3>1, <3>3, GetIs
  <2>2. CASE ~ \E q \in 1..(Len(t) - 1) : t[q] = Key("theme")
    <3>1. \A q \in 1..(Len(u) - 1) : u[q] # Key("theme")
      BY <1>0, <1>4, <1>5, <2>2
    <3> QED
      BY <1>0, <1>6, <2>2, <3>1, GetIs
  <2> QED
    BY <2>1, <2>2
<1>9. Whole(t) => Whole(u)
  <2> SUFFICES ASSUME Whole(t)
               PROVE  Whole(u)
    OBVIOUS
  <2>1. t # NoFile
    <3> SUFFICES ASSUME t = NoFile
                 PROVE  FALSE
      OBVIOUS
    <3>1. Len(t) = 1
      BY DEF NoFile
    <3> QED
      BY <1>0, <3>1
  <2>2. t[Len(t)] = Closes /\ Len(t) \in 1..Len(t)
    BY <1>0, <2>1 DEF Whole
  <2>3. Len(t) # p + 1
    BY <1>3, <2>2, TokensDiffer
  <2> QED
    BY <1>4, <2>2, <2>3 DEF Whole
<1> QED
  BY <1>2, <1>6, <1>7, <1>8, <1>9 DEF u

\* The pair is put before the brace that closes the text.
LEMMA AddAtEnd ==
  ASSUME NEW t, Shape(t), NEW v \in Versions, t # << >>, t[Len(t)] = Closes,
         \A i \in 1..Len(t) : t[i] # Key("lastVersion"), NEW c \in {<< >>, <<Comma>>}
  PROVE  LET u == SubSeq(t, 1, Len(t) - 1) \o c \o Pair("lastVersion", v) \o <<Closes>>
         IN  /\ Shape(u) /\ Whole(u)
             /\ config_get(u, "lastVersion") = Value(v)
             /\ config_get(u, "theme") = config_get(t, "theme")
<1> DEFINE n == Len(t) - 1
           m == n + Len(c)
           u == SubSeq(t, 1, n) \o c \o Pair("lastVersion", v) \o <<Closes>>
<1>0. t \in Seq(Tokens) /\ Len(t) \in Nat /\ n \in Nat /\ Len(t) = n + 1
      /\ {"lastVersion", "theme"} \subseteq Named
  BY DEF Shape, Named
<1> DEFINE b == SubSeq(t, 1, n) \o c
           d == b \o Pair("lastVersion", v)
<1>1. Closes \in Tokens /\ Comma \in Tokens /\ Key("lastVersion") \in Tokens /\ Value(v) \in Tokens
  BY DEF Tokens, Named
<1>2. /\ c \in Seq(Tokens) /\ Len(c) \in {0, 1} /\ (Len(c) = 1 => c[1] = Comma)
      /\ m \in {n, n + 1}
  <2>1. CASE c = << >>
    BY <1>0, <2>1
  <2>2. CASE c = <<Comma>>
    BY <1>0, <1>1, <2>2
  <2> QED
    BY <2>1, <2>2
<1>3. /\ SubSeq(t, 1, n) \in Seq(Tokens) /\ Len(SubSeq(t, 1, n)) = n
      /\ \A i \in 1..n : SubSeq(t, 1, n)[i] = t[i]
  BY <1>0
<1>4. /\ b \in Seq(Tokens) /\ Len(b) = m /\ \A i \in 1..n : b[i] = t[i]
      /\ m = n + 1 => b[n + 1] = Comma
  <2>1. CASE c = << >>
    <3>1. b = SubSeq(t, 1, n)
      BY <1>3, <2>1
    <3>2. m = n
      BY <1>0, <2>1
    <3>3. m # n + 1
      BY <1>0, <3>2
    <3> HIDE DEF m, b, n
    <3> QED
      BY <1>3, <3>1, <3>2, <3>3
  <2>2. CASE c = <<Comma>>
    <3>1. b = Append(SubSeq(t, 1, n), Comma)
      BY <1>3, <2>2
    <3>2. m = n + 1
      BY <2>2
    <3> QED
      BY <1>0, <1>1, <1>3, <3>1, <3>2
  <2> QED
    BY <2>1, <2>2
<1> HIDE DEF b, n, m
<1>14. /\ d \in Seq(Tokens) /\ Len(d) = m + 2 /\ \A i \in 1..m : d[i] = b[i]
      /\ d[m + 1] = Key("lastVersion") /\ d[m + 2] = Value(v)
  BY <1>0, <1>1, <1>2, <1>4 DEF Pair
<1> HIDE DEF d
<1>15. u = d \o <<Closes>>
  BY DEF d, b, n
<1> HIDE DEF u
<1>5. /\ u \in Seq(Tokens) /\ Len(u) = m + 3
      /\ \A i \in 1..n : u[i] = t[i]
      /\ m = n + 1 => u[n + 1] = Comma
      /\ u[m + 1] = Key("lastVersion") /\ u[m + 2] = Value(v) /\ u[m + 3] = Closes
  <2>0. m \in Nat
    BY <1>0, <1>2
  <2>1. /\ u \in Seq(Tokens) /\ Len(u) = m + 3 /\ u[m + 3] = Closes
        /\ \A i \in 1..(m + 2) : u[i] = d[i]
    <3>1. u = Append(d, Closes)
      BY <1>14, <1>15
    <3> QED
      BY <1>1, <1>14, <2>0, <3>1
  <2>2. \A i \in 1..m : u[i] = b[i]
    BY <1>14, <2>0, <2>1
  <2>3. u[m + 1] = Key("lastVersion") /\ u[m + 2] = Value(v)
    BY <1>14, <2>0, <2>1
  <2>4. \A i \in 1..n : u[i] = t[i]
    BY <1>0, <1>2, <1>4, <2>2
  <2>5. m = n + 1 => u[n + 1] = Comma
    BY <1>0, <1>4, <2>2
  <2> QED
    BY <2>1, <2>3, <2>4, <2>5
<1>6. \A i \in 1..(m + 3) : \/ i \in 1..n
                            \/ (i = n + 1 /\ m = n + 1)
                            \/ i \in {m + 1, m + 2, m + 3}
  BY <1>0, <1>2
<1>7. /\ \A i \in 1..(m + 3) : u[i] = Key("lastVersion") <=> i = m + 1
      /\ \A i \in 1..(m + 3) : u[i] = Key("theme") <=> i \in 1..n /\ t[i] = Key("theme")
  <2> SUFFICES ASSUME NEW i \in 1..(m + 3)
               PROVE  /\ u[i] = Key("lastVersion") <=> i = m + 1
                      /\ u[i] = Key("theme") <=> i \in 1..n /\ t[i] = Key("theme")
    OBVIOUS
  <2>1. CASE i \in 1..n
    BY <1>0, <1>2, <1>5, <2>1
  <2>2. CASE i \notin 1..n
    <3>1. u[i] = Key("lastVersion") \/ (u[i] \in {Comma, Value(v), Closes} /\ i # m + 1)
      BY <1>0, <1>2, <1>5, <1>6, <2>2
    <3>2. ~(i \in 1..n /\ t[i] = Key("theme")) /\ (i = m + 1 => u[i] = Key("lastVersion"))
      BY <1>5, <2>2
    <3>3. u[i] # Key("theme") /\ (u[i] \in {Comma, Value(v), Closes} => u[i] # Key("lastVersion"))
      BY <3>1, TokensDiffer DEF Named
    <3>4. i # m + 1 => u[i] # Key("lastVersion")
      BY <1>0, <1>2, <1>5, <1>6, <2>2, <3>3
    <3> QED
      BY <3>2, <3>3, <3>4
  <2> QED
    BY <2>1, <2>2
<1>8. Shape(u)
  <2>1. \A k \in Named : \A i, j \in 1..Len(u) : u[i] = Key(k) /\ u[j] = Key(k) => i = j
    <3>1. \A i, j \in 1..n : t[i] = Key("theme") /\ t[j] = Key("theme") => i = j
      BY <1>0 DEF Shape
    <3> QED
      BY <1>5, <1>7, <3>1 DEF Named
  <2>2. ASSUME NEW i \in 1..(Len(u) - 1)
        PROVE  u[i] # Closes /\ (u[i].t = "key" => u[i + 1].t \in {"value", "half"})
    <3>1. CASE i \in 1..n
      <4>1. /\ t[i] # Closes /\ (t[i].t = "key" => t[i + 1].t \in {"value", "half"})
        BY <1>0, <3>1 DEF Shape
      <4>2. t[i].t = "key" => i + 1 \in 1..n
        <5>1. Closes.t \notin {"value", "half"}
          BY TokensDiffer
        <5>2. i = n => t[i + 1] = Closes
          BY <1>0
        <5> QED
          BY <1>0, <3>1, <4>1, <5>1, <5>2
      <4> QED
        BY <1>5, <3>1, <4>1, <4>2
    <3>2. CASE i = n + 1 /\ m = n + 1
      BY <1>5, <3>2, TokensDiffer
    <3>3. CASE i = m + 1
      <4>1. u[i] = Key("lastVersion") /\ u[i + 1] = Value(v)
        BY <1>0, <1>2, <1>5, <3>3
      <4> QED
        BY <1>0, <4>1, TokensDiffer
    <3>4. CASE i = m + 2
      BY <1>5, <3>4, TokensDiffer
    <3> QED
      BY <1>0, <1>2, <1>5, <1>6, <3>1, <3>2, <3>3, <3>4
  <2> QED
    BY <1>5, <2>1, <2>2 DEF Shape
<1>9. config_get(u, "lastVersion") = Value(v)
  <2>1. m + 1 \in 1..(Len(u) - 1) /\ u[m + 1] = Key("lastVersion") /\ u[(m + 1) + 1] = Value(v)
    BY <1>0, <1>2, <1>5
  <2> QED
    BY <1>0, <1>8, <2>1, GetIs
<1>10. config_get(u, "theme") = config_get(t, "theme")
  <2>1. CASE \E q \in 1..n : t[q] = Key("theme")
    <3>1. PICK q \in 1..n : t[q] = Key("theme")
      BY <2>1
    <3>2. q + 1 \in 1..n
      <4>1. t[q + 1].t \in {"value", "half"}
        <5>1. t[q].t = "key"
          BY <1>0, <3>1, TokensDiffer
        <5> QED
          BY <1>0, <3>1, <5>1 DEF Shape
      <4>2. Closes.t \notin {"value", "half"}
        BY TokensDiffer
      <4>3. q = n => t[q + 1] = Closes
        BY <1>0
      <4> QED
        BY <1>0, <4>1, <4>2, <4>3
    <3>3. q \in 1..(Len(t) - 1) /\ q \in 1..(Len(u) - 1) /\ u[q] = Key("theme") /\ u[q + 1] = t[q + 1]
      BY <1>0, <1>2, <1>5, <3>1, <3>2
    <3> QED
      BY <1>0, <1>8, <3>1, <3>3, GetIs
  <2>2. CASE ~ \E q \in 1..n : t[q] = Key("theme")
    <3>1. \A q \in 1..(Len(u) - 1) : u[q] # Key("theme")
      BY <1>0, <1>2, <1>5, <1>7, <2>2
    <3>2. \A q \in 1..(Len(t) - 1) : t[q] # Key("theme")
      BY <1>0, <2>2
    <3> QED
      BY <1>0, <1>8, <3>1, <3>2, GetIs
  <2> QED
    BY <2>1, <2>2
<1>11. Whole(u)
  <2>1. u # << >>
    BY <1>0, <1>2, <1>5
  <2> QED
    BY <1>5, <2>1 DEF Whole
<1> QED
  BY <1>8, <1>9, <1>10, <1>11 DEF u, n

LEMMA AppendIs ==
  ASSUME NEW s \in Seq(Tokens), NEW x \in Tokens
  PROVE  /\ Append(s, x) \in Seq(Tokens) /\ Len(Append(s, x)) = Len(s) + 1
         /\ Append(s, x)[Len(s) + 1] = x
         /\ \A i \in 1..Len(s) : Append(s, x)[i] = s[i]
OBVIOUS

\* The texts there are at first, and the one that is made where there is none.
LEMMA OnePair ==
  ASSUME NEW k \in Named, NEW v \in Versions \cup {"none", "dark"}
  PROVE  LET u == <<Opens>> \o Pair(k, v) \o <<Closes>>
         IN  /\ Shape(u) /\ Whole(u) /\ config_get(u, k) = Value(v)
             /\ \A j \in Named \ {k} : config_get(u, j) = Value("none")
<1> DEFINE u == <<Opens>> \o Pair(k, v) \o <<Closes>>
<1> DEFINE d == <<Opens>> \o Pair(k, v)
<1>1. Opens \in Tokens /\ Key(k) \in Tokens /\ Value(v) \in Tokens /\ Closes \in Tokens
  BY DEF Tokens
<1>2. d \in Seq(Tokens) /\ Len(d) = 3 /\ d[1] = Opens /\ d[2] = Key(k) /\ d[3] = Value(v)
  BY <1>1 DEF Pair
<1> HIDE DEF d
<1>10. u = d \o <<Closes>>
  BY DEF d
<1> HIDE DEF u
<1>3. /\ u \in Seq(Tokens) /\ Len(u) = 4 /\ u # << >>
      /\ u[1] = Opens /\ u[2] = Key(k) /\ u[3] = Value(v) /\ u[4] = Closes
  <2>1. u = Append(d, Closes)
    BY <1>2, <1>10
  <2>2. /\ u \in Seq(Tokens) /\ Len(u) = 4 /\ u[4] = Closes
        /\ \A i \in 1..3 : u[i] = d[i]
    <3>1. /\ u \in Seq(Tokens) /\ Len(u) = Len(d) + 1 /\ u[Len(d) + 1] = Closes
          /\ \A i \in 1..Len(d) : u[i] = d[i]
      BY <1>1, <1>2, <2>1, AppendIs
    <3>2. Len(d) + 1 = 4 /\ 1..Len(d) = 1..3
      BY <1>2
    <3> QED
      BY <3>1, <3>2
  <2>3. u[1] = d[1] /\ u[2] = d[2] /\ u[3] = d[3]
    BY <2>2
  <2>4. u # << >>
    <3>1. Len(u) # 0
      BY <2>2
    <3> QED
      BY <3>1
  <2> QED
    BY <1>2, <2>2, <2>3, <2>4
<1>4. /\ \A j \in Named : u[1] # Key(j) /\ u[3] # Key(j) /\ u[4] # Key(j)
      /\ \A j \in Named \ {k} : u[2] # Key(j)
  <2>1. \A j \in Named : Opens # Key(j) /\ Value(v) # Key(j) /\ Closes # Key(j)
    BY TokensDiffer
  <2>2. \A j \in Named \ {k} : Key(k) # Key(j)
    BY TokensDiffer DEF Named
  <2> QED
    BY <1>3, <2>1, <2>2
<1>5. 1..Len(u) = {1, 2, 3, 4} /\ 1..(Len(u) - 1) = {1, 2, 3}
  BY <1>3
<1>6. Shape(u)
  <2>1. \A j \in Named : \A m, n \in 1..Len(u) : u[m] = Key(j) /\ u[n] = Key(j) => m = n
    BY <1>4, <1>5
  <2>2. /\ u[1] # Closes /\ u[2] # Closes /\ u[3] # Closes
        /\ u[1].t # "key" /\ u[3].t = "value"
    <3>1. Opens # Closes /\ Key(k) # Closes /\ Value(v) # Closes /\ Opens.t = "{" /\ Value(v).t = "value"
      BY TokensDiffer
    <3> QED
      BY <1>3, <3>1
  <2>3. \A i \in 1..(Len(u) - 1) :
          u[i] # Closes /\ (u[i].t = "key" => u[i + 1].t \in {"value", "half"})
    BY <1>5, <2>2
  <2> QED
    BY <1>3, <2>1, <2>3 DEF Shape
<1>7. config_get(u, k) = Value(v)
  BY <1>3, <1>5, <1>6, GetIs
<1>8. \A j \in Named \ {k} : config_get(u, j) = Value("none")
  BY <1>4, <1>5, <1>6, GetIs
<1>9. Whole(u)
  BY <1>3 DEF Whole
<1> QED
  BY <1>6, <1>7, <1>8, <1>9 DEF u

\* Texts without a key.
LEMMA NoKeys ==
  ASSUME NEW t \in {NoFile, Nothing, << >>}
  PROVE  /\ Shape(t) /\ \A k \in Named : config_get(t, k) = Value("none")
         /\ t # << >> => Whole(t)
<1> DEFINE Bare(u) == /\ Shape(u) /\ \A k \in Named : config_get(u, k) = Value("none")
                      /\ u # << >> => Whole(u)
<1>1. ASSUME NEW u \in Seq(Tokens), Len(u) <= 2,
             \A i \in 1..Len(u) : u[i] \in {Opens, Closes, NoFile[1]},
             \A i \in 1..(Len(u) - 1) : u[i] = Opens
      PROVE  Shape(u) /\ \A k \in Named : config_get(u, k) = Value("none")
  <2>1. \A k \in Named : \A i \in 1..Len(u) : u[i] # Key(k)
    <3>1. \A k \in Named : Key(k) \notin {Opens, Closes, NoFile[1]}
      BY TokensDiffer
    <3> QED
      BY <1>1, <3>1
  <2>2. \A i \in 1..(Len(u) - 1) : u[i] # Closes /\ u[i].t # "key"
    <3>1. Opens # Closes /\ Opens.t # "key"
      BY TokensDiffer
    <3> QED
      BY <1>1, <3>1
  <2>3. Shape(u)
    BY <2>1, <2>2 DEF Shape
  <2>4. \A i \in 1..(Len(u) - 1) : i \in 1..Len(u)
    OBVIOUS
  <2> QED
    BY <2>1, <2>3, <2>4, GetIs
<1>2. Opens \in Tokens /\ Closes \in Tokens /\ NoFile[1] \in Tokens
  BY DEF Tokens, NoFile
<1>3. Bare(NoFile)
  <2>1. \A x \in Tokens : /\ <<x>> \in Seq(Tokens) /\ Len(<<x>>) <= 2
                          /\ \A i \in 1..Len(<<x>>) : <<x>>[i] = x
                          /\ 1..(Len(<<x>>) - 1) = {}
    OBVIOUS
  <2>2. NoFile = <<NoFile[1]>>
    BY DEF NoFile
  <2> QED
    BY <1>1, <1>2, <2>1, <2>2 DEF Whole
<1>4. Bare(Nothing)
  <2>1. \A x, y \in Tokens : /\ <<x, y>> \in Seq(Tokens) /\ Len(<<x, y>>) = 2
                             /\ \A i \in 1..Len(<<x, y>>) : <<x, y>>[i] \in {x, y}
                             /\ \A i \in 1..(Len(<<x, y>>) - 1) : <<x, y>>[i] = x
                             /\ <<x, y>>[2] = y
    OBVIOUS
  <2>2. /\ Nothing \in Seq(Tokens) /\ Len(Nothing) = 2 /\ Nothing[2] = Closes
        /\ \A i \in 1..Len(Nothing) : Nothing[i] \in {Opens, Closes}
        /\ \A i \in 1..(Len(Nothing) - 1) : Nothing[i] = Opens
    BY <1>2, <2>1 DEF Nothing
  <2>3. Len(Nothing) <= 2
    BY <2>2
  <2>4. Shape(Nothing) /\ \A k \in Named : config_get(Nothing, k) = Value("none")
    BY <1>1, <2>2, <2>3
  <2>5. Nothing # << >>
    BY DEF Nothing
  <2> QED
    BY <2>2, <2>4, <2>5 DEF Whole
<1>5. Bare(<< >>)
  <2>1. /\ << >> \in Seq(Tokens) /\ Len(<< >>) <= 2
        /\ 1..Len(<< >>) = {} /\ 1..(Len(<< >>) - 1) = {}
    OBVIOUS
  <2> QED
    BY <1>1, <2>1
<1> QED
  BY <1>3, <1>4, <1>5

LEMMA SetIs ==
  ASSUME NEW t, Shape(t), NEW v \in Versions
  PROVE  LET r == config_set(t, "lastVersion", v)
         IN  /\ r.ok => Shape(r.text) /\ config_get(r.text, "lastVersion") = Value(v)
             /\ ~r.ok => config_get(t, "lastVersion") = Value("none")
             /\ Whole(t) => /\ r.ok /\ Whole(r.text)
                            /\ config_get(r.text, "theme") = config_get(t, "theme")
<1> DEFINE r == config_set(t, "lastVersion", v)
           Made(u) == /\ r = Text(u) /\ Shape(u) /\ config_get(u, "lastVersion") = Value(v)
                      /\ config_get(u, "theme") = config_get(t, "theme")
                      /\ Whole(t) => Whole(u)
           Given == /\ r.ok => Shape(r.text) /\ config_get(r.text, "lastVersion") = Value(v)
                    /\ ~r.ok => config_get(t, "lastVersion") = Value("none")
                    /\ Whole(t) => /\ r.ok /\ Whole(r.text)
                                   /\ config_get(r.text, "theme") = config_get(t, "theme")
<1>0. Len(t) \in Nat /\ {"lastVersion", "theme"} \subseteq Named
      /\ (t # << >> => Len(t) > 0) /\ (t = << >> => Len(t) = 0)
  BY DEF Shape, Named
<1>1. \A u : Made(u) => Given
  <2>1. \A u : Text(u).ok /\ Text(u).text = u
    BY DEF Text
  <2> HIDE DEF r
  <2> QED
    BY <2>1
<1>2. CASE \E p \in 1..(Len(t) - 1) : t[p] = Key("lastVersion")
  <2>1. PICK p \in 1..(Len(t) - 1) : t[p] = Key("lastVersion")
    BY <1>2
  <2>2. Made([t EXCEPT ![p + 1] = Value(v)])
    BY <2>1, SetInPlace
  <2> QED
    BY <1>1, <2>2
<1>3. ASSUME \A p \in 1..(Len(t) - 1) : t[p] # Key("lastVersion")
      PROVE  Given
  <2>1. find_json_value(t, "lastVersion") = 0
    <3>1. CASE \A p \in 1..Len(t) : t[p] # Key("lastVersion")
      BY <1>0, <3>1, FindIs
    <3>2. CASE \E p \in 1..Len(t) : t[p] = Key("lastVersion")
      <4>1. PICK p \in 1..Len(t) : t[p] = Key("lastVersion")
        BY <3>2
      <4>2. p = Len(t)
        BY <1>0, <1>3, <4>1
      <4> QED
        BY <1>0, <4>1, <4>2, FindIs
    <3> QED
      BY <3>1, <3>2
  <2>2. r = config_add(t, "lastVersion", v)
    BY <2>1 DEF config_set
  <2>3. CASE t = NoFile
    <3>1. r = Text(<<Opens>> \o Pair("lastVersion", v) \o <<Closes>>)
      BY <2>2, <2>3 DEF config_add
    <3>2. config_get(t, "theme") = Value("none")
      BY <1>0, <2>3, NoKeys
    <3>3. "theme" \in Named \ {"lastVersion"}
      BY <1>0
    <3>4. Made(<<Opens>> \o Pair("lastVersion", v) \o <<Closes>>)
      BY <1>0, <3>1, <3>2, <3>3, OnePair
    <3> QED
      BY <1>1, <3>4
  <2>4. CASE t # NoFile /\ t # << >> /\ t[Len(t)] = Closes
    <3>1. SelectLastInSeq(t, LAMBDA x : x = Closes) = Len(t)
      BY <2>4, CloseIs
    <3>2. PICK c \in {<< >>, <<Comma>>} :
            r = Text(SubSeq(t, 1, Len(t) - 1) \o c \o Pair("lastVersion", v) \o <<Closes>>)
      <4>1. Len(t) # 0
        BY <1>0, <2>4
      <4> QED
        BY <2>1, <2>2, <2>4, <3>1, <4>1 DEF config_add
    <3>3. \A i \in 1..Len(t) : t[i] # Key("lastVersion")
      <4>1. Closes # Key("lastVersion")
        BY <1>0, TokensDiffer
      <4> QED
        BY <1>0, <1>3, <2>4, <4>1
    <3>4. Made(SubSeq(t, 1, Len(t) - 1) \o c \o Pair("lastVersion", v) \o <<Closes>>)
      BY <2>4, <3>2, <3>3, AddAtEnd
    <3> QED
      BY <1>1, <3>4
  <2>5. CASE t # NoFile /\ ~(t # << >> /\ t[Len(t)] = Closes)
    <3>1. SelectLastInSeq(t, LAMBDA x : x = Closes) = 0
      BY <2>5, CloseIs
    <3>2. r = Refused
      BY <2>1, <2>2, <2>5, <3>1 DEF config_add
    <3>3. ~Refused.ok
      BY DEF Refused
    <3>4. ~Whole(t)
      BY <2>5 DEF Whole
    <3>5. config_get(t, "lastVersion") = Value("none")
      BY <2>1 DEF config_get
    <3> HIDE DEF r
    <3> QED
      BY <3>2, <3>3, <3>4, <3>5
  <2> QED
    BY <2>3, <2>4, <2>5
<1> QED
  BY <1>1, <1>2, <1>3

\* A text that stops short has the version that was to be written, none or half.
LEMMA CutIs ==
  ASSUME NEW t, Shape(t), NEW c \in Cuts(t)
  PROVE  /\ Shape(c)
         /\ config_get(c, "lastVersion") \in
              {config_get(t, "lastVersion"), Value("none"), Half}
<1>0. t \in Seq(Tokens) /\ Len(t) \in Nat /\ "lastVersion" \in Named
  BY DEF Shape, Named
<1>1. PICK n \in 0..Len(t) :
        /\ c \in Seq(Tokens) /\ Len(c) = n
        /\ \A i \in 1..n : c[i] = t[i] \/ (i = n /\ c[i] = Half)
  <2>1. ASSUME NEW n \in 0..(Len(t) - 1), c = SubSeq(t, 1, n)
        PROVE  c \in Seq(Tokens) /\ Len(c) = n /\ \A i \in 1..n : c[i] = t[i]
    BY <1>0, <2>1
  <2>2. ASSUME NEW n \in 1..Len(t), c = Append(SubSeq(t, 1, n - 1), Half)
        PROVE  /\ c \in Seq(Tokens) /\ Len(c) = n /\ c[n] = Half
               /\ \A i \in 1..(n - 1) : c[i] = t[i]
    <3>1. /\ SubSeq(t, 1, n - 1) \in Seq(Tokens) /\ Len(SubSeq(t, 1, n - 1)) = n - 1
          /\ \A i \in 1..(n - 1) : SubSeq(t, 1, n - 1)[i] = t[i]
      BY <1>0
    <3>2. Half \in Tokens
      BY DEF Tokens
    <3>3. /\ c \in Seq(Tokens) /\ Len(c) = (n - 1) + 1 /\ c[(n - 1) + 1] = Half
          /\ \A i \in 1..(n - 1) : c[i] = SubSeq(t, 1, n - 1)[i]
      BY <2>2, <3>1, <3>2, AppendIs
    <3>4. (n - 1) + 1 = n
      OBVIOUS
    <3> QED
      BY <3>1, <3>3, <3>4
  <2>3. CASE \E n \in 0..(Len(t) - 1) : c = SubSeq(t, 1, n)
    <3>1. PICK n \in 0..(Len(t) - 1) : c = SubSeq(t, 1, n)
      BY <2>3
    <3>2. n \in 0..Len(t)
      BY <1>0
    <3> QED
      BY <2>1, <3>1, <3>2
  <2>4. CASE \E n \in 1..Len(t) : c = Append(SubSeq(t, 1, n - 1), Half)
    <3>1. PICK n \in 1..Len(t) : c = Append(SubSeq(t, 1, n - 1), Half)
      BY <2>4
    <3>2. n \in 0..Len(t) /\ \A i \in 1..n : i = n \/ i \in 1..(n - 1)
      BY <1>0
    <3>3. /\ c \in Seq(Tokens) /\ Len(c) = n /\ c[n] = Half
          /\ \A i \in 1..(n - 1) : c[i] = t[i]
      BY <2>2, <3>1
    <3> QED
      BY <3>2, <3>3
  <2>5. DOMAIN t = 1..Len(t)
    BY <1>0
  <2> QED
    BY <2>3, <2>4, <2>5 DEF Cuts
<1>2. \A k \in Named : Half # Key(k) /\ Half # Closes /\ Half.t = "half"
  BY TokensDiffer
<1>3. Shape(c)
  <2>1. \A k \in Named : \A i, j \in 1..Len(c) : c[i] = Key(k) /\ c[j] = Key(k) => i = j
    <3>1. \A i \in 1..n : i \in 1..Len(t)
      BY <1>0
    <3>2. \A k \in Named : \A i \in 1..n : c[i] = Key(k) => t[i] = Key(k)
      BY <1>1, <1>2
    <3> QED
      BY <1>1, <3>1, <3>2 DEF Shape
  <2>2. ASSUME NEW i \in 1..(Len(c) - 1)
        PROVE  c[i] # Closes /\ (c[i].t = "key" => c[i + 1].t \in {"value", "half"})
    <3>1. i \in 1..(Len(t) - 1) /\ i \in 1..n /\ i + 1 \in 1..n /\ i # n
      BY <1>0, <1>1
    <3>2. c[i] = t[i] /\ (c[i + 1] = t[i + 1] \/ c[i + 1] = Half)
      BY <1>1, <3>1
    <3>3. t[i] # Closes /\ (t[i].t = "key" => t[i + 1].t \in {"value", "half"})
      BY <3>1 DEF Shape
    <3> QED
      BY <1>0, <1>2, <3>2, <3>3
  <2> QED
    BY <1>1, <2>1, <2>2 DEF Shape
<1>4. CASE \E p \in 1..(Len(c) - 1) : c[p] = Key("lastVersion")
  <2>1. PICK p \in 1..(Len(c) - 1) : c[p] = Key("lastVersion")
    BY <1>4
  <2>2. p \in 1..(Len(t) - 1) /\ p \in 1..n /\ p + 1 \in 1..n
    BY <1>0, <1>1
  <2>3. t[p] = Key("lastVersion") /\ (c[p + 1] = t[p + 1] \/ c[p + 1] = Half)
    BY <1>0, <1>1, <1>2, <2>1, <2>2
  <2> QED
    BY <1>0, <1>3, <2>1, <2>2, <2>3, GetIs
<1>5. CASE ~ \E p \in 1..(Len(c) - 1) : c[p] = Key("lastVersion")
  BY <1>0, <1>3, <1>5, GetIs
<1> QED
  BY <1>3, <1>4, <1>5

-----------------------------------------------------------------------------
(* ConfigKept: the file, and the text that is to be put in its place.      *)

Noting == Rewriting(Ui) /\ File(op[Ui]) = "config"
Cleared == at[Ui] = "write" /\ File(op[Ui]) = "config"

\* A text that says what the page was answered.
Exact(t, c) == Whole(t) /\ \A k \in Named : config_get(t, k) = Value(c[k])

CInv ==
  /\ Noting =>
       /\ Shape(mem[Ui]) /\ config_get(mem[Ui], "lastVersion") = Value(op[Ui].version)
       /\ unsaved = {} => Exact(mem[Ui], [chosen EXCEPT !.lastVersion = op[Ui].version])
  /\ Cleared => config = << >>
  /\ ~Cleared =>
       /\ Shape(config)
       /\ unsaved = {} => Exact(config, chosen)
       /\ "open" \notin unsaved =>
            config_get(config, "lastVersion") \in
              {Value(chosen.lastVersion), Value("none"), Half}

LEMMA ConfigAside ==
  ASSUME CInv, UNCHANGED <<config, chosen, unsaved>>,
         \/ at'[Ui] = at[Ui] /\ op'[Ui] = op[Ui] /\ mem'[Ui] = mem[Ui]
         \/ ~Cleared /\ ~Noting'
  PROVE  CInv'
<1>1. CASE at'[Ui] = at[Ui] /\ op'[Ui] = op[Ui] /\ mem'[Ui] = mem[Ui]
  BY <1>1 DEF CInv, Noting, Cleared, Rewriting
<1>2. CASE ~Cleared /\ ~Noting'
  <2>1. ~Cleared'
    BY <1>2 DEF Noting, Cleared, Rewriting
  <2> QED
    BY <1>2, <2>1 DEF CInv
<1> QED
  BY <1>1, <1>2

LEMMA ChosenIs ==
  ASSUME LibraryTypeOK, NEW v \in Versions
  PROVE  LET c == [chosen EXCEPT !.lastVersion = v]
         IN  /\ c.lastVersion = v /\ c["lastVersion"] = v /\ c["theme"] = chosen["theme"]
             /\ chosen["lastVersion"] = chosen.lastVersion
BY DEF LibraryTypeOK

LEMMA LoadConfig ==
  ASSUME Typed, CInv, NEW a \in Actors, Load(a)
  PROVE  CInv'
<1>1. op[a] \in Changes /\ at[a] = "load" /\ UNCHANGED <<config, unsaved>>
  BY DEF Load, Typed, Documents, files
<1>2. CASE a # Ui
  <2>1. a \in Threads
    BY <1>2 DEF Actors
  <2>2. op[a].kind = "touch"
    BY <1>1, <2>1, ChangesAre DEF Typed, Documents
  <2>3. /\ chosen' = chosen /\ Ui \in Actors
        /\ at'[Ui] = at[Ui] /\ op'[Ui] = op[Ui] /\ mem'[Ui] = mem[Ui]
    BY <1>2, <2>2 DEF Load, Ends, saved, Typed, Documents, LibraryTypeOK, Actors
  <2> QED
    BY <1>1, <2>3, ConfigAside
<1>3. CASE a = Ui /\ op[a] \notin VersionOps
  <2>1. op[a].kind # "version" /\ File(op[a]) # "config"
    BY <1>1, <1>3, ChangesAre DEF Changes
  <2>2. chosen' = chosen
    BY <2>1 DEF Load, saved
  <2>3. ~Cleared /\ ~Noting'
    <3>1. CASE Found(op[a], Target(a))
      BY <1>1, <1>3, <2>1, <3>1 DEF Load, Cleared, Noting
    <3>2. CASE ~Found(op[a], Target(a))
      BY <1>1, <1>3, <3>2, EndsDoes DEF Load, Cleared, Noting, Rewriting
    <3> QED
      BY <3>1, <3>2
  <2> QED
    BY <1>1, <2>2, <2>3, ConfigAside
<1>4. CASE a = Ui /\ op[a] \in VersionOps
  <2> DEFINE v == op[Ui].version
             r == config_set(config, "lastVersion", v)
  <2>1. /\ op[Ui].kind = "version" /\ v \in Versions /\ File(op[Ui]) = "config"
        /\ Target(Ui) = config /\ ~Cleared
    <3>1. op[Ui].kind = "version" /\ v \in Versions /\ File(op[Ui]) = "config"
      BY <1>4, ChangesAre
    <3> QED
      BY <1>1, <1>4, <3>1 DEF Target, Cleared
  <2>2. /\ Found(op[Ui], Target(Ui)) <=> r.ok
        /\ Apply(op[Ui], Target(Ui)) = r.text
    BY <2>1 DEF Found, Apply
  <2>3. /\ Shape(config)
        /\ unsaved = {} => Exact(config, chosen)
        /\ "open" \notin unsaved =>
            config_get(config, "lastVersion") \in
              {Value(chosen.lastVersion), Value("none"), Half}
    BY <2>1 DEF CInv
  <2>4. /\ r.ok => Shape(r.text) /\ config_get(r.text, "lastVersion") = Value(v)
        /\ ~r.ok => config_get(config, "lastVersion") = Value("none")
        /\ Whole(config) => /\ r.ok /\ Whole(r.text)
                            /\ config_get(r.text, "theme") = config_get(config, "theme")
    <3>1. PICK t : t = config
      OBVIOUS
    <3>2. PICK w \in Versions : w = v
      BY <2>1
    <3>3. LET q == config_set(t, "lastVersion", w)
          IN  /\ q.ok => Shape(q.text) /\ config_get(q.text, "lastVersion") = Value(w)
              /\ ~q.ok => config_get(t, "lastVersion") = Value("none")
              /\ Whole(t) => /\ q.ok /\ Whole(q.text)
                             /\ config_get(q.text, "theme") = config_get(t, "theme")
      BY <2>3, <3>1, SetIs
    <3> QED
      BY <3>1, <3>2, <3>3
  <2> HIDE DEF r
  <2>5. CASE r.ok
    <3>1. /\ at' = [at EXCEPT ![Ui] = "open"] /\ mem' = [mem EXCEPT ![Ui] = r.text]
          /\ UNCHANGED <<op, chosen>>
      BY <1>4, <2>2, <2>5 DEF Load, saved
    <3>2. /\ at'[Ui] = "open" /\ op'[Ui] = op[Ui] /\ mem'[Ui] = r.text /\ ~Cleared'
      BY <1>4, <3>1 DEF Typed, Documents, LibraryTypeOK, Cleared
    <3>3. unsaved = {} => Exact(r.text, [chosen EXCEPT !.lastVersion = v])
      BY <2>1, <2>3, <2>4, <2>5, ChosenIs DEF Exact, Named, Typed
    <3> QED
      BY <1>1, <2>3, <2>4, <2>5, <3>1, <3>2, <3>3 DEF CInv
  <2>6. CASE ~r.ok
    <3>1. Ends(Ui) /\ Answered(Ui)
      BY <1>4, <2>1, <2>2, <2>6 DEF Load
    <3>2. at'[Ui] = "idle"
      BY <1>4, <3>1, EndsDoes
    <3>3. unsaved # {}
      BY <2>3, <2>4, <2>6 DEF Exact
    <3> QED
      BY <1>1, <2>3, <2>4, <2>6, <3>2, <3>3 DEF CInv, Noting, Cleared, Rewriting
  <2> QED
    BY <2>5, <2>6
<1> QED
  BY <1>2, <1>3, <1>4

LEMMA TruncateConfig ==
  ASSUME Typed, CInv, NEW a \in Actors, Truncate(a)
  PROVE  CInv'
<1>1. /\ at[a] = "open" /\ op[a] \in Changes /\ UNCHANGED <<op, mem, chosen, unsaved>>
      /\ at' = [at EXCEPT ![a] = "write"]
      /\ config' = IF File(op[a]) = "config" THEN << >> ELSE config
  BY DEF Truncate, Typed, Documents, saved
<1>2. CASE a # Ui
  <2>1. a \in Threads /\ Ui \in Actors
    BY <1>2 DEF Actors
  <2>2. config' = config /\ at'[Ui] = at[Ui]
    BY <1>1, <1>2, <2>1, LaunchesTouch DEF Typed, LibraryTypeOK
  <2> QED
    BY <1>1, <2>2, ConfigAside
<1>3. CASE a = Ui
  <2>1. at[Ui] = "open" /\ at'[Ui] = "write" /\ ~Cleared
    BY <1>1, <1>3 DEF Typed, LibraryTypeOK, Cleared
  <2>2. CASE File(op[Ui]) # "config"
    BY <1>1, <1>3, <2>1, <2>2, ConfigAside DEF Noting
  <2>3. CASE File(op[Ui]) = "config"
    <3>1. config' = << >> /\ Cleared' /\ Noting
      BY <1>1, <1>3, <2>1, <2>3 DEF Cleared, Noting, Rewriting
    <3> QED
      BY <1>1, <3>1 DEF CInv
  <2> QED
    BY <2>2, <2>3
<1> QED
  BY <1>2, <1>3

LEMMA EndingConfig ==
  ASSUME Typed, CInv, NEW a \in Actors, CannotOpen(a) \/ Write(a) \/ WriteShort(a)
  PROVE  CInv'
<1>1. /\ op[a] \in Changes /\ at[a] \in {"open", "write"} /\ Ends(a)
      /\ Ui \in Actors /\ at'[a] = "idle"
  BY EndsDoes DEF CannotOpen, Write, WriteShort, Typed, Documents, Actors
<1>2. op[a] \in VersionOps \/ (op[a] \notin VersionOps /\ File(op[a]) # "config"
                                /\ op[a].kind # "version")
  BY <1>1, ChangesAre DEF Changes
<1>3. CASE op[a] \notin VersionOps
  <2>1. UNCHANGED <<config, chosen, unsaved>>
    BY <1>2, <1>3 DEF CannotOpen, Write, WriteShort, Answered, files, saved
  <2>2. CASE a = Ui
    BY <1>1, <1>2, <1>3, <2>1, <2>2, ConfigAside DEF Cleared, Noting, Rewriting
  <2>3. CASE a # Ui
    BY <1>1, <2>1, <2>3, EndsDoes, ConfigAside
  <2> QED
    BY <2>2, <2>3
<1>4. CASE op[a] \in VersionOps
  <2>1. op[a].kind = "version" /\ op[a].version \in Versions /\ File(op[a]) = "config"
    BY <1>4, ChangesAre
  <2>2. a = Ui /\ ~Cleared' /\ ~Noting'
    <3>1. a = Ui
      BY <1>1, <2>1, LaunchesTouch DEF Actors
    <3> QED
      BY <1>1, <3>1 DEF Cleared, Noting, Rewriting
  <2>3. chosen' = [chosen EXCEPT !.lastVersion = op[Ui].version]
    BY <1>4, <2>1, <2>2 DEF CannotOpen, Write, WriteShort, Answered
  <2>4. chosen'.lastVersion = op[Ui].version
    BY <2>1, <2>2, <2>3, ChosenIs DEF Typed
  <2>5. CASE CannotOpen(a)
    <3>1. ~Cleared /\ config' = config /\ "open" \in unsaved'
      BY <2>1, <2>2, <2>5 DEF CannotOpen, Cleared, files
    <3> QED
      BY <2>2, <3>1 DEF CInv
  <2>6. CASE Write(a)
    <3>1. config' = mem[Ui] /\ unsaved' = unsaved /\ Noting
      BY <1>1, <2>1, <2>2, <2>6 DEF Write, Noting, Rewriting
    <3> QED
      BY <2>2, <2>3, <2>4, <3>1 DEF CInv
  <2>7. CASE WriteShort(a)
    <3>1. config' \in Cuts(mem[Ui]) /\ unsaved' # {} /\ Noting
      BY <1>1, <2>1, <2>2, <2>7 DEF WriteShort, Noting, Rewriting
    <3>2. Shape(mem[Ui]) /\ config_get(mem[Ui], "lastVersion") = Value(op[Ui].version)
      BY <3>1 DEF CInv
    <3>3. PICK t : t = mem[Ui]
      OBVIOUS
    <3>4. PICK c \in Cuts(t) : c = config'
      BY <3>1, <3>3
    <3>5. /\ Shape(c)
          /\ config_get(c, "lastVersion") \in {Value(op[Ui].version), Value("none"), Half}
      BY <3>2, <3>3, CutIs
    <3> QED
      BY <2>2, <2>4, <3>1, <3>4, <3>5 DEF CInv
  <2> QED
    BY <2>5, <2>6, <2>7
<1> QED
  BY <1>3, <1>4

LEMMA OtherConfig ==
  ASSUME Typed, CInv,
         \/ \E o \in Changes : Asks(o)
         \/ \E l \in Threads : (\E i \in Ids : instance_get(l, i)) \/ LaunchRam(l) \/ Touch(l)
         \/ Restart
  PROVE  CInv'
<1>1. ASSUME NEW o \in Changes, Asks(o)
      PROVE  CInv'
  <2>1. /\ at[Ui] = "idle" /\ at'[Ui] = "load" /\ UNCHANGED <<config, chosen, unsaved>>
    BY <1>1 DEF Asks, files, history, saved, Typed, LibraryTypeOK, Actors
  <2> QED
    BY <2>1, ConfigAside DEF Cleared, Noting, Rewriting
<1>2. ASSUME NEW l \in Threads,
             (\E i \in Ids : instance_get(l, i)) \/ LaunchRam(l) \/ Touch(l)
      PROVE  CInv'
  <2>0. l # Ui /\ Ui \in Actors
    BY LibraryAssumption DEF Actors
  <2>1. at'[Ui] = at[Ui]
    BY <1>2, <2>0 DEF instance_get, LaunchRam, Touch, Typed, LibraryTypeOK
  <2>2. op'[Ui] = op[Ui]
    BY <1>2, <2>0 DEF instance_get, LaunchRam, Touch, Typed, Documents
  <2>3. UNCHANGED <<mem, config, chosen, unsaved>>
    BY <1>2 DEF instance_get, LaunchRam, Touch, files, history, saved
  <2> QED
    BY <2>1, <2>2, <2>3, ConfigAside
<1>3. CASE Restart
  <2>1. /\ at'[Ui] = "idle" /\ UNCHANGED chosen /\ config' = init_config
        /\ unsaved' = unsaved \cup (IF config = << >> THEN {"torn"} ELSE {})
    BY <1>3 DEF Restart, saved, Actors
  <2>2. ~Cleared' /\ ~Noting'
    BY <2>1 DEF Cleared, Noting, Rewriting
  <2>3. CASE config = << >>
    <3>1. config' = << >>
      <4>1. << >> # NoFile
        BY DEF NoFile
      <4> QED
        BY <2>1, <2>3, <4>1 DEF init_config
    <3>2. Shape(<< >>) /\ config_get(<< >>, "lastVersion") = Value("none")
      BY NoKeys DEF Named
    <3>3. unsaved' # {}
      BY <2>1, <2>3
    <3> QED
      BY <2>2, <3>1, <3>2, <3>3 DEF CInv
  <2>4. CASE config # << >> /\ config # NoFile
    <3>1. config' = config /\ unsaved' = unsaved
      BY <2>1, <2>4 DEF init_config
    <3> QED
      BY <2>1, <2>2, <2>4, <3>1 DEF CInv
  <2>5. CASE config # << >> /\ config = NoFile
    <3>1. config' = Nothing /\ unsaved' = unsaved
      BY <2>1, <2>5 DEF init_config
    <3>2. ~Cleared
      BY <2>5 DEF CInv
    <3>3. /\ \A k \in Named : config_get(NoFile, k) = config_get(Nothing, k)
          /\ Shape(Nothing) /\ Whole(Nothing)
          /\ config_get(Nothing, "lastVersion") = Value("none")
      <4>1. Nothing # << >>
        BY DEF Nothing
      <4> QED
        BY <4>1, NoKeys DEF Named
    <3> QED
      BY <2>1, <2>2, <2>5, <3>1, <3>2, <3>3 DEF CInv, Exact
  <2> QED
    BY <2>3, <2>4, <2>5
<1> QED
  BY <1>1, <1>2, <1>3

LEMMA CHolds == LibrarySpec => []CInv
<1>1. LibraryInit => CInv
  <2> SUFFICES ASSUME LibraryInit
               PROVE  CInv
    OBVIOUS
  <2>1. ~Cleared /\ ~Noting
    BY DEF LibraryInit, Cleared, Noting, Rewriting, Actors
  <2>2. /\ config \in {NoFile, Nothing, Foreign}
        /\ chosen.lastVersion = "none" /\ chosen["lastVersion"] = "none"
        /\ chosen["theme"] = IF config = Foreign THEN "dark" ELSE "none"
    BY DocumentsAssumption DEF LibraryInit
  <2>3. Shape(config) /\ Exact(config, chosen)
    <3>1. CASE config = Foreign
      <4>1. /\ Shape(Foreign) /\ Whole(Foreign) /\ config_get(Foreign, "theme") = Value("dark")
            /\ config_get(Foreign, "lastVersion") = Value("none")
        BY OnePair DEF Foreign, Named
      <4> QED
        BY <2>2, <3>1, <4>1 DEF Exact, Named
    <3>2. CASE config # Foreign
      <4>1. config # << >> /\ config \in {NoFile, Nothing}
        <5>1. NoFile # << >> /\ Nothing # << >>
          BY DEF NoFile, Nothing
        <5> QED
          BY <2>2, <3>2, <5>1
      <4>2. Shape(config) /\ Whole(config) /\ \A k \in Named : config_get(config, k) = Value("none")
        BY <4>1, NoKeys
      <4> QED
        BY <2>2, <3>2, <4>2 DEF Exact, Named
    <3> QED
      BY <3>1, <3>2
  <2> QED
    BY <2>1, <2>2, <2>3 DEF CInv, Exact, Named
<1>2. Typed /\ CInv /\ [LibraryNext]_libraryVars => CInv'
  <2> SUFFICES ASSUME Typed, CInv, [LibraryNext]_libraryVars
               PROVE  CInv'
    OBVIOUS
  <2>1. CASE UNCHANGED libraryVars
    BY <2>1, ConfigAside DEF libraryVars
  <2> QED
    BY <2>1, AsksOf, LoadConfig, TruncateConfig, EndingConfig, OtherConfig DEF LibraryNext
<1> QED
  BY <1>1, <1>2, TypedHolds, PTL DEF LibrarySpec

\* The page is given the version it was last told is saved, and the other keys stay,
\* until the file cannot be opened or is torn; a torn one never gives an older version.
THEOREM ConfigKeptHolds == LibrarySpec => []ConfigKept
<1>1. Typed /\ CInv => ConfigKept
  <2> SUFFICES ASSUME Typed, CInv, at[Ui] # "write"
               PROVE  /\ unsaved = {} =>
                           \A k \in DOMAIN chosen : config_get(config, k) = Value(chosen[k])
                      /\ "open" \notin unsaved =>
                           config_get(config, "lastVersion") \in
                             {Value(chosen.lastVersion), Value("none"), Half}
    BY DEF ConfigKept
  <2>1. ~Cleared /\ DOMAIN chosen = Named
    BY DEF Cleared, Typed, LibraryTypeOK, Named
  <2> QED
    BY <2>1 DEF CInv, Exact
<1> QED
  BY <1>1, CHolds, TypedHolds, PTL

=============================================================================
