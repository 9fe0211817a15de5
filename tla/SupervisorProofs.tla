-------------------------- MODULE SupervisorProofs --------------------------
\* What holds of Supervisor for every set of images, crash limit and kind of
\* trouble, proved with TLAPS.
EXTENDS Supervisor, SequenceTheorems, TLAPS

-----------------------------------------------------------------------------
(* The channel *)

\* The exit of the current container is in q.
ExitIn(q) == \E i \in DOMAIN q : q[i].type = "exit" /\ q[i].mine

\* The answers of checks in q: none, at most one, and what they may hold.
NoReady(q) == \A i \in DOMAIN q : q[i].type # "ready"
OneReady(q) ==
  \A i, j \in DOMAIN q : q[i].type = "ready" /\ q[j].type = "ready" => i = j
Answers(q, D) == \A i \in DOMAIN q : q[i].type = "ready" => q[i].found \in D

LEMMA EventsAre ==
  /\ \A ok, m \in BOOLEAN : [type |-> "exit", mine |-> m, success |-> ok] \in Events
  /\ \A d \in Digest : [type |-> "ready", found |-> d] \in Events
  /\ [type |-> "shutdown"] \in Events
  /\ \A e \in Events : e.type = "exit" => e.mine \in BOOLEAN /\ e.success \in BOOLEAN
  /\ \A e \in Events : e.type = "ready" => e.found \in Digest
  /\ \A e \in Events : e.type \in {"exit", "ready", "shutdown"}
BY DEF Events

\* What sending e makes of the channel.
LEMMA Sent ==
  ASSUME NEW q \in Seq(Events), NEW e \in Events
  PROVE  /\ Append(q, e) \in Seq(Events)
         /\ ExitIn(Append(q, e)) <=> ExitIn(q) \/ (e.type = "exit" /\ e.mine)
         /\ NoReady(q) /\ e.type # "ready" => NoReady(Append(q, e))
         /\ NoReady(Append(q, e)) => NoReady(q)
         /\ OneReady(q) /\ (NoReady(q) \/ e.type # "ready") => OneReady(Append(q, e))
         /\ \A D : Answers(q, D) /\ (e.type = "ready" => e.found \in D)
                     => Answers(Append(q, e), D)
<1> DEFINE r == Append(q, e)
<1>1. /\ r \in Seq(Events) /\ Len(q) \in Nat /\ DOMAIN q = 1..Len(q)
      /\ DOMAIN r = 1..Len(q) + 1
      /\ \A i \in 1..Len(q) : r[i] = q[i]
      /\ r[Len(q) + 1] = e
  OBVIOUS
<1>2. \A i \in DOMAIN r : i \in DOMAIN q \/ i = Len(q) + 1
  BY <1>1
<1>3. \A i \in DOMAIN q : i \in DOMAIN r /\ r[i] = q[i] /\ i # Len(q) + 1
  BY <1>1
<1>4. Len(q) + 1 \in DOMAIN r
  BY <1>1
<1> HIDE DEF r
<1>5. ExitIn(r) <=> ExitIn(q) \/ (e.type = "exit" /\ e.mine)
  BY <1>1, <1>2, <1>3, <1>4 DEF ExitIn
<1>6. NoReady(q) /\ e.type # "ready" => NoReady(r)
  BY <1>1, <1>2, <1>3 DEF NoReady
<1>7. NoReady(r) => NoReady(q)
  BY <1>3 DEF NoReady
<1>8. OneReady(q) /\ (NoReady(q) \/ e.type # "ready") => OneReady(r)
  BY <1>1, <1>2, <1>3 DEF NoReady, OneReady
<1>9. \A D : Answers(q, D) /\ (e.type = "ready" => e.found \in D) => Answers(r, D)
  BY <1>1, <1>2, <1>3 DEF Answers
<1> QED
  BY <1>1, <1>5, <1>6, <1>7, <1>8, <1>9 DEF r

\* What taking its first event makes of it.
LEMMA Taken ==
  ASSUME NEW q \in Seq(Events), q # <<>>
  PROVE  /\ Tail(q) \in Seq(Events) /\ Head(q) \in Events
         /\ ExitIn(Tail(q)) => ExitIn(q)
         /\ ExitIn(q) => ExitIn(Tail(q)) \/ (Head(q).type = "exit" /\ Head(q).mine)
         /\ Head(q).type = "exit" /\ Head(q).mine => ExitIn(q)
         /\ NoReady(q) => NoReady(Tail(q)) /\ Head(q).type # "ready"
         /\ OneReady(q) => OneReady(Tail(q))
         /\ OneReady(q) /\ Head(q).type = "ready" => NoReady(Tail(q))
         /\ Head(q).type # "ready" /\ ~NoReady(q) => ~NoReady(Tail(q))
         /\ \A D : Answers(q, D) =>
              Answers(Tail(q), D) /\ (Head(q).type = "ready" => Head(q).found \in D)
<1> DEFINE r == Tail(q)
<1> DEFINE h == Head(q)
<1>1. /\ r \in Seq(Events) /\ h \in Events /\ h = q[1]
      /\ Len(q) \in Nat /\ Len(q) > 0 /\ DOMAIN q = 1..Len(q)
      /\ DOMAIN r = 1..Len(q) - 1
      /\ \A i \in 1..Len(q) - 1 : r[i] = q[i + 1]
  OBVIOUS
<1>2. \A i \in DOMAIN r : i \in Nat /\ i + 1 \in DOMAIN q /\ i + 1 # 1 /\ r[i] = q[i + 1]
  BY <1>1
<1>3. \A i \in DOMAIN q : i = 1 \/ (i - 1 \in DOMAIN r /\ r[i - 1] = q[i])
  BY <1>1
<1>4. 1 \in DOMAIN q /\ h = q[1]
  BY <1>1
<1>5. \A i, j \in DOMAIN r : i + 1 = j + 1 => i = j
  BY <1>2
<1> HIDE DEF r, h
<1>6. ExitIn(r) => ExitIn(q)
  BY <1>2 DEF ExitIn
<1>7. ExitIn(q) => ExitIn(r) \/ (h.type = "exit" /\ h.mine)
  BY <1>3, <1>4 DEF ExitIn
<1>8. h.type = "exit" /\ h.mine => ExitIn(q)
  BY <1>4 DEF ExitIn
<1>9. NoReady(q) => NoReady(r) /\ h.type # "ready"
  BY <1>2, <1>4 DEF NoReady
<1>10. OneReady(q) => OneReady(r)
  BY <1>2, <1>5 DEF OneReady
<1>11. OneReady(q) /\ h.type = "ready" => NoReady(r)
  BY <1>2, <1>4 DEF OneReady, NoReady
<1>12. h.type # "ready" /\ ~NoReady(q) => ~NoReady(r)
  BY <1>3, <1>4 DEF NoReady
<1>13. \A D : Answers(q, D) => Answers(r, D) /\ (h.type = "ready" => h.found \in D)
  BY <1>2, <1>4 DEF Answers
<1> QED
  BY <1>1, <1>6, <1>7, <1>8, <1>9, <1>10, <1>11, <1>12, <1>13 DEF r, h

\* What a new generation makes of it: only the exits change.
LEMMA MovedOn ==
  ASSUME NEW q \in Seq(Events)
  PROVE  /\ Outdated(q) \in Seq(Events)
         /\ ~ExitIn(Outdated(q))
         /\ NoReady(Outdated(q)) <=> NoReady(q)
         /\ OneReady(q) => OneReady(Outdated(q))
         /\ \A D : Answers(q, D) => Answers(Outdated(q), D)
<1> DEFINE r == Outdated(q)
<1>1. Len(q) \in Nat /\ DOMAIN q = 1..Len(q) /\ \A i \in DOMAIN q : q[i] \in Events
  OBVIOUS
<1>2. \A e \in Events : e.type = "exit" =>
        /\ [e EXCEPT !.mine = FALSE] \in Events
        /\ [e EXCEPT !.mine = FALSE].type = "exit"
        /\ [e EXCEPT !.mine = FALSE].mine = FALSE
  <2> SUFFICES ASSUME NEW e \in Events, e.type = "exit"
               PROVE  /\ [e EXCEPT !.mine = FALSE] \in Events
                      /\ [e EXCEPT !.mine = FALSE].type = "exit"
                      /\ [e EXCEPT !.mine = FALSE].mine = FALSE
    OBVIOUS
  <2> DEFINE Exits == [type : {"exit"}, mine : BOOLEAN, success : BOOLEAN]
  <2>1. e \in Exits
    BY DEF Events
  <2>2. /\ [e EXCEPT !.mine = FALSE] \in Exits
        /\ [e EXCEPT !.mine = FALSE].type = "exit"
        /\ [e EXCEPT !.mine = FALSE].mine = FALSE
    BY <2>1
  <2> QED
    BY <2>2 DEF Events
<1>3. DOMAIN r = DOMAIN q
  BY DEF Outdated
<1>4. \A i \in DOMAIN q :
        /\ q[i].type # "exit" => r[i] = q[i]
        /\ q[i].type = "exit" => r[i] = [q[i] EXCEPT !.mine = FALSE]
  BY DEF Outdated
<1>5. \A i \in DOMAIN q :
        /\ r[i] \in Events /\ r[i].type = q[i].type
        /\ r[i].type = "exit" => ~r[i].mine
        /\ r[i].type = "ready" => r[i] = q[i]
  BY <1>1, <1>2, <1>4
<1>6. r = [i \in 1..Len(q) |-> r[i]]
  BY <1>1 DEF Outdated
<1> HIDE DEF r
<1>7. r \in Seq(Events)
  <2>1. r \in [1..Len(q) -> Events]
    BY <1>1, <1>5, <1>6
  <2> QED
    BY <1>1, <2>1, SeqDef
<1>8. ~ExitIn(r)
  BY <1>3, <1>5 DEF ExitIn
<1>9. NoReady(r) <=> NoReady(q)
  BY <1>3, <1>5 DEF NoReady
<1>10. OneReady(q) => OneReady(r)
  BY <1>3, <1>5 DEF OneReady
<1>11. \A D : Answers(q, D) => Answers(r, D)
  BY <1>3, <1>5 DEF Answers
<1> QED
  BY <1>7, <1>8, <1>9, <1>10, <1>11 DEF r

LEMMA NothingIn ==
  /\ <<>> \in Seq(Events) /\ ~ExitIn(<<>>) /\ NoReady(<<>>) /\ OneReady(<<>>)
  /\ \A D : Answers(<<>>, D)
BY DEF ExitIn, NoReady, OneReady, Answers

-----------------------------------------------------------------------------
(* Types *)

LEMMA StatesAre ==
  /\ Fresh \in State /\ None \in Digest
  /\ \A s \in State : s.installed \in Digest /\ s.previous \in Digest /\ s.bad \in Digest
  /\ \A s \in State, d \in Digest :
       /\ [s EXCEPT !.installed = d] \in State
       /\ [s EXCEPT !.previous = s.installed, !.installed = d] \in State
  /\ \A a, b \in Digest : [installed |-> a, previous |-> None, bad |-> b] \in State
  /\ Images \subseteq Digest
BY DEF State, Digest, Fresh

LEMMA BoxesAre ==
  /\ NoBox \in Boxes \cup {NoBox} /\ ~NoBox.up
  /\ \A d \in Images, u, c \in BOOLEAN : [img |-> d, up |-> u, clean |-> c] \in Boxes
  /\ \A b \in Boxes \cup {NoBox} :
       /\ b.up => b.img \in Images
       /\ b.up \in BOOLEAN /\ b.clean \in BOOLEAN
       /\ [b EXCEPT !.up = FALSE] \in Boxes \cup {NoBox}
       /\ ~[b EXCEPT !.up = FALSE].up
       /\ [b EXCEPT !.up = FALSE].img = b.img
       /\ \A c \in BOOLEAN : b.up =>
            /\ [b EXCEPT !.up = FALSE, !.clean = c] \in Boxes
            /\ [b EXCEPT !.up = FALSE, !.clean = c].img = b.img
            /\ ~[b EXCEPT !.up = FALSE, !.clean = c].up
<1>1. ASSUME NEW b \in Boxes
      PROVE  /\ b.img \in Images /\ b.up \in BOOLEAN /\ b.clean \in BOOLEAN
             /\ [b EXCEPT !.up = FALSE] \in Boxes
             /\ ~[b EXCEPT !.up = FALSE].up
             /\ [b EXCEPT !.up = FALSE].img = b.img
             /\ \A c \in BOOLEAN :
                  /\ [b EXCEPT !.up = FALSE, !.clean = c] \in Boxes
                  /\ [b EXCEPT !.up = FALSE, !.clean = c].img = b.img
                  /\ ~[b EXCEPT !.up = FALSE, !.clean = c].up
  BY DEF Boxes
<1>2. NoBox.up = FALSE /\ NoBox.clean = FALSE
  BY DEF NoBox
<1>3. [NoBox EXCEPT !.up = FALSE] = NoBox
  <2>1. NoBox = [f \in {"img", "up", "clean"} |-> NoBox[f]]
    BY DEF NoBox
  <2>2. [NoBox EXCEPT !.up = FALSE] =
          [f \in {"img", "up", "clean"} |-> IF f = "up" THEN FALSE ELSE NoBox[f]]
    BY <2>1
  <2>3. NoBox["up"] = FALSE
    BY DEF NoBox
  <2> QED
    BY <2>1, <2>2, <2>3
<1>4. \A d \in Images, u, c \in BOOLEAN : [img |-> d, up |-> u, clean |-> c] \in Boxes
  BY DEF Boxes
<1>5. ASSUME NEW b \in {NoBox}
      PROVE  /\ b.up = FALSE /\ b.clean = FALSE
             /\ [b EXCEPT !.up = FALSE] = b
  BY <1>2, <1>3
<1> HIDE DEF NoBox
<1> QED
  BY <1>1, <1>2, <1>4, <1>5

LEMMA ChecksAre ==
  /\ NoCheck \in Checks /\ Pulling \in Checks /\ NoCheck # Pulling
  /\ NoCheck.at = "idle" /\ Pulling.at = "pulling"
  /\ \A d \in Digest : [at |-> "found", found |-> d] \in Checks
  /\ \A c \in Checks : c.at = "found" => c.found \in Digest /\ c # NoCheck
BY DEF Checks, NoCheck, Pulling

LEMMA NoCrashes == 0 \in 0..CrashLimit - 1
BY CrashLimitAssumption

LEMMA GoneType ==
  ASSUME TypeOK, Gone, UNCHANGED <<stateFile, tag>>, box' \in Boxes \cup {NoBox},
         Abandon \/ UNCHANGED abandoned
  PROVE  TypeOK'
BY NothingIn, StatesAre, ChecksAre, NoCrashes DEF TypeOK, Gone, Abandon, stateFile

LEMMA SavedType ==
  ASSUME TypeOK, NEW s \in State, Saved(s)
  PROVE  disk' \in State /\ unsaved' \in BOOLEAN /\ given' \in Ways
BY DEF TypeOK, Saved

LEMMA BootType ==
  ASSUME TypeOK,
         StartOk \/ StartFails \/ StartInTheWay \/ Save \/ BootAdopt \/ BootInstall
           \/ BootFails \/ Boot
  PROVE  TypeOK'
<1>1. CASE StartOk
  <2>1. box' \in Boxes \cup {NoBox}
    BY <1>1, StatesAre, BoxesAre DEF StartOk, TypeOK, Digest
  <2>2. queue' \in Seq(Events) /\ check' \in Checks
    BY <1>1, MovedOn, ChecksAre DEF StartOk, TypeOK
  <2> QED
    BY <1>1, <2>1, <2>2 DEF StartOk, TypeOK, stateFile
<1>2. CASE StartFails
  <2>1. box' \in Boxes \cup {NoBox}
    BY <1>2 DEF StartFails, Boxes
  <2> QED
    BY <1>2, <2>1, GoneType DEF StartFails
<1>8. CASE StartInTheWay
  <2>1. box' \in Boxes \cup {NoBox}
    BY <1>8 DEF StartInTheWay, TypeOK
  <2> QED
    BY <1>8, <2>1, GoneType DEF StartInTheWay
<1>3. CASE Save
  BY <1>3, SavedType DEF Save, TypeOK, threadVars
<1>4. CASE BootAdopt
  <2> DEFINE s == IF disk.installed = None THEN [disk EXCEPT !.installed = box.img] ELSE disk
  <2>1. s \in State
    BY <1>4, StatesAre, BoxesAre DEF BootAdopt, Adopts, TypeOK
  <2>2. st' = s /\ Saved(s)
    BY <1>4 DEF BootAdopt
  <2> HIDE DEF s
  <2> QED
    BY <1>4, <2>1, <2>2, SavedType, ChecksAre DEF BootAdopt, TypeOK
<1>5. CASE BootInstall
  <2>1. st' \in State
    BY <1>5, StatesAre DEF BootInstall, TypeOK
  <2> QED
    BY <1>5, <2>1, BoxesAre DEF BootInstall, After, TypeOK, threadVars, stateFile
<1>6. CASE BootFails
  <2>1. box' \in Boxes \cup {NoBox}
    BY <1>6, BoxesAre DEF BootFails, TypeOK
  <2> QED
    BY <1>6, <2>1, GoneType DEF BootFails
<1>7. CASE Boot
  BY <1>7 DEF Boot, TypeOK, threadVars, stateFile
<1> QED
  BY <1>1, <1>2, <1>3, <1>4, <1>5, <1>6, <1>7, <1>8

LEMMA LoopType ==
  ASSUME TypeOK,
         \/ ExitStale \/ ExitClean \/ ExitWhileDownloading
         \/ \E quick, hasImage \in BOOLEAN : ExitCrash(quick, hasImage)
         \/ ReadyNone \/ ReadySome \/ HandleShutdown
         \/ Timeout \/ TimedDownloading \/ TimedRestart \/ TimedCheck
  PROVE  TypeOK'
<1>0. \A type : Takes(type) =>
        /\ Head(queue) \in Events /\ Head(queue).type = type /\ Tail(queue) \in Seq(Events)
  BY Taken DEF Takes, TypeOK
<1>1. CASE ExitStale
  BY <1>0, <1>1 DEF ExitStale, TypeOK, loopVars, stateFile
<1>2. CASE ExitClean
  BY <1>2, GoneType DEF ExitClean, TypeOK
<1>3. CASE ExitWhileDownloading
  BY <1>0, <1>3 DEF ExitWhileDownloading, TypeOK, stateFile
<1>4. ASSUME NEW quick \in BOOLEAN, NEW hasImage \in BOOLEAN, ExitCrash(quick, hasImage)
      PROVE  TypeOK'
  <2>1. fast' \in 0..CrashLimit - 1
    BY <1>4, CrashLimitAssumption DEF ExitCrash, TypeOK
  <2>2. st' \in State /\ pc' \in {"wait", "save"} /\ restarting' \in BOOLEAN
    BY <1>4, StatesAre DEF ExitCrash, Takes, TypeOK
  <2>3. queue' \in Seq(Events) /\ held' = FALSE
    BY <1>0, <1>4 DEF ExitCrash
  <2> QED
    BY <1>4, <2>1, <2>2, <2>3 DEF ExitCrash, TypeOK, stateFile
<1>5. CASE ReadyNone
  BY <1>0, <1>5 DEF ReadyNone, TypeOK, stateFile
<1>6. CASE ReadySome
  <2>1. st' \in State
    BY <1>0, <1>6, StatesAre, EventsAre DEF ReadySome, TypeOK
  <2>2. box' \in Boxes \cup {NoBox}
    BY <1>6, BoxesAre DEF ReadySome, After, TypeOK
  <2>3. queue' \in Seq(Events)
    BY <1>0, <1>6, MovedOn DEF ReadySome
  <2> QED
    BY <1>6, <2>1, <2>2, <2>3, NoCrashes DEF ReadySome, TypeOK, stateFile
<1>7. CASE HandleShutdown
  <2>1. box' \in Boxes \cup {NoBox}
    BY <1>7, BoxesAre DEF HandleShutdown, After, TypeOK
  <2> QED
    BY <1>7, <2>1, GoneType DEF HandleShutdown
<1>8. CASE Timeout \/ TimedDownloading
  BY <1>8 DEF Timeout, TimedDownloading, TypeOK, threadVars, stateFile
<1>9. CASE TimedRestart
  BY <1>9 DEF TimedRestart, TypeOK, threadVars, stateFile
<1>10. CASE TimedCheck
  BY <1>10, ChecksAre DEF TimedCheck, TypeOK, stateFile
<1> QED
  BY <1>1, <1>2, <1>3, <1>4, <1>5, <1>6, <1>7, <1>8, <1>9, <1>10

LEMMA AroundType ==
  ASSUME TypeOK,
         \/ \E ok \in BOOLEAN : CheckDecides(ok)
         \/ CheckSends \/ CheckDies \/ WatcherReports \/ StaleReports \/ Interrupt \/ Die
         \/ \E clean \in BOOLEAN : BoxExits(clean)
         \/ \E d \in Images : Publish(d)
  PROVE  TypeOK'
<1>1. ASSUME NEW ok \in BOOLEAN, CheckDecides(ok) PROVE TypeOK'
  <2>1. check' \in Checks
    BY <1>1, ChecksAre, StatesAre DEF CheckDecides, TypeOK
  <2> QED
    BY <1>1, <2>1 DEF CheckDecides, TypeOK, loopVars, stateFile
<1>2. CASE CheckSends
  <2>1. queue' \in Seq(Events)
    BY <1>2, ChecksAre, EventsAre, Sent DEF CheckSends, TypeOK
  <2> QED
    BY <1>2, <2>1, ChecksAre DEF CheckSends, TypeOK, loopVars, stateFile
<1>3. CASE CheckDies
  BY <1>3, ChecksAre DEF CheckDies, TypeOK, loopVars, stateFile
<1>4. CASE WatcherReports
  <2>1. queue' \in Seq(Events)
    <3>1. PICK ok \in BOOLEAN :
            queue' = Append(queue, [type |-> "exit", mine |-> TRUE, success |-> ok])
      BY <1>4 DEF WatcherReports
    <3>2. [type |-> "exit", mine |-> TRUE, success |-> ok] \in Events
      BY EventsAre
    <3> QED
      BY <3>1, <3>2, Sent DEF TypeOK
  <2> QED
    BY <1>4, <2>1 DEF WatcherReports, TypeOK, loopVars, stateFile
<1>5. CASE StaleReports
  <2>1. queue' \in Seq(Events)
    <3>1. PICK ok \in BOOLEAN :
            queue' = Append(queue, [type |-> "exit", mine |-> FALSE, success |-> ok])
      BY <1>5 DEF StaleReports
    <3>2. [type |-> "exit", mine |-> FALSE, success |-> ok] \in Events
      BY EventsAre
    <3> QED
      BY <3>1, <3>2, Sent DEF TypeOK
  <2> QED
    BY <1>5, <2>1 DEF StaleReports, TypeOK, loopVars, stateFile
<1>6. CASE Interrupt
  <2>1. queue' \in Seq(Events)
    BY <1>6, EventsAre, Sent DEF Interrupt, TypeOK
  <2> QED
    BY <1>6, <2>1 DEF Interrupt, TypeOK, loopVars, stateFile
<1>7. CASE Die
  BY <1>7, GoneType DEF Die, TypeOK
<1>8. ASSUME NEW clean \in BOOLEAN, BoxExits(clean) PROVE TypeOK'
  <2>1. box' \in Boxes \cup {NoBox}
    BY <1>8, BoxesAre DEF BoxExits, TypeOK
  <2> QED
    BY <1>8, <2>1 DEF BoxExits, TypeOK, loopVars, stateFile, threadVars
<1>9. ASSUME NEW d \in Images, Publish(d) PROVE TypeOK'
  BY <1>9 DEF Publish, TypeOK, loopVars, stateFile, threadVars
<1> QED
  BY <1>1, <1>2, <1>3, <1>4, <1>5, <1>6, <1>7, <1>8, <1>9

LEMMA TypeInit == Init => TypeOK
BY NothingIn, StatesAre, BoxesAre, ChecksAre, NoCrashes DEF Init, TypeOK

LEMMA TypeStep == TypeOK /\ [Next]_vars => TypeOK'
<1> SUFFICES ASSUME TypeOK, [Next]_vars PROVE TypeOK'
  OBVIOUS
<1>1. CASE UNCHANGED vars
  BY <1>1 DEF TypeOK, vars, loopVars, stateFile, threadVars
<1> QED
  BY <1>1, BootType, LoopType, AroundType DEF Next, Loop, Check

\* The state in memory and on disk, the channel and the container are always of
\* the kinds the loop expects, and fewer fast crashes are counted than call for a
\* rollback.
THEOREM TypeCorrect == Spec => []TypeOK
BY TypeInit, TypeStep, PTL DEF Spec, SafeSpec

-----------------------------------------------------------------------------
(* HeldIsTrue: what the loop believes of the container *)

Ended == pc \in {"down", "boot"}

\* A container that is held has a watcher, or its exit is in the channel.  Unless
\* docker wait fails that exit is not there before the container is down.
HInv ==
  /\ TypeOK
  /\ Ended => ~held /\ ~watch /\ ~ExitIn(queue)
  /\ held => Settled /\ (watch \/ ExitIn(queue))
  /\ ~May("watch") =>
       /\ ExitIn(queue) => ~box.up
       /\ Settled /\ box.up => held

LEMMA GoneHolds == Gone => pc' = "down" /\ ~held' /\ ~watch' /\ ~ExitIn(queue)'
BY NothingIn DEF Gone

LEMMA HBoot ==
  ASSUME HInv, TypeOK',
         StartOk \/ StartFails \/ StartInTheWay \/ Save \/ BootAdopt \/ BootInstall
           \/ BootFails \/ Boot
  PROVE  HInv'
<1> USE DEF HInv, Ended, Settled, May
<1>1. CASE StartOk
  <2>1. ~ExitIn(queue)'
    BY <1>1, MovedOn DEF StartOk, TypeOK
  <2> QED
    BY <1>1, <2>1 DEF StartOk, stateFile
<1>2. CASE StartFails \/ StartInTheWay \/ BootFails
  BY <1>2, GoneHolds DEF StartFails, StartInTheWay, BootFails, stateFile
<1>3. CASE Save
  BY <1>3 DEF Save, Saved, threadVars
<1>4. CASE BootAdopt
  <2>1. UNCHANGED given
    BY <1>4 DEF BootAdopt, Saved
  <2> QED
    BY <1>4, <2>1 DEF BootAdopt
<1>5. CASE BootInstall
  BY <1>5, BoxesAre DEF BootInstall, threadVars, stateFile
<1>6. CASE Boot
  BY <1>6 DEF Boot, threadVars, stateFile
<1> QED
  BY <1>1, <1>2, <1>3, <1>4, <1>5, <1>6

LEMMA HLoop ==
  ASSUME HInv, TypeOK',
         \/ ExitStale \/ ExitClean \/ ExitWhileDownloading
         \/ \E quick, hasImage \in BOOLEAN : ExitCrash(quick, hasImage)
         \/ ReadyNone \/ ReadySome \/ HandleShutdown
         \/ Timeout \/ TimedDownloading \/ TimedRestart \/ TimedCheck
  PROVE  HInv'
<1> USE DEF HInv, Ended, Settled, May
<1>0. \A type : Takes(type) =>
        /\ pc = "wait" /\ Head(queue).type = type
        /\ ExitIn(Tail(queue)) => ExitIn(queue)
        /\ ExitIn(queue) => ExitIn(Tail(queue)) \/ (type = "exit" /\ Head(queue).mine)
        /\ type = "exit" /\ Head(queue).mine => ExitIn(queue)
  BY Taken DEF Takes, TypeOK
<1>1. CASE ExitStale
  BY <1>0, <1>1 DEF ExitStale, loopVars, stateFile
<1>2. CASE ExitClean
  BY <1>2, GoneHolds DEF ExitClean, stateFile
<1>3. CASE ExitWhileDownloading
  BY <1>0, <1>3 DEF ExitWhileDownloading, stateFile
<1>4. ASSUME NEW quick \in BOOLEAN, NEW hasImage \in BOOLEAN, ExitCrash(quick, hasImage)
      PROVE  HInv'
  <2>1. /\ queue' = Tail(queue) /\ held' = FALSE /\ pc' \in {"wait", "save"}
        /\ UNCHANGED <<given, watch, box>> /\ ExitIn(queue)
    BY <1>0, <1>4 DEF ExitCrash, Takes, stateFile
  <2> QED
    BY <1>0, <1>4, <2>1 DEF ExitCrash
<1>5. CASE ReadyNone
  BY <1>0, <1>5 DEF ReadyNone, stateFile
<1>6. CASE ReadySome
  <2>1. ~May("watch") => ~ExitIn(queue)' \/ ~box'.up
    <3>1. CASE held
      <4>1. queue' = Outdated(Tail(queue)) /\ Tail(queue) \in Seq(Events)
        BY <1>6, <3>1, Taken DEF ReadySome, Takes, TypeOK
      <4> QED
        BY <4>1, MovedOn
    <3>2. CASE ~held
      BY <1>0, <1>6, <3>2 DEF ReadySome
    <3> QED
      BY <3>1, <3>2
  <2>2. held' = FALSE /\ pc' = "save" /\ UNCHANGED given
    BY <1>6 DEF ReadySome, stateFile
  <2> QED
    BY <2>1, <2>2
<1>7. CASE HandleShutdown
  BY <1>7, GoneHolds DEF HandleShutdown, stateFile
<1>8. CASE Timeout \/ TimedDownloading
  BY <1>8 DEF Timeout, TimedDownloading, threadVars, stateFile
<1>9. CASE TimedRestart
  BY <1>9 DEF TimedRestart, threadVars, stateFile
<1>10. CASE TimedCheck
  BY <1>10 DEF TimedCheck, stateFile
<1> QED
  BY <1>1, <1>2, <1>3, <1>4, <1>5, <1>6, <1>7, <1>8, <1>9, <1>10

LEMMA HAround ==
  ASSUME HInv, TypeOK',
         \/ \E ok \in BOOLEAN : CheckDecides(ok)
         \/ CheckSends \/ CheckDies \/ WatcherReports \/ StaleReports \/ Interrupt \/ Die
         \/ \E clean \in BOOLEAN : BoxExits(clean)
         \/ \E d \in Images : Publish(d)
  PROVE  HInv'
<1> USE DEF HInv, Ended, Settled, May
<1>1. CASE \/ \E ok \in BOOLEAN : CheckDecides(ok)
           \/ CheckDies \/ \E d \in Images : Publish(d)
  BY <1>1 DEF CheckDecides, CheckDies, Publish, loopVars, stateFile, threadVars
<1>2. CASE CheckSends
  <2>1. ExitIn(queue)' <=> ExitIn(queue)
    <3>1. [type |-> "ready", found |-> check.found] \in Events
      BY <1>2, ChecksAre, EventsAre DEF CheckSends, TypeOK
    <3> QED
      BY <1>2, <3>1, Sent DEF CheckSends, TypeOK
  <2> QED
    BY <1>2, <2>1 DEF CheckSends, loopVars, stateFile
<1>3. CASE WatcherReports
  <2>1. PICK ok \in BOOLEAN :
          /\ (~box.up /\ ok = box.clean) \/ (May("watch") /\ ~ok)
          /\ queue' = Append(queue, [type |-> "exit", mine |-> TRUE, success |-> ok])
    BY <1>3 DEF WatcherReports
  <2>2. [type |-> "exit", mine |-> TRUE, success |-> ok] \in Events
    BY EventsAre
  <2>3. ExitIn(queue)'
    BY <2>1, <2>2, Sent DEF TypeOK
  <2>4. ~Ended
    BY <1>3 DEF WatcherReports
  <2> QED
    BY <1>3, <2>1, <2>3, <2>4 DEF WatcherReports, loopVars, stateFile
<1>4. CASE StaleReports
  <2>1. PICK ok \in BOOLEAN :
          queue' = Append(queue, [type |-> "exit", mine |-> FALSE, success |-> ok])
    BY <1>4 DEF StaleReports
  <2>2. [type |-> "exit", mine |-> FALSE, success |-> ok] \in Events
    BY EventsAre
  <2>3. ExitIn(queue)' <=> ExitIn(queue)
    BY <2>1, <2>2, Sent DEF TypeOK
  <2> QED
    BY <1>4, <2>3 DEF StaleReports, loopVars, stateFile
<1>5. CASE Interrupt
  <2>1. ExitIn(queue)' <=> ExitIn(queue)
    BY <1>5, EventsAre, Sent DEF Interrupt, TypeOK
  <2> QED
    BY <1>5, <2>1 DEF Interrupt, loopVars, stateFile
<1>6. CASE Die
  BY <1>6, GoneHolds DEF Die, stateFile
<1>7. ASSUME NEW clean \in BOOLEAN, BoxExits(clean) PROVE HInv'
  <2>1. ~box'.up
    BY <1>7, BoxesAre DEF BoxExits, TypeOK
  <2> QED
    BY <1>7, <2>1 DEF BoxExits, loopVars, stateFile, threadVars
<1> QED
  BY <1>1, <1>2, <1>3, <1>4, <1>5, <1>6, <1>7

LEMMA HInit == Init => HInv
BY TypeInit, NothingIn, BoxesAre DEF Init, HInv, Ended, Settled

LEMMA HStep == HInv /\ [Next]_vars => HInv'
<1> SUFFICES ASSUME HInv, [Next]_vars PROVE HInv'
  OBVIOUS
<1>0. TypeOK'
  BY TypeStep DEF HInv
<1>1. CASE UNCHANGED vars
  BY <1>0, <1>1 DEF HInv, Ended, Settled, May, vars, loopVars, stateFile, threadVars
<1> QED
  BY <1>0, <1>1, HBoot, HLoop, HAround DEF Next, Loop, Check

LEMMA HHolds == Spec => []HInv
BY HInit, HStep, PTL DEF Spec, SafeSpec

\* While the loop waits, a running container is the one it holds, and the end of
\* the one it holds is on its way to it: from a watcher, or in the channel.
THEOREM HeldIsTrueHolds == Spec => []HeldIsTrue
<1>1. HInv => HeldIsTrue
  BY DEF HInv, HeldIsTrue, ExitIn
<1> QED
  BY <1>1, HHolds, PTL

-----------------------------------------------------------------------------
(* RunsInstalled: what it runs *)

\* The file has the state in memory from the save before a start until the next
\* change.  A container that outlives ceroboot runs what the file says, because the
\* state only changes when none is held, and one that runs then and outlives it was
\* taken for gone.
RInv ==
  ~unsaved /\ ~abandoned =>
    /\ pc \in {"wait", "timed", "start"} => disk = st
    /\ held => box.img = st.installed
    /\ Ended /\ May("dies") /\ box.up /\ disk.installed # None => box.img = disk.installed
    /\ pc = "boot" /\ ~May("dies") => ~box.up

LEMMA SavedHolds ==
  ASSUME NEW s, Saved(s)
  PROVE  /\ unsaved => unsaved'
         /\ ~unsaved' => disk' = s
         /\ UNCHANGED given
BY DEF Saved

\* When ceroboot ends and leaves the container, what holds of the loop's state
\* holds of the file.
LEMMA REnd ==
  ASSUME HInv, RInv, Gone, UNCHANGED stateFile,
         \/ Abandon /\ (~box'.up \/ box' = box)
         \/ UNCHANGED abandoned /\ (pc = "start" /\ (~box'.up \/ box'.img = st.installed))
         \/ UNCHANGED abandoned /\ Ended /\ (~box'.up \/ box' = box)
  PROVE  RInv'
<1> SUFFICES ASSUME ~unsaved, ~abandoned', May("dies"), box'.up
             PROVE  disk.installed # None => box'.img = disk.installed
  BY GoneHolds DEF RInv, May, Ended, stateFile
<1>0. ~abandoned
  BY DEF Abandon
<1>1. CASE pc = "start" /\ box'.img = st.installed
  BY <1>0, <1>1 DEF RInv
<1>2. CASE box' = box /\ Ended
  BY <1>0, <1>2 DEF RInv
<1>3. CASE box' = box /\ ~Ended /\ Abandon
  <2>1. held /\ pc \in {"wait", "timed"}
    BY <1>3 DEF HInv, Abandon, Ended, Settled
  <2> QED
    BY <1>0, <1>3, <2>1 DEF RInv
<1> QED
  BY <1>1, <1>2, <1>3 DEF Ended

LEMMA RBoot ==
  ASSUME HInv, RInv, HInv',
         StartOk \/ StartFails \/ StartInTheWay \/ Save \/ BootAdopt \/ BootInstall
           \/ BootFails \/ Boot
  PROVE  RInv'
<1>1. CASE StartOk
  BY <1>1 DEF StartOk, RInv, May, Ended, stateFile
<1>2. CASE StartFails
  <2>1. ~box'.up \/ box'.img = st.installed
    BY <1>2, BoxesAre DEF StartFails
  <2> QED
    BY <1>2, <2>1, REnd DEF StartFails, stateFile
<1>8. CASE StartInTheWay
  BY <1>8, REnd DEF StartInTheWay, stateFile
<1>3. CASE Save
  <2>1. ~held
    BY <1>3 DEF Save, HInv, Settled
  <2> QED
    BY <1>3, <2>1, SavedHolds DEF Save, RInv, May, Ended, threadVars
<1>4. CASE BootAdopt
  <2> DEFINE s == IF disk.installed = None THEN [disk EXCEPT !.installed = box.img] ELSE disk
  <2>1. st' = s /\ Saved(s)
    BY <1>4 DEF BootAdopt
  <2>2. disk.installed = None => s.installed = box.img
    BY DEF HInv, TypeOK, State
  <2>3. disk.installed # None => s.installed = disk.installed
    OBVIOUS
  <2> HIDE DEF s
  <2>4. /\ unsaved => unsaved'
        /\ ~unsaved' => disk' = s
        /\ UNCHANGED given
    BY <2>1, SavedHolds
  <2>5. pc = "boot" /\ pc' = "wait" /\ box.up /\ box' = box
    BY <1>4 DEF BootAdopt, Adopts
  <2>6. UNCHANGED abandoned
    BY <1>4 DEF BootAdopt
  <2> QED
    BY <2>1, <2>2, <2>3, <2>4, <2>5, <2>6 DEF RInv, May, Ended
<1>5. CASE BootInstall
  <2>1. ~held
    BY <1>5 DEF BootInstall, HInv, Ended
  <2> QED
    BY <1>5, <2>1 DEF BootInstall, RInv, May, Ended, stateFile
<1>6. CASE BootFails
  <2>1. ~box'.up \/ box' = box
    BY <1>6, BoxesAre DEF BootFails
  <2> QED
    BY <1>6, <2>1, REnd DEF BootFails, Ended, stateFile
<1>7. CASE Boot
  BY <1>7 DEF Boot, RInv, May, Ended, threadVars, stateFile, HInv
<1> QED
  BY <1>1, <1>2, <1>3, <1>4, <1>5, <1>6, <1>7, <1>8

LEMMA RLoop ==
  ASSUME HInv, RInv, HInv',
         \/ ExitStale \/ ExitClean \/ ExitWhileDownloading
         \/ \E quick, hasImage \in BOOLEAN : ExitCrash(quick, hasImage)
         \/ ReadyNone \/ ReadySome \/ HandleShutdown
         \/ Timeout \/ TimedDownloading \/ TimedRestart \/ TimedCheck
  PROVE  RInv'
<1>1. CASE ExitStale
  BY <1>1 DEF ExitStale, RInv, May, Ended, loopVars, stateFile
<1>2. CASE ExitClean
  BY <1>2, REnd DEF ExitClean, Takes, stateFile
<1>3. CASE ExitWhileDownloading
  BY <1>3 DEF ExitWhileDownloading, Takes, RInv, May, Ended, stateFile
<1>4. ASSUME NEW quick \in BOOLEAN, NEW hasImage \in BOOLEAN, ExitCrash(quick, hasImage)
      PROVE  RInv'
  <2>1. /\ pc = "wait" /\ held' = FALSE /\ UNCHANGED <<given, disk, unsaved, abandoned, box>>
        /\ pc' = "save" \/ (pc' = "wait" /\ st' = st)
    BY <1>4 DEF ExitCrash, Takes, stateFile
  <2> QED
    BY <2>1 DEF RInv, May, Ended
<1>5. CASE ReadyNone
  BY <1>5 DEF ReadyNone, Takes, RInv, May, Ended, stateFile
<1>6. CASE ReadySome
  BY <1>6 DEF ReadySome, RInv, May, Ended, stateFile
<1>7. CASE HandleShutdown
  <2>1. ~box'.up \/ box' = box
    BY <1>7, BoxesAre DEF HandleShutdown, After, HInv, TypeOK
  <2> QED
    BY <1>7, <2>1, REnd DEF HandleShutdown, Takes, stateFile
<1>8. CASE Timeout \/ TimedDownloading
  BY <1>8 DEF Timeout, TimedDownloading, RInv, May, Ended, threadVars, stateFile
<1>9. CASE TimedRestart
  BY <1>9 DEF TimedRestart, RInv, May, Ended, threadVars, stateFile
<1>10. CASE TimedCheck
  BY <1>10 DEF TimedCheck, RInv, May, Ended, stateFile
<1> QED
  BY <1>1, <1>2, <1>3, <1>4, <1>5, <1>6, <1>7, <1>8, <1>9, <1>10

LEMMA RAround ==
  ASSUME HInv, RInv, HInv',
         \/ \E ok \in BOOLEAN : CheckDecides(ok)
         \/ CheckSends \/ CheckDies \/ WatcherReports \/ StaleReports \/ Interrupt \/ Die
         \/ \E clean \in BOOLEAN : BoxExits(clean)
         \/ \E d \in Images : Publish(d)
  PROVE  RInv'
<1>1. CASE \/ \E ok \in BOOLEAN : CheckDecides(ok)
           \/ CheckSends \/ CheckDies \/ WatcherReports \/ StaleReports \/ Interrupt
           \/ \E d \in Images : Publish(d)
  <2>1. UNCHANGED <<loopVars, st, stateFile, abandoned, box>>
    BY <1>1 DEF CheckDecides, CheckSends, CheckDies, WatcherReports, StaleReports, Interrupt,
                Publish
  <2> QED
    BY <2>1 DEF RInv, May, Ended, loopVars, stateFile
<1>2. CASE Die
  BY <1>2, REnd DEF Die, stateFile
<1>3. ASSUME NEW clean \in BOOLEAN, BoxExits(clean) PROVE RInv'
  <2>1. ~box'.up /\ box'.img = box.img
    BY <1>3, BoxesAre DEF BoxExits, HInv, TypeOK
  <2> QED
    BY <1>3, <2>1 DEF BoxExits, RInv, May, Ended, loopVars, stateFile
<1> QED
  BY <1>1, <1>2, <1>3

LEMMA RInit == Init => RInv
BY BoxesAre DEF Init, RInv, Ended

LEMMA RStep == HInv /\ RInv /\ [Next]_vars => RInv'
<1> SUFFICES ASSUME HInv, RInv, [Next]_vars PROVE RInv'
  OBVIOUS
<1>0. HInv'
  BY HStep
<1>1. CASE UNCHANGED vars
  BY <1>1 DEF RInv, Ended, May, vars, loopVars, stateFile
<1> QED
  BY <1>0, <1>1, RBoot, RLoop, RAround DEF Next, Loop, Check

LEMMA RHolds == Spec => []RInv
BY HHolds, RInit, RStep, PTL DEF Spec, SafeSpec

\* The container that is held runs the installed image, also after any number of
\* deaths and adoptions of ceroboot and failures of docker, as long as ceroboot left
\* none behind that it took for gone and its state was saved.
THEOREM RunsInstalledHolds == Spec => []RunsInstalled
<1>1. RInv => RunsInstalled
  BY DEF RInv, RunsInstalled
<1> QED
  BY <1>1, RHolds, PTL

-----------------------------------------------------------------------------
(* BadStaysOut: what a check may answer *)

\* What a check may report while the state is s
Acceptable(s) == {None} \cup {d \in Digest : d \notin {s.installed, s.bad}}

\* There is one check at a time, from its start until its answer is taken the loop
\* counts as downloading, and while it does the state does not change: what was
\* compared with the state is still right when it is installed.
BInv ==
  ~May("dies") /\ ~May("late") =>
    /\ st.bad # None => st.installed # st.bad
    /\ st.previous # None => st.previous # st.installed
    /\ pc = "boot" => booting /\ disk = Fresh /\ ~box.up
    /\ Settled => ~booting
    /\ booting \/ Ended \/ pc = "timed" => NoReady(queue)
    /\ booting \/ Ended => check = NoCheck
    /\ check # NoCheck \/ ~NoReady(queue) => downloading
    /\ check # NoCheck => NoReady(queue)
    /\ OneReady(queue) /\ Answers(queue, Acceptable(st))
    /\ check.at = "found" => check.found \in Acceptable(st)

LEMMA BGone ==
  ASSUME Gone, UNCHANGED stateFile
  PROVE  BInv'
BY NothingIn, ChecksAre DEF Gone, BInv, Ended, Settled, May, stateFile, Fresh

LEMMA BBoot ==
  ASSUME HInv, BInv, HInv',
         StartOk \/ StartFails \/ StartInTheWay \/ Save \/ BootAdopt \/ BootInstall
           \/ BootFails \/ Boot
  PROVE  BInv'
<1> USE DEF BInv, May, Ended, Settled
<1>1. CASE StartOk
  <2>1. queue \in Seq(Events) /\ queue' = Outdated(queue) /\ st' = st /\ booting \in BOOLEAN
    BY <1>1 DEF StartOk, HInv, TypeOK
  <2>2. /\ NoReady(queue)' <=> NoReady(queue)
        /\ OneReady(queue) => OneReady(queue)'
        /\ Answers(queue, Acceptable(st)) => Answers(queue, Acceptable(st))'
    BY <2>1, MovedOn
  <2>3. check' = IF booting THEN Pulling ELSE check
    BY <1>1 DEF StartOk
  <2> QED
    BY <1>1, <2>1, <2>2, <2>3, ChecksAre DEF StartOk, stateFile
<1>2. CASE StartFails \/ StartInTheWay \/ BootFails
  BY <1>2, BGone DEF StartFails, StartInTheWay, BootFails
<1>3. CASE Save
  BY <1>3 DEF Save, Saved, threadVars
<1>4. CASE BootAdopt
  <2>1. May("dies") \/ May("late")
    BY <1>4 DEF BootAdopt, Adopts
  <2>2. UNCHANGED given
    BY <1>4 DEF BootAdopt, Saved
  <2> QED
    BY <2>1, <2>2
<1>5. CASE BootInstall
  <2>1. SUFFICES ASSUME ~May("dies"), ~May("late") PROVE BInv'
    BY <1>5 DEF BootInstall, stateFile
  <2>2. NoReady(queue) /\ disk = Fresh /\ check = NoCheck
    BY <1>5, <2>1 DEF BootInstall
  <2>3. Answers(queue, Acceptable(st))'
    BY <1>5, <2>2 DEF BootInstall, threadVars, NoReady, Answers
  <2>4. st'.bad = None /\ st'.previous = None
    BY <1>5, <2>2 DEF BootInstall, Fresh
  <2> QED
    BY <1>5, <2>1, <2>2, <2>3, <2>4, ChecksAre DEF BootInstall, threadVars, stateFile
<1>6. CASE Boot
  BY <1>6 DEF Boot, threadVars, stateFile
<1> QED
  BY <1>1, <1>2, <1>3, <1>4, <1>5, <1>6

LEMMA BLoop ==
  ASSUME HInv, BInv, HInv',
         \/ ExitStale \/ ExitClean \/ ExitWhileDownloading
         \/ \E quick, hasImage \in BOOLEAN : ExitCrash(quick, hasImage)
         \/ ReadyNone \/ ReadySome \/ HandleShutdown
         \/ Timeout \/ TimedDownloading \/ TimedRestart \/ TimedCheck
  PROVE  BInv'
<1> USE DEF BInv, May, Ended, Settled
<1>0. ASSUME NEW type, Takes(type)
      PROVE  /\ pc = "wait" /\ Head(queue).type = type /\ Head(queue) \in Events
             /\ Tail(queue) \in Seq(Events)
             /\ NoReady(queue) => NoReady(Tail(queue))
             /\ OneReady(queue) => OneReady(Tail(queue))
             /\ type = "ready" => ~NoReady(queue)
             /\ OneReady(queue) /\ type = "ready" => NoReady(Tail(queue))
             /\ type # "ready" /\ ~NoReady(queue) => ~NoReady(Tail(queue))
             /\ Answers(queue, Acceptable(st)) =>
                  /\ Answers(Tail(queue), Acceptable(st))
                  /\ type = "ready" => Head(queue).found \in Acceptable(st)
  BY <1>0, Taken DEF Takes, HInv, TypeOK
<1>1. CASE ExitStale
  <2>1. Takes("exit")
    BY <1>1 DEF ExitStale
  <2> QED
    BY <1>0, <1>1, <2>1 DEF ExitStale, loopVars, stateFile
<1>2. CASE ExitClean \/ HandleShutdown
  BY <1>2, BGone DEF ExitClean, HandleShutdown
<1>3. CASE ExitWhileDownloading
  <2>1. Takes("exit")
    BY <1>3 DEF ExitWhileDownloading
  <2> QED
    BY <1>0, <1>3, <2>1 DEF ExitWhileDownloading, stateFile
<1>4. ASSUME NEW quick \in BOOLEAN, NEW hasImage \in BOOLEAN, ExitCrash(quick, hasImage)
      PROVE  BInv'
  <2>1. SUFFICES ASSUME ~May("dies"), ~May("late") PROVE BInv'
    BY <1>4 DEF ExitCrash, stateFile
  <2>2. Takes("exit") /\ ~downloading
    BY <1>4 DEF ExitCrash
  <2>3. NoReady(queue) /\ check = NoCheck
    BY <2>1, <2>2
  <2>4. /\ queue' = Tail(queue) /\ pc' \in {"wait", "save"}
        /\ UNCHANGED <<booting, given, disk, downloading, check, box>>
        /\ \/ st' = st
           \/ /\ st.previous # None
              /\ st' = [installed |-> st.previous, previous |-> None, bad |-> st.installed]
    BY <1>4, <2>2 DEF ExitCrash, stateFile, Takes
  <2>5. NoReady(queue)' /\ OneReady(queue)' /\ Answers(queue, Acceptable(st))'
    BY <1>0, <2>2, <2>3, <2>4 DEF NoReady, OneReady, Answers
  <2>6. /\ st'.bad # None => st'.installed # st'.bad
        /\ st'.previous # None => st'.previous # st'.installed
    BY <2>1, <2>4
  <2>7. ~booting' /\ pc' \in {"wait", "save"}
    BY <2>1, <2>2, <2>4 DEF Takes
  <2>8. check' = NoCheck /\ check'.at # "found"
    BY <2>3, <2>4, ChecksAre
  <2> QED
    BY <2>5, <2>6, <2>7, <2>8
<1>5. CASE ReadyNone
  <2>1. Takes("ready")
    BY <1>5 DEF ReadyNone
  <2>2. pc = "wait" /\ pc' \in {"wait", "start"}
    BY <1>5, <2>1 DEF ReadyNone, Takes
  <2>3. /\ queue' = Tail(queue) /\ downloading' = FALSE
        /\ UNCHANGED <<booting, st, disk, given, check, box>>
    BY <1>5 DEF ReadyNone, stateFile
  <2>4. ~May("dies") /\ ~May("late") =>
          /\ check = NoCheck /\ ~booting
          /\ NoReady(Tail(queue)) /\ OneReady(Tail(queue))
          /\ Answers(Tail(queue), Acceptable(st))
    BY <1>0, <2>1, <2>2
  <2> QED
    BY <2>2, <2>3, <2>4
<1>6. CASE ReadySome
  <2>1. SUFFICES ASSUME ~May("dies"), ~May("late") PROVE BInv'
    BY <1>6 DEF ReadySome, stateFile
  <2>2. Takes("ready")
    BY <1>6 DEF ReadySome
  <2>3. /\ Head(queue).found \in Acceptable(st) /\ Head(queue).found # None
        /\ check = NoCheck /\ NoReady(Tail(queue)) /\ Tail(queue) \in Seq(Events)
        /\ Head(queue).found \in Digest
    BY <1>0, <1>6, <2>1, <2>2, EventsAre DEF ReadySome
  <2>4. st' = [st EXCEPT !.previous = st.installed, !.installed = Head(queue).found]
    BY <1>6 DEF ReadySome
  <2>5. st'.installed = Head(queue).found /\ st'.previous = st.installed /\ st'.bad = st.bad
    BY <2>4 DEF HInv, TypeOK, State
  <2>6. /\ st'.bad # None => st'.installed # st'.bad
        /\ st'.previous # None => st'.previous # st'.installed
    BY <2>3, <2>5 DEF Acceptable
  <2>7. NoReady(queue)'
    BY <1>6, <2>3, MovedOn DEF ReadySome
  <2>8. OneReady(queue)' /\ Answers(queue, Acceptable(st))'
    BY <2>7 DEF NoReady, OneReady, Answers
  <2>9. pc' = "save" /\ check' = check /\ UNCHANGED <<booting, given, disk>>
    BY <1>6 DEF ReadySome, stateFile
  <2> QED
    BY <2>1, <2>3, <2>6, <2>7, <2>8, <2>9, ChecksAre
<1>7. CASE Timeout
  BY <1>7, NothingIn DEF Timeout, threadVars, stateFile
<1>8. CASE TimedDownloading
  BY <1>8 DEF TimedDownloading, threadVars, stateFile
<1>9. CASE TimedRestart
  <2>1. check = NoCheck \/ May("dies") \/ May("late")
    BY <1>9 DEF TimedRestart, HInv, TypeOK
  <2>2. pc' \in {"start", "wait"}
    BY <1>9 DEF TimedRestart
  <2> QED
    BY <1>9, <2>1, <2>2 DEF TimedRestart, threadVars, stateFile
<1>10. CASE TimedCheck
  <2>1. /\ pc = "timed" /\ pc' = "wait" /\ downloading' = TRUE /\ check' = Pulling
        /\ UNCHANGED <<booting, st, disk, given, queue, box>>
    BY <1>10 DEF TimedCheck, stateFile
  <2>2. check'.at # "found"
    BY <2>1, ChecksAre
  <2>3. ~May("dies") /\ ~May("late") => NoReady(queue) /\ ~booting
    BY <1>10, ChecksAre DEF TimedCheck, HInv, TypeOK
  <2> QED
    BY <2>1, <2>2, <2>3
<1> QED
  BY <1>1, <1>2, <1>3, <1>4, <1>5, <1>6, <1>7, <1>8, <1>9, <1>10

LEMMA BAround ==
  ASSUME HInv, BInv, HInv',
         \/ \E ok \in BOOLEAN : CheckDecides(ok)
         \/ CheckSends \/ CheckDies \/ WatcherReports \/ StaleReports \/ Interrupt \/ Die
         \/ \E clean \in BOOLEAN : BoxExits(clean)
         \/ \E d \in Images : Publish(d)
  PROVE  BInv'
<1> USE DEF BInv, May, Ended, Settled
<1>1. ASSUME NEW ok \in BOOLEAN, CheckDecides(ok) PROVE BInv'
  <2>1. check'.at = "found" /\ check'.found \in Acceptable(st)
    BY <1>1, StatesAre DEF CheckDecides, Acceptable, HInv, TypeOK
  <2>2. check # NoCheck
    BY <1>1, ChecksAre DEF CheckDecides
  <2> QED
    BY <1>1, <2>1, <2>2 DEF CheckDecides, loopVars, stateFile
<1>2. CASE CheckSends
  <2> DEFINE e == [type |-> "ready", found |-> check.found]
  <2>1. e \in Events /\ e.type = "ready" /\ e.found = check.found
    BY <1>2, ChecksAre, EventsAre DEF CheckSends, HInv, TypeOK
  <2>2. queue' = Append(queue, e) /\ queue \in Seq(Events)
    BY <1>2 DEF CheckSends, HInv, TypeOK
  <2>3. check # NoCheck
    BY <1>2, ChecksAre DEF CheckSends, HInv, TypeOK
  <2> HIDE DEF e
  <2>4. /\ OneReady(queue) /\ NoReady(queue) => OneReady(queue')
        /\ Answers(queue, Acceptable(st)) /\ e.found \in Acceptable(st)
             => Answers(queue', Acceptable(st))
    BY <2>1, <2>2, Sent
  <2> QED
    BY <1>2, <2>1, <2>2, <2>3, <2>4, ChecksAre DEF CheckSends, loopVars, stateFile
<1>3. CASE CheckDies
  <2>1. check' = NoCheck /\ UNCHANGED <<loopVars, st, stateFile, downloading, queue, box>>
    BY <1>3 DEF CheckDies
  <2>2. NoCheck.at # "found"
    BY ChecksAre
  <2> QED
    BY <2>1, <2>2 DEF loopVars, stateFile
<1>4. CASE WatcherReports \/ StaleReports \/ Interrupt
  <2>1. PICK e \in Events : queue' = Append(queue, e) /\ e.type # "ready"
    <3>1. CASE Interrupt
      BY <3>1, EventsAre DEF Interrupt
    <3>2. ASSUME NEW ok \in BOOLEAN, NEW m \in BOOLEAN,
                 queue' = Append(queue, [type |-> "exit", mine |-> m, success |-> ok])
          PROVE  \E e \in Events : queue' = Append(queue, e) /\ e.type # "ready"
      BY <3>2, EventsAre
    <3> QED
      BY <1>4, <3>1, <3>2 DEF WatcherReports, StaleReports
  <2>2. /\ NoReady(queue)' <=> NoReady(queue)
        /\ OneReady(queue) => OneReady(queue)'
        /\ Answers(queue, Acceptable(st)) => Answers(queue', Acceptable(st))
    BY <2>1, Sent DEF HInv, TypeOK
  <2>3. UNCHANGED <<loopVars, st, stateFile, downloading, check, box>>
    BY <1>4 DEF WatcherReports, StaleReports, Interrupt
  <2> QED
    BY <2>2, <2>3 DEF loopVars, stateFile
<1>5. CASE Die
  BY <1>5, BGone DEF Die
<1>6. ASSUME NEW clean \in BOOLEAN, BoxExits(clean) PROVE BInv'
  <2>1. ~box'.up
    BY <1>6, BoxesAre DEF BoxExits, HInv, TypeOK
  <2> QED
    BY <1>6, <2>1 DEF BoxExits, loopVars, stateFile, threadVars
<1>7. CASE \E d \in Images : Publish(d)
  BY <1>7 DEF Publish, loopVars, stateFile, threadVars
<1> QED
  BY <1>1, <1>2, <1>3, <1>4, <1>5, <1>6, <1>7

LEMMA BInit == Init => BInv
<1> SUFFICES ASSUME Init PROVE BInv
  OBVIOUS
<1>1. NoReady(queue) /\ OneReady(queue) /\ Answers(queue, Acceptable(st))
  BY NothingIn DEF Init
<1>2. st.bad = None /\ st.previous = None /\ ~box.up /\ check.at # "found"
  BY BoxesAre, ChecksAre DEF Init, Fresh
<1> QED
  BY <1>1, <1>2 DEF Init, BInv, Settled

LEMMA BStep == HInv /\ BInv /\ [Next]_vars => BInv'
<1> SUFFICES ASSUME HInv, BInv, [Next]_vars PROVE BInv'
  OBVIOUS
<1>0. HInv'
  BY HStep
<1>1. CASE UNCHANGED vars
  BY <1>1 DEF BInv, Ended, Settled, May, vars, loopVars, stateFile, threadVars
<1> QED
  BY <1>0, <1>1, BBoot, BLoop, BAround DEF Next, Loop, Check

LEMMA BHolds == Spec => []BInv
BY HHolds, BInit, BStep, PTL DEF Spec, SafeSpec

\* The image that was found bad is not installed again and a rollback changes the
\* image, although the comparison is made by another thread than the installation.
THEOREM BadStaysOutHolds == Spec => []BadStaysOut
<1>1. BInv => BadStaysOut
  BY DEF BInv, BadStaysOut
<1> QED
  BY <1>1, BHolds, PTL

=============================================================================
