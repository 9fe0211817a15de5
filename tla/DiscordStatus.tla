---------------------------- MODULE DiscordStatus ---------------------------
(***************************************************************************)
(* The status the launcher shows on Discord (discord/discord_rpc.c,        *)
(* discord/rpc_helpers.c), and who sets it: the thread that connects       *)
(* (app.c), the page's requests about the account, a launch thread when    *)
(* its game has ended (process_step.c), and the bridge thread for the      *)
(* lines the game sends (ipc/bridge).                                      *)
(*                                                                         *)
(* An update is two writes, a header and a body, under a lock; the         *)
(* handshake of the connecting thread and the shutdown take no lock, and   *)
(* the socket counts as valid from the moment it is made.  POSIX: answers  *)
(* are not read.  A write to a Discord that left fails, GLib having        *)
(* SIGPIPE ignored; nobody connects again.                                 *)
(***************************************************************************)
EXTENDS Naturals, Sequences

CONSTANTS
    MaxGames,   \* bound: games played
    MaxLines,   \* bound: lines on their way from the game
    MaxAsks     \* bound: requests of the page

ASSUME StatusAssumption == /\ MaxGames \in Nat /\ MaxAsks \in Nat
                           /\ MaxLines \in Nat \ {0}

(* The threads.                                                            *)
Start == "start"
Page == "page"
Launch == "launch"
Bridge == "bridge"
Threads == {Start, Page, Launch, Bridge}

Games == 1..MaxGames
None == 0
Nobody == "nobody"

(* What is shown; of a game, which one it is and the player's name, known  *)
(* by the number of the game that gave it.                                 *)
Own(s) == [is |-> s, of |-> None, name |-> None]
Blank == Own("nothing")
InGame(g, n) == [is |-> "game", of |-> g, name |-> n]
Statuses == [is : {"nothing", "launching", "login", "idle", "game"},
             of : Games \cup {None}, name : Games \cup {None}]

(* What a line of the game asks for.                                       *)
Words == {"hello", "discord", "clear", "other"}

VARIABLES
    sock,       \* g_sock: none, made, up
    lock,       \* who holds g_rpc_lock
    pc,         \* where each thread is in its update
    want,       \* the status it sends
    discord,    \* off, fresh, ready, broken: what Discord makes of the wire
    half,       \* whose header arrived without its body
    shown,      \* the status Discord shows
    mc_name,    \* g_mc_name and g_head_key: the player's name
    game,       \* the game that runs
    games,      \* how many there were
    lines,      \* what the game has sent and the bridge has not read
    asks,       \* requests of the page so far
    early,      \* history: updates that began before the start had ended,
                \* on a socket that the handshake goes over, or otherwise
    late,       \* history: a game ended before its lines had been read
    named       \* history: games that gave the player's name

connection == <<sock, lock, discord, half, shown>>
player == <<mc_name, game, games, lines, asks, named, late>>
statusVars == <<connection, pc, want, player, early>>

StatusTypeOK ==
    /\ sock \in {"none", "made", "up"} /\ lock \in Threads \cup {Nobody}
    /\ pc \in [Threads -> {"off", "made", "hello", "hello2", "idle", "enter",
                           "header", "body"}]
    /\ want \in [Threads -> Statuses]
    /\ discord \in {"off", "fresh", "ready", "broken"}
    /\ half \in Threads \cup {Nobody} /\ shown \in Statuses
    /\ mc_name \in Games \cup {None} /\ game \in Games \cup {None}
    /\ games \in 0..MaxGames /\ asks \in 0..MaxAsks
    /\ lines \in Seq([by : Games, is : Words]) /\ Len(lines) <= MaxLines
    /\ early \subseteq {"mixed", "covered"} /\ late \in BOOLEAN /\ named \subseteq Games

StatusInit ==
    /\ sock = "none" /\ lock = Nobody /\ discord \in {"off", "fresh"}
    /\ half = Nobody /\ shown = Blank
    /\ pc = [t \in Threads |-> IF t = Start THEN "off" ELSE "idle"]
    /\ want = [t \in Threads |-> Blank]
    /\ mc_name = None /\ game = None /\ games = 0 /\ lines = <<>> /\ asks = 0
    /\ early = {} /\ late = FALSE /\ named = {}

Goto(t, s) == pc' = [pc EXCEPT ![t] = s]

-----------------------------------------------------------------------------
(* The wire.                                                               *)

(* Discord reads a header and then its body, the handshake first.  It      *)
(* closes a connection on which it reads anything else.                    *)
Arrives(t, part) ==
    LET whole == part = "body" /\ half = t
    IN  /\ half' = IF part = "header" /\ half = Nobody THEN t ELSE Nobody
        /\ discord' = IF part = "header" /\ half = Nobody THEN discord
                      ELSE IF whole /\ discord = "ready" THEN "ready"
                      ELSE IF whole /\ pc[t] = "hello2" THEN "ready"
                      ELSE "broken"
        /\ shown' = CASE whole /\ discord = "ready" -> want[t]
                      [] discord' = "broken" -> Blank
                      [] OTHER -> shown

Reached == sock = "up" /\ discord \in {"fresh", "ready"}

(* rpc_write_raw succeeds or fails.                                        *)
Writes(t, part) == Reached /\ Arrives(t, part)
WriteFails == ~Reached /\ UNCHANGED <<discord, half, shown>>

-----------------------------------------------------------------------------
(* discord_rpc_update and discord_rpc_clear.                               *)

Ends(t) == Goto(t, "idle") /\ want' = [want EXCEPT ![t] = Blank]

(* RPC_VALID is asked before the lock is taken.                            *)
Update(t, s) ==
    /\ IF sock = "none" THEN Ends(t)
       ELSE Goto(t, "enter") /\ want' = [want EXCEPT ![t] = s]
    /\ early' = early \cup
           (IF t = Start \/ pc[Start] = "idle" THEN {}
            ELSE IF sock # "none" /\ pc[Start] \in {"made", "hello", "hello2"}
            THEN {"mixed"} ELSE {"covered"})

(* Seeded fault: the lock is not taken.                                    *)
Enter_NoLock(t) ==
    /\ pc[t] = "enter" /\ lock' = t /\ Goto(t, "header")
    /\ UNCHANGED <<sock, discord, half, shown, want, player, early>>

Enter(t) ==
    /\ pc[t] = "enter" /\ lock = Nobody /\ lock' = t /\ Goto(t, "header")
    /\ UNCHANGED <<sock, discord, half, shown, want, player, early>>

(* rpc_send: a header that cannot be written ends it, and the lock is      *)
(* given back in any case.                                                 *)
SendHeader(t) ==
    /\ pc[t] = "header"
    /\ \/ Writes(t, "header") /\ Goto(t, "body") /\ UNCHANGED <<lock, want>>
       \/ WriteFails /\ Ends(t) /\ lock' = Nobody
    /\ UNCHANGED <<sock, player, early>>

SendBody(t) ==
    /\ pc[t] = "body" /\ Ends(t) /\ lock' = Nobody
    /\ Writes(t, "body") \/ WriteFails
    /\ UNCHANGED <<sock, player, early>>

-----------------------------------------------------------------------------
(* discord_rpc_start, on a thread of its own.                              *)

(* g_sock holds the number of a socket that is not connected yet.          *)
MakeSocket ==
    /\ pc[Start] = "off" /\ Goto(Start, "made") /\ sock' = "made"
    /\ UNCHANGED <<lock, discord, half, shown, want, player, early>>

(* connect to one of Discord's sockets; without one the thread ends.       *)
Connect ==
    /\ pc[Start] = "made"
    /\ \/ discord = "fresh" /\ sock' = "up" /\ Goto(Start, "hello")
       \/ discord # "fresh" /\ sock' = "none" /\ Goto(Start, "idle")
    /\ UNCHANGED <<lock, discord, half, shown, want, player, early>>

(* The handshake, without the lock; if it fails the socket is closed, and  *)
(* else rpc_set_launching follows.                                         *)
Handshake(part, from) ==
    /\ pc[Start] = from
    /\ \/ /\ Writes(Start, part) /\ UNCHANGED sock
          /\ IF part = "header"
             THEN Goto(Start, "hello2") /\ UNCHANGED <<want, early>>
             ELSE Update(Start, Own("launching"))
       \/ WriteFails /\ sock' = "none" /\ Goto(Start, "idle") /\ UNCHANGED <<want, early>>
    /\ UNCHANGED <<lock, player>>

HelloHeader == Handshake("header", "hello")
HelloBody == Handshake("body", "hello2")

-----------------------------------------------------------------------------
(* Who sets the status.                                                    *)

(* rpc_set_idle and rpc_set_login, by the requests about the account.      *)
PageSets(s) ==
    /\ pc[Page] = "idle" /\ asks < MaxAsks /\ asks' = asks + 1
    /\ Update(Page, Own(s))
    /\ UNCHANGED <<connection, mc_name, game, games, lines, named, late>>

(* run_game_process: the game runs until it ends, and the launch thread    *)
(* shows that the launcher is idle.                                        *)
GameStarts ==
    /\ pc[Launch] = "idle" /\ game = None /\ games < MaxGames
    /\ games' = games + 1 /\ game' = games'
    /\ UNCHANGED <<connection, pc, want, mc_name, lines, asks, named, late, early>>

(* Seeded fault: the end of a game is not shown.                           *)
GameEnds_Silent ==
    /\ game # None /\ game' = None
    /\ late' = (late \/ lines # <<>> \/ pc[Bridge] # "idle")
    /\ UNCHANGED <<connection, pc, want, early, mc_name, games, lines, asks, named>>

GameEnds ==
    /\ game # None /\ game' = None
    /\ Update(Launch, Own("idle"))
    /\ late' = (late \/ lines # <<>> \/ pc[Bridge] # "idle")
    /\ UNCHANGED <<connection, mc_name, games, lines, asks, named>>

GameSends(l) ==
    /\ game # None /\ Len(lines) < MaxLines
    /\ lines' = Append(lines, [by |-> game, is |-> l])
    /\ UNCHANGED <<connection, pc, want, mc_name, game, games, asks, named, late, early>>

(* bridge_handle_client reads a line; lines of one game come before those  *)
(* of the next, whose connection waits.                                    *)
Takes(l) ==
    /\ pc[Bridge] = "idle" /\ lines # <<>> /\ Head(lines).is = l
    /\ lines' = Tail(lines)
    /\ UNCHANGED <<connection, game, games, asks, late>>

(* Only a name that is not empty replaces the one that is known.           *)
bridge_set_player_name(g) == mc_name' = g /\ named' = named \cup {g}

(* HELLO with a name, followed by bridge_presence_playing.                 *)
Hello ==
    LET g == Head(lines).by IN
    /\ Takes("hello") /\ bridge_set_player_name(g)
    /\ Update(Bridge, InGame(g, g))

(* DISCORD, with details and, if there is one, a time that can be read; or *)
(* HELLO with an empty name.  The name of an earlier game is left standing.*)
bridge_handle_discord ==
    /\ Takes("discord") /\ Update(Bridge, InGame(Head(lines).by, mc_name))
    /\ UNCHANGED <<mc_name, named>>

DiscordClear ==
    /\ Takes("clear") /\ Update(Bridge, Blank) /\ UNCHANGED <<mc_name, named>>

(* Lines that are not understood, a DISCORD without details, SHOW.         *)
Ignored ==
    /\ Takes("other") /\ UNCHANGED <<pc, want, early, mc_name, named>>

-----------------------------------------------------------------------------
(* launcher_shutdown closes the socket, whoever is writing.                *)
discord_rpc_shutdown ==
    /\ sock # "none" /\ sock' = "none"
    /\ discord' = "off" /\ half' = Nobody /\ shown' = Blank
    /\ UNCHANGED <<lock, pc, want, player, early>>

(* Discord ends.                                                           *)
DiscordEnds ==
    /\ discord \in {"ready", "fresh"} /\ sock # "none"
    /\ discord' = "off" /\ half' = Nobody /\ shown' = Blank
    /\ UNCHANGED <<sock, lock, pc, want, player, early>>

Work(t) == Enter(t) \/ SendHeader(t) \/ SendBody(t)

StartThread == MakeSocket \/ Connect \/ HelloHeader \/ HelloBody

Reads == \/ Hello \/ bridge_handle_discord
         \/ DiscordClear \/ Ignored

StatusNext ==
    \/ StartThread \/ Reads
    \/ \E t \in Threads : Work(t)
    \/ \E s \in {"idle", "login"} : PageSets(s)
    \/ GameStarts \/ GameEnds
    \/ \E l \in Words : GameSends(l)
    \/ discord_rpc_shutdown \/ DiscordEnds

StatusSpec == StatusInit /\ [][StatusNext]_statusVars
-----------------------------------------------------------------------------
(* Properties.                                                             *)

(* Discord reads whole frames, the handshake first: updates of four        *)
(* threads never mix on the wire, unless one began before the connecting   *)
(* thread, which takes no lock, was through.                               *)
FramesWhole == discord = "broken" => "mixed" \in early

(* Everybody has done what there was to do.                                *)
Quiet == lines = <<>> /\ \A t \in Threads : pc[t] = "idle"

(* When all is quiet, no game is shown that has ended, unless it ended     *)
(* with lines unread, which the bridge thread reads after the launch       *)
(* thread has shown the end; a game that gave a name is shown under that   *)
(* name and no other's; and the word of the page is not covered by that of *)
(* the start, unless the page was faster than the handshake.               *)
StatusTrue ==
    Quiet => /\ shown.is = "game" /\ game = None => late
             /\ shown.is = "game" /\ shown.of \in named => shown.name = shown.of
             /\ shown.is = "launching" /\ asks > 0 => early # {}

-----------------------------------------------------------------------------
=============================================================================
