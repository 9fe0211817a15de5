# Cero Client: formal models

This directory is a TLA+ development of the Cero Client repository: modules
that model its parts, TLC configurations that check them on small instances,
and theorems checked by TLAPS.  Every definition is translated from the source;
`PROJECT.json` maps each one to the lines it stands for, and lists the hazards
the properties are aimed at.

    tlc -workers 2 -config presence_sessions.cfg MCPresence    # a run
    tlapm PresenceProofs.tla                                   # the proofs of a module

## 1. The system

Cero Client is a Minecraft launcher with an in-game agent and a social server.

| part | where | state it keeps | module |
|---|---|---|---|
| presence hub | `server/ws.go`, `friends.go`, `auth.go`, `db.go` | map of live connections, `users.status`, who is friends with whom, what each client was last told | `Presence` |
| friendships | `server/friends.go` | table `friendships` | `Friendships` |
| messages | `server/messages.go` | table `messages` | `Messages` |
| rate limiters | `server/middleware.go` | a counter and a window end per key | `RateLimiter` |
| supervisor (ceroboot) | `server/ceroboot/` | digests `installed`, `previous`, `bad` on disk; container, check thread, timer | `Supervisor` |
| game files | `src/net/download.c`, `src/launch`, `src/utils` | files under the game directory | `GameFiles` |
| game launch | `src/ipc`, `src/launch/process_step.c`, `assets/js/features/launch.js` | overlay, buttons and timers; `game_running`, `g_mc_process` | `GameLaunch` |
| single instance, bridge | `src/platform/single_instance.c`, `src/ipc/bridge`, `src/main.c` | lock file with a port, one TCP client at a time | `SingleInstance` |
| bootstrapper | `bootstrapper/` | itself, a stamp, the launcher's archive and what it holds | `Bootstrapper` |
| accounts and sign-in | `src/net/ms_auth.c`, `src/launch/account.c`, `src/ipc/auth_handlers.c` | `account.json`, tokens under way | `Account` |
| instances, configuration | `src/instances`, `src/config`, `src/ipc/settings_handlers.c` | `instances.json`, `settings.json`, `config.json`, rewritten in place | `Library` |
| Discord status, player name | `src/discord`, `src/ipc/bridge` | a socket, a lock, the name the game gave | `DiscordStatus` |
| launch arguments | `src/launch/classpath.c`, `jvm_args.c`, `include/utils/version_manifest.h` | none: functions of the version file and the profile | `LaunchArgs` |
| loader versions | `src/launch/forge.c`, `src/ipc/instance_handlers.c` | none: functions of the servers' lists | `LoaderVersions` |
| page: connection, friends, chat | `assets/js`, `assets/components` | socket, timers, maintenance flag, lists and caches | not modelled |
| agent | `agent/` | tick scheduler, event bus, connection to the launcher | not modelled |

How they interact.  The bootstrapper updates and starts the launcher.  The
launcher's page calls native handlers, which queue scripts back to the page;
handlers start threads that download and run the game.  The game carries the
agent, which connects back to the launcher's bridge; a second launcher calls
the same bridge to have the window shown.  The page talks to the social server
over REST and a WebSocket.  The supervisor runs the server's container and
replaces its image.  The components share little state: the database within
the server, two variables and a queue of scripts within the launcher, a lock
file between launchers, files of the launcher's directory between page and
launch threads.  So most modules are checked alone, with the others' steps as
actions of their environment (a token check in `Presence`, a deleted account in
`Friendships` and `Messages`, a game in `SingleInstance`, a launch in `Account`
and `Library`).  Two machines are composed: `Bootstrapper` extends `GameFiles`
and shares its disk, transfers and faults.

### What is hard, part by part

* **Server.** Each connection and each request has a goroutine.  Only the
  hub's map is under a lock; database writes, broadcasts and queue sends of
  overlapping sessions interleave.  A REST handler reads the database and
  writes later.  The process may stop between any two steps: rows survive, the
  hub does not.
* **Supervisor.** Exits, check results, timers and shutdown requests arrive in
  any order; exits of replaced containers must be ignored; a bad image must be
  rolled back and not reinstalled; the state file must survive a kill.
* **Files.** Transfers fail half way, servers answer with error pages, the
  launcher dies in the middle; each kind of file has its own rule for when it is
  fetched again and whether it is checked.
* **Launching.** Two variables without a lock, and a page whose overlay and
  button are what keeps a second launch out.
* **Several launchers.** Lock, unlock, unlink and the published port of
  processes that start, quit and crash at once.
* **Installing.** The bootstrapper exchanges its own executable and unpacks the
  launcher over the last one; it may die between any two steps, and what is
  there afterwards decides what the next start does.
* **The launcher's own files.** `account.json`, `instances.json`,
  `settings.json` and `config.json` are read, changed and rewritten in place by
  the page's thread and by launch threads, without a lock.  Refresh tokens are
  replaced at every use.
* **Discord.** Four threads write to one socket, one of them without the lock.
* **Command line.** Fixed buffers, two evaluations of the same rules, versions
  compared as numbers and as text.
* **Page, agent (not modelled).** Answers that arrive after the user has moved
  on; tasks cancelled or added while the scheduler pumps.

## 2. The modules

Conventions.  One action is one critical section, one SQL statement (the pool
holds one connection, so statements are atomic), one system call, one callback
of the UI thread, or one event of a loop.  A variable described as *history* or
*what an observer remembers* has no counterpart in the code; no guard depends
on one.  Operators named `X_Something` under "Seeded fault" are plausible bugs
of `X` that some property must notice; they take no part in `Next`.

### Presence

`clients` is `Hub.clients`, `status` the column, `pc` the place of each
handler in `handleWS`, `say`, `asked`, `todo` and `targets` the progress of
`broadcastStatus` and `notify` over their snapshots, `kicking` that of `Kick`.
`friends` are the accepted rows; `accept` and `left` the handlers that accept a
friendship and then push each one's status, read in an earlier statement, to the
other.  A connection is idle, verified (token accepted), added, greeting,
announcing, reading, relaying a status, closing, leaving and saying farewell.
`AuthenticateREST` is the token check of an HTTP request: with a cold cache it
writes "online" whatever the hub says.  `Restart` is the end of the process
without waiting for handlers.  Statements about a user in `Failing` may fail:
the code ignores the error of a write (ws.go:194, 210, 268), tells nobody when
the query for friends fails (ws.go:83) and skips a push when a row cannot be
read.

The send channel of a client keeps its order, so the model keeps what was put
into it last: `told[d][u]` is the last status of `u` sent to `d`, or that the
frame was dropped, which may happen to any frame (a full queue).  Only
`friend_status` frames say a status; the others are left out.  `orphaned` and
`unannounced` mark rows that a token check, a restart or a failing statement
left behind the hub's back, `overtaken` and `outdated` the pushes of an
acceptance that came after a newer broadcast.

`PresenceEdges` is the abstract promise: when a user's first session arrives
somebody owes the friends an "up", when the last leaves somebody owes a "down",
each owed once and paid in the end.  `Presence` implements it under the mapping
`online <- users with a connection, duty <- what each handler's phase owes`.

### Friendships and Messages

`req[r]` is one handler in flight: idle, at its read, or at its write with the
values it read.  `rows` is the table, one row per unordered pair (the unique
index), with the id from SQLite's sequence.  `agreed` remembers who asked for or
accepted the row and has not been blocked, or blocked the other, since; `raced`
the rows blocked while an accept was between its read and its write.  Account
deletion removes rows by the foreign keys' cascade; a handler may still write for
a deleted user, and then the insert fails.
In `Messages` the friendships are a set of accepted pairs that changes on its
own; `by` and `wanted` remember the real author and whether the two were
friends while the request ran; `opened` who was let into which conversation.

### RateLimiter

`allow` and `cleanup` act on the map; time is relative, so a window is a count
and the time left.  `kept` is the same map without any cleanup; `asked` and
`granted` count the requests, and those let through, of the last so many ticks,
for every span up to one window's length.  The limiter is named sliding and
counts per fixed window: `TwiceAtMost` is what that guarantees.

### Supervisor

`pc` is the loop (waiting, timed out, saving, starting), `st` the state in
memory, `disk` the file, `queue` the channel, `watch` and `stale` the watcher
threads, `check` the check thread.  The container and the tag are external.
`Ways` lists how ceroboot is started and which troubles one behaviour may
have: it is killed ("dies"), a save fails ("unsaved"), docker stop, kill, rm or
inspect fail ("stuck"), `docker wait` fails ("watch"), a check thread panics
("panic"), a check answers while a timeout is handled ("late").  `given` is the
one of `Ways` a behaviour has.  `After` is a container that is to be taken down:
the code ignores whether it was, and a `docker run` beside it then fails
(`StartInTheWay`).  `abandoned` remembers that ceroboot ended while a container
ran that it took for gone.

### GameFiles

`file[f]` is what is on disk: absent, a beginning of the real file, junk, or
good.  `Steps` is the order of a launch, each step with its loop `todo`;
`cut` remembers files that a crash or a failing tool left unfinished, `ignored`
those that came wrong where the code does not look.  The libraries a loader's
profile names (`LLibs`) may be vanilla or installer ones as well.  Download
jobs of one step are open at once; the files of a Java runtime are one name.
Vanilla libraries that the version file names without a path or a digest are
left out.
`Plays` lists what may be launched (route, loader, number of faults); `play` is
the one of a behaviour, which the player launches again and again.  Writes to a
full disk and fopen failures are not modelled here.

### Bootstrapper

A third route of `play`, on the variables of `GameFiles`.  The files of an
installation are the executable ("boot"), the one set aside, the stamp, the
archive ("zip") and what it holds (`Parts`: the launcher and its data).  A file
is "good" when it is of the release published last, "old" of an earlier one;
"flat" is a new bootstrapper before its permission.  `Publish` makes all that is
good old.  `Killed` may come at any step; `cut` then remembers the bootstrapper
that died in its exchange, and the parts that were still to be unpacked.  Two
calls may fail unseen, the rename that puts the old executable back
(update.rs:134) and the permission of the new one (platform.rs:97): `ignored`
remembers the bootstrapper that this left unable to start.

### LaunchArgs, LoaderVersions and LaunchChoices

No state: operators for `collect_*_libs`, `cp_add`, `gav_to_relpath`, both
evaluations of rules, `build_classpath`, `build_launch_argv` and the heap, and
for `cmp_dotted_version` and the choice of a loader version by the launch and by
the page.  Each loop of the code is a fold over its list.  What is expected of
them is written next to them in other terms (the version at the least position, the
sum of the lengths, the newest in an order on numbers).  `LaunchChoices` asks it of a
launch of `GameFiles`; `MCGameFiles` gives every small input.

### Account

`pc[a]` is the call a thread is in, `job[a]` what it was asked for, `held[a]`
what the chain has obtained so far; `file` is `account.json`, empty from `fopen`
to the close of the file; `live` are the refresh tokens Microsoft still takes.
The window's thread serves one request at a time; launches run beside it.
`owner`, `strayed`, `dropped` and `touched` are history: who signed in last,
whether a refresh wrote after the player had signed in or out, which tokens were
spent without their successor being saved, which launches had the file change
under them.

### Library

`index`, `settings` and `config` are the three files, each possibly torn;
`config` is a sequence of tokens because it is searched and spliced as text.
A change is a load, an open (which empties the file) and a write.  `meant`,
`wanted` and `chosen` remember what the page was told; `disturbed`, `broken` and
`unsaved` what has gone wrong with each file.

### DiscordStatus

`sock`, `lock`, `pc[t]` and `want[t]` are the socket, `g_rpc_lock` and the
update of each of the four threads; `discord`, `half` and `shown` what Discord
has read; `lines` what the game has sent.  `early` and `late` are history:
updates that began before the connecting thread was through, and a game that
ended with lines unread.

### GameLaunch

The page (`at`, `overlay`, `btnOn`, `group`, `timers`, `creating`), the calls and
the scripts between it and the UI thread (`calls`, `events`), and the launch
threads from `prep` to `lowered` with `game_running`, `g_mc_process` and the
game process.  A logout leaves for the sign-in page, where scripts of the launch
are lost, and a sign-in loads the page anew (`Fresh`), whatever runs meanwhile.
`strayed` remembers that the instance test tab was used, or that an 800 ms timer
came before the thread had raised its flag; `reloaded` that the page was loaded
while a launch was under way.

### SingleInstance

Launchers are runs of the program.  `path` is the file that has the name,
`opened` and `holder` the open files and their locks, `text` the port in the
file; `calls` and `serving` the bridge's queue and the connection it reads;
`game` each launcher's game.  Since nothing is opened close-on-exec, the lock
and the listening socket of a launcher that crashed stay with its game.
`loose` remembers the two ways out of the lock (section 5).

## 3. The runs

All of them end without error, in a few seconds to about a minute and a half
each with two workers.

| run | asks | bounds |
|---|---|---|
| `presence_sessions` | two sessions of one user that overlap, with kicks, restarts and token checks: rows are attended, edges are announced once (refinement), the user ends offline | one user, two connections |
| `presence_watch` | two friends, one session each, and an acceptance of their friendship: what a client was told is what the database says | one request that accepts; one of the two sends statuses, and the statements about that one may fail |
| `friends_pair` | three overlapping requests about one pair, blocks, deletions and re-registrations: consent, and no way back to a request | 3 requests in flight, 3 row ids |
| `messages_pair` | two overlapping requests about a conversation: authors, friends, read marks | 3 message ids |
| `limiter` | two keys; bursts over window edges, cleanup at any time | window 2 ticks, limit 2, 3 requests a tick |
| `supervisor` | four ways for ceroboot to go: killed and adopting, with saves that fail, with docker commands that fail, or with `docker wait` failing; and not adopting, with `docker wait` failing and checks that die | 2 images, rollback at the second crash |
| `files` | the bootstrapper, the client route with Fabric and deobfuscation, a Forge and a plain instance, from nothing; and the pure operators | 2 or 3 faults; 2 vanilla, 3 installer and 3 loader libraries, of which installer and loader share one with the vanilla ones each and one with each other; lists of up to 3 entries |
| `launch_play` | clicks, errors, refusals, timers, kills and ends of games, logout and sign-in | 2 threads; the player starts something when no timer and no script is pending (`MaxPending` 1) |
| `instance` | launchers that start, give way, quit, play and crash | 3 launchers, one of them played in, queue of 1 |
| `account` | sign-in, check, token, logout and a launch, with refused calls and one fault | 2 users, 3 refresh tokens, 1 launch thread |
| `library` | instances, settings and last version, with a launch and one fault | 3 requests, 2 names, memory below and above its limits |
| `discord` | two games, the page and the start set the status | 2 games, 1 line on its way, 1 request of the page |

**Why the bounds are enough.**  Races here need two or three actors: two
sessions of a user, a handler between its read and its write with two others
that remove and recreate the row, a launcher that quits with one that waits and
one that starts, the page and a launch that hold the same file.  The send queues of
`Presence` have no bound: any frame may find its queue full.  `presence_watch` has
no restart: it begins with any rows a restart may leave, and with nobody
connected, as every start does.  `MaxPending` bounds what the player starts, not
what follows of it.  Two images are the installed
one and the next; a second crash is a rollback.  Three faults are one that
leaves a wrong file, one in the step that should repair it, and a crash; the
shape of a launch makes every further fault a repetition.  In `limiter` a window
has a first, a middle and a last tick, and a burst exceeds the limit.  Three
requests of the page create, change and delete one instance; three refresh
tokens are one signed in with, one refreshed and one of another sign-in.
`MaxId` bounds the rows ever created, so that removal and re-creation of a row
happen twice.  `cp_add` looks at two versions of one library and at the cap;
three entries fill it.  What the proofs cover needs no bound.

The pure operators are asked in the states of `files` in which a game starts and
nothing went wrong, with the loader of that launch.

**Deadlock** is checked in every run except `supervisor` (ceroboot may end and
not be started again), `launch_play` (a page that stays covered is what its
liveness property forbids), `instance` (every launcher has ended), `library` and
`discord` (requests and games are bounded).

**Fairness.**  `Presence!Spec`: every handler is a goroutine, so a step it
can take is eventually taken, the failing read of a closed socket included, and
a kick that has begun goes on; sockets, clients, administrators and the requests
that accept a friendship owe nothing.  `Supervisor!Spec`: the loop, the watcher and
the check thread run;
the finish of a check is strongly fair because a timeout interrupts it again and
again.  Nothing makes a container crash or a tag move.  `Bootstrapper!AllSpec`:
launcher and bootstrapper are started again by a player who tries again, and
transfers, tools and games end (there is no timeout in `download_file`: the
assumption is about the servers).  `Account!Spec`: the window's thread runs, and
every call of its chain has the time limit the code gives it; nothing is said of
the browser.  `GameLaunch!FairSpec`: the UI thread serves its queues, timers
fire, and a thread that has a step of its own to take takes it; players and games
owe nothing, and neither does the preparation of a launch, whose transfers and Java
tools have no time limit (download.c:36): `OverlayEnds` has the end of every
preparation as its premise (`PrepsEnd`).
`SingleInstance!Spec`: main and bridge thread of each launcher.

## 4. What is proved

TLAPS proves, for every value of the constants that satisfies the named
assumptions:

| module | theorems | say |
|---|---|---|
| `PresenceProofs` | `TypeCorrect`, `HubCorrect`, `RecordedOnline`, `EdgesRefined`, `WatcherAgreesHolds` | the hub map is exact, rows that say online are attended or orphaned, an arrival has one announcer; without overlapping sessions a recorded session has no offline row and the last status sent to a friend, in a broadcast or an acceptance, is the row's; each but for the failures and races it names; every step is a step of `PresenceEdges` or a stutter |
| `RequestProofs` (friendships) | `TypeCorrect`, `ConsentHolds`, `ReferencesHold`, `StandingHolds` | an accepted friendship was wanted by both and blocked by neither, but for a block within an accept; rows refer to users that exist; no row falls back to pending |
| `RequestProofs` (limiter) | `LimiterTypeCorrect`, `CleanupIsInvisible`, `TwiceAtMostHolds`, `PoliteServedHolds` | the cleanup changes no decision to come; at most twice the limit passes in any window's length; who stays within the limit is never refused |
| `SocialProofs` (messages) | `TypeCorrect`, `AuthorshipHolds`, `RowsHold`, `SentAmongFriendsHolds` | messages are by whom they say, sent among friends, read only after the conversation was opened |
| `SocialProofs` (Discord) | `StatusTypeCorrect`, `FramesWholeHolds`, `StatusTrueHolds` | Discord reads whole frames, the handshake first; no game is shown that has ended, and each under its own name; under the conditions in section 5 |
| `SupervisorProofs` | `TypeCorrect`, `HeldIsTrueHolds`, `RunsInstalledHolds`, `BadStaysOutHolds` | once settled, a container that runs is held and its end will be heard of; the container held runs the installed image; a rejected image is not installed again; each under its stated condition |
| `FileProofs` | `TypeCorrect`, `RunsPublishedHolds`, `LoaderKeptHolds`, `InstallWholeHolds`, `GoodKeptHolds` | what a started game reads is complete, a loader's profile is not lost, there is a bootstrapper to start and the launcher it starts is of one release, and no step spoils a good file but those that say so |
| `FileProofs` (choices) | `FirstVersionWinsHolds`, `CommandFitsHolds`, `VersionOfferedHolds` | for every version file, profile and list of versions: the library named first is on the class path, and fetched; class path, heap and arguments fit or the client is left out; the loader version installed is one the page is offered |
| `AccountProofs` | `TypeCorrect`, `AccountKeptHolds`, `TokenKeptHolds`, `LaunchAccountHolds` | the account on disk is the one signed in last, its token is one Microsoft still takes, a launch plays with the account it found |
| `GameLaunchProofs` | `TypeCorrect`, `OneLaunchHolds`, `GameKnownHolds`, `QuietMeansReadyHolds` | from the page at most one launch is under way; a game that runs is known; a page at rest can launch, unless it was loaded during a launch |
| `LauncherProofs` (single instance) | `TypeCorrect`, `OneLauncherRuns` | one launcher runs at a time, under the condition in section 5 |
| `LauncherProofs` (library) | `LibraryTypeCorrect`, `IndexKeptHolds`, `SettingsKeptHolds`, `ConfigKeptHolds` | index, settings and last version are what the page was told, until the file is torn or two rewrites of the index overlap; memory is within its limits |

The arguments:

* **Presence.**  `HubExact` alone is not inductive for the database: the
  invariant adds that of the sessions of a user found offline one announces, and
  that a row that is not "offline" has a handler before its farewell, or is
  orphaned.  Without overlapping sessions the phases of the single handler give
  `RecordedIsOnline`.  `EdgesRefined` maps each step to a step of
  `PresenceEdges` or a stutter.  For `WatcherAgrees` the invariant `WInv` says that
  what a client was told last is the row, or somebody still owes it a frame
  (`Watching`): a handler whose broadcast has the row's value and has yet to reach
  it (`Saying`, `Asking`), or an acceptance that read what the row says, or whose
  reading a broadcast that is still owed will replace (`Reading`).  Frames are
  sent only to friends (`AmongFriends`, `Introduced`), and a client that has just
  connected has been told nothing (`Fresh`).
* **Friendships.**  `Consent` needs to know what an accept that is about to write
  has read.  `IInv` adds: the pair of a request is a pair (`Paired`); ids are
  older than the next one, so an id that was read never names a later row
  (`IdsOlder`); a pending row is its requester's wish alone (`PendingByOne`); as
  long as the row an accept read is there, its requester is among those who
  agreed, or a block has come in between and the row is `raced` (`OthersWish`);
  and `AgreedWithin`.
* **RateLimiter.**  `CleanupInvisible` is inductive with the type invariant: a
  window that has ended and one that is missing are counted alike.  The other
  two rest on `Ledger`: longer spans count more (`Rising`); since the open window
  began no more was granted than it counts, nor than the limit, and before it,
  within the stretch, no more than the limit again (`Bounded`); and what a window
  counts was asked for within its time (`CountsAsked`).
* **Messages.**  `IInv` adds: ids not handed out have no row (`FutureEmpty`); a
  request past the author check names a row that, if it is still there, is its
  author's (`AuthorsOnly`); a request past the friendship check was among
  friends (`FriendsOnly`); and what holds of each row (`GoodRows`).
* **Supervisor.**  Three invariants, each with the type invariant.  `HInv`: a
  container that is held has a watcher, or its exit is in the channel; and unless
  `docker wait` fails, that exit is not there before the container is down, and
  one that runs while the loop waits is held.  `RInv`: unless a save failed or
  ceroboot left a container behind that it took for gone (`abandoned`), the file
  has the state in memory but between a change and its save, the container held
  runs the installed digest, and one that outlives ceroboot runs what the file
  says; the state changes only while none is held, and a container that runs then
  and is there when ceroboot ends is what sets `abandoned`. `BInv`: one check at
  a time, `downloading` from its start until its answer is taken, and the state
  does not change meanwhile: so a digest on its way was compared with the state
  it will meet.
* **GameFiles and Bootstrapper.**  `Control` says how far a launch is: what the
  loop of its step still has to do, and that each finished step left what its
  files are trusted for.  `GameInv` and `BootInv` say, by route, which files are
  good unless a fault of the behaviour explains them (`cut`, `ignored`): a vanilla
  library is absent, good, so explained, still to be dealt with, or open for
  writing (`LibraryFits`), whichever of the three steps that fetch libraries has
  it; the bootstrapper's
  half follows its exchange: a bootstrapper that can be started is there but
  between the renames and the permission, the one set aside is whole meanwhile,
  and what is unpacked is good or was cut.
* **LaunchArgs and LoaderVersions.**  What a fold comes to is defined by
  recursion over sets of positions, from the last back.  `FoldExists` shows that
  there is such a function on the positions of a list, and `Rungs` reads it from
  the first element to the last; both count up by `Climb`, which holds because
  every set of numbers has a least element (`LeastOf`, from the well-founded order
  of finite sets).  So each fold becomes a sequence of values with a step between
  neighbours (`CollectedIs`, `ClasspathIs`, `TakenIs`, `PageIs`), and each property an
  invariant of that step.  `Settled`: all libraries collected have the version
  that came first among the entries seen so far, and while there is room every entry of that
  version has its jar there.  `NoneLost`: until a name did not fit the length is the
  sum, and from then on the buffer is full.  `Shown`: the latest is among
  the versions listed and none is greater.  The last needs that "greater" is
  transitive (`GreaterStill`, by the first part that differs).
* **Account.**  `Calls` ties what a call holds to where it is; `Kept` says whose
  account the file has, or which call in its write will put it there;
  `Succession`, that of one user's tokens only the newest is live, and that it is
  in the file, in the hands of one call, or `dropped`; `Undisturbed`, that a launch
  whose file nobody touched has what it read.  The proofs are arranged by kind of
  step: one lemma for the steps that leave file and tokens alone, one for those
  that move a call on.
* **DiscordStatus.**  `Locked`: the lock is held by whoever is within a frame.
  `Frames`, as long as no update was early: all others are idle until the handshake
  is through, and of a frame that is half written the writer of the first half is
  about to write the second.  `StatusTrue` adds what is shown and by whom
  (`Showing`), that lines are in the order of the games (`InOrder`), whose name an
  update carries (`Called`), and what the end of a game and a request of the page
  leave behind (`Over`, `Said`).
* **Library.**  One invariant per file, each with the types of the documents.
  `KInv`: one thread rewrites the index at a time, what it writes is the list
  with its one change, and whoever else has loaded it is known to be behind
  (`stale`); a second save from such a document is what sets `disturbed`.  `YInv`:
  what is about to be saved is the settings the page was told of with its one
  change, and as much of them as survived a torn file.  `CInv` is about texts:
  `Shape` (each key once at most, the closing brace at the end only, a value
  after each key) holds of every text the program writes and of every piece a full
  disk leaves of one, and in such a text a key is found without the order of the
  search mattering.  So no induction over the text is needed: `SetIs` says what
  splicing does, `CutIs` what a cut leaves.
* **GameLaunch.**  One token is passed on from the page through a call, a launch
  thread, a script and the page's timers back to the page.  `OneToken` counts it
  in all five places; without `strayed` there is exactly one.  `StopComes` says
  that a page showing the kill button will be sent the end of its game, whatever
  page was there before; `OneSeen`, of a page loaded while nothing was under way,
  that it shows the kill button as long as a game runs, so that a launch it asks
  for is never refused.
* **SingleInstance.**  `OneRuns` follows from: a launcher that runs and has a
  file open has that file locked (`HoldsIts`); as long as `loose` is false all
  open files are the named one and every runner has one (`OneFile`).  The step
  that would break the latter, an unlink of an open file, is what sets `loose`.

Each inductive invariant was first evaluated by TLC on the instance of its run.

**Assumptions** are the named ones of each module: `Owner` and `Friends` are
functions and friendship is symmetric, who accepts is a user
(`AccepterAssumption`), limits are positive, `"offline"` is no value a client
sends, `Nobody` is no user, assets have names of their own and an archive that is
there from the start comes with what it holds (`FileAssumption`), a torn file is
no document and the files of a first start are documents of their kinds
(`DocumentsAssumption`), and finite sets of threads.

`RoomAssumption`, `InputAssumption`, `GameAssumption` and `ListAssumption` give
the inputs of the launch their types and nothing of their contents but this: the
path of the agent is shorter than the buffer of the class path (its own buffer
is), the client has a path, and a game is named by at least one number.

**Only model-checked**: all liveness properties (of `AnnouncesEdges` the safety
half is `EdgesRefined`), because liveness under fairness is out of this prover's
reach.  Every other property of a run is a theorem.

**Only proved**: that the hub's map holds exactly the connected sessions
(`HubExact`, in `HubCorrect`), that rows refer to users that exist
(`ReferencesHold`; `References` in `RowsHold`), and the type invariants of the
modules with a proof.  The runs do not repeat these.

## 5. What the models show of the code

Conditions that the properties name, each needed (TLC finds the property
violated without it):

* **Presence.**  The row stays "online" after a restart and after a token check
  of a user with no session; with overlapping sessions a late "offline" lands
  after the next "online"; a full queue drops frames silently, and a client whose
  last frame was dropped keeps an old status.  The acceptance of a friendship reads
  a status and pushes it later (friends.go:184-194, 241-251): a broadcast that
  comes in between is followed by the older status, which stays.  Statements that
  fail leave a row, or friends, with the old status and are not repeated.
* **Friendships.**  Delete removes a blocked row whichever of the two asks.  An
  accept updates by the id it read and does not look at the status again
  (friends.go:179, 236): a block that lands between the two is turned into a
  friendship.  An accept whose row has gone answers "ok".  For a user's outgoing requests the
  list query always returns `user_b`, who may be the user themselves
  (friends.go:82-92; read-only, not modelled).
* **Messages.**  Messages that arrived after a page was selected are marked read
  with it.  The order of pushes is not the order of ids.
* **RateLimiter.**  The key holds the client's port (middleware.go:95-100), so
  without a forwarding header the limit is per connection.
* **Supervisor.**  `bootstrap` can set `previous` to the installed digest
  (main.rs:281), and a check that answers while a timeout is handled can install
  a digest twice or bring back one that was rolled back since: with "late" among
  the troubles `BadStaysOut` is violated, and it holds within one life from an
  empty state file.  After a failed save a later start may adopt a container
  under a stale digest.  So may one that assumes the container current after
  docker stop, kill or rm failed, which is ignored (main.rs:414-427, 626-632): the
  next digest is saved, `docker run` finds the name taken, ceroboot ends, and the
  next start takes the old container for the new digest.  A `docker wait` that
  failed leads to the same, when ceroboot dies before it has replaced the
  container.  `RunsInstalled` names both (`abandoned`).  A check that hangs leaves
  a crashed server down.
* **GameFiles.**  forge.c says that its check of a jar guards against the
  half-downloaded case, but it looks at the first four bytes, and a jar that a
  crash cut short has them: it reaches the processors at every later launch.
  The Forge installer and a partial Java runtime are never fetched again; a
  vanilla library whose launch died before its check is never checked; one that
  the loader's profile names too, and that the pool removed after a failed
  transfer, is fetched once more by `download_pending_libraries`
  (classpath.c:244-252), which keeps an error page that no launch checks again; a
  `mapped.jar` made from cut mappings is used for ever; a Fabric profile that is
  an error page is taken for one without libraries.
* **Bootstrapper.**  The archive is kept and verified before it is unpacked.  If
  unpacking stops (a crash, a full disk, an executable that cannot be opened
  because a launcher runs), every later start says "up to date" and starts what
  is there, until the next release.  A crash between the two renames leaves no
  bootstrapper under its name, and one before `make_executable` leaves one that
  does not start.  So do, without a crash, a rename back that fails (update.rs:134)
  and a permission that is not given (platform.rs:97), whose results are
  ignored. Without a network the bootstrapper exits with 1, whatever is
  installed. Nothing keeps two of them apart (not modelled).
* **LaunchArgs.**  Where a rule names an architecture, class path and downloads
  read it differently, and a library may be on the class path that no launch
  fetches.  A memory below 256 MB gives an `-Xms` above `-Xmx`.  The size of
  the argument array is passed and not looked at; the arguments there can be do
  fit.
* **LoaderVersions.**  A suffix such as `-beta` counts as greater than any stable
  build, so that a NeoForge beta is taken as the latest.  Of a game named by
  two numbers without the leading 1, such as 26.1, the builds of 26.1.1 are
  offered too, and the newest of them taken.  `VersionOffered` keeps the builds
  of two games apart only where both are 1.x or 1.x.y, or named by as many
  numbers (`SameScheme`).  A version named in a
  request is not parsed by the launches: `parse_forge_spec`,
  `parse_neoforge_spec` and the Quilt one have no caller there.
* **Account.**  A refresh that began before a sign-in or a logout writes the
  older account afterwards.  A chain that fails after Microsoft has replaced the
  token keeps the spent one, and the player has to sign in again.
* **Library.**  A launch's `lastPlayed` and a request of the page that overlap
  lose one of the two changes.  A file torn by a crash reads as empty, and the
  next save makes that permanent.  A `config.json` without a closing brace is
  never repaired, while every `on_set_version` is answered "ok".
* **DiscordStatus.**  An update that begins before the handshake is through mixes
  with it on the wire.  Lines the game sent before its end are read after the
  launch thread has set the status, and the game stays shown.
* **GameLaunch.**  From the instance test tab two launches can be under way; a
  launch refused there leaves the play button disabled.  A page loaded anew while a
  game runs, after a logout and a sign-in, offers Play and does not ask
  `on_game_status`: the launch is refused (game_handlers.c:63), and the button
  stays disabled after the game has ended (launch.js:91, 97).  A transfer that
  hangs keeps the overlay for ever.  A kill between fork and
  the assignment of `g_mc_process` is lost.
* **SingleInstance.**  Quitting unlinks the lock file after unlocking it:
  a launcher that opened it in between and a third one both run.  If the file
  cannot be opened the launcher runs without a lock.  If the bridge thread takes
  more than 100 ms the port stays unpublished.  If a launcher crashes while
  its game runs, the game keeps the lock: no launcher starts until it ends.

## 6. What is not modelled

Listed with reasons in `PROJECT.json`: vendored libraries, build and
installation scripts, the UI toolkit, logging, cryptography, remapping of class
files, the page's connection to the social server and its lists, the agent's
scheduler and event bus.  Of the modelled parts: read-only queries, the wording
of answers and of arguments, the Windows variants of lock, process and
bootstrapper code, the installation of packages, times of day.

## 7. Plan

Done: the server, the supervisor, files and loaders, launching, single
instance, bootstrapper, account, instances and configuration, Discord status,
class path, command line and loader versions.  Next, most important first.

1. Proofs: action properties of the modules whose theorems are invariants.
2. `WsClient` (ws.js, maintenance.js): reconnect and health-check timers, the
   close event of an old socket; at most one timer chain, and a reachable server
   is connected to again.
3. `Scheduler`, `EventBus` (agent): pump over a snapshot while tasks are
   cancelled and added, `runAsync` racing `shutdown`.
4. `FriendsView`, `ChatView`: the latest answer wins.

Compositions: `Friendships` with `Messages` over one table of friendships,
which would replace their two runs by one.
