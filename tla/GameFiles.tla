------------------------------ MODULE GameFiles ------------------------------
(***************************************************************************)
(* The files one launch of the game needs, and what is left of them when a *)
(* transfer fails, a server answers with an error page, or the launcher    *)
(* dies half way (src/launch, src/utils, src/net/download.c).              *)
(*                                                                         *)
(* A launch is one thread walking down a list of steps.  Every file has a  *)
(* discipline of its own:                                                  *)
(*   version JSON, Fabric profile   fetched again by every launch          *)
(*   client.jar                     fetched again, then its SHA-1 checked  *)
(*   vanilla libraries and natives  fetched when missing, SHA-1 checked    *)
(*                                  only on the launch that fetched them   *)
(*   Forge's install-time libraries fetched when missing or not a zip      *)
(*   loader libraries, asset index, fetched when missing, never checked    *)
(*   assets, Java, mappings                                                *)
(* download_file writes straight to the final name and keeps what it wrote *)
(* when it fails; download_files_parallel removes the file instead.        *)
(***************************************************************************)
EXTENDS Naturals, Sequences

CONSTANTS
    Plays,      \* what the player launches, see below
    VLibs,      \* libraries of the version JSON, with a path and a digest
    Natives,    \* those of VLibs whose contents are unpacked
    Assets,     \* objects of the asset index
    PLibs,      \* libraries Forge's installer needs to patch the client
    PMain,      \* the one of PLibs that holds the processor's main class
    LLibs,      \* libraries of the loader's own profile, some of VLibs and PLibs again
    Given       \* files an earlier launch has left complete

Named == {"vjson", "client", "aindex", "java", "jre", "profile",
          "installer", "out", "maps", "tiny", "mapped"}

(* What an installation consists of (Bootstrapper): the launcher and its   *)
(* data, and what brings them.                                             *)
Parts == {"launcher", "data"}
Installed == {"boot", "aside", "stamp", "zip"} \cup Parts

Files == Named \cup Installed \cup VLibs \cup Assets \cup PLibs \cup LLibs

(* route "client" is launch_minecraft, "instance" launch_instance, "start"  *)
(* the bootstrapper; Quilt is like Fabric and NeoForge like Forge.  faults  *)
(* bounds the transfers and tools that go wrong, crashes included.          *)
ASSUME PlayAssumption ==
    /\ Plays \subseteq [route : {"client", "instance", "start"},
                       loader : {"vanilla", "fabric", "forge"}, faults : Nat]
    /\ \A p \in Plays : p.route = "client" => p.loader # "forge"
ASSUME FileAssumption ==
    /\ (Named \cup Installed) \cap (VLibs \cup Assets \cup PLibs \cup LLibs) = {}
    /\ Assets \cap (VLibs \cup PLibs \cup LLibs) = {}
    /\ Natives \subseteq VLibs /\ Given \subseteq Files
    /\ PMain \in PLibs
    /\ "zip" \in Given => Parts \subseteq Given

VARIABLES
    play,       \* the one of Plays that is launched, again and again
    file,       \* what is on disk under each name
    pc,         \* the step the launch is at, "idle" between launches
    todo,       \* files the step's loop has still to deal with
    open,       \* files open for writing right now
    listed,     \* the vanilla libraries the version JSON was read to name
    faults,     \* how many of these there have been
    cut,        \* history: files a crash or a failing tool left unfinished
    ignored     \* history: files left wrong by a failure whose result is ignored

vars == <<play, file, pc, todo, open, listed, faults, cut, ignored>>

(* "part" begins like the real file and stops short; "junk" is empty or   *)
(* something else altogether, such as an HTML page; "old" and "flat" are  *)
(* for an installation.                                                   *)
Content == {"absent", "part", "junk", "good", "old", "flat"}

----------------------------------------------------------------------------
(* The order of the steps.  The client route deobfuscates client.jar and   *)
(* has the agent; an instance installs its loader before the libraries.    *)

OnlyFabric(s) == IF play.loader = "fabric" THEN s ELSE << >>

Steps ==
    IF play.route = "client"
    THEN <<"client", "mapped", "djava", "maps", "tiny", "remap", "vlibs",
           "natives", "aindex", "assets", "java">>
         \o OnlyFabric(<<"profile">>) \o <<"main", "llibs", "run">>
    ELSE <<"client", "java">> \o OnlyFabric(<<"profile">>)
         \o (IF play.loader = "forge" THEN <<"installer", "plibs", "process">> ELSE << >>)
         \o <<"main", "vlibs", "natives", "aindex", "assets", "llibs", "run">>

After(s) == LET i == CHOOSE i \in DOMAIN Steps : Steps[i] = s IN Steps[i + 1]

(* A profile that does not parse is not an error: the parser answers with  *)
(* a null value, and the launch goes on with no loader libraries.          *)
LoaderLibs ==
    IF play.loader = "forge" \/ (play.loader = "fabric" /\ file["profile"] = "good")
    THEN LLibs ELSE {}

Work(s) == CASE s = "natives" -> listed \cap Natives
             [] s = "plibs"   -> PLibs
             [] s = "llibs"   -> LoaderLibs
             [] OTHER         -> {}

Go(s) == pc' = s /\ todo' = Work(s)
Fail  == pc' = "idle" /\ todo' = {}

----------------------------------------------------------------------------
(* Transfers and tools.                                                    *)

Missing(f) == file[f] = "absent"

(* fopen(path, "wb"): what was there is gone before the first byte comes.  *)
Open(fs) == /\ file' = [f \in Files |-> IF f \in fs THEN "junk" ELSE file[f]]
            /\ open' = fs
            /\ cut' = cut \ fs

(* How download_file ends: complete; an error page, which curl does not    *)
(* report as an error; or a failure that keeps what had arrived.           *)
Transfers ==
    {[ok |-> TRUE, now |-> "good", bad |-> 0]}
    \cup IF faults < play.faults
         THEN {[ok |-> TRUE, now |-> "junk", bad |-> 1],
               [ok |-> FALSE, now |-> "part", bad |-> 1],
               [ok |-> FALSE, now |-> "junk", bad |-> 1]}
         ELSE {}

(* One transfer of download_files_parallel: a failure or a status other    *)
(* than 200 removes the file.                                              *)
PoolTransfers == {[t EXCEPT !.now = IF t.ok THEN t.now ELSE "absent"] : t \in Transfers}

(* The file f now holds c, and its transfer or tool has come to an end.    *)
Closed(f, c, bad) == /\ file' = [file EXCEPT ![f] = c]
                     /\ open' = open \ {f}
                     /\ faults' = faults + bad

(* A tool that dies leaves f as it was or half written; it may always die  *)
(* when what it reads is damaged.                                          *)
ToolFails(f, damaged) ==
    /\ damaged \/ faults < play.faults
    /\ \E c \in {file[f], "part"} : Closed(f, c, IF damaged THEN 0 ELSE 1)
    /\ cut' = cut \cup {f}

JavaRuns == file["java"] = "good" /\ file["jre"] = "good"

TypeOK ==
    /\ play \in Plays /\ file \in [Files -> Content]
    /\ pc \in {"idle", "vjson", "client", "mapped", "djava", "maps", "tiny",
               "remap", "vlibs", "natives", "aindex", "assets", "java",
               "profile", "installer", "plibs", "process", "main", "llibs", "run",
               "self", "selfzip", "swap", "swapped", "stamp", "chmod", "asset",
               "zip", "verify", "extract", "deps", "spawn", "started"}
    /\ todo \subseteq Files /\ open \subseteq Files
    /\ cut \subseteq Files /\ ignored \subseteq Files
    /\ listed \subseteq VLibs
    /\ faults \in 0..play.faults

(* The player has put the bootstrapper there.                              *)
Init == /\ play \in Plays
        /\ file = [f \in Files |-> IF f \in Given \cup {"boot"} THEN "good" ELSE "absent"]
        /\ pc = "idle" /\ todo = {} /\ open = {} /\ cut = {} /\ ignored = {}
        /\ listed = {} /\ faults = 0

----------------------------------------------------------------------------
(* resolve_version_json.                                                   *)

(* The player asks for the game; the version JSON is fetched again.        *)
Launch == /\ pc = "idle" /\ play.route # "start"
          /\ Open({"vjson"})
          /\ pc' = "vjson"
          /\ UNCHANGED <<todo, play, listed, ignored, faults>>

(* download_file's answer is not looked at.  The parser accepts a JSON     *)
(* that stops short and sees the entries before the break; without the     *)
(* client's entry the launch ends.  Otherwise client.jar is opened next.   *)
VersionJson ==
    /\ pc = "vjson"
    /\ \E t \in Transfers :
         /\ faults' = faults + t.bad
         /\ \/ /\ t.now # "good"
               /\ file' = [file EXCEPT !["vjson"] = t.now]
               /\ open' = {} /\ Fail /\ UNCHANGED listed
            \/ /\ t.now # "junk"
               /\ file' = [file EXCEPT !["vjson"] = t.now, !["client"] = "junk"]
               /\ open' = {"client"} /\ pc' = "client"
               /\ listed' \in IF t.now = "good" THEN {VLibs} ELSE SUBSET VLibs
               /\ UNCHANGED todo
    /\ cut' = cut \ {"client"} /\ UNCHANGED <<play, ignored>>

(* The digest decides: a client.jar that does not match is removed.        *)
ClientJar ==
    /\ pc = "client"
    /\ \E t \in Transfers :
         IF t.now = "good"
         THEN Closed("client", "good", t.bad) /\ Go(After("client"))
         ELSE Closed("client", "absent", t.bad) /\ Fail
    /\ UNCHANGED <<play, listed, ignored, cut>>

----------------------------------------------------------------------------
(* java_ensure: installed when bin/java exists.                            *)

JavaFiles == {"java", "jre"}
AtJava == pc \in {"java", "djava"}

JavaInstalled == /\ AtJava /\ todo = {} /\ ~Missing("java")
                 /\ Go(After(pc))
                 /\ UNCHANGED <<file, open, play, listed, ignored, faults, cut>>

(* Two manifests come first, through temporary files that are removed.     *)
JavaMissing == /\ AtJava /\ todo = {} /\ Missing("java")
               /\ \/ todo' = JavaFiles /\ UNCHANGED <<pc, faults>>
                  \/ faults < play.faults /\ faults' = faults + 1 /\ Fail
               /\ UNCHANGED <<file, open, play, listed, ignored, cut>>

JavaFetch(f) == /\ AtJava /\ open = {} /\ f \in todo
                /\ Open({f})
                /\ UNCHANGED <<pc, todo, play, listed, ignored, faults>>

(* Only the file's existence is looked at, and fopen has created it.       *)
JavaFetched(f) ==
    /\ AtJava /\ open = {f}
    /\ \E t \in Transfers : Closed(f, t.now, t.bad)
    /\ IF todo = {f} THEN Go(After(pc)) ELSE todo' = todo \ {f} /\ UNCHANGED pc
    /\ UNCHANGED <<play, listed, ignored, cut>>

----------------------------------------------------------------------------
(* resolve_deobfuscated_jar and deobfuscate_client_jar: mappings, then the *)
(* tiny file made from them, then the jar made from that; each is used as  *)
(* it is when it exists.                                                   *)

MappedCached == /\ pc = "mapped"
                /\ Go(IF Missing("mapped") THEN "djava" ELSE After("remap"))
                /\ UNCHANGED <<file, open, play, listed, ignored, faults, cut>>

Mappings == /\ pc = "maps" /\ open = {}
            /\ IF Missing("maps")
               THEN Open({"maps"}) /\ UNCHANGED <<pc, todo>>
               ELSE Go("tiny") /\ UNCHANGED <<file, open, cut>>
            /\ UNCHANGED <<play, listed, ignored, faults>>

MappingsFetched ==
    /\ pc = "maps" /\ open = {"maps"}
    /\ \E t \in Transfers : /\ Closed("maps", t.now, t.bad)
                            /\ IF t.ok THEN Go("tiny") ELSE Fail
    /\ UNCHANGED <<play, listed, ignored, cut>>

(* A converter or the remapper is started.                                 *)
StartTool(s, f) == /\ pc = s /\ open = {}
                   /\ open' = {f}
                   /\ UNCHANGED <<file, pc, todo, play, listed, ignored, faults, cut>>

TinyCached == /\ pc = "tiny" /\ open = {} /\ ~Missing("tiny")
              /\ Go("remap")
              /\ UNCHANGED <<file, open, play, listed, ignored, faults, cut>>

Convert == Missing("tiny") /\ StartTool("tiny", "tiny")

(* Mappings that are no mappings give an empty tiny file, not an error.    *)
Converted ==
    /\ pc = "tiny" /\ open = {"tiny"}
    /\ LET damaged == file["maps"] # "good" \/ ~JavaRuns IN
       \/ /\ Closed("tiny", IF damaged THEN "part" ELSE "good", 0)
          /\ Go("remap") /\ UNCHANGED cut
       \/ ToolFails("tiny", damaged) /\ Fail
    /\ UNCHANGED <<play, listed, ignored>>

Remap == StartTool("remap", "mapped")

Remapped ==
    /\ pc = "remap" /\ open = {"mapped"}
    /\ LET damaged == file["client"] # "good" \/ file["tiny"] # "good" \/ ~JavaRuns IN
       \/ /\ Closed("mapped", IF damaged THEN "part" ELSE "good", 0)
          /\ Go(After("remap")) /\ UNCHANGED cut
       \/ ToolFails("mapped", damaged) /\ Fail
    /\ UNCHANGED <<play, listed, ignored>>

----------------------------------------------------------------------------
(* download_libraries: what is missing, in parallel, then the digests.     *)

PoolStart(s, wanted) ==
    /\ pc = s /\ open = {} /\ todo = {}
    /\ LET jobs == {f \in wanted : Missing(f)} IN
       IF jobs = {} THEN Go(After(s)) /\ UNCHANGED <<file, open, cut>>
                    ELSE Open(jobs) /\ todo' = jobs /\ UNCHANGED pc
    /\ UNCHANGED <<play, listed, ignored, faults>>

PoolLand(s, f) ==
    /\ pc = s /\ f \in open
    /\ \E t \in PoolTransfers : Closed(f, t.now, t.bad)
    /\ UNCHANGED <<pc, todo, play, listed, ignored, cut>>

LibrariesStart   == PoolStart("vlibs", listed)
LibrariesLand(f) == PoolLand("vlibs", f)

(* Seeded fault: a library that fails its digest is counted but kept.      *)
LibrariesVerify_Fault ==
    /\ pc = "vlibs" /\ todo # {} /\ open = {}
    /\ Go("natives")
    /\ UNCHANGED <<file, open, play, listed, ignored, faults, cut>>

(* Only the libraries of this launch's jobs have their digest checked, and *)
(* the answer of download_libraries is not looked at.                      *)
LibrariesVerify ==
    /\ pc = "vlibs" /\ todo # {} /\ open = {}
    /\ file' = [f \in Files |-> IF f \in todo /\ file[f] # "good" THEN "absent" ELSE file[f]]
    /\ Go("natives")
    /\ UNCHANGED <<open, play, listed, ignored, faults, cut>>

(* extract_all_natives tries once more for a native that is missing.  What *)
(* it unpacks is written over by every launch and is not modelled.         *)
Native(f) ==
    /\ pc = "natives" /\ open = {} /\ f \in todo
    /\ IF Missing(f) THEN Open({f}) /\ UNCHANGED todo
                     ELSE todo' = todo \ {f} /\ UNCHANGED <<file, open, cut>>
    /\ UNCHANGED <<pc, play, listed, ignored, faults>>

NativeFetched(f) ==
    /\ pc = "natives" /\ open = {f}
    /\ \E t \in Transfers : Closed(f, IF t.now = "good" THEN "good" ELSE "absent", t.bad)
    /\ todo' = todo \ {f}
    /\ UNCHANGED <<pc, play, listed, ignored, cut>>

(* A loop of the launch has nothing left to do.                            *)
LoopDone(s) == /\ pc = s /\ open = {} /\ todo = {}
               /\ Go(After(s))
               /\ UNCHANGED <<file, open, play, listed, ignored, faults, cut>>
NativesDone == LoopDone("natives")

----------------------------------------------------------------------------
(* download_assets.                                                        *)

(* Seeded fault: the index is fetched again even when it is there.         *)
AssetIndex_Fault == /\ pc = "aindex" /\ open = {}
                    /\ Open({"aindex"})
                    /\ UNCHANGED <<pc, todo, play, listed, ignored, faults>>

AssetIndex == /\ pc = "aindex" /\ open = {}
              /\ IF Missing("aindex")
                 THEN Open({"aindex"}) /\ UNCHANGED <<pc, todo>>
                 ELSE Go("assets") /\ UNCHANGED <<file, open, cut>>
              /\ UNCHANGED <<play, listed, ignored, faults>>

AssetIndexFetched == /\ pc = "aindex" /\ open = {"aindex"}
                     /\ \E t \in Transfers : Closed("aindex", t.now, t.bad)
                     /\ Go("assets")
                     /\ UNCHANGED <<play, listed, ignored, cut>>

(* What an index names: all objects, those before the break, or none.      *)
Indexed == CASE file["aindex"] = "good" -> {Assets}
             [] file["aindex"] = "part" -> SUBSET Assets
             [] OTHER                   -> {{}}

AssetsStart   == \E named \in Indexed : PoolStart("assets", named)
AssetsLand(f) == PoolLand("assets", f)
AssetsDone    == todo # {} /\ pc = "assets" /\ open = {} /\ Go(After("assets"))
                 /\ UNCHANGED <<file, open, play, listed, ignored, faults, cut>>

----------------------------------------------------------------------------
(* fetch_fabric_profile: fetched by every launch.                          *)

Profile == /\ pc = "profile" /\ open = {}
           /\ Open({"profile"})
           /\ UNCHANGED <<pc, todo, play, listed, ignored, faults>>

ProfileFetched ==
    /\ pc = "profile" /\ open = {"profile"}
    /\ \E t \in Transfers : /\ Closed("profile", t.now, t.bad)
                            /\ IF t.ok THEN Go(After("profile")) ELSE Fail
    /\ UNCHANGED <<play, listed, ignored, cut>>

----------------------------------------------------------------------------
(* fetch_forge_profile.                                                    *)

(* The installer is fetched when missing.  Its profile is read out of it;  *)
(* an archive that does not open ends the launch and stays where it is.    *)
Installer == /\ pc = "installer" /\ open = {}
             /\ IF Missing("installer")
                THEN Open({"installer"}) /\ UNCHANGED <<pc, todo>>
                ELSE /\ IF file["installer"] = "good" THEN Go("plibs") ELSE Fail
                     /\ UNCHANGED <<file, open, cut>>
             /\ UNCHANGED <<play, listed, ignored, faults>>

InstallerFetched ==
    /\ pc = "installer" /\ open = {"installer"}
    /\ \E t \in Transfers : /\ Closed("installer", t.now, t.bad)
                            /\ IF t.ok THEN UNCHANGED <<pc, todo>> ELSE Fail
    /\ UNCHANGED <<play, listed, ignored, cut>>

(* is_valid_jar_file reads the first four bytes.                           *)
IsJar(c) == c \in {"good", "part"}

(* download_cjson_libraries.                                               *)
InstallLib(f) ==
    /\ pc = "plibs" /\ open = {} /\ f \in todo
    /\ IF IsJar(file[f]) THEN todo' = todo \ {f} /\ UNCHANGED <<file, open, cut>>
                         ELSE Open({f}) /\ UNCHANGED todo
    /\ UNCHANGED <<pc, play, listed, ignored, faults>>

(* Seeded fault: the file of a failed transfer is not removed.             *)
InstallLibFetched_Fault(f) ==
    /\ pc = "plibs" /\ open = {f}
    /\ \E t \in Transfers : Closed(f, t.now, t.bad)
    /\ todo' = todo \ {f}
    /\ UNCHANGED <<pc, play, listed, ignored, cut>>

InstallLibFetched(f) ==
    /\ pc = "plibs" /\ open = {f}
    /\ \E t \in Transfers :
         Closed(f, IF t.ok /\ IsJar(t.now) THEN t.now ELSE "absent", t.bad)
    /\ todo' = todo \ {f}
    /\ UNCHANGED <<pc, play, listed, ignored, cut>>

InstallLibsDone == LoopDone("plibs")

(* Seeded fault: an output that exists is taken to be up to date.          *)
UpToDate_Fault == file["out"] # "absent"

(* processor_outputs_up_to_date: the outputs carry digests.                *)
UpToDate == file["out"] = "good"

ProcessorSkipped == /\ pc = "process" /\ open = {} /\ UpToDate
                    /\ Go(After("process"))
                    /\ UNCHANGED <<file, open, play, listed, ignored, faults, cut>>

(* No main class to be read: the jar is removed and the launch ends.       *)
ProcessorUnreadable ==
    /\ pc = "process" /\ open = {} /\ ~UpToDate
    /\ file[PMain] # "good"
    /\ file' = [file EXCEPT ![PMain] = "absent"]
    /\ Fail
    /\ UNCHANGED <<open, play, listed, ignored, faults, cut>>

RunProcessor == /\ StartTool("process", "out")
                /\ ~UpToDate /\ file[PMain] = "good"

(* A class path with a damaged or missing jar makes the processor fail.    *)
ProcessorDone ==
    /\ pc = "process" /\ open = {"out"}
    /\ LET damaged == ~JavaRuns \/ \E f \in PLibs : file[f] # "good" IN
       \/ ~damaged /\ Closed("out", "good", 0) /\ Go(After("process")) /\ UNCHANGED cut
       \/ ToolFails("out", damaged) /\ Fail
    /\ UNCHANGED <<play, listed, ignored>>

----------------------------------------------------------------------------
(* The class path, and the game.                                           *)

(* mainClass comes after the libraries in the version JSON, so a JSON that *)
(* stops short may lack it; a loader's profile brings its own.             *)
MainClass == /\ pc = "main"
             /\ \/ Go(After("main"))
                \/ /\ file["vjson"] # "good"
                   /\ play.loader = "vanilla" \/ (play.loader = "fabric" /\ file["profile"] # "good")
                   /\ Fail
             /\ UNCHANGED <<file, open, play, listed, ignored, faults, cut>>

(* download_pending_libraries: whatever comes is kept, also for a library  *)
(* of the version JSON that its digest has just had removed.               *)
LoaderLib(f) ==
    /\ pc = "llibs" /\ open = {} /\ f \in todo
    /\ IF Missing(f) THEN Open({f}) /\ UNCHANGED todo
                     ELSE todo' = todo \ {f} /\ UNCHANGED <<file, open, cut>>
    /\ UNCHANGED <<pc, play, listed, ignored, faults>>

LoaderLibFetched(f) ==
    /\ pc = "llibs" /\ open = {f}
    /\ \E t \in Transfers :
         /\ Closed(f, t.now, t.bad)
         /\ ignored' = IF t.now = "good" THEN ignored ELSE ignored \cup {f}
    /\ todo' = todo \ {f}
    /\ UNCHANGED <<pc, play, listed, cut>>

LoaderLibsDone == LoopDone("llibs")

GameOver == /\ pc = "run" /\ Fail
            /\ UNCHANGED <<file, open, play, listed, ignored, faults, cut>>

----------------------------------------------------------------------------
(* The launcher dies: the player closes it, or the machine stops.  A       *)
(* library whose digest was not checked yet never will be.                 *)
Crash ==
    /\ faults < play.faults /\ pc \notin {"idle", "run"} /\ play.route # "start"
    /\ \E halved \in SUBSET open :
         file' = [f \in Files |-> IF f \in halved THEN "part" ELSE file[f]]
    /\ cut' = cut \cup open \cup (IF pc = "vlibs" THEN todo ELSE {})
    /\ Fail /\ open' = {}
    /\ faults' = faults + 1
    /\ UNCHANGED <<play, listed, ignored>>

Step ==
    \/ Launch \/ VersionJson \/ ClientJar
    \/ JavaInstalled \/ JavaMissing
    \/ \E f \in JavaFiles : JavaFetch(f) \/ JavaFetched(f)
    \/ MappedCached \/ Mappings \/ MappingsFetched
    \/ TinyCached \/ Convert \/ Converted \/ Remap \/ Remapped
    \/ LibrariesStart \/ LibrariesVerify \/ NativesDone
    \/ \E f \in VLibs : LibrariesLand(f) \/ Native(f) \/ NativeFetched(f)
    \/ AssetIndex \/ AssetIndexFetched \/ AssetsStart \/ AssetsDone
    \/ \E f \in Assets : AssetsLand(f)
    \/ Profile \/ ProfileFetched
    \/ Installer \/ InstallerFetched \/ InstallLibsDone
    \/ \E f \in PLibs : InstallLib(f) \/ InstallLibFetched(f)
    \/ ProcessorSkipped \/ ProcessorUnreadable \/ RunProcessor \/ ProcessorDone
    \/ MainClass \/ LoaderLibsDone \/ GameOver
    \/ \E f \in LLibs : LoaderLib(f) \/ LoaderLibFetched(f)

Next == Step \/ Crash

Spec == Init /\ [][Next]_vars

----------------------------------------------------------------------------
(* Properties.                                                             *)

(* Whatever was interrupted before, the game is never started on a         *)
(* client.jar that differs from the one Mojang published, nor on another   *)
(* vanilla library than the published one, unless the launcher died        *)
(* between opening it and checking its digest, or the loader's profile     *)
(* names it too and something else came for it there, where nobody looks.  *)
(* Failing servers and error pages on the way of the vanilla libraries     *)
(* themselves never leave a wrong one behind.                              *)
RunsPublished ==
    pc = "run" =>
        /\ file["client"] = "good"
        /\ \A f \in VLibs : file[f] \in {"absent", "good"} \/ f \in cut \cup ignored

(* A Forge game is only ever started fully patched, from an installer that *)
(* could be read: a patch that failed or was cut short is never taken for  *)
(* done by a later launch, and its processors never meet an error page     *)
(* saved as a jar.                                                         *)
LoaderKept ==
    /\ pc = "run" /\ play.loader = "forge" =>
           file["installer"] = "good" /\ file["out"] = "good"
    /\ pc = "process" => \A f \in PLibs : file[f] # "junk"

(* No launch, retry or crash damages a file that was complete, except the  *)
(* three that every launch fetches again and the files of a Java runtime   *)
(* whose bin/java is missing, which are all fetched again.                 *)
GoodKept ==
    [][\A f \in Files \ (Installed \cup {"vjson", "client", "profile", "jre"}) :
         file[f] = "good" => file'[f] = "good"]_vars

(* All a game needs is there; a file that no launch fetches twice stays    *)
(* damaged.  Bootstrapper says which of the two comes in the end.          *)
Needed == {"client", "java", "jre"} \cup VLibs
          \cup (IF play.loader = "forge" THEN {"out"} \cup PLibs ELSE {})
          \cup (IF play.loader # "vanilla" THEN LLibs ELSE {})
          \cup (IF play.route = "client" THEN {"mapped"} ELSE {})
Complete == \A f \in Needed : file[f] = "good"
Spoilt == \/ \E f \in (cut \cup ignored) \cap (VLibs \cup PLibs \cup LLibs) : file[f] # "good"
          \/ \E f \in {"installer", "maps", "tiny", "mapped"} : file[f] \in {"part", "junk"}
          \/ \E f \in JavaFiles : file[f] # "good"
=============================================================================
