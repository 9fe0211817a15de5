----------------------------- MODULE LaunchArgs -----------------------------
(***************************************************************************)
(* What a launch makes of the version file and of the loader's profile:    *)
(* the class path (launch/classpath.c), the libraries it fetches for it    *)
(* (utils/version_manifest.h with utils/libraries.c), and the command line *)
(* (launch/jvm_args.c, launch/forge.c).  Functions of their inputs: the    *)
(* properties at the end are about every input up to a bound.              *)
(***************************************************************************)
EXTENDS Integers, Sequences, FiniteSets, Functions
LOCAL INSTANCE SequencesExt
LOCAL INSTANCE FiniteSetsExt

CONSTANTS
    LibCap,       \* entries of libs_arr: 512 in the code
    PathRoom,     \* bytes of classpath: 65536 in the code
    \* The inputs the properties are about:
    Profiles,     \* "libraries" of the loader's profile
    VersionFiles, \* "libraries" of the version file
    Texts,        \* the lengths of the names of the class path
    Jsons,        \* Forge profiles, by their arguments
    Amounts       \* the memory of a launch in megabytes; 0: unknown

(* An entry of "libraries": the group and artifact of its Maven name, ""   *)
(* when the name is missing or has not two colons; its version and its     *)
(* classifier; whether it is for clients; whether it comes with a path to  *)
(* download; and its rules, if it has any, each about one system, one      *)
(* architecture, or all ("any").  A list of rules is never empty in a      *)
(* version file, nor a rule without an action: << >> stands for no list.   *)
Rule == [action : {"allow", "disallow"}, os : {"any", "here", "other"},
         arch : {"any", "here", "other"}]

Entry == [ga : STRING, ver : Nat, cls : STRING, clientreq : BOOLEAN, artifact : BOOLEAN,
          rules : Seq(Rule)]

ASSUME RoomAssumption == LibCap \in Nat /\ PathRoom \in Nat

(* The path of the agent comes from a buffer far shorter than the one for  *)
(* the class path (0: there is no agent), and the client has a path.       *)
ASSUME InputAssumption ==
    /\ Profiles \cup VersionFiles \subseteq Seq(Entry)
    /\ Texts \subseteq [agent : 0..(PathRoom - 2), libs : Seq(Nat), client : Nat \ {0}]
    /\ Jsons \subseteq [modern : BOOLEAN, tweak : BOOLEAN, jvm : Seq(STRING), game : Seq(STRING)]
    /\ Amounts \subseteq Nat

Total(lengths) == FoldLeft(LAMBDA n, m : n + m, 0, lengths)

-----------------------------------------------------------------------------
(* Which entries are for this machine.  There are two readings: the one of *)
(* the class path, and the one of the downloads, which takes no notice of  *)
(* the architecture.  In both the last rule that applies decides.          *)

Decides(rules, applying) ==
    FoldLeft(LAMBDA allowed, r : IF r \in applying THEN r.action = "allow" ELSE allowed,
             rules = << >>, rules)

rules_allow_current_os(rules) ==
    Decides(rules, {r \in Range(rules) : r.os # "other" /\ r.arch # "other"})

vm_rules_allow(rules) == Decides(rules, {r \in Range(rules) : r.os # "other"})

-----------------------------------------------------------------------------
(* The class path.                                                         *)

parse_maven_gav(e) == e.ga # ""

(* Where the jar is, under libraries/.                                     *)
gav_to_relpath(e) == <<e.ga, e.ver, e.cls>>

(* Seeded fault: a newer version takes the place of an older one.          *)
cp_add_Newest(arr, lib) ==
    LET same == {i \in DOMAIN arr : arr[i].ga = lib.ga} IN
    IF same # {} THEN
        IF lib.ver > arr[Min(same)].ver THEN [arr EXCEPT ![Min(same)] = lib]
        ELSE IF lib.ver = arr[Min(same)].ver THEN Append(arr, lib) ELSE arr
    ELSE IF Len(arr) >= LibCap THEN arr ELSE Append(arr, lib)

(* A library that is there in another version stays as it is; one of the   *)
(* same version is added beside it, for its classifier may differ.         *)
cp_add(arr, lib) ==
    LET same == {i \in DOMAIN arr : arr[i].ga = lib.ga} IN
    IF \/ same # {} /\ arr[Min(same)].ver # lib.ver
       \/ Len(arr) >= LibCap
    THEN arr ELSE Append(arr, lib)

(* An entry as it is added.                                                *)
CpLib(e, needs, jar) == [ga |-> e.ga, ver |-> e.ver, jar |-> jar, needs_download |-> needs]

(* The entries one after the other; as has those that count, and what each *)
(* is added as.                                                            *)
Collected(arr, entries, as) ==
    FoldLeft(LAMBDA a, e : IF e \in DOMAIN as THEN cp_add(a, as[e]) ELSE a, arr, entries)

(* The libraries of a loader, to be fetched under their names.             *)
ProfileLib(e) == CpLib(e, TRUE, gav_to_relpath(e))

collect_fabric_libs(arr, profile) ==
    Collected(arr, profile, [e \in {x \in Range(profile) : parse_maven_gav(x)} |-> ProfileLib(e)])

collect_forge_libs(arr, profile) ==
    Collected(arr, profile,
              [e \in {x \in Range(profile) : x.clientreq /\ parse_maven_gav(x)} |-> ProfileLib(e)])

(* Without a path of its own the name is taken as it is, classifier and    *)
(* all, and the jar fetched from Maven.                                    *)
VanillaLib(e) ==
    CpLib(e, ~e.artifact, IF e.artifact \/ e.cls = "" THEN gav_to_relpath(e)
                          ELSE <<e.ga, <<e.ver, e.cls>>>>)

collect_vanilla_libs(arr, version) ==
    Collected(arr, version,
              [e \in {x \in Range(version) : rules_allow_current_os(x.rules) /\ parse_maven_gav(x)}
                  |-> VanillaLib(e)])

(* The loader's libraries come first.                                      *)
libs_arr(loader, profile, version) ==
    collect_vanilla_libs(CASE loader = "fabric" -> collect_fabric_libs(<< >>, profile)
                           [] loader = "forge" -> collect_forge_libs(<< >>, profile)
                           [] OTHER -> << >>, version)

(* What download_libraries fetches.                                        *)
version_get_libraries(version) ==
    {gav_to_relpath(e) : e \in {x \in Range(version) : vm_rules_allow(x.rules) /\ x.artifact}}

-----------------------------------------------------------------------------
(* The text of the class path: lengths in bytes, in a buffer of PathRoom,  *)
(* each name but the last followed by a separator.                         *)

(* How many libraries are in it, and whether the client is.  The first     *)
(* name that does not fit ends the list and leaves no room at all.         *)
build_classpath(agent, libs, client) ==
    LET start == IF agent # 0 /\ agent + 1 < PathRoom THEN agent + 1 ELSE 0
        at == FoldLeft(LAMBDA p, n :
                  IF p.full THEN p
                  ELSE IF n + 1 >= PathRoom - p.len THEN [p EXCEPT !.full = TRUE, !.len = PathRoom - 1]
                  ELSE [p EXCEPT !.len = p.len + n + 1, !.libs = p.libs + 1],
                  [len |-> start, libs |-> 0, full |-> FALSE], libs)
    IN  [libs |-> at.libs, client |-> client < PathRoom - at.len]

-----------------------------------------------------------------------------
(* The command line.                                                       *)

(* -Xmx and -Xms, in megabytes.                                            *)
xmx_mb(ram) == IF ram > 0 THEN ram ELSE 2048

xms_mb(ram) == Max({Min({xmx_mb(ram) \div 2, 2048}), 256})

(* Seeded fault: the room that is left is not looked at.                   *)
forge_extract_extra_args_All(json, kind, max) ==
    IF json.modern THEN Cardinality({i \in DOMAIN json[kind] : json[kind][i] = "plain"})
    ELSE IF kind = "game" /\ json.tweak THEN 2 ELSE 0

(* How many arguments a Forge profile adds: the plain ones of its list, or *)
(* the tweak class of an old profile.                                      *)
forge_extract_extra_args(json, kind, max) ==
    IF json.modern
    THEN Min({max, Cardinality({i \in DOMAIN json[kind] : json[kind][i] = "plain"})})
    ELSE IF kind = "game" /\ json.tweak /\ 1 < max THEN 2 ELSE 0

(* launch_instance makes room for 16 arguments of the JVM and 32 of the    *)
(* game, and only takes those of Forge and NeoForge.                       *)
ExtraArgs(loader, json) ==
    IF loader # "forge" THEN [jvm |-> 0, game |-> 0]
    ELSE [jvm |-> forge_extract_extra_args(json, "jvm", 16),
          game |-> forge_extract_extra_args(json, "game", 32)]

(* The arguments in their order, by kind; max_argv is not looked at.       *)
build_launch_argv(has_cero, mac, extra) ==
    << <<"java", 1>>, <<"-Xms", 1>>, <<"-Xmx", 1>>, <<"-XX", 18>>, <<"-D", 8>>,
       <<"-XstartOnFirstThread", IF mac THEN 1 ELSE 0>>, <<"extra jvm", extra.jvm>>,
       <<"-cp", 2>>, <<"main", 1>>, <<"--realMainClass", IF has_cero THEN 2 ELSE 0>>,
       <<"game", 22>>, <<"extra game", extra.game>>, <<"NULL", 1>> >>

argc(argv) == Total([i \in DOMAIN argv |-> argv[i][2]])

-----------------------------------------------------------------------------
(* What is expected of a launch with a loader, whatever it is given.       *)

(* The positions of the entries the class path is made from, the loader's  *)
(* before those of the game.                                               *)
Candidates(loader, p, v) ==
    {i \in DOMAIN (p \o v) :
        /\ (p \o v)[i].ga # ""
        /\ IF i > Len(p) THEN rules_allow_current_os((p \o v)[i].rules)
           ELSE loader = "fabric" \/ (loader = "forge" /\ (p \o v)[i].clientreq)}

FirstOf(loader) ==
    \A p \in Profiles, v \in VersionFiles :
        LET all == p \o v
            named == Candidates(loader, p, v)
            arr == libs_arr(loader, p, v)
        IN  \A i \in named :
                LET first == all[Min({k \in named : all[k].ga = all[i].ga})]
                    here == {lib \in Range(arr) : lib.ga = all[i].ga} IN
                /\ \A lib \in here : lib.ver = first.ver
                /\ all[i].ver = first.ver /\ Len(arr) < LibCap =>
                       \E lib \in here : lib.jar \in {gav_to_relpath(all[i]), VanillaLib(all[i]).jar}

OneReading(version) == \A e \in Range(version) : \A r \in Range(e.rules) : r.arch = "any"

AllFetched(loader) ==
    \A p \in Profiles, v \in VersionFiles :
        OneReading(v) =>
            \A lib \in Range(libs_arr(loader, p, v)) :
                lib.needs_download \/ lib.jar \in version_get_libraries(v)

NoneLost ==
    \A t \in Texts :
        LET cp == build_classpath(t.agent, t.libs, t.client)
            total == (IF t.agent = 0 THEN 0 ELSE t.agent + 1)
                     + Total([i \in DOMAIN t.libs |-> t.libs[i] + 1]) + t.client
        IN  /\ cp.client <=> total < PathRoom
            /\ cp.client => cp.libs = Len(t.libs)

HeapFits == \A ram \in Amounts : ram = 0 \/ ram >= 256 => xms_mb(ram) <= xmx_mb(ram)

ArgumentsFit(loader) ==
    \A j \in Jsons, cero, mac \in BOOLEAN :
        argc(build_launch_argv(cero, mac, ExtraArgs(loader, j))) <= 192
=============================================================================
