--------------------------- MODULE LoaderVersions ---------------------------
(***************************************************************************)
(* Which version of a loader a launch installs when the instance names     *)
(* none (launch/fabric.c, quilt.c, forge.c), and which versions the page   *)
(* is offered for the same game (ipc/instance_handlers.c).  The page's     *)
(* handlers and the launches have a copy each of the code for NeoForge.    *)
(*                                                                         *)
(* A version is the sequence of its parts between dots, each a number that *)
(* "-beta" may follow; the version of a game has no such parts.            *)
(***************************************************************************)
EXTENDS Integers, Sequences, Functions
LOCAL INSTANCE SequencesExt
LOCAL INSTANCE FiniteSetsExt

CONSTANTS
    Games,      \* versions of the game
    Builds,     \* lists of NeoForge versions, as the server sends them
    Promotions  \* Forge's promoted versions, by game and "recommended" or "latest"

Part == [n : Nat, beta : BOOLEAN]

ASSUME GameAssumption == Games \subseteq Seq(Nat) \ {<< >>}

ASSUME ListAssumption ==
    /\ Builds \subseteq Seq(Seq(Part))
    /\ \A promos \in Promotions :
           DOMAIN promos \subseteq Seq(Nat) \X {"recommended", "latest"}

None == << >>

-----------------------------------------------------------------------------
(* NeoForge.                                                               *)

(* "1.20.4" -> "20.4", "1.21" -> "21.0"; "26.1" stays as it is.            *)
Prefix(game) ==
    LET rest == IF game[1] = 1 /\ Len(game) > 1 THEN Tail(game) ELSE game
    IN  IF Len(rest) > 1 THEN rest ELSE Append(rest, 0)

mc_to_neoforge_prefix(game) == Prefix(game)
mc_to_neoforge_prefix_ih(game) == Prefix(game)

(* The prefix and the dot after it.                                        *)
Matches(v, prefix) ==
    /\ Len(v) > Len(prefix)
    /\ \A i \in DOMAIN prefix : v[i] = [n |-> prefix[i], beta |-> FALSE]

(* Every character of a part counts as a digit, those of "-beta" too.      *)
Value(part) ==
    IF part.beta
    THEN FoldLeft(LAMBDA n, c : (n * 10 + c) - 48, part.n, <<45, 98, 101, 116, 97>>)
    ELSE part.n

(* > 0 when the first part that differs is greater in a; a part that is    *)
(* missing counts as 0.                                                    *)
Compared(a, b) ==
    LET At(v, i) == IF i \in DOMAIN v THEN Value(v[i]) ELSE 0
        differ == {i \in DOMAIN a \cup DOMAIN b : At(a, i) # At(b, i)}
    IN  IF differ = {} THEN 0
        ELSE IF At(a, Min(differ)) > At(b, Min(differ)) THEN 1 ELSE 2

(* Seeded fault: the number of parts is compared first.                    *)
cmp_dotted_version_Longer(a, b) ==
    IF Len(a) # Len(b) THEN IF Len(a) > Len(b) THEN 1 ELSE 2 ELSE Compared(a, b)

cmp_dotted_version(a, b) == Compared(a, b)
cmp_dotted_version_ih(a, b) == Compared(a, b)

(* The best of the list so far is kept; None when nothing fits.            *)
fetch_neoforge_profile(list, game) ==
    LET prefix == mc_to_neoforge_prefix(game)
    IN  FoldLeft(LAMBDA best, v :
                     IF Matches(v, prefix) /\ (best = None \/ cmp_dotted_version(v, best) = 1)
                     THEN v ELSE best,
                 None, list)

on_get_neoforge_versions(list, game) ==
    LET prefix == mc_to_neoforge_prefix_ih(game)
    IN  FoldLeft(LAMBDA out, v :
                     IF ~Matches(v, prefix) THEN out
                     ELSE [versions |-> Append(out.versions, v),
                           latest |-> IF \/ out.latest = None
                                         \/ cmp_dotted_version_ih(v, out.latest) = 1
                                      THEN v ELSE out.latest],
                 [versions |-> << >>, latest |-> None], list)

-----------------------------------------------------------------------------
(* Forge.  promos is a function of pairs of a game and a kind.             *)

fetch_forge_profile(promos, game) ==
    IF <<game, "recommended">> \in DOMAIN promos THEN promos[<<game, "recommended">>]
    ELSE IF <<game, "latest">> \in DOMAIN promos THEN promos[<<game, "latest">>]
    ELSE None

on_get_forge_versions(promos, game) ==
    {[version |-> promos[k], recommended |-> k[2] = "recommended"]
        : k \in {k \in DOMAIN promos : k[1] = game}}

-----------------------------------------------------------------------------
(* Fabric and Quilt.  The page is sent the list as it came.                *)

fetch_fabric_profile(list) == IF list = << >> THEN None ELSE list[1]
fetch_quilt_profile(list) == IF list = << >> THEN None ELSE list[1]
on_get_fabric_versions(list) == list
on_get_quilt_versions(list) == list

-----------------------------------------------------------------------------
(* What is expected.                                                       *)

Stable(v) == \A i \in DOMAIN v : ~v[i].beta

(* Games whose builds have names of their own: 1.x and 1.x.y (there is no  *)
(* 1.x.0), and others of as many numbers.  The builds of 26.1.1 also begin *)
(* with the prefix of 26.1.                                                *)
Release(g) == Len(g) \in {2, 3} /\ g[1] = 1 /\ (Len(g) = 3 => g[3] # 0)

SameScheme(g, h) ==
    \/ Release(g) /\ Release(h)
    \/ Len(g) = Len(h) /\ Len(g) > 1 /\ g[1] # 1 /\ h[1] # 1

NeoForgeOffered ==
    \A list \in Builds, game \in Games :
        LET page == on_get_neoforge_versions(list, game)
            taken == fetch_neoforge_profile(list, game)
        IN  /\ taken = page.latest
            /\ IF page.versions = << >> THEN taken = None ELSE taken \in Range(page.versions)
            /\ \A g \in Games \ {game} : SameScheme(g, game) =>
                   Range(page.versions) \cap Range(on_get_neoforge_versions(list, g).versions) = {}
            /\ (\A v \in Range(page.versions) : Stable(v)) =>
                   \A v \in Range(page.versions) : cmp_dotted_version_ih(v, taken) # 1

ForgeOffered ==
    \A promos \in Promotions, game \in Games :
        LET page == on_get_forge_versions(promos, game)
            taken == fetch_forge_profile(promos, game)
        IN  IF page = {} THEN taken = None
            ELSE \E e \in page : /\ e.version = taken
                                 /\ e.recommended \/ \A f \in page : ~f.recommended

ListOffered ==
    \A list \in Builds :
        LET offers(page, taken) == IF page = << >> THEN taken = None ELSE taken \in Range(page)
        IN  /\ offers(on_get_fabric_versions(list), fetch_fabric_profile(list))
            /\ offers(on_get_quilt_versions(list), fetch_quilt_profile(list))

Offered(loader) ==
    CASE loader = "forge" -> NeoForgeOffered /\ ForgeOffered
      [] loader = "fabric" -> ListOffered
      [] OTHER -> TRUE
=============================================================================
