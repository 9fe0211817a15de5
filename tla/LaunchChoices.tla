--------------------------- MODULE LaunchChoices ---------------------------
(***************************************************************************)
(* The launches of GameFiles with what they choose on the way: the version *)
(* of the loader (LoaderVersions), the class path and the command line     *)
(* (LaunchArgs).  What is chosen follows from the files alone, so the      *)
(* properties look at a game that is started in a launch that nothing went *)
(* wrong in, whatever those files are.                                     *)
(***************************************************************************)
EXTENDS Bootstrapper, LaunchArgs, LoaderVersions

Started == pc = "run" /\ faults = 0

(* The version of a library that is named first is the one on the class    *)
(* path, with every classifier it is named with, and no other version of   *)
(* it is: what the loader brings takes the place of what the game would    *)
(* have brought.  Nothing else is left out as long as there is room.  And  *)
(* every library on the class path is one the launch fetches: it is marked *)
(* to be downloaded, or download_libraries has it in its list, which is    *)
(* made from another reading of the rules.  The two part where a rule      *)
(* names an architecture.                                                  *)
FirstVersionWins == Started => FirstOf(play.loader) /\ AllFetched(play.loader)

(* The client is on the class path, and then so is every library, exactly  *)
(* when all the names fit in the buffer with their separators, none being  *)
(* lost from the middle; the heap starts no larger than it may grow, for   *)
(* every amount of memory from 256 MB up; and the arguments fit in the 192 *)
(* places that build_launch_argv is given and does not count, whatever a   *)
(* profile adds.                                                           *)
CommandFits == Started => NoneLost /\ HeapFits /\ ArgumentsFit(play.loader)

(* A launch that names no version of its loader installs one the page is   *)
(* offered for the same game, none of another whose builds have names of   *)
(* their own, the recommended one if there is one, and the one the page is *)
(* told is the latest; among builds numbered without a suffix that is the  *)
(* newest, in whatever order the server lists them.                        *)
VersionOffered == Started => Offered(play.loader)
=============================================================================
