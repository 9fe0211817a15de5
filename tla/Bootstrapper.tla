---------------------------- MODULE Bootstrapper ----------------------------
(***************************************************************************)
(* The program the player starts (bootstrapper/src): it replaces itself    *)
(* when a new release is out, brings the launcher and its data, and starts *)
(* the launcher.  The disk, the transfers that fail and the launcher's own *)
(* downloads are those of GameFiles; this is what happens before them.     *)
(*                                                                         *)
(* Two files say what is installed: a stamp with the digest of the archive *)
(* the bootstrapper came in, written after the exchange, and the archive   *)
(* of the launcher itself, which is kept under its name and is there       *)
(* before anything is taken out of it.                                     *)
(*                                                                         *)
(* What a file holds is told with respect to the release published last:   *)
(* "good" is that one's, "old" an earlier one's, "flat" a bootstrapper of  *)
(* that release that may not be executed.  A release that appears in the   *)
(* middle of a start is seen as answers that do not fit together, which    *)
(* fail the digest.  POSIX; one bootstrapper at a time.                    *)
(***************************************************************************)
EXTENDS GameFiles

bootVars == <<play, listed, ignored>>

(* One thing more goes wrong.                                              *)
Wrong == faults < play.faults /\ faults' = faults + 1

(* The bootstrapper may be executed.                                       *)
Runnable == file["boot"] \in {"good", "old"}

To(place) == pc' = place /\ UNCHANGED todo

-----------------------------------------------------------------------------
(* self_update.                                                            *)

(* What main removes first is what the last exchange has set aside.        *)
cleanup_old_self == file' = [file EXCEPT !["aside"] = "absent"]

Start == /\ pc = "idle" /\ play.route = "start" /\ Runnable
         /\ cleanup_old_self /\ To("self")
         /\ UNCHANGED <<bootVars, open, faults, cut>>

(* Without the list of digests, or a line about it in there, it is taken   *)
(* to be up to date.                                                       *)
self_update ==
    /\ pc = "self"
    /\ \/ To(IF file["stamp"] = "good" THEN "asset" ELSE "selfzip") /\ UNCHANGED faults
       \/ To("asset") /\ Wrong
    /\ UNCHANGED <<bootVars, file, open, cut>>

(* The archive is fetched, its digest checked, and it is unpacked in a     *)
(* directory of its own.  Failing there is no reason not to go on.         *)
SelfFetched ==
    /\ pc = "selfzip"
    /\ \/ To("swap") /\ UNCHANGED faults
       \/ To("asset") /\ Wrong
    /\ UNCHANGED <<bootVars, file, open, cut>>

SetAside ==
    /\ pc = "swap"
    /\ \/ /\ file' = [file EXCEPT !["aside"] = file["boot"], !["boot"] = "absent"]
          /\ To("swapped") /\ UNCHANGED faults
       \/ To("asset") /\ Wrong /\ UNCHANGED file
    /\ UNCHANGED <<bootVars, open, cut>>

(* Seeded fault: the old one is not put back.                              *)
Replace_NotBack ==
    /\ pc = "swapped"
    /\ \/ file' = [file EXCEPT !["boot"] = "flat"] /\ To("stamp") /\ UNCHANGED faults
       \/ To("asset") /\ Wrong /\ UNCHANGED file
    /\ UNCHANGED <<bootVars, open, cut>>

(* What is unpacked carries no permission to be executed.  When it cannot  *)
(* be put in place, the old one is put back; that this may fail too is     *)
(* ignored.                                                                *)
Replace ==
    /\ pc = "swapped"
    /\ \/ /\ file' = [file EXCEPT !["boot"] = "flat"]
          /\ To("stamp") /\ UNCHANGED <<faults, ignored>>
       \/ /\ file' = [file EXCEPT !["boot"] = file["aside"], !["aside"] = "absent"]
          /\ To("asset") /\ Wrong /\ UNCHANGED ignored
       \/ /\ ignored' = ignored \cup {"boot"}
          /\ To("asset") /\ Wrong /\ UNCHANGED file
    /\ UNCHANGED <<play, listed, open, cut>>

(* A stamp that cannot be written is no error.                             *)
Stamp ==
    /\ pc = "stamp"
    /\ \/ file' = [file EXCEPT !["stamp"] = "good"] /\ UNCHANGED faults
       \/ \E c \in {file["stamp"], "junk"} : file' = [file EXCEPT !["stamp"] = c] /\ Wrong
    /\ To("chmod")
    /\ UNCHANGED <<bootVars, open, cut>>

(* The new one is started and begins anew; if it cannot be, the old one    *)
(* goes on.  That it cannot be because make_executable failed is not seen. *)
Relaunch ==
    /\ pc = "chmod"
    /\ \/ /\ file' = [file EXCEPT !["boot"] = "good", !["aside"] = "absent"]
          /\ To("self") /\ UNCHANGED <<faults, ignored>>
       \/ /\ file' = [file EXCEPT !["boot"] = "good"]
          /\ To("asset") /\ Wrong /\ UNCHANGED ignored
       \/ /\ ignored' = ignored \cup {"boot"}
          /\ To("asset") /\ Wrong /\ UNCHANGED file
    /\ UNCHANGED <<play, listed, open, cut>>

-----------------------------------------------------------------------------
(* ensure_zip_asset.                                                       *)

Exit == Fail

(* The archive that is there is the one that is published, or else it is   *)
(* removed.  Without the list of digests there is no start.                *)
ensure_zip_asset ==
    /\ pc = "asset"
    /\ \/ file["zip"] = "good" /\ To("deps") /\ UNCHANGED <<file, faults>>
       \/ /\ file["zip"] # "good"
          /\ file' = [file EXCEPT !["zip"] = "absent"]
          /\ To("zip") /\ UNCHANGED faults
       \/ Exit /\ Wrong /\ UNCHANGED file
    /\ UNCHANGED <<bootVars, open, cut>>

(* Under another name until all of it has come.                            *)
download ==
    /\ pc = "zip"
    /\ \/ file' = [file EXCEPT !["zip"] = "good"] /\ To("verify") /\ UNCHANGED faults
       \/ file' = [file EXCEPT !["zip"] = "junk"] /\ To("verify") /\ Wrong
       \/ Exit /\ Wrong /\ UNCHANGED file
    /\ UNCHANGED <<bootVars, open, cut>>

(* fetch_verified_zip.                                                     *)
Verify ==
    /\ pc = "verify"
    /\ \/ file["zip"] = "good" /\ pc' = "extract" /\ todo' = Parts /\ UNCHANGED file
       \/ file["zip"] # "good" /\ file' = [file EXCEPT !["zip"] = "absent"] /\ Exit
    /\ UNCHANGED <<bootVars, open, faults, cut>>

(* One entry after the other is written over the file of its name; one     *)
(* that cannot be opened, such as the executable of a launcher that runs,  *)
(* or cannot be written to its end, ends the start.                        *)
extract_zip(f) ==
    /\ pc = "extract" /\ open = {} /\ f \in todo
    /\ \/ Open({f}) /\ UNCHANGED <<pc, todo, faults>>
       \/ cut' = cut \cup todo /\ Exit /\ Wrong /\ UNCHANGED <<file, open>>
    /\ UNCHANGED bootVars

Extracted(f) ==
    /\ pc = "extract" /\ open = {f} /\ open' = {}
    /\ \/ /\ file' = [file EXCEPT ![f] = "good"] /\ todo' = todo \ {f}
          /\ pc' = IF todo = {f} THEN "deps" ELSE "extract"
          /\ UNCHANGED <<faults, cut>>
       \/ /\ file' = [file EXCEPT ![f] = "part"] /\ cut' = cut \cup todo
          /\ Exit /\ Wrong
    /\ UNCHANGED bootVars

-----------------------------------------------------------------------------
(* The launcher is started.                                                *)

(* Its libraries are there or installed; make_executable comes before.     *)
check ==
    /\ pc = "deps"
    /\ \/ file["launcher"] # "absent" /\ To("spawn") /\ UNCHANGED faults
       \/ file["launcher"] = "absent" /\ Exit /\ UNCHANGED faults
       \/ Exit /\ Wrong
    /\ UNCHANGED <<bootVars, file, open, cut>>

spawn_detached ==
    /\ pc = "spawn"
    /\ \/ To("started") /\ UNCHANGED faults
       \/ Exit /\ Wrong
    /\ UNCHANGED <<bootVars, file, open, cut>>

(* The bootstrapper has ended, and the player may start it again.          *)
Done == /\ pc = "started" /\ Exit
        /\ UNCHANGED <<bootVars, file, open, faults, cut>>

-----------------------------------------------------------------------------
(* The bootstrapper dies.  Between the two renames and until the new one   *)
(* may be executed, that is the end of the one the player starts.  Once    *)
(* the archive is verified, none of what it holds will be taken out of it  *)
(* any more.                                                               *)
Killed ==
    /\ play.route = "start" /\ pc \notin {"idle", "started"} /\ Wrong
    /\ \E halved \in SUBSET open :
         file' = [f \in Files |-> IF f \in halved THEN "part" ELSE file[f]]
    /\ cut' = cut \cup (IF Runnable THEN {} ELSE {"boot"})
                  \cup (IF pc = "extract" THEN todo ELSE {})
                  \cup (IF pc = "verify" /\ file["zip"] = "good" THEN Parts ELSE {})
    /\ Exit /\ open' = {}
    /\ UNCHANGED bootVars

(* A release is published.                                                 *)
Publish ==
    /\ pc = "idle" /\ play.route = "start"
    /\ file' = [f \in Files |-> IF f \in Installed /\ file[f] = "good" THEN "old" ELSE file[f]]
    /\ UNCHANGED <<bootVars, pc, todo, open, faults, cut>>

BootStep ==
    \/ Start \/ self_update \/ SelfFetched \/ SetAside \/ Replace \/ Stamp \/ Relaunch
    \/ ensure_zip_asset \/ download \/ Verify
    \/ \E f \in Parts : extract_zip(f) \/ Extracted(f)
    \/ check \/ spawn_detached \/ Done

BootNext == BootStep \/ Killed \/ Publish

(* Either of the two is started again and again, by a player who tries     *)
(* again after a failure, and no transfer, tool or game hangs for ever.    *)
AllSpec == Init /\ [][Next \/ BootNext]_vars /\ WF_vars(Step) /\ WF_vars(BootStep)

-----------------------------------------------------------------------------
(* Properties.                                                             *)

(* Between two starts there is a bootstrapper the player can start, unless *)
(* one died in the middle of the exchange, between the two renames or      *)
(* before the new one had been given its permission, or one of the two     *)
(* calls failed that nobody looks at: the rename that puts the old one     *)
(* back, and the permission.  And the launcher it starts, with its data,   *)
(* is wholly of the release published last, unless unpacking it was cut    *)
(* short: with the archive in place, that start and every later one take a *)
(* launcher for up to date that is half unpacked, or not at all.           *)
InstallWhole ==
    /\ pc = "idle" => Runnable \/ "boot" \in cut \cup ignored
    /\ pc = "started" => \A f \in Parts : file[f] = "good" \/ f \in cut

(* Whatever a bad network or a crash left behind, a game that is launched  *)
(* again and again does start with everything in place, and so does the    *)
(* launcher, unless a file that no start mends stays damaged: a jar a      *)
(* crash cut short, one that came wrong where nobody looks, the installer, *)
(* the mappings and what is made of them, a Java runtime not all of which  *)
(* arrived, a bootstrapper that was lost in its own exchange, what was not *)
(* unpacked from an archive that is there.                                 *)
BootSpoilt == ~Runnable \/ (file["zip"] = "good" /\ \E f \in Parts : file[f] # "good")
Recovers ==
    \/ []<>(\/ pc = "run" /\ Complete
            \/ pc = "started" /\ \A f \in Parts : file[f] = "good")
    \/ <>[](IF play.route = "start" THEN BootSpoilt ELSE Spoilt)
=============================================================================
