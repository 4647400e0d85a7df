------------------------------- MODULE Loader -------------------------------
(***************************************************************************)
(* The loader of the kernel module (fluxd/src/kmod.rs, gki_line.rs,        *)
(* modinfo.rs, Manager::ensure_kmod and drop_kmod): which file fits the    *)
(* running kernel, finit_module, the exclusive open of /dev/fluxrs, and    *)
(* what is undone when a step fails.  Between two steps another holder of  *)
(* the node comes or goes (an earlier daemon whose descriptors are being   *)
(* closed), and the module may be there already: it stays resident when    *)
(* its holder leaves, with the symbols it found when it was loaded and the *)
(* ioctls it was built with, which need not be this daemon's.              *)
(*                                                                         *)
(* A release is [major, minor, android, rest]: android is Nil when there   *)
(* is no "-androidN" token that is a number.  A file of the directory is   *)
(* [line, build, magic]: build is Nil for the plain name, else the place   *)
(* of the suffixed name in the order of names; magic is the release its    *)
(* vermagic names, Nil when it has none.                                   *)
(***************************************************************************)
EXTENDS Values

CONSTANTS
    KmodDirs,   \* listings of the module directory, in the order readdir gives them
    Releases    \* what uname -r may say

VARIABLES
    uname,      \* the running kernel
    listing,    \* the module directory
    lkm,        \* the module in the kernel
    ldr         \* Manager.kmod and the load under way

loadvars == <<uname, listing, lkm, ldr>>

ASSUME LoaderAssumption ==
    /\ Nil \notin {"fluxd", "other", "unknown_release", "missing_module", "finit", "control", "status", "symbols"}
    /\ \A d \in KmodDirs : /\ d \in Seq({d[i] : i \in DOMAIN d})
                           /\ \A i \in DOMAIN d : d[i] # Nil /\ (d[i].build = Nil \/ d[i].build \in Nat)

----------------------------------------------------------------------------
\* gki_line.rs, modinfo.rs.

GkiLine(android, major, minor) == [android |-> android, major |-> major, minor |-> minor]

android_for_series(major, minor) ==
    CASE <<major, minor>> = <<5, 10>> -> 12 [] <<major, minor>> = <<5, 15>> -> 13
      [] <<major, minor>> = <<6, 1>> -> 14 [] <<major, minor>> = <<6, 6>> -> 15
      [] <<major, minor>> = <<6, 12>> -> 16 [] <<major, minor>> = <<6, 18>> -> 17
      [] OTHER -> Nil

\* from_uname_release: an explicit token wins over the table.
from_uname_release(r) ==
    LET android == IF r.android # Nil THEN r.android ELSE android_for_series(r.major, r.minor) IN
    IF android = Nil THEN Nil ELSE GkiLine(android, r.major, r.minor)

\* Mutant of matches_module_file: the stem is a prefix, so 5.15 also takes 5.150.
matches_module_file_Prefix(line, f) ==
    f.line = line \/ (f.line.android = line.android /\ f.line.major = line.major /\ f.line.minor \div 10 = line.minor)

\* GkiLine::matches_module_file: nothing may follow the stem but ".ko" or a build.
matches_module_file(line, f) == f.line = line

\* One name of pick_module_file: the plain one stays, else the first of the order of names.
Better(line, best, f) ==
    CASE ~matches_module_file(line, f) -> best
      [] matches_module_file(line, f) /\ best = Nil -> f
      [] matches_module_file(line, f) /\ best # Nil ->
           IF best.build # Nil /\ (f.build = Nil \/ f.build < best.build) THEN f ELSE best

pick_module_file(line, names) ==
    LET best[i \in 0..Len(names)] == IF i = 0 THEN Nil ELSE Better(line, best[i - 1], names[i])
    IN  best[Len(names)]

\* modinfo::relate.
relate(magic, release) ==
    CASE magic = release -> "equal"
      [] magic # release /\ from_uname_release(magic) # Nil
           /\ from_uname_release(magic) = from_uname_release(release) -> "same line"
      [] OTHER -> "different"

\* pick_name.
Pick == LET line == from_uname_release(uname) IN IF line = Nil THEN Nil ELSE pick_module_file(line, listing)

\* Mutant of check_kmod: a module that is there is good.
check_kmod_Named == IF Pick = Nil THEN "error" ELSE "ok"

\* Mutant of check_kmod: a warning within the line is an error.
check_kmod_Exact ==
    IF Pick = Nil THEN "error" ELSE IF Pick.magic = uname THEN "ok" ELSE "error"

\* checks.rs check_kmod: what `fluxd check` says without loading anything.
check_kmod ==
    CASE Pick = Nil -> "error"
      [] Pick # Nil /\ Pick.magic = Nil -> "error"
      [] Pick # Nil /\ Pick.magic # Nil -> IF relate(Pick.magic, uname) = "different" THEN "error" ELSE "ok"

----------------------------------------------------------------------------
\* The kernel: finit_module, misc device, delete_module.

\* ready: the tproxy symbols were found.  answers: GET_STATUS has the size this daemon asks with.
\* ours: it came from the directory while this daemon's load was under way, and not before.
Absent == [resident |-> FALSE, ready |-> FALSE, answers |-> FALSE, ours |-> FALSE, holder |-> Nil]
LoaderStart(r, names, k) ==
    /\ uname = r /\ listing = names /\ lkm = k
    /\ ldr = [at |-> "idle", held |-> FALSE, attached |-> FALSE, error |-> Nil]

\* Another holder of the node, and another user of the module's symbols.
OtherOpens ==
    /\ lkm.resident /\ lkm.holder = Nil /\ lkm' = [lkm EXCEPT !.holder = "other"]
    /\ UNCHANGED <<uname, listing, ldr>>
OtherCloses ==
    /\ lkm.holder = "other" /\ lkm' = [lkm EXCEPT !.holder = Nil] /\ UNCHANGED <<uname, listing, ldr>>

\* The kernel never takes a module of another line; it may refuse any (its release, its symbols, a
\* file that cannot be opened).
Admits(f) ==
    IF f.magic = Nil \/ relate(f.magic, uname) = "different" THEN {FALSE} ELSE BOOLEAN

----------------------------------------------------------------------------
\* Manager::converge_inner, ensure_kmod, load_from_dir.

\* An error ends the convergence with the default status, which is not attached.
Ends(error) == ldr' = [ldr EXCEPT !.at = "idle", !.attached = FALSE, !.error = error]

\* Mutant of drop_kmod: the status says so, the descriptor stays open.
drop_kmod_Status(error) ==
    ldr' = [ldr EXCEPT !.attached = FALSE, !.at = "idle", !.error = error] /\ UNCHANGED lkm

\* drop_kmod: the descriptor is closed, the module stays.
drop_kmod(error) ==
    /\ ldr' = [ldr EXCEPT !.held = FALSE, !.attached = FALSE, !.at = "idle", !.error = error]
    /\ lkm' = IF ldr.held THEN [lkm EXCEPT !.holder = Nil] ELSE lkm

converge_disabled ==
    /\ ldr.at = "idle" /\ drop_kmod(Nil) /\ UNCHANGED <<uname, listing>>

\* ensure_kmod: a node that is held is only asked for its status.
ensure_kmod ==
    /\ ldr.at = "idle"
    /\ ldr' = [ldr EXCEPT !.at = IF ldr.held THEN "status" ELSE "load", !.error = Nil]
    /\ UNCHANGED <<uname, listing, lkm>>

\* load_from_dir up to finit_module; EEXIST is success.
load_refused ==
    /\ ldr.at = "load" /\ Pick = Nil
    /\ Ends(IF from_uname_release(uname) = Nil THEN "unknown_release" ELSE "missing_module")
    /\ UNCHANGED <<uname, listing, lkm>>
finit_module ==
    /\ ldr.at = "load" /\ Pick # Nil
    /\ \/ lkm.resident /\ ldr' = [ldr EXCEPT !.at = "open"] /\ UNCHANGED lkm
       \/ /\ ~lkm.resident /\ TRUE \in Admits(Pick) /\ ldr' = [ldr EXCEPT !.at = "open"]
          /\ \E symbols, same \in BOOLEAN :
               lkm' = [resident |-> TRUE, ready |-> symbols, answers |-> same, ours |-> TRUE, holder |-> Nil]
       \/ FALSE \in Admits(Pick) /\ Ends("finit") /\ UNCHANGED lkm
    /\ UNCHANGED <<uname, listing>>

\* open_ctl: exclusive.
open_ctl ==
    /\ ldr.at = "open"
    /\ IF lkm.resident /\ lkm.holder = Nil
       THEN ldr' = [ldr EXCEPT !.at = "status", !.held = TRUE] /\ lkm' = [lkm EXCEPT !.holder = "fluxd"]
       ELSE ldr' = [ldr EXCEPT !.at = "delete"] /\ UNCHANGED lkm
    /\ UNCHANGED <<uname, listing>>

\* delete_module with O_NONBLOCK; its own failure (EBUSY under a holder) is ignored.
delete_module ==
    /\ ldr.at = "delete" /\ Ends("control")
    /\ lkm' = IF lkm.holder = Nil THEN Absent ELSE lkm
    /\ UNCHANGED <<uname, listing>>

\* Mutant of ensure_status: the error of GET_STATUS is swallowed and the node taken for a good one.
ensure_status_Deaf ==
    /\ ldr.at = "status"
    /\ IF lkm.answers /\ ~lkm.ready THEN drop_kmod("symbols")
       ELSE ldr' = [ldr EXCEPT !.at = "idle", !.attached = TRUE] /\ UNCHANGED lkm
    /\ UNCHANGED <<uname, listing>>

\* GET_STATUS: its error is returned with the node still held; without the tproxy symbols the node is
\* given back.
ensure_status ==
    /\ ldr.at = "status"
    /\ \/ ~lkm.answers /\ Ends("status") /\ UNCHANGED lkm
       \/ lkm.answers /\ lkm.ready /\ ldr' = [ldr EXCEPT !.at = "idle", !.attached = TRUE] /\ UNCHANGED lkm
       \/ lkm.answers /\ ~lkm.ready /\ drop_kmod("symbols")
    /\ UNCHANGED <<uname, listing>>

\* fluxd ends: release clears live, the module stays.
LoaderDies ==
    /\ ldr' = [ldr EXCEPT !.at = "idle", !.held = FALSE, !.attached = FALSE, !.error = Nil]
    /\ lkm' = IF ldr.held THEN [lkm EXCEPT !.holder = Nil] ELSE lkm
    /\ UNCHANGED <<uname, listing>>

LoaderNext ==
    \/ converge_disabled \/ ensure_kmod \/ load_refused \/ finit_module \/ open_ctl \/ delete_module
    \/ ensure_status \/ LoaderDies \/ OtherOpens \/ OtherCloses

----------------------------------------------------------------------------
\* pick_module_file against its comment: the unsuffixed name if there is one, else the first by name,
\* whatever order readdir gives, and never a module of another line.
PickIsStable ==
    LET line == from_uname_release(uname)
        fits == {f \in {listing[i] : i \in DOMAIN listing} : f.line = line}
    IN  IF line = Nil \/ fits = {} THEN Pick = Nil
        ELSE /\ Pick \in fits
             /\ \A f \in fits : Pick.build = Nil \/ (f.build # Nil /\ Pick.build <= f.build)

\* ensure_kmod: between two convergences the daemon says attached, which publish_active asks for, only
\* of a module that it holds, that answers and that can steal; and a node it holds without saying so
\* has been reported.  That node stays open (the return of platform.rs:549-554), so nobody else gets it.
HeldIsUsable ==
    ldr.at = "idle" => /\ ldr.held = (lkm.holder = "fluxd")
                       /\ ldr.attached => ldr.held /\ lkm.resident /\ lkm.answers /\ lkm.ready
                       /\ ldr.held /\ ~ldr.attached => ldr.error = "status"

\* check_kmod says what load_from_dir will meet: when it has no error, no load fails for want of a
\* module of this line and what finit_module refused it might have taken; and it has no error about
\* a directory from which a module was loaded.
CheckForetellsLoad ==
    /\ check_kmod = "ok" => ldr.error \notin {"unknown_release", "missing_module"}
    /\ check_kmod = "ok" /\ ldr.error = "finit" => TRUE \in Admits(Pick)
    /\ lkm.ours => check_kmod = "ok"

\* The module that is chosen and foretold is one that fits this kernel, and the one that is said to
\* be attached can steal.
ModuleFits == PickIsStable /\ HeldIsUsable /\ CheckForetellsLoad
=============================================================================
