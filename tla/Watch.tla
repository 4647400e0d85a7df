------------------------------- MODULE Watch --------------------------------
(***************************************************************************)
(* The file watch (watch.rs, Reactor::handle_inotify, Layout's switch):    *)
(* how an edit of config/, of packages.list or of the manager's disable    *)
(* file reaches the reactor.  The kernel's queue is bounded and drops      *)
(* events, config/ is replaced by another directory while it is watched,   *)
(* and the reactor reads the files only after a debounce.                  *)
(*                                                                         *)
(* A directory is an inode, and a watch belongs to the inode: the wd of an *)
(* event is module_wd, packages_wd or the inode of a config/ that is or    *)
(* was watched; name "self" stands for MOVE_SELF, DELETE_SELF and          *)
(* IN_IGNORED.  Contents are numbered; 0 means there is nothing to read,   *)
(* and config = 0 that the directory is not there.                         *)
(***************************************************************************)
EXTENDS Values, Integers

CONSTANTS
    MaxEdits,   \* bound: changes of the file system
    QueueMax    \* fs.inotify.max_queued_events

VARIABLES
    fsys,       \* the files
    ino,        \* inotify: the inodes of config/ that have a watch, and the queue
    watches,    \* WatchSet.config_wd
    rx          \* the reactor: flags, debounce timer, settled phase, what it has read

watchvars == <<fsys, ino, watches, rx>>

module_wd == -1
packages_wd == -2
Overflow == [wd |-> -3, name |-> "overflow"]

\* disable_presence, capture_permitted: a switch that cannot be read is not an enabled one.
disabled_file(f) == f.switch # "absent"

\* WatchSet::open and the first convergence.
WatchStart(switch) ==
    /\ fsys = [config |-> 1, content |-> 1, packages |-> 1, switch |-> switch, edits |-> 1]
    /\ ino = [watched |-> {1}, queue |-> <<>>] /\ watches = 1
    /\ rx = [policy_changed |-> FALSE, engine_config_changed |-> FALSE, debounce |-> FALSE,
             phase |-> IF switch = "absent" THEN "on" ELSE "Disabled", policy |-> 1, engine |-> 1, packages |-> 1]

----------------------------------------------------------------------------
\* The file system and its events.

\* The last place of the queue is for the overflow event.
Enqueue(q, e) ==
    CASE q # <<>> /\ q[Len(q)] = Overflow -> q
      [] (q = <<>> \/ q[Len(q)] # Overflow) /\ Len(q) >= QueueMax -> Append(q, Overflow)
      [] OTHER -> Append(q, e)
Event(wd, name) == [wd |-> wd, name |-> name]
Emit(wd, name) == [ino EXCEPT !.queue = Enqueue(@, Event(wd, name))]
\* An event of the directory i, which only its watch reports.
OfConfig(i, name) == IF i \in ino.watched THEN Emit(i, name) ELSE ino
Edit == fsys.edits < MaxEdits
Fresh == fsys.edits + 1

EditConfig ==
    /\ Edit /\ fsys.config # 0 /\ fsys' = [fsys EXCEPT !.content = Fresh, !.edits = Fresh]
    /\ ino' = OfConfig(fsys.config, "file") /\ UNCHANGED <<watches, rx>>

\* packages.list is written beside itself and renamed.
EditPackages ==
    /\ Edit /\ fsys' = [fsys EXCEPT !.packages = Fresh, !.edits = Fresh]
    /\ ino' = Emit(packages_wd, "packages.list") /\ UNCHANGED <<watches, rx>>

\* set_disabled, set_enabled, by the command line, by the control socket and by the manager.
set_disabled ==
    /\ Edit /\ fsys.switch = "absent" /\ fsys' = [fsys EXCEPT !.switch = "present", !.edits = Fresh]
    /\ ino' = Emit(module_wd, "disable") /\ UNCHANGED <<watches, rx>>

set_enabled ==
    /\ Edit /\ fsys.switch = "present" /\ fsys' = [fsys EXCEPT !.switch = "absent", !.edits = Fresh]
    /\ ino' = Emit(module_wd, "disable") /\ UNCHANGED <<watches, rx>>

\* config/ is moved away, and keeps its watch, or is deleted, and loses it.
LoseConfig(kept) ==
    /\ Edit /\ fsys.config # 0 /\ fsys' = [fsys EXCEPT !.config = 0, !.content = 0, !.edits = Fresh]
    /\ ino' = [watched |-> IF kept THEN ino.watched ELSE ino.watched \ {fsys.config},
                queue |-> Enqueue(OfConfig(fsys.config, "self").queue, Event(module_wd, "config"))]
    /\ UNCHANGED <<watches, rx>>

\* A complete directory takes the name.
MakeConfig ==
    /\ Edit /\ fsys.config = 0 /\ fsys' = [fsys EXCEPT !.config = Fresh, !.content = Fresh, !.edits = Fresh]
    /\ ino' = Emit(module_wd, "config") /\ UNCHANGED <<watches, rx>>

\* Other files of the watched directories, above all in /data/system.
Noise == ino' = Emit(packages_wd, "file") /\ ino' # ino /\ UNCHANGED <<fsys, watches, rx>>

----------------------------------------------------------------------------
\* watch.rs.

\* Mutant of classify: an overflow is an event of no watch.
classify_Lossy(e) ==
    CASE e = Overflow -> "none"
      [] e # Overflow /\ (e.name = "self" \/ (e.wd = module_wd /\ e.name = "config")) -> "Rebuild"
      [] e # Overflow /\ e.wd = module_wd /\ e.name = "disable" -> "Switch"
      [] e # Overflow /\ e.wd = watches /\ e.name # "self" -> "Config"
      [] e # Overflow /\ e.wd = packages_wd /\ e.name = "packages.list" -> "Policy"
      [] OTHER -> "none"

\* classify, with the descriptors the watch set has at that moment.
classify(e) ==
    CASE e = Overflow -> "Overflow"
      [] e # Overflow /\ (e.name = "self" \/ (e.wd = module_wd /\ e.name = "config")) -> "Rebuild"
      [] e # Overflow /\ e.wd = module_wd /\ e.name = "disable" -> "Switch"
      [] e # Overflow /\ e.wd = watches /\ e.name # "self" -> "Config"
      [] e # Overflow /\ e.wd = packages_wd /\ e.name = "packages.list" -> "Policy"
      [] OTHER -> "none"

\* drain.
drain_watches == {classify(ino.queue[i]) : i \in DOMAIN ino.queue}

\* rebuild: a config/ that is not there is an error, and the former descriptors stay.
rebuild ==
    IF fsys.config = 0 THEN UNCHANGED watches /\ ino' = [ino EXCEPT !.queue = <<>>]
    ELSE /\ watches' = fsys.config
         /\ ino' = [watched |-> ino.watched \cup {fsys.config}, queue |-> <<>>]

\* converge: a disable file wins; else what is flagged is read, and the flags are consumed.
converged(r) ==
    IF disabled_file(fsys) THEN [r EXCEPT !.phase = "Disabled"]
    ELSE [r EXCEPT !.phase = "on", !.policy_changed = FALSE, !.engine_config_changed = FALSE,
                   !.policy = IF r.policy_changed THEN fsys.content ELSE @,
                   !.packages = IF r.policy_changed THEN fsys.packages ELSE @,
                   !.engine = IF r.engine_config_changed THEN fsys.content ELSE @]

\* apply_stimulus(Disable | Enable): a phase that is there already asks for nothing.
Switched(r) ==
    CASE disabled_file(fsys) -> [r EXCEPT !.phase = "Disabled"]
      [] ~disabled_file(fsys) /\ r.phase = "Disabled" -> converged(r)
      [] OTHER -> r

\* Mutant of Flagged: new watches are enough.
Flagged_Watches(r, acts) ==
    [r EXCEPT !.policy_changed = @ \/ acts \cap {"Config", "Policy", "Overflow"} # {},
              !.engine_config_changed = @ \/ acts \cap {"Config", "Overflow"} # {},
              !.debounce = @ \/ acts \cap {"Config", "Policy", "Overflow"} # {}]

\* The end of handle_inotify: a directory that was replaced has to be read as well.
Flagged(r, acts) ==
    [r EXCEPT !.policy_changed = @ \/ acts \cap {"Config", "Policy", "Rebuild", "Overflow"} # {},
              !.engine_config_changed = @ \/ acts \cap {"Config", "Rebuild", "Overflow"} # {},
              !.debounce = @ \/ acts \cap {"Config", "Policy", "Rebuild", "Overflow"} # {}]

handle_inotify ==
    /\ ino.queue # <<>>
    /\ IF drain_watches \cap {"Rebuild", "Overflow"} # {} THEN rebuild
       ELSE UNCHANGED watches /\ ino' = [ino EXCEPT !.queue = <<>>]
    /\ rx' = Flagged(IF "Switch" \in drain_watches THEN Switched(rx) ELSE rx, drain_watches)
    /\ UNCHANGED fsys

\* TOK_DEBOUNCE, take_debounce_stimulus: DebounceExpired does nothing in the settled phase Disabled.
debounce_expired ==
    /\ rx.debounce
    /\ rx' = LET r == [rx EXCEPT !.debounce = FALSE] IN IF rx.phase = "Disabled" THEN r ELSE converged(r)
    /\ UNCHANGED <<fsys, ino, watches>>

WatchNext ==
    \/ EditConfig \/ EditPackages \/ set_disabled \/ set_enabled \/ \E kept \in BOOLEAN : LoseConfig(kept)
    \/ MakeConfig \/ Noise \/ handle_inotify \/ debounce_expired

----------------------------------------------------------------------------
Settled == ino.queue = <<>> /\ ~rx.debounce

\* handle_inotify over replaced directories and lost events: once the queue is drained and the
\* debounce over, a running reactor has read the configuration and the packages that are there.
EditIsSeen ==
    Settled /\ rx.phase = "on" =>
        rx.policy = fsys.content /\ rx.engine = fsys.content /\ rx.packages = fsys.packages

\* The switch: a disable file is acted on, also when its event was dropped by the queue.
DisableIsSeen == Settled /\ disabled_file(fsys) => rx.phase = "Disabled"

\* handle_inotify: no edit and no disable is missed, whatever is replaced, coalesced or dropped.
ChangesAreSeen == EditIsSeen /\ DisableIsSeen

\* WatchAction::Overflow, "reread every authority from the parent directories": a switch that was
\* removed is acted on as well.
EnableIsSeen == Settled /\ ~disabled_file(fsys) => rx.phase = "on"
=============================================================================
