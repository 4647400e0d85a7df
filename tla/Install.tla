------------------------------ MODULE Install -------------------------------
(***************************************************************************)
(* fluxd install (install.rs, flux-core/migration.rs, layout.rs): stops    *)
(* the daemon, takes its lock, migrates the configuration of an older      *)
(* version and adopts its runtime files.                                   *)
(*                                                                         *)
(* A document is the part of it the migration moves: the keys of the old   *)
(* [subscription] table become keys of advanced.toml, nodes.list and       *)
(* subscription.url become nodes.sources.  write_private_replace is three  *)
(* steps; a rename or a removal is seen at once and survives a power loss  *)
(* for certain only when its directory was synced, and so does a new       *)
(* directory with all that is in it: run/migrations when run/ was synced,  *)
(* and run/cache/sources, whose parent never is.  Every step may fail,     *)
(* the installer may be killed and the power may be lost between any two.  *)
(* The user edits the files only while no installation is running.         *)
(***************************************************************************)
EXTENDS Values

CONSTANTS
    Url, Setting,       \* URLs, and values of a setting; 0 is out of range
    Key,                \* the settings that move to advanced.toml
    DefaultMain, DefaultAdvanced, DefaultTemplate,
    UserMains           \* documents a user may write

VARIABLES
    disk,       \* file |-> content, Nil when absent
    before,     \* file |-> its content after a power loss, for what is not synced
    made,       \* the directories the installer makes: "absent", "new" (not synced) or "kept"
    root,       \* the directories of the state root: "ok", "drift" or "alien"
    lock,       \* who holds run/daemon.lock: "none", "daemon" or "install"
    inst,       \* the installer: pc, todo, reply
    provenance, \* --legacy-config: the previous Rust module was identified
    origin,     \* the documents as the user last left them
    stale,      \* documents whose backup is older than that, or was lost with its directory
    adopted     \* the response the older version left, unless it was lost so

\* A document is Nil when the file is absent, and so is a key that is not in it.
Advanceds == [Key -> Setting \cup {Nil}]
Subscriptions == [url : Url \cup {Nil}, keys : Advanceds, stray : BOOLEAN]
Mains ==
    [subscription : Subscriptions \cup {Nil}, list : Seq(Url) \cup {Nil},
     sources : Seq(Url) \cup {Nil}, mode : {"whitelist", "blacklist", Nil}]

Prepared == [main : Mains, advanced : Advanceds \cup {Nil}]

\* The defaults are complete and need no migration.
ASSUME InstallAssumption ==
    /\ Nil \notin Advanceds /\ Nil \notin Mains /\ Nil \notin Prepared
    /\ Nil \notin Seq(Url) /\ Nil # DefaultTemplate
    /\ DefaultAdvanced \in Advanceds /\ \A k \in Key : DefaultAdvanced[k] # 0
    /\ UserMains \cup {DefaultMain} \subseteq Mains
    /\ DefaultMain.subscription = Nil /\ DefaultMain.list = Nil /\ DefaultMain.sources # Nil

instvars == <<disk, before, made, root, lock, inst, provenance, origin, stale, adopted>>

Config == {"main", "advanced", "template"}
Original(f) == IF f = "main" THEN "main.original" ELSE "advanced.original"
Files == Config \cup {"main.original", "advanced.original", "raw", "url", "cache", "oldlog", "log"}
Dir(f) ==
    CASE f \in Config -> "config"
      [] f \in {"main.original", "advanced.original"} -> "migrations"
      [] f = "cache" -> "sources"
      [] OTHER -> "run"

\* backup_once makes run/migrations, ensure_source_cache run/cache/sources.
Directories == {"migrations", "sources"}

Ready == [pc |-> "idle", todo |-> <<>>, reply |-> Nil]

InstallStart(files, dirs, holder, flag) ==
    /\ disk = [f \in Files |-> IF f \in DOMAIN files THEN files[f] ELSE Nil]
    /\ made = [d \in Directories |-> IF \E f \in Files : Dir(f) = d /\ disk[f] # Nil THEN "kept" ELSE "absent"]
    /\ before = <<>> /\ root = dirs /\ lock = holder
    /\ inst = Ready /\ provenance = flag /\ stale = {} /\ adopted = files["raw"]
    /\ origin = [f \in Config |-> files[f]]

----------------------------------------------------------------------------
\* migration::prepare.

\* Mutant of Legacy: the completion marker is not looked at.
Legacy_NoMarker(main, flag) == flag \/ main.subscription # Nil \/ main.list # Nil

\* What identifies an old document; nodes.sources marks a completed migration.
Legacy(main, flag) ==
    (flag /\ main.sources = Nil) \/ main.subscription # Nil \/ main.list # Nil

Lists(list, url) == \E i \in DOMAIN list : list[i] = url

\* The new nodes.sources: the old list, and the old URL when it is not in it.
Sources(main) ==
    LET manual_list == IF main.list = Nil THEN <<>> ELSE main.list
        url == IF main.subscription = Nil THEN Nil ELSE main.subscription.url
    IN  IF url = Nil \/ Lists(manual_list, url) THEN manual_list ELSE Append(manual_list, url)

\* merge: an explicit value is reused only when equal.
Conflicts(old, new) == old # Nil /\ new # Nil /\ old # new

prepare(main, given, flag) ==
    LET moved == IF main.subscription = Nil THEN [k \in Key |-> Nil] ELSE main.subscription.keys
        there == IF given = Nil THEN [k \in Key |-> Nil] ELSE given
    IN  IF ~Legacy(main, flag) THEN [main |-> main, advanced |-> given]
        ELSE IF \/ main.sources # Nil /\ main.sources # Sources(main)
                \/ \E k \in Key : Conflicts(there[k], moved[k])
                \/ main.subscription # Nil /\ main.subscription.stray
        THEN Nil
        ELSE [main |-> [subscription |-> Nil, list |-> Nil, sources |-> Sources(main),
                        mode |-> IF main.mode = Nil THEN "whitelist" ELSE main.mode],
              advanced |-> IF \A k \in Key : moved[k] = Nil THEN given
                           ELSE [k \in Key |-> IF there[k] = Nil THEN moved[k] ELSE there[k]]]

\* configuration::parse: unknown keys and settings out of range (0) are refused.
Valid(main, given) ==
    /\ main.subscription = Nil /\ main.list = Nil
    /\ given # Nil => \A k \in Key : given[k] # 0

\* The documents install_locked would publish for the files d, or Nil.
Candidate(d) ==
    LET fresh == \A f \in Config : d[f] = Nil
        documents == prepare(IF d.main = Nil THEN DefaultMain ELSE d.main,
                             IF fresh THEN DefaultAdvanced ELSE d.advanced,
                             provenance /\ d.main # Nil)
    IN  IF documents = Nil THEN Nil
        ELSE IF Valid(documents.main, documents.advanced) THEN documents ELSE Nil

----------------------------------------------------------------------------
\* install_locked, as the requests <<kind, file, content>> it makes;
\* a sync is that of the directory of the file.

\* Mutant of write_private_replace: the directory is not synced.
write_private_replace_NoSync(f, content) == <<<<"fill", f, content>>, <<"rename", f, content>>>>

\* The temporary file written and synced, in a directory made for it if need be, renamed over the file, the directory synced.
write_private_replace(f, content) ==
    <<<<"fill", f, content>>, <<"rename", f, content>>, <<"sync", f, Nil>>>>

\* An existing backup stays.
backup_once(f) ==
    IF disk[Original(f)] # Nil THEN <<>> ELSE write_private_replace(Original(f), disk[f])

Changed(documents) == {f \in {"main", "advanced"} : documents[f] # disk[f] /\ documents[f] # Nil}
When(condition, requests) == IF condition THEN requests ELSE <<>>
Backup(f, documents) == When(f \in Changed(documents) /\ disk[f] # Nil, backup_once(f))
Publish(f, documents) == When(f \in Changed(documents), write_private_replace(f, documents[f]))

\* Mutant of adopt_subscription: the pair is removed first.
adopt_subscription_RemovesFirst(main) ==
    When(/\ disk.url # Nil /\ main.sources # Nil /\ Lists(main.sources, disk.url)
         /\ disk.raw \notin {Nil, "garbage"} /\ disk.cache \in {Nil, disk.raw},
         <<<<"remove", "raw", Nil>>, <<"remove", "url", Nil>>, <<"sync", "raw", Nil>>>>
         \o When(disk.cache = Nil, write_private_replace("cache", disk.raw)))

\* The response is adopted when its URL is a configured source and the node policy accepts
\* it; the old pair is removed after the new cache was written.
adopt_subscription(main) ==
    When(/\ disk.url # Nil /\ main.sources # Nil /\ Lists(main.sources, disk.url)
         /\ disk.raw \notin {Nil, "garbage"} /\ disk.cache \in {Nil, disk.raw},
         When(disk.cache = Nil, write_private_replace("cache", disk.raw))
         \o <<<<"remove", "raw", Nil>>, <<"remove", "url", Nil>>, <<"sync", "raw", Nil>>>>)

\* move_if_absent, for the log and the engine's cache.
move_if_absent == When(disk.oldlog # Nil /\ disk.log = Nil, <<<<"move", "log", Nil>>, <<"sync", "log", Nil>>>>)

\* Mutant of install_locked: the main file first.
install_locked_MainFirst(documents) ==
    Backup("main", documents) \o Backup("advanced", documents)
    \o Publish("main", documents) \o Publish("advanced", documents)
    \o When(disk.template = Nil, write_private_replace("template", DefaultTemplate))
    \o <<<<"adopt", "log", Nil>>>> \o move_if_absent \o adopt_subscription(documents.main)

\* Backups, then advanced.toml, flux.toml, which completes the migration, and the template.
install_locked(documents) ==
    Backup("main", documents) \o Backup("advanced", documents)
    \o Publish("advanced", documents) \o Publish("main", documents)
    \o When(disk.template = Nil, write_private_replace("template", DefaultTemplate))
    \o <<<<"adopt", "log", Nil>>>> \o move_if_absent \o adopt_subscription(documents.main)

----------------------------------------------------------------------------
\* The installer.

Leaves == inst' = Ready /\ lock' = IF lock = "install" THEN "none" ELSE lock

WrittenBack == [d \in Directories |-> IF made[d] = "new" THEN "kept" ELSE made[d]]

\* Layout::ensure: a mode or an owner is restored, an alien object stops everything.  By the
\* time an installation is started again the kernel has written back what the last one left.
ensure ==
    /\ inst.pc = "idle" /\ root # "alien"
    /\ root' = "ok" /\ inst' = [Ready EXCEPT !.pc = "lock"] /\ before' = <<>> /\ made' = WrittenBack
    /\ UNCHANGED <<disk, lock, provenance, origin, stale, adopted, changes>>

\* InstanceLock::acquire by the installer, then install_locked up to its first write.
acquire ==
    /\ inst.pc \in {"lock", "wait"} /\ lock = "none"
    /\ IF Candidate(disk) = Nil THEN inst' = Ready /\ UNCHANGED lock
       ELSE /\ lock' = "install"
            /\ inst' = [Ready EXCEPT !.pc = "work", !.todo = install_locked(Candidate(disk))]
    /\ UNCHANGED <<disk, before, made, root, provenance, origin, stale, adopted, changes>>

\* The lock is held: the daemon is asked to stop, and may refuse or not answer.
StopRequest ==
    /\ inst.pc = "lock" /\ lock = "daemon"
    /\ \E reply \in {"ok", "refused", "silent"} : inst' = [inst EXCEPT !.pc = "wait", !.reply = reply]
    /\ UNCHANGED <<disk, before, made, root, lock, provenance, origin, stale, adopted, changes>>

\* Mutant of StopFails: the installation goes on without the lock.
StopFails_GoesOn ==
    /\ inst.pc = "wait" /\ lock = "daemon" /\ Candidate(disk) # Nil
    /\ inst' = [Ready EXCEPT !.pc = "work", !.todo = install_locked(Candidate(disk))]
    /\ UNCHANGED <<disk, before, made, root, lock, provenance, origin, stale, adopted, changes>>

\* A refusal, or the deadline of 15 s: nothing was changed.
StopFails ==
    /\ inst.pc = "wait" /\ lock = "daemon" /\ Leaves
    /\ UNCHANGED <<disk, before, made, root, provenance, origin, stale, adopted, changes>>

Replaced(f, content) ==
    /\ disk' = [disk EXCEPT ![f] = content]
    /\ before' = [g \in DOMAIN before \cup {f} |-> IF g \in DOMAIN before THEN before[g] ELSE disk[g]]

\* The first file of a directory comes after the directory; a sync of run/ keeps the entry
\* of run/migrations, and nothing syncs that of run/cache/sources.
Makes(kind, f) ==
    made' = [d \in Directories |->
        IF kind = "fill" /\ d = Dir(f) /\ made[d] = "absent" THEN "new"
        ELSE IF kind = "sync" /\ Dir(f) = "run" /\ d = "migrations" /\ made[d] = "new" THEN "kept"
        ELSE made[d]]

\* The next request of install_locked.
Work ==
    /\ inst.pc = "work" /\ inst.todo # <<>>
    /\ inst' = [inst EXCEPT !.todo = Tail(@)]
    /\ Makes(Head(inst.todo)[1], Head(inst.todo)[2])
    /\ LET request == Head(inst.todo) IN
       CASE request[1] \in {"fill", "adopt"} -> UNCHANGED <<disk, before>>
         [] request[1] \in {"rename", "remove"} -> Replaced(request[2], request[3])
         [] request[1] = "move" ->
              disk' = [disk EXCEPT !.log = disk.oldlog, !.oldlog = Nil] /\ UNCHANGED before
         [] request[1] = "sync" ->
              /\ before' = [f \in {g \in DOMAIN before : Dir(g) # Dir(request[2])} |-> before[f]]
              /\ UNCHANGED disk
    /\ UNCHANGED <<root, lock, provenance, origin, stale, adopted, changes>>

\* A request fails.  Before the adoption the installation ends; an adoption is given up,
\* each ends with a sync of run/, and the next one is tried.
WorkFails ==
    /\ inst.pc = "work" /\ inst.todo # <<>> /\ Change
    /\ IF \E i \in DOMAIN inst.todo : inst.todo[i][1] = "adopt" THEN Leaves
       ELSE LET ends == {i \in DOMAIN inst.todo : inst.todo[i][1] = "sync" /\ Dir(inst.todo[i][2]) = "run"}
                end == CHOOSE i \in ends : \A j \in ends : i <= j
            IN  inst' = [inst EXCEPT !.todo = SubSeq(@, end + 1, Len(@))] /\ UNCHANGED lock
    /\ UNCHANGED <<disk, before, made, root, provenance, origin, stale, adopted>>

\* run returns and drops the lock.
Finish ==
    /\ inst.pc = "work" /\ inst.todo = <<>> /\ Leaves
    /\ UNCHANGED <<disk, before, made, root, provenance, origin, stale, adopted, changes>>

----------------------------------------------------------------------------
\* The others.

\* A daemon takes the lock; one that is asked to stop, or stops by itself, drops it.
Daemon ==
    /\ \/ lock = "none" /\ lock' = "daemon" /\ Change
       \/ lock = "daemon" /\ inst.reply # "refused" /\ lock' = "none" /\ UNCHANGED changes
    /\ UNCHANGED <<disk, before, made, root, inst, provenance, origin, stale, adopted>>

Killed_installer ==
    /\ inst.pc # "idle" /\ Change /\ Leaves
    /\ UNCHANGED <<disk, before, made, root, provenance, origin, stale, adopted>>

\* What was not synced may be as it was before, and a directory that was not may be gone
\* with its files: then a document that was replaced has lost its backup, and a response
\* that is not in the old place any more is lost.
PowerLoss ==
    /\ Change /\ inst' = Ready /\ lock' = "none" /\ before' = <<>>
    /\ \E lost \in SUBSET DOMAIN before, gone \in SUBSET {d \in Directories : made[d] = "new"} :
          /\ disk' = [f \in Files |-> IF Dir(f) \in gone THEN Nil ELSE IF f \in lost THEN before[f] ELSE disk[f]]
          /\ made' = [d \in Directories |-> IF d \in gone THEN "absent" ELSE WrittenBack[d]]
          /\ stale' = IF "migrations" \in gone THEN {f \in {"main", "advanced"} : disk'[f] # origin[f]} ELSE stale
          /\ adopted' = IF "sources" \in gone /\ disk'.raw # adopted THEN Nil ELSE adopted
    /\ UNCHANGED <<root, provenance, origin>>

\* The user edits flux.toml, once what the last installation left was written back; the edit
\* is durable.
UserEdits ==
    /\ inst.pc = "idle" /\ Change
    /\ \E main \in UserMains : disk' = [disk EXCEPT !.main = main]
    /\ before' = <<>> /\ made' = WrittenBack
    /\ origin' = [f \in Config |-> disk'[f]]
    /\ stale' = {f \in {"main", "advanced"} : disk[Original(f)] # Nil}
    /\ UNCHANGED <<root, lock, inst, provenance, adopted>>

InstallNext ==
    \/ ensure \/ acquire \/ StopRequest \/ StopFails \/ Work \/ WorkFails \/ Finish
    \/ Daemon \/ Killed_installer \/ PowerLoss \/ UserEdits

----------------------------------------------------------------------------
\* Properties.

\* install_locked: whatever is interrupted and retried, the documents are the user's, or the
\* migrated ones, or the user's flux.toml with the migrated advanced.toml, which the retry
\* accepts; a migration that is refused leaves both alone.
InstallIsAtomic ==
    LET target == Candidate(origin) IN
    \/ \A f \in {"main", "advanced"} : disk[f] = origin[f]
    \/ target # Nil /\ disk.advanced = target.advanced /\ disk.main \in {origin.main, target.main}

\* install_locked: an installation that ends well has published everything, also after
\* earlier ones were interrupted.
InstallCompletes ==
    inst.pc = "work" /\ inst.todo = <<>> /\ inst'.pc = "idle" /\ lock' = "none" /\ UNCHANGED changes =>
        /\ disk.main = Candidate(origin).main /\ disk.advanced = Candidate(origin).advanced
        /\ disk.template # Nil

\* backup_once: a document that was replaced can be read in its backup, unless there
\* already was a backup when the user wrote it, or a power loss took run/migrations before
\* its entry in run/ was written (see BackupSurvives).
OriginalRecoverable ==
    \A f \in {"main", "advanced"} :
        disk[f] # origin[f] /\ origin[f] # Nil /\ f \notin stale => disk[Original(f)] = origin[f]

\* backup_once: a document that was replaced has a backup, whatever happened since.
BackupSurvives ==
    \A f \in {"main", "advanced"} : disk[f] # origin[f] /\ origin[f] # Nil => disk[Original(f)] # Nil

\* prepare: the apps selected are the ones the user's document meant when it was written,
\* when whitelist was the default: never more.
SelectionKept ==
    LET main == origin.main
        old == main.subscription # Nil \/ main.list # Nil \/ (provenance /\ main.sources = Nil)
    IN  main # Nil /\ disk.main # main =>
            disk.main.mode = IF main.mode = Nil /\ old THEN "whitelist" ELSE main.mode

\* adopt_subscription: the response of the older version is in the old place or the new one,
\* unless a power loss took the new one, run/cache/sources, whose entry is not synced before
\* the old pair is removed.
ResponseKept == adopted # Nil => adopted \in {disk.raw, disk.cache}

\* stop_and_lock: no file a daemon reads is written by the installer while it runs.
NotUnderTheDaemon ==
    lock = "daemon" /\ lock' = "daemon" /\ UNCHANGED changes => UNCHANGED disk

\* install_locked over crashes, lost renames and retries: no document, selection or response of the
\* user is lost or half replaced, as long as the directories it made survive a power loss.
NothingIsLost == InstallIsAtomic /\ OriginalRecoverable /\ SelectionKept /\ ResponseKept

\* stop_and_lock and install_locked: the installer works alone, and when it says so it is done.
InstallIsProper == [][InstallCompletes /\ NotUnderTheDaemon]_instvars
=============================================================================
