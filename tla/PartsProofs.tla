---------------------------- MODULE PartsProofs -----------------------------
(***************************************************************************)
(* The file watch, the engine process and the kernel module's table of     *)
(* selected UIDs, for any number of edits, files, processes, ports, table  *)
(* sizes, CPUs and restarts of the daemon.                                 *)
(*                                                                         *)
(* Watch: what changed is either read already, or a flag or the timer that *)
(* will read it is set, or an event that will set one is in the queue (or  *)
(* the overflow mark is).  Process: a PID that the daemon holds names the  *)
(* process it forked until that one is reaped, so what the inspection of   *)
(* /proc concludes and what is signalled is always the daemon's own child. *)
(*                                                                         *)
(* UidTable: Memory says what the visible slots are worth while stores are *)
(* pending: an entry that is not pending any more is that of tmp, and once *)
(* all stores of an ioctl are visible the first uid_n slots are the last   *)
(* request, increasing.  Window is the loop invariant of a search that no  *)
(* ioctl overlaps: the entries before lo are smaller and those from hi on  *)
(* are larger than the UID.                                                *)
(***************************************************************************)
EXTENDS Watch, Process, UidTable, TLAPS

-----------------------------------------------------------------------------
(* The file watch *)

\* Any file system to start with, and any length of the queue.
WatchSpec ==
    (\E switch \in {"absent", "present", "unreadable"} : WatchStart(switch))
    /\ [][WatchNext]_watchvars

FsysType == [config : Nat, content : Nat, packages : Nat, edits : Nat,
             switch : {"absent", "present", "unreadable"}]
RxType == [policy_changed : BOOLEAN, engine_config_changed : BOOLEAN, debounce : BOOLEAN,
           phase : {"on", "Disabled"}, policy : Nat, engine : Nat, packages : Nat]
EventType == [wd : Int, name : {"file", "self", "config", "disable", "packages.list", "overflow"}]
InoType == [watched : SUBSET Nat, queue : Seq(EventType)]
WatchTypes == fsys \in FsysType /\ ino \in InoType /\ watches \in Nat /\ rx \in RxType

Events(q) == {q[i] : i \in 1..Len(q)}
Waits(e) == e \in Events(ino.queue)
\* An event that makes the reactor look at everything again.
Rereads(e) == e = Overflow \/ e.name = "self" \/ e = Event(module_wd, "config")
Reread == \E e \in Events(ino.queue) : Rereads(e)

\* The directory that has the name is the one that is watched, or will be.
FollowInv == Reread \/ fsys.config = 0 \/ (watches = fsys.config /\ fsys.config \in ino.watched)
\* What was not read is flagged, or its event waits.
FileWaits == Reread \/ (fsys.config # 0 /\ Waits(Event(fsys.config, "file")))
UnreadInv ==
    /\ rx.policy = fsys.content \/ rx.policy_changed \/ FileWaits
    /\ rx.engine = fsys.content \/ rx.engine_config_changed \/ FileWaits
    /\ rx.packages = fsys.packages \/ rx.policy_changed \/ Reread
          \/ Waits(Event(packages_wd, "packages.list"))
\* What is flagged is read at the end of the debounce, as long as the reactor is on.
FlagInv == rx.phase = "on" /\ (rx.policy_changed \/ rx.engine_config_changed) => rx.debounce
\* So is a disable file, whose event may have been dropped.
SwitchInv ==
    disabled_file(fsys) =>
        \/ rx.phase = "Disabled" \/ rx.debounce
        \/ Waits(Overflow) \/ Waits(Event(module_wd, "disable"))

WatchInv == WatchTypes /\ FollowInv /\ UnreadInv /\ FlagInv /\ SwitchInv

\* The queue drops nothing without saying so: an event that does not fit is replaced by
\* the overflow event, and what was in the queue stays.
LEMMA EnqueueTells ==
    ASSUME NEW q \in Seq(EventType), NEW e \in EventType
    PROVE  /\ Enqueue(q, e) \in Seq(EventType)
           /\ Events(q) \subseteq Events(Enqueue(q, e))
           /\ e \in Events(Enqueue(q, e)) \/ Overflow \in Events(Enqueue(q, e))
  <1>1. Overflow \in EventType
    BY DEF Overflow, EventType
  <1>2. ASSUME NEW x \in EventType
        PROVE  /\ Append(q, x) \in Seq(EventType) /\ x \in Events(Append(q, x))
               /\ Events(q) \subseteq Events(Append(q, x))
    BY DEF Events
  <1>3. CASE q # <<>> /\ q[Len(q)] = Overflow
    <2>1. Enqueue(q, e) = q
      BY <1>3 DEF Enqueue
    <2>2. Len(q) \in 1..Len(q)
      BY <1>3
    <2> QED BY <1>3, <2>1, <2>2 DEF Events
  <1>4. CASE ~(q # <<>> /\ q[Len(q)] = Overflow)
    <2>1. Enqueue(q, e) \in {Append(q, e), Append(q, Overflow)}
      BY <1>4 DEF Enqueue
    <2> QED BY <1>1, <1>2, <2>1
  <1> QED BY <1>3, <1>4

\* An event that is reported is in the queue, or was lost and the queue says so.
LEMMA Reported ==
    ASSUME WatchTypes, NEW wd \in Int, NEW name,
           Event(wd, name) \in EventType, ino' = Emit(wd, name)
    PROVE  /\ ino' \in InoType /\ ino'.watched = ino.watched
           /\ Events(ino.queue) \subseteq Events(ino'.queue)
           /\ Event(wd, name) \in Events(ino'.queue) \/ Overflow \in Events(ino'.queue)
  <1>1. ino.queue \in Seq(EventType) /\ ino \in InoType
    BY DEF WatchTypes, InoType
  <1>2. ino'.queue = Enqueue(ino.queue, Event(wd, name)) /\ ino'.watched = ino.watched
    BY <1>1 DEF Emit, InoType
  <1>3. ino' = [watched |-> ino'.watched, queue |-> ino'.queue]
    BY <1>1 DEF Emit, InoType
  <1> QED BY <1>1, <1>2, <1>3, EnqueueTells DEF InoType

\* A change of the files is covered by the event it causes.
LEMMA ChangeKeeps ==
    ASSUME WatchInv, UNCHANGED <<watches, rx>>, fsys' \in FsysType, ino' \in InoType,
           Events(ino.queue) \subseteq Events(ino'.queue),
           fsys'.config # 0 => (fsys'.config = fsys.config /\ ino'.watched = ino.watched) \/ Reread',
           (fsys'.content = fsys.content /\ fsys'.config = fsys.config) \/ FileWaits',
           fsys'.packages = fsys.packages \/ Reread' \/ Waits(Event(packages_wd, "packages.list"))',
           fsys'.switch = fsys.switch \/ Waits(Overflow)' \/ Waits(Event(module_wd, "disable"))'
    PROVE  WatchInv'
  <1>1. WatchTypes'
    BY DEF WatchInv, WatchTypes
  <1>2. Reread => Reread'
    BY DEF Reread
  <1>3. \A e : Waits(e) => Waits(e)'
    BY DEF Waits
  <1>4. FollowInv'
    BY <1>2 DEF WatchInv, FollowInv
  <1>5. UnreadInv'
    BY <1>2, <1>3 DEF WatchInv, UnreadInv, FileWaits
  <1>6. FlagInv' /\ SwitchInv'
    BY <1>3 DEF WatchInv, FlagInv, SwitchInv, disabled_file
  <1> QED BY <1>1, <1>4, <1>5, <1>6 DEF WatchInv

\* What an edit assigns to the file system keeps its kind.
LEMMA FsysEdits ==
    ASSUME NEW f \in FsysType
    PROVE  /\ f.edits + 1 \in Nat /\ f.config \in Int
           /\ \A n \in Nat :
                /\ [f EXCEPT !.content = n, !.edits = n] \in FsysType
                /\ [f EXCEPT !.packages = n, !.edits = n] \in FsysType
                /\ [f EXCEPT !.switch = "absent", !.edits = n] \in FsysType
                /\ [f EXCEPT !.switch = "present", !.edits = n] \in FsysType
                /\ [f EXCEPT !.config = 0, !.content = 0, !.edits = n] \in FsysType
                /\ [f EXCEPT !.config = n, !.content = n, !.edits = n] \in FsysType
  <1>1. f.edits + 1 \in Nat /\ f.config \in Int
    BY DEF FsysType
  <1> SUFFICES ASSUME NEW n \in Nat
      PROVE  /\ [f EXCEPT !.content = n, !.edits = n] \in FsysType
             /\ [f EXCEPT !.packages = n, !.edits = n] \in FsysType
             /\ [f EXCEPT !.switch = "absent", !.edits = n] \in FsysType
             /\ [f EXCEPT !.switch = "present", !.edits = n] \in FsysType
             /\ [f EXCEPT !.config = 0, !.content = 0, !.edits = n] \in FsysType
             /\ [f EXCEPT !.config = n, !.content = n, !.edits = n] \in FsysType
    BY <1>1
  <1>2. /\ [f EXCEPT !.content = n, !.edits = n] \in FsysType
        /\ [f EXCEPT !.packages = n, !.edits = n] \in FsysType
    BY DEF FsysType
  <1>3. /\ [f EXCEPT !.switch = "absent", !.edits = n] \in FsysType
        /\ [f EXCEPT !.switch = "present", !.edits = n] \in FsysType
    BY DEF FsysType
  <1>4. /\ [f EXCEPT !.config = 0, !.content = 0, !.edits = n] \in FsysType
        /\ [f EXCEPT !.config = n, !.content = n, !.edits = n] \in FsysType
    BY DEF FsysType
  <1> QED BY <1>2, <1>3, <1>4

\* The events of the file system.
LEMMA WatchWorld ==
    ASSUME WatchInv,
           \/ EditConfig \/ EditPackages \/ set_disabled \/ set_enabled
           \/ (\E kept \in BOOLEAN : LoseConfig(kept)) \/ MakeConfig \/ Noise
    PROVE  WatchInv'
  <1> USE DEF Fresh, Event, module_wd, packages_wd
  <1>0. WatchTypes /\ fsys \in FsysType
    BY DEF WatchInv, WatchTypes
  <1>a. \A e : e \in Events(ino'.queue) /\ Rereads(e) => Reread'
    BY DEF Reread
  <1>b. Overflow \in Events(ino'.queue) => Reread'
    BY <1>a DEF Rereads
  <1>1. CASE EditConfig
    <2>1. fsys' \in FsysType /\ fsys.config \in Int /\ fsys.config # 0
      BY <1>0, <1>1, FsysEdits DEF EditConfig
    <2>2. Event(fsys.config, "file") \in EventType
      BY <2>1 DEF EventType
    <2>3. fsys'.config = fsys.config /\ fsys'.packages = fsys.packages
             /\ fsys'.switch = fsys.switch /\ UNCHANGED <<watches, rx>>
      BY <1>0, <1>1 DEF EditConfig, FsysType
    <2>4. CASE fsys.config \in ino.watched
      <3>1. ino' = Emit(fsys.config, "file")
        BY <1>1, <2>4 DEF EditConfig, OfConfig
      <3>2. /\ ino' \in InoType /\ ino'.watched = ino.watched
            /\ Events(ino.queue) \subseteq Events(ino'.queue)
            /\ Event(fsys.config, "file") \in Events(ino'.queue)
                  \/ Overflow \in Events(ino'.queue)
        BY <1>0, <2>1, <2>2, <3>1, Reported
      <3>3. FileWaits'
        BY <1>b, <2>1, <2>3, <3>2 DEF FileWaits, Waits
      <3> QED BY <2>1, <2>3, <3>2, <3>3, ChangeKeeps
    <2>5. CASE fsys.config \notin ino.watched
      <3>1. ino' = ino
        BY <1>1, <2>5 DEF EditConfig, OfConfig
      <3>2. Reread
        BY <2>1, <2>5 DEF WatchInv, FollowInv
      <3>3. Reread' /\ FileWaits' /\ ino' \in InoType
        BY <1>0, <3>1, <3>2 DEF Reread, FileWaits, WatchTypes
      <3> QED BY <2>1, <2>3, <3>1, <3>3, ChangeKeeps
    <2> QED BY <2>4, <2>5
  <1>2. CASE EditPackages
    <2>1. fsys' \in FsysType /\ fsys'.config = fsys.config /\ fsys'.content = fsys.content
             /\ fsys'.switch = fsys.switch /\ UNCHANGED <<watches, rx>>
      BY <1>0, <1>2, FsysEdits DEF EditPackages, FsysType
    <2>2. ino' = Emit(packages_wd, "packages.list")
      BY <1>2 DEF EditPackages
    <2>3. /\ ino' \in InoType /\ ino'.watched = ino.watched
          /\ Events(ino.queue) \subseteq Events(ino'.queue)
          /\ Event(packages_wd, "packages.list") \in Events(ino'.queue)
                \/ Overflow \in Events(ino'.queue)
      BY <1>0, <2>2, Reported DEF EventType
    <2> QED BY <1>b, <2>1, <2>3, ChangeKeeps DEF Waits
  <1>3. CASE set_disabled \/ set_enabled
    <2>1. fsys' \in FsysType /\ fsys'.config = fsys.config /\ fsys'.content = fsys.content
             /\ fsys'.packages = fsys.packages /\ UNCHANGED <<watches, rx>>
      <3>1. CASE set_disabled
        BY <1>0, <3>1, FsysEdits DEF set_disabled, FsysType
      <3>2. CASE set_enabled
        BY <1>0, <3>2, FsysEdits DEF set_enabled, FsysType
      <3> QED BY <1>3, <3>1, <3>2
    <2>2. ino' = Emit(module_wd, "disable")
      BY <1>3 DEF set_disabled, set_enabled
    <2>3. /\ ino' \in InoType /\ ino'.watched = ino.watched
          /\ Events(ino.queue) \subseteq Events(ino'.queue)
          /\ Event(module_wd, "disable") \in Events(ino'.queue)
                \/ Overflow \in Events(ino'.queue)
      BY <1>0, <2>2, Reported DEF EventType
    <2> QED BY <2>1, <2>3, ChangeKeeps DEF Waits
  <1>4. CASE \E kept \in BOOLEAN : LoseConfig(kept)
    <2>1. PICK kept \in BOOLEAN : LoseConfig(kept)
      BY <1>4
    <2>2. fsys' \in FsysType /\ fsys'.config = 0 /\ fsys'.packages = fsys.packages
             /\ fsys'.switch = fsys.switch /\ UNCHANGED <<watches, rx>>
      BY <1>0, <2>1, FsysEdits DEF LoseConfig, FsysType
    <2>3. ino \in InoType /\ ino.queue \in Seq(EventType)
      BY <1>0 DEF WatchTypes, InoType
    <2> DEFINE q == OfConfig(fsys.config, "self").queue
    <2>4. q \in {ino.queue, Enqueue(ino.queue, Event(fsys.config, "self"))}
      BY <2>3 DEF OfConfig, Emit, InoType
    <2>5. Event(fsys.config, "self") \in EventType /\ Event(module_wd, "config") \in EventType
      BY <1>0 DEF EventType, FsysType
    <2>6. q \in Seq(EventType) /\ Events(ino.queue) \subseteq Events(q)
      BY <2>3, <2>4, <2>5, EnqueueTells
    <2>7. ino'.queue = Enqueue(q, Event(module_wd, "config")) /\ ino' \in InoType
      <3>1. Enqueue(q, Event(module_wd, "config")) \in Seq(EventType)
        BY <2>5, <2>6, EnqueueTells
      <3>2. ino' = [watched |-> IF kept THEN ino.watched ELSE ino.watched \ {fsys.config},
                    queue |-> Enqueue(q, Event(module_wd, "config"))]
        BY <2>1 DEF LoseConfig
      <3> QED BY <2>3, <3>1, <3>2 DEF InoType
    <2>8. /\ Events(q) \subseteq Events(ino'.queue)
          /\ Event(module_wd, "config") \in Events(ino'.queue) \/ Overflow \in Events(ino'.queue)
      BY <2>5, <2>6, <2>7, EnqueueTells
    <2>9. Reread' /\ FileWaits'
      BY <1>a, <1>b, <2>8 DEF Rereads, FileWaits
    <2> QED BY <2>2, <2>6, <2>7, <2>8, <2>9, ChangeKeeps
  <1>5. CASE MakeConfig
    <2>1. fsys' \in FsysType /\ fsys'.packages = fsys.packages
             /\ fsys'.switch = fsys.switch /\ UNCHANGED <<watches, rx>>
      BY <1>0, <1>5, FsysEdits DEF MakeConfig, FsysType
    <2>2. ino' = Emit(module_wd, "config")
      BY <1>5 DEF MakeConfig
    <2>3. /\ ino' \in InoType /\ Events(ino.queue) \subseteq Events(ino'.queue)
          /\ Event(module_wd, "config") \in Events(ino'.queue) \/ Overflow \in Events(ino'.queue)
      BY <1>0, <2>2, Reported DEF EventType
    <2>4. Reread' /\ FileWaits'
      BY <1>a, <1>b, <2>3 DEF Rereads, FileWaits
    <2> QED BY <2>1, <2>3, <2>4, ChangeKeeps
  <1>6. CASE Noise
    <2>1. fsys' = fsys /\ ino' = Emit(packages_wd, "file") /\ UNCHANGED <<watches, rx>>
      BY <1>6 DEF Noise
    <2>2. /\ ino' \in InoType /\ ino'.watched = ino.watched
          /\ Events(ino.queue) \subseteq Events(ino'.queue)
      <3>1. Event(packages_wd, "file") \in EventType
        BY DEF EventType
      <3> QED BY <1>0, <2>1, <3>1, Reported
    <2> QED BY <1>0, <2>1, <2>2, ChangeKeeps
  <1> QED BY <1>1, <1>2, <1>3, <1>4, <1>5, <1>6

\* What a convergence reads, and what it leaves flagged under the switch.
LEMMA ConvergedReads ==
    ASSUME fsys \in FsysType, NEW r \in RxType
    PROVE  /\ converged(r) \in RxType /\ converged(r).debounce = r.debounce
           /\ disabled_file(fsys) =>
                 /\ converged(r).phase = "Disabled"
                 /\ converged(r).policy = r.policy /\ converged(r).engine = r.engine
                 /\ converged(r).packages = r.packages
                 /\ converged(r).policy_changed = r.policy_changed
                 /\ converged(r).engine_config_changed = r.engine_config_changed
           /\ ~disabled_file(fsys) =>
                 /\ converged(r).policy = IF r.policy_changed THEN fsys.content ELSE r.policy
                 /\ converged(r).packages = IF r.policy_changed THEN fsys.packages ELSE r.packages
                 /\ converged(r).engine = IF r.engine_config_changed THEN fsys.content ELSE r.engine
                 /\ ~converged(r).policy_changed /\ ~converged(r).engine_config_changed
BY DEF converged, FsysType, RxType

\* What the queue holds is classified as what it is, where the directory that has the
\* name is watched.
LEMMA Classified ==
    ASSUME WatchInv
    PROVE  /\ Reread <=> drain_watches \cap {"Rebuild", "Overflow"} # {}
           /\ Waits(Overflow) => "Overflow" \in drain_watches
           /\ Waits(Event(module_wd, "disable")) => "Switch" \in drain_watches
           /\ Waits(Event(packages_wd, "packages.list")) => "Policy" \in drain_watches
           /\ FileWaits => drain_watches \cap {"Config", "Rebuild", "Overflow"} # {}
  <1>0. watches \in Nat /\ fsys.config \in Nat /\ ino.queue \in Seq(EventType)
    BY DEF WatchInv, WatchTypes, FsysType, InoType
  <1>1. DOMAIN ino.queue = 1..Len(ino.queue)
    BY <1>0
  <1>2. \A e : Waits(e) => classify(e) \in drain_watches
    BY <1>1 DEF Waits, Events, drain_watches
  <1>3. \A e \in EventType : Rereads(e) <=> classify(e) \in {"Rebuild", "Overflow"}
    BY <1>0 DEF Rereads, classify, Overflow, Event, EventType, module_wd, packages_wd
  <1>4. Reread <=> drain_watches \cap {"Rebuild", "Overflow"} # {}
    <2>1. \A e \in Events(ino.queue) : e \in EventType
      BY <1>0 DEF Events
    <2>2. drain_watches = {classify(e) : e \in Events(ino.queue)}
      BY <1>1 DEF drain_watches, Events
    <2> QED BY <1>3, <2>1, <2>2 DEF Reread
  <1>5. /\ classify(Overflow) = "Overflow"
        /\ classify(Event(module_wd, "disable")) = "Switch"
        /\ classify(Event(packages_wd, "packages.list")) = "Policy"
    BY <1>0 DEF classify, Overflow, Event, module_wd, packages_wd
  <1>6. FileWaits => drain_watches \cap {"Config", "Rebuild", "Overflow"} # {}
    <2>1. ASSUME fsys.config # 0, watches = fsys.config
          PROVE  classify(Event(fsys.config, "file")) = "Config"
      BY <1>0, <2>1 DEF classify, Overflow, Event, module_wd, packages_wd
    <2>2. Reread \/ fsys.config = 0 \/ watches = fsys.config
      BY DEF WatchInv, FollowInv
    <2> QED BY <1>2, <1>4, <2>1, <2>2 DEF FileWaits
  <1> QED BY <1>2, <1>4, <1>5, <1>6

\* The reactor drains the queue.
LEMMA WatchHandles ==
    ASSUME WatchInv, handle_inotify
    PROVE  WatchInv'
  <1> DEFINE acts == drain_watches
             r == IF "Switch" \in acts THEN Switched(rx) ELSE rx
  <1>0. fsys \in FsysType /\ rx \in RxType /\ ino \in InoType /\ watches \in Nat /\ fsys' = fsys
    BY DEF WatchInv, WatchTypes, handle_inotify
  <1>1. /\ r \in RxType /\ r.debounce = rx.debounce
        /\ r.policy = fsys.content \/ r.policy_changed \/ FileWaits
        /\ r.engine = fsys.content \/ r.engine_config_changed \/ FileWaits
        /\ r.packages = fsys.packages \/ r.policy_changed \/ Reread
              \/ Waits(Event(packages_wd, "packages.list"))
        /\ r.phase = "on" /\ (r.policy_changed \/ r.engine_config_changed) => r.debounce
        /\ disabled_file(fsys) /\ "Switch" \in acts => r.phase = "Disabled"
        /\ disabled_file(fsys) => r.phase \in {rx.phase, "Disabled"}
    <2>1. CASE "Switch" \in acts /\ disabled_file(fsys)
      BY <1>0, <2>1 DEF Switched, WatchInv, UnreadInv, FlagInv, RxType
    <2>2. CASE "Switch" \in acts /\ ~disabled_file(fsys) /\ rx.phase = "Disabled"
      <3>1. r = converged(rx)
        BY <2>2 DEF Switched
      <3> QED BY <1>0, <2>2, <3>1, ConvergedReads DEF WatchInv, UnreadInv
    <2>3. CASE "Switch" \notin acts \/ (~disabled_file(fsys) /\ rx.phase # "Disabled")
      <3>1. r = rx
        BY <2>3 DEF Switched
      <3> QED BY <1>0, <2>3, <3>1 DEF WatchInv, UnreadInv, FlagInv
    <2> QED BY <2>1, <2>2, <2>3
  <1>2. rx' = Flagged(r, acts)
    BY DEF handle_inotify
  <1> HIDE DEF acts, r
  <1>3. /\ rx' \in RxType /\ rx'.policy = r.policy /\ rx'.engine = r.engine
        /\ rx'.packages = r.packages /\ rx'.phase = r.phase
        /\ rx'.policy_changed <=>
              r.policy_changed \/ acts \cap {"Config", "Policy", "Rebuild", "Overflow"} # {}
        /\ rx'.engine_config_changed <=>
              r.engine_config_changed \/ acts \cap {"Config", "Rebuild", "Overflow"} # {}
        /\ rx'.debounce <=>
              r.debounce \/ acts \cap {"Config", "Policy", "Rebuild", "Overflow"} # {}
    BY <1>1, <1>2 DEF Flagged, RxType
  <1>4. UnreadInv'
    <2>1. FileWaits => acts \cap {"Config", "Rebuild", "Overflow"} # {}
      BY Classified DEF acts
    <2>2. Reread \/ Waits(Event(packages_wd, "packages.list")) =>
             acts \cap {"Policy", "Rebuild", "Overflow"} # {}
      BY Classified DEF acts
    <2> QED BY <1>0, <1>1, <1>3, <2>1, <2>2 DEF UnreadInv
  <1>5. FlagInv'
    BY <1>1, <1>3 DEF FlagInv
  <1>6. SwitchInv'
    <2>1. Waits(Overflow) => "Overflow" \in acts
      BY Classified DEF acts
    <2>2. Waits(Event(module_wd, "disable")) => "Switch" \in acts
      BY Classified DEF acts
    <2> QED BY <1>0, <1>1, <1>3, <2>1, <2>2 DEF WatchInv, SwitchInv
  <1>7. FollowInv' /\ ino' \in InoType /\ watches' \in Nat
    <2>1. CASE Reread
      <3>1. rebuild
        BY <2>1, Classified DEF handle_inotify
      <3>2. <<>> \in Seq(EventType)
        OBVIOUS
      <3>3. fsys.config \in Nat
        BY <1>0 DEF FsysType
      <3>4. CASE fsys.config = 0
        BY <1>0, <3>1, <3>2, <3>4 DEF rebuild, FollowInv, InoType
      <3>5. CASE fsys.config # 0
        <4>1. watches' = fsys.config
                 /\ ino' = [watched |-> ino.watched \cup {fsys.config}, queue |-> <<>>]
          BY <3>1, <3>5 DEF rebuild
        <4> QED BY <1>0, <3>2, <3>3, <4>1 DEF FollowInv, InoType
      <3> QED BY <3>4, <3>5
    <2>2. CASE ~Reread
      <3>1. watches' = watches /\ ino' = [ino EXCEPT !.queue = <<>>]
        BY <2>2, Classified DEF handle_inotify
      <3>2. <<>> \in Seq(EventType)
        OBVIOUS
      <3>3. ino'.watched = ino.watched /\ ino' \in InoType
        BY <1>0, <3>1, <3>2 DEF InoType
      <3> QED BY <1>0, <2>2, <3>1, <3>3 DEF FollowInv, WatchInv
    <2> QED BY <2>1, <2>2
  <1> QED BY <1>0, <1>3, <1>4, <1>5, <1>6, <1>7 DEF WatchInv, WatchTypes

\* The debounce ends.
LEMMA WatchDebounce ==
    ASSUME WatchInv, debounce_expired
    PROVE  WatchInv'
  <1> DEFINE r == [rx EXCEPT !.debounce = FALSE]
  <1>0. /\ fsys \in FsysType /\ rx \in RxType /\ UNCHANGED <<fsys, ino, watches>>
        /\ rx' = IF rx.phase = "Disabled" THEN r ELSE converged(r)
    BY DEF WatchInv, WatchTypes, debounce_expired
  <1>1. /\ r \in RxType /\ r.policy = rx.policy /\ r.engine = rx.engine
        /\ r.packages = rx.packages /\ r.phase = rx.phase
        /\ r.policy_changed = rx.policy_changed
        /\ r.engine_config_changed = rx.engine_config_changed
    BY <1>0 DEF RxType
  <1> HIDE DEF r
  <1>2. rx' \in RxType /\ (rx'.phase = "on" => ~rx'.policy_changed /\ ~rx'.engine_config_changed)
    BY <1>0, <1>1, ConvergedReads DEF RxType
  <1>3. UnreadInv'
    BY <1>0, <1>1, ConvergedReads
    DEF WatchInv, UnreadInv, FileWaits, Reread, Waits
  <1>4. SwitchInv'
    BY <1>0, <1>1, ConvergedReads DEF WatchInv, SwitchInv, RxType
  <1>5. FollowInv' /\ FlagInv'
    BY <1>0, <1>2 DEF WatchInv, FollowInv, FlagInv, Reread
  <1> QED BY <1>0, <1>2, <1>3, <1>4, <1>5 DEF WatchInv, WatchTypes

\* handle_inotify, rebuild and the debounce, over any edits, replaced directories and
\* dropped events: once everything is drained and the debounce over, a reactor that is
\* on has read the configuration and the packages that are there, and a disable file
\* has been acted on.
THEOREM NoChangeIsMissed == WatchSpec => []ChangesAreSeen
  <1>1. ASSUME NEW switch \in {"absent", "present", "unreadable"}, WatchStart(switch)
        PROVE  WatchInv
    <2>1. WatchTypes
      <3>1. <<>> \in Seq(EventType)
        OBVIOUS
      <3> QED BY <1>1, <3>1 DEF WatchStart, WatchTypes, FsysType, InoType, RxType
    <2> QED BY <1>1, <2>1
        DEF WatchStart, WatchInv, FollowInv, UnreadInv, FlagInv, SwitchInv, disabled_file
  <1>2. ASSUME WatchInv, [WatchNext]_watchvars
        PROVE  WatchInv'
    <2>1. CASE UNCHANGED watchvars
      BY <1>2, <2>1 DEF watchvars, WatchInv, WatchTypes, FollowInv, UnreadInv, FlagInv,
         SwitchInv, FileWaits, Reread, Waits
    <2> QED BY <1>2, <2>1, WatchWorld, WatchHandles, WatchDebounce DEF WatchNext
  <1>3. WatchInv => ChangesAreSeen
    <2> SUFFICES ASSUME WatchInv, Settled PROVE ChangesAreSeen
      BY DEF ChangesAreSeen, EditIsSeen, DisableIsSeen
    <2>1. Events(ino.queue) = {}
      BY DEF Settled, Events
    <2> QED BY <2>1 DEF WatchInv, WatchTypes, RxType, UnreadInv, FlagInv, SwitchInv, FileWaits,
         Reread, Waits, Settled, ChangesAreSeen, EditIsSeen, DisableIsSeen
  <1>4. (\E switch \in {"absent", "present", "unreadable"} : WatchStart(switch)) => WatchInv
    BY <1>1
  <1> QED BY <1>2, <1>3, <1>4, PTL DEF WatchSpec
-----------------------------------------------------------------------------
(* The engine as a process *)

FileType == Nat \X {"whole", "partial", "foreign"}
\* Any files an earlier daemon may have left.
ProcessSpec == (\E old \in SUBSET FileType : ProcessStart(old)) /\ [][ProcessNext]_procvars

HasChild == {"forked", "waiting", "probing", "serving", "stopping"}
HasFile == {"written", "checking", "accepted"} \cup HasChild
FluxdAt == {"idle", "drawn", "created", "dead"} \cup HasFile
FluxdType ==
    [life : Nat \ {0}, up : BOOLEAN, at : FluxdAt, gen : Nat, ports : (Port \X Port) \cup {Nil},
     child : ChildType \cup {Nil}, seen : Seq(Nat \cup {Nil}) \cup {Nil}, killed : BOOLEAN,
     verdict : {Nil, "ok", "failed", "timeout"}]
ChkType ==
    [at : {"none", "run", "exited"}, left : Nat, wrote : Nat, pipe : Nat, captured : Nat,
     wedged : BOOLEAN, code : {Nil, "ok", "failed"}, late : BOOLEAN]
ProcessTypes ==
    /\ sys \in [Pid -> ProcType \cup {Nil}] /\ bound \in [Sockets -> Nat \cup {Nil}]
    /\ born \in Nat /\ fluxd \in FluxdType /\ chk \in ChkType /\ runfiles \in SUBSET FileType

\* An identity is given once, and what is not a stranger's was started by some life of
\* fluxd; past the check of its parent it was started by this one.
TableInv ==
    /\ \A p \in Pid : sys[p] # Nil =>
          /\ sys[p].id <= born /\ sys[p].of <= fluxd.life
          /\ sys[p].of = 0 <=> sys[p].image = "other"
          /\ sys[p].of # 0 /\ sys[p].at \notin {"forked", "armed"} => fluxd.up /\ sys[p].of = fluxd.life
          /\ sys[p].image = "sing-box" => sys[p].at \in {"run", "zombie"}
    /\ \A p, q \in Pid : sys[p] # Nil /\ sys[q] # Nil /\ sys[p].id = sys[q].id => p = q

\* The daemon has a child where its steps say so, and the process is that child.
KnownInv ==
    /\ fluxd.up <=> fluxd.at # "dead"
    /\ fluxd.child # Nil <=> fluxd.at \in HasChild
    /\ fluxd.child # Nil =>
          /\ sys[fluxd.child.pid] # Nil /\ sys[fluxd.child.pid].id = fluxd.child.id
          /\ sys[fluxd.child.pid].of = fluxd.life
    /\ ChildIsKnown
    /\ fluxd.at \notin {"idle", "dead"} => fluxd.ports # Nil

\* A listener of the child that a dump has shown is there until the child ends.
Listens(i) == bound[expectations(fluxd.ports)[i]] = fluxd.child.id
ListenInv ==
    /\ fluxd.at = "probing" =>
          /\ fluxd.seen \in Seq(Nat \cup {Nil}) /\ Len(fluxd.seen) <= 4
          /\ Exited \/ \A i \in 1..Len(fluxd.seen) : fluxd.seen[i] = fluxd.child.id => Listens(i)
    /\ fluxd.at = "serving" => Exited \/ \A i \in 1..4 : Listens(i)

\* What the check wrote is in the pipe or was read; only a wedged one is late.
ChkInv ==
    /\ chk.wrote > 0 => chk.pipe > 0 \/ chk.captured > 0
    /\ chk.late => chk.wedged
    /\ fluxd.at = "checking" => fluxd.verdict = Nil
    /\ fluxd.verdict # Nil => chk.at = "none"
    /\ CheckVerdict

\* The one file of the daemon is the one of the generation it works on.
RunFileInv ==
    /\ fluxd.up => \A f \in runfiles : f[2] # "foreign" =>
          f[1] = fluxd.gen /\ f[2] = (IF fluxd.at = "created" THEN "partial" ELSE "whole")
                           /\ fluxd.at \in HasFile \cup {"created"}
    /\ fluxd.at \in HasFile => <<fluxd.gen, "whole">> \in runfiles

ProcInv == ProcessTypes /\ TableInv /\ KnownInv /\ ListenInv /\ ChkInv /\ RunFileInv

\* A listener is named by a protocol, a family and a port.
LEMMA ExpectedSockets ==
    ASSUME NEW p \in Port \X Port, NEW i \in 1..4
    PROVE  expectations(p)[i] \in Sockets
BY DEF expectations, Sockets

\* The smaller of two numbers.
LEMMA LeastOfTwo ==
    ASSUME NEW a \in Nat, NEW b \in Nat
    PROVE  /\ Least({a, b}) \in {a, b} /\ Least({a, b}) <= a /\ Least({a, b}) <= b
  <1>1. \E n \in {a, b} : \A m \in {a, b} : n <= m
    <2>1. CASE a <= b
      BY <2>1
    <2>2. CASE b <= a
      BY <2>2
    <2> QED BY <2>1, <2>2
  <1> QED BY <1>1 DEF Least

\* drain_output empties the pipe as far as its budget goes, and what it reads is kept up
\* to the cap.
LEMMA Drained ==
    ASSUME NEW c \in ChkType
    PROVE  /\ drain_output(c) \in ChkType
           /\ drain_output(c).pipe <= c.pipe /\ drain_output(c).captured >= 0
           /\ c.pipe > 0 => drain_output(c).pipe < c.pipe /\ drain_output(c).captured > 0
           /\ c.captured > 0 => drain_output(c).captured > 0
           /\ drain_output(c).wrote = c.wrote /\ drain_output(c).wedged = c.wedged
           /\ drain_output(c).late = c.late /\ drain_output(c).code = c.code
           /\ drain_output(c).at = c.at
  <1> DEFINE n == Least({c.pipe, ReadBudget})
             k == Least({OutputCap, c.captured + n})
  <1>1. c.pipe \in Nat /\ c.captured \in Nat /\ ReadBudget \in Nat \ {0} /\ OutputCap \in Nat \ {0}
    BY ProcessAssumption DEF ChkType
  <1>2. n \in Nat /\ n <= c.pipe /\ (c.pipe > 0 => n > 0)
    BY <1>1, LeastOfTwo
  <1>3. k \in Nat /\ (c.captured + n > 0 => k > 0)
    BY <1>1, <1>2, LeastOfTwo
  <1>4. drain_output(c) = [c EXCEPT !.pipe = @ - n, !.captured = k]
    BY DEF drain_output
  <1> HIDE DEF n, k
  <1>5. c.pipe - n \in Nat
    BY <1>1, <1>2
  <1>6. /\ drain_output(c).pipe = c.pipe - n /\ drain_output(c).captured = k
        /\ drain_output(c).wrote = c.wrote /\ drain_output(c).wedged = c.wedged
        /\ drain_output(c).late = c.late /\ drain_output(c).code = c.code
        /\ drain_output(c).at = c.at
    BY <1>4 DEF ChkType
  <1>7. drain_output(c) \in ChkType
    BY <1>3, <1>4, <1>5 DEF ChkType
  <1> QED BY <1>1, <1>2, <1>3, <1>6, <1>7

\* What the daemon assigns to its own state keeps its kind.
LEMMA FluxdEdits ==
    ASSUME NEW f \in FluxdType, NEW at \in FluxdAt
    PROVE  /\ [f EXCEPT !.at = at] \in FluxdType
           /\ [f EXCEPT !.at = at, !.seen = Nil] \in FluxdType
           /\ [f EXCEPT !.at = at, !.seen = <<>>] \in FluxdType
           /\ \A v \in {Nil, "ok", "failed", "timeout"} :
                 [f EXCEPT !.at = at, !.verdict = v] \in FluxdType
           /\ \A pp \in Port \X Port :
                 [f EXCEPT !.at = at, !.gen = @ + 1, !.ports = pp, !.verdict = Nil] \in FluxdType
           /\ \A c \in ChildType : [f EXCEPT !.at = at, !.child = c, !.verdict = Nil] \in FluxdType
           /\ [f EXCEPT !.at = at, !.child = Nil, !.seen = Nil, !.killed = FALSE] \in FluxdType
           /\ [f EXCEPT !.up = FALSE, !.at = at, !.child = Nil, !.verdict = Nil] \in FluxdType
           /\ [f EXCEPT !.killed = TRUE] \in FluxdType
  <1>0. <<>> \in Seq(Nat \cup {Nil}) /\ f.gen + 1 \in Nat
    BY DEF FluxdType
  <1>1. /\ [f EXCEPT !.at = at] \in FluxdType
        /\ [f EXCEPT !.at = at, !.seen = Nil] \in FluxdType
        /\ [f EXCEPT !.killed = TRUE] \in FluxdType
    BY DEF FluxdType
  <1>7. [f EXCEPT !.at = at, !.seen = <<>>] \in FluxdType
    BY <1>0 DEF FluxdType
  <1>2. \A v \in {Nil, "ok", "failed", "timeout"} :
           [f EXCEPT !.at = at, !.verdict = v] \in FluxdType
    BY DEF FluxdType
  <1>3. \A pp \in Port \X Port :
           [f EXCEPT !.at = at, !.gen = @ + 1, !.ports = pp, !.verdict = Nil] \in FluxdType
    BY <1>0 DEF FluxdType
  <1>4. \A c \in ChildType : [f EXCEPT !.at = at, !.child = c, !.verdict = Nil] \in FluxdType
    BY DEF FluxdType
  <1>5. [f EXCEPT !.at = at, !.child = Nil, !.seen = Nil, !.killed = FALSE] \in FluxdType
    BY DEF FluxdType
  <1>6. [f EXCEPT !.up = FALSE, !.at = at, !.child = Nil, !.verdict = Nil] \in FluxdType
    BY DEF FluxdType
  <1> QED BY <1>1, <1>2, <1>3, <1>4, <1>5, <1>6, <1>7

\* A process that is changed or ends, and the table it is in.
LEMMA SysEdits ==
    ASSUME sys \in [Pid -> ProcType \cup {Nil}], NEW p \in Pid, sys[p] # Nil
    PROVE  /\ \A at \in {"forked", "armed", "checked", "run", "zombie"} :
                 /\ [sys EXCEPT ![p].at = at] \in [Pid -> ProcType \cup {Nil}]
                 /\ [sys[p] EXCEPT !.at = at] \in ProcType
           /\ [sys EXCEPT ![p].at = "run", ![p].image = "sing-box"] \in [Pid -> ProcType \cup {Nil}]
           /\ sys[p] \in ProcType
  <1>1. sys[p] \in ProcType
    OBVIOUS
  <1>2. \A at \in {"forked", "armed", "checked", "run", "zombie"} : [sys[p] EXCEPT !.at = at] \in ProcType
    BY <1>1 DEF ProcType
  <1>3. [sys[p] EXCEPT !.at = "run", !.image = "sing-box"] \in ProcType
    BY <1>1 DEF ProcType
  <1>4. [sys EXCEPT ![p].at = "run", ![p].image = "sing-box"]
           = [sys EXCEPT ![p] = [sys[p] EXCEPT !.at = "run", !.image = "sing-box"]]
    BY <1>1
  <1> QED BY <1>1, <1>2, <1>3, <1>4

\* The end of a process leaves a table of processes and of listeners.
LEMMA EndedTypes ==
    ASSUME ProcessTypes, NEW p \in Pid, sys[p] # Nil, Ended(p)
    PROVE  sys' \in [Pid -> ProcType \cup {Nil}] /\ bound' \in [Sockets -> Nat \cup {Nil}]
  <1>1. sys' \in [Pid -> ProcType \cup {Nil}]
    <2>1. [sys[p] EXCEPT !.at = "zombie"] \in ProcType \cup {Nil}
      BY SysEdits DEF ProcessTypes
    <2> QED BY <2>1 DEF Ended, ProcessTypes
  <1>2. bound' \in [Sockets -> Nat \cup {Nil}]
    BY DEF Ended, Released, ProcessTypes
  <1> QED BY <1>1, <1>2

\* The steps of the daemon and of the check that touch no process of the table.
Daemon_step ==
    \/ draw_ports \/ create_effective \/ (\E ok \in BOOLEAN : write_effective(ok)) \/ spawn_check
    \/ spawn_check_fails \/ drain_check_output \/ CheckDeadline \/ finish_check \/ CheckWrites
    \/ CheckExits \/ spawn_returns \/ probe_starts \/ probe_step \/ probe_ends \/ stop_child

\* The steps of the processes themselves, which the daemon does not take part in.
Process_step ==
    \E p \in Pid : \/ child_arms(p) \/ child_checks(p) \/ child_execs(p) \/ ChildEnds(p)
                   \/ Stranger(p) \/ StrangerEnds(p)
                   \/ \E s \in Sockets : EngineBinds(p, s) \/ StrangerBinds(p, s)

\* verify_listener_inodes is ready only for the child's own sockets.
LEMMA Readiness ==
    ASSUME NEW inodes
    PROVE  /\ verify_listener_inodes(inodes) \in {"mismatch", "pending", "ready"}
           /\ verify_listener_inodes(inodes) = "ready" =>
                 \A i \in 1..4 : inodes[i] # Nil /\ sys[fluxd.child.pid].id = inodes[i]
BY DEF verify_listener_inodes, pid_owns_inode

\* The last answer of a probe: the daemon promotes, waits or stops, and promotes only an
\* engine whose four listeners are its own.
LEMMA ProbeEnds ==
    ASSUME probe_ends
    PROVE  \E at \in {"serving", "waiting", "stopping"} :
              /\ fluxd' = [fluxd EXCEPT !.at = at, !.seen = Nil]
              /\ at = "serving" => \A i \in 1..4 : sys[fluxd.child.pid].id = fluxd.seen[i]
  <1> DEFINE r == verify_listener_inodes(fluxd.seen)
  <1>1. /\ r \in {"mismatch", "pending", "ready"}
        /\ r = "ready" => \A i \in 1..4 : sys[fluxd.child.pid].id = fluxd.seen[i]
    BY Readiness
  <1> HIDE DEF r
  <1>2. CASE r = "ready"
    BY <1>1, <1>2 DEF probe_ends, r
  <1>3. CASE r = "pending"
    BY <1>3 DEF probe_ends, r
  <1>4. CASE r = "mismatch"
    BY <1>4 DEF probe_ends, r, begin_stop_child
  <1> QED BY <1>1, <1>2, <1>3, <1>4

\* The daemon and the check keep every kind.
LEMMA DaemonTypes ==
    ASSUME ProcInv, Daemon_step
    PROVE  ProcessTypes'
  <1> USE DEF ProcInv, ProcessTypes
  <1>a. {"idle", "drawn", "created", "written", "checking", "accepted", "forked", "waiting",
        "probing", "serving", "stopping", "dead"} \subseteq FluxdAt
    BY DEF FluxdAt, HasFile, HasChild
  <1>1. CASE draw_ports
    <2>1. NoCheck \in ChkType
      BY DEF NoCheck, ChkType
    <2>2. PICK p4, p6 \in Port :
             fluxd' = [fluxd EXCEPT !.at = "drawn", !.gen = @ + 1, !.ports = <<p4, p6>>,
                                    !.verdict = Nil]
      BY <1>1 DEF draw_ports
    <2>3. <<p4, p6>> \in Port \X Port /\ "drawn" \in FluxdAt
      BY <1>a
    <2>4. fluxd' \in FluxdType
      BY <2>2, <2>3, <1>a, FluxdEdits
    <2> QED BY <1>1, <2>1, <2>4 DEF draw_ports
  <1>2. CASE create_effective
    <2>1. <<fluxd.gen, "partial">> \in FileType
      BY DEF FileType, FluxdType
    <2>2. fluxd' \in FluxdType
      BY ZenonT(30), <1>2, <1>a, FluxdEdits DEF create_effective
    <2>3. runfiles' \in SUBSET FileType
      BY <1>2, <2>1 DEF create_effective
    <2> QED BY <1>2, <2>2, <2>3 DEF create_effective
  <1>3. CASE \E ok \in BOOLEAN : write_effective(ok)
    <2>1. <<fluxd.gen, "whole">> \in FileType
      BY DEF FileType, FluxdType
    <2>2. PICK ok \in BOOLEAN : write_effective(ok)
      BY <1>3
    <2>3. fluxd' \in FluxdType
      BY <2>2, <1>a, FluxdEdits DEF write_effective
    <2>4. runfiles' \in SUBSET FileType
      BY <2>1, <2>2 DEF write_effective
    <2> QED BY <2>2, <2>3, <2>4 DEF write_effective
  <1>4. CASE spawn_check
    <2>1. ASSUME NEW n \in Nat, NEW w \in BOOLEAN, NEW c \in {"ok", "failed"}
          PROVE  [NoCheck EXCEPT !.at = "run", !.left = n, !.wedged = w, !.code = c] \in ChkType
      BY DEF NoCheck, ChkType
    <2>2. OutputCap + PipeSize + 1 \in Nat
      BY ProcessAssumption
    <2>3. PICK n \in 0..(OutputCap + PipeSize + 1), w \in BOOLEAN, c \in {"ok", "failed"} :
             chk' = [NoCheck EXCEPT !.at = "run", !.left = n, !.wedged = w, !.code = c]
      BY <1>4 DEF spawn_check
    <2>4. n \in Nat
      BY <2>2
    <2>5. chk' \in ChkType
      BY <2>1, <2>3, <2>4
    <2> QED BY <1>4, <2>5, <1>a, FluxdEdits DEF spawn_check
  <1>5. CASE spawn_check_fails
    BY <1>5, <1>a, FluxdEdits DEF spawn_check_fails, Dropped, Forgotten
  <1>6. CASE drain_check_output
    BY <1>6, Drained DEF drain_check_output
  <1>7. CASE CheckDeadline
    <2>1. drain_output(chk) \in ChkType
      BY Drained
    <2>2. [drain_output(chk) EXCEPT !.at = "exited", !.late = TRUE] \in ChkType
      BY <2>1 DEF ChkType
    <2> QED BY <1>7, <2>2 DEF CheckDeadline
  <1>8. CASE finish_check
    <2>1. drain_output(drain_output(chk)) \in ChkType
      BY Drained
    <2>2. [drain_output(drain_output(chk)) EXCEPT !.at = "none"] \in ChkType
      BY <2>1 DEF ChkType
    <2>3. (IF chk.late THEN "timeout" ELSE chk.code) \in {Nil, "ok", "failed", "timeout"}
      BY DEF ChkType
    <2>4. fluxd' \in FluxdType
      BY <1>8, <2>3, <1>a, FluxdEdits DEF finish_check
    <2>5. runfiles' \in SUBSET FileType
      BY <1>8 DEF finish_check, Forgotten
    <2> QED BY <1>8, <2>2, <2>4, <2>5 DEF finish_check
  <1>9. CASE CheckWrites
    <2>1. chk.left - 1 \in Nat /\ chk.wrote + 1 \in Nat /\ chk.pipe + 1 \in Nat
      BY <1>9 DEF CheckWrites, ChkType
    <2>2. chk' \in ChkType
      BY <1>9, <2>1 DEF CheckWrites, ChkType
    <2> QED BY <1>9, <2>2 DEF CheckWrites
  <1>10. CASE CheckExits
    BY <1>10 DEF CheckExits, ChkType
  <1>11. CASE spawn_returns
    BY <1>11, <1>a, FluxdEdits DEF spawn_returns
  <1>12. CASE probe_starts
    BY <1>12, <1>a, FluxdEdits DEF probe_starts
  <1>13. CASE probe_step
    <2>1. fluxd.seen \in Seq(Nat \cup {Nil}) /\ fluxd.ports \in Port \X Port
             /\ Len(fluxd.seen) + 1 \in 1..4
      BY <1>13 DEF probe_step, Up, ListenInv, KnownInv, FluxdType
    <2>2. bound[expectations(fluxd.ports)[Len(fluxd.seen) + 1]] \in Nat \cup {Nil}
      BY <2>1, ExpectedSockets
    <2>3. Append(fluxd.seen, bound[expectations(fluxd.ports)[Len(fluxd.seen) + 1]])
             \in Seq(Nat \cup {Nil})
      BY <2>1, <2>2
    <2>4. fluxd' \in FluxdType
      BY <1>13, <2>3 DEF probe_step, FluxdType
    <2> QED BY <1>13, <2>4 DEF probe_step
  <1>14. CASE probe_ends
    <2>1. fluxd' \in FluxdType
      <3>1. PICK at \in {"serving", "waiting", "stopping"} :
               fluxd' = [fluxd EXCEPT !.at = at, !.seen = Nil]
        BY <1>14, ProbeEnds
      <3>2. at \in FluxdAt
        BY <1>a, <3>1
      <3> QED BY <3>1, <3>2, FluxdEdits
    <2> QED BY <1>14, <2>1 DEF probe_ends
  <1>15. CASE stop_child
    BY <1>15, <1>a, FluxdEdits DEF stop_child, begin_stop_child
  <1> QED BY <1>1, <1>2, <1>3, <1>4, <1>5, <1>6, <1>7, <1>8, <1>9, <1>10, <1>11, <1>12,
             <1>13, <1>14, <1>15 DEF Daemon_step

\* The end of the daemon's child, of the daemon, or its start keep every kind.
LEMMA LifeTypes ==
    ASSUME ProcInv, fork \/ spawn_fails \/ exit_seen \/ kill_child \/ FluxdDies \/ Restarted
    PROVE  ProcessTypes'
  <1> USE DEF ProcInv, ProcessTypes
  <1>a. {"idle", "drawn", "created", "written", "checking", "accepted", "forked", "waiting",
        "probing", "serving", "stopping", "dead"} \subseteq FluxdAt
    BY DEF FluxdAt, HasFile, HasChild
  <1>0. NoCheck \in ChkType
    BY DEF NoCheck, ChkType
  <1>1. CASE fork
    <2>1. fluxd.life \in Nat /\ fluxd.ports \in (Port \X Port) \cup {Nil} /\ born + 1 \in Nat \ {0}
      BY DEF FluxdType
    <2>2. PICK p \in Pid :
             /\ sys' = [sys EXCEPT ![p] = [id |-> born + 1, of |-> fluxd.life, at |-> "forked",
                                           image |-> "fluxd", ports |-> fluxd.ports]]
             /\ fluxd' = [fluxd EXCEPT !.at = "forked", !.child = [pid |-> p, id |-> born + 1],
                                       !.verdict = Nil]
      BY <1>1 DEF fork
    <2>3. [pid |-> p, id |-> born + 1] \in ChildType
      BY <2>1 DEF ChildType
    <2>4. fluxd' \in FluxdType
      BY <2>2, <2>3, <1>a, FluxdEdits
    <2>5. [id |-> born + 1, of |-> fluxd.life, at |-> "forked", image |-> "fluxd",
           ports |-> fluxd.ports] \in ProcType
      BY <2>1 DEF ProcType
    <2> QED BY <1>0, <1>1, <2>1, <2>2, <2>4, <2>5 DEF fork
  <1>2. CASE spawn_fails \/ exit_seen
    <2>1. fluxd' \in FluxdType
      <3>1. fluxd' = [fluxd EXCEPT !.at = "idle", !.child = Nil, !.seen = Nil, !.killed = FALSE]
        BY <1>2 DEF spawn_fails, exit_seen, Dropped
      <3>2. "idle" \in FluxdAt
        BY <1>a
      <3> QED BY <3>1, <3>2, FluxdEdits
    <2>2. reap /\ Forgotten /\ UNCHANGED <<born, chk>>
      BY <1>2 DEF spawn_fails, exit_seen
    <2>3. sys' \in [Pid -> ProcType \cup {Nil}]
      BY <2>2 DEF reap
    <2>4. bound' \in [Sockets -> Nat \cup {Nil}]
      BY <2>2 DEF reap, Released
    <2> QED BY <2>1, <2>2, <2>3, <2>4 DEF Forgotten
  <1>3. CASE kill_child
    <2>1. PICK p \in Pid : sys[p] # Nil /\ Ended(p)
      BY <1>3 DEF kill_child
    <2> QED BY <1>3, <2>1, EndedTypes, <1>a, FluxdEdits DEF kill_child
  <1>4. CASE FluxdDies
    BY <1>0, <1>4, <1>a, FluxdEdits DEF FluxdDies
  <1>5. CASE Restarted
    <2>1. fluxd.life + 1 \in Nat \ {0}
      BY DEF FluxdType
    <2>2. Booted(fluxd.life + 1) \in FluxdType
      BY <1>a, <2>1 DEF Booted, FluxdType
    <2> QED BY <1>5, <2>2 DEF Restarted, clean_stale_effective
  <1> QED BY <1>1, <1>2, <1>3, <1>4, <1>5

\* So do the processes.
LEMMA ProcessStepTypes ==
    ASSUME ProcInv, Process_step
    PROVE  ProcessTypes'
  <1> USE DEF ProcInv, ProcessTypes
  <1>0. PICK p \in Pid : \/ child_arms(p) \/ child_checks(p) \/ child_execs(p) \/ ChildEnds(p)
                         \/ Stranger(p) \/ StrangerEnds(p)
                         \/ \E s \in Sockets : EngineBinds(p, s) \/ StrangerBinds(p, s)
    BY DEF Process_step
  <1>1. CASE child_arms(p)
    BY <1>1, SysEdits DEF child_arms, Child, Ours, Stage
  <1>2. CASE child_checks(p)
    BY <1>2, SysEdits, EndedTypes DEF child_checks, Child, Ours, Stage
  <1>3. CASE child_execs(p)
    BY <1>3, SysEdits DEF child_execs, Child, Ours
  <1>4. CASE ChildEnds(p)
    BY <1>4, EndedTypes DEF ChildEnds, Child, Ours
  <1>5. CASE StrangerEnds(p)
    BY <1>5, EndedTypes DEF StrangerEnds
  <1>6. CASE Stranger(p)
    <2>1. born + 1 \in Nat \ {0}
      OBVIOUS
    <2>2. [id |-> born + 1, of |-> 0, at |-> "run", image |-> "other", ports |-> Nil] \in ProcType
      BY <2>1 DEF ProcType
    <2> QED BY <1>6, <2>1, <2>2 DEF Stranger
  <1>7. CASE \E s \in Sockets : EngineBinds(p, s) \/ StrangerBinds(p, s)
    <2>1. sys[p] # Nil => sys[p].id \in Nat
      BY SysEdits DEF ProcType
    <2> QED BY <1>7, <2>1 DEF EngineBinds, StrangerBinds, Child, Ours
  <1> QED BY <1>0, <1>1, <1>2, <1>3, <1>4, <1>5, <1>6, <1>7

\* An identity is given once, and a process outlives its parent's check only with the parent.
LEMMA TableStep ==
    ASSUME ProcInv, ProcessNext
    PROVE  TableInv'
  <1> USE DEF ProcInv, ProcessTypes, TableInv, FluxdType, ProcType, ChildType, KnownInv, ChildIsKnown,
              HasChild, HasFile,
             Exited, Process
  <1>1. CASE draw_ports
    BY <1>1, ProcessAssumption DEF draw_ports, Up
  <1>2. CASE create_effective
    BY <1>2, ProcessAssumption DEF create_effective, Up
  <1>3. CASE \E ok \in BOOLEAN : write_effective(ok)
    BY <1>3, ProcessAssumption DEF write_effective, Up
  <1>4. CASE spawn_check
    BY <1>4, ProcessAssumption DEF spawn_check, Up
  <1>5. CASE spawn_check_fails
    BY <1>5, ProcessAssumption DEF spawn_check_fails, Up, Dropped, Forgotten
  <1>6. CASE drain_check_output
    BY <1>6, ProcessAssumption DEF drain_check_output, Up
  <1>7. CASE CheckDeadline
    BY <1>7, ProcessAssumption DEF CheckDeadline, Up, Stuck
  <1>8. CASE finish_check
    BY <1>8, ProcessAssumption DEF finish_check, Up, Forgotten
  <1>9. CASE CheckWrites
    BY <1>9, ProcessAssumption DEF CheckWrites
  <1>10. CASE CheckExits
    BY <1>10, ProcessAssumption DEF CheckExits
  <1>11. CASE fork
    BY <1>11, ProcessAssumption DEF fork, Up
  <1>12. CASE spawn_returns
    BY <1>12, ProcessAssumption DEF spawn_returns, Up
  <1>13. CASE spawn_fails
    BY <1>13, ProcessAssumption DEF spawn_fails, Up, reap, Released, Dropped, Forgotten
  <1>14. CASE exit_seen
    BY <1>14, ProcessAssumption DEF exit_seen, reap, Released, Dropped, Forgotten
  <1>15. CASE probe_starts
    BY <1>15, ProcessAssumption DEF probe_starts, Up, verify_process_identity
  <1>16. CASE probe_step
    BY <1>16, ProcessAssumption DEF probe_step, Up
  <1>17. CASE probe_ends
    <2>1. PICK at \in {"serving", "waiting", "stopping"} :
             fluxd' = [fluxd EXCEPT !.at = at, !.seen = Nil]
      BY <1>17, ProbeEnds
    <2>2. UNCHANGED <<sys, born, chk, runfiles>> /\ Up("probing")
      BY <1>17 DEF probe_ends
    <2> QED BY <2>1, <2>2, ProcessAssumption DEF Up
  <1>18. CASE stop_child
    BY <1>18, ProcessAssumption DEF stop_child, begin_stop_child
  <1>19. CASE kill_child
    BY <1>19, ProcessAssumption DEF kill_child, Up, Ended, Released
  <1>20. CASE FluxdDies
    BY <1>20, ProcessAssumption DEF FluxdDies, Ours
  <1>21. CASE Restarted
    BY <1>21, ProcessAssumption DEF Restarted, Booted, clean_stale_effective
  <1>p. ASSUME NEW p \in Pid,
               \/ child_arms(p) \/ child_checks(p) \/ child_execs(p) \/ ChildEnds(p) \/ Stranger(p)
               \/ StrangerEnds(p) \/ \E s \in Sockets : EngineBinds(p, s) \/ StrangerBinds(p, s)
        PROVE  TableInv'
    <2>22. CASE child_arms(p)
      BY <2>22, ProcessAssumption DEF child_arms, Child, Ours, Stage
    <2>23. CASE child_checks(p)
      <3>1. CASE fluxd.up /\ sys[p].of = fluxd.life
        BY <2>23, <3>1, ProcessAssumption DEF child_checks, Child, Ours, Stage
      <3>2. CASE ~(fluxd.up /\ sys[p].of = fluxd.life)
        BY <2>23, <3>2, ProcessAssumption DEF child_checks, Child, Ours, Ended
      <3> QED BY <3>1, <3>2
    <2>24. CASE child_execs(p)
      BY <2>24, ProcessAssumption DEF child_execs, Child, Ours
    <2>25. CASE ChildEnds(p)
      BY <2>25, ProcessAssumption DEF ChildEnds, Child, Ours, Ended, Released
    <2>26. CASE Stranger(p)
      BY <2>26, ProcessAssumption DEF Stranger
    <2>27. CASE StrangerEnds(p)
      BY <2>27, ProcessAssumption DEF StrangerEnds, Ended, Released
    <2>28. CASE \E s \in Sockets : EngineBinds(p, s) \/ StrangerBinds(p, s)
      BY <2>28, ProcessAssumption DEF EngineBinds, StrangerBinds, Child, Ours
    <2> QED BY <1>p, <2>22, <2>23, <2>24, <2>25, <2>26, <2>27, <2>28
  <1> QED BY <1>p, <1>1, <1>2, <1>3, <1>4, <1>5, <1>6, <1>7, <1>8, <1>9, <1>10, <1>11, <1>12, <1>13,
             <1>14, <1>15, <1>16, <1>17, <1>18, <1>19, <1>20, <1>21 DEF ProcessNext

\* The child the daemon knows is the process it started.
LEMMA KnownStep ==
    ASSUME ProcInv, ProcessNext
    PROVE  KnownInv'
  <1> USE DEF ProcInv, ProcessTypes, KnownInv, TableInv, FluxdType, ProcType, ChildType, HasChild,
              HasFile, Exited, Process,
             ChildIsKnown
  <1>1. CASE draw_ports
    BY <1>1, ProcessAssumption DEF draw_ports, Up
  <1>2. CASE create_effective
    BY <1>2, ProcessAssumption DEF create_effective, Up
  <1>3. CASE \E ok \in BOOLEAN : write_effective(ok)
    BY <1>3, ProcessAssumption DEF write_effective, Up
  <1>4. CASE spawn_check
    BY <1>4, ProcessAssumption DEF spawn_check, Up
  <1>5. CASE spawn_check_fails
    BY <1>5, ProcessAssumption DEF spawn_check_fails, Up, Dropped, Forgotten
  <1>6. CASE drain_check_output
    BY <1>6, ProcessAssumption DEF drain_check_output, Up
  <1>7. CASE CheckDeadline
    BY <1>7, ProcessAssumption DEF CheckDeadline, Up, Stuck
  <1>8. CASE finish_check
    BY <1>8, ProcessAssumption DEF finish_check, Up, Forgotten
  <1>9. CASE CheckWrites
    BY <1>9, ProcessAssumption DEF CheckWrites
  <1>10. CASE CheckExits
    BY <1>10, ProcessAssumption DEF CheckExits
  <1>11. CASE fork
    BY <1>11, ProcessAssumption DEF fork, Up
  <1>12. CASE spawn_returns
    BY <1>12, ProcessAssumption DEF spawn_returns, Up
  <1>13. CASE spawn_fails
    BY <1>13, ProcessAssumption DEF spawn_fails, Up, reap, Released, Dropped, Forgotten
  <1>14. CASE exit_seen
    BY <1>14, ProcessAssumption DEF exit_seen, reap, Released, Dropped, Forgotten
  <1>15. CASE probe_starts
    BY <1>15, ProcessAssumption DEF probe_starts, Up, verify_process_identity
  <1>16. CASE probe_step
    BY <1>16, ProcessAssumption DEF probe_step, Up
  <1>17. CASE probe_ends
    <2>1. PICK at \in {"serving", "waiting", "stopping"} :
             fluxd' = [fluxd EXCEPT !.at = at, !.seen = Nil]
      BY <1>17, ProbeEnds
    <2>2. UNCHANGED <<sys, born, chk, runfiles>> /\ Up("probing")
      BY <1>17 DEF probe_ends
    <2> QED BY <2>1, <2>2, ProcessAssumption DEF Up
  <1>18. CASE stop_child
    BY <1>18, ProcessAssumption DEF stop_child, begin_stop_child
  <1>19. CASE kill_child
    BY SMTT(30), <1>19, ProcessAssumption DEF kill_child, Up, Ended, Released
  <1>20. CASE FluxdDies
    BY <1>20, ProcessAssumption DEF FluxdDies, Ours
  <1>21. CASE Restarted
    BY <1>21, ProcessAssumption DEF Restarted, Booted, clean_stale_effective
  <1>p. ASSUME NEW p \in Pid,
               \/ child_arms(p) \/ child_checks(p) \/ child_execs(p) \/ ChildEnds(p) \/ Stranger(p)
               \/ StrangerEnds(p) \/ \E s \in Sockets : EngineBinds(p, s) \/ StrangerBinds(p, s)
        PROVE  KnownInv'
    <2>22. CASE child_arms(p)
      BY <2>22, ProcessAssumption DEF child_arms, Child, Ours, Stage
    <2>23. CASE child_checks(p)
      BY SMTT(30), <2>23, ProcessAssumption DEF child_checks, Child, Ours, Stage, Ended, Released
    <2>24. CASE child_execs(p)
      BY <2>24, ProcessAssumption DEF child_execs, Child, Ours
    <2>25. CASE ChildEnds(p)
      BY SMTT(30), <2>25, ProcessAssumption DEF ChildEnds, Child, Ours, Ended, Released
    <2>26. CASE Stranger(p)
      BY <2>26, ProcessAssumption DEF Stranger
    <2>27. CASE StrangerEnds(p)
      BY <2>27, ProcessAssumption DEF StrangerEnds, Ended, Released
    <2>28. CASE \E s \in Sockets : EngineBinds(p, s) \/ StrangerBinds(p, s)
      BY <2>28, ProcessAssumption DEF EngineBinds, StrangerBinds, Child, Ours
    <2> QED BY <1>p, <2>22, <2>23, <2>24, <2>25, <2>26, <2>27, <2>28
  <1> QED BY <1>p, <1>1, <1>2, <1>3, <1>4, <1>5, <1>6, <1>7, <1>8, <1>9, <1>10, <1>11, <1>12, <1>13,
             <1>14, <1>15, <1>16, <1>17, <1>18, <1>19, <1>20, <1>21 DEF ProcessNext

\* A listener goes only with the process that has it, and the daemon finds its child a zombie.
LEMMA EndedListens ==
    ASSUME ProcInv, NEW p \in Pid, sys[p] # Nil, Ended(p), UNCHANGED fluxd
    PROVE  ListenInv'
  <1> USE DEF ProcInv, ProcessTypes, KnownInv, TableInv, FluxdType, ProcType, ChildType, HasChild
  <1>1. CASE fluxd.at \notin {"probing", "serving"}
    BY <1>1 DEF ListenInv
  <1>2. CASE fluxd.at \in {"probing", "serving"} /\ fluxd.child.pid = p
    <2>1. sys'[fluxd.child.pid].at = "zombie"
      BY <1>2, ProcessAssumption DEF Ended
    <2> QED BY <1>2, <2>1 DEF ListenInv, Exited, Process
  <1>3. CASE fluxd.at \in {"probing", "serving"} /\ fluxd.child.pid # p
    <2>1. fluxd.child.pid \in Pid /\ fluxd.child.id # sys[p].id /\ fluxd.ports \in Port \X Port
      BY <1>3, ProcessAssumption
    <2>2. sys'[fluxd.child.pid] = sys[fluxd.child.pid]
      BY <1>3, <2>1 DEF Ended
    <2>3. \A i \in 1..4 : Listens(i) => Listens(i)'
      BY <2>1, ExpectedSockets DEF Ended, Released, Listens
    <2> QED BY <1>3, <2>2, <2>3 DEF ListenInv, Exited, Process
  <1> QED BY <1>1, <1>2, <1>3

\* A listener that a dump has shown stays while the child runs.
LEMMA ListenStep ==
    ASSUME ProcInv, ProcessNext
    PROVE  ListenInv'
  <1> USE DEF ProcInv, ProcessTypes, KnownInv, TableInv, ListenInv, Listens, FluxdType, ProcType,
              ChildType, HasChild, HasFile,
             Exited, Process, ChildIsKnown
  <1>1. CASE draw_ports
    BY <1>1, ProcessAssumption, ExpectedSockets DEF draw_ports, Up
  <1>2. CASE create_effective
    BY <1>2, ProcessAssumption, ExpectedSockets DEF create_effective, Up
  <1>3. CASE \E ok \in BOOLEAN : write_effective(ok)
    BY <1>3, ProcessAssumption, ExpectedSockets DEF write_effective, Up
  <1>4. CASE spawn_check
    BY <1>4, ProcessAssumption, ExpectedSockets DEF spawn_check, Up
  <1>5. CASE spawn_check_fails
    BY <1>5, ProcessAssumption, ExpectedSockets DEF spawn_check_fails, Up, Dropped, Forgotten
  <1>6. CASE drain_check_output
    BY <1>6, ProcessAssumption, ExpectedSockets DEF drain_check_output, Up
  <1>7. CASE CheckDeadline
    BY <1>7, ProcessAssumption, ExpectedSockets DEF CheckDeadline, Up, Stuck
  <1>8. CASE finish_check
    BY <1>8, ProcessAssumption, ExpectedSockets DEF finish_check, Up, Forgotten
  <1>9. CASE CheckWrites
    BY <1>9, ProcessAssumption, ExpectedSockets DEF CheckWrites
  <1>10. CASE CheckExits
    BY <1>10, ProcessAssumption, ExpectedSockets DEF CheckExits
  <1>11. CASE fork
    BY <1>11, ProcessAssumption, ExpectedSockets DEF fork, Up
  <1>12. CASE spawn_returns
    BY <1>12, ProcessAssumption, ExpectedSockets DEF spawn_returns, Up
  <1>13. CASE spawn_fails
    BY <1>13, ProcessAssumption, ExpectedSockets DEF spawn_fails, Up, reap, Released, Dropped, Forgotten
  <1>14. CASE exit_seen
    BY <1>14, ProcessAssumption, ExpectedSockets DEF exit_seen, reap, Released, Dropped, Forgotten
  <1>15. CASE probe_starts
    <2>1. fluxd'.seen = <<>> /\ Len(fluxd'.seen) = 0 /\ fluxd'.at = "probing"
      BY <1>15 DEF probe_starts
    <2>2. fluxd'.seen \in Seq(Nat \cup {Nil})
      BY <2>1
    <2> QED BY <2>1, <2>2
  <1>16. CASE probe_step
    <2> DEFINE m == Len(fluxd.seen) + 1
               n == bound[expectations(fluxd.ports)[m]]
    <2>1. /\ fluxd.at = "probing" /\ fluxd.seen \in Seq(Nat \cup {Nil}) /\ m \in 1..4
          /\ fluxd.ports \in Port \X Port /\ ~Exited
      BY <1>16 DEF probe_step, Up
    <2>2. n \in Nat \cup {Nil}
      BY <2>1, ExpectedSockets
    <2>3. /\ fluxd'.seen = Append(fluxd.seen, n) /\ fluxd'.at = "probing"
          /\ fluxd'.child = fluxd.child /\ fluxd'.ports = fluxd.ports /\ UNCHANGED <<sys, bound>>
      BY <1>16 DEF probe_step, Up
    <2> HIDE DEF n
    <2>4. /\ fluxd'.seen \in Seq(Nat \cup {Nil}) /\ Len(fluxd'.seen) = m /\ fluxd'.seen[m] = n
          /\ \A i \in 1..(m - 1) : fluxd'.seen[i] = fluxd.seen[i]
      BY <2>1, <2>2, <2>3
    <2>5. \A i \in 1..m : fluxd'.seen[i] = fluxd.child.id => Listens(i)
      <3>1. ASSUME NEW i \in 1..m, fluxd'.seen[i] = fluxd.child.id
            PROVE  Listens(i)
        <4>1. CASE i = m
          BY <2>4, <3>1, <4>1 DEF n
        <4>2. CASE i # m
          BY <2>1, <2>4, <3>1, <4>2
        <4> QED BY <4>1, <4>2
      <3> QED BY <3>1
    <2> QED BY <2>1, <2>3, <2>4, <2>5
  <1>17. CASE probe_ends
    <2>1. PICK at \in {"serving", "waiting", "stopping"} :
             /\ fluxd' = [fluxd EXCEPT !.at = at, !.seen = Nil]
             /\ at = "serving" => \A i \in 1..4 : sys[fluxd.child.pid].id = fluxd.seen[i]
      BY <1>17, ProbeEnds
    <2>2. /\ fluxd'.at = at /\ fluxd'.ports = fluxd.ports /\ fluxd'.child = fluxd.child
          /\ UNCHANGED <<sys, bound>>
      BY <1>17, <2>1 DEF probe_ends
    <2>3. at = "serving" => \A i \in 1..4 : Listens(i)
      BY <1>17, <2>1 DEF probe_ends, Up
    <2> QED BY <2>1, <2>2, <2>3
  <1>18. CASE stop_child
    BY <1>18, ProcessAssumption, ExpectedSockets DEF stop_child, begin_stop_child
  <1>19. CASE kill_child
    BY <1>19, ProcessAssumption, ExpectedSockets DEF kill_child, Up, Ended, Released
  <1>20. CASE FluxdDies
    BY <1>20, ProcessAssumption, ExpectedSockets DEF FluxdDies, Ours
  <1>21. CASE Restarted
    BY <1>21, ProcessAssumption, ExpectedSockets DEF Restarted, Booted, clean_stale_effective
  <1>p. ASSUME NEW p \in Pid,
               \/ child_arms(p) \/ child_checks(p) \/ child_execs(p) \/ ChildEnds(p) \/ Stranger(p)
               \/ StrangerEnds(p) \/ \E s \in Sockets : EngineBinds(p, s) \/ StrangerBinds(p, s)
        PROVE  ListenInv'
    <2>22. CASE child_arms(p)
      BY SMTT(30), <2>22, ProcessAssumption, ExpectedSockets DEF child_arms, Child, Ours, Stage
    <2>23. CASE child_checks(p)
      <3>1. CASE Stage(p, "checked")
        BY <2>23, <3>1, ProcessAssumption DEF child_checks, Child, Ours, Stage
      <3>2. CASE Ended(p)
        BY <2>23, <3>2, EndedListens DEF child_checks, Child, Ours
      <3> QED BY <2>23, <3>1, <3>2 DEF child_checks
    <2>24. CASE child_execs(p)
      BY <2>24, ProcessAssumption, ExpectedSockets DEF child_execs, Child, Ours
    <2>25. CASE ChildEnds(p)
      BY <2>25, EndedListens DEF ChildEnds, Child, Ours
    <2>26. CASE Stranger(p)
      BY <2>26, ProcessAssumption, ExpectedSockets DEF Stranger
    <2>27. CASE StrangerEnds(p)
      BY <2>27, EndedListens DEF StrangerEnds
    <2>28. CASE \E s \in Sockets : EngineBinds(p, s) \/ StrangerBinds(p, s)
      <3>1. \E s \in Sockets : bound[s] = Nil /\ bound' = [bound EXCEPT ![s] = sys[p].id]
        BY <2>28 DEF EngineBinds, StrangerBinds
      <3>2. UNCHANGED <<sys, fluxd>>
        BY <2>28 DEF EngineBinds, StrangerBinds
      <3>3. \A s \in Sockets : bound[s] # Nil => bound'[s] = bound[s]
        BY <3>1
      <3>4. fluxd.at \in {"probing", "serving"} =>
               fluxd.child.id \in Nat /\ fluxd.child.id # Nil /\ fluxd.ports \in Port \X Port
        BY ProcessAssumption
      <3>5. \A i \in 1..4 : fluxd.at \in {"probing", "serving"} /\ Listens(i) => Listens(i)'
        BY <3>2, <3>3, <3>4, ExpectedSockets
      <3> QED BY <3>2, <3>5
    <2> QED BY <1>p, <2>22, <2>23, <2>24, <2>25, <2>26, <2>27, <2>28
  <1> QED BY <1>p, <1>1, <1>2, <1>3, <1>4, <1>5, <1>6, <1>7, <1>8, <1>9, <1>10, <1>11, <1>12, <1>13,
             <1>14, <1>15, <1>16, <1>17, <1>18, <1>19, <1>20, <1>21 DEF ProcessNext

\* What the check wrote is kept, and its verdict is its own.
LEMMA ChkStep ==
    ASSUME ProcInv, ProcessNext
    PROVE  ChkInv'
  <1> USE DEF ProcInv, ProcessTypes, KnownInv, ChkInv, CheckVerdict, FluxdType, ChkType, NoCheck
  <1>1. CASE draw_ports
    BY <1>1, ProcessAssumption DEF draw_ports, Up
  <1>2. CASE create_effective
    <2>1. UNCHANGED chk /\ fluxd'.verdict = fluxd.verdict /\ fluxd'.at # "checking"
      BY <1>2 DEF create_effective, Up
    <2> QED BY <2>1
  <1>3. CASE \E ok \in BOOLEAN : write_effective(ok)
    BY <1>3, ProcessAssumption DEF write_effective, Up
  <1>4. CASE spawn_check
    BY <1>4, ProcessAssumption DEF spawn_check, Up
  <1>5. CASE spawn_check_fails
    BY <1>5, ProcessAssumption DEF spawn_check_fails, Up, Dropped, Forgotten
  <1>6. CASE drain_check_output
    BY <1>6, Drained DEF drain_check_output, Up
  <1>7. CASE CheckDeadline
    <2>1. chk.wedged
      <3>1. chk.left > 0 => drain_output(chk).pipe < chk.pipe
        BY SMTT(30), <1>7, Drained, ProcessAssumption DEF CheckDeadline, Stuck
      <3>2. drain_output(chk).pipe \in Nat
        BY Drained
      <3>3. chk.left = 0
        BY <1>7, <3>1, <3>2 DEF CheckDeadline, Stuck
      <3> QED BY <1>7, <3>3 DEF CheckDeadline, Stuck
    <2> DEFINE d == drain_output(chk)
    <2>2. /\ d \in ChkType /\ d.wedged = chk.wedged /\ d.wrote = chk.wrote
          /\ d.wrote > 0 => d.captured > 0
      BY Drained
    <2> HIDE DEF d
    <2>3. chk' = [d EXCEPT !.at = "exited", !.late = TRUE] /\ UNCHANGED fluxd /\ fluxd.at = "checking"
      BY <1>7 DEF CheckDeadline, Up, d
    <2> QED BY <2>1, <2>2, <2>3, ProcessAssumption
  <1>8. CASE finish_check
    <2> DEFINE d == drain_output(drain_output(chk))
               v == IF chk.late THEN "timeout" ELSE chk.code
    <2>1. /\ d \in ChkType /\ d.wedged = chk.wedged /\ d.wrote = chk.wrote /\ d.late = chk.late
          /\ d.code = chk.code /\ (d.wrote > 0 => d.captured > 0)
      <3> DEFINE e == drain_output(chk)
      <3>1. /\ e \in ChkType /\ e.wedged = chk.wedged /\ e.wrote = chk.wrote /\ e.late = chk.late
            /\ e.code = chk.code /\ (e.wrote > 0 => e.captured > 0)
        BY Drained
      <3> HIDE DEF e
      <3> QED BY <3>1, Drained DEF e
    <2> HIDE DEF d
    <2>2. /\ chk' = [d EXCEPT !.at = "none"]
          /\ fluxd'.verdict = v /\ fluxd'.at # "checking"
      BY <1>8 DEF finish_check, Up, d
    <2>3. /\ chk'.wedged = d.wedged /\ chk'.wrote = d.wrote /\ chk'.late = d.late /\ chk'.code = d.code
          /\ chk'.at = "none" /\ chk'.captured = d.captured
      BY <2>1, <2>2
    <2> QED BY <2>1, <2>2, <2>3, ProcessAssumption
  <1>9. CASE CheckWrites
    BY <1>9, ProcessAssumption DEF CheckWrites
  <1>10. CASE CheckExits
    BY <1>10, ProcessAssumption DEF CheckExits
  <1>11. CASE fork
    BY <1>11, ProcessAssumption DEF fork, Up
  <1>12. CASE spawn_returns
    BY <1>12, ProcessAssumption DEF spawn_returns, Up
  <1>13. CASE spawn_fails
    BY <1>13, ProcessAssumption DEF spawn_fails, Up, reap, Released, Dropped, Forgotten
  <1>14. CASE exit_seen
    BY <1>14, ProcessAssumption DEF exit_seen, reap, Released, Dropped, Forgotten
  <1>15. CASE probe_starts
    BY <1>15, ProcessAssumption DEF probe_starts, Up, verify_process_identity
  <1>16. CASE probe_step
    BY <1>16, ProcessAssumption DEF probe_step, Up
  <1>17. CASE probe_ends
    <2>1. PICK at \in {"serving", "waiting", "stopping"} :
             fluxd' = [fluxd EXCEPT !.at = at, !.seen = Nil]
      BY <1>17, ProbeEnds
    <2>2. UNCHANGED <<sys, born, chk, runfiles>> /\ Up("probing")
      BY <1>17 DEF probe_ends
    <2> QED BY <2>1, <2>2, ProcessAssumption DEF Up
  <1>18. CASE stop_child
    BY <1>18, ProcessAssumption DEF stop_child, begin_stop_child
  <1>19. CASE kill_child
    BY <1>19, ProcessAssumption DEF kill_child, Up, Ended, Released
  <1>20. CASE FluxdDies
    BY <1>20, ProcessAssumption DEF FluxdDies, Ours
  <1>21. CASE Restarted
    BY <1>21, ProcessAssumption DEF Restarted, Booted, clean_stale_effective
  <1>p. ASSUME NEW p \in Pid,
               \/ child_arms(p) \/ child_checks(p) \/ child_execs(p) \/ ChildEnds(p) \/ Stranger(p)
               \/ StrangerEnds(p) \/ \E s \in Sockets : EngineBinds(p, s) \/ StrangerBinds(p, s)
        PROVE  ChkInv'
    <2>22. CASE child_arms(p)
      BY <2>22, ProcessAssumption DEF child_arms, Child, Ours, Stage
    <2>23. CASE child_checks(p)
      BY <2>23, ProcessAssumption DEF child_checks, Child, Ours, Stage, Ended, Released
    <2>24. CASE child_execs(p)
      BY <2>24, ProcessAssumption DEF child_execs, Child, Ours
    <2>25. CASE ChildEnds(p)
      BY <2>25, ProcessAssumption DEF ChildEnds, Child, Ours, Ended, Released
    <2>26. CASE Stranger(p)
      BY <2>26, ProcessAssumption DEF Stranger
    <2>27. CASE StrangerEnds(p)
      BY <2>27, ProcessAssumption DEF StrangerEnds, Ended, Released
    <2>28. CASE \E s \in Sockets : EngineBinds(p, s) \/ StrangerBinds(p, s)
      BY <2>28, ProcessAssumption DEF EngineBinds, StrangerBinds, Child, Ours
    <2> QED BY <1>p, <2>22, <2>23, <2>24, <2>25, <2>26, <2>27, <2>28
  <1> QED BY <1>p, <1>1, <1>2, <1>3, <1>4, <1>5, <1>6, <1>7, <1>8, <1>9, <1>10, <1>11, <1>12, <1>13,
             <1>14, <1>15, <1>16, <1>17, <1>18, <1>19, <1>20, <1>21 DEF ProcessNext

\* The daemon has one file, the one of its generation.
LEMMA RunFileStep ==
    ASSUME ProcInv, ProcessNext
    PROVE  RunFileInv'
  <1> USE DEF ProcInv, ProcessTypes, KnownInv, RunFileInv, FluxdType, FileType, HasChild, HasFile
  <1>1. CASE draw_ports
    BY <1>1, ProcessAssumption DEF draw_ports, Up
  <1>2. CASE create_effective
    BY <1>2, ProcessAssumption DEF create_effective, Up
  <1>3. CASE \E ok \in BOOLEAN : write_effective(ok)
    BY <1>3, ProcessAssumption DEF write_effective, Up
  <1>4. CASE spawn_check
    BY <1>4, ProcessAssumption DEF spawn_check, Up
  <1>5. CASE spawn_check_fails
    BY <1>5, ProcessAssumption DEF spawn_check_fails, Up, Dropped, Forgotten
  <1>6. CASE drain_check_output
    BY <1>6, ProcessAssumption DEF drain_check_output, Up
  <1>7. CASE CheckDeadline
    BY <1>7, ProcessAssumption DEF CheckDeadline, Up, Stuck
  <1>8. CASE finish_check
    BY <1>8, ProcessAssumption DEF finish_check, Up, Forgotten
  <1>9. CASE CheckWrites
    BY <1>9, ProcessAssumption DEF CheckWrites
  <1>10. CASE CheckExits
    BY <1>10, ProcessAssumption DEF CheckExits
  <1>11. CASE fork
    BY <1>11, ProcessAssumption DEF fork, Up
  <1>12. CASE spawn_returns
    BY <1>12, ProcessAssumption DEF spawn_returns, Up
  <1>13. CASE spawn_fails
    BY <1>13, ProcessAssumption DEF spawn_fails, Up, reap, Released, Dropped, Forgotten
  <1>14. CASE exit_seen
    BY <1>14, ProcessAssumption DEF exit_seen, reap, Released, Dropped, Forgotten
  <1>15. CASE probe_starts
    BY <1>15, ProcessAssumption DEF probe_starts, Up, verify_process_identity
  <1>16. CASE probe_step
    BY <1>16, ProcessAssumption DEF probe_step, Up
  <1>17. CASE probe_ends
    <2>1. PICK at \in {"serving", "waiting", "stopping"} :
             fluxd' = [fluxd EXCEPT !.at = at, !.seen = Nil]
      BY <1>17, ProbeEnds
    <2>2. UNCHANGED <<sys, born, chk, runfiles>> /\ Up("probing")
      BY <1>17 DEF probe_ends
    <2> QED BY <2>1, <2>2, ProcessAssumption DEF Up
  <1>18. CASE stop_child
    BY <1>18, ProcessAssumption DEF stop_child, begin_stop_child
  <1>19. CASE kill_child
    BY <1>19, ProcessAssumption DEF kill_child, Up, Ended, Released
  <1>20. CASE FluxdDies
    BY <1>20, ProcessAssumption DEF FluxdDies, Ours
  <1>21. CASE Restarted
    BY <1>21, ProcessAssumption DEF Restarted, Booted, clean_stale_effective
  <1>p. ASSUME NEW p \in Pid,
               \/ child_arms(p) \/ child_checks(p) \/ child_execs(p) \/ ChildEnds(p) \/ Stranger(p)
               \/ StrangerEnds(p) \/ \E s \in Sockets : EngineBinds(p, s) \/ StrangerBinds(p, s)
        PROVE  RunFileInv'
    <2>22. CASE child_arms(p)
      BY <2>22, ProcessAssumption DEF child_arms, Child, Ours, Stage
    <2>23. CASE child_checks(p)
      BY <2>23, ProcessAssumption DEF child_checks, Child, Ours, Stage, Ended, Released
    <2>24. CASE child_execs(p)
      BY <2>24, ProcessAssumption DEF child_execs, Child, Ours
    <2>25. CASE ChildEnds(p)
      BY <2>25, ProcessAssumption DEF ChildEnds, Child, Ours, Ended, Released
    <2>26. CASE Stranger(p)
      BY <2>26, ProcessAssumption DEF Stranger
    <2>27. CASE StrangerEnds(p)
      BY <2>27, ProcessAssumption DEF StrangerEnds, Ended, Released
    <2>28. CASE \E s \in Sockets : EngineBinds(p, s) \/ StrangerBinds(p, s)
      BY <2>28, ProcessAssumption DEF EngineBinds, StrangerBinds, Child, Ours
    <2> QED BY <1>p, <2>22, <2>23, <2>24, <2>25, <2>26, <2>27, <2>28
  <1> QED BY <1>p, <1>1, <1>2, <1>3, <1>4, <1>5, <1>6, <1>7, <1>8, <1>9, <1>10, <1>11, <1>12, <1>13,
             <1>14, <1>15, <1>16, <1>17, <1>18, <1>19, <1>20, <1>21 DEF ProcessNext

\* An engine is known, its listeners and its file are its own, and a process whose parent
\* is gone never gets to run the engine.
LEMMA ProcInvSuffices ==
    ASSUME ProcInv
    PROVE  ProcessesAreOurs /\ GenerationIsOurs
  <1> USE DEF ProcInv, ProcessTypes, FluxdType, ProcType, ChildType
  <1>1. OrphanNeverServes
    BY DEF OrphanNeverServes, TableInv
  <1>2. PidIsOurs /\ ChildIsKnown
    BY DEF PidIsOurs, Process, KnownInv
  <1>3. EffectiveIsOurs
    <2>1. Up("drawn") => \A f \in runfiles : f[1] = fluxd.gen => f[2] = "foreign"
      BY DEF RunFileInv, Up, HasFile, HasChild, FileType
    <2>2. fluxd.at \in HasFile => <<fluxd.gen, "whole">> \in runfiles
      BY DEF RunFileInv
    <2>3. fluxd.at \in HasFile => <<fluxd.gen, "partial">> \notin runfiles
      BY DEF RunFileInv, KnownInv, HasFile, HasChild
    <2> QED BY <2>1, <2>2, <2>3 DEF EffectiveIsOurs, HasFile, HasChild
  <1>4. CheckVerdict
    BY DEF ChkInv
  <1>5. ReadyIsOurs
    BY DEF ReadyIsOurs, ListenInv, Listens, Up
  <1> QED BY <1>1, <1>2, <1>3, <1>4, <1>5 DEF ProcessesAreOurs, GenerationIsOurs

\* The invariant of the processes holds from the boot on, whatever an earlier daemon left.
LEMMA ProcessInvariance == ProcessSpec => []ProcInv
  <1>1. (\E old \in SUBSET FileType : ProcessStart(old)) => ProcInv
    <2> SUFFICES ASSUME NEW old \in SUBSET FileType, ProcessStart(old)
                 PROVE  ProcInv
      OBVIOUS
    <2> USE DEF ProcessStart, Booted, NoCheck
    <2>1. ProcessTypes
      <3>1. /\ sys \in [Pid -> ProcType \cup {Nil}] /\ bound \in [Sockets -> Nat \cup {Nil}]
            /\ born \in Nat /\ runfiles \in SUBSET FileType
        BY DEF clean_stale_effective
      <3>2. fluxd \in FluxdType
        BY DEF FluxdType, FluxdAt
      <3>3. chk \in ChkType
        BY DEF ChkType
      <3> QED BY <3>1, <3>2, <3>3 DEF ProcessTypes
    <2>2. TableInv
      BY DEF TableInv
    <2>3. KnownInv
      BY DEF KnownInv, ChildIsKnown, HasChild
    <2>4. ListenInv
      BY DEF ListenInv
    <2>5. ChkInv
      BY ProcessAssumption DEF ChkInv, CheckVerdict
    <2>6. RunFileInv
      BY DEF RunFileInv, HasFile, HasChild, clean_stale_effective
    <2> QED BY <2>1, <2>2, <2>3, <2>4, <2>5, <2>6 DEF ProcInv
  <1>2. ProcInv /\ [ProcessNext]_procvars => ProcInv'
    <2>1. ASSUME ProcInv, ProcessNext
          PROVE  ProcInv'
      <3>1. ProcessTypes'
        BY <2>1, DaemonTypes, LifeTypes, ProcessStepTypes DEF ProcessNext, Daemon_step, Process_step
      <3> QED BY <2>1, <3>1, TableStep, KnownStep, ListenStep, ChkStep, RunFileStep DEF ProcInv
    <2>2. ASSUME ProcInv, UNCHANGED procvars
          PROVE  ProcInv'
      <3> USE <2>2 DEF procvars, ProcInv
      <3>1. ProcessTypes' /\ TableInv'
        BY DEF ProcessTypes, TableInv
      <3>2. KnownInv' /\ RunFileInv'
        BY DEF KnownInv, ChildIsKnown, RunFileInv
      <3>3. ListenInv' /\ ChkInv'
        BY DEF ListenInv, Exited, Process, Listens, ChkInv, CheckVerdict
      <3> QED BY <3>1, <3>2, <3>3
    <2> QED BY <2>1, <2>2
  <1> QED BY <1>1, <1>2, PTL DEF ProcessSpec

\* spawn, reap, the stops, PR_SET_PDEATHSIG and the second look at the parent: whatever pids are
\* used again and whenever fluxd dies, no engine runs without the daemon that started it, and the
\* daemon's pid is its child's as long as it has one.
THEOREM ProcessesAreKnown == ProcessSpec => []ProcessesAreOurs
  <1>1. ProcInv => ProcessesAreOurs
    BY ProcInvSuffices
  <1> QED BY <1>1, ProcessInvariance, PTL

\* write_effective, EngineCheck and verify_listener_inodes: the generation that is promoted was
\* written completely, judged by its own check however much that wrote, and holds its own ports
\* although other programs bind them between the four dumps.
THEOREM GenerationsAreKnown == ProcessSpec => []GenerationIsOurs
  <1>1. ProcInv => GenerationIsOurs
    BY ProcInvSuffices
  <1> QED BY <1>1, ProcessInvariance, PTL

-----------------------------------------------------------------------------
(* The table of selected UIDs *)

Slots == 0..(SLOT_MAX - 1)

\* The types, and what every slot and every count can be.
UidType ==
    /\ uid_n \in 0..SLOT_MAX /\ uid_sorted \in [Slots -> ever \cup {0}]
    /\ tmp \in [n : 0..SLOT_MAX, at : [Slots -> ever \cup {0}]]
    /\ stores \in [zero : BOOLEAN, slots : SUBSET Slots, count : BOOLEAN]
    /\ listed \subseteq ever /\ ever \subseteq Nat \ {0, OVERFLOWUID} /\ sets \in Nat
    /\ spc \in [Cpu -> {"loop", "yes", "no"}] /\ suid \in [Cpu -> Nat]
    /\ lo \in [Cpu -> Nat] /\ hi \in [Cpu -> Nat] /\ clean \in [Cpu -> BOOLEAN]

\* The table that is being stored, or that the last ioctl has stored.
Pending == stores.count \/ stores.slots # {}
Memory ==
    /\ Pending => /\ Increasing(tmp.at, tmp.n) /\ listed = {tmp.at[i] : i \in 0..(tmp.n - 1)}
                  /\ \A i \in 0..(tmp.n - 1) : i \in stores.slots \/ uid_sorted[i] = tmp.at[i]
                  /\ stores.slots \subseteq 0..(tmp.n - 1)
                  /\ ~stores.count => uid_n = tmp.n /\ ~stores.zero
    /\ stores.zero /\ ~Pending => listed = {}
    /\ Quiet => Increasing(uid_sorted, uid_n) /\ listed = {uid_sorted[i] : i \in 0..(uid_n - 1)}

Window(c) ==
    /\ spc[c] = "loop" => lo[c] <= hi[c] /\ hi[c] <= SLOT_MAX /\ suid[c] \notin {0, OVERFLOWUID}
    /\ clean[c] => Quiet
    /\ clean[c] /\ spc[c] = "loop" =>
          /\ hi[c] <= uid_n
          /\ \A i \in 0..(uid_n - 1) : (i < lo[c] => uid_sorted[i] < suid[c])
                                     /\ (i >= hi[c] => uid_sorted[i] > suid[c])

UidInv == UidType /\ Memory /\ (\A c \in Cpu : Window(c)) /\ SearchExact /\ NeverUnlisted

\* The module is loaded with an empty table.
LEMMA InitUid == UidStart => UidInv
<1> SUFFICES ASSUME UidStart PROVE UidInv
  OBVIOUS
<1> USE UidAssumption DEF UidStart, Slots
<1>1. UidType
  BY DEF UidType
<1>2. Memory
  BY DEF Memory, Pending, Quiet, Increasing
<1>3. \A c \in Cpu : Window(c)
  BY DEF Window
<1>4. SearchExact /\ NeverUnlisted
  BY DEF SearchExact, NeverUnlisted
<1> QED BY <1>1, <1>2, <1>3, <1>4 DEF UidInv

\* An ioctl ends what was clean, and changes no search.
LEMMA UncleanKeeps ==
    ASSUME UidInv, clean' = [c \in Cpu |-> FALSE], UNCHANGED <<spc, suid, lo, hi>>, ever \subseteq ever'
    PROVE  (\A c \in Cpu : Window(c)') /\ SearchExact' /\ NeverUnlisted'
BY DEF UidInv, Window, SearchExact, NeverUnlisted

\* While stores are pending no search is clean.
LEMMA StoreKeeps ==
    ASSUME UidInv, ~Quiet, UNCHANGED <<listed, ever, searchvars>>
    PROVE  (\A c \in Cpu : Window(c)') /\ SearchExact' /\ NeverUnlisted'
<1>1. \A c \in Cpu : ~clean[c] /\ clean' = clean
  BY DEF UidInv, Window, searchvars
<1> QED BY <1>1 DEF UidInv, Window, SearchExact, NeverUnlisted, searchvars

\* The middle of a window that is not empty is inside it.
LEMMA MiddleInside ==
    ASSUME NEW a \in Nat, NEW b \in Nat, a < b
    PROVE  a + (b - a) \div 2 \in Nat /\ a <= a + (b - a) \div 2 /\ a + (b - a) \div 2 < b
OBVIOUS

\* fluxrs_set_uids prepares an increasing table of the UIDs it takes from the request.
LEMMA SetKeeps == ASSUME UidInv, NEW r \in Requests, set_uids(r) PROVE UidInv'
<1> USE UidAssumption DEF Slots
<1>1. PICK n \in 0..Len(r) : \E t \in [0..(n - 1) -> Taken(r)] :
          /\ Increasing(t, n) /\ \A u \in Taken(r) : \E i \in 0..(n - 1) : t[i] = u
          /\ tmp' = [n |-> n, at |-> [i \in 0..(SLOT_MAX - 1) |-> IF i < n THEN t[i] ELSE 0]]
          /\ stores' = [zero |-> TRUE, slots |-> 0..(n - 1), count |-> TRUE]
  BY DEF set_uids
<1>2. PICK t \in [0..(n - 1) -> Taken(r)] :
          /\ Increasing(t, n) /\ \A u \in Taken(r) : \E i \in 0..(n - 1) : t[i] = u
          /\ tmp' = [n |-> n, at |-> [i \in 0..(SLOT_MAX - 1) |-> IF i < n THEN t[i] ELSE 0]]
          /\ stores' = [zero |-> TRUE, slots |-> 0..(n - 1), count |-> TRUE]
  BY <1>1
<1>3. /\ Len(r) <= SLOT_MAX /\ Len(r) \in Nat /\ sets' = sets + 1 /\ listed' = Taken(r)
      /\ ever' = ever \cup Taken(r) /\ clean' = [c \in Cpu |-> FALSE]
      /\ UNCHANGED <<uid_n, uid_sorted, spc, suid, lo, hi>>
  BY DEF set_uids
<1>4. n \in 0..SLOT_MAX /\ 0..(n - 1) \subseteq Slots
  BY <1>3
<1>5. Taken(r) \subseteq Nat \ {0, OVERFLOWUID}
  <2>1. r \in Seq(AnyUid)
    OBVIOUS
  <2>2. \A i \in 1..Len(r) : r[i] \in AnyUid
    BY <2>1
  <2> QED BY <2>2 DEF Taken
<1>6. \A i \in 0..(n - 1) : tmp'.at[i] = t[i] /\ t[i] \in Taken(r)
  BY <1>2, <1>4
<1>7. UidType'
  <2>1. tmp' \in [n : 0..SLOT_MAX, at : [Slots -> ever' \cup {0}]]
    BY <1>2, <1>3, <1>4
  <2>2. uid_sorted' \in [Slots -> ever' \cup {0}]
    BY <1>3 DEF UidInv, UidType
  <2>3. stores' \in [zero : BOOLEAN, slots : SUBSET Slots, count : BOOLEAN]
    BY <1>2, <1>4
  <2>4. listed' \subseteq ever' /\ ever' \subseteq Nat \ {0, OVERFLOWUID} /\ sets' \in Nat
    <3>1. ever \subseteq Nat \ {0, OVERFLOWUID} /\ sets \in Nat
      BY DEF UidInv, UidType
    <3>2. listed' \subseteq ever'
      BY <1>3, Zenon
    <3>3. ever' \subseteq Nat \ {0, OVERFLOWUID}
      BY <1>3, <1>5, <3>1, Zenon
    <3>4. sets' \in Nat
      BY <1>3, <3>1
    <3> QED BY <3>2, <3>3, <3>4
  <2>5. clean' \in [Cpu -> BOOLEAN]
    BY <1>3
  <2>6. UNCHANGED <<uid_n, spc, suid, lo, hi>>
    BY <1>3
  <2> QED BY <2>1, <2>2, <2>3, <2>4, <2>5, <2>6 DEF UidInv, UidType
<1>8. Memory'
  <2>1. Increasing(tmp.at, tmp.n)'
    BY ZenonT(30), <1>2, <1>6 DEF Increasing
  <2>2. listed' = {tmp'.at[i] : i \in 0..(tmp'.n - 1)}
    <3>1. tmp'.n = n
      BY <1>2
    <3>2. \A u \in Taken(r) : \E i \in 0..(n - 1) : tmp'.at[i] = u
      BY <1>2, <1>6
    <3> QED BY <1>3, <1>6, <3>1, <3>2
  <2>3. stores'.count /\ stores'.zero /\ stores'.slots = 0..(tmp'.n - 1)
    BY <1>2
  <2> QED BY <2>1, <2>2, <2>3 DEF Memory, Pending, Quiet
<1> QED BY <1>3, <1>7, <1>8, UncleanKeeps DEF UidInv

\* fluxrs_clear_uids.
LEMMA ClearKeeps == ASSUME UidInv, clear_uids PROVE UidInv'
<1>1. /\ sets' = sets + 1 /\ listed' = {} /\ stores' = [zero |-> TRUE, slots |-> {}, count |-> FALSE]
      /\ clean' = [c \in Cpu |-> FALSE] /\ UNCHANGED <<uid_n, uid_sorted, tmp, ever, spc, suid, lo, hi>>
  BY DEF clear_uids
<1>2. UidType'
  BY <1>1 DEF UidInv, UidType
<1>3. Memory'
  BY <1>1 DEF Memory, Pending, Quiet
<1> QED BY <1>1, <1>2, <1>3, UncleanKeeps DEF UidInv

\* A store that becomes visible, in whatever order, brings the memory nearer to the new table.
LEMMA VisibleKeeps ==
    ASSUME UidInv, StoreZero \/ StoreCount \/ \E i \in stores.slots : StoreSlot(i)
    PROVE  UidInv'
<1> USE UidAssumption DEF Slots
<1>0. UidType /\ Memory
  BY DEF UidInv
<1>1. CASE StoreZero
  <2>1. /\ stores.zero /\ uid_n' = 0 /\ stores' = [stores EXCEPT !.zero = FALSE]
        /\ UNCHANGED <<uid_sorted, tmp, listed, ever, sets, searchvars>>
    BY <1>1 DEF StoreZero
  <2>2. UidType'
    <3>1. stores' \in [zero : BOOLEAN, slots : SUBSET Slots, count : BOOLEAN]
      BY <1>0, <2>1 DEF UidType
    <3>2. uid_n' \in 0..SLOT_MAX
      BY <2>1
    <3> QED BY <1>0, <2>1, <3>1, <3>2 DEF UidType, searchvars
  <2>3. /\ stores'.slots = stores.slots /\ stores'.count = stores.count /\ ~stores'.zero
    BY <1>0, <2>1 DEF UidType
  <2>4. Memory'
    <3>1. CASE Pending
      BY <1>0, <2>1, <2>3, <3>1 DEF Memory, Pending, Quiet
    <3>2. CASE ~Pending
      BY <1>0, <2>1, <2>3, <3>2 DEF Memory, Pending, Quiet, Increasing
    <3> QED BY <3>1, <3>2
  <2> QED BY <2>1, <2>2, <2>4, StoreKeeps DEF UidInv, Quiet
<1>2. CASE StoreCount
  <2>1. /\ stores.count /\ ~stores.zero /\ uid_n' = tmp.n /\ stores' = [stores EXCEPT !.count = FALSE]
        /\ UNCHANGED <<uid_sorted, tmp, listed, ever, sets, searchvars>>
    BY <1>2 DEF StoreCount
  <2>2. UidType'
    BY <1>0, <2>1 DEF UidType, searchvars
  <2>3. stores'.slots = stores.slots /\ ~stores'.count /\ ~stores'.zero
    BY <1>0, <2>1 DEF UidType
  <2>4. /\ Increasing(tmp.at, tmp.n) /\ listed = {tmp.at[i] : i \in 0..(tmp.n - 1)}
        /\ \A i \in 0..(tmp.n - 1) : i \in stores.slots \/ uid_sorted[i] = tmp.at[i]
        /\ stores.slots \subseteq 0..(tmp.n - 1)
    BY <1>0, <2>1 DEF Memory, Pending
  <2>5. Memory'
    BY <2>1, <2>3, <2>4 DEF Memory, Pending, Quiet, Increasing
  <2> QED BY <2>1, <2>2, <2>5, StoreKeeps DEF UidInv, Quiet
<1>3. ASSUME NEW k \in stores.slots, StoreSlot(k) PROVE UidInv'
  <2>1. /\ uid_sorted' = [uid_sorted EXCEPT ![k] = tmp.at[k]] /\ stores' = [stores EXCEPT !.slots = @ \ {k}]
        /\ UNCHANGED <<uid_n, tmp, listed, ever, sets, searchvars>>
    BY <1>3 DEF StoreSlot
  <2>2. k \in Slots /\ tmp.at[k] \in ever \cup {0}
    BY <1>0, <1>3 DEF UidType
  <2>3. UidType'
    BY <1>0, <2>1, <2>2 DEF UidType, searchvars
  <2>4. stores'.slots = stores.slots \ {k} /\ stores'.count = stores.count /\ stores'.zero = stores.zero
    BY <1>0, <2>1 DEF UidType
  <2>5. /\ Increasing(tmp.at, tmp.n) /\ listed = {tmp.at[i] : i \in 0..(tmp.n - 1)}
        /\ \A i \in 0..(tmp.n - 1) : i \in stores.slots \/ uid_sorted[i] = tmp.at[i]
        /\ stores.slots \subseteq 0..(tmp.n - 1)
        /\ ~stores.count => uid_n = tmp.n /\ ~stores.zero
    BY <1>0, <1>3 DEF Memory, Pending
  <2>6. \A i \in Slots : uid_sorted'[i] = IF i = k THEN tmp.at[k] ELSE uid_sorted[i]
    BY <1>0, <2>1 DEF UidType
  <2>7. 0..(tmp.n - 1) \subseteq Slots
    BY <1>0 DEF UidType
  <2>8. \A i \in 0..(tmp.n - 1) : i \in stores'.slots \/ uid_sorted'[i] = tmp.at[i]
    BY <2>4, <2>5, <2>6, <2>7
  <2>9. Memory'
    BY <2>1, <2>4, <2>5, <2>8 DEF Memory, Pending, Quiet, Increasing
  <2> QED BY <1>3, <2>1, <2>3, <2>9, StoreKeeps DEF UidInv, Quiet
<1> QED BY <1>1, <1>2, <1>3

\* A step of a search leaves the table as it is.
LEMMA TableFrame == ASSUME UidInv, UNCHANGED tablevars PROVE Memory' /\ (Quiet <=> Quiet')
<1>1. /\ uid_n' = uid_n /\ uid_sorted' = uid_sorted /\ tmp' = tmp /\ stores' = stores /\ listed' = listed
  BY DEF tablevars
<1> QED BY <1>1 DEF UidInv, Memory, Pending, Quiet, Increasing

\* Every slot is a number, and the first uid_n are slots.
LEMMA SlotTypes ==
    ASSUME UidType
    PROVE  /\ \A i \in Slots : uid_sorted[i] \in ever \cup {0} /\ uid_sorted[i] \in Nat
           /\ uid_n \in Nat /\ uid_n <= SLOT_MAX /\ 0..(uid_n - 1) \subseteq Slots
<1>1. \A i \in Slots : uid_sorted[i] \in ever \cup {0}
  BY DEF UidType
<1>2. ever \cup {0} \subseteq Nat
  BY DEF UidType
<1>3. uid_n \in Nat /\ uid_n <= SLOT_MAX /\ 0..(uid_n - 1) \subseteq Slots
  BY UidAssumption DEF UidType, Slots
<1> QED BY <1>1, <1>2, <1>3

\* A search that begins reads the count: everything is still possible.
LEMMA BeginKeeps ==
    ASSUME UidInv, NEW c \in Cpu, NEW u \in AnyUid, search_begins(c, u)
    PROVE  UidInv'
<1> USE UidAssumption
<1>0. UidType /\ Memory
  BY DEF UidInv
<1>1. /\ suid' = [suid EXCEPT ![c] = u] /\ clean' = [clean EXCEPT ![c] = Quiet]
      /\ spc' = [spc EXCEPT ![c] = IF u \in {0, OVERFLOWUID} THEN "no" ELSE "loop"]
      /\ lo' = [lo EXCEPT ![c] = 0] /\ hi' = [hi EXCEPT ![c] = uid_n] /\ UNCHANGED tablevars
  BY DEF search_begins
<1>2. UNCHANGED <<uid_n, uid_sorted, tmp, stores, listed, ever, sets>>
  BY <1>1 DEF tablevars
<1>3. UidType'
  <2>1. Quiet \in BOOLEAN
    BY DEF Quiet
  <2>2. clean' \in [Cpu -> BOOLEAN] /\ spc' \in [Cpu -> {"loop", "yes", "no"}]
    BY <1>0, <1>1, <2>1 DEF UidType
  <2>3. suid' \in [Cpu -> Nat] /\ lo' \in [Cpu -> Nat] /\ hi' \in [Cpu -> Nat]
    BY <1>0, <1>1 DEF UidType
  <2> QED BY <1>0, <1>2, <2>2, <2>3 DEF UidType
<1>4. Memory' /\ (Quiet <=> Quiet')
  BY <1>1, TableFrame
<1>5. ASSUME NEW d \in Cpu, d # c PROVE /\ spc'[d] = spc[d] /\ suid'[d] = suid[d] /\ lo'[d] = lo[d]
                                       /\ hi'[d] = hi[d] /\ clean'[d] = clean[d]
  BY <1>0, <1>1, <1>5 DEF UidType
<1>6. /\ suid'[c] = u /\ clean'[c] = Quiet /\ lo'[c] = 0 /\ hi'[c] = uid_n
      /\ spc'[c] = IF u \in {0, OVERFLOWUID} THEN "no" ELSE "loop"
  BY <1>0, <1>1 DEF UidType
<1>7. \A d \in Cpu : Window(d)'
  <2>1. Window(c)'
    BY <1>0, <1>2, <1>4, <1>6 DEF Window, UidType
  <2>2. ASSUME NEW d \in Cpu, d # c PROVE Window(d)'
    BY <1>2, <1>4, <1>5, <2>2 DEF UidInv, Window
  <2> QED BY <2>1, <2>2
<1>8. SearchExact'
  BY <1>0, <1>2, <1>5, <1>6 DEF UidInv, UidType, SearchExact
<1>9. NeverUnlisted'
  BY <1>0, <1>2, <1>5, <1>6 DEF UidInv, UidType, NeverUnlisted
<1> QED BY <1>3, <1>4, <1>7, <1>8, <1>9 DEF UidInv

\* One turn: in a table that is not being rewritten the middle entry excludes its half.
LEMMA TurnKeeps == ASSUME UidInv, NEW c \in Cpu, search_turns(c) PROVE UidInv'
<1> USE UidAssumption
<1>0. UidType /\ Memory /\ Window(c)
  BY DEF UidInv
<1> DEFINE m == Middle(c)
<1>1. spc[c] = "loop" /\ lo[c] < hi[c] /\ UNCHANGED <<suid, clean, tablevars>>
  BY DEF search_turns
<1>2. UNCHANGED <<uid_n, uid_sorted, tmp, stores, listed, ever, sets>>
  BY <1>1 DEF tablevars
<1>3. m \in Nat /\ lo[c] <= m /\ m < hi[c] /\ hi[c] <= SLOT_MAX /\ m \in Slots /\ hi[c] \in Nat /\ lo[c] \in Nat
  <2>1. lo[c] \in Nat /\ hi[c] \in Nat /\ hi[c] <= SLOT_MAX
    BY <1>0, <1>1 DEF UidType, Window
  <2>2. m \in Nat /\ lo[c] <= m /\ m < hi[c]
    BY <1>1, <2>1, MiddleInside DEF Middle
  <2> QED BY <2>1, <2>2 DEF Slots
<1>4. uid_sorted[m] \in ever \cup {0} /\ uid_sorted[m] \in Nat /\ suid[c] \in Nat \ {0, OVERFLOWUID}
  <2>1. uid_sorted[m] \in ever \cup {0} /\ uid_sorted[m] \in Nat
    BY <1>0, <1>3, SlotTypes
  <2>2. suid[c] \in Nat
    BY <1>0 DEF UidType
  <2>3. suid[c] \notin {0, OVERFLOWUID}
    BY <1>0, <1>1 DEF Window
  <2> QED BY <2>1, <2>2, <2>3
<1>5. Memory' /\ (Quiet <=> Quiet')
  BY <1>1, TableFrame
<1>6. clean[c] => /\ Increasing(uid_sorted, uid_n) /\ listed = {uid_sorted[i] : i \in 0..(uid_n - 1)}
                  /\ hi[c] <= uid_n /\ uid_n \in Nat
                  /\ \A i \in 0..(uid_n - 1) : uid_sorted[i] \in Nat
  <2> SUFFICES ASSUME clean[c]
               PROVE  /\ Increasing(uid_sorted, uid_n) /\ listed = {uid_sorted[i] : i \in 0..(uid_n - 1)}
                      /\ hi[c] <= uid_n /\ uid_n \in Nat
                      /\ \A i \in 0..(uid_n - 1) : uid_sorted[i] \in Nat
    OBVIOUS
  <2>1. Quiet /\ hi[c] <= uid_n
    BY <1>0, <1>1 DEF Window
  <2>2. Increasing(uid_sorted, uid_n) /\ listed = {uid_sorted[i] : i \in 0..(uid_n - 1)}
    BY <1>0, <2>1 DEF Memory
  <2>3. uid_n \in Nat /\ \A i \in 0..(uid_n - 1) : uid_sorted[i] \in Nat
    BY <1>0, SlotTypes
  <2> QED BY <2>1, <2>2, <2>3
<1>7. CASE uid_sorted[m] = suid[c] /\ spc' = [spc EXCEPT ![c] = "yes"] /\ UNCHANGED <<lo, hi>>
  <2>1. spc'[c] = "yes" /\ \A d \in Cpu : d # c => spc'[d] = spc[d]
    BY <1>0, <1>7 DEF UidType
  <2>2. UidType'
    BY <1>0, <1>1, <1>2, <1>7 DEF UidType
  <2>3. \A d \in Cpu : Window(d)'
    BY <1>1, <1>2, <1>5, <1>7, <2>1 DEF UidInv, Window
  <2>4. clean[c] => suid[c] \in listed
    <3>1. clean[c] => m \in 0..(uid_n - 1)
      BY <1>3, <1>6
    <3> QED BY <1>6, <1>7, <3>1
  <2>5. SearchExact'
    BY <1>1, <1>2, <1>7, <2>1, <2>4 DEF UidInv, SearchExact
  <2>6. NeverUnlisted'
    BY <1>1, <1>2, <1>4, <1>7, <2>1 DEF UidInv, NeverUnlisted
  <2> QED BY <1>5, <2>2, <2>3, <2>5, <2>6 DEF UidInv
<1>8. CASE uid_sorted[m] < suid[c] /\ lo' = [lo EXCEPT ![c] = m + 1] /\ UNCHANGED <<spc, hi>>
  <2>1. lo'[c] = m + 1 /\ \A d \in Cpu : d # c => lo'[d] = lo[d]
    BY <1>0, <1>8 DEF UidType
  <2>2. UidType'
    BY <1>0, <1>1, <1>2, <1>3, <1>8 DEF UidType
  <2>3. clean[c] => \A i \in 0..(uid_n - 1) : i < m + 1 => uid_sorted[i] < suid[c]
    <3>1. ASSUME clean[c], NEW i \in 0..(uid_n - 1), i < m + 1 PROVE uid_sorted[i] < suid[c]
      <4>1. m \in 0..(uid_n - 1) /\ (i = m \/ i < m)
        BY <1>3, <1>6, <3>1
      <4>2. uid_sorted[i] <= uid_sorted[m]
        BY <1>4, <1>6, <3>1, <4>1 DEF Increasing
      <4> QED BY <1>4, <1>6, <1>8, <3>1, <4>2
    <3> QED BY <3>1
  <2>4. Window(c)'
    BY <1>0, <1>1, <1>2, <1>3, <1>5, <1>8, <2>1, <2>3 DEF Window, UidType
  <2>5. \A d \in Cpu : Window(d)'
    BY <1>1, <1>2, <1>5, <1>8, <2>1, <2>4 DEF UidInv, Window
  <2>6. SearchExact' /\ NeverUnlisted'
    <3>1. lo'[c] <= hi'[c] /\ hi'[c] <= SLOT_MAX
      BY <1>3, <1>8, <2>1
    <3>2. SearchExact'
      BY <1>1, <1>2, <1>8 DEF UidInv, SearchExact
    <3> QED BY <1>1, <1>2, <1>8, <2>1, <3>1, <3>2 DEF UidInv, NeverUnlisted
  <2> QED BY <1>5, <2>2, <2>5, <2>6 DEF UidInv
<1>9. CASE uid_sorted[m] > suid[c] /\ hi' = [hi EXCEPT ![c] = m] /\ UNCHANGED <<spc, lo>>
  <2>1. hi'[c] = m /\ \A d \in Cpu : d # c => hi'[d] = hi[d]
    BY <1>0, <1>9 DEF UidType
  <2>2. UidType'
    BY <1>0, <1>1, <1>2, <1>3, <1>9 DEF UidType
  <2>3. clean[c] => \A i \in 0..(uid_n - 1) : i >= m => uid_sorted[i] > suid[c]
    <3>1. ASSUME clean[c], NEW i \in 0..(uid_n - 1), i >= m PROVE uid_sorted[i] > suid[c]
      <4>1. m \in 0..(uid_n - 1) /\ (i = m \/ m < i)
        BY <1>3, <1>6, <3>1
      <4>2. uid_sorted[m] <= uid_sorted[i]
        BY <1>4, <1>6, <3>1, <4>1 DEF Increasing
      <4> QED BY <1>4, <1>6, <1>9, <3>1, <4>2
    <3> QED BY <3>1
  <2>4. Window(c)'
    BY <1>0, <1>1, <1>2, <1>3, <1>5, <1>6, <1>9, <2>1, <2>3 DEF Window, UidType
  <2>5. \A d \in Cpu : Window(d)'
    BY <1>1, <1>2, <1>5, <1>9, <2>1, <2>4 DEF UidInv, Window
  <2>6. SearchExact' /\ NeverUnlisted'
    BY <1>0, <1>1, <1>2, <1>3, <1>9, <2>1 DEF UidInv, UidType, SearchExact, NeverUnlisted
  <2> QED BY <1>5, <2>2, <2>5, <2>6 DEF UidInv
<1> QED BY <1>7, <1>8, <1>9 DEF search_turns

\* An empty window of a table that is not being rewritten leaves no entry for the UID.
LEMMA MissKeeps == ASSUME UidInv, NEW c \in Cpu, search_misses(c) PROVE UidInv'
<1> USE UidAssumption
<1>0. UidType /\ Memory /\ Window(c)
  BY DEF UidInv
<1>1. /\ spc[c] = "loop" /\ lo[c] >= hi[c] /\ spc' = [spc EXCEPT ![c] = "no"]
      /\ UNCHANGED <<suid, lo, hi, clean, tablevars>>
  BY DEF search_misses
<1>2. UNCHANGED <<uid_n, uid_sorted, tmp, stores, listed, ever, sets>>
  BY <1>1 DEF tablevars
<1>3. Memory' /\ (Quiet <=> Quiet')
  BY <1>1, TableFrame
<1>4. spc'[c] = "no" /\ \A d \in Cpu : d # c => spc'[d] = spc[d]
  BY <1>0, <1>1 DEF UidType
<1>5. UidType'
  BY <1>0, <1>1, <1>2 DEF UidType
<1>6. \A d \in Cpu : Window(d)'
  BY <1>1, <1>2, <1>3, <1>4 DEF UidInv, Window
<1>7. clean[c] => suid[c] \notin listed
  <2> SUFFICES ASSUME clean[c], NEW i \in 0..(uid_n - 1) PROVE uid_sorted[i] # suid[c]
    BY <1>0, <1>1 DEF Memory, Window
  <2>1. i < lo[c] \/ i >= hi[c]
    BY <1>0, <1>1 DEF UidType
  <2>2. uid_sorted[i] \in Nat /\ suid[c] \in Nat
    BY <1>0, SlotTypes DEF UidType
  <2> QED BY <1>0, <1>1, <2>1, <2>2 DEF Window
<1>8. SearchExact'
  BY <1>1, <1>2, <1>4, <1>7 DEF UidInv, SearchExact
<1>9. NeverUnlisted'
  BY <1>1, <1>2, <1>4 DEF UidInv, NeverUnlisted
<1> QED BY <1>3, <1>5, <1>6, <1>8, <1>9 DEF UidInv

\* The inductive invariant of the table and its searches.
THEOREM UidInvariance == UidSpec => []UidInv
<1>1. ASSUME UidInv, [UidNext]_uidvars PROVE UidInv'
  <2>1. CASE UidNext
    BY <1>1, <2>1, SetKeeps, ClearKeeps, VisibleKeeps, BeginKeeps, TurnKeeps, MissKeeps DEF UidNext
  <2>2. CASE UNCHANGED uidvars
    <3>1. UNCHANGED tablevars /\ UNCHANGED searchvars
      BY <2>2 DEF uidvars
    <3>2. /\ UNCHANGED <<uid_n, uid_sorted, tmp, stores, listed, ever, sets>>
          /\ UNCHANGED <<spc, suid, lo, hi, clean>>
      BY <3>1 DEF tablevars, searchvars
    <3>3. Memory' /\ (Quiet <=> Quiet')
      BY <1>1, <3>1, TableFrame
    <3>4. UidType'
      BY <1>1, <3>2 DEF UidInv, UidType
    <3>5. (\A c \in Cpu : Window(c)') /\ SearchExact' /\ NeverUnlisted'
      BY <1>1, <3>2, <3>3 DEF UidInv, Window, SearchExact, NeverUnlisted
    <3> QED BY <3>3, <3>4, <3>5 DEF UidInv
  <2> QED BY <1>1, <2>1, <2>2
<1> QED BY <1>1, InitUid, PTL DEF UidSpec

\* A search that no ioctl overlaps is membership in the last request, for tables of any size.
THEOREM SearchIsExact == UidSpec => []SearchExact
<1>1. UidInv => SearchExact
  BY DEF UidInv
<1> QED BY <1>1, UidInvariance, PTL

\* Any search stays inside the array and matches only what some request listed.
THEOREM SearchIsSafe == UidSpec => []NeverUnlisted
<1>1. UidInv => NeverUnlisted
  BY DEF UidInv
<1> QED BY <1>1, UidInvariance, PTL

\* Both, in every order in which the stores of an ioctl become visible.
THEOREM SearchSoundness == UidSpec => []SearchIsSound
<1>1. UidInv => SearchIsSound
  BY DEF UidInv, SearchIsSound
<1> QED BY <1>1, UidInvariance, PTL
=============================================================================
