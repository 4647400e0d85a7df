------------------------------ MODULE Process ------------------------------
(***************************************************************************)
(* The engine as an operating system process (engine.rs): its generation   *)
(* file, the check that reads it, the ports, fork and exec, the identity   *)
(* of the child, the proof that it listens, and its end.  Reactor has the  *)
(* transaction that calls these operations; here they meet the kernel's    *)
(* process table, in which a pid is used again once it has been reaped,    *)
(* other programs that bind the same ports, and the death of fluxd between *)
(* any two steps.                                                          *)
(*                                                                         *)
(* A process has an identity (id) that is never used again: it stands for  *)
(* the pidfd and for the start time of /proc/<pid>/stat.  A socket is      *)
(* named by <<protocol, family, port>>, and its inode by the identity of   *)
(* the process that bound it.                                              *)
(***************************************************************************)
EXTENDS Values

CONSTANTS
    Pid,        \* process numbers
    Port,       \* LISTEN_PORT_MIN .. LISTEN_PORT_MAX
    MaxBorn,    \* bound: processes there ever are
    MaxLife,    \* bound: starts of fluxd
    MaxGen,     \* bound: generations of one fluxd
    PipeSize,   \* what a pipe holds, in reads of 4096 bytes
    OutputCap,  \* OUTPUT_CAP, in reads
    ReadBudget  \* OUTPUT_READ_BUDGET

VARIABLES
    sys,        \* the process table
    bound,      \* the listening sockets
    born,       \* identities given out
    fluxd,      \* the daemon
    chk,        \* the check process and what was read of it
    runfiles    \* run/sing-box.<generation>.json

procvars == <<sys, bound, born, fluxd, chk, runfiles>>

\* A process, a child as the daemon knows it, and a pair of ports.
ProcType == [id : Nat \ {0}, of : Nat, at : {"forked", "armed", "checked", "run", "zombie"},
             image : {"fluxd", "sing-box", "other"}, ports : (Port \X Port) \cup {Nil}]
ChildType == [pid : Pid, id : Nat \ {0}]

\* Nil is none of the values it is told from; a pipe and the reads of one turn are not empty.
ASSUME ProcessAssumption ==
    /\ Nil \notin Nat \cup ProcType \cup ChildType \cup (Port \X Port) \cup {"ok", "failed", "timeout"}
    /\ {PipeSize, OutputCap, ReadBudget} \subseteq Nat \ {0}

Sockets == {"tcp", "udp"} \X {4, 6} \X Port
NoCheck == [at |-> "none", left |-> 0, wrote |-> 0, pipe |-> 0, captured |-> 0, wedged |-> FALSE,
            code |-> Nil, late |-> FALSE]

\* EngineSpec::expectations: a TCP and a UDP socket of each family.
expectations(p) == <<<<"tcp", 4, p[1]>>, <<"udp", 4, p[1]>>, <<"tcp", 6, p[2]>>, <<"udp", 6, p[2]>>>>

\* Mutant of clean_stale_effective: a half-written file is not recognised.
clean_stale_effective_Whole(f) == {g \in f : g[2] # "whole"}

\* Layout::clean_stale_effective: what an earlier daemon left goes, its names come round again; a
\* link or a file of somebody else stays.
clean_stale_effective(f) == {g \in f : g[2] = "foreign"}

\* Reactor::new after the instance lock: generations start at 1 in every life.
Booted(n) == [life |-> n, up |-> TRUE, at |-> "idle", gen |-> 0, ports |-> Nil, child |-> Nil,
              seen |-> Nil, killed |-> FALSE, verdict |-> Nil]

Least(S) == CHOOSE n \in S : \A m \in S : n <= m

ProcessStart(old) ==
    /\ sys = [p \in Pid |-> Nil] /\ bound = [s \in Sockets |-> Nil] /\ born = 0
    /\ fluxd = Booted(1) /\ chk = NoCheck /\ runfiles = clean_stale_effective(old)

----------------------------------------------------------------------------
\* The kernel.

Up(at) == fluxd.up /\ fluxd.at = at
Ours(p) == sys[p] # Nil /\ sys[p].of # 0
Released(id) == [s \in Sockets |-> IF bound[s] = id THEN Nil ELSE bound[s]]

\* A process ends: a living parent finds a zombie, init reaps it at once.
Ended(p) ==
    /\ sys' = [sys EXCEPT ![p] = IF fluxd.up /\ @.of = fluxd.life THEN [@ EXCEPT !.at = "zombie"] ELSE Nil]
    /\ bound' = Released(sys[p].id)

\* Any program may run, bind a socket the engine is about to bind, and end; what it does
\* before the check is over it may as well do then.
Stranger(p) ==
    /\ fluxd.at \notin {"drawn", "created", "written", "checking"} /\ sys[p] = Nil /\ born < MaxBorn /\ born' = born + 1
    /\ sys' = [sys EXCEPT ![p] = [id |-> born + 1, of |-> 0, at |-> "run", image |-> "other", ports |-> Nil]]
    /\ UNCHANGED <<bound, fluxd, chk, runfiles>>
StrangerBinds(p, s) ==
    /\ sys[p] # Nil /\ sys[p].image = "other" /\ \A t \in Sockets : bound[t] # sys[p].id
    /\ bound[s] = Nil
    /\ fluxd.at \notin {"drawn", "created", "written", "checking"}
    /\ fluxd.ports # Nil /\ \E i \in 1..4 : s = expectations(fluxd.ports)[i]
    /\ bound' = [bound EXCEPT ![s] = sys[p].id]
    /\ UNCHANGED <<sys, born, fluxd, chk, runfiles>>
StrangerEnds(p) ==
    /\ sys[p] # Nil /\ sys[p].image = "other" /\ Ended(p)
    /\ UNCHANGED <<born, fluxd, chk, runfiles>>

\* SIGKILL of fluxd, or its crash: PR_SET_PDEATHSIG kills the children that have set it.  The
\* check process has not, and runs on by itself.
FluxdDies ==
    /\ fluxd.up /\ fluxd' = [fluxd EXCEPT !.up = FALSE, !.at = "dead", !.child = Nil, !.verdict = Nil]
    /\ LET doomed == {p \in Pid : Ours(p) /\ sys[p].at # "forked"} IN
       /\ sys' = [p \in Pid |-> IF p \in doomed THEN Nil ELSE sys[p]]
       /\ bound' = [s \in Sockets |-> IF \E p \in doomed : sys[p].id = bound[s] THEN Nil ELSE bound[s]]
    /\ chk' = NoCheck /\ UNCHANGED <<born, runfiles>>

Restarted ==
    /\ ~fluxd.up /\ fluxd.life < MaxLife /\ fluxd' = Booted(fluxd.life + 1)
    /\ runfiles' = clean_stale_effective(runfiles) /\ UNCHANGED <<sys, bound, born, chk>>

----------------------------------------------------------------------------
\* Candidate: ports, file, check.

\* PortReservation::bind on the wildcard address; the one of IPv6 also claims the port for IPv4.
Reservable4(p) == \A proto \in {"tcp", "udp"} : bound[<<proto, 4, p>>] = Nil
Reservable6(p) == Reservable4(p) /\ \A proto \in {"tcp", "udp"} : bound[<<proto, 6, p>>] = Nil

\* draw_ports: both pairs were free, and the reservations are gone when the engine binds.
draw_ports ==
    /\ Up("idle") /\ fluxd.gen < MaxGen
    /\ \E p4, p6 \in Port : /\ p4 # p6 /\ Reservable4(p4) /\ Reservable6(p6)
                            /\ fluxd' = [fluxd EXCEPT !.at = "drawn", !.gen = @ + 1, !.ports = <<p4, p6>>,
                                                       !.verdict = Nil]
    /\ chk' = NoCheck /\ UNCHANGED <<sys, bound, born, runfiles>>

\* write_effective: O_EXCL, so a name that is taken is refused; then written and synced, or removed.
create_effective ==
    /\ Up("drawn")
    /\ IF \E f \in runfiles : f[1] = fluxd.gen
       THEN fluxd' = [fluxd EXCEPT !.at = "idle"] /\ UNCHANGED runfiles
       ELSE fluxd' = [fluxd EXCEPT !.at = "created"] /\ runfiles' = runfiles \cup {<<fluxd.gen, "partial">>}
    /\ UNCHANGED <<sys, bound, born, chk>>

write_effective(ok) ==
    /\ Up("created")
    /\ fluxd' = [fluxd EXCEPT !.at = IF ok THEN "written" ELSE "idle"]
    /\ runfiles' = (runfiles \ {<<fluxd.gen, "partial">>}) \cup (IF ok THEN {<<fluxd.gen, "whole">>} ELSE {})
    /\ UNCHANGED <<sys, bound, born, chk>>

\* The candidate is dropped, and the reactor deletes its file.
Dropped == fluxd' = [fluxd EXCEPT !.at = "idle", !.child = Nil, !.seen = Nil, !.killed = FALSE]
Forgotten == runfiles' = runfiles \ {<<fluxd.gen, "whole">>}

\* spawn_check; what the process will write and say is not known yet.
spawn_check ==
    /\ Up("written")
    /\ \E n \in 0..(OutputCap + PipeSize + 1), w \in BOOLEAN, c \in {"ok", "failed"} :
         chk' = [NoCheck EXCEPT !.at = "run", !.left = n, !.wedged = w, !.code = c]
    /\ fluxd' = [fluxd EXCEPT !.at = "checking", !.verdict = Nil]
    /\ UNCHANGED <<sys, bound, born, runfiles>>

spawn_check_fails ==
    /\ Up("written") /\ Dropped /\ Forgotten /\ UNCHANGED <<sys, bound, born, chk>>

\* The check process writes, waits for room in the pipe, and exits unless it is wedged.
CheckWrites ==
    /\ chk.at = "run" /\ chk.left > 0 /\ chk.pipe < PipeSize
    /\ chk' = [chk EXCEPT !.left = @ - 1, !.wrote = @ + 1, !.pipe = @ + 1]
    /\ UNCHANGED <<sys, bound, born, fluxd, runfiles>>

CheckExits ==
    /\ chk.at = "run" /\ chk.left = 0 /\ ~chk.wedged /\ chk' = [chk EXCEPT !.at = "exited"]
    /\ UNCHANGED <<sys, bound, born, fluxd, runfiles>>

\* Mutant of drain_output: nothing is read once enough has been kept.
drain_output_Stops(c) ==
    LET n == Least({c.pipe, ReadBudget, OutputCap - c.captured}) IN
    [c EXCEPT !.pipe = @ - n, !.captured = @ + n]

\* EngineCheck::drain_output: a bounded number of reads; what is over the cap is read and dropped.
drain_output(c) ==
    LET n == Least({c.pipe, ReadBudget}) IN
    [c EXCEPT !.pipe = @ - n, !.captured = Least({OutputCap, @ + n})]

\* drain_check_output, when the pipe is readable.
drain_check_output ==
    /\ Up("checking") /\ chk.pipe > 0 /\ chk' = drain_output(chk)
    /\ UNCHANGED <<sys, bound, born, fluxd, runfiles>>

\* The check makes no progress by itself: CHECK_DEADLINE is long enough for one that does.
Stuck ==
    /\ chk.at = "run"
    /\ chk.left > 0 => chk.pipe = PipeSize /\ drain_output(chk).pipe = PipeSize
    /\ chk.left = 0 => chk.wedged

\* CHECK_DEADLINE: timeout_error keeps what was read, kill ends the process; finish reaps it.
CheckDeadline ==
    /\ Up("checking") /\ Stuck /\ chk' = [drain_output(chk) EXCEPT !.at = "exited", !.late = TRUE]
    /\ UNCHANGED <<sys, bound, born, fluxd, runfiles>>

\* EngineCheck::finish, complete_check: drained, reaped, drained again.
finish_check ==
    /\ Up("checking") /\ chk.at = "exited"
    /\ LET v == IF chk.late THEN "timeout" ELSE chk.code IN
       /\ chk' = [drain_output(drain_output(chk)) EXCEPT !.at = "none"]
       /\ fluxd' = [fluxd EXCEPT !.at = IF v = "ok" THEN "accepted" ELSE "idle", !.verdict = v]
       /\ IF v = "ok" THEN UNCHANGED runfiles ELSE Forgotten
    /\ UNCHANGED <<sys, bound, born>>
----------------------------------------------------------------------------
\* spawn: the child's side.  "armed" has set PR_SET_PDEATHSIG, "checked" has seen its parent.

Child(p, at) == Ours(p) /\ sys[p].at = at
Stage(p, at) == sys' = [sys EXCEPT ![p].at = at] /\ UNCHANGED bound

child_arms(p) == Child(p, "forked") /\ Stage(p, "armed") /\ UNCHANGED <<born, fluxd, chk, runfiles>>

\* Mutant of child_checks: the parent is not looked at again.
child_checks_Trusts(p) == Child(p, "armed") /\ Stage(p, "checked") /\ UNCHANGED <<born, fluxd, chk, runfiles>>

\* getppid() after PR_SET_PDEATHSIG: a parent that died before it sends no signal.
child_checks(p) ==
    /\ Child(p, "armed")
    /\ IF fluxd.up /\ sys[p].of = fluxd.life THEN Stage(p, "checked") ELSE Ended(p)
    /\ UNCHANGED <<born, fluxd, chk, runfiles>>

child_execs(p) ==
    /\ Child(p, "checked") /\ sys' = [sys EXCEPT ![p].at = "run", ![p].image = "sing-box"]
    /\ UNCHANGED <<bound, born, fluxd, chk, runfiles>>

\* report_exec_failure, a signal, a failed bind, or the engine's own end.
ChildEnds(p) ==
    /\ \E at \in {"forked", "armed", "checked", "run"} : Child(p, at)
    /\ Ended(p) /\ UNCHANGED <<born, fluxd, chk, runfiles>>

EngineBinds(p, s) ==
    /\ Child(p, "run") /\ bound[s] = Nil /\ \E i \in 1..4 : s = expectations(sys[p].ports)[i]
    /\ bound' = [bound EXCEPT ![s] = sys[p].id] /\ UNCHANGED <<sys, born, fluxd, chk, runfiles>>

----------------------------------------------------------------------------
\* spawn: the parent's side, readiness, and the end.

Process == sys[fluxd.child.pid]
Exited == Process.at = "zombie"

\* reap: waitpid frees the pid; the child and its file are forgotten in the same step.
reap == sys' = [sys EXCEPT ![fluxd.child.pid] = Nil] /\ bound' = Released(Process.id)

fork ==
    /\ Up("accepted") /\ born < MaxBorn /\ born' = born + 1
    /\ \E p \in Pid :
         /\ sys[p] = Nil
         /\ sys' = [sys EXCEPT ![p] = [id |-> born', of |-> fluxd.life, at |-> "forked", image |-> "fluxd",
                                       ports |-> fluxd.ports]]
         /\ fluxd' = [fluxd EXCEPT !.at = "forked", !.child = [pid |-> p, id |-> born'], !.verdict = Nil]
    /\ chk' = NoCheck /\ UNCHANGED <<bound, runfiles>>

\* pidfd_open and proc_start_time of a child that still lives.
spawn_returns ==
    /\ Up("forked") /\ ~Exited /\ fluxd' = [fluxd EXCEPT !.at = "waiting"]
    /\ UNCHANGED <<sys, bound, born, chk, runfiles>>

\* Mutant of spawn_fails: the error is returned and the child left to itself.
spawn_fails_Leaves ==
    /\ Up("forked") /\ Dropped /\ Forgotten /\ UNCHANGED <<sys, bound, born, chk>>

\* No pidfd, or no start time: killed and reaped before the error is returned.
spawn_fails == Up("forked") /\ reap /\ Dropped /\ Forgotten /\ UNCHANGED <<born, chk>>

\* begin_stop: SIGTERM through the pidfd.
begin_stop_child == fluxd' = [fluxd EXCEPT !.at = "stopping", !.seen = Nil]

\* verify_process_identity: the pid is still this start time, and exec has happened.
verify_process_identity == Process.id = fluxd.child.id /\ Process.image = "sing-box"

\* finish_waiting_exit, handle_engine_exit, complete_stopped: has_exited, then terminate reaps.
exit_seen ==
    /\ fluxd.up /\ fluxd.at \in {"waiting", "probing", "serving", "stopping"} /\ Exited
    /\ reap /\ Dropped /\ Forgotten /\ UNCHANGED <<born, chk>>

\* advance_waiting starts a dump only for the verified engine; until then it waits.
probe_starts ==
    /\ Up("waiting") /\ ~Exited /\ verify_process_identity
    /\ fluxd' = [fluxd EXCEPT !.at = "probing", !.seen = <<>>]
    /\ UNCHANGED <<sys, bound, born, chk, runfiles>>

\* ProbeReady: one dump after the other.
probe_step ==
    /\ Up("probing") /\ ~Exited /\ Len(fluxd.seen) < 4
    /\ fluxd' = [fluxd EXCEPT !.seen = Append(@, bound[expectations(fluxd.ports)[Len(@) + 1]])]
    /\ UNCHANGED <<sys, bound, born, chk, runfiles>>

\* pid_owns_inode: /proc/<pid>/fd holds the socket.
pid_owns_inode(p, inode) == sys[p] # Nil /\ sys[p].at = "run" /\ sys[p].id = inode

\* Mutant of verify_listener_inodes: four sockets on the right addresses are enough.
verify_listener_inodes_Present(inodes) == IF Nil \in {inodes[i] : i \in 1..4} THEN "pending" ELSE "ready"

verify_listener_inodes(inodes) ==
    LET found == {inodes[i] : i \in 1..4} \ {Nil}
        alien == \E n \in found : ~pid_owns_inode(fluxd.child.pid, n)
    IN  CASE alien -> "mismatch"
          [] ~alien /\ Nil \in {inodes[i] : i \in 1..4} -> "pending"
          [] OTHER -> "ready"

\* handle_sock_diag with the last answer: promoted, rearmed, or SocketOwnerMismatch.
probe_ends ==
    /\ Up("probing") /\ ~Exited /\ Len(fluxd.seen) = 4
    /\ LET readiness == verify_listener_inodes(fluxd.seen) IN
       CASE readiness = "ready" -> fluxd' = [fluxd EXCEPT !.at = "serving", !.seen = Nil]
         [] readiness = "pending" -> fluxd' = [fluxd EXCEPT !.at = "waiting", !.seen = Nil]
         [] readiness = "mismatch" -> begin_stop_child
    /\ UNCHANGED <<sys, bound, born, chk, runfiles>>

\* READY_DEADLINE, a cancelled transaction, a switch to another generation or a disable.
stop_child ==
    /\ fluxd.up /\ fluxd.at \in {"waiting", "probing", "serving"} /\ ~Exited /\ begin_stop_child
    /\ UNCHANGED <<sys, bound, born, chk, runfiles>>

\* Mutant of kill_child: it is reaped with the signal, and waited for once more.
kill_child_Reaps ==
    /\ Up("stopping") /\ ~fluxd.killed /\ ~Exited /\ reap /\ fluxd' = [fluxd EXCEPT !.killed = TRUE]
    /\ UNCHANGED <<born, chk, runfiles>>

\* TERMINATE_GRACE: pidfd_kill(SIGKILL) reaches the process the pidfd was opened for.
kill_child ==
    /\ Up("stopping") /\ ~fluxd.killed /\ ~Exited /\ fluxd' = [fluxd EXCEPT !.killed = TRUE]
    /\ \E p \in Pid : sys[p] # Nil /\ sys[p].id = fluxd.child.id /\ Ended(p)
    /\ UNCHANGED <<born, chk, runfiles>>

ProcessNext ==
    \/ draw_ports \/ create_effective \/ \E ok \in BOOLEAN : write_effective(ok)
    \/ spawn_check \/ spawn_check_fails \/ drain_check_output \/ CheckDeadline \/ finish_check
    \/ CheckWrites \/ CheckExits
    \/ fork \/ spawn_returns \/ spawn_fails \/ exit_seen
    \/ probe_starts \/ probe_step \/ probe_ends \/ stop_child \/ kill_child
    \/ FluxdDies \/ Restarted
    \/ \E p \in Pid : \/ child_arms(p) \/ child_checks(p) \/ child_execs(p) \/ ChildEnds(p)
                       \/ Stranger(p) \/ StrangerEnds(p)
                       \/ \E s \in Sockets : EngineBinds(p, s) \/ StrangerBinds(p, s)

----------------------------------------------------------------------------
\* PR_SET_PDEATHSIG and the second look at the parent: an engine runs only under the fluxd that
\* started it, whenever that fluxd dies, so none contends for the ports of the next one.
OrphanNeverServes ==
    \A p \in Pid : sys[p] # Nil /\ sys[p].image = "sing-box" => fluxd.up /\ sys[p].of = fluxd.life

\* What EngineChild promises of its pid: as long as the daemon has a child, the number it asks
\* /proc and waitpid about is that child's and nobody else's.
PidIsOurs == fluxd.up /\ fluxd.child # Nil => Process # Nil /\ Process.id = fluxd.child.id

\* Every path out of spawn and of a stop: a process this fluxd started, zombies included, is the
\* one child it supervises, so none is lost and two never run.
ChildIsKnown ==
    \A p \in Pid : fluxd.up /\ sys[p] # Nil /\ sys[p].of = fluxd.life =>
                     fluxd.child # Nil /\ fluxd.child.pid = p

\* verify_listener_inodes: a promoted engine that runs holds all four listeners itself, although
\* its ports were free only when they were drawn and the four dumps are not one snapshot.
ReadyIsOurs ==
    Up("serving") /\ ~Exited =>
        \A i \in 1..4 : bound[expectations(fluxd.ports)[i]] = fluxd.child.id

\* EngineCheck: the verdict is the one of the process however much it writes; only one that is
\* wedged is called late, and a refusal that came with output is reported with its beginning.
CheckVerdict ==
    /\ fluxd.verdict = "timeout" => chk.wedged
    /\ fluxd.verdict \in {"ok", "failed"} => fluxd.verdict = chk.code
    /\ fluxd.verdict \in {"failed", "timeout"} /\ chk.wrote > 0 => chk.captured > 0

\* write_effective and clean_stale_effective: no file a killed daemon left, complete or not, stands
\* in the way of the new one, and what is checked and run was written completely.
EffectiveIsOurs ==
    /\ Up("drawn") => \A f \in runfiles : f[1] = fluxd.gen => f[2] = "foreign"
    /\ fluxd.at \in {"written", "checking", "accepted", "forked", "waiting", "probing", "serving"} =>
         <<fluxd.gen, "whole">> \in runfiles /\ <<fluxd.gen, "partial">> \notin runfiles

\* spawn, reap and the stops: processes and their numbers are not confused, lost or orphaned.
ProcessesAreOurs == OrphanNeverServes /\ PidIsOurs /\ ChildIsKnown

\* write_effective, EngineCheck and the readiness probe: the generation that is promoted was
\* written, judged and bound as the daemon believes.
GenerationIsOurs == EffectiveIsOurs /\ CheckVerdict /\ ReadyIsOurs
=============================================================================
