------------------------------- MODULE Reactor ------------------------------
(***************************************************************************)
(* The reactor of fluxd (crates/fluxd/src/reactor.rs) with the parts of    *)
(* dataplane/platform.rs and engine.rs that it calls: the single-threaded  *)
(* event loop that turns the disable switch, the configuration, Wi-Fi,     *)
(* topology, timers, control requests and the life of the sing-box child   *)
(* into one supervised engine and one armed LOCAL_OUT module.              *)
(*                                                                         *)
(* One action per function of the reactor.  A call is a change of pc, so   *)
(* that a chain such as finish_cancelled -> converge -> start_generation_  *)
(* check is a chain of steps; event handlers run only at pc = "idle".      *)
(* Between two steps the world may move: the switch file, the              *)
(* configuration, Wi-Fi and the child processes belong to others.          *)
(*                                                                         *)
(* Abstractions.  A configuration is a version number, 0 an invalid one.   *)
(* A generation is an identifier that nothing refers to any more; only its *)
(* identity matters.  A timer is armed or not, its expiry is always        *)
(* possible.  A configuration's policy and its engine template are checked *)
(* against each other by Overlap; what a policy says is module Policy's    *)
(* subject.  Subscription fetching is reduced to the moment a result       *)
(* arrives.  A call into the system can fail only when its failure is one  *)
(* of Faults.  Events and failures are counted against MaxFuel and         *)
(* MaxFailures, so that behaviours are finite.                             *)
(***************************************************************************)
EXTENDS Naturals, FiniteSets, Lifecycle

CONSTANTS
    MaxVersion, \* configurations 1..MaxVersion are valid
    Overlap,    \* <<p, e>>: the policy of p bypasses fake addresses of the engine of e
    Gen,        \* generation identifiers
    Events,     \* what can happen to the reactor
    Faults,     \* which calls and processes can fail
    MaxFuel,    \* events of the world in one behaviour
    MaxFailures \* failures in one behaviour

Version == 0..MaxVersion

ASSUME ReactorAssumption ==
    /\ MaxVersion \in Nat \ {0} /\ MaxFuel \in Nat /\ MaxFailures \in Nat
    /\ Gen \subseteq Nat \ {0}
    /\ Overlap \subseteq (1..MaxVersion) \X (1..MaxVersion)
    /\ Events \subseteq {"switch", "request", "config", "wifi", "topology", "reload", "stop",
                         "subscription"}
    /\ Faults \subseteq {"layout", "module", "symbols", "apply", "listeners", "check",
                         "timeout", "supervision", "write", "spawn", "binary", "ready", "cache",
                         "wedge", "crash", "reactor"}

VARIABLES
    \* the world
    disabled,   \* the manager's disable file is present
    disk,       \* the configuration on disk
    wlan,       \* the current Wi-Fi is one the [ssid] list pauses for
    evt,        \* events the kernel has queued for the reactor
    alive,      \* engine processes that run
    doomed,     \* engine processes that were sent SIGTERM or SIGKILL
    files,      \* generations whose effective configuration file exists
    fuel, failures,
    \* the LOCAL_OUT module as the daemon has set it, and status().active
    kmod, active,
    \* the reactor: control flow
    pc, frame, planner, waiters, shutdown, exited,
    \* the engine domain
    engine, tx, plan, role, cancel, committed, user,
    \* the policy domain, pending work and timers
    policy, paused, joined, flags, timers, job

budget == <<fuel, failures>>
world  == <<disabled, disk, wlan, evt, budget>>
procs  == <<alive, doomed>>
kernel == <<kmod, active>>
flow   == <<planner, waiters, shutdown, exited>>
eng    == <<engine, tx, plan, role, cancel, committed, user>>
ssid   == <<paused, joined>>   \* the verdict, and whether nl80211 is joined
pend   == <<policy, ssid, flags, timers, job>>
vars   == <<world, procs, files, kernel, pc, frame, flow, eng, pend>>

\* A child is a generation, which of its (re)starts it is and the configuration
\* it runs.  A plan is the SwitchPlan of a candidate; a recovery carries only
\* whether the candidate's error is_retryable.
Child == [gen : Gen, run : {0, 1}, user : Version]
NoChild == [gen |-> 0, run |-> 0, user |-> 0]
NoPlan == [gen |-> 0, user |-> 0, old |-> NoChild, retry |-> FALSE]
NoTx == [kind |-> "none", child |-> NoChild, what |-> "none", killed |-> FALSE]
Closed == [open |-> FALSE, uids |-> FALSE, listen |-> 0]
NoFrame == [settle |-> FALSE, ctl |-> FALSE, req |-> FALSE, retry |-> FALSE]
NoJob == [policy |-> 0, user |-> 0, busy |-> FALSE, start |-> FALSE, topo |-> FALSE]
\* At the start nothing is pending and no timer is armed; a policy may be retried.
NoFlags == [reload |-> FALSE, policy |-> FALSE, engine |-> FALSE, topology |-> FALSE,
            wifi |-> FALSE, retry |-> TRUE]
NoTimers == [debounce |-> FALSE, backoff |-> FALSE]

Checking(w) == [kind |-> "checking", child |-> NoChild, what |-> w, killed |-> FALSE]
Waiting(c, r) == [kind |-> "waiting", child |-> c, what |-> r, killed |-> FALSE]
Stopping(c, n) == [kind |-> "stopping", child |-> c, what |-> n, killed |-> FALSE]

\* generations.allocate(): an identifier nothing names any more.
Used == files \cup {engine.gen, tx.child.gen, plan.gen, plan.old.gen, kmod.listen,
                    committed} \cup {c.gen : c \in alive}
FreshGen == CHOOSE g \in Gen : g \notin Used

OldFile == IF plan.old = NoChild THEN {} ELSE {plan.old.gen}

convergence_busy == tx.kind # "none" \/ role # "none"

phase == observe([disable_present |-> disabled \/ shutdown, shutdown |-> shutdown,
                  ssid_paused |-> paused, engine_present |-> engine # NoChild,
                  dataplane_active |-> active, awaiting_commit |-> role # "none",
                  convergence_busy |-> convergence_busy])

Init ==
    /\ disabled \in BOOLEAN /\ disk \in Version /\ wlan \in BOOLEAN
    /\ evt = {} /\ fuel = MaxFuel /\ failures = MaxFailures
    /\ alive = {} /\ doomed = {} /\ files = {}
    /\ kmod = Closed /\ active = FALSE
    /\ pc = "run" /\ frame = NoFrame /\ planner = "Inactive"
    /\ waiters = FALSE /\ shutdown = FALSE /\ exited = FALSE
    /\ engine = NoChild /\ tx = NoTx /\ plan = NoPlan /\ role = "none"
    /\ cancel = FALSE /\ committed = 0 /\ user = 0
    /\ policy = 0 /\ paused = FALSE /\ joined = FALSE
    /\ flags = NoFlags /\ timers = NoTimers /\ job = NoJob

\* Something happens.
Occurs(e) == e \in Events /\ fuel > 0 /\ fuel' = fuel - 1 /\ UNCHANGED failures
\* A call or a process fails.
Fail(f) == f \in Faults /\ failures > 0 /\ failures' = failures - 1 /\ UNCHANGED fuel

-----------------------------------------------------------------------------
(* The world *)

\* The user flips the switch in the manager.
ToggleSwitch ==
    /\ Occurs("switch") /\ ~exited
    /\ disabled' = ~disabled /\ evt' = evt \cup {"switch"}
    /\ UNCHANGED <<disk, wlan, procs, files, kernel, pc, frame, flow, eng, pend>>

EditConfig ==
    /\ Occurs("config") /\ ~exited
    /\ disk' \in Version \ {disk} /\ evt' = evt \cup {"config"}
    /\ UNCHANGED <<disabled, wlan, procs, files, kernel, pc, frame, flow, eng, pend>>

\* nl80211 reports it once its event group was joined.
Roam ==
    /\ Occurs("wifi") /\ ~exited
    /\ wlan' = ~wlan /\ evt' = IF joined THEN evt \cup {"wifi"} ELSE evt
    /\ UNCHANGED <<disabled, disk, procs, files, kernel, pc, frame, flow, eng, pend>>

\* A signalled process goes away; one that was not may crash.
Exit(c) ==
    /\ c \in alive
    /\ IF c \in doomed THEN UNCHANGED budget ELSE Fail("crash")
    /\ alive' = alive \ {c} /\ doomed' = doomed \ {c}
    /\ UNCHANGED <<disabled, disk, wlan, evt, files, kernel, pc, frame, flow, eng, pend>>

\* The reactor dies and its supervisor starts it again: PDEATHSIG kills the
\* engine, the kernel closes /dev/fluxrs, startup removes stale files.
ReactorCrash ==
    /\ Fail("reactor") /\ ~exited
    /\ alive' = {} /\ doomed' = {} /\ files' = {} /\ evt' = {}
    /\ kmod' = Closed /\ active' = FALSE
    /\ pc' = "run" /\ frame' = NoFrame /\ planner' = "Inactive"
    /\ waiters' = FALSE /\ shutdown' = FALSE
    /\ engine' = NoChild /\ tx' = NoTx /\ plan' = NoPlan /\ role' = "none"
    /\ cancel' = FALSE /\ committed' = 0 /\ user' = 0
    /\ policy' = 0 /\ paused' = FALSE /\ joined' = FALSE
    /\ flags' = NoFlags /\ timers' = NoTimers /\ job' = NoJob
    /\ UNCHANGED <<disabled, disk, wlan, exited>>

-----------------------------------------------------------------------------
(* The planner and the frames that are open above the running function *)

\* execute_commands: where the commands of a stimulus lead.
Target(s, cs) ==
    CASE cs = {} \/ "IgnoreUnexpected" \in cs -> "ret"
      [] "ExitProcess" \in cs -> "request_shutdown"
      [] s \in {"Disable", "SsidPause"} /\ "StopEngine" \in cs -> "deactivate_runtime"
      [] cs \cap NeedsConverge # {} -> "converge"
      [] OTHER -> "ret"

\* The phase is settled again when a stimulus that had commands returns.
apply_stimulus(s, req) ==
    LET row == step(planner, s) IN
    /\ pc' = Target(s, row.commands)
    /\ planner' = row.phase
    /\ frame' = [NoFrame EXCEPT !.req = req, !.settle =
                    row.commands # {} /\ "IgnoreUnexpected" \notin row.commands]

\* The handler returns to the event loop.  complete_convergence_controls answers
\* the clients that wait; a request whose work is still going on starts to wait.
Return ==
    /\ pc = "ret" /\ pc' = "idle" /\ frame' = NoFrame /\ job' = NoJob
    /\ planner' = IF frame.settle THEN phase ELSE planner
    /\ waiters' = \/ waiters /\ ~(frame.ctl /\ ~convergence_busy)
                  \/ frame.req /\ convergence_busy
    /\ UNCHANGED <<world, procs, files, kernel, shutdown, exited, eng, policy, ssid,
                   flags, timers>>

Controls(l) == pc' = l /\ frame' = [frame EXCEPT !.ctl = TRUE]
Goto(l) == pc' = l /\ UNCHANGED frame
\* An EngineError is passed on; r says whether it is_retryable.
PassError(l, r) == pc' = l /\ frame' = [frame EXCEPT !.retry = r]

\* Mutant of begin_stop: the signal is sent to a child that was reaped already.
begin_stop_Reaped(c, n) == tx' = Stopping(c, n) /\ doomed' = doomed \cup {c}

\* SIGTERM to the child; pidfd and a timer take it from there.
begin_stop(c, n) == tx' = Stopping(c, n) /\ doomed' = doomed \cup ({c} \cap alive)

\* cancel_engine_work, called with engine_cancel_requested set.
cancel_engine_work ==
    /\ cancel' = (tx # NoTx \/ engine # NoChild)
    /\ CASE tx.kind = "none" ->
              /\ role' = "none" /\ engine' = NoChild
              /\ IF engine # NoChild THEN begin_stop(engine, "cancelled")
                                     ELSE UNCHANGED <<tx, doomed>>
              /\ files' = IF role = "candidate" THEN files \ OldFile ELSE files
         [] tx.kind = "checking" ->
              /\ tx' = [tx EXCEPT !.what = "cancelled"]
              /\ UNCHANGED <<role, engine, doomed, files>>
         [] OTHER ->
              /\ begin_stop(tx.child, "cancelled")
              /\ files' = files \ CASE tx.what \in {"candidate", "recover"} -> OldFile
                                    [] tx.what = "start" -> {plan.gen}
                                    [] OTHER -> {}
              /\ UNCHANGED <<role, engine>>
    /\ UNCHANGED <<plan, committed, user, alive>>

\* dataplane.publish_inactive: CLEAR_UIDS, then active = 0.
publish_inactive == kmod' = [kmod EXCEPT !.uids = FALSE] /\ active' = FALSE

\* Mutant of request_shutdown: the engine work is not cancelled.
request_shutdown_Leave ==
    /\ pc = "request_shutdown"
    /\ IF shutdown THEN UNCHANGED <<shutdown, kernel>>
                   ELSE shutdown' = TRUE /\ publish_inactive
    /\ Goto("ret")
    /\ UNCHANGED <<world, planner, waiters, exited, eng, procs, files, pend>>

request_shutdown ==
    /\ pc = "request_shutdown"
    /\ IF shutdown
       THEN UNCHANGED <<shutdown, kernel, eng, procs, files>>
       ELSE shutdown' = TRUE /\ publish_inactive /\ cancel_engine_work
    /\ Goto("ret")
    /\ UNCHANGED <<world, planner, waiters, exited, pend>>

\* dataplane.converge(false) closes /dev/fluxrs.  Everything is read again later.
deactivate_runtime ==
    /\ pc = "deactivate_runtime"
    /\ kmod' = Closed /\ active' = FALSE
    /\ cancel_engine_work
    /\ flags' = [flags EXCEPT !.reload = TRUE, !.policy = TRUE, !.engine = TRUE,
                              !.topology = FALSE]
    /\ timers' = [timers EXCEPT !.backoff = FALSE]
    /\ Goto("ret")
    /\ UNCHANGED <<world, flow, policy, ssid, job>>

-----------------------------------------------------------------------------
(* Events: run, handle_signals, dispatch_request, handle_inotify and the timers *)

Idle == pc = "idle" /\ ~exited

\* run, up to the event loop.
run ==
    /\ pc = "run"
    /\ IF disabled
       THEN /\ pc' = "deactivate_runtime" /\ planner' = phase
            /\ frame' = [NoFrame EXCEPT !.settle = TRUE]
       ELSE LET row == step(phase, "Bootstrap") IN
            /\ pc' = Target("Bootstrap", row.commands) /\ planner' = row.phase
            /\ frame' = [NoFrame EXCEPT !.settle = TRUE]
    /\ UNCHANGED <<world, procs, files, kernel, waiters, shutdown, exited, eng, pend>>

Sighup ==
    /\ Idle /\ Occurs("reload")
    /\ flags' = [flags EXCEPT !.reload = TRUE, !.retry = TRUE]
    /\ apply_stimulus("Sighup", FALSE)
    /\ UNCHANGED <<disabled, disk, wlan, evt, procs, files, kernel, waiters, shutdown,
                   exited, eng, policy, ssid, timers, job>>

Sigterm ==
    /\ Idle /\ Occurs("stop")
    /\ apply_stimulus("Sigterm", FALSE)
    /\ UNCHANGED <<disabled, disk, wlan, evt, procs, files, kernel, waiters, shutdown,
                   exited, eng, pend>>

\* enable and disable write the switch file themselves, and inotify sees it.
RequestSwitch(off) ==
    /\ Idle /\ Occurs("request")
    /\ disabled' = off
    /\ evt' = IF off # disabled THEN evt \cup {"switch"} ELSE evt
    /\ apply_stimulus(IF off THEN "Disable" ELSE "Enable", TRUE)
    /\ UNCHANGED <<disk, wlan, procs, files, kernel, waiters, shutdown, exited, eng, pend>>

RequestReload ==
    /\ Idle /\ Occurs("reload")
    /\ flags' = [flags EXCEPT !.reload = TRUE, !.retry = TRUE]
    /\ apply_stimulus("Reload", TRUE)
    /\ UNCHANGED <<disabled, disk, wlan, evt, procs, files, kernel, waiters, shutdown,
                   exited, eng, policy, ssid, timers, job>>

\* The client is answered before the planner sees the request.
RequestStop ==
    /\ Idle /\ Occurs("stop")
    /\ apply_stimulus("Stop", FALSE)
    /\ UNCHANGED <<disabled, disk, wlan, evt, procs, files, kernel, waiters, shutdown,
                   exited, eng, pend>>

\* handle_inotify acts on the switch first and on the configuration after it.
handle_inotify_switch ==
    /\ Idle /\ "switch" \in evt /\ evt' = evt \ {"switch"}
    /\ apply_stimulus(IF disabled THEN "Disable" ELSE "Enable", FALSE)
    /\ UNCHANGED <<disabled, disk, wlan, budget, procs, files, kernel, waiters, shutdown,
                   exited, eng, pend>>

handle_inotify_config ==
    /\ Idle /\ "config" \in evt /\ "switch" \notin evt /\ evt' = evt \ {"config"}
    /\ flags' = [flags EXCEPT !.policy = TRUE, !.engine = TRUE, !.retry = TRUE]
    /\ timers' = [timers EXCEPT !.debounce = TRUE]
    /\ UNCHANGED <<disabled, disk, wlan, budget, procs, files, kernel, pc, frame, flow, eng,
                   policy, ssid, job>>

handle_rtnetlink ==
    /\ Idle /\ Occurs("topology")
    /\ flags' = [flags EXCEPT !.topology = TRUE]
    /\ timers' = [timers EXCEPT !.debounce = TRUE]
    /\ UNCHANGED <<disabled, disk, wlan, evt, procs, files, kernel, pc, frame, flow, eng,
                   policy, ssid, job>>

handle_nl80211 ==
    /\ Idle /\ "wifi" \in evt /\ evt' = evt \ {"wifi"}
    /\ IF disabled
       THEN UNCHANGED <<flags, timers>>
       ELSE /\ flags' = [flags EXCEPT !.wifi = TRUE]
            /\ timers' = [timers EXCEPT !.debounce = TRUE]
    /\ UNCHANGED <<disabled, disk, wlan, budget, procs, files, kernel, pc, frame, flow, eng,
                   policy, ssid, job>>

\* evaluate_ssid with a policy or without one.  The event group is joined before
\* the interfaces are dumped; an event that was queued asks for another round.
ssid_verdict(known) == known /\ wlan
ssid_follow_up(known) == known /\ "wifi" \in evt
evaluate_ssid(known) ==
    /\ paused' = ssid_verdict(known) /\ joined' = known
    /\ evt' = evt \ {"wifi"}

\* TOK_DEBOUNCE: take_debounce_stimulus, then the planner.
DebounceExpired ==
    /\ Idle /\ timers.debounce
    /\ LET wifi == flags.wifi /\ ~flags.topology IN
       /\ IF wifi
          THEN /\ evaluate_ssid(policy # 0)
               /\ flags' = [flags EXCEPT !.wifi = ssid_follow_up(policy # 0)]
          ELSE UNCHANGED <<evt, ssid, flags>>
       /\ timers' = [timers EXCEPT !.debounce = wifi /\ ssid_follow_up(policy # 0)]
       /\ apply_stimulus(CASE wifi /\ ssid_verdict(policy # 0) -> "SsidPause"
                           [] wifi /\ ~ssid_verdict(policy # 0) -> "SsidResume"
                           [] flags.topology -> "CaptureSideDrift"
                           [] OTHER -> "DebounceExpired", FALSE)
    /\ UNCHANGED <<disabled, disk, wlan, budget, procs, files, kernel, waiters, shutdown,
                   exited, eng, policy, job>>

\* TOK_BACKOFF.
BackoffExpired ==
    /\ Idle /\ timers.backoff
    /\ timers' = [timers EXCEPT !.backoff = FALSE]
    /\ IF shutdown \/ disabled
       THEN /\ cancel_engine_work
            /\ pc' = "ret" /\ frame' = NoFrame /\ UNCHANGED planner
       ELSE /\ apply_stimulus("BackoffExpired", FALSE)
            /\ UNCHANGED <<eng, procs, files>>
    /\ UNCHANGED <<world, kernel, waiters, shutdown, exited, policy, ssid, flags, job>>

\* handle_subscription_result, when sources answered: not a planner stimulus.
handle_subscription_result ==
    /\ Idle /\ Occurs("subscription") /\ ~disabled /\ disk # 0
    /\ flags' = [flags EXCEPT !.policy = TRUE, !.engine = TRUE, !.retry = TRUE]
    /\ pc' = "converge" /\ frame' = [NoFrame EXCEPT !.ctl = TRUE]
    /\ UNCHANGED <<disabled, disk, wlan, evt, procs, files, kernel, flow, eng, policy,
                   ssid, timers, job>>

\* The tail of the event loop: finish_shutdown.
ExitProcess ==
    /\ Idle /\ shutdown /\ engine = NoChild /\ tx = NoTx
    /\ exited' = TRUE /\ kmod' = Closed /\ active' = FALSE
    /\ UNCHANGED <<world, procs, files, pc, frame, planner, waiters, shutdown, eng, pend>>

-----------------------------------------------------------------------------
(* converge *)

converge_down ==
    /\ pc = "converge" /\ (shutdown \/ disabled)
    /\ IF shutdown
       THEN cancel_engine_work /\ Goto("ret") /\ UNCHANGED ssid
       ELSE /\ Goto("deactivate_runtime") /\ paused' = FALSE
            /\ UNCHANGED <<joined, eng, procs, files>>
    /\ UNCHANGED <<world, kernel, flow, policy, flags, timers, job>>

want_policy == policy = 0 \/ flags.reload \/ flags.policy \/ flags.topology
want_engine == ~convergence_busy /\ (engine = NoChild \/ flags.reload \/ flags.engine)
Else(a, b) == IF a # 0 THEN a ELSE b
\* read_policy_config and read_engine_config accept a valid configuration.
read_policy == IF want_policy THEN disk ELSE 0
read_engine == IF want_engine /\ Else(read_policy, policy) # 0 THEN disk ELSE 0

\* validate_fakeip_bypass: a policy must suit the last committed engine (or, before
\* there was one, the engine read with it), an engine the policy that will be
\* installed.  What does not is dropped, and nothing tries it again.
candidate_policy ==
    IF <<read_policy, Else(user, read_engine)>> \in Overlap THEN 0 ELSE read_policy
candidate_user ==
    LET kept == Else(candidate_policy, policy) IN
    IF kept = 0 \/ <<kept, read_engine>> \in Overlap THEN 0 ELSE read_engine
ssid_only_change ==
    flags.wifi /\ ~flags.reload /\ ~flags.policy /\ ~flags.engine /\ ~flags.topology
was_active == active /\ engine # NoChild /\ role = "none" /\ ~paused

\* The candidates are read, the policy flag is consumed, Wi-Fi is evaluated.
converge_read ==
    LET known == Else(candidate_policy, policy) # 0
        cold == ~convergence_busy /\ engine = NoChild /\ candidate_user = 0
    IN
    /\ pc = "converge" /\ ~shutdown /\ ~disabled
    /\ evaluate_ssid(known)
    /\ timers' = [timers EXCEPT !.debounce = @ \/ ssid_follow_up(known)]
    /\ job' = [policy |-> candidate_policy, user |-> candidate_user,
               busy |-> convergence_busy, start |-> engine = NoChild /\ ~convergence_busy,
               topo |-> flags.topology]
    /\ flags' = [flags EXCEPT !.policy = FALSE, !.wifi = ssid_follow_up(known)]
    /\ Goto(CASE ssid_verdict(known) -> "deactivate_runtime"
              [] ~ssid_verdict(known) /\ ssid_only_change /\ was_active
                    /\ ~convergence_busy -> "ret"
              [] OTHER -> IF cold THEN "converge_cold" ELSE "converge_dataplane")
    /\ UNCHANGED <<disabled, disk, wlan, budget, procs, files, kernel, flow, eng, policy>>

\* A foreign object at a path of the state root (layout.ensure): nothing is read,
\* and nothing will ask again.
converge_refused ==
    /\ pc = "converge" /\ ~shutdown /\ ~disabled /\ Fail("layout") /\ Goto("ret")
    /\ UNCHANGED <<disabled, disk, wlan, evt, procs, files, kernel, flow, eng, pend>>

\* Cold invalid input: clean up, load nothing, wait for an edit.
converge_cold ==
    /\ pc = "converge_cold" /\ Goto("ret")
    /\ kmod' = Closed /\ active' = FALSE
    /\ flags' = [flags EXCEPT !.reload = FALSE, !.engine = FALSE, !.topology = FALSE]
    /\ UNCHANGED <<world, procs, files, flow, eng, policy, ssid, timers, job>>

\* converge_with_bpf(true): the module is loaded and /dev/fluxrs held.
converge_dataplane ==
    /\ pc = "converge_dataplane" /\ Goto("apply_policy")
    /\ kmod' = [kmod EXCEPT !.open = TRUE]
    /\ UNCHANGED <<world, procs, files, active, flow, eng, pend>>

\* ... or it is not: the engine work is cancelled.  GET_STATUS failed with the fd
\* still held ("module"), or the nf_tproxy symbols are gone ("symbols").
converge_blocked ==
    /\ pc = "converge_dataplane" /\ Goto("ret")
    /\ \/ Fail("module") /\ UNCHANGED kmod
       \/ Fail("symbols") /\ kmod' = Closed
    /\ IF engine # NoChild \/ tx # NoTx
       THEN cancel_engine_work
       ELSE UNCHANGED <<eng, procs, files>>
    /\ UNCHANGED <<disabled, disk, wlan, evt, active, flow, pend>>

\* apply_policy of a candidate, or of the current policy for new self-addresses.
converge_apply ==
    /\ pc = "apply_policy" /\ Goto("converge_engine")
    /\ IF job.policy # 0
       THEN /\ policy' = job.policy /\ kmod' = [kmod EXCEPT !.uids = TRUE]
            /\ flags' = [flags EXCEPT !.retry = TRUE, !.topology = FALSE]
       ELSE /\ kmod' = [kmod EXCEPT !.uids = @ \/ (job.topo /\ policy # 0)]
            /\ flags' = [flags EXCEPT !.topology = FALSE]
            /\ UNCHANGED policy
    /\ UNCHANGED <<world, procs, files, active, flow, eng, ssid, timers, job>>

\* It fails, the old epoch stays: queue_policy_retry, once per change.
converge_apply_fails ==
    /\ pc = "apply_policy" /\ Fail("apply")
    /\ job.policy # 0 \/ (job.topo /\ policy # 0)
    /\ Goto("converge_engine")
    /\ flags' = [flags EXCEPT !.topology = FALSE, !.retry = FALSE,
                              !.policy = @ \/ flags.retry]
    /\ timers' = [timers EXCEPT !.debounce = @ \/ flags.retry]
    /\ job' = IF job.policy # 0 /\ policy = 0 THEN [job EXCEPT !.user = 0] ELSE job
    /\ UNCHANGED <<disabled, disk, wlan, evt, procs, files, kernel, flow, eng, policy,
                   ssid>>

need_switch == engine # NoChild /\ job.user # 0 /\ user # job.user

\* The engine half of a convergence: resume an activation, queue behind a
\* transaction, maintain the running engine, or start a generation.
converge_engine ==
    /\ pc = "converge_engine"
    /\ IF role = "none" /\ ~job.busy
       THEN /\ flags' = [flags EXCEPT !.reload = FALSE, !.engine = FALSE]
            /\ Goto(CASE ~job.start /\ ~need_switch -> "start_phase6"
                      [] (job.start \/ need_switch) /\ job.user # 0 -> "start_generation"
                      [] OTHER -> "ret")
       ELSE /\ UNCHANGED flags
            /\ Goto(IF role # "none" THEN "start_phase6" ELSE "ret")
    /\ UNCHANGED <<world, procs, files, kernel, flow, eng, policy, ssid, timers, job>>

\* The counter of generations has no end; Gen is large enough to have a free one.
start_generation_check ==
    /\ pc = "start_generation" /\ Gen \ Used # {} /\ Goto("ret")
    /\ plan' = [NoPlan EXCEPT !.gen = FreshGen, !.user = job.user]
    /\ files' = files \cup {FreshGen}
    /\ tx' = Checking("normal")
    /\ timers' = [timers EXCEPT !.backoff = FALSE]
    /\ UNCHANGED <<world, procs, kernel, flow, engine, role, cancel, committed, user,
                   policy, ssid, flags, job>>

\* Ports, the effective file or the check process cannot be had ("write"), or
\* there is no engine binary.
start_generation_fails ==
    /\ pc = "start_generation"
    /\ \/ Fail("write") /\ PassError("finish_transaction_error", TRUE)
       \/ Fail("binary") /\ PassError("finish_transaction_error", FALSE)
    /\ timers' = [timers EXCEPT !.backoff = FALSE]
    /\ UNCHANGED <<disabled, disk, wlan, evt, procs, files, kernel, flow, eng, policy,
                   ssid, flags, job>>

-----------------------------------------------------------------------------
(* Activation: start_phase6_attachment, finish_ and fail_phase6_activation *)

\* Mutant of start_phase6: the listeners that are set already are taken as good.
start_phase6_Unset ==
    LET activating == role # "none" \/ ~active IN
    /\ pc = "start_phase6"
    /\ Goto(CASE activating /\ kmod.open -> "finish_phase6"
              [] activating /\ ~kmod.open -> "fail_phase6"
              [] OTHER -> "ret")
    /\ UNCHANGED <<world, procs, files, kernel, flow, eng, pend>>

\* prepare_generation publishes the listeners when the data plane is not active.
start_phase6 ==
    LET activating == role # "none" \/ ~active IN
    /\ pc = "start_phase6"
    /\ Goto(CASE activating /\ kmod.open -> "finish_phase6"
              [] activating /\ ~kmod.open -> "fail_phase6"
              [] OTHER -> "ret")
    /\ IF activating /\ kmod.open
       THEN kmod' = [kmod EXCEPT !.listen = engine.gen] /\ active' = FALSE
       ELSE UNCHANGED kernel
    /\ UNCHANGED <<world, procs, files, flow, eng, pend>>

start_phase6_fails ==
    /\ pc = "start_phase6" /\ (role # "none" \/ ~active) /\ Fail("listeners")
    /\ Goto("fail_phase6")
    /\ UNCHANGED <<disabled, disk, wlan, evt, procs, files, kernel, flow, eng, pend>>

\* Mutant of finish_phase6: the file of the new generation is removed, not the old.
finish_phase6_WrongFile ==
    /\ pc = "finish_phase6" /\ Controls("queued")
    /\ active' = TRUE /\ committed' = engine.gen
    /\ role' = "none" /\ plan' = NoPlan /\ cancel' = FALSE
    /\ IF role = "candidate"
       THEN files' = files \ {plan.gen} /\ user' = plan.user
       ELSE UNCHANGED <<files, user>>
    /\ UNCHANGED <<world, procs, kmod, flow, engine, tx, pend>>

\* Mutant of finish_phase6: the waiting clients are not told of the commit.
finish_phase6_Silent ==
    /\ pc = "finish_phase6" /\ Goto("queued")
    /\ active' = TRUE /\ committed' = engine.gen
    /\ role' = "none" /\ plan' = NoPlan /\ cancel' = FALSE
    /\ IF role = "candidate"
       THEN files' = files \ OldFile /\ user' = plan.user
       ELSE UNCHANGED <<files, user>>
    /\ UNCHANGED <<world, procs, kmod, flow, engine, tx, pend>>

\* publish_active, the commit point; then whatever was queued behind it.
finish_phase6 ==
    /\ pc = "finish_phase6" /\ Controls("queued")
    /\ active' = TRUE /\ committed' = engine.gen
    /\ role' = "none" /\ plan' = NoPlan /\ cancel' = FALSE
    /\ IF role = "candidate"
       THEN files' = files \ OldFile /\ user' = plan.user
       ELSE UNCHANGED <<files, user>>
    /\ UNCHANGED <<world, procs, kmod, flow, engine, tx, pend>>

\* The subscription cache of a candidate cannot be committed.
finish_phase6_fails ==
    /\ pc = "finish_phase6" /\ role = "candidate" /\ Fail("cache")
    /\ begin_stop(engine, "recover") /\ engine' = NoChild /\ role' = "none"
    /\ Goto("ret")
    /\ UNCHANGED <<disabled, disk, wlan, evt, alive, files, kernel, flow, plan, cancel,
                   committed, user, pend>>

fail_phase6 ==
    /\ pc = "fail_phase6" /\ Goto("ret")
    /\ IF role = "none"
       THEN publish_inactive /\ UNCHANGED <<engine, tx, doomed>>
       ELSE /\ begin_stop(engine, IF role = "candidate" THEN "recover" ELSE "recoveryfailed")
            /\ engine' = NoChild
            /\ UNCHANGED kernel
    /\ role' = "none"
    /\ UNCHANGED <<world, alive, files, flow, plan, cancel, committed, user, pend>>

\* Mutant of run_queued_convergence: what was queued behind a transaction is lost.
run_queued_convergence_Lost ==
    /\ pc = "queued" /\ Goto("ret")
    /\ UNCHANGED <<world, procs, files, kernel, flow, eng, pend>>

run_queued_convergence ==
    /\ pc = "queued"
    /\ Goto(IF /\ ~shutdown /\ ~disabled
               /\ flags.reload \/ flags.policy \/ flags.engine \/ flags.topology
            THEN "converge" ELSE "ret")
    /\ UNCHANGED <<world, procs, files, kernel, flow, eng, pend>>

-----------------------------------------------------------------------------
(* The engine transaction: checking *)

\* handle_check_exit and complete_check; ok is the check's own result.
complete_check(ok) ==
    LET Gone == files' = files \ {plan.gen} /\ tx' = NoTx IN
    CASE tx.what = "cancelled" \/ (tx.what = "normal" /\ ok /\ cancel) ->
           /\ Gone /\ pc' = "finish_cancelled" /\ frame' = NoFrame
           /\ UNCHANGED <<engine, plan, doomed, kernel>>
      [] tx.what \in {"timedout", "supervision"} \/ (tx.what = "normal" /\ ~ok) ->
           /\ Gone /\ pc' = "finish_transaction_error"
           /\ frame' = [NoFrame EXCEPT !.retry = tx.what = "supervision"]
           /\ UNCHANGED <<engine, plan, doomed, kernel>>
      [] tx.what = "normal" /\ ok /\ ~cancel /\ engine # NoChild ->
           /\ publish_inactive
           /\ plan' = [plan EXCEPT !.old = engine] /\ engine' = NoChild
           /\ begin_stop(engine, "start")
           /\ pc' = "ret" /\ frame' = NoFrame /\ UNCHANGED files
      [] OTHER ->
           /\ tx' = NoTx /\ pc' = "start_candidate" /\ frame' = NoFrame
           /\ UNCHANGED <<engine, plan, doomed, files, kernel>>

handle_check_exit ==
    /\ Idle /\ tx.kind = "checking" /\ complete_check(TRUE)
    /\ UNCHANGED <<world, alive, flow, role, cancel, committed, user, pend>>

\* sing-box check rejects the candidate.
CheckRejects ==
    /\ Idle /\ tx.kind = "checking" /\ tx.what = "normal"
    /\ Fail("check") /\ complete_check(FALSE)
    /\ UNCHANGED <<disabled, disk, wlan, evt, alive, flow, role, cancel, committed, user,
                   pend>>

\* The check outlives its deadline and is killed, or cannot be supervised.
CheckDisposition(d) ==
    /\ Idle /\ tx.kind = "checking" /\ Fail(d)
    /\ d = "timeout" => tx.what = "normal"
    /\ tx' = Checking(IF d = "timeout" THEN "timedout" ELSE d)
    /\ UNCHANGED <<disabled, disk, wlan, evt, procs, files, kernel, pc, frame, flow,
                   engine, plan, role, cancel, committed, user, pend>>

-----------------------------------------------------------------------------
(* The engine transaction: waiting for readiness *)

\* Mutant of start_candidate: the old generation's file goes at the spawn already.
start_candidate_DropsOld ==
    LET c == [gen |-> plan.gen, run |-> 0, user |-> plan.user] IN
    /\ pc = "start_candidate" /\ Goto("ret")
    /\ alive' = alive \cup {c} /\ tx' = Waiting(c, "candidate")
    /\ files' = files \ OldFile
    /\ UNCHANGED <<world, doomed, kernel, flow, engine, plan, role, cancel, committed,
                   user, pend>>

start_candidate ==
    LET c == [gen |-> plan.gen, run |-> 0, user |-> plan.user] IN
    /\ pc = "start_candidate" /\ Goto("ret")
    /\ alive' = alive \cup {c} /\ tx' = Waiting(c, "candidate")
    /\ UNCHANGED <<world, doomed, files, kernel, flow, engine, plan, role, cancel,
                   committed, user, pend>>

start_candidate_fails ==
    /\ pc = "start_candidate"
    /\ \/ Fail("spawn") /\ PassError("begin_candidate_failure", TRUE)
       \/ Fail("binary") /\ PassError("begin_candidate_failure", FALSE)
    /\ UNCHANGED <<disabled, disk, wlan, evt, procs, files, kernel, flow, eng, pend>>

\* advance_waiting and handle_sock_diag: a cancel request goes first, then an
\* exit (finish_waiting_exit); promote_ready_child when the listening sockets
\* are all there and the child's.
advance_waiting ==
    /\ Idle /\ tx.kind = "waiting"
    /\ CASE cancel ->
              /\ files' = IF tx.what = "candidate" THEN files \ OldFile ELSE files
              /\ begin_stop(tx.child, "cancelled")
              /\ pc' = "ret" /\ frame' = NoFrame /\ UNCHANGED <<engine, role>>
         [] ~cancel /\ tx.child \notin alive ->
              /\ tx' = NoTx
              /\ IF tx.what = "candidate"
                 THEN pc' = "begin_candidate_failure"
                 ELSE pc' = "finish_transaction_error"
              /\ frame' = [NoFrame EXCEPT !.retry = tx.what = "candidate" \/ plan.retry]
              /\ UNCHANGED <<files, engine, role, doomed>>
         [] OTHER ->
              /\ engine' = tx.child /\ role' = tx.what /\ tx' = NoTx
              /\ pc' = "start_phase6" /\ frame' = NoFrame
              /\ UNCHANGED <<files, doomed>>
    /\ UNCHANGED <<world, alive, kernel, flow, plan, cancel, committed, user, pend>>

\* The readiness deadline passes, or the sockets belong to someone else.
fail_waiting ==
    /\ Idle /\ tx.kind = "waiting" /\ ~cancel /\ tx.child \in alive /\ Fail("ready")
    /\ begin_stop(tx.child, IF tx.what = "candidate" THEN "recover" ELSE "recoveryfailed")
    /\ UNCHANGED <<disabled, disk, wlan, evt, alive, files, kernel, pc, frame, flow,
                   engine, plan, role, cancel, committed, user, pend>>

\* The candidate's file goes; the old generation, if there was one, is started
\* again from its own file.
begin_candidate_failure ==
    /\ pc = "begin_candidate_failure"
    /\ IF ~cancel /\ plan.old # NoChild
       THEN LET c == [plan.old EXCEPT !.run = 1 - @] IN
            /\ alive' = alive \cup {c} /\ tx' = Waiting(c, "recovery")
            /\ plan' = [NoPlan EXCEPT !.retry = frame.retry]
            /\ files' = files \ {plan.gen}
            /\ Goto("ret")
       ELSE /\ files' = files \ ({plan.gen} \cup IF cancel THEN OldFile ELSE {})
            /\ tx' = NoTx
            /\ Goto(IF cancel THEN "finish_cancelled" ELSE "finish_transaction_error")
            /\ UNCHANGED <<alive, plan>>
    /\ UNCHANGED <<world, doomed, kernel, flow, engine, role, cancel, committed, user,
                   pend>>

begin_candidate_failure_fails ==
    /\ pc = "begin_candidate_failure" /\ ~cancel /\ plan.old # NoChild
    /\ Fail("spawn")
    /\ files' = files \ {plan.gen} /\ tx' = NoTx
    /\ Goto("finish_transaction_error")
    /\ UNCHANGED <<disabled, disk, wlan, evt, procs, kernel, flow, engine, plan, role,
                   cancel, committed, user, pend>>

-----------------------------------------------------------------------------
(* The engine transaction: stopping *)

\* Mutant of complete_stopped: the successor does not wait for the exit.
complete_stopped_Early ==
    /\ Idle /\ tx.kind = "stopping"
    /\ tx' = NoTx /\ frame' = [NoFrame EXCEPT !.retry = TRUE]
    /\ pc' = CASE tx.what = "start" -> "start_candidate"
               [] tx.what = "recover" -> "begin_candidate_failure"
               [] tx.what = "recoveryfailed" -> "finish_transaction_error"
               [] OTHER -> "finish_cancelled"
    /\ UNCHANGED <<world, procs, files, kernel, flow, engine, plan, role, cancel, committed,
                   user, pend>>

\* The child has gone: handle_transaction_pidfd, or the timer.
complete_stopped ==
    LET c == tx.child.gen IN
    /\ Idle /\ tx.kind = "stopping" /\ tx.child \notin alive
    /\ tx' = NoTx
    /\ CASE tx.what = "start" ->
              /\ files' = IF cancel THEN files \ {c, plan.gen} ELSE files
              /\ pc' = IF cancel THEN "finish_cancelled" ELSE "start_candidate"
              /\ frame' = NoFrame
         [] tx.what = "recover" ->
              /\ files' = files \ {c} /\ pc' = "begin_candidate_failure"
              /\ frame' = [NoFrame EXCEPT !.retry = TRUE]
         [] tx.what = "recoveryfailed" ->
              /\ files' = files \ {c} /\ pc' = "finish_transaction_error"
              /\ frame' = [NoFrame EXCEPT !.retry = plan.retry]
         [] OTHER ->
              /\ files' = files \ {c} /\ pc' = "finish_cancelled" /\ frame' = NoFrame
    /\ UNCHANGED <<world, procs, kernel, flow, engine, plan, role, cancel, committed,
                   user, pend>>

\* The grace period is over: SIGKILL.
StopKill ==
    /\ Idle /\ tx.kind = "stopping" /\ tx.child \in alive /\ ~tx.killed
    /\ tx' = [tx EXCEPT !.killed = TRUE]
    /\ UNCHANGED <<world, procs, files, kernel, pc, frame, flow, engine, plan, role,
                   cancel, committed, user, pend>>

\* Mutant of stop_confirmation_failed: the child that would not die is forgotten.
stop_confirmation_failed_Forgets ==
    /\ Idle /\ tx.kind = "stopping" /\ tx.child \in alive /\ tx.killed /\ Fail("wedge")
    /\ tx' = NoTx /\ plan' = NoPlan /\ cancel' = FALSE
    /\ timers' = [timers EXCEPT !.backoff = TRUE]
    /\ pc' = "ret" /\ frame' = [NoFrame EXCEPT !.ctl = TRUE]
    /\ UNCHANGED <<disabled, disk, wlan, evt, procs, files, kernel, flow, engine, role,
                   committed, user, policy, ssid, flags, job>>

\* The child survives the confirmation window too: it stays supervised.
stop_confirmation_failed ==
    /\ Idle /\ tx.kind = "stopping" /\ tx.child \in alive /\ tx.killed /\ Fail("wedge")
    /\ files' = files \ CASE tx.what = "start" -> {plan.gen}
                          [] tx.what = "recover" -> OldFile
                          [] OTHER -> {}
    /\ engine' = tx.child /\ tx' = NoTx /\ plan' = NoPlan /\ cancel' = FALSE
    /\ committed' = tx.child.gen
    /\ timers' = [timers EXCEPT !.backoff = TRUE]
    /\ pc' = "ret" /\ frame' = [NoFrame EXCEPT !.ctl = TRUE]
    /\ UNCHANGED <<disabled, disk, wlan, evt, procs, kernel, flow, role, user, policy,
                   ssid, flags, job>>

finish_cancelled ==
    /\ pc = "finish_cancelled" /\ plan' = NoPlan
    /\ IF engine # NoChild
       THEN /\ begin_stop(engine, "cancelled") /\ engine' = NoChild
            /\ Goto("ret") /\ UNCHANGED cancel
       ELSE /\ cancel' = FALSE /\ tx' = NoTx /\ UNCHANGED <<engine, doomed>>
            /\ CASE disabled -> Controls("ret")
                 [] ~disabled /\ ~shutdown -> Controls("converge")
                 [] OTHER -> Goto("ret")
    /\ UNCHANGED <<world, alive, files, kernel, flow, role, committed, user, pend>>

\* Mutant of finish_transaction_error: the waiting clients are not told.
finish_transaction_error_Silent ==
    /\ pc = "finish_transaction_error" /\ Goto("queued")
    /\ tx' = NoTx /\ plan' = NoPlan
    /\ timers' = [timers EXCEPT !.backoff =
                      \/ @
                      \/ engine = NoChild /\ ~disabled /\ ~shutdown /\ frame.retry]
    /\ UNCHANGED <<world, procs, files, kernel, flow, engine, role, cancel, committed,
                   user, policy, ssid, flags, job>>

\* Mutant of finish_transaction_error: no retry is scheduled.
finish_transaction_error_GivesUp ==
    /\ pc = "finish_transaction_error" /\ Controls("queued")
    /\ tx' = NoTx /\ plan' = NoPlan
    /\ UNCHANGED <<world, procs, files, kernel, flow, engine, role, cancel, committed,
                   user, pend>>

finish_transaction_error ==
    /\ pc = "finish_transaction_error" /\ Controls("queued")
    /\ tx' = NoTx /\ plan' = NoPlan
    /\ timers' = [timers EXCEPT !.backoff =
                      \/ @
                      \/ engine = NoChild /\ ~disabled /\ ~shutdown /\ frame.retry]
    /\ UNCHANGED <<world, procs, files, kernel, flow, engine, role, cancel, committed,
                   user, policy, ssid, flags, job>>

\* TOK_ENGINE_PIDFD.  The planner is asked, but only PublishInactive is obeyed.
handle_engine_exit ==
    LET row == step(planner, "EngineExited") IN
    /\ Idle /\ engine # NoChild /\ engine \notin alive
    /\ planner' = row.phase
    /\ IF FreezesCapture(row.commands) THEN publish_inactive ELSE UNCHANGED kernel
    /\ engine' = NoChild /\ role' = "none" /\ files' = files \ {engine.gen}
    /\ frame' = [NoFrame EXCEPT !.settle = TRUE,
                                !.retry = role = "candidate" \/ plan.retry]
    /\ pc' = CASE role = "candidate" -> "begin_candidate_failure"
               [] role = "recovery" -> "finish_transaction_error"
               [] role = "none" -> "ret"
    /\ timers' = [timers EXCEPT !.backoff = @ \/ (role = "none" /\ tx = NoTx)]
    /\ UNCHANGED <<world, procs, waiters, shutdown, exited, tx, plan, cancel, committed,
                   user, policy, ssid, flags, job>>

-----------------------------------------------------------------------------
\* Each function call the reactor has started is finished.
Call ==
    \/ run \/ Return \/ request_shutdown \/ deactivate_runtime
    \/ converge_down \/ converge_read \/ converge_cold \/ converge_dataplane
    \/ converge_apply \/ converge_engine \/ start_generation_check
    \/ start_phase6 \/ finish_phase6 \/ fail_phase6 \/ run_queued_convergence
    \/ start_candidate \/ begin_candidate_failure \/ finish_cancelled
    \/ finish_transaction_error

CallFails ==
    \/ converge_refused \/ converge_blocked \/ converge_apply_fails \/ start_generation_fails
    \/ start_phase6_fails \/ finish_phase6_fails \/ start_candidate_fails
    \/ begin_candidate_failure_fails

\* What the event loop will come to by itself.
Engine == handle_check_exit \/ advance_waiting \/ complete_stopped
Inotify == handle_inotify_switch \/ handle_inotify_config \/ handle_nl80211

Command ==
    \/ Sighup \/ Sigterm \/ \E off \in BOOLEAN : RequestSwitch(off)
    \/ RequestReload \/ RequestStop
    \/ handle_rtnetlink \/ handle_subscription_result

EngineFails ==
    \/ CheckRejects \/ \E d \in {"timeout", "supervision"} : CheckDisposition(d)
    \/ fail_waiting \/ stop_confirmation_failed

World ==
    \/ ToggleSwitch \/ EditConfig \/ Roam \/ ReactorCrash
    \/ \E c \in alive : Exit(c)

Next ==
    \/ Call \/ CallFails \/ Engine \/ EngineFails \/ StopKill \/ Inotify \/ Command
    \/ DebounceExpired \/ BackoffExpired \/ handle_engine_exit \/ ExitProcess
    \/ World

Spec == Init /\ [][Next]_vars

\* The reactor runs, epoll reports every ready descriptor, timers expire, and a
\* process that was signalled goes away.  Nothing obliges the user, the network
\* or a failure to happen.
Fairness ==
    /\ WF_vars(Call) /\ WF_vars(Engine) /\ WF_vars(Inotify)
    /\ WF_vars(DebounceExpired) /\ WF_vars(BackoffExpired)
    /\ WF_vars(handle_engine_exit) /\ WF_vars(ExitProcess)
    /\ WF_vars(\E c \in doomed : Exit(c))

FairSpec == Spec /\ Fairness

-----------------------------------------------------------------------------
(* Properties *)

Pc == {"idle", "run", "ret", "request_shutdown", "deactivate_runtime", "converge",
       "converge_cold", "converge_dataplane", "apply_policy", "converge_engine",
       "start_generation", "start_phase6", "finish_phase6", "fail_phase6", "queued",
       "start_candidate", "begin_candidate_failure", "finish_cancelled",
       "finish_transaction_error"}
TxKind == {"none", "checking", "waiting", "stopping"}
TxWhat == {"none", "normal", "cancelled", "timedout", "supervision", "candidate",
           "recovery", "start", "recover", "recoveryfailed"}

TxType == [kind : TxKind, child : Child \cup {NoChild}, what : TxWhat, killed : BOOLEAN]
PlanType == [gen : Gen \cup {0}, user : Version, old : Child \cup {NoChild}, retry : BOOLEAN]
FrameType == [settle : BOOLEAN, ctl : BOOLEAN, req : BOOLEAN, retry : BOOLEAN]
KmodType == [open : BOOLEAN, uids : BOOLEAN, listen : Gen \cup {0}]
FlagsType == [reload : BOOLEAN, policy : BOOLEAN, engine : BOOLEAN, topology : BOOLEAN,
              wifi : BOOLEAN, retry : BOOLEAN]
TimersType == [debounce : BOOLEAN, backoff : BOOLEAN]
JobType == [policy : Version, user : Version, busy : BOOLEAN, start : BOOLEAN, topo : BOOLEAN]

WorldOK ==
    /\ disabled \in BOOLEAN /\ disk \in Version /\ wlan \in BOOLEAN
    /\ evt \subseteq {"switch", "config", "wifi"}
    /\ fuel \in 0..MaxFuel /\ failures \in 0..MaxFailures
ProcsOK == alive \subseteq Child /\ doomed \subseteq alive /\ files \subseteq Gen
KernelOK == kmod \in KmodType /\ active \in BOOLEAN
FlowOK ==
    /\ pc \in Pc /\ frame \in FrameType /\ planner \in Phase
    /\ waiters \in BOOLEAN /\ shutdown \in BOOLEAN /\ exited \in BOOLEAN
EngOK ==
    /\ engine \in Child \cup {NoChild} /\ tx \in TxType /\ plan \in PlanType
    /\ role \in {"none", "candidate", "recovery"} /\ cancel \in BOOLEAN
    /\ committed \in Gen \cup {0} /\ user \in Version
PendOK ==
    /\ policy \in Version /\ paused \in BOOLEAN /\ joined \in BOOLEAN
    /\ flags \in FlagsType /\ timers \in TimersType /\ job \in JobType

\* Every variable holds a value of its kind.
TypeOK == WorldOK /\ ProcsOK /\ KernelOK /\ FlowOK /\ EngOK /\ PendOK

\* At most one engine process runs at any instant: a candidate is spawned only
\* after the old generation is known to be gone, a recovery only after the
\* candidate is.
SingleEngine == Cardinality(alive) <= 1

\* No engine process runs unsupervised: whatever is alive is the current engine
\* or the child of the running transaction.
Supervised == alive \subseteq {engine, tx.child}

\* begin_stop, complete_stopped, stop_confirmation_failed: however cancels, deadlines and
\* crashes race a switch, there is one engine at most, and it is supervised.
OneSupervisedEngine == SingleEngine /\ Supervised

\* As long as a switch can still fall back, the old generation's effective
\* configuration is on disk, ready to be started again.
OldGenerationRecoverable ==
    /\ pc \in {"idle", "ret"} /\ plan.old # NoChild
    /\ tx.what \in {"start", "candidate", "recover"} \/ role = "candidate"
    => plan.old.gen \in files

\* The effective file a live engine was started from is not removed under it.
EngineFileKept == \A c \in alive : c \notin doomed => c.gen \in files

\* cleanup_cancelled_wait_role, begin_candidate_failure: no path out of a switch removes
\* a file that a running engine or a recovery needs.
FilesKept == OldGenerationRecoverable /\ EngineFileKept

\* A control client is left waiting only for work that is still going on.
NoStrandedWaiter == Idle /\ waiters /\ ~shutdown => convergence_busy

\* Active, as `status` reports it, means: the module is held, its listeners are
\* those of the supervised engine, and that generation is the committed one.  Only
\* a teardown that is under way, or an engine that has died or been killed, is
\* reported otherwise.
ActiveIsCommitted ==
    Idle /\ phase = "Active" /\ ~cancel /\ engine \in alive \ doomed =>
        kmod.open /\ kmod.listen = engine.gen /\ committed = engine.gen

\* Nothing is left for the reactor to react to.
Quiescent ==
    /\ Idle /\ evt = {} /\ ~timers.debounce /\ ~timers.backoff /\ ~convergence_busy
    /\ ~disabled /\ ~shutdown
    /\ engine # NoChild => engine \in alive \ doomed

\* A configuration is usable if it is valid and no fake address of any engine is among
\* what its policy, or another policy beside its engine, bypasses.  One that is valid
\* only by itself may be dropped (candidate_policy, candidate_user) and not tried again.
Usable(v) ==
    v # 0 /\ \A w \in Version : <<v, w>> \notin Overlap /\ <<w, v>> \notin Overlap

\* When everything has settled, no timer runs, and the switch, Wi-Fi and a usable
\* configuration call for it, the data plane is active: no retryable failure at
\* any point leaves the reactor at rest with nothing running.
QuiescentIsActive == Quiescent /\ ~paused /\ Usable(disk) => phase = "Active"

\* ... and as long as nothing has failed, the engine runs the configuration on
\* disk: an edit that lands in the middle of a transaction is never lost.
QuiescentIsCurrent ==
    Quiescent /\ ~paused /\ Usable(disk) /\ failures = MaxFailures => engine.user = disk

\* finish_transaction_error, run_queued_convergence: at rest the data plane is active, and
\* current unless something failed.  Failures the code does not retry (a state root it
\* refuses, a rejected check, a missing binary, a policy that cannot be applied) are
\* not among the Faults this is stated for.
RestIsConverged == QuiescentIsActive /\ QuiescentIsCurrent

\* A stop that was accepted is carried out.
StopTerminates == shutdown ~> exited

\* Every waiting client is answered.
WaitersAnswered == waiters ~> ~waiters \/ exited

-----------------------------------------------------------------------------
(* Statements of the documents that the code does not keep *)

\* "enable => engine restarted" (tests/daemon_e2e.rs): with the switch on, no
\* pause and a valid configuration, a reactor with nothing left to do has an
\* engine.
EnableHonoured == Quiescent /\ ~paused /\ disk # 0 => engine # NoChild

\* "policy, 4/4 sockets and LOCAL_OUT verified; steal armed": whenever status
\* reports Active the module has UIDs to steal for.
ActiveIsArmed == Idle /\ phase = "Active" /\ policy # 0 => kmod.uids

\* "A new policy must be safe for the currently active engine before it is installed"
\* (reactor.rs, converge): a reactor at rest does not steer by a policy that sends the
\* fake addresses of its engine past it.
PolicySuitsEngine == Quiescent /\ phase = "Active" => <<policy, engine.user>> \notin Overlap
=============================================================================
