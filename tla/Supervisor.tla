----------------------------- MODULE Supervisor -----------------------------
(***************************************************************************)
(* `fluxd daemon` as processes: supervisors (crates/fluxd/src/supervisor.rs) *)
(* that spawn a reactor, wait for it, forward signals and restart it; the   *)
(* start of the reactor as far as the others see it (run_daemon: the        *)
(* instance lock, then the signalfd, then the event loop); and the command  *)
(* `fluxd stop` (main.rs), which probes the lock when no reactor answers.   *)
(*                                                                         *)
(* Abstractions.  Standard signals do not queue: a pending set.  SIGINT is  *)
(* SIGTERM.  A deadline may expire at any time once it is set, so the       *)
(* length of a backoff and the crash count it depends on are left out.      *)
(* How a reactor that was told to stop comes to its exit is module          *)
(* Reactor's subject; here it may also hang.                                *)
(***************************************************************************)
EXTENDS Naturals, FiniteSets

CONSTANTS
    Sup,        \* invocations of `fluxd daemon`, each with its reactor
    MaxSignals, \* signals users send to supervisors
    MaxCrashes, \* spawns that fail, reactors that die, supervisors that are killed
    MaxStops    \* invocations of `fluxd stop`

ASSUME SupervisorAssumption ==
    IsFiniteSet(Sup) /\ MaxSignals \in Nat /\ MaxCrashes \in Nat /\ MaxStops \in Nat

VARIABLES
    spc,        \* where each supervisor is
    sig,        \* signals pending at each supervisor
    stopping,   \* it has forwarded a stop and runs against STOP_GRACE
    left,       \* why it left
    reactor,    \* its reactor process
    outcome,    \* how that process ended
    lock,       \* who has run/daemon.lock: a supervisor's reactor, a probe, nobody
    cli,        \* the command `fluxd stop`
    signals, crashes, stops

vars == <<spc, sig, stopping, left, reactor, outcome, lock, cli, signals, crashes, stops>>
budget == <<signals, crashes, stops>>
sups == <<spc, stopping, left>>

CONSTANTS Nobody, Probe     \* the lock is free, or with `fluxd stop`
ASSUME HolderAssumption == Nobody \notin Sup /\ Probe \notin Sup /\ Nobody # Probe

\* A process that is in the reactor's code and holds the lock.
Holding == {"locked", "running", "ending"}
Alive == Holding \cup {"boot"}
\* A supervisor that still looks after a reactor, or will start one.
Supervising == {"spawn", "wait", "backoff"}

Init ==
    /\ spc = [s \in Sup |-> "new"] /\ sig = [s \in Sup |-> {}]
    /\ stopping = [s \in Sup |-> FALSE] /\ left = [s \in Sup |-> "no"]
    /\ reactor = [s \in Sup |-> "none"] /\ outcome = [s \in Sup |-> "none"]
    /\ lock = Nobody /\ cli = "idle"
    /\ signals = MaxSignals /\ crashes = MaxCrashes /\ stops = MaxStops

Crashes == crashes > 0 /\ crashes' = crashes - 1 /\ UNCHANGED <<signals, stops>>

-----------------------------------------------------------------------------
(* The reactor process *)

\* Mutant of Ends: the lock outlives its process, as the existence of a file would.
Ends_Stale(s, how, taken) ==
    /\ UNCHANGED lock
    /\ reactor' = [reactor EXCEPT ![s] = IF spc[s] = "wait" THEN "zombie" ELSE "none"]
    /\ outcome' = [outcome EXCEPT ![s] = how]
    /\ sig' = [sig EXCEPT ![s] = (@ \ taken) \cup {"CHLD"}]

\* The process of s ends while its supervisor handles the signals taken.  The
\* kernel drops the flock.  The parent gets SIGCHLD and a zombie; an orphan is
\* reaped at once.
Ends(s, how, taken) ==
    /\ lock' = IF lock = s THEN Nobody ELSE lock
    /\ reactor' = [reactor EXCEPT ![s] = IF spc[s] = "wait" THEN "zombie" ELSE "none"]
    /\ outcome' = [outcome EXCEPT ![s] = how]
    /\ sig' = [sig EXCEPT ![s] = (@ \ taken) \cup {"CHLD"}]

\* Mutant of Acquire: the lock is shared.
Acquire_Shared(s) ==
    /\ reactor[s] = "boot"
    /\ lock' = s /\ reactor' = [reactor EXCEPT ![s] = "locked"]
    /\ UNCHANGED <<sups, sig, outcome, cli, budget>>

\* InstanceLock::acquire: flock(LOCK_EX | LOCK_NB); exit code 3 when it is held.
Acquire(s) ==
    /\ reactor[s] = "boot"
    /\ IF lock = Nobody
       THEN /\ lock' = s /\ reactor' = [reactor EXCEPT ![s] = "locked"]
            /\ UNCHANGED <<outcome, sig>>
       ELSE Ends(s, "held", {})
    /\ UNCHANGED <<sups, cli, budget>>

\* Reactor::new: the signals are blocked and the control socket is bound.
Ready(s) ==
    /\ reactor[s] = "locked" /\ reactor' = [reactor EXCEPT ![s] = "running"]
    /\ UNCHANGED <<sups, sig, outcome, lock, cli, budget>>

\* run returns 0 once a requested shutdown is through.
Finish(s) ==
    /\ reactor[s] = "ending" /\ Ends(s, "ok", {})
    /\ UNCHANGED <<sups, cli, budget>>

\* The start fails with exit code 1, or the process dies at any point.
Dies(s) ==
    /\ reactor[s] \in Alive /\ Crashes /\ Ends(s, "died", {})
    /\ UNCHANGED <<sups, cli>>

-----------------------------------------------------------------------------
(* The supervisor *)

\* service.sh, or a user, runs `fluxd daemon`.
Invoke(s) ==
    /\ spc[s] = "new" /\ spc' = [spc EXCEPT ![s] = "spawn"]
    /\ UNCHANGED <<sig, stopping, left, reactor, outcome, lock, cli, budget>>

Signal(s, x) ==
    /\ spc[s] \in Supervising /\ signals > 0 /\ signals' = signals - 1
    /\ sig' = [sig EXCEPT ![s] = @ \cup {x}]
    /\ UNCHANGED <<sups, reactor, outcome, lock, cli, crashes, stops>>

\* spawn_reactor, then wait_for_reactor with a fresh `stopping`.
spawn_reactor(s) ==
    /\ spc[s] = "spawn" /\ spc' = [spc EXCEPT ![s] = "wait"]
    /\ stopping' = [stopping EXCEPT ![s] = FALSE]
    /\ reactor' = [reactor EXCEPT ![s] = "boot"]
    /\ outcome' = [outcome EXCEPT ![s] = "none"]
    /\ UNCHANGED <<sig, left, lock, cli, budget>>

\* It fails, before or after the fork: a child that could not exec is reaped by
\* Command::spawn and leaves a SIGCHLD.
spawn_fails(s) ==
    /\ spc[s] = "spawn" /\ Crashes /\ spc' = [spc EXCEPT ![s] = "backoff"]
    /\ sig' = sig \/ sig' = [sig EXCEPT ![s] = @ \cup {"CHLD"}]
    /\ UNCHANGED <<stopping, left, reactor, outcome, lock, cli>>

\* Mutant of decide_reactor_outcome: a requested stop is not told from an outcome.
decide_reactor_outcome_Raw(s, how, stop) ==
    /\ reactor' = [reactor EXCEPT ![s] = "none"]
    /\ IF stop \/ how \in {"ok", "held"}
       THEN spc' = [spc EXCEPT ![s] = "gone"] /\ left' = [left EXCEPT ![s] = how]
       ELSE spc' = [spc EXCEPT ![s] = "backoff"] /\ UNCHANGED left

\* run: what decide_reactor_outcome makes of an outcome.
decide_reactor_outcome(s, how, stop) ==
    /\ reactor' = [reactor EXCEPT ![s] = "none"]
    /\ IF stop \/ how \in {"ok", "held"}
       THEN /\ spc' = [spc EXCEPT ![s] = "gone"]
            /\ left' = [left EXCEPT ![s] = IF stop THEN "stopped" ELSE how]
       ELSE spc' = [spc EXCEPT ![s] = "backoff"] /\ UNCHANGED left

\* Mutant of take_chld: with a reload pending the zombie is left for another SIGCHLD.
take_chld_Later(s) ==
    /\ spc[s] = "wait" /\ "CHLD" \in sig[s]
    /\ sig' = [sig EXCEPT ![s] = @ \ {"CHLD"}]
    /\ IF reactor[s] = "zombie" /\ "HUP" \notin sig[s]
       THEN decide_reactor_outcome(s, outcome[s], stopping[s])
       ELSE UNCHANGED <<spc, left, reactor>>
    /\ UNCHANGED <<stopping, outcome, lock, cli, budget>>

\* SIGCHLD: try_reap; a stale one finds the reactor alive.
take_chld(s) ==
    /\ spc[s] = "wait" /\ "CHLD" \in sig[s]
    /\ sig' = [sig EXCEPT ![s] = @ \ {"CHLD"}]
    /\ IF reactor[s] = "zombie"
       THEN decide_reactor_outcome(s, outcome[s], stopping[s])
       ELSE UNCHANGED <<spc, left, reactor>>
    /\ UNCHANGED <<stopping, outcome, lock, cli, budget>>

\* A signal is taken and forwarded: a reactor that has no signalfd yet dies of it.
Forward(s, x) ==
    IF reactor[s] \in {"boot", "locked"}
    THEN Ends(s, "died", {x})
    ELSE /\ sig' = [sig EXCEPT ![s] = @ \ {x}]
         /\ reactor' = IF reactor[s] = "running" /\ x = "TERM"
                       THEN [reactor EXCEPT ![s] = "ending"] ELSE reactor
         /\ UNCHANGED <<outcome, lock>>

\* SIGTERM or SIGINT: the stop is forwarded, once more each time it comes.
take_term(s) ==
    /\ spc[s] = "wait" /\ "TERM" \in sig[s] /\ Forward(s, "TERM")
    /\ stopping' = [stopping EXCEPT ![s] = TRUE]
    /\ UNCHANGED <<spc, left, cli, budget>>

\* SIGHUP.
take_hup(s) ==
    /\ spc[s] = "wait" /\ "HUP" \in sig[s] /\ Forward(s, "HUP")
    /\ UNCHANGED <<sups, cli, budget>>

\* Mutant of force_stop: the process is signalled but not waited for.
force_stop_Leaves(s) ==
    /\ spc[s] = "wait" /\ stopping[s]
    /\ spc' = [spc EXCEPT ![s] = "gone"] /\ left' = [left EXCEPT ![s] = "stopped"]
    /\ UNCHANGED <<sig, stopping, reactor, outcome, lock, cli, budget>>

\* STOP_GRACE is over, whatever is pending: reap what has ended, else SIGKILL and
\* wait for it.
force_stop(s) ==
    /\ spc[s] = "wait" /\ stopping[s]
    /\ lock' = IF lock = s THEN Nobody ELSE lock
    /\ decide_reactor_outcome(s, outcome[s], TRUE)
    /\ UNCHANGED <<sig, stopping, outcome, cli, budget>>

\* wait_backoff runs out: restart.
backoff_expires(s) ==
    /\ spc[s] = "backoff" /\ spc' = [spc EXCEPT ![s] = "spawn"]
    /\ UNCHANGED <<sig, stopping, left, reactor, outcome, lock, cli, budget>>

\* Mutant of wait_backoff: a stop is discarded like the other signals.
wait_backoff_Deaf(s, x) ==
    /\ spc[s] = "backoff" /\ x \in sig[s]
    /\ sig' = [sig EXCEPT ![s] = @ \ {x}]
    /\ UNCHANGED <<sups, reactor, outcome, lock, cli, budget>>

\* wait_backoff takes a signal: a stop is honoured, the rest is discarded.
wait_backoff(s, x) ==
    /\ spc[s] = "backoff" /\ x \in sig[s]
    /\ sig' = [sig EXCEPT ![s] = @ \ {x}]
    /\ IF x = "TERM"
       THEN spc' = [spc EXCEPT ![s] = "gone"] /\ left' = [left EXCEPT ![s] = "stopped"]
       ELSE UNCHANGED <<spc, left>>
    /\ UNCHANGED <<stopping, reactor, outcome, lock, cli, budget>>

\* The supervisor is killed or cannot wait: its reactor goes on without it.
SupervisorDies(s) ==
    /\ spc[s] \in Supervising /\ Crashes
    /\ spc' = [spc EXCEPT ![s] = "gone"] /\ left' = [left EXCEPT ![s] = "killed"]
    /\ reactor' = [reactor EXCEPT ![s] = IF @ = "zombie" THEN "none" ELSE @]
    /\ UNCHANGED <<sig, stopping, outcome, lock, cli>>

-----------------------------------------------------------------------------
(* fluxd stop *)

Asked == cli = "idle" /\ stops > 0 /\ stops' = stops - 1 /\ UNCHANGED <<signals, crashes>>

\* The request reaches a running reactor.
StopRequest(s) ==
    /\ Asked /\ reactor[s] = "running" /\ reactor' = [reactor EXCEPT ![s] = "ending"]
    /\ UNCHANGED <<sups, sig, outcome, lock, cli>>

\* It does not: instance_lock_held takes the lock to see whether it is held.
instance_lock_held ==
    /\ Asked
    /\ IF lock = Nobody THEN lock' = Probe /\ cli' = "probing" ELSE UNCHANGED <<lock, cli>>
    /\ UNCHANGED <<sups, sig, reactor, outcome>>

\* ... and drops it: "daemon is not running".
StopExits ==
    /\ cli = "probing" /\ cli' = "idle" /\ lock' = Nobody
    /\ UNCHANGED <<sups, sig, reactor, outcome, budget>>

-----------------------------------------------------------------------------
Reactors(s) == Acquire(s) \/ Ready(s)
Waits(s) ==
    \/ spawn_reactor(s) \/ take_chld(s) \/ take_term(s) \/ take_hup(s)
    \/ force_stop(s) \/ backoff_expires(s)
    \/ \E x \in {"CHLD", "HUP", "TERM"} : wait_backoff(s, x)

Next ==
    \/ \E s \in Sup :
          \/ Reactors(s) \/ Finish(s) \/ Dies(s)
          \/ Invoke(s) \/ Signal(s, "TERM") \/ Signal(s, "HUP")
          \/ Waits(s) \/ spawn_fails(s) \/ SupervisorDies(s) \/ StopRequest(s)
    \/ instance_lock_held \/ StopExits

Spec == Init /\ [][Next]_vars

\* Supervisors and starting reactors run; STOP_GRACE and a backoff end.  A reactor
\* that was told to stop may hang, and nobody has to invoke, signal or ask.
Fairness ==
    \A s \in Sup :
          /\ WF_vars(Reactors(s)) /\ WF_vars(spawn_reactor(s)) /\ WF_vars(take_chld(s))
          /\ WF_vars(take_term(s)) /\ WF_vars(force_stop(s)) /\ WF_vars(backoff_expires(s))

FairSpec == Spec /\ Fairness

-----------------------------------------------------------------------------
(* Properties *)

\* Every variable holds a value of its kind.
TypeOK ==
    /\ spc \in [Sup -> {"new", "gone"} \cup Supervising]
    /\ sig \in [Sup -> SUBSET {"CHLD", "TERM", "HUP"}]
    /\ stopping \in [Sup -> BOOLEAN]
    /\ left \in [Sup -> {"no", "ok", "held", "stopped", "killed"}]
    /\ reactor \in [Sup -> {"none", "zombie"} \cup Alive]
    /\ outcome \in [Sup -> {"none", "ok", "held", "died"}]
    /\ lock \in Sup \cup {Nobody, Probe} /\ cli \in {"idle", "probing"}
    /\ signals \in 0..MaxSignals /\ crashes \in 0..MaxCrashes /\ stops \in 0..MaxStops

\* At most one reactor is past the instance lock, the orphans of killed supervisors
\* and the reactors of supervisors that are about to kill theirs included.
OneInstance == \A s, t \in Sup : reactor[s] \in Holding /\ reactor[t] \in Holding => s = t

\* A supervisor that has returned from run leaves no reactor behind, running or
\* unreaped, unless it was killed itself.
NoneAbandoned == \A s \in Sup : spc[s] = "gone" /\ left[s] # "killed" => reactor[s] = "none"

\* A SIGTERM or SIGINT ends the supervisor: while the reactor starts, runs, hangs
\* in its shutdown, has just died, or is not there during a backoff.
StopHonoured == \A s \in Sup : "TERM" \in sig[s] ~> spc[s] = "gone"

\* No lockout: a supervisor that has not left comes to a running reactor again,
\* whatever signals and deaths came together.
Recovers ==
    \A s \in Sup : spc[s] \in Supervising ~> spc[s] = "gone" \/ reactor[s] \in {"running", "ending"}

\* Supervisors do not drive each other out: as long as nobody has run `fluxd stop`,
\* whose probe also takes the lock, one that leaves because the lock is held leaves
\* another behind, or one that has left for a reason of its own.
SomeoneServes ==
    (\E s \in Sup : left[s] = "held") /\ stops = MaxStops =>
        \E t \in Sup : spc[t] \in Supervising \/ left[t] \in {"ok", "stopped", "killed"}

\* stop_unreachable_exit: "Success requires proof the daemon is gone: `daemon.lock`
\* is not held" (main.rs).  When `fluxd stop` finds the lock free, no supervisor is
\* about to restart its reactor.
StopIsProof ==
    [][cli = "idle" /\ cli' = "probing" => \A s \in Sup : spc[s] # "backoff"]_vars
=============================================================================
