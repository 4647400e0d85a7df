---------------------------- MODULE Subscription ----------------------------
(***************************************************************************)
(* The subscription coordinator and the control clients that wait for it   *)
(* (reactor.rs and fluxd/subscription.rs): one fetch worker, the accepted  *)
(* but uncommitted responses (pending), the per-source cache, the queued   *)
(* work, the refresh timer, and the route observation that retries a       *)
(* failed fetch.                                                           *)
(*                                                                         *)
(* r is the reactor's state.  A handler of the event loop is one action,   *)
(* up to its call of converge; Converge and what the handler does after it *)
(* are a second one, and nothing else moves between them.  The functions a *)
(* handler calls are operators from state to state, composed in the order  *)
(* of the calls.  The engine transaction is reduced to the points where it *)
(* touches the coordinator (module Reactor has its steps, and what makes   *)
(* two configurations unfit for each other; here one that                  *)
(* validate_fakeip_bypass refuses is one that is not valid): r.txn is      *)
(* "check" up to the readiness of the candidate, "attach" while            *)
(* activation_role is a candidate, "recover" while the old generation is   *)
(* brought back, "stop" while cancelled work is being stopped.  Epochs are *)
(* compared only for equality and kept as booleans: recovered says         *)
(* route_recovery_epoch differs from fetch_route_epoch.                    *)
(***************************************************************************)
EXTENDS Control, Lifecycle

CONSTANTS Source,       \* remote sources a configuration may name
          Content,      \* distinct valid responses
          Offers,       \* what a fetch of each source may give
          Interval,     \* nodes.fetch.interval is not zero
          Edits,        \* configurations the user may write
          MaxEvents,    \* bound on edits, toggles, route changes and faults
          None          \* no policy, schedule, batch, response or engine config

VARIABLES
    r,          \* the reactor
    file,       \* the state root is Flux's own, and the files in it: sources,
                \* flux.toml valid, template valid
    route,      \* the device has a default route
    result,     \* the responses of the finished worker, until they are taken
    checked,    \* history: contents that passed the engine's check, per source
    fuel

subvars == <<r, file, route, result, checked, fuel, peer, req>>

Outcome == Content \cup {"invalid", "failed"}
File == [root : BOOLEAN, sources : SUBSET Source, valid : BOOLEAN, template : BOOLEAN]

ASSUME SubscriptionAssumption ==
    /\ IsFiniteSet(Source) /\ IsFiniteSet(Content) /\ Content # {} /\ Interval \in BOOLEAN
    /\ Offers \in [Source -> SUBSET Outcome]
    /\ Edits \subseteq File /\ MaxEvents \in Nat /\ None \notin Source \cup Content
    /\ None \notin [Source -> Content \cup {None}]

\* Two responses may name the same node: assemble_nodes refuses the pool.
\* Every source's last content has that node.
Clash(nodes) == Cardinality({s \in Source : nodes[s] = "c2"}) > 1

----------------------------------------------------------------------------
\* Derived facts of the reactor.

convergence_busy(s) == s.txn # "none"
Busy(s) == s.worker # {}
Claimed(s) == s.pending # None /\ s.pending.generation
overall_ok(s) == s.last = "none" /\ ~s.policy_error /\ ~s.sub_error

set_subscription_error(s) == [s EXCEPT !.sub_error = TRUE, !.last = "sub"]
clear_subscription_error(s) ==
    [s EXCEPT !.sub_error = FALSE,
              !.last = IF s.sub_error /\ s.last = "sub" THEN "none" ELSE s.last]
set_policy_error(s) == [s EXCEPT !.policy_error = TRUE, !.last = "policy"]
clear_policy_error(s) ==
    [s EXCEPT !.policy_error = FALSE,
              !.last = IF s.policy_error /\ s.last = "policy" THEN "none" ELSE s.last]

phase(s) == observe([disable_present |-> s.disabled, shutdown |-> s.shutdown,
                     ssid_paused |-> s.paused, engine_present |-> s.up,
                     dataplane_active |-> s.up /\ s.txn \in {"none", "check"},
                     awaiting_commit |-> s.txn \in {"attach", "recover"},
                     convergence_busy |-> convergence_busy(s)])

\* Mutant of complete_convergence_controls: subscribers wait for their deadline.
complete_convergence_controls_NotSubscribers(s) ==
    rearm_control_timer(complete_waiting_controls(s, "Converging", overall_ok(s)))

\* complete_convergence_controls: converging clients always, subscribers only
\* when their refresh has reached its end.
complete_convergence_controls(s) ==
    LET t == complete_waiting_controls(s, "Converging", overall_ok(s)) IN
    rearm_control_timer(
        IF ~Busy(t) /\ ~convergence_busy(t) /\ (t.pending = None \/ ~overall_ok(t))
        THEN complete_waiting_controls(t, "Subscribing", overall_ok(t)) ELSE t)

\* Mutant of refuse_subscribers: nobody is told.
refuse_subscribers_Silent(s) == s

refuse_subscribers(s) ==
    rearm_control_timer(complete_waiting_controls(s, "Subscribing", FALSE))

----------------------------------------------------------------------------
\* Fetching.

\* source_snapshots: pending bytes before the cache, for configured sources.
source_snapshots(s, sources) ==
    [x \in Source |->
        CASE x \notin sources -> None
          [] s.pending # None /\ x \in DOMAIN s.pending.raw -> s.pending.raw[x]
          [] OTHER -> s.cache[x]]

Missing(snapshots, sources) == \E x \in sources : snapshots[x] = None

refresh_default_route_observation(s) ==
    [s EXCEPT !.recovered = s.recovered \/ (~s.route_seen /\ route),
              !.route_seen = route]

\* Mutant of start_subscription_fetch_with: the worker is not asked whether it is busy.
start_subscription_fetch_with_Overlaps(s, sources) ==
    IF s.disabled \/ sources = {} THEN [ok |-> FALSE, s |-> s]
    ELSE [ok |-> TRUE, s |-> [s EXCEPT !.worker = sources, !.pending = None]]

\* start_subscription_fetch_with: [ok, s].  s.io says whether the thread starts.
start_subscription_fetch_with(s, sources) ==
    CASE s.disabled \/ sources = {} -> [ok |-> FALSE, s |-> s]
      [] ~s.disabled /\ sources # {} /\ Claimed(s) ->
            [ok |-> TRUE, s |-> [s EXCEPT !.fetch_queued = TRUE]]
      [] ~s.disabled /\ sources # {} /\ ~Claimed(s) /\ Busy(s) -> [ok |-> TRUE, s |-> s]
      [] OTHER ->
            LET t == [refresh_default_route_observation([s EXCEPT !.pending = None])
                        EXCEPT !.recovered = FALSE]
            IN [ok |-> s.io, s |-> IF s.io THEN [t EXCEPT !.worker = sources] ELSE t]

\* start_subscription_fetch reads the authority file itself.
start_subscription_fetch(s) ==
    IF s.disabled \/ ~file.valid THEN [ok |-> FALSE, s |-> s]
    ELSE start_subscription_fetch_with(s, file.sources)

OrError(started) == IF started.ok THEN started.s ELSE set_subscription_error(started.s)

\* rearm_subscription_timer: the schedule of the latest valid configuration.
rearm_subscription_timer(s) ==
    [s EXCEPT !.timer = s.schedule \notin {None, {}} /\ Interval
                        /\ ~s.shutdown /\ ~s.disabled]

ensure_subscription_schedule(s, sources) ==
    IF sources = {} THEN [s EXCEPT !.schedule = None, !.timer = FALSE]
    ELSE LET introduced == s.schedule = None \/ ~(sources \subseteq s.schedule)
             t == IF s.schedule = sources THEN s
                  ELSE rearm_subscription_timer([s EXCEPT !.schedule = sources])
         IN IF introduced /\ Missing(source_snapshots(t, sources), sources)
            THEN OrError(start_subscription_fetch_with(t, sources)) ELSE t

\* Mutant of prune_cache: a removed source keeps its bytes.
prune_cache_Keeps(s, sources) == s

\* prune_cache removes the entries of sources the configuration does not name.
prune_cache(s, sources) ==
    [s EXCEPT !.cache = [x \in Source |-> IF x \in sources THEN s.cache[x] ELSE None]]

\* Without remote sources there is nothing to retry, to queue or to wait for.
SourcesConfigured(s) ==
    IF s.policy # {} THEN s
    ELSE refuse_subscribers(clear_subscription_error(
            [s EXCEPT !.retry_on_route = FALSE, !.pending = None,
                      !.fetch_queued = FALSE, !.reconfigure_queued = FALSE]))

configure_subscription(s, changed) ==
    CASE s.policy = None -> s
      [] s.policy # None /\ changed /\ Claimed(s) -> [s EXCEPT !.reconfigure_queued = TRUE]
      [] OTHER -> SourcesConfigured(
                    prune_cache(ensure_subscription_schedule(s, s.policy), s.policy))

OrAnswer(started) ==
    IF started.ok THEN started.s
    ELSE complete_convergence_controls(set_subscription_error(started.s))

\* start_scheduled_subscription_fetch prefers the applied policy to the file.
start_scheduled_subscription_fetch(s) ==
    LET sources == IF s.policy # None THEN s.policy
                   ELSE IF file.valid THEN file.sources ELSE {}
    IN IF sources = {} THEN s ELSE OrAnswer(start_subscription_fetch_with(s, sources))

maybe_retry_subscription_on_route(s) ==
    LET before == [s EXCEPT !.recovered = FALSE]
        t == refresh_default_route_observation(before)
        u == [t EXCEPT !.recovered = t.recovered \/ s.recovered]
    IN IF ~s.retry_on_route \/ ~t.recovered THEN u
       ELSE start_scheduled_subscription_fetch([u EXCEPT !.retry_on_route = FALSE])

\* resume_queued_subscription_work: a queued reconfiguration covers the fetch.
resume_queued_subscription_work(s) ==
    CASE convergence_busy(s) -> s
      [] ~convergence_busy(s) /\ s.reconfigure_queued ->
            configure_subscription([s EXCEPT !.reconfigure_queued = FALSE,
                !.fetch_queued = FALSE, !.engine_config_changed = TRUE], TRUE)
      [] ~convergence_busy(s) /\ ~s.reconfigure_queued /\ s.fetch_queued ->
            OrError(start_subscription_fetch([s EXCEPT !.fetch_queued = FALSE]))
      [] OTHER -> s

\* Mutant of commit_pending_subscription: any batch is committed.
commit_pending_subscription_Any(s, generation) ==
    IF s.pending = None THEN [ok |-> TRUE, s |-> s]
    ELSE [ok |-> TRUE, s |-> [s EXCEPT !.pending = None, !.cache =
            [x \in Source |-> IF x \in DOMAIN s.pending.raw THEN s.pending.raw[x]
                              ELSE s.cache[x]]]]

\* commit_pending_subscription: [ok, s]; the batch of that generation, or of none.  A
\* fault of the write is spent here.
commit_pending_subscription(s, generation) ==
    IF s.pending = None \/ s.pending.generation # generation
    THEN [ok |-> TRUE, s |-> s]
    ELSE LET raw == s.pending.raw
             taken == [s EXCEPT !.pending = None, !.io = TRUE]
             new == IF s.policy = None THEN {}
                    ELSE {x \in DOMAIN raw \cap s.policy : s.cache[x] # raw[x]}
         IN CASE new = {} -> [ok |-> TRUE, s |-> taken]
              [] new # {} /\ s.io -> [ok |-> TRUE, s |-> [taken EXCEPT !.cache =
                    [x \in Source |-> IF x \in new THEN raw[x] ELSE s.cache[x]]]]
              [] OTHER -> [ok |-> FALSE, s |-> set_subscription_error(taken)]

\* Coordinator::reset_on_disable.
reset_on_disable(s) ==
    [s EXCEPT !.schedule = None, !.retry_on_route = FALSE, !.route_seen = FALSE,
              !.pending = None, !.fetch_queued = FALSE, !.reconfigure_queued = FALSE]

----------------------------------------------------------------------------
\* Convergence and the engine transaction, as far as the coordinator sees them.

\* cancel_engine_work: what runs is stopped, what is being checked is killed.
cancel_engine_work(s) ==
    IF s.txn = "none" /\ ~s.up THEN s
    ELSE [s EXCEPT !.txn = "stop", !.up = s.up /\ s.txn = "check"]

\* deactivate_runtime leaves a complete recomputation for the next activation.
deactivate_runtime(s) ==
    [cancel_engine_work(s) EXCEPT !.reload_requested = TRUE, !.policy_changed = TRUE,
        !.engine_config_changed = TRUE, !.topology_changed = FALSE, !.backoff = FALSE]

converge_disabled(s) ==
    deactivate_runtime(reset_on_disable(
        [refuse_subscribers([s EXCEPT !.paused = FALSE]) EXCEPT !.timer = FALSE]))

\* evaluate_ssid, with a policy or without one: the Wi-Fi is watched, and what it is now
\* decides.  A list that cannot be read, like an empty one, pauses nothing.
evaluate_ssid(s, known) ==
    [s EXCEPT !.watched = known, !.paused = known /\ s.wlan, !.wifi_changed = FALSE]

\* read_engine_config on the snapshots: [user, s].  A missing response and a pool
\* that cannot be assembled are subscription errors, the rest is an engine error.
read_engine_config(s, sources) ==
    LET nodes == source_snapshots(s, sources)
        absent == nodes = [x \in Source |-> None]
    IN CASE ~file.template -> [user |-> None, s |-> [s EXCEPT !.last = "engine"]]
         [] file.template /\ Clash(nodes) ->
                [user |-> None, s |-> set_subscription_error(s)]
         [] file.template /\ ~Clash(nodes) /\ absent ->
                [user |-> None,
                 s |-> IF Missing(nodes, sources)
                       THEN (IF s.sub_error THEN s ELSE set_subscription_error(s))
                       ELSE [s EXCEPT !.last = "engine"]]
         [] OTHER -> [user |-> nodes, s |-> s]

\* start_generation_check claims the pending batch for the new generation.
start_generation_check(s, user) ==
    [s EXCEPT !.txn = "check", !.cand = user, !.backoff = FALSE,
              !.pending = IF s.pending = None THEN None
                          ELSE [raw |-> [x \in DOMAIN s.pending.raw \cap s.policy |->
                                            s.pending.raw[x]],
                                generation |-> TRUE]]

\* The end of converge once no transaction is running: nothing to do, or a new one.
Kept(committed) ==
    IF committed.ok /\ ~committed.s.policy_error /\ ~committed.s.sub_error
    THEN [committed.s EXCEPT !.last = "none"] ELSE committed.s

converge_engine(s, user) ==
    CASE s.up /\ user = None -> [s EXCEPT !.pending = None]
      [] s.up /\ user # None /\ user = s.user -> Kept(commit_pending_subscription(s, FALSE))
      [] OTHER -> IF user = None THEN s ELSE start_generation_check(s, user)

\* converge while Flux is enabled.  The candidate policy is the file's; the engine
\* candidate is built for it or, failing that, for the policy in force.
WantsEngine(s) ==
    ~convergence_busy(s) /\ (~s.up \/ s.reload_requested \/ s.engine_config_changed)
WantsPolicy(s) ==
    s.policy = None \/ s.reload_requested \/ s.policy_changed \/ s.topology_changed
NewPolicy(s) == WantsPolicy(s) /\ file.valid

Loaded(s) == [IF WantsPolicy(s) /\ ~file.valid THEN set_policy_error(s) ELSE s
                EXCEPT !.policy_changed = FALSE]

EngineCandidate(s, flux) ==
    IF flux = None THEN [user |-> None, s |-> [s EXCEPT !.last = "engine"]]
    ELSE read_engine_config(ensure_subscription_schedule(s, flux), flux)

\* The policy that will be in force, whose sources the engine candidate is built for.
Flux(s) == IF NewPolicy(s) THEN file.sources ELSE s.policy

Candidate(s) ==
    IF ~WantsEngine(s) THEN [user |-> None, s |-> Loaded(s)]
    ELSE EngineCandidate(Loaded(s), Flux(s))

\* A batch that gave no candidate is dropped, unless a generation holds it.
Dropped(s, unusable) ==
    IF unusable /\ s.pending # None /\ ~Claimed(s) THEN [s EXCEPT !.pending = None] ELSE s

PolicyApplied(s, new, url_changed) ==
    IF new THEN configure_subscription(
                    clear_policy_error([s EXCEPT !.policy = file.sources]), url_changed)
    ELSE s

Scheduled(s, busy) ==
    [IF s.schedule = None THEN configure_subscription(s, FALSE) ELSE s
        EXCEPT !.topology_changed = FALSE,
               !.reload_requested = s.reload_requested /\ busy,
               !.engine_config_changed = s.engine_config_changed /\ busy]

\* Only the Wi-Fi changed, and it changed nothing.
NothingElse(s) ==
    /\ s.wifi_changed /\ ~s.paused /\ s.up /\ ~convergence_busy(s)
    /\ ~(s.reload_requested \/ s.policy_changed \/ s.engine_config_changed \/ s.topology_changed)

\* s is the state converge was called in, read the engine candidate it gave and the
\* state after the Wi-Fi was looked at.
converge_with(s, read) ==
    LET next == Scheduled(PolicyApplied(Dropped(read.s, WantsEngine(s) /\ read.user = None),
                                        NewPolicy(s),
                                        s.policy # None /\ s.policy # file.sources),
                          convergence_busy(s))
    IN CASE read.s.paused -> deactivate_runtime(read.s)
         [] ~read.s.paused /\ NothingElse(s) -> read.s
         [] ~read.s.paused /\ ~NothingElse(s) /\ ~convergence_busy(s) /\ ~read.s.up
                /\ read.user = None ->
                [read.s EXCEPT !.reload_requested = FALSE, !.engine_config_changed = FALSE,
                               !.topology_changed = FALSE]
         [] ~read.s.paused /\ ~NothingElse(s) /\ convergence_busy(s) -> next
         [] OTHER -> converge_engine(next, read.user)

Observed(read, known) == [user |-> read.user, s |-> evaluate_ssid(read.s, known)]

converge_enabled(s) == converge_with(s, Observed(Candidate(s), Flux(s) # None))

\* A foreign object in the state root ends it; nothing asks for another try.
converge(s) ==
    CASE s.shutdown -> cancel_engine_work(s)
      [] ~s.shutdown /\ s.disabled -> converge_disabled(s)
      [] ~s.shutdown /\ ~s.disabled /\ ~file.root -> [s EXCEPT !.last = "root"]
      [] OTHER -> converge_enabled(s)

\* A handler that is to call converge, and what it does when converge returns:
\* settle the phase, answer a request, retry on the route, or answer who waits.
Idle == "idle"
Call(s, settle, what) == [s EXCEPT !.pc = "converge", !.settle = settle, !.then = what]
Settle(s) == [s EXCEPT !.phase = phase(s)]

CompleteIfIdle(s) == IF convergence_busy(s) THEN s ELSE complete_convergence_controls(s)

\* run_queued_convergence and the answer that follows it wherever it is called.
run_queued_convergence(s) ==
    IF ~s.shutdown /\ ~s.disabled /\
       (s.reload_requested \/ s.policy_changed \/ s.engine_config_changed \/ s.topology_changed)
    THEN Call(s, FALSE, "complete") ELSE CompleteIfIdle(s)

request_shutdown(s) ==
    IF s.shutdown THEN s
    ELSE cancel_engine_work([s EXCEPT !.shutdown = TRUE, !.timer = FALSE])

\* execute_commands, and the phase is settled.
execute_commands(s, row, stimulus, what) ==
    LET t == [s EXCEPT !.phase = row.phase] IN
       CASE "IgnoreUnexpected" \in row.commands -> s
         [] row.commands = {} -> t
         [] "ExitProcess" \in row.commands -> Settle(request_shutdown(t))
         [] stimulus \in {"Disable", "SsidPause"} /\ "StopEngine" \in row.commands ->
                Settle(deactivate_runtime(t))
         [] OTHER -> IF row.commands \cap NeedsConverge # {} THEN Call(t, TRUE, what)
                     ELSE Settle(t)

\* apply_stimulus: the table decides.
apply_stimulus(s, stimulus, what) ==
    execute_commands(s, step(s.phase, stimulus), stimulus, what)

\* finish_cancelled, reached when the stopped work is confirmed gone.
finish_cancelled(s) ==
    LET t == [s EXCEPT !.txn = "none", !.cand = None, !.old = FALSE] IN
    CASE s.up -> [s EXCEPT !.up = FALSE]
      [] ~s.up /\ s.disabled -> complete_convergence_controls([t EXCEPT !.last = "none"])
      [] ~s.up /\ ~s.disabled /\ ~s.shutdown -> Call(t, FALSE, "complete")
      [] OTHER -> t

discard_generation(s) ==
    [s EXCEPT !.pending = IF Claimed(s) THEN None ELSE s.pending]

\* finish_transaction_error; retry: is_retryable holds of the error.
finish_transaction_error(s, retry) ==
    run_queued_convergence(resume_queued_subscription_work(
        [discard_generation(s) EXCEPT !.txn = "none", !.cand = None, !.old = FALSE,
            !.last = "engine",
            !.backoff = s.backoff \/ (~s.up /\ ~s.disabled /\ ~s.shutdown /\ retry)]))

\* The tail of finish_phase6_activation.
activated(s) ==
    run_queued_convergence(resume_queued_subscription_work(
        [s EXCEPT !.txn = "none", !.cand = None, !.old = FALSE, !.up = TRUE]))

----------------------------------------------------------------------------
\* handle_subscription_result.

\* Only configured sources count: a late result cannot revive a removed one.
Accepted(got) == {x \in DOMAIN got \cap file.sources : got[x] \in Content}

Refused(got, why) == {x \in DOMAIN got \cap file.sources : got[x] = why}

\* What a failed source leaves behind: a retry when a default route comes, at once
\* when it came while the worker was fetching.
RetryOnRoute(s) == [s EXCEPT !.retry_on_route = ~s.recovered,
                             !.fetch_queued = s.fetch_queued \/ s.recovered]

Judged(s, got) ==
    LET failed == Refused(got, "failed") # {}
        t == rearm_subscription_timer(
                IF failed THEN RetryOnRoute(refresh_default_route_observation(s))
                ELSE [s EXCEPT !.retry_on_route = FALSE])
    IN IF failed \/ Refused(got, "invalid") # {} THEN set_subscription_error(t)
       ELSE clear_subscription_error(t)

\* A source configured since the worker started is fetched next.
judge_results(s, got) ==
    Judged([s EXCEPT !.fetch_queued = s.fetch_queued \/ ~(file.sources \subseteq DOMAIN got)], got)

AcceptResults(s, got) ==
    CASE s.disabled \/ file.sources = {} -> refuse_subscribers([s EXCEPT !.pending = None])
      [] ~s.disabled /\ file.sources # {} /\ Claimed(s) ->
            rearm_subscription_timer([s EXCEPT !.fetch_queued = TRUE])
      [] ~s.disabled /\ file.sources # {} /\ ~Claimed(s) /\ Accepted(got) = {} ->
            complete_convergence_controls(resume_queued_subscription_work(
                [judge_results(s, got) EXCEPT !.pending = None]))
      [] OTHER ->
            Call([judge_results(s, got) EXCEPT
                    !.pending = [raw |-> [x \in Accepted(got) |-> got[x]], generation |-> FALSE],
                    !.policy_changed = TRUE, !.engine_config_changed = TRUE],
                 FALSE, "complete")

handle_subscription_result(s, got) ==
    IF file.valid
    THEN AcceptResults(ensure_subscription_schedule([s EXCEPT !.worker = {}], file.sources), got)
    ELSE complete_convergence_controls(rearm_subscription_timer(
            set_subscription_error([s EXCEPT !.worker = {}])))

----------------------------------------------------------------------------
\* dispatch_request: the answer (or "wait") and the state after the request.

SetSwitch(s, off) ==
    [s EXCEPT !.disabled = off, !.evt = IF off # s.disabled THEN s.evt \cup {"switch"} ELSE s.evt]

Answered(s, c, ok) == rearm_control_timer(send_response(s, c, ok))
Waits(s, c, kind) == rearm_control_timer([s EXCEPT !.conns[c] = kind])
AnswerOrWait(s, c, ok) == IF convergence_busy(s) THEN Waits(s, c, "Converging")
                          ELSE Answered(s, c, ok)

\* enable, disable, reload and stop: what the request writes, and its stimulus.
Requested(s, op) ==
    CASE op \in {"enable", "disable"} -> SetSwitch(s, op = "disable")
      [] op = "reload" -> [s EXCEPT !.reload_requested = TRUE]
      [] op = "stop" -> s

StimulusOf == [enable |-> "Enable", disable |-> "Disable", reload |-> "Reload", stop |-> "Stop"]

\* The answer once the stimulus was applied, unless converge is still to run.
Applied(s, c, op) ==
    CASE s.pc # Idle -> s
      [] s.pc = Idle /\ op = "stop" -> Answered(s, c, TRUE)
      [] OTHER -> AnswerOrWait(s, c, op # "reload" \/ overall_ok(s))

Subscribed(started, c) ==
    IF started.ok /\ (Busy(started.s) \/ convergence_busy(started.s))
    THEN Waits(started.s, c, "Subscribing")
    ELSE Answered(started.s, c, started.ok /\ overall_ok(started.s))

dispatch_request(s, c, op) ==
    CASE op \in {"status", "check"} -> Answered(s, c, TRUE)
      [] op = "subscribe" -> Subscribed(start_subscription_fetch(s), c)
      [] OTHER -> Applied(apply_stimulus(Requested(s, op), StimulusOf[op], c), c, op)

\* handle_control_connection on an entry that is reading.
handle_reading(s, c) ==
    CASE peer[c] = "gone" \/ req[c] = "malformed" -> rearm_control_timer(Close(s, c))
      [] peer[c] # "gone" /\ req[c] \in Request -> dispatch_request(s, c, req[c])
      [] OTHER -> rearm_control_timer(s)

----------------------------------------------------------------------------
\* The event loop: one action per event.

\* s.io is the outcome of the handler's I/O (thread start, cache write); a fault
\* and every change of the environment cost fuel.
Steps(handler(_)) ==
    \E ok \in BOOLEAN :
        /\ ok \/ fuel > 0
        /\ r' = [handler([r EXCEPT !.io = ok]) EXCEPT !.io = TRUE]
        /\ fuel' = IF ok THEN fuel ELSE fuel - 1

Alive == ~r.exited /\ r.pc = Idle
Quiet == UNCHANGED <<file, route, result, checked, peer, req>>

\* What the handler does once converge has returned.
Resumed(s, what) ==
    CASE what = "complete" -> CompleteIfIdle(s)
      [] what = "route" -> maybe_retry_subscription_on_route(s)
      [] what = "none" -> s
      [] OTHER -> AnswerOrWait(s, what, req[what] # "reload" \/ overall_ok(s))

Settled(s, settle) == IF settle THEN Settle(s) ELSE s

\* converge, called by the handler in progress, and the rest of that handler.
Converge ==
    /\ r.pc = "converge"
    /\ LET h(s) == Resumed(Settled(
                converge([s EXCEPT !.pc = Idle, !.settle = FALSE, !.then = "none"]),
                s.settle), s.then)
       IN Steps(h)
    /\ req' = [c \in Client |-> IF c = r.then THEN "silent" ELSE req[c]]
    /\ UNCHANGED <<file, route, result, checked, peer>>

\* A frame is consumed by its handler; Converge still knows a request it answers.
Consumed(c) == IF r'.then = c THEN req ELSE [req EXCEPT ![c] = "silent"]

\* handle_control: the gate, then one attempt to read at once.
HandleControl(c) ==
    /\ Alive /\ peer[c] = "dialled"
    /\ peer' = [peer EXCEPT ![c] = "ready"]
    /\ IF Admitted(r, c) THEN LET h(s) == handle_reading(accept(s, c), c) IN Steps(h)
       ELSE UNCHANGED <<r, fuel>>
    /\ req' = Consumed(c)
    /\ UNCHANGED <<file, route, result, checked>>

HandleConnection(c) ==
    /\ Alive
    /\ \/ r.conns[c] = "Reading" /\ (peer[c] = "gone" \/ req[c] # "silent")
          /\ LET h(s) == handle_reading(s, c) IN Steps(h)
          /\ req' = Consumed(c)
       \/ r.conns[c] \in {"WritingOk", "WritingErr"} /\ peer[c] # "full"
          /\ r' = writable(r, c)
          /\ UNCHANGED <<req, fuel>>
    /\ UNCHANGED <<file, route, result, checked, peer>>

\* The control timer fires at the earliest deadline; later ones may have passed.
ExpireControls ==
    /\ Alive /\ r.ctimer
    /\ \E expired \in SUBSET Open(r) \ {{}} :
          r' = expire_control_connections(r, expired, overall_ok(r))
    /\ UNCHANGED fuel /\ Quiet

\* handle_inotify: the switch first, then the configuration is debounced.
InotifySwitch ==
    /\ Alive /\ "switch" \in r.evt
    /\ r' = apply_stimulus([r EXCEPT !.evt = r.evt \ {"switch"}],
                           IF r.disabled THEN "Disable" ELSE "Enable", "none")
    /\ UNCHANGED fuel /\ Quiet

InotifyConfig ==
    /\ Alive /\ r.evt = {"config"}
    /\ r' = [r EXCEPT !.evt = {}, !.policy_changed = TRUE, !.engine_config_changed = TRUE,
                      !.debounce = TRUE]
    /\ UNCHANGED fuel /\ Quiet

RouteChecked(s, drift) == IF drift /\ s.pc = Idle THEN maybe_retry_subscription_on_route(s) ELSE s

\* take_debounce_stimulus: the Wi-Fi is read before the stimulus is chosen.
LooksAtWifi(s) == s.wifi_changed /\ ~s.topology_changed
LookedAt(s) == IF LooksAtWifi(s) THEN evaluate_ssid(s, s.policy # None) ELSE s
take_debounce_stimulus(s) ==
    CASE LooksAtWifi(s) /\ LookedAt(s).paused -> "SsidPause"
      [] LooksAtWifi(s) /\ ~LookedAt(s).paused -> "SsidResume"
      [] ~LooksAtWifi(s) /\ s.topology_changed -> "CaptureSideDrift"
      [] OTHER -> "DebounceExpired"

Debounce ==
    /\ Alive /\ r.debounce
    /\ r' = RouteChecked(
                apply_stimulus(LookedAt([r EXCEPT !.debounce = FALSE]), take_debounce_stimulus(r),
                               IF r.topology_changed THEN "route" ELSE "none"),
                r.topology_changed)
    /\ UNCHANGED fuel /\ Quiet

Backoff ==
    /\ Alive /\ r.backoff
    /\ LET t == [r EXCEPT !.backoff = FALSE] IN
       r' = IF r.shutdown \/ r.disabled THEN cancel_engine_work(t)
            ELSE apply_stimulus(t, "BackoffExpired", "none")
    /\ UNCHANGED fuel /\ Quiet

\* The interval is hours: a refresh counts against the same bound as the user's events.
RefreshTimer ==
    /\ Alive /\ r.timer /\ fuel > 0 /\ fuel' = fuel - 1
    /\ r' = start_scheduled_subscription_fetch(rearm_subscription_timer(r))
    /\ Quiet

TakeResult ==
    /\ Alive /\ result # {}
    /\ \E got \in result :
          LET h(s) == handle_subscription_result(s, got) IN Steps(h)
    /\ result' = {}
    /\ UNCHANGED <<file, route, checked, peer, req>>

\* The candidate passes the engine's check and becomes ready, or does not.
CheckPasses ==
    /\ Alive /\ r.txn = "check"
    /\ r' = [r EXCEPT !.txn = "attach", !.old = r.up, !.up = TRUE]
    /\ checked' = [x \in Source |-> checked[x] \cup ({r.cand[x]} \ {None})]
    /\ UNCHANGED <<file, route, result, fuel, peer, req>>

CheckFails ==
    /\ Alive /\ r.txn = "check" /\ fuel > 0 /\ fuel' = fuel - 1
    /\ r' = finish_transaction_error(r, FALSE)
    /\ Quiet

Published(committed, published) ==
    CASE committed.ok /\ published ->
            activated([committed.s EXCEPT !.user = committed.s.cand, !.last = "none"])
      [] ~(committed.ok /\ published) /\ committed.s.old ->
            [discard_generation(committed.s) EXCEPT !.txn = "recover", !.up = FALSE]
      [] OTHER -> finish_transaction_error([committed.s EXCEPT !.up = FALSE], TRUE)

\* finish_phase6_activation of a candidate: the cache first, then active=1.  When the
\* cache cannot be written, or the publication fails, begin_candidate_failure starts
\* the old generation again, if there was one.
Activates ==
    /\ Alive /\ r.txn = "attach"
    /\ \E ok, published \in BOOLEAN :
        /\ (ok /\ published) \/ fuel > 0
        /\ fuel' = IF ok /\ published THEN fuel ELSE fuel - 1
        /\ r' = [Published(commit_pending_subscription([r EXCEPT !.io = ok], TRUE), published)
                    EXCEPT !.io = TRUE]
    /\ Quiet

Recovers ==
    /\ Alive /\ r.txn = "recover"
    /\ r' = activated([r EXCEPT !.last = "engine"])
    /\ UNCHANGED fuel /\ Quiet

RecoveryFails ==
    /\ Alive /\ r.txn = "recover"
    /\ r' = finish_transaction_error(r, TRUE)
    /\ UNCHANGED fuel /\ Quiet

Stopped ==
    /\ Alive /\ r.txn = "stop"
    /\ r' = finish_cancelled(r)
    /\ UNCHANGED fuel /\ Quiet

Exit ==
    /\ Alive /\ r.shutdown /\ ~r.up /\ r.txn = "none"
    /\ r' = [r EXCEPT !.exited = TRUE, !.conns = [c \in Client |-> "free"]]
    /\ Quiet /\ UNCHANGED fuel

----------------------------------------------------------------------------
\* The worker thread, the user and the network.

\* Worker: every configured source is tried; without a route nothing is reached.
WorkerDone ==
    /\ Alive /\ Busy(r) /\ result = {}
    /\ \E got \in [r.worker -> Outcome] :
          /\ \A x \in r.worker : got[x] \in IF route THEN Offers[x] ELSE {"failed"}
          /\ result' = {got}
    /\ UNCHANGED <<r, file, route, checked, fuel, peer, req>>

Edit ==
    /\ Alive /\ fuel > 0 /\ fuel' = fuel - 1
    /\ file' \in Edits \ {file}
    /\ r' = [r EXCEPT !.evt = r.evt \cup {"config"}]
    /\ UNCHANGED <<route, result, checked, peer, req>>

Toggle ==
    /\ Alive /\ fuel > 0 /\ fuel' = fuel - 1
    /\ r' = SetSwitch(r, ~r.disabled)
    /\ Quiet

RouteChanges ==
    /\ Alive /\ fuel > 0 /\ fuel' = fuel - 1
    /\ route' = ~route
    /\ r' = [r EXCEPT !.topology_changed = TRUE, !.debounce = TRUE]
    /\ UNCHANGED <<file, result, checked, peer, req>>

\* The device moves to another Wi-Fi: handle_nl80211 hears of it if the event group is
\* joined, and ignores it while Flux is disabled.
Roam ==
    /\ Alive /\ fuel > 0 /\ fuel' = fuel - 1
    /\ LET heard == r.watched /\ ~r.disabled IN
       r' = [r EXCEPT !.wlan = ~r.wlan, !.wifi_changed = r.wifi_changed \/ heard,
                      !.debounce = r.debounce \/ heard]
    /\ Quiet

Clients ==
    /\ Alive
    /\ \E c \in Client :
          \/ \E f \in Frames[c] : Connect(c, f)
          \/ r.conns[c] = "Reading" /\ \E f \in Frames[c] \ {"silent", "foreign"} : Send(c, f)
    /\ UNCHANGED <<r, file, route, result, checked, fuel>>

ClientStalls ==
    /\ Alive /\ fuel > 0 /\ fuel' = fuel - 1
    /\ \E c \in Client : r.conns[c] # "free" /\ PeerChanges(c)
    /\ UNCHANGED <<r, file, route, result, checked>>

ClientReads ==
    /\ Alive
    /\ \E c \in Client : peer[c] = "full" /\ peer' = [peer EXCEPT ![c] = "ready"]
    /\ UNCHANGED <<r, file, route, result, checked, fuel, req>>

----------------------------------------------------------------------------
\* The daemon starts with one configured source, cached or not, and boots.
SubInit ==
    /\ ControlInit
    /\ file = [root |-> TRUE, sources |-> {CHOOSE x \in Source : TRUE}, valid |-> TRUE, template |-> TRUE]
    /\ route = TRUE /\ result = {} /\ fuel = MaxEvents
    /\ \E cache \in [Source -> {None, CHOOSE x \in Content : TRUE}] :
        /\ \A x \in Source \ file.sources : cache[x] = None
        /\ checked = [x \in Source |-> {cache[x]} \ {None}]
        /\ r = apply_stimulus(
            [disabled |-> FALSE, shutdown |-> FALSE, exited |-> FALSE, phase |-> "Inactive",
             evt |-> {}, policy |-> None, policy_changed |-> FALSE,
             engine_config_changed |-> FALSE, reload_requested |-> FALSE,
             topology_changed |-> FALSE, debounce |-> FALSE, backoff |-> FALSE,
             wlan |-> FALSE, watched |-> FALSE, paused |-> FALSE, wifi_changed |-> FALSE,
             schedule |-> None, timer |-> FALSE, worker |-> {}, pending |-> None,
             fetch_queued |-> FALSE, reconfigure_queued |-> FALSE, retry_on_route |-> FALSE,
             route_seen |-> FALSE, recovered |-> FALSE, cache |-> cache,
             up |-> FALSE, user |-> None, txn |-> "none", cand |-> None, old |-> FALSE,
             sub_error |-> FALSE, policy_error |-> FALSE, last |-> "none",
             conns |-> [c \in Client |-> "free"],
             ctimer |-> FALSE, io |-> TRUE,
             pc |-> Idle, settle |-> FALSE, then |-> "none"], "Bootstrap", "none")

Loop == \/ \E c \in Client : HandleControl(c) \/ HandleConnection(c)
        \/ Converge \/ InotifySwitch \/ InotifyConfig \/ Debounce \/ Backoff \/ TakeResult
        \/ CheckPasses \/ CheckFails \/ Activates \/ Recovers \/ RecoveryFails
        \/ Stopped \/ Exit

SubNext == \/ Loop \/ ExpireControls \/ RefreshTimer \/ WorkerDone \/ Edit \/ Toggle
           \/ RouteChanges \/ Roam \/ Clients \/ ClientStalls \/ ClientReads

SubSpec == SubInit /\ [][SubNext]_subvars

\* The loop is never blocked: every ready event is handled; timers fire; a fetch is
\* bounded by its batch deadline; check, readiness, stop and recovery by the
\* transaction timer.  Clients, users and the route owe nothing.  Weak fairness is
\* spelled out with the guards that make the steps possible.
SubFair ==
    /\ \A c \in Client :
          []<>~(Alive /\ peer[c] = "dialled") \/ []<><<HandleControl(c)>>_subvars
    /\ []<>(r.pc = Idle) \/ []<><<Converge>>_subvars
    /\ []<>~(Alive /\ "switch" \in r.evt) \/ []<><<InotifySwitch>>_subvars
    /\ []<>~(Alive /\ r.evt = {"config"}) \/ []<><<InotifyConfig>>_subvars
    /\ []<>~(Alive /\ r.debounce) \/ []<><<Debounce>>_subvars
    /\ []<>~(Alive /\ r.backoff) \/ []<><<Backoff>>_subvars
    /\ []<>~(Alive /\ Busy(r) /\ result = {}) \/ []<><<WorkerDone>>_subvars
    /\ []<>~(Alive /\ result # {}) \/ []<><<TakeResult>>_subvars
    /\ []<>~(Alive /\ r.txn = "check") \/ []<><<CheckPasses \/ CheckFails>>_subvars
    /\ []<>~(Alive /\ r.txn = "attach") \/ []<><<Activates>>_subvars
    /\ []<>~(Alive /\ r.txn = "recover") \/ []<><<Recovers \/ RecoveryFails>>_subvars
    /\ []<>~(Alive /\ r.txn = "stop") \/ []<><<Stopped>>_subvars

SubFairSpec == SubSpec /\ SubFair

----------------------------------------------------------------------------
\* Properties.

\* commit_pending_subscription: what the cache holds was part of a configuration that
\* passed the engine's check; a response that was only fetched never gets there.
CacheWasChecked == \A x \in Source : r.cache[x] \in checked[x] \cup {None}

\* prune_cache: the bytes of a removed source are gone, or a queued reconfiguration
\* will remove them, before the source can be configured again.
RemovedIsPruned ==
    r.policy # None =>
        \A x \in Source \ r.policy : r.cache[x] # None => r.reconfigure_queued

\* rearm_control_timer: a connection is never left without a deadline.
ConnectionsExpire == Open(r) # {} => r.ctimer

\* complete_convergence_controls: a subscriber waits only while a fetch or a
\* transaction is under way, or a batch waits for one.
SubscriberHasReason ==
    r.pc = Idle /\ (\E c \in Client : r.conns[c] = "Subscribing")
        => Busy(r) \/ convergence_busy(r) \/ r.pending # None \/ r.shutdown

\* take_result and start: the worker is asked again only after its answer was taken,
\* so the responses in hand are always those of the latest request.
ResultIsCurrent == \A got \in result : DOMAIN got = r.worker

\* handle_subscription_result, finish_phase6_activation, finish_transaction_error: a
\* subscriber is answered by the end of its refresh and not only by its deadline, as
\* long as Flux stays switched on and no Wi-Fi pauses it.  Under a pause converge
\* returns before the batch is looked at: it stays pending without an error, and only
\* the deadline answers.
SubscriberAnswered ==
    [](~r.disabled /\ ~r.shutdown /\ ~r.paused) =>
        \A c \in Client : r.conns[c] = "Subscribing" ~> r.conns[c] # "Subscribing"

\* prune_cache, as long as Flux stays switched on: reset_on_disable forgets the queued
\* reconfiguration, and the bytes stay until the policy is next applied.
RemovedIsForgotten == [](~r.disabled) => []RemovedIsPruned

\* The refresh pipeline keeps its bytes apart: only checked responses are in the cache, no
\* late answer is taken for the latest request's, and a source that was removed is forgotten.
ResponsesAreSound == [](CacheWasChecked /\ ResultIsCurrent) /\ RemovedIsForgotten

\* handle_control_connection: whoever waits has a deadline; as long as Flux stays switched
\* on, and is not paused, a subscriber also has a reason to wait.  (Paused, a second
\* subscriber whose fetch cannot start drops the batch the first one waits for.)
NobodyWaitsInVain ==
    []ConnectionsExpire /\ ([](~r.disabled /\ ~r.paused) => []SubscriberHasReason)
=============================================================================
