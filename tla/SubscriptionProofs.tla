------------------------- MODULE SubscriptionProofs -------------------------
(***************************************************************************)
(* TLAPS proofs about the subscription coordinator and its clients, for    *)
(* any set of sources, responses and clients and any number of events.     *)
(*                                                                         *)
(* The handlers are compositions of functions from state to state, so the  *)
(* proof has one lemma for every function and composes them.  Tame is what *)
(* the coordinator's own functions promise of the state they return;       *)
(* Serves is what a handler promises; Takes is the same for a step that    *)
(* may throw the switch or see another Wi-Fi.  SubInv is the inductive     *)
(* invariant: where the bytes in the cache, in the running configuration,  *)
(* in the candidate and in a claimed batch come from.  Kind continues it   *)
(* while Flux stays switched on and is not paused: who holds the batch,    *)
(* and what a subscriber waits for.                                        *)
(***************************************************************************)
EXTENDS Subscription, TLAPS

----------------------------------------------------------------------------
\* States and what is said of them.

Fields == {"disabled", "shutdown", "exited", "phase", "evt", "policy", "policy_changed",
    "engine_config_changed", "reload_requested", "topology_changed", "debounce", "backoff",
    "wlan", "watched", "paused", "wifi_changed",
    "schedule", "timer", "worker", "pending", "fetch_queued", "reconfigure_queued",
    "retry_on_route", "route_seen", "recovered", "cache", "up", "user", "txn", "cand", "old",
    "sub_error", "policy_error", "last", "conns", "ctimer", "io", "pc", "settle", "then"}

IsState(s) == DOMAIN s = Fields /\ DOMAIN s.conns = Client

\* A connection in the table has a deadline.
Expires(s) == (\E c \in Client : s.conns[c] # "free") => s.ctimer

\* Somebody waits for a refresh.
Subscribers(s) == \E c \in Client : s.conns[c] = "Subscribing"

\* The cache has no bytes of a source the policy does not name, or a reconfiguration
\* is queued that removes them.
Pruned(s) ==
    s.policy # None => \A x \in Source \ s.policy : s.cache[x] # None => s.reconfigure_queued

\* Where the bytes come from: k[x] is what passed the check for source x.
Passed(v, k, x) == v = None \/ v \in k[x]
Sound(s, k) ==
    /\ IsState(s)
    /\ \A x \in Source : s.cache[x] \in Content \cup {None} /\ Passed(s.cache[x], k, x)
    /\ s.pending # None =>
          /\ s.pending.generation \in BOOLEAN
          /\ \A x \in DOMAIN s.pending.raw \cap Source : s.pending.raw[x] \in Content
    /\ s.user # None => \A x \in Source : Passed(s.user[x], k, x)
    /\ s.txn = "attach" => \A x \in Source : Passed(s.cand[x], k, x)
    /\ s.txn \in {"check", "attach"} /\ Claimed(s) =>
            \A x \in DOMAIN s.pending.raw \cap Source : s.pending.raw[x] = s.cand[x]
    /\ Expires(s)

\* Who holds the batch, and that a batch nobody holds will be looked at, by the end of
\* the transaction or by the convergence that is to run.
Held(s) ==
    /\ Claimed(s) => s.txn \in {"check", "attach"}
    /\ s.pending # None /\ ~Claimed(s) /\ (s.txn # "none" \/ s.up) => s.engine_config_changed

\* What a subscriber waits for.
Awaits(s) ==
    Subscribers(s) => Busy(s) \/ s.txn # "none" \/ (s.pc # Idle /\ s.then = "complete")

\* What the coordinator's functions leave alone, and the only direction in which they
\* move the rest: a batch is dropped, a fetch started, an entry removed, a client answered.
Core(s, t) ==
    /\ IsState(t)
    /\ t.txn = s.txn /\ t.up = s.up /\ t.user = s.user /\ t.cand = s.cand
    /\ t.disabled = s.disabled /\ t.shutdown = s.shutdown
    /\ t.pc = s.pc /\ t.then = s.then
    /\ t.pending = s.pending \/ t.pending = None
    /\ s.worker # {} => t.worker = s.worker
    /\ \A x \in Source : t.cache[x] = s.cache[x] \/ t.cache[x] = None
    /\ s.engine_config_changed => t.engine_config_changed
    /\ \A c \in Client : t.conns[c] = "Subscribing" => s.conns[c] = "Subscribing"
    /\ Expires(s) => Expires(t)

\* The same, with the Wi-Fi's verdict, the policy and the promise to prune.
Tame(s, t) ==
    Core(s, t) /\ t.paused = s.paused /\ t.policy = s.policy /\ (Pruned(s) => Pruned(t))

LEMMA CoreTrans ==
    ASSUME NEW s, NEW t, NEW u, Core(s, t), Core(t, u)
    PROVE  Core(s, u)
<1>1. \A x \in Source : u.cache[x] = s.cache[x] \/ u.cache[x] = None
  BY DEF Core
<1>2. \A c \in Client : u.conns[c] = "Subscribing" => s.conns[c] = "Subscribing"
  BY DEF Core
<1> QED BY <1>1, <1>2 DEF Core

LEMMA TameTrans ==
    ASSUME NEW s, NEW t, NEW u, Tame(s, t), Tame(t, u)
    PROVE  Tame(s, u)
BY CoreTrans DEF Tame

LEMMA TameSelf ==
    ASSUME NEW s, IsState(s)
    PROVE  Tame(s, s)
BY DEF Tame, Core

LEMMA CoreSound ==
    ASSUME NEW s, NEW t, NEW k, Sound(s, k), Core(s, t)
    PROVE  Sound(t, k)
<1>1. \A x \in Source : t.cache[x] \in Content \cup {None} /\ Passed(t.cache[x], k, x)
  BY DEF Sound, Core, Passed
<1>2. Claimed(t) => Claimed(s) /\ t.pending = s.pending
  BY DEF Core, Claimed
<1> QED BY <1>1, <1>2 DEF Sound, Core

LEMMA CoreHeld ==
    ASSUME NEW s, NEW t, Held(s), Core(s, t)
    PROVE  Held(t)
<1>1. Claimed(t) => Claimed(s) /\ t.pending = s.pending
  BY DEF Core, Claimed
<1>2. t.pending # None /\ ~Claimed(t) => s.pending # None /\ ~Claimed(s)
  BY DEF Core, Claimed
<1> QED BY <1>1, <1>2 DEF Held, Core

LEMMA CoreAwaits ==
    ASSUME NEW s, NEW t, Awaits(s), Core(s, t)
    PROVE  Awaits(t)
BY DEF Awaits, Core, Subscribers, Busy

----------------------------------------------------------------------------
\* The functions of the coordinator.

\* A change of fields that Core does not look at.
Beside == {"phase", "evt", "policy_changed", "reload_requested", "topology_changed", "debounce",
    "backoff", "schedule", "timer", "fetch_queued", "retry_on_route", "route_seen", "recovered",
    "wlan", "watched", "wifi_changed", "old", "sub_error", "policy_error", "last", "io", "settle"}

LEMMA BesideTame ==
    ASSUME NEW s, IsState(s), NEW t, IsState(t), \A f \in Fields \ Beside : t[f] = s[f]
    PROVE  Tame(s, t)
<1>1. /\ t.txn = s.txn /\ t.up = s.up /\ t.user = s.user /\ t.cand = s.cand
      /\ t.disabled = s.disabled /\ t.shutdown = s.shutdown
      /\ t.pc = s.pc /\ t.then = s.then /\ t.pending = s.pending /\ t.worker = s.worker
      /\ t.cache = s.cache /\ t.engine_config_changed = s.engine_config_changed
      /\ t.conns = s.conns /\ t.ctimer = s.ctimer /\ t.policy = s.policy
      /\ t.reconfigure_queued = s.reconfigure_queued /\ t.paused = s.paused
  BY DEF Fields, Beside
<1> QED BY <1>1 DEF Tame, Core, Expires, Pruned

LEMMA ErrorsTame ==
    ASSUME NEW s, IsState(s)
    PROVE  /\ Tame(s, set_subscription_error(s)) /\ Tame(s, clear_subscription_error(s))
           /\ Tame(s, set_policy_error(s)) /\ Tame(s, clear_policy_error(s))
<1>1. Tame(s, set_subscription_error(s))
  <2> DEFINE t == set_subscription_error(s)
  <2>1. IsState(t) /\ \A f \in Fields \ Beside : t[f] = s[f]
    BY DEF set_subscription_error, IsState, Fields, Beside
  <2> QED BY <2>1, BesideTame
<1>2. Tame(s, clear_subscription_error(s))
  <2> DEFINE t == clear_subscription_error(s)
  <2>1. IsState(t) /\ \A f \in Fields \ Beside : t[f] = s[f]
    BY DEF clear_subscription_error, IsState, Fields, Beside
  <2> QED BY <2>1, BesideTame
<1>3. Tame(s, set_policy_error(s))
  <2> DEFINE t == set_policy_error(s)
  <2>1. IsState(t) /\ \A f \in Fields \ Beside : t[f] = s[f]
    BY DEF set_policy_error, IsState, Fields, Beside
  <2> QED BY <2>1, BesideTame
<1>4. Tame(s, clear_policy_error(s))
  <2> DEFINE t == clear_policy_error(s)
  <2>1. IsState(t) /\ \A f \in Fields \ Beside : t[f] = s[f]
    BY DEF clear_policy_error, IsState, Fields, Beside
  <2> QED BY <2>1, BesideTame
<1> QED BY <1>1, <1>2, <1>3, <1>4

\* A new connection table, with the control timer armed for it.
LEMMA TableTame ==
    ASSUME NEW s, IsState(s), NEW t, IsState(t), Expires(t),
           \A f \in Fields \ (Beside \cup {"conns", "ctimer"}) : t[f] = s[f],
           \A c \in Client : t.conns[c] = "Subscribing" => s.conns[c] = "Subscribing"
    PROVE  Tame(s, t)
<1>1. /\ t.txn = s.txn /\ t.up = s.up /\ t.user = s.user /\ t.cand = s.cand
      /\ t.disabled = s.disabled /\ t.shutdown = s.shutdown
      /\ t.pc = s.pc /\ t.then = s.then /\ t.pending = s.pending /\ t.worker = s.worker
      /\ t.cache = s.cache /\ t.engine_config_changed = s.engine_config_changed
      /\ t.policy = s.policy /\ t.reconfigure_queued = s.reconfigure_queued
      /\ t.paused = s.paused
  BY DEF Fields, Beside
<1> QED BY <1>1 DEF Tame, Core, Pruned

LEMMA Rearmed ==
    ASSUME NEW s, IsState(s)
    PROVE  LET t == rearm_control_timer(s) IN
           /\ IsState(t) /\ Expires(t)
           /\ \A f \in Fields \ {"ctimer"} : t[f] = s[f]
BY DEF IsState, Fields, rearm_control_timer, Expires, Open

\* send_response answers one connection: it is closed or waits for room.
LEMMA Sent ==
    ASSUME NEW s, IsState(s), NEW c \in Client, NEW ok
    PROVE  LET t == send_response(s, c, ok) IN
           /\ IsState(t)
           /\ t.conns[c] \in {"free", "WritingOk", "WritingErr"}
           /\ \A d \in Client \ {c} : t.conns[d] = s.conns[d]
           /\ \A f \in Fields \ {"conns"} : t[f] = s[f]
<1>1. CASE peer[c] = "full"
  BY <1>1 DEF send_response, IsState, Fields
<1>2. CASE peer[c] # "full"
  BY <1>2 DEF send_response, Close, IsState, Fields
<1> QED BY <1>1, <1>2

\* complete_waiting_controls answers those of the kind, and only them.
LEMMA Completed ==
    ASSUME NEW s, IsState(s), NEW kind, NEW ok
    PROVE  LET t == complete_waiting_controls(s, kind, ok) IN
           /\ IsState(t)
           /\ \A f \in Fields \ {"conns"} : t[f] = s[f]
           /\ \A c \in Client :
                IF s.conns[c] = kind THEN t.conns[c] \in {"free", "WritingOk", "WritingErr"}
                ELSE t.conns[c] = s.conns[c]
<1> DEFINE table == [c \in Client |->
        IF s.conns[c] = kind THEN send_response(s, c, ok).conns[c] ELSE s.conns[c]]
           t == complete_waiting_controls(s, kind, ok)
<1>1. t = [s EXCEPT !.conns = table]
  BY DEF complete_waiting_controls
<1>2. \A c \in Client :
         IF s.conns[c] = kind THEN table[c] \in {"free", "WritingOk", "WritingErr"}
         ELSE table[c] = s.conns[c]
  BY Sent
<1>3. DOMAIN table = Client
  OBVIOUS
<1> HIDE DEF table
<1> QED BY <1>1, <1>2, <1>3 DEF IsState, Fields

LEMMA RefusedTame ==
    ASSUME NEW s, IsState(s)
    PROVE  /\ Tame(s, refuse_subscribers(s)) /\ ~Subscribers(refuse_subscribers(s))
           /\ \A f \in Fields \ {"conns", "ctimer"} : refuse_subscribers(s)[f] = s[f]
<1>a. PICK no : no = FALSE
  OBVIOUS
<1> DEFINE u == complete_waiting_controls(s, "Subscribing", no)
           t == rearm_control_timer(u)
<1>0. /\ IsState(u) /\ \A f \in Fields \ {"conns"} : u[f] = s[f]
      /\ \A c \in Client :
           IF s.conns[c] = "Subscribing" THEN u.conns[c] \in {"free", "WritingOk", "WritingErr"}
           ELSE u.conns[c] = s.conns[c]
  BY Completed
<1>1. /\ IsState(u) /\ \A f \in Fields \ {"conns"} : u[f] = s[f]
      /\ \A c \in Client : u.conns[c] # "Subscribing"
  <2> HIDE DEF u
  <2> QED BY <1>0
<1>2. IsState(t) /\ Expires(t) /\ \A f \in Fields \ {"ctimer"} : t[f] = u[f]
  BY <1>1, Rearmed
<1>3. refuse_subscribers(s) = t
  BY <1>a DEF refuse_subscribers
<1> HIDE DEF t, u
<1>4. \A c \in Client : t.conns[c] # "Subscribing"
  BY <1>1, <1>2 DEF Fields
<1>5. \A f \in Fields \ {"conns", "ctimer"} : t[f] = s[f]
  BY <1>1, <1>2
<1> QED BY <1>2, <1>3, <1>4, <1>5, TableTame DEF Subscribers

LEMMA CompleteTame ==
    ASSUME NEW s, IsState(s)
    PROVE  LET t == complete_convergence_controls(s) IN
           /\ Tame(s, t)
           /\ s.worker = {} /\ s.txn = "none" /\ (s.pending = None \/ ~overall_ok(s))
                => ~Subscribers(t)
<1> DEFINE u == complete_waiting_controls(s, "Converging", overall_ok(s))
           done == ~Busy(u) /\ ~convergence_busy(u) /\ (u.pending = None \/ ~overall_ok(u))
           w == IF done THEN complete_waiting_controls(u, "Subscribing", overall_ok(u)) ELSE u
           t == rearm_control_timer(w)
<1>1. /\ IsState(u) /\ \A f \in Fields \ {"conns"} : u[f] = s[f]
      /\ \A c \in Client : u.conns[c] = "Subscribing" => s.conns[c] = "Subscribing"
  BY Completed
<1>2. complete_convergence_controls(s) = t
  BY DEF complete_convergence_controls
<1> HIDE DEF u
<1>3. /\ IsState(w) /\ \A f \in Fields \ {"conns"} : w[f] = s[f]
      /\ \A c \in Client : w.conns[c] = "Subscribing" => s.conns[c] = "Subscribing"
      /\ done => \A c \in Client : w.conns[c] # "Subscribing"
  <2>1. CASE done
    <3>1. /\ IsState(w) /\ \A f \in Fields \ {"conns"} : w[f] = u[f]
          /\ \A c \in Client : w.conns[c] # "Subscribing"
      BY <2>1, <1>1, Completed
    <3> QED BY <3>1, <1>1
  <2>2. CASE ~done
    BY <2>2, <1>1
  <2> QED BY <2>1, <2>2
<1>4. s.worker = {} /\ s.txn = "none" /\ (s.pending = None \/ ~overall_ok(s)) => done
  BY <1>1 DEF Fields, Busy, convergence_busy, overall_ok
<1> HIDE DEF w, done
<1>5. IsState(t) /\ Expires(t) /\ \A f \in Fields \ {"ctimer"} : t[f] = w[f]
  BY <1>3, Rearmed
<1> HIDE DEF t
<1>6. /\ t.conns = w.conns /\ \A f \in Fields \ {"conns", "ctimer"} : t[f] = s[f]
  BY <1>3, <1>5 DEF Fields
<1>7. Tame(s, t)
  BY <1>3, <1>5, <1>6, TableTame
<1> QED BY <1>2, <1>3, <1>4, <1>6, <1>7 DEF Subscribers

LEMMA FetchTame ==
    ASSUME NEW s, IsState(s), NEW sources
    PROVE  Tame(s, start_subscription_fetch_with(s, sources).s)
<1> DEFINE t == start_subscription_fetch_with(s, sources).s
<1> SUFFICES Tame(s, t)
  OBVIOUS
<1>1. CASE s.disabled \/ sources = {}
  BY <1>1, TameSelf DEF start_subscription_fetch_with
<1>2. CASE ~(s.disabled \/ sources = {}) /\ Claimed(s)
  <2>1. t = [s EXCEPT !.fetch_queued = TRUE]
    BY <1>2 DEF start_subscription_fetch_with
  <2>2. IsState(t) /\ \A f \in Fields \ Beside : t[f] = s[f]
    BY <2>1 DEF IsState, Fields, Beside
  <2> QED BY <2>2, BesideTame
<1>3. CASE ~(s.disabled \/ sources = {}) /\ ~Claimed(s) /\ Busy(s)
  BY <1>3, TameSelf DEF start_subscription_fetch_with
<1>4. CASE ~(s.disabled \/ sources = {}) /\ ~Claimed(s) /\ ~Busy(s)
  <2> DEFINE u == [refresh_default_route_observation([s EXCEPT !.pending = None])
                        EXCEPT !.recovered = FALSE]
  <2>1. t = IF s.io THEN [u EXCEPT !.worker = sources] ELSE u
    BY <1>4 DEF start_subscription_fetch_with
  <2>2. IsState(u) /\ u.pending = None /\ \A f \in Fields \ (Beside \cup {"pending"}) : u[f] = s[f]
    BY DEF IsState, Fields, Beside, refresh_default_route_observation
  <2> HIDE DEF u
  <2>3. /\ IsState(t) /\ t.pending = None
        /\ \A f \in Fields \ (Beside \cup {"pending", "worker"}) : t[f] = s[f]
    BY <2>1, <2>2 DEF IsState, Fields, Beside
  <2> HIDE DEF t
  <2>4. /\ t.txn = s.txn /\ t.up = s.up /\ t.user = s.user /\ t.cand = s.cand
        /\ t.disabled = s.disabled /\ t.shutdown = s.shutdown
        /\ t.pc = s.pc /\ t.then = s.then
        /\ t.cache = s.cache /\ t.engine_config_changed = s.engine_config_changed
        /\ t.conns = s.conns /\ t.ctimer = s.ctimer /\ t.policy = s.policy
        /\ t.reconfigure_queued = s.reconfigure_queued /\ t.paused = s.paused
    BY <2>3 DEF Fields, Beside
  <2> QED BY <2>3, <2>4, <1>4 DEF Busy, Tame, Core, Expires, Pruned
<1> QED BY <1>1, <1>2, <1>3, <1>4

LEMMA OrErrorTame ==
    ASSUME NEW s, NEW started, Tame(s, started.s)
    PROVE  Tame(s, OrError(started)) /\ Tame(s, OrAnswer(started))
<1>1. IsState(started.s)
  BY DEF Tame, Core
<1>2. Tame(s, set_subscription_error(started.s))
  BY <1>1, ErrorsTame, TameTrans
<1>3. IsState(set_subscription_error(started.s))
  BY <1>2 DEF Tame, Core
<1>4. Tame(s, complete_convergence_controls(set_subscription_error(started.s)))
  BY <1>2, <1>3, CompleteTame, TameTrans
<1> QED BY <1>2, <1>4 DEF OrError, OrAnswer

LEMMA FileFetchTame ==
    ASSUME NEW s, IsState(s)
    PROVE  Tame(s, start_subscription_fetch(s).s)
BY FetchTame, TameSelf DEF start_subscription_fetch

LEMMA TimerTame ==
    ASSUME NEW s, IsState(s)
    PROVE  Tame(s, rearm_subscription_timer(s))
<1> DEFINE t == rearm_subscription_timer(s)
<1>1. IsState(t) /\ \A f \in Fields \ Beside : t[f] = s[f]
  BY DEF rearm_subscription_timer, IsState, Fields, Beside
<1> QED BY <1>1, BesideTame

LEMMA ScheduleTame ==
    ASSUME NEW s, IsState(s), NEW sources
    PROVE  Tame(s, ensure_subscription_schedule(s, sources))
<1>1. CASE sources = {}
  <2> DEFINE t == [s EXCEPT !.schedule = None, !.timer = FALSE]
  <2>1. IsState(t) /\ \A f \in Fields \ Beside : t[f] = s[f]
    BY DEF IsState, Fields, Beside
  <2> QED BY <2>1, <1>1, BesideTame DEF ensure_subscription_schedule
<1>2. CASE sources # {}
  <2> DEFINE u == [s EXCEPT !.schedule = sources]
             t == IF s.schedule = sources THEN s ELSE rearm_subscription_timer(u)
  <2>1. IsState(u) /\ \A f \in Fields \ Beside : u[f] = s[f]
    BY DEF IsState, Fields, Beside
  <2>2. Tame(s, u)
    BY <2>1, BesideTame
  <2>3. Tame(s, rearm_subscription_timer(u))
    BY <2>1, <2>2, TimerTame, TameTrans
  <2>4. Tame(s, t)
    BY <2>3, TameSelf
  <2>5. IsState(t)
    BY <2>4 DEF Tame, Core
  <2>6. ensure_subscription_schedule(s, sources) \in {t, OrError(start_subscription_fetch_with(t, sources))}
    BY <1>2 DEF ensure_subscription_schedule
  <2> HIDE DEF t
  <2>7. Tame(t, OrError(start_subscription_fetch_with(t, sources)))
    BY <2>5, FetchTame, OrErrorTame
  <2> QED BY <2>4, <2>6, <2>7, TameTrans
<1> QED BY <1>1, <1>2

LEMMA PruneCore ==
    ASSUME NEW s, IsState(s), NEW sources
    PROVE  LET t == prune_cache(s, sources) IN
           /\ Core(s, t) /\ \A f \in Fields \ {"cache"} : t[f] = s[f]
           /\ \A x \in Source \ sources : t.cache[x] = None
<1> DEFINE t == prune_cache(s, sources)
           rest == [x \in Source |-> IF x \in sources THEN s.cache[x] ELSE None]
<1>1. t = [s EXCEPT !.cache = rest]
  BY DEF prune_cache
<1> HIDE DEF t
<1>2. IsState(t) /\ t.cache = rest /\ \A f \in Fields \ {"cache"} : t[f] = s[f]
  BY <1>1 DEF IsState, Fields
<1>3. /\ t.txn = s.txn /\ t.up = s.up /\ t.user = s.user /\ t.cand = s.cand
      /\ t.disabled = s.disabled /\ t.shutdown = s.shutdown
      /\ t.pc = s.pc /\ t.then = s.then /\ t.pending = s.pending /\ t.worker = s.worker
      /\ t.engine_config_changed = s.engine_config_changed
      /\ t.conns = s.conns /\ t.ctimer = s.ctimer
  BY <1>2 DEF Fields
<1>4. \A x \in Source : t.cache[x] = IF x \in sources THEN s.cache[x] ELSE None
  BY <1>2
<1>5. Core(s, t)
  BY <1>2, <1>3, <1>4 DEF Core, Expires
<1>6. \A x \in Source \ sources : t.cache[x] = None
  BY <1>4
<1>7. /\ Core(s, t) /\ \A f \in Fields \ {"cache"} : t[f] = s[f]
      /\ \A x \in Source \ sources : t.cache[x] = None
  BY <1>2, <1>5, <1>6
<1> QED BY <1>7 DEF t

LEMMA ConfiguredCore ==
    ASSUME NEW s, IsState(s), \A x \in Source \ s.policy : s.cache[x] = None
    PROVE  LET t == SourcesConfigured(s) IN
           Core(s, t) /\ t.policy = s.policy /\ t.paused = s.paused /\ Pruned(t)
<1>1. CASE s.policy # {}
  BY <1>1, TameSelf DEF SourcesConfigured, Pruned, Tame
<1>2. CASE s.policy = {}
  <2> DEFINE u == [s EXCEPT !.retry_on_route = FALSE, !.pending = None,
                      !.fetch_queued = FALSE, !.reconfigure_queued = FALSE]
             w == clear_subscription_error(u)
             t == refuse_subscribers(w)
  <2>1. SourcesConfigured(s) = t
    BY <1>2 DEF SourcesConfigured
  <2>2. /\ IsState(u) /\ u.pending = None
        /\ \A f \in Fields \ {"retry_on_route", "pending", "fetch_queued", "reconfigure_queued"} : u[f] = s[f]
    BY DEF IsState, Fields
  <2> HIDE DEF u
  <2>3. /\ u.txn = s.txn /\ u.up = s.up /\ u.user = s.user /\ u.cand = s.cand
        /\ u.disabled = s.disabled /\ u.shutdown = s.shutdown
        /\ u.pc = s.pc /\ u.then = s.then /\ u.worker = s.worker /\ u.cache = s.cache
        /\ u.engine_config_changed = s.engine_config_changed
        /\ u.conns = s.conns /\ u.ctimer = s.ctimer /\ u.policy = s.policy
        /\ u.paused = s.paused
    BY <2>2 DEF Fields
  <2>4. Core(s, u) /\ Pruned(u)
    BY <2>2, <2>3 DEF Core, Expires, Pruned
  <2>5. Tame(u, w)
    BY <2>2, ErrorsTame
  <2>6. Tame(w, t)
    BY <2>5, RefusedTame DEF Tame, Core
  <2>7. Tame(u, t)
    BY <2>5, <2>6, TameTrans
  <2> HIDE DEF t
  <2>8. Core(s, t) /\ t.policy = s.policy /\ t.paused = s.paused /\ Pruned(t)
    BY <2>3, <2>4, <2>7, CoreTrans DEF Tame
  <2> QED BY <2>1, <2>8
<1> QED BY <1>1, <1>2

\* After configure_subscription nothing of a removed source is left, or the
\* reconfiguration is queued.
LEMMA ConfigureCore ==
    ASSUME NEW s, IsState(s), NEW changed
    PROVE  LET t == configure_subscription(s, changed) IN
           Core(s, t) /\ t.policy = s.policy /\ t.paused = s.paused /\ Pruned(t)
<1>1. CASE s.policy = None
  BY <1>1, TameSelf DEF configure_subscription, Pruned, Tame
<1>2. CASE s.policy # None /\ changed /\ Claimed(s)
  <2> DEFINE t == [s EXCEPT !.reconfigure_queued = TRUE]
  <2>1. configure_subscription(s, changed) = t
    BY <1>2 DEF configure_subscription
  <2>2. /\ IsState(t) /\ t.reconfigure_queued
        /\ \A f \in Fields \ {"reconfigure_queued"} : t[f] = s[f]
    BY DEF IsState, Fields
  <2> HIDE DEF t
  <2>3. /\ t.txn = s.txn /\ t.up = s.up /\ t.user = s.user /\ t.cand = s.cand
        /\ t.disabled = s.disabled /\ t.shutdown = s.shutdown
        /\ t.pc = s.pc /\ t.then = s.then /\ t.worker = s.worker /\ t.cache = s.cache
        /\ t.engine_config_changed = s.engine_config_changed /\ t.pending = s.pending
        /\ t.conns = s.conns /\ t.ctimer = s.ctimer /\ t.policy = s.policy
        /\ t.paused = s.paused
    BY <2>2 DEF Fields
  <2>4. Core(s, t) /\ t.policy = s.policy /\ t.paused = s.paused /\ Pruned(t)
    BY <2>2, <2>3 DEF Core, Expires, Pruned
  <2> QED BY <2>1, <2>4
<1>3. CASE s.policy # None /\ ~(changed /\ Claimed(s))
  <2> DEFINE u == ensure_subscription_schedule(s, s.policy)
             w == prune_cache(u, s.policy)
             t == SourcesConfigured(w)
  <2>1. configure_subscription(s, changed) = t
    BY <1>3 DEF configure_subscription
  <2>2. Tame(s, u)
    BY ScheduleTame
  <2>3. IsState(u) /\ u.policy = s.policy /\ u.paused = s.paused
    BY <2>2 DEF Tame, Core
  <2> HIDE DEF u
  <2>4. /\ Core(u, w) /\ w.policy = s.policy /\ w.paused = s.paused
        /\ \A x \in Source \ s.policy : w.cache[x] = None
    BY <2>3, PruneCore DEF Fields
  <2>5. IsState(w)
    BY <2>4 DEF Core
  <2> HIDE DEF w
  <2>6. Core(w, t) /\ t.policy = w.policy /\ t.paused = w.paused /\ Pruned(t)
    BY <2>4, <2>5, ConfiguredCore
  <2>7. Core(s, t)
    BY <2>2, <2>4, <2>6, CoreTrans DEF Tame
  <2> QED BY <2>1, <2>4, <2>6, <2>7
<1> QED BY <1>1, <1>2, <1>3

LEMMA ScheduledFetchTame ==
    ASSUME NEW s, IsState(s)
    PROVE  Tame(s, start_scheduled_subscription_fetch(s))
<1> DEFINE sources == IF s.policy # None THEN s.policy
                      ELSE IF file.valid THEN file.sources ELSE {}
<1>1. start_scheduled_subscription_fetch(s)
        \in {s, OrAnswer(start_subscription_fetch_with(s, sources))}
  BY DEF start_scheduled_subscription_fetch
<1>2. Tame(s, OrAnswer(start_subscription_fetch_with(s, sources)))
  BY FetchTame, OrErrorTame
<1> QED BY <1>1, <1>2, TameSelf

LEMMA RetryTame ==
    ASSUME NEW s, IsState(s)
    PROVE  Tame(s, maybe_retry_subscription_on_route(s))
<1> DEFINE t == refresh_default_route_observation([s EXCEPT !.recovered = FALSE])
           u == [t EXCEPT !.recovered = t.recovered \/ s.recovered]
           w == [u EXCEPT !.retry_on_route = FALSE]
<1>1. maybe_retry_subscription_on_route(s) \in {u, start_scheduled_subscription_fetch(w)}
  BY DEF maybe_retry_subscription_on_route
<1>2. IsState(t) /\ \A f \in Fields \ Beside : t[f] = s[f]
  BY DEF IsState, Fields, Beside, refresh_default_route_observation
<1> HIDE DEF t
<1>3. IsState(u) /\ \A f \in Fields \ Beside : u[f] = s[f]
  BY <1>2 DEF IsState, Fields, Beside
<1> HIDE DEF u
<1>4. IsState(w) /\ \A f \in Fields \ Beside : w[f] = s[f]
  BY <1>3 DEF IsState, Fields, Beside
<1> HIDE DEF w
<1>5. Tame(s, u) /\ Tame(s, w)
  BY <1>3, <1>4, BesideTame
<1>6. Tame(s, start_scheduled_subscription_fetch(w))
  BY <1>4, <1>5, ScheduledFetchTame, TameTrans
<1> QED BY <1>1, <1>5, <1>6

LEMMA ResumeTame ==
    ASSUME NEW s, IsState(s)
    PROVE  Tame(s, resume_queued_subscription_work(s))
<1>1. CASE convergence_busy(s)
  BY <1>1, TameSelf DEF resume_queued_subscription_work
<1>2. CASE ~convergence_busy(s) /\ s.reconfigure_queued
  <2>a. PICK yes : yes = TRUE
    OBVIOUS
  <2> DEFINE u == [s EXCEPT !.reconfigure_queued = FALSE, !.fetch_queued = FALSE,
                            !.engine_config_changed = TRUE]
             t == configure_subscription(u, yes)
  <2>1. resume_queued_subscription_work(s) = t
    BY <1>2, <2>a DEF resume_queued_subscription_work
  <2>2. /\ IsState(u) /\ u.engine_config_changed
        /\ \A f \in Fields \ {"reconfigure_queued", "fetch_queued", "engine_config_changed"} : u[f] = s[f]
    BY DEF IsState, Fields
  <2> HIDE DEF u
  <2>3. /\ u.txn = s.txn /\ u.up = s.up /\ u.user = s.user /\ u.cand = s.cand
        /\ u.disabled = s.disabled /\ u.shutdown = s.shutdown
        /\ u.pc = s.pc /\ u.then = s.then /\ u.worker = s.worker /\ u.cache = s.cache
        /\ u.pending = s.pending /\ u.paused = s.paused
        /\ u.conns = s.conns /\ u.ctimer = s.ctimer /\ u.policy = s.policy
    BY <2>2 DEF Fields
  <2>4. Core(s, u)
    BY <2>2, <2>3 DEF Core, Expires
  <2>5. Core(u, t) /\ t.policy = u.policy /\ t.paused = u.paused /\ Pruned(t)
    BY <2>2, ConfigureCore
  <2> QED BY <2>1, <2>3, <2>4, <2>5, CoreTrans DEF Tame
<1>3. CASE ~convergence_busy(s) /\ ~s.reconfigure_queued /\ s.fetch_queued
  <2> DEFINE u == [s EXCEPT !.fetch_queued = FALSE]
  <2>1. resume_queued_subscription_work(s) = OrError(start_subscription_fetch(u))
    BY <1>3 DEF resume_queued_subscription_work
  <2>2. IsState(u) /\ \A f \in Fields \ Beside : u[f] = s[f]
    BY DEF IsState, Fields, Beside
  <2> HIDE DEF u
  <2>3. Tame(s, u)
    BY <2>2, BesideTame
  <2>4. Tame(u, OrError(start_subscription_fetch(u)))
    BY <2>2, FileFetchTame, OrErrorTame
  <2> QED BY <2>1, <2>3, <2>4, TameTrans
<1>4. CASE ~convergence_busy(s) /\ ~s.reconfigure_queued /\ ~s.fetch_queued
  BY <1>4, TameSelf DEF resume_queued_subscription_work
<1> QED BY <1>1, <1>2, <1>3, <1>4

----------------------------------------------------------------------------
\* The batch and the transaction.

\* commit_pending_subscription spends the batch of the generation; it writes what
\* passed the check, for sources the policy names.
LEMMA CommitSound ==
    ASSUME NEW s, NEW k, Sound(s, k), NEW g,
           s.pending # None /\ s.pending.generation = g =>
                \A x \in DOMAIN s.pending.raw \cap s.policy : x \in Source => Passed(s.pending.raw[x], k, x)
    PROVE  LET t == commit_pending_subscription(s, g).s IN
           /\ Sound(t, k) /\ (Pruned(s) => Pruned(t))
           /\ \A f \in Fields \ {"pending", "cache", "io", "sub_error", "last"} : t[f] = s[f]
           /\ t.pending = None \/ (t.pending = s.pending /\ s.pending.generation # g)
<1> DEFINE t == commit_pending_subscription(s, g).s
<1> SUFFICES /\ Sound(t, k) /\ (Pruned(s) => Pruned(t))
             /\ \A f \in Fields \ {"pending", "cache", "io", "sub_error", "last"} : t[f] = s[f]
             /\ t.pending = None \/ (t.pending = s.pending /\ s.pending.generation # g)
  OBVIOUS
<1>0. IsState(s)
  BY DEF Sound
<1>1. CASE s.pending = None \/ s.pending.generation # g
  <2>1. t = s
    BY <1>1 DEF commit_pending_subscription
  <2> QED BY <1>1, <2>1
<1>2. CASE s.pending # None /\ s.pending.generation = g
  <2> DEFINE raw == s.pending.raw
             taken == [s EXCEPT !.pending = None, !.io = TRUE]
             new == IF s.policy = None THEN {}
                    ELSE {x \in DOMAIN raw \cap s.policy : s.cache[x] # raw[x]}
             cache == [x \in Source |-> IF x \in new THEN raw[x] ELSE s.cache[x]]
  <2>1. t \in {taken, [taken EXCEPT !.cache = cache], set_subscription_error(taken)}
    BY <1>2 DEF commit_pending_subscription
  <2>2. \A x \in Source : x \in new => x \in DOMAIN raw \cap s.policy /\ s.policy # None
    OBVIOUS
  <2>3. \A x \in Source : cache[x] \in Content \cup {None} /\ Passed(cache[x], k, x)
    BY <1>2, <2>2 DEF Sound
  <2>4. s.policy # None => \A x \in Source \ s.policy : cache[x] = s.cache[x]
    BY <2>2
  <2> HIDE DEF cache, new
  <2>5. /\ IsState(t) /\ t.pending = None /\ t.cache \in {s.cache, cache}
        /\ \A f \in Fields \ {"pending", "cache", "io", "sub_error", "last"} : t[f] = s[f]
    <3>1. CASE t = taken
      BY <3>1, <1>0 DEF IsState, Fields
    <3>2. CASE t = [taken EXCEPT !.cache = cache]
      BY <3>2, <1>0 DEF IsState, Fields
    <3>3. CASE t = set_subscription_error(taken)
      BY <3>3, <1>0 DEF IsState, Fields, set_subscription_error
    <3> HIDE DEF t, taken
    <3> QED BY <2>1, <3>1, <3>2, <3>3
  <2> HIDE DEF t, taken
  <2>6. /\ t.txn = s.txn /\ t.user = s.user /\ t.cand = s.cand /\ t.policy = s.policy
        /\ t.conns = s.conns /\ t.ctimer = s.ctimer /\ t.reconfigure_queued = s.reconfigure_queued
    BY <2>5 DEF Fields
  <2>7. \A x \in Source : t.cache[x] \in Content \cup {None} /\ Passed(t.cache[x], k, x)
    BY <2>3, <2>5 DEF Sound
  <2>8. ~Claimed(t)
    BY <2>5 DEF Claimed
  <2>9. Expires(t)
    BY <2>6 DEF Sound, Expires
  <2>10. Sound(t, k)
    BY <2>5, <2>6, <2>7, <2>8, <2>9 DEF Sound
  <2>11. Pruned(s) => Pruned(t)
    BY <2>4, <2>5, <2>6 DEF Pruned
  <2> QED BY <2>5, <2>10, <2>11
<1> QED BY <1>1, <1>2

\* What stops the engine leaves the bytes alone, and no candidate.
LEMMA CancelSound ==
    ASSUME NEW s, NEW k, Sound(s, k)
    PROVE  LET t == cancel_engine_work(s) IN
           /\ Sound(t, k) /\ (Pruned(s) => Pruned(t))
           /\ \A f \in Fields \ {"txn", "up"} : t[f] = s[f]
           /\ t.txn = IF s.txn = "none" /\ ~s.up THEN "none" ELSE "stop"
<1>0. IsState(s)
  BY DEF Sound
<1>1. CASE s.txn = "none" /\ ~s.up
  BY <1>1 DEF cancel_engine_work
<1>2. CASE ~(s.txn = "none" /\ ~s.up)
  <2> DEFINE t == [s EXCEPT !.txn = "stop", !.up = s.up /\ s.txn = "check"]
  <2>1. cancel_engine_work(s) = t
    BY <1>2 DEF cancel_engine_work
  <2>2. IsState(t) /\ t.txn = "stop" /\ t.pending = s.pending /\ \A f \in Fields \ {"txn", "up"} : t[f] = s[f]
    BY <1>0 DEF IsState, Fields
  <2> HIDE DEF t
  <2>3. /\ t.user = s.user /\ t.policy = s.policy /\ t.cache = s.cache
        /\ t.conns = s.conns /\ t.ctimer = s.ctimer /\ t.reconfigure_queued = s.reconfigure_queued
    BY <2>2 DEF Fields
  <2>4. Sound(t, k) /\ (Pruned(s) => Pruned(t))
    BY <2>2, <2>3 DEF Sound, Pruned, Expires
  <2> QED BY <1>2, <2>1, <2>2, <2>4
<1> QED BY <1>1, <1>2

\* A change of fields that Sound does not look at.
Silent == {"disabled", "shutdown", "exited", "phase", "evt", "policy_changed",
    "engine_config_changed", "reload_requested", "topology_changed", "debounce", "backoff",
    "wlan", "watched", "paused", "wifi_changed",
    "schedule", "timer", "worker", "fetch_queued", "retry_on_route", "route_seen", "recovered",
    "up", "old", "sub_error", "policy_error", "last", "io", "pc", "settle", "then"}

LEMMA SilentSound ==
    ASSUME NEW s, NEW k, Sound(s, k), NEW t, IsState(t), \A f \in Fields \ Silent : t[f] = s[f]
    PROVE  Sound(t, k) /\ (Pruned(s) => Pruned(t)) /\ t.txn = s.txn /\ t.pending = s.pending
<1>1. /\ t.txn = s.txn /\ t.user = s.user /\ t.cand = s.cand /\ t.policy = s.policy
      /\ t.conns = s.conns /\ t.ctimer = s.ctimer /\ t.reconfigure_queued = s.reconfigure_queued
      /\ t.cache = s.cache /\ t.pending = s.pending
  BY DEF Fields, Silent
<1> QED BY <1>1 DEF Sound, Pruned, Expires, Claimed

LEMMA DeactivateSound ==
    ASSUME NEW s, NEW k, Sound(s, k)
    PROVE  LET t == deactivate_runtime(s) IN
           /\ Sound(t, k) /\ (Pruned(s) => Pruned(t)) /\ t.paused = s.paused
           /\ t.worker = s.worker /\ t.disabled = s.disabled /\ t.shutdown = s.shutdown
<1> DEFINE u == cancel_engine_work(s)
           t == deactivate_runtime(s)
<1>1. /\ Sound(u, k) /\ (Pruned(s) => Pruned(u)) /\ u.paused = s.paused
      /\ u.worker = s.worker /\ u.disabled = s.disabled /\ u.shutdown = s.shutdown
  BY CancelSound DEF Fields
<1>2. t = [u EXCEPT !.reload_requested = TRUE, !.policy_changed = TRUE,
        !.engine_config_changed = TRUE, !.topology_changed = FALSE, !.backoff = FALSE]
  BY DEF deactivate_runtime
<1> HIDE DEF u, t
<1>3. /\ IsState(t) /\ t.worker = u.worker /\ t.disabled = u.disabled /\ t.shutdown = u.shutdown
      /\ t.paused = u.paused /\ \A f \in Fields \ Silent : t[f] = u[f]
  BY <1>1, <1>2 DEF IsState, Sound, Fields, Silent
<1>4. /\ Sound(t, k) /\ (Pruned(s) => Pruned(t)) /\ t.paused = s.paused
      /\ t.worker = s.worker /\ t.disabled = s.disabled /\ t.shutdown = s.shutdown
  BY <1>1, <1>3, SilentSound
<1> QED BY <1>4 DEF t

LEMMA DisabledSound ==
    ASSUME NEW s, NEW k, Sound(s, k)
    PROVE  LET t == converge_disabled(s) IN
           Sound(t, k) /\ t.worker = s.worker /\ t.disabled = s.disabled /\ t.shutdown = s.shutdown
<1> DEFINE q == [s EXCEPT !.paused = FALSE]
           u == refuse_subscribers(q)
           v == [u EXCEPT !.timer = FALSE]
           w == reset_on_disable(v)
<1>1. converge_disabled(s) = deactivate_runtime(w)
  BY DEF converge_disabled
<1>2. /\ IsState(q) /\ q.worker = s.worker /\ q.disabled = s.disabled /\ q.shutdown = s.shutdown
      /\ \A f \in Fields \ Silent : q[f] = s[f]
  BY DEF Sound, IsState, Fields, Silent
<1>b. Sound(q, k)
  BY <1>2, SilentSound
<1> HIDE DEF q
<1>3. Core(q, u) /\ u.worker = s.worker /\ u.disabled = s.disabled /\ u.shutdown = s.shutdown
  BY <1>2, RefusedTame DEF Tame, Fields
<1>4. Sound(u, k)
  BY <1>b, <1>3, CoreSound
<1> HIDE DEF u
<1>5. /\ IsState(w) /\ w.pending = None /\ w.worker = u.worker
      /\ w.disabled = u.disabled /\ w.shutdown = u.shutdown
      /\ w.txn = u.txn /\ w.user = u.user /\ w.cand = u.cand
      /\ w.conns = u.conns /\ w.ctimer = u.ctimer /\ w.cache = u.cache
  BY <1>4 DEF reset_on_disable, Sound, IsState, Fields
<1> HIDE DEF w
<1>6. Sound(w, k)
  BY <1>4, <1>5 DEF Sound, Expires, Claimed
<1> QED BY <1>1, <1>3, <1>5, <1>6, DeactivateSound

----------------------------------------------------------------------------
\* converge.

LEMMA LoadedTame ==
    ASSUME NEW s, IsState(s)
    PROVE  Tame(s, Loaded(s))
<1> DEFINE u == IF WantsPolicy(s) /\ ~file.valid THEN set_policy_error(s) ELSE s
           t == [u EXCEPT !.policy_changed = FALSE]
<1>1. Loaded(s) = t
  BY DEF Loaded
<1>2. Tame(s, u)
  BY ErrorsTame, TameSelf
<1>3. IsState(u)
  BY <1>2 DEF Tame, Core
<1> HIDE DEF u
<1>4. IsState(t) /\ \A f \in Fields \ Beside : t[f] = u[f]
  BY <1>3 DEF IsState, Fields, Beside
<1> QED BY <1>1, <1>2, <1>3, <1>4, BesideTame, TameTrans

LEMMA SnapshotsExist ==
    ASSUME NEW s, NEW k, Sound(s, k), NEW sources
    PROVE  source_snapshots(s, sources) # None
<1>1. source_snapshots(s, sources) \in [Source -> Content \cup {None}]
  BY DEF source_snapshots, Sound
<1> QED BY <1>1, SubscriptionAssumption

\* read_engine_config: the candidate is made of the snapshots, or there is an error.
LEMMA ReadTame ==
    ASSUME NEW s, NEW k, Sound(s, k), NEW sources
    PROVE  LET read == read_engine_config(s, sources) IN
           /\ Tame(s, read.s)
           /\ read.user # None => read.user = source_snapshots(read.s, sources)
           /\ read.user = None => ~overall_ok(read.s)
<1> DEFINE nodes == source_snapshots(s, sources)
           failed == [s EXCEPT !.last = "engine"]
           refused == set_subscription_error(s)
           read == read_engine_config(s, sources)
<1>0. IsState(s) /\ nodes # None
  BY SnapshotsExist DEF Sound
<1>1. \/ read.user = None /\ read.s = failed
      \/ read.user = None /\ read.s = refused
      \/ read.user = None /\ read.s = s /\ s.sub_error
      \/ read.user = nodes /\ read.s = s
  BY DEF read_engine_config
<1>2. Tame(s, failed) /\ ~overall_ok(failed)
  <2>1. IsState(failed) /\ \A f \in Fields \ Beside : failed[f] = s[f]
    BY <1>0 DEF IsState, Fields, Beside
  <2>2. ~overall_ok(failed)
    BY <1>0 DEF IsState, Fields, overall_ok
  <2> QED BY <1>0, <2>1, <2>2, BesideTame
<1>3. Tame(s, refused) /\ ~overall_ok(refused)
  <2>1. ~overall_ok(refused)
    BY <1>0 DEF IsState, Fields, overall_ok, set_subscription_error
  <2> QED BY <1>0, <2>1, ErrorsTame
<1>4. Tame(s, s) /\ (s.sub_error => ~overall_ok(s))
  BY <1>0, TameSelf DEF overall_ok
<1> HIDE DEF nodes, failed, refused, read
<1>5. /\ Tame(s, read.s)
      /\ read.user # None => read.user = nodes /\ read.s = s
      /\ read.user = None => ~overall_ok(read.s)
  BY <1>0, <1>1, <1>2, <1>3, <1>4
<1> QED BY <1>5 DEF nodes, read

LEMMA CandidateTame ==
    ASSUME NEW s, NEW k, Sound(s, k)
    PROVE  LET read == Candidate(s) IN
           /\ Tame(s, read.s)
           /\ read.user # None => read.user = source_snapshots(read.s, Flux(s)) /\ Flux(s) # None
           /\ read.user = None /\ WantsEngine(s) => ~overall_ok(read.s)
<1> DEFINE read == Candidate(s)
           u == Loaded(s)
           w == ensure_subscription_schedule(u, Flux(s))
<1>1. IsState(s) /\ Tame(s, u)
  BY LoadedTame DEF Sound
<1>2. IsState(u)
  BY <1>1 DEF Tame, Core
<1>3. CASE ~WantsEngine(s)
  BY <1>1, <1>3 DEF Candidate
<1>4. CASE WantsEngine(s) /\ Flux(s) = None
  <2> DEFINE t == [u EXCEPT !.last = "engine"]
  <2>1. read.user = None /\ read.s = t
    BY <1>4 DEF Candidate, EngineCandidate, Flux
  <2> HIDE DEF u
  <2>2. IsState(t) /\ ~overall_ok(t) /\ \A f \in Fields \ Beside : t[f] = u[f]
    BY <1>2 DEF IsState, Fields, Beside, overall_ok
  <2> HIDE DEF t
  <2>3. Tame(s, t)
    BY <1>1, <1>2, <2>2, BesideTame, TameTrans
  <2> HIDE DEF read
  <2>4. Tame(s, read.s) /\ read.user = None /\ ~overall_ok(read.s)
    BY <2>1, <2>2, <2>3
  <2> QED BY <2>4 DEF read
<1>5. CASE WantsEngine(s) /\ Flux(s) # None
  <2>1. read = read_engine_config(w, Flux(s))
    BY <1>5 DEF Candidate, EngineCandidate, Flux
  <2>2. Tame(s, w)
    BY <1>1, <1>2, ScheduleTame, TameTrans
  <2>3. Sound(w, k)
    BY <2>2, CoreSound DEF Tame
  <2> HIDE DEF w
  <2>4. /\ Tame(w, read.s)
        /\ read.user # None => read.user = source_snapshots(read.s, Flux(s))
        /\ read.user = None => ~overall_ok(read.s)
    BY <2>1, <2>3, ReadTame
  <2>5. Tame(s, read.s)
    BY <2>2, <2>4, TameTrans
  <2> QED BY <1>5, <2>4, <2>5
<1> QED BY <1>3, <1>4, <1>5

\* What a candidate has for a source with a response in the batch is that response.
LEMMA SnapshotOfBatch ==
    ASSUME NEW s, NEW sources, s.pending # None, NEW x \in Source, x \in sources, x \in DOMAIN s.pending.raw
    PROVE  source_snapshots(s, sources)[x] = s.pending.raw[x]
BY DEF source_snapshots

LEMMA DroppedTame ==
    ASSUME NEW s, IsState(s), NEW unusable
    PROVE  Tame(s, Dropped(s, unusable))
<1> DEFINE t == [s EXCEPT !.pending = None]
<1>1. IsState(t) /\ t.pending = None /\ \A f \in Fields \ {"pending"} : t[f] = s[f]
  BY DEF IsState, Fields
<1> HIDE DEF t
<1>2. /\ t.txn = s.txn /\ t.up = s.up /\ t.user = s.user /\ t.cand = s.cand
      /\ t.disabled = s.disabled /\ t.shutdown = s.shutdown
      /\ t.pc = s.pc /\ t.then = s.then /\ t.worker = s.worker /\ t.cache = s.cache
      /\ t.engine_config_changed = s.engine_config_changed
      /\ t.conns = s.conns /\ t.ctimer = s.ctimer /\ t.policy = s.policy
      /\ t.reconfigure_queued = s.reconfigure_queued /\ t.paused = s.paused
  BY <1>1 DEF Fields
<1>3. Tame(s, t)
  BY <1>1, <1>2 DEF Tame, Core, Expires, Pruned
<1>4. Dropped(s, unusable) \in {s, t}
  BY DEF Dropped, t
<1> QED BY <1>3, <1>4, TameSelf

\* PolicyApplied changes the policy; the promise to prune holds afterwards.
LEMMA PolicyCore ==
    ASSUME NEW s, IsState(s), NEW new, NEW changed
    PROVE  LET t == PolicyApplied(s, new, changed) IN
           /\ Core(s, t) /\ (Pruned(s) => Pruned(t))
           /\ t.policy = IF new THEN file.sources ELSE s.policy
<1>1. CASE new
  <2> DEFINE u == [s EXCEPT !.policy = file.sources]
             w == clear_policy_error(u)
             t == configure_subscription(w, changed)
  <2>1. PolicyApplied(s, new, changed) = t
    BY <1>1 DEF PolicyApplied
  <2>2. IsState(u) /\ u.policy = file.sources /\ \A f \in Fields \ {"policy"} : u[f] = s[f]
    BY DEF IsState, Fields
  <2> HIDE DEF u
  <2>3. /\ u.txn = s.txn /\ u.up = s.up /\ u.user = s.user /\ u.cand = s.cand
        /\ u.disabled = s.disabled /\ u.shutdown = s.shutdown /\ u.pending = s.pending
        /\ u.pc = s.pc /\ u.then = s.then /\ u.worker = s.worker /\ u.cache = s.cache
        /\ u.engine_config_changed = s.engine_config_changed
        /\ u.conns = s.conns /\ u.ctimer = s.ctimer
    BY <2>2 DEF Fields
  <2>4. Core(s, u)
    BY <2>2, <2>3 DEF Core, Expires
  <2>5. Tame(u, w)
    BY <2>2, ErrorsTame
  <2>6. IsState(w) /\ w.policy = file.sources /\ Core(u, w)
    BY <2>2, <2>5 DEF Tame, Core
  <2> HIDE DEF w
  <2>7. Core(w, t) /\ t.policy = w.policy /\ Pruned(t)
    BY <2>6, ConfigureCore
  <2>8. Core(s, t)
    BY <2>4, <2>6, <2>7, CoreTrans
  <2> QED BY <1>1, <2>1, <2>6, <2>7, <2>8
<1>2. CASE ~new
  BY <1>2, TameSelf DEF PolicyApplied, Tame
<1> QED BY <1>1, <1>2

\* What converge leaves alone while Flux is switched on.
Steady(s, t) ==
    /\ t.disabled = s.disabled /\ t.shutdown = s.shutdown /\ t.pc = s.pc /\ t.then = s.then
    /\ s.worker # {} => t.worker = s.worker
    /\ \A c \in Client : t.conns[c] = "Subscribing" => s.conns[c] = "Subscribing"
    /\ Pruned(s) => Pruned(t)

\* The end of a refresh: no batch is left without an owner or an error.
AtRest(t) == t.txn # "none" \/ t.pending = None \/ ~overall_ok(t) \/ Claimed(t)

Marks == {"topology_changed", "reload_requested", "engine_config_changed"}

\* evaluate_ssid: Core, and the verdict.
LEMMA ObservedCore ==
    ASSUME NEW s, IsState(s), NEW known
    PROVE  LET t == evaluate_ssid(s, known) IN
           /\ Core(s, t) /\ t.policy = s.policy /\ (Pruned(s) => Pruned(t))
           /\ t.pending = s.pending /\ t.worker = s.worker
           /\ \A f \in Fields \ {"watched", "paused", "wifi_changed"} : t[f] = s[f]
<1> DEFINE t == evaluate_ssid(s, known)
<1>1. IsState(t) /\ \A f \in Fields \ {"watched", "paused", "wifi_changed"} : t[f] = s[f]
  BY DEF evaluate_ssid, IsState, Fields
<1> HIDE DEF t
<1>2. /\ t.txn = s.txn /\ t.up = s.up /\ t.user = s.user /\ t.cand = s.cand
      /\ t.disabled = s.disabled /\ t.shutdown = s.shutdown
      /\ t.pc = s.pc /\ t.then = s.then /\ t.worker = s.worker /\ t.cache = s.cache
      /\ t.engine_config_changed = s.engine_config_changed /\ t.pending = s.pending
      /\ t.conns = s.conns /\ t.ctimer = s.ctimer /\ t.policy = s.policy
      /\ t.reconfigure_queued = s.reconfigure_queued
  BY <1>1 DEF Fields
<1>3. /\ Core(s, t) /\ t.policy = s.policy /\ (Pruned(s) => Pruned(t))
      /\ t.pending = s.pending /\ t.worker = s.worker
      /\ \A f \in Fields \ {"watched", "paused", "wifi_changed"} : t[f] = s[f]
  BY <1>1, <1>2 DEF Core, Expires, Pruned
<1> QED BY <1>3 DEF t

\* What converge has read, once it has looked at the Wi-Fi.
LEMMA ReadCore ==
    ASSUME NEW s, NEW k, Sound(s, k)
    PROVE  LET read == Observed(Candidate(s), Flux(s) # None) IN
           /\ Core(s, read.s) /\ (Pruned(s) => Pruned(read.s)) /\ read.s.policy = s.policy
           /\ read.user # None => read.user = source_snapshots(read.s, Flux(s)) /\ Flux(s) # None
           /\ read.user = None /\ WantsEngine(s) => ~overall_ok(read.s)
<1> DEFINE c == Candidate(s)
<1>a. PICK known : known = (Flux(s) # None)
  OBVIOUS
<1> DEFINE e == evaluate_ssid(c.s, known)
<1>1. /\ Tame(s, c.s)
      /\ c.user # None => c.user = source_snapshots(c.s, Flux(s)) /\ Flux(s) # None
      /\ c.user = None /\ WantsEngine(s) => ~overall_ok(c.s)
  BY CandidateTame
<1>2. IsState(c.s)
  BY <1>1 DEF Tame, Core
<1>3. /\ Core(c.s, e) /\ e.policy = c.s.policy /\ (Pruned(c.s) => Pruned(e))
      /\ e.pending = c.s.pending
      /\ \A f \in Fields \ {"watched", "paused", "wifi_changed"} : e[f] = c.s[f]
  BY <1>2, ObservedCore
<1>4. Observed(c, Flux(s) # None) = [user |-> c.user, s |-> e]
  BY <1>a DEF Observed
<1> HIDE DEF c, e
<1>5. /\ e.cache = c.s.cache /\ e.last = c.s.last /\ e.policy_error = c.s.policy_error
      /\ e.sub_error = c.s.sub_error
  BY <1>3 DEF Fields
<1>6. source_snapshots(e, Flux(s)) = source_snapshots(c.s, Flux(s))
  BY <1>3, <1>5 DEF source_snapshots
<1>7. overall_ok(e) <=> overall_ok(c.s)
  BY <1>5 DEF overall_ok
<1>8. Core(s, e) /\ (Pruned(s) => Pruned(e)) /\ e.policy = s.policy
  BY <1>1, <1>3, CoreTrans DEF Tame
<1>9. /\ Core(s, e) /\ (Pruned(s) => Pruned(e)) /\ e.policy = s.policy
      /\ c.user # None => c.user = source_snapshots(e, Flux(s)) /\ Flux(s) # None
      /\ c.user = None /\ WantsEngine(s) => ~overall_ok(e)
  BY <1>1, <1>6, <1>7, <1>8
<1> QED BY <1>4, <1>9 DEF c

LEMMA ScheduledCore ==
    ASSUME NEW s, IsState(s), NEW busy
    PROVE  \E w : /\ Core(s, w) /\ w.policy = s.policy /\ (Pruned(s) => Pruned(w))
                  /\ IsState(Scheduled(s, busy))
                  /\ \A f \in Fields \ Marks : Scheduled(s, busy)[f] = w[f]
                  /\ busy /\ s.engine_config_changed => Scheduled(s, busy).engine_config_changed
<1>a. PICK no : no = FALSE
  OBVIOUS
<1> DEFINE w == IF s.schedule = None THEN configure_subscription(s, no) ELSE s
           t == [w EXCEPT !.topology_changed = FALSE,
               !.reload_requested = s.reload_requested /\ busy,
               !.engine_config_changed = s.engine_config_changed /\ busy]
<1>1. Scheduled(s, busy) = t
  BY <1>a DEF Scheduled
<1>2. Core(s, w) /\ w.policy = s.policy /\ (Pruned(s) => Pruned(w))
  <2>1. CASE s.schedule = None
    BY <2>1, ConfigureCore
  <2>2. CASE s.schedule # None
    BY <2>2, TameSelf DEF Tame
  <2> QED BY <2>1, <2>2
<1>3. IsState(w)
  BY <1>2 DEF Core
<1> HIDE DEF w
<1>4. /\ IsState(t) /\ (busy /\ s.engine_config_changed => t.engine_config_changed)
      /\ \A f \in Fields \ Marks : t[f] = w[f]
  BY <1>3 DEF IsState, Fields, Marks
<1> QED BY <1>1, <1>2, <1>4

\* converge up to the engine: Core but for the marks.
LEMMA NextCore ==
    ASSUME NEW s, NEW k, Sound(s, k), NEW unusable, NEW changed
    PROVE  LET read == Observed(Candidate(s), Flux(s) # None)
               t == Scheduled(PolicyApplied(Dropped(read.s, unusable), NewPolicy(s), changed),
                              convergence_busy(s))
           IN /\ Sound(t, k) /\ Steady(s, t)
              /\ t.txn = s.txn /\ t.up = s.up /\ t.policy = Flux(s)
              /\ t.pending = None \/ (t.pending = read.s.pending /\ t.pending = s.pending)
              /\ s.txn # "none" /\ s.engine_config_changed => t.engine_config_changed
<1> DEFINE read == Observed(Candidate(s), Flux(s) # None)
           u == Dropped(read.s, unusable)
           v == PolicyApplied(u, NewPolicy(s), changed)
           t == Scheduled(v, convergence_busy(s))
<1>0. Core(s, read.s) /\ (Pruned(s) => Pruned(read.s)) /\ read.s.policy = s.policy
  BY ReadCore
<1> HIDE DEF read
<1>1. Tame(read.s, u)
  BY <1>0, DroppedTame DEF Core
<1> HIDE DEF u
<1>2. /\ Core(s, u) /\ IsState(u) /\ u.policy = s.policy /\ (Pruned(s) => Pruned(u))
      /\ u.pending = read.s.pending \/ u.pending = None
  BY <1>0, <1>1, CoreTrans DEF Tame, Core
<1>3. /\ Core(u, v) /\ (Pruned(u) => Pruned(v))
      /\ v.policy = IF NewPolicy(s) THEN file.sources ELSE u.policy
  BY <1>2, PolicyCore
<1> HIDE DEF v
<1>4. v.policy = Flux(s) /\ Core(s, v) /\ (Pruned(s) => Pruned(v)) /\ IsState(v)
  BY <1>2, <1>3, CoreTrans DEF Flux, Core
<1>5. PICK w : /\ Core(v, w) /\ w.policy = v.policy /\ (Pruned(v) => Pruned(w))
               /\ IsState(t)
               /\ \A f \in Fields \ Marks : t[f] = w[f]
               /\ convergence_busy(s) /\ v.engine_config_changed => t.engine_config_changed
  BY <1>4, ScheduledCore
<1> HIDE DEF t
<1>6. Core(s, w) /\ (Pruned(s) => Pruned(w)) /\ w.policy = Flux(s)
  BY <1>4, <1>5, CoreTrans
<1>7. Sound(w, k)
  BY <1>6, CoreSound
<1>8. \A f \in Fields \ Silent : t[f] = w[f]
  BY <1>5 DEF Marks, Silent
<1>9. Sound(t, k) /\ (Pruned(w) => Pruned(t)) /\ t.pending = w.pending /\ t.txn = w.txn
  BY <1>5, <1>7, <1>8, SilentSound
<1>10. /\ t.up = w.up /\ t.policy = w.policy /\ t.disabled = w.disabled /\ t.shutdown = w.shutdown
       /\ t.pc = w.pc /\ t.then = w.then /\ t.worker = w.worker /\ t.conns = w.conns
  BY <1>5 DEF Fields, Marks
<1>11. Steady(s, t) /\ t.txn = s.txn /\ t.up = s.up /\ t.policy = Flux(s)
  BY <1>6, <1>9, <1>10 DEF Steady, Core
<1>12. t.pending = None \/ (t.pending = read.s.pending /\ t.pending = s.pending)
  BY <1>2, <1>3, <1>5, <1>6, <1>9 DEF Core
<1>13. s.txn # "none" /\ s.engine_config_changed => t.engine_config_changed
  BY <1>4, <1>5 DEF Core, convergence_busy
<1>14. /\ Sound(t, k) /\ Steady(s, t)
       /\ t.txn = s.txn /\ t.up = s.up /\ t.policy = Flux(s)
       /\ t.pending = None \/ (t.pending = read.s.pending /\ t.pending = s.pending)
       /\ s.txn # "none" /\ s.engine_config_changed => t.engine_config_changed
  BY <1>9, <1>11, <1>12, <1>13
<1> QED BY <1>14 DEF t, v, u, read

LEMMA SteadyTrans ==
    ASSUME NEW s, NEW t, NEW u, Steady(s, t), Steady(t, u)
    PROVE  Steady(s, u)
BY DEF Steady

\* A change of fields that Steady does not look at.
LEMMA SteadyBut ==
    ASSUME NEW s, NEW t,
           \A f \in {"disabled", "shutdown", "pc", "then", "worker", "conns", "policy", "cache",
                     "reconfigure_queued"} : t[f] = s[f]
    PROVE  Steady(s, t)
<1>1. /\ t.disabled = s.disabled /\ t.shutdown = s.shutdown /\ t.pc = s.pc /\ t.then = s.then
      /\ t.worker = s.worker /\ t.conns = s.conns /\ t.policy = s.policy /\ t.cache = s.cache
      /\ t.reconfigure_queued = s.reconfigure_queued
  OBVIOUS
<1> QED BY <1>1 DEF Steady, Pruned

\* start_generation_check: the batch it claims is what the candidate was built from.
LEMMA GenerationSound ==
    ASSUME NEW s, NEW k, Sound(s, k), NEW user,
           s.pending # None => \A x \in Source :
                x \in DOMAIN s.pending.raw \cap s.policy => user[x] = s.pending.raw[x]
    PROVE  LET t == start_generation_check(s, user) IN
           /\ Sound(t, k) /\ Steady(s, t) /\ Held(t) /\ t.txn = "check"
<1> DEFINE raw == [x \in DOMAIN s.pending.raw \cap s.policy |-> s.pending.raw[x]]
           batch == IF s.pending = None THEN None ELSE [raw |-> raw, generation |-> TRUE]
           t == [s EXCEPT !.txn = "check", !.cand = user, !.backoff = FALSE, !.pending = batch]
<1>1. start_generation_check(s, user) = t
  BY DEF start_generation_check
<1>2. /\ batch # None => s.pending # None /\ batch.raw = raw /\ batch.generation = TRUE
      /\ DOMAIN raw = DOMAIN s.pending.raw \cap s.policy
      /\ \A x \in DOMAIN raw : raw[x] = s.pending.raw[x]
  OBVIOUS
<1> HIDE DEF batch, raw
<1>3. /\ IsState(t) /\ t.txn = "check" /\ t.cand = user /\ t.pending = batch
      /\ \A f \in Fields \ {"txn", "cand", "backoff", "pending"} : t[f] = s[f]
  BY DEF Sound, IsState, Fields
<1> HIDE DEF t
<1>4. t.user = s.user /\ t.cache = s.cache /\ t.conns = s.conns /\ t.ctimer = s.ctimer
  BY <1>3 DEF Fields
<1>5. Steady(s, t)
  BY <1>3, SteadyBut DEF Fields
<1>6. t.pending # None =>
         /\ t.pending.generation \in BOOLEAN
         /\ \A x \in DOMAIN t.pending.raw \cap Source :
                t.pending.raw[x] = t.cand[x] /\ t.pending.raw[x] \in Content
  BY <1>2, <1>3 DEF Sound
<1>7. Sound(t, k)
  BY <1>3, <1>4, <1>6 DEF Sound, Expires, Claimed
<1>8. Held(t)
  BY <1>2, <1>3 DEF Held, Claimed
<1> QED BY <1>1, <1>3, <1>5, <1>7, <1>8

\* Kept only clears the last error.
LEMMA KeptSound ==
    ASSUME NEW c, NEW k, Sound(c.s, k)
    PROVE  /\ Sound(Kept(c), k) /\ Steady(c.s, Kept(c))
           /\ Kept(c).txn = c.s.txn /\ Kept(c).pending = c.s.pending
<1> DEFINE t == [c.s EXCEPT !.last = "none"]
<1>1. IsState(c.s) /\ Kept(c) \in {c.s, t}
  BY DEF Sound, Kept
<1>2. IsState(t) /\ \A f \in Fields \ {"last"} : t[f] = c.s[f]
  BY <1>1 DEF IsState, Fields
<1> HIDE DEF t
<1>3. \A f \in Fields \ Silent : t[f] = c.s[f]
  BY <1>2 DEF Silent
<1>4. Sound(t, k) /\ t.txn = c.s.txn /\ t.pending = c.s.pending
  BY <1>2, <1>3, SilentSound
<1>5. Steady(c.s, t)
  BY <1>2, SteadyBut DEF Fields
<1>6. Steady(c.s, c.s)
  BY SteadyBut
<1> QED BY <1>1, <1>4, <1>5, <1>6

LEMMA EngineSound ==
    ASSUME NEW s, NEW k, Sound(s, k), NEW user, s.txn = "none", s.up \/ user # None,
           user # None /\ s.pending # None => \A x \in Source :
                x \in DOMAIN s.pending.raw \cap s.policy => user[x] = s.pending.raw[x]
    PROVE  LET t == converge_engine(s, user) IN
           /\ Sound(t, k) /\ Steady(s, t) /\ t.txn \in {"none", "check"}
           /\ ~Claimed(s) => Held(t)
           /\ AtRest(t)
<1>1. CASE s.up /\ user = None
  <2> DEFINE t == [s EXCEPT !.pending = None]
  <2>1. converge_engine(s, user) = t
    BY <1>1 DEF converge_engine
  <2>2. IsState(t) /\ t.pending = None /\ \A f \in Fields \ {"pending"} : t[f] = s[f]
    BY DEF Sound, IsState, Fields
  <2> HIDE DEF t
  <2>3. /\ t.txn = s.txn /\ t.cache = s.cache /\ t.user = s.user /\ t.cand = s.cand
        /\ t.conns = s.conns /\ t.ctimer = s.ctimer
    BY <2>2 DEF Fields
  <2>4. Sound(t, k)
    BY <2>2, <2>3 DEF Sound, Expires, Claimed
  <2>5. Steady(s, t)
    BY <2>2, SteadyBut DEF Fields
  <2>6. Held(t) /\ AtRest(t)
    BY <2>2 DEF Held, Claimed, AtRest
  <2> QED BY <2>1, <2>3, <2>4, <2>5, <2>6
<1>2. CASE s.up /\ user # None /\ user = s.user
  <2>a. PICK no : no = FALSE
    OBVIOUS
  <2> DEFINE c == commit_pending_subscription(s, no)
             t == Kept(c)
  <2>1. converge_engine(s, user) = t
    BY <1>2, <2>a DEF converge_engine
  <2>2. s.pending # None /\ s.pending.generation = no =>
           \A x \in DOMAIN s.pending.raw \cap s.policy : x \in Source => Passed(s.pending.raw[x], k, x)
    BY <1>2 DEF Sound
  <2>3. /\ Sound(c.s, k) /\ (Pruned(s) => Pruned(c.s))
        /\ \A f \in Fields \ {"pending", "cache", "io", "sub_error", "last"} : c.s[f] = s[f]
        /\ c.s.pending = None \/ (c.s.pending = s.pending /\ s.pending.generation # no)
    BY <2>2, CommitSound
  <2> HIDE DEF c
  <2>4. Steady(s, c.s) /\ c.s.txn = s.txn
    <3>1. /\ c.s.disabled = s.disabled /\ c.s.shutdown = s.shutdown /\ c.s.pc = s.pc
          /\ c.s.then = s.then /\ c.s.worker = s.worker /\ c.s.conns = s.conns /\ c.s.txn = s.txn
      BY <2>3 DEF Fields
    <3> QED BY <2>3, <3>1 DEF Steady
  <2>5. /\ Sound(t, k) /\ Steady(c.s, t) /\ t.txn = c.s.txn /\ t.pending = c.s.pending
    BY <2>3, KeptSound
  <2>6. Sound(t, k) /\ Steady(s, t) /\ t.txn = "none"
    BY <2>4, <2>5, SteadyTrans
  <2>7. t.pending = None \/ (t.pending = s.pending /\ s.pending.generation # no)
    BY <2>3, <2>5
  <2>8. CASE t.pending = None
    <3>1. Held(t) /\ AtRest(t)
      BY <2>8 DEF Held, AtRest, Claimed
    <3> QED BY <2>1, <2>6, <3>1
  <2>9. CASE t.pending # None /\ t.pending = s.pending /\ s.pending.generation # no
    <3>1. Claimed(s) /\ Claimed(t)
      BY <2>9, <2>a DEF Claimed, Sound
    <3>2. AtRest(t)
      BY <3>1 DEF AtRest
    <3> QED BY <2>1, <2>6, <3>1, <3>2
  <2> QED BY <2>7, <2>8, <2>9
<1>3. CASE user # None /\ ~(s.up /\ user = s.user)
  <2> DEFINE t == start_generation_check(s, user)
  <2>1. converge_engine(s, user) = t
    BY <1>3 DEF converge_engine
  <2>2. Sound(t, k) /\ Steady(s, t) /\ Held(t) /\ t.txn = "check"
    BY <1>3, GenerationSound
  <2> HIDE DEF t
  <2> QED BY <2>1, <2>2 DEF AtRest
<1> QED BY <1>1, <1>2, <1>3

\* converge while Flux is enabled.  Paused, it stops the engine; the batch stays.
LEMMA ConvergeEnabled ==
    ASSUME NEW s, NEW k, Sound(s, k)
    PROVE  LET t == converge_enabled(s) IN
           /\ Sound(t, k) /\ Steady(s, t)
           /\ ~t.paused => /\ s.txn # "none" => t.txn = s.txn
                           /\ Held(s) => Held(t) /\ AtRest(t)
<1> DEFINE read == Observed(Candidate(s), Flux(s) # None)
           next == Scheduled(PolicyApplied(Dropped(read.s, WantsEngine(s) /\ read.user = None),
                                        NewPolicy(s), s.policy # None /\ s.policy # file.sources),
                             convergence_busy(s))
           t == converge_enabled(s)
<1>1. /\ Core(s, read.s) /\ (Pruned(s) => Pruned(read.s)) /\ read.s.policy = s.policy
      /\ read.user # None => read.user = source_snapshots(read.s, Flux(s)) /\ Flux(s) # None
      /\ read.user = None /\ WantsEngine(s) => ~overall_ok(read.s)
  BY ReadCore
<1>b. PICK un, ch : un = (WantsEngine(s) /\ read.user = None)
                    /\ ch = (s.policy # None /\ s.policy # file.sources)
  OBVIOUS
<1> DEFINE nx == Scheduled(PolicyApplied(Dropped(read.s, un), NewPolicy(s), ch), convergence_busy(s))
<1>2. /\ Sound(nx, k) /\ Steady(s, nx)
      /\ nx.txn = s.txn /\ nx.up = s.up /\ nx.policy = Flux(s)
      /\ nx.pending = None \/ (nx.pending = read.s.pending /\ nx.pending = s.pending)
      /\ s.txn # "none" /\ s.engine_config_changed => nx.engine_config_changed
  BY NextCore
<1>3. next = nx
  BY <1>b
<1>4. read.s.up = s.up /\ read.s.txn = s.txn /\ Sound(read.s, k) /\ Steady(s, read.s)
  BY <1>1, CoreSound DEF Core, Steady
<1>5. t = CASE read.s.paused -> deactivate_runtime(read.s)
         [] ~read.s.paused /\ NothingElse(s) -> read.s
         [] ~read.s.paused /\ ~NothingElse(s) /\ ~convergence_busy(s) /\ ~read.s.up
                /\ read.user = None ->
                [read.s EXCEPT !.reload_requested = FALSE, !.engine_config_changed = FALSE,
                               !.topology_changed = FALSE]
         [] ~read.s.paused /\ ~NothingElse(s) /\ convergence_busy(s) -> next
         [] OTHER -> converge_engine(next, read.user)
  BY DEF converge_enabled, converge_with
<1> HIDE DEF nx, next, read, t
<1>p. CASE read.s.paused
  <2> DEFINE d == deactivate_runtime(read.s)
  <2>1. t = d
    BY <1>5, <1>p
  <2>2. Sound(d, k) /\ d.paused
    BY <1>4, <1>p, DeactivateSound
  <2>3. \A f \in {"disabled", "shutdown", "pc", "then", "worker", "conns", "policy", "cache",
                   "reconfigure_queued"} : d[f] = read.s[f]
    <3> DEFINE c == cancel_engine_work(read.s)
    <3>1. IsState(c) /\ \A f \in Fields \ {"txn", "up"} : c[f] = read.s[f]
      BY <1>4, CancelSound DEF Sound
    <3>2. d = [c EXCEPT !.reload_requested = TRUE, !.policy_changed = TRUE,
                 !.engine_config_changed = TRUE, !.topology_changed = FALSE, !.backoff = FALSE]
      BY DEF deactivate_runtime
    <3> HIDE DEF c, d
    <3> QED BY <3>1, <3>2 DEF IsState, Fields
  <2> HIDE DEF d
  <2>4. Steady(s, d)
    BY <1>4, <2>3, SteadyBut, SteadyTrans
  <2> QED BY <2>1, <2>2, <2>4 DEF t
<1>o. CASE ~read.s.paused /\ NothingElse(s)
  <2>1. t = read.s
    BY <1>5, <1>o
  <2>2. s.txn = "none" /\ s.up /\ ~s.engine_config_changed
    BY <1>o DEF NothingElse, convergence_busy
  <2>3. Held(s) => s.pending = None
    BY <2>2 DEF Held
  <2>4. Held(s) => read.s.pending = None
    BY <1>1, <2>3 DEF Core
  <2>5. Held(s) => Held(read.s) /\ AtRest(read.s)
    BY <2>4 DEF Held, AtRest, Claimed
  <2> QED BY <1>4, <2>1, <2>5 DEF t
<1> DEFINE Else == ~read.s.paused /\ ~NothingElse(s)
<1>6. CASE Else /\ s.txn = "none" /\ ~s.up /\ read.user = None
  <2> DEFINE u == [read.s EXCEPT !.reload_requested = FALSE, !.engine_config_changed = FALSE,
                               !.topology_changed = FALSE]
  <2>1. t = u
    BY <1>4, <1>5, <1>6 DEF convergence_busy
  <2>2. IsState(u) /\ \A f \in Fields \ Marks : u[f] = read.s[f]
    BY <1>4 DEF Sound, IsState, Fields, Marks
  <2> HIDE DEF u
  <2>3. \A f \in Fields \ Silent : u[f] = read.s[f]
    BY <2>2 DEF Silent, Marks
  <2>4. Sound(u, k) /\ u.txn = "none" /\ u.pending = read.s.pending
    BY <1>4, <1>6, <2>2, <2>3, SilentSound
  <2>5. Steady(read.s, u) /\ u.up = read.s.up
    BY <2>2, SteadyBut DEF Fields, Marks
  <2>6. Steady(s, u)
    BY <1>4, <2>5, SteadyTrans
  <2>7. ~overall_ok(u)
    <3>1. ~overall_ok(read.s)
      BY <1>1, <1>6 DEF WantsEngine, convergence_busy
    <3>2. u.last = read.s.last /\ u.policy_error = read.s.policy_error /\ u.sub_error = read.s.sub_error
      BY <2>2 DEF Fields, Marks
    <3> QED BY <3>1, <3>2 DEF overall_ok
  <2>8. Held(s) => Held(u)
    <3>1. Claimed(u) => Claimed(s)
      BY <1>1, <2>4 DEF Core, Claimed
    <3> QED BY <1>4, <1>6, <2>4, <2>5, <3>1 DEF Held
  <2> QED BY <1>6, <2>1, <2>4, <2>6, <2>7, <2>8 DEF t, AtRest
<1>7. CASE Else /\ s.txn # "none"
  <2>1. t = nx
    BY <1>3, <1>5, <1>7 DEF convergence_busy
  <2>2. Held(s) => Held(nx)
    BY <1>2, <1>7 DEF Held, Claimed
  <2>3. AtRest(nx)
    BY <1>2, <1>7 DEF AtRest
  <2> QED BY <1>2, <2>1, <2>2, <2>3 DEF t
<1>8. CASE Else /\ s.txn = "none" /\ (s.up \/ read.user # None)
  <2>1. t = converge_engine(nx, read.user)
    BY <1>3, <1>4, <1>5, <1>8 DEF convergence_busy
  <2>2. read.user # None /\ nx.pending # None => \A x \in Source :
                x \in DOMAIN nx.pending.raw \cap nx.policy => read.user[x] = nx.pending.raw[x]
    BY <1>1, <1>2, SnapshotOfBatch
  <2>3. /\ Sound(t, k) /\ Steady(nx, t) /\ t.txn \in {"none", "check"}
        /\ ~Claimed(nx) => Held(t)
        /\ AtRest(t)
    BY <1>2, <1>8, <2>1, <2>2, EngineSound
  <2>4. Held(s) => Held(t)
    <3>1. Claimed(nx) => Claimed(s)
      BY <1>2 DEF Claimed
    <3>2. Held(s) => ~Claimed(s)
      BY <1>8 DEF Held
    <3> QED BY <2>3, <3>1, <3>2
  <2>5. Steady(s, t)
    BY <1>2, <2>3, SteadyTrans
  <2> QED BY <1>8, <2>3, <2>4, <2>5 DEF t
<1> QED BY <1>p, <1>o, <1>6, <1>7, <1>8

----------------------------------------------------------------------------
\* A handler takes s to t: the bytes stay sound, a busy worker keeps its request, and
\* while Flux is switched on, not paused and not shutting down the batch keeps its owner.
Keeps(s, t, k) ==
    /\ Sound(t, k)
    /\ s.worker # {} => t.worker = s.worker
    /\ (t.disabled <=> s.disabled) /\ (t.paused <=> s.paused)
    /\ s.shutdown => t.shutdown
    /\ ~s.disabled => /\ Pruned(s) => Pruned(t)
                      /\ ~s.paused /\ ~t.shutdown /\ Held(s) => Held(t)

\* It also leaves nobody waiting without a reason.
Serves(s, t, k) ==
    /\ Keeps(s, t, k)
    /\ ~s.disabled /\ ~s.paused /\ ~t.shutdown /\ Held(s) /\ Awaits(s) => Awaits(t)

LEMMA ServesTrans ==
    ASSUME NEW s, NEW t, NEW u, NEW k, Serves(s, t, k), Serves(t, u, k)
    PROVE  Serves(s, u, k)
BY DEF Serves, Keeps

LEMMA TameServes ==
    ASSUME NEW s, NEW k, Sound(s, k), NEW t, Tame(s, t)
    PROVE  Serves(s, t, k)
<1>1. Core(s, t) /\ (Pruned(s) => Pruned(t))
  BY DEF Tame
<1>2. Sound(t, k) /\ (Held(s) => Held(t)) /\ (Awaits(s) => Awaits(t))
  BY <1>1, CoreSound, CoreHeld, CoreAwaits
<1> QED BY <1>1, <1>2 DEF Serves, Keeps, Tame, Core

LEMMA BesideServes ==
    ASSUME NEW s, NEW k, Sound(s, k), NEW t, IsState(t), \A f \in Fields \ Beside : t[f] = s[f]
    PROVE  Serves(s, t, k)
BY BesideTame, TameServes DEF Sound

\* The handler is idle until it is to call converge.
LEMMA CallServes ==
    ASSUME NEW s, NEW k, Sound(s, k), s.pc = Idle, NEW settle, NEW what
    PROVE  Serves(s, Call(s, settle, what), k)
<1> DEFINE t == Call(s, settle, what)
<1> SUFFICES Serves(s, t, k)
  OBVIOUS
<1>1. /\ IsState(t) /\ t.pc = "converge" /\ t.then = what
      /\ \A f \in Fields \ {"pc", "settle", "then"} : t[f] = s[f]
  BY DEF Call, Sound, IsState, Fields
<1> HIDE DEF t
<1>2. \A f \in Fields \ Silent : t[f] = s[f]
  BY <1>1 DEF Silent
<1>3. Sound(t, k) /\ (Pruned(s) => Pruned(t)) /\ t.txn = s.txn /\ t.pending = s.pending
  BY <1>1, <1>2, SilentSound
<1>4. /\ t.worker = s.worker /\ t.disabled = s.disabled /\ t.shutdown = s.shutdown
      /\ t.engine_config_changed = s.engine_config_changed /\ t.conns = s.conns
      /\ t.paused = s.paused /\ t.up = s.up
  BY <1>1 DEF Fields
<1>5. Held(s) => Held(t)
  BY <1>3, <1>4 DEF Held, Claimed
<1>6. Awaits(s) => Awaits(t)
  BY <1>3, <1>4 DEF Awaits, Subscribers, Busy
<1> QED BY <1>3, <1>4, <1>5, <1>6 DEF Serves, Keeps

\* A handler that answers everyone once converge has returned.
LEMMA CallCompletes ==
    ASSUME NEW s, NEW k, Sound(s, k), NEW settle
    PROVE  LET t == Call(s, settle, "complete") IN
           /\ Sound(t, k) /\ (Pruned(s) => Pruned(t)) /\ (Held(s) => Held(t)) /\ Awaits(t)
           /\ t.worker = s.worker /\ t.disabled = s.disabled /\ t.shutdown = s.shutdown
           /\ t.paused = s.paused
<1> DEFINE t == Call(s, settle, "complete")
<1> SUFFICES /\ Sound(t, k) /\ (Pruned(s) => Pruned(t)) /\ (Held(s) => Held(t)) /\ Awaits(t)
             /\ t.worker = s.worker /\ t.disabled = s.disabled /\ t.shutdown = s.shutdown
             /\ t.paused = s.paused
  OBVIOUS
<1>1. /\ IsState(t) /\ t.pc = "converge" /\ t.then = "complete"
      /\ \A f \in Fields \ {"pc", "settle", "then"} : t[f] = s[f]
  BY DEF Call, Sound, IsState, Fields
<1> HIDE DEF t
<1>2. \A f \in Fields \ Silent : t[f] = s[f]
  BY <1>1 DEF Silent
<1>3. Sound(t, k) /\ (Pruned(s) => Pruned(t)) /\ t.txn = s.txn /\ t.pending = s.pending
  BY <1>1, <1>2, SilentSound
<1>4. /\ t.worker = s.worker /\ t.disabled = s.disabled /\ t.shutdown = s.shutdown
      /\ t.engine_config_changed = s.engine_config_changed /\ t.paused = s.paused /\ t.up = s.up
  BY <1>1 DEF Fields
<1>5. Held(s) => Held(t)
  BY <1>3, <1>4 DEF Held, Claimed
<1>6. Awaits(t)
  BY <1>1 DEF Awaits, Idle
<1> QED BY <1>3, <1>4, <1>5, <1>6

\* The phase is nobody's concern here.
LEMMA SettleServes ==
    ASSUME NEW s, NEW k, Sound(s, k)
    PROVE  Serves(s, Settle(s), k)
<1>1. IsState(Settle(s)) /\ \A f \in Fields \ Beside : Settle(s)[f] = s[f]
  BY DEF Settle, Sound, IsState, Fields, Beside
<1> QED BY <1>1, BesideServes

\* request_shutdown: afterwards nobody needs a reason to wait.
LEMMA ShutdownServes ==
    ASSUME NEW s, NEW k, Sound(s, k)
    PROVE  Serves(s, request_shutdown(s), k)
<1>1. CASE s.shutdown
  BY <1>1, TameSelf, TameServes DEF request_shutdown, Sound
<1>2. CASE ~s.shutdown
  <2> DEFINE u == [s EXCEPT !.shutdown = TRUE, !.timer = FALSE]
             t == cancel_engine_work(u)
  <2>1. request_shutdown(s) = t
    BY <1>2 DEF request_shutdown
  <2>2. /\ IsState(u) /\ u.shutdown /\ u.worker = s.worker /\ u.disabled = s.disabled
        /\ u.paused = s.paused /\ \A f \in Fields \ Silent : u[f] = s[f]
    BY DEF Sound, IsState, Fields, Silent
  <2> HIDE DEF u
  <2>3. Sound(u, k) /\ (Pruned(s) => Pruned(u))
    BY <2>2, SilentSound
  <2>4. /\ Sound(t, k) /\ (Pruned(u) => Pruned(t))
        /\ \A f \in Fields \ {"txn", "up"} : t[f] = u[f]
    BY <2>3, CancelSound
  <2> HIDE DEF t
  <2>5. /\ t.shutdown = u.shutdown /\ t.worker = u.worker /\ t.disabled = u.disabled
        /\ t.paused = u.paused
    BY <2>4 DEF Fields
  <2> QED BY <2>1, <2>2, <2>3, <2>4, <2>5 DEF Serves, Keeps
<1> QED BY <1>1, <1>2

\* apply_stimulus: Disable is a stimulus of a daemon that is switched off, SsidPause of
\* one that is paused.
LEMMA StimulusServes ==
    ASSUME NEW s, NEW k, Sound(s, k), s.pc = Idle, NEW stimulus, NEW what,
           stimulus = "Disable" => s.disabled, stimulus = "SsidPause" => s.paused
    PROVE  Serves(s, apply_stimulus(s, stimulus, what), k)
<1> DEFINE row == step(s.phase, stimulus)
           t == [s EXCEPT !.phase = row.phase]
           e == apply_stimulus(s, stimulus, what)
<1> SUFFICES Serves(s, e, k)
  OBVIOUS
<1>a. PICK yes : yes = TRUE
  OBVIOUS
<1>0. \/ e = s
      \/ e = t
      \/ e = Settle(request_shutdown(t))
      \/ e = Settle(deactivate_runtime(t)) /\ stimulus \in {"Disable", "SsidPause"}
      \/ e = Call(t, yes, what)
      \/ e = Settle(t)
  <2> HIDE DEF row
  <2>1. e = execute_commands(s, row, stimulus, what)
    BY DEF apply_stimulus, row
  <2> QED BY <2>1, <1>a DEF execute_commands
<1> HIDE DEF row
<1>1. /\ IsState(t) /\ \A f \in Fields \ Beside : t[f] = s[f]
      /\ t.pc = s.pc /\ t.disabled = s.disabled /\ t.shutdown = s.shutdown /\ t.worker = s.worker
      /\ t.paused = s.paused
  BY DEF Sound, IsState, Fields, Beside
<1> HIDE DEF t, e
<1>2. Serves(s, t, k) /\ Sound(t, k)
  BY <1>1, BesideServes DEF Serves, Keeps
<1>3. CASE e = s
  BY <1>3, TameSelf, TameServes DEF Sound
<1>4. CASE e = t
  BY <1>2, <1>4
<1>5. CASE e = Settle(request_shutdown(t))
  <2>1. Serves(t, request_shutdown(t), k)
    BY <1>2, ShutdownServes
  <2>2. Serves(request_shutdown(t), e, k)
    BY <1>5, <2>1, SettleServes DEF Serves, Keeps
  <2> QED BY <1>2, <2>1, <2>2, ServesTrans
<1>6. CASE e = Settle(deactivate_runtime(t)) /\ stimulus \in {"Disable", "SsidPause"}
  <2> DEFINE u == deactivate_runtime(t)
  <2>1. /\ Sound(u, k) /\ (Pruned(t) => Pruned(u)) /\ u.paused = t.paused
        /\ u.worker = t.worker /\ u.disabled = t.disabled /\ u.shutdown = t.shutdown
    BY <1>2, DeactivateSound
  <2> HIDE DEF u
  <2>2. Serves(u, Settle(u), k)
    BY <2>1, SettleServes
  <2>3. e = Settle(u) /\ (s.disabled \/ s.paused)
    BY <1>6 DEF u
  <2> QED BY <1>1, <1>2, <2>1, <2>2, <2>3 DEF Serves, Keeps
<1>7. CASE e = Call(t, yes, what)
  BY <1>1, <1>2, <1>7, CallServes, ServesTrans
<1>8. CASE e = Settle(t)
  BY <1>2, <1>8, SettleServes, ServesTrans
<1> QED BY <1>0, <1>3, <1>4, <1>5, <1>6, <1>7, <1>8

----------------------------------------------------------------------------
\* The end of a transaction.

\* CompleteIfIdle: at rest nobody is left waiting for a refresh.
LEMMA IdleServes ==
    ASSUME NEW s, NEW k, Sound(s, k)
    PROVE  LET t == CompleteIfIdle(s) IN
           Tame(s, t) /\ (AtRest(s) /\ Held(s) => Awaits(t))
<1>0. IsState(s)
  BY DEF Sound
<1>1. CASE s.txn # "none"
  BY <1>0, <1>1, TameSelf DEF CompleteIfIdle, convergence_busy, Awaits
<1>2. CASE s.txn = "none"
  <2> DEFINE t == complete_convergence_controls(s)
  <2>1. CompleteIfIdle(s) = t
    BY <1>2 DEF CompleteIfIdle, convergence_busy
  <2>2. /\ Tame(s, t)
        /\ s.worker = {} /\ s.txn = "none" /\ (s.pending = None \/ ~overall_ok(s)) => ~Subscribers(t)
    BY <1>0, CompleteTame
  <2> HIDE DEF t
  <2>3. AtRest(s) /\ Held(s) => s.pending = None \/ ~overall_ok(s)
    BY <1>2 DEF AtRest, Held
  <2>4. s.worker # {} => t.worker # {}
    BY <2>2 DEF Tame, Core
  <2>5. AtRest(s) /\ Held(s) => Awaits(t)
    BY <1>2, <2>2, <2>3, <2>4 DEF Awaits, Busy
  <2> QED BY <2>1, <2>2, <2>5
<1> QED BY <1>1, <1>2

\* run_queued_convergence after the queued work was resumed: a batch that nobody holds
\* has left engine_config_changed, so converge runs and answers afterwards.
LEMMA EndServes ==
    ASSUME NEW s, NEW k, Sound(s, k), s.txn = "none"
    PROVE  LET t == run_queued_convergence(resume_queued_subscription_work(s)) IN
           /\ Sound(t, k) /\ (Pruned(s) => Pruned(t))
           /\ s.worker # {} => t.worker = s.worker
           /\ t.disabled = s.disabled /\ t.shutdown = s.shutdown /\ t.paused = s.paused
           /\ ~s.disabled /\ ~s.shutdown /\ ~Claimed(s) /\ (s.pending # None => s.engine_config_changed)
                => Held(t) /\ Awaits(t)
<1> DEFINE u == resume_queued_subscription_work(s)
           t == run_queued_convergence(u)
<1> SUFFICES /\ Sound(t, k) /\ (Pruned(s) => Pruned(t))
             /\ s.worker # {} => t.worker = s.worker
             /\ t.disabled = s.disabled /\ t.shutdown = s.shutdown /\ t.paused = s.paused
             /\ ~s.disabled /\ ~s.shutdown /\ ~Claimed(s) /\ (s.pending # None => s.engine_config_changed)
                  => Held(t) /\ Awaits(t)
  OBVIOUS
<1>a. PICK no : no = FALSE
  OBVIOUS
<1>1. Tame(s, u) /\ Core(s, u)
  BY ResumeTame DEF Sound, Tame
<1> HIDE DEF u
<1>2. Sound(u, k) /\ (Pruned(s) => Pruned(u))
  BY <1>1, CoreSound DEF Tame
<1>3. /\ u.txn = "none" /\ u.disabled = s.disabled /\ u.shutdown = s.shutdown
      /\ u.paused = s.paused /\ (s.worker # {} => u.worker = s.worker)
  BY <1>1 DEF Tame, Core
<1>4. ~Claimed(s) /\ (s.pending # None => s.engine_config_changed) => ~Claimed(u) /\ Held(u)
  BY <1>1, <1>3 DEF Core, Claimed, Held
<1>5. u.pending # None /\ s.engine_config_changed => u.engine_config_changed
  BY <1>1 DEF Core
<1>6. u.pending # None => s.pending # None
  BY <1>1 DEF Core
<1>7. CASE t = Call(u, no, "complete")
  <2>1. /\ Sound(t, k) /\ (Pruned(u) => Pruned(t)) /\ (Held(u) => Held(t)) /\ Awaits(t)
        /\ t.worker = u.worker /\ t.disabled = u.disabled /\ t.shutdown = u.shutdown
        /\ t.paused = u.paused
    BY <1>2, <1>7, CallCompletes
  <2> HIDE DEF t
  <2> QED BY <1>2, <1>3, <1>4, <2>1
<1>8. CASE /\ t = CompleteIfIdle(u)
           /\ u.shutdown \/ u.disabled \/ ~u.engine_config_changed
  <2>1. Tame(u, t) /\ (AtRest(u) /\ Held(u) => Awaits(t))
    BY <1>2, <1>8, IdleServes
  <2> HIDE DEF t
  <2>2. Core(u, t) /\ t.paused = u.paused /\ (Pruned(u) => Pruned(t))
    BY <2>1 DEF Tame
  <2>3. Sound(t, k) /\ (Held(u) => Held(t))
    BY <1>2, <2>2, CoreSound, CoreHeld
  <2>4. /\ t.disabled = u.disabled /\ t.shutdown = u.shutdown
        /\ u.worker # {} => t.worker = u.worker
    BY <2>2 DEF Core
  <2>5. ~s.disabled /\ ~s.shutdown /\ (s.pending # None => s.engine_config_changed) => AtRest(u)
    BY <1>3, <1>5, <1>6, <1>8 DEF AtRest
  <2> QED BY <1>2, <1>3, <1>4, <2>1, <2>2, <2>3, <2>4, <2>5
<1> QED BY <1>7, <1>8, <1>a DEF run_queued_convergence

\* discard_generation drops the batch the generation held.
LEMMA DiscardSound ==
    ASSUME NEW s, NEW k, Sound(s, k)
    PROVE  LET t == discard_generation(s) IN
           /\ Tame(s, t) /\ ~Claimed(t) /\ (t.pending # None => s.pending # None /\ ~Claimed(s))
           /\ \A f \in Fields \ {"pending"} : t[f] = s[f]
<1> DEFINE batch == IF Claimed(s) THEN None ELSE s.pending
           t == [s EXCEPT !.pending = batch]
<1>1. discard_generation(s) = t
  BY DEF discard_generation
<1>2. batch = s.pending \/ batch = None
  OBVIOUS
<1>3. batch # None => batch = s.pending /\ ~Claimed(s)
  OBVIOUS
<1> HIDE DEF batch
<1>4. IsState(t) /\ t.pending = batch /\ \A f \in Fields \ {"pending"} : t[f] = s[f]
  BY DEF Sound, IsState, Fields
<1> HIDE DEF t
<1>5. /\ t.txn = s.txn /\ t.up = s.up /\ t.user = s.user /\ t.cand = s.cand
      /\ t.disabled = s.disabled /\ t.shutdown = s.shutdown
      /\ t.pc = s.pc /\ t.then = s.then /\ t.worker = s.worker /\ t.cache = s.cache
      /\ t.engine_config_changed = s.engine_config_changed
      /\ t.conns = s.conns /\ t.ctimer = s.ctimer /\ t.policy = s.policy
      /\ t.reconfigure_queued = s.reconfigure_queued /\ t.paused = s.paused
  BY <1>4 DEF Fields
<1>6. Tame(s, t)
  BY <1>2, <1>4, <1>5 DEF Tame, Core, Expires, Pruned
<1>7. ~Claimed(t) /\ (t.pending # None => s.pending # None /\ ~Claimed(s))
  BY <1>3, <1>4 DEF Claimed
<1> QED BY <1>1, <1>4, <1>6, <1>7

\* The transaction is over: the candidate is forgotten.
Over == {"txn", "cand", "old", "up", "last", "backoff"}

LEMMA OverSound ==
    ASSUME NEW s, NEW k, Sound(s, k), NEW t, IsState(t), t.txn = "none",
           \A f \in Fields \ Over : t[f] = s[f]
    PROVE  /\ Sound(t, k) /\ (Pruned(s) => Pruned(t))
           /\ t.worker = s.worker /\ t.disabled = s.disabled /\ t.shutdown = s.shutdown
           /\ t.pending = s.pending /\ t.engine_config_changed = s.engine_config_changed
           /\ t.paused = s.paused
<1>1. /\ t.worker = s.worker /\ t.disabled = s.disabled /\ t.shutdown = s.shutdown
      /\ t.paused = s.paused
      /\ t.pending = s.pending /\ t.engine_config_changed = s.engine_config_changed
      /\ t.user = s.user /\ t.cache = s.cache /\ t.conns = s.conns /\ t.ctimer = s.ctimer
      /\ t.policy = s.policy /\ t.reconfigure_queued = s.reconfigure_queued
  BY DEF Fields, Over
<1> QED BY <1>1 DEF Sound, Expires, Pruned

LEMMA ErrorServes ==
    ASSUME NEW s, NEW k, Sound(s, k), s.txn # "none", NEW retry
    PROVE  Serves(s, finish_transaction_error(s, retry), k)
<1> DEFINE d == discard_generation(s)
           u == [d EXCEPT !.txn = "none", !.cand = None, !.old = FALSE, !.last = "engine",
                    !.backoff = s.backoff \/ (~s.up /\ ~s.disabled /\ ~s.shutdown /\ retry)]
           t == run_queued_convergence(resume_queued_subscription_work(u))
<1>1. finish_transaction_error(s, retry) = t
  BY DEF finish_transaction_error
<1>2. /\ Tame(s, d) /\ ~Claimed(d) /\ (d.pending # None => s.pending # None /\ ~Claimed(s))
      /\ \A f \in Fields \ {"pending"} : d[f] = s[f]
  BY DiscardSound
<1> HIDE DEF d
<1>3. /\ Sound(d, k) /\ (Pruned(s) => Pruned(d))
      /\ d.worker = s.worker /\ d.disabled = s.disabled /\ d.shutdown = s.shutdown
      /\ d.engine_config_changed = s.engine_config_changed /\ d.paused = s.paused
  BY <1>2, CoreSound DEF Tame, Fields
<1>4. IsState(u) /\ u.txn = "none" /\ \A f \in Fields \ Over : u[f] = d[f]
  BY <1>3 DEF Sound, IsState, Fields, Over
<1> HIDE DEF u
<1>5. /\ Sound(u, k) /\ (Pruned(d) => Pruned(u))
      /\ u.worker = d.worker /\ u.disabled = d.disabled /\ u.shutdown = d.shutdown
      /\ u.pending = d.pending /\ u.engine_config_changed = d.engine_config_changed
      /\ u.paused = d.paused
  BY <1>3, <1>4, OverSound
<1>6. /\ Sound(t, k) /\ (Pruned(u) => Pruned(t))
      /\ u.worker # {} => t.worker = u.worker
      /\ t.disabled = u.disabled /\ t.shutdown = u.shutdown /\ t.paused = u.paused
      /\ ~u.disabled /\ ~u.shutdown /\ ~Claimed(u) /\ (u.pending # None => u.engine_config_changed)
           => Held(t) /\ Awaits(t)
  BY <1>4, <1>5, EndServes
<1> HIDE DEF t
<1>7. ~Claimed(u) /\ (Held(s) => (u.pending # None => u.engine_config_changed))
  BY <1>2, <1>3, <1>5 DEF Claimed, Held
<1> QED BY <1>1, <1>3, <1>5, <1>6, <1>7 DEF Serves, Keeps

LEMMA ActivatedServes ==
    ASSUME NEW s, NEW k, Sound(s, k), s.txn # "none", ~s.disabled /\ ~s.shutdown /\ Held(s) => ~Claimed(s)
    PROVE  Serves(s, activated(s), k)
<1> DEFINE u == [s EXCEPT !.txn = "none", !.cand = None, !.old = FALSE, !.up = TRUE]
           t == run_queued_convergence(resume_queued_subscription_work(u))
<1>1. activated(s) = t
  BY DEF activated
<1>4. IsState(u) /\ u.txn = "none" /\ \A f \in Fields \ Over : u[f] = s[f]
  BY DEF Sound, IsState, Fields, Over
<1> HIDE DEF u
<1>5. /\ Sound(u, k) /\ (Pruned(s) => Pruned(u))
      /\ u.worker = s.worker /\ u.disabled = s.disabled /\ u.shutdown = s.shutdown
      /\ u.pending = s.pending /\ u.engine_config_changed = s.engine_config_changed
      /\ u.paused = s.paused
  BY <1>4, OverSound
<1>6. /\ Sound(t, k) /\ (Pruned(u) => Pruned(t))
      /\ u.worker # {} => t.worker = u.worker
      /\ t.disabled = u.disabled /\ t.shutdown = u.shutdown /\ t.paused = u.paused
      /\ ~u.disabled /\ ~u.shutdown /\ ~Claimed(u) /\ (u.pending # None => u.engine_config_changed)
           => Held(t) /\ Awaits(t)
  BY <1>4, <1>5, EndServes
<1> HIDE DEF t
<1>7. ~s.disabled /\ ~s.shutdown /\ Held(s) => ~Claimed(u) /\ (u.pending # None => u.engine_config_changed)
  BY <1>5 DEF Claimed, Held
<1> QED BY <1>1, <1>5, <1>6, <1>7 DEF Serves, Keeps

\* finish_cancelled: nothing is held while cancelled work is being stopped.
LEMMA CancelledServes ==
    ASSUME NEW s, NEW k, Sound(s, k), s.txn = "stop"
    PROVE  Serves(s, finish_cancelled(s), k)
<1>a. PICK no : no = FALSE
  OBVIOUS
<1> DEFINE t == [s EXCEPT !.txn = "none", !.cand = None, !.old = FALSE]
           v == [t EXCEPT !.last = "none"]
           e == finish_cancelled(s)
<1> SUFFICES Serves(s, e, k)
  OBVIOUS
<1>0. \/ s.up /\ e = [s EXCEPT !.up = FALSE]
      \/ s.disabled /\ e = complete_convergence_controls(v)
      \/ ~s.disabled /\ e = Call(t, no, "complete")
      \/ s.shutdown /\ e = t
  BY <1>a DEF finish_cancelled
<1>1. CASE e = [s EXCEPT !.up = FALSE]
  <2>1. IsState(e) /\ \A f \in Fields \ {"up"} : e[f] = s[f]
    BY <1>1 DEF Sound, IsState, Fields
  <2> HIDE DEF e
  <2>2. \A f \in Fields \ Silent : e[f] = s[f]
    BY <2>1 DEF Silent
  <2>3. Sound(e, k) /\ (Pruned(s) => Pruned(e)) /\ e.txn = s.txn /\ e.pending = s.pending
    BY <2>1, <2>2, SilentSound
  <2>4. /\ e.worker = s.worker /\ e.disabled = s.disabled /\ e.shutdown = s.shutdown
        /\ e.engine_config_changed = s.engine_config_changed /\ e.paused = s.paused
    BY <2>1 DEF Fields
  <2>5. Awaits(e) /\ (Held(s) => Held(e))
    BY <2>3, <2>4 DEF Awaits, Held, Claimed
  <2> QED BY <2>3, <2>4, <2>5 DEF Serves, Keeps
<1> HIDE DEF e
<1>2. IsState(t) /\ t.txn = "none" /\ \A f \in Fields \ Over : t[f] = s[f]
  BY DEF Sound, IsState, Fields, Over
<1>3. IsState(v) /\ v.txn = "none" /\ \A f \in Fields \ Over : v[f] = s[f]
  BY DEF Sound, IsState, Fields, Over
<1> HIDE DEF t, v
<1>4. /\ Sound(t, k) /\ (Pruned(s) => Pruned(t))
      /\ t.worker = s.worker /\ t.disabled = s.disabled /\ t.shutdown = s.shutdown
      /\ t.pending = s.pending /\ t.engine_config_changed = s.engine_config_changed
      /\ t.paused = s.paused
  BY <1>2, OverSound
<1>5. /\ Sound(v, k) /\ v.worker = s.worker /\ v.disabled = s.disabled /\ v.shutdown = s.shutdown
      /\ v.paused = s.paused
  BY <1>3, OverSound
<1>6. CASE s.disabled /\ e = complete_convergence_controls(v)
  <2>1. Tame(v, e)
    BY <1>3, <1>6, CompleteTame
  <2>2. Serves(v, e, k)
    BY <1>5, <2>1, TameServes
  <2> QED BY <1>5, <1>6, <2>2 DEF Serves, Keeps
<1>7. CASE ~s.disabled /\ e = Call(t, no, "complete")
  <2>1. /\ Sound(e, k) /\ (Pruned(t) => Pruned(e)) /\ (Held(t) => Held(e)) /\ Awaits(e)
        /\ e.worker = t.worker /\ e.disabled = t.disabled /\ e.shutdown = t.shutdown
        /\ e.paused = t.paused
    BY <1>4, <1>7, CallCompletes
  <2>2. Held(s) => Held(t)
    BY <1>2, <1>4 DEF Held, Claimed
  <2> QED BY <1>4, <2>1, <2>2 DEF Serves, Keeps
<1>8. CASE s.shutdown /\ e = t
  BY <1>4, <1>8 DEF Serves, Keeps
<1> QED BY <1>0, <1>1, <1>6, <1>7, <1>8

\* finish_phase6_activation: what is committed is what the candidate was checked with.
LEMMA PublishedServes ==
    ASSUME NEW s, NEW k, Sound(s, k), s.txn = "attach", NEW published
    PROVE  Serves(s, Published(commit_pending_subscription(s, TRUE), published), k)
<1>a. PICK yes : yes = TRUE
  OBVIOUS
<1> DEFINE c == commit_pending_subscription(s, yes)
           e == Published(c, published)
           a == [c.s EXCEPT !.user = c.s.cand, !.last = "none"]
           d == discard_generation(c.s)
           v == [d EXCEPT !.txn = "recover", !.up = FALSE]
           w == [c.s EXCEPT !.up = FALSE]
<1>0. Published(commit_pending_subscription(s, TRUE), published) = e
  BY <1>a
<1>1. s.pending # None /\ s.pending.generation = yes =>
         \A x \in DOMAIN s.pending.raw \cap s.policy : x \in Source => Passed(s.pending.raw[x], k, x)
  <2> SUFFICES ASSUME s.pending # None, s.pending.generation = yes,
                      NEW x \in DOMAIN s.pending.raw \cap s.policy, x \in Source
               PROVE  Passed(s.pending.raw[x], k, x)
    OBVIOUS
  <2>1. Claimed(s)
    BY <1>a DEF Claimed
  <2>2. s.pending.raw[x] = s.cand[x]
    BY <2>1 DEF Sound
  <2> QED BY <2>2 DEF Sound
<1>2. /\ Sound(c.s, k) /\ (Pruned(s) => Pruned(c.s))
      /\ \A f \in Fields \ {"pending", "cache", "io", "sub_error", "last"} : c.s[f] = s[f]
      /\ c.s.pending = None \/ (c.s.pending = s.pending /\ s.pending.generation # yes)
  BY <1>1, CommitSound
<1>3. \/ e = activated(a)
      \/ e = v
      \/ e = finish_transaction_error(w, TRUE)
  BY DEF Published
<1> HIDE DEF c
<1>4. /\ c.s.txn = "attach" /\ c.s.worker = s.worker /\ c.s.disabled = s.disabled
      /\ c.s.shutdown = s.shutdown /\ c.s.engine_config_changed = s.engine_config_changed
      /\ c.s.conns = s.conns /\ c.s.paused = s.paused
  BY <1>2 DEF Fields
<1>5. ~Claimed(c.s) /\ (c.s.pending # None => s.pending # None /\ ~Claimed(s))
  BY <1>2, <1>a DEF Claimed, Sound
<1>6. Held(s) => Held(c.s)
  BY <1>4, <1>5 DEF Held
<1>7. Serves(s, c.s, k) /\ IsState(c.s)
  BY <1>2, <1>4, <1>6 DEF Serves, Keeps, Awaits, Sound
<1>8. CASE e = activated(a)
  <2>1. /\ IsState(a) /\ a.user = c.s.cand /\ \A f \in Fields \ {"user", "last"} : a[f] = c.s[f]
    BY <1>7 DEF IsState, Fields
  <2> HIDE DEF a
  <2>2. /\ a.txn = c.s.txn /\ a.cand = c.s.cand /\ a.policy = c.s.policy /\ a.cache = c.s.cache
        /\ a.conns = c.s.conns /\ a.ctimer = c.s.ctimer /\ a.pending = c.s.pending
        /\ a.reconfigure_queued = c.s.reconfigure_queued /\ a.worker = c.s.worker
        /\ a.disabled = c.s.disabled /\ a.shutdown = c.s.shutdown
        /\ a.engine_config_changed = c.s.engine_config_changed /\ a.paused = c.s.paused
    BY <2>1 DEF Fields
  <2>3. \A x \in Source : Passed(a.user[x], k, x)
    BY <1>2, <1>4, <2>1 DEF Sound
  <2>4. Sound(a, k) /\ ~Claimed(a)
    BY <1>2, <1>5, <2>1, <2>2, <2>3 DEF Sound, Expires, Claimed
  <2>5. Serves(c.s, a, k)
    BY <1>4, <2>2, <2>4 DEF Serves, Keeps, Pruned, Held, Claimed, Awaits
  <2>6. Serves(a, e, k)
    BY <1>4, <1>8, <2>2, <2>4, ActivatedServes
  <2> QED BY <1>0, <1>7, <2>5, <2>6, ServesTrans
<1>9. CASE e = v
  <2>1. Tame(c.s, d) /\ ~Claimed(d) /\ \A f \in Fields \ {"pending"} : d[f] = c.s[f]
    BY <1>2, DiscardSound
  <2> HIDE DEF d
  <2>2. Serves(c.s, d, k) /\ Sound(d, k) /\ IsState(d)
    <3>1. Serves(c.s, d, k)
      BY <1>2, <2>1, TameServes
    <3>2. Sound(d, k)
      BY <3>1 DEF Serves, Keeps
    <3> QED BY <3>1, <3>2 DEF Sound
  <2>3. IsState(v) /\ v.txn = "recover" /\ \A f \in Fields \ {"txn", "up"} : v[f] = d[f]
    BY <2>2 DEF IsState, Fields
  <2> HIDE DEF v
  <2>4. /\ v.user = d.user /\ v.policy = d.policy /\ v.cache = d.cache
        /\ v.conns = d.conns /\ v.ctimer = d.ctimer /\ v.pending = d.pending
        /\ v.reconfigure_queued = d.reconfigure_queued /\ v.worker = d.worker
        /\ v.disabled = d.disabled /\ v.shutdown = d.shutdown
        /\ v.engine_config_changed = d.engine_config_changed /\ v.paused = d.paused
    BY <2>3 DEF Fields
  <2>5. d.txn = "attach"
    BY <1>4, <2>1 DEF Fields
  <2>6. Sound(v, k) /\ ~Claimed(v)
    BY <2>1, <2>2, <2>3, <2>4 DEF Sound, Expires, Claimed
  <2>7. Serves(d, v, k)
    BY <2>1, <2>3, <2>4, <2>5, <2>6 DEF Serves, Keeps, Pruned, Held, Awaits
  <2> QED BY <1>0, <1>7, <1>9, <2>2, <2>7, ServesTrans
<1>10. CASE e = finish_transaction_error(w, TRUE)
  <2>1. IsState(w) /\ \A f \in Fields \ {"up"} : w[f] = c.s[f]
    BY <1>7 DEF IsState, Fields
  <2> HIDE DEF w
  <2>2. \A f \in Fields \ Silent : w[f] = c.s[f]
    BY <2>1 DEF Silent
  <2>3. Sound(w, k) /\ (Pruned(c.s) => Pruned(w)) /\ w.txn = c.s.txn /\ w.pending = c.s.pending
    BY <1>2, <2>1, <2>2, SilentSound
  <2>4. /\ w.worker = c.s.worker /\ w.disabled = c.s.disabled /\ w.shutdown = c.s.shutdown
        /\ w.engine_config_changed = c.s.engine_config_changed /\ w.paused = c.s.paused
    BY <2>1 DEF Fields
  <2>5. Serves(c.s, w, k)
    BY <1>4, <2>3, <2>4 DEF Serves, Keeps, Held, Claimed, Awaits
  <2>6. Serves(w, finish_transaction_error(w, yes), k)
    BY <1>4, <2>3, ErrorServes
  <2>7. Serves(w, e, k)
    BY <1>10, <1>a, <2>6
  <2> QED BY <1>0, <1>7, <2>5, <2>7, ServesTrans
<1> QED BY <1>3, <1>8, <1>9, <1>10

----------------------------------------------------------------------------
\* handle_subscription_result.

LEMMA JudgedTame ==
    ASSUME NEW s, IsState(s), NEW got
    PROVE  Tame(s, judge_results(s, got))
<1> DEFINE u == [s EXCEPT !.fetch_queued = s.fetch_queued \/ ~(file.sources \subseteq DOMAIN got)]
           f == Refused(got, "failed") # {}
           v == IF f THEN RetryOnRoute(refresh_default_route_observation(u))
                ELSE [u EXCEPT !.retry_on_route = FALSE]
           t == rearm_subscription_timer(v)
<1>1. IsState(u) /\ \A g \in Fields \ Beside : u[g] = s[g]
  BY DEF IsState, Fields, Beside
<1>2. judge_results(s, got) \in {set_subscription_error(t), clear_subscription_error(t)}
  BY DEF judge_results, Judged
<1> HIDE DEF u
<1>3. IsState(v) /\ \A g \in Fields \ Beside : v[g] = u[g]
  BY <1>1 DEF IsState, Fields, Beside, RetryOnRoute, refresh_default_route_observation
<1> HIDE DEF v
<1>4. Tame(s, u) /\ Tame(u, v)
  BY <1>1, <1>3, BesideTame
<1>5. Tame(v, t)
  BY <1>3, TimerTame
<1>6. Tame(s, t)
  BY <1>4, <1>5, TameTrans
<1>7. IsState(t)
  BY <1>6 DEF Tame, Core
<1> HIDE DEF t
<1>8. Tame(t, set_subscription_error(t)) /\ Tame(t, clear_subscription_error(t))
  BY <1>7, ErrorsTame
<1> QED BY <1>2, <1>6, <1>8, TameTrans

\* What AcceptResults guarantees: nobody waits for the answered worker any more.
LEMMA AcceptServes ==
    ASSUME NEW s, NEW k, Sound(s, k), NEW got
    PROVE  LET t == AcceptResults(s, got) IN
           /\ Sound(t, k) /\ (Pruned(s) => Pruned(t))
           /\ t.disabled = s.disabled /\ t.shutdown = s.shutdown /\ t.paused = s.paused
           /\ Held(s) => Held(t) /\ Awaits(t)
<1> DEFINE t == AcceptResults(s, got)
           Goal == /\ Sound(t, k) /\ (Pruned(s) => Pruned(t))
                   /\ t.disabled = s.disabled /\ t.shutdown = s.shutdown /\ t.paused = s.paused
                   /\ Held(s) => Held(t) /\ Awaits(t)
<1> SUFFICES Goal
  OBVIOUS
<1>0. IsState(s)
  BY DEF Sound
<1>1. CASE s.disabled \/ file.sources = {}
  <2> DEFINE v == [s EXCEPT !.pending = None]
  <2>1. t = refuse_subscribers(v)
    BY <1>1 DEF AcceptResults
  <2>2. IsState(v) /\ v.pending = None /\ \A f \in Fields \ {"pending"} : v[f] = s[f]
    BY <1>0 DEF IsState, Fields
  <2> HIDE DEF v
  <2>3. /\ v.txn = s.txn /\ v.up = s.up /\ v.user = s.user /\ v.cand = s.cand
        /\ v.disabled = s.disabled /\ v.shutdown = s.shutdown
        /\ v.pc = s.pc /\ v.then = s.then /\ v.worker = s.worker /\ v.cache = s.cache
        /\ v.engine_config_changed = s.engine_config_changed
        /\ v.conns = s.conns /\ v.ctimer = s.ctimer /\ v.policy = s.policy
        /\ v.reconfigure_queued = s.reconfigure_queued /\ v.paused = s.paused
    BY <2>2 DEF Fields
  <2>4. Tame(s, v)
    BY <2>2, <2>3 DEF Tame, Core, Expires, Pruned
  <2>5. Tame(v, t) /\ ~Subscribers(t)
    BY <2>1, <2>2, RefusedTame
  <2> HIDE DEF t
  <2>6. Tame(s, t) /\ Core(s, t)
    BY <2>4, <2>5, TameTrans DEF Tame
  <2>7. Sound(t, k) /\ (Held(s) => Held(t)) /\ Awaits(t)
    BY <2>5, <2>6, CoreSound, CoreHeld DEF Awaits
  <2> QED BY <2>6, <2>7 DEF Tame, Core
<1>2. CASE ~(s.disabled \/ file.sources = {}) /\ Claimed(s)
  <2> DEFINE u == [s EXCEPT !.fetch_queued = TRUE]
  <2>1. t = rearm_subscription_timer(u)
    BY <1>2 DEF AcceptResults
  <2>2. IsState(u) /\ \A f \in Fields \ Beside : u[f] = s[f]
    BY <1>0 DEF IsState, Fields, Beside
  <2> HIDE DEF u
  <2>3. Tame(s, t) /\ Core(s, t)
    BY <1>0, <2>1, <2>2, BesideTame, TimerTame, TameTrans DEF Tame
  <2> HIDE DEF t
  <2>4. Sound(t, k) /\ (Held(s) => Held(t))
    BY <2>3, CoreSound, CoreHeld
  <2>5. Held(s) => Awaits(t)
    BY <1>2, <2>3 DEF Held, Core, Awaits
  <2> QED BY <2>3, <2>4, <2>5 DEF Tame, Core
<1>3. CASE ~(s.disabled \/ file.sources = {}) /\ ~Claimed(s) /\ Accepted(got) = {}
  <2> DEFINE j == judge_results(s, got)
             u == [j EXCEPT !.pending = None]
             v == resume_queued_subscription_work(u)
  <2>1. t = complete_convergence_controls(v)
    BY <1>3 DEF AcceptResults
  <2>2. Tame(s, j)
    BY <1>0, JudgedTame
  <2>3. IsState(j)
    BY <2>2 DEF Tame, Core
  <2> HIDE DEF j
  <2>4. IsState(u) /\ u.pending = None /\ \A f \in Fields \ {"pending"} : u[f] = j[f]
    BY <2>3 DEF IsState, Fields
  <2> HIDE DEF u
  <2>5. /\ u.txn = j.txn /\ u.up = j.up /\ u.user = j.user /\ u.cand = j.cand
        /\ u.disabled = j.disabled /\ u.shutdown = j.shutdown
        /\ u.pc = j.pc /\ u.then = j.then /\ u.worker = j.worker /\ u.cache = j.cache
        /\ u.engine_config_changed = j.engine_config_changed
        /\ u.conns = j.conns /\ u.ctimer = j.ctimer /\ u.policy = j.policy
        /\ u.reconfigure_queued = j.reconfigure_queued /\ u.paused = j.paused
    BY <2>4 DEF Fields
  <2>6. Tame(j, u)
    BY <2>4, <2>5 DEF Tame, Core, Expires, Pruned
  <2>7. Tame(u, v)
    BY <2>4, ResumeTame
  <2> HIDE DEF v
  <2>8. IsState(v) /\ v.pending = None /\ Tame(s, v)
    BY <2>2, <2>4, <2>6, <2>7, TameTrans DEF Tame, Core
  <2>9. /\ Tame(v, t)
        /\ v.worker = {} /\ v.txn = "none" /\ (v.pending = None \/ ~overall_ok(v)) => ~Subscribers(t)
    BY <2>1, <2>8, CompleteTame
  <2> HIDE DEF t
  <2>10. Tame(s, t) /\ Core(s, t) /\ Core(v, t)
    BY <2>8, <2>9, TameTrans DEF Tame
  <2>11. Sound(t, k) /\ (Held(s) => Held(t))
    BY <2>10, CoreSound, CoreHeld
  <2>12. Awaits(t)
    BY <2>8, <2>9, <2>10 DEF Awaits, Busy, Core
  <2> QED BY <2>10, <2>11, <2>12 DEF Tame, Core
<1>4. CASE ~(s.disabled \/ file.sources = {}) /\ ~Claimed(s) /\ Accepted(got) # {}
  <2>a. PICK no : no = FALSE
    OBVIOUS
  <2> DEFINE j == judge_results(s, got)
             raw == [x \in Accepted(got) |-> got[x]]
             batch == [raw |-> raw, generation |-> FALSE]
             u == [j EXCEPT !.pending = batch, !.policy_changed = TRUE, !.engine_config_changed = TRUE]
  <2>1. t = Call(u, no, "complete")
    BY <1>4, <2>a DEF AcceptResults
  <2>2. Core(s, j) /\ (Pruned(s) => Pruned(j)) /\ j.policy = s.policy
        /\ j.paused = s.paused
    BY <1>0, JudgedTame DEF Tame
  <2>3. Sound(j, k) /\ IsState(j)
    BY <2>2, CoreSound DEF Core
  <2> HIDE DEF j
  <2>4. batch.raw = raw /\ batch.generation = FALSE /\ \A x \in DOMAIN raw : raw[x] \in Content
    BY DEF Accepted
  <2> HIDE DEF batch, raw
  <2>5. /\ IsState(u) /\ u.pending = batch /\ u.engine_config_changed
        /\ \A f \in Fields \ {"pending", "policy_changed", "engine_config_changed"} : u[f] = j[f]
    BY <2>3 DEF IsState, Fields
  <2> HIDE DEF u
  <2>6. /\ u.txn = j.txn /\ u.user = j.user /\ u.cand = j.cand
        /\ u.disabled = j.disabled /\ u.shutdown = j.shutdown /\ u.cache = j.cache
        /\ u.conns = j.conns /\ u.ctimer = j.ctimer /\ u.policy = j.policy
        /\ u.reconfigure_queued = j.reconfigure_queued /\ u.paused = j.paused
    BY <2>5 DEF Fields
  <2>7. ~Claimed(u)
    BY <2>4, <2>5 DEF Claimed
  <2>8. Sound(u, k) /\ (Pruned(j) => Pruned(u)) /\ Held(u)
    BY <2>3, <2>4, <2>5, <2>6, <2>7 DEF Sound, Expires, Pruned, Held
  <2>9. /\ Sound(t, k) /\ (Pruned(u) => Pruned(t)) /\ (Held(u) => Held(t)) /\ Awaits(t)
        /\ t.worker = u.worker /\ t.disabled = u.disabled /\ t.shutdown = u.shutdown
        /\ t.paused = u.paused
    BY <2>1, <2>8, CallCompletes
  <2> HIDE DEF t
  <2> QED BY <2>2, <2>6, <2>8, <2>9 DEF Core
<1> QED BY <1>1, <1>2, <1>3, <1>4

LEMMA ResultServes ==
    ASSUME NEW s, NEW k, Sound(s, k), NEW got
    PROVE  LET t == handle_subscription_result(s, got) IN
           /\ Sound(t, k) /\ (Pruned(s) => Pruned(t))
           /\ t.disabled = s.disabled /\ t.shutdown = s.shutdown /\ t.paused = s.paused
           /\ Held(s) => Held(t) /\ Awaits(t)
<1> DEFINE t == handle_subscription_result(s, got)
           Goal == /\ Sound(t, k) /\ (Pruned(s) => Pruned(t))
                   /\ t.disabled = s.disabled /\ t.shutdown = s.shutdown /\ t.paused = s.paused
                   /\ Held(s) => Held(t) /\ Awaits(t)
           u == [s EXCEPT !.worker = {}]
<1> SUFFICES Goal
  OBVIOUS
<1>1. IsState(u) /\ u.worker = {} /\ \A f \in Fields \ {"worker"} : u[f] = s[f]
  BY DEF Sound, IsState, Fields
<1>2. CASE file.valid
  <2> DEFINE v == ensure_subscription_schedule(u, file.sources)
  <2>1. t = AcceptResults(v, got)
    BY <1>2 DEF handle_subscription_result
  <2> HIDE DEF u
  <2>2. \A f \in Fields \ Silent : u[f] = s[f]
    BY <1>1 DEF Silent
  <2>3. Sound(u, k) /\ (Pruned(s) => Pruned(u)) /\ u.txn = s.txn /\ u.pending = s.pending
    BY <1>1, <2>2, SilentSound
  <2>4. u.disabled = s.disabled /\ u.shutdown = s.shutdown
        /\ u.engine_config_changed = s.engine_config_changed /\ u.up = s.up
        /\ u.paused = s.paused
    BY <1>1 DEF Fields
  <2>5. Held(s) => Held(u)
    BY <2>3, <2>4 DEF Held, Claimed
  <2>6. Tame(u, v) /\ Core(u, v)
    BY <1>1, ScheduleTame DEF Tame
  <2> HIDE DEF v
  <2>7. Sound(v, k) /\ (Pruned(u) => Pruned(v)) /\ (Held(u) => Held(v))
        /\ v.disabled = u.disabled /\ v.shutdown = u.shutdown /\ v.paused = u.paused
    BY <2>3, <2>6, CoreSound, CoreHeld DEF Tame, Core
  <2>8. /\ Sound(t, k) /\ (Pruned(v) => Pruned(t))
        /\ t.disabled = v.disabled /\ t.shutdown = v.shutdown /\ t.paused = v.paused
        /\ Held(v) => Held(t) /\ Awaits(t)
    BY <2>1, <2>7, AcceptServes
  <2> HIDE DEF t
  <2> QED BY <2>3, <2>4, <2>5, <2>7, <2>8
<1>3. CASE ~file.valid
  <2> DEFINE v == set_subscription_error(u)
             w == rearm_subscription_timer(v)
  <2>1. t = complete_convergence_controls(w)
    BY <1>3 DEF handle_subscription_result
  <2> HIDE DEF u
  <2>2. \A f \in Fields \ Silent : u[f] = s[f]
    BY <1>1 DEF Silent
  <2>3. Sound(u, k) /\ (Pruned(s) => Pruned(u)) /\ u.txn = s.txn /\ u.pending = s.pending
    BY <1>1, <2>2, SilentSound
  <2>4. u.disabled = s.disabled /\ u.shutdown = s.shutdown
        /\ u.engine_config_changed = s.engine_config_changed /\ u.up = s.up
        /\ u.paused = s.paused
    BY <1>1 DEF Fields
  <2>5. Held(s) => Held(u)
    BY <2>3, <2>4 DEF Held, Claimed
  <2>6. Tame(u, v) /\ IsState(v) /\ v.sub_error
    BY <1>1, ErrorsTame DEF Tame, Core, set_subscription_error, IsState, Fields
  <2> HIDE DEF v
  <2>7. Tame(v, w) /\ ~overall_ok(w)
    BY <2>6, TimerTame DEF rearm_subscription_timer, IsState, Fields, overall_ok
  <2> HIDE DEF w
  <2>8. Tame(u, w) /\ IsState(w)
    BY <2>6, <2>7, TameTrans DEF Tame, Core
  <2>9. /\ Tame(w, t)
        /\ w.worker = {} /\ w.txn = "none" /\ (w.pending = None \/ ~overall_ok(w)) => ~Subscribers(t)
    BY <2>1, <2>8, CompleteTame
  <2> HIDE DEF t
  <2>10. Core(u, t) /\ Core(w, t) /\ (Pruned(u) => Pruned(t)) /\ t.paused = u.paused
    BY <2>8, <2>9, TameTrans DEF Tame
  <2>11. Sound(t, k) /\ (Held(u) => Held(t)) /\ t.disabled = u.disabled /\ t.shutdown = u.shutdown
    BY <2>3, <2>10, CoreSound, CoreHeld DEF Core
  <2>12. Awaits(t)
    BY <2>7, <2>9, <2>10 DEF Awaits, Busy, Core
  <2> QED BY <2>3, <2>4, <2>5, <2>10, <2>11, <2>12
<1> QED BY <1>2, <1>3

----------------------------------------------------------------------------
\* The control clients.

\* A new connection table with its timer, in which a subscriber is new only with a reason.
LEMMA TableServes ==
    ASSUME NEW s, NEW k, Sound(s, k), NEW t, IsState(t), Expires(t),
           \A f \in Fields \ {"conns", "ctimer"} : t[f] = s[f],
           \/ \A c \in Client : t.conns[c] = "Subscribing" => s.conns[c] = "Subscribing"
           \/ s.worker # {} \/ s.txn # "none"
    PROVE  Serves(s, t, k)
<1>1. /\ t.txn = s.txn /\ t.up = s.up /\ t.paused = s.paused /\ t.user = s.user /\ t.cand = s.cand
      /\ t.disabled = s.disabled /\ t.shutdown = s.shutdown
      /\ t.pc = s.pc /\ t.then = s.then /\ t.pending = s.pending /\ t.worker = s.worker
      /\ t.cache = s.cache /\ t.engine_config_changed = s.engine_config_changed
      /\ t.policy = s.policy /\ t.reconfigure_queued = s.reconfigure_queued
  BY DEF Fields
<1>2. Sound(t, k)
  BY <1>1 DEF Sound, Claimed
<1>3. (Pruned(s) => Pruned(t)) /\ (Held(s) => Held(t))
  BY <1>1 DEF Pruned, Held, Claimed
<1>4. Awaits(s) => Awaits(t)
  BY <1>1 DEF Awaits, Subscribers, Busy
<1> QED BY <1>1, <1>2, <1>3, <1>4 DEF Serves, Keeps

LEMMA AnsweredServes ==
    ASSUME NEW s, NEW k, Sound(s, k), NEW c, NEW ok
    PROVE  Serves(s, Answered(s, c, ok), k)
<1> DEFINE u == send_response(s, c, ok)
           t == rearm_control_timer(u)
<1>1. Answered(s, c, ok) = t
  BY DEF Answered
<1>2. /\ IsState(u) /\ \A f \in Fields \ {"conns"} : u[f] = s[f]
      /\ \A d \in Client : u.conns[d] = "Subscribing" => s.conns[d] = "Subscribing"
  <2>1. CASE peer[c] = "full"
    BY <2>1 DEF send_response, Sound, IsState, Fields
  <2>2. CASE peer[c] # "full"
    BY <2>2 DEF send_response, Close, Sound, IsState, Fields
  <2> QED BY <2>1, <2>2
<1> HIDE DEF u
<1>3. IsState(t) /\ Expires(t) /\ \A f \in Fields \ {"ctimer"} : t[f] = u[f]
  BY <1>2, Rearmed
<1> HIDE DEF t
<1>4. t.conns = u.conns /\ \A f \in Fields \ {"conns", "ctimer"} : t[f] = s[f]
  BY <1>2, <1>3 DEF Fields
<1> QED BY <1>1, <1>2, <1>3, <1>4, TableServes

LEMMA WaitsServes ==
    ASSUME NEW s, NEW k, Sound(s, k), NEW c, NEW kind,
           kind # "Subscribing" \/ s.worker # {} \/ s.txn # "none"
    PROVE  Serves(s, Waits(s, c, kind), k)
<1> DEFINE u == [s EXCEPT !.conns[c] = kind]
           t == rearm_control_timer(u)
<1>1. Waits(s, c, kind) = t
  BY DEF Waits
<1>2. /\ IsState(u) /\ \A f \in Fields \ {"conns"} : u[f] = s[f]
      /\ kind # "Subscribing" =>
            \A d \in Client : u.conns[d] = "Subscribing" => s.conns[d] = "Subscribing"
  BY DEF Sound, IsState, Fields
<1> HIDE DEF u
<1>3. IsState(t) /\ Expires(t) /\ \A f \in Fields \ {"ctimer"} : t[f] = u[f]
  BY <1>2, Rearmed
<1> HIDE DEF t
<1>4. t.conns = u.conns /\ \A f \in Fields \ {"conns", "ctimer"} : t[f] = s[f]
  BY <1>2, <1>3 DEF Fields
<1> QED BY <1>1, <1>2, <1>3, <1>4, TableServes

LEMMA AnswerOrWaitServes ==
    ASSUME NEW s, NEW k, Sound(s, k), NEW c, NEW ok
    PROVE  Serves(s, AnswerOrWait(s, c, ok), k)
BY AnsweredServes, WaitsServes DEF AnswerOrWait

\* The table with one entry dropped, or as it is.
LEMMA ClosedServes ==
    ASSUME NEW s, NEW k, Sound(s, k), NEW c
    PROVE  /\ Serves(s, rearm_control_timer(Close(s, c)), k)
           /\ Serves(s, rearm_control_timer(s), k)
           /\ Serves(s, accept(s, c), k) /\ accept(s, c).pc = s.pc /\ accept(s, c).disabled = s.disabled
<1>1. Serves(s, rearm_control_timer(Close(s, c)), k)
  <2> DEFINE u == Close(s, c)
             t == rearm_control_timer(u)
  <2>1. /\ IsState(u) /\ \A f \in Fields \ {"conns"} : u[f] = s[f]
        /\ \A d \in Client : u.conns[d] = "Subscribing" => s.conns[d] = "Subscribing"
    BY DEF Close, Sound, IsState, Fields
  <2> HIDE DEF u
  <2>2. IsState(t) /\ Expires(t) /\ \A f \in Fields \ {"ctimer"} : t[f] = u[f]
    BY <2>1, Rearmed
  <2> HIDE DEF t
  <2>3. t.conns = u.conns /\ \A f \in Fields \ {"conns", "ctimer"} : t[f] = s[f]
    BY <2>1, <2>2 DEF Fields
  <2>4. Serves(s, t, k)
    BY <2>1, <2>2, <2>3, TableServes
  <2> QED BY <2>4 DEF t, u
<1>2. Serves(s, rearm_control_timer(s), k)
  <2> DEFINE t == rearm_control_timer(s)
  <2>1. IsState(t) /\ Expires(t) /\ \A f \in Fields \ {"ctimer"} : t[f] = s[f]
    BY Rearmed DEF Sound
  <2> HIDE DEF t
  <2>2. t.conns = s.conns /\ \A f \in Fields \ {"conns", "ctimer"} : t[f] = s[f]
    BY <2>1 DEF Fields
  <2>3. Serves(s, t, k)
    BY <2>1, <2>2, TableServes
  <2> QED BY <2>3 DEF t
<1>3. Serves(s, accept(s, c), k) /\ accept(s, c).pc = s.pc /\ accept(s, c).disabled = s.disabled
  <2>1. accept(s, c) = Waits(s, c, "Reading")
    BY DEF accept, Waits
  <2>2. Waits(s, c, "Reading").pc = s.pc /\ Waits(s, c, "Reading").disabled = s.disabled
    BY DEF Waits, rearm_control_timer, Sound, IsState, Fields
  <2> QED BY <2>1, <2>2, WaitsServes
<1> QED BY <1>1, <1>2, <1>3

\* The same for a step that may throw the switch or see another Wi-Fi: only what happens
\* while Flux stays switched on is promised, and to a subscriber only while it is not paused.
Takes(s, t, k) ==
    /\ Sound(t, k)
    /\ s.worker # {} => t.worker = s.worker
    /\ ~s.disabled /\ ~t.disabled => /\ Pruned(s) => Pruned(t)
                                     /\ ~s.paused /\ ~t.paused => Serves(s, t, k)

LEMMA TakesTrans ==
    ASSUME NEW s, NEW t, NEW u, NEW k
    PROVE  /\ Serves(s, t, k) => Takes(s, t, k)
           /\ Takes(s, t, k) /\ Serves(t, u, k) => Takes(s, u, k)
           /\ Serves(s, t, k) /\ Takes(t, u, k) => Takes(s, u, k)
<1>1. Serves(s, t, k) => Takes(s, t, k)
  BY DEF Takes, Serves, Keeps
<1>2. ASSUME Takes(s, t, k), Serves(t, u, k)
      PROVE  Takes(s, u, k)
  <2>1. Sound(u, k) /\ (s.worker # {} => u.worker = s.worker) /\ (~u.disabled => ~t.disabled)
        /\ (~u.paused => ~t.paused) /\ (~t.disabled => (Pruned(t) => Pruned(u)))
    BY <1>2 DEF Takes, Serves, Keeps
  <2>2. ~s.disabled /\ ~u.disabled /\ ~s.paused /\ ~u.paused => Serves(s, u, k)
    BY <1>2, <2>1, ServesTrans DEF Takes
  <2>3. ~s.disabled /\ ~u.disabled => (Pruned(s) => Pruned(u))
    BY <1>2, <2>1 DEF Takes
  <2> QED BY <2>1, <2>2, <2>3 DEF Takes
<1>3. ASSUME Serves(s, t, k), Takes(t, u, k)
      PROVE  Takes(s, u, k)
  <2>1. Sound(u, k) /\ (s.worker # {} => u.worker = s.worker) /\ (~s.disabled => ~t.disabled)
        /\ (~s.paused => ~t.paused) /\ (~s.disabled => (Pruned(s) => Pruned(t)))
    BY <1>3 DEF Takes, Serves, Keeps
  <2>2. ~s.disabled /\ ~u.disabled /\ ~s.paused /\ ~u.paused => Serves(s, u, k)
    BY <1>3, <2>1, ServesTrans DEF Takes
  <2>3. ~s.disabled /\ ~u.disabled => (Pruned(s) => Pruned(u))
    BY <1>3, <2>1 DEF Takes
  <2> QED BY <2>1, <2>2, <2>3 DEF Takes
<1> QED BY <1>1, <1>2, <1>3

\* SetSwitch and the rest of what a step may change besides.
LEMMA SwitchTakes ==
    ASSUME NEW s, NEW k, Sound(s, k), NEW t, IsState(t),
           \A f \in Fields \ (Beside \cup {"disabled"}) : t[f] = s[f]
    PROVE  Takes(s, t, k)
<1>1. /\ t.txn = s.txn /\ t.worker = s.worker /\ t.shutdown = s.shutdown
      /\ t.pc = s.pc /\ t.then = s.then /\ t.conns = s.conns
      /\ t.engine_config_changed = s.engine_config_changed /\ t.up = s.up /\ t.paused = s.paused
  BY DEF Fields, Beside
<1>2. \A f \in Fields \ Silent : t[f] = s[f]
  BY DEF Fields, Beside, Silent
<1>3. Sound(t, k) /\ (Pruned(s) => Pruned(t)) /\ t.pending = s.pending
  BY <1>2, SilentSound
<1>4. (Held(s) => Held(t)) /\ (Awaits(s) => Awaits(t))
  BY <1>1, <1>3 DEF Held, Claimed, Awaits, Subscribers, Busy
<1> QED BY <1>1, <1>3, <1>4 DEF Takes, Serves, Keeps

LEMMA RequestedSound ==
    ASSUME NEW s, NEW k, Sound(s, k), NEW op \in {"enable", "disable", "reload", "stop"}
    PROVE  LET t == Requested(s, op) IN
           /\ IsState(t) /\ t.pc = s.pc /\ t.worker = s.worker /\ t.shutdown = s.shutdown
           /\ op = "disable" => t.disabled
           /\ \A f \in Fields \ (Beside \cup {"disabled"}) : t[f] = s[f]
           /\ Sound(t, k)
<1> DEFINE t == Requested(s, op)
<1> SUFFICES /\ IsState(t) /\ t.pc = s.pc /\ t.worker = s.worker /\ t.shutdown = s.shutdown
             /\ op = "disable" => t.disabled
             /\ \A f \in Fields \ (Beside \cup {"disabled"}) : t[f] = s[f]
             /\ Sound(t, k)
  OBVIOUS
<1>1. /\ IsState(t) /\ (op = "disable" => t.disabled)
      /\ \A f \in Fields \ (Beside \cup {"disabled"}) : t[f] = s[f]
  <2>1. CASE op = "enable"
    BY <2>1 DEF Requested, SetSwitch, Sound, IsState, Fields, Beside
  <2>2. CASE op = "disable"
    BY <2>2 DEF Requested, SetSwitch, Sound, IsState, Fields, Beside
  <2>3. CASE op = "reload"
    BY <2>3 DEF Requested, Sound, IsState, Fields, Beside
  <2>4. CASE op = "stop"
    BY <2>4 DEF Requested, Sound, IsState, Fields, Beside
  <2> QED BY <2>1, <2>2, <2>3, <2>4
<1> HIDE DEF t
<1>2. t.pc = s.pc /\ t.worker = s.worker /\ t.shutdown = s.shutdown
  BY <1>1 DEF Fields, Beside
<1>3. \A f \in Fields \ Silent : t[f] = s[f]
  BY <1>1 DEF Fields, Beside, Silent
<1>4. Sound(t, k)
  BY <1>1, <1>3, SilentSound
<1> QED BY <1>1, <1>2, <1>4

\* Applied: the answer, or a place in the table until the convergence ends.
LEMMA AppliedServes ==
    ASSUME NEW s, NEW k, Sound(s, k), NEW c, NEW op
    PROVE  Serves(s, Applied(s, c, op), k)
<1>a. PICK yes, ok : yes = TRUE /\ ok = (op # "reload" \/ overall_ok(s))
  OBVIOUS
<1>1. Applied(s, c, op) \in {s, Answered(s, c, yes), AnswerOrWait(s, c, ok)}
  BY <1>a DEF Applied
<1>2. Serves(s, s, k)
  BY TameSelf, TameServes DEF Sound
<1>3. Serves(s, Answered(s, c, yes), k)
  BY AnsweredServes
<1>4. Serves(s, AnswerOrWait(s, c, ok), k)
  BY AnswerOrWaitServes
<1> QED BY <1>1, <1>2, <1>3, <1>4

LEMMA DispatchTakes ==
    ASSUME NEW s, NEW k, Sound(s, k), s.pc = Idle, NEW c, NEW op \in Request
    PROVE  Takes(s, dispatch_request(s, c, op), k)
<1>a. PICK yes : yes = TRUE
  OBVIOUS
<1>1. CASE op \in {"status", "check"}
  <2>1. dispatch_request(s, c, op) = Answered(s, c, yes)
    BY <1>1, <1>a DEF dispatch_request
  <2> QED BY <2>1, AnsweredServes, TakesTrans
<1>2. CASE op = "subscribe"
  <2> DEFINE st == start_subscription_fetch(s)
             e == Subscribed(st, c)
  <2>1. dispatch_request(s, c, op) = e
    BY <1>2 DEF dispatch_request
  <2>2. Serves(s, st.s, k)
    BY FileFetchTame, TameServes DEF Sound
  <2>3. Sound(st.s, k)
    BY <2>2 DEF Serves, Keeps
  <2>b. PICK ok : ok = (st.ok /\ overall_ok(st.s))
    OBVIOUS
  <2> HIDE DEF st
  <2>4. \/ e = Waits(st.s, c, "Subscribing") /\ (st.s.worker # {} \/ st.s.txn # "none")
        \/ e = Answered(st.s, c, ok)
    BY <2>b DEF Subscribed, Busy, convergence_busy
  <2> HIDE DEF e
  <2>5. Serves(st.s, e, k)
    BY <2>3, <2>4, WaitsServes, AnsweredServes
  <2> QED BY <2>1, <2>2, <2>5, ServesTrans, TakesTrans
<1>3. CASE op \in {"enable", "disable", "reload", "stop"}
  <2> DEFINE u == Requested(s, op)
             v == apply_stimulus(u, StimulusOf[op], c)
             e == Applied(v, c, op)
  <2>1. dispatch_request(s, c, op) = e
    BY <1>3 DEF dispatch_request
  <2>2. /\ IsState(u) /\ u.pc = s.pc /\ u.worker = s.worker /\ u.shutdown = s.shutdown
        /\ op = "disable" => u.disabled
        /\ \A f \in Fields \ (Beside \cup {"disabled"}) : u[f] = s[f]
        /\ Sound(u, k)
    BY <1>3, RequestedSound
  <2> HIDE DEF u
  <2>3. Takes(s, u, k)
    BY <2>2, SwitchTakes
  <2>4. (StimulusOf[op] = "Disable" => op = "disable") /\ StimulusOf[op] # "SsidPause"
    BY <1>3 DEF StimulusOf
  <2>b. PICK st : st = StimulusOf[op]
    OBVIOUS
  <2>5. Serves(u, apply_stimulus(u, st, c), k)
    BY <2>2, <2>4, <2>b, StimulusServes
  <2>6. Serves(u, v, k)
    BY <2>5, <2>b
  <2>7. Sound(v, k)
    BY <2>6 DEF Serves, Keeps
  <2> HIDE DEF v
  <2>8. Serves(v, e, k)
    BY <2>7, AppliedServes
  <2> QED BY <2>1, <2>3, <2>6, <2>8, TakesTrans
<1> QED BY <1>1, <1>2, <1>3 DEF Request

LEMMA ReadingTakes ==
    ASSUME NEW s, NEW k, Sound(s, k), s.pc = Idle, NEW c
    PROVE  Takes(s, handle_reading(s, c), k)
<1> DEFINE e == handle_reading(s, c)
<1>1. \/ e = rearm_control_timer(Close(s, c))
      \/ req[c] \in Request /\ e = dispatch_request(s, c, req[c])
      \/ e = rearm_control_timer(s)
  BY DEF handle_reading
<1>2. CASE e = rearm_control_timer(Close(s, c))
  BY <1>2, ClosedServes, TakesTrans
<1>3. CASE e = rearm_control_timer(s)
  BY <1>3, ClosedServes, TakesTrans
<1>4. CASE req[c] \in Request /\ e = dispatch_request(s, c, req[c])
  BY <1>4, DispatchTakes
<1> QED BY <1>1, <1>2, <1>3, <1>4

----------------------------------------------------------------------------
\* converge and the rest of its handler.

LEMMA ConvergeSound ==
    ASSUME NEW s, NEW k, Sound(s, k), s.pc = Idle
    PROVE  LET t == converge(s) IN
           /\ Takes(s, t, k) /\ t.disabled = s.disabled /\ (s.shutdown => t.shutdown)
           /\ ~s.disabled /\ ~t.shutdown /\ ~t.paused /\ Held(s) => AtRest(t)
<1> DEFINE t == converge(s)
           Goal == /\ Takes(s, t, k) /\ t.disabled = s.disabled /\ (s.shutdown => t.shutdown)
                   /\ ~s.disabled /\ ~t.shutdown /\ ~t.paused /\ Held(s) => AtRest(t)
<1> SUFFICES Goal
  OBVIOUS
<1>1. CASE s.shutdown
  <2>1. t = cancel_engine_work(s)
    BY <1>1 DEF converge
  <2>2. /\ Sound(t, k) /\ (Pruned(s) => Pruned(t))
        /\ \A f \in Fields \ {"txn", "up"} : t[f] = s[f]
    BY <2>1, CancelSound
  <2> HIDE DEF t
  <2>3. /\ t.shutdown = s.shutdown /\ t.worker = s.worker /\ t.disabled = s.disabled
        /\ t.paused = s.paused
    BY <2>2 DEF Fields
  <2>4. Serves(s, t, k)
    BY <1>1, <2>2, <2>3 DEF Serves, Keeps
  <2> QED BY <1>1, <2>3, <2>4, TakesTrans
<1>2. CASE ~s.shutdown /\ s.disabled
  <2>1. t = converge_disabled(s)
    BY <1>2 DEF converge
  <2>2. Sound(t, k) /\ t.worker = s.worker /\ t.disabled = s.disabled /\ t.shutdown = s.shutdown
    BY <2>1, DisabledSound
  <2> HIDE DEF t
  <2> QED BY <1>2, <2>2 DEF Takes
<1>3. CASE ~s.shutdown /\ ~s.disabled /\ ~file.root
  <2>1. t = [s EXCEPT !.last = "root"]
    BY <1>3 DEF converge
  <2>2. /\ IsState(t) /\ (\A f \in Fields \ Beside : t[f] = s[f])
        /\ t.disabled = s.disabled /\ t.shutdown = s.shutdown /\ t.last = "root"
    BY <2>1 DEF Sound, IsState, Fields, Beside
  <2> HIDE DEF t
  <2>3. Serves(s, t, k)
    BY <2>2, BesideServes
  <2>4. AtRest(t)
    BY <2>2 DEF AtRest, overall_ok
  <2> QED BY <2>2, <2>3, <2>4, TakesTrans
<1>4. CASE ~s.shutdown /\ ~s.disabled /\ file.root
  <2>1. t = converge_enabled(s)
    BY <1>4 DEF converge
  <2>2. /\ Sound(t, k) /\ Steady(s, t)
        /\ ~t.paused => /\ s.txn # "none" => t.txn = s.txn
                        /\ Held(s) => Held(t) /\ AtRest(t)
    BY <2>1, ConvergeEnabled
  <2> HIDE DEF t
  <2>3. ~t.paused /\ Awaits(s) => Awaits(t)
    BY <2>2 DEF Steady, Awaits, Subscribers, Busy
  <2>4. ~s.paused /\ ~t.paused => Serves(s, t, k)
    BY <2>2, <2>3 DEF Serves, Keeps, Steady
  <2> QED BY <2>2, <2>4 DEF Takes, Steady
<1> QED BY <1>1, <1>2, <1>3, <1>4

\* The whole of Converge: s is the state before it, with its handler waiting.
LEMMA ResumedTakes ==
    ASSUME NEW s, NEW k, Sound(s, k)
    PROVE  Takes(s, Resumed(Settled(converge([s EXCEPT !.pc = Idle, !.settle = FALSE,
                                                       !.then = "none"]), s.settle), s.then), k)
<1> DEFINE u == [s EXCEPT !.pc = Idle, !.settle = FALSE, !.then = "none"]
           v == converge(u)
           w == Settled(v, s.settle)
           e == Resumed(w, s.then)
<1> SUFFICES Takes(s, e, k)
  OBVIOUS
<1>1. /\ IsState(u) /\ u.pc = Idle /\ \A f \in Fields \ {"pc", "settle", "then"} : u[f] = s[f]
  BY DEF Sound, IsState, Fields
<1> HIDE DEF u
<1>2. \A f \in Fields \ Silent : u[f] = s[f]
  BY <1>1 DEF Silent
<1>3. Sound(u, k) /\ (Pruned(s) => Pruned(u)) /\ u.txn = s.txn /\ u.pending = s.pending
  BY <1>1, <1>2, SilentSound
<1>4. /\ u.worker = s.worker /\ u.disabled = s.disabled /\ u.shutdown = s.shutdown
      /\ u.engine_config_changed = s.engine_config_changed /\ u.conns = s.conns
      /\ u.up = s.up /\ u.paused = s.paused
  BY <1>1 DEF Fields
<1>5. Keeps(s, u, k)
  BY <1>3, <1>4 DEF Keeps, Held, Claimed
<1>6. s.then # "complete" => Serves(s, u, k)
  BY <1>3, <1>4, <1>5 DEF Serves, Awaits, Subscribers, Busy
<1>7. /\ Takes(u, v, k) /\ v.disabled = u.disabled /\ (u.shutdown => v.shutdown)
      /\ ~u.disabled /\ ~v.shutdown /\ ~v.paused /\ Held(u) => AtRest(v)
  BY <1>1, <1>3, ConvergeSound
<1>8. Sound(v, k)
  BY <1>7 DEF Takes
<1> HIDE DEF v
<1>9. Serves(v, w, k) /\ (AtRest(v) => AtRest(w)) /\ (v.shutdown <=> w.shutdown)
  <2>1. CASE w = v
    BY <1>8, <2>1, TameSelf, TameServes DEF Sound
  <2>2. CASE w = Settle(v)
    <3>1. Serves(v, w, k)
      BY <1>8, <2>2, SettleServes
    <3>2. /\ w.txn = v.txn /\ w.pending = v.pending /\ w.last = v.last /\ w.shutdown = v.shutdown
          /\ w.policy_error = v.policy_error /\ w.sub_error = v.sub_error
      BY <1>8, <2>2 DEF Settle, Sound, IsState, Fields
    <3> HIDE DEF w
    <3> QED BY <3>1, <3>2 DEF AtRest, overall_ok, Claimed
  <2> QED BY <2>1, <2>2 DEF Settled
<1>10. Takes(u, w, k) /\ Sound(w, k)
  BY <1>7, <1>9, TakesTrans DEF Takes
<1> HIDE DEF w
<1>11. CASE s.then = "complete"
  <2>1. e = CompleteIfIdle(w)
    BY <1>11 DEF Resumed
  <2>2. Tame(w, e) /\ (AtRest(w) /\ Held(w) => Awaits(e))
    BY <1>10, <2>1, IdleServes
  <2> HIDE DEF e
  <2>3. Serves(w, e, k) /\ e.shutdown = w.shutdown /\ e.paused = w.paused
    BY <1>10, <2>2, TameServes DEF Tame, Core
  <2>4. Takes(u, e, k)
    BY <1>10, <2>3, TakesTrans
  <2>5. /\ Sound(e, k) /\ (s.worker # {} => e.worker = s.worker)
        /\ ~s.disabled /\ ~e.disabled => (Pruned(s) => Pruned(e))
    BY <1>3, <1>4, <2>4 DEF Takes
  <2>6. ASSUME ~s.disabled, ~e.disabled, ~s.paused, ~e.paused
        PROVE  Serves(s, e, k)
    <3>1. Serves(u, e, k) /\ ~w.disabled /\ ~w.paused /\ (v.paused <=> w.paused)
      BY <1>4, <1>9, <2>3, <2>4, <2>6 DEF Takes, Serves, Keeps
    <3>2. Serves(u, w, k)
      BY <1>4, <1>10, <2>6, <3>1 DEF Takes
    <3>3. Keeps(s, e, k)
      BY <1>5, <3>1 DEF Serves, Keeps
    <3>4. ~e.shutdown /\ Held(s) => Held(w) /\ AtRest(w)
      BY <1>4, <1>5, <1>7, <1>9, <2>3, <2>6, <3>1, <3>2 DEF Serves, Keeps
    <3> QED BY <2>2, <3>3, <3>4 DEF Serves
  <2> QED BY <2>5, <2>6 DEF Takes
<1>12. CASE s.then # "complete"
  <2>a. PICK ok : ok = (req[s.then] # "reload" \/ overall_ok(w))
    OBVIOUS
  <2>1. e \in {w, maybe_retry_subscription_on_route(w), AnswerOrWait(w, s.then, ok)}
    BY <1>12, <2>a DEF Resumed
  <2> HIDE DEF e
  <2>2. Serves(w, w, k) /\ Serves(w, maybe_retry_subscription_on_route(w), k)
    BY <1>10, TameSelf, RetryTame, TameServes DEF Sound
  <2>3. Serves(w, AnswerOrWait(w, s.then, ok), k)
    BY <1>10, AnswerOrWaitServes
  <2>4. Serves(w, e, k)
    BY <2>1, <2>2, <2>3
  <2>5. Takes(u, e, k)
    BY <1>10, <2>4, TakesTrans
  <2> QED BY <1>6, <1>12, <2>5, TakesTrans
<1> QED BY <1>11, <1>12

----------------------------------------------------------------------------
\* The specification.

\* The inductive invariant: the bytes are sound, and the responses in hand are those of
\* the request the worker still has.
SubInv ==
    /\ Sound(r, checked)
    /\ \A got \in result : DOMAIN got = r.worker
    /\ result # {} => r.worker # {}

\* Its continuation while Flux stays switched on and is not paused.
Kind(s) == Pruned(s) /\ (~s.shutdown => Held(s) /\ Awaits(s))

Stays ==
    /\ SubInv'
    /\ ~r.disabled /\ ~r'.disabled =>
          /\ Pruned(r) => Pruned(r')
          /\ ~r.paused /\ ~r'.paused /\ Kind(r) => Kind(r')

LEMMA KindServes ==
    ASSUME NEW s, NEW t, NEW k, Serves(s, t, k), ~s.disabled, ~s.paused, Kind(s)
    PROVE  Kind(t)
BY DEF Serves, Keeps, Kind

LEMMA TakesStays ==
    ASSUME SubInv, Takes(r, r', checked), UNCHANGED <<checked, result>>
    PROVE  Stays
<1>1. Sound(r', checked') /\ (r.worker # {} => r'.worker = r.worker)
  BY DEF Takes
<1>2. SubInv'
  BY <1>1 DEF SubInv
<1>3. ~r.disabled /\ ~r'.disabled /\ ~r.paused /\ ~r'.paused /\ Kind(r) => Kind(r')
  BY KindServes DEF Takes
<1>4. ~r.disabled /\ ~r'.disabled => (Pruned(r) => Pruned(r'))
  BY DEF Takes
<1> QED BY <1>2, <1>3, <1>4 DEF Stays

LEMMA ServesStays ==
    ASSUME SubInv, Serves(r, r', checked), UNCHANGED <<checked, result>>
    PROVE  Stays
BY TakesTrans, TakesStays

LEMMA IoServes ==
    ASSUME NEW s, NEW k, Sound(s, k), NEW ok
    PROVE  LET t == [s EXCEPT !.io = ok] IN
           Serves(s, t, k) /\ Sound(t, k) /\ t.pc = s.pc /\ t.then = s.then /\ t.disabled = s.disabled
<1> DEFINE t == [s EXCEPT !.io = ok]
<1>1. /\ IsState(t) /\ (\A f \in Fields \ Beside : t[f] = s[f])
      /\ t.pc = s.pc /\ t.then = s.then /\ t.disabled = s.disabled
  BY DEF Sound, IsState, Fields, Beside
<1> HIDE DEF t
<1>2. Serves(s, t, k)
  BY <1>1, BesideServes
<1>3. /\ Serves(s, t, k) /\ Sound(t, k) /\ t.pc = s.pc /\ t.then = s.then /\ t.disabled = s.disabled
  BY <1>1, <1>2 DEF Serves, Keeps
<1> QED BY <1>3 DEF t

\* A handler with an outcome of its I/O.
LEMMA IoTakes ==
    ASSUME NEW s, NEW t, NEW u, NEW k, NEW yes, Serves(s, t, k), Takes(t, u, k)
    PROVE  Takes(s, [u EXCEPT !.io = yes], k)
<1>1. Sound(u, k)
  BY DEF Takes
<1>2. Serves(u, [u EXCEPT !.io = yes], k)
  BY <1>1, IoServes
<1> QED BY <1>2, TakesTrans

LEMMA ConvergeStays ==
    ASSUME SubInv, Converge
    PROVE  Stays
<1>a. PICK yes : yes = TRUE
  OBVIOUS
<1>1. PICK ok \in BOOLEAN :
         LET s == [r EXCEPT !.io = ok]
             u == Resumed(Settled(converge([s EXCEPT !.pc = Idle, !.settle = FALSE,
                                                     !.then = "none"]), s.settle), s.then)
         IN r' = [u EXCEPT !.io = TRUE]
  BY DEF Converge, Steps
<1> DEFINE s == [r EXCEPT !.io = ok]
           u == Resumed(Settled(converge([s EXCEPT !.pc = Idle, !.settle = FALSE,
                                                   !.then = "none"]), s.settle), s.then)
<1>2. Serves(r, s, checked) /\ Sound(s, checked)
  BY IoServes DEF SubInv
<1>3. r' = [u EXCEPT !.io = yes]
  BY <1>1, <1>a
<1> HIDE DEF s
<1>4. Takes(s, u, checked)
  BY <1>2, ResumedTakes
<1> HIDE DEF u
<1>5. Takes(r, r', checked)
  BY <1>2, <1>3, <1>4, TakesTrans, IoTakes
<1>6. UNCHANGED <<checked, result>>
  BY DEF Converge
<1> QED BY <1>5, <1>6, TakesStays

LEMMA ControlStays ==
    ASSUME SubInv, NEW c \in Client, HandleControl(c)
    PROVE  Stays
<1>a. PICK yes : yes = TRUE
  OBVIOUS
<1>0. UNCHANGED <<checked, result>> /\ r.pc = Idle
  BY DEF HandleControl, Alive
<1>1. CASE Admitted(r, c)
  <2>1. PICK ok \in BOOLEAN :
           r' = [handle_reading(accept([r EXCEPT !.io = ok], c), c) EXCEPT !.io = TRUE]
    BY <1>1 DEF HandleControl, Steps
  <2> DEFINE s == [r EXCEPT !.io = ok]
             v == accept(s, c)
             u == handle_reading(v, c)
  <2>2. Serves(r, s, checked) /\ Sound(s, checked) /\ s.pc = Idle
    BY <1>0, IoServes DEF SubInv
  <2>3. r' = [u EXCEPT !.io = yes]
    BY <2>1, <1>a
  <2> HIDE DEF s
  <2>4. Serves(s, v, checked) /\ v.pc = Idle
    BY <2>2, ClosedServes
  <2>5. Sound(v, checked)
    BY <2>4 DEF Serves, Keeps
  <2> HIDE DEF v
  <2>6. Takes(v, u, checked)
    BY <2>4, <2>5, ReadingTakes
  <2> HIDE DEF u
  <2>7. Serves(r, v, checked)
    BY <2>2, <2>4, ServesTrans
  <2>8. Takes(r, r', checked)
    BY <2>3, <2>6, <2>7, IoTakes
  <2> QED BY <1>0, <2>8, TakesStays
<1>2. CASE ~Admitted(r, c)
  <2>1. r' = r
    BY <1>2 DEF HandleControl
  <2> QED BY <1>0, <2>1 DEF Stays, SubInv
<1> QED BY <1>1, <1>2

LEMMA ConnectionStays ==
    ASSUME SubInv, NEW c \in Client, HandleConnection(c)
    PROVE  Stays
<1>a. PICK yes : yes = TRUE
  OBVIOUS
<1>0. UNCHANGED <<checked, result>> /\ r.pc = Idle
  BY DEF HandleConnection, Alive
<1>1. CASE \E ok \in BOOLEAN : r' = [handle_reading([r EXCEPT !.io = ok], c) EXCEPT !.io = TRUE]
  <2>1. PICK ok \in BOOLEAN : r' = [handle_reading([r EXCEPT !.io = ok], c) EXCEPT !.io = TRUE]
    BY <1>1
  <2> DEFINE s == [r EXCEPT !.io = ok]
             u == handle_reading(s, c)
  <2>2. Serves(r, s, checked) /\ Sound(s, checked) /\ s.pc = Idle
    BY <1>0, IoServes DEF SubInv
  <2>3. r' = [u EXCEPT !.io = yes]
    BY <2>1, <1>a
  <2> HIDE DEF s
  <2>4. Takes(s, u, checked)
    BY <2>2, ReadingTakes
  <2> HIDE DEF u
  <2>5. Takes(r, r', checked)
    BY <2>2, <2>3, <2>4, IoTakes
  <2> QED BY <1>0, <2>5, TakesStays
<1>2. CASE r' = writable(r, c)
  <2>1. PICK ok : ok = (r.conns[c] = "WritingOk")
    OBVIOUS
  <2>2. r' = Answered(r, c, ok)
    BY <1>2, <2>1 DEF writable, Answered
  <2>3. Serves(r, Answered(r, c, ok), checked)
    BY AnsweredServes DEF SubInv
  <2> QED BY <1>0, <2>2, <2>3, ServesStays
<1> QED BY <1>1, <1>2 DEF HandleConnection, Steps

LEMMA ExpireStays ==
    ASSUME SubInv, ExpireControls
    PROVE  Stays
<1>1. PICK expired \in SUBSET Open(r) \ {{}} : r' = expire_control_connections(r, expired, overall_ok(r))
  BY DEF ExpireControls
<1>a. PICK ok : ok = overall_ok(r)
  OBVIOUS
<1> DEFINE table == [c \in Client |->
                CASE c \notin expired -> r.conns[c]
                  [] c \in expired /\ r.conns[c] \in Waiting ->
                        send_response(r, c, ok /\ r.conns[c] = "Converging").conns[c]
                  [] OTHER -> "free"]
           u == [r EXCEPT !.conns = table]
<1>2. r' = rearm_control_timer(u)
  BY <1>1, <1>a DEF expire_control_connections
<1>3. \A c \in Client : table[c] = "Subscribing" => r.conns[c] = "Subscribing"
  <2> SUFFICES ASSUME NEW c \in Client, table[c] = "Subscribing"
               PROVE  r.conns[c] = "Subscribing"
    OBVIOUS
  <2>1. PICK so : so = (ok /\ r.conns[c] = "Converging")
    OBVIOUS
  <2>2. send_response(r, c, so).conns[c] \in {"free", "WritingOk", "WritingErr"}
    BY Sent DEF SubInv, Sound
  <2> QED BY <2>1, <2>2
<1>4. DOMAIN table = Client
  OBVIOUS
<1> HIDE DEF table
<1>5. IsState(u) /\ u.conns = table /\ \A f \in Fields \ {"conns"} : u[f] = r[f]
  BY <1>4 DEF SubInv, Sound, IsState, Fields
<1> HIDE DEF u
<1>6. IsState(r') /\ Expires(r') /\ \A f \in Fields \ {"ctimer"} : r'[f] = u[f]
  BY <1>2, <1>5, Rearmed
<1>7. r'.conns = table /\ \A f \in Fields \ {"conns", "ctimer"} : r'[f] = r[f]
  BY <1>5, <1>6 DEF Fields
<1>8. Serves(r, r', checked)
  BY <1>3, <1>6, <1>7, TableServes DEF SubInv
<1>9. UNCHANGED <<checked, result>>
  BY DEF ExpireControls, Quiet
<1> QED BY <1>8, <1>9, ServesStays

\* The events that only leave a mark.
LEMMA MarkStays ==
    ASSUME SubInv, InotifyConfig \/ Edit \/ RouteChanges \/ Roam \/ Toggle
    PROVE  Stays
<1>0. IsState(r) /\ UNCHANGED <<checked, result>>
  BY DEF SubInv, Sound, InotifyConfig, Edit, RouteChanges, Roam, Toggle, Quiet
<1>1. CASE InotifyConfig
  <2>1. r' = [r EXCEPT !.evt = {}, !.policy_changed = TRUE, !.engine_config_changed = TRUE,
                       !.debounce = TRUE]
    BY <1>1 DEF InotifyConfig
  <2>2. /\ IsState(r') /\ r'.engine_config_changed
        /\ r'.txn = r.txn /\ r'.up = r.up /\ r'.user = r.user /\ r'.cand = r.cand
        /\ r'.disabled = r.disabled /\ r'.shutdown = r.shutdown
        /\ r'.pc = r.pc /\ r'.then = r.then /\ r'.worker = r.worker /\ r'.cache = r.cache
        /\ r'.pending = r.pending /\ r'.conns = r.conns /\ r'.ctimer = r.ctimer
        /\ r'.policy = r.policy /\ r'.reconfigure_queued = r.reconfigure_queued
        /\ r'.paused = r.paused
    BY <1>0, <2>1 DEF IsState, Fields
  <2>3. Tame(r, r')
    BY <2>2 DEF Tame, Core, Expires, Pruned
  <2> QED BY <1>0, <2>3, TameServes, ServesStays DEF SubInv
<1>2. CASE Edit \/ RouteChanges \/ Roam
  <2>1. IsState(r') /\ \A f \in Fields \ Beside : r'[f] = r[f]
    BY <1>0, <1>2 DEF Edit, RouteChanges, Roam, IsState, Fields, Beside
  <2> QED BY <1>0, <2>1, BesideServes, ServesStays DEF SubInv
<1>3. CASE Toggle
  <2>1. IsState(r') /\ \A f \in Fields \ (Beside \cup {"disabled"}) : r'[f] = r[f]
    BY <1>0, <1>3 DEF Toggle, SetSwitch, IsState, Fields, Beside
  <2> QED BY <1>0, <2>1, SwitchTakes, TakesStays DEF SubInv
<1> QED BY <1>1, <1>2, <1>3

LEMMA SwitchStays ==
    ASSUME SubInv, InotifySwitch
    PROVE  Stays
<1> DEFINE s == [r EXCEPT !.evt = r.evt \ {"switch"}]
<1>a. PICK st, no : st = (IF r.disabled THEN "Disable" ELSE "Enable") /\ no = "none"
  OBVIOUS
<1>1. r' = apply_stimulus(s, st, no) /\ r.pc = Idle /\ UNCHANGED <<checked, result>>
  BY <1>a DEF InotifySwitch, Alive, Quiet
<1>2. /\ IsState(s) /\ (\A f \in Fields \ Beside : s[f] = r[f])
      /\ s.pc = r.pc /\ s.disabled = r.disabled
  BY DEF SubInv, Sound, IsState, Fields, Beside
<1> HIDE DEF s
<1>3. Serves(r, s, checked)
  BY <1>2, BesideServes DEF SubInv
<1>4. Sound(s, checked)
  BY <1>3 DEF Serves, Keeps
<1>5. (st = "Disable" => s.disabled) /\ st # "SsidPause"
  BY <1>a, <1>2
<1>6. Serves(s, r', checked)
  BY <1>1, <1>2, <1>4, <1>5, StimulusServes
<1> QED BY <1>1, <1>3, <1>6, ServesTrans, ServesStays

LEMMA DebounceStays ==
    ASSUME SubInv, Debounce
    PROVE  Stays
<1> DEFINE s == [r EXCEPT !.debounce = FALSE]
           l == LookedAt(s)
<1>a. PICK st, what, known : /\ st = take_debounce_stimulus(r)
                             /\ what = (IF r.topology_changed THEN "route" ELSE "none")
                             /\ known = (s.policy # None)
  OBVIOUS
<1> DEFINE v == apply_stimulus(l, st, what)
<1>1. /\ r' \in {v, maybe_retry_subscription_on_route(v)}
      /\ r.pc = Idle /\ UNCHANGED <<checked, result>>
  BY <1>a DEF Debounce, Alive, Quiet, RouteChecked
<1>2. /\ IsState(s) /\ (\A f \in Fields \ Beside : s[f] = r[f]) /\ s.pc = r.pc
      /\ s.wifi_changed = r.wifi_changed /\ s.topology_changed = r.topology_changed
      /\ s.policy = r.policy /\ s.wlan = r.wlan
  BY DEF SubInv, Sound, IsState, Fields, Beside
<1>b. LookedAt(r).paused = LookedAt(s).paused
  BY <1>2 DEF LookedAt, LooksAtWifi, evaluate_ssid, SubInv, Sound, IsState, Fields
<1>c. LooksAtWifi(s) = LooksAtWifi(r)
  BY <1>2 DEF LooksAtWifi
<1> HIDE DEF s
<1>3. Serves(r, s, checked)
  BY <1>2, BesideServes DEF SubInv
<1>4. Sound(s, checked) /\ st # "Disable"
  BY <1>3, <1>a DEF Serves, Keeps, take_debounce_stimulus
<1>5. Takes(s, l, checked) /\ l.pc = s.pc
  <2>1. CASE l = s
    BY <1>4, <2>1, TameSelf, TameServes, TakesTrans DEF Sound
  <2>2. CASE l = evaluate_ssid(s, known)
    <3>1. /\ Core(s, l) /\ l.policy = s.policy /\ (Pruned(s) => Pruned(l))
          /\ l.pending = s.pending /\ l.worker = s.worker
      BY <1>2, <2>2, ObservedCore
    <3> HIDE DEF l
    <3>2. Sound(l, checked) /\ (Held(s) => Held(l)) /\ (Awaits(s) => Awaits(l))
      BY <1>4, <3>1, CoreSound, CoreHeld, CoreAwaits
    <3>3. l.disabled = s.disabled /\ l.shutdown = s.shutdown /\ l.pc = s.pc
      BY <3>1 DEF Core
    <3>4. ~s.paused /\ ~l.paused => Serves(s, l, checked)
      BY <3>1, <3>2, <3>3 DEF Serves, Keeps
    <3> QED BY <3>1, <3>2, <3>3, <3>4 DEF Takes
  <2> QED BY <2>1, <2>2, <1>a DEF LookedAt
<1>6. Sound(l, checked) /\ (st = "SsidPause" => l.paused)
  BY <1>5, <1>a, <1>b, <1>c DEF Takes, take_debounce_stimulus
<1> HIDE DEF l
<1>7. Serves(l, v, checked)
  BY <1>1, <1>2, <1>4, <1>5, <1>6, StimulusServes
<1>8. Sound(v, checked)
  BY <1>7 DEF Serves, Keeps
<1> HIDE DEF v
<1>9. Serves(v, v, checked) /\ Serves(v, maybe_retry_subscription_on_route(v), checked)
  BY <1>8, TameSelf, RetryTame, TameServes DEF Sound
<1>10. Takes(r, v, checked)
  BY <1>3, <1>5, <1>7, TakesTrans
<1>11. Takes(r, r', checked)
  BY <1>1, <1>9, <1>10, TakesTrans
<1> QED BY <1>1, <1>11, TakesStays

LEMMA BackoffStays ==
    ASSUME SubInv, Backoff
    PROVE  Stays
<1> DEFINE s == [r EXCEPT !.backoff = FALSE]
<1>a. PICK st, no : st = "BackoffExpired" /\ no = "none"
  OBVIOUS
<1>1. /\ \/ (r.shutdown \/ r.disabled) /\ r' = cancel_engine_work(s)
         \/ r' = apply_stimulus(s, st, no)
      /\ r.pc = Idle /\ UNCHANGED <<checked, result>>
  BY <1>a DEF Backoff, Alive, Quiet
<1>2. /\ IsState(s) /\ (\A f \in Fields \ Beside : s[f] = r[f])
      /\ s.pc = r.pc /\ s.disabled = r.disabled /\ s.shutdown = r.shutdown
      /\ s.paused = r.paused
  BY DEF SubInv, Sound, IsState, Fields, Beside
<1> HIDE DEF s
<1>3. Serves(r, s, checked)
  BY <1>2, BesideServes DEF SubInv
<1>4. Sound(s, checked)
  BY <1>3 DEF Serves, Keeps
<1>5. CASE r' = apply_stimulus(s, st, no)
  <2>0. st # "Disable" /\ st # "SsidPause"
    BY <1>a
  <2>1. Serves(s, r', checked)
    BY <1>1, <1>2, <1>4, <1>5, <2>0, StimulusServes
  <2> QED BY <1>1, <1>3, <2>1, ServesTrans, ServesStays
<1>6. CASE (r.shutdown \/ r.disabled) /\ r' = cancel_engine_work(s)
  <2>1. /\ Sound(r', checked) /\ (Pruned(s) => Pruned(r'))
        /\ \A f \in Fields \ {"txn", "up"} : r'[f] = s[f]
    BY <1>4, <1>6, CancelSound
  <2>2. /\ r'.shutdown = s.shutdown /\ r'.worker = s.worker /\ r'.disabled = s.disabled
        /\ r'.paused = s.paused
    BY <2>1 DEF Fields
  <2>3. Serves(s, r', checked)
    BY <1>2, <1>6, <2>1, <2>2 DEF Serves, Keeps
  <2> QED BY <1>1, <1>3, <2>3, ServesTrans, ServesStays
<1> QED BY <1>1, <1>5, <1>6

LEMMA RefreshStays ==
    ASSUME SubInv, RefreshTimer
    PROVE  Stays
<1> DEFINE s == rearm_subscription_timer(r)
<1>1. r' = start_scheduled_subscription_fetch(s) /\ UNCHANGED <<checked, result>>
  BY DEF RefreshTimer, Quiet
<1>2. Tame(r, s)
  BY TimerTame DEF SubInv, Sound
<1>3. IsState(s)
  BY <1>2 DEF Tame, Core
<1> HIDE DEF s
<1>4. Tame(r, r')
  BY <1>1, <1>2, <1>3, ScheduledFetchTame, TameTrans
<1> QED BY <1>1, <1>4, TameServes, ServesStays DEF SubInv

LEMMA TakeResultStays ==
    ASSUME SubInv, TakeResult
    PROVE  Stays
<1>a. PICK yes : yes = TRUE
  OBVIOUS
<1>1. PICK got \in result, ok \in BOOLEAN :
         r' = [handle_subscription_result([r EXCEPT !.io = ok], got) EXCEPT !.io = TRUE]
  BY DEF TakeResult, Steps
<1> DEFINE s == [r EXCEPT !.io = ok]
           t == handle_subscription_result(s, got)
<1>2. Serves(r, s, checked) /\ Sound(s, checked)
  BY IoServes DEF SubInv
<1>3. r' = [t EXCEPT !.io = yes]
  BY <1>1, <1>a
<1> HIDE DEF s
<1>4. /\ Sound(t, checked) /\ (Pruned(s) => Pruned(t))
      /\ t.disabled = s.disabled /\ t.shutdown = s.shutdown /\ t.paused = s.paused
      /\ Held(s) => Held(t) /\ Awaits(t)
  BY <1>2, ResultServes
<1> HIDE DEF t
<1>5. Serves(t, r', checked)
  BY <1>3, <1>4, IoServes
<1>6. result' = {} /\ checked' = checked
  BY DEF TakeResult
<1>7. SubInv'
  BY <1>5, <1>6 DEF SubInv, Serves, Keeps
<1>8. ~r.disabled /\ ~r.paused /\ Kind(r) => Kind(s) /\ ~s.disabled /\ ~s.paused
  BY <1>2, KindServes DEF Serves, Keeps
<1>9. ~r.disabled /\ ~r.paused /\ Kind(r) => Kind(t) /\ ~t.disabled /\ ~t.paused
  BY <1>4, <1>8 DEF Kind
<1>10. ~r.disabled /\ ~r.paused /\ Kind(r) => Kind(r')
  BY <1>5, <1>9, KindServes
<1>11. ~r.disabled => (Pruned(r) => Pruned(r'))
  BY <1>2, <1>4, <1>5 DEF Serves, Keeps
<1> QED BY <1>7, <1>10, <1>11 DEF Stays

LEMMA CheckStays ==
    ASSUME SubInv, CheckPasses
    PROVE  Stays
<1>1. /\ r.txn = "check" /\ r' = [r EXCEPT !.txn = "attach", !.old = r.up, !.up = TRUE]
      /\ checked' = [x \in Source |-> checked[x] \cup ({r.cand[x]} \ {None})]
      /\ result' = result
  BY DEF CheckPasses
<1>2. /\ IsState(r') /\ r'.txn = "attach"
      /\ r'.worker = r.worker /\ r'.disabled = r.disabled /\ r'.shutdown = r.shutdown
      /\ r'.pending = r.pending /\ r'.engine_config_changed = r.engine_config_changed
      /\ r'.user = r.user /\ r'.cache = r.cache /\ r'.conns = r.conns /\ r'.ctimer = r.ctimer
      /\ r'.policy = r.policy /\ r'.reconfigure_queued = r.reconfigure_queued /\ r'.cand = r.cand
  BY <1>1 DEF SubInv, Sound, IsState, Fields
<1>3. \A x \in Source : checked[x] \subseteq checked'[x] /\ Passed(r.cand[x], checked', x)
  BY <1>1 DEF Passed
<1>4. \A x \in Source : \A v : Passed(v, checked, x) => Passed(v, checked', x)
  BY <1>3 DEF Passed
<1>5. Sound(r', checked')
  <2>1. \A x \in Source : r'.cache[x] \in Content \cup {None} /\ Passed(r'.cache[x], checked', x)
    BY <1>2, <1>4 DEF SubInv, Sound
  <2>2. r'.user # None => \A x \in Source : Passed(r'.user[x], checked', x)
    BY <1>2, <1>4 DEF SubInv, Sound
  <2>3. Claimed(r') => \A x \in DOMAIN r'.pending.raw \cap Source : r'.pending.raw[x] = r'.cand[x]
    BY <1>1, <1>2 DEF SubInv, Sound, Claimed
  <2>4. r'.pending # None =>
          /\ r'.pending.generation \in BOOLEAN
          /\ \A x \in DOMAIN r'.pending.raw \cap Source : r'.pending.raw[x] \in Content
    BY <1>2 DEF SubInv, Sound
  <2>5. Expires(r') /\ \A x \in Source : Passed(r'.cand[x], checked', x)
    BY <1>2, <1>3 DEF SubInv, Sound, Expires
  <2> QED BY <1>2, <2>1, <2>2, <2>3, <2>4, <2>5 DEF Sound
<1>6. SubInv'
  BY <1>1, <1>2, <1>5 DEF SubInv
<1>7. Kind(r) => Kind(r')
  BY <1>1, <1>2 DEF Kind, Pruned, Held, Claimed, Awaits
<1>8. Pruned(r) => Pruned(r')
  BY <1>2 DEF Pruned
<1> QED BY <1>6, <1>7, <1>8 DEF Stays

LEMMA TransactionStays ==
    ASSUME SubInv, CheckFails \/ Recovers \/ RecoveryFails \/ Stopped \/ Activates
    PROVE  Stays
<1>a. PICK yes, no : yes = TRUE /\ no = FALSE
  OBVIOUS
<1>0. UNCHANGED <<checked, result>> /\ Sound(r, checked)
  BY DEF SubInv, CheckFails, Recovers, RecoveryFails, Stopped, Activates, Quiet
<1>1. CASE CheckFails
  <2>1. r.txn = "check" /\ r' = finish_transaction_error(r, no)
    BY <1>1, <1>a DEF CheckFails
  <2> QED BY <1>0, <2>1, ErrorServes, ServesStays
<1>2. CASE RecoveryFails
  <2>1. r.txn = "recover" /\ r' = finish_transaction_error(r, yes)
    BY <1>2, <1>a DEF RecoveryFails
  <2> QED BY <1>0, <2>1, ErrorServes, ServesStays
<1>3. CASE Stopped
  <2>1. r.txn = "stop" /\ r' = finish_cancelled(r)
    BY <1>3 DEF Stopped
  <2> QED BY <1>0, <2>1, CancelledServes, ServesStays
<1>4. CASE Recovers
  <2> DEFINE s == [r EXCEPT !.last = "engine"]
  <2>1. r.txn = "recover" /\ r' = activated(s)
    BY <1>4 DEF Recovers
  <2>2. IsState(s) /\ s.txn = r.txn /\ \A f \in Fields \ Beside : s[f] = r[f]
    BY <1>0 DEF Sound, IsState, Fields, Beside
  <2> HIDE DEF s
  <2>3. Serves(r, s, checked)
    BY <1>0, <2>2, BesideServes
  <2>4. Sound(s, checked) /\ s.txn # "none"
    BY <2>1, <2>2, <2>3 DEF Serves, Keeps
  <2>5. Held(s) => ~Claimed(s)
    BY <2>1, <2>2 DEF Held
  <2>6. Serves(s, r', checked)
    BY <2>1, <2>4, <2>5, ActivatedServes
  <2> QED BY <1>0, <2>3, <2>6, ServesTrans, ServesStays
<1>5. CASE Activates
  <2>1. r.txn = "attach" /\ \E ok, published \in BOOLEAN :
           r' = [Published(commit_pending_subscription([r EXCEPT !.io = ok], TRUE), published)
                    EXCEPT !.io = TRUE]
    BY <1>5 DEF Activates
  <2>2. PICK ok \in BOOLEAN, published \in BOOLEAN :
           r' = [Published(commit_pending_subscription([r EXCEPT !.io = ok], TRUE), published)
                    EXCEPT !.io = TRUE]
    BY <2>1
  <2> DEFINE s == [r EXCEPT !.io = ok]
             u == Published(commit_pending_subscription(s, TRUE), published)
  <2>3. Serves(r, s, checked) /\ Sound(s, checked)
    BY <1>0, IoServes
  <2>4. s.txn = "attach"
    BY <1>0, <2>1 DEF Sound, IsState, Fields
  <2>5. r' = [u EXCEPT !.io = yes]
    BY <1>a, <2>2
  <2> HIDE DEF s
  <2>6. Serves(s, u, checked)
    BY <2>3, <2>4, PublishedServes
  <2> HIDE DEF u
  <2>7. Takes(r, r', checked)
    BY <2>3, <2>5, <2>6, TakesTrans, IoTakes
  <2> QED BY <1>0, <2>7, TakesStays
<1> QED BY <1>1, <1>2, <1>3, <1>4, <1>5

LEMMA ExitStays ==
    ASSUME SubInv, Exit
    PROVE  Stays
<1>1. /\ r' = [r EXCEPT !.exited = TRUE, !.conns = [c \in Client |-> "free"]]
      /\ UNCHANGED <<checked, result>>
  BY DEF Exit, Quiet
<1>2. /\ IsState(r') /\ (\A c \in Client : r'.conns[c] = "free")
      /\ r'.txn = r.txn /\ r'.up = r.up /\ r'.user = r.user /\ r'.cand = r.cand
      /\ r'.disabled = r.disabled /\ r'.shutdown = r.shutdown
      /\ r'.pc = r.pc /\ r'.then = r.then /\ r'.worker = r.worker /\ r'.cache = r.cache
      /\ r'.pending = r.pending /\ r'.engine_config_changed = r.engine_config_changed
      /\ r'.policy = r.policy /\ r'.reconfigure_queued = r.reconfigure_queued
      /\ r'.paused = r.paused
  BY <1>1 DEF SubInv, Sound, IsState, Fields
<1>3. Tame(r, r')
  BY <1>2 DEF Tame, Core, Expires, Pruned
<1> QED BY <1>1, <1>3, TameServes, ServesStays DEF SubInv

\* The steps that leave the reactor alone.
LEMMA OutsideStays ==
    ASSUME SubInv, WorkerDone \/ Clients \/ ClientStalls \/ ClientReads \/ UNCHANGED subvars
    PROVE  Stays
<1>1. CASE WorkerDone
  <2>1. r' = r /\ checked' = checked /\ r.worker # {}
    BY <1>1 DEF WorkerDone, Busy
  <2>2. \E got \in [r.worker -> Outcome] : result' = {got}
    BY <1>1 DEF WorkerDone
  <2> QED BY <2>1, <2>2 DEF Stays, SubInv
<1>2. CASE Clients \/ ClientStalls \/ ClientReads \/ UNCHANGED subvars
  <2>1. UNCHANGED <<r, checked, result>>
    BY <1>2 DEF Clients, ClientStalls, ClientReads, subvars
  <2> QED BY <2>1 DEF Stays, SubInv
<1> QED BY <1>1, <1>2

LEMMA SubStep ==
    ASSUME SubInv, [SubNext]_subvars
    PROVE  Stays
<1>1. ASSUME NEW c \in Client, HandleControl(c) \/ HandleConnection(c) PROVE Stays
  BY <1>1, ControlStays, ConnectionStays
<1>2. CASE Converge
  BY <1>2, ConvergeStays
<1>3. CASE InotifyConfig \/ Edit \/ RouteChanges \/ Roam \/ Toggle
  BY <1>3, MarkStays
<1>4. CASE InotifySwitch \/ Debounce \/ Backoff \/ RefreshTimer
  BY <1>4, SwitchStays, DebounceStays, BackoffStays, RefreshStays
<1>5. CASE TakeResult \/ CheckPasses
  BY <1>5, TakeResultStays, CheckStays
<1>6. CASE CheckFails \/ Recovers \/ RecoveryFails \/ Stopped \/ Activates
  BY <1>6, TransactionStays
<1>7. CASE Exit \/ ExpireControls
  BY <1>7, ExitStays, ExpireStays
<1>8. CASE WorkerDone \/ Clients \/ ClientStalls \/ ClientReads \/ UNCHANGED subvars
  BY <1>8, OutsideStays
<1> QED BY <1>1, <1>2, <1>3, <1>4, <1>5, <1>6, <1>7, <1>8 DEF SubNext, Loop

LEMMA SubStart ==
    ASSUME SubInit
    PROVE  SubInv /\ Kind(r)
<1>1. PICK cache \in [Source -> {None, CHOOSE x \in Content : TRUE}] :
        /\ checked = [x \in Source |-> {cache[x]} \ {None}]
        /\ r = apply_stimulus(
            [disabled |-> FALSE, shutdown |-> FALSE, exited |-> FALSE, phase |-> "Inactive",
             evt |-> {}, policy |-> None, policy_changed |-> FALSE,
             engine_config_changed |-> FALSE, reload_requested |-> FALSE,
             topology_changed |-> FALSE, debounce |-> FALSE, backoff |-> FALSE,
             wlan |-> FALSE, watched |-> FALSE, paused |-> FALSE, wifi_changed |-> FALSE,
             schedule |-> None, timer |-> FALSE, worker |-> {}, pending |-> None,
             fetch_queued |-> FALSE, reconfigure_queued |-> FALSE, retry_on_route |-> FALSE,
             route_seen |-> FALSE, recovered |-> FALSE, cache |-> cache,
             up |-> FALSE, user |-> None, txn |-> "none", cand |-> None, old |-> FALSE,
             sub_error |-> FALSE, policy_error |-> FALSE, last |-> "none",
             conns |-> [c \in Client |-> "free"],
             ctimer |-> FALSE, io |-> TRUE,
             pc |-> Idle, settle |-> FALSE, then |-> "none"], "Bootstrap", "none")
  BY DEF SubInit
<1> DEFINE s ==
            [disabled |-> FALSE, shutdown |-> FALSE, exited |-> FALSE, phase |-> "Inactive",
             evt |-> {}, policy |-> None, policy_changed |-> FALSE,
             engine_config_changed |-> FALSE, reload_requested |-> FALSE,
             topology_changed |-> FALSE, debounce |-> FALSE, backoff |-> FALSE,
             wlan |-> FALSE, watched |-> FALSE, paused |-> FALSE, wifi_changed |-> FALSE,
             schedule |-> None, timer |-> FALSE, worker |-> {}, pending |-> None,
             fetch_queued |-> FALSE, reconfigure_queued |-> FALSE, retry_on_route |-> FALSE,
             route_seen |-> FALSE, recovered |-> FALSE, cache |-> cache,
             up |-> FALSE, user |-> None, txn |-> "none", cand |-> None, old |-> FALSE,
             sub_error |-> FALSE, policy_error |-> FALSE, last |-> "none",
             conns |-> [c \in Client |-> "free"],
             ctimer |-> FALSE, io |-> TRUE,
             pc |-> Idle, settle |-> FALSE, then |-> "none"]
<1>a. PICK st, no : st = "Bootstrap" /\ no = "none"
  OBVIOUS
<1>2. r = apply_stimulus(s, st, no)
  BY <1>1, <1>a
<1>3. /\ DOMAIN s = Fields /\ DOMAIN s.conns = Client /\ (\A c \in Client : s.conns[c] = "free")
      /\ ~s.disabled /\ ~s.paused /\ s.txn = "none" /\ s.pending = None /\ s.policy = None /\ s.user = None
      /\ s.pc = Idle /\ s.cache = cache
  BY DEF Fields
<1> HIDE DEF s
<1>4. (CHOOSE x \in Content : TRUE) \in Content
  BY SubscriptionAssumption
<1>5. \A x \in Source : cache[x] \in Content \cup {None} /\ Passed(cache[x], checked, x)
  BY <1>1, <1>4 DEF Passed
<1>6. Sound(s, checked)
  BY <1>3, <1>5 DEF Sound, IsState, Expires, Claimed
<1>b. st # "Disable" /\ st # "SsidPause"
  BY <1>a
<1>7. Serves(s, r, checked)
  BY <1>2, <1>3, <1>6, <1>b, StimulusServes
<1>8. Kind(s)
  BY <1>3 DEF Kind, Pruned, Held, Claimed, Awaits, Subscribers
<1>9. Kind(r)
  BY <1>3, <1>7, <1>8, KindServes
<1>10. result = {}
  BY DEF SubInit
<1> QED BY <1>7, <1>9, <1>10 DEF SubInv, Serves, Keeps

\* ResponsesAreSound: only what passed the engine's check is in the cache, and the
\* responses in hand are those of the request the worker has, for any number of sources,
\* clients and events, disable and shutdown included; while Flux stays switched on no bytes
\* of a removed source are left, unless the reconfiguration that removes them is queued.
THEOREM ResponsesStaySound == SubSpec => ResponsesAreSound
<1> DEFINE On == ~r.disabled
           Now == CacheWasChecked /\ ResultIsCurrent
<1>1. SubInit => SubInv /\ Pruned(r)
  BY SubStart DEF Kind
<1>2. SubInv /\ [SubNext]_subvars => SubInv'
  BY SubStep DEF Stays
<1>3. SubInv /\ Pruned(r) /\ On /\ On' /\ [SubNext]_subvars => Pruned(r)'
  BY SubStep DEF Stays, Pruned
<1>4. Pruned(r) => RemovedIsPruned
  BY DEF Pruned, RemovedIsPruned
<1>5. SubInv => Now
  BY DEF SubInv, Sound, Passed, CacheWasChecked, ResultIsCurrent
<1> HIDE DEF On, Now
<1>6. SubSpec => []Now /\ ([]On => []RemovedIsPruned)
  BY <1>1, <1>2, <1>3, <1>4, <1>5, PTL DEF SubSpec
<1> QED BY <1>6, PTL DEF On, Now, ResponsesAreSound, RemovedIsForgotten

\* NobodyWaitsInVain: every connection has a deadline, always; while Flux stays switched
\* on and is not paused by the Wi-Fi a subscriber waits only for a fetch, a batch or a transaction that is under way.
THEOREM WaitersHaveReasons == SubSpec => NobodyWaitsInVain
<1> DEFINE On == ~r.disabled /\ ~r.paused
<1>1. SubInit => SubInv /\ Kind(r)
  BY SubStart
<1>2. SubInv /\ [SubNext]_subvars => SubInv'
  BY SubStep DEF Stays
<1>3. SubInv /\ Kind(r) /\ On /\ On' /\ [SubNext]_subvars => Kind(r)'
  BY SubStep DEF Stays, Kind
<1>4. Kind(r) => SubscriberHasReason
  BY DEF Kind, Awaits, Subscribers, SubscriberHasReason, convergence_busy, Busy
<1>5. SubInv => ConnectionsExpire
  BY DEF SubInv, Sound, Expires, ConnectionsExpire, Open
<1> HIDE DEF On
<1>6. SubSpec => []ConnectionsExpire /\ ([]On => []SubscriberHasReason)
  BY <1>1, <1>2, <1>3, <1>4, <1>5, PTL DEF SubSpec
<1> QED BY <1>6, PTL DEF On, NobodyWaitsInVain
=============================================================================
