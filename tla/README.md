# Flux-rs: a TLA+ verification project

Flux-rs turns a rooted Android device into a transparent proxy: a kernel module
steals the packets of selected apps in `LOCAL_OUT` and hands them to a sing-box
process, and the daemon `fluxd` decides when there is an engine to hand them to.
This directory models the parts where ordering, failure and concurrency decide
whether it is right, from the kernel module over the reactor, its clients and its
engine to the installer and the log. TLC checks all of them on small instances; TLAPS
proves, for every value of the constants, each invariant and each action property that a
passing run checks, and that the kernel module implements an abstract specification. What is left
to TLC alone is liveness.

## Inventory of the system

| part | state it keeps | operations | talks to |
|---|---|---|---|
| `kmod/fluxrs_hook.c` | `live`, listeners, UID table, `steal_q`, `steal_work` | `fluxrs_local_out` per packet, `fluxrs_steal_workfn`, `fluxrs_set_live/_listeners/_uids`, `fluxrs_clear_uids` | control node, workqueue, engine sockets |
| `kmod/fluxrs_ctl.c` | `opened` | exclusive open, ioctls, release | fluxd |
| `kmod/fluxrs_bypass.c` | the RCU pointer to the bypass set | `fluxrs_set_bypass`, lookup | hook |
| `fluxd/dataplane/platform.rs` | fd of the module, `status.active`, live epoch | `converge`, `apply_policy`, `prepare_generation`, `publish_active`, `publish_inactive` | control node, reactor |
| `flux-core/runtime.rs` | the planner's phase, generations | `step`, `Phase::observe` | reactor |
| `fluxd/reactor.rs` | engine, transaction, activation role, policy, pending-change flags, timers, waiting clients | event handlers, `converge`, the engine transaction, activation, shutdown | everything |
| `fluxd/engine.rs` | check, child, switch plan | check, spawn, SIGTERM, SIGKILL, reap | sing-box |
| `fluxd/supervisor.rs`, `layout.rs` | the child and its stop deadline, instance lock, state root | spawn, reap, forward signals, forced stop, backoff | reactor, `fluxd stop` |
| `fluxd/control.rs`, `control_wire.rs` | listening socket, connection table, one shared timer | accept, peer check, request, answer, deadline | reactor, `fluxd` commands |
| `fluxd/subscription.rs` | worker slot, pending batch, per-source cache, retry and schedule | fetch, accept, commit, prune | reactor, providers |
| `flux-core/subscription.rs`, `engine_config.rs`, `config.rs` | none (pure) | decode and refine nodes, fill groups, inject inbounds | reactor |
| `flux-core/selector.rs`, `cidr.rs`, `policy_epoch.rs` | the epoch in force (with the manager) | selection of UIDs, prefixes, commit | data plane |
| `fluxd/watch.rs` | watches and their descriptors | classify, drain, rebuild | reactor |
| `fluxd/netlink/*` | request and event sockets, dumps in progress | dump, acknowledge, drain, destroy sockets | reactor, data plane |
| `fluxd/kmod.rs`, `checks.rs`, `gki_line.rs` | the descriptor of `/dev/fluxrs` | pick, load, open, unload | kernel |
| `dataplane/attachment.rs`, topology in `platform.rs` | links, rules, routes, filters of the former TC path | cleanup (called); creation, attachment (not called) | kernel, other programs |
| `fluxd/install.rs`, `migration.rs` | files of an installation, backups | stop, migrate, adopt, publish | daemon, user |
| `fluxd/logger.rs` | the open file, its size and policy | append, rotate | everyone |
| `bpf/`, `fluxd/bpf/` | the former TC program, not reached in production | | |

What is hard: in the kernel, hooks run on every CPU with no lock against the
worker, against `close(2)` of a killed daemon and against the open of its
successor. In the daemon, a single thread serves about a dozen event sources,
and an engine switch spans many of its turns: while a check, a stop or a
readiness wait is outstanding, the switch file, the configuration, Wi-Fi,
the topology and the child itself change, requests arrive, and any call can
fail. `PROJECT.json` lists these places under `hazards`, each at its line.

What makes the parts correct:

* kernel module: no stolen packet is stranded; nothing is delivered or selected
  for a session that is over; a session is not disturbed by the end of the one
  before; the queue is bounded; no packet is judged by a new UID table and an
  old bypass set;
* lifecycle table: leaving Active freezes capture, an off daemon stays off;
* reactor: one engine, always supervised; a failed switch can go back; nothing
  that happened during a transaction is lost; Active is only reported for the
  committed engine; clients are answered; a stop ends;
* supervisor: one instance, no abandoned process, a stop is honoured whenever it
  comes, a dead reactor comes back;
* clients and subscriptions: nobody waits without a deadline and a reason, only
  checked responses are kept, removed sources leave nothing behind;
* policy: the module takes what the epoch in force says and nothing reserved;
* nodes: the engine is offered what the sources and the user wrote, no more, and a
  conversion keeps the transport and the security it understands;
* netlink and files: absence is concluded only from a whole dump, no change is
  missed while Flux is switched on;
* engine process, loader, topology: only Flux's own processes, modules and
  network objects are used or removed, and a cleanup that ends leaves none behind;
* installation and log: nothing of the user's is lost at any point of failure (but
  see below on directories that are not synced).

## Modules

* **`LocalOut`** is the kernel module with the daemons that drive it. A hook
  call is a chain of steps, one per access to shared state (`HookEnter`,
  `HookUid`, `HookDirect`, `HookListening`, `HookRoom`, `HookEnqueue`,
  `HookSchedule`); the worker has four (`WorkerStart`, `WorkerDequeue`,
  `WorkerCheck`, `WorkerDeliver`); `fluxrs_ctl_release` is one action per store
  (`ReleaseLive` ... `ReleaseOpened`), with `cancel_work_sync` split into taking
  the item and waiting for the function. `SetBypass`, `SetUidsEmpty`, `SetUids`
  and `SetUidsFails` are `apply_policy`, with the rollback that may itself fail.
  A policy epoch is a number that selects UIDs and direct destinations. `from`
  is what `live_epoch` returns in the fluxd that holds the instance lock: it
  survives a close inside the process and is lost with the process.
* **`MCLocalOut`** gives `LocalOut` its small instances.
* **`Lifecycle`** is the table of `runtime.rs` as operators, all stimuli and all
  phases, with the same names.
* **`Reactor`** extends `Lifecycle` and is the reactor with the parts of the data
  plane and of the engine it calls. One action per function; a call is a change
  of `pc`, so between the functions of one handler the world can move (a file
  is edited, a child dies), while other handlers cannot run: the reactor has one
  thread. `frame` is what the callers above will still do on return (settle the
  planner, answer clients, start waiting, schedule a retry). Actions ending in
  `_fails` are the error returns. `converge` is the chain `converge_down` |
  `converge_read` -> `converge_dataplane` | `converge_cold` -> `converge_apply`
  -> `converge_engine` -> `start_generation_check` | `start_phase6`. The engine
  transaction is `tx` (checking, waiting, stopping; `what` is the disposition,
  the role or the StopNext), its `SwitchPlan` is `plan`. `Overlap` says which policies
  bypass fake addresses of which engines: `candidate_policy` and `candidate_user` are
  the comparisons of `validate_fakeip_bypass`, after which a candidate is dropped
  without a retry; `converge_refused` is the return when `layout.ensure` finds a
  foreign object in the state root.
* **`MCReactor`** says which versions overlap in the runs of `Reactor`.
* **`Supervisor`** is `fluxd daemon` as processes: any number of supervisors
  (`spc`: spawn, wait, backoff, gone), their reactors as far as a parent and the
  lock see them (boot, locked, running, ending, zombie), pending signals, the
  flock and `fluxd stop`. `take_chld`, `take_term` and `take_hup` are the arms of
  `wait_for_reactor`; a reactor without its signalfd dies of a forwarded signal.
* **`Capture`** is the abstract specification of the kernel module: a packet is
  new, held, direct, delivered or dropped, and is decided once. `LocalOut`
  instantiates it as `Promise`, with `opened` for `capturing` and the packet's
  verdict for its fate (held while it has none).
* **`UidTable`** opens up the one read of `LocalOut`: the stores of `SET_UIDS` become
  visible one by one and in any order that keeps the two stores to `uid_n` in
  order, while `uid_selected` searches, one `READ_ONCE` a step.
* **`Control`** and **`Subscription`** are the clients' side of the reactor. Their
  operators map a reactor state to the state a call leaves behind and are composed
  in the order of the calls; one action per event of the loop, with `Converge` as
  the second half of a handler that converges. The engine transaction appears
  only at the points where it touches the coordinator; `paused` is the verdict on the
  Wi-Fi, under which `converge` returns before it looks at the batch, and a state root
  that is refused ends it in the same way. **`MCClients`** bounds it.
* **`Policy`** goes from `flux.toml` and `packages.list` to the tables of the module:
  parsing, selection, fixed prefixes, own addresses, the two ioctls and their
  failures. The daemon's verdict (`observe_new_flow`) and the module's
  (`fluxrs_policy_direct`: sorted table, offsets, binary search per length) are
  separate definitions.
* **`Nodes`** goes from sources, responses and the template to the configuration of
  the engine: `parse_uri`, refinement, assembly, groups, inbounds, and the warning about
  tags that no group refers to.
* **`Netlink`** has a dump in progress against a table that changes, and its three
  users: the SSID watch, the readiness probe and the socket reset. `Unsupported` is a family
  the kernel does not dump (ENOENT), which a reset leaves out; `Destroy` spares root and the
  overflow UID and stops at `SOCK_DESTROY_MAX`; `switched` is the disable file, while which is
  there the events of the watch are drained and ignored.
* **`Topology`** has every request of cleanup, creation and rollback as a step, with
  other programs changing the network in between. `touched` is what others put in place
  since Flux last looked, `struck` what they had in place when it looked and Flux deleted.
  A failed dump in `create_topology` returns without a rollback, as the code does.
* **`Install`** has every write of an installation, the page cache behind it, kills,
  power loss, retries and user edits. `made` is the state of the two directories it makes,
  `run/migrations` and `run/cache/sources`: until its parent is synced, a power loss may
  take a new directory with everything in it.
* **`Process`** has the engine as a process: fork, exec, parent death, recycled pids,
  contended ports, the check and its pipe, the effective file.
* **`Loader`** has the choice, loading and holding of the kernel module, with other
  holders of the node, a `finit_module` that may refuse any file, and a resident module of
  an earlier version that does not answer `GET_STATUS`: the node is then held and reported.
* **`Watch`** has the inotify queue (coalescing, overflow, replaced directories) and
  `handle_inotify`. **`Logger`** has append and rotation, step by step. **`Values`** holds
  what these share, the operators on lists included, as recursive functions that can be
  proved about.
* **`MCParts`** gives the nine modules from `Policy` to `Logger`, and `UidTable`, their
  instances. They share no state and no steps; one of them moves in a behaviour.
* **`LocalOutProofs`** (with the refinement of `Capture`), **`SupervisorProofs`**,
  **`ReactorProofs`** (with the lifecycle table and the reactor at rest),
  **`SubscriptionProofs`**, **`PartsProofs`** (`Watch`, `Process`, `UidTable`),
  **`NetworkProofs`** (`Netlink`, `Topology`), **`InstallProofs`** and **`PolicyProofs`**
  (`Loader`, `Policy`, `Logger`, `Nodes`) hold the theorems.

Definitions named `X_Something` under a comment "Mutant of X" are faulty
variants of X, not part of any specification; `PROJECT.json` says which property
each of them must violate.

### Abstractions

* `LocalOut`: the UID table is read at once (`UidTable` has the search that races
  `SET_UIDS`); lookup of the listener socket and the preparation of the skb succeed
  or fail; a packet passes the hook once.
* `UidTable`: the stores of one ioctl are visible before the next ioctl begins,
  which is another system call of the one daemon.
* `Reactor`: a configuration is a version, 0 an invalid one; a policy is or is
  not published; generation numbers are reused once nothing names them (the
  code counts up to 2^64); a timer is armed or not and may expire at any time;
  the check process itself is not kept, only the state of its transaction;
  a subscription is only the arrival of its result; Wi-Fi is paused-for or not.
* `ReactorCrash` is the death of the reactor and its restart in one step:
  PDEATHSIG kills the engine and the kernel closes the control node. The interval
  in which the dying engine still holds its sockets is not modelled.
* `Supervisor`: SIGINT is SIGTERM; a pending signal may be taken in any order (the
  kernel takes the lowest number first); backoff steps have no length, so the
  crash count that selects them is left out; an error of `waitpid` or
  `sigtimedwait` is `SupervisorDies`.
* `Subscription`: epochs are compared for equality only and kept as booleans; the
  content of a response is one of two values; HTTP is its outcome.
* `Policy`: one address family of `Width` bits; an app or CIDR entry is a record, not
  text; one list file for apps and one for prefixes.
* `Nodes`: a tag is a sequence of symbols, a regular expression the set of symbols it
  finds, a URI the record of what `parse_uri` looks at (`security` of vmess is its `tls` field). Percent and base64 decoding
  and the multiplier rewriting are left out.
* `Netlink`: a datagram carries one message; sequence numbers do not wrap.
* `Topology`: a pair of another program is not a veth with Flux's MTU, which is what
  `create_topology` takes for the one it has just made.
* `Install`: the user does not edit while an installation runs, and renames and new directories
  reach the disk before an interrupted installation is started again or the user edits
  (a power loss that takes back a rename from before a later, durable edit mixes
  an old advanced.toml with the new flux.toml; no order of the installer's syncs
  could prevent that after a kill). `config/` and `run/` are there before an installation
  with something to lose.
* `Process`: an identity that is never used again stands for the pidfd and for the
  start time of a process.
* The TC/BPF attachment is always idle in `Reactor`, as in the production build.

## Runs

| run | instance | shows |
|---|---|---|
| `LocalOut_safety` | 3 packets of 2 apps, 2 CPUs, 2 daemons, 2 epochs, queue limit 1; symmetric CPUs, daemons and equal packets | the six safety invariants of the module, its types, and `DecidesOnce`, the refinement of `Capture` |
| `LocalOut_liveness` | 2 packets, 2 CPUs, 1 daemon, 1 epoch | `StolenIsConsumed` |
| `LocalOut_leak` | the same | `AdmittedStaysCaptured` is violated |
| `Reactor_safety` | every event and every fault, 2 of each, 2 valid configurations | `OneSupervisedEngine`, `FilesKept`, `NoStrandedWaiter`, `ActiveIsCommitted` |
| `Reactor_converge` | config, topology, reload, stop, subscription (3 events), one retryable fault, two of three versions overlap | `RestIsConverged`, `StopTerminates`, `WaitersAnswered` |
| `Reactor_enable`, `_armed` | the events and faults the case needs | `EnableHonoured`, `ActiveIsArmed` are violated |
| `Supervisor_run` | 2 supervisors, 2 signals, 2 crashes, 1 `fluxd stop` | `OneInstance`, `NoneAbandoned`, `SomeoneServes`, `StopHonoured`, `Recovers` |
| `Supervisor_stop` | 2 supervisors, 1 crash, 1 `fluxd stop` | `StopIsProof` is violated |
| `Clients` | 2 clients with different requests, 2 sources that can clash, 1 edit, toggle, route change, refresh or fault | `ResponsesAreSound`, `NobodyWaitsInVain`, `SubscriberAnswered` |
| `Parts` | the ten instances of `MCParts`, 2 changes of the outside world (5 for files) | one or two statements for each part, below |
| `Watch_overflow` | an inotify queue of 2 | `EnableIsSeen` is violated |

The invariants of `Parts`, each a conjunction of parts that are stated and
explained on their own in its module:

| part | property | says |
|---|---|---|
| `UidTable` | `SearchIsSound` | exact when no ioctl overlaps, never outside the array or the UIDs ever listed |
| `Policy` | `StealsAsConfigured` | apps only, nothing reserved, no own address, and at rest the verdict of the epoch for every packet |
| `Nodes` | `PoolIsSound` | groups filled, exclusions kept, tags unambiguous and clean, providers independent; the named transport, TLS where the protocol has no other mode or vless or vmess says tls, reality where it is named |
| `Netlink` | `DumpsAreWhole`, `ChangeIsNoticed` | conclusions only from whole dumps, resets never after one that was cut short and never of root or the overflow UID; a stale view is read again, at the latest by the convergence after an enable |
| `Topology` | `TopologyIsOwned`, `NothingLeftBehind` | whatever others do, nothing of theirs that was there at Flux's last look is deleted; creation is inactive and, undisturbed, converges; undisturbed cleanups and rollbacks that end are complete |
| `Install` | `NothingIsLost`, `InstallIsProper` | atomic over crashes and power loss, originals and responses recoverable unless their new directory is lost; ends complete and never under a daemon |
| `Process` | `ProcessesAreOurs`, `GenerationIsOurs` | no orphan, no stranger behind a pid, no lost child; what is promoted was written, judged and bound as believed |
| `Loader` | `ModuleFits` | stable choice; attached is said only of a module that is held, answers and can steal, and a node held otherwise was reported; the check foretells the load |
| `Watch` | `ChangesAreSeen` | no edit and no disable is missed |
| `Logger` | `RotationIsSound` | nothing the policy retains is lost, and no more is retained |

Bounds. With a queue limit of 1 and two CPUs the lockless test is overshot, the
queue is full and the purge meets a non-empty queue; two daemons give a close
and a competing open; two epochs give an update of a published policy. Two
events and two failures on top of a start give a switch, an event in the middle
of it, a failed recovery, and a stop or disable in each state of the
transaction; two valid versions and an invalid one distinguish the old from the
new configuration. Two supervisors contend for the lock, and two signals with
two crashes give a stop during a restart and a reload with a dying reactor. Six
generation identifiers are more than can be named at once. Two sources and two
clients give an answer that is overtaken, a source removed during its fetch and two
sessions on one timer. Addresses of 3 bits hold nested, equal and reserved
prefixes and a bucket of three to search; three slots and three ioctls leave old
entries behind a shorter table; a rotation with three policies meets gaps and
surplus files; two pids and three births use a pid again; a queue of 2 overflows.
`MaxFuel`, `MaxFailures`, `MaxEvents`, `MaxChanges` and their like make behaviours finite; `CHECK_DEADLOCK FALSE`
because a system nobody uses may rest.

Fairness. `LocalOut`: a hook call on a CPU completes, the workqueue runs a
pending item, a release that has begun completes; no fairness for packets or
ioctls. `Reactor`: the thread runs what it has called, epoll reports every ready
descriptor, armed timers expire, a signalled process exits (unless the fault
`wedge` is taken). `Supervisor`: supervisors and starting reactors run, the grace
period and a backoff end; a reactor told to stop may hang, which is what
`force_stop` is for. `Subscription`: the loop handles what is ready, timers that are armed expire, and
the worker and the engine transaction end, which their own deadlines guarantee.
No fairness for users, networks or failures; `Parts` states none. `Reactor_converge`
leaves out the switch and Wi-Fi events, whose convergence is what the findings
contradict, and the supervision fault (see hazards). A Wi-Fi event and an edit in one
debounce window would also break it: the window ends as `SsidResume`, which is a stay in
`Active`, and the edit waits for another event. `RestIsConverged` is about configurations
that are valid and suit every version (`Usable`): one that overlaps another may be dropped
by a comparison with what happens to be committed, and a state root that is refused ends a
convergence, both with a report and without a retry. `SubscriberAnswered` and the second
half of `NobodyWaitsInVain` are about behaviours without a pause: paused, a batch stays
pending and only the deadline answers, and a second subscriber whose fetch cannot start
drops the batch the first one waits for.

## Findings

* **Enable after disable** (`EnableHonoured`): the planner keeps `Stopping` after
  the stop has finished, and `Enable` in `Stopping` does nothing. A reload in
  between settles the planner and hides it.
* **Hot switch** (`ActiveIsArmed`): the UIDs cleared by the switch are not set
  again by the activation; status says Active while nothing is stolen, until
  the next policy convergence.
* **Full queue** (`AdmittedStaysCaptured`): the hook passes a packet of a captured
  socket when the queue is full, where the README promises a drop.
* **Stop during a backoff** (`StopIsProof`): `fluxd stop` finds the lock free, says
  the daemon is not running, and the supervisor restarts it when the backoff
  ends.
* **Overflow while disabled** (`EnableIsSeen`): an overflow of the inotify queue marks
  policy and engine as changed but not the switch, and a debounce in `Disabled` does
  nothing; a removal of `disable` that was dropped is never acted on, where
  `watch.rs` says that every authority is reread.

Three more statements of the repository are written down in their modules and violated by
the code, without a run of their own; adding the first to `Reactor_converge.cfg`, or one
of the others to `Parts.cfg`, as an INVARIANT shows a trace:

* **Edit during the first start** (`PolicySuitsEngine`): the new policy is compared with
  the committed engine or the one read beside it; there is neither while the first
  engine starts. It is installed, the old engine commits, the new one fails its check
  or its start, and the reactor rests with a policy that bypasses the fake addresses in use.
* **Unsynced directory** (`BackupSurvives`): the entry of a new `run/migrations` is not
  synced before the documents are replaced, so by POSIX's rule a power loss may take the
  backups. On a journaling file system that commits the directory with its files it does
  not happen. `run/cache/sources` and the adopted response are alike.
* **Unknown security** (`SecurityPreserved`): vless with `security=xtls`, vmess with
  `tls=reality` and http with `security=tls` become outbounds without TLS, where the
  blueprint asks for an error.

Met while modelling and kept as hazards, without a run: a Wi-Fi pause after a
refresh that activated is read in the wrong row (`reactor.rs:3155`); an edit after
an engine died arms the UIDs before its check is rejected (`reactor.rs:2000`); a
refresh put off during a convergence is not resumed by every path (`reactor.rs:3090`);
between the two ioctls of `apply_policy` the module has the bypass of one epoch
and the UIDs of another (`platform.rs:650`, against `policy_epoch.rs:24`); a document
edited between an interrupted installation and its retry is replaced without a
backup of its own (`install.rs:172`); a disable during a transaction leaves its
batch claimed by a dead generation, so a subscriber waits for its deadline
(`reactor.rs:2893`); a disable forgets a queued reconfiguration, so the bytes of a removed
source stay in the cache until the next policy (`subscription.rs:183`); a failed nl80211 dump forgets the events it consumed
(`reactor.rs:1314`).

## Theorems

`LocalOutProofs` proves, for every set of packets, UIDs, destinations, CPUs
(finite, not empty), daemons, every number of epochs and every queue limit above
0 (`LocalOutAssumption`), that `Spec` implies all seven invariants of
`LocalOut_safety`. None but the types is inductive alone. `Inv` adds:

* `SessionInv`: at most one daemon is outside `closed`, and for each of `live`,
  the listeners, the UID table and a delivering worker, the part of the session
  in which it can be found. It mirrors the order of the stores in
  `fluxrs_set_live`; `ClosedIsDirect`, `SessionIntact` and
  `NoDeliveryAfterRelease` are read off it.
* `WorkInv`: the work item is held only inside `cancel_work_sync`; with it
  `NoStrandedPacket` is inductive, because a lost `schedule_work` happens only
  where a purge follows.
* `RoomInv`: the queue plus the contexts between the test and the append stay
  below the limit plus the number of contexts; `QueueBound` alone forgets the
  contexts that are about to append.
* `EpochInv`: the order of the published epochs, of the epoch each context
  matched, and of the epoch a rollback would restore.

It also proves `Spec => DecidesOnce`, that `LocalOut` implements `Capture`
for every value of the constants. The mapping takes a packet without a verdict
for held, so the proof needs `HolderInv` (`OneOwner`): a hook, the queue and the
worker never hold the same packet, and what they hold has no verdict yet;
otherwise two of them could decide it. With it each action maps to one action of `Capture` or to a stutter:
accepting in the hook to `Pass`, entering it with a stealable packet to `Hold`, the worker's delivery to
`Deliver`, a purge to `Drop` of a whole set, open and the last store of release to
`Open` and `Close`. `SessionInv` gives the guard of `Deliver`.

`SupervisorProofs` proves `TypeOK`, `OneInstance`, `NoneAbandoned` and `SomeoneServes` for
any set of supervisors and any number of signals, crashes and stops. `LockInv` says
that the lock is with exactly the process whose code is past `acquire` (or with the
probe), `ChildInv` that a process without a waiting parent is the orphan of a killed
one; without it a spawn could meet a process that still runs. `ServeInv` says who
asked for the end of each supervisor that ends, so that nobody is driven out by a
supervisor that does not serve itself.

`ReactorProofs` proves `TypeOK`, `OneSupervisedEngine`, `FilesKept`, `NoStrandedWaiter` and
`ActiveIsCommitted` for every set of events and faults and any number of each, of
clients and of versions; only the generation numbers are bounded by `Gen`, which
`start_generation_check` guards, as the code's 2^64 are. Each property is about the
moments between two handlers, so the invariant has to say what holds inside
them, function by function:

* `TxInv` ties `pc`, the state of the transaction and its `SwitchPlan`: what a transaction
  waits for, and which function can follow;
* `EngInv` accounts for processes: the one that is alive is the engine, the child of the
  transaction, or the one that is being stopped;
* `FileInv` accounts for effective files: of the running engine, of the candidate, and
  of the generation a failed switch returns to;
* `WaitInv` says for each waiting client which convergence is under way or will be begun
  by a timer that is armed or by a function still to return;
* `ActiveInv` relates the phase the planner will be settled to, the module's listeners
  and the committed generation.

It also proves three facts about all cells of the lifecycle table:
`LeavingActiveFreezes`, `OffStaysOff`, `CaptureDriftKeepsCapture`.

Its last part proves `RestIsConverged`. The hypotheses are those of the run
`Reactor_converge`: events among configuration, topology, reload, stop and
subscription, and faults among write, spawn, readiness, cache, listeners, wedged
stop, crash, supervision and reactor death; `Overlap` is any relation. The others are excluded
because the statement is false with them: after a switch or a Wi-Fi event the planner may be
settled in a row that does nothing (the findings), a failed apply, check or
load leaves the phase behind the facts (`reactor.rs:3155`), and a refused state root is not
tried again. `RestInv` adds to that
invariant which phase the planner is in while nothing is under way, and that
a change that was not taken over yet has a flag, a timer or a retry.

`SubscriptionProofs` proves `ResponsesAreSound` and `NobodyWaitsInVain` for any sets of sources,
contents, clients and frames and any number of events. Two parts of them are about
behaviours in which Flux stays switched on, the second one also without a Wi-Fi pause,
because they are false otherwise:

* a removed source is pruned when its reconfiguration is run, and `reset_on_disable` forgets
  the one that is queued; the bytes then stay in the cache until the policy is applied again;
* a disable and an enable during an attach keep `run_queued_convergence` from running; a later
  convergence drops the batch nobody claims, and the subscriber waits only for its deadline.

The `Clients` run with its single event cannot reach either; three events are needed.
What holds always is that only checked bytes are in the cache, that no late answer is
taken for the present request's, and that everybody has a deadline. The handlers are
composed of operators that map a reactor state to the state a call leaves behind, and
the proof is composed in the same way: each operator relates the state it is given and the
one it returns (`Tame` for those that only drop, prune and answer, `Serves` for those that also
move the transaction or the batch, `Takes` for a step that may throw the switch), the
relations compose, and the lemma about a handler cites those about its calls.

* `SubInv` says where bytes come from: what is in the cache, in the configuration of the running
  engine and in a candidate that is being attached passed a check, and a batch claimed by a
  transaction is the candidate's; every open connection is under the timer; the responses in
  hand are those of the request the worker has.
* `Kind` is what holds while Flux stays switched on and is not paused: `Pruned`, each source in the cache is
  configured or a reconfiguration is queued; `Held`, a claimed batch has a transaction, and the
  end of a transaction looks at a batch nobody has claimed; `Awaits`, a subscriber has a fetch,
  a batch or a convergence to wait for.

`None` is assumed to be no batch and the set of contents not empty.

`PartsProofs` proves

* `ChangesAreSeen` of `Watch`, for any queue length and number of edits: a change that was
  not read is announced by a flag, by the debounce timer, or by an event, an overflow
  mark or a pending rebuild in the queue;
* `ProcessesAreOurs` and `GenerationIsOurs` of `Process`, for any sets of PIDs and ports:
  `TableInv` and `KnownInv` say that a PID the daemon holds names the process it forked until
  that one is reaped, `ListenInv` who can own a listening port, `ChkInv` what the bytes of the
  check's pipe mean, `RunFileInv` which effective files are whole;
* `SearchIsSound` of `UidTable`, for any table size, set of requests and number of CPUs.
  `UidInv` adds to the types `Memory`, which says that each slot of the new table has its
  entry or a pending store, and that without pending stores the first `uid_n` slots are the
  sorted UIDs of the last request; and `Window`, which says that a search nothing overlaps
  has kept its UID between `lo` and `hi` if it is there at all.

`NetworkProofs` proves

* `DumpsAreWhole` and `ChangeIsNoticed` of `Netlink`, for any table, buffer and budget.
  `PlaceInv` and `DumpInv` account for every item that stays: read, in the queue before
  the end, or to be sent; `SnapshotInv` says that an unmarked dump of the watch is the table at
  one moment; `NoticeInv` keeps an event, an overrun or the convergence after an enable for each
  later change;
  `NumberInv` and `FoundInv` do the same for the numbers of requests and for what the rounds found;
* `TopologyIsOwned` and `NothingLeftBehind` of `Topology`, for any finite sets of families and
  slots and whatever was left in the network. `SeenInv` is what makes `ForeignKept` inductive
  under any interference: whatever others have in a place that Flux may still delete from came
  after Flux had looked there (`touched`); `PairInv` that the pair is asked for by the
  index of the one Flux has seen or made. `CleanInv` says that, while nobody
  interferes, the deletions still to be requested cover every object of ours;
  `CreateInv` that a creation works in its order (pair, address generation, sides up,
  verification last) and that whatever it has not requested any more is there; `RepairInv` that
  repairs, creations and rollbacks are inactive and follow a reconciliation. `Nil` is
  assumed to be no pair.

`InstallProofs` proves `NothingIsLost` and `InstallIsProper` for any sets of URLs, settings, keys and
documents and any number of failed writes, kills, power losses, edits and retries.

* The requests of `install_locked` are in the order of a `Rank`, each at most once
  (`Ordered`), and a rename is followed by the sync of its directory (`Followed`). So the
  list that is left says what was done (`AheadInv`): a document whose rename is ahead is
  still the user's, one whose rename is not has its new content, and of the documents and
  backups only the one whose sync comes next can be taken back.
* `DocsInv`, `BackupInv` and `ResponseInv` say what holds when the work stops anywhere, and
  what a power loss makes of it: of advanced.toml and flux.toml at most one is not on
  disk for certain, and flux.toml only after advanced.toml is; a backup is synced before its document
  is replaced; the response is for certain in one of its places. All of it is up to what a power loss takes
  with a directory that was made and not synced (`made`), which `stale` and `adopted` then
  record. With an order of the writes
  in which these are not kept, `NothingIsLost` would hold until the power fails.
* `Retried` is what makes a retry harmless: `prepare` applied to what an interrupted
  installation left gives what it gave for the user's documents, because a merged
  advanced.toml conflicts with nothing and nodes.sources marks the migrated flux.toml.

Assumed are complete defaults that need no migration themselves, that `Nil` is none of
the contents, and an installation that starts without backups.

`PolicyProofs` needs what the recursive functions of four modules compute. The library's
induction theorems cannot be used for that, since they take an operator. `AllNumbers`
derives what is needed, for a set instead of an operator, from the well-foundedness of the
natural numbers and its least-element theorem `WFMin`; with it `PickLoop`, `ConcatLoop` and
their like first show that the recursive function of a loop exists (a recursive definition
is a `CHOOSE`, and says nothing otherwise), then what it returns. The module proves

* `ModuleFits` of `Loader`, for every directory and release. `LoadInv` says that the node is
  held exactly while the descriptor is open, that a node held and not attached was refused
  its status, and what the error or the success of a load says of the directory. What the loop of `pick_module_file` chooses is proved by induction on the
  names it has seen;
* `StealsAsConfigured` of `Policy`, for any documents, package lists, dumps, width of an
  address and limits of the tables. `JobInv` says that between the two ioctls the module
  has the bypass of the epoch to come, and at rest that of the manager unless a repair
  failed; `MgrInv` that what is selected was selected by the accepted configuration, so it is of apps only. What
  is left is that the module's `lpm4` and the epoch's `lpm` agree: the rank of a prefix among all is its
  place in the sorted table (`PlaceFacts`, on cardinalities), the prefixes of one length are
  the bucket between two offsets (`BucketFacts`), the binary search of a bucket finds a
  network that is there and nothing else (`SearchFacts`, by induction on the width of the window), and
  so the first hit from the longest length down is the longest match (`LookupFacts`);
* `RotationIsSound` of `Logger`, an action property, for any size, retention and number of
  lines: `RotationInv` says that the files a rotation has moved lie behind the place where
  its next one goes, so that no rename overwrites a file, also when it starts from
  the gap that an interrupted one has left;
* `PoolIsSound` of `Nodes`, for any template, sources, answers and rules. The
  invariant is short: a generated configuration is the one that the files and the
  answers give now. The proof is about the functions: what a concatenation
  holds and begins with (`ConcatFacts`), and from it what each of rename, strip, normalise and
  truncate keeps of a tag (`CleanedFacts`: a tag is never empty, because the fallback
  comes after the steps that remove symbols, and truncation leaves dots at least), what `parse_uri` makes of TLS and transport (`HonestOrigin`), which node is from which
  source (`AssembledFacts`), and what a group gets (`MembersFacts`).

Assumed there are tables and limits that are numbers, app ids below the stride of a user,
finite fixed prefixes and dumps, tags made of symbols, outbounds and URIs with the fields that the
parsers insist on, and that `Nil` is none of the values it is told from.

The constants are assumed to be what the modules' `ASSUME`s say, which TLC evaluates in
every run: finite sets of families and slots, module files with a build number or
none, limits above 0.

Only model-checked are the liveness properties, since the prover has no rule for fairness:
`StolenIsConsumed`, `StopTerminates`, `WaitersAnswered`, `StopHonoured`, `Recovers` and
`SubscriberAnswered`.

## Not modelled, and the plan

Not modelled, with the reason for each under `components` in `PROJECT.json`: TOML,
JSON and netlink encodings, HTTP and TLS, since text is abstracted; building the
status and the bug report, which are output; the BPF program, its userspace and the
TC attachment and verification, which have no caller in the daemon at this
commit; directory modes and ownership; shell scripts; build and release tools.

Next would be:

1. `Supervisor` and `Reactor` composed, in place of `ReactorCrash`, and `Subscription`
   composed with the steps of the engine transaction in `Reactor`.
2. An abstract specification of the lifecycle as the user sees it (off, paused,
   starting, active) and `Reactor` shown to implement it where it does.
3. That `UidTable` implements the atomic table of `LocalOut` for searches that no ioctl
   overlaps.
