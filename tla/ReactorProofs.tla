---------------------------- MODULE ReactorProofs ---------------------------
(***************************************************************************)
(* The reactor for any number of generations, events and failures: one     *)
(* supervised engine at most, no file removed under it, no client left     *)
(* waiting for nothing, and Active only for what was committed.            *)
(*                                                                         *)
(* The safety properties speak of the points where the event loop is idle. *)
(* The invariant has to say, for every function in progress (pc), what the *)
(* functions that called it have already done to the engine transaction.   *)
(*                                                                         *)
(* At rest the reactor has converged.  Where the switch and Wi-Fi stay as  *)
(* they are and every failure is one that the code retries, a reactor with *)
(* nothing left to react to has an active engine, which runs the           *)
(* configuration on disk unless something failed on the way.               *)
(*                                                                         *)
(* The invariant follows an edit of the configuration from the inotify     *)
(* queue through flags.engine, the debounce timer, the job of a            *)
(* convergence and the plan of a transaction to the running engine, and a  *)
(* failure from the frame through the plan to the backoff timer.           *)
(***************************************************************************)
EXTENDS Reactor, TLAPS, FiniteSetTheorems

ChildKinds == {"waiting", "stopping"}
Phase6 == {"start_phase6", "finish_phase6", "fail_phase6"}
Spawning == {"start_candidate", "begin_candidate_failure"}
\* Functions that run between two transactions, with none recorded.
Between == Phase6 \cup Spawning
           \cup {"start_generation", "finish_cancelled", "finish_transaction_error"}
\* converge after it has read what is there to do.
Converging == {"converge_cold", "converge_dataplane", "apply_policy", "converge_engine"}

\* The old generation a plan can go back to has its file, and is not the candidate.
Fallback == plan.old # NoChild => plan.old.gen \in files /\ plan.old.gen # plan.gen
\* The candidate of the plan is ready to be started.
Prepared == plan.gen \in Gen \cap files /\ Fallback

\* A transaction is well formed.
TxInv ==
    /\ tx.kind = "none" => tx = NoTx
    /\ tx.kind = "checking" =>
          /\ tx.child = NoChild
          /\ tx.what \in {"normal", "cancelled", "timedout", "supervision"}
    /\ tx.kind = "waiting" => tx.child \in Child /\ tx.what \in {"candidate", "recovery"}
    /\ tx.kind = "stopping" =>
          /\ tx.child \in Child
          /\ tx.what \in {"start", "recover", "recoveryfailed", "cancelled"}
    /\ cancel => tx.kind # "waiting" /\ (tx.kind = "stopping" => tx.what = "cancelled")

\* Who owns the engine process at each point of the reactor.
EngInv ==
    /\ tx.kind \in ChildKinds => engine = NoChild
    /\ role # "none" => pc \in Phase6 /\ ~cancel
    /\ pc \in Between => tx = NoTx
    /\ pc \in Spawning => engine = NoChild /\ alive = {} /\ ~cancel
    /\ pc \in Phase6 => engine # NoChild
    /\ pc \in Converging => /\ job.busy <=> tx.kind # "none"
                            /\ job.start <=> engine = NoChild /\ tx.kind = "none"
    /\ alive \subseteq {engine, tx.child}
    /\ tx.kind = "stopping" /\ tx.child \in alive => tx.child \in doomed

\* Which effective files are there.
FileInv ==
    /\ engine # NoChild => engine.gen \in files
    /\ tx.kind \in ChildKinds => tx.child.gen \in files
    /\ tx.kind = "checking" =>
          plan.gen \in Gen \cap files /\ plan.gen # engine.gen /\ plan.old = NoChild
    /\ tx.kind = "stopping" /\ tx.what = "start" => plan.old = tx.child /\ Prepared
    /\ tx.kind \in ChildKinds /\ tx.what \in {"candidate", "recover"} =>
          tx.child.gen = plan.gen /\ Fallback
    /\ pc = "start_candidate" => Prepared
    /\ pc = "begin_candidate_failure" => Fallback
    /\ role = "candidate" => engine.gen = plan.gen /\ Fallback

\* Who still answers the clients that wait.
Answering == {"finish_cancelled", "finish_transaction_error"} \cup Spawning
WaitInv ==
    /\ pc \in {"run", "idle"} => frame = NoFrame
    /\ waiters /\ ~shutdown => convergence_busy \/ frame.ctl \/ pc \in Answering

\* What an active data plane is set to.
Published == kmod.open /\ kmod.listen = engine.gen
ActiveInv ==
    /\ pc = "finish_phase6" => Published
    /\ engine \in alive \ doomed /\ role = "none" /\ ~cancel /\ active =>
          Published /\ committed = engine.gen

\* What holds at every step, beyond the types.
CoreInv == TxInv /\ EngInv /\ FileInv /\ WaitInv /\ ActiveInv

\* The inductive invariant.
Inv == TypeOK /\ CoreInv

-----------------------------------------------------------------------------
(* What the parts of the state are made of *)

\* The constants of every kind of value, and the transactions the code builds.
LEMMA TypeValues ==
    /\ NoTx \in TxType /\ NoPlan \in PlanType /\ NoFrame \in FrameType
    /\ Closed \in KmodType /\ NoJob \in JobType /\ NoFlags \in FlagsType
    /\ NoTimers \in TimersType /\ 0 \in Version
    /\ \A w \in TxWhat : Checking(w) \in TxType
    /\ \A c \in Child \cup {NoChild}, w \in TxWhat :
          Waiting(c, w) \in TxType /\ Stopping(c, w) \in TxType
BY ReactorAssumption DEF NoTx, NoPlan, NoFrame, Closed, NoJob, NoFlags, NoTimers,
   Checking, Waiting, Stopping, TxType, PlanType, FrameType, KmodType, JobType, FlagsType,
   TimersType, TxKind, TxWhat, Child, NoChild, Version

\* The fields of a value of each kind.
LEMMA Fields ==
    /\ \A c \in Child \cup {NoChild} : c.gen \in Gen \cup {0} /\ c.user \in Version
    /\ \A t \in TxType : t.child \in Child \cup {NoChild} /\ t.what \in TxWhat
    /\ \A p \in PlanType :
          /\ p.old \in Child \cup {NoChild} /\ p.user \in Version
          /\ p.gen \in Gen \cup {0} /\ p.retry \in BOOLEAN
    /\ \A f \in FrameType : f.retry \in BOOLEAN
    /\ \A k \in KmodType : k.uids \in BOOLEAN
    /\ \A j \in JobType :
          j.user \in Version /\ j.policy \in Version /\ j.topo \in BOOLEAN
    /\ \A f \in FlagsType :
          f.reload \in BOOLEAN /\ f.policy \in BOOLEAN /\ f.engine \in BOOLEAN
          /\ f.topology \in BOOLEAN /\ f.wifi \in BOOLEAN /\ f.retry \in BOOLEAN
BY ReactorAssumption DEF Child, NoChild, TxType, PlanType, FrameType, KmodType, JobType,
   FlagsType, Version

\* No child is the absent one, which has no generation.
LEMMA Nobody == NoChild \notin Child /\ NoChild.gen = 0 /\ 0 \notin Gen
BY ReactorAssumption DEF NoChild, Child

\* What the code assigns to single fields of a transaction, a frame or a plan keeps
\* their kind.
LEMMA TxEdits ==
    ASSUME NEW t \in TxType
    PROVE  /\ \A w \in TxWhat : [t EXCEPT !.what = w] \in TxType
           /\ [t EXCEPT !.killed = TRUE] \in TxType
BY DEF TxType

\* What the functions of the reactor assign to their frame keeps its kind.
LEMMA FrameEdits ==
    ASSUME NEW f \in FrameType, NEW a \in BOOLEAN, NEW b \in BOOLEAN
    PROVE  /\ [f EXCEPT !.ctl = a] \in FrameType
           /\ [f EXCEPT !.settle = a] \in FrameType
           /\ [f EXCEPT !.retry = a] \in FrameType
           /\ [f EXCEPT !.settle = a, !.retry = b] \in FrameType
           /\ [f EXCEPT !.req = a, !.settle = b] \in FrameType
BY DEF FrameType

\* What the activation assigns to its plan keeps its kind.
LEMMA PlanEdits ==
    ASSUME NEW p \in PlanType
    PROVE  /\ \A c \in Child : [p EXCEPT !.old = c] \in PlanType
           /\ \A b \in BOOLEAN : [p EXCEPT !.retry = b] \in PlanType
           /\ \A g \in Gen, u \in Version : [p EXCEPT !.gen = g, !.user = u] \in PlanType
BY DEF PlanType

\* The same for the module's state, the pending work and the timers.
LEMMA KmodEdits ==
    ASSUME NEW k \in KmodType, NEW b \in BOOLEAN, NEW g \in Gen \cup {0}
    PROVE  /\ [k EXCEPT !.open = b] \in KmodType
           /\ [k EXCEPT !.uids = b] \in KmodType
           /\ [k EXCEPT !.listen = g] \in KmodType
BY DEF KmodType

\* The pending work is marked and consumed a few flags at a time.
LEMMA FlagsEdits ==
    ASSUME NEW f \in FlagsType, NEW a \in BOOLEAN
    PROVE  /\ [f EXCEPT !.reload = TRUE, !.policy = TRUE, !.engine = TRUE,
                        !.topology = FALSE] \in FlagsType
           /\ [f EXCEPT !.reload = TRUE, !.retry = TRUE] \in FlagsType
           /\ [f EXCEPT !.policy = TRUE, !.engine = TRUE, !.retry = TRUE] \in FlagsType
           /\ [f EXCEPT !.topology = a] \in FlagsType
           /\ [f EXCEPT !.wifi = a] \in FlagsType
           /\ [f EXCEPT !.policy = FALSE, !.wifi = a] \in FlagsType
           /\ [f EXCEPT !.reload = FALSE, !.engine = FALSE, !.topology = FALSE] \in FlagsType
           /\ [f EXCEPT !.retry = TRUE, !.topology = FALSE] \in FlagsType
           /\ [f EXCEPT !.topology = FALSE, !.retry = FALSE, !.policy = a] \in FlagsType
           /\ [f EXCEPT !.reload = FALSE, !.engine = FALSE] \in FlagsType
BY DEF FlagsType

\* Arming or disarming a timer keeps the kind of the timers.
LEMMA TimersEdits ==
    ASSUME NEW t \in TimersType, NEW b \in BOOLEAN
    PROVE  /\ [t EXCEPT !.debounce = b] \in TimersType
           /\ [t EXCEPT !.backoff = b] \in TimersType
           /\ t.debounce \in BOOLEAN /\ t.backoff \in BOOLEAN
BY DEF TimersType

\* The planner stays in the lifecycle table, whatever it is told or observes.
LEMMA StepPhase == \A p \in Phase, s \in Stimulus : step(p, s).phase \in Phase
BY DEF Phase, Stimulus, step, With, Stay, Unexpected, UnlessOff, Cells, Restart, Off,
   Resting, Running

\* What status observes is a phase of the table.
LEMMA ObservedPhase == phase \in Phase
BY DEF phase, observe, Phase

\* A stimulus leads to one of four places, none of which is in the middle of an
\* engine transaction, and answers nobody.
Entry == {"ret", "request_shutdown", "deactivate_runtime", "converge"}

\* apply_stimulus enters one of those four.
LEMMA TargetPc == \A s, cs : Target(s, cs) \in Entry
BY DEF Target, Entry

\* A stimulus applied at the top of the loop keeps the kinds of the flow.
LEMMA StimulusTypes ==
    ASSUME FlowOK, NEW s \in Stimulus, NEW req \in BOOLEAN, apply_stimulus(s, req),
           UNCHANGED <<waiters, shutdown, exited>>
    PROVE  FlowOK'
  <1>1. pc' \in Pc
    BY TargetPc DEF apply_stimulus, Entry, Pc
  <1>2. planner' \in Phase
    BY StepPhase DEF FlowOK, apply_stimulus
  <1>3. frame' \in FrameType
    BY DEF apply_stimulus, NoFrame, FrameType
  <1> QED BY <1>1, <1>2, <1>3 DEF FlowOK

\* generations.allocate() gives an identifier that nothing names.
LEMMA FreshIsFree == Gen \ Used # {} => FreshGen \in Gen \ Used
BY DEF FreshGen

\* A failure is taken from the budget.
LEMMA FailTypes ==
    ASSUME WorldOK, NEW f, Fail(f), UNCHANGED <<disabled, disk, wlan, evt>>
    PROVE  WorldOK'
BY ReactorAssumption DEF WorldOK, Fail

-----------------------------------------------------------------------------
(* Type correctness, one group of actions after the other *)

\* cancel_engine_work keeps the kinds of what it changes.
LEMMA CancelTypes ==
    ASSUME TypeOK, cancel_engine_work
    PROVE  ProcsOK' /\ EngOK'
  <1> USE DEF TypeOK, ProcsOK, EngOK, cancel_engine_work, begin_stop
  <1>1. ProcsOK'
    BY DEF OldFile
  <1>2. CASE tx.kind = "none"
    <2>1. tx' \in TxType
      BY <1>2, TypeValues DEF TxWhat
    <2> QED BY <1>2, <2>1
  <1>3. CASE tx.kind = "checking"
    <2>1. tx' \in TxType
      BY <1>3, TxEdits DEF TxWhat
    <2> QED BY <1>3, <2>1
  <1>4. CASE tx.kind \notin {"none", "checking"}
    <2>1. tx' \in TxType
      BY <1>4, TypeValues, Fields DEF TxWhat
    <2> QED BY <1>4, <2>1
  <1> QED BY <1>1, <1>2, <1>3, <1>4

\* The world moves, or the reactor is started again.
LEMMA WorldTypes ==
    ASSUME TypeOK, World
    PROVE  TypeOK'
  <1> USE DEF TypeOK, WorldOK, ProcsOK, KernelOK, FlowOK, EngOK, PendOK,
              budget, procs, kernel, flow, eng, ssid, pend, Occurs, Fail
  <1>1. CASE ToggleSwitch
    BY <1>1, ReactorAssumption DEF ToggleSwitch
  <1>2. CASE EditConfig
    BY <1>2, ReactorAssumption DEF EditConfig
  <1>3. CASE Roam
    BY <1>3, ReactorAssumption DEF Roam
  <1>4. CASE ReactorCrash
    <2> USE <1>4 DEF ReactorCrash
    <2>1. WorldOK'
      BY ReactorAssumption
    <2>2. ProcsOK' /\ KernelOK' /\ FlowOK'
      BY TypeValues DEF Pc, Phase
    <2>3. EngOK'
      <3>1. 0 \in Version
        BY ReactorAssumption DEF Version
      <3> QED BY <3>1, TypeValues
    <2>4. PendOK'
      BY TypeValues
    <2> QED BY <2>1, <2>2, <2>3, <2>4
  <1>5. CASE \E c \in alive : Exit(c)
    BY <1>5, ReactorAssumption DEF Exit
  <1> QED BY <1>1, <1>2, <1>3, <1>4, <1>5 DEF World

\* Signals, control requests, topology and subscription results.
LEMMA CommandTypes ==
    ASSUME TypeOK, Command
    PROVE  TypeOK'
  <1> USE DEF TypeOK, WorldOK, ProcsOK, KernelOK, EngOK, PendOK,
              world, budget, procs, kernel, flow, eng, ssid, pend, Occurs
  <1>1. CASE Sighup
    <2>1. FlowOK'
      BY <1>1, StimulusTypes DEF Sighup, Stimulus
    <2>2. WorldOK' /\ ProcsOK' /\ KernelOK' /\ EngOK'
      BY <1>1, ReactorAssumption DEF Sighup
    <2>3. PendOK'
      BY <1>1, FlagsEdits DEF Sighup
    <2> QED BY <2>1, <2>2, <2>3
  <1>2. CASE Sigterm
    <2>1. FlowOK'
      BY <1>2, StimulusTypes DEF Sigterm, Stimulus
    <2>2. WorldOK' /\ ProcsOK' /\ KernelOK' /\ EngOK' /\ PendOK'
      BY <1>2, ReactorAssumption DEF Sigterm
    <2> QED BY <2>1, <2>2
  <1>3. CASE \E off \in BOOLEAN : RequestSwitch(off)
    <2>1. FlowOK'
      BY <1>3, StimulusTypes DEF RequestSwitch, Stimulus
    <2>2. WorldOK' /\ ProcsOK' /\ KernelOK' /\ EngOK' /\ PendOK'
      BY <1>3, ReactorAssumption DEF RequestSwitch
    <2> QED BY <2>1, <2>2
  <1>4. CASE RequestReload
    <2>1. FlowOK'
      BY <1>4, StimulusTypes DEF RequestReload, Stimulus
    <2>2. WorldOK' /\ ProcsOK' /\ KernelOK' /\ EngOK'
      BY <1>4, ReactorAssumption DEF RequestReload
    <2>3. PendOK'
      BY <1>4, FlagsEdits DEF RequestReload
    <2> QED BY <2>1, <2>2, <2>3
  <1>5. CASE RequestStop
    <2>1. FlowOK'
      BY <1>5, StimulusTypes DEF RequestStop, Stimulus
    <2>2. WorldOK' /\ ProcsOK' /\ KernelOK' /\ EngOK' /\ PendOK'
      BY <1>5, ReactorAssumption DEF RequestStop
    <2> QED BY <2>1, <2>2
  <1>6. CASE handle_rtnetlink
    <2>1. FlowOK'
      BY <1>6 DEF handle_rtnetlink, FlowOK
    <2>2. WorldOK' /\ ProcsOK' /\ KernelOK' /\ EngOK'
      BY <1>6, ReactorAssumption DEF handle_rtnetlink
    <2>3. PendOK'
      BY <1>6, FlagsEdits, TimersEdits DEF handle_rtnetlink
    <2> QED BY <2>1, <2>2, <2>3
  <1>7. CASE handle_subscription_result
    <2>1. FlowOK'
      BY <1>7, TypeValues, FrameEdits DEF handle_subscription_result, FlowOK, Pc
    <2>2. WorldOK' /\ ProcsOK' /\ KernelOK' /\ EngOK'
      BY <1>7, ReactorAssumption DEF handle_subscription_result
    <2>3. PendOK'
      BY <1>7, FlagsEdits DEF handle_subscription_result
    <2> QED BY <2>1, <2>2, <2>3
  <1> QED BY <1>1, <1>2, <1>3, <1>4, <1>5, <1>6, <1>7 DEF Command

\* inotify, nl80211, the timers, and the end of the process.
LEMMA EventTypes ==
    ASSUME TypeOK, Inotify \/ DebounceExpired \/ BackoffExpired \/ ExitProcess
    PROVE  TypeOK'
  <1> USE DEF TypeOK, WorldOK, ProcsOK, KernelOK, EngOK, PendOK,
              world, budget, procs, kernel, flow, eng, ssid, pend
  <1>1. CASE handle_inotify_switch
    <2>1. FlowOK'
      BY <1>1, StimulusTypes DEF handle_inotify_switch, Stimulus
    <2>2. WorldOK' /\ ProcsOK' /\ KernelOK' /\ EngOK' /\ PendOK'
      BY <1>1 DEF handle_inotify_switch
    <2> QED BY <2>1, <2>2
  <1>2. CASE handle_inotify_config
    <2>1. WorldOK' /\ ProcsOK' /\ KernelOK' /\ FlowOK' /\ EngOK'
      BY <1>2 DEF handle_inotify_config, FlowOK
    <2>2. PendOK'
      BY <1>2, FlagsEdits, TimersEdits DEF handle_inotify_config
    <2> QED BY <2>1, <2>2
  <1>3. CASE handle_nl80211
    <2>1. WorldOK' /\ ProcsOK' /\ KernelOK' /\ FlowOK' /\ EngOK'
      BY <1>3 DEF handle_nl80211, FlowOK
    <2>2. PendOK'
      BY <1>3, FlagsEdits, TimersEdits DEF handle_nl80211
    <2> QED BY <2>1, <2>2
  <1>4. CASE DebounceExpired
    <2> USE <1>4 DEF DebounceExpired, evaluate_ssid, ssid_verdict, ssid_follow_up
    <2>1. FlowOK'
      BY StimulusTypes DEF Stimulus
    <2>2. WorldOK' /\ ProcsOK' /\ KernelOK' /\ EngOK'
      OBVIOUS
    <2>3. PendOK'
      BY FlagsEdits, TimersEdits
    <2> QED BY <2>1, <2>2, <2>3
  <1>5. CASE BackoffExpired
    <2> USE <1>5 DEF BackoffExpired
    <2>1. FlowOK'
      BY StimulusTypes, TypeValues DEF Stimulus, FlowOK, Pc
    <2>2. ProcsOK' /\ EngOK'
      BY CancelTypes
    <2>3. WorldOK' /\ KernelOK' /\ PendOK'
      BY TimersEdits
    <2> QED BY <2>1, <2>2, <2>3
  <1>6. CASE ExitProcess
    BY <1>6, TypeValues DEF ExitProcess, FlowOK
  <1> QED BY <1>1, <1>2, <1>3, <1>4, <1>5, <1>6 DEF Inotify

\* The start, the way back to the event loop, and the two teardowns.
LEMMA FlowTypes ==
    ASSUME TypeOK,
           \/ run \/ Return \/ request_shutdown \/ deactivate_runtime
           \/ run_queued_convergence
    PROVE  TypeOK'
  <1> USE DEF TypeOK, WorldOK, ProcsOK, KernelOK, EngOK, PendOK,
              world, budget, procs, kernel, flow, eng, ssid, pend, Goto
  <1>1. CASE run
    <2>1. step(phase, "Bootstrap").phase \in Phase
      BY ObservedPhase, StepPhase DEF Stimulus
    <2>2. FlowOK'
      BY <1>1, <2>1, ObservedPhase, TargetPc, TypeValues, FrameEdits DEF run, FlowOK, Pc, Entry
    <2>3. WorldOK' /\ ProcsOK' /\ KernelOK' /\ EngOK' /\ PendOK'
      BY <1>1 DEF run
    <2> QED BY <2>2, <2>3
  <1>2. CASE Return
    <2>1. FlowOK'
      BY <1>2, ObservedPhase, TypeValues DEF Return, FlowOK, Pc
    <2>2. WorldOK' /\ ProcsOK' /\ KernelOK' /\ EngOK' /\ PendOK'
      BY <1>2, TypeValues DEF Return
    <2> QED BY <2>1, <2>2
  <1>3. CASE request_shutdown
    <2>1. ProcsOK' /\ EngOK'
      BY <1>3, CancelTypes DEF request_shutdown
    <2>2. WorldOK' /\ KernelOK' /\ FlowOK' /\ PendOK'
      BY <1>3, KmodEdits DEF request_shutdown, publish_inactive, FlowOK, Pc
    <2> QED BY <2>1, <2>2
  <1>4. CASE deactivate_runtime
    <2>1. ProcsOK' /\ EngOK'
      BY <1>4, CancelTypes DEF deactivate_runtime
    <2>2. WorldOK' /\ KernelOK' /\ FlowOK'
      BY <1>4, TypeValues DEF deactivate_runtime, FlowOK, Pc
    <2>3. PendOK'
      BY <1>4, FlagsEdits, TimersEdits DEF deactivate_runtime
    <2> QED BY <2>1, <2>2, <2>3
  <1>5. CASE run_queued_convergence
    BY <1>5 DEF run_queued_convergence, FlowOK, Pc
  <1> QED BY <1>1, <1>2, <1>3, <1>4, <1>5

\* The functions of converge.
Converge ==
    \/ converge_down \/ converge_read \/ converge_refused \/ converge_cold
    \/ converge_dataplane \/ converge_blocked \/ converge_apply \/ converge_apply_fails \/ converge_engine
    \/ start_generation_check \/ start_generation_fails

\* What a convergence takes up is what it read; a usable configuration is taken up
\* whenever an engine is wanted.
LEMMA Taken ==
    ASSUME WorldOK, EngOK, PendOK
    PROVE  /\ candidate_policy \in Version /\ candidate_user \in {0, disk}
           /\ candidate_user # 0 => Else(candidate_policy, policy) # 0
           /\ Usable(disk) => disk # 0 /\ candidate_user = IF want_engine THEN disk ELSE 0
  <1> USE DEF WorldOK, EngOK, PendOK
  <1>1. read_policy \in {0, disk} /\ read_engine \in {0, disk}
    BY DEF read_policy, read_engine
  <1>2. 0 \in Version
    BY ReactorAssumption DEF Version
  <1>3. candidate_policy \in {0, disk} /\ candidate_user \in {0, disk}
    BY <1>1 DEF candidate_policy, candidate_user
  <1>4. candidate_user # 0 => Else(candidate_policy, policy) # 0
    BY DEF candidate_user
  <1>5. ASSUME Usable(disk)
        PROVE  disk # 0 /\ candidate_user = IF want_engine THEN disk ELSE 0
    <2>1. disk # 0 /\ \A w \in Version : <<disk, w>> \notin Overlap /\ <<w, disk>> \notin Overlap
      BY <1>5 DEF Usable
    <2>2. Else(user, read_engine) \in Version /\ <<0, Else(user, read_engine)>> \notin Overlap
      BY <1>1, <1>2, ReactorAssumption DEF Else, Version
    <2>3. candidate_policy = read_policy
      BY <1>1, <2>1, <2>2 DEF candidate_policy
    <2>4. Else(read_policy, policy) \in Version /\ Else(read_policy, policy) # 0
      BY <1>1, <1>2, <2>1 DEF Else, read_policy, want_policy
    <2>5. read_engine = IF want_engine THEN disk ELSE 0
      BY <2>4 DEF read_engine
    <2>6. <<Else(read_policy, policy), 0>> \notin Overlap
      BY ReactorAssumption
    <2>7. <<Else(read_policy, policy), read_engine>> \notin Overlap
      BY <1>1, <2>1, <2>4, <2>6
    <2> QED BY <2>1, <2>3, <2>4, <2>5, <2>7 DEF candidate_user
  <1> QED BY <1>2, <1>3, <1>4, <1>5

\* converge keeps every kind.
LEMMA ConvergeTypes ==
    ASSUME TypeOK, Converge
    PROVE  TypeOK'
  <1> USE DEF TypeOK, WorldOK, ProcsOK, KernelOK, EngOK, PendOK,
              world, budget, procs, kernel, flow, eng, ssid, pend, Goto
  <1>1. CASE converge_down
    <2>1. ProcsOK' /\ EngOK'
      BY <1>1, CancelTypes DEF converge_down
    <2>2. WorldOK' /\ KernelOK' /\ FlowOK' /\ PendOK'
      BY <1>1 DEF converge_down, FlowOK, Pc
    <2> QED BY <2>1, <2>2
  <1>2. CASE converge_read
    <2> USE <1>2 DEF converge_read, evaluate_ssid, ssid_verdict, ssid_follow_up
    <2>1. WorldOK' /\ ProcsOK' /\ KernelOK' /\ FlowOK' /\ EngOK'
      BY DEF FlowOK, Pc
    <2>2. flags' \in FlagsType /\ timers' \in TimersType
      BY Fields, FlagsEdits, TimersEdits
    <2>3. candidate_policy \in Version /\ candidate_user \in Version
      BY Taken, ReactorAssumption DEF Version
    <2>4. job' \in JobType
      BY <2>3, Fields DEF JobType, convergence_busy
    <2> QED BY <2>1, <2>2, <2>3, <2>4
  <1>3. CASE converge_cold
    <2>1. WorldOK' /\ ProcsOK' /\ KernelOK' /\ FlowOK' /\ EngOK'
      BY <1>3, TypeValues DEF converge_cold, FlowOK, Pc
    <2>2. PendOK'
      BY <1>3, FlagsEdits DEF converge_cold
    <2> QED BY <2>1, <2>2
  <1>4. CASE converge_dataplane
    <2>1. WorldOK' /\ ProcsOK' /\ FlowOK' /\ EngOK' /\ PendOK'
      BY <1>4 DEF converge_dataplane, FlowOK, Pc
    <2>2. KernelOK'
      BY <1>4, KmodEdits DEF converge_dataplane
    <2> QED BY <2>1, <2>2
  <1>5. CASE converge_blocked
    <2>1. ProcsOK' /\ EngOK'
      BY <1>5, CancelTypes DEF converge_blocked
    <2>2. WorldOK' /\ KernelOK' /\ FlowOK' /\ PendOK'
      BY <1>5, TypeValues, FailTypes DEF converge_blocked, FlowOK, Pc
    <2> QED BY <2>1, <2>2
  <1>6. CASE converge_apply
    <2>1. WorldOK' /\ ProcsOK' /\ FlowOK' /\ EngOK'
      BY <1>6 DEF converge_apply, FlowOK, Pc
    <2>2. KernelOK'
      BY <1>6, Fields, KmodEdits DEF converge_apply
    <2>3. PendOK'
      BY <1>6, Fields, FlagsEdits DEF converge_apply
    <2> QED BY <2>1, <2>2, <2>3
  <1>7. CASE converge_apply_fails
    <2>1. WorldOK' /\ ProcsOK' /\ KernelOK' /\ FlowOK' /\ EngOK'
      BY <1>7, FailTypes DEF converge_apply_fails, FlowOK, Pc
    <2>2. flags' \in FlagsType /\ timers' \in TimersType
      BY <1>7, Fields, FlagsEdits, TimersEdits DEF converge_apply_fails
    <2>3. job' \in JobType
      BY <1>7, ReactorAssumption DEF converge_apply_fails, JobType, Version
    <2> QED BY <1>7, <2>1, <2>2, <2>3 DEF converge_apply_fails
  <1>8. CASE converge_engine
    <2>1. WorldOK' /\ ProcsOK' /\ KernelOK' /\ FlowOK' /\ EngOK'
      BY <1>8 DEF converge_engine, FlowOK, Pc
    <2>2. PendOK'
      BY <1>8, FlagsEdits DEF converge_engine
    <2> QED BY <2>1, <2>2
  <1>9. CASE start_generation_check
    <2> USE <1>9 DEF start_generation_check
    <2>1. WorldOK' /\ KernelOK' /\ FlowOK'
      BY DEF FlowOK, Pc
    <2>2. ProcsOK'
      BY FreshIsFree
    <2>3. plan' \in PlanType
      BY FreshIsFree, Fields, TypeValues, PlanEdits
    <2>4. tx' \in TxType
      BY TypeValues DEF TxWhat
    <2>5. PendOK'
      BY TimersEdits
    <2> QED BY <2>1, <2>2, <2>3, <2>4, <2>5
  <1>10. CASE start_generation_fails
    <2>1. WorldOK'
      BY <1>10, FailTypes DEF start_generation_fails
    <2>2. ProcsOK' /\ KernelOK' /\ EngOK'
      BY <1>10 DEF start_generation_fails
    <2>3. FlowOK'
      BY <1>10, FrameEdits DEF start_generation_fails, PassError, FlowOK, Pc
    <2>4. PendOK'
      BY <1>10, TimersEdits DEF start_generation_fails
    <2> QED BY <2>1, <2>2, <2>3, <2>4
  <1>11. CASE converge_refused
    BY <1>11, FailTypes DEF converge_refused, FlowOK, Pc
  <1> QED
    BY <1>1, <1>2, <1>3, <1>4, <1>5, <1>6, <1>7, <1>8, <1>9, <1>10, <1>11 DEF Converge

\* The activation of a generation.
Activation ==
    \/ start_phase6 \/ start_phase6_fails \/ finish_phase6 \/ finish_phase6_fails
    \/ fail_phase6

\* An activation keeps every kind, the publication that follows it included.
LEMMA ActivationTypes ==
    ASSUME TypeOK, Activation
    PROVE  TypeOK'
  <1> USE DEF TypeOK, WorldOK, ProcsOK, KernelOK, EngOK, PendOK,
              world, budget, procs, kernel, flow, eng, ssid, pend, Goto
  <1>1. CASE start_phase6
    <2>1. WorldOK' /\ ProcsOK' /\ FlowOK' /\ EngOK' /\ PendOK'
      BY <1>1 DEF start_phase6, FlowOK, Pc
    <2>2. KernelOK'
      BY <1>1, Fields, KmodEdits DEF start_phase6
    <2> QED BY <2>1, <2>2
  <1>2. CASE start_phase6_fails
    BY <1>2, FailTypes DEF start_phase6_fails, FlowOK, Pc
  <1>3. CASE finish_phase6
    <2>1. WorldOK' /\ ProcsOK' /\ KernelOK' /\ PendOK'
      BY <1>3 DEF finish_phase6
    <2>2. FlowOK'
      BY <1>3, FrameEdits DEF finish_phase6, Controls, FlowOK, Pc
    <2>3. EngOK'
      BY <1>3, TypeValues, Fields DEF finish_phase6
    <2> QED BY <2>1, <2>2, <2>3
  <1>4. CASE finish_phase6_fails
    <2>1. WorldOK' /\ ProcsOK' /\ KernelOK' /\ FlowOK' /\ PendOK'
      BY <1>4, FailTypes DEF finish_phase6_fails, begin_stop, FlowOK, Pc
    <2>2. EngOK'
      BY <1>4, TypeValues DEF finish_phase6_fails, begin_stop, TxWhat
    <2> QED BY <2>1, <2>2
  <1>5. CASE fail_phase6
    <2>1. WorldOK' /\ ProcsOK' /\ FlowOK' /\ PendOK'
      BY <1>5 DEF fail_phase6, begin_stop, FlowOK, Pc
    <2>2. KernelOK'
      BY <1>5, KmodEdits DEF fail_phase6, publish_inactive
    <2>3. EngOK'
      BY <1>5, TypeValues DEF fail_phase6, begin_stop, TxWhat
    <2> QED BY <2>1, <2>2, <2>3
  <1> QED BY <1>1, <1>2, <1>3, <1>4, <1>5 DEF Activation

\* The check of a candidate's configuration.
LEMMA CheckTypes ==
    ASSUME TypeOK,
           \/ handle_check_exit \/ CheckRejects
           \/ \E d \in {"timeout", "supervision"} : CheckDisposition(d)
    PROVE  TypeOK'
  <1> USE DEF TypeOK, WorldOK, ProcsOK, KernelOK, EngOK, PendOK,
              world, budget, procs, kernel, flow, eng, ssid, pend
  <1>1. ASSUME NEW ok \in BOOLEAN, complete_check(ok), UNCHANGED alive, UNCHANGED flow,
               UNCHANGED <<role, cancel, committed, user>>
        PROVE  ProcsOK' /\ KernelOK' /\ FlowOK' /\ EngOK'
    <2> USE <1>1 DEF complete_check, begin_stop
    <2>1. ProcsOK'
      OBVIOUS
    <2>2. KernelOK'
      BY KmodEdits DEF publish_inactive
    <2>3. FlowOK'
      BY TypeValues, FrameEdits DEF FlowOK, Pc
    <2>4. engine' \in Child \cup {NoChild} /\ tx' \in TxType
      BY TypeValues DEF TxWhat
    <2>5. plan' \in PlanType
      BY PlanEdits
    <2> QED BY <2>1, <2>2, <2>3, <2>4, <2>5
  <1>2. CASE handle_check_exit
    BY <1>1, <1>2 DEF handle_check_exit
  <1>3. CASE CheckRejects
    <2>1. WorldOK' /\ PendOK'
      BY <1>3, FailTypes DEF CheckRejects
    <2> QED BY <1>1, <1>3, <2>1 DEF CheckRejects
  <1>4. CASE \E d \in {"timeout", "supervision"} : CheckDisposition(d)
    <2>1. WorldOK' /\ ProcsOK' /\ KernelOK' /\ FlowOK' /\ PendOK'
      BY <1>4, FailTypes DEF CheckDisposition, FlowOK
    <2>2. EngOK'
      BY <1>4, TypeValues DEF CheckDisposition, TxWhat
    <2> QED BY <2>1, <2>2
  <1> QED BY <1>2, <1>3, <1>4

\* A candidate or a recovery is started and becomes ready, or fails.  The plan of a
\* candidate names a generation and, to go back to, a child.
Candidate ==
    \/ start_candidate \/ start_candidate_fails \/ advance_waiting \/ fail_waiting
    \/ begin_candidate_failure \/ begin_candidate_failure_fails

\* Starting or abandoning a candidate keeps every kind.
LEMMA CandidateTypes ==
    ASSUME Inv, Candidate
    PROVE  TypeOK'
  <1> USE DEF Inv, TypeOK, WorldOK, ProcsOK, KernelOK, EngOK, PendOK,
              world, budget, procs, kernel, flow, eng, ssid, pend, Goto
  <1>1. CASE start_candidate
    <2> DEFINE c == [gen |-> plan.gen, run |-> 0, user |-> plan.user]
    <2>1. c \in Child
      BY <1>1, Fields DEF start_candidate, CoreInv, FileInv, Prepared, Child
    <2> HIDE DEF c
    <2>2. alive' = alive \cup {c} /\ tx' = Waiting(c, "candidate")
      BY <1>1 DEF start_candidate, c
    <2>3. EngOK'
      BY <1>1, <2>1, <2>2, TypeValues DEF start_candidate, TxWhat
    <2>4. ProcsOK'
      BY <1>1, <2>1, <2>2 DEF start_candidate
    <2>5. WorldOK' /\ KernelOK' /\ FlowOK' /\ PendOK'
      BY <1>1 DEF start_candidate, FlowOK, Pc
    <2> QED BY <2>3, <2>4, <2>5
  <1>2. CASE start_candidate_fails
    <2>1. WorldOK'
      BY <1>2, FailTypes DEF start_candidate_fails
    <2>2. FlowOK'
      BY <1>2, FrameEdits DEF start_candidate_fails, PassError, FlowOK, Pc
    <2> QED BY <1>2, <2>1, <2>2 DEF start_candidate_fails
  <1>3. CASE advance_waiting
    <2> USE <1>3 DEF advance_waiting, begin_stop
    <2>1. WorldOK' /\ ProcsOK' /\ KernelOK' /\ PendOK'
      OBVIOUS
    <2>2. FlowOK'
      BY TypeValues, Fields, FrameEdits DEF FlowOK, Pc
    <2>3. tx' \in TxType
      BY TypeValues, Fields DEF TxWhat
    <2>4. engine' \in Child \cup {NoChild} /\ role' \in {"none", "candidate", "recovery"}
      BY Fields DEF CoreInv, TxInv
    <2> QED BY <2>1, <2>2, <2>3, <2>4
  <1>4. CASE fail_waiting
    <2>1. WorldOK' /\ ProcsOK' /\ KernelOK' /\ FlowOK' /\ PendOK'
      BY <1>4, FailTypes DEF fail_waiting, begin_stop, FlowOK
    <2>2. EngOK'
      BY <1>4, TypeValues, Fields DEF fail_waiting, begin_stop, TxWhat
    <2> QED BY <2>1, <2>2
  <1>5. CASE begin_candidate_failure
    <2>1. WorldOK' /\ KernelOK' /\ FlowOK' /\ PendOK'
      BY <1>5 DEF begin_candidate_failure, FlowOK, Pc
    <2>2. CASE ~cancel /\ plan.old # NoChild
      <3> DEFINE c == [plan.old EXCEPT !.run = 1 - @]
      <3>1. c \in Child
        BY <2>2, Fields DEF Child
      <3> HIDE DEF c
      <3>2. /\ alive' = alive \cup {c} /\ tx' = Waiting(c, "recovery")
            /\ plan' = [NoPlan EXCEPT !.retry = frame.retry]
        BY <1>5, <2>2 DEF begin_candidate_failure, c
      <3>3. ProcsOK'
        BY <1>5, <2>2, <3>1, <3>2 DEF begin_candidate_failure
      <3>4. tx' \in TxType
        BY <3>1, <3>2, TypeValues DEF TxWhat
      <3>5. plan' \in PlanType
        BY <3>2, Fields, TypeValues, PlanEdits DEF FlowOK
      <3> QED BY <1>5, <2>1, <3>3, <3>4, <3>5 DEF begin_candidate_failure
    <2>3. CASE ~(~cancel /\ plan.old # NoChild)
      BY <1>5, <2>1, <2>3, TypeValues DEF begin_candidate_failure
    <2> QED BY <2>2, <2>3
  <1>6. CASE begin_candidate_failure_fails
    <2>1. WorldOK'
      BY <1>6, FailTypes DEF begin_candidate_failure_fails
    <2> QED
      BY <1>6, <2>1, TypeValues DEF begin_candidate_failure_fails, FlowOK, Pc
  <1> QED BY <1>1, <1>2, <1>3, <1>4, <1>5, <1>6 DEF Candidate

\* A child is stopped, and what follows its exit.
Stop ==
    \/ complete_stopped \/ StopKill \/ stop_confirmation_failed
    \/ finish_cancelled \/ finish_transaction_error \/ handle_engine_exit

\* Stopping a child and dealing with its exit keeps every kind.
LEMMA StopTypes ==
    ASSUME TypeOK, Stop
    PROVE  TypeOK'
  <1> USE DEF TypeOK, WorldOK, ProcsOK, KernelOK, EngOK, PendOK,
              world, budget, procs, kernel, flow, eng, ssid, pend, Goto
  <1>1. CASE complete_stopped
    <2>1. WorldOK' /\ ProcsOK' /\ KernelOK' /\ PendOK'
      BY <1>1 DEF complete_stopped
    <2>2. frame' \in FrameType
      BY ZenonT(30), <1>1, TypeValues, Fields, FrameEdits DEF complete_stopped
    <2>3. FlowOK'
      BY <1>1, <2>2 DEF complete_stopped, FlowOK, Pc
    <2>4. EngOK'
      BY <1>1, TypeValues DEF complete_stopped
    <2> QED BY <2>1, <2>3, <2>4
  <1>2. CASE StopKill
    BY <1>2, TxEdits DEF StopKill, FlowOK
  <1>3. CASE stop_confirmation_failed
    <2>1. WorldOK' /\ ProcsOK' /\ KernelOK'
      BY <1>3, FailTypes DEF stop_confirmation_failed
    <2>2. FlowOK'
      BY <1>3, TypeValues, FrameEdits DEF stop_confirmation_failed, FlowOK, Pc
    <2>3. EngOK'
      BY <1>3, TypeValues, Fields DEF stop_confirmation_failed
    <2>4. PendOK'
      BY <1>3, TimersEdits DEF stop_confirmation_failed
    <2> QED BY <2>1, <2>2, <2>3, <2>4
  <1>4. CASE finish_cancelled
    <2>1. WorldOK' /\ ProcsOK' /\ KernelOK' /\ PendOK'
      BY <1>4 DEF finish_cancelled, begin_stop
    <2>2. FlowOK'
      BY <1>4, FrameEdits DEF finish_cancelled, Controls, FlowOK, Pc
    <2>3. EngOK'
      BY <1>4, TypeValues DEF finish_cancelled, begin_stop, TxWhat
    <2> QED BY <2>1, <2>2, <2>3
  <1>5. CASE finish_transaction_error
    <2>1. WorldOK' /\ ProcsOK' /\ KernelOK' /\ EngOK'
      BY <1>5, TypeValues DEF finish_transaction_error
    <2>2. FlowOK'
      BY <1>5, FrameEdits DEF finish_transaction_error, Controls, FlowOK, Pc
    <2>3. PendOK'
      BY <1>5, Fields, TimersEdits DEF finish_transaction_error, FlowOK
    <2> QED BY <2>1, <2>2, <2>3
  <1>6. CASE handle_engine_exit
    <2>1. WorldOK' /\ ProcsOK' /\ EngOK'
      BY <1>6 DEF handle_engine_exit
    <2>2. KernelOK'
      BY <1>6, KmodEdits DEF handle_engine_exit, publish_inactive
    <2>3. planner' \in Phase
      BY <1>6, StepPhase DEF handle_engine_exit, FlowOK, Stimulus
    <2>4. FlowOK'
      BY <1>6, <2>3, TypeValues, Fields, FrameEdits DEF handle_engine_exit, FlowOK, Pc
    <2>5. PendOK'
      BY <1>6, TimersEdits DEF handle_engine_exit
    <2> QED BY <2>1, <2>2, <2>4, <2>5
  <1> QED BY <1>1, <1>2, <1>3, <1>4, <1>5, <1>6 DEF Stop

-----------------------------------------------------------------------------
(* The rest of the invariant, one group of actions after the other *)

\* What happens in the world, and the entry of an event handler, leave the engine,
\* its files, the module and the waiting clients alone.
LEMMA ElsewhereKeeps ==
    ASSUME CoreInv, UNCHANGED <<procs, files, kernel, eng, waiters, shutdown>>,
           UNCHANGED <<pc, frame, job>> \/ (pc = "idle" /\ pc' \in Entry)
    PROVE  CoreInv'
  <1> USE DEF CoreInv, procs, kernel, eng, Entry
  <1>1. TxInv' /\ EngInv'
    BY DEF TxInv, EngInv, ChildKinds, Phase6, Spawning, Between, Converging
  <1>2. FileInv' /\ ActiveInv'
    BY DEF FileInv, ActiveInv, Fallback, Prepared, Published, ChildKinds
  <1>3. WaitInv'
    BY DEF WaitInv, NoFrame, convergence_busy, Answering, Spawning
  <1> QED BY <1>1, <1>2, <1>3

\* The entry of a handler, by way of the planner.
LEMMA StimulusKeeps ==
    ASSUME CoreInv, Idle, NEW s, NEW req, apply_stimulus(s, req),
           UNCHANGED <<procs, files, kernel, eng, waiters, shutdown>>
    PROVE  CoreInv'
BY ElsewhereKeeps, TargetPc DEF apply_stimulus, Idle

\* The world does not touch what the reactor owns, except by taking a process away:
\* then alive shrinks, or the reactor starts from nothing.
LEMMA WorldKeeps ==
    ASSUME Inv, World
    PROVE  CoreInv'
  <1>1. CASE ToggleSwitch \/ EditConfig \/ Roam
    BY <1>1, ElsewhereKeeps DEF Inv, ToggleSwitch, EditConfig, Roam, flow, pend
  <1>2. CASE ReactorCrash
    <2> USE <1>2 DEF ReactorCrash
    <2>1. TxInv' /\ EngInv'
      BY DEF TxInv, EngInv, NoTx, ChildKinds, Phase6, Spawning, Between, Converging
    <2>2. FileInv' /\ ActiveInv' /\ WaitInv'
      BY DEF FileInv, ActiveInv, WaitInv, NoTx, ChildKinds
    <2> QED BY <2>1, <2>2 DEF CoreInv
  <1>3. CASE \E c \in alive : Exit(c)
    <2> USE <1>3 DEF Exit, Inv, CoreInv, kernel, flow, eng, pend
    <2>1. TxInv' /\ FileInv' /\ WaitInv'
      BY DEF TxInv, FileInv, WaitInv, Fallback, Prepared, convergence_busy
    <2>2. EngInv'
      BY DEF EngInv
    <2>3. ActiveInv'
      BY DEF ActiveInv, Published
    <2> QED BY <2>1, <2>2, <2>3
  <1> QED BY <1>1, <1>2, <1>3 DEF World

\* A request that waits finds a convergence to wait for, or starts one.
LEMMA CommandKeeps ==
    ASSUME Inv, Command
    PROVE  CoreInv'
  <1> USE DEF Inv, flow, pend
  <1>1. CASE Sighup
    BY <1>1, StimulusKeeps DEF Sighup
  <1>2. CASE Sigterm
    BY <1>2, StimulusKeeps DEF Sigterm
  <1>3. CASE \E off \in BOOLEAN : RequestSwitch(off)
    BY <1>3, StimulusKeeps DEF RequestSwitch
  <1>4. CASE RequestReload
    BY <1>4, StimulusKeeps DEF RequestReload
  <1>5. CASE RequestStop
    BY <1>5, StimulusKeeps DEF RequestStop
  <1>6. CASE handle_rtnetlink
    BY <1>6, ElsewhereKeeps DEF handle_rtnetlink
  <1>7. CASE handle_subscription_result
    BY <1>7, ElsewhereKeeps DEF handle_subscription_result, Idle, Entry
  <1> QED BY <1>1, <1>2, <1>3, <1>4, <1>5, <1>6, <1>7 DEF Command

\* cancel_engine_work at a point where no function of the transaction is open:
\* whatever there was becomes a check or a stop that is marked cancelled, and no
\* engine counts as active any more.
LEMMA CancelKeeps ==
    ASSUME Inv, cancel_engine_work, UNCHANGED waiters, shutdown => shutdown',
           pc' = "ret", pc \notin Between, pc = "idle" \/ frame' = frame
    PROVE  CoreInv'
  <1> USE DEF Inv, CoreInv, cancel_engine_work, begin_stop, ChildKinds
  <1>1. TxInv'
    BY Fields DEF TypeOK, EngOK, TxInv, EngInv, NoTx, Checking, Stopping, TxType, TxKind
  <1>2. EngInv'
    BY DEF TypeOK, EngOK, TxInv, EngInv, NoTx, Stopping, TxType, TxKind, Phase6, Spawning, Between,
           Converging
  <1>3. FileInv'
    BY Nobody DEF TypeOK, EngOK, TxInv, EngInv, FileInv, NoTx, Stopping, TxType, TxKind, Fallback,
              Prepared, OldFile, Phase6, Between
  <1>4. WaitInv'
    BY DEF TypeOK, EngOK, TxInv, EngInv, WaitInv, NoTx, Stopping, TxType, TxKind,
       NoFrame, convergence_busy, Answering, Spawning, Between
  <1>5. ActiveInv'
    BY Nobody DEF TypeOK, ProcsOK, EngInv, ActiveInv, NoTx, Published
  <1> QED BY <1>1, <1>2, <1>3, <1>4, <1>5

\* An event of the file watch or of a timer starts at the top of the loop.
LEMMA EventKeeps ==
    ASSUME Inv, Inotify \/ DebounceExpired \/ BackoffExpired \/ ExitProcess
    PROVE  CoreInv'
  <1>1. CASE handle_inotify_switch
    BY <1>1, StimulusKeeps DEF Inv, handle_inotify_switch
  <1>2. CASE handle_inotify_config \/ handle_nl80211
    BY <1>2, ElsewhereKeeps DEF Inv, handle_inotify_config, handle_nl80211, flow
  <1>3. CASE DebounceExpired
    BY <1>3, StimulusKeeps DEF Inv, DebounceExpired
  <1>4. CASE BackoffExpired
    <2>1. CASE shutdown \/ disabled
      BY <1>4, <2>1, CancelKeeps
         DEF BackoffExpired, Idle, Between, Phase6, Spawning
    <2>2. CASE ~(shutdown \/ disabled)
      BY <1>4, <2>2, StimulusKeeps DEF Inv, BackoffExpired
    <2> QED BY <2>1, <2>2
  <1>5. CASE ExitProcess
    <2> USE <1>5 DEF ExitProcess, Idle, Inv, CoreInv, procs, eng, pend
    <2>1. TxInv' /\ EngInv' /\ FileInv'
      BY DEF TxInv, EngInv, FileInv, Fallback, Prepared
    <2>2. WaitInv'
      BY DEF WaitInv, convergence_busy
    <2>3. ActiveInv'
      BY DEF ActiveInv
    <2> QED BY <2>1, <2>2, <2>3
  <1> QED BY <1>1, <1>2, <1>3, <1>4, <1>5 DEF Inotify

\* The loop itself: shutdown and deactivation give up the transaction and the data
\* plane together, so neither outlives the other.
LEMMA FlowKeeps ==
    ASSUME Inv,
           \/ run \/ Return \/ request_shutdown \/ deactivate_runtime
           \/ run_queued_convergence
    PROVE  CoreInv'
  <1>1. CASE run
    <2> USE <1>1, TargetPc DEF run, Entry, Inv, CoreInv, procs, kernel, eng, pend
    <2>1. TxInv' /\ EngInv'
      BY DEF TxInv, EngInv, Phase6, Spawning, Between, Converging
    <2>2. FileInv' /\ ActiveInv'
      BY DEF FileInv, ActiveInv, Fallback, Prepared, Published
    <2>3. WaitInv'
      BY DEF WaitInv, NoFrame, convergence_busy, Answering, Spawning
    <2> QED BY <2>1, <2>2, <2>3
  <1>2. CASE Return
    <2> USE <1>2 DEF Return, Inv, CoreInv, procs, kernel, eng
    <2>1. TxInv' /\ EngInv'
      BY DEF TxInv, EngInv, Phase6, Spawning, Between, Converging
    <2>2. FileInv' /\ ActiveInv'
      BY DEF FileInv, ActiveInv, Fallback, Prepared, Published
    <2>3. WaitInv'
      BY DEF WaitInv, convergence_busy, Answering, Spawning
    <2> QED BY <2>1, <2>2, <2>3
  <1>3. CASE request_shutdown
    <2> USE <1>3 DEF request_shutdown, Goto, publish_inactive
    <2>1. CASE shutdown
      <3> USE <2>1 DEF Inv, CoreInv, procs, kernel, eng, pend
      <3>1. TxInv' /\ EngInv'
        BY DEF TxInv, EngInv, Phase6, Spawning, Between, Converging
      <3>2. FileInv' /\ ActiveInv' /\ WaitInv'
        BY DEF FileInv, ActiveInv, WaitInv, Fallback, Prepared, Published
      <3> QED BY <3>1, <3>2
    <2>2. CASE ~shutdown
      BY <2>2, CancelKeeps DEF Between, Phase6, Spawning
    <2> QED BY <2>1, <2>2
  <1>4. CASE deactivate_runtime
    BY <1>4, CancelKeeps DEF deactivate_runtime, Goto, flow, Between, Phase6, Spawning
  <1>5. CASE run_queued_convergence
    <2> USE <1>5 DEF run_queued_convergence, Goto, Inv, CoreInv, procs, kernel, flow, eng, pend
    <2>1. TxInv' /\ EngInv'
      BY DEF TxInv, EngInv, Phase6, Spawning, Between, Converging
    <2>2. FileInv' /\ ActiveInv'
      BY DEF FileInv, ActiveInv, Fallback, Prepared, Published
    <2>3. WaitInv'
      BY DEF WaitInv, convergence_busy, Answering, Spawning
    <2> QED BY <2>1, <2>2, <2>3
  <1> QED BY <1>1, <1>2, <1>3, <1>4, <1>5

\* converge reads whether a transaction is under way and starts one only where it
\* found none; a new generation is named by nothing that exists.
LEMMA ConvergeKeeps ==
    ASSUME Inv, Converge
    PROVE  CoreInv'
  <1> USE DEF Inv, CoreInv, procs, kernel, flow, eng, ssid, pend, Goto
  <1>1. CASE converge_down
    <2> USE <1>1 DEF converge_down
    <2>1. CASE shutdown
      BY <2>1, CancelKeeps DEF Between, Phase6, Spawning
    <2>2. CASE ~shutdown
      <3> USE <2>2
      <3>1. TxInv' /\ EngInv'
        BY DEF TxInv, EngInv, Phase6, Spawning, Between, Converging
      <3>2. FileInv' /\ ActiveInv'
        BY DEF FileInv, ActiveInv, Fallback, Prepared, Published
      <3>3. WaitInv'
        BY DEF WaitInv, convergence_busy, Answering, Spawning
      <3> QED BY <3>1, <3>2, <3>3
    <2> QED BY <2>1, <2>2
  <1>2. CASE converge_read
    <2> USE <1>2 DEF converge_read
    <2>1. TxInv' /\ EngInv'
      BY DEF TxInv, EngInv, Phase6, Spawning, Between, Converging, convergence_busy
    <2>2. FileInv' /\ ActiveInv'
      BY DEF FileInv, ActiveInv, Fallback, Prepared, Published
    <2>3. WaitInv'
      BY DEF WaitInv, convergence_busy, Answering, Spawning
    <2> QED BY <2>1, <2>2, <2>3
  <1>3. CASE converge_cold
    <2> USE <1>3 DEF converge_cold
    <2>1. TxInv' /\ EngInv'
      BY DEF TxInv, EngInv, Phase6, Spawning, Between, Converging
    <2>2. FileInv' /\ ActiveInv'
      BY DEF FileInv, ActiveInv, Fallback, Prepared
    <2>3. WaitInv'
      BY DEF WaitInv, convergence_busy, Answering, Spawning
    <2> QED BY <2>1, <2>2, <2>3
  <1>4. CASE converge_dataplane \/ converge_apply \/ converge_apply_fails
    <2> USE <1>4 DEF converge_dataplane, converge_apply, converge_apply_fails
    <2>1. TxInv' /\ EngInv'
      BY DEF TxInv, EngInv, Phase6, Spawning, Between, Converging, TypeOK, PendOK,
             JobType
    <2>2. FileInv'
      BY DEF FileInv, Fallback, Prepared
    <2>3. WaitInv'
      BY DEF WaitInv, convergence_busy, Answering, Spawning
    <2>4. ActiveInv'
      BY DEF ActiveInv, Published, TypeOK, KernelOK, KmodType
    <2> QED BY <2>1, <2>2, <2>3, <2>4
  <1>5. CASE converge_blocked
    <2> USE <1>5 DEF converge_blocked
    <2>1. CASE engine # NoChild \/ tx # NoTx
      BY <2>1, CancelKeeps DEF Between, Phase6, Spawning
    <2>2. CASE ~(engine # NoChild \/ tx # NoTx)
      <3> USE <2>2
      <3>1. TxInv' /\ EngInv'
        BY DEF TxInv, EngInv, Phase6, Spawning, Between, Converging
      <3>2. FileInv' /\ WaitInv'
        BY DEF FileInv, WaitInv, Fallback, Prepared, convergence_busy, Answering, Spawning
      <3>3. ActiveInv'
        BY Nobody DEF ActiveInv, TypeOK, ProcsOK
      <3> QED BY <3>1, <3>2, <3>3
    <2> QED BY <2>1, <2>2
  <1>6. CASE converge_engine
    <2> USE <1>6 DEF converge_engine, need_switch
    <2>1. TxInv' /\ EngInv'
      BY DEF TxInv, EngInv, Phase6, Spawning, Between, Converging
    <2>2. FileInv' /\ ActiveInv'
      BY DEF FileInv, ActiveInv, Fallback, Prepared, Published
    <2>3. WaitInv'
      BY DEF WaitInv, convergence_busy, Answering, Spawning
    <2> QED BY <2>1, <2>2, <2>3
  <1>7. CASE start_generation_check
    <2> USE <1>7 DEF start_generation_check, Checking
    <2>1. TxInv' /\ EngInv'
      BY DEF TxInv, EngInv, NoTx, ChildKinds, Phase6, Spawning, Between, Converging
    <2>2. FileInv'
      <3>1. FreshGen \in Gen \ files /\ FreshGen # engine.gen
        BY FreshIsFree DEF Used
      <3> QED
        BY <3>1 DEF FileInv, EngInv, NoPlan, NoTx, ChildKinds, Phase6, Between
    <2>3. WaitInv'
      BY DEF WaitInv, convergence_busy
    <2>4. ActiveInv'
      BY DEF ActiveInv, Published
    <2> QED BY <2>1, <2>2, <2>3, <2>4
  <1>8. CASE start_generation_fails
    <2> USE <1>8 DEF start_generation_fails, PassError
    <2>1. TxInv' /\ EngInv'
      BY DEF TxInv, EngInv, Phase6, Spawning, Between, Converging
    <2>2. FileInv' /\ ActiveInv'
      BY DEF FileInv, ActiveInv, Fallback, Prepared, Published
    <2>3. WaitInv'
      BY DEF WaitInv, Answering
    <2> QED BY <2>1, <2>2, <2>3
  <1>9. CASE converge_refused
    <2> USE <1>9 DEF converge_refused
    <2>1. TxInv' /\ EngInv'
      BY DEF TxInv, EngInv, Phase6, Spawning, Between, Converging
    <2>2. FileInv' /\ ActiveInv'
      BY DEF FileInv, ActiveInv, Fallback, Prepared, Published
    <2>3. WaitInv'
      BY DEF WaitInv, convergence_busy, Answering, Spawning
    <2> QED BY <2>1, <2>2, <2>3
  <1> QED BY <1>1, <1>2, <1>3, <1>4, <1>5, <1>6, <1>7, <1>8, <1>9 DEF Converge

\* The module is opened for the engine's own generation before it is published.
LEMMA ActivationKeeps ==
    ASSUME Inv, Activation
    PROVE  CoreInv'
  <1> USE DEF Inv, CoreInv, procs, kernel, flow, eng, pend, Goto
  <1>1. CASE start_phase6 \/ start_phase6_fails
    <2> USE <1>1 DEF start_phase6, start_phase6_fails
    <2>1. TxInv' /\ EngInv'
      BY DEF TxInv, EngInv, Phase6, Spawning, Between, Converging
    <2>2. FileInv'
      BY DEF FileInv, Fallback, Prepared
    <2>3. WaitInv'
      BY DEF WaitInv, convergence_busy, Answering, Spawning
    <2>4. ActiveInv'
      BY DEF ActiveInv, Published, TypeOK, KernelOK, KmodType
    <2> QED BY <2>1, <2>2, <2>3, <2>4
  <1>2. CASE finish_phase6
    <2> USE <1>2 DEF finish_phase6, Controls
    <2>1. TxInv' /\ EngInv'
      BY DEF TxInv, EngInv, Phase6, Spawning, Between, Converging
    <2>2. FileInv'
      BY Nobody DEF FileInv, EngInv, Fallback, OldFile, NoPlan, NoTx, ChildKinds, Phase6, Between
    <2>3. WaitInv'
      BY DEF WaitInv, TypeOK, FlowOK, FrameType
    <2>4. ActiveInv'
      BY DEF ActiveInv, Published
    <2> QED BY <2>1, <2>2, <2>3, <2>4
  <1>3. CASE finish_phase6_fails \/ fail_phase6
    <2> USE <1>3 DEF finish_phase6_fails, fail_phase6, begin_stop, publish_inactive, Stopping
    <2>1. TxInv'
      BY DEF TxInv, EngInv, Phase6, TypeOK, EngOK
    <2>2. EngInv'
      BY DEF EngInv, NoTx, ChildKinds, Phase6, Spawning, Between, Converging
    <2>3. FileInv'
      BY DEF FileInv, EngInv, Fallback, Prepared, NoTx, ChildKinds, Phase6, Between, TypeOK, EngOK
    <2>4. WaitInv'
      BY DEF WaitInv, convergence_busy, Answering, Spawning
    <2>5. ActiveInv'
      BY Nobody DEF ActiveInv, TypeOK, ProcsOK
    <2> QED BY <2>1, <2>2, <2>3, <2>4, <2>5
  <1> QED BY <1>1, <1>2, <1>3 DEF Activation

\* The check of a candidate ends with a child to stop or with none to be started.
LEMMA CheckKeeps ==
    ASSUME Inv,
           \/ handle_check_exit \/ CheckRejects
           \/ \E d \in {"timeout", "supervision"} : CheckDisposition(d)
    PROVE  CoreInv'
  <1> USE DEF Inv, CoreInv, Idle
  <1>1. ASSUME NEW ok \in BOOLEAN, Idle, tx.kind = "checking", complete_check(ok),
               UNCHANGED <<alive, waiters, shutdown, role, cancel, committed>>
        PROVE  CoreInv'
    <2> USE <1>1 DEF complete_check, begin_stop, publish_inactive, Stopping, kernel
    <2>1. TxInv'
      BY DEF TxInv, NoTx, TypeOK, EngOK
    <2>2. EngInv'
      BY Nobody DEF EngInv, TxInv, NoTx, ChildKinds, Phase6, Spawning, Between, Converging,
                    TypeOK, ProcsOK, EngOK
    <2>3. FileInv'
      BY Nobody DEF FileInv, EngInv, TxInv, Fallback, Prepared, NoTx, NoChild, ChildKinds,
                    Phase6, TypeOK, EngOK, PlanType
    <2>4. WaitInv'
      BY DEF WaitInv, TxInv, NoTx, convergence_busy, Answering, Spawning
    <2>5. ActiveInv'
      BY Nobody DEF ActiveInv, Published, TypeOK, ProcsOK
    <2> QED BY <2>1, <2>2, <2>3, <2>4, <2>5
  <1>2. CASE handle_check_exit
    BY <1>1, <1>2 DEF handle_check_exit, flow
  <1>3. CASE CheckRejects
    BY <1>1, <1>3 DEF CheckRejects, flow
  <1>4. CASE \E d \in {"timeout", "supervision"} : CheckDisposition(d)
    <2> USE <1>4 DEF CheckDisposition, Checking, procs, kernel, flow, pend
    <2>1. TxInv' /\ EngInv'
      BY DEF TxInv, EngInv, NoTx, ChildKinds, Phase6, Spawning, Between, Converging
    <2>2. FileInv' /\ ActiveInv'
      BY DEF FileInv, ActiveInv, Fallback, Prepared, Published, ChildKinds
    <2>3. WaitInv'
      BY DEF WaitInv, convergence_busy
    <2> QED BY <2>1, <2>2, <2>3
  <1> QED BY <1>2, <1>3, <1>4

\* A child is started where none is alive, and the old generation keeps its file
\* until the candidate has replaced it.
LEMMA CandidateKeeps ==
    ASSUME Inv, Candidate
    PROVE  CoreInv'
  <1> USE DEF Inv, CoreInv, procs, kernel, flow, eng, pend, Goto, Idle
  <1>1. CASE start_candidate
    <2> USE <1>1 DEF start_candidate, Waiting
    <2>1. TxInv'
      BY Fields DEF TxInv, EngInv, FileInv, Prepared, Spawning, TypeOK, EngOK, Child
    <2>2. EngInv'
      BY DEF EngInv, ChildKinds, Phase6, Spawning, Between, Converging
    <2>3. FileInv'
      BY DEF FileInv, EngInv, Fallback, Prepared, ChildKinds, Spawning, Phase6
    <2>4. WaitInv'
      BY DEF WaitInv, convergence_busy
    <2>5. ActiveInv'
      BY Nobody DEF ActiveInv, EngInv, FileInv, Prepared, Spawning
    <2> QED BY <2>1, <2>2, <2>3, <2>4, <2>5
  <1>2. CASE start_candidate_fails
    <2> USE <1>2 DEF start_candidate_fails, PassError
    <2>1. TxInv' /\ EngInv'
      BY DEF TxInv, EngInv, Phase6, Spawning, Between, Converging
    <2>2. FileInv' /\ ActiveInv'
      BY DEF FileInv, ActiveInv, Fallback, Prepared, Published
    <2>3. WaitInv'
      BY DEF WaitInv, Answering, Spawning
    <2> QED BY <2>1, <2>2, <2>3
  <1>3. CASE advance_waiting
    <2> USE <1>3 DEF advance_waiting, TxInv, EngInv
    <2>1. ~cancel
      OBVIOUS
    <2>2. TxInv' /\ EngInv'
      BY <2>1, Nobody DEF NoTx, ChildKinds, Phase6, Spawning, Between, Converging, TypeOK,
                          ProcsOK
    <2>3. FileInv'
      BY <2>1 DEF FileInv, Fallback, Prepared, NoTx, ChildKinds, Phase6
    <2>4. WaitInv'
      BY <2>1 DEF WaitInv, convergence_busy, Answering, Spawning
    <2>5. ActiveInv'
      BY <2>1, Nobody DEF ActiveInv, ChildKinds, TypeOK, ProcsOK
    <2> QED BY <2>2, <2>3, <2>4, <2>5
  <1>4. CASE fail_waiting
    <2> USE <1>4 DEF fail_waiting, begin_stop, Stopping
    <2>1. TxInv' /\ EngInv'
      BY DEF TxInv, EngInv, ChildKinds, Phase6, Spawning, Between, Converging
    <2>2. FileInv'
      BY DEF FileInv, TxInv, EngInv, Fallback, Prepared, ChildKinds
    <2>3. WaitInv' /\ ActiveInv'
      BY DEF WaitInv, ActiveInv, EngInv, ChildKinds, convergence_busy, Published
    <2> QED BY <2>1, <2>2, <2>3
  <1>5. CASE begin_candidate_failure \/ begin_candidate_failure_fails
    <2> USE <1>5 DEF begin_candidate_failure, begin_candidate_failure_fails, Waiting
    <2>1. TxInv'
      BY DEF TxInv, EngInv, NoTx, Spawning, TypeOK, EngOK, PlanType, Child
    <2>2. EngInv'
      BY DEF EngInv, NoTx, ChildKinds, Phase6, Spawning, Between, Converging
    <2>3. FileInv'
      BY DEF FileInv, EngInv, Fallback, NoTx, NoPlan, ChildKinds, Phase6, Spawning,
         TypeOK, EngOK, PlanType, Child
    <2>4. WaitInv'
      BY DEF WaitInv, EngInv, Spawning, convergence_busy, Answering
    <2>5. ActiveInv'
      BY Nobody DEF ActiveInv, EngInv, Spawning, TypeOK, EngOK, PlanType, Child
    <2> QED BY <2>1, <2>2, <2>3, <2>4, <2>5
  <1> QED BY <1>1, <1>2, <1>3, <1>4, <1>5 DEF Candidate

\* What follows the exit of a stopped child depends on why it was stopped, and on
\* nothing that can have changed meanwhile.
LEMMA StopKeeps ==
    ASSUME Inv, Stop
    PROVE  CoreInv'
  <1> USE DEF Inv, CoreInv, procs, kernel, flow, pend, Goto, Idle
  <1>1. CASE complete_stopped
    <2> USE <1>1 DEF complete_stopped
    <2>1. TxInv' /\ EngInv'
      BY Nobody DEF TxInv, EngInv, NoTx, ChildKinds, Phase6, Spawning, Between,
         Converging, TypeOK, ProcsOK
    <2>2. FileInv'
      BY DEF FileInv, TxInv, EngInv, Fallback, Prepared, NoTx, ChildKinds, Phase6
    <2>3. WaitInv'
      BY DEF WaitInv, TxInv, convergence_busy, Answering, Spawning
    <2>4. ActiveInv'
      BY Nobody DEF ActiveInv, EngInv, ChildKinds, TypeOK, ProcsOK
    <2> QED BY <2>1, <2>2, <2>3, <2>4
  <1>2. CASE StopKill
    <2> USE <1>2 DEF StopKill, TypeOK, EngOK, TxType
    <2>1. TxInv' /\ EngInv'
      BY DEF TxInv, EngInv, ChildKinds, Phase6, Spawning, Between, Converging
    <2>2. FileInv' /\ ActiveInv' /\ WaitInv'
      BY DEF FileInv, ActiveInv, WaitInv, Fallback, Prepared, Published, ChildKinds,
         convergence_busy
    <2> QED BY <2>1, <2>2
  <1>3. CASE stop_confirmation_failed
    <2> USE <1>3 DEF stop_confirmation_failed, TxInv, EngInv
    <2>1. TxInv' /\ EngInv'
      BY Nobody DEF NoTx, ChildKinds, Phase6, Spawning, Between, Converging
    <2>2. FileInv'
      BY Nobody DEF FileInv, Fallback, Prepared, OldFile, NoTx, NoPlan, ChildKinds, Phase6
    <2>3. WaitInv'
      BY DEF WaitInv, NoFrame
    <2>4. ActiveInv'
      BY DEF ActiveInv
    <2> QED BY <2>1, <2>2, <2>3, <2>4
  <1>4. CASE finish_cancelled
    <2> USE <1>4 DEF finish_cancelled, begin_stop, Stopping, Controls
    <2>1. TxInv' /\ EngInv'
      BY DEF TxInv, EngInv, NoTx, ChildKinds, Phase6, Spawning, Between, Converging, TypeOK, EngOK
    <2>2. FileInv'
      BY DEF FileInv, EngInv, NoTx, ChildKinds, Phase6, Between
    <2>3. WaitInv'
      BY DEF WaitInv, convergence_busy, TypeOK, FlowOK, FrameType
    <2>4. ActiveInv'
      BY Nobody DEF ActiveInv, TypeOK, ProcsOK
    <2> QED BY <2>1, <2>2, <2>3, <2>4
  <1>5. CASE finish_transaction_error
    <2> USE <1>5 DEF finish_transaction_error, Controls
    <2>1. TxInv' /\ EngInv'
      BY DEF TxInv, EngInv, NoTx, ChildKinds, Phase6, Spawning, Between, Converging
    <2>2. FileInv' /\ ActiveInv'
      BY DEF FileInv, ActiveInv, EngInv, Published, NoTx, ChildKinds, Phase6
    <2>3. WaitInv'
      BY DEF WaitInv, TypeOK, FlowOK, FrameType
    <2> QED BY <2>1, <2>2, <2>3
  <1>6. CASE handle_engine_exit
    <2> USE <1>6 DEF handle_engine_exit, TxInv, EngInv
    <2>1. role = "none"
      BY DEF Phase6
    <2>2. TxInv' /\ EngInv'
      BY <2>1 DEF ChildKinds, Phase6, Spawning, Between, Converging
    <2>3. FileInv'
      BY <2>1, Nobody DEF FileInv, Fallback, Prepared, ChildKinds, NoChild, TypeOK, EngOK
    <2>4. WaitInv'
      BY <2>1 DEF WaitInv, convergence_busy, NoFrame, Answering, Spawning
    <2>5. ActiveInv'
      BY <2>1, Nobody DEF ActiveInv, TypeOK, ProcsOK
    <2> QED BY <2>2, <2>3, <2>4, <2>5
  <1> QED BY <1>1, <1>2, <1>3, <1>4, <1>5, <1>6 DEF Stop

-----------------------------------------------------------------------------
(* The theorems *)

\* The invariant holds when the daemon starts.
LEMMA InitInv == Init => Inv
  <1> SUFFICES ASSUME Init PROVE Inv
    OBVIOUS
  <1> USE DEF Init
  <1>1. WorldOK
    BY ReactorAssumption DEF WorldOK
  <1>2. ProcsOK /\ KernelOK /\ FlowOK
    BY TypeValues DEF ProcsOK, KernelOK, FlowOK, Pc, Phase
  <1>3. EngOK
    <2>1. 0 \in Version
      BY ReactorAssumption DEF Version
    <2> QED BY <2>1, TypeValues DEF EngOK
  <1>4. PendOK
    BY TypeValues DEF PendOK
  <1>5. TxInv /\ EngInv
    BY DEF TxInv, EngInv, NoTx, ChildKinds, Phase6, Spawning, Between, Converging
  <1>6. FileInv /\ WaitInv /\ ActiveInv
    BY DEF FileInv, WaitInv, ActiveInv, NoTx, ChildKinds
  <1> QED BY <1>1, <1>2, <1>3, <1>4, <1>5, <1>6 DEF Inv, TypeOK, CoreInv

\* Every step keeps it.
LEMMA NextInv == Inv /\ [Next]_vars => Inv'
  <1> SUFFICES ASSUME Inv, [Next]_vars PROVE Inv'
    OBVIOUS
  <1>1. CASE World
    BY <1>1, WorldTypes, WorldKeeps DEF Inv
  <1>2. CASE Command
    BY <1>2, CommandTypes, CommandKeeps DEF Inv
  <1>3. CASE Inotify \/ DebounceExpired \/ BackoffExpired \/ ExitProcess
    BY <1>3, EventTypes, EventKeeps DEF Inv
  <1>4. CASE \/ run \/ Return \/ request_shutdown \/ deactivate_runtime
             \/ run_queued_convergence
    BY <1>4, FlowTypes, FlowKeeps DEF Inv
  <1>5. CASE Converge
    BY <1>5, ConvergeTypes, ConvergeKeeps DEF Inv
  <1>6. CASE Activation
    BY <1>6, ActivationTypes, ActivationKeeps DEF Inv
  <1>7. CASE \/ handle_check_exit \/ CheckRejects
             \/ \E d \in {"timeout", "supervision"} : CheckDisposition(d)
    BY <1>7, CheckTypes, CheckKeeps DEF Inv
  <1>8. CASE Candidate
    BY <1>8, CandidateTypes, CandidateKeeps DEF Inv
  <1>9. CASE Stop
    BY <1>9, StopTypes, StopKeeps DEF Inv
  <1>10. CASE UNCHANGED vars
    <2> USE <1>10 DEF vars, world, budget, procs, kernel, flow, eng, ssid, pend
    <2>1. TypeOK'
      BY DEF Inv, TypeOK, WorldOK, ProcsOK, KernelOK, FlowOK, EngOK, PendOK
    <2>2. CoreInv'
      BY ElsewhereKeeps DEF Inv
    <2> QED BY <2>1, <2>2 DEF Inv
  <1> QED
    BY <1>1, <1>2, <1>3, <1>4, <1>5, <1>6, <1>7, <1>8, <1>9, <1>10
       DEF Next, Call, CallFails, Engine, EngineFails, Converge, Activation, Candidate, Stop

\* Inv holds in every reachable state of the reactor, for any number of generations,
\* events and failures (reactor.rs).
THEOREM Invariance == Spec => []Inv
BY InitInv, NextInv, PTL DEF Spec

\* Every variable of the reactor keeps its kind, whatever the handlers, the failures
\* and the world do (reactor.rs, engine.rs, dataplane/platform.rs).
THEOREM TypeCorrect == Spec => []TypeOK
BY Invariance, PTL DEF Inv

\* The spawn in start_candidate and in begin_candidate_failure comes only after the
\* exit of the process before it is known, and no handler forgets a child that may
\* still run: there is never a second engine, and never an unsupervised one.
THEOREM OneEngine == Spec => []OneSupervisedEngine
  <1>1. Inv => OneSupervisedEngine
    <2> SUFFICES ASSUME Inv PROVE OneSupervisedEngine
      OBVIOUS
    <2> USE DEF Inv, CoreInv
    <2>1. Supervised
      BY DEF EngInv, Supervised
    <2>2. alive \subseteq {engine} \/ alive \subseteq {tx.child}
      BY Nobody DEF TxInv, EngInv, ChildKinds, TypeOK, ProcsOK, EngOK, TxType, TxKind, NoTx
    <2>3. PICK x : alive \subseteq {x}
      BY <2>2
    <2>4. IsFiniteSet({x}) /\ Cardinality({x}) = 1
      BY FS_Singleton
    <2>5. Cardinality(alive) <= 1
      BY <2>3, <2>4, FS_Subset
    <2> QED BY <2>1, <2>5 DEF OneSupervisedEngine, SingleEngine
  <1> QED BY <1>1, Invariance, PTL

\* No cancel, failure or commit removes the effective file a running engine was
\* started from, or the one a switch may still fall back to
\* (cleanup_cancelled_wait_role, begin_candidate_failure, stop_confirmation_failed).
THEOREM NoFileIsMissed == Spec => []FilesKept
  <1>1. Inv => FilesKept
    <2> SUFFICES ASSUME Inv PROVE FilesKept
      OBVIOUS
    <2> USE DEF Inv, CoreInv, TypeOK, EngOK, TxType, TxKind, TxInv, FileInv, NoTx, ChildKinds
    <2>1. OldGenerationRecoverable
      BY DEF OldGenerationRecoverable, Fallback, Prepared
    <2>2. EngineFileKept
      BY Nobody DEF EngineFileKept, EngInv, ProcsOK
    <2> QED BY <2>1, <2>2 DEF FilesKept
  <1> QED BY <1>1, Invariance, PTL

\* Whoever waits for an enable, disable or reload has work under way that will answer
\* it: every path that ends a transaction goes through complete_convergence_controls.
THEOREM NobodyIsStranded == Spec => []NoStrandedWaiter
  <1>1. Inv => NoStrandedWaiter
    BY DEF Inv, CoreInv, WaitInv, NoStrandedWaiter, Idle, NoFrame, Answering, Spawning
  <1> QED BY <1>1, Invariance, PTL

\* `status` says Active only of an engine whose listeners the module was given and
\* whose generation was committed (publish_active after prepare_generation).
THEOREM ActiveMeansCommitted == Spec => []ActiveIsCommitted
  <1>1. Inv => ActiveIsCommitted
    <2> SUFFICES ASSUME Inv, phase = "Active" PROVE active /\ role = "none"
      BY DEF Inv, CoreInv, ActiveInv, Published, ActiveIsCommitted
    <2> QED BY DEF phase, observe, Inv, TypeOK, KernelOK
  <1> QED BY <1>1, Invariance, PTL

-----------------------------------------------------------------------------
(* The lifecycle table: every cell. *)

\* Whatever takes the planner out of Active freezes capture in the same row: no
\* stimulus leaves the module stealing for an engine the planner has given up
\* (runtime.rs, step).
THEOREM LeavingActiveFreezes ==
    \A s \in Stimulus :
        step("Active", s).phase # "Active" => FreezesCapture(step("Active", s).commands)
BY DEF Stimulus, step, FreezesCapture, With, Stay, Unexpected, UnlessOff, Cells, Restart,
       Off, Resting, Running

\* While the planner is off only Enable leads to a convergence: no timer, edit,
\* reload or network event of a disabled Flux loads the module or starts an engine
\* (runtime.rs, step and needs_converge).
THEOREM OffStaysOff ==
    \A p \in Off : \A s \in Stimulus \ {"Enable"} :
        /\ step(p, s).phase \in Off
        /\ step(p, s).commands \cap NeedsConverge = {}
BY DEF Stimulus, step, NeedsConverge, With, Stay, Unexpected, UnlessOff, Cells, Restart,
       Off, Resting, Running

\* Capture-side drift never freezes capture, in any phase (docs/spec/blueprint.md,
\* Part 26: it must not publish inactive), and never changes the phase.
THEOREM CaptureDriftKeepsCapture ==
    \A p \in Phase :
        /\ step(p, "CaptureSideDrift").phase = p
        /\ ~FreezesCapture(step(p, "CaptureSideDrift").commands)
BY DEF Phase, step, FreezesCapture, With, Stay, UnlessOff, Off

-----------------------------------------------------------------------------
(* The reactor at rest *)

\* The events and failures of the statement.  The others may leave the reactor at
\* rest without an engine: a state root that is refused, a rejected check, a missing
\* binary or a policy that is not applied is not retried, and the switch has findings
\* of its own.
RestEvents == {"config", "topology", "reload", "stop", "subscription"}
RestFaults == {"write", "spawn", "ready", "cache", "listeners", "wedge", "crash",
               "supervision", "reactor"}

\* An engine that runs, awaits no commit and is not being torn down is active.
SettledInv ==
    /\ engine \in alive \ doomed /\ role = "none" /\ ~cancel => active
    /\ pc \in {"finish_phase6", "fail_phase6"} /\ role = "none" => ~active

\* Neither the switch nor Wi-Fi reports anything.
QuietInv == evt \subseteq {"config"} /\ ~flags.wifi

\* The planner is off only with the switch, or on the way to a shutdown.
OffInv == planner \in Off => disabled \/ shutdown \/ pc = "request_shutdown"

\* Nothing is started under the switch or on a Wi-Fi that pauses, so that only a
\* shutdown has engine work to cancel.
HeldInv ==
    /\ disabled \/ wlan => engine = NoChild /\ tx = NoTx /\ pc \notin Between
    /\ pc \in Converging => ~disabled /\ (wlan => job.user = 0)
    /\ pc = "deactivate_runtime" => disabled \/ (wlan /\ paused)
    /\ cancel => shutdown

\* The module is held from the convergence that opens it to the end of the engine.
OpenInv ==
    \/ engine # NoChild \/ tx # NoTx
    \/ pc \in Between \cup {"apply_policy", "converge_engine"}
    => kmod.open

\* An error that ends a transaction is known to be retryable.
RetryInv ==
    /\ pc \in {"begin_candidate_failure", "finish_transaction_error"} => frame.retry
    /\ tx.kind = "checking" => tx.what # "timedout"
    /\ tx.kind \in ChildKinds /\ tx.what \in {"recovery", "recoveryfailed"} => plan.retry
    /\ role = "recovery" => plan.retry

\* What a convergence has read is what is on disk, or inotify knows better.
ReadInv ==
    /\ pc = "converge_cold" => job.start /\ job.user = 0
    /\ pc = "start_generation" => job.user # 0
    /\ pc \in Converging /\ job.start /\ job.user = 0 =>
          ~Usable(disk) \/ "config" \in evt
    /\ pc \in Converging \cup {"start_generation"} /\ job.user # 0 =>
          job.user = disk \/ "config" \in evt

\* With no engine and none on its way, an edit or a retry is still to come.
StartInv ==
    /\ pc = "run" => engine = NoChild /\ tx = NoTx /\ role = "none" /\ ~shutdown /\ ~paused
    /\ /\ pc \in {"idle", "ret", "queued"} /\ engine = NoChild /\ tx = NoTx
       /\ ~timers.backoff /\ ~disabled /\ ~shutdown /\ ~paused
       => ~Usable(disk) \/ "config" \in evt \/ timers.debounce

\* As long as nothing has failed: the engine or its successor runs what is on disk,
\* or the edit is in the inotify queue or noted in flags.engine ...
Noted == ~Usable(disk) \/ "config" \in evt \/ flags.engine
CurrentInv ==
    failures = MaxFailures /\ ~shutdown =>
        /\ engine # NoChild => engine \in alive \ doomed
        /\ tx.kind = "waiting" => tx.child \in alive \ doomed /\ tx.child.user = plan.user
        /\ tx.what \in {"none", "normal", "start", "candidate"} /\ role # "recovery"
        /\ pc \notin {"begin_candidate_failure", "finish_transaction_error", "fail_phase6",
                      "finish_cancelled"}
        /\ role = "candidate" => engine.user = plan.user
        /\ engine # NoChild /\ role = "none" => user = engine.user
        /\ tx # NoTx \/ role # "none" \/ pc = "start_candidate" => plan.user = disk \/ Noted
        /\ engine # NoChild /\ tx = NoTx /\ role = "none" /\ pc # "start_generation" =>
              user = disk \/ Noted
        /\ pc \in Converging /\ ~job.start /\ ~job.busy /\ job.user = 0 =>
              user = disk \/ ~Usable(disk) \/ "config" \in evt
\* ... and then a convergence that will read it is due.
DueInv ==
    failures = MaxFailures /\ ~shutdown =>
        /\ pc \in {"idle", "ret"} /\ engine # NoChild /\ tx = NoTx /\ flags.engine =>
              timers.debounce
        /\ pc \in Phase6 /\ role = "none" => ~flags.engine

RestInv ==
    /\ SettledInv /\ QuietInv /\ OffInv /\ HeldInv /\ OpenInv /\ RetryInv /\ ReadInv
    /\ StartInv /\ CurrentInv /\ DueInv

\* The setting of the theorem.
Mild == Events \subseteq RestEvents /\ Faults \subseteq RestFaults

-----------------------------------------------------------------------------
(* The planner *)

\* Where the stimuli of this setting lead: never to a teardown of the data plane, to
\* Off only by way of a shutdown, and from a timer to a convergence unless off.
LEMMA Leads ==
    ASSUME NEW p \in Phase,
           NEW s \in {"Bootstrap", "Sighup", "Reload", "Stop", "Sigterm", "DebounceExpired",
                      "CaptureSideDrift", "BackoffExpired"}
    PROVE  /\ Target(s, step(p, s).commands) # "deactivate_runtime"
           /\ step(p, s).phase \in Off =>
                 p \in Off \/ Target(s, step(p, s).commands) = "request_shutdown"
           /\ s \in {"DebounceExpired", "CaptureSideDrift", "BackoffExpired"} /\ p \notin Off =>
                 Target(s, step(p, s).commands) = "converge"
  <1> USE DEF step, With, Stay, Unexpected, UnlessOff, Cells, Off, Resting, Running
  <1>1. Target(s, step(p, s).commands) # "deactivate_runtime"
    BY DEF Target
  <1>2. CASE s \in {"Stop", "Sigterm"}
    <2>1. step(p, s).commands \in {{"ExitProcess"},
                                   {"PublishInactive", "StopEngine", "ExitProcess"}}
      BY <1>2
    <2>2. \A cs \in {{"ExitProcess"}, {"PublishInactive", "StopEngine", "ExitProcess"}} :
             Target(s, cs) = "request_shutdown"
      BY <1>2 DEF Target, NeedsConverge
    <2>3. Target(s, step(p, s).commands) = "request_shutdown"
      BY <2>1, <2>2
    <2> QED BY <1>1, <1>2, <2>3
  <1>3. CASE s \in {"Bootstrap", "Sighup", "Reload"}
    <2>1. step(p, s).phase = p
      BY <1>3 DEF Phase
    <2> QED BY <1>1, <1>3, <2>1
  <1>4. CASE s \in {"DebounceExpired", "CaptureSideDrift", "BackoffExpired"}
    <2>1. step(p, s).phase = p
      BY <1>4
    <2>2. ASSUME p \notin Off
          PROVE  step(p, s).commands \in {{"RunPendingConvergence"},
                                          {"ReattachCaptureLocally"}, {"RetryActivation"}}
      BY <1>4, <2>2
    <2>3. ASSUME p \notin Off PROVE Target(s, step(p, s).commands) = "converge"
      BY <1>4, <2>2, <2>3 DEF Target, NeedsConverge
    <2> QED BY <1>1, <2>1, <2>3
  <1> QED BY <1>2, <1>3, <1>4

\* An event that goes through the planner keeps the invariant: it may end a timer, and
\* then it starts a convergence.
LEMMA StimulusRests ==
    ASSUME Inv, RestInv, Idle,
           NEW s \in {"Sighup", "Reload", "Stop", "Sigterm", "DebounceExpired",
                      "CaptureSideDrift", "BackoffExpired"},
           NEW req, apply_stimulus(s, req),
           UNCHANGED <<disabled, disk, wlan, evt, failures, procs, kernel, shutdown, eng, paused,
                       job, flags.wifi, flags.engine>>,
           \/ UNCHANGED <<timers.debounce, timers.backoff>>
           \/ s \in {"DebounceExpired", "CaptureSideDrift", "BackoffExpired"}
    PROVE  RestInv'
  <1> DEFINE to == Target(s, step(planner, s).commands)
  <1>1. /\ to # "deactivate_runtime" /\ to \in Entry
        /\ step(planner, s).phase \in Off => planner \in Off \/ to = "request_shutdown"
        /\ s \in {"DebounceExpired", "CaptureSideDrift", "BackoffExpired"} /\ planner \notin Off
             => to = "converge"
    BY Leads, TargetPc DEF Inv, TypeOK, FlowOK
  <1>2. pc = "idle" /\ pc' = to /\ planner' = step(planner, s).phase
    BY DEF Idle, apply_stimulus
  <1> HIDE DEF to
  <1> USE <1>1, <1>2 DEF RestInv, procs, kernel, eng, Entry, Converging, Between, Phase6, Spawning
  <1>3. SettledInv' /\ OpenInv'
    BY DEF SettledInv, OpenInv
  <1>4. QuietInv' /\ OffInv'
    BY DEF QuietInv, OffInv
  <1>5. HeldInv' /\ RetryInv' /\ ReadInv'
    BY DEF HeldInv, RetryInv, ReadInv
  <1>6. StartInv'
    BY DEF StartInv, OffInv
  <1>7. CurrentInv' /\ DueInv'
    BY DEF CurrentInv, DueInv, Noted, OffInv, HeldInv
  <1> QED BY <1>3, <1>4, <1>5, <1>6, <1>7

\* A failure is counted.
LEMMA Failed == ASSUME TypeOK, NEW f, Fail(f) PROVE failures' # MaxFailures
BY ReactorAssumption DEF TypeOK, WorldOK, Fail

\* The exit of the engine does not turn the planner off.
LEMMA ExitedPhase == \A p \in Phase : step(p, "EngineExited").phase \in Off => p \in Off
BY DEF Phase, step, With, Stay, Unexpected, Restart, Off, Resting, Running

\* The functions of converge keep it.
LEMMA ConvergeRests ==
    ASSUME Inv, RestInv, Mild,
           Converge
    PROVE  RestInv'
  <1> USE DEF Inv, RestInv, CoreInv, TypeOK, ProcsOK, KernelOK, FlowOK, EngOK, PendOK,
     TxType, TxKind, PlanType, FrameType, KmodType, FlagsType, TimersType, JobType, world,
     budget, procs, kernel, flow, eng, ssid, pend, NoTx, NoFrame, NoPlan, NoFlags,
     NoTimers, ChildKinds, Phase6, Spawning, Between, Converging, Goto, Idle, Fail, Mild,
     RestFaults, RestEvents, Occurs, cancel_engine_work, begin_stop, Stopping
  <1>1. CASE converge_down
    <2> USE <1>1 DEF converge_down, OldFile
    <2>1. SettledInv' /\ OpenInv'
      BY Nobody DEF SettledInv, OpenInv, HeldInv
    <2>2. QuietInv' /\ OffInv'
      BY DEF QuietInv, OffInv
    <2>3. HeldInv' /\ RetryInv'
      BY DEF HeldInv, RetryInv
    <2>4. ReadInv' /\ StartInv'
      BY DEF ReadInv, StartInv, HeldInv
    <2>5. CurrentInv' /\ DueInv'
      BY DEF CurrentInv, DueInv, Noted, HeldInv
    <2> QED BY <2>1, <2>2, <2>3, <2>4, <2>5
  <1>2. CASE converge_read
    <2> USE <1>2 DEF converge_read, convergence_busy, was_active, ssid_only_change,
       ssid_verdict, ssid_follow_up, want_engine, evaluate_ssid
    <2>0. /\ candidate_user \in {0, disk}
          /\ candidate_user # 0 => Else(candidate_policy, policy) # 0
          /\ Usable(disk) => disk # 0 /\ candidate_user = IF want_engine THEN disk ELSE 0
      <3> HIDE <1>2
      <3> QED BY Taken
    <2> USE <2>0
    <2>1. SettledInv' /\ OpenInv'
      BY DEF SettledInv, OpenInv, HeldInv
    <2>2. QuietInv' /\ OffInv'
      BY DEF QuietInv, OffInv
    <2>3. HeldInv' /\ RetryInv'
      BY DEF HeldInv, RetryInv
    <2>6. /\ UNCHANGED <<disk, disabled, shutdown, engine, tx, role, plan, user, alive, doomed>>
          /\ failures' = failures /\ ("config" \in evt' <=> "config" \in evt)
          /\ flags'.engine = flags.engine /\ pc = "converge"
      OBVIOUS
    <2>7. /\ job'.user = candidate_user /\ job'.busy = convergence_busy
          /\ job'.start = (engine = NoChild /\ ~convergence_busy)
          /\ pc' \in {"deactivate_runtime", "ret", "converge_cold", "converge_dataplane"}
          /\ pc' = "converge_cold" => job'.start /\ candidate_user = 0
          /\ pc' = "ret" => engine # NoChild /\ ~flags.engine
      OBVIOUS
    <2>8. timers'.debounce \/ ~timers.debounce
      OBVIOUS
    <2> HIDE <1>2 DEF converge_read
    <2>4. ReadInv' /\ StartInv'
      BY <2>6, <2>7, <2>8 DEF ReadInv, StartInv
    <2>5. CurrentInv' /\ DueInv'
      <3>1. ~convergence_busy => tx = NoTx /\ role = "none"
        BY DEF TxInv
      <3>2. Usable(disk) /\ candidate_user = 0 /\ ~convergence_busy
               => engine # NoChild /\ ~flags.engine
        OBVIOUS
      <3>3. Noted' <=> Noted
        BY <2>6 DEF Noted
      <3>4. ASSUME failures = MaxFailures, ~shutdown, Usable(disk), candidate_user = 0,
                   ~convergence_busy
            PROVE  user = disk \/ "config" \in evt
        BY <2>6, <3>1, <3>2, <3>4 DEF CurrentInv, Noted
      <3>5. CurrentInv'
        BY <2>6, <2>7, <3>3, <3>4 DEF CurrentInv
      <3>6. DueInv'
        BY <2>6, <2>7 DEF DueInv
      <3> QED BY <3>5, <3>6
    <2> QED BY <2>1, <2>2, <2>3, <2>4, <2>5
  <1>3. CASE converge_cold
    <2> USE <1>3 DEF converge_cold, Closed
    <2>1. SettledInv' /\ OpenInv'
      BY Nobody DEF SettledInv, OpenInv, HeldInv, TxInv, EngInv, ActiveInv, QuietInv,
         ReadInv, StartInv, DueInv, OffInv, RetryInv, CurrentInv, Noted
    <2>2. QuietInv' /\ OffInv'
      BY DEF QuietInv, OffInv
    <2>3. HeldInv' /\ RetryInv'
      BY DEF HeldInv, RetryInv
    <2>4. ReadInv' /\ StartInv'
      BY DEF ReadInv, StartInv, HeldInv
    <2>5. CurrentInv' /\ DueInv'
      BY Nobody DEF CurrentInv, DueInv, Noted, HeldInv, TxInv, EngInv, ActiveInv,
         SettledInv, OpenInv, QuietInv, ReadInv, StartInv, OffInv, RetryInv
    <2> QED BY <2>1, <2>2, <2>3, <2>4, <2>5
  <1>4. CASE converge_dataplane
    <2> USE <1>4 DEF converge_dataplane
    <2>1. SettledInv' /\ OpenInv'
      BY DEF SettledInv, OpenInv, HeldInv
    <2>2. QuietInv' /\ OffInv'
      BY DEF QuietInv, OffInv
    <2>3. HeldInv' /\ RetryInv'
      BY DEF HeldInv, RetryInv
    <2>4. ReadInv' /\ StartInv'
      BY DEF ReadInv, StartInv, HeldInv
    <2>5. CurrentInv' /\ DueInv'
      BY DEF CurrentInv, DueInv, Noted, HeldInv
    <2> QED BY <2>1, <2>2, <2>3, <2>4, <2>5
  <1>5. CASE converge_apply
    <2> USE <1>5 DEF converge_apply
    <2>1. SettledInv' /\ OpenInv'
      BY DEF SettledInv, OpenInv, HeldInv
    <2>2. QuietInv' /\ OffInv'
      BY ZenonT(30) DEF QuietInv, OffInv
    <2>3. HeldInv' /\ RetryInv'
      BY DEF HeldInv, RetryInv
    <2>4. ReadInv' /\ StartInv'
      BY DEF ReadInv, StartInv, HeldInv
    <2>5. CurrentInv' /\ DueInv'
      <3>1. flags'.engine = flags.engine
        OBVIOUS
      <3> HIDE <1>5
      <3>2. UNCHANGED <<disk, evt, failures, procs, shutdown, eng, job>> /\ pc' = "converge_engine"
            /\ pc = "apply_policy"
        BY <1>5
      <3> QED BY <3>1, <3>2 DEF CurrentInv, DueInv, Noted
    <2> QED BY <2>1, <2>2, <2>3, <2>4, <2>5
  <1>6. CASE converge_engine
    <2> USE <1>6 DEF converge_engine, need_switch
    <2>1. SettledInv' /\ OpenInv'
      BY DEF SettledInv, OpenInv, HeldInv
    <2>2. QuietInv' /\ OffInv'
      BY DEF QuietInv, OffInv
    <2>3. HeldInv' /\ RetryInv'
      BY Nobody DEF HeldInv, RetryInv, TxInv, EngInv
    <2>4. ReadInv' /\ StartInv'
      BY Nobody DEF ReadInv, StartInv, HeldInv, TxInv, EngInv
    <2>5. CurrentInv' /\ DueInv'
      <3>1. role = "none"
        BY DEF EngInv
      <3>2. CASE job.busy
        <4>1. pc' = "ret" /\ UNCHANGED flags /\ tx # NoTx
          BY <3>1, <3>2 DEF EngInv
        <4> QED BY <3>1, <4>1 DEF CurrentInv, DueInv, Noted
      <3>3. CASE ~job.busy
        <4>1. flags'.engine = FALSE /\ tx = NoTx
          BY <3>1, <3>3 DEF EngInv, TxInv
        <4>2. CASE ~job.start /\ ~need_switch
          <5>1. pc' = "start_phase6"
            BY <3>1, <3>3, <4>2
          <5> QED BY <3>1, <3>3, <4>1, <4>2, <5>1 DEF CurrentInv, DueInv, Noted, EngInv, ReadInv
        <4>3. CASE (job.start \/ need_switch) /\ job.user # 0
          <5>1. pc' = "start_generation"
            BY <3>1, <3>3, <4>3
          <5> QED BY <3>1, <4>1, <5>1 DEF CurrentInv, DueInv, Noted
        <4>4. CASE job.start /\ job.user = 0
          <5>1. pc' = "ret" /\ engine = NoChild
            BY <3>1, <3>3, <4>4 DEF EngInv
          <5> QED BY <3>1, <4>1, <5>1 DEF CurrentInv, DueInv, Noted
        <4> QED BY <4>2, <4>3, <4>4
      <3> QED BY <3>2, <3>3
    <2> QED BY <2>1, <2>2, <2>3, <2>4, <2>5
  <1>7. CASE start_generation_check
    <2> USE <1>7 DEF start_generation_check, Checking
    <2>1. SettledInv' /\ OpenInv'
      BY DEF SettledInv, OpenInv, HeldInv
    <2>2. QuietInv' /\ OffInv'
      BY DEF QuietInv, OffInv
    <2>3. HeldInv' /\ RetryInv'
      BY Nobody DEF HeldInv, RetryInv, TxInv, EngInv
    <2>4. ReadInv' /\ StartInv'
      BY DEF ReadInv, StartInv, HeldInv
    <2>5. CurrentInv' /\ DueInv'
      BY Nobody DEF CurrentInv, DueInv, Noted, HeldInv, TxInv, EngInv, ActiveInv,
         SettledInv, OpenInv, QuietInv, ReadInv, StartInv, OffInv, RetryInv
    <2> QED BY <2>1, <2>2, <2>3, <2>4, <2>5
  <1>8. CASE start_generation_fails
    <2> USE <1>8 DEF start_generation_fails, PassError
    <2>1. SettledInv' /\ OpenInv'
      BY DEF SettledInv, OpenInv, HeldInv
    <2>2. QuietInv' /\ OffInv'
      BY DEF QuietInv, OffInv
    <2>3. HeldInv' /\ RetryInv'
      BY DEF HeldInv, RetryInv
    <2>4. ReadInv' /\ StartInv'
      BY DEF ReadInv, StartInv, HeldInv
    <2>5. CurrentInv' /\ DueInv'
      BY Failed DEF CurrentInv, DueInv
    <2> QED BY <2>1, <2>2, <2>3, <2>4, <2>5
  <1>9. ~(converge_refused \/ converge_blocked \/ converge_apply_fails)
    BY DEF converge_refused, converge_blocked, converge_apply_fails
  <1> QED BY <1>1, <1>2, <1>3, <1>4, <1>5, <1>6, <1>7, <1>8, <1>9 DEF Converge

\* So does the activation of a generation.
LEMMA ActivationRests ==
    ASSUME Inv, RestInv, Mild,
           Activation
    PROVE  RestInv'
  <1> USE DEF Inv, RestInv, CoreInv, TypeOK, ProcsOK, KernelOK, FlowOK, EngOK, PendOK,
     TxType, TxKind, PlanType, FrameType, KmodType, FlagsType, TimersType, JobType, world,
     budget, procs, kernel, flow, eng, ssid, pend, NoTx, NoFrame, NoPlan, NoFlags,
     NoTimers, ChildKinds, Phase6, Spawning, Between, Converging, Goto, Idle, Fail, Mild,
     RestFaults, RestEvents, Occurs, cancel_engine_work, begin_stop, Stopping
  <1>1. CASE start_phase6
    <2> USE <1>1 DEF start_phase6
    <2>1. SettledInv' /\ OpenInv'
      BY DEF SettledInv, OpenInv, HeldInv
    <2>2. QuietInv' /\ OffInv'
      BY DEF QuietInv, OffInv
    <2>3. HeldInv' /\ RetryInv'
      BY DEF HeldInv, RetryInv
    <2>4. ReadInv' /\ StartInv'
      BY Nobody DEF ReadInv, StartInv, HeldInv, TxInv, EngInv
    <2>5. CurrentInv' /\ DueInv'
      BY Nobody DEF CurrentInv, DueInv, Noted, HeldInv, TxInv, EngInv, ActiveInv,
         SettledInv, OpenInv, QuietInv, ReadInv, StartInv, OffInv, RetryInv
    <2> QED BY <2>1, <2>2, <2>3, <2>4, <2>5
  <1>2. CASE start_phase6_fails
    <2> USE <1>2 DEF start_phase6_fails
    <2>1. SettledInv' /\ OpenInv'
      BY DEF SettledInv, OpenInv, HeldInv
    <2>2. QuietInv' /\ OffInv'
      BY DEF QuietInv, OffInv
    <2>3. HeldInv' /\ RetryInv'
      BY DEF HeldInv, RetryInv
    <2>4. ReadInv' /\ StartInv'
      BY DEF ReadInv, StartInv, HeldInv
    <2>5. CurrentInv' /\ DueInv'
      BY Failed DEF CurrentInv, DueInv
    <2> QED BY <2>1, <2>2, <2>3, <2>4, <2>5
  <1>3. CASE finish_phase6
    <2> USE <1>3 DEF finish_phase6, Controls
    <2>1. SettledInv' /\ OpenInv'
      BY DEF SettledInv, OpenInv, HeldInv
    <2>2. QuietInv' /\ OffInv'
      BY DEF QuietInv, OffInv
    <2>3. HeldInv' /\ RetryInv'
      BY Nobody DEF HeldInv, RetryInv, TxInv, EngInv
    <2>4. ReadInv' /\ StartInv'
      BY Nobody DEF ReadInv, StartInv, HeldInv, TxInv, EngInv
    <2>5. CurrentInv' /\ DueInv'
      BY Nobody DEF CurrentInv, DueInv, Noted, HeldInv, TxInv, EngInv
    <2> QED BY <2>1, <2>2, <2>3, <2>4, <2>5
  <1>4. CASE finish_phase6_fails
    <2> USE <1>4 DEF finish_phase6_fails
    <2>1. SettledInv' /\ OpenInv'
      BY Nobody DEF SettledInv, OpenInv, HeldInv
    <2>2. QuietInv' /\ OffInv'
      BY DEF QuietInv, OffInv
    <2>3. HeldInv' /\ RetryInv'
      BY DEF HeldInv, RetryInv
    <2>4. ReadInv' /\ StartInv'
      BY DEF ReadInv, StartInv, HeldInv
    <2>5. CurrentInv' /\ DueInv'
      BY Failed DEF CurrentInv, DueInv
    <2> QED BY <2>1, <2>2, <2>3, <2>4, <2>5
  <1>5. CASE fail_phase6
    <2> USE <1>5 DEF fail_phase6, publish_inactive
    <2>1. SettledInv' /\ OpenInv'
      BY Nobody DEF SettledInv, OpenInv, HeldInv
    <2>2. QuietInv' /\ OffInv'
      BY DEF QuietInv, OffInv
    <2>3. HeldInv' /\ RetryInv'
      BY DEF HeldInv, RetryInv
    <2>4. ReadInv' /\ StartInv'
      BY Nobody DEF ReadInv, StartInv, HeldInv, TxInv, EngInv
    <2>5. CurrentInv' /\ DueInv'
      BY DEF CurrentInv, DueInv, Noted, HeldInv
    <2> QED BY <2>1, <2>2, <2>3, <2>4, <2>5
  <1> QED BY <1>1, <1>2, <1>3, <1>4, <1>5 DEF Activation

\* So does the check of a candidate, which is not rejected here.
LEMMA CheckRests ==
    ASSUME Inv, RestInv, Mild,
           \/ handle_check_exit \/ CheckRejects
           \/ \E d \in {"timeout", "supervision"} : CheckDisposition(d)
    PROVE  RestInv'
  <1> USE DEF Inv, RestInv, CoreInv, TypeOK, ProcsOK, KernelOK, FlowOK, EngOK, PendOK,
     TxType, TxKind, PlanType, FrameType, KmodType, FlagsType, TimersType, JobType, world,
     budget, procs, kernel, flow, eng, ssid, pend, NoTx, NoFrame, NoPlan, NoFlags,
     NoTimers, ChildKinds, Phase6, Spawning, Between, Converging, Goto, Idle, Fail, Mild,
     RestFaults, RestEvents, Occurs, cancel_engine_work, begin_stop, Stopping
  <1>1. CASE handle_check_exit
    <2> USE <1>1 DEF handle_check_exit, complete_check, publish_inactive
    <2>1. SettledInv' /\ OpenInv'
      BY Nobody DEF SettledInv, OpenInv, HeldInv
    <2>2. QuietInv' /\ OffInv'
      BY DEF QuietInv, OffInv
    <2>3. HeldInv' /\ RetryInv'
      BY Nobody DEF HeldInv, RetryInv, TxInv, EngInv, ActiveInv, SettledInv, OpenInv,
         QuietInv, ReadInv, StartInv, DueInv, OffInv, CurrentInv, Noted
    <2>4. ReadInv' /\ StartInv'
      BY DEF ReadInv, StartInv, HeldInv
    <2>5. CurrentInv' /\ DueInv'
      BY Nobody DEF CurrentInv, DueInv, Noted, HeldInv, TxInv, EngInv
    <2> QED BY <2>1, <2>2, <2>3, <2>4, <2>5
  <1>2. CASE \E d \in {"timeout", "supervision"} : CheckDisposition(d)
    <2> USE <1>2 DEF CheckDisposition, Checking
    <2>1. SettledInv' /\ OpenInv'
      BY DEF SettledInv, OpenInv, HeldInv
    <2>2. QuietInv' /\ OffInv'
      BY DEF QuietInv, OffInv
    <2>3. HeldInv' /\ RetryInv'
      BY DEF HeldInv, RetryInv
    <2>4. ReadInv' /\ StartInv'
      BY DEF ReadInv, StartInv, HeldInv
    <2>5. CurrentInv' /\ DueInv'
      BY Failed DEF CurrentInv, DueInv
    <2> QED BY <2>1, <2>2, <2>3, <2>4, <2>5
  <1>3. ~(CheckRejects)
    BY DEF CheckRejects
  <1> QED BY <1>1, <1>2, <1>3

\* So do the start of a candidate or a recovery and its failure.
LEMMA CandidateRests ==
    ASSUME Inv, RestInv, Mild,
           Candidate
    PROVE  RestInv'
  <1> USE DEF Inv, RestInv, CoreInv, TypeOK, ProcsOK, KernelOK, FlowOK, EngOK, PendOK,
     TxType, TxKind, PlanType, FrameType, KmodType, FlagsType, TimersType, JobType, world,
     budget, procs, kernel, flow, eng, ssid, pend, NoTx, NoFrame, NoPlan, NoFlags,
     NoTimers, ChildKinds, Phase6, Spawning, Between, Converging, Goto, Idle, Fail, Mild,
     RestFaults, RestEvents, Occurs, cancel_engine_work, begin_stop, Stopping
  <1>1. CASE start_candidate
    <2> USE <1>1 DEF start_candidate, Waiting
    <2>1. SettledInv' /\ OpenInv'
      BY Nobody DEF SettledInv, OpenInv, HeldInv, EngInv, FileInv, Prepared
    <2>2. QuietInv' /\ OffInv'
      BY DEF QuietInv, OffInv
    <2>3. HeldInv' /\ RetryInv'
      BY DEF HeldInv, RetryInv
    <2>4. ReadInv' /\ StartInv'
      BY DEF ReadInv, StartInv, HeldInv
    <2>5. CurrentInv' /\ DueInv'
      BY Nobody DEF CurrentInv, DueInv, Noted, HeldInv, TxInv, EngInv
    <2> QED BY <2>1, <2>2, <2>3, <2>4, <2>5
  <1>2. CASE start_candidate_fails
    <2> USE <1>2 DEF start_candidate_fails, PassError
    <2>1. SettledInv' /\ OpenInv'
      BY DEF SettledInv, OpenInv, HeldInv
    <2>2. QuietInv' /\ OffInv'
      BY DEF QuietInv, OffInv
    <2>3. HeldInv' /\ RetryInv'
      BY DEF HeldInv, RetryInv
    <2>4. ReadInv' /\ StartInv'
      BY DEF ReadInv, StartInv, HeldInv
    <2>5. CurrentInv' /\ DueInv'
      BY Failed DEF CurrentInv, DueInv
    <2> QED BY <2>1, <2>2, <2>3, <2>4, <2>5
  <1>3. CASE advance_waiting
    <2> USE <1>3 DEF advance_waiting
    <2>1. SettledInv' /\ OpenInv'
      BY Nobody DEF SettledInv, OpenInv, HeldInv, TxInv, EngInv
    <2>2. QuietInv' /\ OffInv'
      BY DEF QuietInv, OffInv
    <2>3. HeldInv' /\ RetryInv'
      BY Nobody DEF HeldInv, RetryInv, TxInv, EngInv, ActiveInv, SettledInv, OpenInv,
         QuietInv, ReadInv, StartInv, DueInv, OffInv, CurrentInv, Noted
    <2>4. ReadInv' /\ StartInv'
      BY DEF ReadInv, StartInv, HeldInv
    <2>5. CurrentInv' /\ DueInv'
      BY Nobody DEF CurrentInv, DueInv, Noted, HeldInv, TxInv, EngInv
    <2> QED BY <2>1, <2>2, <2>3, <2>4, <2>5
  <1>4. CASE fail_waiting
    <2> USE <1>4 DEF fail_waiting
    <2>1. SettledInv' /\ OpenInv'
      BY DEF SettledInv, OpenInv, HeldInv
    <2>2. QuietInv' /\ OffInv'
      BY DEF QuietInv, OffInv
    <2>3. HeldInv' /\ RetryInv'
      BY Nobody DEF HeldInv, RetryInv, TxInv, EngInv
    <2>4. ReadInv' /\ StartInv'
      BY DEF ReadInv, StartInv, HeldInv
    <2>5. CurrentInv' /\ DueInv'
      BY Failed DEF CurrentInv, DueInv
    <2> QED BY <2>1, <2>2, <2>3, <2>4, <2>5
  <1>5. CASE begin_candidate_failure
    <2> USE <1>5 DEF begin_candidate_failure, Waiting
    <2>1. SettledInv' /\ OpenInv'
      BY Nobody DEF SettledInv, OpenInv, HeldInv, EngInv, Child
    <2>2. QuietInv' /\ OffInv'
      BY DEF QuietInv, OffInv
    <2>3. HeldInv' /\ RetryInv'
      BY DEF HeldInv, RetryInv
    <2>4. ReadInv' /\ StartInv'
      BY DEF ReadInv, StartInv, HeldInv
    <2>5. CurrentInv' /\ DueInv'
      BY DEF CurrentInv, DueInv, Noted, HeldInv
    <2> QED BY <2>1, <2>2, <2>3, <2>4, <2>5
  <1>6. CASE begin_candidate_failure_fails
    <2> USE <1>6 DEF begin_candidate_failure_fails
    <2>1. SettledInv' /\ OpenInv'
      BY DEF SettledInv, OpenInv, HeldInv
    <2>2. QuietInv' /\ OffInv'
      BY DEF QuietInv, OffInv
    <2>3. HeldInv' /\ RetryInv'
      BY DEF HeldInv, RetryInv
    <2>4. ReadInv' /\ StartInv'
      BY DEF ReadInv, StartInv, HeldInv
    <2>5. CurrentInv' /\ DueInv'
      BY Failed DEF CurrentInv, DueInv
    <2> QED BY <2>1, <2>2, <2>3, <2>4, <2>5
  <1> QED BY <1>1, <1>2, <1>3, <1>4, <1>5, <1>6 DEF Candidate

\* So do a stop and what follows the exit of a child.
LEMMA StopRests ==
    ASSUME Inv, RestInv, Mild,
           Stop
    PROVE  RestInv'
  <1> USE DEF Inv, RestInv, CoreInv, TypeOK, ProcsOK, KernelOK, FlowOK, EngOK, PendOK,
     TxType, TxKind, PlanType, FrameType, KmodType, FlagsType, TimersType, JobType, world,
     budget, procs, kernel, flow, eng, ssid, pend, NoTx, NoFrame, NoPlan, NoFlags,
     NoTimers, ChildKinds, Phase6, Spawning, Between, Converging, Goto, Idle, Fail, Mild,
     RestFaults, RestEvents, Occurs, cancel_engine_work, begin_stop, Stopping
  <1>1. CASE complete_stopped
    <2> USE <1>1 DEF complete_stopped
    <2>1. SettledInv' /\ OpenInv'
      BY Nobody DEF SettledInv, OpenInv, HeldInv
    <2>2. QuietInv' /\ OffInv'
      BY DEF QuietInv, OffInv
    <2>3. HeldInv' /\ RetryInv'
      BY DEF HeldInv, RetryInv
    <2>4. ReadInv' /\ StartInv'
      BY DEF ReadInv, StartInv, HeldInv
    <2>5. CurrentInv' /\ DueInv'
      BY Nobody DEF CurrentInv, DueInv, Noted, HeldInv, TxInv, EngInv
    <2> QED BY <2>1, <2>2, <2>3, <2>4, <2>5
  <1>2. CASE StopKill
    <2> USE <1>2 DEF StopKill
    <2>1. SettledInv' /\ OpenInv'
      BY DEF SettledInv, OpenInv, HeldInv
    <2>2. QuietInv' /\ OffInv'
      BY DEF QuietInv, OffInv
    <2>3. HeldInv' /\ RetryInv'
      BY DEF HeldInv, RetryInv
    <2>4. ReadInv' /\ StartInv'
      BY DEF ReadInv, StartInv, HeldInv
    <2>5. CurrentInv' /\ DueInv'
      BY DEF CurrentInv, DueInv, Noted, HeldInv
    <2> QED BY <2>1, <2>2, <2>3, <2>4, <2>5
  <1>3. CASE stop_confirmation_failed
    <2> USE <1>3 DEF stop_confirmation_failed
    <2>1. SettledInv' /\ OpenInv'
      BY Nobody DEF SettledInv, OpenInv, HeldInv, TxInv, EngInv
    <2>2. QuietInv' /\ OffInv'
      BY DEF QuietInv, OffInv
    <2>3. HeldInv' /\ RetryInv'
      BY Nobody DEF HeldInv, RetryInv, TxInv, EngInv
    <2>4. ReadInv' /\ StartInv'
      BY DEF ReadInv, StartInv, HeldInv
    <2>5. CurrentInv' /\ DueInv'
      BY Failed DEF CurrentInv, DueInv
    <2> QED BY <2>1, <2>2, <2>3, <2>4, <2>5
  <1>4. CASE finish_cancelled
    <2> USE <1>4 DEF finish_cancelled, Controls
    <2>1. SettledInv' /\ OpenInv'
      BY Nobody DEF SettledInv, OpenInv, HeldInv
    <2>2. QuietInv' /\ OffInv'
      BY DEF QuietInv, OffInv
    <2>3. HeldInv' /\ RetryInv'
      BY Nobody DEF HeldInv, RetryInv, TxInv, EngInv
    <2>4. ReadInv' /\ StartInv'
      BY DEF ReadInv, StartInv, HeldInv
    <2>5. CurrentInv' /\ DueInv'
      BY DEF CurrentInv, DueInv, Noted, HeldInv
    <2> QED BY <2>1, <2>2, <2>3, <2>4, <2>5
  <1>5. CASE finish_transaction_error
    <2> USE <1>5 DEF finish_transaction_error, Controls
    <2>1. SettledInv' /\ OpenInv'
      BY DEF SettledInv, OpenInv, HeldInv
    <2>2. QuietInv' /\ OffInv'
      BY DEF QuietInv, OffInv
    <2>3. HeldInv' /\ RetryInv'
      BY Nobody DEF HeldInv, RetryInv, TxInv, EngInv
    <2>4. ReadInv' /\ StartInv'
      BY Nobody DEF ReadInv, StartInv, HeldInv, TxInv, EngInv, ActiveInv, SettledInv,
         OpenInv, QuietInv, DueInv, OffInv, RetryInv, CurrentInv, Noted
    <2>5. CurrentInv' /\ DueInv'
      BY DEF CurrentInv, DueInv, Noted, HeldInv
    <2> QED BY <2>1, <2>2, <2>3, <2>4, <2>5
  <1>6. CASE handle_engine_exit
    <2> USE <1>6 DEF handle_engine_exit, publish_inactive
    <2>1. SettledInv' /\ OpenInv'
      BY Nobody DEF SettledInv, OpenInv, HeldInv
    <2>2. QuietInv' /\ OffInv'
      BY ExitedPhase DEF QuietInv, OffInv
    <2>3. HeldInv' /\ RetryInv'
      BY DEF HeldInv, RetryInv
    <2>4. ReadInv' /\ StartInv'
      BY DEF ReadInv, StartInv, HeldInv
    <2>5. CurrentInv' /\ DueInv'
      BY DEF CurrentInv, DueInv, Noted, HeldInv
    <2> QED BY <2>1, <2>2, <2>3, <2>4, <2>5
  <1> QED BY <1>1, <1>2, <1>3, <1>4, <1>5, <1>6 DEF Stop

\* So does the world, in which the switch and Wi-Fi stay as they are.
LEMMA WorldRests ==
    ASSUME Inv, RestInv, Mild,
           World
    PROVE  RestInv'
  <1> USE DEF Inv, RestInv, CoreInv, TypeOK, ProcsOK, KernelOK, FlowOK, EngOK, PendOK,
     TxType, TxKind, PlanType, FrameType, KmodType, FlagsType, TimersType, JobType, world,
     budget, procs, kernel, flow, eng, ssid, pend, NoTx, NoFrame, NoPlan, NoFlags,
     NoTimers, ChildKinds, Phase6, Spawning, Between, Converging, Goto, Idle, Fail, Mild,
     RestFaults, RestEvents, Occurs, cancel_engine_work, begin_stop, Stopping
  <1>1. CASE EditConfig
    <2> USE <1>1 DEF EditConfig
    <2>1. SettledInv' /\ OpenInv'
      BY DEF SettledInv, OpenInv, HeldInv
    <2>2. QuietInv' /\ OffInv'
      BY DEF QuietInv, OffInv
    <2>3. HeldInv' /\ RetryInv'
      BY DEF HeldInv, RetryInv
    <2>4. ReadInv' /\ StartInv'
      BY DEF ReadInv, StartInv, HeldInv
    <2>5. CurrentInv' /\ DueInv'
      BY DEF CurrentInv, DueInv, Noted, HeldInv
    <2> QED BY <2>1, <2>2, <2>3, <2>4, <2>5
  <1>2. CASE ReactorCrash
    <2> USE <1>2 DEF ReactorCrash, Closed
    <2>1. SettledInv' /\ OpenInv'
      BY Nobody DEF SettledInv, OpenInv, HeldInv
    <2>2. QuietInv' /\ OffInv'
      BY DEF QuietInv, OffInv, Off
    <2>3. HeldInv' /\ RetryInv'
      BY DEF HeldInv, RetryInv
    <2>4. ReadInv' /\ StartInv'
      BY DEF ReadInv, StartInv, HeldInv
    <2>5. CurrentInv' /\ DueInv'
      BY Failed DEF CurrentInv, DueInv
    <2> QED BY <2>1, <2>2, <2>3, <2>4, <2>5
  <1>3. CASE \E c \in alive : Exit(c)
    <2> USE <1>3 DEF Exit
    <2>1. SettledInv' /\ OpenInv'
      BY Nobody DEF SettledInv, OpenInv, HeldInv
    <2>2. QuietInv' /\ OffInv'
      BY DEF QuietInv, OffInv
    <2>3. HeldInv' /\ RetryInv'
      BY DEF HeldInv, RetryInv
    <2>4. ReadInv' /\ StartInv'
      BY DEF ReadInv, StartInv, HeldInv
    <2>5. CurrentInv' /\ DueInv'
      BY Failed DEF CurrentInv, DueInv, Noted, HeldInv, TxInv, EngInv
    <2> QED BY <2>1, <2>2, <2>3, <2>4, <2>5
  <1>4. ~(ToggleSwitch \/ Roam)
    BY DEF ToggleSwitch, Roam
  <1> QED BY <1>1, <1>2, <1>3, <1>4 DEF World

\* So do the handlers and functions that do not go through the planner.
LEMMA FlowRests ==
    ASSUME Inv, RestInv, Mild,
           \/ handle_rtnetlink \/ handle_subscription_result \/ handle_inotify_config
           \/ ExitProcess \/ Return \/ request_shutdown \/ deactivate_runtime
           \/ run_queued_convergence
    PROVE  RestInv'
  <1> USE DEF Inv, RestInv, CoreInv, TypeOK, ProcsOK, KernelOK, FlowOK, EngOK, PendOK,
     TxType, TxKind, PlanType, FrameType, KmodType, FlagsType, TimersType, JobType, world,
     budget, procs, kernel, flow, eng, ssid, pend, NoTx, NoFrame, NoPlan, NoFlags,
     NoTimers, ChildKinds, Phase6, Spawning, Between, Converging, Goto, Idle, Fail, Mild,
     RestFaults, RestEvents, Occurs, cancel_engine_work, begin_stop, Stopping
  <1>1. CASE handle_rtnetlink
    <2> USE <1>1 DEF handle_rtnetlink
    <2>1. SettledInv' /\ OpenInv'
      BY DEF SettledInv, OpenInv, HeldInv
    <2>2. QuietInv' /\ OffInv'
      BY DEF QuietInv, OffInv
    <2>3. HeldInv' /\ RetryInv'
      BY DEF HeldInv, RetryInv
    <2>4. ReadInv' /\ StartInv'
      BY DEF ReadInv, StartInv, HeldInv
    <2>5. CurrentInv' /\ DueInv'
      BY DEF CurrentInv, DueInv, Noted, HeldInv
    <2> QED BY <2>1, <2>2, <2>3, <2>4, <2>5
  <1>2. CASE handle_subscription_result
    <2> USE <1>2 DEF handle_subscription_result
    <2>1. SettledInv' /\ OpenInv'
      BY DEF SettledInv, OpenInv, HeldInv
    <2>2. QuietInv' /\ OffInv'
      BY DEF QuietInv, OffInv
    <2>3. HeldInv' /\ RetryInv'
      BY DEF HeldInv, RetryInv
    <2>4. ReadInv' /\ StartInv'
      BY DEF ReadInv, StartInv, HeldInv
    <2>5. CurrentInv' /\ DueInv'
      BY DEF CurrentInv, DueInv, Noted, HeldInv
    <2> QED BY <2>1, <2>2, <2>3, <2>4, <2>5
  <1>3. CASE handle_inotify_config
    <2> USE <1>3 DEF handle_inotify_config
    <2>1. SettledInv' /\ OpenInv'
      BY DEF SettledInv, OpenInv, HeldInv
    <2>2. QuietInv' /\ OffInv'
      BY DEF QuietInv, OffInv
    <2>3. HeldInv' /\ RetryInv'
      BY DEF HeldInv, RetryInv
    <2>4. ReadInv' /\ StartInv'
      BY DEF ReadInv, StartInv, HeldInv
    <2>5. CurrentInv' /\ DueInv'
      BY DEF CurrentInv, DueInv, Noted, HeldInv
    <2> QED BY <2>1, <2>2, <2>3, <2>4, <2>5
  <1>4. CASE ExitProcess
    <2> USE <1>4 DEF ExitProcess, Closed
    <2>1. SettledInv' /\ OpenInv'
      BY Nobody DEF SettledInv, OpenInv, HeldInv
    <2>2. QuietInv' /\ OffInv'
      BY DEF QuietInv, OffInv
    <2>3. HeldInv' /\ RetryInv'
      BY DEF HeldInv, RetryInv
    <2>4. ReadInv' /\ StartInv'
      BY DEF ReadInv, StartInv, HeldInv
    <2>5. CurrentInv' /\ DueInv'
      BY DEF CurrentInv, DueInv, Noted, HeldInv
    <2> QED BY <2>1, <2>2, <2>3, <2>4, <2>5
  <1>5. CASE Return
    <2> USE <1>5 DEF Return, convergence_busy
    <2>1. SettledInv' /\ OpenInv'
      BY Nobody DEF SettledInv, OpenInv, HeldInv
    <2>2. QuietInv' /\ OffInv'
      BY DEF QuietInv, OffInv, phase, observe, Off
    <2>3. HeldInv' /\ RetryInv'
      BY DEF HeldInv, RetryInv
    <2>4. ReadInv' /\ StartInv'
      BY DEF ReadInv, StartInv, HeldInv
    <2>5. CurrentInv' /\ DueInv'
      BY DEF CurrentInv, DueInv, Noted, HeldInv
    <2> QED BY <2>1, <2>2, <2>3, <2>4, <2>5
  <1>6. CASE request_shutdown
    <2> USE <1>6 DEF request_shutdown, publish_inactive, OldFile
    <2>1. SettledInv' /\ OpenInv'
      BY Nobody DEF SettledInv, OpenInv, HeldInv
    <2>2. QuietInv' /\ OffInv'
      BY DEF QuietInv, OffInv
    <2>3. HeldInv' /\ RetryInv'
      BY DEF HeldInv, RetryInv
    <2>4. ReadInv' /\ StartInv'
      BY DEF ReadInv, StartInv, HeldInv
    <2>5. CurrentInv' /\ DueInv'
      BY DEF CurrentInv, DueInv, Noted, HeldInv
    <2> QED BY <2>1, <2>2, <2>3, <2>4, <2>5
  <1>7. CASE deactivate_runtime
    <2> USE <1>7 DEF deactivate_runtime, Closed, OldFile
    <2>1. SettledInv' /\ OpenInv'
      BY Nobody DEF SettledInv, OpenInv, HeldInv
    <2>2. QuietInv' /\ OffInv'
      BY DEF QuietInv, OffInv
    <2>3. HeldInv' /\ RetryInv'
      BY DEF HeldInv, RetryInv
    <2>4. ReadInv' /\ StartInv'
      BY DEF ReadInv, StartInv, HeldInv
    <2>5. CurrentInv' /\ DueInv'
      BY DEF CurrentInv, DueInv, Noted, HeldInv
    <2> QED BY <2>1, <2>2, <2>3, <2>4, <2>5
  <1>8. CASE run_queued_convergence
    <2> USE <1>8 DEF run_queued_convergence
    <2>1. SettledInv' /\ OpenInv'
      BY DEF SettledInv, OpenInv, HeldInv
    <2>2. QuietInv' /\ OffInv'
      BY DEF QuietInv, OffInv
    <2>3. HeldInv' /\ RetryInv'
      BY DEF HeldInv, RetryInv
    <2>4. ReadInv' /\ StartInv'
      BY DEF ReadInv, StartInv, HeldInv
    <2>5. CurrentInv' /\ DueInv'
      BY DEF CurrentInv, DueInv, Noted, HeldInv
    <2> QED BY <2>1, <2>2, <2>3, <2>4, <2>5
  <1> QED BY <1>1, <1>2, <1>3, <1>4, <1>5, <1>6, <1>7, <1>8

\* So does the start of the reactor.
LEMMA RunRests ==
    ASSUME Inv, RestInv, run
    PROVE  RestInv'
  <1> USE DEF run, RestInv, procs, kernel, eng, pend, ssid, world, budget, Between, Phase6,
              Spawning, Converging
  <1>1. CASE disabled
    <2>1. pc' = "deactivate_runtime"
      BY <1>1
    <2> QED
      BY <1>1, <2>1 DEF SettledInv, QuietInv, OffInv, HeldInv, OpenInv, RetryInv, ReadInv,
         StartInv, CurrentInv, DueInv, Noted
  <1>2. CASE ~disabled
    <2>1. phase = "Inactive"
      <3>1. /\ ~disabled /\ ~shutdown /\ ~paused /\ engine = NoChild /\ role = "none"
            /\ ~convergence_busy
        BY <1>2 DEF StartInv, convergence_busy, NoTx
      <3> QED BY <3>1 DEF phase, observe
    <2>2. step("Inactive", "Bootstrap") = With("Inactive", {"AttemptActivation"})
      BY DEF step, UnlessOff, Off, Running
    <2>3. Target("Bootstrap", {"AttemptActivation"}) = "converge"
      BY DEF Target, NeedsConverge
    <2>4. pc' = "converge" /\ planner' = "Inactive"
      BY <1>2, <2>1, <2>2, <2>3 DEF With
    <2>5. (SettledInv /\ QuietInv /\ OffInv /\ HeldInv /\ OpenInv)'
      BY <2>4 DEF SettledInv, QuietInv, OffInv, Off, HeldInv, OpenInv
    <2>6. (RetryInv /\ ReadInv /\ StartInv /\ CurrentInv /\ DueInv)'
      BY <2>4 DEF RetryInv, ReadInv, StartInv, CurrentInv, DueInv, Noted
    <2> QED BY <2>5, <2>6
  <1> QED BY <1>1, <1>2

\* So do the events that go through the planner.
LEMMA PlannerRests ==
    ASSUME Inv, RestInv, Mild,
           \/ Sighup \/ Sigterm \/ \E off \in BOOLEAN : RequestSwitch(off)
           \/ RequestReload \/ RequestStop \/ handle_inotify_switch \/ handle_nl80211
           \/ DebounceExpired \/ BackoffExpired
    PROVE  RestInv'
  <1> USE DEF eng, pend, ssid, world, budget
  <1>1. CASE Sighup
    <2>1. flags'.wifi = flags.wifi /\ flags'.engine = flags.engine
      BY <1>1 DEF Sighup, Inv, TypeOK, PendOK, FlagsType
    <2> QED BY <1>1, <2>1, StimulusRests DEF Sighup, Occurs
  <1>2. CASE Sigterm
    BY <1>2, StimulusRests DEF Sigterm, Occurs
  <1>3. CASE RequestReload
    <2>1. flags'.wifi = flags.wifi /\ flags'.engine = flags.engine
      BY <1>3 DEF RequestReload, Inv, TypeOK, PendOK, FlagsType
    <2> QED BY <1>3, <2>1, StimulusRests DEF RequestReload, Occurs
  <1>4. CASE RequestStop
    BY <1>4, StimulusRests DEF RequestStop, Occurs
  <1>5. CASE DebounceExpired
    BY <1>5, StimulusRests DEF DebounceExpired, RestInv, QuietInv
  <1>6. CASE BackoffExpired
    <2>1. CASE shutdown \/ disabled
      <3>1. /\ cancel_engine_work /\ pc = "idle" /\ pc' = "ret"
            /\ timers' = [timers EXCEPT !.backoff = FALSE]
            /\ UNCHANGED <<world, kernel, planner, shutdown, paused, flags, job>>
        BY <1>6, <2>1 DEF BackoffExpired, Idle
      <3> HIDE <1>6
      <3> USE <2>1, <3>1 DEF cancel_engine_work, begin_stop, Stopping, OldFile, kernel, Inv,
              CoreInv, RestInv, HeldInv, TypeOK, EngOK, PendOK, ProcsOK, TxType, TxKind,
              TimersType, NoTx, Between, Phase6, Spawning, Converging, ChildKinds
      <3>2. SettledInv' /\ OpenInv'
        BY Nobody DEF SettledInv, OpenInv
      <3>3. QuietInv' /\ OffInv' /\ HeldInv'
        BY DEF QuietInv, OffInv
      <3>4. RetryInv' /\ ReadInv' /\ StartInv'
        BY DEF RetryInv, ReadInv, StartInv
      <3>5. CurrentInv' /\ DueInv'
        BY DEF CurrentInv, DueInv, Noted
      <3> QED BY <3>2, <3>3, <3>4, <3>5
    <2>2. CASE ~(shutdown \/ disabled)
      BY <1>6, <2>2, StimulusRests DEF BackoffExpired
    <2> QED BY <2>1, <2>2
  <1>7. ~ \E off \in BOOLEAN : RequestSwitch(off)
    BY DEF RequestSwitch, Occurs, Mild, RestEvents
  <1>8. ~(handle_inotify_switch \/ handle_nl80211)
    BY DEF handle_inotify_switch, handle_nl80211, RestInv, QuietInv
  <1> QED BY <1>1, <1>2, <1>3, <1>4, <1>5, <1>6, <1>7, <1>8

-----------------------------------------------------------------------------
(* The theorem *)

\* The invariant holds when the daemon starts.
LEMMA InitRests == Init => RestInv
  <1> SUFFICES ASSUME Init PROVE RestInv
    OBVIOUS
  <1> USE DEF Init, NoFlags, NoTx, Between, Phase6, Spawning, Converging, ChildKinds
  <1>1. SettledInv /\ QuietInv /\ OffInv /\ HeldInv /\ OpenInv
    BY DEF SettledInv, QuietInv, OffInv, Off, HeldInv, OpenInv
  <1>2. RetryInv /\ ReadInv /\ StartInv /\ CurrentInv /\ DueInv
    BY DEF RetryInv, ReadInv, StartInv, CurrentInv, DueInv
  <1> QED BY <1>1, <1>2 DEF RestInv

\* Every step keeps it.
LEMMA NextRests == Mild /\ Inv /\ RestInv /\ [Next]_vars => RestInv'
  <1> SUFFICES ASSUME Mild, Inv, RestInv, [Next]_vars PROVE RestInv'
    OBVIOUS
  <1>1. CASE Next
    BY <1>1, ConvergeRests, ActivationRests, CheckRests, CandidateRests, StopRests,
       WorldRests, FlowRests, RunRests, PlannerRests
       DEF Next, Call, CallFails, Engine, EngineFails, Inotify, Command, Converge, Activation,
           Candidate, Stop
  <1>2. CASE UNCHANGED vars
    <2> USE <1>2 DEF RestInv, vars, world, budget, procs, kernel, flow, eng, ssid, pend
    <2>1. (SettledInv /\ QuietInv /\ OffInv /\ HeldInv /\ OpenInv)'
      BY DEF SettledInv, QuietInv, OffInv, HeldInv, OpenInv
    <2>2. (RetryInv /\ ReadInv /\ StartInv)'
      BY DEF RetryInv, ReadInv, StartInv
    <2>3. (CurrentInv /\ DueInv)'
      BY DEF CurrentInv, DueInv, Noted
    <2> QED BY <2>1, <2>2, <2>3
  <1> QED BY <1>1, <1>2

\* Where the switch and Wi-Fi stay as they are and every failure is a retryable one, a
\* reactor that has nothing left to react to has an active engine if the configuration
\* on disk is usable beside every other (validate_fakeip_bypass drops one that is not,
\* without a retry), and the engine runs that configuration if nothing failed: no such
\* failure at any point and no edit in the middle of a transaction is lost, however
\* many there are (finish_transaction_error, run_queued_convergence, handle_inotify).
THEOREM RestConverges ==
    ASSUME Events \subseteq RestEvents, Faults \subseteq RestFaults
    PROVE  Spec => []RestIsConverged
  <1>1. Mild
    BY DEF Mild
  <1>2. Inv /\ RestInv => RestIsConverged
    <2> SUFFICES ASSUME Inv, RestInv, Quiescent, ~paused, Usable(disk)
                 PROVE  phase = "Active" /\ (failures = MaxFailures => engine.user = disk)
      BY DEF RestIsConverged, QuiescentIsActive, QuiescentIsCurrent
    <2> USE DEF Quiescent, Idle, RestInv, Inv
    <2>1. tx = NoTx /\ role = "none" /\ pc = "idle"
      BY DEF convergence_busy, CoreInv, TxInv, TypeOK, EngOK, TxType, TxKind
    <2>2. engine # NoChild
      BY <2>1 DEF StartInv
    <2>3. ~cancel
      BY DEF HeldInv
    <2>4. active
      BY <2>1, <2>2, <2>3 DEF SettledInv
    <2>5. phase = "Active"
      BY <2>1, <2>2, <2>4 DEF phase, observe
    <2>6. failures = MaxFailures => engine.user = disk
      BY <2>1, <2>2 DEF CurrentInv, DueInv, Noted
    <2> QED BY <2>5, <2>6
  <1> QED BY <1>1, <1>2, InitRests, NextRests, Invariance, PTL DEF Spec
=============================================================================
