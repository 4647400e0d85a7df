-------------------------- MODULE SupervisorProofs --------------------------
(***************************************************************************)
(* For any number of `fluxd daemon` and `fluxd stop` invocations, signals    *)
(* and crashes: one reactor at most is past the instance lock, a supervisor *)
(* that returns leaves no process behind, and competing starts do not drive *)
(* each other out.                                                          *)
(***************************************************************************)
EXTENDS Supervisor, TLAPS

\* The flock is with the process whose code is past InstanceLock::acquire, or with
\* the probe of `fluxd stop`.
LockInv ==
    /\ \A s \in Sup : reactor[s] \in Holding <=> lock = s
    /\ lock = Probe <=> cli = "probing"

\* A process without a supervisor that waits for it is the orphan of a killed one.
ChildInv ==
    \A s \in Sup :
        /\ left[s] # "no" => spc[s] = "gone"
        /\ spc[s] # "wait" /\ left[s] # "killed" => reactor[s] = "none"

Inv == TypeOK /\ LockInv /\ ChildInv

\* What one supervisor and its reactor do leaves the others alone, as far as the
\* invariant looks: the facts each action establishes for its own supervisor.
Touches(s) ==
    /\ \A t \in Sup \ {s} : spc'[t] = spc[t] /\ left'[t] = left[t] /\ reactor'[t] = reactor[t]
    /\ lock' = lock \/ (lock = s /\ lock' = Nobody) \/ (lock = Nobody /\ lock' = s)
    /\ reactor'[s] \in Holding <=> lock' = s
    /\ cli' = cli
    /\ left'[s] # "no" => spc'[s] = "gone"
    /\ spc'[s] # "wait" /\ left'[s] # "killed" => reactor'[s] = "none"

\* A step that touches one supervisor only preserves the invariant.
LEMMA TouchesKeeps ==
    ASSUME Inv, TypeOK', NEW s \in Sup, Touches(s)
    PROVE  Inv'
  BY HolderAssumption DEF Inv, LockInv, ChildInv, Touches

\* Initially nothing runs and the lock is free.
LEMMA InitEstablishes == Init => Inv
  BY SupervisorAssumption, HolderAssumption
  DEF Init, Inv, TypeOK, LockInv, ChildInv, Holding, Alive, Supervising

\* The steps of a reactor process: it takes the lock, or ends and loses it.
LEMMA ReactorSteps ==
    ASSUME Inv, NEW s \in Sup, Reactors(s) \/ Finish(s) \/ Dies(s)
    PROVE  Inv'
  <1> USE SupervisorAssumption, HolderAssumption DEF Holding, Alive, Supervising
  <1>1. TypeOK'
    BY DEF Inv, TypeOK, Reactors, Acquire, Ready, Finish, Dies, Ends, Crashes, sups, budget
  <1>2. Touches(s)
    BY DEF Inv, TypeOK, LockInv, ChildInv, Touches, Reactors, Acquire, Ready, Finish, Dies, Ends,
           Crashes, sups, budget
  <1> QED BY <1>1, <1>2, TouchesKeeps

\* The steps of a supervisor that start a reactor or wait.
LEMMA SpawnSteps ==
    ASSUME Inv, NEW s \in Sup,
           Invoke(s) \/ spawn_reactor(s) \/ spawn_fails(s) \/ backoff_expires(s)
    PROVE  Inv'
  <1> USE SupervisorAssumption, HolderAssumption DEF Holding, Alive, Supervising
  <1>1. TypeOK'
    <2>1. CASE spawn_fails(s)
      <3>1. sig' \in [Sup -> SUBSET {"CHLD", "TERM", "HUP"}]
        BY <2>1 DEF Inv, TypeOK, spawn_fails
      <3>2. spc' \in [Sup -> {"new", "gone"} \cup Supervising]
        BY <2>1 DEF Inv, TypeOK, spawn_fails
      <3>3. signals' = signals /\ stops' = stops /\ crashes' \in 0..MaxCrashes
        BY <2>1 DEF Inv, TypeOK, spawn_fails, Crashes
      <3> QED BY <2>1, <3>1, <3>2, <3>3 DEF Inv, TypeOK, spawn_fails
    <2>2. CASE Invoke(s) \/ spawn_reactor(s) \/ backoff_expires(s)
      BY <2>2 DEF Inv, TypeOK, Invoke, spawn_reactor, backoff_expires, budget
    <2> QED BY <2>1, <2>2
  <1>2. Touches(s)
    BY DEF Inv, TypeOK, LockInv, ChildInv, Touches, Invoke, spawn_reactor, spawn_fails,
           backoff_expires
  <1> QED BY <1>1, <1>2, TouchesKeeps

\* The steps that reap a reactor, kill it or lose it.
LEMMA ReapSteps ==
    ASSUME Inv, NEW s \in Sup, take_chld(s) \/ force_stop(s) \/ SupervisorDies(s)
    PROVE  Inv'
  <1> USE SupervisorAssumption, HolderAssumption DEF Holding, Alive, Supervising
  <1>1. CASE take_chld(s)
    <2>1. TypeOK'
      BY <1>1 DEF Inv, TypeOK, take_chld, decide_reactor_outcome, budget
    <2>2. Touches(s)
      BY <1>1 DEF Inv, TypeOK, LockInv, ChildInv, Touches, take_chld, decide_reactor_outcome
    <2> QED BY <2>1, <2>2, TouchesKeeps
  <1>2. CASE force_stop(s)
    <2>1. TypeOK'
      BY <1>2 DEF Inv, TypeOK, force_stop, decide_reactor_outcome, budget
    <2>2. Touches(s)
      BY <1>2 DEF Inv, TypeOK, LockInv, ChildInv, Touches, force_stop, decide_reactor_outcome
    <2> QED BY <2>1, <2>2, TouchesKeeps
  <1>3. CASE SupervisorDies(s)
    <2>1. TypeOK'
      BY <1>3 DEF Inv, TypeOK, SupervisorDies, Crashes
    <2>2. Touches(s)
      BY <1>3 DEF Inv, TypeOK, LockInv, ChildInv, Touches, SupervisorDies
    <2> QED BY <2>1, <2>2, TouchesKeeps
  <1> QED BY <1>1, <1>2, <1>3

\* Signals: sent by users, forwarded to the reactor, taken during a backoff.
LEMMA SignalSteps ==
    ASSUME Inv, NEW s \in Sup, NEW x \in {"CHLD", "HUP", "TERM"},
           Signal(s, x) \/ take_term(s) \/ take_hup(s) \/ wait_backoff(s, x)
    PROVE  Inv'
  <1> USE SupervisorAssumption, HolderAssumption DEF Holding, Alive, Supervising
  <1>1. CASE Signal(s, x)
    <2>1. TypeOK'
      BY <1>1 DEF Inv, TypeOK, Signal, sups
    <2>2. Touches(s)
      BY <1>1 DEF Inv, TypeOK, LockInv, ChildInv, Touches, Signal, sups
    <2> QED BY <2>1, <2>2, TouchesKeeps
  <1>2. CASE take_term(s)
    <2>1. TypeOK'
      BY <1>2 DEF Inv, TypeOK, take_term, Forward, Ends, budget
    <2>2. Touches(s)
      BY <1>2 DEF Inv, TypeOK, LockInv, ChildInv, Touches, take_term, Forward, Ends
    <2> QED BY <2>1, <2>2, TouchesKeeps
  <1>3. CASE take_hup(s)
    <2>1. TypeOK'
      BY <1>3 DEF Inv, TypeOK, take_hup, Forward, Ends, sups, budget
    <2>2. Touches(s)
      BY <1>3 DEF Inv, TypeOK, LockInv, ChildInv, Touches, take_hup, Forward, Ends, sups
    <2> QED BY <2>1, <2>2, TouchesKeeps
  <1>4. CASE wait_backoff(s, x)
    <2>1. TypeOK'
      BY <1>4 DEF Inv, TypeOK, wait_backoff, budget
    <2>2. Touches(s)
      BY <1>4 DEF Inv, TypeOK, LockInv, ChildInv, Touches, wait_backoff
    <2> QED BY <2>1, <2>2, TouchesKeeps
  <1> QED BY <1>1, <1>2, <1>3, <1>4

\* `fluxd stop` asks a reactor, or takes the lock while it is free.
LEMMA StopSteps ==
    ASSUME Inv, (\E s \in Sup : StopRequest(s)) \/ instance_lock_held \/ StopExits
    PROVE  Inv'
  <1> USE SupervisorAssumption, HolderAssumption DEF Holding, Alive, Supervising
  <1>1. ASSUME NEW s \in Sup, StopRequest(s) PROVE Inv'
    <2>1. TypeOK'
      BY <1>1 DEF Inv, TypeOK, StopRequest, Asked, sups
    <2>2. Touches(s)
      BY <1>1 DEF Inv, TypeOK, LockInv, ChildInv, Touches, StopRequest, sups
    <2> QED BY <2>1, <2>2, TouchesKeeps
  <1>2. CASE instance_lock_held
    BY <1>2 DEF Inv, TypeOK, LockInv, ChildInv, instance_lock_held, Asked, sups
  <1>3. CASE StopExits
    <2>1. TypeOK'
      BY <1>3 DEF Inv, TypeOK, StopExits, sups, budget
    <2>2. lock \notin Sup
      BY <1>3 DEF Inv, LockInv, StopExits
    <2> QED BY <1>3, <2>1, <2>2 DEF Inv, LockInv, ChildInv, StopExits, sups
  <1> QED BY <1>1, <1>2, <1>3

\* Inv is an invariant of the processes.
THEOREM SupervisionInvariance == Spec => []Inv
  <1>1. ASSUME Inv, [Next]_vars PROVE Inv'
    <2>1. CASE UNCHANGED vars
      BY <1>1, <2>1 DEF Inv, TypeOK, LockInv, ChildInv, vars
    <2>2. CASE Next
      BY <1>1, <2>2, ReactorSteps, SpawnSteps, ReapSteps, SignalSteps, StopSteps DEF Next, Waits
    <2> QED BY <1>1, <2>1, <2>2
  <1> QED BY <1>1, InitEstablishes, PTL DEF Spec

\* Of any number of daemons, started, killed and restarted in any order, at most one
\* reactor is past the instance lock.
THEOREM AtMostOneInstance == Spec => []OneInstance
  <1>1. Inv => OneInstance
    BY HolderAssumption DEF Inv, LockInv, OneInstance
  <1> QED BY <1>1, SupervisionInvariance, PTL

\* A supervisor that returns has reaped its reactor.
THEOREM NothingAbandoned == Spec => []NoneAbandoned
  <1>1. Inv => NoneAbandoned
    BY DEF Inv, ChildInv, NoneAbandoned
  <1> QED BY <1>1, SupervisionInvariance, PTL

\* Every variable keeps to its kind, whatever the numbers of daemons, signals and crashes.
THEOREM TypeCorrect == Spec => []TypeOK
  BY SupervisionInvariance, PTL DEF Inv

-----------------------------------------------------------------------------
(* Nobody is driven out by a daemon that does not serve. *)

\* A supervisor that looks after Flux, or has left for a reason of its own.  One whose
\* reactor found the lock held is on its way out and does not count.
Serves(t) ==
    \/ left[t] \in {"ok", "stopped", "killed"}
    \/ spc[t] \in Supervising /\ outcome[t] # "held"

\* What SomeoneServes needs of earlier steps: a live reactor has no outcome yet, the
\* outcome `held' outlives the supervisor that left with it, and until `fluxd stop'
\* is run no probe has the lock.
ServeInv ==
    /\ stops = MaxStops => cli = "idle"
    /\ \A s \in Sup : reactor[s] \in Alive => outcome[s] = "none"
    /\ \A s \in Sup : left[s] = "held" => outcome[s] = "held"
    /\ stops = MaxStops /\ (\E s \in Sup : outcome[s] = "held") => \E t \in Sup : Serves(t)

\* A step of supervisor s after which s serves, or does not begin to leave as `held'.
Decent(s) ==
    /\ \A t \in Sup \ {s} : spc'[t] = spc[t] /\ left'[t] = left[t] /\ outcome'[t] = outcome[t]
                             /\ reactor'[t] = reactor[t]
    /\ cli' = cli /\ stops' = stops
    /\ reactor'[s] \in Alive => outcome'[s] = "none"
    /\ left'[s] = "held" => outcome'[s] = "held"
    /\ outcome'[s] = "held" => outcome[s] = "held"
    /\ Serves(s) => Serves(s)'

\* Such a step preserves the invariant: who served before still does.
LEMMA DecentKeeps ==
    ASSUME ServeInv, NEW s \in Sup, Decent(s)
    PROVE  ServeInv'
  BY DEF ServeInv, Decent, Serves

\* The reactor that finds the lock held finds it with one whose supervisor serves.
LEMMA AcquireServes ==
    ASSUME Inv, ServeInv, NEW s \in Sup, Acquire(s)
    PROVE  ServeInv'
  <1>1. CASE lock = Nobody
    <2>1. Decent(s)
      BY <1>1 DEF Inv, TypeOK, ServeInv, Decent, Serves, Acquire, Alive, Holding, sups, budget
    <2> QED BY <2>1, DecentKeeps
  <1>2. CASE lock # Nobody
    <2>1. /\ spc' = spc /\ left' = left /\ cli' = cli /\ stops' = stops
          /\ outcome' = [outcome EXCEPT ![s] = "held"]
          /\ reactor' = [reactor EXCEPT ![s] = IF spc[s] = "wait" THEN "zombie" ELSE "none"]
      BY <1>2 DEF Acquire, Ends, sups, budget
    <2>2. ASSUME stops = MaxStops PROVE \E t \in Sup : Serves(t)'
      <3>1. PICK t \in Sup : lock = t
        BY <1>2, <2>2 DEF Inv, TypeOK, LockInv, ServeInv
      <3>2. reactor[t] \in Holding /\ t # s
        BY <3>1 DEF Inv, LockInv, Acquire, Holding
      <3>3. outcome[t] = "none" /\ (spc[t] = "wait" \/ left[t] = "killed")
        BY <3>1, <3>2 DEF Inv, ChildInv, ServeInv, Alive, Holding
      <3>4. Serves(t)'
        BY <2>1, <3>1, <3>2, <3>3 DEF Inv, TypeOK, Serves, Supervising
      <3> QED BY <3>1, <3>4
    <2>3. left[s] # "held" \/ outcome'[s] = "held"
      BY <2>1 DEF Inv, TypeOK
    <2> QED BY <2>1, <2>2, <2>3 DEF Inv, TypeOK, ServeInv, Alive, Holding
  <1> QED BY <1>1, <1>2

\* Every other step of a supervisor and its reactor is decent: an outcome other than
\* `held' makes a supervisor leave for a reason of its own, or start again.
LEMMA OthersAreDecent ==
    ASSUME Inv, ServeInv, NEW s \in Sup, NEW x \in {"CHLD", "HUP", "TERM"},
           \/ Ready(s) \/ Finish(s) \/ Dies(s) \/ Invoke(s) \/ Signal(s, x)
           \/ spawn_reactor(s) \/ spawn_fails(s) \/ take_chld(s) \/ take_term(s) \/ take_hup(s)
           \/ force_stop(s) \/ backoff_expires(s) \/ wait_backoff(s, x) \/ SupervisorDies(s)
    PROVE  ServeInv'
  <1> USE DEF Inv, TypeOK, ServeInv, Decent, Serves, Alive, Holding, Supervising
  <1>1. CASE Ready(s) \/ Finish(s) \/ Dies(s)
    <2>1. Decent(s)
      BY <1>1 DEF Ready, Finish, Dies, Ends, Crashes, ChildInv, sups, budget
    <2> QED BY <2>1, DecentKeeps
  <1>2. CASE Invoke(s) \/ spawn_reactor(s) \/ spawn_fails(s) \/ backoff_expires(s)
    <2>1. Decent(s)
      BY <1>2 DEF Invoke, spawn_reactor, spawn_fails, backoff_expires, Crashes, ChildInv, budget
    <2> QED BY <2>1, DecentKeeps
  <1>3. CASE take_chld(s)
    <2>1. Decent(s)
      <3>1. CASE reactor[s] = "zombie"
        BY <1>3, <3>1 DEF take_chld, decide_reactor_outcome, ChildInv, budget
      <3>2. CASE reactor[s] # "zombie"
        BY <1>3, <3>2 DEF take_chld, ChildInv, budget
      <3> QED BY <3>1, <3>2
    <2> QED BY <2>1, DecentKeeps
  <1>4. CASE take_term(s) \/ take_hup(s)
    <2>1. Decent(s)
      BY <1>4 DEF take_term, take_hup, Forward, Ends, ChildInv, sups, budget
    <2> QED BY <2>1, DecentKeeps
  <1>5. CASE force_stop(s)
    <2>1. Decent(s)
      BY <1>5 DEF force_stop, decide_reactor_outcome, ChildInv, budget
    <2> QED BY <2>1, DecentKeeps
  <1>6. CASE wait_backoff(s, x) \/ SupervisorDies(s) \/ Signal(s, x)
    <2>1. Decent(s)
      BY <1>6 DEF wait_backoff, SupervisorDies, Signal, Crashes, sups, budget
    <2> QED BY <2>1, DecentKeeps
  <1> QED BY <1>1, <1>2, <1>3, <1>4, <1>5, <1>6

\* `fluxd stop' spends one of its invocations before it takes the lock.
LEMMA StopServes ==
    ASSUME Inv, ServeInv, (\E s \in Sup : StopRequest(s)) \/ instance_lock_held \/ StopExits
    PROVE  ServeInv'
  <1>1. CASE (\E s \in Sup : StopRequest(s)) \/ instance_lock_held
    <2>1. stops' # MaxStops
      BY <1>1, SupervisorAssumption DEF Inv, TypeOK, StopRequest, instance_lock_held, Asked
    <2>2. outcome' = outcome /\ left' = left
      BY <1>1 DEF StopRequest, instance_lock_held, sups
    <2>3. \A s \in Sup : reactor'[s] \in Alive => reactor[s] \in Alive
      BY <1>1 DEF Inv, TypeOK, StopRequest, instance_lock_held, Alive, Holding
    <2> QED BY <2>1, <2>2, <2>3 DEF ServeInv
  <1>2. CASE StopExits
    BY <1>2 DEF ServeInv, Serves, StopExits, sups, budget
  <1> QED BY <1>1, <1>2

\* ServeInv is an invariant of the processes.
THEOREM ServiceInvariance == Spec => []ServeInv
  <1>1. Init => ServeInv
    BY DEF Init, ServeInv, Alive, Holding
  <1>2. ASSUME Inv, ServeInv, [Next]_vars PROVE ServeInv'
    <2>1. CASE UNCHANGED vars
      BY <1>2, <2>1 DEF ServeInv, Serves, vars
    <2>2. CASE Next
      BY <1>2, <2>2, AcquireServes, OthersAreDecent, StopServes DEF Next, Waits, Reactors
    <2> QED BY <1>2, <2>1, <2>2
  <1> QED BY <1>1, <1>2, SupervisionInvariance, PTL DEF Spec

\* As long as nobody runs `fluxd stop', a daemon that gives up because the lock is held
\* leaves one that serves, or one that was told to leave.
THEOREM NobodyIsDrivenOut == Spec => []SomeoneServes
  <1>1. ServeInv => SomeoneServes
    BY DEF ServeInv, Serves, SomeoneServes
  <1> QED BY <1>1, ServiceInvariance, PTL
=============================================================================
