--------------------------- MODULE LocalOutProofs ---------------------------
(***************************************************************************)
(* TLAPS proofs of the safety invariants of module LocalOut, for any       *)
(* number of packets, contexts, daemons and epochs and any queue limit.    *)
(*                                                                         *)
(* The invariants rest on what the exclusive open of /dev/fluxrs gives:    *)
(* SessionInv says which stores of open and release have happened at each  *)
(* point of the one daemon that holds the node.  EpochInv orders the       *)
(* published epochs; WorkInv and RoomInv are about the steal queue.        *)
(***************************************************************************)
EXTENDS LocalOut, TLAPS, FiniteSetTheorems

-----------------------------------------------------------------------------
(* The inductive invariant *)

\* Some daemon is at one of the points S of its session.
At(S) == \E d \in Daemon : dpc[d] \in S

SessionInv ==
    /\ \A d, e \in Daemon : dpc[d] # "closed" /\ dpc[e] # "closed" => d = e
    /\ \A d \in Daemon : dpc[d] # "closed" => opened
    /\ \A d \in Daemon : dpc[d] \in Session => live
    /\ live => At(Session)
    /\ listeners_set => At(Session \cup {"dead"})
    /\ uids # 0 => At(Session \cup {"dead", "unlistened"})
    /\ wpc = "deliver" => At(Session \cup {"dead", "unlistened", "unselected", "cancel"})

WorkInv ==
    /\ canceling => At({"cancel"})
    /\ NoStrandedPacket

\* The contexts that have found room and have not queued their skb yet.
Entering == {c \in Ctx : hpc[c] = "enqueue"}
RoomInv == Len(steal_q) + Cardinality(Entering) <= QMAX + Cardinality(Ctx) - 1

EpochInv ==
    /\ uids <= epoch /\ \A c \in Ctx : hepoch[c] <= epoch
    /\ bypass_live = 0 \/ uids <= bypass_live
    /\ \A d \in Daemon : dpc[d] \in Session \cup {"opening"} => uids <= from
    /\ from = 0 \/ (uids <= from /\ \A c \in Ctx : hepoch[c] <= from)
    /\ \A d \in Daemon : dpc[d] \in {"bypassed", "emptied"} => bypass_live = epoch
    /\ BypassLeadsUids

Inv == TypeOK /\ SessionInv /\ WorkInv /\ RoomInv /\ EpochInv

USE DEF HookPC, WorkerPC, Session, Releasing, DaemonPC, Verdict

-----------------------------------------------------------------------------
(* Type correctness *)

\* The initial state of the module, before any daemon has opened the node, has
\* its types.
LEMMA InitType == Init => TypeOK
<1> SUFFICES ASSUME Init PROVE TypeOK
  OBVIOUS
<1>1. 0 \in Epoch
  BY LocalOutAssumption DEF Epoch
<1>2. steal_q \in Seq(Pkt)
  BY DEF Init
<1>3. wpkt \in Pkt /\ hpkt \in [Ctx -> Pkt]
  BY DEF Init
<1> QED BY <1>1, <1>2, <1>3 DEF Init, TypeOK

\* Every action of the hook, the worker, the control node and its release keeps
\* the types.
LEMMA TypeStep == TypeOK /\ [Next]_vars => TypeOK'
<1> SUFFICES ASSUME TypeOK, [Next]_vars PROVE TypeOK'
  OBVIOUS
<1> USE LocalOutAssumption DEF TypeOK, Epoch
<1>1. ASSUME NEW c \in Ctx, NEW p \in Pkt, HookEnter(c, p) PROVE TypeOK'
  <2>1. CASE live /\ p \in Stealable
    <3>1. /\ hpc' = [hpc EXCEPT ![c] = "uid"] /\ hpkt' = [hpkt EXCEPT ![c] = p]
          /\ verdict' = [verdict EXCEPT ![p] = "busy"]
      BY <1>1, <2>1, Zenon DEF HookEnter
    <3> QED BY <1>1, <3>1 DEF HookEnter, table, work
  <2>2. CASE ~(live /\ p \in Stealable)
    BY <1>1, <2>2 DEF HookEnter, table, work
  <2> QED BY <2>1, <2>2
<1>2. ASSUME NEW c \in Ctx, Hook(c) PROVE TypeOK'
  <2>1. CASE HookUid(c)
    BY <2>1 DEF HookUid, Accept, table, work
  <2>2. CASE HookDirect(c)
    BY <2>2 DEF HookDirect, Accept, Continue, table, work
  <2>3. CASE HookListening(c)
    BY <2>3 DEF HookListening, Accept, Continue, table, work
  <2>4. CASE HookRoom(c)
    BY <2>4 DEF HookRoom, Accept, Continue, table, work
  <2>5. CASE HookEnqueue(c)
    BY <2>5 DEF HookEnqueue, Continue, table
  <2>6. CASE HookSchedule(c)
    BY <2>6 DEF HookSchedule, table
  <2> QED BY <1>2, <2>1, <2>2, <2>3, <2>4, <2>5, <2>6 DEF Hook
<1>3. CASE Worker
  <2>1. CASE WorkerStart
    BY <2>1 DEF WorkerStart, table, hooks
  <2>2. CASE WorkerDequeue
    <3>1. CASE steal_q = <<>>
      BY <2>2, <3>1 DEF WorkerDequeue, table, hooks
    <3>2. CASE steal_q # <<>>
      <4>1. Head(steal_q) \in Pkt /\ Tail(steal_q) \in Seq(Pkt)
        BY <3>2
      <4> QED BY <2>2, <3>2, <4>1 DEF WorkerDequeue, table, hooks
    <3> QED BY <3>1, <3>2
  <2>3. CASE WorkerCheck
    BY <2>3 DEF WorkerCheck, table, hooks
  <2>4. CASE WorkerDeliver
    BY <2>4 DEF WorkerDeliver, table, hooks
  <2> QED BY <1>3, <2>1, <2>2, <2>3, <2>4 DEF Worker
<1>4. ASSUME NEW d \in Daemon, Control(d) PROVE TypeOK'
  <2> USE DEF Step, hooks, work
  <2>1. CASE CtlOpen(d) BY <2>1 DEF CtlOpen
  <2>2. CASE CtlLive(d) BY <2>2 DEF CtlLive
  <2>3. CASE SetListeners(d) BY <2>3 DEF SetListeners
  <2>4. CASE ClearUids(d) BY <2>4 DEF ClearUids
  <2>5. CASE SetBypass(d) BY <2>5 DEF SetBypass
  <2>6. CASE SetUidsEmpty(d) BY <2>6 DEF SetUidsEmpty
  <2>7. CASE SetUids(d) BY <2>7 DEF SetUids
  <2>8. CASE SetUidsFails(d) BY <2>8 DEF SetUidsFails
  <2> QED BY <1>4, <2>1, <2>2, <2>3, <2>4, <2>5, <2>6, <2>7, <2>8 DEF Control
<1>5. ASSUME NEW d \in Daemon, ReleaseLive(d) PROVE TypeOK'
  <2>1. from' \in Epoch
    BY <1>5 DEF ReleaseLive
  <2>2. dpc' \in [Daemon -> DaemonPC] /\ live' \in BOOLEAN
    BY <1>5 DEF ReleaseLive
  <2>3. UNCHANGED <<listeners_set, opened, uids, bypass_live, epoch, steal_q, pending,
                    canceling, wpc, wpkt, hpc, hpkt, hepoch, verdict>>
    BY <1>5 DEF ReleaseLive, hooks, work
  <2> QED BY <2>1, <2>2, <2>3
<1>6. ASSUME NEW d \in Daemon, Release(d) PROVE TypeOK'
  <2> USE DEF Step, hooks, work
  <2>1. CASE ReleaseListeners(d) BY <2>1 DEF ReleaseListeners
  <2>2. CASE ReleaseUids(d) BY <2>2 DEF ReleaseUids
  <2>3. CASE ReleaseCancel(d) BY <2>3 DEF ReleaseCancel
  <2>4. CASE ReleaseCancelled(d) BY <2>4 DEF ReleaseCancelled
  <2>5. CASE ReleasePurge(d) BY <2>5 DEF ReleasePurge
  <2>6. CASE ReleaseOpened(d) BY <2>6 DEF ReleaseOpened
  <2> QED BY <1>6, <2>1, <2>2, <2>3, <2>4, <2>5, <2>6 DEF Release
<1>7. CASE UNCHANGED vars
  BY <1>7 DEF vars
<1> QED BY <1>1, <1>2, <1>3, <1>4, <1>5, <1>6, <1>7 DEF Next

\* Type correctness of the module and its daemons for all parameters.
THEOREM TypeCorrect == Spec => []TypeOK
BY InitType, TypeStep, PTL DEF Spec

-----------------------------------------------------------------------------
(* Sessions *)

\* Before the first open nobody holds the node.
LEMMA InitSession == Init => SessionInv
BY DEF Init, SessionInv, At

\* Steps of the hook leave the session alone.
LEMMA SessionFrame ==
    SessionInv /\ UNCHANGED <<live, listeners_set, opened, uids, dpc, wpc>> => SessionInv'
BY DEF SessionInv, At

\* The exclusive open: each store of open and release happens in the one session
\* there is, and the worker gets past its check only inside one.
LEMMA SessionStep == TypeOK /\ SessionInv /\ [Next]_vars => SessionInv'
<1> SUFFICES ASSUME TypeOK, SessionInv, [Next]_vars PROVE SessionInv'
  OBVIOUS
<1>1. ASSUME NEW c \in Ctx, NEW p \in Pkt, HookEnter(c, p) PROVE SessionInv'
  BY <1>1, SessionFrame DEF HookEnter, table, work
<1>2. ASSUME NEW c \in Ctx, Hook(c) PROVE SessionInv'
  <2>1. UNCHANGED <<live, listeners_set, opened, uids, dpc, wpc>>
    BY <1>2 DEF Hook, HookUid, HookDirect, HookListening, HookRoom, HookEnqueue,
                HookSchedule, table, work
  <2> QED BY <2>1, SessionFrame
<1>3. CASE Worker
  <2>1. CASE WorkerStart
    BY <2>1 DEF WorkerStart, table, SessionInv, At
  <2>2. CASE WorkerDequeue
    BY <2>2 DEF WorkerDequeue, table, SessionInv, At
  <2>3. CASE WorkerCheck
    BY <2>3 DEF WorkerCheck, table, SessionInv, At
  <2>4. CASE WorkerDeliver
    BY <2>4 DEF WorkerDeliver, table, SessionInv, At
  <2> QED BY <1>3, <2>1, <2>2, <2>3, <2>4 DEF Worker
<1>4. ASSUME NEW d \in Daemon, Control(d) PROVE SessionInv'
  <2> USE DEF Step, hooks, work, TypeOK, SessionInv, At
  <2>1. CASE CtlOpen(d) BY <2>1 DEF CtlOpen
  <2>2. CASE CtlLive(d) BY <2>2 DEF CtlLive
  <2>3. CASE SetListeners(d) BY <2>3 DEF SetListeners
  <2>4. CASE ClearUids(d) BY <2>4 DEF ClearUids
  <2>5. CASE SetBypass(d) BY <2>5 DEF SetBypass
  <2>6. CASE SetUidsEmpty(d) BY <2>6 DEF SetUidsEmpty
  <2>7. CASE SetUids(d) BY <2>7 DEF SetUids
  <2>8. CASE SetUidsFails(d) BY <2>8 DEF SetUidsFails
  <2> QED BY <1>4, <2>1, <2>2, <2>3, <2>4, <2>5, <2>6, <2>7, <2>8 DEF Control
<1>5. ASSUME NEW d \in Daemon, ReleaseLive(d) PROVE SessionInv'
  BY <1>5 DEF ReleaseLive, hooks, work, TypeOK, SessionInv, At
<1>6. ASSUME NEW d \in Daemon, Release(d) PROVE SessionInv'
  <2> USE DEF Step, hooks, work, TypeOK, SessionInv, At
  <2>1. CASE ReleaseListeners(d) BY <2>1 DEF ReleaseListeners
  <2>2. CASE ReleaseUids(d) BY <2>2 DEF ReleaseUids
  <2>3. CASE ReleaseCancel(d) BY <2>3 DEF ReleaseCancel
  <2>4. CASE ReleaseCancelled(d) BY <2>4 DEF ReleaseCancelled
  <2>5. CASE ReleasePurge(d) BY <2>5 DEF ReleasePurge
  <2>6. CASE ReleaseOpened(d) BY <2>6 DEF ReleaseOpened
  <2> QED BY <1>6, <2>1, <2>2, <2>3, <2>4, <2>5, <2>6 DEF Release
<1>7. CASE UNCHANGED vars
  BY <1>7, SessionFrame DEF vars
<1> QED BY <1>1, <1>2, <1>3, <1>4, <1>5, <1>6, <1>7 DEF Next

-----------------------------------------------------------------------------
(* The steal queue *)

\* Nothing is queued at first.
LEMMA InitWork == Init => WorkInv
BY DEF Init, WorkInv, NoStrandedPacket

\* A queued skb always has a work item, a scheduling context or a purge ahead.
LEMMA WorkStep == TypeOK /\ WorkInv /\ [Next]_vars => WorkInv'
<1> SUFFICES ASSUME TypeOK, WorkInv, [Next]_vars PROVE WorkInv'
  OBVIOUS
<1> USE DEF WorkInv, NoStrandedPacket, At, TypeOK
<1>1. ASSUME NEW c \in Ctx, NEW p \in Pkt, HookEnter(c, p) PROVE WorkInv'
  BY <1>1 DEF HookEnter, table, work
<1>2. ASSUME NEW c \in Ctx, Hook(c) PROVE WorkInv'
  <2> USE DEF table, work, Accept, Continue
  <2>1. CASE HookUid(c) BY <2>1 DEF HookUid
  <2>2. CASE HookDirect(c) BY <2>2 DEF HookDirect
  <2>3. CASE HookListening(c) BY <2>3 DEF HookListening
  <2>4. CASE HookRoom(c) BY <2>4 DEF HookRoom
  <2>5. CASE HookEnqueue(c) BY <2>5 DEF HookEnqueue
  <2>6. CASE HookSchedule(c) BY <2>6 DEF HookSchedule
  <2> QED BY <1>2, <2>1, <2>2, <2>3, <2>4, <2>5, <2>6 DEF Hook
<1>3. CASE Worker
  BY <1>3 DEF Worker, WorkerStart, WorkerDequeue, WorkerCheck, WorkerDeliver, table, hooks
<1>4. ASSUME NEW d \in Daemon, Control(d) PROVE WorkInv'
  <2> USE DEF Step, hooks, work
  <2>1. CASE CtlOpen(d) BY <2>1 DEF CtlOpen
  <2>2. CASE CtlLive(d) BY <2>2 DEF CtlLive
  <2>3. CASE SetListeners(d) BY <2>3 DEF SetListeners
  <2>4. CASE ClearUids(d) BY <2>4 DEF ClearUids
  <2>5. CASE SetBypass(d) BY <2>5 DEF SetBypass
  <2>6. CASE SetUidsEmpty(d) BY <2>6 DEF SetUidsEmpty
  <2>7. CASE SetUids(d) BY <2>7 DEF SetUids
  <2>8. CASE SetUidsFails(d) BY <2>8 DEF SetUidsFails
  <2> QED BY <1>4, <2>1, <2>2, <2>3, <2>4, <2>5, <2>6, <2>7, <2>8 DEF Control
<1>5. ASSUME NEW d \in Daemon, ReleaseLive(d) PROVE WorkInv'
  BY <1>5 DEF ReleaseLive, hooks, work
<1>6. ASSUME NEW d \in Daemon, Release(d) PROVE WorkInv'
  <2> USE DEF Step, hooks, work
  <2>1. CASE ReleaseListeners(d) BY <2>1 DEF ReleaseListeners
  <2>2. CASE ReleaseUids(d) BY <2>2 DEF ReleaseUids
  <2>3. CASE ReleaseCancel(d) BY <2>3 DEF ReleaseCancel
  <2>4. CASE ReleaseCancelled(d) BY <2>4 DEF ReleaseCancelled
  <2>5. CASE ReleasePurge(d) BY <2>5 DEF ReleasePurge
  <2>6. CASE ReleaseOpened(d) BY <2>6 DEF ReleaseOpened
  <2> QED BY <1>6, <2>1, <2>2, <2>3, <2>4, <2>5, <2>6 DEF Release
<1>7. CASE UNCHANGED vars
  BY <1>7 DEF vars
<1> QED BY <1>1, <1>2, <1>3, <1>4, <1>5, <1>6, <1>7 DEF Next

\* The contexts between the length test and skb_queue_tail are finitely many.
LEMMA EnteringFinite ==
    /\ IsFiniteSet(Entering) /\ Cardinality(Entering) \in Nat
    /\ Cardinality(Ctx) \in Nat \ {0} /\ Cardinality(Entering) <= Cardinality(Ctx)
<1>1. IsFiniteSet(Ctx) /\ Entering \subseteq Ctx
  BY LocalOutAssumption DEF Entering
<1>2. Cardinality(Ctx) # 0
  BY LocalOutAssumption, FS_EmptySet
<1> QED BY <1>1, <1>2, FS_Subset, FS_CardinalityType

\* The queue is empty at first.
LEMMA InitRoom == Init => RoomInv
<1> SUFFICES ASSUME Init PROVE RoomInv
  OBVIOUS
<1>1. Len(steal_q) = 0
  BY DEF Init
<1> QED BY <1>1, EnteringFinite, LocalOutAssumption DEF RoomInv

\* The queue and the contexts about to extend it stay within the bound: a context
\* enters when the queue is below QMAX, and leaves when it adds its one skb.
LEMMA RoomStep == TypeOK /\ RoomInv /\ [Next]_vars => RoomInv'
<1> SUFFICES ASSUME TypeOK, RoomInv, [Next]_vars PROVE RoomInv'
  OBVIOUS
<1> USE DEF TypeOK
<1>0. Len(steal_q) \in Nat /\ QMAX \in Nat
  BY LocalOutAssumption
<1>a. ASSUME Entering' = Entering, steal_q' = steal_q PROVE RoomInv'
  BY <1>a DEF RoomInv
<1>1. ASSUME NEW c \in Ctx, NEW p \in Pkt, HookEnter(c, p) PROVE RoomInv'
  <2>1. Entering' = Entering /\ steal_q' = steal_q
    BY <1>1 DEF HookEnter, work, Entering
  <2> QED BY <1>a, <2>1
<1>2. ASSUME NEW c \in Ctx, Hook(c) PROVE RoomInv'
  <2>1. CASE HookRoom(c)
    <3>1. CASE Len(steal_q) >= QMAX
      <4>1. Entering' = Entering /\ steal_q' = steal_q
        BY <2>1, <3>1 DEF HookRoom, Accept, work, Entering
      <4> QED BY <1>a, <4>1
    <3>2. CASE ~(Len(steal_q) >= QMAX)
      <4>1. steal_q' = steal_q
        BY <2>1 DEF HookRoom, work
      <4>2. Cardinality(Entering') \in Nat /\ Cardinality(Entering') <= Cardinality(Ctx)
        <5>1. IsFiniteSet(Ctx) /\ Entering' \subseteq Ctx
          BY LocalOutAssumption DEF Entering
        <5> QED BY <5>1, FS_Subset, FS_CardinalityType
      <4> QED BY <1>0, <3>2, <4>1, <4>2, EnteringFinite DEF RoomInv
    <3> QED BY <3>1, <3>2
  <2>2. CASE HookEnqueue(c)
    <3>1. steal_q' = Append(steal_q, hpkt[c]) /\ Len(steal_q') = Len(steal_q) + 1
      BY <2>2 DEF HookEnqueue
    <3>2. c \in Entering /\ Entering' = Entering \ {c}
      BY <2>2 DEF HookEnqueue, Continue, Entering
    <3>3. Cardinality(Entering') = Cardinality(Entering) - 1
      BY <3>2, EnteringFinite, FS_RemoveElement
    <3> QED BY <1>0, <3>1, <3>3, EnteringFinite DEF RoomInv
  <2>3. CASE HookUid(c) \/ HookDirect(c) \/ HookListening(c) \/ HookSchedule(c)
    <3>1. Entering' = Entering /\ steal_q' = steal_q
      BY <2>3 DEF HookUid, HookDirect, HookListening, HookSchedule, Accept, Continue,
                  work, Entering
    <3> QED BY <1>a, <3>1
  <2> QED BY <1>2, <2>1, <2>2, <2>3 DEF Hook
<1>3. CASE Worker
  <2>1. CASE WorkerDequeue /\ steal_q # <<>>
    <3>1. Entering' = Entering /\ Len(steal_q') <= Len(steal_q) /\ Len(steal_q') \in Nat
      BY <2>1 DEF WorkerDequeue, hooks, Entering
    <3> QED BY <1>0, <3>1, EnteringFinite DEF RoomInv
  <2>2. CASE ~(WorkerDequeue /\ steal_q # <<>>)
    <3>1. Entering' = Entering /\ steal_q' = steal_q
      BY <1>3, <2>2 DEF Worker, WorkerStart, WorkerDequeue, WorkerCheck, WorkerDeliver,
                       hooks, Entering
    <3> QED BY <1>a, <3>1
  <2> QED BY <2>1, <2>2
<1>4. ASSUME NEW d \in Daemon, Control(d) \/ ReleaseLive(d) PROVE RoomInv'
  <2>1. Entering' = Entering /\ steal_q' = steal_q
    BY <1>4 DEF Control, CtlOpen, CtlLive, SetListeners, ClearUids, SetBypass,
                SetUidsEmpty, SetUids, SetUidsFails, ReleaseLive, hooks, work, Entering
  <2> QED BY <1>a, <2>1
<1>5. ASSUME NEW d \in Daemon, Release(d) PROVE RoomInv'
  <2>1. CASE ReleasePurge(d)
    <3>1. Entering' = Entering /\ Len(steal_q') = 0
      BY <2>1 DEF ReleasePurge, hooks, Entering
    <3> QED BY <1>0, <3>1, EnteringFinite DEF RoomInv
  <2>2. CASE ~ReleasePurge(d)
    <3>1. Entering' = Entering /\ steal_q' = steal_q
      BY <1>5, <2>2 DEF Release, ReleaseListeners, ReleaseUids, ReleaseCancel,
                       ReleaseCancelled, ReleaseOpened, hooks, work, Entering
    <3> QED BY <1>a, <3>1
  <2> QED BY <2>1, <2>2
<1>6. CASE UNCHANGED vars
  BY <1>6, <1>a DEF vars, Entering
<1> QED BY <1>1, <1>2, <1>3, <1>4, <1>5, <1>6 DEF Next

-----------------------------------------------------------------------------
(* Policy epochs *)

\* Epoch 0 everywhere.
LEMMA InitEpoch == Init => EpochInv
BY DEF Init, EpochInv, BypassLeadsUids

\* SET_BYPASS goes before SET_UIDS, and a failed SET_UIDS returns to the set of
\* the last table this daemon published, which no context has outrun.
LEMMA EpochStep ==
    TypeOK /\ SessionInv /\ EpochInv /\ [Next]_vars => EpochInv'
<1> SUFFICES ASSUME TypeOK, SessionInv, EpochInv, [Next]_vars PROVE EpochInv'
  OBVIOUS
<1>0. /\ epoch \in Nat /\ uids \in Nat /\ bypass_live \in Nat
      /\ \A c \in Ctx : hepoch[c] \in Nat
      /\ from \in Nat
  BY LocalOutAssumption DEF TypeOK, Epoch
<1> USE <1>0 DEF EpochInv, BypassLeadsUids
<1>1. ASSUME NEW c \in Ctx, NEW p \in Pkt, HookEnter(c, p) PROVE EpochInv'
  BY <1>1 DEF HookEnter, table, TypeOK
<1>2. ASSUME NEW c \in Ctx, Hook(c) PROVE EpochInv'
  <2> USE DEF table, Accept, Continue, TypeOK
  <2>1. CASE HookUid(c)
    <3>1. CASE UidOf[hpkt[c]] \in Selected[uids]
      <4>1. /\ hpc' = [hpc EXCEPT ![c] = "direct"]
            /\ hepoch' = [hepoch EXCEPT ![c] = uids]
            /\ UNCHANGED <<uids, bypass_live, epoch, dpc, from>>
        BY <2>1, <3>1 DEF HookUid
      <4>2. \A x \in Ctx : hepoch'[x] = IF x = c THEN uids ELSE hepoch[x]
        BY <4>1
      <4>3. \A x \in Ctx : x # c => hpc'[x] = hpc[x]
        BY <4>1
      <4>4. BypassLeadsUids'
        BY <4>1, <4>2, <4>3
      <4>5. from' = 0 \/ (uids' <= from' /\ \A x \in Ctx : hepoch'[x] <= from')
        BY <4>1, <4>2
      <4>6. uids' <= epoch' /\ \A x \in Ctx : hepoch'[x] <= epoch'
        BY <4>1, <4>2
      <4> QED BY <4>1, <4>4, <4>5, <4>6
    <3>2. CASE UidOf[hpkt[c]] \notin Selected[uids]
      <4>1. /\ hpc' = [hpc EXCEPT ![c] = "out"]
            /\ UNCHANGED <<hepoch, uids, bypass_live, epoch, dpc, from>>
        BY <2>1, <3>2 DEF HookUid
      <4> QED BY <4>1
    <3> QED BY <3>1, <3>2
  <2>2. CASE HookDirect(c) BY <2>2 DEF HookDirect
  <2>3. CASE HookListening(c) BY <2>3 DEF HookListening
  <2>4. CASE HookRoom(c) BY <2>4 DEF HookRoom
  <2>5. CASE HookEnqueue(c) BY <2>5 DEF HookEnqueue
  <2>6. CASE HookSchedule(c) BY <2>6 DEF HookSchedule
  <2> QED BY <1>2, <2>1, <2>2, <2>3, <2>4, <2>5, <2>6 DEF Hook
<1>3. CASE Worker
  BY <1>3 DEF Worker, WorkerStart, WorkerDequeue, WorkerCheck, WorkerDeliver, table, hooks
<1>4. ASSUME NEW d \in Daemon, Control(d) PROVE EpochInv'
  <2> USE DEF Step, hooks, TypeOK
  <2>1. CASE CtlOpen(d)
    <3>1. uids = 0
      BY <2>1 DEF CtlOpen, SessionInv, At
    <3> QED BY <2>1, <3>1 DEF CtlOpen
  <2>2. CASE CtlLive(d) BY <2>2 DEF CtlLive
  <2>3. CASE SetListeners(d) BY <2>3 DEF SetListeners
  <2>4. CASE ClearUids(d) BY <2>4 DEF ClearUids
  <2>5. CASE SetBypass(d) BY <2>5 DEF SetBypass, SessionInv
  <2>6. CASE SetUidsEmpty(d) BY <2>6 DEF SetUidsEmpty
  <2>7. CASE SetUids(d)
    <3>1. /\ dpc[d] = "emptied" /\ dpc' = [dpc EXCEPT ![d] = "open"]
          /\ uids' = epoch /\ from' = epoch
          /\ UNCHANGED <<bypass_live, epoch, hpc, hepoch>>
      BY <2>7 DEF SetUids
    <3>2. bypass_live = epoch
      BY <3>1
    <3>3. \A e \in Daemon : dpc'[e] \notin {"bypassed", "emptied"}
      BY <3>1 DEF SessionInv
    <3> QED BY <3>1, <3>2, <3>3
  <2>8. CASE SetUidsFails(d) BY <2>8 DEF SetUidsFails, SessionInv
  <2> QED BY <1>4, <2>1, <2>2, <2>3, <2>4, <2>5, <2>6, <2>7, <2>8 DEF Control
<1>5. ASSUME NEW d \in Daemon, ReleaseLive(d) PROVE EpochInv'
  <2>1. \A e \in Daemon : dpc'[e] \in {"dead", "closed"}
    BY <1>5 DEF ReleaseLive, SessionInv, TypeOK
  <2>2. from' = from \/ from' = 0
    BY <1>5 DEF ReleaseLive
  <2>3. UNCHANGED <<uids, bypass_live, epoch, hpc, hepoch>>
    BY <1>5 DEF ReleaseLive, hooks
  <2>4. \A e \in Daemon : dpc'[e] \notin Session \cup {"opening"}
    BY <2>1
  <2>5. from' = 0 \/ (uids' <= from' /\ \A c \in Ctx : hepoch'[c] <= from')
    BY <2>2, <2>3
  <2> QED BY <2>3, <2>4, <2>5
<1>6. ASSUME NEW d \in Daemon, Release(d) PROVE EpochInv'
  <2> USE DEF Step, hooks, TypeOK
  <2>1. CASE ReleaseListeners(d) BY <2>1 DEF ReleaseListeners
  <2>2. CASE ReleaseUids(d) BY <2>2 DEF ReleaseUids
  <2>3. CASE ReleaseCancel(d) BY <2>3 DEF ReleaseCancel
  <2>4. CASE ReleaseCancelled(d) BY <2>4 DEF ReleaseCancelled
  <2>5. CASE ReleasePurge(d) BY <2>5 DEF ReleasePurge
  <2>6. CASE ReleaseOpened(d) BY <2>6 DEF ReleaseOpened
  <2> QED BY <1>6, <2>1, <2>2, <2>3, <2>4, <2>5, <2>6 DEF Release
<1>7. CASE UNCHANGED vars
  BY <1>7 DEF vars
<1> QED BY <1>1, <1>2, <1>3, <1>4, <1>5, <1>6, <1>7 DEF Next

-----------------------------------------------------------------------------
(* The theorems *)

\* The inductive invariant holds of the module and its daemons.
THEOREM Invariance == Spec => []Inv
<1>1. Init => Inv
  BY InitType, InitSession, InitWork, InitRoom, InitEpoch DEF Inv
<1>2. Inv /\ [Next]_vars => Inv'
  BY TypeStep, SessionStep, WorkStep, RoomStep, EpochStep DEF Inv
<1> QED BY <1>1, <1>2, PTL DEF Spec

\* While a daemon holds /dev/fluxrs it is the only one and the hook is live for it,
\* for any number of daemons that open, are killed and restarted.
THEOREM SessionsAreIntact == Spec => []SessionIntact
<1>1. Inv => SessionIntact
  BY DEF Inv, SessionInv, SessionIntact
<1> QED BY <1>1, Invariance, PTL

\* When no daemon holds the node the hook passes everything.
THEOREM ReleasedIsDirect == Spec => []ClosedIsDirect
<1>1. Inv => ClosedIsDirect
  BY DEF Inv, TypeOK, SessionInv, ClosedIsDirect, At
<1> QED BY <1>1, Invariance, PTL

\* The worker hands no skb to a listener once the release of its session is over.
THEOREM DeliveryIsInSession == Spec => []NoDeliveryAfterRelease
<1>1. Inv => NoDeliveryAfterRelease
  BY DEF Inv, SessionInv, NoDeliveryAfterRelease, At
<1> QED BY <1>1, Invariance, PTL

\* No stolen skb is stranded in the queue, however schedule_work, the worker and
\* cancel_work_sync interleave.
THEOREM NothingIsStranded == Spec => []NoStrandedPacket
<1>1. Inv => NoStrandedPacket
  BY DEF Inv, WorkInv
<1> QED BY <1>1, Invariance, PTL

\* The lockless length test bounds the queue by QMAX and the number of contexts.
THEOREM QueueIsBounded == Spec => []QueueBound
<1>1. Inv => QueueBound
  <2> SUFFICES ASSUME Inv PROVE QueueBound
    OBVIOUS
  <2>1. Len(steal_q) \in Nat /\ QMAX \in Nat
    BY LocalOutAssumption DEF Inv, TypeOK
  <2> QED BY <2>1, EnteringFinite DEF Inv, RoomInv, QueueBound
<1> QED BY <1>1, Invariance, PTL

\* No context reads a bypass set older than the UID table it matched.
THEOREM BypassIsAhead == Spec => []BypassLeadsUids
<1>1. Inv => BypassLeadsUids
  BY DEF Inv, EpochInv
<1> QED BY <1>1, Invariance, PTL

-----------------------------------------------------------------------------
(* The kernel module implements Capture.                                    *)
(*                                                                          *)
(* The argument needs one more invariant: every undecided packet is in one  *)
(* pair of hands.  HolderInv says that a hook, a place of the queue and the *)
(* worker never hold the same skb, and that what they hold has no verdict   *)
(* yet.                                                                     *)

\* The contexts that own their skb, and the worker while it owns one.
Holding(c) == hpc[c] \in {"uid", "direct", "listening", "room", "enqueue"}
Working == wpc \in {"check", "deliver"}

HookHolds ==
    /\ \A c \in Ctx : Holding(c) => verdict[hpkt[c]] = "busy"
    /\ \A c, d \in Ctx : Holding(c) /\ Holding(d) /\ hpkt[c] = hpkt[d] => c = d
QueueHolds ==
    /\ \A i \in 1..Len(steal_q) : verdict[steal_q[i]] = "busy"
    /\ \A i, j \in 1..Len(steal_q) : steal_q[i] = steal_q[j] => i = j
    /\ \A i \in 1..Len(steal_q) : \A c \in Ctx : Holding(c) => hpkt[c] # steal_q[i]
WorkerHolds ==
    Working => /\ verdict[wpkt] = "busy"
               /\ \A i \in 1..Len(steal_q) : steal_q[i] # wpkt
               /\ \A c \in Ctx : Holding(c) => hpkt[c] # wpkt
HolderInv == HookHolds /\ QueueHolds /\ WorkerHolds

USE DEF HookPC, WorkerPC, Session, Releasing, DaemonPC, Verdict

-----------------------------------------------------------------------------
(* One owner *)

\* A context that leaves the hook with NF_ACCEPT decides the packet that only it holds.
LEMMA AcceptHolds ==
    ASSUME TypeOK, HolderInv, NEW c \in Ctx, Holding(c), Accept(c), UNCHANGED work
    PROVE  HolderInv'
<1>1. /\ hpc' = [hpc EXCEPT ![c] = "out"] /\ verdict' = [verdict EXCEPT ![hpkt[c]] = "direct"]
      /\ UNCHANGED <<hpkt, steal_q, wpc, wpkt>>
  BY DEF Accept, work
<1>2. \A d \in Ctx : Holding(d)' => Holding(d) /\ d # c
  BY <1>1 DEF Holding, TypeOK
<1>3. \A d \in Ctx : Holding(d)' => hpkt[d] # hpkt[c]
  BY <1>2 DEF HolderInv, HookHolds
<1>4. HookHolds'
  BY <1>1, <1>2, <1>3 DEF HolderInv, HookHolds, TypeOK
<1>5. \A i \in 1..Len(steal_q) : steal_q[i] \in Pkt /\ steal_q[i] # hpkt[c]
  BY DEF HolderInv, QueueHolds, TypeOK
<1>6. QueueHolds'
  BY <1>1, <1>2, <1>5 DEF HolderInv, QueueHolds, TypeOK
<1>7. WorkerHolds'
  BY <1>1, <1>2 DEF HolderInv, WorkerHolds, Working, TypeOK
<1> QED BY <1>4, <1>6, <1>7 DEF HolderInv

\* A context that goes on to its next test keeps its skb.
LEMMA ContinueHolds ==
    ASSUME TypeOK, HolderInv, NEW c \in Ctx, NEW pc, Holding(c), Continue(c, pc), UNCHANGED work
    PROVE  HolderInv'
<1>1. hpc' = [hpc EXCEPT ![c] = pc] /\ UNCHANGED <<hpkt, verdict, steal_q, wpc, wpkt>>
  BY DEF Continue, work
<1>2. \A d \in Ctx : Holding(d)' => Holding(d)
  BY <1>1 DEF Holding, TypeOK
<1> QED BY <1>1, <1>2 DEF HolderInv, HookHolds, QueueHolds, WorkerHolds, Working

\* A step that changes no skb's place and no verdict keeps the owners.
LEMMA OtherHolds ==
    ASSUME HolderInv, UNCHANGED <<hpc, hpkt, verdict, steal_q, wpc, wpkt>>
    PROVE  HolderInv'
BY DEF HolderInv, HookHolds, QueueHolds, WorkerHolds, Working, Holding

\* fluxrs_local_out takes a packet that is new, so that nobody has it.
LEMMA EnterHolds ==
    ASSUME TypeOK, HolderInv, NEW c \in Ctx, NEW p \in Pkt, HookEnter(c, p)
    PROVE  HolderInv'
<1>1. verdict[p] = "new" /\ hpc[c] = "out" /\ UNCHANGED <<steal_q, wpc, wpkt>>
  BY DEF HookEnter, work
<1>2. /\ \A d \in Ctx : Holding(d) => hpkt[d] # p
      /\ \A i \in 1..Len(steal_q) : steal_q[i] # p
      /\ Working => wpkt # p
  BY <1>1 DEF HolderInv, HookHolds, QueueHolds, WorkerHolds
<1>3. CASE live /\ p \in Stealable
  <2>1. /\ hpc' = [hpc EXCEPT ![c] = "uid"] /\ hpkt' = [hpkt EXCEPT ![c] = p]
        /\ verdict' = [verdict EXCEPT ![p] = "busy"]
    BY <1>3, Zenon DEF HookEnter
  <2>2. \A d \in Ctx : Holding(d)' => d = c \/ (Holding(d) /\ hpkt'[d] = hpkt[d])
    BY <2>1 DEF Holding, TypeOK
  <2>3. hpkt'[c] = p /\ verdict'[p] = "busy" /\ (\A q \in Pkt : q # p => verdict'[q] = verdict[q])
    BY <2>1 DEF TypeOK
  <2>4. HookHolds'
    BY <1>2, <2>2, <2>3 DEF HolderInv, HookHolds, TypeOK
  <2>5. QueueHolds'
    BY <1>1, <1>2, <2>2, <2>3 DEF HolderInv, QueueHolds, TypeOK
  <2>6. WorkerHolds'
    BY <1>1, <1>2, <2>2, <2>3 DEF HolderInv, WorkerHolds, Working, TypeOK
  <2> QED BY <2>4, <2>5, <2>6 DEF HolderInv
<1>4. CASE ~(live /\ p \in Stealable)
  <2>1. verdict' = [verdict EXCEPT ![p] = "direct"] /\ UNCHANGED <<hpc, hpkt>>
    BY <1>4 DEF HookEnter
  <2>2. \A q \in Pkt : q # p => verdict'[q] = verdict[q]
    BY <2>1 DEF TypeOK
  <2>3. HookHolds'
    BY <1>2, <2>1, <2>2 DEF HolderInv, HookHolds, Holding, TypeOK
  <2>4. QueueHolds'
    BY <1>1, <1>2, <2>1, <2>2 DEF HolderInv, QueueHolds, Holding, TypeOK
  <2>5. WorkerHolds'
    BY <1>1, <1>2, <2>1, <2>2 DEF HolderInv, WorkerHolds, Working, Holding, TypeOK
  <2> QED BY <2>3, <2>4, <2>5 DEF HolderInv
<1> QED BY <1>3, <1>4

\* skb_queue_tail moves the skb from the context to the queue.
LEMMA EnqueueHolds ==
    ASSUME TypeOK, HolderInv, NEW c \in Ctx, HookEnqueue(c)
    PROVE  HolderInv'
<1>1. /\ hpc[c] = "enqueue" /\ hpc' = [hpc EXCEPT ![c] = "schedule"]
      /\ steal_q' = Append(steal_q, hpkt[c]) /\ UNCHANGED <<hpkt, verdict, wpc, wpkt>>
  BY DEF HookEnqueue, Continue
<1>2. \A d \in Ctx : Holding(d)' => Holding(d) /\ d # c
  BY <1>1 DEF Holding, TypeOK
<1>3. Holding(c)
  BY <1>1 DEF Holding
<1>4. /\ Len(steal_q') = Len(steal_q) + 1 /\ Len(steal_q) \in Nat
      /\ \A i \in 1..Len(steal_q) : steal_q'[i] = steal_q[i]
      /\ steal_q'[Len(steal_q) + 1] = hpkt[c]
  BY <1>1 DEF TypeOK
<1>5. \A i \in 1..Len(steal_q') : i \in 1..Len(steal_q) \/ i = Len(steal_q) + 1
  BY <1>4
<1>6. HookHolds'
  BY <1>1, <1>2 DEF HolderInv, HookHolds
<1>7. QueueHolds'
  <2>1. \A i \in 1..Len(steal_q') : verdict'[steal_q'[i]] = "busy"
    BY <1>1, <1>3, <1>4, <1>5 DEF HolderInv, HookHolds, QueueHolds
  <2>2. ASSUME NEW i \in 1..Len(steal_q'), NEW j \in 1..Len(steal_q'), steal_q'[i] = steal_q'[j]
        PROVE  i = j
    BY <1>3, <1>4, <1>5, <2>2 DEF HolderInv, QueueHolds
  <2>3. ASSUME NEW i \in 1..Len(steal_q'), NEW d \in Ctx, Holding(d)' PROVE hpkt'[d] # steal_q'[i]
    BY <1>1, <1>2, <1>3, <1>4, <1>5, <2>3 DEF HolderInv, HookHolds, QueueHolds
  <2> QED BY <2>1, <2>2, <2>3 DEF QueueHolds
<1>8. WorkerHolds'
  BY <1>1, <1>2, <1>3, <1>4, <1>5 DEF HolderInv, WorkerHolds, Working
<1> QED BY <1>6, <1>7, <1>8 DEF HolderInv

\* fluxrs_steal_workfn takes the head of the queue.
LEMMA DequeueHolds ==
    ASSUME TypeOK, HolderInv, WorkerDequeue
    PROVE  HolderInv'
<1>1. UNCHANGED <<hpc, hpkt, verdict>>
  BY DEF WorkerDequeue, hooks
<1>2. CASE steal_q = <<>>
  BY <1>1, <1>2 DEF WorkerDequeue, HolderInv, HookHolds, QueueHolds, WorkerHolds, Working, Holding
<1>3. CASE steal_q # <<>>
  <2>1. wpkt' = steal_q[1] /\ steal_q' = Tail(steal_q)
    BY <1>3 DEF WorkerDequeue, TypeOK
  <2>2. 1 \in 1..Len(steal_q) /\ Len(steal_q) \in Nat
    BY <1>3 DEF TypeOK
  <2>3. \A i \in 1..Len(steal_q') : i + 1 \in 1..Len(steal_q) /\ i + 1 # 1 /\ steal_q'[i] = steal_q[i + 1]
    BY <1>3, <2>1 DEF TypeOK
  <2>4. HookHolds'
    BY <1>1 DEF HolderInv, HookHolds, Holding
  <2>5. QueueHolds'
    <3>1. ASSUME NEW i \in 1..Len(steal_q'), NEW j \in 1..Len(steal_q'), steal_q'[i] = steal_q'[j]
          PROVE  i = j
      BY <2>3, <3>1 DEF HolderInv, QueueHolds
    <3> QED BY <1>1, <2>3, <3>1 DEF HolderInv, QueueHolds, Holding
  <2>6. WorkerHolds'
    BY <1>1, <2>1, <2>2, <2>3 DEF HolderInv, QueueHolds, WorkerHolds, Holding
  <2> QED BY <2>4, <2>5, <2>6 DEF HolderInv
<1> QED BY <1>2, <1>3

\* The worker decides the skb that only it holds.
LEMMA DecideHolds ==
    ASSUME TypeOK, HolderInv, Working, wpc' = "drain", NEW v, verdict' = [verdict EXCEPT ![wpkt] = v],
           UNCHANGED <<hpc, hpkt, steal_q, wpkt>>
    PROVE  HolderInv'
<1>1. \A q \in Pkt : q # wpkt => verdict'[q] = verdict[q]
  BY DEF TypeOK
<1>2. HookHolds'
  BY <1>1 DEF HolderInv, HookHolds, WorkerHolds, Holding, TypeOK
<1>3. QueueHolds'
  BY <1>1 DEF HolderInv, QueueHolds, WorkerHolds, Holding, TypeOK
<1>4. WorkerHolds'
  BY DEF WorkerHolds, Working
<1> QED BY <1>2, <1>3, <1>4 DEF HolderInv

\* skb_queue_purge decides what is queued, which no context and not the worker holds.
LEMMA PurgeHolds ==
    ASSUME TypeOK, HolderInv, NEW d \in Daemon, ReleasePurge(d)
    PROVE  HolderInv'
<1>1. /\ verdict' = [p \in Pkt |-> IF \E i \in DOMAIN steal_q : steal_q[i] = p THEN "dropped" ELSE verdict[p]]
      /\ steal_q' = <<>> /\ UNCHANGED <<hpc, hpkt, wpc, wpkt>>
  BY DEF ReleasePurge, hooks
<1>2. DOMAIN steal_q = 1..Len(steal_q)
  BY DEF TypeOK
<1>3. \A p \in Pkt : (\A i \in 1..Len(steal_q) : steal_q[i] # p) => verdict'[p] = verdict[p]
  BY <1>1, <1>2
<1>4. HookHolds'
  BY <1>1, <1>3 DEF HolderInv, HookHolds, QueueHolds, Holding, TypeOK
<1>5. QueueHolds'
  BY <1>1 DEF QueueHolds
<1>6. WorkerHolds'
  BY <1>1, <1>3 DEF HolderInv, WorkerHolds, Working, Holding, TypeOK
<1> QED BY <1>4, <1>5, <1>6 DEF HolderInv

\* Every action of the hook, the worker, the control node and its release keeps one owner per skb.
LEMMA HolderStep == Inv /\ HolderInv /\ [Next]_vars => HolderInv'
<1> SUFFICES ASSUME Inv, HolderInv, [Next]_vars PROVE HolderInv'
  OBVIOUS
<1>0. TypeOK
  BY DEF Inv
<1>1. ASSUME NEW c \in Ctx, NEW p \in Pkt, HookEnter(c, p) PROVE HolderInv'
  BY <1>0, <1>1, EnterHolds
<1>2. ASSUME NEW c \in Ctx, Hook(c) PROVE HolderInv'
  <2>1. CASE HookUid(c)
    <3>1. Holding(c) /\ UNCHANGED work
      BY <2>1 DEF HookUid, Holding
    <3>2. CASE UidOf[hpkt[c]] \in Selected[uids]
      <4>1. hpc' = [hpc EXCEPT ![c] = "direct"] /\ UNCHANGED <<hpkt, verdict, steal_q, wpc, wpkt>>
        BY <2>1, <3>2 DEF HookUid, work
      <4>2. \A d \in Ctx : Holding(d)' => Holding(d)
        BY <1>0, <3>1, <4>1 DEF Holding, TypeOK
      <4> QED BY <4>1, <4>2 DEF HolderInv, HookHolds, QueueHolds, WorkerHolds, Working
    <3>3. CASE UidOf[hpkt[c]] \notin Selected[uids]
      BY <1>0, <2>1, <3>1, <3>3, AcceptHolds DEF HookUid
    <3> QED BY <3>2, <3>3
  <2>2. CASE HookDirect(c) \/ HookListening(c) \/ HookRoom(c)
    <3>1. Holding(c) /\ UNCHANGED work
      BY <2>2 DEF HookDirect, HookListening, HookRoom, Holding
    <3>2. Accept(c) \/ Continue(c, "listening") \/ Continue(c, "room") \/ Continue(c, "enqueue")
      BY <2>2 DEF HookDirect, HookListening, HookRoom
    <3> QED BY <1>0, <3>1, <3>2, AcceptHolds, ContinueHolds
  <2>3. CASE HookEnqueue(c)
    BY <1>0, <2>3, EnqueueHolds
  <2>4. CASE HookSchedule(c)
    <3>1. hpc' = [hpc EXCEPT ![c] = "out"] /\ UNCHANGED <<hpkt, verdict, steal_q, wpc, wpkt>>
      BY <2>4 DEF HookSchedule
    <3>2. \A d \in Ctx : Holding(d)' => Holding(d)
      BY <1>0, <3>1 DEF Holding, TypeOK
    <3> QED BY <3>1, <3>2 DEF HolderInv, HookHolds, QueueHolds, WorkerHolds, Working
  <2> QED BY <1>2, <2>1, <2>2, <2>3, <2>4 DEF Hook
<1>3. CASE Worker
  <2>1. CASE WorkerStart
    BY <2>1 DEF WorkerStart, hooks, HolderInv, HookHolds, QueueHolds, WorkerHolds, Working, Holding
  <2>2. CASE WorkerDequeue
    BY <1>0, <2>2, DequeueHolds
  <2>3. CASE WorkerCheck
    <3>1. CASE live
      BY <2>3, <3>1 DEF WorkerCheck, hooks, HolderInv, HookHolds, QueueHolds, WorkerHolds, Working, Holding
    <3>2. CASE ~live
      <4>1. /\ Working /\ wpc' = "drain" /\ verdict' = [verdict EXCEPT ![wpkt] = "dropped"]
            /\ UNCHANGED <<hpc, hpkt, steal_q, wpkt>>
        BY <2>3, <3>2 DEF WorkerCheck, hooks, Working
      <4> QED BY <1>0, <4>1, DecideHolds
    <3> QED BY <3>1, <3>2
  <2>4. CASE WorkerDeliver
    <3>1. PICK v : verdict' = [verdict EXCEPT ![wpkt] = v]
      BY <2>4 DEF WorkerDeliver
    <3>2. Working /\ wpc' = "drain" /\ UNCHANGED <<hpc, hpkt, steal_q, wpkt>>
      BY <2>4 DEF WorkerDeliver, hooks, Working
    <3> QED BY <1>0, <3>1, <3>2, DecideHolds
  <2> QED BY <1>3, <2>1, <2>2, <2>3, <2>4 DEF Worker
<1>4. ASSUME NEW d \in Daemon, Control(d) \/ ReleaseLive(d) PROVE HolderInv'
  <2>1. UNCHANGED <<hpc, hpkt, verdict, steal_q, wpc, wpkt>>
    BY <1>4 DEF Control, CtlOpen, CtlLive, SetListeners, ClearUids, SetBypass, SetUidsEmpty, SetUids,
                SetUidsFails, ReleaseLive, hooks, work
  <2> QED BY <2>1, OtherHolds
<1>5. ASSUME NEW d \in Daemon, Release(d) PROVE HolderInv'
  <2>1. CASE ReleasePurge(d)
    BY <1>0, <2>1, PurgeHolds
  <2>2. CASE ~ReleasePurge(d)
    <3>1. UNCHANGED <<hpc, hpkt, verdict, steal_q, wpc, wpkt>>
      BY <1>5, <2>2 DEF Release, ReleaseListeners, ReleaseUids, ReleaseCancel, ReleaseCancelled,
                        ReleaseOpened, hooks, work
    <3> QED BY <3>1, OtherHolds
  <2> QED BY <2>1, <2>2
<1>6. CASE UNCHANGED vars
  BY <1>6, OtherHolds DEF vars
<1> QED BY <1>1, <1>2, <1>3, <1>4, <1>5, <1>6 DEF Next

\* Before the first packet nothing is held.
LEMMA InitHolds == Init => HolderInv
BY DEF Init, HolderInv, HookHolds, QueueHolds, WorkerHolds, Holding, Working

\* Hooks, queue and worker never hold the same skb, and never one that has its verdict.
THEOREM OneOwner == Spec => []HolderInv
<1>1. Inv /\ HolderInv /\ [Next]_vars => HolderInv'
  BY HolderStep
<1> QED BY <1>1, InitHolds, Invariance, PTL DEF Spec

-----------------------------------------------------------------------------
(* The refinement *)

\* Named as Capture names it.
Fate(v) == IF v = "busy" THEN "held" ELSE v

\* A step that gives one packet a verdict is a decision of Capture on that packet.
LEMMA OneDecided ==
    ASSUME TypeOK, NEW p \in Pkt, NEW v \in Verdict, verdict' = [verdict EXCEPT ![p] = v], UNCHANGED opened
    PROVE  Promise!Decide({p}, Fate(verdict[p]), Fate(v))
<1>1. \A q \in Pkt : verdict'[q] = IF q = p THEN v ELSE verdict[q]
  BY DEF TypeOK
<1> QED BY <1>1 DEF Promise!Decide, Fate

\* A step that leaves verdict and opened alone is no step of Capture.
LEMMA NoneDecided == ASSUME UNCHANGED <<verdict, opened>> PROVE UNCHANGED Promise!fates
BY DEF Promise!fates

\* NF_ACCEPT of a context that holds its skb passes it.
LEMMA AcceptPasses ==
    ASSUME TypeOK, HolderInv, NEW c \in Ctx, Holding(c), Accept(c), UNCHANGED opened
    PROVE  Promise!Next
<1>1. hpkt[c] \in Pkt /\ verdict[hpkt[c]] = "busy" /\ verdict' = [verdict EXCEPT ![hpkt[c]] = "direct"]
  BY DEF HolderInv, HookHolds, Accept, TypeOK
<1>2. Promise!Decide({hpkt[c]}, "held", "direct")
  BY <1>1, OneDecided DEF Fate
<1> QED BY <1>1, <1>2 DEF Promise!Next, Promise!Pass

\* Every step of the kernel module and of its daemons is a step of Capture or leaves it unchanged.
LEMMA CaptureStep == Inv /\ HolderInv /\ [Next]_vars => [Promise!Next]_(Promise!fates)
<1> SUFFICES ASSUME Inv, HolderInv, [Next]_vars PROVE Promise!Next \/ UNCHANGED Promise!fates
  OBVIOUS
<1>0. TypeOK /\ SessionInv
  BY DEF Inv
<1>1. ASSUME NEW c \in Ctx, NEW p \in Pkt, HookEnter(c, p) PROVE Promise!Next
  <2>1. verdict[p] = "new" /\ UNCHANGED opened
    BY <1>1 DEF HookEnter, table
  <2>2. CASE live /\ p \in Stealable
    <3>1. verdict' = [verdict EXCEPT ![p] = "busy"]
      BY <1>1, <2>2 DEF HookEnter
    <3>2. opened
      BY <1>0, <2>2 DEF SessionInv, At
    <3>3. Promise!Decide({p}, "new", "held")
      BY <1>0, <2>1, <3>1, OneDecided DEF Fate
    <3> QED BY <2>2, <3>2, <3>3 DEF Promise!Next, Promise!Hold
  <2>3. CASE ~(live /\ p \in Stealable)
    <3>1. verdict' = [verdict EXCEPT ![p] = "direct"]
      BY <1>1, <2>3 DEF HookEnter
    <3>2. Promise!Decide({p}, "new", "direct")
      BY <1>0, <2>1, <3>1, OneDecided DEF Fate
    <3> QED BY <3>2 DEF Promise!Next, Promise!Pass
  <2> QED BY <2>2, <2>3
<1>2. ASSUME NEW c \in Ctx, Hook(c) PROVE Promise!Next \/ UNCHANGED Promise!fates
  <2>1. CASE HookUid(c) \/ HookDirect(c) \/ HookListening(c) \/ HookRoom(c)
    <3>1. Holding(c) /\ UNCHANGED opened
      BY <2>1 DEF HookUid, HookDirect, HookListening, HookRoom, Holding, table
    <3>2. Accept(c) \/ UNCHANGED verdict
      BY <2>1 DEF HookUid, HookDirect, HookListening, HookRoom, Continue
    <3> QED BY <1>0, <3>1, <3>2, AcceptPasses, NoneDecided
  <2>2. CASE HookEnqueue(c) \/ HookSchedule(c)
    BY <2>2, NoneDecided DEF HookEnqueue, HookSchedule, Continue, table
  <2> QED BY <1>2, <2>1, <2>2 DEF Hook
<1>3. CASE Worker
  <2>1. CASE WorkerStart \/ WorkerDequeue
    BY <2>1, NoneDecided DEF WorkerStart, WorkerDequeue, table
  <2>2. ASSUME Working, UNCHANGED opened, verdict' = [verdict EXCEPT ![wpkt] = "dropped"] PROVE Promise!Next
    <3>1. wpkt \in Pkt /\ verdict[wpkt] = "busy"
      BY <1>0, <2>2 DEF HolderInv, WorkerHolds, TypeOK
    <3>2. Promise!Decide({wpkt}, "held", "dropped")
      BY <1>0, <2>2, <3>1, OneDecided DEF Fate
    <3>3. {wpkt} \in SUBSET Pkt
      BY <3>1
    <3> QED BY <3>2, <3>3 DEF Promise!Next, Promise!Drop
  <2>3. CASE WorkerCheck
    BY <2>2, <2>3, NoneDecided DEF WorkerCheck, Working, table
  <2>4. CASE WorkerDeliver
    <3>1. Working /\ wpc = "deliver" /\ UNCHANGED opened
      BY <2>4 DEF WorkerDeliver, Working, table
    <3>2. CASE verdict' = [verdict EXCEPT ![wpkt] = "dropped"]
      BY <2>2, <3>1, <3>2
    <3>3. CASE verdict' = [verdict EXCEPT ![wpkt] = "delivered"]
      <4>1. wpkt \in Pkt /\ verdict[wpkt] = "busy"
        BY <1>0, <3>1 DEF HolderInv, WorkerHolds, TypeOK
      <4>2. opened
        BY <1>0, <3>1 DEF SessionInv, At
      <4>3. Promise!Decide({wpkt}, "held", "delivered")
        BY <1>0, <3>1, <3>3, <4>1, OneDecided DEF Fate
      <4> QED BY <4>1, <4>2, <4>3 DEF Promise!Next, Promise!Deliver
    <3> QED BY <2>4, <3>2, <3>3 DEF WorkerDeliver
  <2> QED BY <1>3, <2>1, <2>3, <2>4 DEF Worker
<1>4. ASSUME NEW d \in Daemon, Control(d) \/ ReleaseLive(d) PROVE Promise!Next \/ UNCHANGED Promise!fates
  <2>1. CASE CtlOpen(d)
    <3>1. ~opened /\ opened' = TRUE /\ UNCHANGED verdict
      BY <2>1 DEF CtlOpen
    <3> QED BY <3>1 DEF Promise!Next, Promise!Open
  <2>2. CASE ~CtlOpen(d)
    <3>1. UNCHANGED <<verdict, opened>>
      BY <1>4, <2>2 DEF Control, CtlLive, SetListeners, ClearUids, SetBypass, SetUidsEmpty, SetUids,
                        SetUidsFails, ReleaseLive
    <3> QED BY <3>1, NoneDecided
  <2> QED BY <2>1, <2>2
<1>5. ASSUME NEW d \in Daemon, Release(d) PROVE Promise!Next \/ UNCHANGED Promise!fates
  <2>1. CASE ReleasePurge(d)
    <3> DEFINE S == {p \in Pkt : \E i \in DOMAIN steal_q : steal_q[i] = p}
    <3>1. UNCHANGED opened /\ \A p \in Pkt : verdict'[p] = IF p \in S THEN "dropped" ELSE verdict[p]
      BY <2>1 DEF ReleasePurge
    <3>2. \A p \in S : verdict[p] = "busy"
      BY <1>0 DEF HolderInv, QueueHolds, TypeOK
    <3>3. Promise!Decide(S, "held", "dropped")
      BY <3>1, <3>2 DEF Promise!Decide
    <3>4. S \in SUBSET Pkt
      OBVIOUS
    <3> QED BY <3>3, <3>4 DEF Promise!Next, Promise!Drop
  <2>2. CASE ReleaseOpened(d)
    <3>1. opened /\ opened' = FALSE /\ UNCHANGED verdict
      BY <1>0, <2>2 DEF ReleaseOpened, Step, SessionInv
    <3> QED BY <3>1 DEF Promise!Next, Promise!Close
  <2>3. CASE ~ReleasePurge(d) /\ ~ReleaseOpened(d)
    <3>1. UNCHANGED <<verdict, opened>>
      BY <1>5, <2>3 DEF Release, ReleaseListeners, ReleaseUids, ReleaseCancel, ReleaseCancelled
    <3> QED BY <3>1, NoneDecided
  <2> QED BY <2>1, <2>2, <2>3
<1>6. CASE UNCHANGED vars
  BY <1>6, NoneDecided DEF vars
<1> QED BY <1>1, <1>2, <1>3, <1>4, <1>5, <1>6 DEF Next

\* The kernel module implements Capture: each packet is decided once, held only if it can be stolen,
\* and delivered only while a daemon has the control node.
THEOREM ImplementsCapture == Spec => DecidesOnce
<1>1. Init => Promise!Init
  BY DEF Init, Promise!Init
<1>2. Inv /\ HolderInv /\ [Next]_vars => [Promise!Next]_(Promise!fates)
  BY CaptureStep
<1> QED BY <1>1, <1>2, OneOwner, Invariance, PTL DEF Spec, DecidesOnce, Promise!Spec
=============================================================================
