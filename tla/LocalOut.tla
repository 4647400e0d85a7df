------------------------------ MODULE LocalOut ------------------------------
(***************************************************************************)
(* The LOCAL_OUT kernel module (kmod/fluxrs_hook.c, fluxrs_ctl.c and the   *)
(* publication side of fluxrs_bypass.c) together with the fluxd code that  *)
(* drives its control node (dataplane/platform.rs apply_policy, kmod.rs).  *)
(*                                                                         *)
(* Three kinds of actors run concurrently:                                 *)
(*   - hook contexts: fluxrs_local_out, one call per packet, on any CPU;   *)
(*   - the steal worker: fluxrs_steal_workfn, a single work item that the  *)
(*     workqueue never runs twice at the same time;                        *)
(*   - daemons: fluxd processes that open, drive and close /dev/fluxrs.    *)
(* Every read or write of state shared between them is a step of its own.  *)
(*                                                                         *)
(* Abstractions.  A policy epoch is a number; Selected[e] and Direct[e]    *)
(* are the UIDs and destinations epoch e selects and bypasses, epoch 0 is  *)
(* the empty policy.  The UID table is published as a whole: the two       *)
(* writes of uid_n around the memcpy are separate steps, the binary search *)
(* is one read.  The per-packet socket lookup and the preparation for      *)
(* local delivery either succeed or fail.  Counters are left out.          *)
(***************************************************************************)
EXTENDS Naturals, Sequences, FiniteSets

CONSTANTS
    Pkt,        \* skbs that leave the device, each passes the hook once
    Uid,        \* UIDs of their sockets
    Dst,        \* destinations
    UidOf,      \* Pkt -> Uid, the sk_uid of the owning socket
    DstOf,      \* Pkt -> Dst
    Stealable,  \* packets with a full socket, an app UID and TCP or UDP
    Reserved,   \* destinations fluxrs_reserved_dest always passes
    Ctx,        \* contexts that can be inside the hook at the same time
    Daemon,     \* fluxd processes
    MaxEpoch,   \* policy epochs the daemons compute
    Selected,   \* 0..MaxEpoch -> SUBSET Uid
    Direct,     \* 0..MaxEpoch -> SUBSET Dst
    QMAX        \* FLUXRS_STEAL_QMAX

Epoch == 0..MaxEpoch

ASSUME LocalOutAssumption ==
    /\ UidOf \in [Pkt -> Uid] /\ DstOf \in [Pkt -> Dst]
    /\ Stealable \subseteq Pkt /\ Reserved \subseteq Dst
    /\ IsFiniteSet(Ctx) /\ Ctx # {}
    /\ MaxEpoch \in Nat
    /\ Selected \in [Epoch -> SUBSET Uid] /\ Selected[0] = {}
    /\ Direct \in [Epoch -> SUBSET Dst]
    /\ QMAX \in Nat \ {0}

VARIABLES
    live, listeners_set, opened,   \* fluxrs_hook.c, fluxrs_ctl.c statics
    uids,          \* epoch of the published UID table, 0 while uid_n is 0
    bypass_live,   \* epoch of the RCU-published bypass set
    epoch,         \* the last epoch a daemon has computed
    steal_q,       \* sk_buff_head
    pending,       \* steal_work is queued
    canceling,     \* cancel_work_sync holds the work item
    wpc, wpkt,     \* the worker and the skb it holds
    hpc, hpkt,     \* the hook contexts and their skbs
    hepoch,        \* epoch of the table a context matched its UID in
    dpc,           \* the daemons
    from,          \* what live_epoch returns in the fluxd that holds the flock
    verdict        \* what has happened to each packet

vars == <<live, listeners_set, opened, uids, bypass_live, epoch, steal_q, pending,
          canceling, wpc, wpkt, hpc, hpkt, hepoch, dpc, from, verdict>>
table == <<live, listeners_set, opened, uids, bypass_live, epoch, dpc, from>>
hooks == <<hpc, hpkt, hepoch>>
work  == <<steal_q, pending, canceling, wpc, wpkt>>

HookPC   == {"out", "uid", "direct", "listening", "room", "enqueue", "schedule"}
WorkerPC == {"idle", "drain", "check", "deliver"}
\* Between open and close; the policy update is inside it.
Session   == {"open", "bypassed", "emptied"}
\* Inside fluxrs_ctl_release, after the store that the name says.
Releasing == {"dead", "unlistened", "unselected", "cancel", "purge", "purged"}
DaemonPC == {"closed", "opening"} \cup Session \cup Releasing
Verdict  == {"new", "busy", "direct", "delivered", "dropped"}

Init ==
    /\ live = FALSE /\ listeners_set = FALSE /\ opened = FALSE
    /\ uids = 0 /\ bypass_live = 0 /\ epoch = 0
    /\ steal_q = <<>> /\ pending = FALSE /\ canceling = FALSE
    /\ wpc = "idle" /\ wpkt \in Pkt
    /\ hpc = [c \in Ctx |-> "out"] /\ hpkt \in [Ctx -> {wpkt}]
    /\ hepoch = [c \in Ctx |-> 0]
    /\ dpc = [d \in Daemon |-> "closed"] /\ from = 0
    /\ verdict = [p \in Pkt |-> "new"]

-----------------------------------------------------------------------------
(* fluxrs_local_out *)

\* The hook's verdict is NF_ACCEPT: the packet leaves the device unproxied.
Accept(c) ==
    /\ hpc' = [hpc EXCEPT ![c] = "out"]
    /\ verdict' = [verdict EXCEPT ![hpkt[c]] = "direct"]
    /\ UNCHANGED <<hpkt, hepoch>>

Continue(c, pc) ==
    /\ hpc' = [hpc EXCEPT ![c] = pc]
    /\ UNCHANGED <<hpkt, hepoch, verdict>>

HookEnter(c, p) ==
    /\ hpc[c] = "out" /\ verdict[p] = "new"
    /\ IF live /\ p \in Stealable
       THEN /\ hpc' = [hpc EXCEPT ![c] = "uid"]
            /\ hpkt' = [hpkt EXCEPT ![c] = p]
            /\ verdict' = [verdict EXCEPT ![p] = "busy"]
       ELSE /\ verdict' = [verdict EXCEPT ![p] = "direct"]
            /\ UNCHANGED <<hpc, hpkt>>
    /\ UNCHANGED <<hepoch, table, work>>

\* uid_selected reads uid_n and the table it counts.
HookUid(c) ==
    /\ hpc[c] = "uid"
    /\ IF UidOf[hpkt[c]] \in Selected[uids]
       THEN /\ hpc' = [hpc EXCEPT ![c] = "direct"]
            /\ hepoch' = [hepoch EXCEPT ![c] = uids]
            /\ UNCHANGED <<hpkt, verdict>>
       ELSE Accept(c)
    /\ UNCHANGED <<table, work>>

\* fluxrs_reserved_dest, then fluxrs_policy_direct under rcu_read_lock.
HookDirect(c) ==
    /\ hpc[c] = "direct"
    /\ IF DstOf[hpkt[c]] \in Reserved \cup Direct[bypass_live]
       THEN Accept(c)
       ELSE Continue(c, "listening")
    /\ UNCHANGED <<table, work>>

HookListening(c) ==
    /\ hpc[c] = "listening"
    /\ IF listeners_set THEN Continue(c, "room") ELSE Accept(c)
    /\ UNCHANGED <<table, work>>

\* Mutant of HookRoom: an off-by-one in the length test.
HookRoom_OneMore(c) ==
    /\ hpc[c] = "room"
    /\ IF Len(steal_q) > QMAX THEN Accept(c) ELSE Continue(c, "enqueue")
    /\ UNCHANGED <<table, work>>

\* skb_queue_len_lockless takes no lock: other contexts may be past it too.
HookRoom(c) ==
    /\ hpc[c] = "room"
    /\ IF Len(steal_q) >= QMAX THEN Accept(c) ELSE Continue(c, "enqueue")
    /\ UNCHANGED <<table, work>>

HookEnqueue(c) ==
    /\ hpc[c] = "enqueue"
    /\ steal_q' = Append(steal_q, hpkt[c])
    /\ Continue(c, "schedule")
    /\ UNCHANGED <<table, pending, canceling, wpc, wpkt>>

\* Mutant of HookSchedule: the verdict of a queued skb is NF_ACCEPT.
HookSchedule_Accepts(c) ==
    /\ hpc[c] = "schedule"
    /\ pending' = (pending \/ ~canceling)
    /\ Accept(c)
    /\ UNCHANGED <<table, steal_q, canceling, wpc, wpkt>>

\* schedule_work does nothing while the item is pending or being cancelled.
HookSchedule(c) ==
    /\ hpc[c] = "schedule"
    /\ pending' = (pending \/ ~canceling)
    /\ hpc' = [hpc EXCEPT ![c] = "out"]
    /\ UNCHANGED <<table, hpkt, hepoch, verdict, steal_q, canceling, wpc, wpkt>>

-----------------------------------------------------------------------------
(* fluxrs_steal_workfn *)

\* The workqueue clears the pending bit, then calls the function.
WorkerStart ==
    /\ pending /\ wpc = "idle"
    /\ pending' = FALSE /\ wpc' = "drain"
    /\ UNCHANGED <<table, hooks, steal_q, canceling, wpkt, verdict>>

WorkerDequeue ==
    /\ wpc = "drain"
    /\ IF steal_q = <<>>
       THEN wpc' = "idle" /\ UNCHANGED <<steal_q, wpkt>>
       ELSE wpc' = "check" /\ wpkt' = Head(steal_q) /\ steal_q' = Tail(steal_q)
    /\ UNCHANGED <<table, hooks, pending, canceling, verdict>>

\* fluxrs_steal_one: the skb is freed when the hook is no longer live ...
WorkerCheck ==
    /\ wpc = "check"
    /\ IF live
       THEN wpc' = "deliver" /\ UNCHANGED verdict
       ELSE wpc' = "drain" /\ verdict' = [verdict EXCEPT ![wpkt] = "dropped"]
    /\ UNCHANGED <<table, hooks, steal_q, pending, canceling, wpkt>>

\* Mutant of WorkerDeliver: the function takes one skb per run, not all.
WorkerDeliver_Once ==
    /\ wpc = "deliver" /\ wpc' = "idle"
    /\ \E v \in {"delivered", "dropped"} :
          /\ v = "delivered" => listeners_set
          /\ verdict' = [verdict EXCEPT ![wpkt] = v]
    /\ UNCHANGED <<table, hooks, steal_q, pending, canceling, wpkt>>

\* ... or no listener is set; otherwise the listener socket is found and the skb
\* delivered to it, or the lookup or the preparation fails and the skb is freed.
WorkerDeliver ==
    /\ wpc = "deliver"
    /\ wpc' = "drain"
    /\ \E v \in {"delivered", "dropped"} :
          /\ v = "delivered" => listeners_set
          /\ verdict' = [verdict EXCEPT ![wpkt] = v]
    /\ UNCHANGED <<table, hooks, steal_q, pending, canceling, wpkt>>

-----------------------------------------------------------------------------
(* /dev/fluxrs: open, the ioctls of one convergence, release *)

Step(d, a, b) == dpc[d] = a /\ dpc' = [dpc EXCEPT ![d] = b]

\* Mutant of CtlOpen: the node is not exclusive.
CtlOpen_Shared(d) ==
    /\ opened' = TRUE
    /\ Step(d, "closed", "opening")
    /\ UNCHANGED <<live, listeners_set, uids, bypass_live, epoch, from, hooks, work,
                   verdict>>

\* atomic_cmpxchg(&opened, 0, 1); a second opener gets -EBUSY.
CtlOpen(d) ==
    /\ ~opened /\ opened' = TRUE
    /\ Step(d, "closed", "opening")
    /\ UNCHANGED <<live, listeners_set, uids, bypass_live, epoch, from, hooks, work,
                   verdict>>

CtlLive(d) ==
    /\ Step(d, "opening", "open")
    /\ live' = TRUE
    /\ UNCHANGED <<listeners_set, opened, uids, bypass_live, epoch, from, hooks, work,
                   verdict>>

SetListeners(d) ==
    /\ dpc[d] = "open" /\ listeners_set' = TRUE
    /\ UNCHANGED <<live, opened, uids, bypass_live, epoch, dpc, from, hooks, work,
                   verdict>>

\* publish_inactive: FLUXRS_CLEAR_UIDS.
ClearUids(d) ==
    /\ dpc[d] = "open" /\ uids' = 0
    /\ UNCHANGED <<live, listeners_set, opened, bypass_live, epoch, dpc, from, hooks,
                   work, verdict>>

\* Mutant of SetBypass: the set published is still that of the epoch before.
SetBypass_Stale(d) ==
    /\ Step(d, "open", "bypassed")
    /\ epoch < MaxEpoch
    /\ epoch' = epoch + 1
    /\ bypass_live' = epoch
    /\ UNCHANGED <<live, listeners_set, opened, uids, from, hooks, work, verdict>>

\* apply_policy, first ioctl: rcu_assign_pointer of the new epoch's bypass set.
SetBypass(d) ==
    /\ Step(d, "open", "bypassed")
    /\ epoch < MaxEpoch
    /\ epoch' = epoch + 1
    /\ bypass_live' = epoch'
    /\ UNCHANGED <<live, listeners_set, opened, uids, from, hooks, work, verdict>>

\* apply_policy, second ioctl: WRITE_ONCE(uid_n, 0) ...
SetUidsEmpty(d) ==
    /\ Step(d, "bypassed", "emptied")
    /\ uids' = 0
    /\ UNCHANGED <<live, listeners_set, opened, bypass_live, epoch, from, hooks, work,
                   verdict>>

\* Mutant of SetUids: the table is numbered one too high.
SetUids_Ahead(d) ==
    /\ Step(d, "emptied", "open")
    /\ uids' = epoch + 1
    /\ from' = epoch
    /\ UNCHANGED <<live, listeners_set, opened, bypass_live, epoch, hooks, work, verdict>>

\* ... and after the memcpy, WRITE_ONCE(uid_n, n).
SetUids(d) ==
    /\ Step(d, "emptied", "open")
    /\ uids' = epoch
    /\ from' = epoch
    /\ UNCHANGED <<live, listeners_set, opened, bypass_live, epoch, hooks, work, verdict>>

\* set_uids fails before its first store (-ENOMEM): the previous set returns, or
\* that fails too, which is ignored.
SetUidsFails(d) ==
    /\ Step(d, "bypassed", "open")
    /\ bypass_live' \in {from, bypass_live}
    /\ UNCHANGED <<live, listeners_set, opened, uids, epoch, from, hooks, work, verdict>>

\* drop_kmod closes the fd and fluxd keeps its live_epoch, or fluxd is killed, also
\* between two ioctls, and its successor starts from none: fluxrs_set_live(false) ...
ReleaseLive(d) ==
    /\ dpc[d] \in {"open", "bypassed"}
    /\ dpc' = [dpc EXCEPT ![d] = "dead"]
    /\ \/ dpc[d] = "open" /\ UNCHANGED from
       \/ from' = 0
    /\ live' = FALSE
    /\ UNCHANGED <<listeners_set, opened, uids, bypass_live, epoch, hooks, work, verdict>>

ReleaseListeners(d) ==
    /\ Step(d, "dead", "unlistened")
    /\ listeners_set' = FALSE
    /\ UNCHANGED <<live, opened, uids, bypass_live, epoch, from, hooks, work, verdict>>

\* Mutant of ReleaseUids: the table outlives the session.
ReleaseUids_Kept(d) ==
    /\ Step(d, "unlistened", "unselected")
    /\ UNCHANGED <<live, listeners_set, opened, uids, bypass_live, epoch, from, hooks, work,
                   verdict>>

ReleaseUids(d) ==
    /\ Step(d, "unlistened", "unselected")
    /\ uids' = 0
    /\ UNCHANGED <<live, listeners_set, opened, bypass_live, epoch, from, hooks, work,
                   verdict>>

\* cancel_work_sync takes the item off the queue and holds it ...
ReleaseCancel(d) ==
    /\ Step(d, "unselected", "cancel")
    /\ pending' = FALSE /\ canceling' = TRUE
    /\ UNCHANGED <<live, listeners_set, opened, uids, bypass_live, epoch, from, hooks,
                   steal_q, wpc, wpkt, verdict>>

\* Mutant of ReleaseCancelled: cancel_work, which does not wait for the function.
ReleaseCancelled_Async(d) ==
    /\ Step(d, "cancel", "purge")
    /\ canceling' = FALSE
    /\ UNCHANGED <<live, listeners_set, opened, uids, bypass_live, epoch, from, hooks,
                   steal_q, pending, wpc, wpkt, verdict>>

\* ... until the function, if it was running, has returned.
ReleaseCancelled(d) ==
    /\ Step(d, "cancel", "purge")
    /\ wpc = "idle" /\ canceling' = FALSE
    /\ UNCHANGED <<live, listeners_set, opened, uids, bypass_live, epoch, from, hooks,
                   steal_q, pending, wpc, wpkt, verdict>>

\* Mutant of ReleasePurge: the queue is left as it is.
ReleasePurge_Skipped(d) ==
    /\ Step(d, "purge", "purged")
    /\ UNCHANGED <<live, listeners_set, opened, uids, bypass_live, epoch, from, hooks, work,
                   verdict>>

\* skb_queue_purge frees every queued skb.
ReleasePurge(d) ==
    /\ Step(d, "purge", "purged")
    /\ verdict' = [p \in Pkt |-> IF \E i \in DOMAIN steal_q : steal_q[i] = p
                                 THEN "dropped" ELSE verdict[p]]
    /\ steal_q' = <<>>
    /\ UNCHANGED <<live, listeners_set, opened, uids, bypass_live, epoch, from, hooks,
                   pending, canceling, wpc, wpkt>>

\* ... then atomic_set(&opened, 0).
ReleaseOpened(d) ==
    /\ Step(d, "purged", "closed")
    /\ opened' = FALSE
    /\ UNCHANGED <<live, listeners_set, uids, bypass_live, epoch, from, hooks, work,
                   verdict>>

-----------------------------------------------------------------------------
Hook(c) ==
    \/ HookUid(c) \/ HookDirect(c) \/ HookListening(c) \/ HookRoom(c)
    \/ HookEnqueue(c) \/ HookSchedule(c)

Worker == WorkerStart \/ WorkerDequeue \/ WorkerCheck \/ WorkerDeliver

Control(d) ==
    \/ CtlOpen(d) \/ CtlLive(d) \/ SetListeners(d) \/ ClearUids(d)
    \/ SetBypass(d) \/ SetUidsEmpty(d) \/ SetUids(d) \/ SetUidsFails(d)

Release(d) ==
    \/ ReleaseListeners(d) \/ ReleaseUids(d) \/ ReleaseCancel(d)
    \/ ReleaseCancelled(d) \/ ReleasePurge(d) \/ ReleaseOpened(d)

Next ==
    \/ \E c \in Ctx : Hook(c) \/ \E p \in Pkt : HookEnter(c, p)
    \/ Worker
    \/ \E d \in Daemon : Control(d) \/ ReleaseLive(d) \/ Release(d)

Spec == Init /\ [][Next]_vars

\* The kernel finishes a hook call, runs a pending work item and completes a
\* release; nothing obliges an app to send or a daemon to issue an ioctl.
Fairness ==
    /\ \A c \in Ctx : WF_vars(Hook(c))
    /\ WF_vars(Worker)
    /\ \A d \in Daemon : WF_vars(Release(d))

FairSpec == Spec /\ Fairness

-----------------------------------------------------------------------------
(* Properties *)

\* Every variable holds a value of its kind.
TypeOK ==
    /\ live \in BOOLEAN /\ listeners_set \in BOOLEAN /\ opened \in BOOLEAN
    /\ uids \in Epoch /\ bypass_live \in Epoch /\ epoch \in Epoch
    /\ steal_q \in Seq(Pkt) /\ pending \in BOOLEAN /\ canceling \in BOOLEAN
    /\ wpc \in WorkerPC /\ wpkt \in Pkt
    /\ hpc \in [Ctx -> HookPC] /\ hpkt \in [Ctx -> Pkt] /\ hepoch \in [Ctx -> Epoch]
    /\ dpc \in [Daemon -> DaemonPC] /\ from \in Epoch
    /\ verdict \in [Pkt -> Verdict]

\* The promise of module Capture, for each packet: opened is the session, and a packet that is in
\* the hands of a hook, of the queue or of the worker is held.
Promise == INSTANCE Capture WITH
    capturing <- opened,
    fate <- [p \in Pkt |-> IF verdict[p] = "busy" THEN "held" ELSE verdict[p]]

\* fluxrs_local_out, fluxrs_steal_workfn and fluxrs_ctl_release implement it: each packet gets one
\* verdict, once, and none is delivered when no daemon has the node, although the hook, the worker
\* and the purge of a release take skbs from each other without a common lock.
DecidesOnce == Promise!Spec

\* A stolen skb is never left in steal_q with nobody coming for it: the work
\* item is pending or running, a hook is about to schedule it, or a release is
\* about to purge the queue.  schedule_work is lost while cancel_work_sync
\* holds the item; that skb must then fall to the purge that follows.
NoStrandedPacket ==
    steal_q # <<>> =>
        \/ pending \/ wpc # "idle"
        \/ \E c \in Ctx : hpc[c] = "schedule"
        \/ \E d \in Daemon : dpc[d] \in {"cancel", "purge"}

\* The lockless length test overshoots FLUXRS_STEAL_QMAX by at most one skb
\* per further context that is between the test and skb_queue_tail.
QueueBound == Len(steal_q) <= QMAX + Cardinality(Ctx) - 1

\* A session is not disturbed by the end of another: while a daemon holds the
\* node it is the only one and the hook is live for it.
SessionIntact ==
    /\ \A d \in Daemon : dpc[d] \in Session => live
    /\ \A d, e \in Daemon : dpc[d] # "closed" /\ dpc[e] # "closed" => d = e

\* When no daemon holds the node (release has returned, killed daemons too)
\* the hook passes everything: not live, no UIDs, no listeners.
ClosedIsDirect ==
    (\A d \in Daemon : dpc[d] = "closed") => ~live /\ uids = 0 /\ ~listeners_set

\* No delivery outlives the session it was checked in: whenever the worker is
\* past its check of live, the daemon that made it live has not finished its
\* release.
NoDeliveryAfterRelease == wpc = "deliver" => \E d \in Daemon : dpc[d] # "closed"

\* A context that matched its UID in the table of epoch e goes on to read the
\* bypass set of e or of a newer epoch, never of an older one (SET_BYPASS before
\* SET_UIDS); the empty set of a daemon whose first update failed is possible.
BypassLeadsUids ==
    \A c \in Ctx : hpc[c] = "direct" => bypass_live = 0 \/ bypass_live >= hepoch[c]

\* Every skb the hook steals is eventually delivered or freed.
StolenIsConsumed ==
    \A p \in Pkt : verdict[p] = "busy" ~> verdict[p] \in {"direct", "delivered", "dropped"}

\* Once a packet of a socket has been handed to the engine, a later packet of
\* that socket is not sent to its real destination by the hook while the hook
\* is live, listening and still selects the UID.
AdmittedStaysCaptured ==
    [][\A p, q \in Pkt :
          /\ p # q /\ UidOf[p] = UidOf[q] /\ DstOf[p] = DstOf[q]
          /\ verdict[q] = "delivered" /\ verdict[p] = "busy"
          /\ live /\ listeners_set /\ UidOf[p] \in Selected[uids]
          /\ DstOf[p] \notin Reserved \cup Direct[bypass_live]
          => verdict'[p] # "direct"]_vars
=============================================================================
