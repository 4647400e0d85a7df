------------------------------ MODULE Netlink ------------------------------
(***************************************************************************)
(* Kernel dumps and their three users (fluxd/netlink): the SSID watch of   *)
(* genl.rs, the readiness probe and the socket reset of sock_diag.rs, on   *)
(* top of RequestSocket and feed_dump (wire.rs) and TrustedSnapshot        *)
(* (snapshot.rs).                                                          *)
(*                                                                         *)
(* The kernel's answer to a dump comes one datagram at a time while the    *)
(* table changes; a datagram carries one message here.  An item is         *)
(* [id, family, uid, live]: an associated station, or a socket.  Requests  *)
(* are numbered and the 32 bits of the number never wrap here.             *)
(***************************************************************************)
EXTENDS Values

CONSTANTS
    Items,      \* what the dumped table may hold
    Rounds,     \* dumps of one probe or reset: one per family and protocol
    Wanted,     \* the UIDs that destroy_tcp_for_uids is called with
    DestroyMax, \* SOCK_DESTROY_MAX
    Budget,     \* DRAIN_MESSAGE_BUDGET
    Backlog     \* datagrams the socket's buffer holds

VARIABLES
    use,        \* "watch", "probe" or "destroy"
    table,      \* the kernel's items
    kdump,      \* the kernel's dump in progress: [seq, left, intr], or Nil
    inbox,      \* datagrams: [seq, kind, item, intr, trunc]
    overrun,    \* the socket's buffer overflowed: the next receive says ENOBUFS
    client,     \* the daemon's side
    switched,   \* "on", "off" (a disable file) or "again": on, and its convergence to come
    during      \* the tables there were since the current dump was requested

netvars == <<use, table, kdump, inbox, overrun, client, switched, during>>

ASSUME NetlinkAssumption == Rounds \in Nat \ {0} /\ Budget \in Nat /\ Backlog \in Nat /\ DestroyMax \in Nat

\* client: pc, the round and number of the dump, its items so far, messages kept for
\* later, wifi_changed (stale), what was last read (view: Nil when unreadable), the
\* result of each round (Nil for a family without a dump), and the sockets reset.
Client0 == [pc |-> "idle", round |-> 1, seq |-> 0, collected |-> {}, pending |-> <<>>,
            stale |-> TRUE, view |-> Nil, found |-> [r \in {} |-> {}], killed |-> {}]

NetlinkStart(u, t) ==
    /\ use = u /\ table = t /\ kdump = Nil /\ inbox = <<>> /\ overrun = FALSE
    /\ client = Client0 /\ switched = "on" /\ during = {t}

----------------------------------------------------------------------------
\* The kernel (external).

Family(r) == IF use = "watch" THEN Items ELSE {i \in Items : i.family = r}
Message(seq, kind, item, intr) == [seq |-> seq, kind |-> kind, item |-> item, intr |-> intr, trunc |-> FALSE]

\* The table changes; the watch has joined the multicast group, and a full buffer drops
\* the event and remembers that it did.  A running dump is marked as interrupted, though
\* socket dumps have no such mark.
TableChanges ==
    /\ Change
    /\ \E i \in Items : table' = IF i \in table THEN table \ {i} ELSE table \cup {i}
    /\ during' = during \cup {table'}
    /\ kdump' = IF kdump = Nil THEN Nil ELSE [kdump EXCEPT !.intr = use = "watch"]
    /\ IF use # "watch" THEN UNCHANGED <<inbox, overrun>>
       ELSE IF Len(inbox) < Backlog
       THEN inbox' = Append(inbox, Message(0, "event", Nil, FALSE)) /\ UNCHANGED overrun
       ELSE overrun' = TRUE /\ UNCHANGED inbox
    /\ UNCHANGED <<use, client, switched>>

\* One more datagram of the dump: an item that is still there, or the end.
KernelSends ==
    /\ kdump # Nil /\ Len(inbox) < Backlog
    /\ \/ /\ kdump.left \cap table = {}
          /\ inbox' = Append(inbox, Message(kdump.seq, "done", Nil, kdump.intr))
          /\ kdump' = Nil
       \/ \E i \in kdump.left \cap table :
          /\ \A k \in kdump.left \cap table : i.id <= k.id
          /\ inbox' = Append(inbox, Message(kdump.seq, "item", i, kdump.intr))
          /\ kdump' = [kdump EXCEPT !.left = @ \ {i}, !.intr = FALSE]
    /\ UNCHANGED <<use, table, overrun, client, switched, during, changes>>

\* A datagram does not fit the receiver's buffer.
Truncated ==
    /\ Change /\ inbox # <<>> /\ Head(inbox).kind # "event"
    /\ inbox' = [inbox EXCEPT ![1].trunc = TRUE]
    /\ UNCHANGED <<use, table, kdump, overrun, client, switched, during>>

----------------------------------------------------------------------------
\* RequestSocket.

\* Mutant of feed_dump: a datagram that brings nothing more ends the dump.
feed_dump_Short(message) ==
    CASE message.trunc \/ message.intr \/ message.kind = "error" -> "failed"
      [] ~message.trunc /\ ~message.intr /\ message.kind = "item" -> "complete"
      [] OTHER -> "complete"

\* feed_dump, finish_dump and TrustedSnapshot::try_from_parts: a dump is complete only at
\* its end, and only when no message of it was cut short or interrupted.
feed_dump(message) ==
    CASE message.trunc \/ message.intr \/ message.kind = "error" -> "failed"
      [] ~message.trunc /\ ~message.intr /\ message.kind = "item" -> "more"
      [] OTHER -> "complete"

\* Mutant of Matches: whatever arrives belongs to the current request.
Matches_Any(message) == message.kind # "event"

\* recv_matching: a message of another request is not part of this answer.
Matches(message) == message.seq = client.seq

\* drain_messages and GenlSocket::drain: TRUE for Changed and Resync.
drain(received) ==
    LET Tells(m) == m.kind \in {"event", "error"} \/ m.trunc IN
    \/ overrun \/ Len(received) >= Budget
    \/ \E i \in DOMAIN client.pending : Tells(client.pending[i])
    \/ \E i \in DOMAIN received : Tells(received[i])

\* What draining leaves in the buffer: an overrun ends it at once, the budget later.
Undrained(received) == IF overrun THEN received ELSE SubSeq(received, Budget + 1, Len(received))

\* next_seq and send, for the dump of round r; a dump that still runs makes it busy.
Request(r) ==
    /\ client' = [client EXCEPT !.pc = "dump", !.round = r, !.seq = @ + 1, !.collected = {}]
    /\ during' = {table}
    /\ IF kdump = Nil
       THEN kdump' = [seq |-> client.seq + 1, left |-> Family(r), intr |-> FALSE] /\ UNCHANGED inbox
       ELSE inbox' = Append(inbox, Message(client.seq + 1, "error", Nil, FALSE)) /\ UNCHANGED kdump

----------------------------------------------------------------------------
\* The users.

\* mark_ssid_unreadable, or the next attempt of a probe, or the error of a reset.
DumpFails ==
    IF use = "watch"
    THEN client' = [client EXCEPT !.pc = "idle", !.view = Nil, !.stale = FALSE]
    ELSE client' = [client EXCEPT !.pc = "failed"]

\* Mutant of Evaluated: the events of the dump's duration are dropped.
Evaluated_NoFollowUp(rest) ==
    /\ client' = [client EXCEPT !.pc = "idle", !.view = client.collected, !.pending = <<>>, !.stale = FALSE]
    /\ inbox' = Undrained(rest) /\ overrun' = FALSE

\* evaluate_ssid after the dump: the socket is drained, and an event that came
\* meanwhile asks for another dump.
Evaluated(rest) ==
    /\ client' = [client EXCEPT !.pc = "idle", !.view = client.collected, !.pending = <<>>,
                                !.stale = drain(rest)]
    /\ inbox' = Undrained(rest) /\ overrun' = FALSE

\* One datagram is received (dump, on_readable, dump_tcp_family).
Receive ==
    /\ client.pc = "dump" /\ inbox # <<>> /\ ~overrun
    /\ LET message == Head(inbox)
           verdict == feed_dump(message)
       IN CASE ~message.trunc /\ ~Matches(message) ->
                 /\ client' = [client EXCEPT !.pending = Append(@, message)]
                 /\ inbox' = Tail(inbox) /\ UNCHANGED overrun
            [] (message.trunc \/ Matches(message)) /\ verdict = "failed" ->
                 DumpFails /\ inbox' = Tail(inbox) /\ UNCHANGED overrun
            [] ~message.trunc /\ Matches(message) /\ verdict = "more" ->
                 /\ client' = [client EXCEPT !.collected = @ \cup {message.item}]
                 /\ inbox' = Tail(inbox) /\ UNCHANGED overrun
            [] ~message.trunc /\ Matches(message) /\ verdict = "complete" /\ use = "watch" ->
                 Evaluated(Tail(inbox))
            [] OTHER ->
                 /\ client' = [client EXCEPT
                        !.found = [r \in 1..client.round |->
                                     IF r = client.round THEN client.collected ELSE client.found[r]],
                        !.pc = "round"]
                 /\ inbox' = Tail(inbox) /\ UNCHANGED overrun
    /\ UNCHANGED <<use, table, kdump, switched, during, changes>>

\* ENOBUFS, or three seconds without a datagram.
ReceiveFails ==
    /\ client.pc = "dump"
    /\ \/ overrun /\ UNCHANGED changes
       \/ ~overrun /\ inbox = <<>> /\ Change
    /\ DumpFails /\ overrun' = FALSE
    /\ UNCHANGED <<use, table, kdump, inbox, switched, during>>

\* handle_nl80211: the descriptor is readable, everything is drained; while Flux is
\* disabled that is all.
handle_nl80211 ==
    /\ use = "watch" /\ client.pc = "idle" /\ (inbox # <<>> \/ overrun)
    /\ client' = [client EXCEPT !.pending = <<>>, !.stale = @ \/ (drain(inbox) /\ switched # "off")]
    /\ inbox' = Undrained(inbox) /\ overrun' = FALSE
    /\ UNCHANGED <<use, table, kdump, switched, during, changes>>

\* The disable file comes and goes at any time; that the daemon hears of it is Watch's matter.
Switch ==
    /\ use = "watch"
    /\ \/ switched = "off" /\ switched' = "again" /\ UNCHANGED changes
       \/ switched # "off" /\ switched' = "off" /\ Change
    /\ UNCHANGED <<use, table, kdump, inbox, overrun, client, during>>

\* Mutant of Evaluate: the convergence after an enable trusts the view it has.
Evaluate_Trusts ==
    /\ use = "watch" /\ client.pc = "idle"
    /\ \/ client.stale /\ Request(1) /\ UNCHANGED switched
       \/ /\ switched = "again" /\ switched' = "on"
          /\ IF client.view = Nil THEN Request(1) ELSE UNCHANGED <<client, during, kdump, inbox>>
    /\ UNCHANGED <<use, table, overrun, changes>>

\* The debounce timer of a change (take_debounce_stimulus, disabled or not), the first
\* evaluation, or that of the convergence an enable brings.
Evaluate ==
    /\ use = "watch" /\ client.pc = "idle"
    /\ \/ client.stale /\ Request(1) /\ UNCHANGED switched
       \/ switched = "again" /\ switched' = "on" /\ Request(1)
    /\ UNCHANGED <<use, table, overrun, changes>>

\* The round a probe or a reset comes to.
Coming == {r \in 1..Rounds : \/ client.pc = "idle" /\ r = 1
                             \/ client.pc = "round" /\ r = client.round + 1}

\* ProbeReady::start, send_current and the dumps of a reset.
NextRound ==
    /\ use # "watch"
    /\ \E r \in Coming : Request(r)
    /\ UNCHANGED <<use, table, overrun, switched, changes>>

\* The kernel has no socket dump for this family (ENOENT): a reset goes on without it.
Unsupported ==
    /\ use = "destroy" /\ Change
    /\ \E r \in Coming :
          client' = [client EXCEPT !.pc = "round", !.round = r, !.seq = @ + 1,
                                   !.found = [q \in 1..r |-> IF q = r THEN Nil ELSE client.found[q]]]
    /\ UNCHANGED <<use, table, kdump, inbox, overrun, switched, during>>

\* finish_round, or the targets are known.
Finished ==
    /\ client.pc = "round" /\ client.round = Rounds
    /\ client' = [client EXCEPT !.pc = IF use = "probe" THEN "done" ELSE "kill"]
    /\ UNCHANGED <<use, table, kdump, inbox, overrun, switched, during, changes>>

\* A probe that failed starts over on a new socket.
Retry ==
    /\ use = "probe" /\ client.pc = "failed" /\ Change
    /\ client' = Client0 /\ kdump' = Nil /\ inbox' = <<>> /\ overrun' = FALSE
    /\ UNCHANGED <<use, table, switched, during>>

\* What the rounds found.
Seen == UNION {client.found[r] : r \in {q \in 1..Rounds : client.found[q] # Nil}}

\* Mutant of Targets: every live socket is reset.
Targets_AnyUid == {i \in Seen : i.live}

\* destroy_tcp_for_uids: never root or the overflow UID, and no listening socket.
Targets == {i \in Seen : i.uid \in Wanted \ {0, OverflowUid} /\ i.live}

\* The first SOCK_DESTROY_MAX of them, in the order of the dumps.
Aimed ==
    LET Before(i) == {k \in Targets : k.family < i.family \/ (k.family = i.family /\ k.id < i.id)} IN
    {i \in Targets : Cardinality(Before(i)) < DestroyMax}

\* SOCK_DESTROY by cookie; a socket that is gone is counted, another error ends it.
Destroy ==
    /\ client.pc = "kill"
    /\ \/ \E i \in Aimed \ client.killed :
             /\ client' = [client EXCEPT !.killed = @ \cup {i}]
             /\ table' = table \ {i}
             /\ UNCHANGED changes
       \/ Aimed # {} /\ Change /\ client' = [client EXCEPT !.pc = "failed"] /\ UNCHANGED table
       \/ Aimed \subseteq client.killed /\ client' = [client EXCEPT !.pc = "done"] /\ UNCHANGED <<table, changes>>
    /\ UNCHANGED <<use, kdump, inbox, overrun, switched, during>>

NetlinkNext ==
    \/ TableChanges \/ KernelSends \/ Truncated
    \/ Receive \/ ReceiveFails \/ handle_nl80211 \/ Switch \/ Evaluate
    \/ NextRound \/ Unsupported \/ Finished \/ Retry \/ Destroy

----------------------------------------------------------------------------
\* Properties.

\* feed_dump: "not seen" is not "absent".  What a round that was dumped has found includes
\* every item that was there all along and nothing that never was, and a watched view was
\* the whole table at one moment.
DumpTruthful ==
    /\ client.pc = "round" /\ client.found[client.round] # Nil =>
          /\ {i \in Family(client.round) : \A t \in during : i \in t} \subseteq client.found[client.round]
          /\ client.found[client.round] \subseteq UNION during
    /\ use = "watch" /\ client.pc = "idle" /\ client.view # Nil => client.view \in during

\* evaluate_ssid, handle_nl80211: a view that is no longer the table's will be read again,
\* because an event is on its way or was seen.  While Flux is disabled events are drained
\* and ignored: the view may then stay old, but no longer than until the convergence that
\* an enable brings, which reads again.
ChangeIsNoticed ==
    use = "watch" /\ client.pc = "idle" /\ client.view # Nil /\ client.view # table =>
        client.stale \/ inbox # <<>> \/ overrun \/ switched # "on"

\* destroy_tcp_for_uids: a reset hits only the users who left, never root or the overflow
\* UID, and nothing at all before each family was read to its end or refused by the kernel
\* as one it does not dump; a family that was cut short is neither.
ResetsOnlyTheLeavers ==
    \A i \in client.killed :
        /\ i.uid \in Wanted \ {0, OverflowUid} /\ i.live
        /\ DOMAIN client.found = 1..Rounds

\* drain_messages, on_readable: what is concluded from a dump holds for all that was dumped,
\* and no socket is reset on a dump that was cut short.
DumpsAreWhole == DumpTruthful /\ ResetsOnlyTheLeavers
=============================================================================
