--------------------------- MODULE NetworkProofs ----------------------------
(***************************************************************************)
(* Kernel dumps for any table, any number of rounds, any size of the       *)
(* socket's buffer and any drain budget, and the topology for any finite   *)
(* sets of families and TC slots, whatever was left in the network.        *)
(*                                                                         *)
(* The invariant of a dump accounts for every item that stays in the table *)
(* during it: it has been read, is in the queue before the dump's end, or  *)
(* is still to be sent.  For the watch, whose dumps the kernel marks, a    *)
(* dump without a mark is the table at one moment, and an event of every   *)
(* later change is in the queue, was seen, or was lost to an overrun that  *)
(* is itself remembered.                                                   *)
(*                                                                         *)
(* The invariant of the topology relates the requests that are left to the *)
(* network: while nobody interferes, what a cleanup or a rollback has not  *)
(* requested yet covers every object of ours, and what a creation has not  *)
(* requested yet is all that is missing.  Whoever interferes, what others  *)
(* have where a request that is left may hit it came after Flux looked.    *)
(***************************************************************************)
EXTENDS Netlink, Topology, FiniteSetTheorems, TLAPS

-----------------------------------------------------------------------------
(* Kernel dumps *)

NetlinkSpec ==
    (\E u \in {"watch", "probe", "destroy"}, t \in SUBSET Items : NetlinkStart(u, t))
    /\ [][NetlinkNext]_netvars

MessageType == [seq : Nat, kind : {"item", "done", "event", "error"}, item : Items \cup {Nil},
                intr : BOOLEAN, trunc : BOOLEAN]
KdumpType == [seq : Nat, left : SUBSET Items, intr : BOOLEAN]
Results == (SUBSET Items) \cup {Nil}
Found == UNION {[1..n -> Results] : n \in Nat}
NetClientType ==
    [pc : {"idle", "dump", "round", "kill", "done", "failed"}, round : Nat, seq : Nat,
     collected : SUBSET Items, pending : Seq(MessageType), stale : BOOLEAN,
     view : (SUBSET Items) \cup {Nil}, found : Found, killed : SUBSET Items]
NetTypes ==
    /\ use \in {"watch", "probe", "destroy"} /\ table \in SUBSET Items
    /\ kdump \in KdumpType \cup {Nil} /\ inbox \in Seq(MessageType) /\ overrun \in BOOLEAN
    /\ client \in NetClientType /\ during \in SUBSET SUBSET Items

\* Message k of the queue belongs to request n.
Answers(q, n, k) == q[k].seq = n
\* What a client that has c will have once it has read up to message k of the queue.
ReadUpTo(q, n, c, k) ==
    c \cup {q[j].item : j \in {i \in 1..(k - 1) : i <= Len(q) /\ Answers(q, n, i) /\ q[i].kind = "item"}}
\* A message before k says that the dump was interrupted.
MarkedBefore(q, n, k) == \E j \in 1..(k - 1) : j <= Len(q) /\ Answers(q, n, j) /\ q[j].intr
TellsOfChange(q) == \E i \in DOMAIN q : q[i].kind = "event"

Running == kdump # Nil /\ kdump.seq = client.seq
Steady == {i \in Family(client.round) : \A t \in during : i \in t}
ReadSoFar(k) == ReadUpTo(inbox, client.seq, client.collected, k)
Interrupted(k) == MarkedBefore(inbox, client.seq, k)

\* Where each use stands, and what it has of the rounds before.
PlaceInv ==
    /\ use = "watch" => client.pc \in {"idle", "dump"}
    /\ use # "watch" =>
          /\ client.pc = "idle" => client.found \in [1..0 -> Results]
          /\ client.pc = "dump" => client.found \in [1..(client.round - 1) -> Results]
    /\ client.pc \in {"dump", "round"} => client.round \in 1..Rounds /\ client.seq > 0
    /\ client.pc = "round" => client.found \in [1..client.round -> Results]
    /\ client.pc = "kill" \/ client.killed # {} => client.found \in [1..Rounds -> Results]
    /\ client.pc \in {"idle", "dump", "round"} => client.killed = {}
    /\ \A i \in client.killed : i.uid \in Wanted \ {0, OverflowUid} /\ i.live

\* A dump under way: what stays in the table all along has been read, is on its way or is
\* still to come, and nothing else is on its way.
DumpInv ==
    client.pc = "dump" =>
        /\ table \in during
        /\ client.collected \subseteq UNION during
        /\ \A k \in DOMAIN inbox :
              Answers(inbox, client.seq, k) /\ inbox[k].kind = "item" => inbox[k].item \in UNION during
        /\ Running =>
              /\ \A k \in DOMAIN inbox : Answers(inbox, client.seq, k) => inbox[k].kind # "done"
              /\ Steady \subseteq ReadSoFar(Len(inbox) + 1) \cup kdump.left
        /\ \A k \in DOMAIN inbox :
              Answers(inbox, client.seq, k) /\ inbox[k].kind = "done" => Steady \subseteq ReadSoFar(k)

\* A dump the watch may take for the table: it is marked unless the table stood still.
SnapshotInv ==
    use = "watch" /\ client.pc = "dump" =>
        /\ Running =>
              \/ kdump.intr \/ Interrupted(Len(inbox) + 1)
              \/ during = {table} /\ ReadSoFar(Len(inbox) + 1) = table \ kdump.left
        /\ \A k \in DOMAIN inbox :
              Answers(inbox, client.seq, k) /\ inbox[k].kind = "done" =>
                 inbox[k].intr \/ Interrupted(k) \/ ReadSoFar(k) \in during

\* A change since the dump was requested, or since the view was read, is on its way, or came
\* while Flux was disabled.
NoticeInv ==
    use = "watch" =>
        /\ client.pc = "dump" /\ ~overrun =>
              during = {table} \/ TellsOfChange(client.pending) \/ TellsOfChange(inbox)
        /\ client.pc = "idle" /\ client.view # Nil =>
              /\ client.view \in during
              /\ client.view = table \/ client.stale \/ overrun \/ TellsOfChange(inbox) \/ switched # "on"

\* No message is of a request that was not made, and an event is of none.
NumberInv ==
    /\ kdump # Nil => kdump.seq <= client.seq
    /\ \A k \in DOMAIN inbox : inbox[k].seq <= client.seq
    /\ \A k \in DOMAIN inbox : inbox[k].kind = "event" => inbox[k].seq = 0

FoundInv ==
    client.pc = "round" /\ client.found[client.round] # Nil =>
        /\ Steady \subseteq client.found[client.round]
        /\ client.found[client.round] \subseteq UNION during

NetInv == NetTypes /\ PlaceInv /\ DumpInv /\ SnapshotInv /\ NoticeInv /\ NumberInv /\ FoundInv

\* What a message adds to what is read up to it.
Adds(m, n) == IF m.seq = n /\ m.kind = "item" THEN {m.item} ELSE {}

\* A message that is queued changes nothing of what is read before it.
LEMMA ReadAppended ==
    ASSUME NEW q \in Seq(MessageType), NEW m \in MessageType, NEW n, NEW c
    PROVE  /\ \A k \in 1..(Len(q) + 1) : ReadUpTo(Append(q, m), n, c, k) = ReadUpTo(q, n, c, k)
           /\ ReadUpTo(Append(q, m), n, c, Len(q) + 2) = ReadUpTo(q, n, c, Len(q) + 1) \cup Adds(m, n)
           /\ \A k \in 1..(Len(q) + 1) : MarkedBefore(Append(q, m), n, k) <=> MarkedBefore(q, n, k)
           /\ MarkedBefore(Append(q, m), n, Len(q) + 2)
                 <=> MarkedBefore(q, n, Len(q) + 1) \/ (m.seq = n /\ m.intr)
  <1> DEFINE p == Append(q, m)
  <1>1. /\ Len(p) = Len(q) + 1 /\ p[Len(q) + 1] = m /\ \A i \in 1..Len(q) : p[i] = q[i]
        /\ Len(q) \in Nat
    OBVIOUS
  <1> HIDE DEF p
  <1>2. ASSUME NEW k \in 1..(Len(q) + 1)
        PROVE  /\ ReadUpTo(p, n, c, k) = ReadUpTo(q, n, c, k)
               /\ MarkedBefore(p, n, k) <=> MarkedBefore(q, n, k)
    <2>1. {i \in 1..(k - 1) : i <= Len(p) /\ Answers(p, n, i) /\ p[i].kind = "item"}
             = {i \in 1..(k - 1) : i <= Len(q) /\ Answers(q, n, i) /\ q[i].kind = "item"}
      BY <1>1 DEF Answers
    <2>2. \A j \in 1..(k - 1) : p[j] = q[j] /\ j <= Len(p) /\ j <= Len(q)
      BY <1>1
    <2>3. {p[j].item : j \in {i \in 1..(k - 1) : i <= Len(p) /\ Answers(p, n, i) /\ p[i].kind = "item"}}
             = {q[j].item : j \in {i \in 1..(k - 1) : i <= Len(q) /\ Answers(q, n, i) /\ q[i].kind = "item"}}
      BY <2>1, <2>2
    <2> QED BY <2>2, <2>3 DEF ReadUpTo, MarkedBefore, Answers
  <1>3. ReadUpTo(p, n, c, Len(q) + 2) = ReadUpTo(q, n, c, Len(q) + 1) \cup Adds(m, n)
    <2> DEFINE S == {i \in 1..(Len(q) + 2 - 1) : i <= Len(p) /\ Answers(p, n, i) /\ p[i].kind = "item"}
               T == {i \in 1..(Len(q) + 1 - 1) : i <= Len(q) /\ Answers(q, n, i) /\ q[i].kind = "item"}
    <2>1. S = T \cup (IF m.seq = n /\ m.kind = "item" THEN {Len(q) + 1} ELSE {})
      BY <1>1 DEF Answers
    <2>2. \A j \in T : p[j] = q[j]
      BY <1>1
    <2>3. ReadUpTo(p, n, c, Len(q) + 2) = c \cup {p[j].item : j \in S}
      BY DEF ReadUpTo
    <2>4. ReadUpTo(q, n, c, Len(q) + 1) = c \cup {q[j].item : j \in T}
      BY DEF ReadUpTo
    <2> HIDE DEF S, T
    <2> QED BY <1>1, <2>1, <2>2, <2>3, <2>4 DEF Adds
  <1>4. MarkedBefore(p, n, Len(q) + 2) <=> MarkedBefore(q, n, Len(q) + 1) \/ (m.seq = n /\ m.intr)
    <2>1. ASSUME NEW j \in 1..(Len(q) + 2 - 1), Answers(p, n, j), p[j].intr
          PROVE  MarkedBefore(q, n, Len(q) + 1) \/ (m.seq = n /\ m.intr)
      <3>1. CASE j = Len(q) + 1
        BY <1>1, <2>1, <3>1 DEF Answers
      <3>2. CASE j # Len(q) + 1
        <4>1. j \in 1..(Len(q) + 1 - 1) /\ j <= Len(q) /\ p[j] = q[j]
          BY <1>1, <3>2
        <4>2. Answers(q, n, j) /\ q[j].intr
          BY <2>1, <4>1 DEF Answers
        <4>3. \E i \in 1..(Len(q) + 1 - 1) : i <= Len(q) /\ Answers(q, n, i) /\ q[i].intr
          BY <4>1, <4>2, Zenon
        <4> QED BY <4>3 DEF MarkedBefore
      <3> QED BY <3>1, <3>2
    <2>2. ASSUME NEW j \in 1..(Len(q) + 1 - 1), Answers(q, n, j), q[j].intr
          PROVE  MarkedBefore(p, n, Len(q) + 2)
      <3>1. j \in 1..(Len(q) + 2 - 1) /\ j <= Len(p) /\ Answers(p, n, j) /\ p[j].intr
        BY <1>1, <2>2 DEF Answers
      <3> QED BY <3>1 DEF MarkedBefore
    <2>3. ASSUME m.seq = n, m.intr
          PROVE  MarkedBefore(p, n, Len(q) + 2)
      <3>1. Len(q) + 1 \in 1..(Len(q) + 2 - 1) /\ Len(q) + 1 <= Len(p)
        BY <1>1
      <3>2. Answers(p, n, Len(q) + 1) /\ p[Len(q) + 1].intr
        BY <1>1, <2>3 DEF Answers
      <3> QED BY <3>1, <3>2 DEF MarkedBefore
    <2>4. MarkedBefore(p, n, Len(q) + 2) => MarkedBefore(q, n, Len(q) + 1) \/ (m.seq = n /\ m.intr)
      BY <2>1 DEF MarkedBefore
    <2>5. MarkedBefore(q, n, Len(q) + 1) => MarkedBefore(p, n, Len(q) + 2)
      BY <2>2 DEF MarkedBefore
    <2> QED BY <2>3, <2>4, <2>5
  <1> QED BY <1>2, <1>3, <1>4 DEF p

\* A message that is read moves from the queue to what has been read.
LEMMA ReadNext ==
    ASSUME NEW q \in Seq(MessageType), q # <<>>, NEW n, NEW c, NEW k \in 1..Len(q)
    PROVE  /\ ReadUpTo(Tail(q), n, c \cup Adds(Head(q), n), k) = ReadUpTo(q, n, c, k + 1)
           /\ MarkedBefore(q, n, k + 1) =>
                 MarkedBefore(Tail(q), n, k) \/ (Head(q).seq = n /\ Head(q).intr)
  <1> DEFINE p == Tail(q)
             m == Head(q)
  <1>1. /\ Len(p) = Len(q) - 1 /\ m = q[1] /\ \A i \in 1..Len(p) : p[i] = q[i + 1]
        /\ Len(q) \in Nat /\ Len(q) >= 1
    OBVIOUS
  <1> HIDE DEF p, m
  <1> DEFINE S == {i \in 1..(k - 1) : i <= Len(p) /\ Answers(p, n, i) /\ p[i].kind = "item"}
             T == {i \in 1..(k + 1 - 1) : i <= Len(q) /\ Answers(q, n, i) /\ q[i].kind = "item"}
  <1>2. \A i \in S : i + 1 \in T /\ p[i] = q[i + 1]
    BY <1>1 DEF Answers
  <1>3. \A i \in T : IF i = 1 THEN q[i].item \in Adds(m, n) ELSE i - 1 \in S /\ p[i - 1] = q[i]
    BY <1>1 DEF Answers, Adds
  <1>4. m.seq = n /\ m.kind = "item" => 1 \in T /\ q[1].item = m.item
    BY <1>1 DEF Answers
  <1>5. ReadUpTo(p, n, c \cup Adds(m, n), k) = c \cup Adds(m, n) \cup {p[j].item : j \in S}
    BY DEF ReadUpTo
  <1>6. ReadUpTo(q, n, c, k + 1) = c \cup {q[j].item : j \in T}
    BY DEF ReadUpTo
  <1>7. Adds(m, n) \cup {p[j].item : j \in S} = {q[j].item : j \in T}
    <2> HIDE DEF S, T
    <2>1. ASSUME NEW x \in {p[j].item : j \in S}
          PROVE  x \in {q[j].item : j \in T}
      BY <1>2
    <2>2. ASSUME NEW x \in Adds(m, n)
          PROVE  x \in {q[j].item : j \in T}
      BY <1>4 DEF Adds
    <2>3. ASSUME NEW x \in {q[j].item : j \in T}
          PROVE  x \in Adds(m, n) \cup {p[j].item : j \in S}
      BY <1>3
    <2> QED BY <2>1, <2>2, <2>3
  <1>8. MarkedBefore(q, n, k + 1) => MarkedBefore(p, n, k) \/ (m.seq = n /\ m.intr)
    <2> SUFFICES ASSUME NEW j \in 1..k, Answers(q, n, j), q[j].intr
                 PROVE  MarkedBefore(p, n, k) \/ (m.seq = n /\ m.intr)
      BY DEF MarkedBefore
    <2>1. CASE j = 1
      BY <1>1, <2>1 DEF Answers
    <2>2. CASE j # 1
      <3>1. j - 1 \in 1..(k - 1) /\ j - 1 <= Len(p) /\ p[j - 1] = q[j]
        BY <1>1, <2>2
      <3>2. Answers(p, n, j - 1) /\ p[j - 1].intr
        BY <3>1 DEF Answers
      <3>3. \E i \in 1..(k - 1) : i <= Len(p) /\ Answers(p, n, i) /\ p[i].intr
        BY <3>1, <3>2, Zenon
      <3> QED BY <3>3 DEF MarkedBefore
    <2> QED BY <2>1, <2>2
  <1> HIDE DEF S, T
  <1> QED BY <1>5, <1>6, <1>7, <1>8 DEF p, m

\* Nothing has been read of a request nobody has answered.
LEMMA ReadNothing ==
    ASSUME NEW q \in Seq(MessageType), NEW n, NEW c, NEW k \in Nat,
           \A i \in DOMAIN q : q[i].seq # n \/ q[i].kind # "item"
    PROVE  ReadUpTo(q, n, c, k) = c
  <1>1. {i \in 1..(k - 1) : i <= Len(q) /\ Answers(q, n, i) /\ q[i].kind = "item"} = {}
    BY DEF Answers
  <1>2. {q[j].item : j \in {i \in 1..(k - 1) : i <= Len(q) /\ Answers(q, n, i) /\ q[i].kind = "item"}} = {}
    BY <1>1
  <1> QED BY <1>2 DEF ReadUpTo

\* What the client assigns keeps its kind.
LEMMA ClientEdits ==
    ASSUME NEW c \in NetClientType
    PROVE  /\ \A p \in {"idle", "dump", "round", "kill", "done", "failed"} : [c EXCEPT !.pc = p] \in NetClientType
           /\ [c EXCEPT !.pc = "idle", !.view = Nil, !.stale = FALSE] \in NetClientType
           /\ \A q \in Seq(MessageType) : [c EXCEPT !.pending = q] \in NetClientType
           /\ \A b \in BOOLEAN : [c EXCEPT !.pending = <<>>, !.stale = b] \in NetClientType
           /\ \A i \in Items : /\ [c EXCEPT !.collected = @ \cup {i}] \in NetClientType
                               /\ [c EXCEPT !.killed = @ \cup {i}] \in NetClientType
           /\ \A b \in BOOLEAN :
                 [c EXCEPT !.pc = "idle", !.view = c.collected, !.pending = <<>>, !.stale = b] \in NetClientType
           /\ \A f \in Found : [c EXCEPT !.found = f, !.pc = "round"] \in NetClientType
           /\ \A r \in Nat : [c EXCEPT !.pc = "dump", !.round = r, !.seq = @ + 1, !.collected = {}] \in NetClientType
  <1>0. <<>> \in Seq(MessageType) /\ c.seq + 1 \in Nat
    BY DEF NetClientType
  <1>1. \A p \in {"idle", "dump", "round", "kill", "done", "failed"} : [c EXCEPT !.pc = p] \in NetClientType
    BY DEF NetClientType
  <1>7. [c EXCEPT !.pc = "idle", !.view = Nil, !.stale = FALSE] \in NetClientType
    BY DEF NetClientType
  <1>8. \A q \in Seq(MessageType) : [c EXCEPT !.pending = q] \in NetClientType
    BY DEF NetClientType
  <1>2. \A b \in BOOLEAN : [c EXCEPT !.pending = <<>>, !.stale = b] \in NetClientType
    BY <1>0 DEF NetClientType
  <1>3. \A i \in Items : /\ [c EXCEPT !.collected = @ \cup {i}] \in NetClientType
                         /\ [c EXCEPT !.killed = @ \cup {i}] \in NetClientType
    BY DEF NetClientType
  <1>4. \A b \in BOOLEAN :
           [c EXCEPT !.pc = "idle", !.view = c.collected, !.pending = <<>>, !.stale = b] \in NetClientType
    BY <1>0 DEF NetClientType
  <1>5. \A f \in Found : [c EXCEPT !.found = f, !.pc = "round"] \in NetClientType
    BY DEF NetClientType
  <1>6. \A r \in Nat : [c EXCEPT !.pc = "dump", !.round = r, !.seq = @ + 1, !.collected = {}] \in NetClientType
    BY <1>0 DEF NetClientType
  <1> QED BY <1>1, <1>2, <1>3, <1>4, <1>5, <1>6, <1>7, <1>8

\* A message the kernel sends.
LEMMA Messages ==
    ASSUME NEW n \in Nat, NEW kind \in {"item", "done", "event", "error"}, NEW i \in Items \cup {Nil},
           NEW b \in BOOLEAN
    PROVE  /\ Message(n, kind, i, b) \in MessageType
           /\ Message(n, kind, i, b).seq = n /\ Message(n, kind, i, b).kind = kind
           /\ Message(n, kind, i, b).item = i /\ Message(n, kind, i, b).intr = b
BY DEF Message, MessageType

\* The first message of a queue and the others.
LEMMA Queued ==
    ASSUME NEW q \in Seq(MessageType), q # <<>>
    PROVE  /\ Head(q) \in MessageType /\ Head(q) = q[1] /\ 1 \in DOMAIN q
           /\ Tail(q) \in Seq(MessageType) /\ Len(Tail(q)) = Len(q) - 1 /\ Len(q) \in Nat
           /\ DOMAIN q = 1..Len(q) /\ DOMAIN Tail(q) = 1..(Len(q) - 1)
           /\ \A k \in DOMAIN Tail(q) : k + 1 \in DOMAIN q /\ Tail(q)[k] = q[k + 1]
           /\ \A k \in DOMAIN q : k = 1 \/ (k - 1 \in DOMAIN Tail(q) /\ Tail(q)[k - 1] = q[k])
OBVIOUS

\* The queue with one more message.
LEMMA Appended ==
    ASSUME NEW q \in Seq(MessageType), NEW m \in MessageType
    PROVE  /\ Append(q, m) \in Seq(MessageType) /\ Len(Append(q, m)) = Len(q) + 1 /\ Len(q) \in Nat
           /\ DOMAIN q = 1..Len(q) /\ DOMAIN Append(q, m) = 1..(Len(q) + 1)
           /\ \A k \in DOMAIN q : Append(q, m)[k] = q[k] /\ k \in DOMAIN Append(q, m)
           /\ Append(q, m)[Len(q) + 1] = m
OBVIOUS

\* What Receive does with the first message.
Skipped == ~Matches(Head(inbox)) /\ client' = [client EXCEPT !.pending = Append(@, Head(inbox))]
                                 /\ inbox' = Tail(inbox) /\ UNCHANGED overrun
Refused == DumpFails /\ inbox' = Tail(inbox) /\ UNCHANGED overrun
Taken ==
    /\ Matches(Head(inbox)) /\ Head(inbox).kind = "item" /\ ~Head(inbox).intr
    /\ client' = [client EXCEPT !.collected = @ \cup {Head(inbox).item}]
    /\ inbox' = Tail(inbox) /\ UNCHANGED overrun
Viewed == /\ use = "watch" /\ Matches(Head(inbox)) /\ Head(inbox).kind = "done" /\ ~Head(inbox).intr
          /\ Evaluated(Tail(inbox))
RoundEnds ==
    /\ use # "watch" /\ Matches(Head(inbox)) /\ Head(inbox).kind = "done"
    /\ client' = [client EXCEPT
           !.found = [r \in 1..client.round |-> IF r = client.round THEN client.collected ELSE client.found[r]],
           !.pc = "round"]
    /\ inbox' = Tail(inbox) /\ UNCHANGED overrun

\* feed_dump decides among these, and an event is never taken for an answer.
LEMMA ReceiveCases ==
    ASSUME NetInv, Receive
    PROVE  /\ client.pc = "dump" /\ inbox # <<>> /\ ~overrun /\ UNCHANGED <<use, table, kdump, during>>
           /\ Skipped \/ Refused \/ Taken \/ Viewed \/ RoundEnds
  <1> DEFINE m == Head(inbox)
  <1>1. client.pc = "dump" /\ inbox # <<>> /\ ~overrun /\ UNCHANGED <<use, table, kdump, during>>
    BY DEF Receive
  <1>2. m \in MessageType /\ m = inbox[1] /\ 1 \in DOMAIN inbox
    BY <1>1, Queued DEF NetInv, NetTypes
  <1>3. Matches(m) => m.kind # "event"
    BY <1>1, <1>2 DEF NetInv, NumberInv, PlaceInv, Matches
  <1>4. CASE ~m.trunc /\ ~Matches(m)
    BY <1>4 DEF Receive, Skipped
  <1>5. CASE (m.trunc \/ Matches(m)) /\ (m.trunc \/ m.intr \/ m.kind = "error")
    <2>1. feed_dump(m) = "failed"
      BY <1>5 DEF feed_dump
    <2> QED BY <1>5, <2>1 DEF Receive, Refused
  <1>6. CASE Matches(m) /\ ~m.trunc /\ ~m.intr /\ m.kind = "item"
    <2>1. feed_dump(m) = "more"
      BY <1>6 DEF feed_dump
    <2> QED BY <1>6, <2>1 DEF Receive, Taken
  <1>7. CASE Matches(m) /\ ~m.trunc /\ ~m.intr /\ m.kind = "done"
    <2>1. feed_dump(m) = "complete"
      BY <1>7 DEF feed_dump
    <2>2. CASE use = "watch"
      BY <1>7, <2>1, <2>2 DEF Receive, Viewed
    <2>3. CASE use # "watch"
      BY <1>7, <2>1, <2>3 DEF Receive, RoundEnds
    <2> QED BY <2>2, <2>3
  <1> QED BY <1>1, <1>2, <1>3, <1>4, <1>5, <1>6, <1>7 DEF MessageType

\* A change of the table, as the queue sees it.
LEMMA TableChanged ==
    ASSUME NetInv, TableChanges
    PROVE  /\ UNCHANGED <<use, client>> /\ during' = during \cup {table'} /\ table' \subseteq Items
           /\ \/ kdump = Nil /\ kdump' = Nil
              \/ /\ kdump # Nil /\ kdump' = [kdump EXCEPT !.intr = (use = "watch")]
                 /\ kdump'.seq = kdump.seq /\ kdump'.left = kdump.left
                 /\ use = "watch" => kdump'.intr
           /\ \/ inbox' = inbox /\ (use = "watch" => overrun')
              \/ \E m \in MessageType : m.seq = 0 /\ m.kind = "event" /\ inbox' = Append(inbox, m)
  <1>1. UNCHANGED <<use, client>> /\ during' = during \cup {table'} /\ table' \subseteq Items
    BY DEF TableChanges, NetInv, NetTypes
  <1>2. \/ kdump = Nil /\ kdump' = Nil
        \/ /\ kdump # Nil /\ kdump' = [kdump EXCEPT !.intr = (use = "watch")]
           /\ kdump'.seq = kdump.seq /\ kdump'.left = kdump.left
           /\ use = "watch" => kdump'.intr
    BY DEF TableChanges, NetInv, NetTypes, KdumpType
  <1>3. Message(0, "event", Nil, FALSE) \in MessageType
    BY Messages
  <1>4. Message(0, "event", Nil, FALSE).seq = 0 /\ Message(0, "event", Nil, FALSE).kind = "event"
    BY DEF Message
  <1>5. \/ inbox' = inbox /\ (use = "watch" => overrun')
        \/ inbox' = Append(inbox, Message(0, "event", Nil, FALSE))
    BY DEF TableChanges
  <1> QED BY <1>1, <1>2, <1>3, <1>4, <1>5

\* A datagram of the dump.
LEMMA KernelSent ==
    ASSUME NetInv, KernelSends
    PROVE  /\ kdump # Nil /\ kdump \in KdumpType /\ UNCHANGED <<use, table, overrun, client, during>>
           /\ \E m \in MessageType :
                 /\ inbox' = Append(inbox, m) /\ m.seq = kdump.seq /\ m.intr = kdump.intr
                 /\ \/ m.kind = "done" /\ kdump.left \cap table = {} /\ kdump' = Nil
                    \/ /\ m.kind = "item" /\ m.item \in kdump.left \cap table
                       /\ kdump' = [kdump EXCEPT !.left = @ \ {m.item}, !.intr = FALSE]
  <1>1. /\ kdump # Nil /\ kdump \in KdumpType /\ UNCHANGED <<use, table, overrun, client, during>>
        /\ kdump.seq \in Nat /\ kdump.intr \in BOOLEAN /\ kdump.left \subseteq Items
    BY DEF KernelSends, NetInv, NetTypes, KdumpType
  <1>2. CASE /\ kdump.left \cap table = {} /\ kdump' = Nil
             /\ inbox' = Append(inbox, Message(kdump.seq, "done", Nil, kdump.intr))
    <2> DEFINE m == Message(kdump.seq, "done", Nil, kdump.intr)
    <2>0. m \in MessageType
      BY <1>1, Messages
    <2>1. m.seq = kdump.seq /\ m.intr = kdump.intr /\ m.kind = "done"
      BY DEF Message
    <2> HIDE DEF m
    <2>2. inbox' = Append(inbox, m)
      BY <1>2 DEF m
    <2> QED BY <1>1, <1>2, <2>0, <2>1, <2>2
  <1>3. ASSUME NEW i \in kdump.left \cap table,
               inbox' = Append(inbox, Message(kdump.seq, "item", i, kdump.intr)),
               kdump' = [kdump EXCEPT !.left = @ \ {i}, !.intr = FALSE]
        PROVE  \E m \in MessageType :
                  /\ inbox' = Append(inbox, m) /\ m.seq = kdump.seq /\ m.intr = kdump.intr
                  /\ m.kind = "item" /\ m.item \in kdump.left \cap table
                  /\ kdump' = [kdump EXCEPT !.left = @ \ {m.item}, !.intr = FALSE]
    <2> DEFINE m == Message(kdump.seq, "item", i, kdump.intr)
    <2>1. m \in MessageType /\ m.seq = kdump.seq /\ m.intr = kdump.intr /\ m.kind = "item" /\ m.item = i
      BY <1>1, Messages
    <2>2. inbox' = Append(inbox, m)
      BY <1>3
    <2> HIDE DEF m
    <2> QED BY <1>3, <2>1, <2>2
  <1> QED BY <1>1, <1>2, <1>3 DEF KernelSends

\* A request starts a dump, or hears that another one still runs.
LEMMA Requested ==
    ASSUME NetInv, NEW r \in Nat, Request(r)
    PROVE  /\ client' = [client EXCEPT !.pc = "dump", !.round = r, !.seq = @ + 1, !.collected = {}]
           /\ client'.pc = "dump" /\ client'.round = r /\ client'.seq = client.seq + 1
           /\ client'.collected = {} /\ client'.pending = client.pending /\ client'.found = client.found
           /\ client'.killed = client.killed /\ during' = {table}
           /\ \/ kdump = Nil /\ inbox' = inbox /\ kdump'.seq = client.seq + 1 /\ kdump'.left = Family(r)
              \/ /\ kdump # Nil /\ UNCHANGED kdump
                 /\ \E m \in MessageType :
                       m.seq = client.seq + 1 /\ m.kind = "error" /\ inbox' = Append(inbox, m)
  <1>1. /\ client' = [client EXCEPT !.pc = "dump", !.round = r, !.seq = @ + 1, !.collected = {}]
        /\ during' = {table} /\ client \in NetClientType
    BY DEF Request, NetInv, NetTypes
  <1>2. /\ client'.pc = "dump" /\ client'.round = r /\ client'.seq = client.seq + 1
        /\ client'.collected = {} /\ client'.pending = client.pending /\ client'.found = client.found
        /\ client'.killed = client.killed /\ client.seq + 1 \in Nat
    BY <1>1 DEF NetClientType
  <1> DEFINE m == Message(client.seq + 1, "error", Nil, FALSE)
  <1>3. m \in MessageType
    BY <1>2, Messages
  <1>5. m.seq = client.seq + 1 /\ m.kind = "error"
    BY DEF Message
  <1>4. \/ kdump = Nil /\ inbox' = inbox
           /\ kdump' = [seq |-> client.seq + 1, left |-> Family(r), intr |-> FALSE]
        \/ kdump # Nil /\ UNCHANGED kdump /\ inbox' = Append(inbox, m)
    BY DEF Request
  <1> HIDE DEF m
  <1> QED BY <1>1, <1>2, <1>3, <1>4, <1>5

\* A dump that failed: the watch has no view, the others are told.
LEMMA DumpFailed ==
    ASSUME NetInv, DumpFails
    PROVE  /\ client'.round = client.round /\ client'.seq = client.seq /\ client'.found = client.found
           /\ client'.killed = client.killed /\ client'.collected = client.collected
           /\ use = "watch" => client'.pc = "idle" /\ client'.view = Nil
           /\ use # "watch" => client'.pc = "failed"
  <1>1. CASE use = "watch"
    <2>1. client' = [client EXCEPT !.pc = "idle", !.view = Nil, !.stale = FALSE] /\ client \in NetClientType
      BY <1>1 DEF DumpFails, NetInv, NetTypes
    <2> QED BY <1>1, <2>1 DEF NetClientType
  <1>2. CASE use # "watch"
    <2>1. client' = [client EXCEPT !.pc = "failed"] /\ client \in NetClientType
      BY <1>2 DEF DumpFails, NetInv, NetTypes
    <2> QED BY <1>2, <2>1 DEF NetClientType
  <1> QED BY <1>1, <1>2

\* A new client.
LEMMA FirstClient == Client0 \in NetClientType
  <1> DEFINE f == [r \in {} |-> {}]
  <1>1. f \in [1..0 -> Results] /\ <<>> \in Seq(MessageType)
    OBVIOUS
  <1>2. 0 \in Nat /\ [1..0 -> Results] \in {[1..n -> Results] : n \in Nat}
    OBVIOUS
  <1>3. f \in Found
    BY <1>1, <1>2, Zenon DEF Found
  <1>4. Client0 = [pc |-> "idle", round |-> 1, seq |-> 0, collected |-> {}, pending |-> <<>>,
                   stale |-> TRUE, view |-> Nil, found |-> f, killed |-> {}]
    BY DEF Client0
  <1> HIDE DEF f
  <1> QED BY <1>1, <1>3, <1>4 DEF NetClientType

\* A watch and the rounds of a probe or a reset ask for a dump.
LEMMA Asks ==
    ASSUME NetInv, Evaluate \/ NextRound
    PROVE  /\ UNCHANGED <<use, table, overrun>>
           /\ \E r \in 1..Rounds : Request(r)
           /\ NextRound => use # "watch" /\ \E r \in Coming : Request(r)
           /\ Evaluate => use = "watch" /\ Request(1)
BY NetlinkAssumption DEF Evaluate, NextRound, Coming

\* What the rounds before the coming one have left.
LEMMA Come ==
    ASSUME NetInv, use # "watch", NEW r \in Coming
    PROVE  /\ r \in 1..Rounds /\ client.killed = {} /\ client.pc \in {"idle", "round"}
           /\ client.found \in [1..(r - 1) -> Results]
  <1>1. r \in 1..Rounds /\ client.killed = {} /\ client.pc \in {"idle", "round"}
    BY DEF Coming, NetInv, PlaceInv
  <1>2. CASE client.pc = "idle" /\ r = 1
    <2>1. r - 1 = 0
      BY <1>2
    <2> QED BY <1>1, <1>2, <2>1 DEF NetInv, PlaceInv
  <1>3. CASE client.pc = "round" /\ r = client.round + 1
    <2>1. r - 1 = client.round
      BY <1>3 DEF NetInv, NetTypes, NetClientType
    <2> QED BY <1>1, <1>3, <2>1 DEF NetInv, PlaceInv
  <1> QED BY <1>2, <1>3 DEF Coming

\* A reset goes on without a family the kernel does not dump.
LEMMA GoesWithout ==
    ASSUME NetInv, Unsupported
    PROVE  /\ use = "destroy" /\ UNCHANGED <<use, table, kdump, inbox, overrun, switched, during>>
           /\ \E r \in 1..Rounds, f \in Found :
                 /\ f \in [1..r -> Results] /\ f[r] = Nil
                 /\ client' = [client EXCEPT !.found = f, !.pc = "round", !.round = r, !.seq = @ + 1]
           /\ client' \in NetClientType /\ client'.pc = "round" /\ client'.seq = client.seq + 1
           /\ client'.killed = {} /\ client.killed = {}
  <1>1. /\ use = "destroy" /\ UNCHANGED <<use, table, kdump, inbox, overrun, switched, during>>
        /\ \E r \in Coming :
              client' = [client EXCEPT !.pc = "round", !.round = r, !.seq = @ + 1,
                                       !.found = [q \in 1..r |-> IF q = r THEN Nil ELSE client.found[q]]]
    BY DEF Unsupported
  <1>2. PICK r \in Coming :
              client' = [client EXCEPT !.pc = "round", !.round = r, !.seq = @ + 1,
                                       !.found = [q \in 1..r |-> IF q = r THEN Nil ELSE client.found[q]]]
    BY <1>1
  <1> DEFINE f == [q \in 1..r |-> IF q = r THEN Nil ELSE client.found[q]]
  <1>3. /\ r \in 1..Rounds /\ client.killed = {} /\ client.found \in [1..(r - 1) -> Results]
        /\ r \in Nat /\ client \in NetClientType /\ client.seq + 1 \in Nat
    BY <1>1, Come, NetlinkAssumption DEF NetInv, NetTypes, NetClientType
  <1>4. \A q \in 1..r : q # r => client.found[q] \in Results
    BY <1>3
  <1>5. f \in [1..r -> Results] /\ f[r] = Nil
    BY <1>3, <1>4 DEF Results
  <1>6. f \in Found
    BY <1>3, <1>5 DEF Found
  <1> HIDE DEF f
  <1>7. client' = [client EXCEPT !.found = f, !.pc = "round", !.round = r, !.seq = @ + 1]
    BY <1>2, <1>3 DEF f, NetClientType
  <1>8. /\ client' \in NetClientType /\ client'.pc = "round" /\ client'.seq = client.seq + 1
        /\ client'.killed = client.killed
    BY <1>3, <1>6, <1>7 DEF NetClientType
  <1> QED BY <1>1, <1>3, <1>5, <1>6, <1>7, <1>8

\* A request keeps every kind.
LEMMA RequestTypes ==
    ASSUME NetInv, NEW r \in Nat, Request(r), UNCHANGED <<use, table, overrun>>
    PROVE  NetTypes'
  <1> USE DEF NetInv, NetTypes
  <1>1. client' \in NetClientType
    BY ClientEdits DEF Request
  <1>2. client.seq + 1 \in Nat /\ Family(r) \in SUBSET Items
    BY DEF NetClientType, Family
  <1>3. kdump' \in KdumpType \cup {Nil}
    <2>1. [seq |-> client.seq + 1, left |-> Family(r), intr |-> FALSE] \in KdumpType
      BY <1>2 DEF KdumpType
    <2> QED BY <2>1 DEF Request
  <1>4. inbox' \in Seq(MessageType)
    <2> DEFINE m == Message(client.seq + 1, "error", Nil, FALSE)
    <2>1. m \in MessageType
      BY <1>2, Messages
    <2>2. inbox' = inbox \/ inbox' = Append(inbox, m)
      BY DEF Request
    <2> HIDE DEF m
    <2> QED BY <2>1, <2>2
  <1> QED BY <1>1, <1>3, <1>4 DEF Request

\* Every step keeps every kind.
LEMMA NetTypesStep ==
    ASSUME NetInv, NetlinkNext
    PROVE  NetTypes'
  <1> USE DEF NetInv, NetTypes
  <1>1. CASE TableChanges
    <2>1. table' \in SUBSET Items
      BY <1>1 DEF TableChanges
    <2>2. kdump' \in KdumpType \cup {Nil}
      BY <1>1 DEF TableChanges, KdumpType
    <2>3. inbox' \in Seq(MessageType) /\ overrun' \in BOOLEAN
      <3> DEFINE m == Message(0, "event", Nil, FALSE)
      <3>1. m \in MessageType
        BY Messages
      <3>2. inbox' = inbox \/ inbox' = Append(inbox, m)
        BY <1>1 DEF TableChanges
      <3>3. overrun' \in BOOLEAN
        BY <1>1 DEF TableChanges
      <3> HIDE DEF m
      <3>4. inbox' \in Seq(MessageType)
        BY <3>1, <3>2
      <3> QED BY <3>3, <3>4
    <2> QED BY <1>1, <2>1, <2>2, <2>3 DEF TableChanges
  <1>2. CASE KernelSends
    <2>1. kdump \in KdumpType /\ kdump.seq \in Nat /\ kdump.intr \in BOOLEAN /\ kdump.left \in SUBSET Items
      BY <1>2 DEF KernelSends, KdumpType
    <2>2. inbox' \in Seq(MessageType)
      <3>1. \A kind \in {"item", "done"}, i \in Items \cup {Nil} :
               Message(kdump.seq, kind, i, kdump.intr) \in MessageType
        BY <2>1, Messages
      <3>2. \A kind \in {"item", "done"}, i \in Items \cup {Nil} :
               Append(inbox, Message(kdump.seq, kind, i, kdump.intr)) \in Seq(MessageType)
        BY <3>1
      <3>3. \E kind \in {"item", "done"}, i \in Items \cup {Nil} :
               inbox' = Append(inbox, Message(kdump.seq, kind, i, kdump.intr))
        BY <1>2, <2>1 DEF KernelSends
      <3> QED BY <3>2, <3>3
    <2>3. kdump' \in KdumpType \cup {Nil}
      <3>1. \A i \in Items : [kdump EXCEPT !.left = @ \ {i}, !.intr = FALSE] \in KdumpType
        BY <2>1 DEF KdumpType
      <3> QED BY <1>2, <2>1, <3>1 DEF KernelSends
    <2> QED BY <1>2, <2>2, <2>3 DEF KernelSends
  <1>3. CASE Truncated
    <2>1. Head(inbox) \in MessageType /\ inbox[1] \in MessageType /\ 1 \in DOMAIN inbox
      BY <1>3, Queued DEF Truncated
    <2>2. [inbox[1] EXCEPT !.trunc = TRUE] \in MessageType
      BY <2>1 DEF MessageType
    <2>3. inbox' = [inbox EXCEPT ![1] = [inbox[1] EXCEPT !.trunc = TRUE]]
      BY <1>3, <2>1 DEF Truncated
    <2>4. inbox' \in Seq(MessageType)
      BY <2>1, <2>2, <2>3
    <2> QED BY <1>3, <2>4 DEF Truncated
  <1>4. CASE Receive
    <2>1. /\ client.pc = "dump" /\ inbox # <<>> /\ UNCHANGED <<use, table, kdump, during>>
          /\ Skipped \/ Refused \/ Taken \/ Viewed \/ RoundEnds
      BY <1>4, ReceiveCases
    <2>2. /\ Head(inbox) \in MessageType /\ Tail(inbox) \in Seq(MessageType) /\ Head(inbox) = inbox[1]
          /\ 1 \in DOMAIN inbox
      BY <2>1, Queued
    <2>3. CASE Skipped
      <3>1. Append(client.pending, Head(inbox)) \in Seq(MessageType)
        BY <2>2, Appended DEF NetClientType
      <3> QED BY <2>1, <2>2, <2>3, <3>1, ClientEdits DEF Skipped
    <2>4. CASE Refused
      BY <2>1, <2>2, <2>4, ClientEdits DEF Refused, DumpFails
    <2>5. CASE Taken
      <3>1. Head(inbox).item \in Items
        BY <2>1, <2>2, <2>5 DEF Taken, Matches, DumpInv, Answers
      <3> QED BY <2>1, <2>2, <2>5, <3>1, ClientEdits DEF Taken
    <2>6. CASE Viewed
      <3>1. Undrained(Tail(inbox)) \in Seq(MessageType)
        BY <2>2, NetlinkAssumption DEF Undrained
      <3>2. drain(Tail(inbox)) \in BOOLEAN
        BY DEF drain
      <3> QED BY <2>1, <2>6, <3>1, <3>2, ClientEdits DEF Viewed, Evaluated
    <2>7. CASE RoundEnds
      <3> DEFINE f == [r \in 1..client.round |->
                         IF r = client.round THEN client.collected ELSE client.found[r]]
      <3>1. client.round \in Nat /\ client.collected \in SUBSET Items
        BY DEF NetClientType
      <3>2. \A r \in 1..client.round : r # client.round => client.found[r] \in Results
        BY <2>1, <2>7, <3>1 DEF RoundEnds, PlaceInv
      <3>3. f \in [1..client.round -> Results]
        BY <3>1, <3>2 DEF Results
      <3>4. f \in Found
        BY <3>1, <3>3 DEF Found
      <3> HIDE DEF f
      <3>5. client' = [client EXCEPT !.found = f, !.pc = "round"]
        BY <2>7 DEF RoundEnds, f
      <3>6. client' \in NetClientType
        BY <3>4, <3>5, ClientEdits
      <3> QED BY <2>1, <2>2, <2>7, <3>6 DEF RoundEnds
    <2> QED BY <2>1, <2>3, <2>4, <2>5, <2>6, <2>7
  <1>5. CASE ReceiveFails
    BY <1>5, ClientEdits DEF ReceiveFails, DumpFails
  <1>6. CASE handle_nl80211
    <2>1. Undrained(inbox) \in Seq(MessageType)
      BY NetlinkAssumption DEF Undrained
    <2>2. (client.stale \/ drain(inbox)) \in BOOLEAN
      OBVIOUS
    <2>3. client' \in NetClientType
      BY <1>6, <2>2, ClientEdits DEF handle_nl80211
    <2> QED BY <1>6, <2>1, <2>3 DEF handle_nl80211
  <1>7. CASE Evaluate \/ NextRound
    <2>1. PICK r \in Nat : Request(r)
      BY <1>7, Asks, NetlinkAssumption
    <2> QED BY <1>7, <2>1, Asks, RequestTypes
  <1>8. CASE Unsupported
    BY <1>8, GoesWithout
  <1>12. CASE Switch
    BY <1>12 DEF Switch
  <1>9. CASE Finished
    BY <1>9, ClientEdits DEF Finished
  <1>10. CASE Retry
    <2>1. <<>> \in Seq(MessageType)
      OBVIOUS
    <2> QED BY <1>10, <2>1, FirstClient DEF Retry
  <1>11. CASE Destroy
    <2>1. client' \in NetClientType
      <3>1. CASE \E i \in Aimed \ client.killed : client' = [client EXCEPT !.killed = @ \cup {i}]
        <4>1. Aimed \subseteq Items
          <5>1. client.found \in [1..Rounds -> Results]
            BY <1>11 DEF Destroy, PlaceInv
          <5>2. \A r \in {q \in 1..Rounds : client.found[q] # Nil} : client.found[r] \subseteq Items
            BY <5>1 DEF Results
          <5>3. Seen \subseteq Items
            BY <5>2 DEF Seen
          <5> QED BY <5>3 DEF Aimed, Targets
        <4> QED BY <3>1, <4>1, ClientEdits
      <3>2. CASE client' = [client EXCEPT !.pc = "failed"] \/ client' = [client EXCEPT !.pc = "done"]
        BY <3>2, ClientEdits
      <3> QED BY <1>11, <3>1, <3>2 DEF Destroy
    <2> QED BY <1>11, <2>1 DEF Destroy
  <1> QED BY <1>1, <1>2, <1>3, <1>4, <1>5, <1>6, <1>7, <1>8, <1>9, <1>10, <1>11, <1>12 DEF NetlinkNext

\* Each use goes through its rounds in order.
LEMMA PlaceStep ==
    ASSUME NetInv, NetlinkNext
    PROVE  PlaceInv'
  <1> USE DEF NetInv, NetTypes, NetClientType, PlaceInv
  <1>1. CASE TableChanges \/ KernelSends \/ Truncated
    BY <1>1 DEF TableChanges, KernelSends, Truncated
  <1>2. CASE handle_nl80211 \/ Switch
    BY <1>2 DEF handle_nl80211, Switch
  <1>4. CASE Receive
    <2>1. /\ client.pc = "dump" /\ UNCHANGED <<use, table, kdump, during>>
          /\ Skipped \/ Refused \/ Taken \/ Viewed \/ RoundEnds
      BY <1>4, ReceiveCases
    <2>2. CASE Skipped
      BY <2>1, <2>2 DEF Skipped
    <2>3. CASE Refused
      BY <2>1, <2>3, DumpFailed DEF Refused
    <2>4. CASE Taken
      BY <2>1, <2>4 DEF Taken
    <2>5. CASE Viewed
      BY <2>1, <2>5 DEF Viewed, Evaluated
    <2>6. CASE RoundEnds
      <3> DEFINE f == [r \in 1..client.round |->
                         IF r = client.round THEN client.collected ELSE client.found[r]]
      <3>1. \A r \in 1..client.round : r # client.round => client.found[r] \in Results
        BY <2>1, <2>6 DEF RoundEnds
      <3>2. f \in [1..client.round -> Results]
        BY <3>1 DEF Results
      <3> HIDE DEF f
      <3>3. client' = [client EXCEPT !.found = f, !.pc = "round"] /\ use # "watch"
        BY <2>6 DEF RoundEnds, f
      <3> QED BY <2>1, <3>2, <3>3
    <2> QED BY <2>1, <2>2, <2>3, <2>4, <2>5, <2>6
  <1>5. CASE ReceiveFails
    BY <1>5, DumpFailed DEF ReceiveFails
  <1>7. CASE Evaluate
    <2>1. /\ use = "watch" /\ UNCHANGED use /\ client.pc = "idle"
          /\ client' = [client EXCEPT !.pc = "dump", !.round = 1, !.seq = @ + 1, !.collected = {}]
      BY <1>7 DEF Evaluate, Request
    <2> QED BY <2>1, NetlinkAssumption
  <1>8. CASE NextRound
    <2>1. PICK r \in Coming : Request(r)
      BY <1>8, Asks
    <2>2. /\ r \in 1..Rounds /\ client.found \in [1..(r - 1) -> Results] /\ client.killed = {}
          /\ use # "watch" /\ UNCHANGED use
      BY <1>8, <2>1, Asks, Come
    <2>3. client' = [client EXCEPT !.pc = "dump", !.round = r, !.seq = @ + 1, !.collected = {}]
      BY <2>1 DEF Request
    <2> QED BY <2>2, <2>3, NetlinkAssumption
  <1>3. CASE Unsupported
    <2>1. PICK r \in 1..Rounds, f \in Found :
             /\ f \in [1..r -> Results]
             /\ client' = [client EXCEPT !.found = f, !.pc = "round", !.round = r, !.seq = @ + 1]
      BY <1>3, GoesWithout
    <2>2. use = "destroy" /\ UNCHANGED use /\ client.killed = {}
      BY <1>3, GoesWithout
    <2> QED BY <2>1, <2>2
  <1>9. CASE Finished
    BY <1>9 DEF Finished
  <1>10. CASE Retry
    <2>1. [r \in {} |-> {}] \in [1..0 -> Results]
      OBVIOUS
    <2> QED BY <1>10, <2>1 DEF Retry, Client0
  <1>11. CASE Destroy
    <2>1. client.pc = "kill" /\ client.found \in [1..Rounds -> Results] /\ UNCHANGED use
      BY <1>11 DEF Destroy
    <2>2. CASE \E i \in Aimed : client' = [client EXCEPT !.killed = @ \cup {i}]
      BY <2>1, <2>2 DEF Aimed, Targets
    <2>3. CASE client' = [client EXCEPT !.pc = "failed"] \/ client' = [client EXCEPT !.pc = "done"]
      BY <2>1, <2>3
    <2> QED BY <1>11, <2>2, <2>3 DEF Destroy
  <1> QED BY <1>1, <1>2, <1>3, <1>4, <1>5, <1>7, <1>8, <1>9, <1>10, <1>11 DEF NetlinkNext

\* Draining takes messages from the front only.
LEMMA Drains ==
    ASSUME NEW q \in Seq(MessageType)
    PROVE  /\ Undrained(q) \in Seq(MessageType)
           /\ \A k \in DOMAIN Undrained(q) : \E j \in DOMAIN q : Undrained(q)[k] = q[j]
  <1>1. CASE overrun
    BY <1>1 DEF Undrained
  <1>2. CASE ~overrun
    <2> DEFINE p == SubSeq(q, Budget + 1, Len(q))
    <2>1. Undrained(q) = p /\ Budget \in Nat /\ Len(q) \in Nat
      BY <1>2, NetlinkAssumption DEF Undrained
    <2>2. /\ p \in Seq(MessageType)
          /\ \A k \in DOMAIN p : Budget + k \in 1..Len(q) /\ p[k] = q[Budget + k]
      BY <2>1
    <2> HIDE DEF p
    <2> QED BY <2>1, <2>2
  <1> QED BY <1>1, <1>2

\* Messages are numbered by their requests.
LEMMA NumberStep ==
    ASSUME NetInv, NetlinkNext
    PROVE  NumberInv'
  <1> USE DEF NetInv, NetTypes, NetClientType, NumberInv
  <1>0. \A k \in DOMAIN inbox : inbox[k] \in MessageType /\ inbox[k].seq \in Nat
    <2>1. \A k \in DOMAIN inbox : inbox[k] \in MessageType
      OBVIOUS
    <2> QED BY <2>1 DEF MessageType
  <1>b. ASSUME NEW m \in MessageType, m.seq <= client'.seq, m.kind = "event" => m.seq = 0,
               inbox' = Append(inbox, m), client'.seq >= client.seq, client'.seq \in Nat
        PROVE  \A k \in DOMAIN inbox' :
                  inbox'[k].seq <= client'.seq /\ (inbox'[k].kind = "event" => inbox'[k].seq = 0)
    <2>1. \A k \in DOMAIN inbox' : inbox'[k] = m \/ (k \in DOMAIN inbox /\ inbox'[k] = inbox[k])
      BY <1>b, Appended
    <2> QED BY <1>0, <1>b, <2>1
  <1>a. ASSUME UNCHANGED kdump, client'.seq = client.seq,
               \A k \in DOMAIN inbox' : \E j \in DOMAIN inbox : inbox'[k] = inbox[j]
        PROVE  NumberInv'
    BY <1>a
  <1>1. CASE TableChanges
    <2>1. UNCHANGED client /\ (kdump' # Nil => kdump # Nil /\ kdump'.seq = kdump.seq)
      BY <1>1, TableChanged
    <2>2. CASE inbox' = inbox
      BY <2>1, <2>2
    <2>3. CASE \E m \in MessageType : m.seq = 0 /\ m.kind = "event" /\ inbox' = Append(inbox, m)
      BY <1>b, <2>1, <2>3
    <2> QED BY <1>1, <2>2, <2>3, TableChanged
  <1>2. CASE KernelSends
    <2>1. kdump # Nil /\ kdump \in KdumpType /\ UNCHANGED client
      BY <1>2, KernelSent
    <2>2. PICK m \in MessageType :
             /\ inbox' = Append(inbox, m) /\ m.seq = kdump.seq /\ m.kind # "event"
             /\ kdump' # Nil => kdump' = [kdump EXCEPT !.left = @ \ {m.item}, !.intr = FALSE]
      BY <1>2, KernelSent
    <2>3. kdump' # Nil => kdump'.seq = kdump.seq
      BY <2>1, <2>2 DEF KdumpType
    <2> QED BY <1>b, <2>1, <2>2, <2>3
  <1>3. CASE Truncated
    BY <1>3 DEF Truncated, MessageType
  <1>4. CASE Receive
    <2>1. /\ client.pc = "dump" /\ inbox # <<>> /\ UNCHANGED <<use, table, kdump, during>>
          /\ Skipped \/ Refused \/ Taken \/ Viewed \/ RoundEnds
      BY <1>4, ReceiveCases
    <2>2. client'.seq = client.seq
      BY <2>1 DEF Skipped, Refused, DumpFails, Taken, Viewed, Evaluated, RoundEnds
    <2>3. \A k \in DOMAIN Tail(inbox) : \E j \in DOMAIN inbox : Tail(inbox)[k] = inbox[j]
      BY <2>1, Queued
    <2>4. Tail(inbox) \in Seq(MessageType)
      BY <2>1, Queued
    <2>5. inbox' = Tail(inbox) \/ inbox' = Undrained(Tail(inbox))
      BY <2>1 DEF Skipped, Refused, Taken, Viewed, Evaluated, RoundEnds
    <2>6. \A k \in DOMAIN inbox' : \E j \in DOMAIN inbox : inbox'[k] = inbox[j]
      <3>1. CASE inbox' = Tail(inbox)
        BY <2>3, <3>1
      <3>2. CASE inbox' = Undrained(Tail(inbox))
        <4>1. \A k \in DOMAIN inbox' : \E j \in DOMAIN Tail(inbox) : inbox'[k] = Tail(inbox)[j]
          BY <2>4, <3>2, Drains
        <4> QED BY <2>3, <4>1, Zenon
      <3> QED BY <2>5, <3>1, <3>2
    <2> QED BY <1>a, <2>1, <2>2, <2>6
  <1>5. CASE ReceiveFails
    BY <1>5 DEF ReceiveFails, DumpFails
  <1>6. CASE handle_nl80211
    <2>1. \A k \in DOMAIN inbox' : \E j \in DOMAIN inbox : inbox'[k] = inbox[j]
      BY <1>6, Drains DEF handle_nl80211
    <2> QED BY <1>6, <1>a, <2>1 DEF handle_nl80211
  <1>7. CASE Evaluate \/ NextRound
    <2>1. PICK r \in Nat : Request(r)
      BY <1>7, Asks, NetlinkAssumption
    <2>2. client'.seq = client.seq + 1
      BY <2>1, Requested
    <2>3. CASE inbox' = inbox /\ kdump'.seq = client.seq + 1
      BY <1>0, <2>2, <2>3
    <2>4. CASE /\ UNCHANGED kdump
               /\ \E m \in MessageType :
                     m.seq = client.seq + 1 /\ m.kind = "error" /\ inbox' = Append(inbox, m)
      BY <1>b, <2>2, <2>4 DEF KdumpType
    <2> QED BY <2>1, <2>3, <2>4, Requested
  <1>8. CASE Unsupported
    <2>1. client'.seq = client.seq + 1 /\ UNCHANGED <<kdump, inbox>>
      BY <1>8, GoesWithout
    <2> QED BY <1>0, <2>1 DEF KdumpType
  <1>12. CASE Switch
    BY <1>12 DEF Switch
  <1>9. CASE Finished
    BY <1>9 DEF Finished
  <1>10. CASE Retry
    BY <1>10 DEF Retry, Client0
  <1>11. CASE Destroy
    BY <1>11 DEF Destroy
  <1> QED BY <1>1, <1>2, <1>3, <1>4, <1>5, <1>6, <1>7, <1>8, <1>9, <1>10, <1>11, <1>12 DEF NetlinkNext

\* An event stays in the queue until it is read.
LEMMA StaysTold ==
    ASSUME NEW q \in Seq(MessageType)
    PROVE  /\ \A m \in MessageType :
                 TellsOfChange(q) \/ m.kind = "event" => TellsOfChange(Append(q, m))
           /\ q # <<>> /\ TellsOfChange(q) => TellsOfChange(Tail(q)) \/ Head(q).kind = "event"
  <1>1. ASSUME NEW m \in MessageType, TellsOfChange(q) \/ m.kind = "event"
        PROVE  TellsOfChange(Append(q, m))
    <2> DEFINE p == Append(q, m)
    <2>1. /\ \A k \in DOMAIN q : p[k] = q[k] /\ k \in DOMAIN p
          /\ p[Len(q) + 1] = m /\ Len(q) + 1 \in DOMAIN p
      BY Appended
    <2> HIDE DEF p
    <2>2. TellsOfChange(p)
      BY <1>1, <2>1 DEF TellsOfChange
    <2> QED BY <2>2 DEF p
  <1>2. ASSUME q # <<>>, TellsOfChange(q)
        PROVE  TellsOfChange(Tail(q)) \/ Head(q).kind = "event"
    <2>1. PICK k \in DOMAIN q : q[k].kind = "event"
      BY <1>2 DEF TellsOfChange
    <2>2. Head(q) = q[1] /\ (k = 1 \/ (k - 1 \in DOMAIN Tail(q) /\ Tail(q)[k - 1] = q[k]))
      BY <1>2, <2>1, Queued
    <2> QED BY <2>1, <2>2 DEF TellsOfChange
  <1> QED BY <1>1, <1>2

\* A change is noticed: it is told by the queue, or the queue overran.
LEMMA NoticeStep ==
    ASSUME NetInv, NetlinkNext
    PROVE  NoticeInv'
  <1> USE DEF NetInv, NetTypes, NetClientType, NoticeInv
  <1>b. ASSUME NEW q \in Seq(MessageType), overrun \/ TellsOfChange(q) \/ TellsOfChange(client.pending)
        PROVE  drain(q)
    BY <1>b DEF drain, TellsOfChange
  <1>1. CASE TableChanges
    <2>1. UNCHANGED <<use, client, switched>> /\ during' = during \cup {table'}
      BY <1>1, TableChanged DEF TableChanges
    <2>2. CASE inbox' = inbox /\ (use = "watch" => overrun')
      BY <2>1, <2>2
    <2>3. CASE \E m \in MessageType : m.seq = 0 /\ m.kind = "event" /\ inbox' = Append(inbox, m)
      <3>1. TellsOfChange(inbox')
        BY <2>3, StaysTold
      <3> QED BY <2>1, <3>1 DEF TellsOfChange
    <2> QED BY <1>1, <2>2, <2>3, TableChanged
  <1>2. CASE KernelSends
    <2>1. UNCHANGED <<use, table, overrun, client, switched, during>>
      BY <1>2, KernelSent DEF KernelSends
    <2>2. \E m \in MessageType : inbox' = Append(inbox, m)
      BY <1>2, KernelSent
    <2>3. TellsOfChange(inbox) => TellsOfChange(inbox')
      BY <2>2, StaysTold
    <2> QED BY <2>1, <2>3 DEF TellsOfChange
  <1>3. CASE Truncated
    <2>1. TellsOfChange(inbox) => TellsOfChange(inbox')
      BY <1>3 DEF Truncated, TellsOfChange, MessageType
    <2> QED BY <1>3, <2>1 DEF Truncated, TellsOfChange
  <1>4. CASE Receive
    <2>1. /\ client.pc = "dump" /\ inbox # <<>> /\ ~overrun /\ UNCHANGED <<use, table, kdump, during>>
          /\ Skipped \/ Refused \/ Taken \/ Viewed \/ RoundEnds
      BY <1>4, ReceiveCases
    <2>2. /\ Head(inbox) \in MessageType /\ Tail(inbox) \in Seq(MessageType)
          /\ TellsOfChange(inbox) => TellsOfChange(Tail(inbox)) \/ Head(inbox).kind = "event"
      BY <2>1, Queued, StaysTold
    <2>3. CASE Skipped
      <3>1. /\ client'.pc = client.pc /\ client'.view = client.view /\ client'.stale = client.stale
            /\ client'.pending = Append(client.pending, Head(inbox)) /\ inbox' = Tail(inbox)
            /\ overrun' = overrun
        BY <2>3 DEF Skipped
      <3>2. TellsOfChange(client.pending) \/ Head(inbox).kind = "event" => TellsOfChange(client'.pending)
        BY <2>2, <3>1, StaysTold
      <3> QED BY <2>1, <2>2, <3>1, <3>2 DEF TellsOfChange
    <2>4. CASE Refused
      BY <2>1, <2>4, DumpFailed DEF Refused
    <2>5. CASE Taken
      <3>1. /\ client'.pc = client.pc /\ client'.view = client.view /\ client'.stale = client.stale
            /\ client'.pending = client.pending /\ inbox' = Tail(inbox) /\ overrun' = overrun
            /\ Head(inbox).kind # "event"
        BY <2>5 DEF Taken
      <3> QED BY <2>1, <2>2, <3>1 DEF TellsOfChange
    <2>6. CASE Viewed
      <3>1. /\ client'.pc = "idle" /\ client'.view = client.collected
            /\ client'.stale = drain(Tail(inbox)) /\ Head(inbox).kind # "event" /\ use = "watch"
        BY <2>6 DEF Viewed, Evaluated
      <3>2. client.collected \in during
        <4>1. ReadSoFar(1) = client.collected
          BY DEF ReadSoFar, ReadUpTo
        <4>2. ~Interrupted(1)
          BY DEF Interrupted, MarkedBefore
        <4>3. 1 \in DOMAIN inbox /\ Answers(inbox, client.seq, 1) /\ inbox[1].kind = "done" /\ ~inbox[1].intr
          BY <2>1, <2>6, Queued DEF Viewed, Matches, Answers
        <4> QED BY <2>1, <3>1, <4>1, <4>2, <4>3 DEF SnapshotInv
      <3>3. client.collected = table \/ client'.stale
        BY <1>b, <2>1, <2>2, <3>1, <3>2
      <3> QED BY <2>1, <3>1, <3>2, <3>3
    <2>7. CASE RoundEnds
      BY <2>1, <2>7 DEF RoundEnds
    <2> QED BY <2>1, <2>3, <2>4, <2>5, <2>6, <2>7
  <1>5. CASE ReceiveFails
    BY <1>5, DumpFailed DEF ReceiveFails
  <1>6. CASE handle_nl80211
    <2>1. /\ client'.pc = "idle" /\ client'.view = client.view
          /\ client'.stale <=> client.stale \/ (drain(inbox) /\ switched # "off")
          /\ UNCHANGED <<use, table, switched, during>> /\ client.pc = "idle"
      BY <1>6 DEF handle_nl80211
    <2>2. overrun \/ TellsOfChange(inbox) => client'.stale \/ switched = "off"
      BY <1>b, <2>1
    <2> QED BY <2>1, <2>2
  <1>7. CASE Evaluate \/ NextRound
    <2>1. PICK r \in Nat : Request(r)
      BY <1>7, Asks, NetlinkAssumption
    <2>2. client'.pc = "dump" /\ during' = {table} /\ UNCHANGED <<use, table>>
      BY <1>7, <2>1, Requested, Asks
    <2> QED BY <2>2
  <1>8. CASE Unsupported
    BY <1>8, GoesWithout
  <1>12. CASE Switch
    <2>1. /\ switched' # "on" /\ UNCHANGED <<use, table, inbox, overrun, client, during>>
      BY <1>12 DEF Switch
    <2> QED BY <2>1 DEF TellsOfChange
  <1>9. CASE Finished
    BY <1>9 DEF Finished, PlaceInv
  <1>10. CASE Retry
    BY <1>10 DEF Retry
  <1>11. CASE Destroy
    BY <1>11 DEF Destroy, PlaceInv
  <1> QED BY <1>1, <1>2, <1>3, <1>4, <1>5, <1>6, <1>7, <1>8, <1>9, <1>10, <1>11, <1>12 DEF NetlinkNext

\* What a finished round has found stays true while the table changes.
LEMMA FoundStep ==
    ASSUME NetInv, NetlinkNext
    PROVE  FoundInv'
  <1> USE DEF NetInv, NetTypes, NetClientType, FoundInv, Steady, Family
  <1>1. CASE TableChanges
    BY <1>1, TableChanged
  <1>2. CASE KernelSends
    <2>1. UNCHANGED <<use, client, during>>
      BY <1>2, KernelSent
    <2> QED BY <2>1
  <1>3. CASE Truncated
    BY <1>3 DEF Truncated
  <1>4. CASE Receive
    <2>1. /\ client.pc = "dump" /\ inbox # <<>> /\ UNCHANGED <<use, table, kdump, during>>
          /\ Skipped \/ Refused \/ Taken \/ Viewed \/ RoundEnds
      BY <1>4, ReceiveCases
    <2>2. CASE Skipped \/ Refused \/ Taken \/ Viewed
      <3>1. client'.pc # "round"
        BY <2>1, <2>2, DumpFailed DEF Skipped, Refused, Taken, Viewed, Evaluated
      <3> QED BY <3>1
    <2>3. CASE RoundEnds
      <3>1. /\ client'.round = client.round /\ client.round \in 1..Rounds
            /\ client'.found[client.round] = client.collected
        BY <2>1, <2>3 DEF RoundEnds, PlaceInv
      <3>2. ReadSoFar(1) = client.collected
        BY DEF ReadSoFar, ReadUpTo
      <3>3. 1 \in DOMAIN inbox /\ Answers(inbox, client.seq, 1) /\ inbox[1].kind = "done"
        BY <2>1, <2>3, Queued DEF RoundEnds, Matches, Answers
      <3>4. Steady \subseteq client.collected /\ client.collected \subseteq UNION during
        BY <2>1, <3>2, <3>3 DEF DumpInv
      <3> QED BY <2>1, <3>1, <3>4
    <2> QED BY <2>1, <2>2, <2>3
  <1>5. CASE ReceiveFails
    BY <1>5, DumpFailed DEF ReceiveFails
  <1>6. CASE handle_nl80211
    BY <1>6 DEF handle_nl80211
  <1>7. CASE Evaluate \/ NextRound
    <2>1. PICK r \in Nat : Request(r)
      BY <1>7, Asks, NetlinkAssumption
    <2>2. client'.pc = "dump"
      BY <2>1, Requested
    <2> QED BY <2>2
  <1>8. CASE Unsupported
    <2>1. PICK r \in 1..Rounds, f \in Found :
             /\ f \in [1..r -> Results] /\ f[r] = Nil
             /\ client' = [client EXCEPT !.found = f, !.pc = "round", !.round = r, !.seq = @ + 1]
      BY <1>8, GoesWithout
    <2>2. client'.found[client'.round] = Nil
      BY <2>1
    <2> QED BY <2>2
  <1>12. CASE Switch
    BY <1>12 DEF Switch
  <1>9. CASE Finished
    BY <1>9 DEF Finished
  <1>10. CASE Retry
    BY <1>10 DEF Retry, Client0
  <1>11. CASE Destroy
    BY <1>11 DEF Destroy
  <1> QED BY <1>1, <1>2, <1>3, <1>4, <1>5, <1>6, <1>7, <1>8, <1>9, <1>10, <1>11, <1>12 DEF NetlinkNext

\* The client as the dump under way sees it.
SameRequest == client'.seq = client.seq /\ client'.round = client.round /\ client'.pc = client.pc

\* One more message in the queue.
LEMMA ReadAfterSend ==
    ASSUME NetTypes, NEW m \in MessageType, inbox' = Append(inbox, m), SameRequest,
           client'.collected = client.collected
    PROVE  /\ \A k \in 1..(Len(inbox) + 1) :
                 /\ ReadSoFar(k)' = ReadSoFar(k) /\ (Interrupted(k)' <=> Interrupted(k))
           /\ (ReadSoFar(Len(inbox) + 1))' = ReadSoFar(Len(inbox) + 1) \cup Adds(m, client.seq)
           /\ (Interrupted(Len(inbox) + 1))' <=>
                 Interrupted(Len(inbox) + 1) \/ (m.seq = client.seq /\ m.intr)
           /\ \A k \in DOMAIN inbox' :
                 \/ k = Len(inbox) + 1 /\ inbox'[k] = m
                 \/ k \in DOMAIN inbox /\ inbox'[k] = inbox[k] /\ k \in 1..(Len(inbox) + 1)
           /\ Len(inbox) + 1 \in 1..(Len(inbox) + 1)
  <1>1. /\ inbox \in Seq(MessageType) /\ Len(inbox) \in Nat /\ Len(inbox') = Len(inbox) + 1
        /\ Len(inbox') + 1 = Len(inbox) + 2
    BY Appended DEF NetTypes
  <1>2. \A k \in 1..(Len(inbox) + 1) :
           /\ ReadUpTo(inbox', client.seq, client.collected, k) = ReadUpTo(inbox, client.seq, client.collected, k)
           /\ MarkedBefore(inbox', client.seq, k) <=> MarkedBefore(inbox, client.seq, k)
    BY <1>1, ReadAppended
  <1>3. ReadUpTo(inbox', client.seq, client.collected, Len(inbox) + 2)
           = ReadUpTo(inbox, client.seq, client.collected, Len(inbox) + 1) \cup Adds(m, client.seq)
    BY <1>1, ReadAppended
  <1>5. MarkedBefore(inbox', client.seq, Len(inbox) + 2) <=>
           MarkedBefore(inbox, client.seq, Len(inbox) + 1) \/ (m.seq = client.seq /\ m.intr)
    BY <1>1, ReadAppended, Zenon
  <1>4. \A k \in DOMAIN inbox' :
           \/ k = Len(inbox) + 1 /\ inbox'[k] = m
           \/ k \in DOMAIN inbox /\ inbox'[k] = inbox[k] /\ k \in 1..(Len(inbox) + 1)
    BY <1>1, Appended
  <1> QED BY <1>1, <1>2, <1>3, <1>4, <1>5 DEF ReadSoFar, Interrupted, SameRequest

\* The first message of the queue is read.
LEMMA ReadAfterReceive ==
    ASSUME NetTypes, inbox # <<>>, inbox' = Tail(inbox), SameRequest,
           client'.collected = client.collected \cup Adds(Head(inbox), client.seq),
           ~(Head(inbox).seq = client.seq /\ Head(inbox).intr)
    PROVE  /\ \A k \in 1..Len(inbox) :
                 /\ ReadSoFar(k)' = ReadSoFar(k + 1) /\ (Interrupted(k + 1) => Interrupted(k)')
           /\ (ReadSoFar(Len(inbox) + 1))' = ReadSoFar(Len(inbox) + 1)
           /\ Interrupted(Len(inbox) + 1) => (Interrupted(Len(inbox) + 1))'
           /\ \A k \in DOMAIN inbox' : k + 1 \in DOMAIN inbox /\ inbox'[k] = inbox[k + 1] /\ k \in 1..Len(inbox)
  <1>1. /\ inbox \in Seq(MessageType) /\ Len(inbox) \in Nat /\ Len(inbox') = Len(inbox) - 1
        /\ Len(inbox') + 1 = Len(inbox) /\ Len(inbox) \in 1..Len(inbox)
    BY Queued DEF NetTypes
  <1>2. ASSUME NEW k \in 1..Len(inbox)
        PROVE  /\ ReadUpTo(inbox', client.seq, client'.collected, k)
                     = ReadUpTo(inbox, client.seq, client.collected, k + 1)
               /\ MarkedBefore(inbox, client.seq, k + 1) => MarkedBefore(inbox', client.seq, k)
    <2>1. ReadUpTo(Tail(inbox), client.seq, client.collected \cup Adds(Head(inbox), client.seq), k)
             = ReadUpTo(inbox, client.seq, client.collected, k + 1)
      BY <1>1, ReadNext
    <2>2. MarkedBefore(inbox, client.seq, k + 1) =>
             MarkedBefore(Tail(inbox), client.seq, k) \/ (Head(inbox).seq = client.seq /\ Head(inbox).intr)
      BY <1>1, ReadNext, Zenon
    <2> QED BY <2>1, <2>2, Zenon
  <1>3. \A k \in DOMAIN inbox' : k + 1 \in DOMAIN inbox /\ inbox'[k] = inbox[k + 1] /\ k \in 1..Len(inbox)
    BY <1>1, Queued
  <1> QED BY <1>1, <1>2, <1>3 DEF ReadSoFar, Interrupted, SameRequest

\* A message that is cut short is read no more and no less.
LEMMA ReadTruncated ==
    ASSUME NetTypes, Truncated
    PROVE  /\ Len(inbox') = Len(inbox) /\ DOMAIN inbox' = DOMAIN inbox
           /\ \A k \in DOMAIN inbox : /\ inbox'[k].seq = inbox[k].seq /\ inbox'[k].kind = inbox[k].kind
                                      /\ inbox'[k].item = inbox[k].item /\ inbox'[k].intr = inbox[k].intr
           /\ \A k \in 1..(Len(inbox) + 1) :
                 /\ ReadSoFar(k)' = ReadSoFar(k) /\ (Interrupted(k)' <=> Interrupted(k))
  <1>1. /\ inbox \in Seq(MessageType) /\ 1 \in DOMAIN inbox /\ DOMAIN inbox = 1..Len(inbox) /\ Len(inbox) \in Nat
        /\ UNCHANGED client
    BY Queued DEF NetTypes, Truncated
  <1>2. inbox' = [inbox EXCEPT ![1].trunc = TRUE]
    BY DEF Truncated
  <1>3. Len(inbox') = Len(inbox) /\ DOMAIN inbox' = DOMAIN inbox
    BY <1>1, <1>2
  <1>4. \A k \in DOMAIN inbox : /\ inbox'[k].seq = inbox[k].seq /\ inbox'[k].kind = inbox[k].kind
                                /\ inbox'[k].item = inbox[k].item /\ inbox'[k].intr = inbox[k].intr
    BY <1>1, <1>2 DEF MessageType
  <1>5. ASSUME NEW k \in 1..(Len(inbox) + 1)
        PROVE  ReadSoFar(k)' = ReadSoFar(k) /\ (Interrupted(k)' <=> Interrupted(k))
    <2>1. {i \in 1..(k - 1) : i <= Len(inbox') /\ Answers(inbox', client.seq, i) /\ inbox'[i].kind = "item"}
             = {i \in 1..(k - 1) : i <= Len(inbox) /\ Answers(inbox, client.seq, i) /\ inbox[i].kind = "item"}
      BY <1>1, <1>3, <1>4 DEF Answers
    <2>2. \A i \in 1..(k - 1) : inbox'[i].item = inbox[i].item
      BY <1>1, <1>4
    <2>3. {inbox'[j].item : j \in {i \in 1..(k - 1) :
               i <= Len(inbox') /\ Answers(inbox', client.seq, i) /\ inbox'[i].kind = "item"}}
             = {inbox[j].item : j \in {i \in 1..(k - 1) :
               i <= Len(inbox) /\ Answers(inbox, client.seq, i) /\ inbox[i].kind = "item"}}
      BY <2>1, <2>2
    <2>4. ReadSoFar(k)' = ReadSoFar(k)
      BY <1>1, <2>3 DEF ReadSoFar, ReadUpTo
    <2>5. Interrupted(k)' <=> Interrupted(k)
      BY <1>1, <1>3, <1>4 DEF Interrupted, MarkedBefore, Answers
    <2> QED BY <2>4, <2>5
  <1> QED BY <1>3, <1>4, <1>5

\* No answer to the request under way comes or goes.
QueueStays ==
    /\ \A k \in DOMAIN inbox' : inbox'[k].seq = client.seq =>
          /\ k \in DOMAIN inbox /\ inbox[k].seq = client.seq /\ inbox'[k].kind = inbox[k].kind
          /\ inbox'[k].item = inbox[k].item /\ inbox'[k].intr = inbox[k].intr
          /\ ReadSoFar(k)' = ReadSoFar(k) /\ (Interrupted(k)' <=> Interrupted(k))
    /\ (ReadSoFar(Len(inbox) + 1))' = ReadSoFar(Len(inbox) + 1)
    /\ (Interrupted(Len(inbox) + 1))' <=> Interrupted(Len(inbox) + 1)

\* A message for somebody else is no answer.
LEMMA OthersStay ==
    ASSUME NetTypes, NEW m \in MessageType, inbox' = Append(inbox, m), UNCHANGED client, m.seq # client.seq
    PROVE  QueueStays
  <1>1. SameRequest /\ client'.collected = client.collected
    BY DEF SameRequest
  <1>2. /\ \A k \in 1..(Len(inbox) + 1) : ReadSoFar(k)' = ReadSoFar(k) /\ (Interrupted(k)' <=> Interrupted(k))
        /\ (ReadSoFar(Len(inbox) + 1))' = ReadSoFar(Len(inbox) + 1) \cup Adds(m, client.seq)
        /\ (Interrupted(Len(inbox) + 1))' <=>
              Interrupted(Len(inbox) + 1) \/ (m.seq = client.seq /\ m.intr)
        /\ \A k \in DOMAIN inbox' :
              \/ k = Len(inbox) + 1 /\ inbox'[k] = m
              \/ k \in DOMAIN inbox /\ inbox'[k] = inbox[k] /\ k \in 1..(Len(inbox) + 1)
    BY <1>1, ReadAfterSend, Zenon
  <1>3. Adds(m, client.seq) = {}
    BY DEF Adds
  <1> QED BY <1>2, <1>3 DEF QueueStays

\* What is read depends on the queue, the request and what was read before.
LEMMA SameReads ==
    ASSUME UNCHANGED <<inbox, client>>
    PROVE  QueueStays
BY DEF QueueStays, ReadSoFar, ReadUpTo, Interrupted, MarkedBefore, Answers

\* The kernel and its table move without an answer: the dump under way is as whole as before.
LEMMA DumpStays ==
    ASSUME NetInv, QueueStays, UNCHANGED <<use, client>>, during \subseteq during', table' \in during',
           Running' => Running /\ kdump'.left = kdump.left
    PROVE  DumpInv'
  <1> SUFFICES ASSUME client.pc = "dump"
               PROVE  DumpInv'
    BY DEF DumpInv
  <1> USE DEF NetInv
  <1>1. Steady' \subseteq Steady /\ UNION during \subseteq UNION during'
    BY DEF Steady, Family
  <1>2. client'.collected \subseteq UNION during'
    BY <1>1 DEF DumpInv
  <1>3. \A k \in DOMAIN inbox' :
           Answers(inbox', client.seq, k) /\ inbox'[k].kind = "item" => inbox'[k].item \in UNION during'
    BY <1>1 DEF DumpInv, QueueStays, Answers
  <1>4. Running' => \A k \in DOMAIN inbox' : Answers(inbox', client.seq, k) => inbox'[k].kind # "done"
    BY DEF DumpInv, QueueStays, Answers
  <1>5. Running' => Steady' \subseteq (ReadSoFar(Len(inbox) + 1))' \cup kdump'.left
    BY <1>1 DEF DumpInv, QueueStays
  <1>6. \A k \in DOMAIN inbox' :
           Answers(inbox', client.seq, k) /\ inbox'[k].kind = "done" => Steady' \subseteq ReadSoFar(k)'
    BY <1>1 DEF DumpInv, QueueStays, Answers
  <1> QED BY <1>2, <1>3, <1>4, <1>5, <1>6 DEF DumpInv

\* And the watch takes it for the table only if the table stood still.
LEMMA SnapshotStays ==
    ASSUME NetInv, QueueStays, UNCHANGED <<use, client>>, during \subseteq during',
           Running' => /\ Running /\ kdump'.left = kdump.left
                       /\ \/ use = "watch" => kdump'.intr
                          \/ UNCHANGED <<kdump, table, during>>
    PROVE  SnapshotInv'
  <1> SUFFICES ASSUME client.pc = "dump", use = "watch"
               PROVE  SnapshotInv'
    BY DEF SnapshotInv
  <1> USE DEF NetInv
  <1>1. Running' => \/ kdump'.intr \/ (Interrupted(Len(inbox) + 1))'
                    \/ during' = {table'} /\ (ReadSoFar(Len(inbox) + 1))' = table' \ kdump'.left
    BY DEF SnapshotInv, QueueStays
  <1>2. \A k \in DOMAIN inbox' :
           Answers(inbox', client.seq, k) /\ inbox'[k].kind = "done" =>
              inbox'[k].intr \/ Interrupted(k)' \/ ReadSoFar(k)' \in during'
    BY DEF SnapshotInv, QueueStays, Answers
  <1> QED BY <1>1, <1>2 DEF SnapshotInv

\* The table changes during a dump.
LEMMA TableWhileDumping ==
    ASSUME NetInv, TableChanges
    PROVE  DumpInv' /\ SnapshotInv'
  <1>1. UNCHANGED <<use, client>> /\ during' = during \cup {table'} /\ NetTypes
    BY TableChanged DEF NetInv
  <1> SUFFICES ASSUME client.pc = "dump"
               PROVE  DumpInv' /\ SnapshotInv'
    BY <1>1 DEF DumpInv, SnapshotInv
  <1>2. client.seq # 0
    BY DEF NetInv, PlaceInv
  <1>3. QueueStays
    <2>1. CASE inbox' = inbox
      BY <1>1, <2>1, SameReads
    <2>2. CASE \E m \in MessageType : m.seq = 0 /\ m.kind = "event" /\ inbox' = Append(inbox, m)
      BY <1>1, <1>2, <2>2, OthersStay
    <2> QED BY <2>1, <2>2, TableChanged
  <1>4. Running' => Running /\ kdump'.left = kdump.left /\ (use = "watch" => kdump'.intr)
    BY <1>1, TableChanged DEF Running
  <1>5. DumpInv'
    BY <1>1, <1>3, <1>4, DumpStays
  <1>6. SnapshotInv'
    BY <1>1, <1>3, <1>4, SnapshotStays
  <1> QED BY <1>5, <1>6

\* The kernel answers: an item moves from what is to come to what is on its way.
LEMMA KernelWhileDumping ==
    ASSUME NetInv, KernelSends
    PROVE  DumpInv' /\ SnapshotInv'
  <1>1. /\ kdump # Nil /\ kdump \in KdumpType /\ UNCHANGED <<use, table, overrun, client, during>>
        /\ NetTypes
    BY KernelSent DEF NetInv
  <1> SUFFICES ASSUME client.pc = "dump"
               PROVE  DumpInv' /\ SnapshotInv'
    BY <1>1 DEF DumpInv, SnapshotInv
  <1>2. PICK m \in MessageType :
           /\ inbox' = Append(inbox, m) /\ m.seq = kdump.seq /\ m.intr = kdump.intr
           /\ \/ m.kind = "done" /\ kdump.left \cap table = {} /\ kdump' = Nil
              \/ /\ m.kind = "item" /\ m.item \in kdump.left \cap table
                 /\ kdump' = [kdump EXCEPT !.left = @ \ {m.item}, !.intr = FALSE]
    BY KernelSent
  <1>3. kdump' # Nil => /\ kdump'.seq = kdump.seq /\ kdump'.left = kdump.left \ {m.item} /\ ~kdump'.intr
                        /\ m.kind = "item" /\ m.item \in kdump.left \cap table
    BY <1>1, <1>2 DEF KdumpType
  <1>4. table \in during
    BY DEF NetInv, DumpInv
  <1>5. CASE ~Running
    <2>1. QueueStays
      BY <1>1, <1>2, <1>5, OthersStay DEF Running
    <2>2. ~Running'
      BY <1>1, <1>3, <1>5 DEF Running
    <2>3. DumpInv'
      BY <1>1, <1>4, <2>1, <2>2, DumpStays
    <2>4. SnapshotInv'
      BY <1>1, <2>1, <2>2, SnapshotStays
    <2> QED BY <2>3, <2>4
  <1>6. CASE Running
    <2>1. m.seq = client.seq
      BY <1>2, <1>6 DEF Running
    <2>2. SameRequest /\ client'.collected = client.collected
      BY <1>1 DEF SameRequest
    <2>3. /\ \A k \in 1..(Len(inbox) + 1) : ReadSoFar(k)' = ReadSoFar(k) /\ (Interrupted(k)' <=> Interrupted(k))
          /\ (ReadSoFar(Len(inbox) + 1))' = ReadSoFar(Len(inbox) + 1) \cup Adds(m, client.seq)
          /\ (Interrupted(Len(inbox) + 1))' <=>
                Interrupted(Len(inbox) + 1) \/ (m.seq = client.seq /\ m.intr)
          /\ \A k \in DOMAIN inbox' :
                \/ k = Len(inbox) + 1 /\ inbox'[k] = m
                \/ k \in DOMAIN inbox /\ inbox'[k] = inbox[k] /\ k \in 1..(Len(inbox) + 1)
          /\ Len(inbox) + 1 \in 1..(Len(inbox) + 1)
      BY <1>1, <1>2, <2>2, ReadAfterSend, Zenon
    <2>4. Adds(m, client.seq) = IF m.kind = "item" THEN {m.item} ELSE {}
      BY <2>1 DEF Adds
    <2>5. Steady' = Steady /\ Steady \subseteq table
      BY <1>1, <1>4 DEF Steady, Family
    <2>6. m.kind = "item" => m.item \in UNION during
      BY <1>2, <1>4
    <2>7. Steady \subseteq ReadSoFar(Len(inbox) + 1) \cup kdump.left
      BY <1>6 DEF NetInv, DumpInv
    <2>8. m.kind = "done" => kdump' = Nil /\ kdump.left \cap table = {}
      BY <1>2
    <2>9. DumpInv'
      <3>1. \A k \in DOMAIN inbox' :
               Answers(inbox', client.seq, k) /\ inbox'[k].kind = "item" => inbox'[k].item \in UNION during
        BY <2>3, <2>6 DEF NetInv, DumpInv, Answers
      <3>2. kdump' # Nil =>
               \A k \in DOMAIN inbox' : Answers(inbox', client.seq, k) => inbox'[k].kind # "done"
        BY <1>3, <1>6, <2>3 DEF NetInv, DumpInv, Answers
      <3>3. kdump' # Nil => Steady \subseteq (ReadSoFar(Len(inbox) + 1))' \cup kdump'.left
        BY <1>3, <2>3, <2>4, <2>7
      <3>4. \A k \in DOMAIN inbox' :
               Answers(inbox', client.seq, k) /\ inbox'[k].kind = "done" => Steady \subseteq ReadSoFar(k)'
        <4> SUFFICES ASSUME NEW k \in DOMAIN inbox', Answers(inbox', client.seq, k), inbox'[k].kind = "done"
                     PROVE  Steady \subseteq ReadSoFar(k)'
          OBVIOUS
        <4>1. CASE k \in DOMAIN inbox /\ inbox'[k] = inbox[k] /\ k \in 1..(Len(inbox) + 1)
          <5>1. Answers(inbox, client.seq, k) /\ inbox[k].kind = "done"
            BY <4>1 DEF Answers
          <5>2. Steady \subseteq ReadSoFar(k)
            BY <4>1, <5>1 DEF NetInv, DumpInv
          <5> QED BY <2>3, <4>1, <5>2
        <4>2. CASE k = Len(inbox) + 1 /\ inbox'[k] = m
          <5>1. ReadSoFar(k)' = ReadSoFar(k) /\ ReadSoFar(k) = ReadSoFar(Len(inbox) + 1)
            BY <2>3, <4>2
          <5> QED BY <2>5, <2>7, <2>8, <4>2, <5>1
        <4> QED BY <2>3, <4>1, <4>2
      <3> QED BY <1>1, <1>4, <2>5, <3>1, <3>2, <3>3, <3>4 DEF NetInv, DumpInv, Running
    <2>10. SnapshotInv'
      <3> SUFFICES ASSUME use = "watch"
                   PROVE  SnapshotInv'
        BY <1>1 DEF SnapshotInv
      <3>1. \/ kdump.intr \/ Interrupted(Len(inbox) + 1)
            \/ during = {table} /\ ReadSoFar(Len(inbox) + 1) = table \ kdump.left
        BY <1>6 DEF NetInv, SnapshotInv
      <3>2. kdump' # Nil => \/ (Interrupted(Len(inbox) + 1))'
                            \/ during = {table} /\ (ReadSoFar(Len(inbox) + 1))' = table \ kdump'.left
        <4> SUFFICES ASSUME kdump' # Nil, ~(Interrupted(Len(inbox) + 1))'
                     PROVE  during = {table} /\ (ReadSoFar(Len(inbox) + 1))' = table \ kdump'.left
          OBVIOUS
        <4>1. during = {table} /\ ReadSoFar(Len(inbox) + 1) = table \ kdump.left
          BY <1>2, <2>1, <2>3, <3>1
        <4>2. (ReadSoFar(Len(inbox) + 1))' = ReadSoFar(Len(inbox) + 1) \cup {m.item}
          BY <1>3, <2>3, <2>4
        <4> QED BY <1>3, <4>1, <4>2
      <3>3. \A k \in DOMAIN inbox' :
               Answers(inbox', client.seq, k) /\ inbox'[k].kind = "done" =>
                  inbox'[k].intr \/ Interrupted(k)' \/ ReadSoFar(k)' \in during
        <4> SUFFICES ASSUME NEW k \in DOMAIN inbox', Answers(inbox', client.seq, k), inbox'[k].kind = "done"
                     PROVE  inbox'[k].intr \/ Interrupted(k)' \/ ReadSoFar(k)' \in during
          OBVIOUS
        <4>1. CASE k \in DOMAIN inbox /\ inbox'[k] = inbox[k] /\ k \in 1..(Len(inbox) + 1)
          <5>1. Answers(inbox, client.seq, k) /\ inbox[k].kind = "done"
            BY <4>1 DEF Answers
          <5>2. inbox[k].intr \/ Interrupted(k) \/ ReadSoFar(k) \in during
            BY <4>1, <5>1 DEF NetInv, SnapshotInv
          <5> QED BY <2>3, <4>1, <5>2
        <4>2. CASE k = Len(inbox) + 1 /\ inbox'[k] = m
          <5>1. /\ ReadSoFar(k)' = ReadSoFar(k) /\ ReadSoFar(k) = ReadSoFar(Len(inbox) + 1)
                /\ (Interrupted(k)' <=> Interrupted(k)) /\ (Interrupted(k) <=> Interrupted(Len(inbox) + 1))
            BY <2>3, <4>2
          <5>2. table \ kdump.left = table /\ inbox'[k].intr = kdump.intr
            BY <1>2, <2>8, <4>2
          <5> QED BY <1>4, <3>1, <5>1, <5>2
        <4> QED BY <2>3, <4>1, <4>2
      <3> QED BY <1>1, <3>2, <3>3 DEF SnapshotInv, Running
    <2> QED BY <2>9, <2>10
  <1> QED BY <1>5, <1>6

\* The client reads: a message moves from what is on its way to what has been read.
LEMMA ReceiveWhileDumping ==
    ASSUME NetInv, inbox # <<>>, client.pc = "dump", UNCHANGED <<use, table, kdump, during>>,
           Skipped \/ Taken
    PROVE  DumpInv' /\ SnapshotInv'
  <1> DEFINE m == Head(inbox)
  <1>0. NetTypes /\ client \in NetClientType
    BY DEF NetInv, NetTypes
  <1>1. /\ inbox' = Tail(inbox) /\ SameRequest /\ ~(m.seq = client.seq /\ m.intr)
        /\ client'.collected = client.collected \cup Adds(m, client.seq)
    <2>1. CASE Skipped
      BY <1>0, <2>1 DEF Skipped, SameRequest, Matches, Adds, NetClientType
    <2>2. CASE Taken
      BY <1>0, <2>2 DEF Taken, SameRequest, Matches, Adds, NetClientType
    <2> QED BY <2>1, <2>2
  <1>2. /\ \A k \in 1..Len(inbox) : ReadSoFar(k)' = ReadSoFar(k + 1) /\ (Interrupted(k + 1) => Interrupted(k)')
        /\ (ReadSoFar(Len(inbox) + 1))' = ReadSoFar(Len(inbox) + 1)
        /\ Interrupted(Len(inbox) + 1) => (Interrupted(Len(inbox) + 1))'
        /\ \A k \in DOMAIN inbox' : k + 1 \in DOMAIN inbox /\ inbox'[k] = inbox[k + 1] /\ k \in 1..Len(inbox)
    BY <1>0, <1>1, ReadAfterReceive, Zenon
  <1>3. Adds(m, client.seq) \subseteq UNION during
    <2>1. m = inbox[1] /\ 1 \in DOMAIN inbox
      BY <1>0, Queued DEF NetTypes
    <2> QED BY <2>1 DEF NetInv, DumpInv, Adds, Answers
  <1>4. Steady' = Steady /\ (Running' <=> Running) /\ client'.seq = client.seq
    BY <1>1 DEF Steady, Family, Running, SameRequest
  <1> HIDE DEF m
  <1>5. DumpInv'
    <2>1. table' \in during' /\ client'.collected \subseteq UNION during'
      BY <1>1, <1>3 DEF NetInv, DumpInv
    <2>2. \A k \in DOMAIN inbox' :
             Answers(inbox', client.seq, k) /\ inbox'[k].kind = "item" => inbox'[k].item \in UNION during
      BY <1>2 DEF NetInv, DumpInv, Answers
    <2>3. Running => \A k \in DOMAIN inbox' : Answers(inbox', client.seq, k) => inbox'[k].kind # "done"
      BY <1>2 DEF NetInv, DumpInv, Answers
    <2>4. Running => Steady \subseteq (ReadSoFar(Len(inbox) + 1))' \cup kdump.left
      BY <1>2 DEF NetInv, DumpInv
    <2>5. ASSUME NEW k \in DOMAIN inbox', Answers(inbox', client.seq, k), inbox'[k].kind = "done"
          PROVE  Steady \subseteq ReadSoFar(k)'
      <3>1. k + 1 \in DOMAIN inbox /\ Answers(inbox, client.seq, k + 1) /\ inbox[k + 1].kind = "done"
        BY <1>2, <2>5 DEF Answers
      <3>2. Steady \subseteq ReadSoFar(k + 1)
        BY <3>1 DEF NetInv, DumpInv
      <3> QED BY <1>2, <3>2
    <2> QED BY <1>4, <2>1, <2>2, <2>3, <2>4, <2>5 DEF DumpInv
  <1>6. SnapshotInv'
    <2> SUFFICES ASSUME use = "watch"
                 PROVE  SnapshotInv'
      BY DEF SnapshotInv
    <2>1. Running => \/ kdump.intr \/ (Interrupted(Len(inbox) + 1))'
                     \/ during = {table} /\ (ReadSoFar(Len(inbox) + 1))' = table \ kdump.left
      BY <1>2 DEF NetInv, SnapshotInv
    <2>2. ASSUME NEW k \in DOMAIN inbox', Answers(inbox', client.seq, k), inbox'[k].kind = "done"
          PROVE  inbox'[k].intr \/ Interrupted(k)' \/ ReadSoFar(k)' \in during
      <3>1. /\ k + 1 \in DOMAIN inbox /\ Answers(inbox, client.seq, k + 1) /\ inbox[k + 1].kind = "done"
            /\ inbox'[k].intr = inbox[k + 1].intr
        BY <1>2, <2>2 DEF Answers
      <3>2. inbox[k + 1].intr \/ Interrupted(k + 1) \/ ReadSoFar(k + 1) \in during
        BY <3>1 DEF NetInv, SnapshotInv
      <3> QED BY <1>2, <3>1, <3>2
    <2> QED BY <1>4, <2>1, <2>2 DEF SnapshotInv
  <1> QED BY <1>5, <1>6

\* A new request: nobody has answered it, and all of its table is to come.
LEMMA RequestBegins ==
    ASSUME NetInv, NEW r \in Nat, Request(r), UNCHANGED <<use, table>>
    PROVE  DumpInv' /\ SnapshotInv'
  <1> DEFINE n == client.seq + 1
  <1>1. /\ client'.round = r /\ client'.seq = n /\ client'.collected = {} /\ during' = {table}
        /\ client.seq \in Nat /\ inbox \in Seq(MessageType) /\ table \subseteq Items
    BY Requested DEF NetInv, NetTypes, NetClientType
  <1>2. \A k \in DOMAIN inbox : inbox[k].seq # n
    <2>1. \A k \in DOMAIN inbox : inbox[k] \in MessageType /\ inbox[k].seq <= client.seq
      BY <1>1 DEF NetInv, NumberInv
    <2>2. \A k \in DOMAIN inbox : inbox[k].seq \in Nat
      BY <2>1 DEF MessageType
    <2> QED BY <1>1, <2>1, <2>2
  <1>3. kdump # Nil => kdump.seq # n
    BY <1>1 DEF NetInv, NetTypes, NumberInv, KdumpType
  <1> HIDE DEF n
  <1>4. CASE kdump = Nil /\ inbox' = inbox /\ kdump'.seq = client.seq + 1 /\ kdump'.left = Family(r)
    <2>1. Len(inbox') + 1 \in Nat
      BY <1>1, <1>4
    <2>2. ReadUpTo(inbox', n, {}, Len(inbox') + 1) = {}
      BY <1>1, <1>2, <1>4, <2>1, ReadNothing
    <2>3. (ReadSoFar(Len(inbox) + 1))' = {}
      BY <1>1, <2>2 DEF ReadSoFar
    <2>4. Steady' \subseteq kdump'.left /\ Steady' \subseteq table
      BY <1>1, <1>4 DEF Steady, Family
    <2>5. \A k \in DOMAIN inbox' : ~Answers(inbox', n, k)
      BY <1>2, <1>4 DEF Answers
    <2>6. use = "watch" => table \ kdump'.left = {}
      BY <1>1, <1>4 DEF Family
    <2>7. DumpInv'
      BY <1>1, <2>3, <2>4, <2>5 DEF DumpInv
    <2>8. SnapshotInv'
      BY <1>1, <2>3, <2>5, <2>6 DEF SnapshotInv
    <2> QED BY <2>7, <2>8
  <1>5. CASE /\ kdump # Nil /\ UNCHANGED kdump
             /\ \E m \in MessageType : m.seq = client.seq + 1 /\ m.kind = "error" /\ inbox' = Append(inbox, m)
    <2>1. PICK m \in MessageType : m.kind = "error" /\ inbox' = Append(inbox, m)
      BY <1>5
    <2>2. \A k \in DOMAIN inbox' : inbox'[k] = m \/ (k \in DOMAIN inbox /\ inbox'[k] = inbox[k])
      BY <1>1, <2>1, Appended
    <2>3. \A k \in DOMAIN inbox' : Answers(inbox', n, k) => inbox'[k].kind = "error"
      BY <1>2, <2>1, <2>2 DEF Answers
    <2>4. ~Running'
      BY <1>1, <1>3, <1>5 DEF Running
    <2> QED BY <1>1, <2>3, <2>4 DEF DumpInv, SnapshotInv
  <1> QED BY <1>4, <1>5, Requested

\* Every step keeps the dump under way whole.
LEMMA DumpStep ==
    ASSUME NetInv, NetlinkNext
    PROVE  DumpInv' /\ SnapshotInv'
  <1>0. ASSUME client'.pc # "dump"
        PROVE  DumpInv' /\ SnapshotInv'
    BY <1>0 DEF DumpInv, SnapshotInv
  <1>a. client \in NetClientType /\ NetTypes
    BY DEF NetInv, NetTypes
  <1>1. CASE TableChanges
    BY <1>1, TableWhileDumping
  <1>2. CASE KernelSends
    BY <1>2, KernelWhileDumping
  <1>3. CASE Truncated
    <2>1. UNCHANGED <<use, table, kdump, client, during>>
      BY <1>3 DEF Truncated
    <2>2. QueueStays
      <3>1. /\ Len(inbox') = Len(inbox) /\ DOMAIN inbox' = DOMAIN inbox
            /\ \A k \in DOMAIN inbox : /\ inbox'[k].seq = inbox[k].seq /\ inbox'[k].kind = inbox[k].kind
                                       /\ inbox'[k].item = inbox[k].item /\ inbox'[k].intr = inbox[k].intr
            /\ \A k \in 1..(Len(inbox) + 1) :
                  /\ ReadSoFar(k)' = ReadSoFar(k) /\ (Interrupted(k)' <=> Interrupted(k))
        BY <1>3, <1>a, ReadTruncated
      <3>2. /\ \A k \in DOMAIN inbox : k \in 1..(Len(inbox) + 1)
            /\ Len(inbox) + 1 \in 1..(Len(inbox) + 1)
        BY DEF NetInv, NetTypes
      <3>3. /\ (ReadSoFar(Len(inbox) + 1))' = ReadSoFar(Len(inbox) + 1)
            /\ (Interrupted(Len(inbox) + 1))' <=> Interrupted(Len(inbox) + 1)
        BY <2>1, <3>1, <3>2 DEF ReadSoFar, Interrupted
      <3> QED BY <3>1, <3>2, <3>3 DEF QueueStays
    <2>3. Running' <=> Running
      BY <2>1 DEF Running
    <2>4. SnapshotInv'
      BY <2>1, <2>2, <2>3, SnapshotStays
    <2>5. CASE client.pc = "dump"
      <3>1. table' \in during'
        BY <2>1, <2>5 DEF NetInv, DumpInv
      <3> QED BY <2>1, <2>2, <2>3, <2>4, <3>1, DumpStays
    <2> QED BY <1>0, <2>1, <2>4, <2>5
  <1>4. CASE Receive
    <2>1. /\ client.pc = "dump" /\ inbox # <<>> /\ UNCHANGED <<use, table, kdump, during>>
          /\ Skipped \/ Refused \/ Taken \/ Viewed \/ RoundEnds
      BY <1>4, ReceiveCases
    <2>2. CASE Skipped \/ Taken
      BY <2>1, <2>2, ReceiveWhileDumping
    <2>3. CASE Refused \/ Viewed \/ RoundEnds
      <3>1. client'.pc # "dump"
        <4>1. CASE Refused
          BY <4>1, DumpFailed DEF Refused
        <4>2. CASE Viewed \/ RoundEnds
          BY <1>a, <4>2 DEF Viewed, Evaluated, RoundEnds, NetClientType
        <4> QED BY <2>3, <4>1, <4>2
      <3> QED BY <1>0, <3>1
    <2> QED BY <2>1, <2>2, <2>3
  <1>5. CASE ReceiveFails
    <2>1. client'.pc # "dump"
      BY <1>5, DumpFailed DEF ReceiveFails
    <2> QED BY <1>0, <2>1
  <1>6. CASE handle_nl80211 \/ Finished \/ Retry \/ Destroy
    <2>1. client'.pc # "dump"
      <3>1. CASE handle_nl80211
        BY <1>a, <3>1 DEF handle_nl80211, NetClientType
      <3>2. CASE Finished
        BY <1>a, <3>2 DEF Finished, NetClientType
      <3>3. CASE Retry
        BY <3>3 DEF Retry, Client0
      <3>4. CASE Destroy
        BY <1>a, <3>4 DEF Destroy, NetClientType
      <3> QED BY <1>6, <3>1, <3>2, <3>3, <3>4
    <2> QED BY <1>0, <2>1
  <1>7. CASE Evaluate \/ NextRound
    <2>1. UNCHANGED <<use, table>>
      BY <1>7, Asks
    <2>3. PICK r \in Nat : Request(r)
      BY <1>7, Asks, NetlinkAssumption
    <2> QED BY <2>1, <2>3, RequestBegins
  <1>8. CASE Unsupported
    <2>1. client'.pc # "dump"
      BY <1>8, GoesWithout
    <2> QED BY <1>0, <2>1
  <1>9. CASE Switch
    <2>1. UNCHANGED <<use, table, kdump, inbox, client, during>>
      BY <1>9 DEF Switch
    <2>2. QueueStays /\ (Running' <=> Running)
      BY <2>1, SameReads DEF Running
    <2>3. SnapshotInv'
      BY <2>1, <2>2, SnapshotStays
    <2>4. CASE client.pc = "dump"
      <3>1. table' \in during'
        BY <2>1, <2>4 DEF NetInv, DumpInv
      <3> QED BY <2>1, <2>2, <2>3, <3>1, DumpStays
    <2> QED BY <1>0, <2>1, <2>3, <2>4
  <1> QED BY <1>1, <1>2, <1>3, <1>4, <1>5, <1>6, <1>7, <1>8, <1>9 DEF NetlinkNext

\* What the runs check of the dumps follows.
LEMMA NetInvSuffices ==
    ASSUME NetInv
    PROVE  DumpsAreWhole /\ ChangeIsNoticed
  <1>1. DumpTruthful
    BY DEF NetInv, FoundInv, NoticeInv, DumpTruthful, Steady
  <1>2. ResetsOnlyTheLeavers
    BY DEF NetInv, PlaceInv, ResetsOnlyTheLeavers
  <1>3. ChangeIsNoticed
    <2>1. TellsOfChange(inbox) => inbox # <<>>
      BY DEF TellsOfChange
    <2> QED BY <2>1 DEF NetInv, NoticeInv, ChangeIsNoticed
  <1> QED BY <1>1, <1>2, <1>3 DEF DumpsAreWhole

\* NetInv holds in every reachable state: a dump accounts for every item that stays, as read,
\* on its way or to come; the watch's is marked unless the table stood still.
THEOREM DumpInvariance == NetlinkSpec => []NetInv
  <1>1. ASSUME NEW u \in {"watch", "probe", "destroy"}, NEW t \in SUBSET Items, NetlinkStart(u, t)
        PROVE  NetInv
    <2>1. client.pc = "idle" /\ client.killed = {} /\ client.view = Nil /\ client.seq = 0
      BY <1>1 DEF NetlinkStart, Client0
    <2>2. client.found \in [1..0 -> Results]
      <3>1. client.found = [r \in {} |-> {}]
        BY <1>1 DEF NetlinkStart, Client0
      <3> QED BY <3>1
    <2>3. NetTypes
      <3>1. <<>> \in Seq(MessageType)
        OBVIOUS
      <3> QED BY <1>1, <3>1, FirstClient DEF NetlinkStart, NetTypes
    <2>4. PlaceInv
      BY <2>1, <2>2 DEF PlaceInv
    <2>5. NumberInv
      BY <1>1 DEF NumberInv, NetlinkStart
    <2> QED BY <2>1, <2>3, <2>4, <2>5 DEF NetInv, DumpInv, SnapshotInv, NoticeInv, FoundInv
  <1>2. ASSUME NetInv, NetlinkNext
        PROVE  NetInv'
    BY <1>2, NetTypesStep, PlaceStep, DumpStep, NoticeStep, NumberStep, FoundStep DEF NetInv
  <1>3. ASSUME NetInv, UNCHANGED netvars
        PROVE  NetInv'
    <2>1. /\ NetTypes' /\ PlaceInv' /\ NumberInv'
      BY <1>3 DEF NetInv, netvars, NetTypes, PlaceInv, NumberInv
    <2>2. UNCHANGED <<use, table, kdump, inbox, overrun, client, switched, during>>
      BY <1>3 DEF netvars
    <2>3. NoticeInv' /\ FoundInv'
      BY <1>3, <2>2 DEF NetInv, NoticeInv, FoundInv, TellsOfChange, Steady, Family
    <2>4. QueueStays /\ (Running' <=> Running)
      BY <2>2, SameReads DEF Running
    <2>5. SnapshotInv'
      BY <1>3, <2>2, <2>4, SnapshotStays
    <2>6. DumpInv'
      <3>1. CASE client.pc = "dump"
        <4>1. table' \in during'
          BY <1>3, <2>2, <3>1 DEF NetInv, DumpInv
        <4> QED BY <1>3, <2>2, <2>4, <4>1, DumpStays
      <3>2. CASE client.pc # "dump"
        BY <2>2, <3>2 DEF DumpInv
      <3> QED BY <3>1, <3>2
    <2> QED BY <2>1, <2>3, <2>5, <2>6 DEF NetInv
  <1>4. (\E u \in {"watch", "probe", "destroy"}, t \in SUBSET Items : NetlinkStart(u, t)) => NetInv
    BY <1>1
  <1> QED BY <1>2, <1>3, <1>4, PTL DEF NetlinkSpec

\* DumpsAreWhole: "not seen" is "absent" only for a dump that was read to its end and was not
\* interrupted; sockets are reset only when each family was read to its end or refused by the
\* kernel as unsupported, and only those of the UIDs that left.
THEOREM DumpsAreTrusted == NetlinkSpec => []DumpsAreWhole
BY DumpInvariance, NetInvSuffices, PTL

\* ChangeIsNoticed: a watch whose view is not the table will read again: the event is in the
\* buffer, or was seen, or the buffer overran.  While Flux is switched off events are drained
\* and ignored; the convergence of the next switch on reads again.
THEOREM ChangesAreNoticed == NetlinkSpec => []ChangeIsNoticed
BY DumpInvariance, NetInvSuffices, PTL

-----------------------------------------------------------------------------
(* The network objects *)

NetworkType ==
    [pair : PairType \cup {Nil}, ids : Nat \ {0}, rule : [Fam -> SUBSET {"own", "foreign"}],
     route : [Fam -> SUBSET {"own", "foreign"}], filter : [Slot -> {"none", "own", "odd", "other"}]]

\* The pair has an index that was given out; only Flux gives a pair both of its aliases.
PairKnown(n) == n.pair # Nil => n.pair.id < n.ids /\ (n.pair.theirs => n.pair.alias # {"host", "peer"})

\* Whatever an earlier daemon and others have left.
TopologySpec ==
    (\E n \in {m \in NetworkType : PairKnown(m)} : TopologyStart(n)) /\ [][TopologyNext]_topovars

PlanType == [filters : SUBSET Slot, rules : SUBSET Fam, routes : SUBSET Fam, pair : Nat]
Cleaning == ({"check", "filter"} \X Slot) \cup ({"rule", "route"} \X Fam) \cup ({"pair"} \X Nat)
Undoing == ({"rule", "route"} \X Fam) \cup ({"pair"} \X Nat)
Veth == <<"veth", 0>>
Verify == <<"verify", 0>>
Sysctl == <<"sysctl", 0>>
Clsact == <<"clsact", 0>>
\* What create_topology does between the creation of the pair and the verification.
Needed == ({"alias", "up"} \X Sides) \cup ({"rule", "route"} \X Fam) \cup {Sysctl, Clsact}
Creating == Needed \cup {Veth, Verify}
ManagerType ==
    [pc : {"idle", "second", "clean", "before", "create", "links", "rollback"}, plan : PlanType \cup {Nil},
     todo : Seq(Cleaning \cup Creating), look : {"none", "own", "odd", "other", Nil}, repair : BOOLEAN, id : Nat, reconciled : BOOLEAN, active : BOOLEAN]
TopologyTypes == net \in NetworkType /\ topo \in ManagerType /\ quiet \in BOOLEAN

Requests(q) == {q[i] : i \in DOMAIN q}
Todo == Requests(topo.todo)
NoForeign(n) == \A f \in Fam : "foreign" \notin n.rule[f] /\ "foreign" \notin n.route[f]
NoOwn(n) == \A s \in Slot : n.filter[s] # "own"

\* Whose rules, routes and pair are gone once the requests are done.
Covered(n, q) ==
    /\ \A f \in Fam : /\ "own" \in n.rule[f] => <<"rule", f>> \in Requests(q)
                      /\ "own" \in n.route[f] => <<"route", f>> \in Requests(q)
    /\ n.pair # Nil => <<"pair", n.pair.id>> \in Requests(q)
FiltersCovered(n, q) == \A s \in Slot : n.filter[s] = "own" => <<"filter", s>> \in Requests(q)

\* A filter is deleted right after it was looked at.
Paired(q) ==
    /\ \A i \in DOMAIN q : q[i][1] = "filter" => i = 1 \/ (i - 1 \in DOMAIN q /\ q[i - 1] = <<"check", q[i][2]>>)
    /\ \A i \in DOMAIN q : q[i][1] = "check" => i + 1 \in DOMAIN q /\ q[i + 1] = <<"filter", q[i][2]>>

\* The order of a creation: the pair first, address generation off before a side comes up,
\* the verification last.
Ordered(q) ==
    /\ q # <<>>
    /\ \A i \in DOMAIN q : q[i] = Veth => i = 1
    /\ \A i \in DOMAIN q : q[i] = Verify <=> i = Len(q)
    /\ \A i, j \in DOMAIN q : q[i] = Sysctl /\ q[j][1] = "up" => i < j

\* A request of a creation has had its effect.
Done(n, request) ==
    CASE request[1] = "alias" -> request[2] \in n.pair.alias
      [] request[1] = "up" -> request[2] \in n.pair.up
      [] request[1] = "sysctl" -> n.pair.gen
      [] request[1] = "clsact" -> n.pair.clsact = "exact"
      [] request[1] = "rule" -> "own" \in n.rule[request[2]]
      [] OTHER -> "own" \in n.route[request[2]]

\* Every rule and route of others came after the last look.
AllSeen(n, new) ==
    \A f \in Fam : /\ "foreign" \in n.rule[f] => <<"rule", f>> \in new
                   /\ "foreign" \in n.route[f] => <<"route", f>> \in new

\* Whoever is in a slot besides Flux came after the last look.
SlotSeen(n, s, new) == n.filter[s] \in {"odd", "other"} => <<"filter", s>> \in new

\* An index that was given out, and not to others.
Ours(n, id) == id < n.ids /\ (n.pair # Nil /\ n.pair.id = id => ~n.pair.theirs)

\* A repair, a creation and a rollback are inactive, and follow a reconciliation.
RepairInv ==
    /\ topo.active => topo.pc \notin {"before", "create", "links", "rollback"} /\ ~topo.repair
    /\ topo.pc \in {"idle", "before", "create", "links", "rollback"} => ~topo.repair
    /\ topo.pc \in {"before", "create", "links", "rollback"} => topo.reconciled
    /\ topo.pc = "second" => topo.plan # Nil
    /\ topo.reconciled => NoOwn(net)

\* A cleanup and a rollback that are left alone still ask for all that is ours.
CleanInv ==
    /\ topo.pc = "clean" =>
          /\ topo.todo \in Seq(Cleaning) /\ Paired(topo.todo) /\ FiltersCovered(net, topo.todo)
          /\ quiet => Covered(net, topo.todo) /\ NoForeign(net)
    /\ topo.pc = "rollback" =>
          topo.todo \in Seq(Undoing) /\ (quiet => Covered(net, topo.todo) /\ NoForeign(net))

\* A creation that is left alone has built what it no longer has to do.
CreateInv ==
    /\ topo.pc \in {"create", "links"} =>
        /\ topo.todo \in Seq(Creating) /\ Ordered(topo.todo)
        /\ Veth \in Todo \/ topo.pc = "links" => Needed \subseteq Todo
        /\ quiet => NoForeign(net)
        /\ quiet /\ Veth \notin Todo => net.pair # Nil /\ ~net.pair.addr
    /\ topo.pc = "links" => Veth \notin Todo /\ (quiet => ~net.pair.theirs)
    /\ topo.pc = "create" /\ quiet /\ Veth \notin Todo =>
        /\ net.pair.id = topo.id
        /\ \A request \in Needed : request \in Todo \/ Done(net, request)

\* What others have where Flux may delete came after Flux looked.
SeenInv ==
    /\ struck = {}
    /\ topo.pc \in {"clean", "create", "links", "rollback"} => AllSeen(net, touched)
    /\ topo.pc = "clean" /\ topo.todo # <<>> /\ Head(topo.todo)[1] = "filter" =>
          SlotSeen(net, Head(topo.todo)[2], touched)
    /\ topo.pc = "links" /\ net.pair # Nil /\ net.pair.theirs => <<"pair", net.pair.id>> \in touched

\* The indexes Flux deletes by are not those of others.
PairInv ==
    /\ PairKnown(net) /\ Ours(net, topo.id)
    /\ topo.pc \in {"clean", "rollback"} => \A id \in Nat : <<"pair", id>> \in Todo => Ours(net, id)

TopologyInv == TopologyTypes /\ RepairInv /\ CleanInv /\ CreateInv /\ SeenInv /\ PairInv

\* A finite set is listed whole.
LEMMA ListedAll ==
    ASSUME NEW S, IsFiniteSet(S)
    PROVE  /\ Listed(S) \in Seq(S)
           /\ \A x \in S : \E i \in DOMAIN Listed(S) : Listed(S)[i] = x
  <1> DEFINE n == Cardinality(S)
  <1>1. n \in Nat /\ ExistsBijection(1..n, S)
    BY FS_CardinalityType
  <1>2. \E s \in [1..n -> S] : \A x \in S : \E i \in DOMAIN s : s[i] = x
    BY <1>1 DEF ExistsBijection, Bijection, Surjection
  <1>3. Listed(S) \in [1..n -> S] /\ \A x \in S : \E i \in DOMAIN Listed(S) : Listed(S)[i] = x
    BY <1>2 DEF Listed
  <1> QED BY <1>1, <1>3

\* One request for each, or two in a row.
LEMMA EachListed ==
    ASSUME NEW S, NEW s \in Seq(S), NEW kind
    PROVE  /\ Each(kind, s) \in Seq({kind} \X S)
           /\ \A i \in DOMAIN s : <<kind, s[i]>> \in Requests(Each(kind, s))
  <1>1. DOMAIN s = 1..Len(s) /\ Len(s) \in Nat
    OBVIOUS
  <1>2. Each(kind, s) \in [1..Len(s) -> {kind} \X S]
    BY <1>1 DEF Each
  <1>3. \A i \in DOMAIN s : Each(kind, s)[i] = <<kind, s[i]>> /\ DOMAIN Each(kind, s) = DOMAIN s
    BY DEF Each
  <1>4. \A i \in DOMAIN s : <<kind, s[i]>> \in Requests(Each(kind, s))
    BY <1>3 DEF Requests
  <1> QED BY <1>1, <1>2, <1>4

\* Two requests for each: they follow one another, and nobody is left out.
LEMMA EachTwoListed ==
    ASSUME NEW S, NEW s \in Seq(S), NEW first, NEW second
    PROVE  LET q == EachTwo(first, second, s) IN
           /\ q \in Seq({first, second} \X S) /\ DOMAIN q = 1..Len(q) /\ Len(q) = 2 * Len(s) /\ Len(s) \in Nat
           /\ \A i \in DOMAIN q :
                 \/ q[i][1] = first /\ i + 1 \in DOMAIN q /\ q[i + 1] = <<second, q[i][2]>>
                 \/ q[i][1] = second /\ i - 1 \in DOMAIN q /\ q[i - 1] = <<first, q[i][2]>>
           /\ \A i \in DOMAIN s : <<first, s[i]>> \in Requests(q) /\ <<second, s[i]>> \in Requests(q)
  <1> DEFINE q == EachTwo(first, second, s)
             n == Len(s)
  <1>1. DOMAIN s = 1..n /\ n \in Nat
    OBVIOUS
  <1>2. DOMAIN q = 1..(2 * n)
    BY DEF EachTwo
  <1>3. \A i \in 1..(2 * n) : q[i] = <<IF i % 2 = 1 THEN first ELSE second, s[(i + 1) \div 2]>>
    BY DEF EachTwo
  <1> HIDE DEF q
  <1>4. \A i \in 1..(2 * n) : (i + 1) \div 2 \in 1..n
    BY <1>1
  <1>5. \A i \in 1..(2 * n) : s[(i + 1) \div 2] \in S
    BY <1>1, <1>4
  <1>6. q \in [1..(2 * n) -> {first, second} \X S]
    <2>1. ASSUME NEW i \in 1..(2 * n)
          PROVE  q[i] \in {first, second} \X S
      <3>1. PICK kind \in {first, second} : q[i] = <<kind, s[(i + 1) \div 2]>>
        BY <1>3
      <3> QED BY <1>5, <3>1
    <2>2. q = [i \in 1..(2 * n) |-> q[i]]
      BY <1>2 DEF q, EachTwo
    <2> QED BY <2>1, <2>2
  <1>7. q \in Seq({first, second} \X S) /\ Len(q) = 2 * n
    BY <1>1, <1>6
  <1>8. ASSUME NEW i \in DOMAIN q
        PROVE  \/ q[i][1] = first /\ i + 1 \in DOMAIN q /\ q[i + 1] = <<second, q[i][2]>>
               \/ q[i][1] = second /\ i - 1 \in DOMAIN q /\ q[i - 1] = <<first, q[i][2]>>
    <2>1. i \in 1..(2 * n) /\ i % 2 \in {0, 1}
      BY <1>1, <1>2
    <2>2. CASE i % 2 = 1
      <3>1. i + 1 \in 1..(2 * n) /\ (i + 1) % 2 # 1 /\ (i + 1 + 1) \div 2 = (i + 1) \div 2
        BY <1>1, <2>1, <2>2
      <3>2. q[i + 1] = <<second, s[(i + 1) \div 2]>> /\ q[i] = <<first, s[(i + 1) \div 2]>>
        BY <1>3, <2>1, <2>2, <3>1
      <3> QED BY <1>2, <3>1, <3>2
    <2>3. CASE i % 2 = 0
      <3>1. i - 1 \in 1..(2 * n) /\ (i - 1) % 2 = 1 /\ (i - 1 + 1) \div 2 = (i + 1) \div 2
        BY <1>1, <2>1, <2>3
      <3>0. i % 2 # 1
        BY <2>3
      <3>2. q[i] = <<second, s[(i + 1) \div 2]>>
        BY <1>3, <2>1, <3>0, Zenon
      <3>3. q[i - 1] = <<first, s[(i + 1) \div 2]>>
        BY <1>3, <3>1
      <3>4. q[i][1] = second /\ q[i][2] = s[(i + 1) \div 2]
        BY <3>2
      <3> QED BY <1>2, <3>1, <3>3, <3>4
    <2> QED BY <2>1, <2>2, <2>3
  <1>9. ASSUME NEW i \in DOMAIN s
        PROVE  <<first, s[i]>> \in Requests(q) /\ <<second, s[i]>> \in Requests(q)
    <2>0. i \in 1..n
      BY <1>1
    <2>1. 2 * i - 1 \in 1..(2 * n) /\ (2 * i - 1) % 2 = 1 /\ (2 * i - 1 + 1) \div 2 = i
      BY <1>1, <2>0
    <2>2. 2 * i \in 1..(2 * n)
      BY <1>1, <2>0
    <2>3. (2 * i) % 2 # 1
      BY <2>0
    <2>4. (2 * i + 1) \div 2 = i
      BY <2>0
    <2>5. q[2 * i - 1] = <<first, s[i]>>
      BY <1>3, <2>1
    <2>6. q[2 * i] = <<second, s[i]>>
      BY <1>3, <2>2, <2>3, <2>4
    <2> QED BY <1>2, <2>1, <2>2, <2>5, <2>6 DEF Requests
  <1> QED BY <1>1, <1>2, <1>7, <1>8, <1>9 DEF q

\* The requests of two lists, one after the other.
LEMMA Joined ==
    ASSUME NEW X, NEW p \in Seq(X), NEW q \in Seq(X)
    PROVE  /\ p \o q \in Seq(X) /\ Len(p \o q) = Len(p) + Len(q) /\ Len(p) \in Nat /\ Len(q) \in Nat
           /\ DOMAIN (p \o q) = 1..(Len(p) + Len(q)) /\ DOMAIN p = 1..Len(p) /\ DOMAIN q = 1..Len(q)
           /\ \A i \in DOMAIN p : (p \o q)[i] = p[i]
           /\ \A i \in DOMAIN q : (p \o q)[Len(p) + i] = q[i]
           /\ Requests(p \o q) = Requests(p) \cup Requests(q)
  <1> DEFINE j == p \o q
  <1>1. /\ j \in Seq(X) /\ Len(j) = Len(p) + Len(q) /\ Len(p) \in Nat /\ Len(q) \in Nat
        /\ DOMAIN j = 1..(Len(p) + Len(q)) /\ DOMAIN p = 1..Len(p) /\ DOMAIN q = 1..Len(q)
        /\ \A i \in 1..(Len(p) + Len(q)) : j[i] = IF i <= Len(p) THEN p[i] ELSE q[i - Len(p)]
    OBVIOUS
  <1> HIDE DEF j
  <1>2. \A i \in DOMAIN p : i \in DOMAIN j /\ j[i] = p[i]
    BY <1>1
  <1>3. \A i \in DOMAIN q : Len(p) + i \in DOMAIN j /\ j[Len(p) + i] = q[i]
    BY <1>1
  <1>4. \A i \in DOMAIN j : i \in DOMAIN p \/ (i - Len(p) \in DOMAIN q /\ j[i] = q[i - Len(p)])
    BY <1>1
  <1>5. Requests(j) = Requests(p) \cup Requests(q)
    BY <1>2, <1>3, <1>4 DEF Requests
  <1> QED BY <1>1, <1>2, <1>3, <1>5 DEF j

\* The first request and the others.
LEMMA NextRequest ==
    ASSUME NEW X, NEW q \in Seq(X), q # <<>>
    PROVE  /\ Head(q) \in X /\ Head(q) = q[1] /\ 1 \in DOMAIN q /\ Tail(q) \in Seq(X)
           /\ DOMAIN q = 1..Len(q) /\ DOMAIN Tail(q) = 1..(Len(q) - 1) /\ Len(Tail(q)) = Len(q) - 1
           /\ Len(q) \in Nat /\ \A i \in DOMAIN Tail(q) : i + 1 \in DOMAIN q /\ Tail(q)[i] = q[i + 1]
           /\ Requests(q) = {Head(q)} \cup Requests(Tail(q))
  <1>1. /\ Head(q) \in X /\ Head(q) = q[1] /\ 1 \in DOMAIN q /\ Tail(q) \in Seq(X)
        /\ DOMAIN q = 1..Len(q) /\ DOMAIN Tail(q) = 1..(Len(q) - 1) /\ Len(Tail(q)) = Len(q) - 1
        /\ Len(q) \in Nat /\ \A i \in DOMAIN Tail(q) : i + 1 \in DOMAIN q /\ Tail(q)[i] = q[i + 1]
    OBVIOUS
  <1>2. \A i \in DOMAIN q : i = 1 \/ (i - 1 \in DOMAIN Tail(q) /\ Tail(q)[i - 1] = q[i])
    OBVIOUS
  <1> DEFINE t == Tail(q)
             h == Head(q)
  <1>4. /\ h = q[1] /\ 1 \in DOMAIN q /\ \A i \in DOMAIN t : i + 1 \in DOMAIN q /\ t[i] = q[i + 1]
        /\ \A i \in DOMAIN q : i = 1 \/ (i - 1 \in DOMAIN t /\ t[i - 1] = q[i])
    BY <1>1, <1>2
  <1> HIDE DEF t, h
  <1>3. Requests(q) = {h} \cup Requests(t)
    BY <1>4 DEF Requests
  <1> QED BY <1>1, <1>3 DEF t, h

\* A list of requests is one of a larger set of requests.
LEMMA Widened ==
    ASSUME NEW X, NEW Y, X \subseteq Y, NEW q \in Seq(X)
    PROVE  q \in Seq(Y)
OBVIOUS

\* The deletions of a plan: all of it, each filter right after it was looked at.
LEMMA DeletionsCover ==
    ASSUME NEW plan \in PlanType
    PROVE  LET q == Deletions(plan) IN
           /\ q \in Seq(Cleaning) /\ Paired(q) /\ (q # <<>> => Head(q)[1] # "filter")
           /\ \A s \in plan.filters : <<"filter", s>> \in Requests(q)
           /\ \A f \in plan.rules : <<"rule", f>> \in Requests(q)
           /\ \A f \in plan.routes : <<"route", f>> \in Requests(q)
           /\ plan.pair # 0 => <<"pair", plan.pair>> \in Requests(q)
           /\ \A id : <<"pair", id>> \in Requests(q) => id = plan.pair /\ plan.pair # 0
  <1> DEFINE a == EachTwo("check", "filter", Listed(plan.filters))
             b == Each("rule", Listed(plan.rules))
             c == Each("route", Listed(plan.routes))
             d == IF plan.pair = 0 THEN <<>> ELSE <<<<"pair", plan.pair>>>>
             rest == b \o c \o d
  <1>0. /\ plan.filters \subseteq Slot /\ plan.rules \subseteq Fam /\ plan.routes \subseteq Fam
        /\ plan.pair \in Nat
    BY DEF PlanType
  <1>1. IsFiniteSet(plan.filters) /\ IsFiniteSet(plan.rules) /\ IsFiniteSet(plan.routes)
    BY <1>0, TopologyAssumption, FS_Subset
  <1>2. /\ Listed(plan.filters) \in Seq(plan.filters)
        /\ \A x \in plan.filters : \E i \in DOMAIN Listed(plan.filters) : Listed(plan.filters)[i] = x
    BY <1>1, ListedAll
  <1>3. /\ Listed(plan.rules) \in Seq(plan.rules)
        /\ \A x \in plan.rules : \E i \in DOMAIN Listed(plan.rules) : Listed(plan.rules)[i] = x
    BY <1>1, ListedAll
  <1>4. /\ Listed(plan.routes) \in Seq(plan.routes)
        /\ \A x \in plan.routes : \E i \in DOMAIN Listed(plan.routes) : Listed(plan.routes)[i] = x
    BY <1>1, ListedAll
  <1>5. /\ a \in Seq({"check", "filter"} \X plan.filters)
        /\ \A i \in DOMAIN a :
              \/ a[i][1] = "check" /\ i + 1 \in DOMAIN a /\ a[i + 1] = <<"filter", a[i][2]>>
              \/ a[i][1] = "filter" /\ i - 1 \in DOMAIN a /\ a[i - 1] = <<"check", a[i][2]>>
        /\ \A x \in plan.filters : <<"filter", x>> \in Requests(a)
    <2>1. /\ a \in Seq({"check", "filter"} \X plan.filters)
          /\ \A i \in DOMAIN a :
                \/ a[i][1] = "check" /\ i + 1 \in DOMAIN a /\ a[i + 1] = <<"filter", a[i][2]>>
                \/ a[i][1] = "filter" /\ i - 1 \in DOMAIN a /\ a[i - 1] = <<"check", a[i][2]>>
      BY <1>2, EachTwoListed
    <2>2. \A i \in DOMAIN Listed(plan.filters) : <<"filter", Listed(plan.filters)[i]>> \in Requests(a)
      BY <1>2, EachTwoListed
    <2> HIDE DEF a
    <2> QED BY <1>2, <2>1, <2>2, Zenon
  <1>6. b \in Seq({"rule"} \X plan.rules) /\ \A x \in plan.rules : <<"rule", x>> \in Requests(b)
    BY <1>3, EachListed
  <1>7. c \in Seq({"route"} \X plan.routes) /\ \A x \in plan.routes : <<"route", x>> \in Requests(c)
    BY <1>4, EachListed
  <1>8. /\ d \in Seq(Undoing) /\ (plan.pair # 0 => <<"pair", plan.pair>> \in Requests(d))
        /\ \A id : <<"pair", id>> \in Requests(d) => id = plan.pair /\ plan.pair # 0
    <2>1. <<"pair", plan.pair>> \in Undoing
      BY <1>0 DEF Undoing
    <2>2. <<>> \in Seq(Undoing) /\ <<<<"pair", plan.pair>>>> \in Seq(Undoing)
      BY <2>1
    <2> QED BY <2>2 DEF Requests
  <1> HIDE DEF a, b, c, d
  <1>9. a \in Seq(Cleaning) /\ b \in Seq(Undoing) /\ c \in Seq(Undoing)
    <2>1. {"check", "filter"} \X plan.filters \subseteq Cleaning
      BY <1>0 DEF Cleaning
    <2>2. {"rule"} \X plan.rules \subseteq Undoing /\ {"route"} \X plan.routes \subseteq Undoing
      BY <1>0 DEF Undoing
    <2> QED BY <1>5, <1>6, <1>7, <2>1, <2>2, Widened
  <1>10. rest \in Seq(Undoing) /\ Requests(rest) = Requests(b) \cup Requests(c) \cup Requests(d)
    <2>1. b \o c \in Seq(Undoing) /\ Requests(b \o c) = Requests(b) \cup Requests(c)
      BY <1>9, Joined
    <2> DEFINE e == b \o c
    <2>2. e \in Seq(Undoing) /\ Requests(e) = Requests(b) \cup Requests(c)
      BY <2>1
    <2> HIDE DEF e
    <2>3. e \o d \in Seq(Undoing) /\ Requests(e \o d) = Requests(e) \cup Requests(d)
      BY <1>8, <2>2, Joined
    <2>4. rest = e \o d
      BY DEF e
    <2> QED BY <2>2, <2>3, <2>4
  <1>11. Deletions(plan) = a \o rest
    BY <1>8, <1>9 DEF Deletions, a, b, c, d
  <1> HIDE DEF rest
  <1>12. rest \in Seq(Cleaning)
    <2>1. Undoing \subseteq Cleaning
      BY DEF Undoing, Cleaning
    <2> QED BY <1>10, <2>1, Widened
  <1> DEFINE q == a \o rest
  <1>13. /\ q \in Seq(Cleaning) /\ Requests(q) = Requests(a) \cup Requests(rest)
         /\ DOMAIN q = 1..(Len(a) + Len(rest)) /\ DOMAIN a = 1..Len(a) /\ DOMAIN rest = 1..Len(rest)
         /\ Len(a) \in Nat /\ Len(rest) \in Nat
         /\ \A i \in DOMAIN a : q[i] = a[i]
         /\ \A i \in DOMAIN rest : q[Len(a) + i] = rest[i]
    BY <1>9, <1>12, Joined
  <1> HIDE DEF q
  <1>14. \A i \in DOMAIN rest : rest[i][1] \notin {"check", "filter"}
    <2>1. \A i \in DOMAIN rest : rest[i] \in Undoing
      BY <1>10
    <2> QED BY <2>1 DEF Undoing
  <1>15. \A i \in DOMAIN q : i \in DOMAIN a \/ q[i][1] \notin {"check", "filter"}
    <2> SUFFICES ASSUME NEW i \in DOMAIN q, i \notin DOMAIN a
                 PROVE  q[i][1] \notin {"check", "filter"}
      OBVIOUS
    <2>1. i - Len(a) \in DOMAIN rest /\ Len(a) + (i - Len(a)) = i
      BY <1>13
    <2> QED BY <1>13, <1>14, <2>1
  <1>16. \A i \in DOMAIN a : i \in DOMAIN q
    BY <1>13
  <1>17. Paired(q)
    BY <1>5, <1>13, <1>15, <1>16 DEF Paired
  <1>18. q # <<>> => Head(q)[1] # "filter"
    <2> SUFFICES ASSUME q # <<>>, q[1][1] = "filter"
                 PROVE  FALSE
      BY <1>13, NextRequest
    <2>1. 1 \in DOMAIN q
      BY <1>13, NextRequest
    <2>2. 1 \in DOMAIN a /\ a[1][1] = "filter"
      BY <1>13, <1>15, <2>1
    <2>3. 1 - 1 \in DOMAIN a
      BY <1>5, <2>2
    <2> QED BY <1>13, <2>3
  <1>19. ASSUME NEW id, <<"pair", id>> \in Requests(q)
         PROVE  id = plan.pair /\ plan.pair # 0
    <2>1. \A x \in Requests(a) : x[1] # "pair"
      BY <1>5 DEF Requests
    <2>2. \A x \in Requests(b) \cup Requests(c) : x[1] # "pair"
      BY <1>6, <1>7 DEF Requests
    <2>3. <<"pair", id>> \in Requests(d)
      BY <1>10, <1>13, <1>19, <2>1, <2>2
    <2> QED BY <1>8, <2>3
  <1> QED BY <1>5, <1>6, <1>7, <1>8, <1>10, <1>11, <1>13, <1>17, <1>18, <1>19 DEF q

\* The order create_topology works in.
LEMMA CreationOrdered ==
    /\ Creation \in Seq(Creating) /\ Ordered(Creation) /\ Needed \subseteq Requests(Creation)
  <1> DEFINE a == <<<<"veth", 0>>, <<"alias", "host">>, <<"alias", "peer">>, <<"sysctl", 0>>,
                    <<"up", "host">>, <<"up", "peer">>>>
             b == EachTwo("route", "rule", Families)
             c == <<<<"clsact", 0>>, <<"verify", 0>>>>
             ab == a \o b
             q == ab \o c
  <1>1. Families \in Seq(Fam) /\ \A f \in Fam : \E i \in DOMAIN Families : Families[i] = f
    BY ListedAll, TopologyAssumption DEF Families
  <1>2. /\ b \in Seq({"route", "rule"} \X Fam)
        /\ \A i \in DOMAIN Families : /\ <<"route", Families[i]>> \in Requests(b)
                                      /\ <<"rule", Families[i]>> \in Requests(b)
    BY <1>1, EachTwoListed
  <1> HIDE DEF b
  <1>3. \A f \in Fam : <<"route", f>> \in Requests(b) /\ <<"rule", f>> \in Requests(b)
    BY <1>1, <1>2
  <1>4. \A i \in DOMAIN b : b[i] \in {"route", "rule"} \X Fam
    BY <1>2
  <1>5. /\ Veth \in Creating /\ Verify \in Creating /\ Sysctl \in Creating /\ Clsact \in Creating
        /\ \A s \in Sides : <<"alias", s>> \in Creating /\ <<"up", s>> \in Creating
        /\ {"route", "rule"} \X Fam \subseteq Creating
    BY DEF Creating, Needed
  <1>6. b \in Seq(Creating)
    BY <1>2, <1>5, Widened
  <1>7. /\ a \in Seq(Creating) /\ Len(a) = 6 /\ DOMAIN a = 1..6
        /\ a[1] = Veth /\ a[2] = <<"alias", "host">> /\ a[3] = <<"alias", "peer">> /\ a[4] = Sysctl
        /\ a[5] = <<"up", "host">> /\ a[6] = <<"up", "peer">>
    BY <1>5 DEF Sides, Veth, Sysctl
  <1>8. c \in Seq(Creating) /\ Len(c) = 2 /\ DOMAIN c = 1..2 /\ c[1] = Clsact /\ c[2] = Verify
    BY <1>5 DEF Clsact, Verify
  <1> HIDE DEF a, c
  <1>9. /\ ab \in Seq(Creating) /\ Len(ab) = 6 + Len(b) /\ Len(b) \in Nat /\ DOMAIN b = 1..Len(b)
        /\ DOMAIN ab = 1..(6 + Len(b)) /\ \A i \in 1..6 : ab[i] = a[i]
        /\ \A i \in DOMAIN b : ab[6 + i] = b[i]
        /\ Requests(ab) = Requests(a) \cup Requests(b)
    <2>1. /\ ab \in Seq(Creating) /\ Len(ab) = Len(a) + Len(b) /\ Len(b) \in Nat /\ DOMAIN b = 1..Len(b)
          /\ DOMAIN ab = 1..(Len(a) + Len(b)) /\ \A i \in DOMAIN a : ab[i] = a[i]
          /\ \A i \in DOMAIN b : ab[Len(a) + i] = b[i]
          /\ Requests(ab) = Requests(a) \cup Requests(b)
      <3>1. a \in Seq(Creating)
        BY <1>7
      <3> QED BY <1>6, <3>1, Joined
    <2> HIDE DEF ab
    <2> QED BY <1>7, <2>1
  <1> HIDE DEF ab
  <1>10. /\ q \in Seq(Creating) /\ Len(q) = Len(ab) + 2 /\ DOMAIN q = 1..(Len(ab) + 2)
         /\ \A i \in DOMAIN ab : q[i] = ab[i]
         /\ \A i \in 1..2 : q[Len(ab) + i] = c[i]
         /\ Requests(q) = Requests(ab) \cup Requests(c)
    <2>1. /\ q \in Seq(Creating) /\ Len(q) = Len(ab) + Len(c) /\ DOMAIN q = 1..(Len(ab) + Len(c))
          /\ \A i \in DOMAIN ab : q[i] = ab[i]
          /\ \A i \in DOMAIN c : q[Len(ab) + i] = c[i]
          /\ Requests(q) = Requests(ab) \cup Requests(c)
      <3>1. ab \in Seq(Creating) /\ c \in Seq(Creating)
        BY <1>8, <1>9
      <3> QED BY <3>1, Joined
    <2> HIDE DEF q
    <2> QED BY <1>8, <2>1
  <1> HIDE DEF q
  <1> DEFINE m == Len(b)
  <1>11. m \in Nat /\ DOMAIN q = 1..(8 + m) /\ Len(q) = 8 + m
    BY <1>9, <1>10
  <1>12. \A i \in 1..6 : q[i] = a[i]
    BY <1>9, <1>10
  <1>13. \A i \in 1..m : q[6 + i] \in {"route", "rule"} \X Fam
    BY <1>4, <1>9, <1>10
  <1>14. q[7 + m] = Clsact /\ q[8 + m] = Verify
    <2>1. q[6 + m + 1] = c[1] /\ q[6 + m + 2] = c[2]
      BY <1>9, <1>10
    <2>2. 6 + m + 1 = 7 + m /\ 6 + m + 2 = 8 + m
      BY <1>11
    <2> QED BY <1>8, <2>1, <2>2
  <1> HIDE DEF m
  <1>15. ASSUME NEW i \in DOMAIN q
         PROVE  /\ q[i] = Veth => i = 1
                /\ q[i] = Verify => i = 8 + m
                /\ q[i] = Sysctl => i = 4
                /\ q[i][1] = "up" => i \in {5, 6}
    <2>1. CASE i \in 1..6
      <3>1. i = 1 \/ i = 2 \/ i = 3 \/ i = 4 \/ i = 5 \/ i = 6
        BY <2>1
      <3>2. q[i] = a[i]
        BY <1>12, <2>1
      <3>3. CASE i = 1
        BY <1>7, <3>2, <3>3 DEF Veth, Verify, Sysctl
      <3>4. CASE i = 2 \/ i = 3
        BY <1>7, <3>2, <3>4 DEF Veth, Verify, Sysctl
      <3>5. CASE i = 4
        BY <1>7, <3>2, <3>5 DEF Veth, Verify, Sysctl
      <3>6. CASE i = 5 \/ i = 6
        BY <1>7, <3>2, <3>6 DEF Veth, Verify, Sysctl
      <3> QED BY <3>1, <3>3, <3>4, <3>5, <3>6
    <2>2. CASE i \in 7..(6 + m)
      <3>1. i - 6 \in 1..m /\ 6 + (i - 6) = i
        BY <1>11, <2>2
      <3>2. q[i] \in {"route", "rule"} \X Fam
        BY <1>13, <3>1
      <3> QED BY <3>2 DEF Veth, Verify, Sysctl
    <2>3. CASE i = 7 + m
      BY <1>14, <2>3 DEF Veth, Verify, Sysctl, Clsact
    <2>4. CASE i = 8 + m
      BY <1>14, <2>4 DEF Veth, Verify, Sysctl
    <2> QED BY <1>11, <2>1, <2>2, <2>3, <2>4
  <1>16. q # <<>>
    BY <1>10, <1>11
  <1>17. Ordered(q)
    <2>1. \A i \in DOMAIN q : q[i] = Verify <=> i = Len(q)
      BY <1>11, <1>14, <1>15
    <2>2. \A i, j \in DOMAIN q : q[i] = Sysctl /\ q[j][1] = "up" => i < j
      <3> SUFFICES ASSUME NEW i \in DOMAIN q, NEW j \in DOMAIN q, q[i] = Sysctl, q[j][1] = "up"
                   PROVE  i < j
        OBVIOUS
      <3>1. i = 4 /\ j \in {5, 6}
        BY <1>15
      <3> QED BY <3>1
    <2> QED BY <1>15, <1>16, <2>1, <2>2 DEF Ordered
  <1>18. \A x \in Needed : x \in Requests(q)
    <2>1. Requests(a) \subseteq Requests(q) /\ Requests(b) \subseteq Requests(q) /\ Requests(c) \subseteq Requests(q)
      BY <1>9, <1>10
    <2>2. /\ <<"alias", "host">> \in Requests(a) /\ <<"alias", "peer">> \in Requests(a) /\ Sysctl \in Requests(a)
          /\ <<"up", "host">> \in Requests(a) /\ <<"up", "peer">> \in Requests(a)
      BY <1>7 DEF Requests
    <2>3. Clsact \in Requests(c)
      BY <1>8 DEF Requests
    <2>4. \A x \in {"alias", "up"} \X Sides : x \in Requests(a)
      BY <2>2 DEF Sides
    <2>5. ASSUME NEW x \in {"rule", "route"} \X Fam
          PROVE  x \in Requests(b)
      <3>1. PICK k \in {"rule", "route"}, f \in Fam : x = <<k, f>>
        OBVIOUS
      <3> QED BY <1>3, <3>1
    <2> QED BY <2>1, <2>2, <2>3, <2>4, <2>5 DEF Needed
  <1>19. Creation = q
    BY DEF Creation, q, ab, a, b, c
  <1> QED BY <1>10, <1>17, <1>18, <1>19

\* rollback_created: every family and the created pair.
LEMMA RollbackCovers ==
    ASSUME topo.id \in Nat
    PROVE  /\ rollback_created \in Seq(Undoing) /\ <<"pair", topo.id>> \in Requests(rollback_created)
           /\ \A id : <<"pair", id>> \in Requests(rollback_created) => id = topo.id
           /\ \A f \in Fam : /\ <<"rule", f>> \in Requests(rollback_created)
                             /\ <<"route", f>> \in Requests(rollback_created)
  <1> DEFINE b == EachTwo("rule", "route", Families)
             c == <<<<"pair", topo.id>>>>
  <1>1. Families \in Seq(Fam) /\ \A f \in Fam : \E i \in DOMAIN Families : Families[i] = f
    BY ListedAll, TopologyAssumption DEF Families
  <1>2. /\ b \in Seq({"rule", "route"} \X Fam)
        /\ \A i \in DOMAIN Families : /\ <<"rule", Families[i]>> \in Requests(b)
                                      /\ <<"route", Families[i]>> \in Requests(b)
    BY <1>1, EachTwoListed
  <1>3. rollback_created = b \o c
    BY DEF rollback_created
  <1>4. <<"pair", topo.id>> \in Undoing /\ {"rule", "route"} \X Fam \subseteq Undoing
    BY DEF Undoing
  <1>5. /\ c \in Seq(Undoing) /\ <<"pair", topo.id>> \in Requests(c)
        /\ \A id : <<"pair", id>> \in Requests(c) => id = topo.id
    BY <1>4 DEF Requests
  <1> HIDE DEF b, c
  <1>6. b \in Seq(Undoing)
    BY <1>2, <1>4, Widened
  <1>7. b \o c \in Seq(Undoing) /\ Requests(b \o c) = Requests(b) \cup Requests(c)
    BY <1>5, <1>6, Joined
  <1>8. \A x \in Requests(b) : x[1] # "pair"
    BY <1>2 DEF Requests
  <1> QED BY <1>1, <1>2, <1>3, <1>5, <1>7, <1>8

\* What is left of a cleanup: a filter is still deleted right after it was looked at.
LEMMA PairedNext ==
    ASSUME NEW q \in Seq(Cleaning), q # <<>>, Paired(q)
    PROVE  /\ Paired(Tail(q))
           /\ Head(q)[1] # "check" /\ Tail(q) # <<>> => Head(Tail(q))[1] # "filter"
           /\ Head(q)[1] = "check" => Tail(q) # <<>> /\ Head(Tail(q)) = <<"filter", Head(q)[2]>>
  <1> DEFINE t == Tail(q)
             n == Len(q)
  <1>1. /\ Head(q) = q[1] /\ 1 \in DOMAIN q /\ t \in Seq(Cleaning) /\ n \in Nat
        /\ DOMAIN q = 1..n /\ DOMAIN t = 1..(n - 1) /\ Len(t) = n - 1
        /\ \A i \in DOMAIN t : i + 1 \in DOMAIN q /\ t[i] = q[i + 1]
    BY NextRequest
  <1> HIDE DEF t, n
  <1>2. \A i \in DOMAIN q : q[i][1] = "filter" => i = 1 \/ (i - 1 \in DOMAIN q /\ q[i - 1] = <<"check", q[i][2]>>)
    BY DEF Paired
  <1>3. \A i \in DOMAIN q : q[i][1] = "check" => i + 1 \in DOMAIN q /\ q[i + 1] = <<"filter", q[i][2]>>
    BY DEF Paired
  <1>4. ASSUME NEW i \in DOMAIN t, t[i][1] = "filter"
        PROVE  i = 1 \/ (i - 1 \in DOMAIN t /\ t[i - 1] = <<"check", t[i][2]>>)
    <2> SUFFICES ASSUME i # 1
                 PROVE  i - 1 \in DOMAIN t /\ t[i - 1] = <<"check", t[i][2]>>
      OBVIOUS
    <2>1. i - 1 \in DOMAIN t /\ i \in DOMAIN q /\ i + 1 \in DOMAIN q /\ (i - 1) + 1 = i /\ (i + 1) - 1 = i /\ i + 1 # 1
      BY <1>1
    <2>2. t[i - 1] = q[i] /\ t[i] = q[i + 1]
      BY <1>1, <2>1
    <2>3. q[i] = <<"check", q[i + 1][2]>>
      BY <1>2, <1>4, <2>1, <2>2
    <2> QED BY <2>1, <2>2, <2>3
  <1>5. ASSUME NEW i \in DOMAIN t, t[i][1] = "check"
        PROVE  i + 1 \in DOMAIN t /\ t[i + 1] = <<"filter", t[i][2]>>
    <2>1. i + 1 \in DOMAIN q /\ t[i] = q[i + 1]
      BY <1>1
    <2>2. i + 1 + 1 \in DOMAIN q /\ q[i + 1 + 1] = <<"filter", q[i + 1][2]>>
      BY <1>3, <1>5, <2>1
    <2>3. i + 1 \in DOMAIN t
      BY <1>1, <2>2
    <2>4. t[i + 1] = q[i + 1 + 1]
      BY <1>1, <2>3
    <2> QED BY <2>1, <2>2, <2>3, <2>4
  <1>6. Paired(t)
    BY <1>4, <1>5 DEF Paired
  <1>7. t # <<>> => Head(t) = t[1] /\ 1 \in DOMAIN t
    BY <1>1, NextRequest
  <1>8. ASSUME q[1][1] # "check", t # <<>>
        PROVE  Head(t)[1] # "filter"
    <2>1. Head(t) = q[2] /\ 2 \in DOMAIN q /\ 2 # 1 /\ 2 - 1 = 1
      BY <1>1, <1>7, <1>8
    <2>2. SUFFICES ASSUME q[2][1] = "filter"
                   PROVE  FALSE
      BY <2>1
    <2>3. q[2 - 1] = <<"check", q[2][2]>>
      BY <1>2, <2>1, <2>2
    <2> QED BY <1>8, <2>1, <2>3
  <1>9. ASSUME q[1][1] = "check"
        PROVE  t # <<>> /\ Head(t) = <<"filter", q[1][2]>>
    <2>1. 2 \in DOMAIN q /\ q[2] = <<"filter", q[1][2]>>
      BY <1>1, <1>3, <1>9
    <2>2. 1 \in DOMAIN t /\ t[1] = q[2]
      BY <1>1, <2>1
    <2>3. t # <<>>
      BY <1>1, <2>2
    <2> QED BY <1>7, <2>1, <2>2, <2>3
  <1> QED BY <1>1, <1>6, <1>8, <1>9 DEF t

\* What is left of a creation: no pair to create any more, the order as before.
LEMMA OrderedNext ==
    ASSUME NEW q \in Seq(Creating), Ordered(q)
    PROVE  /\ Tail(q) # <<>> => Ordered(Tail(q))
           /\ Veth \notin Requests(Tail(q))
           /\ Head(q)[1] = "verify" => Requests(q) = {Verify}
           /\ Head(q)[1] = "up" => Sysctl \notin Requests(q)
           /\ Head(q)[1] # "veth" => Veth \notin Requests(q)
  <1> DEFINE t == Tail(q)
             n == Len(q)
             h == Head(q)
  <1>0. q # <<>>
    BY DEF Ordered
  <1>1. /\ h = q[1] /\ 1 \in DOMAIN q /\ t \in Seq(Creating) /\ n \in Nat /\ h \in Creating
        /\ DOMAIN q = 1..n /\ DOMAIN t = 1..(n - 1) /\ Len(t) = n - 1
        /\ \A i \in DOMAIN t : i + 1 \in DOMAIN q /\ t[i] = q[i + 1]
        /\ Requests(q) = {h} \cup Requests(t)
    BY <1>0, NextRequest
  <1>2. /\ \A i \in DOMAIN q : q[i] = Veth => i = 1
        /\ \A i \in DOMAIN q : q[i] = Verify <=> i = n
        /\ \A i, j \in DOMAIN q : q[i] = Sysctl /\ q[j][1] = "up" => i < j
    BY DEF Ordered
  <1> HIDE DEF t, n, h
  <1>3. ASSUME NEW i \in DOMAIN t
        PROVE  t[i] # Veth
    <2>1. i + 1 \in DOMAIN q /\ i + 1 # 1
      BY <1>1
    <2> QED BY <1>1, <1>2, <2>1
  <1>4. ASSUME t # <<>>
        PROVE  Ordered(t)
    <2>1. ASSUME NEW i \in DOMAIN t
          PROVE  t[i] = Verify <=> i = n - 1
      <3>1. i + 1 \in DOMAIN q /\ t[i] = q[i + 1] /\ (i + 1 = n <=> i = n - 1)
        BY <1>1
      <3> QED BY <1>2, <3>1
    <2>2. ASSUME NEW i \in DOMAIN t, NEW j \in DOMAIN t, t[i] = Sysctl, t[j][1] = "up"
          PROVE  i < j
      <3>1. i + 1 < j + 1
        BY <1>1, <1>2, <2>2
      <3>2. i \in Nat /\ j \in Nat
        BY <1>1
      <3> QED BY <3>1, <3>2
    <2> QED BY <1>1, <1>3, <1>4, <2>1, <2>2 DEF Ordered
  <1>5. ASSUME h[1] = "verify"
        PROVE  Requests(q) = {Verify}
    <2>1. h = Verify
      BY <1>1, <1>5 DEF Creating, Needed, Veth, Verify, Sysctl, Clsact
    <2>2. 1 = n
      BY <1>1, <1>2, <2>1
    <2>3. DOMAIN t = {}
      BY <1>1, <2>2
    <2> QED BY <1>1, <2>1, <2>3 DEF Requests
  <1>6. ASSUME h[1] = "up"
        PROVE  Sysctl \notin Requests(q)
    <2>1. \A i \in DOMAIN q : q[i] # Sysctl
      BY <1>1, <1>2, <1>6
    <2> QED BY <2>1 DEF Requests
  <1>7. Veth \notin Requests(t)
    BY <1>3 DEF Requests
  <1>8. ASSUME h[1] # "veth"
        PROVE  Veth \notin Requests(q)
    BY <1>1, <1>7, <1>8 DEF Veth
  <1> QED BY <1>4, <1>5, <1>6, <1>7, <1>8 DEF t, h

-----------------------------------------------------------------------------
(* What a request changes *)

\* A deletion creates nothing of ours, and removes what it names.
LEMMA DeletedNet ==
    ASSUME NEW n \in NetworkType, NEW request \in Cleaning
    PROVE  LET d == Deleted(n, request) IN
           /\ d \in NetworkType
           /\ \A s \in Slot : d.filter[s] = "own" => n.filter[s] = "own" /\ request # <<"filter", s>>
           /\ \A f \in Fam : "own" \in d.rule[f] => "own" \in n.rule[f] /\ request # <<"rule", f>>
           /\ \A f \in Fam : "own" \in d.route[f] => "own" \in n.route[f] /\ request # <<"route", f>>
           /\ d.pair # Nil => d.pair = n.pair /\ request # <<"pair", n.pair.id>>
  <1> DEFINE d == Deleted(n, request)
  <1>1. CASE request[1] = "check"
    <2>1. d = n
      BY <1>1 DEF Deleted
    <2> QED BY <1>1, <2>1
  <1>2. CASE request[1] = "filter"
    <2>1. request[2] \in Slot
      BY <1>2 DEF Cleaning
    <2>2. d = [n EXCEPT !.filter[request[2]] = "none"]
      BY <1>2 DEF Deleted
    <2> QED BY <1>2, <2>1, <2>2 DEF NetworkType
  <1>3. CASE request[1] = "rule"
    <2>1. request[2] \in Fam
      BY <1>3 DEF Cleaning
    <2>2. d = [n EXCEPT !.rule[request[2]] = @ \ {"own"}]
      BY <1>3 DEF Deleted, Own
    <2> QED BY <1>3, <2>1, <2>2 DEF NetworkType
  <1>4. CASE request[1] = "route"
    <2>1. request[2] \in Fam
      BY <1>4 DEF Cleaning
    <2>2. d = [n EXCEPT !.route[request[2]] = @ \ {"own"}]
      BY <1>4 DEF Deleted, Own
    <2> QED BY <1>4, <2>1, <2>2 DEF NetworkType
  <1>5. CASE request[1] = "pair"
    <2>1. d = IF n.pair # Nil /\ n.pair.id = request[2] THEN [n EXCEPT !.pair = Nil] ELSE n
      BY <1>5 DEF Deleted
    <2> QED BY <1>5, <2>1 DEF NetworkType
  <1>6. request[1] \in {"check", "filter", "rule", "route", "pair"}
    BY DEF Cleaning
  <1> QED BY <1>1, <1>2, <1>3, <1>4, <1>5, <1>6

\* A deletion leaves alone what it does not name.
LEMMA DeletedOthers ==
    ASSUME NEW n \in NetworkType, NEW request \in Cleaning
    PROVE  LET d == Deleted(n, request) IN
           /\ d.ids = n.ids /\ (d.pair = n.pair \/ (request = <<"pair", n.pair.id>> /\ d.pair = Nil))
           /\ \A s \in Slot : d.filter[s] = n.filter[s] \/ (request = <<"filter", s>> /\ d.filter[s] = "none")
           /\ \A f \in Fam : /\ "foreign" \in d.rule[f] <=> "foreign" \in n.rule[f]
                             /\ "foreign" \in d.route[f] <=> "foreign" \in n.route[f]
  <1> DEFINE d == Deleted(n, request)
  <1>0. request = <<request[1], request[2]>>
    BY DEF Cleaning
  <1>1. CASE request[1] = "check"
    BY <1>1 DEF Deleted
  <1>2. CASE request[1] = "filter"
    <2>1. request[2] \in Slot
      BY <1>2 DEF Cleaning
    <2>2. d = [n EXCEPT !.filter[request[2]] = "none"]
      BY <1>2 DEF Deleted
    <2>3. d.ids = n.ids /\ d.pair = n.pair /\ d.rule = n.rule /\ d.route = n.route
      BY <2>2 DEF NetworkType
    <2>4. ASSUME NEW s \in Slot
          PROVE  d.filter[s] = n.filter[s] \/ (s = request[2] /\ d.filter[s] = "none")
      BY <2>1, <2>2 DEF NetworkType
    <2> HIDE DEF d
    <2>5. \A s \in Slot : d.filter[s] = n.filter[s] \/ (request = <<"filter", s>> /\ d.filter[s] = "none")
      BY <1>0, <1>2, <2>4
    <2> QED BY <2>3, <2>5 DEF d
  <1>3. CASE request[1] = "rule"
    <2>1. request[2] \in Fam
      BY <1>3 DEF Cleaning
    <2>2. d = [n EXCEPT !.rule[request[2]] = @ \ {"own"}]
      BY <1>3 DEF Deleted, Own
    <2> QED BY <2>1, <2>2 DEF NetworkType
  <1>4. CASE request[1] = "route"
    <2>1. request[2] \in Fam
      BY <1>4 DEF Cleaning
    <2>2. d = [n EXCEPT !.route[request[2]] = @ \ {"own"}]
      BY <1>4 DEF Deleted, Own
    <2> QED BY <2>1, <2>2 DEF NetworkType
  <1>5. CASE request[1] = "pair"
    <2>1. d = IF n.pair # Nil /\ n.pair.id = request[2] THEN [n EXCEPT !.pair = Nil] ELSE n
      BY <1>5 DEF Deleted
    <2>2. CASE n.pair # Nil /\ n.pair.id = request[2]
      <3>1. d = [n EXCEPT !.pair = Nil]
        BY <2>1, <2>2
      <3>2. d.ids = n.ids /\ d.pair = Nil /\ d.rule = n.rule /\ d.route = n.route /\ d.filter = n.filter
        BY <3>1 DEF NetworkType
      <3>3. request = <<"pair", n.pair.id>>
        BY <1>0, <1>5, <2>2
      <3> HIDE DEF d
      <3> QED BY <3>2, <3>3 DEF d
    <2>3. CASE ~(n.pair # Nil /\ n.pair.id = request[2])
      <3>1. d = n
        BY <2>1, <2>3
      <3> QED BY <3>1
    <2> QED BY <2>2, <2>3
  <1>6. request[1] \in {"check", "filter", "rule", "route", "pair"}
    BY DEF Cleaning
  <1> QED BY <1>1, <1>2, <1>3, <1>4, <1>5, <1>6

\* A deletion that was made need not be made again.
LEMMA StillCovered ==
    ASSUME NEW n \in NetworkType, NEW q \in Seq(Cleaning), q # <<>>
    PROVE  LET d == Deleted(n, Head(q)) IN
           /\ Covered(n, q) => Covered(d, Tail(q))
           /\ FiltersCovered(n, q) => FiltersCovered(d, Tail(q))
  <1> DEFINE d == Deleted(n, Head(q))
             h == Head(q)
             t == Tail(q)
  <1>1. h \in Cleaning /\ Requests(q) = {h} \cup Requests(t)
    BY NextRequest
  <1>2. /\ \A s \in Slot : d.filter[s] = "own" => n.filter[s] = "own" /\ h # <<"filter", s>>
        /\ \A f \in Fam : "own" \in d.rule[f] => "own" \in n.rule[f] /\ h # <<"rule", f>>
        /\ \A f \in Fam : "own" \in d.route[f] => "own" \in n.route[f] /\ h # <<"route", f>>
        /\ d.pair # Nil => d.pair = n.pair /\ h # <<"pair", n.pair.id>>
    BY <1>1, DeletedNet
  <1> HIDE DEF d, h, t
  <1>3. Covered(n, q) => Covered(d, t)
    BY <1>1, <1>2 DEF Covered
  <1>4. FiltersCovered(n, q) => FiltersCovered(d, t)
    BY <1>1, <1>2 DEF FiltersCovered
  <1> QED BY <1>3, <1>4 DEF d, t

\* cleanup_plan: nothing foreign is in the way, and everything of ours is planned.
LEMMA PlanCovers ==
    ASSUME NEW n \in NetworkType, cleanup_plan(n) # Nil
    PROVE  LET plan == cleanup_plan(n) IN
           /\ plan \in PlanType
           /\ \A s \in Slot : n.filter[s] = "own" => s \in plan.filters
           /\ \A f \in Fam : "own" \in n.rule[f] => f \in plan.rules
           /\ \A f \in Fam : "own" \in n.route[f] => f \in plan.routes
           /\ n.pair # Nil => plan.pair = n.pair.id /\ plan.pair # 0 /\ n.pair.alias = {"host", "peer"}
           /\ n.pair = Nil => plan.pair = 0
           /\ NoForeign(n)
  <1> DEFINE plan == cleanup_plan(n)
  <1>1. plan = [filters |-> {s \in Slot : n.filter[s] = "own"}, rules |-> {f \in Fam : n.rule[f] # {}},
                routes |-> {f \in Fam : n.route[f] # {}}, pair |-> IF n.pair = Nil THEN 0 ELSE n.pair.id]
    BY DEF cleanup_plan, expected_stale_filter
  <1>2. n.pair # Nil => n.pair.id \in Nat /\ n.pair.id # 0
    BY DEF NetworkType, PairType
  <1> HIDE DEF plan
  <1>3. plan.pair = IF n.pair = Nil THEN 0 ELSE n.pair.id
    BY <1>1
  <1>4. plan \in PlanType
    BY <1>1, <1>2 DEF PlanType
  <1>5. NoForeign(n)
    BY DEF cleanup_plan, PolicyConflict, NoForeign
  <1>6. n.pair # Nil => n.pair.alias = {"host", "peer"}
    <2>1. classify_pair(n) # "conflict"
      BY DEF cleanup_plan
    <2> QED BY <2>1 DEF classify_pair
  <1> QED BY <1>1, <1>2, <1>3, <1>4, <1>5, <1>6 DEF plan

\* What cleanup_owned deletes after its two dumps agreed covers everything of ours.
LEMMA PlanDeletes ==
    ASSUME NEW n \in NetworkType, cleanup_plan(n) # Nil
    PROVE  LET q == Deletions(cleanup_plan(n)) IN
           /\ q \in Seq(Cleaning) /\ Paired(q) /\ (q # <<>> => Head(q)[1] # "filter")
           /\ Covered(n, q) /\ FiltersCovered(n, q) /\ NoForeign(n)
           /\ PairKnown(n) => \A id : <<"pair", id>> \in Requests(q) => Ours(n, id)
  <1> DEFINE plan == cleanup_plan(n)
             q == Deletions(plan)
  <1>1. /\ plan \in PlanType
        /\ \A s \in Slot : n.filter[s] = "own" => s \in plan.filters
        /\ \A f \in Fam : "own" \in n.rule[f] => f \in plan.rules
        /\ \A f \in Fam : "own" \in n.route[f] => f \in plan.routes
        /\ n.pair # Nil => plan.pair = n.pair.id /\ plan.pair # 0 /\ n.pair.alias = {"host", "peer"}
        /\ n.pair = Nil => plan.pair = 0
        /\ NoForeign(n)
    BY PlanCovers
  <1> HIDE DEF plan
  <1>2. /\ q \in Seq(Cleaning) /\ Paired(q) /\ (q # <<>> => Head(q)[1] # "filter")
        /\ \A s \in plan.filters : <<"filter", s>> \in Requests(q)
        /\ \A f \in plan.rules : <<"rule", f>> \in Requests(q)
        /\ \A f \in plan.routes : <<"route", f>> \in Requests(q)
        /\ plan.pair # 0 => <<"pair", plan.pair>> \in Requests(q)
        /\ \A id : <<"pair", id>> \in Requests(q) => id = plan.pair /\ plan.pair # 0
    BY <1>1, DeletionsCover
  <1> HIDE DEF q
  <1>3. Covered(n, q)
    BY <1>1, <1>2 DEF Covered
  <1>4. FiltersCovered(n, q)
    BY <1>1, <1>2 DEF FiltersCovered
  <1>5. PairKnown(n) => \A id : <<"pair", id>> \in Requests(q) => Ours(n, id)
    BY <1>1, <1>2 DEF PairKnown, Ours
  <1> QED BY <1>1, <1>2, <1>3, <1>4, <1>5 DEF q, plan

\* What belongs to others.
LEMMA ForeignIs ==
    ASSUME NEW n, NEW x
    PROVE  x \in Foreign(n) <=>
             \/ \E f \in Fam : x = <<"rule", f>> /\ "foreign" \in n.rule[f]
             \/ \E f \in Fam : x = <<"route", f>> /\ "foreign" \in n.route[f]
             \/ \E s \in Slot : x = <<"filter", s>> /\ n.filter[s] \in {"odd", "other"}
             \/ n.pair # Nil /\ n.pair.theirs /\ x = <<"pair", n.pair.id>>
BY DEF Foreign

\* A request to delete takes nothing of others that was seen, and leaves the rest alone.
LEMMA DeletesOurs ==
    ASSUME NEW request \in Cleaning, Deletes(request), net \in NetworkType, struck = {}, AllSeen(net, touched),
           request[1] = "filter" => SlotSeen(net, request[2], touched),
           request[1] = "pair" => Ours(net, request[2])
    PROVE  /\ struck' = {} /\ net' \in NetworkType
           /\ \A f \in Fam : /\ "own" \in net'.rule[f] => "own" \in net.rule[f]
                             /\ "own" \in net'.route[f] => "own" \in net.route[f]
                             /\ "foreign" \in net'.rule[f] => "foreign" \in net.rule[f]
                             /\ "foreign" \in net'.route[f] => "foreign" \in net.route[f]
           /\ \A s \in Slot : net'.filter[s] = net.filter[s] \/ (request = <<"filter", s>> /\ net'.filter[s] = "none")
           /\ net'.ids = net.ids /\ (net'.pair = Nil \/ net'.pair = net.pair)
           /\ request[1] \in {"rule", "route"} => net'.filter = net.filter /\ net'.pair = net.pair
           /\ NoForeign(net) \/ request[1] \notin {"rule", "route"} => net' = Deleted(net, request)
  <1>1. request[1] \in {"check", "filter", "rule", "route", "pair"}
    BY DEF Cleaning
  <1>2. CASE net' = Deleted(net, request)
    <2> DEFINE d == Deleted(net, request)
    <2>1. /\ d \in NetworkType
          /\ \A f \in Fam : "own" \in d.rule[f] => "own" \in net.rule[f]
          /\ \A f \in Fam : "own" \in d.route[f] => "own" \in net.route[f]
          /\ d.ids = net.ids /\ (d.pair = net.pair \/ (request = <<"pair", net.pair.id>> /\ d.pair = Nil))
          /\ \A s \in Slot : d.filter[s] = net.filter[s] \/ (request = <<"filter", s>> /\ d.filter[s] = "none")
          /\ \A f \in Fam : /\ "foreign" \in d.rule[f] <=> "foreign" \in net.rule[f]
                            /\ "foreign" \in d.route[f] <=> "foreign" \in net.route[f]
      BY DeletedNet, DeletedOthers
    <2>2. net' = d
      BY <1>2
    <2> HIDE DEF d
    <2>3. ASSUME NEW x, x \in Foreign(net), x \notin Foreign(net')
          PROVE  x \in touched /\ x[1] # "pair"
      <3>1. CASE \E f \in Fam : x = <<"rule", f>> /\ "foreign" \in net.rule[f]
        <4>1. PICK f \in Fam : x = <<"rule", f>> /\ "foreign" \in net.rule[f]
          BY <3>1
        <4>2. "foreign" \in d.rule[f]
          <5>1. "foreign" \in d.rule[f] <=> "foreign" \in net.rule[f]
            BY <2>1
          <5> QED BY <4>1, <5>1
        <4>3. "foreign" \in net'.rule[f]
          BY <2>2, <4>2
        <4> QED BY <2>3, <4>1, <4>3, ForeignIs
      <3>2. CASE \E f \in Fam : x = <<"route", f>> /\ "foreign" \in net.route[f]
        <4>1. PICK f \in Fam : x = <<"route", f>> /\ "foreign" \in net.route[f]
          BY <3>2
        <4>2. "foreign" \in net'.route[f]
          BY <2>1, <2>2, <4>1
        <4> QED BY <2>3, <4>1, <4>2, ForeignIs
      <3>3. CASE \E s \in Slot : x = <<"filter", s>> /\ net.filter[s] \in {"odd", "other"}
        <4>1. PICK s \in Slot : x = <<"filter", s>> /\ net.filter[s] \in {"odd", "other"}
          BY <3>3
        <4>2. net'.filter[s] \notin {"odd", "other"}
          BY <2>3, <4>1, ForeignIs
        <4>3. request = <<"filter", s>>
          BY <2>1, <2>2, <4>1, <4>2
        <4> QED BY <4>1, <4>3 DEF SlotSeen
      <3>4. CASE net.pair # Nil /\ net.pair.theirs /\ x = <<"pair", net.pair.id>>
        <4>1. net'.pair # net.pair
          BY <2>3, <3>4, ForeignIs
        <4>2. request = <<"pair", net.pair.id>>
          BY <2>1, <2>2, <4>1
        <4> QED BY <3>4, <4>2 DEF Ours
      <3> QED BY <2>3, <3>1, <3>2, <3>3, <3>4, ForeignIs
    <2>4. struck' = {}
      BY <2>3 DEF Deletes
    <2>5. request[1] \in {"rule", "route"} => net'.filter = net.filter /\ net'.pair = net.pair
      BY <1>2 DEF Deleted, NetworkType
    <2> QED BY <1>2, <2>1, <2>2, <2>4, <2>5
  <1>3. CASE /\ request[1] \in {"rule", "route"} /\ request \in Foreign(net)
             /\ net' = Mistaken(net, request)
    <2>1. request[2] \in Fam /\ request = <<request[1], request[2]>>
      BY <1>3 DEF Cleaning
    <2>2. /\ request[1] = "rule" => net' = [net EXCEPT !.rule[request[2]] = @ \ {"foreign"}]
          /\ request[1] = "route" => net' = [net EXCEPT !.route[request[2]] = @ \ {"foreign"}]
      BY <1>3 DEF Mistaken
    <2>3. /\ net' \in NetworkType /\ net'.filter = net.filter /\ net'.pair = net.pair /\ net'.ids = net.ids
          /\ \A f \in Fam : /\ "own" \in net'.rule[f] => "own" \in net.rule[f]
                            /\ "own" \in net'.route[f] => "own" \in net.route[f]
                            /\ "foreign" \in net'.rule[f] => "foreign" \in net.rule[f]
                            /\ "foreign" \in net'.route[f] => "foreign" \in net.route[f]
          /\ \A f \in Fam : /\ net'.rule[f] = net.rule[f] \/ request = <<"rule", f>>
                            /\ net'.route[f] = net.route[f] \/ request = <<"route", f>>
      <3>1. CASE request[1] = "rule"
        BY <2>1, <2>2, <3>1 DEF NetworkType
      <3>2. CASE request[1] = "route"
        BY <2>1, <2>2, <3>2 DEF NetworkType
      <3> QED BY <1>3, <3>1, <3>2
    <2>4. ASSUME NEW x, x \in Foreign(net), x \notin Foreign(net')
          PROVE  x \in touched /\ x[1] # "pair"
      <3>1. CASE \E f \in Fam : x = <<"rule", f>> /\ "foreign" \in net.rule[f]
        <4>1. PICK f \in Fam : x = <<"rule", f>> /\ "foreign" \in net.rule[f]
          BY <3>1
        <4>2. <<"rule", f>> \in touched
          BY <4>1 DEF AllSeen
        <4> QED BY <4>1, <4>2, Zenon
      <3>2. CASE \E f \in Fam : x = <<"route", f>> /\ "foreign" \in net.route[f]
        <4>1. PICK f \in Fam : x = <<"route", f>> /\ "foreign" \in net.route[f]
          BY <3>2
        <4>2. <<"route", f>> \in touched
          BY <4>1 DEF AllSeen
        <4> QED BY <4>1, <4>2, Zenon
      <3>3. CASE \E s \in Slot : x = <<"filter", s>> /\ net.filter[s] \in {"odd", "other"}
        BY <2>3, <2>4, <3>3, ForeignIs
      <3>4. CASE net.pair # Nil /\ net.pair.theirs /\ x = <<"pair", net.pair.id>>
        BY <2>3, <2>4, <3>4, ForeignIs
      <3> QED BY <2>4, <3>1, <3>2, <3>3, <3>4, ForeignIs
    <2>5. struck' = {}
      BY <2>4 DEF Deletes
    <2>6. ~NoForeign(net)
      BY <1>3, <2>1, ForeignIs DEF NoForeign
    <2> QED BY <1>3, <2>3, <2>5, <2>6
  <1> QED BY <1>2, <1>3 DEF Deletes

\* A request of a creation: what is made stays made, nothing foreign appears, and a side
\* that comes up after address generation was turned off gets no address.
LEMMA CreatedNet ==
    ASSUME NEW n \in NetworkType, NEW request \in Creating, Accepted_request(n, request)
    PROVE  LET d == Created(n, request) IN
           /\ d \in NetworkType /\ d.filter = n.filter
           /\ NoForeign(n) => NoForeign(d)
           /\ request = Veth => d.pair = NewPair(n.ids) /\ d.pair # Nil
           /\ request # Veth /\ n.pair # Nil => d.pair # Nil /\ d.pair.id = n.pair.id
           /\ request # Veth /\ n.pair # Nil /\ ~n.pair.addr /\ (request[1] = "up" => n.pair.gen) => ~d.pair.addr
           /\ request # Veth /\ n.pair # Nil => \A r \in Needed : r = request \/ Done(n, r) => Done(d, r)
  <1> DEFINE d == Created(n, request)
  <1>1. CASE request[1] = "veth"
    <2>1. d = [n EXCEPT !.pair = NewPair(n.ids), !.ids = @ + 1]
      BY <1>1 DEF Created
    <2>2. request = Veth
      BY <1>1 DEF Creating, Needed, Veth, Verify, Sysctl, Clsact
    <2>3. n.ids \in Nat \ {0}
      BY DEF NetworkType
    <2>4. NewPair(n.ids) \in PairType /\ NewPair(n.ids) # Nil
      <3>1. NewPair(n.ids) \in PairType
        BY <2>3 DEF NewPair, PairType
      <3> QED BY <3>1, TopologyAssumption
    <2>5. d \in NetworkType /\ d.filter = n.filter /\ d.rule = n.rule /\ d.route = n.route /\ d.pair = NewPair(n.ids)
      <3> DEFINE p == NewPair(n.ids)
      <3> HIDE DEF p
      <3>1. n.ids + 1 \in Nat \ {0} /\ p \in PairType
        BY <2>3, <2>4 DEF p
      <3>2. d = [n EXCEPT !.pair = p, !.ids = @ + 1]
        BY <2>1 DEF p
      <3>3. d \in NetworkType /\ d.filter = n.filter /\ d.rule = n.rule /\ d.route = n.route /\ d.pair = p
        BY <3>1, <3>2 DEF NetworkType
      <3> QED BY <3>3 DEF p
    <2> QED BY <2>2, <2>4, <2>5 DEF NoForeign
  <1>2. ASSUME request[1] \in {"alias", "up", "sysctl", "clsact"}
        PROVE  n.pair # Nil /\ n.pair \in PairType /\ request # Veth
    BY <1>2 DEF Accepted_request, NetworkType, Veth
  <1> DEFINE Kept ==
               /\ d \in NetworkType /\ d.filter = n.filter /\ d.rule = n.rule /\ d.route = n.route
               /\ d.pair \in PairType /\ d.pair # Nil /\ d.pair.id = n.pair.id
               /\ n.pair.alias \subseteq d.pair.alias /\ n.pair.up \subseteq d.pair.up
               /\ n.pair.gen => d.pair.gen
               /\ n.pair.clsact = "exact" => d.pair.clsact = "exact"
               /\ ~n.pair.addr /\ (request[1] = "up" => n.pair.gen) => ~d.pair.addr
  <1>3. ASSUME request[1] \in {"alias", "up", "sysctl", "clsact"}, Kept, Done(d, request)
        PROVE  LET e == Created(n, request) IN
           /\ e \in NetworkType /\ e.filter = n.filter
           /\ NoForeign(n) => NoForeign(e)
           /\ request = Veth => e.pair = NewPair(n.ids) /\ e.pair # Nil
           /\ request # Veth /\ n.pair # Nil => e.pair # Nil /\ e.pair.id = n.pair.id
           /\ request # Veth /\ n.pair # Nil /\ ~n.pair.addr /\ (request[1] = "up" => n.pair.gen) => ~e.pair.addr
           /\ request # Veth /\ n.pair # Nil => \A r \in Needed : r = request \/ Done(n, r) => Done(e, r)
    <2> HIDE DEF d
    <2>1. \A r : Done(n, r) => Done(d, r)
      BY <1>3 DEF Done
    <2>2. NoForeign(n) => NoForeign(d)
      BY <1>3 DEF NoForeign
    <2>3. request # Veth
      BY <1>2, <1>3
    <2> QED BY <1>3, <2>1, <2>2, <2>3 DEF d
  <1>4. CASE request[1] = "alias"
    <2>1. d = [n EXCEPT !.pair.alias = @ \cup {request[2]}] /\ request[2] \in Sides
      BY <1>4 DEF Created, Creating, Needed, Veth, Verify, Sysctl, Clsact
    <2>2. n.pair \in PairType
      BY <1>2, <1>4
    <2>3. d.pair = [n.pair EXCEPT !.alias = @ \cup {request[2]}]
      BY <2>1 DEF NetworkType
    <2>4. d.pair \in PairType
      BY <2>1, <2>2, <2>3 DEF PairType
    <2>5. d \in NetworkType /\ d.filter = n.filter /\ d.rule = n.rule /\ d.route = n.route
      BY <2>1, <2>3, <2>4 DEF NetworkType
    <2>6. /\ d.pair.id = n.pair.id /\ d.pair.up = n.pair.up /\ d.pair.gen = n.pair.gen
          /\ d.pair.clsact = n.pair.clsact /\ d.pair.addr = n.pair.addr
          /\ d.pair.alias = n.pair.alias \cup {request[2]}
      BY <2>2, <2>3 DEF PairType
    <2> HIDE DEF d
    <2>7. Kept
      BY <2>4, <2>5, <2>6, TopologyAssumption
    <2>8. Done(d, request)
      BY <1>4, <2>6 DEF Done
    <2> QED BY <1>3, <1>4, <2>7, <2>8
  <1>5. CASE request[1] = "up"
    <2>1. /\ d = [n EXCEPT !.pair.up = @ \cup {request[2]}, !.pair.addr = @ \/ ~n.pair.gen]
          /\ request[2] \in Sides
      BY <1>5 DEF Created, Creating, Needed, Veth, Verify, Sysctl, Clsact
    <2>2. n.pair \in PairType
      BY <1>2, <1>5
    <2>3. d.pair = [n.pair EXCEPT !.up = @ \cup {request[2]}, !.addr = @ \/ ~n.pair.gen]
      BY <2>1, <2>2 DEF NetworkType, PairType
    <2>4. d.pair \in PairType
      <3> DEFINE x == n.pair.addr \/ ~n.pair.gen
                 y == n.pair.up \cup {request[2]}
      <3>1. x \in BOOLEAN
        OBVIOUS
      <3>2. y \in SUBSET Sides
        BY <2>1, <2>2 DEF PairType
      <3>3. d.pair = [n.pair EXCEPT !.up = y, !.addr = x]
        BY <2>2, <2>3 DEF PairType
      <3> HIDE DEF x, y
      <3> QED BY <2>2, <3>1, <3>2, <3>3 DEF PairType
    <2>5. d \in NetworkType /\ d.filter = n.filter /\ d.rule = n.rule /\ d.route = n.route
      BY <2>1, <2>2, <2>3, <2>4 DEF NetworkType
    <2>6. /\ d.pair.id = n.pair.id /\ d.pair.alias = n.pair.alias /\ d.pair.gen = n.pair.gen
          /\ d.pair.clsact = n.pair.clsact /\ d.pair.addr = (n.pair.addr \/ ~n.pair.gen)
          /\ d.pair.up = n.pair.up \cup {request[2]}
      BY <2>2, <2>3 DEF PairType
    <2> HIDE DEF d
    <2>7. Kept
      BY <1>5, <2>4, <2>5, <2>6, TopologyAssumption
    <2>8. Done(d, request)
      BY <1>5, <2>6 DEF Done
    <2> QED BY <1>3, <1>5, <2>7, <2>8
  <1>6. CASE request[1] = "sysctl"
    <2>1. d = [n EXCEPT !.pair.gen = TRUE]
      BY <1>6 DEF Created
    <2>2. n.pair \in PairType
      BY <1>2, <1>6
    <2>3. d.pair = [n.pair EXCEPT !.gen = TRUE]
      BY <2>1 DEF NetworkType
    <2>4. d.pair \in PairType
      BY <2>2, <2>3 DEF PairType
    <2>5. d \in NetworkType /\ d.filter = n.filter /\ d.rule = n.rule /\ d.route = n.route
      BY <2>1, <2>3, <2>4 DEF NetworkType
    <2>6. /\ d.pair.id = n.pair.id /\ d.pair.alias = n.pair.alias /\ d.pair.up = n.pair.up
          /\ d.pair.clsact = n.pair.clsact /\ d.pair.addr = n.pair.addr /\ d.pair.gen
      BY <2>2, <2>3 DEF PairType
    <2> HIDE DEF d
    <2>7. Kept
      BY <2>4, <2>5, <2>6, TopologyAssumption
    <2>8. Done(d, request)
      BY <1>6, <2>6 DEF Done
    <2> QED BY <1>3, <1>6, <2>7, <2>8
  <1>7. CASE request[1] = "clsact"
    <2>1. d = [n EXCEPT !.pair.clsact = "exact"]
      BY <1>7 DEF Created
    <2>2. n.pair \in PairType
      BY <1>2, <1>7
    <2>3. d.pair = [n.pair EXCEPT !.clsact = "exact"]
      BY <2>1 DEF NetworkType
    <2>4. d.pair \in PairType
      BY <2>2, <2>3 DEF PairType
    <2>5. d \in NetworkType /\ d.filter = n.filter /\ d.rule = n.rule /\ d.route = n.route
      BY <2>1, <2>3, <2>4 DEF NetworkType
    <2>6. /\ d.pair.id = n.pair.id /\ d.pair.alias = n.pair.alias /\ d.pair.up = n.pair.up
          /\ d.pair.gen = n.pair.gen /\ d.pair.addr = n.pair.addr /\ d.pair.clsact = "exact"
      BY <2>2, <2>3 DEF PairType
    <2> HIDE DEF d
    <2>7. Kept
      BY <2>4, <2>5, <2>6, TopologyAssumption
    <2>8. Done(d, request)
      BY <1>7, <2>6 DEF Done
    <2> QED BY <1>3, <1>7, <2>7, <2>8
  <1>8. CASE request[1] \in {"rule", "route"}
    <2>0. request[2] \in Fam /\ request # Veth
      BY <1>8 DEF Creating, Needed, Veth, Verify, Sysctl, Clsact
    <2>1. /\ request[1] = "rule" => d = [n EXCEPT !.rule[request[2]] = @ \cup {"own"}]
          /\ request[1] = "route" => d = [n EXCEPT !.route[request[2]] = @ \cup {"own"}]
      BY DEF Created, Own
    <2>2. d \in NetworkType /\ d.filter = n.filter /\ d.pair = n.pair
      BY <1>8, <2>0, <2>1 DEF NetworkType
    <2>3. \A f \in Fam : n.rule[f] \subseteq d.rule[f] /\ n.route[f] \subseteq d.route[f]
      BY <1>8, <2>0, <2>1 DEF NetworkType
    <2>4. /\ request[1] = "rule" => "own" \in d.rule[request[2]]
          /\ request[1] = "route" => "own" \in d.route[request[2]]
      BY <2>0, <2>1 DEF NetworkType
    <2>5. \A f \in Fam : /\ "foreign" \in d.rule[f] => "foreign" \in n.rule[f]
                         /\ "foreign" \in d.route[f] => "foreign" \in n.route[f]
      BY <1>8, <2>0, <2>1 DEF NetworkType
    <2> HIDE DEF d
    <2>6. ASSUME NEW r \in Needed, r = request \/ Done(n, r)
          PROVE  Done(d, r)
      <3>1. r[1] \in {"rule", "route"} => r[2] \in Fam
        BY DEF Needed, Sysctl, Clsact
      <3>2. r[1] \in {"alias", "up", "sysctl", "clsact", "rule", "route"}
        BY DEF Needed, Sysctl, Clsact
      <3>3. CASE r = request
        BY <1>8, <2>4, <3>3 DEF Done
      <3>4. CASE Done(n, r)
        BY <2>2, <2>3, <3>1, <3>2, <3>4 DEF Done
      <3> QED BY <2>6, <3>3, <3>4
    <2>7. NoForeign(n) => NoForeign(d)
      BY <2>5 DEF NoForeign
    <2> QED BY <2>0, <2>2, <2>6, <2>7 DEF d
  <1>9. CASE request[1] = "verify"
    <2>1. d = n
      BY <1>9 DEF Created
    <2>2. \A r \in Needed : r # request
      BY <1>9 DEF Needed, Sysctl, Clsact
    <2>3. request # Veth
      BY <1>9 DEF Veth
    <2> QED BY <2>1, <2>2, <2>3
  <1>10. request[1] \in {"veth", "alias", "up", "sysctl", "clsact", "rule", "route", "verify"}
    BY DEF Creating, Needed, Veth, Verify, Sysctl, Clsact
  <1> QED BY <1>1, <1>4, <1>5, <1>6, <1>7, <1>8, <1>9, <1>10

\* A request of a creation gives others nothing, and takes no pair from them.
LEMMA CreatedOurs ==
    ASSUME NEW n \in NetworkType, NEW request \in Creating, Accepted_request(n, request)
    PROVE  LET d == Created(n, request) IN
           /\ \A f \in Fam : /\ "foreign" \in d.rule[f] => "foreign" \in n.rule[f]
                             /\ "foreign" \in d.route[f] => "foreign" \in n.route[f]
           /\ request = Veth => d.ids = n.ids + 1 /\ d.pair.id = n.ids /\ ~d.pair.theirs
           /\ request # Veth => d.ids = n.ids
           /\ request # Veth => (d.pair = Nil <=> n.pair = Nil)
           /\ request # Veth /\ n.pair # Nil =>
                 /\ d.pair.id = n.pair.id /\ d.pair.theirs = n.pair.theirs
                 /\ d.pair.alias = n.pair.alias \/ (request[1] = "alias" /\ n.pair.id = topo.id)
  <1> DEFINE d == Created(n, request)
  <1>1. CASE request[1] = "veth"
    <2>1. d = [n EXCEPT !.pair = NewPair(n.ids), !.ids = @ + 1]
      BY <1>1 DEF Created
    <2>2. request = Veth
      BY <1>1 DEF Creating, Needed, Veth, Verify, Sysctl, Clsact
    <2> DEFINE p == NewPair(n.ids)
    <2>3. p.id = n.ids /\ ~p.theirs
      BY DEF NewPair
    <2> HIDE DEF p
    <2>4. d = [n EXCEPT !.pair = p, !.ids = @ + 1]
      BY <2>1 DEF p
    <2>5. d.pair = p /\ d.ids = n.ids + 1 /\ d.rule = n.rule /\ d.route = n.route
      BY <2>4 DEF NetworkType
    <2> QED BY <2>2, <2>3, <2>5
  <1>2. CASE request[1] \in {"alias", "up", "sysctl", "clsact"}
    <2>1. n.pair # Nil /\ n.pair \in PairType /\ request # Veth /\ (request[1] = "alias" => n.pair.id = topo.id)
      BY <1>2 DEF Accepted_request, NetworkType, Veth
    <2>2. PICK p : /\ d = [n EXCEPT !.pair = p] /\ p.id = n.pair.id /\ p.theirs = n.pair.theirs
                   /\ p.alias = n.pair.alias \/ request[1] = "alias"
                   /\ p # Nil
      <3>1. CASE request[1] = "alias"
        <4> DEFINE p == [n.pair EXCEPT !.alias = @ \cup {request[2]}]
        <4>1. d = [n EXCEPT !.pair = p]
          BY <3>1 DEF Created
        <4>2. request[2] \in Sides
          BY <3>1 DEF Creating, Needed, Veth, Verify, Sysctl, Clsact
        <4>3. p.id = n.pair.id /\ p.theirs = n.pair.theirs /\ p \in PairType
          BY <2>1, <4>2 DEF PairType
        <4> HIDE DEF p
        <4> QED BY <3>1, <4>1, <4>3, TopologyAssumption
      <3>2. CASE request[1] = "up"
        <4> DEFINE y == n.pair.up \cup {request[2]}
                   x == n.pair.addr \/ ~n.pair.gen
                   p == [n.pair EXCEPT !.up = y, !.addr = x]
        <4>1. d = [n EXCEPT !.pair = p]
          BY <2>1, <3>2 DEF Created, NetworkType, PairType
        <4>2. request[2] \in Sides
          BY <3>2 DEF Creating, Needed, Veth, Verify, Sysctl, Clsact
        <4>3. x \in BOOLEAN /\ y \in SUBSET Sides
          BY <2>1, <4>2 DEF PairType
        <4> HIDE DEF x, y
        <4>4. p.id = n.pair.id /\ p.theirs = n.pair.theirs /\ p.alias = n.pair.alias /\ p \in PairType
          BY <2>1, <4>3 DEF PairType
        <4> HIDE DEF p
        <4> QED BY <3>2, <4>1, <4>4, TopologyAssumption
      <3>3. CASE request[1] = "sysctl"
        <4> DEFINE p == [n.pair EXCEPT !.gen = TRUE]
        <4>1. d = [n EXCEPT !.pair = p]
          BY <3>3 DEF Created
        <4>2. p.id = n.pair.id /\ p.theirs = n.pair.theirs /\ p.alias = n.pair.alias /\ p \in PairType
          BY <2>1 DEF PairType
        <4> HIDE DEF p
        <4> QED BY <3>3, <4>1, <4>2, TopologyAssumption
      <3>4. CASE request[1] = "clsact"
        <4> DEFINE p == [n.pair EXCEPT !.clsact = "exact"]
        <4>1. d = [n EXCEPT !.pair = p]
          BY <3>4 DEF Created
        <4>2. p.id = n.pair.id /\ p.theirs = n.pair.theirs /\ p.alias = n.pair.alias /\ p \in PairType
          BY <2>1 DEF PairType
        <4> HIDE DEF p
        <4> QED BY <3>4, <4>1, <4>2, TopologyAssumption
      <3> QED BY <1>2, <3>1, <3>2, <3>3, <3>4
    <2>3. d.pair = p /\ d.ids = n.ids /\ d.rule = n.rule /\ d.route = n.route
      BY <2>2 DEF NetworkType
    <2> QED BY <2>1, <2>2, <2>3
  <1>3. CASE request[1] \in {"rule", "route"}
    <2>1. request[2] \in Fam /\ request # Veth
      BY <1>3 DEF Creating, Needed, Veth, Verify, Sysctl, Clsact
    <2>2. /\ request[1] = "rule" => d = [n EXCEPT !.rule[request[2]] = @ \cup {"own"}]
          /\ request[1] = "route" => d = [n EXCEPT !.route[request[2]] = @ \cup {"own"}]
      BY DEF Created, Own
    <2>3. d.pair = n.pair /\ d.ids = n.ids
      BY <1>3, <2>1, <2>2 DEF NetworkType
    <2>4. \A f \in Fam : /\ "foreign" \in d.rule[f] => "foreign" \in n.rule[f]
                         /\ "foreign" \in d.route[f] => "foreign" \in n.route[f]
      BY <1>3, <2>1, <2>2 DEF NetworkType
    <2> HIDE DEF d
    <2> QED BY <2>1, <2>3, <2>4 DEF d
  <1>4. CASE request[1] = "verify"
    <2>1. d = n /\ request # Veth
      BY <1>4 DEF Created, Veth
    <2> QED BY <2>1
  <1>5. request[1] \in {"veth", "alias", "up", "sysctl", "clsact", "rule", "route", "verify"}
    BY DEF Creating, Needed, Veth, Verify, Sysctl, Clsact
  <1> QED BY <1>1, <1>2, <1>3, <1>4, <1>5

-----------------------------------------------------------------------------
(* The manager's steps *)

\* Whatever was left in the network, the invariant holds at the start.
LEMMA TopologyStarts ==
    ASSUME NEW n \in {m \in NetworkType : PairKnown(m)}, TopologyStart(n)
    PROVE  TopologyInv
  <1>1. topo = Idle0 /\ quiet = TRUE /\ struck = {} /\ net \in NetworkType /\ PairKnown(net)
    BY DEF TopologyStart
  <1>2. Idle0 \in ManagerType
    BY DEF Idle0, ManagerType
  <1>3. Idle0.pc = "idle" /\ ~Idle0.active /\ ~Idle0.repair /\ ~Idle0.reconciled /\ Idle0.id = 0
    BY DEF Idle0
  <1>4. Ours(net, 0)
    BY <1>1 DEF NetworkType, PairType, Ours
  <1>5. SeenInv /\ PairInv
    BY <1>1, <1>3, <1>4 DEF SeenInv, PairInv
  <1> QED BY <1>1, <1>2, <1>3, <1>5 DEF TopologyInv, TopologyTypes, RepairInv, CleanInv, CreateInv

\* A step of others than the manager and the network.
LEMMA TopologyIdles ==
    ASSUME TopologyInv, UNCHANGED topovars
    PROVE  TopologyInv'
  <1>1. UNCHANGED <<net, topo, quiet, touched, struck>>
    BY DEF topovars
  <1>2. TopologyTypes' /\ RepairInv' /\ CleanInv' /\ CreateInv'
    BY <1>1 DEF TopologyInv, TopologyTypes, RepairInv, CleanInv, CreateInv, Todo
  <1>3. SeenInv' /\ PairInv'
    BY <1>1 DEF TopologyInv, SeenInv, PairInv, Todo
  <1> QED BY <1>2, <1>3 DEF TopologyInv

\* The manager returns: nothing is under way.
LEMMA ReturnKeeps ==
    ASSUME TopologyInv, Returns, quiet' \in BOOLEAN, struck' = {}, net' \in NetworkType,
           net'.filter = net.filter, net'.ids = net.ids, net'.pair = net.pair \/ net'.pair = Nil
    PROVE  TopologyInv'
  <1>1. /\ topo' \in ManagerType /\ topo'.pc = "idle" /\ topo'.repair = FALSE
        /\ topo'.reconciled = topo.reconciled /\ topo'.id = topo.id /\ topo'.active = topo.active
    <2> DEFINE none == <<>>
    <2>1. none \in Seq(Cleaning \cup Creating)
      OBVIOUS
    <2>2. /\ topo' = [topo EXCEPT !.pc = "idle", !.plan = Nil, !.todo = none, !.look = Nil, !.repair = FALSE]
          /\ topo \in ManagerType
      BY DEF Returns, TopologyInv, TopologyTypes
    <2> HIDE DEF none
    <2> QED BY <2>1, <2>2 DEF ManagerType
  <1>2. TopologyTypes'
    BY <1>1 DEF TopologyInv, TopologyTypes
  <1>3. RepairInv'
    BY <1>1 DEF TopologyInv, RepairInv, NoOwn
  <1>4. CleanInv' /\ CreateInv' /\ SeenInv'
    BY <1>1 DEF CleanInv, CreateInv, SeenInv
  <1>5. PairInv'
    BY <1>1 DEF TopologyInv, PairInv, PairKnown, Ours
  <1> QED BY <1>2, <1>3, <1>4, <1>5 DEF TopologyInv

\* Nothing but the manager changes, and nothing that may be deleted is under way.
LEMMA WaitKeeps ==
    ASSUME TopologyInv, topo' \in ManagerType, topo'.pc \in {"idle", "second", "before"},
           net' = net, quiet' \in BOOLEAN, struck' = {}, topo'.id = topo.id,
           topo'.active => topo'.pc # "before" /\ ~topo'.repair,
           topo'.pc \in {"idle", "before"} => ~topo'.repair,
           topo'.pc = "before" => topo'.reconciled,
           topo'.pc = "second" => topo'.plan # Nil,
           topo'.reconciled => NoOwn(net)
    PROVE  TopologyInv'
  <1>1. TopologyTypes'
    BY DEF TopologyInv, TopologyTypes
  <1>2. RepairInv'
    BY DEF RepairInv, NoOwn
  <1>3. CleanInv' /\ CreateInv' /\ SeenInv'
    BY DEF CleanInv, CreateInv, SeenInv
  <1>4. PairInv'
    BY DEF TopologyInv, PairInv, PairKnown, Ours
  <1> QED BY <1>1, <1>2, <1>3, <1>4 DEF TopologyInv

\* The first dump of cleanup_owned.
LEMMA FirstDumpKeeps ==
    ASSUME TopologyInv, cleanup_owned
    PROVE  TopologyInv'
  <1>1. net \in NetworkType /\ topo \in ManagerType /\ struck = {}
    BY DEF TopologyInv, TopologyTypes, SeenInv
  <1>2. cleanup_plan(net) \in PlanType /\ cleanup_plan(net) # Nil
    BY <1>1, PlanCovers DEF cleanup_owned
  <1> DEFINE plan == cleanup_plan(net)
  <1>3. topo' = [topo EXCEPT !.pc = "second", !.plan = plan] /\ topo.pc = "idle"
    BY DEF cleanup_owned
  <1>4. plan # Nil /\ plan \in PlanType
    BY <1>2
  <1> HIDE DEF plan
  <1>5. /\ topo' \in ManagerType /\ topo'.pc = "second" /\ topo'.plan = plan /\ topo'.repair = topo.repair
        /\ topo'.active = topo.active /\ topo'.reconciled = topo.reconciled /\ topo'.id = topo.id
    BY <1>1, <1>3, <1>4 DEF ManagerType
  <1>6. net' = net /\ quiet' = TRUE /\ struck' = struck
    BY DEF cleanup_owned
  <1> QED BY <1>1, <1>3, <1>4, <1>5, <1>6, WaitKeeps DEF TopologyInv, RepairInv

\* The second dump: what is to be deleted is there now, and nothing of others is in the way.
LEMMA SecondDumpKeeps ==
    ASSUME TopologyInv, SecondDump
    PROVE  TopologyInv'
  <1>1. net \in NetworkType /\ topo \in ManagerType /\ quiet \in BOOLEAN /\ struck = {} /\ PairKnown(net)
    BY DEF TopologyInv, TopologyTypes, SeenInv, PairInv
  <1>2. net' = net /\ quiet' = quiet /\ struck' = struck
    BY DEF SecondDump
  <1>3. CASE cleanup_plan(net) = topo.plan
    <2> DEFINE q == Deletions(topo.plan)
    <2>1. cleanup_plan(net) # Nil
      BY <1>3 DEF SecondDump, TopologyInv, RepairInv
    <2>2. /\ q \in Seq(Cleaning) /\ Paired(q) /\ (q # <<>> => Head(q)[1] # "filter")
          /\ Covered(net, q) /\ FiltersCovered(net, q) /\ NoForeign(net)
          /\ \A id : <<"pair", id>> \in Requests(q) => Ours(net, id)
      BY <1>1, <1>3, <2>1, PlanDeletes
    <2>3. topo' = [topo EXCEPT !.pc = "clean", !.todo = q]
      BY <1>3 DEF SecondDump
    <2> HIDE DEF q
    <2>4. Cleaning \subseteq Cleaning \cup Creating
      OBVIOUS
    <2>5. q \in Seq(Cleaning \cup Creating)
      BY <2>2, <2>4, Widened
    <2>6. /\ topo' \in ManagerType /\ topo'.pc = "clean" /\ topo'.todo = q /\ topo'.repair = topo.repair
          /\ topo'.active = topo.active /\ topo'.reconciled = topo.reconciled /\ topo'.id = topo.id
      BY <1>1, <2>3, <2>5 DEF ManagerType
    <2>7. TopologyTypes'
      BY <1>1, <1>2, <2>6 DEF TopologyTypes
    <2>8. RepairInv'
      BY <1>2, <2>6 DEF TopologyInv, RepairInv, NoOwn
    <2>9. CleanInv'
      BY <1>1, <1>2, <2>2, <2>6 DEF CleanInv, Covered, FiltersCovered, NoForeign
    <2>10. CreateInv'
      BY <2>6 DEF CreateInv
    <2>11. SeenInv'
      <3>1. AllSeen(net, touched)'
        BY <1>2, <2>2 DEF AllSeen, NoForeign
      <3> QED BY <1>1, <1>2, <2>2, <2>6, <3>1 DEF SeenInv
    <2>12. PairInv'
      <3>1. Todo' = Requests(q)
        BY <2>6 DEF Todo, Requests
      <3> QED BY <1>2, <2>2, <2>6, <3>1 DEF TopologyInv, PairInv, PairKnown, Ours
    <2> QED BY <2>7, <2>8, <2>9, <2>10, <2>11, <2>12 DEF TopologyInv
  <1>4. CASE cleanup_plan(net) # topo.plan
    <2>1. Returns
      BY <1>4 DEF SecondDump
    <2> QED BY <1>1, <1>2, <2>1, ReturnKeeps
  <1> QED BY <1>3, <1>4

\* A dump or a deletion fails.
LEMMA CleanFailsKeeps ==
    ASSUME TopologyInv, CleanFails
    PROVE  TopologyInv'
  <1>1. Returns /\ net' = net /\ quiet' = quiet /\ struck' = struck
    BY DEF CleanFails
  <1> QED BY <1>1, ReturnKeeps DEF TopologyInv, TopologyTypes, SeenInv

\* detach_identity: a slot is emptied only when its second dump shows our filter.
LEMMA DetachKeeps ==
    ASSUME TopologyInv, detach_identity
    PROVE  TopologyInv'
  <1> DEFINE q == topo.todo
             h == Head(q)
             t == Tail(q)
             s == h[2]
  <1>1. net \in NetworkType /\ topo \in ManagerType /\ quiet \in BOOLEAN /\ struck = {}
    BY DEF TopologyInv, TopologyTypes, SeenInv
  <1>2. /\ topo.pc = "clean" /\ q # <<>> /\ h[1] = "check" /\ q \in Seq(Cleaning) /\ Paired(q)
        /\ FiltersCovered(net, q) /\ (quiet => Covered(net, q) /\ NoForeign(net))
    BY DEF TopologyInv, CleanInv, detach_identity
  <1>3. /\ h \in Cleaning /\ t \in Seq(Cleaning) /\ Requests(q) = {h} \cup Requests(t)
        /\ Paired(t) /\ t # <<>> /\ Head(t) = <<"filter", s>>
    BY <1>2, NextRequest, PairedNext
  <1>4. net' = net /\ quiet' = quiet /\ struck' = struck
    BY DEF detach_identity
  <1>5. s \in Slot /\ net.filter[s] \in {"none", "own", "odd", "other"}
    BY <1>1, <1>2, <1>3 DEF Cleaning, NetworkType
  <1>6. ASSUME NEW v \in Seq(Cleaning), NEW look \in {"none", "own", "odd", "other", Nil},
               topo' = [topo EXCEPT !.look = look, !.todo = v], Paired(v),
               FiltersCovered(net, v), quiet => Covered(net, v),
               Requests(v) \subseteq Requests(q),
               touched \ {<<"filter", s>>} \subseteq touched',
               v # <<>> /\ Head(v)[1] = "filter" => Head(v)[2] = s /\ net.filter[s] = "own"
        PROVE  TopologyInv'
    <2>1. Cleaning \subseteq Cleaning \cup Creating
      OBVIOUS
    <2>2. v \in Seq(Cleaning \cup Creating)
      BY <2>1, Widened
    <2>3. /\ topo' \in ManagerType /\ topo'.pc = "clean" /\ topo'.todo = v /\ topo'.repair = topo.repair
          /\ topo'.active = topo.active /\ topo'.reconciled = topo.reconciled /\ topo'.id = topo.id
      BY <1>1, <1>2, <1>6, <2>2 DEF ManagerType
    <2>4. TopologyTypes'
      BY <1>1, <1>4, <2>3 DEF TopologyTypes
    <2>5. RepairInv'
      BY <1>2, <1>4, <2>3 DEF TopologyInv, RepairInv, NoOwn
    <2>6. CleanInv'
      BY <1>2, <1>4, <1>6, <2>3 DEF CleanInv, Covered, FiltersCovered, NoForeign
    <2>7. CreateInv'
      BY <2>3 DEF CreateInv
    <2>8. SeenInv'
      <3>1. AllSeen(net, touched)
        BY <1>2 DEF TopologyInv, SeenInv
      <3>2. \A f \in Fam : /\ <<"rule", f>> \in touched => <<"rule", f>> \in touched'
                           /\ <<"route", f>> \in touched => <<"route", f>> \in touched'
        BY <1>6
      <3>3. AllSeen(net, touched)'
        BY <1>4, <3>1, <3>2 DEF AllSeen
      <3>4. v # <<>> /\ Head(v)[1] = "filter" => SlotSeen(net', Head(v)[2], touched')
        BY <1>4, <1>6 DEF SlotSeen
      <3> QED BY <1>1, <1>4, <2>3, <3>3, <3>4 DEF SeenInv
    <2>9. PairInv'
      <3>1. Todo' = Requests(v) /\ Todo = Requests(q)
        BY <2>3 DEF Todo, Requests
      <3>2. \A id \in Nat : <<"pair", id>> \in Requests(q) => Ours(net, id)
        BY <1>2, <3>1 DEF TopologyInv, PairInv
      <3>3. \A id \in Nat : <<"pair", id>> \in Todo' => Ours(net, id)
        BY <1>6, <3>1, <3>2
      <3>4. PairKnown(net) /\ Ours(net, topo.id)
        BY DEF TopologyInv, PairInv
      <3> HIDE DEF q, h, t, s
      <3> QED BY <1>4, <2>3, <3>3, <3>4 DEF PairInv
    <2> QED BY <2>4, <2>5, <2>6, <2>7, <2>8, <2>9 DEF TopologyInv
  <1>7. CASE topo.look = Nil
    <2>1. topo' = [topo EXCEPT !.look = net.filter[s]] /\ touched' = touched
      BY <1>7 DEF detach_identity
    <2>2. topo' = [topo EXCEPT !.look = net.filter[s], !.todo = q]
      BY <1>1, <2>1 DEF ManagerType
    <2> HIDE DEF q, h, t, s
    <2>3. Head(q)[1] # "filter"
      BY <1>2 DEF h
    <2> QED BY <1>2, <1>5, <1>6, <2>1, <2>2, <2>3
  <1>8. CASE topo.look # Nil /\ SecondLook(s) # topo.look
    <2>1. Returns
      BY <1>8 DEF detach_identity
    <2> QED BY <1>1, <1>4, <2>1, ReturnKeeps
  <1>9. CASE topo.look # Nil /\ SecondLook(s) = topo.look /\ expected_stale_filter(SecondLook(s))
    <2>1. topo' = [topo EXCEPT !.look = Nil, !.todo = t] /\ touched' = touched \ {<<"filter", s>>}
      BY <1>9 DEF detach_identity
    <2>2. net.filter[s] = "own"
      BY <1>9 DEF SecondLook, expected_stale_filter
    <2>3. Head(t)[2] = s
      BY <1>3
    <2>4. h[1] # "pair" /\ h[1] # "rule" /\ h[1] # "route" /\ h[1] # "filter"
      BY <1>2
    <2> HIDE DEF q, h, t, s
    <2>5. FiltersCovered(net, t) /\ (quiet => Covered(net, t))
      BY <1>2, <1>3, <2>4 DEF FiltersCovered, Covered
    <2> QED BY <1>3, <1>6, <2>1, <2>2, <2>3, <2>5
  <1>10. CASE topo.look # Nil /\ SecondLook(s) = topo.look /\ ~expected_stale_filter(SecondLook(s))
    <2> DEFINE u == Tail(t)
    <2>1. topo' = [topo EXCEPT !.look = Nil, !.todo = u] /\ touched' = touched \ {<<"filter", s>>}
      BY <1>10 DEF detach_identity
    <2>2. u \in Seq(Cleaning) /\ Paired(u) /\ (u # <<>> => Head(u)[1] # "filter")
      <3>1. Head(t)[1] # "check"
        BY <1>3
      <3> HIDE DEF t
      <3>2. Paired(u) /\ (Head(t)[1] # "check" /\ u # <<>> => Head(u)[1] # "filter")
        BY <1>3, PairedNext
      <3>3. u \in Seq(Cleaning)
        BY <1>3, NextRequest
      <3> QED BY <3>1, <3>2, <3>3
    <2>3. Requests(t) = {<<"filter", s>>} \cup Requests(u)
      BY <1>3, NextRequest
    <2>4. net.filter[s] # "own"
      BY <1>10 DEF SecondLook, expected_stale_filter
    <2>5. h[1] # "pair" /\ h[1] # "rule" /\ h[1] # "route" /\ h[1] # "filter"
      BY <1>2
    <2> HIDE DEF q, h, t, s, u
    <2>6. FiltersCovered(net, u)
      BY <1>2, <1>3, <2>3, <2>4, <2>5 DEF FiltersCovered
    <2>7. quiet => Covered(net, u)
      BY <1>2, <1>3, <2>3, <2>5 DEF Covered
    <2> QED BY <1>3, <1>6, <2>1, <2>2, <2>3, <2>6, <2>7
  <1> QED BY <1>7, <1>8, <1>9, <1>10

\* One deletion: what it does not reach is still planned, and nothing of others is lost that
\* was seen.
LEMMA CleanStepKeeps ==
    ASSUME TopologyInv, CleanStep
    PROVE  TopologyInv'
  <1> DEFINE q == topo.todo
             h == Head(q)
             t == Tail(q)
  <1>1. /\ net \in NetworkType /\ topo \in ManagerType /\ quiet \in BOOLEAN /\ struck = {}
        /\ PairKnown(net) /\ Ours(net, topo.id)
    BY DEF TopologyInv, TopologyTypes, SeenInv, PairInv
  <1>2. /\ topo.pc = "clean" /\ q # <<>> /\ q \in Seq(Cleaning) /\ Paired(q) /\ FiltersCovered(net, q)
        /\ quiet => Covered(net, q) /\ NoForeign(net)
        /\ h[1] # "check" /\ AllSeen(net, touched) /\ (h[1] = "filter" => SlotSeen(net, h[2], touched))
    BY DEF TopologyInv, CleanInv, SeenInv, CleanStep
  <1>3. /\ h \in Cleaning /\ t \in Seq(Cleaning) /\ Requests(q) = {h} \cup Requests(t)
        /\ Paired(t) /\ (t # <<>> => Head(t)[1] # "filter")
    BY <1>2, NextRequest, PairedNext
  <1>4. quiet' = quiet /\ touched' = touched /\ Deletes(h) /\ topo' = [topo EXCEPT !.todo = t]
    BY DEF CleanStep
  <1>5. \A id \in Nat : <<"pair", id>> \in Requests(q) => Ours(net, id)
    BY <1>2 DEF TopologyInv, PairInv, Todo
  <1>6. h[1] = "pair" => Ours(net, h[2])
    <2> SUFFICES ASSUME h[1] = "pair"
                 PROVE  Ours(net, h[2])
      OBVIOUS
    <2>1. h[2] \in Nat /\ h = <<"pair", h[2]>>
      BY <1>3 DEF Cleaning
    <2> QED BY <1>3, <1>5, <2>1
  <1>7. /\ struck' = {} /\ net' \in NetworkType
        /\ \A f \in Fam : /\ "foreign" \in net'.rule[f] => "foreign" \in net.rule[f]
                          /\ "foreign" \in net'.route[f] => "foreign" \in net.route[f]
        /\ \A s \in Slot : net'.filter[s] = net.filter[s] \/ (h = <<"filter", s>> /\ net'.filter[s] = "none")
        /\ net'.ids = net.ids /\ (net'.pair = Nil \/ net'.pair = net.pair)
        /\ NoForeign(net) \/ h[1] \notin {"rule", "route"} => net' = Deleted(net, h)
    BY <1>1, <1>2, <1>3, <1>4, <1>6, DeletesOurs
  <1>8. Covered(net, q) => Covered(Deleted(net, h), t)
    BY <1>1, <1>2, StillCovered
  <1> HIDE DEF q, h, t
  <1>9. FiltersCovered(net', t)
    <2> SUFFICES ASSUME NEW s \in Slot, net'.filter[s] = "own"
                 PROVE  <<"filter", s>> \in Requests(t)
      BY DEF FiltersCovered
    <2>1. net.filter[s] = "own" /\ h # <<"filter", s>>
      <3>1. CASE h = <<"filter", s>>
        <4>1. h[1] = "filter" /\ h[2] = s
          BY <3>1
        <4>2. net' = [net EXCEPT !.filter[s] = "none"]
          BY <1>7, <4>1 DEF Deleted
        <4>3. net'.filter[s] = "none"
          BY <1>1, <4>2 DEF NetworkType
        <4> QED BY <4>3
      <3>2. CASE h # <<"filter", s>>
        BY <1>7, <3>2
      <3> QED BY <3>1, <3>2
    <2> QED BY <1>2, <1>3, <2>1 DEF FiltersCovered
  <1>10. quiet => Covered(net', t) /\ NoForeign(net')
    <2>1. NoForeign(net) => NoForeign(net')
      BY <1>7 DEF NoForeign
    <2> QED BY <1>2, <1>7, <1>8, <2>1
  <1>11. Cleaning \subseteq Cleaning \cup Creating
    OBVIOUS
  <1>12. t \in Seq(Cleaning \cup Creating)
    BY <1>3, <1>11, Widened
  <1>13. /\ topo' \in ManagerType /\ topo'.pc = "clean" /\ topo'.todo = t /\ topo'.repair = topo.repair
         /\ topo'.active = topo.active /\ topo'.reconciled = topo.reconciled /\ topo'.id = topo.id
    BY <1>1, <1>2, <1>4, <1>12 DEF ManagerType
  <1>14. TopologyTypes'
    BY <1>1, <1>4, <1>7, <1>13 DEF TopologyTypes
  <1>15. RepairInv'
    <2>1. NoOwn(net) => NoOwn(net')
      BY <1>7 DEF NoOwn
    <2> QED BY <1>2, <1>13, <2>1 DEF TopologyInv, RepairInv, NoOwn
  <1>16. CleanInv'
    BY <1>3, <1>4, <1>9, <1>10, <1>13 DEF CleanInv, Covered, FiltersCovered, NoForeign
  <1>17. CreateInv'
    BY <1>13 DEF CreateInv
  <1>18. SeenInv'
    <2>1. AllSeen(net, touched)'
      BY <1>2, <1>4, <1>7 DEF AllSeen
    <2> QED BY <1>3, <1>7, <1>13, <2>1 DEF SeenInv
  <1>19. PairInv'
    <2>1. Todo' = Requests(t)
      BY <1>13 DEF Todo, Requests
    <2>2. ASSUME NEW id \in Nat, Ours(net, id)
          PROVE  Ours(net', id)
      BY <1>7, <2>2 DEF Ours
    <2>3. PairKnown(net')
      BY <1>1, <1>7 DEF PairKnown
    <2>4. topo.id \in Nat
      BY <1>1 DEF ManagerType
    <2>5. \A id \in Nat : <<"pair", id>> \in Todo' => Ours(net', id)
      BY <1>3, <1>5, <2>1, <2>2
    <2>6. Ours(net', topo'.id)
      BY <1>1, <1>13, <2>2, <2>4
    <2> QED BY <2>3, <2>5, <2>6 DEF PairInv
  <1> QED BY <1>14, <1>15, <1>16, <1>17, <1>18, <1>19 DEF TopologyInv

\* The end of a cleanup; a repair goes on with the creation.
LEMMA CleanedKeeps ==
    ASSUME TopologyInv, Cleaned
    PROVE  TopologyInv'
  <1> DEFINE pc == IF topo.repair THEN "before" ELSE "idle"
  <1>1. net \in NetworkType /\ topo \in ManagerType /\ quiet \in BOOLEAN /\ struck = {}
    BY DEF TopologyInv, TopologyTypes, SeenInv
  <1>2. topo.pc = "clean" /\ topo.todo = <<>> /\ FiltersCovered(net, topo.todo)
    BY DEF TopologyInv, CleanInv, Cleaned
  <1>3. NoOwn(net)
    BY <1>2 DEF FiltersCovered, NoOwn, Requests
  <1>4. net' = net /\ quiet' = quiet /\ struck' = struck
    BY DEF Cleaned
  <1>5. topo' = [topo EXCEPT !.pc = pc, !.plan = Nil, !.repair = FALSE, !.reconciled = TRUE]
    BY DEF Cleaned
  <1>6. pc \in {"before", "idle"} /\ (pc = "before" => topo.repair)
    OBVIOUS
  <1> HIDE DEF pc
  <1>7. /\ topo' \in ManagerType /\ topo'.pc = pc /\ topo'.repair = FALSE
        /\ topo'.reconciled /\ topo'.active = topo.active /\ topo'.id = topo.id
    BY <1>1, <1>5, <1>6 DEF ManagerType
  <1>8. topo.active => ~topo.repair
    BY DEF TopologyInv, RepairInv
  <1> QED BY <1>1, <1>3, <1>4, <1>6, <1>7, <1>8, WaitKeeps

\* ensure_topology: a repair or a creation begins, inactive.
LEMMA EnsureKeeps ==
    ASSUME TopologyInv, ensure_topology
    PROVE  TopologyInv'
  <1>1. net \in NetworkType /\ topo \in ManagerType /\ struck = {}
    BY DEF TopologyInv, TopologyTypes, SeenInv
  <1>2. /\ topo.pc = "idle" /\ topo.reconciled /\ net' = net /\ quiet' = TRUE /\ struck' = struck /\ NoOwn(net)
        /\ ~topo.repair
    BY DEF ensure_topology, TopologyInv, RepairInv
  <1>3. CASE topology_state(net) = "drift"
    <2> DEFINE plan == cleanup_plan(net)
    <2>1. /\ plan # Nil
          /\ topo' = [topo EXCEPT !.active = FALSE, !.pc = "second", !.plan = plan, !.repair = TRUE]
      BY <1>3 DEF ensure_topology
    <2>2. plan \in PlanType
      BY <1>1, <2>1, PlanCovers
    <2> HIDE DEF plan
    <2>3. /\ topo' \in ManagerType /\ topo'.pc = "second" /\ topo'.plan # Nil /\ topo'.active = FALSE
          /\ topo'.id = topo.id
      BY <1>1, <2>1, <2>2 DEF ManagerType
    <2> QED BY <1>1, <1>2, <2>3, WaitKeeps
  <1>4. CASE topology_state(net) # "drift"
    <2>1. topo' = [topo EXCEPT !.active = FALSE, !.pc = "before"]
      BY <1>4 DEF ensure_topology
    <2>2. /\ topo' \in ManagerType /\ topo'.pc = "before" /\ topo'.active = FALSE
          /\ topo'.repair = topo.repair /\ topo'.reconciled = topo.reconciled /\ topo'.id = topo.id
      BY <1>1, <2>1 DEF ManagerType
    <2> QED BY <1>1, <1>2, <2>2, WaitKeeps
  <1> QED BY <1>3, <1>4

\* publish_active, with nothing under way.
LEMMA ActivateKeeps ==
    ASSUME TopologyInv, Activate
    PROVE  TopologyInv'
  <1>1. net \in NetworkType /\ topo \in ManagerType /\ quiet \in BOOLEAN /\ struck = {} /\ topo.pc = "idle" /\ ~topo.repair
    BY DEF TopologyInv, TopologyTypes, SeenInv, RepairInv, Activate
  <1>2. topo' = [topo EXCEPT !.active = TRUE] /\ net' = net /\ quiet' = quiet /\ struck' = struck
    BY DEF Activate
  <1>3. /\ topo' \in ManagerType /\ topo'.pc = "idle" /\ topo'.repair = topo.repair
        /\ topo'.reconciled = topo.reconciled /\ topo'.id = topo.id
    BY <1>1, <1>2 DEF ManagerType
  <1> QED BY <1>1, <1>2, <1>3, WaitKeeps DEF TopologyInv, RepairInv

\* The dump a creation begins with: no rule and no route of others.
LEMMA BeforeKeeps ==
    ASSUME TopologyInv, create_topology
    PROVE  TopologyInv'
  <1>1. net \in NetworkType /\ topo \in ManagerType /\ quiet \in BOOLEAN /\ struck = {}
    BY DEF TopologyInv, TopologyTypes, SeenInv
  <1>2. net' = net /\ quiet' = quiet /\ struck' = struck /\ topo.pc = "before"
    BY DEF create_topology
  <1>3. CASE Returns
    BY <1>1, <1>2, <1>3, ReturnKeeps
  <1>4. CASE /\ ~PolicyConflict(net) /\ topo' = [topo EXCEPT !.pc = "create", !.todo = Creation]
    <2> DEFINE q == Creation
    <2>1. topo' = [topo EXCEPT !.pc = "create", !.todo = q]
      BY <1>4
    <2>2. q \in Seq(Creating) /\ Ordered(q) /\ Needed \subseteq Requests(q)
      BY CreationOrdered
    <2>3. Veth \in Requests(q)
      BY DEF Creation, Requests, Veth
    <2> HIDE DEF q
    <2>4. Creating \subseteq Cleaning \cup Creating
      OBVIOUS
    <2>5. q \in Seq(Cleaning \cup Creating)
      BY <2>2, <2>4, Widened
    <2>6. /\ topo' \in ManagerType /\ topo'.pc = "create" /\ topo'.todo = q /\ topo'.active = topo.active
          /\ topo'.repair = topo.repair /\ topo'.reconciled = topo.reconciled /\ topo'.id = topo.id
      BY <1>1, <2>1, <2>5 DEF ManagerType
    <2>7. TopologyTypes'
      BY <1>1, <1>2, <2>6 DEF TopologyTypes
    <2>8. RepairInv'
      BY <1>2, <2>6 DEF TopologyInv, RepairInv, NoOwn
    <2>9. CleanInv'
      BY <2>6 DEF CleanInv
    <2>10. NoForeign(net)
      BY <1>4 DEF PolicyConflict, NoForeign
    <2>11. CreateInv'
      <3>1. Todo' = Requests(q) /\ NoForeign(net)'
        BY <1>2, <2>6, <2>10 DEF Todo, Requests, NoForeign
      <3> QED BY <2>2, <2>3, <2>6, <3>1 DEF CreateInv
    <2>12. SeenInv'
      <3>1. AllSeen(net, touched)'
        BY <1>2, <2>10 DEF AllSeen, NoForeign
      <3> QED BY <1>1, <1>2, <2>6, <3>1 DEF SeenInv
    <2>13. PairInv'
      BY <1>2, <2>6 DEF TopologyInv, PairInv, PairKnown, Ours
    <2> QED BY <2>7, <2>8, <2>9, <2>11, <2>12, <2>13 DEF TopologyInv
  <1> QED BY <1>3, <1>4 DEF create_topology

\* One request of a creation is accepted.
LEMMA CreateStepKeeps ==
    ASSUME TopologyInv, CreateStep
    PROVE  TopologyInv'
  <1> DEFINE q == topo.todo
             h == Head(q)
             t == Tail(q)
             pc == IF h[1] = "veth" THEN "links" ELSE IF t = <<>> THEN "idle" ELSE "create"
  <1>1. /\ net \in NetworkType /\ topo \in ManagerType /\ quiet \in BOOLEAN /\ struck = {}
        /\ PairKnown(net) /\ Ours(net, topo.id)
    BY DEF TopologyInv, TopologyTypes, SeenInv, PairInv
  <1>2. /\ topo.pc = "create" /\ q # <<>> /\ q \in Seq(Creating) /\ Ordered(q)
        /\ Veth \in Requests(q) => Needed \subseteq Requests(q)
        /\ quiet => NoForeign(net)
        /\ quiet /\ Veth \notin Requests(q) =>
              /\ net.pair # Nil /\ net.pair.id = topo.id /\ ~net.pair.addr
              /\ \A request \in Needed : request \in Requests(q) \/ Done(net, request)
    BY DEF TopologyInv, CreateInv, CreateStep, Todo
  <1>3. h \in Creating /\ t \in Seq(Creating) /\ Requests(q) = {h} \cup Requests(t)
    BY <1>2, NextRequest
  <1>4. /\ t # <<>> => Ordered(t)
        /\ Veth \notin Requests(t)
        /\ h[1] = "up" => Sysctl \notin Requests(q)
        /\ h[1] # "veth" => Veth \notin Requests(q)
    BY <1>2, OrderedNext
  <1>5. /\ Accepted_request(net, h) /\ net' = Created(net, h)
        /\ topo' = [topo EXCEPT !.todo = t, !.pc = pc]
        /\ quiet' = quiet /\ struck' = struck /\ touched' = touched
    BY <1>2 DEF CreateStep
  <1>6. h[1] = "veth" <=> h = Veth
    BY <1>3 DEF Creating, Needed, Veth, Verify, Sysctl, Clsact
  <1>7. /\ net' \in NetworkType /\ net'.filter = net.filter
        /\ NoForeign(net) => NoForeign(net')
        /\ h = Veth => net'.pair = NewPair(net.ids) /\ net'.pair # Nil
        /\ h # Veth /\ net.pair # Nil => net'.pair # Nil /\ net'.pair.id = net.pair.id
        /\ h # Veth /\ net.pair # Nil /\ ~net.pair.addr /\ (h[1] = "up" => net.pair.gen) => ~net'.pair.addr
        /\ h # Veth /\ net.pair # Nil => \A r \in Needed : r = h \/ Done(net, r) => Done(net', r)
    BY <1>1, <1>3, <1>5, CreatedNet
  <1>8. /\ \A f \in Fam : /\ "foreign" \in net'.rule[f] => "foreign" \in net.rule[f]
                          /\ "foreign" \in net'.route[f] => "foreign" \in net.route[f]
        /\ h = Veth => net'.ids = net.ids + 1 /\ net'.pair.id = net.ids /\ ~net'.pair.theirs
        /\ h # Veth => net'.ids = net.ids
        /\ h # Veth => (net'.pair = Nil <=> net.pair = Nil)
        /\ h # Veth /\ net.pair # Nil =>
              /\ net'.pair.id = net.pair.id /\ net'.pair.theirs = net.pair.theirs
              /\ net'.pair.alias = net.pair.alias \/ (h[1] = "alias" /\ net.pair.id = topo.id)
    BY <1>1, <1>3, <1>5, CreatedOurs
  <1>9. Creating \subseteq Cleaning \cup Creating
    OBVIOUS
  <1>10. t \in Seq(Cleaning \cup Creating)
    BY <1>3, <1>9, Widened
  <1>11. pc \in {"idle", "create", "links"} /\ (pc = "links" <=> h = Veth) /\ (pc = "create" => t # <<>>)
    BY <1>6
  <1> HIDE DEF q, h, t, pc
  <1>12. /\ topo' \in ManagerType /\ topo'.todo = t /\ topo'.repair = topo.repair /\ topo'.pc = pc
         /\ topo'.active = topo.active /\ topo'.reconciled = topo.reconciled /\ topo'.id = topo.id
    BY <1>1, <1>5, <1>10, <1>11 DEF ManagerType
  <1>13. TopologyTypes'
    BY <1>1, <1>5, <1>7, <1>12 DEF TopologyTypes
  <1>14. RepairInv'
    <2>1. topo.reconciled => NoOwn(net')
      BY <1>7 DEF TopologyInv, RepairInv, NoOwn
    <2>2. ~topo.active /\ ~topo.repair /\ topo.reconciled
      BY <1>2 DEF TopologyInv, RepairInv
    <2> QED BY <1>11, <1>12, <2>1, <2>2 DEF RepairInv, NoOwn
  <1>15. CleanInv'
    BY <1>11, <1>12 DEF CleanInv
  <1>16. CreateInv'
    <2>0. Todo' = Requests(t) /\ quiet' = quiet
      BY <1>5, <1>12 DEF Todo, Requests
    <2>1. CASE h = Veth
      <3>1. Needed \subseteq Requests(q)
        BY <1>2, <1>3, <2>1
      <3>2. Veth \notin Needed /\ Sysctl \in Needed
        BY DEF Needed, Veth, Sysctl, Clsact
      <3>3. \A request \in Needed : request \in Requests(t)
        BY <1>3, <2>1, <3>1, <3>2
      <3>4. t # <<>>
        <4>1. Requests(t) # {}
          BY <3>2, <3>3
        <4> QED BY <4>1 DEF Requests
      <3>5. quiet => NoForeign(net')
        BY <1>2, <1>7
      <3>6. net'.pair # Nil /\ ~net'.pair.addr /\ ~net'.pair.theirs
        BY <1>7, <1>8, <2>1 DEF NewPair
      <3>7. t \in Seq(Creating) /\ Ordered(t) /\ Veth \notin Requests(t) /\ topo'.pc = "links"
        BY <1>3, <1>4, <1>11, <1>12, <2>1, <3>4
      <3>8. quiet' => NoForeign(net)'
        BY <2>0, <3>5 DEF NoForeign
      <3> QED BY <1>12, <2>0, <3>3, <3>6, <3>7, <3>8 DEF CreateInv
    <2>2. CASE h # Veth
      <3> SUFFICES ASSUME pc = "create"
                   PROVE  CreateInv'
        BY <1>11, <1>12, <2>2 DEF CreateInv
      <3>1. t \in Seq(Creating) /\ Ordered(t) /\ Veth \notin Requests(t) /\ topo'.pc = "create"
        BY <1>3, <1>4, <1>11, <1>12
      <3>2. Veth \notin Requests(q)
        BY <1>4, <1>6, <2>2
      <3>3. h[1] = "up" /\ quiet => net.pair.gen
        <4>1. Sysctl \in Needed /\ (Done(net, Sysctl) => net.pair.gen)
          BY DEF Needed, Sysctl, Done
        <4> QED BY <1>2, <1>4, <3>2, <4>1
      <3>4. quiet => \A request \in Needed : request \in Requests(t) \/ Done(net', request)
        BY <1>2, <1>3, <1>7, <2>2, <3>2
      <3>5. quiet => net'.pair # Nil /\ net'.pair.id = topo'.id /\ ~net'.pair.addr
        BY <1>2, <1>7, <1>12, <2>2, <3>2, <3>3
      <3>6. quiet' => NoForeign(net)'
        BY <1>2, <1>7, <2>0 DEF NoForeign
      <3>7. quiet' /\ Veth \notin Todo' => \A request \in Needed : request \in Todo' \/ Done(net, request)'
        BY <2>0, <3>4 DEF Done
      <3> QED BY <1>12, <2>0, <3>1, <3>5, <3>6, <3>7 DEF CreateInv
    <2> QED BY <2>1, <2>2
  <1>17. SeenInv'
    <2>1. AllSeen(net, touched)
      BY <1>2 DEF TopologyInv, SeenInv
    <2>2. AllSeen(net, touched)'
      BY <1>5, <1>8, <2>1 DEF AllSeen
    <2>3. pc = "links" => ~net'.pair.theirs
      BY <1>8, <1>11
    <2> QED BY <1>1, <1>5, <1>11, <1>12, <2>2, <2>3 DEF SeenInv
  <1>18. PairInv'
    <2>0. net.ids \in Nat /\ topo.id \in Nat
      BY <1>1 DEF NetworkType, ManagerType
    <2>1. PairKnown(net')
      <3>1. CASE h = Veth
        BY <1>8, <2>0, <3>1 DEF PairKnown
      <3>2. CASE h # Veth
        BY <1>1, <1>8, <3>2 DEF PairKnown, Ours
      <3> QED BY <3>1, <3>2
    <2>2. Ours(net', topo.id)
      <3>1. CASE h = Veth
        BY <1>1, <1>8, <2>0, <3>1 DEF Ours
      <3>2. CASE h # Veth
        BY <1>1, <1>8, <3>2 DEF Ours
      <3> QED BY <3>1, <3>2
    <2> QED BY <1>11, <1>12, <2>1, <2>2 DEF PairInv
  <1> QED BY <1>13, <1>14, <1>15, <1>16, <1>17, <1>18 DEF TopologyInv

\* create_topology finds the pair it made, or one that took its name meanwhile.
LEMMA FindPairKeeps ==
    ASSUME TopologyInv, FindPair
    PROVE  TopologyInv'
  <1>1. /\ net \in NetworkType /\ topo \in ManagerType /\ quiet \in BOOLEAN /\ struck = {}
        /\ PairKnown(net) /\ Ours(net, topo.id)
    BY DEF TopologyInv, TopologyTypes, SeenInv, PairInv
  <1>2. quiet' = quiet /\ touched' = touched /\ topo.pc = "links"
    BY DEF FindPair
  <1>3. CASE Returns /\ net' = net /\ struck' = struck
    BY <1>1, <1>2, <1>3, ReturnKeeps
  <1>4. CASE /\ net.pair # Nil /\ net.pair.theirs /\ Returns /\ net' = Deleted(net, <<"pair", net.pair.id>>)
             /\ struck' = struck \cup ({<<"pair", net.pair.id>>} \ touched)
    <2>1. <<"pair", net.pair.id>> \in touched
      BY <1>2, <1>4 DEF TopologyInv, SeenInv
    <2>2. struck' = {}
      BY <1>1, <1>4, <2>1
    <2>3. net' = [net EXCEPT !.pair = Nil]
      BY <1>4 DEF Deleted
    <2>4. net' \in NetworkType /\ net'.filter = net.filter /\ net'.ids = net.ids /\ net'.pair = Nil
      BY <1>1, <2>3 DEF NetworkType
    <2> QED BY <1>1, <1>2, <1>4, <2>2, <2>4, ReturnKeeps
  <1>5. CASE /\ net.pair # Nil /\ ~net.pair.theirs /\ net' = net /\ struck' = struck
             /\ topo' = [topo EXCEPT !.pc = "create", !.id = net.pair.id]
    <2>1. net.pair.id \in Nat
      BY <1>1, <1>5 DEF NetworkType, PairType
    <2>2. /\ topo' \in ManagerType /\ topo'.pc = "create" /\ topo'.todo = topo.todo /\ topo'.active = topo.active
          /\ topo'.repair = topo.repair /\ topo'.reconciled = topo.reconciled /\ topo'.id = net.pair.id
      BY <1>1, <1>5, <2>1 DEF ManagerType
    <2>3. TopologyTypes'
      BY <1>1, <1>2, <1>5, <2>2 DEF TopologyTypes
    <2>4. RepairInv'
      BY <1>2, <1>5, <2>2 DEF TopologyInv, RepairInv, NoOwn
    <2>5. CleanInv'
      BY <2>2 DEF CleanInv
    <2>6. CreateInv'
      <3>1. /\ topo.todo \in Seq(Creating) /\ Ordered(topo.todo) /\ Needed \subseteq Todo /\ Veth \notin Todo
            /\ quiet => NoForeign(net) /\ ~net.pair.addr
        BY <1>2 DEF TopologyInv, CreateInv
      <3>2. Todo' = Todo /\ (quiet' => NoForeign(net)')
        BY <1>2, <1>5, <2>2, <3>1 DEF Todo, Requests, NoForeign
      <3> QED BY <1>2, <1>5, <2>2, <3>1, <3>2 DEF CreateInv
    <2>7. SeenInv'
      <3>1. AllSeen(net, touched)'
        BY <1>2, <1>5 DEF TopologyInv, SeenInv, AllSeen
      <3> QED BY <1>1, <1>5, <2>2, <3>1 DEF SeenInv
    <2>8. PairInv'
      BY <1>1, <1>5, <2>2 DEF PairInv, PairKnown, Ours
    <2> QED BY <2>3, <2>4, <2>5, <2>6, <2>7, <2>8 DEF TopologyInv
  <1> QED BY <1>3, <1>4, <1>5 DEF FindPair

\* A request of a creation fails: what was created is rolled back, or left.
LEMMA CreateFailsKeeps ==
    ASSUME TopologyInv, CreateFails
    PROVE  TopologyInv'
  <1>1. net \in NetworkType /\ topo \in ManagerType /\ quiet \in BOOLEAN /\ struck = {}
    BY DEF TopologyInv, TopologyTypes, SeenInv
  <1>2. net' = net /\ quiet' = quiet /\ struck' = struck /\ touched' = touched /\ topo.pc = "create"
    BY DEF CreateFails
  <1>3. CASE Returns
    BY <1>1, <1>2, <1>3, ReturnKeeps
  <1>4. CASE Head(topo.todo)[1] # "veth" /\ topo' = [topo EXCEPT !.pc = "rollback", !.todo = rollback_created]
    <2> DEFINE q == rollback_created
    <2>1. topo.id \in Nat
      BY <1>1 DEF ManagerType
    <2>2. /\ q \in Seq(Undoing) /\ <<"pair", topo.id>> \in Requests(q)
          /\ \A id : <<"pair", id>> \in Requests(q) => id = topo.id
          /\ \A f \in Fam : <<"rule", f>> \in Requests(q) /\ <<"route", f>> \in Requests(q)
      BY <2>1, RollbackCovers
    <2>3. topo' = [topo EXCEPT !.pc = "rollback", !.todo = q]
      BY <1>4
    <2> HIDE DEF q
    <2>4. topo.todo \in Seq(Creating) /\ Ordered(topo.todo) /\ (quiet => NoForeign(net))
      BY <1>2 DEF TopologyInv, CreateInv
    <2>5. Veth \notin Todo
      BY <1>4, <2>4, OrderedNext DEF Todo
    <2>6. quiet => net.pair # Nil /\ net.pair.id = topo.id
      BY <1>2, <2>5 DEF TopologyInv, CreateInv
    <2>7. quiet => Covered(net, q)
      BY <2>2, <2>6 DEF Covered
    <2>8. Undoing \subseteq Cleaning \cup Creating
      BY DEF Undoing, Cleaning
    <2>9. q \in Seq(Cleaning \cup Creating)
      BY <2>2, <2>8, Widened
    <2>10. /\ topo' \in ManagerType /\ topo'.pc = "rollback" /\ topo'.todo = q /\ topo'.active = topo.active
           /\ topo'.repair = topo.repair /\ topo'.reconciled = topo.reconciled /\ topo'.id = topo.id
      BY <1>1, <2>3, <2>9 DEF ManagerType
    <2>11. TopologyTypes'
      BY <1>1, <1>2, <2>10 DEF TopologyTypes
    <2>12. RepairInv'
      BY <1>2, <2>10 DEF TopologyInv, RepairInv, NoOwn
    <2>13. CleanInv'
      <3>1. quiet' => Covered(net, topo.todo)' /\ NoForeign(net)'
        BY <1>2, <2>4, <2>7, <2>10 DEF Covered, NoForeign
      <3> QED BY <2>2, <2>10, <3>1 DEF CleanInv
    <2>14. CreateInv'
      BY <2>10 DEF CreateInv
    <2>15. SeenInv'
      <3>1. AllSeen(net, touched)'
        BY <1>2 DEF TopologyInv, SeenInv, AllSeen
      <3> QED BY <1>1, <1>2, <2>10, <3>1 DEF SeenInv
    <2>16. PairInv'
      <3>1. Todo' = Requests(q)
        BY <2>10 DEF Todo, Requests
      <3>2. PairKnown(net) /\ Ours(net, topo.id)
        BY DEF TopologyInv, PairInv
      <3> QED BY <1>2, <2>2, <2>10, <3>1, <3>2 DEF PairInv
    <2> QED BY <2>11, <2>12, <2>13, <2>14, <2>15, <2>16 DEF TopologyInv
  <1>5. Returns \/ (Head(topo.todo)[1] # "veth" /\ topo' = [topo EXCEPT !.pc = "rollback", !.todo = rollback_created])
    BY DEF CreateFails, Unrolled
  <1> QED BY <1>3, <1>4, <1>5

\* One deletion of a rollback, which may fail.
LEMMA RollbackKeeps ==
    ASSUME TopologyInv, RollbackStep
    PROVE  TopologyInv'
  <1>1. /\ net \in NetworkType /\ topo \in ManagerType /\ quiet \in BOOLEAN /\ struck = {}
        /\ PairKnown(net) /\ Ours(net, topo.id)
    BY DEF TopologyInv, TopologyTypes, SeenInv, PairInv
  <1>2. touched' = touched /\ topo.pc = "rollback"
    BY DEF RollbackStep
  <1>3. CASE topo.todo = <<>>
    <2>1. Returns /\ net' = net /\ quiet' = quiet /\ struck' = struck
      BY <1>3 DEF RollbackStep
    <2> QED BY <1>1, <1>2, <2>1, ReturnKeeps
  <1>4. CASE topo.todo # <<>>
    <2> DEFINE q == topo.todo
               h == Head(q)
               t == Tail(q)
    <2>1. /\ topo' = [topo EXCEPT !.todo = t]
          /\ \/ Deletes(h) /\ quiet' = quiet
             \/ net' = net /\ struck' = struck /\ quiet' = FALSE
      BY <1>4 DEF RollbackStep
    <2>2. q \in Seq(Undoing) /\ (quiet => Covered(net, q) /\ NoForeign(net)) /\ AllSeen(net, touched)
      BY <1>2 DEF TopologyInv, CleanInv, SeenInv
    <2>3. Undoing \subseteq Cleaning /\ Undoing \subseteq Cleaning \cup Creating
      BY DEF Undoing, Cleaning
    <2>4. q \in Seq(Cleaning)
      BY <2>2, <2>3, Widened
    <2>5. h \in Undoing /\ t \in Seq(Undoing) /\ Requests(q) = {h} \cup Requests(t)
      BY <1>4, <2>2, NextRequest
    <2>6. Covered(net, q) => Covered(Deleted(net, h), t)
      BY <1>1, <1>4, <2>4, StillCovered
    <2>7. \A id \in Nat : <<"pair", id>> \in Requests(q) => Ours(net, id)
      BY <1>2 DEF TopologyInv, PairInv, Todo
    <2>8. h[1] = "pair" => Ours(net, h[2])
      <3> SUFFICES ASSUME h[1] = "pair"
                   PROVE  Ours(net, h[2])
        OBVIOUS
      <3>1. h[2] \in Nat /\ h = <<"pair", h[2]>>
        BY <2>5 DEF Undoing
      <3> QED BY <2>5, <2>7, <3>1
    <2>9. h \in Cleaning /\ h[1] # "filter"
      BY <2>3, <2>5 DEF Undoing
    <2>10. /\ struck' = {} /\ net' \in NetworkType
           /\ \A f \in Fam : /\ "foreign" \in net'.rule[f] => "foreign" \in net.rule[f]
                             /\ "foreign" \in net'.route[f] => "foreign" \in net.route[f]
           /\ \A s \in Slot : net'.filter[s] = net.filter[s] \/ net'.filter[s] = "none"
           /\ net'.ids = net.ids /\ (net'.pair = Nil \/ net'.pair = net.pair)
           /\ quiet' => quiet /\ Covered(net', t) /\ NoForeign(net')
           /\ quiet' \in BOOLEAN
      <3>1. CASE Deletes(h) /\ quiet' = quiet
        <4>1. /\ struck' = {} /\ net' \in NetworkType
              /\ \A f \in Fam : /\ "foreign" \in net'.rule[f] => "foreign" \in net.rule[f]
                                /\ "foreign" \in net'.route[f] => "foreign" \in net.route[f]
              /\ \A s \in Slot : net'.filter[s] = net.filter[s] \/ (h = <<"filter", s>> /\ net'.filter[s] = "none")
              /\ net'.ids = net.ids /\ (net'.pair = Nil \/ net'.pair = net.pair)
              /\ NoForeign(net) \/ h[1] \notin {"rule", "route"} => net' = Deleted(net, h)
          BY <1>1, <2>2, <2>8, <2>9, <3>1, DeletesOurs
        <4> HIDE DEF q, h, t
        <4>2. quiet => Covered(net', t) /\ NoForeign(net')
          <5>1. NoForeign(net) => NoForeign(net')
            BY <4>1 DEF NoForeign
          <5> QED BY <2>2, <2>6, <4>1, <5>1
        <4> QED BY <1>1, <3>1, <4>1, <4>2
      <3>2. CASE net' = net /\ struck' = struck /\ quiet' = FALSE
        BY <1>1, <3>2
      <3> QED BY <2>1, <3>1, <3>2
    <2> HIDE DEF q, h, t
    <2>11. t \in Seq(Cleaning \cup Creating)
      BY <2>3, <2>5, Widened
    <2>12. /\ topo' \in ManagerType /\ topo'.pc = "rollback" /\ topo'.todo = t /\ topo'.active = topo.active
           /\ topo'.repair = topo.repair /\ topo'.reconciled = topo.reconciled /\ topo'.id = topo.id
      BY <1>1, <1>2, <2>1, <2>11 DEF ManagerType
    <2>13. TopologyTypes'
      BY <2>10, <2>12 DEF TopologyTypes
    <2>14. RepairInv'
      <3>1. NoOwn(net) => NoOwn(net')
        BY <2>10 DEF NoOwn
      <3> QED BY <1>2, <2>12, <3>1 DEF TopologyInv, RepairInv, NoOwn
    <2>15. CleanInv'
      <3>1. quiet' => Covered(net, topo.todo)' /\ NoForeign(net)'
        BY <2>10, <2>12 DEF Covered, NoForeign
      <3> QED BY <2>5, <2>12, <3>1 DEF CleanInv
    <2>16. CreateInv'
      BY <2>12 DEF CreateInv
    <2>17. SeenInv'
      <3>1. AllSeen(net, touched)'
        BY <1>2, <2>2, <2>10 DEF AllSeen
      <3> QED BY <2>10, <2>12, <3>1 DEF SeenInv
    <2>18. PairInv'
      <3>1. Todo' = Requests(t)
        BY <2>12 DEF Todo, Requests
      <3>2. ASSUME NEW id \in Nat, Ours(net, id)
            PROVE  Ours(net', id)
        BY <2>10, <3>2 DEF Ours
      <3>3. PairKnown(net')
        BY <1>1, <2>10 DEF PairKnown
      <3>4. topo.id \in Nat
        BY <1>1 DEF ManagerType
      <3>5. \A id \in Nat : <<"pair", id>> \in Todo' => Ours(net', id)
        BY <2>5, <2>7, <3>1, <3>2
      <3>6. Ours(net', topo'.id)
        BY <1>1, <2>12, <3>2, <3>4
      <3> QED BY <3>3, <3>5, <3>6 DEF PairInv
    <2> QED BY <2>13, <2>14, <2>15, <2>16, <2>17, <2>18 DEF TopologyInv
  <1> QED BY <1>3, <1>4

\* The daemon is killed: the next one knows nothing.
LEMMA KilledKeeps ==
    ASSUME TopologyInv, Killed
    PROVE  TopologyInv'
  <1>1. /\ topo' = Idle0 /\ quiet' = FALSE /\ net' = net /\ struck' = struck /\ net \in NetworkType
        /\ struck = {} /\ PairKnown(net)
    BY DEF Killed, TopologyInv, TopologyTypes, SeenInv, PairInv
  <1>2. Idle0 \in ManagerType
    BY DEF Idle0, ManagerType
  <1>3. Idle0.pc = "idle" /\ ~Idle0.active /\ ~Idle0.repair /\ ~Idle0.reconciled /\ Idle0.id = 0
    BY DEF Idle0
  <1>4. Ours(net, 0)
    BY <1>1 DEF NetworkType, PairType, Ours
  <1>5. SeenInv' /\ PairInv'
    BY <1>1, <1>3, <1>4 DEF SeenInv, PairInv
  <1> QED BY <1>1, <1>2, <1>3, <1>5 DEF TopologyInv, TopologyTypes, RepairInv, CleanInv, CreateInv

\* What others do: nothing of ours comes of it, and a pair of theirs has an index of its own.
LEMMA OthersMay ==
    ASSUME net \in NetworkType, Interference
    PROVE  /\ net' \in NetworkType
           /\ \A s \in Slot : net'.filter[s] = "own" => net.filter[s] = "own"
           /\ net.ids <= net'.ids
           /\ \/ net'.pair = Nil \/ net'.pair = net.pair
              \/ /\ net'.pair.id = net.ids /\ net'.ids = net.ids + 1 /\ net'.pair.theirs
                 /\ net'.pair.alias = {} /\ net.pair = Nil
  <1>0. net.ids \in Nat \ {0} /\ net.ids <= net.ids /\ net.ids <= net.ids + 1
    BY DEF NetworkType
  <1>1. ASSUME NEW f \in Fam, NEW r \in SUBSET {"own", "foreign"},
               \/ net' = [net EXCEPT !.rule[f] = r]
               \/ net' = [net EXCEPT !.route[f] = r]
        PROVE  net' \in NetworkType /\ net'.filter = net.filter /\ net'.pair = net.pair /\ net'.ids = net.ids
    BY <1>1 DEF NetworkType
  <1>2. ASSUME NEW s \in Slot, NEW x \in {"odd", "other", "none"}, net' = [net EXCEPT !.filter[s] = x]
        PROVE  /\ net' \in NetworkType /\ net'.pair = net.pair /\ net'.ids = net.ids
               /\ \A u \in Slot : net'.filter[u] = "own" => net.filter[u] = "own"
    BY <1>2 DEF NetworkType
  <1>3. ASSUME net' = [net EXCEPT !.pair = Nil]
        PROVE  net' \in NetworkType /\ net'.filter = net.filter /\ net'.pair = Nil /\ net'.ids = net.ids
    BY <1>3 DEF NetworkType
  <1>4. ASSUME net.pair = Nil, net' = [net EXCEPT !.pair = [NewPair(net.ids) EXCEPT !.theirs = TRUE], !.ids = @ + 1]
        PROVE  /\ net' \in NetworkType /\ net'.filter = net.filter /\ net'.ids = net.ids + 1
               /\ net'.pair.id = net.ids /\ net'.pair.theirs /\ net'.pair.alias = {}
    <2> DEFINE p == [NewPair(net.ids) EXCEPT !.theirs = TRUE]
    <2>1. p \in PairType /\ p.id = net.ids /\ p.theirs /\ p.alias = {}
      BY <1>0 DEF NewPair, PairType
    <2> HIDE DEF p
    <2>2. net' = [net EXCEPT !.pair = p, !.ids = @ + 1]
      BY <1>4 DEF p
    <2>3. net.ids + 1 \in Nat \ {0} /\ p \in PairType
      BY <1>0, <2>1
    <2>4. net'.pair = p /\ net'.ids = net.ids + 1 /\ net'.filter = net.filter /\ net' \in NetworkType
      BY <2>2, <2>3 DEF NetworkType
    <2> QED BY <2>1, <2>4
  <1>5. CASE \E f \in Fam, r \in SUBSET {"own", "foreign"} :
               net' = [net EXCEPT !.rule[f] = r] \/ net' = [net EXCEPT !.route[f] = r]
    BY <1>0, <1>1, <1>5
  <1>6. CASE \E s \in Slot, x \in {"odd", "other", "none"} : net' = [net EXCEPT !.filter[s] = x]
    BY <1>0, <1>2, <1>6
  <1>7. ASSUME NEW f \in Fam
        PROVE  /\ \A x : net.rule[f] \ {x} \in SUBSET {"own", "foreign"} /\ net.route[f] \ {x} \in SUBSET {"own", "foreign"}
               /\ net.rule[f] \cup {"foreign"} \in SUBSET {"own", "foreign"}
               /\ net.route[f] \cup {"foreign"} \in SUBSET {"own", "foreign"}
    BY DEF NetworkType
  <1>8. \/ \E f \in Fam, r \in SUBSET {"own", "foreign"} :
              net' = [net EXCEPT !.rule[f] = r] \/ net' = [net EXCEPT !.route[f] = r]
        \/ \E s \in Slot, x \in {"odd", "other", "none"} : net' = [net EXCEPT !.filter[s] = x]
        \/ net' = [net EXCEPT !.pair = Nil]
        \/ net.pair = Nil /\ net' = [net EXCEPT !.pair = [NewPair(net.ids) EXCEPT !.theirs = TRUE], !.ids = @ + 1]
    <2>1. CASE \E f \in Fam, x \in {"own", "foreign"} :
                  \/ net' = [net EXCEPT !.rule[f] = @ \ {x}]
                  \/ net' = [net EXCEPT !.route[f] = @ \ {x}]
      <3>1. PICK f \in Fam, x \in {"own", "foreign"} :
               net' = [net EXCEPT !.rule[f] = net.rule[f] \ {x}] \/ net' = [net EXCEPT !.route[f] = net.route[f] \ {x}]
        BY <2>1
      <3> QED BY <1>7, <3>1
    <2>2. CASE \E f \in Fam : \/ net' = [net EXCEPT !.rule[f] = @ \cup {"foreign"}]
                              \/ net' = [net EXCEPT !.route[f] = @ \cup {"foreign"}]
      <3>1. PICK f \in Fam :
               \/ net' = [net EXCEPT !.rule[f] = net.rule[f] \cup {"foreign"}]
               \/ net' = [net EXCEPT !.route[f] = net.route[f] \cup {"foreign"}]
        BY <2>2
      <3> QED BY <1>7, <3>1
    <2>3. CASE \E s \in Slot, x \in {"odd", "other"} : net.filter[s] = "none" /\ net' = [net EXCEPT !.filter[s] = x]
      BY <2>3
    <2>4. CASE \E s \in Slot : net.filter[s] # "none" /\ net' = [net EXCEPT !.filter[s] = "none"]
      BY <2>4
    <2> QED BY <2>1, <2>2, <2>3, <2>4 DEF Interference
  <1>9. CASE net' = [net EXCEPT !.pair = Nil]
    BY <1>0, <1>3, <1>9
  <1>10. CASE net.pair = Nil /\ net' = [net EXCEPT !.pair = [NewPair(net.ids) EXCEPT !.theirs = TRUE], !.ids = @ + 1]
    BY <1>0, <1>4, <1>10
  <1> QED BY <1>5, <1>6, <1>8, <1>9, <1>10

\* Others create nothing that is ours, and what they create is new.
LEMMA InterferenceKeeps ==
    ASSUME TopologyInv, Interference
    PROVE  TopologyInv'
  <1>1. /\ net \in NetworkType /\ topo \in ManagerType /\ struck = {} /\ PairKnown(net) /\ Ours(net, topo.id)
    BY DEF TopologyInv, TopologyTypes, SeenInv, PairInv
  <1>2. quiet' = FALSE /\ topo' = topo /\ struck' = struck /\ touched' = touched \cup (Foreign(net') \ Foreign(net))
    BY DEF Interference
  <1>3. /\ net' \in NetworkType
        /\ \A s \in Slot : net'.filter[s] = "own" => net.filter[s] = "own"
        /\ net.ids <= net'.ids
        /\ \/ net'.pair = Nil \/ net'.pair = net.pair
           \/ /\ net'.pair.id = net.ids /\ net'.ids = net.ids + 1 /\ net'.pair.theirs
              /\ net'.pair.alias = {} /\ net.pair = Nil
    BY <1>1, OthersMay
  <1>4. TopologyTypes'
    BY <1>1, <1>2, <1>3 DEF TopologyTypes
  <1>5. RepairInv'
    BY <1>2, <1>3 DEF TopologyInv, RepairInv, NoOwn
  <1>6. CleanInv'
    <2>1. FiltersCovered(net, topo.todo) => FiltersCovered(net, topo.todo)'
      BY <1>2, <1>3 DEF FiltersCovered
    <2> QED BY <1>2, <2>1 DEF TopologyInv, CleanInv
  <1>7. CreateInv'
    BY <1>2 DEF TopologyInv, CreateInv, Todo
  <1>8. SeenInv'
    <2>1. \A x \in Foreign(net') : x \in Foreign(net) /\ x \in touched => x \in touched'
      BY <1>2
    <2>2. \A x \in Foreign(net') : x \in touched' \/ (x \in Foreign(net) /\ x \notin touched)
      BY <1>2
    <2>3. ASSUME AllSeen(net, touched)
          PROVE  AllSeen(net', touched')
      <3>1. ASSUME NEW f \in Fam, "foreign" \in net'.rule[f]
            PROVE  <<"rule", f>> \in touched'
        <4>1. <<"rule", f>> \in Foreign(net')
          BY <3>1, ForeignIs
        <4>2. <<"rule", f>> \in Foreign(net) => "foreign" \in net.rule[f]
          <5> SUFFICES ASSUME <<"rule", f>> \in Foreign(net)
                       PROVE  "foreign" \in net.rule[f]
            OBVIOUS
          <5>1. PICK g \in Fam : <<"rule", f>> = <<"rule", g>> /\ "foreign" \in net.rule[g]
            BY ForeignIs
          <5> QED BY <5>1
        <4> QED BY <2>2, <2>3, <4>1, <4>2 DEF AllSeen
      <3>2. ASSUME NEW f \in Fam, "foreign" \in net'.route[f]
            PROVE  <<"route", f>> \in touched'
        <4>1. <<"route", f>> \in Foreign(net')
          BY <3>2, ForeignIs
        <4>2. <<"route", f>> \in Foreign(net) => "foreign" \in net.route[f]
          <5> SUFFICES ASSUME <<"route", f>> \in Foreign(net)
                       PROVE  "foreign" \in net.route[f]
            OBVIOUS
          <5>1. PICK g \in Fam : <<"route", f>> = <<"route", g>> /\ "foreign" \in net.route[g]
            BY ForeignIs
          <5> QED BY <5>1
        <4> QED BY <2>2, <2>3, <4>1, <4>2 DEF AllSeen
      <3> QED BY <3>1, <3>2 DEF AllSeen
    <2>4. ASSUME NEW s \in Slot, SlotSeen(net, s, touched)
          PROVE  SlotSeen(net', s, touched')
      <3> SUFFICES ASSUME net'.filter[s] \in {"odd", "other"}
                   PROVE  <<"filter", s>> \in touched'
        BY DEF SlotSeen
      <3>1. <<"filter", s>> \in Foreign(net')
        BY ForeignIs
      <3>2. <<"filter", s>> \in Foreign(net) => net.filter[s] \in {"odd", "other"}
        <4> SUFFICES ASSUME <<"filter", s>> \in Foreign(net)
                     PROVE  net.filter[s] \in {"odd", "other"}
          OBVIOUS
        <4>1. PICK u \in Slot : <<"filter", s>> = <<"filter", u>> /\ net.filter[u] \in {"odd", "other"}
          BY ForeignIs
        <4> QED BY <4>1
      <3> QED BY <2>2, <2>4, <3>1, <3>2 DEF SlotSeen
    <2>5. ASSUME net'.pair # Nil, net'.pair.theirs, <<"pair", net'.pair.id>> \notin touched'
          PROVE  net.pair # Nil /\ net.pair.theirs /\ <<"pair", net.pair.id>> \notin touched
      <3>1. <<"pair", net'.pair.id>> \in Foreign(net')
        BY <2>5, ForeignIs
      <3>2. <<"pair", net'.pair.id>> \in Foreign(net) /\ <<"pair", net'.pair.id>> \notin touched
        BY <2>2, <2>5, <3>1
      <3>3. net.pair # Nil /\ net.pair.theirs /\ <<"pair", net'.pair.id>> = <<"pair", net.pair.id>>
        BY <3>2, ForeignIs
      <3> QED BY <3>2, <3>3
    <2>6. topo.pc = "clean" /\ topo.todo # <<>> /\ Head(topo.todo)[1] = "filter" => Head(topo.todo)[2] \in Slot
      <3> SUFFICES ASSUME topo.pc = "clean", topo.todo # <<>>, Head(topo.todo)[1] = "filter"
                   PROVE  Head(topo.todo)[2] \in Slot
        OBVIOUS
      <3>1. topo.todo \in Seq(Cleaning)
        BY DEF TopologyInv, CleanInv
      <3>2. Head(topo.todo) \in Cleaning
        BY <3>1, NextRequest
      <3> QED BY <3>2 DEF Cleaning
    <2> QED BY <1>1, <1>2, <2>3, <2>4, <2>5, <2>6 DEF TopologyInv, SeenInv
  <1>9. PairInv'
    <2>0. net.ids \in Nat /\ net'.ids \in Nat /\ topo.id \in Nat
      BY <1>1, <1>3 DEF NetworkType, ManagerType
    <2>1. PairKnown(net')
      <3>1. CASE net'.pair = Nil \/ net'.pair = net.pair
        BY <1>1, <1>3, <2>0, <3>1 DEF PairKnown, NetworkType, PairType
      <3>2. CASE net'.pair.id = net.ids /\ net'.ids = net.ids + 1 /\ net'.pair.alias = {}
        <4>1. {} # {"host", "peer"}
          OBVIOUS
        <4> QED BY <2>0, <3>2, <4>1 DEF PairKnown
      <3> QED BY <1>3, <3>1, <3>2
    <2>2. ASSUME NEW id \in Nat, Ours(net, id)
          PROVE  Ours(net', id)
      <3>1. net'.pair = Nil \/ net'.pair = net.pair \/ net'.pair.id = net.ids
        BY <1>3
      <3> QED BY <1>3, <2>0, <2>2, <3>1 DEF Ours
    <2>3. Todo' = Todo
      BY <1>2 DEF Todo, Requests
    <2>4. topo.pc \in {"clean", "rollback"} => \A id \in Nat : <<"pair", id>> \in Todo => Ours(net, id)
      BY DEF TopologyInv, PairInv
    <2> QED BY <1>1, <1>2, <2>0, <2>1, <2>2, <2>3, <2>4 DEF PairInv
  <1> QED BY <1>4, <1>5, <1>6, <1>7, <1>8, <1>9 DEF TopologyInv

\* The invariant is inductive.
LEMMA TopologyInductive ==
    TopologyInv /\ [TopologyNext]_topovars => TopologyInv'
BY TopologyIdles, FirstDumpKeeps, SecondDumpKeeps, DetachKeeps, CleanStepKeeps, CleanFailsKeeps, CleanedKeeps,
   EnsureKeeps, ActivateKeeps, BeforeKeeps, CreateStepKeeps, FindPairKeeps, CreateFailsKeeps, RollbackKeeps,
   KilledKeeps, InterferenceKeeps
   DEF TopologyNext

\* finish_topology: a creation that was left alone verifies what it has built.
LEMMA CreationEnds ==
    ASSUME TopologyInv, topo.pc = "create", topo.todo # <<>>, Head(topo.todo)[1] = "verify", quiet
    PROVE  topology_state(net) = "complete"
  <1>1. net \in NetworkType /\ topo.todo \in Seq(Creating) /\ Ordered(topo.todo)
    BY DEF TopologyInv, TopologyTypes, CreateInv
  <1>2. Todo = {Verify}
    BY <1>1, OrderedNext DEF Todo
  <1>3. \A request \in Needed : request # Verify
    BY DEF Needed, Verify, Sysctl, Clsact
  <1>4. /\ net.pair # Nil /\ ~net.pair.addr /\ NoForeign(net)
        /\ \A request \in Needed : Done(net, request)
    <2>1. Veth \notin Todo
      BY <1>2 DEF Veth, Verify
    <2> QED BY <1>2, <1>3, <2>1 DEF TopologyInv, CreateInv
  <1>5. net.pair \in PairType
    BY <1>1, <1>4 DEF NetworkType
  <1>6. /\ <<"alias", "host">> \in Needed /\ <<"alias", "peer">> \in Needed
        /\ <<"up", "host">> \in Needed /\ <<"up", "peer">> \in Needed /\ Clsact \in Needed
        /\ \A f \in Fam : <<"rule", f>> \in Needed /\ <<"route", f>> \in Needed
    BY DEF Needed, Sides
  <1>7. "host" \in net.pair.alias /\ "peer" \in net.pair.alias /\ "host" \in net.pair.up /\ "peer" \in net.pair.up
    BY <1>4, <1>6 DEF Done
  <1>8. net.pair.alias = {"host", "peer"} /\ net.pair.up = {"host", "peer"}
    BY <1>5, <1>7 DEF PairType, Sides
  <1>9. net.pair.clsact = "exact"
    BY <1>4, <1>6 DEF Done, Clsact
  <1>10. ASSUME NEW f \in Fam
         PROVE  net.rule[f] = {"own"} /\ net.route[f] = {"own"}
    <2>1. Done(net, <<"rule", f>>) /\ Done(net, <<"route", f>>)
      BY <1>4, <1>6
    <2>2. "own" \in net.rule[f] /\ "own" \in net.route[f]
      BY <2>1 DEF Done
    <2>3. "foreign" \notin net.rule[f] /\ "foreign" \notin net.route[f]
      BY <1>4 DEF NoForeign
    <2>4. net.rule[f] \subseteq {"own", "foreign"} /\ net.route[f] \subseteq {"own", "foreign"}
      BY <1>1 DEF NetworkType
    <2> QED BY <2>2, <2>3, <2>4
  <1>11. classify_pair(net) = "owned"
    BY <1>4, <1>8 DEF classify_pair
  <1>12. ~PolicyConflict(net)
    BY <1>10 DEF PolicyConflict
  <1>13. classify_pair(net) # "conflict"
    BY <1>11
  <1>14. \A f \in Fam : net.rule[f] = Own /\ net.route[f] = Own
    BY <1>10 DEF Own
  <1> QED BY <1>4, <1>8, <1>9, <1>12, <1>13, <1>14 DEF topology_state

\* The invariant implies the property.
LEMMA TopologySound ==
    TopologyInv => TopologyIsOwned
  <1>1. ASSUME TopologyInv
        PROVE  CreationConverges
    BY <1>1, CreationEnds DEF CreationConverges
  <1>2. ASSUME TopologyInv
        PROVE  ForeignKept /\ RepairIsInactive
    BY <1>2 DEF TopologyInv, SeenInv, RepairInv, ForeignKept, RepairIsInactive
  <1> QED BY <1>1, <1>2 DEF TopologyIsOwned

\* Nothing of ours is left at the end of a cleanup or of a rollback.
LEMMA NothingIsLeft ==
    ASSUME TopologyInv, TopologyNext, quiet', topo.pc \in {"clean", "rollback"}, topo'.pc # topo.pc, topo.todo = <<>>
    PROVE  Leftovers(net') = {}
  <1>1. Requests(topo.todo) = {}
    BY DEF Requests
  <1>2. net' = net /\ quiet' = quiet
    BY DEF TopologyNext, cleanup_owned, SecondDump, detach_identity, CleanStep, CleanFails, Cleaned,
           ensure_topology, Activate, create_topology, CreateStep, FindPair, CreateFails, RollbackStep,
           Killed, Interference
  <1>3. Covered(net, topo.todo)
    BY <1>2 DEF TopologyInv, CleanInv
  <1>4. NoOwn(net)
    <2>1. CASE topo.pc = "clean"
      BY <1>1, <2>1 DEF TopologyInv, CleanInv, FiltersCovered, NoOwn
    <2>2. CASE topo.pc = "rollback"
      BY <2>2 DEF TopologyInv, RepairInv
    <2> QED BY <2>1, <2>2
  <1>5. net.pair = Nil /\ \A f \in Fam : "own" \notin net.rule[f] /\ "own" \notin net.route[f]
    BY <1>1, <1>3 DEF Covered
  <1> QED BY <1>2, <1>4, <1>5 DEF Leftovers, NoOwn

\* Whatever others do to links, rules, routes and filters and when, Flux removes nothing of
\* theirs that was there when it last looked (a pair of theirs only where create_topology
\* takes it for the one just made), and builds its path only while inactive and, left alone,
\* to the end.
THEOREM TopologyOwnership == TopologySpec => []TopologyIsOwned
  <1>1. (\E n \in {m \in NetworkType : PairKnown(m)} : TopologyStart(n)) => TopologyInv
    BY TopologyStarts
  <1> QED BY <1>1, TopologyInductive, TopologySound, PTL DEF TopologySpec

\* cleanup_owned, rollback_created: left alone, a cleanup and a rollback leave nothing of ours.
\* The failures of create_topology that do not roll back are not among them.
THEOREM CleanupsAreWhole == TopologySpec => NothingLeftBehind
  <1>1. (\E n \in {m \in NetworkType : PairKnown(m)} : TopologyStart(n)) => TopologyInv
    BY TopologyStarts
  <1>2. TopologyInv /\ [TopologyNext]_topovars =>
          [quiet' /\ topo.pc \in {"clean", "rollback"} /\ topo'.pc # topo.pc /\ topo.todo = <<>>
             => Leftovers(net') = {}]_topovars
    BY NothingIsLeft
  <1> QED BY <1>1, <1>2, TopologyInductive, PTL DEF TopologySpec, NothingLeftBehind
=============================================================================
