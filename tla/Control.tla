------------------------------ MODULE Control ------------------------------
(***************************************************************************)
(* The control socket (control.rs, control_wire.rs and the connection      *)
(* table of reactor.rs): one request and one response per connection, all  *)
(* of them non-blocking and bounded by a deadline.                         *)
(*                                                                         *)
(* A session is an entry of control_conns.  The operators take the         *)
(* reactor's state s, a record with at least conns and ctimer, and         *)
(* return the state the call leaves behind, so that the handlers that      *)
(* answer clients in the middle of other work (module Subscription) can    *)
(* be composed from them in the order of the code.  `peer' is the other    *)
(* end of a socket: its process and the room in its receive buffer.        *)
(***************************************************************************)
EXTENDS Naturals, FiniteSets

CONSTANTS Client,       \* clients, one connection each
          MaxConns,     \* MAX_CONTROL_CONNECTIONS
          Frames        \* what each client may send

VARIABLES peer, req

\* control_wire::Request.
Request == {"status", "check", "enable", "disable", "reload", "subscribe", "stop"}

\* What a connection delivers: a decoded request, nothing yet, a frame that
\* recv_request refuses (too long, not UTF-8, not a request), or anything at
\* all from a peer that SO_PEERCRED does not admit.
Frame == Request \cup {"silent", "malformed", "foreign"}

ASSUME ControlAssumption ==
    IsFiniteSet(Client) /\ MaxConns \in Nat \ {0} /\ Frames \in [Client -> SUBSET Frame]

\* PendingControl, and "free" for no entry.  Writing keeps the response.
Waiting == {"Converging", "Subscribing"}
Session == Waiting \cup {"free", "Reading", "WritingOk", "WritingErr"}

Open(s) == {c \in Client : s.conns[c] # "free"}

\* Mutant of rearm_control_timer: the last connection left has no deadline.
rearm_control_timer_Last(s) == [s EXCEPT !.ctimer = Cardinality(Open(s)) > 1]

\* arm_timer at the earliest deadline, disarm_timer when the table is empty.
rearm_control_timer(s) == [s EXCEPT !.ctimer = Open(s) # {}]

\* Dropping the entry closes the connection.
Close(s, c) == [s EXCEPT !.conns[c] = "free"]

\* ControlConn::send_response on c, and what its callers do with the result:
\* WouldBlock makes the entry wait for EPOLLOUT; sent, or refused because the peer
\* is gone, it is dropped.
send_response(s, c, ok) ==
    IF peer[c] = "full"
    THEN [s EXCEPT !.conns[c] = IF ok THEN "WritingOk" ELSE "WritingErr"]
    ELSE Close(s, c)

\* complete_waiting_controls: every session of the kind gets the same answer.
complete_waiting_controls(s, kind, ok) ==
    [s EXCEPT !.conns = [c \in Client |->
        IF s.conns[c] = kind THEN send_response(s, c, ok).conns[c] ELSE s.conns[c]]]

\* The gate of handle_control: peer credentials, then the connection cap.
Admitted(s, c) == req[c] # "foreign" /\ Cardinality(Open(s)) < MaxConns

\* A new entry starts by reading, with its own deadline.
accept(s, c) == rearm_control_timer([s EXCEPT !.conns[c] = "Reading"])

\* handle_control_connection on an entry that is writing.
writable(s, c) == rearm_control_timer(send_response(s, c, s.conns[c] = "WritingOk"))

\* expire_control_connections, for the entries whose deadline passed: readers
\* and writers are dropped without a word, waiting clients get the current
\* status (never ok for a subscriber: its refresh is still in progress).
expire_control_connections(s, expired, ok) ==
    rearm_control_timer([s EXCEPT !.conns = [c \in Client |->
        CASE c \notin expired -> s.conns[c]
          [] c \in expired /\ s.conns[c] \in Waiting ->
                send_response(s, c, ok /\ s.conns[c] = "Converging").conns[c]
          [] OTHER -> "free"]])

----------------------------------------------------------------------------
\* The client side (control::request): connect, send one frame, wait.

ControlInit == peer = [c \in Client |-> "away"] /\ req = [c \in Client |-> "silent"]

Connect(c, f) ==
    /\ peer[c] = "away"
    /\ peer' = [peer EXCEPT ![c] = "dialled"]
    /\ req' = [req EXCEPT ![c] = f]

\* A client that connected without sending speaks up.
Send(c, f) ==
    /\ peer[c] # "gone" /\ req[c] = "silent"
    /\ req' = [req EXCEPT ![c] = f]
    /\ UNCHANGED peer

\* The client stops reading, or dies.
PeerChanges(c) ==
    /\ peer[c] = "ready"
    /\ \E p \in {"full", "gone"} : peer' = [peer EXCEPT ![c] = p]
    /\ UNCHANGED req
=============================================================================
