------------------------------ MODULE Capture -------------------------------
(***************************************************************************)
(* What the kernel module promises about a packet, whatever the CPUs, the  *)
(* worker and the daemons do: it decides once.  A packet passes, or it is  *)
(* held and then passes, is delivered to the engine or is dropped; it is   *)
(* delivered only while a daemon has the control node, and held only if it *)
(* can be stolen.  LocalOut implements this.                               *)
(***************************************************************************)
EXTENDS Naturals

CONSTANTS Pkt, Stealable

VARIABLES capturing,    \* a daemon has /dev/fluxrs
          fate          \* of each packet

fates == <<capturing, fate>>

Init == capturing = FALSE /\ fate = [p \in Pkt |-> "new"]

Decide(S, from, to) ==
    /\ \A p \in S : fate[p] = from
    /\ fate' = [p \in Pkt |-> IF p \in S THEN to ELSE fate[p]]
    /\ UNCHANGED capturing

Pass(p) == Decide({p}, "new", "direct") \/ Decide({p}, "held", "direct")
Hold(p) == capturing /\ p \in Stealable /\ Decide({p}, "new", "held")
Deliver(p) == capturing /\ Decide({p}, "held", "delivered")
Drop(S) == Decide(S, "held", "dropped")
Open == ~capturing /\ capturing' = TRUE /\ UNCHANGED fate
Close == capturing /\ capturing' = FALSE /\ UNCHANGED fate

Next ==
    \/ \E p \in Pkt : Pass(p) \/ Hold(p) \/ Deliver(p)
    \/ \E S \in SUBSET Pkt : Drop(S)
    \/ Open \/ Close

Spec == Init /\ [][Next]_fates
=============================================================================
