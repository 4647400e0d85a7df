------------------------------ MODULE UidTable ------------------------------
(***************************************************************************)
(* The UID table of the kernel module (fluxrs_hook.c: fluxrs_set_uids,     *)
(* fluxrs_clear_uids, uid_selected), which LocalOut takes as one read.     *)
(* Hooks search uid_sorted without a lock while an ioctl rewrites it.      *)
(*                                                                         *)
(* The ioctl has no barrier between its stores: they become visible to     *)
(* other CPUs in any order that keeps the two stores to uid_n in order.    *)
(* The stores of one ioctl are visible before the next one begins, which   *)
(* is fluxd's next system call.                                            *)
(***************************************************************************)
EXTENDS Integers, Sequences

CONSTANTS
    Cpu,            \* contexts inside uid_selected
    AnyUid,         \* the sk_uid of sockets
    OVERFLOWUID,    \* FLUXRS_OVERFLOWUID
    SLOT_MAX,       \* FLUXRS_UID_SLOT_MAX
    Requests,       \* what SET_UIDS is called with
    MaxSets         \* bound: ioctls

ASSUME UidAssumption ==
    /\ AnyUid \subseteq Nat /\ OVERFLOWUID \in Nat /\ SLOT_MAX \in Nat
    /\ Requests \subseteq Seq(AnyUid) /\ MaxSets \in Nat

VARIABLES
    uid_n, uid_sorted,  \* the memory, as other CPUs see it
    tmp,                \* the new table: its length and its entries
    stores,             \* stores of the ioctl that are not visible yet
    listed, ever,       \* the UIDs of the last request, and of all requests
    sets,               \* ioctls so far
    spc, suid, lo, hi,  \* uid_selected on each CPU
    clean               \* no store became visible, or was pending, since it began

tablevars == <<uid_n, uid_sorted, tmp, stores, listed, ever, sets>>
searchvars == <<spc, suid, lo, hi, clean>>
uidvars == <<tablevars, searchvars>>

UidStart ==
    /\ uid_n = 0 /\ uid_sorted = [i \in 0..(SLOT_MAX - 1) |-> 0]
    /\ tmp = [n |-> 0, at |-> [i \in 0..(SLOT_MAX - 1) |-> 0]]
    /\ stores = [zero |-> FALSE, slots |-> {}, count |-> FALSE]
    /\ listed = {} /\ ever = {} /\ sets = 0
    /\ spc = [c \in Cpu |-> "no"] /\ suid = [c \in Cpu |-> 0]
    /\ lo = [c \in Cpu |-> 0] /\ hi = [c \in Cpu |-> 0] /\ clean = [c \in Cpu |-> FALSE]

----------------------------------------------------------------------------
\* The ioctls.

Quiet == ~stores.zero /\ stores.slots = {} /\ ~stores.count

\* The UIDs of a request that the table takes.
Taken(r) == {r[i] : i \in 1..Len(r)} \ {0, OVERFLOWUID}

\* Mutant of Increasing: the entries are not sorted.
Increasing_Unsorted(t, n) == \A i, j \in 0..(n - 1) : i # j => t[i] # t[j]

\* sort and the removal of duplicates leave a strictly increasing table.
Increasing(t, n) == \A i, j \in 0..(n - 1) : i < j => t[i] < t[j]

\* fluxrs_set_uids; more than the table holds is -EINVAL, and -ENOMEM changes nothing.
set_uids(r) ==
    /\ Quiet /\ sets < MaxSets /\ sets' = sets + 1 /\ Len(r) <= SLOT_MAX
    /\ \E n \in 0..Len(r) : \E t \in [0..(n - 1) -> Taken(r)] :
          /\ Increasing(t, n) /\ \A u \in Taken(r) : \E i \in 0..(n - 1) : t[i] = u
          /\ tmp' = [n |-> n, at |-> [i \in 0..(SLOT_MAX - 1) |-> IF i < n THEN t[i] ELSE 0]]
          /\ stores' = [zero |-> TRUE, slots |-> 0..(n - 1), count |-> TRUE]
    /\ listed' = Taken(r) /\ ever' = ever \cup Taken(r)
    /\ clean' = [c \in Cpu |-> FALSE] /\ UNCHANGED <<uid_n, uid_sorted, spc, suid, lo, hi>>

\* fluxrs_clear_uids, and fluxrs_set_live(false).
clear_uids ==
    /\ Quiet /\ sets < MaxSets /\ sets' = sets + 1 /\ listed' = {}
    /\ stores' = [zero |-> TRUE, slots |-> {}, count |-> FALSE]
    /\ clean' = [c \in Cpu |-> FALSE] /\ UNCHANGED <<uid_n, uid_sorted, tmp, ever, spc, suid, lo, hi>>

StoreZero ==
    /\ stores.zero /\ uid_n' = 0 /\ stores' = [stores EXCEPT !.zero = FALSE]
    /\ UNCHANGED <<uid_sorted, tmp, listed, ever, sets, searchvars>>

\* One entry of the memcpy.
StoreSlot(i) ==
    /\ i \in stores.slots /\ uid_sorted' = [uid_sorted EXCEPT ![i] = tmp.at[i]]
    /\ stores' = [stores EXCEPT !.slots = @ \ {i}]
    /\ UNCHANGED <<uid_n, tmp, listed, ever, sets, searchvars>>

StoreCount ==
    /\ stores.count /\ ~stores.zero /\ uid_n' = tmp.n /\ stores' = [stores EXCEPT !.count = FALSE]
    /\ UNCHANGED <<uid_sorted, tmp, listed, ever, sets, searchvars>>

----------------------------------------------------------------------------
\* uid_selected.

\* Mutant of search_begins: every UID is searched.
search_begins_Any(c, u) ==
    /\ spc[c] # "loop" /\ suid' = [suid EXCEPT ![c] = u] /\ clean' = [clean EXCEPT ![c] = Quiet]
    /\ spc' = [spc EXCEPT ![c] = "loop"] /\ lo' = [lo EXCEPT ![c] = 0] /\ hi' = [hi EXCEPT ![c] = uid_n]
    /\ UNCHANGED tablevars

\* UID 0 and the overflow UID are never selected; else uid_n is read, once.
search_begins(c, u) ==
    /\ spc[c] # "loop" /\ suid' = [suid EXCEPT ![c] = u] /\ clean' = [clean EXCEPT ![c] = Quiet]
    /\ spc' = [spc EXCEPT ![c] = IF u \in {0, OVERFLOWUID} THEN "no" ELSE "loop"]
    /\ lo' = [lo EXCEPT ![c] = 0] /\ hi' = [hi EXCEPT ![c] = uid_n] /\ UNCHANGED tablevars

Middle(c) == lo[c] + (hi[c] - lo[c]) \div 2

\* One turn of the loop: READ_ONCE of the entry in the middle.
search_turns(c) ==
    /\ spc[c] = "loop" /\ lo[c] < hi[c]
    /\ LET v == uid_sorted[Middle(c)]
       IN \/ v = suid[c] /\ spc' = [spc EXCEPT ![c] = "yes"] /\ UNCHANGED <<lo, hi>>
          \/ v < suid[c] /\ lo' = [lo EXCEPT ![c] = Middle(c) + 1] /\ UNCHANGED <<spc, hi>>
          \/ v > suid[c] /\ hi' = [hi EXCEPT ![c] = Middle(c)] /\ UNCHANGED <<spc, lo>>
    /\ UNCHANGED <<suid, clean, tablevars>>

search_misses(c) ==
    /\ spc[c] = "loop" /\ lo[c] >= hi[c] /\ spc' = [spc EXCEPT ![c] = "no"]
    /\ UNCHANGED <<suid, lo, hi, clean, tablevars>>

UidNext ==
    \/ \E r \in Requests : set_uids(r)
    \/ clear_uids \/ StoreZero \/ StoreCount \/ \E i \in stores.slots : StoreSlot(i)
    \/ \E c \in Cpu : search_turns(c) \/ search_misses(c) \/ \E u \in AnyUid : search_begins(c, u)

UidSpec == UidStart /\ [][UidNext]_uidvars

----------------------------------------------------------------------------
\* uid_selected: a search that no ioctl overlaps answers whether the last request listed the UID,
\* whatever the tables before it have left in the slots.
SearchExact ==
    \A c \in Cpu : clean[c] /\ spc[c] # "loop" => (spc[c] = "yes" <=> suid[c] \in listed)

\* uid_selected against a table that is being rewritten, with its count visible before its entries:
\* the search stays inside the array and matches no UID that no request ever listed.
NeverUnlisted ==
    \A c \in Cpu : /\ spc[c] = "loop" => lo[c] <= hi[c] /\ hi[c] <= SLOT_MAX
                   /\ spc[c] = "yes" => suid[c] \in ever

\* uid_selected: exact when alone, never outside the array or what was listed when not.
SearchIsSound == SearchExact /\ NeverUnlisted
=============================================================================
