------------------------------- MODULE Values -------------------------------
(***************************************************************************)
(* What the modules about configuration and installation share: the value  *)
(* that stands for a Rust None or for the error of a Result whose kind no  *)
(* property tells apart, the bound on what the outside world changes, the  *)
(* UID that stands for none, and lists.                                    *)
(***************************************************************************)
EXTENDS Naturals, Sequences, FiniteSets

CONSTANTS
    Nil,
    MaxChanges,
    OverflowUid     \* FLUXRS_OVERFLOWUID of the module, OVERFLOWUID of the socket dump

VARIABLE changes

ASSUME ValuesAssumption == MaxChanges \in Nat

\* One change of the outside world.
Change == changes < MaxChanges /\ changes' = changes + 1

\* What is in a list, the lists of a list in one, and a list without what is not in a set.
Entries(list) == {list[i] : i \in DOMAIN list}
Concat(lists) ==
    LET f[n \in 0..Len(lists)] == IF n = 0 THEN <<>> ELSE f[n - 1] \o lists[n] IN f[Len(lists)]
Only(list, set) == Concat([i \in DOMAIN list |-> IF list[i] \in set THEN <<list[i]>> ELSE <<>>])
=============================================================================
