----------------------------- MODULE MCLocalOut -----------------------------
(* Small instances of LocalOut: three packets of two apps, of which the     *)
(* policy epochs select one or both, and a queue of one.                    *)
EXTENDS LocalOut, TLC

CONSTANTS p1, p2, p3, c1, c2, old, new

MCPkt == {p1, p2, p3}
MCUidOf == (p1 :> "app") @@ (p2 :> "app") @@ (p3 :> "game")
MCDstOf == (p1 :> "web") @@ (p2 :> "web") @@ (p3 :> "lan")
MCSelected == (0 :> {}) @@ (1 :> {"app"}) @@ (2 :> {"app", "game"})
MCDirect == (0 :> {}) @@ (1 :> {"lan"}) @@ (2 :> {})
MCCtx == {c1, c2}
MCDaemon == {old, new}
\* Contexts, daemons and the two packets of one socket are interchangeable.
Symmetry == Permutations(MCCtx) \cup Permutations(MCDaemon) \cup Permutations({p1, p2})

\* Two packets of one socket, and one policy epoch.
MCTwoPkt == {p1, p2}
MCTwoUidOf == (p1 :> "app") @@ (p2 :> "app")
MCTwoDstOf == (p1 :> "web") @@ (p2 :> "web")
MCOneSelected == (0 :> {}) @@ (1 :> {"app", "game"})
MCOneDirect == (0 :> {}) @@ (1 :> {})
=============================================================================
