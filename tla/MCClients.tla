------------------------------ MODULE MCClients ------------------------------
(***************************************************************************)
(* Bounds for Subscription: two remote sources, of which one may offer a   *)
(* response that clashes with the other's, two clients with different      *)
(* requests, and the configurations that add, move, remove or break a      *)
(* source, or leave a foreign object in the state root.                    *)
(***************************************************************************)
EXTENDS Subscription

Config(sources, valid, template) ==
    [root |-> TRUE, sources |-> sources, valid |-> valid, template |-> template]

MCEdits == {Config({"a"}, TRUE, TRUE), Config({"a", "b"}, TRUE, TRUE),
            Config({"b"}, TRUE, TRUE), Config({}, TRUE, TRUE),
            Config({"a"}, FALSE, TRUE), Config({"a"}, TRUE, FALSE),
            [Config({"a"}, TRUE, TRUE) EXCEPT !.root = FALSE]}

MCOffers == [x \in Source |-> IF x = "a" THEN {"c1", "c2", "failed"}
                              ELSE {"c2", "invalid"}]

MCFrames == [c \in Client |-> IF c = "user" THEN {"subscribe", "silent", "malformed"}
                              ELSE (Request \cup {"foreign"}) \ {"check", "subscribe"}]
=============================================================================
