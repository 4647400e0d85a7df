------------------------------ MODULE Topology ------------------------------
(***************************************************************************)
(* The network objects Flux owns (dataplane/platform.rs, attachment.rs):   *)
(* the veth pair with its clsact, one rule and one route per family, and   *)
(* TC filters.  cleanup_owned runs once per daemon before anything else;   *)
(* ensure_topology and create_topology belong to the former data plane:    *)
(* they are in the crate and the LOCAL_OUT daemon does not call them, but  *)
(* what they left behind is what cleanup_owned meets.                      *)
(*                                                                         *)
(* Every netlink request is a step of its own; other programs change the   *)
(* network in between, requests fail and the daemon may be killed.  A rule *)
(* or route at Flux's priority or table is "own" when it satisfies the     *)
(* complete predicate (is_owned_rule, is_owned_route) and "foreign" when   *)
(* not.  A filter is "own", "odd" (a Flux name or slot that fails the      *)
(* predicate) or "other".  A pair of another program is not the reciprocal *)
(* veth with Flux's MTU that create_topology takes for its own.            *)
(***************************************************************************)
EXTENDS Values

CONSTANTS
    Fam,        \* address families
    Slot        \* TC slots that are looked at

VARIABLES
    net,        \* the kernel's objects
    topo,       \* the manager
    quiet,      \* nobody interfered, and no deletion failed, since topo's work began
    touched,    \* what others put in place since Flux last looked at it
    struck      \* what others had in place when Flux looked, and Flux deleted

topovars == <<net, topo, quiet, touched, struck>>

\* A pair: who made it, aliases set, sides up, address generation off, an address, its clsact.
Sides == {"host", "peer"}
PairType == [id : Nat \ {0}, theirs : BOOLEAN, alias : SUBSET Sides, up : SUBSET Sides, gen : BOOLEAN,
             addr : BOOLEAN, clsact : {"none", "exact", "odd"}]

ASSUME TopologyAssumption == IsFiniteSet(Fam) /\ IsFiniteSet(Slot) /\ Nil \notin PairType

NewPair(id) == [id |-> id, theirs |-> FALSE, alias |-> {}, up |-> {}, gen |-> FALSE, addr |-> FALSE, clsact |-> "none"]
Own == {"own"}
Net0 == [pair |-> Nil, ids |-> 1, rule |-> [f \in Fam |-> {}], route |-> [f \in Fam |-> {}],
         filter |-> [s \in Slot |-> "none"]]
Idle0 == [pc |-> "idle", plan |-> Nil, todo |-> <<>>, look |-> Nil, repair |-> FALSE, id |-> 0,
          reconciled |-> FALSE, active |-> FALSE]

TopologyStart(n) == net = n /\ topo = Idle0 /\ quiet = TRUE /\ touched = {} /\ struck = {}

----------------------------------------------------------------------------
\* Ownership.

\* classify_pair: absent, ours, or somebody's: then nothing is touched.
classify_pair(n) ==
    CASE n.pair = Nil -> "absent"
      [] n.pair # Nil /\ n.pair.alias = {"host", "peer"} -> "owned"
      [] OTHER -> "conflict"

\* reject_policy_conflicts, also as cleanup_plan makes it.
PolicyConflict(n) == \E f \in Fam : "foreign" \in n.rule[f] \cup n.route[f]

\* Mutant of expected_stale_filter: the name alone makes a filter ours.
expected_stale_filter_Named(filter) == filter \in {"own", "odd"}

\* expected_stale_filter, exact_clsact, FilterIdentity::matches, attached_program_owned.
expected_stale_filter(filter) == filter = "own"

\* tc_cleanup_plan: a filter with a Flux name that is not ours stops the cleanup.
FilterConflict(n) == \E s \in Slot : n.filter[s] \in {"own", "odd"} /\ ~expected_stale_filter(n.filter[s])

\* cleanup_plan: what will be deleted, or Nil.
cleanup_plan(n) ==
    IF classify_pair(n) = "conflict" \/ PolicyConflict(n) \/ FilterConflict(n) THEN Nil
    ELSE [filters |-> {s \in Slot : expected_stale_filter(n.filter[s])},
          rules |-> {f \in Fam : n.rule[f] # {}}, routes |-> {f \in Fam : n.route[f] # {}},
          pair |-> IF n.pair = Nil THEN 0 ELSE n.pair.id]

\* topology_state.
topology_state(n) ==
    IF classify_pair(n) = "conflict" \/ PolicyConflict(n) THEN "conflict"
    ELSE IF n.pair = Nil
    THEN IF \A f \in Fam : n.rule[f] \cup n.route[f] = {} THEN "absent" ELSE "drift"
    ELSE IF /\ n.pair.up = {"host", "peer"} /\ ~n.pair.addr /\ n.pair.clsact = "exact"
            /\ \A f \in Fam : n.rule[f] = Own /\ n.route[f] = Own
    THEN "complete" ELSE "drift"

\* What belongs to others.
Foreign(n) ==
    {<<"rule", f>> : f \in {g \in Fam : "foreign" \in n.rule[g]}}
    \cup {<<"route", f>> : f \in {g \in Fam : "foreign" \in n.route[g]}}
    \cup {<<"filter", s>> : s \in {t \in Slot : n.filter[t] \in {"odd", "other"}}}
    \cup (IF n.pair # Nil /\ n.pair.theirs THEN {<<"pair", n.pair.id>>} ELSE {})

\* What is ours: a pair is ours from its creation, before it has its aliases.
Leftovers(n) ==
    {<<"rule", f>> : f \in {g \in Fam : "own" \in n.rule[g]}}
    \cup {<<"route", f>> : f \in {g \in Fam : "own" \in n.route[g]}}
    \cup {<<"filter", s>> : s \in {t \in Slot : n.filter[t] = "own"}}
    \cup (IF n.pair # Nil THEN {<<"pair", 0>>} ELSE {})

----------------------------------------------------------------------------
\* Requests: <<kind, argument>>.

\* What is requested one by one, in the order the kernel listed it in.
Listed(S) == CHOOSE s \in [1..Cardinality(S) -> S] : \A x \in S : \E i \in DOMAIN s : s[i] = x
Each(kind, s) == [i \in DOMAIN s |-> <<kind, s[i]>>]
EachTwo(first, second, s) ==
    [i \in 1..(2 * Len(s)) |-> <<IF i % 2 = 1 THEN first ELSE second, s[(i + 1) \div 2]>>]

Deletions(plan) ==
    EachTwo("check", "filter", Listed(plan.filters))
    \o Each("rule", Listed(plan.rules)) \o Each("route", Listed(plan.routes))
    \o IF plan.pair = 0 THEN <<>> ELSE <<<<"pair", plan.pair>>>>

\* Mutant of Deleted: the pair is deleted by its name, whoever made it.
Deleted_ByName(n, request) ==
    CASE request[1] = "check" -> n
      [] request[1] = "filter" -> [n EXCEPT !.filter[request[2]] = "none"]
      [] request[1] = "rule" -> [n EXCEPT !.rule[request[2]] = @ \ Own]
      [] request[1] = "route" -> [n EXCEPT !.route[request[2]] = @ \ Own]
      [] OTHER -> [n EXCEPT !.pair = Nil]

\* A rule or a route is deleted by its priority or table and its interface; a filter by its
\* slot, whoever is in it; the pair by its index, which is not used again, and with it its
\* clsact.
Deleted(n, request) ==
    CASE request[1] = "check" -> n
      [] request[1] = "filter" -> [n EXCEPT !.filter[request[2]] = "none"]
      [] request[1] = "rule" -> [n EXCEPT !.rule[request[2]] = @ \ Own]
      [] request[1] = "route" -> [n EXCEPT !.route[request[2]] = @ \ Own]
      [] OTHER -> IF n.pair # Nil /\ n.pair.id = request[2] THEN [n EXCEPT !.pair = Nil] ELSE n

\* The kernel takes the first rule or route with these attributes, which may be one of
\* others that came meanwhile and has further ones.
Mistaken(n, request) ==
    IF request[1] = "rule" THEN [n EXCEPT !.rule[request[2]] = @ \ {"foreign"}]
    ELSE [n EXCEPT !.route[request[2]] = @ \ {"foreign"}]

\* A request to delete has one of its effects.  Whoever put a pair in place and when, only
\* the index of ours is asked for.
Deletes(request) ==
    /\ \/ net' = Deleted(net, request)
       \/ request[1] \in {"rule", "route"} /\ request \in Foreign(net) /\ net' = Mistaken(net, request)
    /\ struck' = struck \cup ((Foreign(net) \ Foreign(net')) \ {x \in touched : x[1] # "pair"})

Families == Listed(Fam)

\* Mutant of Creation: the links come up before address generation is turned off.
Creation_UpFirst ==
    <<<<"veth", 0>>, <<"alias", "host">>, <<"alias", "peer">>, <<"up", "host">>, <<"sysctl", 0>>, <<"up", "peer">>>>
    \o EachTwo("route", "rule", Families)
    \o <<<<"clsact", 0>>, <<"verify", 0>>>>

\* create_topology after its first dump, and finish_topology, in their order.
Creation ==
    <<<<"veth", 0>>, <<"alias", "host">>, <<"alias", "peer">>, <<"sysctl", 0>>, <<"up", "host">>, <<"up", "peer">>>>
    \o EachTwo("route", "rule", Families)
    \o <<<<"clsact", 0>>, <<"verify", 0>>>>

\* What the kernel accepts: EXCL for new objects, the created pair for the others.
Accepted_request(n, request) ==
    CASE request[1] = "veth" -> n.pair = Nil
      [] request[1] \in {"rule", "route"} -> "own" \notin n[request[1]][request[2]]
      [] request[1] = "verify" -> topology_state(n) = "complete"
      [] request[1] = "clsact" -> n.pair # Nil /\ n.pair.clsact # "odd"
      [] OTHER -> n.pair # Nil /\ n.pair.id = topo.id

\* A side that comes up with address generation on gets a link-local address.
Created(n, request) ==
    CASE request[1] = "veth" -> [n EXCEPT !.pair = NewPair(n.ids), !.ids = @ + 1]
      [] request[1] = "alias" -> [n EXCEPT !.pair.alias = @ \cup {request[2]}]
      [] request[1] = "sysctl" -> [n EXCEPT !.pair.gen = TRUE]
      [] request[1] = "up" -> [n EXCEPT !.pair.up = @ \cup {request[2]}, !.pair.addr = @ \/ ~n.pair.gen]
      [] request[1] = "clsact" -> [n EXCEPT !.pair.clsact = "exact"]
      [] request[1] = "rule" -> [n EXCEPT !.rule[request[2]] = @ \cup Own]
      [] request[1] = "route" -> [n EXCEPT !.route[request[2]] = @ \cup Own]
      [] OTHER -> n

\* Mutant of rollback_created: one family is forgotten.
rollback_created_OneFamily == <<<<"rule", Families[1]>>, <<"route", Families[1]>>, <<"pair", topo.id>>>>

rollback_created == EachTwo("rule", "route", Families) \o <<<<"pair", topo.id>>>>

----------------------------------------------------------------------------
\* The manager.

Returns ==
    topo' = [topo EXCEPT !.pc = "idle", !.plan = Nil, !.todo = <<>>, !.look = Nil, !.repair = FALSE]

\* converge_inner, before the first reconciliation; the first dump of cleanup_owned.
cleanup_owned ==
    /\ topo.pc = "idle" /\ ~topo.reconciled /\ cleanup_plan(net) # Nil
    /\ topo' = [topo EXCEPT !.pc = "second", !.plan = cleanup_plan(net)]
    /\ quiet' = TRUE /\ UNCHANGED <<net, touched, struck, changes>>

\* The second dump: a plan that differs is an error and nothing is deleted.
SecondDump ==
    /\ topo.pc = "second" /\ touched' = {} /\ UNCHANGED <<net, quiet, struck, changes>>
    /\ IF cleanup_plan(net) = topo.plan
       THEN topo' = [topo EXCEPT !.pc = "clean", !.todo = Deletions(topo.plan)]
       ELSE Returns

\* Mutant of SecondLook: the first dump has to do.
SecondLook_First(s) == topo.look

\* What the second dump of detach_identity shows.
SecondLook(s) == net.filter[s]

\* detach_identity dumps the slot twice; a change in between is an error, and a filter that
\* is not ours any more is left alone.
detach_identity ==
    /\ topo.pc = "clean" /\ topo.todo # <<>> /\ Head(topo.todo)[1] = "check"
    /\ LET s == Head(topo.todo)[2] IN
       IF topo.look = Nil
       THEN topo' = [topo EXCEPT !.look = net.filter[s]] /\ UNCHANGED touched
       ELSE /\ touched' = touched \ {<<"filter", s>>}
            /\ IF SecondLook(s) # topo.look THEN Returns
               ELSE topo' = [topo EXCEPT !.look = Nil,
                                !.todo = IF expected_stale_filter(SecondLook(s)) THEN Tail(@) ELSE Tail(Tail(@))]
    /\ UNCHANGED <<net, quiet, struck, changes>>

\* One deletion.
CleanStep ==
    /\ topo.pc = "clean" /\ topo.todo # <<>> /\ Head(topo.todo)[1] # "check"
    /\ Deletes(Head(topo.todo))
    /\ topo' = [topo EXCEPT !.todo = Tail(@)]
    /\ UNCHANGED <<quiet, touched, changes>>

\* A dump or a deletion fails: cleanup_owned returns the error and is tried again.
CleanFails ==
    /\ topo.pc = "clean" /\ topo.todo # <<>> /\ Change
    /\ Returns /\ UNCHANGED <<net, quiet, touched, struck>>

\* cleanup_owned returns; a repair goes on with the creation.
Cleaned ==
    /\ topo.pc = "clean" /\ topo.todo = <<>>
    /\ topo' = [topo EXCEPT !.pc = IF topo.repair THEN "before" ELSE "idle", !.plan = Nil,
                            !.repair = FALSE, !.reconciled = TRUE]
    /\ UNCHANGED <<net, quiet, touched, struck, changes>>

\* Mutant of ensure_topology: the repair goes on under active = 1.
ensure_topology_Active ==
    /\ topo.pc = "idle" /\ topo.reconciled /\ topology_state(net) \in {"absent", "drift"}
    /\ IF topology_state(net) = "drift"
       THEN /\ cleanup_plan(net) # Nil
            /\ topo' = [topo EXCEPT !.pc = "second", !.plan = cleanup_plan(net), !.repair = TRUE]
       ELSE topo' = [topo EXCEPT !.pc = "before"]
    /\ quiet' = TRUE /\ UNCHANGED <<net, touched, struck, changes>>

\* ensure_topology: what is not complete is repaired, after publish_inactive.
ensure_topology ==
    /\ topo.pc = "idle" /\ topo.reconciled /\ topology_state(net) \in {"absent", "drift"}
    /\ IF topology_state(net) = "drift"
       THEN /\ cleanup_plan(net) # Nil
            /\ topo' = [topo EXCEPT !.active = FALSE, !.pc = "second", !.plan = cleanup_plan(net), !.repair = TRUE]
       ELSE topo' = [topo EXCEPT !.active = FALSE, !.pc = "before"]
    /\ quiet' = TRUE /\ UNCHANGED <<net, touched, struck, changes>>

\* publish_active, after a convergence that went on past the cleanup; it does not look at
\* the network.
Activate ==
    /\ topo.pc = "idle" /\ topo.reconciled /\ ~topo.active
    /\ topo' = [topo EXCEPT !.active = TRUE] /\ UNCHANGED <<net, quiet, touched, struck, changes>>

\* The dump create_topology begins with: rules and routes of others are an error.
create_topology ==
    /\ topo.pc = "before" /\ UNCHANGED <<net, quiet, struck>>
    /\ \/ /\ ~PolicyConflict(net) /\ UNCHANGED changes
          /\ topo' = [topo EXCEPT !.pc = "create", !.todo = Creation]
          /\ touched' = {x \in touched : x[1] \notin {"rule", "route"}}
       \/ PolicyConflict(net) /\ Returns /\ UNCHANGED <<touched, changes>>
       \/ Change /\ Returns /\ UNCHANGED touched

CreateStep ==
    /\ topo.pc = "create" /\ topo.todo # <<>> /\ Accepted_request(net, Head(topo.todo))
    /\ net' = Created(net, Head(topo.todo))
    /\ topo' = [topo EXCEPT !.todo = Tail(@), !.pc = IF Head(topo.todo)[1] = "veth" THEN "links"
                                                     ELSE IF Tail(topo.todo) = <<>> THEN "idle" ELSE @]
    /\ UNCHANGED <<quiet, touched, struck, changes>>

\* create_topology looks for the pair it has created, by its name.  A pair that is not the
\* one it asked for is deleted; when the dump fails the function returns and the pair stays.
FindPair ==
    /\ topo.pc = "links" /\ UNCHANGED <<quiet, touched>>
    /\ \/ /\ net.pair # Nil /\ ~net.pair.theirs
          /\ topo' = [topo EXCEPT !.pc = "create", !.id = net.pair.id]
          /\ UNCHANGED <<net, struck, changes>>
       \/ /\ net.pair # Nil /\ net.pair.theirs
          /\ Returns /\ net' = Deleted(net, <<"pair", net.pair.id>>)
          /\ struck' = struck \cup ({<<"pair", net.pair.id>>} \ touched) /\ UNCHANGED changes
       \/ net.pair = Nil /\ Returns /\ UNCHANGED <<net, struck, changes>>
       \/ Change /\ Returns /\ UNCHANGED <<net, struck>>

\* The failures after which create_topology returns with what it has made: the pair was not
\* created, or the last dump failed or shows an object of others.
Unrolled(dumped) ==
    \/ Head(topo.todo)[1] = "veth"
    \/ Head(topo.todo)[1] = "verify" /\ (~dumped \/ topology_state(net) = "conflict")

\* A request fails, by itself or because of what others did: what was made is rolled back,
\* or left to the next cleanup.
CreateFails ==
    /\ topo.pc = "create" /\ topo.todo # <<>>
    /\ \E dumped \in BOOLEAN :
       /\ IF dumped THEN ~Accepted_request(net, Head(topo.todo)) /\ UNCHANGED changes ELSE Change
       /\ IF Unrolled(dumped) THEN Returns
          ELSE topo' = [topo EXCEPT !.pc = "rollback", !.todo = rollback_created]
    /\ UNCHANGED <<net, quiet, touched, struck>>

\* rollback_created ignores what fails.
RollbackStep ==
    /\ topo.pc = "rollback" /\ UNCHANGED touched
    /\ IF topo.todo = <<>> THEN Returns /\ UNCHANGED <<net, quiet, struck, changes>>
       ELSE /\ topo' = [topo EXCEPT !.todo = Tail(@)]
            /\ \/ Deletes(Head(topo.todo)) /\ UNCHANGED <<quiet, changes>>
               \/ UNCHANGED <<net, struck>> /\ quiet' = FALSE /\ Change

\* The daemon is killed; what it created stays.
Killed ==
    /\ Change /\ topo # Idle0
    /\ topo' = Idle0 /\ quiet' = FALSE /\ UNCHANGED <<net, touched, struck>>

\* Others: rules and routes come and go, ours too, netd resets a clsact, filters are put
\* into free slots, the pair is deleted, and another takes its name.
Interference ==
    /\ Change /\ quiet' = FALSE /\ UNCHANGED <<topo, struck>>
    /\ \/ \E f \in Fam, x \in {"own", "foreign"} :
             \/ net' = [net EXCEPT !.rule[f] = @ \ {x}]
             \/ net' = [net EXCEPT !.route[f] = @ \ {x}]
       \/ \E f \in Fam : \/ net' = [net EXCEPT !.rule[f] = @ \cup {"foreign"}]
                         \/ net' = [net EXCEPT !.route[f] = @ \cup {"foreign"}]
       \/ \E s \in Slot, x \in {"odd", "other"} : net.filter[s] = "none" /\ net' = [net EXCEPT !.filter[s] = x]
       \/ \E s \in Slot : net.filter[s] # "none" /\ net' = [net EXCEPT !.filter[s] = "none"]
       \/ net.pair # Nil /\ net' = [net EXCEPT !.pair = Nil]
       \/ net.pair = Nil /\ net' = [net EXCEPT !.pair = [NewPair(net.ids) EXCEPT !.theirs = TRUE], !.ids = @ + 1]
    /\ touched' = touched \cup (Foreign(net') \ Foreign(net))

TopologyNext ==
    \/ cleanup_owned \/ SecondDump \/ detach_identity \/ CleanStep \/ CleanFails \/ Cleaned
    \/ ensure_topology \/ Activate \/ create_topology \/ CreateStep \/ FindPair \/ CreateFails
    \/ RollbackStep \/ Killed \/ Interference

----------------------------------------------------------------------------
\* Properties.

\* cleanup_owned, detach_identity, rollback_created: whatever others do and when, Flux deletes
\* nothing of theirs, rule, route, filter or pair, that was there when it last looked: at its
\* second dump of everything, at the second dump of a slot, or at the dump a creation begins
\* with.  What comes between a look and the deletion it permits is not protected: the kernel
\* deletes a filter by its slot, and a rule or a route by a few of its attributes.  A pair of
\* others is deleted in one place only, where create_topology takes it for the one it has just
\* made; elsewhere it is safe even when it comes after the look.
ForeignKept == struck = {}

\* ensure_topology: the core path is never repaired under active = 1.
RepairIsInactive == topo.active => topo.pc \notin {"before", "create", "links", "rollback"} /\ ~topo.repair

\* finish_topology: left alone, the creation ends in what topology_state calls complete, so
\* that the verification never rolls back what it has just built.
CreationConverges ==
    topo.pc = "create" /\ topo.todo # <<>> /\ Head(topo.todo)[1] = "verify" /\ quiet =>
        topology_state(net) = "complete"

\* cleanup_owned, rollback_created: left alone, a cleanup and a rollback that end leave
\* nothing.  create_topology does not roll back everywhere: when a dump fails after the pair
\* exists it returns, and what it has made waits for the next cleanup.
NothingLeftBehind ==
    [][quiet' /\ topo.pc \in {"clean", "rollback"} /\ topo'.pc # topo.pc /\ topo.todo = <<>>
       => Leftovers(net') = {}]_topovars

\* converge_inner, cleanup_owned: whatever others do to links, rules and filters, Flux removes
\* nothing of theirs that it has seen, and builds its path only while inactive and to the end.
TopologyIsOwned == ForeignKept /\ RepairIsInactive /\ CreationConverges
=============================================================================
