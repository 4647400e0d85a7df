------------------------------- MODULE Policy -------------------------------
(***************************************************************************)
(* From the configuration to the kernel's tables: the app and CIDR         *)
(* dimensions of flux.toml (config.rs), the package database (selector.rs),*)
(* prefixes (cidr.rs), the policy epoch and its commit (policy_epoch.rs),  *)
(* and Manager::apply_policy, which installs it with two ioctls.           *)
(*                                                                         *)
(* Text is abstracted to what the parsers tell apart.  An app entry is     *)
(* [bare, user, pkg], bare for a plain package name; a CIDR entry is       *)
(* [addr, len]; FileRef stands for a reference to a list file, of which    *)
(* there is one for apps and one for prefixes.                             *)
(* Addresses have Width bits.  IPv4 and IPv6 go through the same code (the *)
(* privacy flag is FALSE for IPv4), so one family is modelled.             *)
(***************************************************************************)
EXTENDS Values

CONSTANTS
    Width,          \* bits of an address
    Stride,         \* USER_ID_STRIDE
    UserMax,        \* USER_ID_MAX
    AppMin, AppMax, \* APP_ID_MIN, APP_ID_MAX
    SelectedMax,    \* UID_SELECTED_MAX
    PolicyMax,      \* UID_POLICY_MAX_ENTRIES
    LpmMax,         \* LPM_MAX_ENTRIES
    SelfMax,        \* SELF_ADDR_MAX_ENTRIES
    FixedBypass,    \* the fixed prefixes and the listener's host route
    Documents,      \* flux.toml files the user may write
    ListFiles,      \* contents the referenced list files may have: [apps, cidr]
    PackageLists,   \* contents of packages.list
    AddressDumps    \* rtnetlink dumps: sets of [addr, usable, privacy]

VARIABLES
    doc, listfile, packages, addresses,     \* the outside world
    mgr,        \* the manager's record of the epoch in force
    seen,       \* address_seen: address -> tick
    kern,       \* the module's tables
    job,        \* apply_policy between its two ioctls: the epoch it installs, or NoJob
    drifted,    \* the bypass of a failed apply_policy could not be put back
    applied     \* the parsed configuration behind the manager's epoch, or Nil

policyvars == <<doc, listfile, packages, addresses, mgr, seen, kern, job, drifted, applied>>

Addr == 0..(2^Width - 1)
Uid == 0..(Stride * (UserMax + 1) - 1)

FileRef == [file |-> TRUE]
AppEntries == [bare : BOOLEAN, user : Nat, pkg : STRING]
CidrEntries == [addr : Addr, len : Nat]

ASSUME PolicyAssumption ==
    /\ {Width, Stride, UserMax, AppMin, AppMax, SelectedMax, PolicyMax, LpmMax, SelfMax} \subseteq Nat
    /\ 0 < AppMin /\ AppMin <= AppMax /\ AppMax < Stride
    /\ IsFiniteSet(FixedBypass) /\ FixedBypass \subseteq [addr : Addr, len : 0..Width]
    /\ \A d \in Documents : /\ d.apps.list \in Seq(AppEntries \cup {FileRef})
                            /\ d.cidr.list \in Seq(CidrEntries \cup {FileRef})
    /\ ListFiles \subseteq [apps : Seq(AppEntries \cup {FileRef}), cidr : Seq(CidrEntries \cup {FileRef})]
    /\ PackageLists \subseteq Seq([pkg : STRING, uid : Nat])
    /\ \A dump \in AddressDumps :
          IsFiniteSet(dump) /\ dump \subseteq [addr : Addr, usable : BOOLEAN, privacy : BOOLEAN]

----------------------------------------------------------------------------
\* Prefixes.

\* Ipv4Cidr::parse and Ipv6Cidr::parse: no host bits below the prefix length.
Canonical(p) == p.len <= Width /\ p.addr % 2^(Width - p.len) = 0

\* v4_in and v6_in: addr & mask = net.
In(a, p) == a - (a % 2^(Width - p.len)) = p.addr

\* lpm_v4 and lpm_v6: the tag of the longest prefix that holds a, or "none".
lpm(bypass, a) ==
    LET hits == {p \in DOMAIN bypass : In(a, p)} IN
    IF hits = {} THEN "none"
    ELSE bypass[CHOOSE p \in hits : \A q \in hits : q.len <= p.len]

\* BypassTag and the direction of the list (PolicyEpoch::bypass_direct).
bypass_direct(e, a) ==
    \/ a \in e.selfs
    \/ lpm(e.bypass, a) = "reserved"
    \/ lpm(e.bypass, a) = "policy" /\ e.cidr_mode = "blacklist"
    \/ lpm(e.bypass, a) = "none" /\ e.cidr_mode = "whitelist"

\* PolicyEpoch::observe_new_flow.
observe_new_flow(e, uid, a) == uid \in e.selected /\ ~bypass_direct(e, a)

\* Mutant of fluxrs_reserved_dest: the tags of the set are trusted.
fluxrs_reserved_dest_Trusts(a) == FALSE

\* fluxrs_reserved_dest: the module tests the fixed prefixes itself, before the set.
fluxrs_reserved_dest(a) == \E p \in FixedBypass : In(a, p)

\* cmp_pfx4 < 0: by length, then by network.
cmp_pfx(p, q) == p.len < q.len \/ (p.len = q.len /\ p.addr < q.addr)

\* parse_v4 and fill_off4: the prefixes of SET_BYPASS as a sorted table, and per length
\* the number of entries in front of its bucket.
parse_set(bypass) ==
    LET all == DOMAIN bypass
        nth(i) == CHOOSE p \in all : Cardinality({q \in all : cmp_pfx(q, p)}) = i - 1
    IN [table |-> [i \in 1..Cardinality(all) |-> [net |-> nth(i).addr, tag |-> bypass[nth(i)]]],
        off |-> [n \in 0..(Width + 1) |-> Cardinality({p \in all : p.len < n})]]

\* pfx4_find: binary search of table[lo + 1 .. hi] for the network, "none" without one.
pfx_find(table, lo, hi, key) ==
    LET find[w \in (0..Len(table)) \X (0..Len(table))] ==
            LET mid == w[1] + (w[2] - w[1]) \div 2 IN
            IF w[1] >= w[2] THEN "none"
            ELSE IF table[mid + 1].net = key THEN table[mid + 1].tag
            ELSE IF table[mid + 1].net < key THEN find[<<mid + 1, w[2]>>]
            ELSE find[<<w[1], mid>>]
    IN find[<<lo, hi>>]

\* lpm4: the buckets from the longest length down, the first hit wins.
lpm4(set, a) ==
    LET tag(n) == pfx_find(set.table, set.off[n], set.off[n + 1], a - (a % 2^(Width - n)))
        hits == {n \in 0..Width : tag(n) # "none"}
    IN IF hits = {} THEN "none" ELSE tag(CHOOSE n \in hits : \A i \in hits : i <= n)

tag_direct(mode, tag) ==
    \/ tag = "reserved"
    \/ IF mode = "whitelist" THEN tag # "policy" ELSE tag # "none"

\* fluxrs_policy_direct, set_direct and self4_hit.
fluxrs_policy_direct(k, a) == a \in k.selfs \/ tag_direct(k.cidr_mode, lpm4(k.set, a))

\* fluxrs_local_out on a first packet, with live, listeners and symbols in place.
Stolen(k, uid, a) ==
    uid \in k.uids \ {0, OverflowUid} /\ ~fluxrs_reserved_dest(a) /\ ~fluxrs_policy_direct(k, a)

----------------------------------------------------------------------------
\* UIDs.

\* PackageIndex: a later line of the same package wins in by_package, while its earlier
\* app id keeps its bucket.
app_id(index, pkg) ==
    LET lines == {i \in DOMAIN index : index[i].pkg = pkg} IN
    IF lines = {} THEN Nil
    ELSE index[CHOOSE i \in lines : \A j \in lines : j <= i].uid % Stride

\* application_ids stays inside the third-party range.
application_ids(index) == {index[i].uid % Stride : i \in DOMAIN index} \cap (AppMin..AppMax)

\* Mutant of compose_uid: app id 0, the engine's own, is composed too.
compose_uid_Zero(user, app) ==
    IF user > UserMax \/ app >= Stride THEN Nil ELSE user * Stride + app

compose_uid(user, app) ==
    IF user > UserMax \/ app = 0 \/ app >= Stride THEN Nil ELSE user * Stride + app

\* PackageIndex::resolve.
resolve(index, selector) ==
    IF app_id(index, selector.pkg) = Nil THEN Nil
    ELSE compose_uid(selector.user, app_id(index, selector.pkg))

\* resolve_selected_uids: a whitelist is its UIDs; a blacklist is every third-party UID
\* of user 0 and of the mentioned users, less the listed ones.
resolve_selected_uids(apps, mode, index) ==
    LET listed == {resolve(index, s) : s \in apps}
        users == {s.user : s \in apps} \cup {0}
        all == {compose_uid(u, a) : u \in users, a \in application_ids(index)}
        selected == IF mode = "whitelist" THEN listed ELSE all \ listed
    IN IF Nil \in listed \cup all \/ Cardinality(selected) > SelectedMax THEN Nil
       ELSE selected

----------------------------------------------------------------------------
\* The configuration.

\* expand_list: a reference is replaced by the lines of the file, which may hold none.
expand_list(raw, lines) ==
    Concat([i \in DOMAIN raw |-> IF raw[i] = FileRef THEN lines ELSE <<raw[i]>>])

\* dimension: [mode, list]; the mode defaults to blacklist, another word is an error.
dimension(d, lines) ==
    IF d.mode \notin {"absent", "whitelist", "blacklist"} THEN Nil
    ELSE IF FileRef \in Entries(d.list) /\ FileRef \in Entries(lines) THEN Nil
    ELSE [mode |-> IF d.mode = "absent" THEN "blacklist" ELSE d.mode,
          list |-> expand_list(d.list, lines)]

\* Duplicates are errors, and compared in canonical form: a bare name is user 0.
canonical(selector) == [user |-> IF selector.bare THEN 0 ELSE selector.user, pkg |-> selector.pkg]
Distinct(list) == Cardinality(Entries(list)) = Len(list)

parse_apps(list) ==
    LET apps == [i \in DOMAIN list |-> canonical(list[i])] IN
    IF Len(list) <= SelectedMax /\ Distinct(apps) /\ \A i \in DOMAIN apps : apps[i].user <= UserMax
    THEN Entries(apps) ELSE Nil

\* Prefixes are never masked into shape, and room is left for the fixed ones.
parse_cidrs(list) ==
    IF Distinct(list) /\ (\A i \in DOMAIN list : Canonical(list[i]))
       /\ Len(list) + Cardinality(FixedBypass) <= LpmMax
    THEN Entries(list) ELSE Nil

\* parse_files: one bad dimension refuses the whole configuration.
parse_files(d, lines) ==
    LET apps == dimension(d.apps, lines.apps)
        cidr == dimension(d.cidr, lines.cidr)
    IN IF Nil \in {apps, cidr} THEN Nil
       ELSE IF Nil \in {parse_apps(apps.list), parse_cidrs(cidr.list)} THEN Nil
       ELSE [apps_mode |-> apps.mode, apps |-> parse_apps(apps.list),
             cidr_mode |-> cidr.mode, cidrs |-> parse_cidrs(cidr.list)]

\* The user's prefixes first, so that an exact duplicate stays reserved.
tagged(cidrs) ==
    [p \in cidrs \cup FixedBypass |-> IF p \in FixedBypass THEN "reserved" ELSE "policy"]

\* read_policy_config: the desired policy.  A whitelist without entries does not read
\* the package database.
read_policy_config(d, lines, index) ==
    LET flux == parse_files(d, lines) IN
    IF flux = Nil THEN Nil
    ELSE LET uids == IF flux.apps_mode = "whitelist" /\ flux.apps = {} THEN {}
                     ELSE resolve_selected_uids(flux.apps, flux.apps_mode, index)
         IN IF uids = Nil THEN Nil
            ELSE [flux |-> flux, selected |-> uids, bypass |-> tagged(flux.cidrs)]

----------------------------------------------------------------------------
\* Self addresses.

\* desired_self_addresses: usable addresses, private only if every occurrence is.
Live(dump) == {x.addr : x \in {y \in dump : y.usable}}
Privacy(dump) == {a \in Live(dump) : \A x \in dump : x.usable /\ x.addr = a => x.privacy}

\* address_seen: addresses that left are forgotten, new ones are numbered in order.
Ticked(dump) ==
    LET kept == Live(dump) \cap DOMAIN seen.at
        new == Live(dump) \ kept
    IN [tick |-> seen.tick + Cardinality(new),
        at |-> [a \in Live(dump) |->
                  IF a \in kept THEN seen.at[a]
                  ELSE seen.tick + Cardinality({b \in new : b <= a})]]

\* Mutant of select_self_addresses: the oldest privacy addresses are kept.
select_self_addresses_Oldest(dump, at) ==
    LET stable == Live(dump) \ Privacy(dump)
        room == SelfMax - Cardinality(stable)
    IN IF Cardinality(stable) > SelfMax THEN Nil
       ELSE stable \cup {a \in Privacy(dump) :
                            Cardinality({b \in Privacy(dump) : at[b] < at[a]}) < room}

\* select_self_addresses: every stable address or an error, then the newest others.
select_self_addresses(dump, at) ==
    LET stable == Live(dump) \ Privacy(dump)
        room == SelfMax - Cardinality(stable)
    IN IF Cardinality(stable) > SelfMax THEN Nil
       ELSE stable \cup {a \in Privacy(dump) :
                            Cardinality({b \in Privacy(dump) : at[b] > at[a]}) < room}

----------------------------------------------------------------------------
\* The commit.

\* committed: who leaves is draining until selected again, for the life of the boot.
committed(from, wanted) ==
    [wanted EXCEPT !.draining =
        (from.draining \cup (from.selected \ wanted.selected)) \ wanted.selected]

desired_epoch(desired, selfs) ==
    [cidr_mode |-> desired.flux.cidr_mode, bypass |-> desired.bypass, selfs |-> selfs,
     selected |-> desired.selected, draining |-> {}]

kmod_set_bypass(k, e) ==
    [cidr_mode |-> e.cidr_mode, set |-> parse_set(e.bypass), selfs |-> e.selfs, uids |-> k.uids]

\* The tables have room (apply_policy's checks before the first ioctl).
Fits(e) ==
    /\ Cardinality(e.selected) <= SelectedMax /\ Cardinality(DOMAIN e.bypass) <= LpmMax
    /\ Cardinality(e.selected) + Cardinality(e.draining) <= PolicyMax

----------------------------------------------------------------------------
\* Behaviour.

Epoch0 == [cidr_mode |-> "blacklist", bypass |-> [p \in {} |-> "policy"], selfs |-> {},
           selected |-> {}, draining |-> {}]

NoJob == <<>>

PolicyStart(d, l, p, dump) ==
    /\ doc = d /\ listfile = l /\ packages = p /\ addresses = dump
    /\ mgr = Epoch0 /\ seen = [tick |-> 0, at |-> [a \in {} |-> 0]]
    /\ kern = [cidr_mode |-> "blacklist", set |-> parse_set(Epoch0.bypass), selfs |-> {}, uids |-> {}]
    /\ job = NoJob /\ drifted = FALSE /\ applied = Nil

World == <<doc, listfile, packages, addresses>>
Tables == <<mgr, seen, kern, job, drifted, applied>>

\* The outside world.  The reactor is single-threaded, so that only the kernel looks
\* at the tables between the two ioctls; the world may change then, too.
EditDocument == doc' \in Documents \ {doc} /\ UNCHANGED <<listfile, packages, addresses>>
EditList == listfile' \in ListFiles \ {listfile} /\ UNCHANGED <<doc, packages, addresses>>
PackagesChange == packages' \in PackageLists \ {packages} /\ UNCHANGED <<doc, listfile, addresses>>
Readdress == addresses' \in AddressDumps \ {addresses} /\ UNCHANGED <<doc, listfile, packages>>

PolicyWorld == Change /\ (EditDocument \/ EditList \/ PackagesChange \/ Readdress) /\ UNCHANGED Tables

\* The first half of apply_policy: everything that can be refused is, then SET_BYPASS,
\* whose failure leaves the old set; the ticks have moved in any case.
ApplyBypass ==
    /\ job = NoJob
    /\ LET desired == read_policy_config(doc, listfile, packages)
           selfs == select_self_addresses(addresses, Ticked(addresses).at)
       IN /\ desired # Nil
          /\ seen' = Ticked(addresses)
          /\ \/ UNCHANGED <<kern, job>>
             \/ /\ selfs # Nil
                /\ LET next == committed(mgr, desired_epoch(desired, selfs)) IN
                   /\ Fits(next)
                   /\ kern' = kmod_set_bypass(kern, next)
                   /\ job' = [next |-> next, flux |-> desired.flux, dump |-> addresses]
    /\ UNCHANGED <<mgr, drifted, applied, changes>> /\ UNCHANGED World

\* SET_UIDS succeeds, without the UIDs that are no app's, and the manager records the epoch.
fluxrs_set_uids(uids) == uids \ {0, OverflowUid}
ApplyUids ==
    /\ job # NoJob
    /\ kern' = [kern EXCEPT !.uids = fluxrs_set_uids(job.next.selected)]
    /\ mgr' = job.next /\ applied' = job.flux /\ job' = NoJob /\ drifted' = FALSE
    /\ UNCHANGED <<seen, changes>> /\ UNCHANGED World

\* Mutant of ApplyUidsFails: the new bypass stays.
ApplyUidsFails_Keeps ==
    /\ job # NoJob /\ Change
    /\ job' = NoJob /\ UNCHANGED <<kern, mgr, seen, drifted, applied>> /\ UNCHANGED World

\* SET_UIDS fails: the old bypass is set again, and that call's own error is ignored.
ApplyUidsFails ==
    /\ job # NoJob /\ Change
    /\ \/ kern' = kmod_set_bypass(kern, mgr) /\ drifted' = FALSE
       \/ kern' = kern /\ drifted' = TRUE
    /\ job' = NoJob /\ UNCHANGED <<mgr, seen, applied>> /\ UNCHANGED World

\* publish_inactive: CLEAR_UIDS; the manager's epoch is kept.
publish_inactive ==
    /\ job = NoJob /\ Change
    /\ kern' = [kern EXCEPT !.uids = {}]
    /\ UNCHANGED <<mgr, seen, job, drifted, applied>> /\ UNCHANGED World

PolicyNext == PolicyWorld \/ ApplyBypass \/ ApplyUids \/ ApplyUidsFails \/ publish_inactive

----------------------------------------------------------------------------
\* Properties.

\* compose_uid, application_ids: the engine's own app id is never captured, and a
\* platform UID only when a whitelist wrote it down.
CapturesOnlyApps ==
    \A uid \in kern.uids :
        /\ uid % Stride # 0
        /\ uid % Stride \notin AppMin..AppMax => applied.apps_mode = "whitelist"

\* fluxrs_reserved_dest, tagged: whatever the user's prefixes and their direction, no
\* packet for a fixed prefix is taken, not even between the two ioctls.
ReservedNeverStolen ==
    \A uid \in kern.uids, p \in FixedBypass, a \in Addr : In(a, p) => ~Stolen(kern, uid, a)

\* apply_policy, fluxrs_set_bypass: at rest the module has the manager's epoch, or nothing
\* selected; after a failure it has the old one again, unless the repair failed as well.
\* Outside the fixed prefixes the module's search of its sorted table then gives each
\* packet the verdict observe_new_flow gives for that epoch.
KernelHasEpoch ==
    job = NoJob =>
        /\ kern.uids \in {fluxrs_set_uids(mgr.selected), {}}
        /\ drifted \/ \A uid \in kern.uids, a \in Addr :
              (\A p \in FixedBypass : ~In(a, p)) => (Stolen(kern, uid, a) <=> observe_new_flow(mgr, uid, a))

\* select_self_addresses: a stable address of the device is never proxied, and no
\* privacy address is left out for an older one.
OwnAddressesDirect ==
    job # NoJob =>
        /\ \A uid \in kern.uids, a \in Live(job.dump) \ Privacy(job.dump) : ~Stolen(kern, uid, a)
        /\ \A a \in job.next.selfs \cap Privacy(job.dump), b \in Live(job.dump) \ job.next.selfs :
              seen.at[b] < seen.at[a]

\* apply_policy against the module: in every order of edits, dumps, ioctls and failures the module
\* takes packets of apps only, never for a reserved destination or an own address, and at rest
\* exactly the ones the epoch says.
StealsAsConfigured == CapturesOnlyApps /\ ReservedNeverStolen /\ OwnAddressesDirect /\ KernelHasEpoch
=============================================================================
