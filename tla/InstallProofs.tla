--------------------------- MODULE InstallProofs ----------------------------
(***************************************************************************)
(* fluxd install loses nothing, whatever is interrupted, lost with the     *)
(* power and retried, for any documents, settings and responses and any    *)
(* number of interruptions and edits.                                      *)
(*                                                                         *)
(* The requests of install_locked are in the order of their Rank, each at  *)
(* most once, so the remaining requests say what was done: a file whose    *)
(* rename is not ahead any more has its new content, one whose rename is   *)
(* ahead still has the old one, and a rename is followed by the sync of    *)
(* its directory.  DocsInv, BackupInv and ResponseInv say what a power     *)
(* loss may take back (the files in before), and that it never takes back  *)
(* one file of a pair the other of which depends on it, unless it takes a  *)
(* new directory with all that is in it.  Retried is why a retry is        *)
(* harmless: the documents that would be published for what an interrupted *)
(* installation left are those it would have published.                    *)
(***************************************************************************)
EXTENDS Install, TLAPS

\* The files of an older version, or none; there is no backup yet.
Found(files) ==
    /\ DOMAIN files = Files \ {"main.original", "advanced.original", "log"}
    /\ files["main"] \in Mains \cup {Nil} /\ files["advanced"] \in Advanceds \cup {Nil}

InstallSpec ==
    /\ changes = 0
    /\ \E files, dirs, flag : \E holder \in {"none", "daemon"} :
          Found(files) /\ flag \in BOOLEAN /\ InstallStart(files, dirs, holder, flag)
    /\ [][InstallNext]_<<instvars, changes>>

-----------------------------------------------------------------------------
\* The order of the requests.

Place(f) ==
    CASE f = "main.original" -> 0
      [] f = "advanced.original" -> 1
      [] f = "advanced" -> 2
      [] f = "main" -> 3
      [] f = "template" -> 4
      [] f = "log" -> 5
      [] f = "cache" -> 6
      [] OTHER -> 7

Nth(k, f) == IF k \in {"fill", "adopt"} \/ (k = "remove" /\ f = "raw") THEN 0 ELSE IF k = "sync" THEN 2 ELSE 1
Rank(k, f) == 3 * Place(f) + Nth(k, f)

Written == {"main.original", "advanced.original", "advanced", "main", "template"}
Kinds ==
    {<<k, f>> : k \in {"fill", "rename", "sync"}, f \in Written \cup {"cache"}}
    \cup {<<"adopt", "log">>, <<"move", "log">>, <<"sync", "log">>,
          <<"remove", "raw">>, <<"remove", "url">>, <<"sync", "raw">>}

Ordered(q) ==
    /\ \E S : q \in Seq(S)
    /\ \A i \in 1..Len(q) : <<q[i][1], q[i][2]>> \in Kinds
    /\ \A i, j \in 1..Len(q) : i < j => Rank(q[i][1], q[i][2]) < Rank(q[j][1], q[j][2])

\* A request that is still to be made.
Ahead(q, k, f) == \E i \in 1..Len(q) : q[i][1] = k /\ q[i][2] = f

\* What follows what.
Followed(q) ==
    /\ \A f \in Written \cup {"cache"} : Ahead(q, "rename", f) => Ahead(q, "sync", f)
    /\ \A f \in Written : \A k \in {"fill", "rename", "sync"} : Ahead(q, k, f) => Ahead(q, "adopt", "log")
    /\ \A k \in {"fill", "rename", "sync"} : Ahead(q, k, "cache") => Ahead(q, "sync", "raw")
    /\ Ahead(q, "move", "log") => Ahead(q, "sync", "log")
    /\ Ahead(q, "remove", "raw") \/ Ahead(q, "remove", "url") => Ahead(q, "sync", "raw")

-----------------------------------------------------------------------------
\* The invariant.

Target == Candidate(origin)
Unsynced == DOMAIN before

InstallTypes ==
    /\ changes \in Nat /\ provenance \in BOOLEAN
    /\ DOMAIN disk = Files /\ Unsynced \subseteq Files \ {"oldlog", "log"}
    /\ origin.main \in Mains \cup {Nil} /\ origin.advanced \in Advanceds \cup {Nil}
    /\ DOMAIN inst = {"pc", "todo", "reply"}

\* The documents and the template.
DocsInv ==
    /\ \/ disk.main = origin.main /\ disk.advanced = origin.advanced
       \/ Target # Nil /\ disk.advanced = Target.advanced /\ disk.main \in {origin.main, Target.main}
    /\ "main" \in Unsynced =>
          /\ before["main"] = origin.main /\ Target # Nil /\ disk.main = Target.main
          /\ disk.advanced = Target.advanced /\ "advanced" \notin Unsynced
    /\ "advanced" \in Unsynced =>
          before["advanced"] = origin.advanced /\ disk.main = origin.main /\ "main" \notin Unsynced
    /\ disk.template # origin.template \/ "template" \in Unsynced =>
          /\ Target # Nil /\ disk.main = Target.main /\ disk.advanced = Target.advanced
          /\ "main" \notin Unsynced /\ "advanced" \notin Unsynced

\* The backups: one that is not older than the document is a copy of it, is synced before
\* the document is replaced, and until then may be taken back.
BackupInv ==
    \A f \in {"main", "advanced"} :
        /\ f \notin stale /\ disk[Original(f)] # Nil => disk[Original(f)] = origin[f]
        /\ disk[f] # origin[f] /\ origin[f] # Nil /\ f \notin stale =>
              disk[Original(f)] = origin[f] /\ Original(f) \notin Unsynced
        /\ Original(f) \in Unsynced =>
              before[Original(f)] = Nil /\ disk[f] = origin[f] /\ f \notin Unsynced

\* The response: one of its two places has it for certain.
ResponseInv ==
    adopted # Nil =>
        \/ disk.raw = adopted /\ "raw" \notin Unsynced
        \/ disk.cache = adopted /\ "cache" \notin Unsynced

\* What a rename publishes.
Due(f) ==
    CASE f = "main" -> Target.main
      [] f = "advanced" -> Target.advanced
      [] f = "main.original" -> origin.main
      [] f = "advanced.original" -> origin.advanced
      [] f = "template" -> DefaultTemplate
      [] OTHER -> disk.raw

\* What the requests still ahead say.
AheadInv(q) ==
    /\ \A i \in 1..Len(q) : q[i][1] = "rename" => q[i][3] = Due(q[i][2])
    /\ \A f \in Written : f \in Unsynced => q # <<>> /\ q[1][1] = "sync" /\ q[1][2] = f
    /\ Ahead(q, "rename", "advanced") =>
          disk.main = origin.main /\ disk.advanced = origin.advanced /\ disk.advanced # Target.advanced
    /\ Ahead(q, "rename", "main") => disk.main = origin.main /\ disk.main # Target.main
    /\ ~Ahead(q, "rename", "advanced") => disk.advanced = Target.advanced
    /\ ~Ahead(q, "rename", "main") => disk.main = Target.main
    /\ Ahead(q, "rename", "template") \/ disk.template # Nil
    /\ \A f \in {"main", "advanced"} :
          /\ Ahead(q, "rename", Original(f)) => disk[f] = origin[f] /\ disk[Original(f)] = Nil
          /\ Ahead(q, "rename", f) /\ origin[f] # Nil /\ f \notin stale =>
                Ahead(q, "rename", Original(f)) \/ disk[Original(f)] = origin[f]
    /\ adopted # Nil /\ Ahead(q, "rename", "cache") => disk.raw = adopted /\ "raw" \notin Unsynced
    /\ adopted # Nil /\ Ahead(q, "remove", "raw") =>
          \/ Ahead(q, "rename", "cache")
          \/ disk.cache = adopted /\ ("cache" \notin Unsynced \/ Ahead(q, "sync", "cache"))

WorkInv ==
    /\ inst.pc \in {"idle", "lock", "wait", "work"}
    /\ inst.pc \in {"lock", "wait"} => before = <<>>
    /\ inst.pc = "work" =>
          /\ lock = "install" /\ Target # Nil
          /\ Ordered(inst.todo) /\ Followed(inst.todo) /\ AheadInv(inst.todo)

InstInv == InstallTypes /\ DocsInv /\ BackupInv /\ ResponseInv /\ WorkInv

-----------------------------------------------------------------------------
\* The documents.

\* What prepare keeps, and what it does to a document of the older version.
LEMMA PrepareFacts ==
    ASSUME NEW main \in Mains, NEW given \in Advanceds \cup {Nil}, NEW flag \in BOOLEAN,
           prepare(main, given, flag) # Nil
    PROVE  LET p == prepare(main, given, flag) IN
           /\ p \in Prepared /\ (p.advanced = Nil => given = Nil)
           /\ ~Legacy(main, flag) => p.main = main /\ p.advanced = given
           /\ Legacy(main, flag) =>
                 /\ p.main.subscription = Nil /\ p.main.list = Nil /\ p.main.sources # Nil
                 /\ p.main.mode = IF main.mode = Nil THEN "whitelist" ELSE main.mode
           /\ prepare(main, p.advanced, flag) = p
<1> DEFINE moved == IF main.subscription = Nil THEN [k \in Key |-> Nil] ELSE main.subscription.keys
           there == IF given = Nil THEN [k \in Key |-> Nil] ELSE given
           merged == [k \in Key |-> IF there[k] = Nil THEN moved[k] ELSE there[k]]
           adv == IF \A k \in Key : moved[k] = Nil THEN given ELSE merged
           new == [subscription |-> Nil, list |-> Nil, sources |-> Sources(main),
                   mode |-> IF main.mode = Nil THEN "whitelist" ELSE main.mode]
           p == prepare(main, given, flag)
<1>1. CASE ~Legacy(main, flag)
  <2>1. p = [main |-> main, advanced |-> given]
    BY <1>1 DEF prepare
  <2>2. prepare(main, given, flag) = p /\ p.main = main /\ p.advanced = given
    BY <2>1
  <2> HIDE DEF p
  <2>3. p \in Prepared
    BY <2>1 DEF Prepared
  <2> QED BY <1>1, <2>2, <2>3
<1>2. CASE Legacy(main, flag)
  <2>1. /\ ~(main.sources # Nil /\ main.sources # Sources(main))
        /\ \A k \in Key : ~Conflicts(there[k], moved[k])
        /\ ~(main.subscription # Nil /\ main.subscription.stray)
        /\ p = [main |-> new, advanced |-> adv]
    BY <1>2 DEF prepare
  <2>2. moved \in Advanceds /\ there \in Advanceds
    BY DEF Mains, Subscriptions, Advanceds
  <2>3. merged \in Advanceds
    BY <2>2 DEF Advanceds
  <2>4. Sources(main) \in Seq(Url)
    <3>1. main.list \in Seq(Url) \cup {Nil}
      BY DEF Mains
    <3>2. main.subscription # Nil => main.subscription.url \in Url \cup {Nil}
      BY DEF Mains, Subscriptions
    <3> QED BY <3>1, <3>2 DEF Sources
  <2>5. main.mode \in {"whitelist", "blacklist", Nil}
    BY DEF Mains
  <2>6. new \in Mains /\ Sources(main) # Nil
    BY <2>4, <2>5, InstallAssumption DEF Mains
  <2>7. adv \in Advanceds \cup {Nil}
    BY <2>3
  <2>8. p \in Prepared /\ p.main = new /\ p.advanced = adv
    BY <2>1, <2>6, <2>7 DEF Prepared
  <2>9. prepare(main, adv, flag) = p
    <3> DEFINE there2 == IF adv = Nil THEN [k \in Key |-> Nil] ELSE adv
               merged2 == [k \in Key |-> IF there2[k] = Nil THEN moved[k] ELSE there2[k]]
    <3>1. CASE \A k \in Key : moved[k] = Nil
      BY <3>1 DEF p
    <3>2. CASE ~\A k \in Key : moved[k] = Nil
      <4>1. adv = merged /\ there2 = merged
        BY <3>2, <2>3, InstallAssumption
      <4>2. \A k \in Key : merged[k] = IF there[k] = Nil THEN moved[k] ELSE there[k]
        OBVIOUS
      <4> HIDE DEF merged, there, moved, p, new
      <4>3. \A k \in Key : ~Conflicts(there2[k], moved[k])
        BY <4>1, <4>2, <2>1 DEF Conflicts
      <4>4. \A k \in Key : (IF there2[k] = Nil THEN moved[k] ELSE there2[k]) = merged[k]
        BY <4>1, <4>2
      <4>5. merged2 = merged
        BY <4>4, <2>3 DEF Advanceds
      <4>6. prepare(main, adv, flag) = [main |-> new, advanced |-> merged2]
        BY <1>2, <2>1, <3>2, <4>3 DEF prepare, moved, new
      <4> QED BY <2>1, <4>1, <4>5, <4>6
    <3> QED BY <3>1, <3>2
  <2>10. adv = Nil => given = Nil
    BY <2>3, InstallAssumption
  <2> QED BY <1>2, <2>6, <2>8, <2>9, <2>10
<1> QED BY <1>1, <1>2

\* What is known of the documents that are to be published.
LEMMA TargetFacts ==
    ASSUME NEW o, o["main"] \in Mains \cup {Nil}, o["advanced"] \in Advanceds \cup {Nil},
           provenance \in BOOLEAN, Candidate(o) # Nil
    PROVE  LET t == Candidate(o) IN
           /\ t.main \in Mains /\ t.advanced \in Advanceds \cup {Nil}
           /\ t.main # Nil /\ (t.advanced = Nil => o["advanced"] = Nil)
           /\ o["main"] # Nil => t.main.mode =
                 IF o["main"].mode = Nil /\ Legacy(o["main"], provenance) THEN "whitelist" ELSE o["main"].mode
<1> DEFINE m == IF o.main = Nil THEN DefaultMain ELSE o.main
           a == IF \A f \in Config : o[f] = Nil THEN DefaultAdvanced ELSE o.advanced
           flag == provenance /\ o.main # Nil
           p == prepare(m, a, flag)
<1>1. m \in Mains /\ a \in Advanceds \cup {Nil} /\ flag \in BOOLEAN
  BY InstallAssumption
<1>2. p # Nil /\ Candidate(o) = p
  BY DEF Candidate
<1> HIDE DEF m, a, flag
<1>3. /\ p \in Prepared /\ (p.advanced = Nil => a = Nil)
      /\ ~Legacy(m, flag) => p.main = m
      /\ Legacy(m, flag) => p.main.mode = IF m.mode = Nil THEN "whitelist" ELSE m.mode
  BY <1>1, <1>2, PrepareFacts
<1>4. p.main \in Mains /\ p.advanced \in Advanceds \cup {Nil}
  BY <1>3 DEF Prepared
<1>5. o["main"] # Nil => m = o["main"] /\ flag = provenance
  BY DEF m, flag
<1>6. a = Nil => o["advanced"] = Nil
  BY InstallAssumption DEF a
<1> HIDE DEF p
<1> QED BY <1>2, <1>3, <1>4, <1>5, <1>6, InstallAssumption

\* A retry publishes what the interrupted installation would have published.
LEMMA Retried ==
    ASSUME NEW o, o["main"] \in Mains \cup {Nil}, o["advanced"] \in Advanceds \cup {Nil},
           provenance \in BOOLEAN,
           NEW d,
           \/ \A f \in Config : d[f] = o[f]
           \/ /\ Candidate(o) # Nil /\ d["advanced"] = Candidate(o).advanced
              /\ \/ d["main"] = o["main"] /\ d["template"] = o["template"]
                 \/ d["main"] = Candidate(o).main
    PROVE  Candidate(d) = Candidate(o)
<1> DEFINE m == IF o.main = Nil THEN DefaultMain ELSE o.main
           a == IF \A f \in Config : o[f] = Nil THEN DefaultAdvanced ELSE o.advanced
           flag == provenance /\ o.main # Nil
           p == prepare(m, a, flag)
           dm == IF d.main = Nil THEN DefaultMain ELSE d.main
           da == IF \A f \in Config : d[f] = Nil THEN DefaultAdvanced ELSE d.advanced
           dflag == provenance /\ d.main # Nil
<1>1. CASE \A f \in Config : d[f] = o[f]
  <2>1. d.main = o.main /\ d.advanced = o.advanced /\ d.template = o.template
    BY <1>1 DEF Config
  <2>2. (\A f \in Config : d[f] = Nil) <=> (\A f \in Config : o[f] = Nil)
    BY <1>1
  <2> QED BY <2>1, <2>2 DEF Candidate
<1>2. CASE Candidate(o) # Nil /\ d["advanced"] = Candidate(o).advanced
  <2>1. m \in Mains /\ a \in Advanceds \cup {Nil} /\ flag \in BOOLEAN
    BY InstallAssumption
  <2>2. p # Nil /\ Candidate(o) = p /\ Valid(p.main, p.advanced)
    BY <1>2 DEF Candidate
  <2>3. /\ p \in Prepared
        /\ ~Legacy(m, flag) => p.main = m /\ p.advanced = a
        /\ Legacy(m, flag) =>
              p.main.subscription = Nil /\ p.main.list = Nil /\ p.main.sources # Nil
        /\ prepare(m, p.advanced, flag) = p
    <3> HIDE DEF m, a, flag
    <3> QED BY <2>1, <2>2, PrepareFacts
  <2>4. p.main \in Mains /\ p.main # Nil /\ p.advanced \in Advanceds \cup {Nil}
    BY <2>3, InstallAssumption DEF Prepared
  <2>5. p = [main |-> p.main, advanced |-> p.advanced]
    BY <2>3 DEF Prepared
  <2>6. o.main = Nil => m = DefaultMain /\ flag = FALSE /\ ~Legacy(m, flag)
    BY InstallAssumption DEF Legacy
  <2>7. (\A f \in Config : o[f] = Nil) => p.advanced = DefaultAdvanced /\ DefaultAdvanced # Nil
    BY <2>3, <2>6, InstallAssumption DEF Config
  <2>8. CASE d["main"] = o["main"] /\ d["template"] = o["template"]
    <3>1. dm = m /\ dflag = flag
      BY <2>8
    <3>2. da = p.advanced
      <4>1. CASE \A f \in Config : d[f] = Nil
        <5>1. d.main = Nil /\ d.advanced = Nil /\ d.template = Nil
          BY <4>1 DEF Config
        <5>2. o.main = Nil /\ o.template = Nil /\ p.advanced = Nil
          BY <5>1, <2>8, <1>2, <2>2
        <5>3. p.advanced = a
          BY <5>2, <2>3, <2>6
        <5>4. o.advanced = Nil
          BY <5>2, <5>3, <2>7
        <5>5. \A f \in Config : o[f] = Nil
          BY <5>2, <5>4 DEF Config
        <5> QED BY <5>2, <5>5, <2>7
      <4>2. CASE ~\A f \in Config : d[f] = Nil
        BY <4>2, <1>2, <2>2
      <4> QED BY <4>1, <4>2
    <3>3. prepare(dm, da, dflag) = p
      BY <3>1, <3>2, <2>3
    <3> HIDE DEF m, a, flag, p, dm, da, dflag
    <3>4. Candidate(d) = IF prepare(dm, da, dflag) = Nil THEN Nil
                         ELSE IF Valid(prepare(dm, da, dflag).main, prepare(dm, da, dflag).advanced)
                              THEN prepare(dm, da, dflag) ELSE Nil
      BY DEF Candidate, dm, da, dflag
    <3> QED BY <3>3, <3>4, <2>2
  <2>9. CASE d["main"] = Candidate(o).main
    <3>1. dm = p.main /\ dflag = provenance /\ da = p.advanced
      <4>1. d.main = p.main /\ d.advanced = p.advanced
        BY <2>9, <1>2, <2>2
      <4>2. ~\A f \in Config : d[f] = Nil
        BY <4>1, <2>4 DEF Config
      <4> QED BY <4>1, <4>2, <2>4
    <3>2. ~Legacy(p.main, provenance)
      <4>1. CASE Legacy(m, flag)
        BY <4>1, <2>3 DEF Legacy
      <4>2. CASE ~Legacy(m, flag)
        <5>1. p.main = m
          BY <4>2, <2>3
        <5>2. CASE o.main = Nil
          BY <5>1, <5>2, InstallAssumption DEF Legacy
        <5>3. CASE o.main # Nil
          BY <5>1, <5>3, <4>2
        <5> QED BY <5>2, <5>3
      <4> QED BY <4>1, <4>2
    <3>3. prepare(dm, da, dflag) = p
      <4>1. prepare(p.main, p.advanced, provenance) = [main |-> p.main, advanced |-> p.advanced]
        BY <3>2 DEF prepare
      <4> QED BY <3>1, <4>1, <2>5
    <3> HIDE DEF m, a, flag, p, dm, da, dflag
    <3>4. Candidate(d) = IF prepare(dm, da, dflag) = Nil THEN Nil
                         ELSE IF Valid(prepare(dm, da, dflag).main, prepare(dm, da, dflag).advanced)
                              THEN prepare(dm, da, dflag) ELSE Nil
      BY DEF Candidate, dm, da, dflag
    <3> QED BY <3>3, <3>4, <2>2
  <2> QED BY <1>1, <2>8, <2>9
<1> QED BY <1>1, <1>2

-----------------------------------------------------------------------------
\* Lists of requests.

\* Of a list in order, what is left after its first n requests.
Rest(q, n, t) ==
    /\ Ordered(t) /\ Len(t) = Len(q) - n /\ \A i \in 1..Len(t) : t[i] = q[i + n]
    /\ \A k, f : Ahead(t, k, f) <=> Ahead(q, k, f) /\ Rank(k, f) > Rank(q[n][1], q[n][2])
    /\ \A k, f : Ahead(q, k, f) =>
          Ahead(t, k, f) \/ \E j \in 1..n : q[j][1] = k /\ q[j][2] = f

LEMMA Suffix ==
    ASSUME NEW q, Ordered(q), NEW n \in 1..Len(q),
           NEW t, t = SubSeq(q, n + 1, Len(q))
    PROVE  Rest(q, n, t)
<1>1. PICK S : q \in Seq(S)
  BY DEF Ordered
<1>2. Len(q) \in Nat /\ n \in Nat
  BY <1>1
<1>3. t \in Seq(S) /\ Len(t) = Len(q) - n /\ \A i \in 1..Len(t) : t[i] = q[i + n]
  BY <1>1, <1>2
<1>4. \A i \in 1..Len(t) : i + n \in 1..Len(q)
  BY <1>2, <1>3
<1>5. Ordered(t)
  <2>1. \A i \in 1..Len(t) : <<t[i][1], t[i][2]>> \in Kinds
    BY <1>3, <1>4 DEF Ordered
  <2>2. \A i, j \in 1..Len(t) : i < j => Rank(t[i][1], t[i][2]) < Rank(t[j][1], t[j][2])
    <3> SUFFICES ASSUME NEW i \in 1..Len(t), NEW j \in 1..Len(t), i < j
                 PROVE  Rank(t[i][1], t[i][2]) < Rank(t[j][1], t[j][2])
      OBVIOUS
    <3>1. i + n < j + n
      BY <1>2, <1>3
    <3> QED BY <3>1, <1>3, <1>4 DEF Ordered
  <2> QED BY <2>1, <2>2, <1>3 DEF Ordered
<1>6. ASSUME NEW k, NEW f, Ahead(t, k, f)
      PROVE  Ahead(q, k, f) /\ Rank(k, f) > Rank(q[n][1], q[n][2])
  <2>1. PICK i \in 1..Len(t) : t[i][1] = k /\ t[i][2] = f
    BY <1>6 DEF Ahead
  <2>2. i + n \in 1..Len(q) /\ n < i + n /\ q[i + n][1] = k /\ q[i + n][2] = f
    BY <2>1, <1>2, <1>3, <1>4
  <2>3. Rank(q[n][1], q[n][2]) < Rank(q[i + n][1], q[i + n][2])
    BY <2>2 DEF Ordered
  <2>4. Rank(q[n][1], q[n][2]) \in Nat /\ Rank(k, f) \in Nat
    BY DEF Rank, Place, Nth
  <2> QED BY <2>2, <2>3, <2>4 DEF Ahead
<1>7. ASSUME NEW k, NEW f, Ahead(q, k, f), Rank(k, f) > Rank(q[n][1], q[n][2])
      PROVE  Ahead(t, k, f)
  <2>1. PICK i \in 1..Len(q) : q[i][1] = k /\ q[i][2] = f
    BY <1>7 DEF Ahead
  <2>2. i > n
    <3>1. Rank(q[n][1], q[n][2]) \in Nat /\ Rank(k, f) \in Nat
      BY DEF Rank, Place, Nth
    <3>2. CASE i < n
      <4>1. Rank(q[i][1], q[i][2]) < Rank(q[n][1], q[n][2])
        BY <3>2 DEF Ordered
      <4> QED BY <4>1, <3>1, <2>1, <1>7
    <3>3. CASE i = n
      BY <3>3, <3>1, <2>1, <1>7
    <3> QED BY <3>2, <3>3, <1>2
  <2>3. i - n \in 1..Len(t) /\ t[i - n] = q[i]
    <3>1. i - n \in 1..Len(t) /\ (i - n) + n = i
      BY <2>2, <1>2, <1>3
    <3> QED BY <3>1, <1>3
  <2> QED BY <2>1, <2>3 DEF Ahead
<1>8. ASSUME NEW k, NEW f, Ahead(q, k, f)
      PROVE  Ahead(t, k, f) \/ \E j \in 1..n : q[j][1] = k /\ q[j][2] = f
  <2>1. PICK i \in 1..Len(q) : q[i][1] = k /\ q[i][2] = f
    BY <1>8 DEF Ahead
  <2>2. CASE i > n
    <3>1. i - n \in 1..Len(t) /\ (i - n) + n = i
      BY <2>2, <1>2, <1>3
    <3>2. t[i - n] = q[i]
      BY <3>1, <1>3
    <3> QED BY <3>1, <3>2, <2>1 DEF Ahead
  <2>3. CASE i <= n
    BY <2>1, <2>3, <1>2
  <2> QED BY <2>2, <2>3, <1>2
<1> QED BY <1>3, <1>5, <1>6, <1>7, <1>8 DEF Rest

\* Later requests stay ahead as long as earlier ones.
LEMMA RankFacts ==
    /\ \A k, f : Rank(k, f) \in Nat
    /\ \A f \in Written \cup {"cache"} :
          /\ Rank("sync", f) = Rank("rename", f) + 1
          /\ Rank("rename", f) = Rank("fill", f) + 1
          /\ Rank("fill", f) = 3 * Place(f)
    /\ \A f \in Written : \A k \in {"fill", "rename", "sync"} : Rank(k, f) < Rank("adopt", "log")
    /\ \A k \in {"fill", "rename", "sync"} : Rank(k, "cache") < Rank("sync", "raw") /\ Rank("sync", "log") < Rank(k, "cache")
    /\ Rank("move", "log") < Rank("sync", "log") /\ Rank("adopt", "log") < Rank("move", "log")
    /\ Rank("remove", "raw") < Rank("sync", "raw") /\ Rank("remove", "url") < Rank("sync", "raw")
    /\ Rank("sync", "cache") < Rank("remove", "raw") /\ Rank("remove", "raw") < Rank("remove", "url")
BY DEF Rank, Place, Nth, Written

LEMMA SuffixFollowed ==
    ASSUME NEW q, Ordered(q), Followed(q), NEW n \in 1..Len(q),
           NEW t, t = SubSeq(q, n + 1, Len(q))
    PROVE  Followed(t)
<1>1. \A k, f : Ahead(t, k, f) <=> Ahead(q, k, f) /\ Rank(k, f) > Rank(q[n][1], q[n][2])
  <2>1. Rest(q, n, t)
    BY Suffix
  <2> QED BY <2>1 DEF Rest
<1>2. \A k, f, k2, f2 : Rank(k, f) < Rank(k2, f2) /\ (Ahead(q, k, f) => Ahead(q, k2, f2))
                           => (Ahead(t, k, f) => Ahead(t, k2, f2))
  <2>1. \A k, f : Rank(k, f) \in Nat
    BY RankFacts
  <2> QED BY <1>1, <2>1
<1>3. ASSUME NEW f \in Written \cup {"cache"} PROVE Ahead(t, "rename", f) => Ahead(t, "sync", f)
  <2>1. Rank("sync", f) = Rank("rename", f) + 1 /\ Rank("rename", f) \in Nat
    BY RankFacts
  <2> QED BY <1>2, <2>1 DEF Followed
<1>4. \A f \in Written : \A k \in {"fill", "rename", "sync"} : Ahead(t, k, f) => Ahead(t, "adopt", "log")
  BY <1>2, RankFacts DEF Followed
<1>5. \A k \in {"fill", "rename", "sync"} : Ahead(t, k, "cache") => Ahead(t, "sync", "raw")
  BY <1>2, RankFacts DEF Followed
<1>6. Ahead(t, "move", "log") => Ahead(t, "sync", "log")
  BY <1>2, RankFacts DEF Followed
<1>7. Ahead(t, "remove", "raw") \/ Ahead(t, "remove", "url") => Ahead(t, "sync", "raw")
  BY <1>2, RankFacts DEF Followed
<1> QED BY <1>3, <1>4, <1>5, <1>6, <1>7 DEF Followed

\* The first request and the rest.
LEMMA TailFacts ==
    ASSUME NEW q, Ordered(q), Followed(q), q # <<>>
    PROVE  /\ 1 \in 1..Len(q) /\ Head(q) = q[1] /\ <<q[1][1], q[1][2]>> \in Kinds
           /\ Ordered(Tail(q)) /\ Followed(Tail(q))
           /\ \A i \in 1..Len(Tail(q)) : i + 1 \in 1..Len(q) /\ Tail(q)[i] = q[i + 1]
           /\ \A k, f : Ahead(q, k, f) <=> Ahead(Tail(q), k, f) \/ (q[1][1] = k /\ q[1][2] = f)
           /\ \A k, f : Ahead(Tail(q), k, f) => Rank(k, f) > Rank(q[1][1], q[1][2])
           /\ q[1][1] = "rename" =>
                 Tail(q) # <<>> /\ Tail(q)[1][1] = "sync" /\ Tail(q)[1][2] = q[1][2]
<1>1. PICK S : q \in Seq(S)
  BY DEF Ordered
<1>2. Len(q) \in Nat /\ 1 \in 1..Len(q) /\ Head(q) = q[1] /\ Tail(q) = SubSeq(q, 1 + 1, Len(q))
  BY <1>1
<1> DEFINE t == Tail(q)
<1> HIDE DEF t
<1>3. /\ Ordered(t) /\ Len(t) = Len(q) - 1 /\ \A i \in 1..Len(t) : t[i] = q[i + 1]
      /\ \A k, f : Ahead(t, k, f) <=> Ahead(q, k, f) /\ Rank(k, f) > Rank(q[1][1], q[1][2])
      /\ \A k, f : Ahead(q, k, f) => Ahead(t, k, f) \/ \E j \in 1..1 : q[j][1] = k /\ q[j][2] = f
  <2>1. Rest(q, 1, t)
    BY <1>2, Suffix DEF t
  <2> QED BY <2>1 DEF Rest
<1>4. Followed(t)
  BY <1>2, SuffixFollowed DEF t
<1>5. \A i \in 1..Len(t) : i + 1 \in 1..Len(q)
  BY <1>2, <1>3
<1>6. \A k, f : Ahead(q, k, f) <=> Ahead(t, k, f) \/ (q[1][1] = k /\ q[1][2] = f)
  <2>1. \A k, f : q[1][1] = k /\ q[1][2] = f => Ahead(q, k, f)
    BY <1>2 DEF Ahead
  <2>2. \A k, f : (\E j \in 1..1 : q[j][1] = k /\ q[j][2] = f) => q[1][1] = k /\ q[1][2] = f
    OBVIOUS
  <2>3. \A k, f : Ahead(t, k, f) => Ahead(q, k, f)
    BY <1>3
  <2>4. \A k, f : Ahead(q, k, f) => Ahead(t, k, f) \/ (q[1][1] = k /\ q[1][2] = f)
    BY <2>2, <1>3
  <2> QED BY <2>1, <2>3, <2>4
<1>7. <<q[1][1], q[1][2]>> \in Kinds
  BY <1>2 DEF Ordered
<1>8. ASSUME q[1][1] = "rename"
      PROVE  t # <<>> /\ t[1][1] = "sync" /\ t[1][2] = q[1][2]
  <2>1. q[1][2] \in Written \cup {"cache"}
    BY <1>7, <1>8 DEF Kinds
  <2>2. Ahead(q, "sync", q[1][2])
    BY <2>1, <1>2, <1>8 DEF Followed, Ahead
  <2>3. Ahead(t, "sync", q[1][2])
    BY <2>2, <1>6, <1>8
  <2>4. PICK i \in 1..Len(t) : t[i][1] = "sync" /\ t[i][2] = q[1][2]
    BY <2>3 DEF Ahead
  <2>5. i = 1
    <3> SUFFICES ASSUME i # 1 PROVE FALSE
      OBVIOUS
    <3>1. 1 \in 1..Len(t) /\ 1 < i
      BY <1>2, <1>3
    <3>2. Rank(t[1][1], t[1][2]) < Rank("sync", q[1][2])
      BY <3>1, <2>4, <1>3 DEF Ordered
    <3>3. Ahead(t, t[1][1], t[1][2])
      BY <3>1 DEF Ahead
    <3>4. Rank(t[1][1], t[1][2]) > Rank("rename", q[1][2])
      BY <3>3, <1>3, <1>8
    <3>5. Rank("sync", q[1][2]) = Rank("rename", q[1][2]) + 1
      BY <2>1, RankFacts
    <3>6. Rank("rename", q[1][2]) \in Nat /\ Rank(t[1][1], t[1][2]) \in Nat
      BY RankFacts
    <3> QED BY <3>2, <3>4, <3>5, <3>6
  <2>6. t # <<>>
    BY <2>4, <1>2, <1>3
  <2> QED BY <2>4, <2>5, <2>6
<1> QED BY <1>2, <1>3, <1>4, <1>5, <1>6, <1>7, <1>8 DEF t

-----------------------------------------------------------------------------
\* The plan.

\* A list of requests out of S, in order, with ranks from a to b - 1.
Within(q, S, a, b) ==
    /\ q \in Seq(S)
    /\ \A i \in 1..Len(q) :
          <<q[i][1], q[i][2]>> \in Kinds /\ a <= Rank(q[i][1], q[i][2]) /\ Rank(q[i][1], q[i][2]) < b
    /\ \A i, j \in 1..Len(q) : i < j => Rank(q[i][1], q[i][2]) < Rank(q[j][1], q[j][2])

LEMMA Joined ==
    ASSUME NEW S, NEW a \in Nat, NEW b \in Nat, NEW c \in Nat, a <= b, b <= c,
           NEW p, NEW q, Within(p, S, a, b), Within(q, S, b, c)
    PROVE  /\ Within(p \o q, S, a, c)
           /\ \A k, f : Ahead(p \o q, k, f) <=> Ahead(p, k, f) \/ Ahead(q, k, f)
<1> DEFINE s == p \o q
<1>1. p \in Seq(S) /\ q \in Seq(S) /\ Len(p) \in Nat /\ Len(q) \in Nat
  BY DEF Within
<1>2. /\ s \in Seq(S) /\ Len(s) = Len(p) + Len(q)
      /\ \A i \in 1..Len(p) : i \in 1..Len(s) /\ s[i] = p[i]
      /\ \A i \in 1..Len(q) : i + Len(p) \in 1..Len(s) /\ s[i + Len(p)] = q[i]
  BY <1>1
<1> HIDE DEF s
<1>3. ASSUME NEW i \in 1..Len(s)
      PROVE  i \in 1..Len(p) \/ (i - Len(p) \in 1..Len(q) /\ s[i] = q[i - Len(p)])
  <2>1. CASE i <= Len(p)
    BY <2>1, <1>1, <1>2
  <2>2. CASE i > Len(p)
    <3>1. i - Len(p) \in 1..Len(q) /\ (i - Len(p)) + Len(p) = i
      BY <2>2, <1>1, <1>2
    <3> QED BY <3>1, <1>2
  <2> QED BY <2>1, <2>2, <1>1, <1>2
<1>4. \A k, f : Rank(k, f) \in Nat
  BY RankFacts
<1>5. ASSUME NEW i \in 1..Len(s)
      PROVE  /\ <<s[i][1], s[i][2]>> \in Kinds
             /\ a <= Rank(s[i][1], s[i][2]) /\ Rank(s[i][1], s[i][2]) < c
  <2>1. CASE i \in 1..Len(p)
    BY <2>1, <1>2, <1>4 DEF Within
  <2>2. CASE i - Len(p) \in 1..Len(q) /\ s[i] = q[i - Len(p)]
    BY <2>2, <1>4 DEF Within
  <2> QED BY <2>1, <2>2, <1>3
<1>6. ASSUME NEW i \in 1..Len(s), NEW j \in 1..Len(s), i < j
      PROVE  Rank(s[i][1], s[i][2]) < Rank(s[j][1], s[j][2])
  <2>1. CASE i \in 1..Len(p) /\ j \in 1..Len(p)
    BY <2>1, <1>2, <1>6 DEF Within
  <2>2. CASE i \in 1..Len(p) /\ j - Len(p) \in 1..Len(q) /\ s[j] = q[j - Len(p)]
    <3>1. Rank(s[i][1], s[i][2]) < b
      BY <2>2, <1>2 DEF Within
    <3>2. b <= Rank(s[j][1], s[j][2])
      BY <2>2 DEF Within
    <3> QED BY <3>1, <3>2, <1>4
  <2>3. CASE i - Len(p) \in 1..Len(q) /\ j \in 1..Len(p)
    BY <2>3, <1>1, <1>2, <1>6
  <2>4. CASE /\ i - Len(p) \in 1..Len(q) /\ s[i] = q[i - Len(p)]
             /\ j - Len(p) \in 1..Len(q) /\ s[j] = q[j - Len(p)]
    <3>1. i - Len(p) < j - Len(p)
      BY <1>1, <1>2, <1>6
    <3> QED BY <2>4, <3>1 DEF Within
  <2> QED BY <2>1, <2>2, <2>3, <2>4, <1>3
<1>7. ASSUME NEW k, NEW f
      PROVE  Ahead(s, k, f) <=> Ahead(p, k, f) \/ Ahead(q, k, f)
  <2>1. Ahead(p, k, f) => Ahead(s, k, f)
    BY <1>2 DEF Ahead
  <2>2. Ahead(q, k, f) => Ahead(s, k, f)
    BY <1>2 DEF Ahead
  <2>3. ASSUME Ahead(s, k, f) PROVE Ahead(p, k, f) \/ Ahead(q, k, f)
    <3>1. PICK i \in 1..Len(s) : s[i][1] = k /\ s[i][2] = f
      BY <2>3 DEF Ahead
    <3>2. CASE i \in 1..Len(p)
      <4>1. s[i] = p[i]
        BY <1>2, <3>2
      <4> QED BY <3>1, <3>2, <4>1 DEF Ahead
    <3>3. CASE i - Len(p) \in 1..Len(q) /\ s[i] = q[i - Len(p)]
      BY <3>1, <3>3 DEF Ahead
    <3> QED BY <3>2, <3>3, <1>3
  <2> QED BY <2>1, <2>2, <2>3
<1> QED BY <1>2, <1>5, <1>6, <1>7 DEF s, Within

LEMMA Empty ==
    ASSUME NEW S, NEW a \in Nat, NEW b \in Nat
    PROVE  Within(<<>>, S, a, b) /\ \A k, f : ~Ahead(<<>>, k, f)
BY DEF Within, Ahead

\* The three requests of a file that is written.
LEMMA Writes ==
    ASSUME NEW S, NEW f \in Written \cup {"cache"}, NEW v,
           NEW q, q = <<>> \/ q = write_private_replace(f, v),
           {<<"fill", f, v>>, <<"rename", f, v>>, <<"sync", f, Nil>>} \subseteq S
    PROVE  /\ Within(q, S, 3 * Place(f), 3 * Place(f) + 3)
           /\ \A k, g : Ahead(q, k, g) <=> q # <<>> /\ g = f /\ k \in {"fill", "rename", "sync"}
<1>1. Place(f) \in Nat
  BY DEF Place
<1>2. CASE q = <<>>
  BY <1>1, <1>2, Empty
<1>3. CASE q = <<<<"fill", f, v>>, <<"rename", f, v>>, <<"sync", f, Nil>>>>
  <2>1. /\ Len(q) = 3 /\ q[1] = <<"fill", f, v>> /\ q[2] = <<"rename", f, v>> /\ q[3] = <<"sync", f, Nil>>
        /\ q \in Seq(S) /\ q # <<>>
    BY <1>3
  <2> HIDE <1>3
  <2>2. \A i \in 1..Len(q) : i = 1 \/ i = 2 \/ i = 3
    BY <2>1
  <2>3. /\ <<"fill", f>> \in Kinds /\ <<"rename", f>> \in Kinds /\ <<"sync", f>> \in Kinds
    BY DEF Kinds
  <2>4. Rank("fill", f) = 3 * Place(f) /\ Rank("rename", f) = 3 * Place(f) + 1 /\ Rank("sync", f) = 3 * Place(f) + 2
    BY <1>1, RankFacts
  <2>5. ASSUME NEW i \in 1..Len(q)
        PROVE  <<q[i][1], q[i][2]>> \in Kinds /\ Rank(q[i][1], q[i][2]) = 3 * Place(f) + i - 1
    <3>1. CASE i = 1
      BY <3>1, <2>1, <2>3, <2>4, <1>1
    <3>2. CASE i = 2
      BY <3>2, <2>1, <2>3, <2>4, <1>1
    <3>3. CASE i = 3
      BY <3>3, <2>1, <2>3, <2>4, <1>1
    <3> QED BY <3>1, <3>2, <3>3, <2>2
  <2>6. Within(q, S, 3 * Place(f), 3 * Place(f) + 3)
    BY <2>1, <2>2, <2>5, <1>1 DEF Within
  <2>7. \A k, g : Ahead(q, k, g) <=> g = f /\ k \in {"fill", "rename", "sync"}
    <3>1. \A k, g : Ahead(q, k, g) => g = f /\ k \in {"fill", "rename", "sync"}
      BY <2>1, <2>2 DEF Ahead
    <3>2. Ahead(q, "fill", f) /\ Ahead(q, "rename", f) /\ Ahead(q, "sync", f)
      BY <2>1 DEF Ahead
    <3> QED BY <3>1, <3>2
  <2> QED BY <2>1, <2>6, <2>7
<1> QED BY <1>2, <1>3 DEF write_private_replace

\* The requests of the adoptions.
Moves == <<<<"move", "log", Nil>>, <<"sync", "log", Nil>>>>
Removes == <<<<"remove", "raw", Nil>>, <<"remove", "url", Nil>>, <<"sync", "raw", Nil>>>>

LEMMA Adopts ==
    ASSUME NEW S,
           {<<"adopt", "log", Nil>>, <<"move", "log", Nil>>, <<"sync", "log", Nil>>,
            <<"remove", "raw", Nil>>, <<"remove", "url", Nil>>, <<"sync", "raw", Nil>>} \subseteq S
    PROVE  /\ Within(<<<<"adopt", "log", Nil>>>>, S, 15, 16)
           /\ Within(Moves, S, 16, 18) /\ Within(Removes, S, 21, 24)
           /\ \A k, f : Ahead(<<<<"adopt", "log", Nil>>>>, k, f) <=> k = "adopt" /\ f = "log"
           /\ \A k, f : Ahead(Moves, k, f) <=> k \in {"move", "sync"} /\ f = "log"
           /\ \A k, f : Ahead(Removes, k, f) <=>
                 (k = "remove" /\ f \in {"raw", "url"}) \/ (k = "sync" /\ f = "raw")
<1>1. /\ <<"adopt", "log">> \in Kinds /\ <<"move", "log">> \in Kinds /\ <<"sync", "log">> \in Kinds
      /\ <<"remove", "raw">> \in Kinds /\ <<"remove", "url">> \in Kinds /\ <<"sync", "raw">> \in Kinds
  BY DEF Kinds
<1>2. /\ Rank("adopt", "log") = 15 /\ Rank("move", "log") = 16 /\ Rank("sync", "log") = 17
      /\ Rank("remove", "raw") = 21 /\ Rank("remove", "url") = 22 /\ Rank("sync", "raw") = 23
  BY DEF Rank, Place, Nth
<1>3. ASSUME NEW q, q = <<<<"adopt", "log", Nil>>>>
      PROVE  Within(q, S, 15, 16) /\ \A k, f : Ahead(q, k, f) <=> k = "adopt" /\ f = "log"
  <2>1. q \in Seq(S) /\ Len(q) = 1 /\ q[1] = <<"adopt", "log", Nil>>
    BY <1>3
  <2>2. \A i \in 1..Len(q) : i = 1
    BY <2>1
  <2>3. Within(q, S, 15, 16)
    BY <2>1, <2>2, <1>1, <1>2 DEF Within
  <2> QED BY <2>1, <2>2, <2>3 DEF Ahead
<1>4. ASSUME NEW q, q = Moves
      PROVE  Within(q, S, 16, 18) /\ \A k, f : Ahead(q, k, f) <=> k \in {"move", "sync"} /\ f = "log"
  <2>1. q \in Seq(S) /\ Len(q) = 2 /\ q[1] = <<"move", "log", Nil>> /\ q[2] = <<"sync", "log", Nil>>
    BY <1>4 DEF Moves
  <2>2. \A i \in 1..Len(q) : i = 1 \/ i = 2
    BY <2>1
  <2>3. Within(q, S, 16, 18)
    <3>1. \A i \in 1..Len(q) : <<q[i][1], q[i][2]>> \in Kinds /\ Rank(q[i][1], q[i][2]) = 15 + i
      <4>1. <<q[1][1], q[1][2]>> \in Kinds /\ Rank(q[1][1], q[1][2]) = 16
        BY <2>1, <1>1, <1>2
      <4>2. <<q[2][1], q[2][2]>> \in Kinds /\ Rank(q[2][1], q[2][2]) = 17
        BY <2>1, <1>1, <1>2
      <4> QED BY <4>1, <4>2, <2>2
    <3> QED BY <3>1, <2>1 DEF Within
  <2>4. Ahead(q, "move", "log") /\ Ahead(q, "sync", "log")
    BY <2>1 DEF Ahead
  <2>5. \A k, f : Ahead(q, k, f) => k \in {"move", "sync"} /\ f = "log"
    BY <2>1, <2>2 DEF Ahead
  <2> QED BY <2>3, <2>4, <2>5
<1>5. ASSUME NEW q, q = Removes
      PROVE  /\ Within(q, S, 21, 24)
             /\ \A k, f : Ahead(q, k, f) <=>
                   (k = "remove" /\ f \in {"raw", "url"}) \/ (k = "sync" /\ f = "raw")
  <2>1. /\ q \in Seq(S) /\ Len(q) = 3 /\ q[1] = <<"remove", "raw", Nil>>
        /\ q[2] = <<"remove", "url", Nil>> /\ q[3] = <<"sync", "raw", Nil>>
    BY <1>5 DEF Removes
  <2>2. \A i \in 1..Len(q) : i = 1 \/ i = 2 \/ i = 3
    BY <2>1
  <2>3. Within(q, S, 21, 24)
    <3>1. \A i \in 1..Len(q) : <<q[i][1], q[i][2]>> \in Kinds /\ Rank(q[i][1], q[i][2]) = 20 + i
      <4>1. <<q[1][1], q[1][2]>> \in Kinds /\ Rank(q[1][1], q[1][2]) = 21
        BY <2>1, <1>1, <1>2
      <4>2. <<q[2][1], q[2][2]>> \in Kinds /\ Rank(q[2][1], q[2][2]) = 22
        BY <2>1, <1>1, <1>2
      <4>3. <<q[3][1], q[3][2]>> \in Kinds /\ Rank(q[3][1], q[3][2]) = 23
        BY <2>1, <1>1, <1>2
      <4> QED BY <4>1, <4>2, <4>3, <2>2
    <3> QED BY <3>1, <2>1 DEF Within
  <2>4. Ahead(q, "remove", "raw") /\ Ahead(q, "remove", "url") /\ Ahead(q, "sync", "raw")
    BY <2>1 DEF Ahead
  <2>5. \A k, f : Ahead(q, k, f) => (k = "remove" /\ f \in {"raw", "url"}) \/ (k = "sync" /\ f = "raw")
    BY <2>1, <2>2 DEF Ahead
  <2> QED BY <2>3, <2>4, <2>5
<1> QED BY <1>3, <1>4, <1>5

\* The plan is in order, and says what is not done yet.
LEMMA Planned ==
    ASSUME InstallTypes, DocsInv, BackupInv, ResponseInv, before = <<>>, Target # Nil
    PROVE  LET q == install_locked(Target) IN Ordered(q) /\ Followed(q) /\ AheadInv(q)
<1> DEFINE V == {Nil} \cup {Due(f) : f \in Files}
           Ks == {"fill", "rename", "sync", "adopt", "move", "remove"}
           S == {x \in Ks \X Files \X V : x[1] = "rename" => x[3] = Due(x[2])}
           A == Backup("main", Target)
           B == Backup("advanced", Target)
           C == Publish("advanced", Target)
           D == Publish("main", Target)
           E == When(disk.template = Nil, write_private_replace("template", DefaultTemplate))
           F == <<<<"adopt", "log", Nil>>>>
           G == move_if_absent
           H == adopt_subscription(Target.main)
           q == install_locked(Target)
<1>1. Unsynced = {}
  BY DEF Unsynced
<1>2. /\ Target.main # Nil /\ (Target.advanced = Nil => origin.advanced = Nil)
      /\ Target.main \in Mains /\ Target.advanced \in Advanceds \cup {Nil}
  BY TargetFacts DEF InstallTypes, Target
<1>3. \A f \in Written \cup {"cache"} :
         {<<"fill", f, Due(f)>>, <<"rename", f, Due(f)>>, <<"sync", f, Nil>>} \subseteq S
  <2> SUFFICES ASSUME NEW f \in Written \cup {"cache"}
               PROVE  {<<"fill", f, Due(f)>>, <<"rename", f, Due(f)>>, <<"sync", f, Nil>>} \subseteq S
    OBVIOUS
  <2>1. f \in Files
    BY DEF Written, Files, Config
  <2>2. Due(f) \in V /\ Nil \in V
    BY <2>1
  <2> HIDE DEF V
  <2> QED BY <2>1, <2>2
<1>4. {<<"adopt", "log", Nil>>, <<"move", "log", Nil>>, <<"sync", "log", Nil>>,
       <<"remove", "raw", Nil>>, <<"remove", "url", Nil>>, <<"sync", "raw", Nil>>} \subseteq S
  <2>1. {"log", "raw", "url"} \subseteq Files /\ Nil \in V
    BY DEF Files
  <2> HIDE DEF V
  <2> QED BY <2>1
<1>5. ASSUME NEW x \in Seq(S), NEW i \in 1..Len(x), x[i][1] = "rename"
      PROVE  x[i][3] = Due(x[i][2])
  <2>1. x[i] \in S
    BY <1>5
  <2> QED BY <2>1, <1>5
<1> HIDE DEF S, V, Ks
<1>6. \A f, v : write_private_replace(f, v) # <<>>
  BY DEF write_private_replace
<1>7. /\ A = <<>> \/ A = write_private_replace("main.original", Due("main.original"))
      /\ A # <<>> <=> disk.main # Target.main /\ disk.main # Nil /\ disk["main.original"] = Nil
  <2>1. "main" \in Changed(Target) <=> Target.main # disk.main
    BY <1>2 DEF Changed
  <2>2. Target.main # disk.main => Due("main.original") = disk.main
    BY DEF Due, DocsInv
  <2> QED BY <2>1, <2>2, <1>6 DEF Backup, When, backup_once, Original
<1>8. /\ B = <<>> \/ B = write_private_replace("advanced.original", Due("advanced.original"))
      /\ B # <<>> <=> disk.advanced # Target.advanced /\ disk.advanced # Nil /\ disk["advanced.original"] = Nil
  <2>1. "advanced" \in Changed(Target) <=> Target.advanced # disk.advanced /\ Target.advanced # Nil
    BY DEF Changed
  <2>2. Target.advanced # disk.advanced => Due("advanced.original") = disk.advanced
    BY DEF Due, DocsInv
  <2>3. Target.advanced = Nil => disk.advanced = Nil
    BY <1>2 DEF DocsInv
  <2> QED BY <2>1, <2>2, <2>3, <1>6 DEF Backup, When, backup_once, Original
<1>9. /\ C = <<>> \/ C = write_private_replace("advanced", Due("advanced"))
      /\ C # <<>> <=> disk.advanced # Target.advanced
  <2>1. "advanced" \in Changed(Target) <=> Target.advanced # disk.advanced /\ Target.advanced # Nil
    BY DEF Changed
  <2>2. Due("advanced") = Target.advanced
    BY DEF Due
  <2>3. Target.advanced = Nil => disk.advanced = Nil
    BY <1>2 DEF DocsInv
  <2> QED BY <2>1, <2>2, <2>3, <1>6 DEF Publish, When
<1>10. /\ D = <<>> \/ D = write_private_replace("main", Due("main"))
       /\ D # <<>> <=> disk.main # Target.main
  <2>1. "main" \in Changed(Target) <=> Target.main # disk.main
    BY <1>2 DEF Changed
  <2>2. Due("main") = Target.main
    BY DEF Due
  <2> QED BY <2>1, <2>2, <1>6 DEF Publish, When
<1>11. /\ E = <<>> \/ E = write_private_replace("template", Due("template"))
       /\ E # <<>> <=> disk.template = Nil
  <2>2. Due("template") = DefaultTemplate
    BY DEF Due
  <2> QED BY <2>2, <1>6 DEF When
<1>12. G = <<>> \/ G = Moves
  BY DEF move_if_absent, When, Moves
<1>13. PICK W : /\ W = <<>> \/ W = write_private_replace("cache", Due("cache"))
                /\ H = <<>> \/ H = W \o Removes
                /\ W # <<>> <=> disk.cache = Nil
                /\ H # <<>> => disk.raw # Nil /\ disk.cache \in {Nil, disk.raw}
  <2> DEFINE X == When(disk.cache = Nil, write_private_replace("cache", disk.raw))
  <2>1. Due("cache") = disk.raw
    BY DEF Due
  <2>2. X = <<>> \/ X = write_private_replace("cache", Due("cache"))
    BY <2>1 DEF When
  <2>3. X # <<>> <=> disk.cache = Nil
    BY <1>6 DEF When
  <2>4. /\ H = <<>> \/ H = X \o Removes
        /\ H # <<>> => disk.raw # Nil /\ disk.cache \in {Nil, disk.raw}
    BY DEF adopt_subscription, When, Removes
  <2> QED BY <2>2, <2>3, <2>4
<1> DEFINE P1 == A \o B
           P2 == P1 \o C
           P3 == P2 \o D
           P4 == P3 \o E
           P5 == P4 \o F
           P6 == P5 \o G
           R == W \o Removes
<1>14. q = P6 \o H
  BY DEF install_locked
<1> HIDE DEF A, B, C, D, E, F, G, H, q, P1, P2, P3, P4, P5, P6, R
<1>15. /\ Place("main.original") = 0 /\ Place("advanced.original") = 1 /\ Place("advanced") = 2
       /\ Place("main") = 3 /\ Place("template") = 4 /\ Place("cache") = 6
  BY DEF Place
<1>16. {"main.original", "advanced.original", "advanced", "main", "template", "cache"} = Written \cup {"cache"}
  BY DEF Written
<1>17. /\ Within(A, S, 0, 3) /\ \A k, g : Ahead(A, k, g) <=> A # <<>> /\ g = "main.original" /\ k \in {"fill", "rename", "sync"}
  <2>1. /\ Within(A, S, 3 * Place("main.original"), 3 * Place("main.original") + 3)
        /\ \A k, g : Ahead(A, k, g) <=> A # <<>> /\ g = "main.original" /\ k \in {"fill", "rename", "sync"}
    <3>1. "main.original" \in Written \cup {"cache"}
      BY <1>16
    <3>2. {<<"fill", "main.original", Due("main.original")>>, <<"rename", "main.original", Due("main.original")>>,
           <<"sync", "main.original", Nil>>} \subseteq S
      BY <1>3, <3>1
    <3> QED BY <3>1, <3>2, <1>7, Writes
  <2> QED BY <2>1, <1>15
<1>18. /\ Within(B, S, 3, 6) /\ \A k, g : Ahead(B, k, g) <=> B # <<>> /\ g = "advanced.original" /\ k \in {"fill", "rename", "sync"}
  <2>1. /\ Within(B, S, 3 * Place("advanced.original"), 3 * Place("advanced.original") + 3)
        /\ \A k, g : Ahead(B, k, g) <=> B # <<>> /\ g = "advanced.original" /\ k \in {"fill", "rename", "sync"}
    <3>1. "advanced.original" \in Written \cup {"cache"}
      BY <1>16
    <3>2. {<<"fill", "advanced.original", Due("advanced.original")>>, <<"rename", "advanced.original", Due("advanced.original")>>,
           <<"sync", "advanced.original", Nil>>} \subseteq S
      BY <1>3, <3>1
    <3> QED BY <3>1, <3>2, <1>8, Writes
  <2> QED BY <2>1, <1>15
<1>19. /\ Within(C, S, 6, 9) /\ \A k, g : Ahead(C, k, g) <=> C # <<>> /\ g = "advanced" /\ k \in {"fill", "rename", "sync"}
  <2>1. /\ Within(C, S, 3 * Place("advanced"), 3 * Place("advanced") + 3)
        /\ \A k, g : Ahead(C, k, g) <=> C # <<>> /\ g = "advanced" /\ k \in {"fill", "rename", "sync"}
    <3>1. "advanced" \in Written \cup {"cache"}
      BY <1>16
    <3>2. {<<"fill", "advanced", Due("advanced")>>, <<"rename", "advanced", Due("advanced")>>,
           <<"sync", "advanced", Nil>>} \subseteq S
      BY <1>3, <3>1
    <3> QED BY <3>1, <3>2, <1>9, Writes
  <2> QED BY <2>1, <1>15
<1>20. /\ Within(D, S, 9, 12) /\ \A k, g : Ahead(D, k, g) <=> D # <<>> /\ g = "main" /\ k \in {"fill", "rename", "sync"}
  <2>1. /\ Within(D, S, 3 * Place("main"), 3 * Place("main") + 3)
        /\ \A k, g : Ahead(D, k, g) <=> D # <<>> /\ g = "main" /\ k \in {"fill", "rename", "sync"}
    <3>1. "main" \in Written \cup {"cache"}
      BY <1>16
    <3>2. {<<"fill", "main", Due("main")>>, <<"rename", "main", Due("main")>>,
           <<"sync", "main", Nil>>} \subseteq S
      BY <1>3, <3>1
    <3> QED BY <3>1, <3>2, <1>10, Writes
  <2> QED BY <2>1, <1>15
<1>21. /\ Within(E, S, 12, 15) /\ \A k, g : Ahead(E, k, g) <=> E # <<>> /\ g = "template" /\ k \in {"fill", "rename", "sync"}
  <2>1. /\ Within(E, S, 3 * Place("template"), 3 * Place("template") + 3)
        /\ \A k, g : Ahead(E, k, g) <=> E # <<>> /\ g = "template" /\ k \in {"fill", "rename", "sync"}
    <3>1. "template" \in Written \cup {"cache"}
      BY <1>16
    <3>2. {<<"fill", "template", Due("template")>>, <<"rename", "template", Due("template")>>,
           <<"sync", "template", Nil>>} \subseteq S
      BY <1>3, <3>1
    <3> QED BY <3>1, <3>2, <1>11, Writes
  <2> QED BY <2>1, <1>15
<1>22. /\ Within(F, S, 15, 16) /\ \A k, g : Ahead(F, k, g) <=> k = "adopt" /\ g = "log"
  BY <1>4, Adopts DEF F
<1>23. /\ Within(G, S, 16, 18) /\ \A k, g : Ahead(G, k, g) <=> G # <<>> /\ k \in {"move", "sync"} /\ g = "log"
  <2>1. CASE G = <<>>
    BY <2>1, Empty
  <2>2. CASE G = Moves
    <3>1. Moves # <<>>
      BY DEF Moves
    <3> QED BY <2>2, <3>1, <1>4, Adopts
  <2> QED BY <2>1, <2>2, <1>12
<1>24. /\ Within(W, S, 18, 21) /\ \A k, g : Ahead(W, k, g) <=> W # <<>> /\ g = "cache" /\ k \in {"fill", "rename", "sync"}
  <2>1. /\ Within(W, S, 3 * Place("cache"), 3 * Place("cache") + 3)
        /\ \A k, g : Ahead(W, k, g) <=> W # <<>> /\ g = "cache" /\ k \in {"fill", "rename", "sync"}
    <3>1. "cache" \in Written \cup {"cache"}
      BY <1>16
    <3>2. {<<"fill", "cache", Due("cache")>>, <<"rename", "cache", Due("cache")>>,
           <<"sync", "cache", Nil>>} \subseteq S
      BY <1>3, <3>1
    <3> QED BY <3>1, <3>2, <1>13, Writes
  <2> QED BY <2>1, <1>15
<1>25. /\ Within(R, S, 18, 24)
       /\ \A k, g : Ahead(R, k, g) <=>
             \/ W # <<>> /\ g = "cache" /\ k \in {"fill", "rename", "sync"}
             \/ (k = "remove" /\ g \in {"raw", "url"}) \/ (k = "sync" /\ g = "raw")
  <2>1. /\ Within(Removes, S, 21, 24)
        /\ \A k, g : Ahead(Removes, k, g) <=> (k = "remove" /\ g \in {"raw", "url"}) \/ (k = "sync" /\ g = "raw")
    BY <1>4, Adopts
  <2>2. Within(R, S, 18, 24) /\ \A k, g : Ahead(R, k, g) <=> Ahead(W, k, g) \/ Ahead(Removes, k, g)
    BY <2>1, <1>24, Joined DEF R
  <2> QED BY <2>1, <2>2, <1>24
<1>26. /\ Within(H, S, 18, 24)
       /\ \A k, g : Ahead(H, k, g) <=> H # <<>> /\
             \/ W # <<>> /\ g = "cache" /\ k \in {"fill", "rename", "sync"}
             \/ (k = "remove" /\ g \in {"raw", "url"}) \/ (k = "sync" /\ g = "raw")
  <2>1. CASE H = <<>>
    BY <2>1, Empty
  <2>2. CASE H # <<>>
    BY <2>2, <1>13, <1>25 DEF R
  <2> QED BY <2>1, <2>2
<1>27. Within(P1, S, 0, 6) /\ \A k, g : Ahead(P1, k, g) <=> Ahead(A, k, g) \/ Ahead(B, k, g)
  <2>1. 0 \in Nat /\ 3 \in Nat /\ 6 \in Nat /\ 0 <= 3 /\ 3 <= 6 /\ Within(A, S, 0, 3) /\ Within(B, S, 3, 6)
    BY <1>17, <1>18
  <2>2. Within(A \o B, S, 0, 6) /\ \A k, g : Ahead(A \o B, k, g) <=> Ahead(A, k, g) \/ Ahead(B, k, g)
    BY ONLY <2>1, Joined
  <2> QED BY <2>2 DEF P1
<1>28. Within(P2, S, 0, 9) /\ \A k, g : Ahead(P2, k, g) <=> Ahead(P1, k, g) \/ Ahead(C, k, g)
  BY <1>27, <1>19, Joined DEF P2
<1>29. Within(P3, S, 0, 12) /\ \A k, g : Ahead(P3, k, g) <=> Ahead(P2, k, g) \/ Ahead(D, k, g)
  BY <1>28, <1>20, Joined DEF P3
<1>30. Within(P4, S, 0, 15) /\ \A k, g : Ahead(P4, k, g) <=> Ahead(P3, k, g) \/ Ahead(E, k, g)
  BY <1>29, <1>21, Joined DEF P4
<1>31. Within(P5, S, 0, 16) /\ \A k, g : Ahead(P5, k, g) <=> Ahead(P4, k, g) \/ Ahead(F, k, g)
  BY <1>30, <1>22, Joined DEF P5
<1>32. Within(P6, S, 0, 18) /\ \A k, g : Ahead(P6, k, g) <=> Ahead(P5, k, g) \/ Ahead(G, k, g)
  BY <1>31, <1>23, Joined DEF P6
<1>33. Within(q, S, 0, 24) /\ \A k, g : Ahead(q, k, g) <=> Ahead(P6, k, g) \/ Ahead(H, k, g)
  <2> DEFINE P7 == P6 \o H
  <2>1. q = P7
    BY <1>14
  <2> HIDE DEF P7
  <2>2. Within(P7, S, 0, 24) /\ \A k, g : Ahead(P7, k, g) <=> Ahead(P6, k, g) \/ Ahead(H, k, g)
    <3>1. 0 \in Nat /\ 18 \in Nat /\ 24 \in Nat /\ 0 <= 18 /\ 18 <= 24
      OBVIOUS
    <3>2. Within(P6, S, 0, 18) /\ Within(H, S, 18, 24)
      BY <1>32, <1>26
    <3> QED BY ONLY <3>1, <3>2, Joined DEF P7
  <2> QED BY <2>1, <2>2
<1>34. \A k, g : Ahead(q, k, g) <=>
          \/ Ahead(A, k, g) \/ Ahead(B, k, g) \/ Ahead(C, k, g) \/ Ahead(D, k, g)
          \/ Ahead(E, k, g) \/ Ahead(F, k, g) \/ Ahead(G, k, g) \/ Ahead(H, k, g)
  BY <1>27, <1>28, <1>29, <1>30, <1>31, <1>32, <1>33
<1>35. \A k \in {"fill", "rename", "sync"} :
          /\ Ahead(q, k, "main.original") <=> A # <<>>
          /\ Ahead(q, k, "advanced.original") <=> B # <<>>
          /\ Ahead(q, k, "advanced") <=> C # <<>>
          /\ Ahead(q, k, "main") <=> D # <<>>
          /\ Ahead(q, k, "template") <=> E # <<>>
          /\ Ahead(q, k, "cache") <=> H # <<>> /\ W # <<>>
  BY <1>34, <1>17, <1>18, <1>19, <1>20, <1>21, <1>22, <1>23, <1>26
<1>36. /\ Ahead(q, "adopt", "log")
       /\ Ahead(q, "move", "log") => Ahead(q, "sync", "log")
       /\ Ahead(q, "remove", "raw") => H # <<>> /\ Ahead(q, "sync", "raw")
       /\ Ahead(q, "remove", "url") => H # <<>> /\ Ahead(q, "sync", "raw")
       /\ H # <<>> => Ahead(q, "sync", "raw")
  BY <1>34, <1>17, <1>18, <1>19, <1>20, <1>21, <1>22, <1>23, <1>26
<1>37. Ordered(q)
  BY <1>33 DEF Ordered, Within
<1>38. Followed(q)
  BY <1>35, <1>36 DEF Followed, Written
<1>39. AheadInv(q)
  <2>1. \A i \in 1..Len(q) : q[i][1] = "rename" => q[i][3] = Due(q[i][2])
    BY <1>5, <1>33 DEF Within
  <2>2. \A f \in Written : f \notin Unsynced
    BY <1>1
  <2>3. Ahead(q, "rename", "advanced") =>
           disk.main = origin.main /\ disk.advanced = origin.advanced /\ disk.advanced # Target.advanced
    BY <1>9, <1>35 DEF DocsInv
  <2>4. Ahead(q, "rename", "main") => disk.main = origin.main /\ disk.main # Target.main
    BY <1>10, <1>35 DEF DocsInv
  <2>5. /\ ~Ahead(q, "rename", "advanced") => disk.advanced = Target.advanced
        /\ ~Ahead(q, "rename", "main") => disk.main = Target.main
        /\ Ahead(q, "rename", "template") \/ disk.template # Nil
    BY <1>9, <1>10, <1>11, <1>35
  <2>6. ASSUME NEW f \in {"main", "advanced"}
        PROVE  /\ Ahead(q, "rename", Original(f)) => disk[f] = origin[f] /\ disk[Original(f)] = Nil
               /\ Ahead(q, "rename", f) /\ origin[f] # Nil /\ f \notin stale =>
                     Ahead(q, "rename", Original(f)) \/ disk[Original(f)] = origin[f]
    <3>1. CASE f = "main"
      <4>1. Original(f) = "main.original"
        BY <3>1 DEF Original
      <4>2. f \notin stale /\ disk[Original(f)] # Nil => disk[Original(f)] = origin[f]
        BY DEF BackupInv
      <4> QED BY <3>1, <4>1, <4>2, <2>4, <1>7, <1>10, <1>35 DEF DocsInv
    <3>2. CASE f = "advanced"
      <4>1. Original(f) = "advanced.original"
        BY <3>2 DEF Original
      <4>2. f \notin stale /\ disk[Original(f)] # Nil => disk[Original(f)] = origin[f]
        BY DEF BackupInv
      <4> QED BY <3>2, <4>1, <4>2, <2>3, <1>8, <1>9, <1>35 DEF DocsInv
    <3> QED BY <3>1, <3>2
  <2>7. adopted # Nil /\ Ahead(q, "rename", "cache") => disk.raw = adopted /\ "raw" \notin Unsynced
    BY <1>1, <1>13, <1>35 DEF ResponseInv
  <2>8. adopted # Nil /\ Ahead(q, "remove", "raw") =>
          \/ Ahead(q, "rename", "cache")
          \/ disk.cache = adopted /\ ("cache" \notin Unsynced \/ Ahead(q, "sync", "cache"))
    BY <1>1, <1>13, <1>35, <1>36 DEF ResponseInv
  <2> QED BY <2>1, <2>2, <2>3, <2>4, <2>5, <2>6, <2>7, <2>8 DEF AheadInv
<1> QED BY <1>37, <1>38, <1>39 DEF q

-----------------------------------------------------------------------------
\* The steps.

\* A step of the installer that leaves the documents and the backups alone; what was
\* synced of them may have become more.
LEMMA DocsKept ==
    ASSUME InstallTypes, DocsInv, BackupInv, UNCHANGED <<origin, provenance, stale>>,
           \A f \in Written : disk'[f] = disk[f],
           \A f \in Written : f \in Unsynced' => f \in Unsynced /\ before'[f] = before[f]
    PROVE  DocsInv' /\ BackupInv' /\ Target' = Target
<1>1. Target' = Target
  BY DEF Target, Candidate
<1>2. /\ disk'["main"] = disk["main"] /\ disk'["advanced"] = disk["advanced"]
      /\ disk'["template"] = disk["template"]
      /\ \A f \in {"main", "template", "advanced"} :
            f \in Unsynced' => f \in Unsynced /\ before'[f] = before[f]
  BY DEF Written
<1>3. DocsInv'
  BY <1>1, <1>2 DEF DocsInv
<1>4. \A f \in {"main", "advanced"} : f \in Written /\ Original(f) \in Written
  BY DEF Original, Written
<1>5. BackupInv'
  BY <1>4 DEF BackupInv
<1> QED BY <1>1, <1>3, <1>5

\* A step that ends, or does not concern, the work of an installation.
LEMMA Rests ==
    ASSUME InstInv, UNCHANGED <<disk, origin, provenance, stale, adopted>>, changes' \in Nat,
           before' = before \/ before' = <<>>, DOMAIN inst' = {"pc", "todo", "reply"},
           inst'.pc \in {"idle", "lock", "wait"},
           inst'.pc \in {"lock", "wait"} => before' = <<>>
    PROVE  InstInv'
<1>1. Unsynced' \subseteq Unsynced /\ \A f \in Unsynced' : before'[f] = before[f]
  BY DEF Unsynced
<1>2. DocsInv' /\ BackupInv'
  BY <1>1, DocsKept DEF InstInv
<1>3. ResponseInv'
  BY <1>1 DEF InstInv, ResponseInv
<1>4. InstallTypes'
  BY <1>1 DEF InstInv, InstallTypes
<1>5. WorkInv'
  BY DEF WorkInv
<1> QED BY <1>2, <1>3, <1>4, <1>5 DEF InstInv

LEMMA Starts ==
    ASSUME NEW files, NEW dirs, NEW holder, NEW flag, flag \in BOOLEAN, Found(files),
           changes = 0, InstallStart(files, dirs, holder, flag)
    PROVE  InstInv
<1>1. /\ "main" \in Files /\ "advanced" \in Files /\ "template" \in Files /\ "raw" \in Files
      /\ "main.original" \in Files /\ "advanced.original" \in Files
      /\ "main" \in Config /\ "advanced" \in Config /\ "template" \in Config
  BY DEF Files, Config
<1>2. /\ disk.main = files["main"] /\ disk.advanced = files["advanced"] /\ disk.template = files["template"]
      /\ disk["main.original"] = Nil /\ disk["advanced.original"] = Nil /\ disk.raw = files["raw"]
      /\ origin.main = files["main"] /\ origin.advanced = files["advanced"] /\ origin.template = files["template"]
  BY <1>1 DEF InstallStart, Found, Files, Config
<1>3. Unsynced = {}
  BY DEF InstallStart, Unsynced
<1>4. DocsInv
  BY <1>2, <1>3 DEF DocsInv
<1>5. BackupInv
  BY <1>2, <1>3 DEF BackupInv, Original
<1>6. ResponseInv
  BY <1>2, <1>3 DEF ResponseInv, InstallStart
<1>7. InstallTypes
  BY <1>2, <1>3 DEF InstallTypes, InstallStart, Found, Ready
<1>8. WorkInv
  BY DEF WorkInv, InstallStart, Ready
<1> QED BY <1>4, <1>5, <1>6, <1>7, <1>8 DEF InstInv

\* The plan is made for what the last installation left.
LEMMA Acquires ==
    ASSUME InstInv, acquire
    PROVE  InstInv'
<1>1. before = <<>> /\ UNCHANGED <<disk, before, origin, provenance, stale, adopted, changes>>
  BY DEF acquire, InstInv, WorkInv
<1>2. Candidate(disk) = Target
  <2>1. \/ \A f \in Config : disk[f] = origin[f]
        \/ /\ Candidate(origin) # Nil /\ disk["advanced"] = Candidate(origin).advanced
           /\ \/ disk["main"] = origin["main"] /\ disk["template"] = origin["template"]
              \/ disk["main"] = Candidate(origin).main
    BY DEF InstInv, DocsInv, Target, Config
  <2> QED BY <2>1, Retried DEF InstInv, InstallTypes, Target
<1>3. CASE Target = Nil
  <2>1. inst' = Ready
    BY <1>2, <1>3 DEF acquire
  <2> QED BY <2>1, <1>1, Rests DEF InstInv, InstallTypes, Ready
<1>4. CASE Target # Nil
  <2> DEFINE q == install_locked(Target)
  <2>1. Ordered(q) /\ Followed(q) /\ AheadInv(q)
    BY <1>1, <1>4, Planned DEF InstInv
  <2>2. inst' = [Ready EXCEPT !.pc = "work", !.todo = q] /\ lock' = "install"
    BY <1>2, <1>4 DEF acquire
  <2> HIDE DEF q
  <2>3. inst'.pc = "work" /\ inst'.todo = q /\ DOMAIN inst' = {"pc", "todo", "reply"}
    BY <2>2 DEF Ready
  <2>4. Target' = Target /\ Unsynced' = Unsynced
    BY <1>1 DEF Target, Candidate, Unsynced
  <2>5. \A f : Due(f)' = Due(f)
    BY <1>1, <2>4 DEF Due
  <2>6. AheadInv(inst.todo)'
    BY <1>1, <2>1, <2>3, <2>4, <2>5 DEF AheadInv
  <2>7. WorkInv'
    BY <2>1, <2>2, <2>3, <2>4, <2>6, <1>4 DEF WorkInv
  <2>8. InstallTypes'
    BY <1>1, <2>3, <2>4 DEF InstInv, InstallTypes
  <2>9. DocsInv' /\ BackupInv'
    BY <1>1, <2>4, DocsKept DEF InstInv
  <2>10. ResponseInv'
    BY <1>1, <2>4 DEF InstInv, ResponseInv
  <2> QED BY <2>7, <2>8, <2>9, <2>10 DEF InstInv
<1> QED BY <1>3, <1>4

\* What a request that is carried out leaves behind, whatever its kind.
Carried ==
    /\ InstInv /\ inst.pc = "work" /\ inst.todo # <<>>
    /\ UNCHANGED <<lock, provenance, origin, stale, adopted, changes>>
    /\ inst' = [inst EXCEPT !.todo = Tail(@)]

LEMMA CarriedFacts ==
    ASSUME Carried
    PROVE  LET q == inst.todo
               t == inst'.todo IN
           /\ Ordered(q) /\ Followed(q) /\ AheadInv(q) /\ lock' = "install" /\ Target # Nil /\ Target' = Target
           /\ inst'.pc = "work" /\ DOMAIN inst' = {"pc", "todo", "reply"} /\ changes' \in Nat
           /\ 1 \in 1..Len(q) /\ Head(q) = q[1] /\ <<q[1][1], q[1][2]>> \in Kinds
           /\ Ordered(t) /\ Followed(t)
           /\ \A i \in 1..Len(t) : i + 1 \in 1..Len(q) /\ t[i] = q[i + 1]
           /\ \A k, f : Ahead(q, k, f) <=> Ahead(t, k, f) \/ (q[1][1] = k /\ q[1][2] = f)
           /\ \A k, f : Ahead(t, k, f) => Rank(k, f) > Rank(q[1][1], q[1][2])
           /\ q[1][1] = "rename" => t # <<>> /\ t[1][1] = "sync" /\ t[1][2] = q[1][2]
<1> DEFINE q == inst.todo
<1>1. /\ Ordered(q) /\ Followed(q) /\ AheadInv(q) /\ lock = "install" /\ Target # Nil
      /\ InstallTypes
  BY DEF Carried, InstInv, WorkInv
<1>2. inst'.todo = Tail(q) /\ inst'.pc = "work" /\ DOMAIN inst' = {"pc", "todo", "reply"}
  BY <1>1 DEF Carried, InstallTypes
<1>3. Target' = Target
  BY DEF Carried, Target, Candidate
<1>4. q # <<>> /\ changes' \in Nat /\ lock' = "install"
  BY <1>1 DEF Carried, InstallTypes
<1> HIDE DEF q
<1>5. /\ 1 \in 1..Len(q) /\ Head(q) = q[1] /\ <<q[1][1], q[1][2]>> \in Kinds
      /\ Ordered(Tail(q)) /\ Followed(Tail(q))
      /\ \A i \in 1..Len(Tail(q)) : i + 1 \in 1..Len(q) /\ Tail(q)[i] = q[i + 1]
      /\ \A k, f : Ahead(q, k, f) <=> Ahead(Tail(q), k, f) \/ (q[1][1] = k /\ q[1][2] = f)
      /\ \A k, f : Ahead(Tail(q), k, f) => Rank(k, f) > Rank(q[1][1], q[1][2])
      /\ q[1][1] = "rename" =>
            Tail(q) # <<>> /\ Tail(q)[1][1] = "sync" /\ Tail(q)[1][2] = q[1][2]
  BY <1>1, <1>4, TailFacts
<1> QED BY <1>1, <1>2, <1>3, <1>4, <1>5 DEF q

\* Unless the next request is a sync, no document and no backup waits for one.
LEMMA SyncedFirst ==
    ASSUME Carried, inst.todo[1][1] # "sync"
    PROVE  \A f \in Written : f \notin Unsynced
BY CarriedFacts DEF AheadInv

\* A request that changes no document, no backup and no response.
LEMMA Quiet ==
    ASSUME Carried, inst.todo[1][1] \notin {"rename", "remove"},
           DOMAIN disk' = Files, \A f \in Files \ {"log", "oldlog"} : disk'[f] = disk[f],
           Unsynced' \subseteq Unsynced, \A f \in Unsynced' : before'[f] = before[f],
           \A f \in Written : f \notin Unsynced',
           inst.todo[1][1] = "sync" /\ inst.todo[1][2] = "cache" => "cache" \notin Unsynced'
    PROVE  InstInv'
<1> DEFINE q == inst.todo
           t == inst'.todo
<1>1. InstInv /\ UNCHANGED <<lock, provenance, origin, stale, adopted, changes>>
  BY DEF Carried
<1>2. Written \cup {"raw", "cache"} \subseteq Files \ {"log", "oldlog"}
  BY DEF Written, Files, Config
<1>3. DocsInv' /\ BackupInv'
  BY <1>1, <1>2, DocsKept DEF InstInv
<1>4. disk'["raw"] = disk["raw"] /\ disk'["cache"] = disk["cache"]
  BY <1>2
<1>5. ResponseInv'
  BY <1>1, <1>4 DEF InstInv, ResponseInv
<1>6. InstallTypes'
  BY <1>1, CarriedFacts DEF InstInv, InstallTypes
<1>7. AheadInv(inst.todo)'
  <2>1. \A f : Ahead(t, "rename", f) <=> Ahead(q, "rename", f)
    BY CarriedFacts
  <2>2. \A f : Ahead(t, "remove", f) <=> Ahead(q, "remove", f)
    BY CarriedFacts
  <2>3. AheadInv(q) /\ Target' = Target
    BY CarriedFacts
  <2>4. \A i \in 1..Len(t) : i + 1 \in 1..Len(q) /\ t[i] = q[i + 1]
    BY CarriedFacts
  <2>5. /\ disk'["main"] = disk["main"] /\ disk'["advanced"] = disk["advanced"] /\ disk'["template"] = disk["template"]
        /\ disk'["main.original"] = disk["main.original"] /\ disk'["advanced.original"] = disk["advanced.original"]
    BY <1>2 DEF Written
  <2>6. \A f : Due(f)' = Due(f)
    BY <2>3, <1>1, <1>4 DEF Due
  <2>7. Ahead(q, "sync", "cache") => Ahead(t, "sync", "cache") \/ "cache" \notin Unsynced'
    BY CarriedFacts
  <2>8. \A f \in {"main", "advanced"} : disk'[f] = disk[f] /\ disk'[Original(f)] = disk[Original(f)]
    BY <2>5 DEF Original
  <2> HIDE DEF q
  <2>9. (\A i \in 1..Len(inst.todo) : inst.todo[i][1] = "rename" => inst.todo[i][3] = Due(inst.todo[i][2]))'
    BY <2>3, <2>4, <2>6 DEF AheadInv
  <2>10. /\ Ahead(t, "rename", "advanced") =>
               disk'.main = origin.main /\ disk'.advanced = origin.advanced /\ disk'.advanced # Target.advanced
         /\ Ahead(t, "rename", "main") => disk'.main = origin.main /\ disk'.main # Target.main
         /\ ~Ahead(t, "rename", "advanced") => disk'.advanced = Target.advanced
         /\ ~Ahead(t, "rename", "main") => disk'.main = Target.main
         /\ Ahead(t, "rename", "template") \/ disk'.template # Nil
    BY <2>1, <2>3, <2>5 DEF AheadInv
  <2>11. \A f \in {"main", "advanced"} :
          /\ Ahead(t, "rename", Original(f)) => disk'[f] = origin[f] /\ disk'[Original(f)] = Nil
          /\ Ahead(t, "rename", f) /\ origin[f] # Nil /\ f \notin stale =>
                Ahead(t, "rename", Original(f)) \/ disk'[Original(f)] = origin[f]
    BY <2>1, <2>3, <2>8 DEF AheadInv
  <2>12. adopted # Nil /\ Ahead(t, "rename", "cache") => disk'.raw = adopted /\ "raw" \notin Unsynced'
    BY <2>1, <2>3, <1>4 DEF AheadInv
  <2>13. adopted # Nil /\ Ahead(t, "remove", "raw") =>
          \/ Ahead(t, "rename", "cache")
          \/ disk'.cache = adopted /\ ("cache" \notin Unsynced' \/ Ahead(t, "sync", "cache"))
    BY <2>1, <2>2, <2>3, <2>7, <1>4 DEF AheadInv
  <2> QED BY <1>1, <2>3, <2>9, <2>10, <2>11, <2>12, <2>13 DEF AheadInv
<1>8. WorkInv'
  BY <1>7, CarriedFacts DEF WorkInv
<1> QED BY <1>3, <1>5, <1>6, <1>8 DEF InstInv

\* What a rename or a removal does.
LEMMA ReplacedFacts ==
    ASSUME InstallTypes, NEW f \in Files \ {"log", "oldlog"}, NEW v, Replaced(f, v)
    PROVE  /\ DOMAIN disk' = Files /\ disk'[f] = v /\ \A g \in Files \ {f} : disk'[g] = disk[g]
           /\ Unsynced' = Unsynced \cup {f} /\ Unsynced' \subseteq Files \ {"oldlog", "log"}
           /\ \A g \in Unsynced : before'[g] = before[g]
           /\ f \notin Unsynced => before'[f] = disk[f]
BY DEF Replaced, InstallTypes, Unsynced

\* A rename of a document, a backup or the template: what does not depend on which.
LEMMA Renames ==
    ASSUME Carried, NEW f \in Written, inst.todo[1][1] = "rename", inst.todo[1][2] = f,
           Replaced(f, inst.todo[1][3]), DocsInv', BackupInv',
           /\ Ahead(inst'.todo, "rename", "advanced") =>
                 disk'.main = origin.main /\ disk'.advanced = origin.advanced /\ disk'.advanced # Target.advanced
           /\ Ahead(inst'.todo, "rename", "main") => disk'.main = origin.main /\ disk'.main # Target.main
           /\ ~Ahead(inst'.todo, "rename", "advanced") => disk'.advanced = Target.advanced
           /\ ~Ahead(inst'.todo, "rename", "main") => disk'.main = Target.main
           /\ Ahead(inst'.todo, "rename", "template") \/ disk'.template # Nil
           /\ \A g \in {"main", "advanced"} :
                 /\ Ahead(inst'.todo, "rename", Original(g)) => disk'[g] = origin[g] /\ disk'[Original(g)] = Nil
                 /\ Ahead(inst'.todo, "rename", g) /\ origin[g] # Nil /\ g \notin stale =>
                       Ahead(inst'.todo, "rename", Original(g)) \/ disk'[Original(g)] = origin[g]
    PROVE  InstInv'
<1> DEFINE q == inst.todo
           t == inst'.todo
<1>1. InstInv /\ UNCHANGED <<lock, provenance, origin, stale, adopted, changes>> /\ InstallTypes
  BY DEF Carried, InstInv
<1>2. f \in Files \ {"log", "oldlog"} /\ f \notin {"raw", "cache"} /\ {"raw", "cache"} \subseteq Files
  BY DEF Written, Files, Config
<1>3. /\ DOMAIN disk' = Files /\ \A g \in Files \ {f} : disk'[g] = disk[g]
      /\ Unsynced' = Unsynced \cup {f} /\ Unsynced' \subseteq Files \ {"oldlog", "log"}
  BY <1>1, <1>2, ReplacedFacts
<1>4. disk'["raw"] = disk["raw"] /\ disk'["cache"] = disk["cache"]
  BY <1>2, <1>3
<1>5. ("raw" \in Unsynced' <=> "raw" \in Unsynced) /\ ("cache" \in Unsynced' <=> "cache" \in Unsynced)
  BY <1>2, <1>3
<1>6. ResponseInv'
  BY <1>1, <1>4, <1>5 DEF InstInv, ResponseInv
<1>7. InstallTypes'
  BY <1>1, <1>3, CarriedFacts DEF InstallTypes
<1>8. AheadInv(inst.todo)'
  <2>1. AheadInv(q) /\ Target' = Target
    BY CarriedFacts
  <2>2. \A k : /\ Ahead(t, k, "cache") <=> Ahead(q, k, "cache")
               /\ Ahead(t, k, "raw") <=> Ahead(q, k, "raw")
    BY <1>2, CarriedFacts
  <2>3. \A g : Due(g)' = Due(g)
    BY <2>1, <1>1, <1>4 DEF Due
  <2>4. \A i \in 1..Len(t) : i + 1 \in 1..Len(q) /\ t[i] = q[i + 1]
    BY CarriedFacts
  <2>5. t # <<>> /\ t[1][1] = "sync" /\ t[1][2] = f
    BY CarriedFacts
  <2>6. \A g \in Written : g \in Unsynced' => g = f
    BY <1>3, SyncedFirst
  <2> HIDE DEF q
  <2>7. (\A i \in 1..Len(inst.todo) : inst.todo[i][1] = "rename" => inst.todo[i][3] = Due(inst.todo[i][2]))'
    BY <2>1, <2>3, <2>4 DEF AheadInv
  <2>8. adopted # Nil /\ Ahead(t, "rename", "cache") => disk'.raw = adopted /\ "raw" \notin Unsynced'
    BY <2>1, <2>2, <1>4, <1>5 DEF AheadInv
  <2>9. adopted # Nil /\ Ahead(t, "remove", "raw") =>
          \/ Ahead(t, "rename", "cache")
          \/ disk'.cache = adopted /\ ("cache" \notin Unsynced' \/ Ahead(t, "sync", "cache"))
    BY <2>1, <2>2, <1>4, <1>5 DEF AheadInv
  <2> QED BY <1>1, <2>1, <2>5, <2>6, <2>7, <2>8, <2>9 DEF AheadInv
<1>9. WorkInv'
  BY <1>8, CarriedFacts DEF WorkInv
<1> QED BY <1>6, <1>7, <1>9 DEF InstInv

\* The five files.
LEMMA RenamesWritten ==
    ASSUME Carried, inst.todo[1][1] = "rename", inst.todo[1][2] \in Written,
           Replaced(inst.todo[1][2], inst.todo[1][3])
    PROVE  InstInv'
<1> DEFINE q == inst.todo
           t == inst'.todo
           f == inst.todo[1][2]
<1>1. /\ InstInv /\ UNCHANGED <<lock, provenance, origin, stale, adopted, changes>>
      /\ InstallTypes /\ DocsInv /\ BackupInv
  BY DEF Carried, InstInv
<1>2. AheadInv(q) /\ Target # Nil /\ Target' = Target /\ q[1][3] = Due(f) /\ Ahead(q, "rename", f)
  <2>1. AheadInv(q) /\ Target # Nil /\ Target' = Target /\ 1 \in 1..Len(q)
    BY CarriedFacts
  <2> QED BY <2>1 DEF AheadInv, Ahead
<1>3. Written \subseteq Files \ {"log", "oldlog"}
  BY DEF Written, Files, Config
<1>4. /\ disk'[f] = Due(f) /\ \A g \in Written \ {f} : disk'[g] = disk[g]
      /\ \A g \in Written : g \in Unsynced' <=> g = f
      /\ before'[f] = disk[f]
  <2>1. \A g \in Written : g \notin Unsynced
    BY SyncedFirst
  <2> QED BY <1>1, <1>2, <1>3, <2>1, ReplacedFacts
<1>5. \A g : Ahead(q, "rename", g) <=> Ahead(t, "rename", g) \/ g = f
  BY CarriedFacts
<1>6. \A g : Ahead(t, "rename", g) => Rank("rename", g) > Rank("rename", f)
  BY CarriedFacts
<1>7. /\ Rank("rename", "main.original") = 1 /\ Rank("rename", "advanced.original") = 4
      /\ Rank("rename", "advanced") = 7 /\ Rank("rename", "main") = 10 /\ Rank("rename", "template") = 13
  BY DEF Rank, Place, Nth
<1> HIDE DEF q, t, f
<1>8. /\ Ahead(q, "rename", "advanced") =>
           disk.main = origin.main /\ disk.advanced = origin.advanced /\ disk.advanced # Target.advanced
      /\ Ahead(q, "rename", "main") => disk.main = origin.main /\ disk.main # Target.main
      /\ ~Ahead(q, "rename", "advanced") => disk.advanced = Target.advanced
      /\ ~Ahead(q, "rename", "main") => disk.main = Target.main
      /\ Ahead(q, "rename", "template") \/ disk.template # Nil
      /\ Ahead(q, "rename", "main.original") => disk.main = origin.main /\ disk["main.original"] = Nil
      /\ Ahead(q, "rename", "advanced.original") => disk.advanced = origin.advanced /\ disk["advanced.original"] = Nil
      /\ Ahead(q, "rename", "main") /\ origin.main # Nil /\ "main" \notin stale =>
            Ahead(q, "rename", "main.original") \/ disk["main.original"] = origin.main
      /\ Ahead(q, "rename", "advanced") /\ origin.advanced # Nil /\ "advanced" \notin stale =>
            Ahead(q, "rename", "advanced.original") \/ disk["advanced.original"] = origin.advanced
  BY <1>2 DEF AheadInv, Original
<1> DEFINE Ahead1 ==
      /\ Ahead(t, "rename", "advanced") =>
           disk'.main = origin.main /\ disk'.advanced = origin.advanced /\ disk'.advanced # Target.advanced
      /\ Ahead(t, "rename", "main") => disk'.main = origin.main /\ disk'.main # Target.main
      /\ ~Ahead(t, "rename", "advanced") => disk'.advanced = Target.advanced
      /\ ~Ahead(t, "rename", "main") => disk'.main = Target.main
      /\ Ahead(t, "rename", "template") \/ disk'.template # Nil
      /\ Ahead(t, "rename", "main.original") => disk'.main = origin.main /\ disk'["main.original"] = Nil
      /\ Ahead(t, "rename", "advanced.original") => disk'.advanced = origin.advanced /\ disk'["advanced.original"] = Nil
      /\ Ahead(t, "rename", "main") /\ origin.main # Nil /\ "main" \notin stale =>
            Ahead(t, "rename", "main.original") \/ disk'["main.original"] = origin.main
      /\ Ahead(t, "rename", "advanced") /\ origin.advanced # Nil /\ "advanced" \notin stale =>
            Ahead(t, "rename", "advanced.original") \/ disk'["advanced.original"] = origin.advanced
      Docs1 ==
        /\ disk'.main \in {origin.main, Target.main}
        /\ (disk'.main = origin.main /\ disk'.advanced = origin.advanced) \/ disk'.advanced = Target.advanced
        /\ f = "main" => /\ before'["main"] = origin.main /\ disk'.main = Target.main
                         /\ disk'.advanced = Target.advanced
        /\ f = "advanced" => before'["advanced"] = origin.advanced /\ disk'.main = origin.main
        /\ disk'.template # origin.template \/ f = "template" =>
              /\ disk'.main = Target.main /\ disk'.advanced = Target.advanced
              /\ f # "main" /\ f # "advanced"
      Backs1 ==
        /\ "main" \notin stale /\ disk'["main.original"] # Nil => disk'["main.original"] = origin.main
        /\ "advanced" \notin stale /\ disk'["advanced.original"] # Nil => disk'["advanced.original"] = origin.advanced
        /\ disk'.main # origin.main /\ origin.main # Nil /\ "main" \notin stale =>
              disk'["main.original"] = origin.main /\ f # "main.original"
        /\ disk'.advanced # origin.advanced /\ origin.advanced # Nil /\ "advanced" \notin stale =>
              disk'["advanced.original"] = origin.advanced /\ f # "advanced.original"
        /\ f = "main.original" => before'["main.original"] = Nil /\ disk'.main = origin.main
        /\ f = "advanced.original" => before'["advanced.original"] = Nil /\ disk'.advanced = origin.advanced
<1>9. /\ Due("main") = Target.main /\ Due("advanced") = Target.advanced /\ Due("template") = DefaultTemplate
      /\ Due("main.original") = origin.main /\ Due("advanced.original") = origin.advanced
      /\ DefaultTemplate # Nil
  BY InstallAssumption DEF Due
<1>10. f \in {"main.original", "advanced.original", "advanced", "main", "template"}
  BY DEF f, Written
<1>11. \A g \in {"main.original", "advanced.original", "advanced", "main", "template"} :
          /\ g # f => disk'[g] = disk[g]
          /\ g \in Unsynced' <=> g = f
  BY <1>4 DEF Written
<1>12. /\ disk.main \in {origin.main, Target.main}
       /\ disk.advanced \in {origin.advanced, Target.advanced}
       /\ disk.template # origin.template => disk.main = Target.main /\ disk.advanced = Target.advanced
  BY <1>1 DEF DocsInv
<1>13. /\ "main" \notin stale /\ disk["main.original"] # Nil => disk["main.original"] = origin.main
       /\ "advanced" \notin stale /\ disk["advanced.original"] # Nil => disk["advanced.original"] = origin.advanced
       /\ disk.main # origin.main /\ origin.main # Nil /\ "main" \notin stale => disk["main.original"] = origin.main
       /\ disk.advanced # origin.advanced /\ origin.advanced # Nil /\ "advanced" \notin stale =>
             disk["advanced.original"] = origin.advanced
  BY <1>1 DEF BackupInv, Original
<1>14. Ahead1 /\ Docs1 /\ Backs1
  <2>1. CASE f = "main.original"
    <3>1. /\ Ahead(q, "rename", "main.original")
          /\ ~Ahead(t, "rename", "main.original")
      BY <2>1, <1>2, <1>6, <1>7 DEF q, f
    <3>2. disk'["main.original"] = origin.main /\ before'["main.original"] = Nil
      BY <2>1, <3>1, <1>4, <1>5, <1>8, <1>9
    <3>3. Ahead1
      BY <2>1, <3>1, <3>2, <1>5, <1>8, <1>9, <1>11
    <3>4. Docs1
      BY <2>1, <3>1, <3>2, <1>5, <1>8, <1>11, <1>12
    <3>5. Backs1
      BY <2>1, <3>1, <3>2, <1>5, <1>8, <1>11, <1>13
    <3> QED BY <3>3, <3>4, <3>5
  <2>2. CASE f = "advanced.original"
    <3>1. /\ Ahead(q, "rename", "advanced.original")
          /\ ~Ahead(t, "rename", "main.original")
          /\ ~Ahead(t, "rename", "advanced.original")
      BY <2>2, <1>2, <1>6, <1>7 DEF q, f
    <3>2. disk'["advanced.original"] = origin.advanced /\ before'["advanced.original"] = Nil
      BY <2>2, <3>1, <1>4, <1>5, <1>8, <1>9
    <3>3. Ahead1
      BY <2>2, <3>1, <3>2, <1>5, <1>8, <1>9, <1>11
    <3>4. Docs1
      BY <2>2, <3>1, <3>2, <1>5, <1>8, <1>11, <1>12
    <3>5. Backs1
      BY <2>2, <3>1, <3>2, <1>5, <1>8, <1>11, <1>13
    <3> QED BY <3>3, <3>4, <3>5
  <2>3. CASE f = "advanced"
    <3>1. /\ Ahead(q, "rename", "advanced")
          /\ ~Ahead(t, "rename", "main.original")
          /\ ~Ahead(t, "rename", "advanced.original")
          /\ ~Ahead(t, "rename", "advanced")
      BY <2>3, <1>2, <1>6, <1>7 DEF q, f
    <3>2. disk'.advanced = Target.advanced /\ before'["advanced"] = origin.advanced
      BY <2>3, <3>1, <1>4, <1>5, <1>8, <1>9
    <3>3. Ahead1
      BY <2>3, <3>1, <3>2, <1>5, <1>8, <1>9, <1>11
    <3>4. Docs1
      BY <2>3, <3>1, <3>2, <1>5, <1>8, <1>11, <1>12
    <3>5. Backs1
      BY <2>3, <3>1, <3>2, <1>5, <1>8, <1>11, <1>13
    <3> QED BY <3>3, <3>4, <3>5
  <2>4. CASE f = "main"
    <3>1. /\ Ahead(q, "rename", "main")
          /\ ~Ahead(t, "rename", "main.original")
          /\ ~Ahead(t, "rename", "advanced.original")
          /\ ~Ahead(t, "rename", "advanced")
          /\ ~Ahead(t, "rename", "main")
      BY <2>4, <1>2, <1>6, <1>7 DEF q, f
    <3>2. disk'.main = Target.main /\ before'["main"] = origin.main /\ disk.advanced = Target.advanced
      BY <2>4, <3>1, <1>4, <1>5, <1>8, <1>9
    <3>3. Ahead1
      BY <2>4, <3>1, <3>2, <1>5, <1>8, <1>9, <1>11
    <3>4. Docs1
      BY <2>4, <3>1, <3>2, <1>5, <1>8, <1>11, <1>12
    <3>5. Backs1
      BY <2>4, <3>1, <3>2, <1>5, <1>8, <1>11, <1>13
    <3> QED BY <3>3, <3>4, <3>5
  <2>5. CASE f = "template"
    <3>1. /\ Ahead(q, "rename", "template")
          /\ ~Ahead(t, "rename", "main.original")
          /\ ~Ahead(t, "rename", "advanced.original")
          /\ ~Ahead(t, "rename", "advanced")
          /\ ~Ahead(t, "rename", "main")
          /\ ~Ahead(t, "rename", "template")
      BY <2>5, <1>2, <1>6, <1>7 DEF q, f
    <3>2. disk'.template = DefaultTemplate /\ disk.main = Target.main /\ disk.advanced = Target.advanced
      BY <2>5, <3>1, <1>4, <1>5, <1>8, <1>9
    <3>3. Ahead1
      BY <2>5, <3>1, <3>2, <1>5, <1>8, <1>9, <1>11
    <3>4. Docs1
      BY <2>5, <3>1, <3>2, <1>5, <1>8, <1>11, <1>12
    <3>5. Backs1
      BY <2>5, <3>1, <3>2, <1>5, <1>8, <1>11, <1>13
    <3> QED BY <3>3, <3>4, <3>5
  <2> QED BY <1>10, <2>1, <2>2, <2>3, <2>4, <2>5
<1>15. DocsInv'
  BY <1>1, <1>2, <1>11, <1>14 DEF DocsInv
<1>16. BackupInv'
  BY <1>1, <1>11, <1>14 DEF BackupInv, Original
<1>17. \A g \in {"main", "advanced"} :
          /\ Ahead(t, "rename", Original(g)) => disk'[g] = origin[g] /\ disk'[Original(g)] = Nil
          /\ Ahead(t, "rename", g) /\ origin[g] # Nil /\ g \notin stale =>
                Ahead(t, "rename", Original(g)) \/ disk'[Original(g)] = origin[g]
  BY <1>14 DEF Original
<1> QED BY <1>14, <1>15, <1>16, <1>17, Renames DEF t, f

\* The response is in its new place before it leaves the old one.
LEMMA RenamesCache ==
    ASSUME Carried, inst.todo[1][1] = "rename", inst.todo[1][2] = "cache",
           Replaced("cache", inst.todo[1][3])
    PROVE  InstInv'
<1> DEFINE q == inst.todo
           t == inst'.todo
<1>1. /\ InstInv /\ UNCHANGED <<lock, provenance, origin, stale, adopted, changes>>
      /\ InstallTypes /\ DocsInv /\ BackupInv /\ ResponseInv
  BY DEF Carried, InstInv
<1>2. AheadInv(q) /\ Target' = Target /\ q[1][3] = disk.raw /\ Ahead(q, "rename", "cache")
  <2>1. AheadInv(q) /\ Target' = Target /\ 1 \in 1..Len(q)
    BY CarriedFacts
  <2>2. Due("cache") = disk.raw
    BY DEF Due
  <2> QED BY <2>1, <2>2 DEF AheadInv, Ahead
<1>3. "cache" \in Files \ {"log", "oldlog"} /\ Written \cup {"raw"} \subseteq Files \ {"cache"}
  BY DEF Files, Written, Config
<1>4. /\ DOMAIN disk' = Files /\ disk'["cache"] = disk.raw /\ \A g \in Files \ {"cache"} : disk'[g] = disk[g]
      /\ Unsynced' = Unsynced \cup {"cache"} /\ Unsynced' \subseteq Files \ {"oldlog", "log"}
      /\ \A g \in Unsynced : before'[g] = before[g]
  BY <1>1, <1>2, <1>3, ReplacedFacts
<1>5. \A g \in Written : g \notin Unsynced /\ g \notin Unsynced' /\ disk'[g] = disk[g]
  BY <1>3, <1>4, SyncedFirst
<1>6. DocsInv' /\ BackupInv'
  BY <1>1, <1>5, DocsKept
<1>7. disk'["raw"] = disk["raw"] /\ ("raw" \in Unsynced' <=> "raw" \in Unsynced)
  BY <1>3, <1>4
<1>8. adopted # Nil => disk.raw = adopted /\ "raw" \notin Unsynced
  BY <1>2 DEF AheadInv
<1>9. ResponseInv'
  BY <1>1, <1>7, <1>8 DEF ResponseInv
<1>10. InstallTypes'
  BY <1>1, <1>4, CarriedFacts DEF InstallTypes
<1>11. AheadInv(inst.todo)'
  <2>1. \A g : g # "cache" => (Ahead(t, "rename", g) <=> Ahead(q, "rename", g))
    BY CarriedFacts
  <2>2. ~Ahead(t, "rename", "cache")
    <3>1. Ahead(t, "rename", "cache") => Rank("rename", "cache") > Rank("rename", "cache")
      BY CarriedFacts
    <3>2. Rank("rename", "cache") \in Nat
      BY RankFacts
    <3> QED BY <3>1, <3>2
  <2>3. Ahead(t, "sync", "cache")
    <3>1. t # <<>> /\ t[1][1] = "sync" /\ t[1][2] = "cache" /\ Ordered(t)
      BY CarriedFacts
    <3>2. 1 \in 1..Len(t)
      <4>1. PICK S : t \in Seq(S)
        BY <3>1 DEF Ordered
      <4> QED BY <3>1, <4>1
    <3> QED BY <3>1, <3>2 DEF Ahead
  <2>4. \A g : Due(g)' = Due(g)
    BY <1>1, <1>2, <1>7 DEF Due
  <2>5. \A i \in 1..Len(t) : i + 1 \in 1..Len(q) /\ t[i] = q[i + 1]
    BY CarriedFacts
  <2>6. /\ disk'["main"] = disk["main"] /\ disk'["advanced"] = disk["advanced"] /\ disk'["template"] = disk["template"]
        /\ disk'["main.original"] = disk["main.original"] /\ disk'["advanced.original"] = disk["advanced.original"]
    BY <1>5 DEF Written
  <2>7. \A f \in {"main", "advanced"} :
           disk'[f] = disk[f] /\ disk'[Original(f)] = disk[Original(f)] /\ Original(f) # "cache"
    BY <2>6 DEF Original
  <2> HIDE DEF q
  <2>8. (\A i \in 1..Len(inst.todo) : inst.todo[i][1] = "rename" => inst.todo[i][3] = Due(inst.todo[i][2]))'
    BY <1>2, <2>4, <2>5 DEF AheadInv
  <2>9. /\ Ahead(t, "rename", "advanced") =>
               disk'.main = origin.main /\ disk'.advanced = origin.advanced /\ disk'.advanced # Target.advanced
        /\ Ahead(t, "rename", "main") => disk'.main = origin.main /\ disk'.main # Target.main
        /\ ~Ahead(t, "rename", "advanced") => disk'.advanced = Target.advanced
        /\ ~Ahead(t, "rename", "main") => disk'.main = Target.main
        /\ Ahead(t, "rename", "template") \/ disk'.template # Nil
    BY <2>1, <1>2, <2>6 DEF AheadInv
  <2>10. \A f \in {"main", "advanced"} :
          /\ Ahead(t, "rename", Original(f)) => disk'[f] = origin[f] /\ disk'[Original(f)] = Nil
          /\ Ahead(t, "rename", f) /\ origin[f] # Nil /\ f \notin stale =>
                Ahead(t, "rename", Original(f)) \/ disk'[Original(f)] = origin[f]
    BY <2>1, <1>2, <2>7 DEF AheadInv
  <2> QED BY <1>1, <1>2, <1>4, <1>5, <1>8, <2>2, <2>3, <2>8, <2>9, <2>10 DEF AheadInv
<1>12. WorkInv'
  BY <1>11, CarriedFacts DEF WorkInv
<1> QED BY <1>6, <1>9, <1>10, <1>12 DEF InstInv

\* The removals are the last requests.
LEMMA Removals ==
    ASSUME Carried, inst.todo[1][1] = "remove", Replaced(inst.todo[1][2], inst.todo[1][3])
    PROVE  InstInv'
<1> DEFINE q == inst.todo
           t == inst'.todo
           f == inst.todo[1][2]
<1>1. /\ InstInv /\ UNCHANGED <<lock, provenance, origin, stale, adopted, changes>>
      /\ InstallTypes /\ DocsInv /\ BackupInv /\ ResponseInv
  BY DEF Carried, InstInv
<1>2. AheadInv(q) /\ Target' = Target /\ f \in {"raw", "url"} /\ Ahead(q, "remove", f)
  <2>1. AheadInv(q) /\ Target' = Target /\ 1 \in 1..Len(q) /\ <<q[1][1], q[1][2]>> \in Kinds
    BY CarriedFacts
  <2> QED BY <2>1 DEF Kinds, Ahead
<1>3. {"raw", "url"} \subseteq Files \ {"log", "oldlog"} /\ Written \cup {"cache"} \subseteq Files \ {"raw", "url"}
  BY DEF Files, Written, Config
<1>4. /\ DOMAIN disk' = Files /\ \A g \in Files \ {f} : disk'[g] = disk[g]
      /\ Unsynced' = Unsynced \cup {f} /\ Unsynced' \subseteq Files \ {"oldlog", "log"}
  BY <1>1, <1>2, <1>3, ReplacedFacts
<1>5. \A g \in Written : g \notin Unsynced' /\ disk'[g] = disk[g]
  BY <1>2, <1>3, <1>4, SyncedFirst
<1>6. DocsInv' /\ BackupInv'
  BY <1>1, <1>5, DocsKept
<1>7. disk'["cache"] = disk["cache"] /\ ("cache" \in Unsynced' <=> "cache" \in Unsynced)
  BY <1>2, <1>3, <1>4
<1>8. /\ \A g : ~Ahead(q, "rename", g) /\ ~Ahead(t, "rename", g)
      /\ ~Ahead(q, "sync", "cache") /\ ~Ahead(t, "remove", "raw")
  <2>1. /\ \A k, g : Ahead(q, k, g) <=> Ahead(t, k, g) \/ (q[1][1] = k /\ q[1][2] = g)
        /\ \A k, g : Ahead(t, k, g) => Rank(k, g) > Rank("remove", f)
    BY CarriedFacts
  <2>2. \A k, g : Ahead(t, k, g) => <<k, g>> \in Kinds
    <3>1. Ordered(t)
      BY CarriedFacts
    <3> QED BY <3>1 DEF Ordered, Ahead
  <2>3. Rank("remove", f) \in {21, 22} /\ Rank("remove", "raw") = 21 /\ Rank("sync", "cache") = 20
    BY <1>2 DEF Rank, Place, Nth
  <2>4. \A g : <<"rename", g>> \in Kinds => Rank("rename", g) \in 0..19
    BY DEF Kinds, Written, Rank, Place, Nth
  <2> HIDE DEF f
  <2>5. ASSUME NEW g, Ahead(t, "rename", g) PROVE FALSE
    <3>1. Rank("rename", g) \in 0..19
      BY <2>2, <2>4, <2>5
    <3>2. Rank("rename", g) > Rank("remove", f)
      BY <2>1, <2>5
    <3> HIDE DEF t
    <3> QED BY <3>1, <3>2, <2>3
  <2>6. ~Ahead(t, "sync", "cache") /\ ~Ahead(t, "remove", "raw")
    BY <2>1, <2>3
  <2> QED BY <2>1, <2>5, <2>6
<1>9. ResponseInv'
  <2>1. CASE f = "raw"
    BY <2>1, <1>1, <1>2, <1>7, <1>8 DEF ResponseInv, AheadInv
  <2>2. CASE f = "url"
    <3>1. disk'["raw"] = disk["raw"] /\ ("raw" \in Unsynced' <=> "raw" \in Unsynced)
      BY <2>2, <1>3, <1>4
    <3> QED BY <3>1, <1>1, <1>7 DEF ResponseInv
  <2> QED BY <2>1, <2>2, <1>2
<1>10. InstallTypes'
  BY <1>1, <1>4, CarriedFacts DEF InstallTypes
<1>11. AheadInv(inst.todo)'
  <2>1. /\ disk'["main"] = disk["main"] /\ disk'["advanced"] = disk["advanced"] /\ disk'["template"] = disk["template"]
    BY <1>5 DEF Written
  <2>2. \A i \in 1..Len(t) : t[i][1] # "rename"
    BY <1>8 DEF Ahead
  <2>3. disk.main = Target.main /\ disk.advanced = Target.advanced /\ disk.template # Nil
    BY <1>2, <1>8 DEF AheadInv
  <2> QED BY <1>1, <1>2, <1>5, <1>8, <2>1, <2>2, <2>3 DEF AheadInv
<1>12. WorkInv'
  BY <1>11, CarriedFacts DEF WorkInv
<1> QED BY <1>6, <1>9, <1>10, <1>12 DEF InstInv

LEMMA Works ==
    ASSUME InstInv, Work
    PROVE  InstInv'
<1> DEFINE h == inst.todo[1]
<1>1. Carried
  BY DEF Work, Carried
<1>2. Head(inst.todo) = h /\ <<h[1], h[2]>> \in Kinds
  BY <1>1, CarriedFacts
<1>3. InstallTypes /\ WorkInv
  BY DEF InstInv
<1> HIDE DEF h
<1>4. h[1] \in {"fill", "adopt", "rename", "remove", "move", "sync"}
  BY <1>2 DEF Kinds
<1>5. CASE h[1] \in {"fill", "adopt"}
  <2>1. UNCHANGED <<disk, before>>
    BY <1>2, <1>5 DEF Work
  <2>2. \A f \in Written : f \notin Unsynced
    BY <1>1, <1>5, SyncedFirst DEF h
  <2> QED BY <1>1, <1>3, <1>5, <2>1, <2>2, Quiet DEF h, Unsynced, InstallTypes
<1>6. CASE h[1] = "move"
  <2>1. disk' = [disk EXCEPT !.log = disk.oldlog, !.oldlog = Nil] /\ UNCHANGED before
    BY <1>2, <1>6 DEF Work
  <2>2. \A f \in Written : f \notin Unsynced
    BY <1>1, <1>6, SyncedFirst DEF h
  <2>3. DOMAIN disk' = Files /\ \A f \in Files \ {"log", "oldlog"} : disk'[f] = disk[f]
    BY <1>3, <2>1 DEF InstallTypes
  <2> QED BY <1>1, <1>6, <2>1, <2>2, <2>3, Quiet DEF h, Unsynced
<1>7. CASE h[1] = "sync"
  <2>1. before' = [f \in {g \in DOMAIN before : Dir(g) # Dir(h[2])} |-> before[f]] /\ UNCHANGED disk
    BY <1>2, <1>7 DEF Work
  <2>2. /\ Unsynced' \subseteq Unsynced /\ \A f \in Unsynced' : before'[f] = before[f]
        /\ h[2] \notin Unsynced'
    BY <2>1 DEF Unsynced
  <2>3. \A f \in Written : f \notin Unsynced'
    <3>1. \A f \in Written : f \in Unsynced => h[2] = f
      BY <1>1, CarriedFacts DEF AheadInv, h
    <3> QED BY <3>1, <2>2
  <2> QED BY <1>1, <1>3, <1>7, <2>1, <2>2, <2>3, Quiet DEF h, InstallTypes
<1>8. CASE h[1] = "rename"
  <2>1. Replaced(h[2], h[3])
    BY <1>2, <1>8 DEF Work
  <2>2. h[2] \in Written \cup {"cache"}
    BY <1>2, <1>8 DEF Kinds
  <2> QED BY <1>1, <1>8, <2>1, <2>2, RenamesWritten, RenamesCache DEF h
<1>9. CASE h[1] = "remove"
  <2>1. Replaced(h[2], h[3])
    BY <1>2, <1>9 DEF Work
  <2> QED BY <1>1, <1>9, <2>1, Removals DEF h
<1> QED BY <1>4, <1>5, <1>6, <1>7, <1>8, <1>9

\* What is given up is one adoption; the documents are behind it, and so is the cache when the
\* pair is still to be removed.
LEMMA GivesUp ==
    ASSUME NEW q, Ordered(q), Followed(q), AheadInv(q), q # <<>>,
           \A i \in DOMAIN q : q[i][1] # "adopt"
    PROVE  LET ends == {i \in DOMAIN q : q[i][1] = "sync" /\ Dir(q[i][2]) = "run"}
               end == CHOOSE i \in ends : \A j \in ends : i <= j
               t == SubSeq(q, end + 1, Len(q))
           IN  Ordered(t) /\ Followed(t) /\ AheadInv(t)
<1> DEFINE ends == {i \in DOMAIN q : q[i][1] = "sync" /\ Dir(q[i][2]) = "run"}
           end == CHOOSE i \in ends : \A j \in ends : i <= j
           t == SubSeq(q, end + 1, Len(q))
<1>1. PICK S : q \in Seq(S)
  BY DEF Ordered
<1>2. DOMAIN q = 1..Len(q) /\ Len(q) \in Nat /\ 1 \in 1..Len(q)
  BY <1>1
<1>3. \A i \in 1..Len(q) : <<q[i][1], q[i][2]>> \in Kinds
  BY DEF Ordered
<1>4. \A f \in Written : \A k \in {"fill", "rename", "sync"} : ~Ahead(q, k, f)
  <2>1. ~Ahead(q, "adopt", "log")
    BY <1>2 DEF Ahead
  <2> QED BY <2>1 DEF Followed
<1>5. \A f \in Written : f \notin Unsynced
  BY <1>2, <1>4 DEF AheadInv, Ahead
<1>6. Ahead(q, "sync", "log") \/ Ahead(q, "sync", "raw")
  <2>1. Ahead(q, q[1][1], q[1][2]) /\ <<q[1][1], q[1][2]>> \in Kinds /\ q[1][1] # "adopt"
    BY <1>2, <1>3 DEF Ahead
  <2>2. \/ q[1][1] \in {"fill", "rename", "sync"} /\ q[1][2] = "cache"
        \/ q[1][1] = "move" /\ q[1][2] = "log"
        \/ q[1][1] = "remove" /\ q[1][2] \in {"raw", "url"}
        \/ q[1][1] = "sync" /\ q[1][2] \in {"log", "raw"}
    BY <2>1, <1>4 DEF Kinds
  <2> QED BY <2>1, <2>2 DEF Followed
<1>7. \A i \in ends : i \in 1..Len(q) /\ q[i][1] = "sync" /\ q[i][2] \in {"log", "raw"}
  BY <1>2, <1>3 DEF Kinds, Dir, Written, Config
<1>8. \A i \in 1..Len(q) : q[i][1] = "sync" /\ q[i][2] \in {"log", "raw"} => i \in ends
  BY <1>2 DEF Dir, Config
<1>9. Rank("sync", "log") = 17 /\ Rank("sync", "raw") = 23 /\ Rank("remove", "raw") = 21
      /\ Rank("rename", "cache") = 19 /\ Rank("sync", "cache") = 20
  BY DEF Rank, Place, Nth
<1> HIDE DEF ends
<1>10. \E i \in ends : \A j \in ends : i <= j
  <2>1. CASE Ahead(q, "sync", "log")
    <3>1. PICK a \in 1..Len(q) : q[a][1] = "sync" /\ q[a][2] = "log"
      BY <2>1 DEF Ahead
    <3>2. a \in ends
      BY <3>1, <1>8
    <3>3. ASSUME NEW j \in ends PROVE a <= j
      <4>1. j \in 1..Len(q) /\ Rank(q[j][1], q[j][2]) \in {17, 23} /\ Rank(q[a][1], q[a][2]) = 17
        BY <1>7, <1>9, <3>1
      <4>2. j < a => Rank(q[j][1], q[j][2]) < Rank(q[a][1], q[a][2])
        BY <4>1 DEF Ordered
      <4> QED BY <4>1, <4>2, <1>2
    <3> QED BY <3>2, <3>3
  <2>2. CASE ~Ahead(q, "sync", "log")
    <3>1. PICK a \in 1..Len(q) : q[a][1] = "sync" /\ q[a][2] = "raw"
      BY <2>2, <1>6 DEF Ahead
    <3>2. a \in ends
      BY <3>1, <1>8
    <3>3. ASSUME NEW j \in ends PROVE a <= j
      <4>1. j \in 1..Len(q) /\ Rank(q[j][1], q[j][2]) = 23 /\ Rank(q[a][1], q[a][2]) = 23
        BY <1>7, <1>9, <3>1, <2>2 DEF Ahead
      <4>2. j < a => Rank(q[j][1], q[j][2]) < Rank(q[a][1], q[a][2])
        BY <4>1 DEF Ordered
      <4> QED BY <4>1, <4>2, <1>2
    <3> QED BY <3>2, <3>3
  <2> QED BY <2>1, <2>2
<1>11. end \in ends
  BY <1>10
<1> HIDE DEF end
<1>12. end \in 1..Len(q) /\ q[end][1] = "sync" /\ q[end][2] \in {"log", "raw"}
  BY <1>7, <1>11
<1>13. Ordered(t) /\ Followed(t) /\ Rest(q, end, t)
  <2>1. Rest(q, end, t)
    BY <1>12, Suffix
  <2> QED BY <2>1, <1>12, SuffixFollowed DEF Rest
<1> HIDE DEF t
<1>14. /\ \A i \in 1..Len(t) : i + end \in 1..Len(q) /\ t[i] = q[i + end]
       /\ \A k, f : Ahead(t, k, f) <=> Ahead(q, k, f) /\ Rank(k, f) > Rank(q[end][1], q[end][2])
  <2>1. Len(t) = Len(q) - end
    BY <1>13 DEF Rest
  <2>2. \A i \in 1..Len(t) : i + end \in 1..Len(q)
    BY <2>1, <1>2, <1>12
  <2> QED BY <2>2, <1>13 DEF Rest
<1>15. \A f \in Written : ~Ahead(t, "rename", f)
  BY <1>4, <1>14
<1>16. Ahead(t, "remove", "raw") =>
          /\ Ahead(q, "rename", "cache") => Ahead(t, "rename", "cache")
          /\ Ahead(q, "sync", "cache") => Ahead(t, "sync", "cache")
  <2> SUFFICES ASSUME Ahead(t, "remove", "raw")
               PROVE  Rank(q[end][1], q[end][2]) = 17
    BY <1>9, <1>14
  <2> QED BY <1>9, <1>12, <1>14
<1>17. \A i \in 1..Len(t) : t[i][1] = "rename" => t[i][3] = Due(t[i][2])
  BY <1>14 DEF AheadInv
<1>18. {"main", "advanced", "template", "main.original", "advanced.original"} \subseteq Written
  BY DEF Written
<1>19. disk.advanced = Target.advanced /\ disk.main = Target.main /\ disk.template # Nil
  BY <1>4, <1>18 DEF AheadInv
<1>20. \A f \in {"main", "advanced"} : ~Ahead(t, "rename", Original(f)) /\ ~Ahead(t, "rename", f)
  BY <1>15, <1>18 DEF Original
<1>21. Ahead(t, "rename", "cache") => Ahead(q, "rename", "cache")
  BY <1>14
<1>22. Ahead(t, "remove", "raw") => Ahead(q, "remove", "raw")
  BY <1>14
<1>23. ~Ahead(t, "rename", "advanced") /\ ~Ahead(t, "rename", "main") /\ ~Ahead(t, "rename", "template")
  BY <1>15, <1>18
<1>24. /\ adopted # Nil /\ Ahead(t, "rename", "cache") => disk.raw = adopted /\ "raw" \notin Unsynced
       /\ adopted # Nil /\ Ahead(t, "remove", "raw") =>
            \/ Ahead(t, "rename", "cache")
            \/ disk.cache = adopted /\ ("cache" \notin Unsynced \/ Ahead(t, "sync", "cache"))
  BY <1>16, <1>21, <1>22 DEF AheadInv
<1>25. AheadInv(t)
  BY <1>5, <1>17, <1>19, <1>20, <1>23, <1>24 DEF AheadInv
<1> QED BY <1>13, <1>25 DEF t, end, ends

LEMMA Fails ==
    ASSUME InstInv, WorkFails
    PROVE  InstInv'
<1> DEFINE q == inst.todo
           ends == {i \in DOMAIN q : q[i][1] = "sync" /\ Dir(q[i][2]) = "run"}
           end == CHOOSE i \in ends : \A j \in ends : i <= j
           t == SubSeq(q, end + 1, Len(q))
<1>1. /\ UNCHANGED <<disk, before, origin, provenance, stale, adopted>> /\ changes' \in Nat
      /\ inst.pc = "work" /\ q # <<>> /\ lock = "install" /\ Target # Nil
      /\ Ordered(q) /\ Followed(q) /\ AheadInv(q) /\ InstallTypes
  BY DEF WorkFails, Change, InstInv, InstallTypes, WorkInv
<1>2. CASE \E i \in DOMAIN q : q[i][1] = "adopt"
  <2>1. inst' = Ready
    BY <1>2 DEF WorkFails, Leaves
  <2> QED BY <2>1, <1>1, Rests DEF Ready
<1>3. CASE \A i \in DOMAIN q : q[i][1] # "adopt"
  <2>1. inst' = [inst EXCEPT !.todo = t] /\ lock' = lock
    BY <1>3 DEF WorkFails
  <2>2. Ordered(t) /\ Followed(t) /\ AheadInv(t)
    BY <1>1, <1>3, GivesUp
  <2> HIDE DEF t, q
  <2>3. inst'.pc = "work" /\ inst'.todo = t /\ DOMAIN inst' = {"pc", "todo", "reply"}
    BY <1>1, <2>1 DEF InstallTypes
  <2>4. Target' = Target /\ Unsynced' = Unsynced
    BY <1>1 DEF Target, Candidate, Unsynced
  <2>5. \A f : Due(f)' = Due(f)
    BY <1>1, <2>4 DEF Due
  <2>6. AheadInv(inst.todo)'
    BY <1>1, <2>2, <2>3, <2>4, <2>5 DEF AheadInv
  <2>7. WorkInv'
    BY <1>1, <2>1, <2>2, <2>3, <2>4, <2>6 DEF WorkInv
  <2>8. InstallTypes'
    BY <1>1, <2>3, <2>4 DEF InstallTypes
  <2>9. DocsInv' /\ BackupInv'
    BY <1>1, <2>4, DocsKept DEF InstInv
  <2>10. ResponseInv'
    BY <1>1, <2>4 DEF InstInv, ResponseInv
  <2> QED BY <2>7, <2>8, <2>9, <2>10 DEF InstInv
<1> QED BY <1>2, <1>3

\* What a power loss takes back of a pair is its later part; with a directory it takes the
\* promise made of what was in it.
LEMMA Loses ==
    ASSUME InstInv, PowerLoss
    PROVE  InstInv'
<1>1. PICK lost \in SUBSET Unsynced, gone \in SUBSET Directories :
         /\ disk' = [f \in Files |-> IF Dir(f) \in gone THEN Nil ELSE IF f \in lost THEN before[f] ELSE disk[f]]
         /\ stale' = IF "migrations" \in gone THEN {f \in {"main", "advanced"} : disk'[f] # origin[f]} ELSE stale
         /\ adopted' = IF "sources" \in gone /\ disk'.raw # adopted THEN Nil ELSE adopted
  BY DEF PowerLoss, Unsynced
<1>2. /\ InstallTypes /\ DocsInv /\ BackupInv /\ ResponseInv
      /\ UNCHANGED <<origin, provenance>>
      /\ inst' = Ready /\ before' = <<>> /\ changes' \in Nat
  BY DEF InstInv, PowerLoss, Change, InstallTypes
<1>3. Unsynced' = {} /\ Target' = Target
  BY <1>2 DEF Unsynced, Target, Candidate
<1>4. {"main", "advanced", "template", "main.original", "advanced.original", "raw", "cache"} \subseteq Files
  BY DEF Files, Config
<1>0. /\ \A f \in {"main", "advanced", "template", "raw"} : Dir(f) \notin gone
      /\ Dir("main.original") = "migrations" /\ Dir("advanced.original") = "migrations" /\ Dir("cache") = "sources"
  BY <1>1 DEF Dir, Directories, Config
<1>5. /\ DOMAIN disk' = Files
      /\ \A f \in Files : Dir(f) \notin gone => disk'[f] = IF f \in lost THEN before[f] ELSE disk[f]
      /\ \A f \in Files : Dir(f) \in gone => disk'[f] = Nil
      /\ \A f \in Files : Dir(f) \notin gone /\ f \notin Unsynced => disk'[f] = disk[f]
  BY <1>1
<1>6. \A f \in {"main", "advanced"} : disk'[f] # origin[f] => disk'[f] = disk[f]
  BY <1>2, <1>0, <1>4, <1>5 DEF DocsInv
<1>7. DocsInv'
  <2>1. CASE "main" \in lost
    <3>1. /\ "main" \in Unsynced /\ before["main"] = origin.main /\ Target # Nil
          /\ disk.advanced = Target.advanced /\ "advanced" \notin Unsynced
      BY <2>1, <1>1, <1>2 DEF DocsInv
    <3>2. disk.template = origin.template /\ "template" \notin Unsynced
      BY <3>1, <1>2 DEF DocsInv
    <3>3. disk'["main"] = origin.main /\ disk'["advanced"] = Target.advanced /\ disk'["template"] = origin.template
      BY <2>1, <3>1, <3>2, <1>0, <1>4, <1>5
    <3> QED BY <3>1, <3>3, <1>2, <1>3 DEF DocsInv
  <2>2. CASE "advanced" \in lost
    <3>1. /\ "advanced" \in Unsynced /\ before["advanced"] = origin.advanced
          /\ disk.main = origin.main /\ "main" \notin Unsynced
      BY <2>2, <1>1, <1>2 DEF DocsInv
    <3>2. disk.template = origin.template /\ "template" \notin Unsynced
      BY <3>1, <1>2 DEF DocsInv
    <3>3. disk'["main"] = origin.main /\ disk'["advanced"] = origin.advanced /\ disk'["template"] = origin.template
      BY <2>2, <3>1, <3>2, <1>0, <1>4, <1>5
    <3> QED BY <3>3, <1>2, <1>3 DEF DocsInv
  <2>3. CASE "main" \notin lost /\ "advanced" \notin lost
    <3>1. disk'["main"] = disk["main"] /\ disk'["advanced"] = disk["advanced"]
      BY <2>3, <1>0, <1>4, <1>5
    <3>2. "template" \notin Unsynced => disk'["template"] = disk["template"]
      BY <1>0, <1>4, <1>5
    <3> QED BY <3>1, <3>2, <1>2, <1>3 DEF DocsInv
  <2> QED BY <2>1, <2>2, <2>3
<1>8. BackupInv'
  <2> SUFFICES ASSUME NEW f \in {"main", "advanced"}
               PROVE  /\ f \notin stale' /\ disk'[Original(f)] # Nil => disk'[Original(f)] = origin[f]
                      /\ disk'[f] # origin[f] /\ origin[f] # Nil /\ f \notin stale' => disk'[Original(f)] = origin[f]
    BY <1>2, <1>3 DEF BackupInv
  <2> DEFINE b == Original(f)
  <2>1. b \in Files /\ Dir(b) = "migrations"
    BY <1>0, <1>4 DEF Original
  <2> HIDE DEF b
  <2>2. CASE "migrations" \in gone
    <3>1. disk'[b] = Nil /\ (disk'[f] # origin[f] => f \in stale')
      BY <2>1, <2>2, <1>1, <1>5
    <3> QED BY <3>1 DEF b
  <2>3. CASE "migrations" \notin gone
    <3>1. stale' = stale
      BY <2>3, <1>1
    <3>2. b \in Unsynced => before[b] = Nil /\ disk[f] = origin[f]
      BY <1>2 DEF BackupInv, b
    <3>3. disk'[b] = disk[b] \/ (disk'[b] = Nil /\ b \in Unsynced)
      BY <2>1, <2>3, <3>2, <1>1, <1>5
    <3>4. /\ f \notin stale /\ disk[b] # Nil => disk[b] = origin[f]
          /\ disk[f] # origin[f] /\ origin[f] # Nil /\ f \notin stale => disk[b] = origin[f] /\ b \notin Unsynced
      BY <1>2 DEF BackupInv, b
    <3> QED BY <3>1, <3>3, <3>4, <1>6 DEF b
  <2> QED BY <2>2, <2>3
<1>9. ResponseInv'
  <2>1. "raw" \notin Unsynced => disk'["raw"] = disk["raw"]
    BY <1>0, <1>4, <1>5
  <2>2. "sources" \notin gone /\ "cache" \notin Unsynced => disk'["cache"] = disk["cache"]
    BY <1>0, <1>4, <1>5
  <2>3. CASE "sources" \in gone
    BY <2>3, <1>1, <1>3 DEF ResponseInv
  <2>4. CASE "sources" \notin gone
    <3>1. adopted' = adopted
      BY <2>4, <1>1
    <3> QED BY <2>1, <2>2, <2>4, <3>1, <1>2, <1>3 DEF ResponseInv
  <2> QED BY <2>3, <2>4
<1>10. InstallTypes'
  BY <1>2, <1>3, <1>5 DEF InstallTypes, Ready
<1>11. WorkInv'
  BY <1>2 DEF WorkInv, Ready
<1> QED BY <1>7, <1>8, <1>9, <1>10, <1>11 DEF InstInv

LEMMA Edits ==
    ASSUME InstInv, UserEdits
    PROVE  InstInv'
<1>1. PICK main \in UserMains : disk' = [disk EXCEPT !.main = main]
  BY DEF UserEdits
<1>2. /\ InstallTypes /\ DocsInv /\ BackupInv /\ ResponseInv
      /\ UNCHANGED <<inst, provenance, adopted>> /\ inst.pc = "idle"
      /\ before' = <<>> /\ changes' \in Nat /\ origin' = [f \in Config |-> disk'[f]]
      /\ stale' = {f \in {"main", "advanced"} : disk[Original(f)] # Nil}
  BY DEF InstInv, UserEdits, Change, InstallTypes
<1>3. Unsynced' = {}
  BY <1>2 DEF Unsynced
<1>4. {"main", "advanced", "template", "main.original", "advanced.original", "raw", "cache"} \subseteq Files
  BY DEF Files, Config
<1>5. /\ DOMAIN disk' = Files /\ disk'["main"] = main
      /\ disk'["advanced"] = disk["advanced"] /\ disk'["template"] = disk["template"]
      /\ disk'["main.original"] = disk["main.original"] /\ disk'["advanced.original"] = disk["advanced.original"]
      /\ disk'["raw"] = disk["raw"] /\ disk'["cache"] = disk["cache"]
  BY <1>1, <1>2, <1>4 DEF InstallTypes
<1>6. origin'["main"] = disk'["main"] /\ origin'["advanced"] = disk'["advanced"] /\ origin'["template"] = disk'["template"]
  BY <1>2 DEF Config
<1>7. main \in Mains
  BY InstallAssumption
<1>8. disk["advanced"] \in Advanceds \cup {Nil}
  <2>1. Target # Nil => Target.advanced \in Advanceds \cup {Nil}
    BY <1>2, TargetFacts DEF InstallTypes, Target
  <2> QED BY <2>1, <1>2 DEF DocsInv, InstallTypes
<1>9. DocsInv'
  BY <1>3, <1>6 DEF DocsInv
<1>10. BackupInv'
  <2> SUFFICES ASSUME NEW f \in {"main", "advanced"}
               PROVE  /\ f \notin stale' => disk'[Original(f)] = Nil
                      /\ disk'[f] = origin'[f]
    BY <1>3 DEF BackupInv
  <2>1. f \notin stale' => disk[Original(f)] = Nil
    BY <1>2
  <2>2. disk'[Original(f)] = disk[Original(f)]
    BY <1>5 DEF Original
  <2> QED BY <2>1, <2>2, <1>6
<1>11. ResponseInv'
  BY <1>2, <1>3, <1>5 DEF ResponseInv
<1>12. InstallTypes'
  BY <1>2, <1>3, <1>5, <1>6, <1>7, <1>8 DEF InstallTypes
<1>13. WorkInv'
  BY <1>2 DEF WorkInv
<1> QED BY <1>9, <1>10, <1>11, <1>12, <1>13 DEF InstInv

-----------------------------------------------------------------------------
LEMMA StepKeeps ==
    ASSUME InstInv, [InstallNext]_<<instvars, changes>>
    PROVE  InstInv'
<1>0. /\ InstallTypes /\ WorkInv /\ changes \in Nat /\ DOMAIN inst = {"pc", "todo", "reply"}
      /\ inst.pc \in {"idle", "lock", "wait", "work"} /\ changes + 1 \in Nat
      /\ DOMAIN Ready = {"pc", "todo", "reply"} /\ Ready.pc = "idle"
  BY DEF InstInv, InstallTypes, WorkInv, Ready
<1>1. CASE ensure
  <2>1. /\ UNCHANGED <<disk, origin, provenance, stale, adopted, changes>> /\ before' = <<>>
        /\ inst' = [Ready EXCEPT !.pc = "lock"]
    BY <1>1 DEF ensure
  <2>2. DOMAIN inst' = {"pc", "todo", "reply"} /\ inst'.pc = "lock"
    BY <2>1 DEF Ready
  <2> QED BY <2>1, <2>2, <1>0, Rests
<1>2. CASE acquire
  BY <1>2, Acquires
<1>3. CASE StopRequest
  <2>1. /\ UNCHANGED <<disk, before, origin, provenance, stale, adopted, changes>> /\ inst.pc = "lock"
        /\ \E reply \in {"ok", "refused", "silent"} : inst' = [inst EXCEPT !.pc = "wait", !.reply = reply]
    BY <1>3 DEF StopRequest
  <2>2. DOMAIN inst' = {"pc", "todo", "reply"} /\ inst'.pc = "wait" /\ before' = <<>>
    BY <2>1, <1>0 DEF WorkInv
  <2> QED BY <2>1, <2>2, <1>0, Rests
<1>4. CASE StopFails
  BY <1>4, <1>0, Rests DEF StopFails, Leaves
<1>5. CASE Work
  BY <1>5, Works
<1>6. CASE WorkFails
  BY <1>6, Fails
<1>7. CASE Finish
  BY <1>7, <1>0, Rests DEF Finish, Leaves
<1>8. CASE Daemon
  <2>1. /\ UNCHANGED <<disk, before, inst, origin, provenance, stale, adopted>> /\ changes' \in Nat
        /\ lock # "install"
    BY <1>8, <1>0 DEF Daemon, Change
  <2>2. inst.pc \in {"idle", "lock", "wait"} /\ (inst.pc \in {"lock", "wait"} => before = <<>>)
    BY <2>1, <1>0 DEF WorkInv
  <2> QED BY <2>1, <2>2, <1>0, Rests
<1>9. CASE Killed_installer
  BY <1>9, <1>0, Rests DEF Killed_installer, Leaves, Change
<1>10. CASE PowerLoss
  BY <1>10, Loses
<1>11. CASE UserEdits
  BY <1>11, Edits
<1>12. CASE UNCHANGED <<instvars, changes>>
  <2>1. UNCHANGED <<disk, before, lock, inst, origin, provenance, stale, adopted, changes>>
    BY <1>12 DEF instvars
  <2>2. Target' = Target /\ Unsynced' = Unsynced
    BY <2>1 DEF Target, Candidate, Unsynced
  <2>3. \A f : Due(f)' = Due(f)
    BY <2>1, <2>2 DEF Due
  <2>4. AheadInv(inst.todo) => AheadInv(inst.todo)'
    BY <2>1, <2>2, <2>3 DEF AheadInv
  <2>5. WorkInv'
    BY <2>1, <2>2, <2>4, <1>0 DEF WorkInv
  <2>6. DocsInv' /\ BackupInv'
    BY <2>1, <2>2, DocsKept DEF InstInv
  <2> QED BY <2>1, <2>2, <2>5, <2>6 DEF InstInv, InstallTypes, ResponseInv
<1> QED BY <1>1, <1>2, <1>3, <1>4, <1>5, <1>6, <1>7, <1>8, <1>9, <1>10, <1>11, <1>12 DEF InstallNext

LEMMA InstInvHolds == InstallSpec => []InstInv
<1>1. ASSUME changes = 0,
             \E files, dirs, flag : \E holder \in {"none", "daemon"} :
                Found(files) /\ flag \in BOOLEAN /\ InstallStart(files, dirs, holder, flag)
      PROVE  InstInv
  BY <1>1, Starts
<1> QED BY <1>1, StepKeeps, PTL DEF InstallSpec

\* install_locked over interruptions, lost renames and retries: no document, selection or
\* response of the user is lost or half replaced, whatever they are, but for the backups and
\* the response that a power loss takes with the directory that was made for them.
THEOREM NothingGetsLost == InstallSpec => []NothingIsLost
<1>1. ASSUME InstInv PROVE NothingIsLost
  <2>1. InstallTypes /\ DocsInv /\ BackupInv /\ ResponseInv
    BY <1>1 DEF InstInv
  <2>2. InstallIsAtomic
    BY <2>1 DEF DocsInv, InstallIsAtomic, Target
  <2>3. OriginalRecoverable
    BY <2>1 DEF BackupInv, OriginalRecoverable
  <2>4. SelectionKept
    <3> SUFFICES ASSUME origin.main # Nil, disk.main # origin.main
                 PROVE  disk.main.mode =
                          IF /\ origin.main.mode = Nil
                             /\ \/ origin.main.subscription # Nil \/ origin.main.list # Nil
                                \/ (provenance /\ origin.main.sources = Nil)
                          THEN "whitelist" ELSE origin.main.mode
      BY DEF SelectionKept
    <3>1. Target # Nil /\ disk.main = Target.main
      BY <2>1 DEF DocsInv
    <3>2. Target.main.mode = IF origin["main"].mode = Nil /\ Legacy(origin["main"], provenance)
                             THEN "whitelist" ELSE origin["main"].mode
      BY <2>1, <3>1, TargetFacts DEF InstallTypes, Target
    <3> QED BY <3>1, <3>2 DEF Legacy
  <2>5. ResponseKept
    BY <2>1 DEF ResponseInv, ResponseKept
  <2> QED BY <2>2, <2>3, <2>4, <2>5 DEF NothingIsLost
<1> QED BY <1>1, InstInvHolds, PTL

\* stop_and_lock and install_locked: the installer never writes under a daemon, and when it
\* says that it is done everything is published.
THEOREM InstallsProperly == InstallSpec => InstallIsProper
<1>1. ASSUME InstInv, [InstallNext]_<<instvars, changes>>
      PROVE  [InstallCompletes /\ NotUnderTheDaemon]_instvars
  <2>1. InstallTypes /\ WorkInv /\ changes \in Nat
    BY <1>1 DEF InstInv, InstallTypes
  <2>2. InstallCompletes
    <3> SUFFICES ASSUME inst.pc = "work", inst.todo = <<>>
                 PROVE  disk.main = Target.main /\ disk.advanced = Target.advanced /\ disk.template # Nil
      BY DEF InstallCompletes, Target
    <3>1. AheadInv(<<>>) /\ \A k, f : ~Ahead(<<>>, k, f)
      BY <2>1 DEF WorkInv, Ahead
    <3> QED BY <3>1 DEF AheadInv
  <2>3. NotUnderTheDaemon
    <3> SUFFICES ASSUME lock = "daemon", lock' = "daemon", changes' = changes, disk' # disk
                 PROVE  FALSE
      BY DEF NotUnderTheDaemon
    <3>1. inst.pc # "work"
      BY <2>1 DEF WorkInv
    <3>2. ~Change
      BY <2>1 DEF Change
    <3> QED BY <1>1, <3>1, <3>2
          DEF InstallNext, ensure, acquire, StopRequest, StopFails, Work, WorkFails, Finish,
              Daemon, Killed_installer, PowerLoss, UserEdits, instvars
  <2> QED BY <2>2, <2>3
<1> QED BY <1>1, InstInvHolds, PTL DEF InstallSpec, InstallIsProper
=============================================================================
