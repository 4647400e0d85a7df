---------------------------- MODULE PolicyProofs ----------------------------
(***************************************************************************)
(* The loader of the kernel module, the policy that the manager gives to   *)
(* it, the daemon's log, and the nodes that the engine is offered, for any *)
(* directory, document, package list, address dump, width of an address    *)
(* and size of a table, any number of retained files and lines, and any    *)
(* template, sources, answers and rules.                                   *)
(*                                                                         *)
(* Loader: the node is held exactly while the descriptor is open, and an   *)
(* error of a load says what is in the directory.  What the loop over the  *)
(* directory chooses is proved by induction on the names it has seen.      *)
(*                                                                         *)
(* Policy: between the two ioctls the module has the bypass of the epoch   *)
(* to come, and at rest the manager's, so that only the lookup is left to  *)
(* compare.  The rank of a prefix among all of them is its place in the    *)
(* sorted table (PlaceFacts); those of one length are one bucket of it     *)
(* (BucketFacts), in which the binary search finds what is there           *)
(* (SearchFacts, by induction on the width of the window); so the first    *)
(* hit from the longest length down is the longest match (LookupFacts).    *)
(*                                                                         *)
(* Logger: what a rotation has moved lies behind the place where the next  *)
(* file goes, so that no rename overwrites one, even when the rotation     *)
(* starts from what an interrupted one has left.                           *)
(*                                                                         *)
(* Nodes: the invariant says only that a generated configuration is what   *)
(* the files and the answers give now; the rest is about the functions.    *)
(* What a list of lists holds and begins with (ConcatFacts, by induction)  *)
(* gives what each step of the refinement keeps of a tag and of a list,    *)
(* and so where every node of a configuration is from (AssembledFacts).    *)
(***************************************************************************)
EXTENDS Loader, Policy, Nodes, Logger, WellFoundedInduction, FiniteSetTheorems, TLAPS

-----------------------------------------------------------------------------
(* Numbers *)

\* The order of the numbers, as a relation.
Before == {m \in Nat \X Nat : m[1] < m[2]}
\* Induction: a set with 0 and the successor of each of its numbers has all numbers.
LEMMA AllNumbers ==
    ASSUME NEW S, 0 \in S, \A n \in Nat : n \in S => n + 1 \in S
    PROVE  \A n \in Nat : n \in S
  <1> DEFINE T == {n \in Nat : n \notin S}
  <1> SUFFICES ASSUME T # {}
               PROVE  FALSE
    OBVIOUS
  <1>1. IsWellFoundedOn(Before, Nat)
    BY NatLessThanWellFounded DEF OpToRel, Before
  <1>2. PICK n \in T : \A m \in T : ~(<<m, n>> \in Before)
    BY <1>1, WFMin
  <1>3. n # 0 /\ n \in Nat /\ n \notin S
    OBVIOUS
  <1>4. n - 1 \in Nat /\ n - 1 + 1 = n /\ n - 1 < n
    BY <1>3
  <1>5. <<n - 1, n>> \in Before
    BY <1>3, <1>4 DEF Before
  <1>6. n - 1 \in S
    BY <1>2, <1>4, <1>5
  <1> QED BY <1>3, <1>4, <1>6

\* A set of numbers up to w has a largest one.
LEMMA LargestNumber ==
    ASSUME NEW w \in Nat, NEW H, H \subseteq 0..w, H # {}
    PROVE  \E n \in H : \A m \in H : m <= n
  <1> DEFINE T == {k \in Nat : w - k \in H}
  <1>1. IsWellFoundedOn(Before, Nat)
    BY NatLessThanWellFounded DEF OpToRel, Before
  <1>2. T # {} /\ T \subseteq Nat
    <2>1. PICK m \in H : TRUE
      OBVIOUS
    <2>2. m \in 0..w /\ w - m \in Nat /\ w - (w - m) = m
      BY <2>1
    <2> QED BY <2>1, <2>2
  <1>3. PICK k \in T : \A m \in T : ~(<<m, k>> \in Before)
    BY <1>1, <1>2, WFMin
  <1>4. k \in Nat /\ w - k \in H
    BY <1>3
  <1>5. ASSUME NEW m \in H PROVE m <= w - k
    <2>1. m \in 0..w /\ w - m \in Nat /\ w - (w - m) = m
      OBVIOUS
    <2>2. w - m \in T
      BY <2>1
    <2>3. ~(w - m < k)
      BY <1>3, <1>4, <2>1, <2>2 DEF Before
    <2> QED BY <2>1, <2>3, <1>4
  <1> QED BY <1>4, <1>5

-----------------------------------------------------------------------------
(* Lists *)

\* A loop over 1..n: the values it passes through.
Passes(g, base, n, step) == g[0] = base /\ \A i \in 1..n : g[i] = step[<<i, g[i - 1]>>]

LEMMA Iterated ==
    ASSUME NEW X, NEW base \in X, NEW n \in Nat, NEW step \in [(1..n) \X X -> X]
    PROVE  \E g \in [0..n -> X] : Passes(g, base, n, step)
  <1> DEFINE Run(k, g) == /\ g \in [0..n -> X] /\ g[0] = base
                          /\ \A i \in 1..n : i <= k => g[i] = step[<<i, g[i - 1]>>]
             S == {k \in Nat : k <= n => \E g : Run(k, g)}
  <1>1. 0 \in S
    <2> DEFINE g == [i \in 0..n |-> base]
    <2>1. Run(0, g)
      OBVIOUS
    <2> QED BY <2>1
  <1>2. ASSUME NEW k \in Nat, k \in S
        PROVE  k + 1 \in S
    <2> SUFFICES ASSUME k + 1 <= n PROVE \E g : Run(k + 1, g)
      OBVIOUS
    <2>1. PICK g : Run(k, g)
      BY <1>2
    <2>2. g \in [0..n -> X] /\ g[0] = base /\ \A i \in 1..n : i <= k => g[i] = step[<<i, g[i - 1]>>]
      BY <2>1
    <2> DEFINE x == step[<<k + 1, g[k]>>]
               h == [g EXCEPT ![k + 1] = x]
    <2>3. x \in X
      <3>1. k + 1 \in 1..n /\ g[k] \in X
        BY <2>2
      <3> QED BY <3>1
    <2> HIDE DEF x
    <2>4. h \in [0..n -> X] /\ h[0] = base /\ h[k + 1] = x
      BY <2>2, <2>3
    <2>5. \A i \in 0..n : i # k + 1 => h[i] = g[i]
      BY <2>2
    <2> HIDE DEF h
    <2>6. ASSUME NEW i \in 1..n, i <= k + 1
          PROVE  h[i] = step[<<i, h[i - 1]>>]
      <3>1. i - 1 \in 0..n /\ i - 1 # k + 1 /\ i \in 0..n
        BY <2>6
      <3>2. h[i - 1] = g[i - 1]
        BY <2>5, <3>1
      <3>3. CASE i = k + 1
        <4>1. i - 1 = k
          BY <3>3
        <4> QED BY <2>4, <3>2, <3>3, <4>1 DEF x
      <3>4. CASE i # k + 1
        <4>1. i <= k
          BY <2>6, <3>4
        <4> QED BY <2>2, <2>5, <3>1, <3>2, <3>4, <4>1
      <3> QED BY <3>3, <3>4
    <2>7. Run(k + 1, h)
      BY <2>4, <2>6
    <2> QED BY <2>7
  <1>3. \A k \in Nat : k \in S
    <2> HIDE DEF S
    <2> QED BY <1>1, <1>2, AllNumbers
  <1>4. PICK g : Run(n, g)
    BY <1>3
  <1> QED BY <1>4 DEF Passes

\* Concat: the loop, and its result.
Joined(f, lists, n) ==
    /\ f[0] = <<>> /\ \A i \in 1..n : f[i] = f[i - 1] \o lists[i]
    /\ Concat(lists) = f[n]

LEMMA ConcatLoop ==
    ASSUME NEW T, NEW lists \in Seq(Seq(T)), NEW n \in Nat, n = Len(lists)
    PROVE  \E f \in [0..n -> Seq(T)] : Joined(f, lists, n)
  <1> DEFINE X == Seq(T)
             Cat(s, t) == s \o t
             base == <<>>
             step == [w \in (1..n) \X X |-> Cat(w[2], lists[w[1]])]
             Whole(f) == f = [i \in 0..n |-> IF i = 0 THEN base ELSE Cat(f[i - 1], lists[i])]
             f == CHOOSE g : Whole(g)
  <1>1. \A i \in 1..n : lists[i] \in X
    <2> HIDE DEF X
    <2>1. lists \in Seq(X)
      BY DEF X
    <2> QED BY <2>1
  <1>2. ASSUME NEW x \in X, NEW i \in 1..n PROVE Cat(x, lists[i]) \in X
    BY <1>1
  <1>3. base \in X
    OBVIOUS
  <1>4. Concat(lists) = f[n]
    BY DEF Concat
  <1> HIDE DEF X, Cat, base
  <1>5. step \in [(1..n) \X X -> X]
    <2>1. ASSUME NEW w \in (1..n) \X X PROVE Cat(w[2], lists[w[1]]) \in X
      <3>1. w[1] \in 1..n /\ w[2] \in X
        OBVIOUS
      <3> QED BY <1>2, <3>1
    <2> QED BY <2>1
  <1> HIDE DEF step
  <1>6. PICK g \in [0..n -> X] : Passes(g, base, n, step)
    BY <1>3, <1>5, Iterated
  <1>7. g[0] = base /\ \A i \in 1..n : g[i] = step[<<i, g[i - 1]>>]
    BY <1>6 DEF Passes
  <1>8. ASSUME NEW i \in 1..n PROVE g[i] = Cat(g[i - 1], lists[i])
    <2>1. i - 1 \in 0..n
      OBVIOUS
    <2>2. g[i - 1] \in X
      BY <2>1
    <2>3. step[<<i, g[i - 1]>>] = Cat(g[i - 1], lists[i])
      BY <2>2 DEF step
    <2> QED BY <1>7, <2>3
  <1>9. Whole(g)
    <2> DEFINE r == [i \in 0..n |-> IF i = 0 THEN base ELSE Cat(g[i - 1], lists[i])]
    <2>1. ASSUME NEW i \in 0..n PROVE g[i] = r[i]
      <3>1. CASE i = 0
        BY <1>7, <3>1
      <3>2. CASE i # 0
        <4>1. i \in 1..n
          BY <3>2
        <4>2. r[i] = Cat(g[i - 1], lists[i])
          BY <3>2
        <4> QED BY <1>8, <4>1, <4>2
      <3> QED BY <3>1, <3>2
    <2>2. g = r
      BY <2>1
    <2> QED BY <2>2
  <1>10. Whole(f)
    BY <1>9
  <1> HIDE DEF f
  <1>11. f[0] = base /\ \A i \in 1..n : f[i] = Cat(f[i - 1], lists[i])
    BY <1>10
  <1> DEFINE Good == {k \in Nat : k <= n => f[k] \in X}
  <1>12. 0 \in Good
    BY <1>3, <1>11
  <1>13. ASSUME NEW k \in Nat, k \in Good PROVE k + 1 \in Good
    <2> SUFFICES ASSUME k + 1 <= n PROVE f[k + 1] \in X
      OBVIOUS
    <2>1. k + 1 \in 1..n /\ k + 1 - 1 = k /\ f[k] \in X
      BY <1>13
    <2>2. f[k + 1] = Cat(f[k], lists[k + 1])
      BY <1>11, <2>1
    <2> QED BY <1>2, <2>1, <2>2
  <1>14. \A k \in Nat : k \in Good
    <2> HIDE DEF Good
    <2> QED BY <1>12, <1>13, AllNumbers
  <1>15. f \in [0..n -> X]
    <2>1. \A k \in 0..n : f[k] \in X
      BY <1>14
    <2>2. f = [k \in 0..n |-> f[k]]
      BY <1>10
    <2> QED BY <2>1, <2>2
  <1>16. Joined(f, lists, n)
    BY <1>4, <1>11 DEF Joined, Cat, base
  <1> QED BY <1>15, <1>16 DEF X

\* What is in the concatenation, and what it begins with.
LEMMA ConcatFacts ==
    ASSUME NEW T, NEW lists \in Seq(Seq(T))
    PROVE  /\ Concat(lists) \in Seq(T)
           /\ \A x : x \in Entries(Concat(lists)) <=> \E i \in DOMAIN lists : x \in Entries(lists[i])
           /\ Concat(lists) # <<>> =>
                 \E i \in DOMAIN lists : /\ lists[i] # <<>> /\ Concat(lists)[1] = lists[i][1]
                                         /\ \A j \in 1..(i - 1) : lists[j] = <<>>
  <1> DEFINE n == Len(lists)
  <1>1. n \in Nat /\ DOMAIN lists = 1..n
    OBVIOUS
  <1>2. PICK f \in [0..n -> Seq(T)] : Joined(f, lists, n)
    BY <1>1, ConcatLoop
  <1>3. /\ f[0] = <<>> /\ \A i \in 1..n : f[i] = f[i - 1] \o lists[i]
        /\ Concat(lists) = f[n]
    BY <1>2 DEF Joined
  <1>4. \A i \in 1..n : lists[i] \in Seq(T)
    OBVIOUS
  <1> HIDE DEF n
  <1> DEFINE In1(k) == \A x : x \in Entries(f[k]) <=> \E i \in 1..k : x \in Entries(lists[i])
             First(k) == f[k] # <<>> => \E i \in 1..k : /\ lists[i] # <<>> /\ f[k][1] = lists[i][1]
                                                      /\ \A j \in 1..(i - 1) : lists[j] = <<>>
             None(k) == f[k] = <<>> => \A i \in 1..k : lists[i] = <<>>
             Good == {k \in Nat : k <= n => In1(k) /\ First(k) /\ None(k)}
  <1>5. 0 \in Good
    <2>1. f[0] = <<>> /\ Entries(<<>>) = {}
      BY <1>3 DEF Entries
    <2>2. In1(0) /\ First(0) /\ None(0)
      BY <2>1
    <2> QED BY <2>2
  <1>6. ASSUME NEW s \in Seq(T), NEW t \in Seq(T)
        PROVE  /\ \A x : x \in Entries(s \o t) <=> x \in Entries(s) \/ x \in Entries(t)
               /\ s # <<>> => (s \o t)[1] = s[1] /\ s \o t # <<>>
               /\ s = <<>> => s \o t = t
               /\ t # <<>> => s \o t # <<>>
    <2>1. DOMAIN (s \o t) = 1..(Len(s) + Len(t)) /\ DOMAIN s = 1..Len(s) /\ DOMAIN t = 1..Len(t)
      OBVIOUS
    <2>2. Len(s) \in Nat /\ Len(t) \in Nat
      OBVIOUS
    <2>3. \A i \in 1..Len(s) : (s \o t)[i] = s[i]
      OBVIOUS
    <2>4. \A i \in 1..Len(t) : (s \o t)[Len(s) + i] = t[i]
      OBVIOUS
    <2>5. ASSUME NEW x, x \in Entries(s \o t) PROVE x \in Entries(s) \/ x \in Entries(t)
      <3>1. PICK i \in 1..(Len(s) + Len(t)) : x = (s \o t)[i]
        BY <2>1, <2>5 DEF Entries
      <3>2. CASE i <= Len(s)
        BY <2>1, <2>2, <2>3, <3>1, <3>2 DEF Entries
      <3>3. CASE ~(i <= Len(s))
        <4>1. i - Len(s) \in 1..Len(t) /\ Len(s) + (i - Len(s)) = i
          BY <2>2, <3>3
        <4>2. (s \o t)[i] = t[i - Len(s)]
          BY <2>4, <4>1
        <4> QED BY <2>1, <3>1, <4>1, <4>2 DEF Entries
      <3> QED BY <3>2, <3>3
    <2>6. ASSUME NEW x, x \in Entries(s) PROVE x \in Entries(s \o t)
      <3>1. PICK i \in 1..Len(s) : x = s[i]
        BY <2>1, <2>6 DEF Entries
      <3>2. i \in 1..(Len(s) + Len(t))
        BY <2>2
      <3> QED BY <2>1, <2>3, <3>1, <3>2 DEF Entries
    <2>7. ASSUME NEW x, x \in Entries(t) PROVE x \in Entries(s \o t)
      <3>1. PICK i \in 1..Len(t) : x = t[i]
        BY <2>1, <2>7 DEF Entries
      <3>2. Len(s) + i \in 1..(Len(s) + Len(t))
        BY <2>2
      <3> QED BY <2>1, <2>4, <3>1, <3>2 DEF Entries
    <2>8. s # <<>> => 1 \in 1..Len(s)
      BY <2>2
    <2>9. s # <<>> => (s \o t)[1] = s[1] /\ s \o t # <<>>
      BY <2>1, <2>2, <2>3, <2>8
    <2>10. s = <<>> => s \o t = t
      OBVIOUS
    <2>11. t # <<>> => s \o t # <<>>
      BY <2>1, <2>2
    <2> QED BY <2>5, <2>6, <2>7, <2>9, <2>10, <2>11
  <1>7. ASSUME NEW k \in Nat, k \in Good PROVE k + 1 \in Good
    <2> SUFFICES ASSUME k + 1 <= n PROVE In1(k + 1) /\ First(k + 1) /\ None(k + 1)
      OBVIOUS
    <2>1. In1(k) /\ First(k) /\ None(k)
      BY <1>1, <1>7
    <2> DEFINE s == f[k]
               t == lists[k + 1]
    <2>2. k + 1 \in 1..n /\ k + 1 - 1 = k /\ k \in 0..n
      BY <1>1
    <2>3. s \in Seq(T) /\ t \in Seq(T)
      BY <1>4, <2>2
    <2> DEFINE next(i) == f[i - 1] \o lists[i]
    <2>4. \A i \in 1..n : f[i] = next(i)
      BY <1>3
    <2>5. next(k + 1) = s \o t
      BY <2>2
    <2>6. f[k + 1] = s \o t
      <3> HIDE DEF next, s, t
      <3> QED BY <2>4, <2>5, <2>2
    <2> HIDE DEF next
    <2>7. s \in Seq(T) /\ t \in Seq(T) /\ f[k + 1] = s \o t
      BY <2>2, <2>3, <2>6
    <2>8. /\ \A x : x \in Entries(s \o t) <=> x \in Entries(s) \/ x \in Entries(t)
          /\ s # <<>> => (s \o t)[1] = s[1] /\ s \o t # <<>>
          /\ s = <<>> => s \o t = t
          /\ t # <<>> => s \o t # <<>>
      <3> HIDE DEF s, t
      <3> QED BY <1>6, <2>7
    <2>9. \A i : i \in 1..(k + 1) <=> i \in 1..k \/ i = k + 1
      OBVIOUS
    <2>10. In1(k + 1)
      <3>1. \A x : x \in Entries(s) <=> \E i \in 1..k : x \in Entries(lists[i])
        BY <2>1
      <3>2. ASSUME NEW x PROVE x \in Entries(f[k + 1]) <=> \E i \in 1..(k + 1) : x \in Entries(lists[i])
        <4> HIDE DEF s
        <4> QED BY <2>7, <2>8, <2>9, <3>1
      <3> QED BY <3>2
    <2>11. First(k + 1)
      <3> SUFFICES ASSUME f[k + 1] # <<>>
                   PROVE  \E i \in 1..(k + 1) : /\ lists[i] # <<>> /\ f[k + 1][1] = lists[i][1]
                                                /\ \A j \in 1..(i - 1) : lists[j] = <<>>
        OBVIOUS
      <3>1. CASE f[k] # <<>>
        <4>1. PICK i \in 1..k : /\ lists[i] # <<>> /\ f[k][1] = lists[i][1]
                                /\ \A j \in 1..(i - 1) : lists[j] = <<>>
          BY <2>1, <3>1
        <4>2. f[k + 1][1] = f[k][1]
          <5>1. (s \o t)[1] = s[1]
            BY <2>8, <3>1
          <5> QED BY <2>7, <5>1
        <4>3. i \in 1..(k + 1)
          BY <2>9
        <4> QED BY <4>1, <4>2, <4>3
      <3>2. CASE f[k] = <<>>
        <4>1. f[k + 1] = t /\ t # <<>>
          BY <2>7, <2>8, <3>2
        <4>2. \A i \in 1..k : lists[i] = <<>>
          BY <2>1, <3>2
        <4>3. k + 1 \in 1..(k + 1) /\ 1..((k + 1) - 1) = 1..k
          OBVIOUS
        <4> QED BY <4>1, <4>2, <4>3
      <3> QED BY <3>1, <3>2
    <2>12. None(k + 1)
      <3> SUFFICES ASSUME f[k + 1] = <<>> PROVE \A i \in 1..(k + 1) : lists[i] = <<>>
        OBVIOUS
      <3>1. s = <<>> /\ t = <<>>
        BY <2>7, <2>8
      <3>2. \A i \in 1..k : lists[i] = <<>>
        BY <2>1, <3>1
      <3> QED BY <2>9, <3>1, <3>2
    <2> QED BY <2>10, <2>11, <2>12
  <1>8. \A k \in Nat : k \in Good
    <2> HIDE DEF Good
    <2> QED BY <1>5, <1>7, AllNumbers
  <1>9. In1(n) /\ First(n)
    <2>1. n \in Good
      BY <1>1, <1>8
    <2> QED BY <1>1, <2>1
  <1>10. f[n] \in Seq(T)
    BY <1>1
  <1>11. \A x : x \in Entries(f[n]) <=> \E i \in 1..n : x \in Entries(lists[i])
    BY <1>9
  <1>12. f[n] # <<>> => \E i \in 1..n : /\ lists[i] # <<>> /\ f[n][1] = lists[i][1]
                                       /\ \A j \in 1..(i - 1) : lists[j] = <<>>
    BY <1>9
  <1> HIDE DEF In1, First
  <1> QED BY <1>1, <1>3, <1>10, <1>11, <1>12

\* A list, of whatever is in it.
IsList(list) == list \in Seq(Entries(list))

LEMMA ListFacts ==
    ASSUME NEW T, NEW list \in Seq(T)
    PROVE  /\ Len(list) \in Nat /\ DOMAIN list = 1..Len(list)
           /\ Entries(list) \subseteq T /\ IsList(list)
           /\ list = <<>> <=> Entries(list) = {}
           /\ list # <<>> => 1 \in DOMAIN list
  <1>1. Len(list) \in Nat /\ DOMAIN list = 1..Len(list)
    OBVIOUS
  <1>2. \A i \in 1..Len(list) : list[i] \in T /\ list[i] \in Entries(list)
    BY <1>1 DEF Entries
  <1>3. list = [i \in 1..Len(list) |-> list[i]]
    BY <1>1
  <1>4. Entries(list) \subseteq T
    BY <1>1, <1>2 DEF Entries
  <1>5. list \in Seq(Entries(list))
    BY <1>1, <1>2, <1>3
  <1>6. list # <<>> => 1 \in DOMAIN list
    BY <1>1
  <1>7. list = <<>> => Entries(list) = {}
    BY DEF Entries
  <1>8. list # <<>> => list[1] \in Entries(list)
    BY <1>6 DEF Entries
  <1> QED BY <1>1, <1>4, <1>5, <1>6, <1>7, <1>8 DEF IsList

LEMMA ListOf ==
    ASSUME NEW list, IsList(list), NEW T, Entries(list) \subseteq T
    PROVE  list \in Seq(T)
  <1>1. Len(list) \in Nat /\ DOMAIN list = 1..Len(list) /\ list \in Seq(Entries(list))
    BY DEF IsList
  <1>2. \A i \in 1..Len(list) : list[i] \in T
    BY <1>1 DEF Entries
  <1>3. list = [i \in 1..Len(list) |-> list[i]]
    BY <1>1
  <1> QED BY <1>1, <1>2, <1>3

\* A function on the places of a list is a list.
LEMMA Mapped ==
    ASSUME NEW n \in Nat, NEW list, list = [i \in 1..n |-> list[i]]
    PROVE  /\ DOMAIN list = 1..n /\ Len(list) = n /\ IsList(list)
           /\ \A T : (\A i \in 1..n : list[i] \in T) => list \in Seq(T)
  <1>1. ASSUME NEW T, \A i \in 1..n : list[i] \in T PROVE list \in Seq(T)
    <2> DEFINE m == [i \in 1..n |-> list[i]]
    <2>1. m \in Seq(T)
      BY <1>1
    <2> QED BY <2>1
  <1>2. DOMAIN list = 1..n
    OBVIOUS
  <1>3. \A i \in 1..n : list[i] \in Entries(list)
    BY <1>2 DEF Entries
  <1>4. list \in Seq(Entries(list))
    BY <1>1, <1>3
  <1>5. Len(list) \in Nat /\ DOMAIN list = 1..Len(list)
    BY <1>4
  <1>6. Len(list) = n
    BY <1>2, <1>5
  <1> QED BY <1>1, <1>2, <1>4, <1>6 DEF IsList

\* Concat of any list of lists.
LEMMA ConcatOf ==
    ASSUME NEW lists, IsList(lists), \A i \in DOMAIN lists : IsList(lists[i])
    PROVE  /\ IsList(Concat(lists))
           /\ \A x : x \in Entries(Concat(lists)) <=> \E i \in DOMAIN lists : x \in Entries(lists[i])
  <1> DEFINE T == UNION {Entries(lists[i]) : i \in DOMAIN lists}
  <1>1. ASSUME NEW i \in DOMAIN lists PROVE lists[i] \in Seq(T)
    <2>1. Entries(lists[i]) \subseteq T
      OBVIOUS
    <2> HIDE DEF T
    <2> QED BY <2>1, ListOf
  <1> HIDE DEF T
  <1>2. Entries(lists) \subseteq Seq(T)
    BY <1>1 DEF Entries
  <1>3. lists \in Seq(Seq(T))
    <2> DEFINE X == Seq(T)
    <2>1. Entries(lists) \subseteq X
      BY <1>2
    <2> HIDE DEF X
    <2>2. lists \in Seq(X)
      BY <2>1, ListOf
    <2> QED BY <2>2 DEF X
  <1>4. Concat(lists) \in Seq(T)
    BY <1>3, ConcatFacts
  <1>5. IsList(Concat(lists))
    BY <1>4, ListFacts
  <1> QED BY <1>3, <1>5, ConcatFacts

\* What the places in K of a list leave of it.
Chosen(list, K) == Concat([i \in DOMAIN list |-> IF i \in K THEN <<list[i]>> ELSE <<>>])

LEMMA ChosenFacts ==
    ASSUME NEW T, NEW list \in Seq(T), NEW K
    PROVE  /\ Chosen(list, K) \in Seq(T)
           /\ \A x : x \in Entries(Chosen(list, K)) <=> \E i \in DOMAIN list \cap K : x = list[i]
           /\ Chosen(list, K) # <<>> =>
                 \E i \in DOMAIN list \cap K : /\ Chosen(list, K)[1] = list[i]
                                               /\ \A j \in 1..(i - 1) : j \notin K
  <1> DEFINE lists == [i \in DOMAIN list |-> IF i \in K THEN <<list[i]>> ELSE <<>>]
             n == Len(list)
  <1>1. n \in Nat /\ DOMAIN list = 1..n /\ \A i \in 1..n : list[i] \in T
    OBVIOUS
  <1> HIDE DEF n
  <1>2. ASSUME NEW i \in 1..n
        PROVE  /\ lists[i] \in Seq(T)
               /\ i \in K => lists[i] # <<>> /\ lists[i][1] = list[i] /\ Entries(lists[i]) = {list[i]}
               /\ i \notin K => lists[i] = <<>> /\ Entries(lists[i]) = {}
    <2>1. CASE i \in K
      <3>1. lists[i] = <<list[i]>>
        BY <1>1, <2>1
      <3>2. <<list[i]>> \in Seq(T) /\ <<list[i]>> # <<>> /\ <<list[i]>>[1] = list[i] /\ Entries(<<list[i]>>) = {list[i]}
        BY <1>1 DEF Entries
      <3> QED BY <2>1, <3>1, <3>2
    <2>2. CASE i \notin K
      <3>1. lists[i] = <<>>
        BY <1>1, <2>2
      <3>2. Entries(<<>>) = {} /\ <<>> \in Seq(T)
        BY DEF Entries
      <3> QED BY <2>2, <3>1, <3>2
    <2> QED BY <2>1, <2>2
  <1>3. lists = [i \in 1..n |-> lists[i]] /\ Chosen(list, K) = Concat(lists)
    BY <1>1 DEF Chosen
  <1> HIDE DEF lists
  <1>4. lists \in Seq(Seq(T)) /\ DOMAIN lists = 1..n
    <2> DEFINE X == Seq(T)
    <2>1. \A i \in 1..n : lists[i] \in X
      BY <1>2
    <2> HIDE DEF X
    <2>2. lists \in Seq(X) /\ DOMAIN lists = 1..n
      BY <1>1, <1>3, <2>1, Mapped
    <2> QED BY <2>2 DEF X
  <1> DEFINE r == Concat(lists)
  <1>5. r \in Seq(T)
    BY <1>4, ConcatFacts
  <1>6. \A x : x \in Entries(r) <=> \E i \in 1..n : x \in Entries(lists[i])
    BY <1>4, ConcatFacts
  <1>7. r # <<>> => \E i \in 1..n : /\ lists[i] # <<>> /\ r[1] = lists[i][1]
                                   /\ \A j \in 1..(i - 1) : lists[j] = <<>>
    BY <1>4, ConcatFacts
  <1> HIDE DEF r
  <1>8. ASSUME NEW x PROVE x \in Entries(r) <=> \E i \in 1..n : i \in K /\ x = list[i]
    <2>1. ASSUME NEW i \in 1..n PROVE x \in Entries(lists[i]) <=> i \in K /\ x = list[i]
      <3>1. CASE i \in K
        <4>1. Entries(lists[i]) = {list[i]}
          BY <1>2, <3>1
        <4> QED BY <3>1, <4>1
      <3>2. CASE i \notin K
        <4>1. Entries(lists[i]) = {}
          BY <1>2, <3>2
        <4> QED BY <3>2, <4>1
      <3> QED BY <3>1, <3>2
    <2> QED BY <1>6, <2>1
  <1>9. r # <<>> => \E i \in 1..n : i \in K /\ r[1] = list[i] /\ \A j \in 1..(i - 1) : j \notin K
    <2> SUFFICES ASSUME r # <<>> PROVE \E i \in 1..n : i \in K /\ r[1] = list[i] /\ \A j \in 1..(i - 1) : j \notin K
      OBVIOUS
    <2>1. PICK i \in 1..n : /\ lists[i] # <<>> /\ r[1] = lists[i][1]
                            /\ \A j \in 1..(i - 1) : lists[j] = <<>>
      BY <1>7
    <2>2. i \in K /\ r[1] = list[i]
      BY <1>2, <2>1
    <2>3. ASSUME NEW j \in 1..(i - 1) PROVE j \notin K
      <3>1. j \in 1..n /\ lists[j] = <<>>
        BY <1>1, <2>1
      <3> QED BY <1>2, <3>1
    <2> QED BY <2>2, <2>3
  <1>10. Chosen(list, K) = r
    BY <1>3 DEF r
  <1> QED BY <1>1, <1>5, <1>8, <1>9, <1>10

\* Only: what of a list is in a set.
LEMMA OnlyFacts ==
    ASSUME NEW list, IsList(list), NEW S
    PROVE  /\ IsList(Only(list, S)) /\ Entries(Only(list, S)) = Entries(list) \cap S
           /\ \A T : list \in Seq(T) => Only(list, S) \in Seq(T)
  <1> DEFINE K == {i \in DOMAIN list : list[i] \in S}
             T0 == Entries(list)
             lists == [i \in DOMAIN list |-> IF i \in K THEN <<list[i]>> ELSE <<>>]
             found == [i \in DOMAIN list |-> IF list[i] \in S THEN <<list[i]>> ELSE <<>>]
  <1>1. \A i \in DOMAIN list : i \in K <=> list[i] \in S
    OBVIOUS
  <1>2. lists = found
    <2> HIDE DEF K
    <2>1. \A i \in DOMAIN list : lists[i] = found[i]
      BY <1>1
    <2> QED BY <2>1
  <1>3. Only(list, S) = Chosen(list, K)
    BY <1>2 DEF Only, Chosen
  <1> HIDE DEF K
  <1>4. list \in Seq(T0)
    BY DEF IsList
  <1>5. /\ Chosen(list, K) \in Seq(T0)
        /\ \A x : x \in Entries(Chosen(list, K)) <=> \E i \in DOMAIN list \cap K : x = list[i]
    <2> HIDE DEF T0
    <2> QED BY <1>4, ChosenFacts
  <1>6. \A x : x \in Entries(Chosen(list, K)) <=> x \in Entries(list) /\ x \in S
    BY <1>1, <1>5 DEF Entries
  <1>7. IsList(Chosen(list, K))
    BY <1>5, ListFacts
  <1>8. ASSUME NEW T, list \in Seq(T) PROVE Chosen(list, K) \in Seq(T)
    BY <1>8, ChosenFacts
  <1> QED BY <1>3, <1>6, <1>7, <1>8

-----------------------------------------------------------------------------
(* The kernel module *)

LkmType ==
    [resident : BOOLEAN, ready : BOOLEAN, answers : BOOLEAN, ours : BOOLEAN, holder : {Nil, "fluxd", "other"}]
\* Whatever is in the kernel, of whatever build, somebody else may hold its node, a daemon of ours not
\* yet.
Earlier(k) == k.holder # "fluxd" /\ ~k.ours
LoaderSpec ==
    (\E r \in Releases, d \in KmodDirs, k \in LkmType : Earlier(k) /\ LoaderStart(r, d, k))
    /\ [][LoaderNext]_loadvars

LdrType ==
    [at : {"idle", "load", "open", "delete", "status"}, held : BOOLEAN, attached : BOOLEAN,
     error : {Nil, "unknown_release", "missing_module", "finit", "control", "status", "symbols"}]

\* The node is ours exactly while the descriptor is open, a module is there as long as somebody
\* holds it, a node held and not attached was refused its status, and the error or the success of a
\* load says what is in the directory.
LoadInv ==
    /\ listing \in KmodDirs /\ lkm \in LkmType /\ ldr \in LdrType
    /\ ldr.held <=> lkm.holder = "fluxd"
    /\ ldr.held => lkm.resident /\ ldr.at \in {"idle", "status"}
    /\ ldr.at = "status" => ldr.held
    /\ ldr.attached => ldr.held /\ lkm.answers /\ lkm.ready
    /\ ldr.at = "idle" /\ ldr.held /\ ~ldr.attached => ldr.error = "status"
    /\ ldr.error \in {"unknown_release", "missing_module"} => Pick = Nil
    /\ ldr.error = "finit" => Pick # Nil
    /\ lkm.ours => Pick # Nil /\ TRUE \in Admits(Pick)

\* The loop of pick_module_file: what it has chosen after each of n names.
Looped(best, stem, names, n) ==
    /\ best[0] = Nil /\ \A i \in 1..n : best[i] = Better(stem, best[i - 1], names[i])
    /\ pick_module_file(stem, names) = best[n]

LEMMA PickLoop ==
    ASSUME NEW stem, NEW names, NEW n \in Nat, Len(names) = n
    PROVE  \E best : Looped(best, stem, names, n)
  <1> DEFINE Run(k, g) == g = [i \in 0..k |-> IF i = 0 THEN Nil ELSE Better(stem, g[i - 1], names[i])]
             S == {k \in Nat : \E g : Run(k, g)}
  <1>1. 0 \in S
    <2> DEFINE g == [i \in 0..0 |-> Nil]
    <2>1. Run(0, g)
      OBVIOUS
    <2> QED BY <2>1
  <1>2. ASSUME NEW k \in Nat, k \in S
        PROVE  k + 1 \in S
    <2>1. PICK g : Run(k, g)
      BY <1>2
    <2> DEFINE h == [i \in 0..(k + 1) |-> IF i = k + 1 THEN Better(stem, g[k], names[k + 1]) ELSE g[i]]
               r == [i \in 0..(k + 1) |-> IF i = 0 THEN Nil ELSE Better(stem, h[i - 1], names[i])]
    <2>2. g[0] = Nil /\ \A i \in 1..k : g[i] = Better(stem, g[i - 1], names[i])
      BY <2>1
    <2>3. ASSUME NEW i \in 0..(k + 1)
          PROVE  h[i] = r[i]
      <3>1. CASE i = 0
        BY <2>2, <3>1
      <3>2. CASE i \in 1..k
        <4>1. h[i] = g[i] /\ h[i - 1] = g[i - 1]
          BY <3>2
        <4>2. r[i] = Better(stem, h[i - 1], names[i])
          BY <3>2
        <4> HIDE DEF h, r
        <4> QED BY <2>2, <3>2, <4>1, <4>2
      <3>3. CASE i = k + 1
        <4>1. h[i] = Better(stem, g[k], names[k + 1]) /\ h[i - 1] = g[k]
          BY <3>3
        <4>2. r[i] = Better(stem, h[i - 1], names[i])
          BY <3>3
        <4> HIDE DEF h, r
        <4> QED BY <3>3, <4>1, <4>2
      <3> QED BY <3>1, <3>2, <3>3
    <2>4. h = r
      BY <2>3
    <2>5. Run(k + 1, h)
      BY <2>4
    <2> HIDE DEF h, r, Run
    <2> QED BY <2>5
  <1>3. \A k \in Nat : k \in S
    <2> HIDE DEF S
    <2> QED BY <1>1, <1>2, AllNumbers
  <1>4. \E g : Run(n, g)
    BY <1>3
  <1> DEFINE best == CHOOSE g : Run(n, g)
  <1>5. Run(n, best)
    BY <1>4
  <1>6. pick_module_file(stem, names) = best[n]
    BY DEF pick_module_file
  <1> HIDE DEF best
  <1>7. best[0] = Nil /\ \A i \in 1..n : best[i] = Better(stem, best[i - 1], names[i])
    BY <1>5
  <1> QED BY <1>6, <1>7 DEF Looped

\* What the loop has chosen is the best of what it has seen.
LEMMA PickBest ==
    ASSUME NEW stem, NEW names, NEW n \in Nat, Len(names) = n, DOMAIN names = 1..n,
           \A i \in 1..n : names[i] # Nil /\ (names[i].build = Nil \/ names[i].build \in Nat)
    PROVE  LET pick == pick_module_file(stem, names)
               fits == {f \in {names[i] : i \in DOMAIN names} : f.line = stem}
           IN  IF fits = {} THEN pick = Nil
               ELSE pick \in fits /\ \A f \in fits : pick.build = Nil \/ (f.build # Nil /\ pick.build <= f.build)
  <1>0. PICK best : Looped(best, stem, names, n)
    BY PickLoop
  <1>1. /\ best[0] = Nil /\ \A i \in 1..n : best[i] = Better(stem, best[i - 1], names[i])
        /\ pick_module_file(stem, names) = best[n]
    BY <1>0 DEF Looped
  <1> DEFINE Suits(k) == {i \in 1..k : names[i].line = stem}
             Good(k) == /\ Suits(k) = {} => best[k] = Nil
                        /\ Suits(k) # {} =>
                             /\ \E i \in Suits(k) : best[k] = names[i]
                             /\ \A i \in Suits(k) : best[k].build = Nil \/ (names[i].build # Nil /\ best[k].build <= names[i].build)
             S == {k \in Nat : k <= n => Good(k)}
  <1>2. 0 \in S
    BY <1>1
  <1>3. ASSUME NEW k \in Nat, k \in S
        PROVE  k + 1 \in S
    <2> SUFFICES ASSUME k + 1 <= n
                 PROVE  Good(k + 1)
      OBVIOUS
    <2> DEFINE f == names[k + 1]
               b == best[k]
               c == best[k + 1]
    <2>1. Good(k) /\ k + 1 \in 1..n
      BY <1>3
    <2>2. c = Better(stem, b, f)
      BY <1>1, <2>1
    <2>3. f # Nil /\ (f.build = Nil \/ f.build \in Nat)
      BY <2>1
    <2>4. ASSUME NEW i \in Suits(k)
          PROVE  names[i] # Nil /\ (names[i].build = Nil \/ names[i].build \in Nat)
      BY <2>1
    <2>5. Suits(k + 1) = IF f.line = stem THEN Suits(k) \cup {k + 1} ELSE Suits(k)
      OBVIOUS
    <2>6. /\ Suits(k) = {} => b = Nil
          /\ Suits(k) # {} =>
               /\ \E i \in Suits(k) : b = names[i]
               /\ \A i \in Suits(k) : b.build = Nil \/ (names[i].build # Nil /\ b.build <= names[i].build)
      BY <2>1
    <2> DEFINE F == Suits(k)
               G == Suits(k + 1)
    <2> SUFFICES /\ G = {} => c = Nil
                 /\ G # {} =>
                      /\ \E i \in G : c = names[i]
                      /\ \A i \in G : c.build = Nil \/ (names[i].build # Nil /\ c.build <= names[i].build)
      OBVIOUS
    <2>10. /\ G = IF f.line = stem THEN F \cup {k + 1} ELSE F
           /\ F = {} => b = Nil
           /\ F # {} => /\ \E i \in F : b = names[i]
                        /\ \A i \in F : b.build = Nil \/ (names[i].build # Nil /\ b.build <= names[i].build)
           /\ \A i \in F : names[i] # Nil /\ (names[i].build = Nil \/ names[i].build \in Nat)
      BY <2>4, <2>5, <2>6
    <2> HIDE DEF F, G, b, c, Suits, Good, S
    <2>7. CASE f.line # stem
      <3>1. c = b /\ G = F
        BY <2>2, <2>7, <2>10 DEF Better, matches_module_file
      <3> QED BY <2>10, <3>1
    <2>8. CASE f.line = stem /\ F = {}
      <3>1. c = f /\ G = {k + 1}
        BY <2>2, <2>8, <2>10 DEF Better, matches_module_file
      <3> QED BY <2>3, <3>1
    <2>9. CASE f.line = stem /\ F # {}
      <3>1. b # Nil /\ (b.build = Nil \/ b.build \in Nat)
        BY <2>9, <2>10
      <3>2. c = IF b.build # Nil /\ (f.build = Nil \/ f.build < b.build) THEN f ELSE b
        BY <2>2, <2>9, <3>1 DEF Better, matches_module_file
      <3>3. G = F \cup {k + 1}
        BY <2>9, <2>10
      <3>4. \E i \in G : c = names[i]
        BY <2>9, <2>10, <3>2, <3>3
      <3>5. ASSUME NEW i \in G
            PROVE  c.build = Nil \/ (names[i].build # Nil /\ c.build <= names[i].build)
        <4>1. CASE i = k + 1
          BY <2>3, <3>1, <3>2, <4>1
        <4>2. CASE i \in F
          <5>1. /\ b.build = Nil \/ (names[i].build # Nil /\ b.build <= names[i].build)
                /\ names[i].build = Nil \/ names[i].build \in Nat
            BY <2>9, <2>10, <4>2
          <5> QED BY <2>3, <3>1, <3>2, <5>1
        <4> QED BY <3>3, <4>1, <4>2
      <3> QED BY <3>3, <3>4, <3>5
    <2> QED BY <2>7, <2>8, <2>9
  <1>4. \A k \in Nat : k \in S
    <2> HIDE DEF S
    <2> QED BY <1>2, <1>3, AllNumbers
  <1>5. Good(n)
    BY <1>4
  <1> DEFINE pick == pick_module_file(stem, names)
             fits == {f \in {names[i] : i \in DOMAIN names} : f.line = stem}
  <1>6. fits = {names[i] : i \in Suits(n)}
    OBVIOUS
  <1>7. pick = best[n]
    BY <1>1
  <1> HIDE DEF pick, fits, Suits
  <1>8. fits = {} => pick = Nil
    BY <1>5, <1>6, <1>7
  <1>9. fits # {} => pick \in fits /\ \A f \in fits : pick.build = Nil \/ (f.build # Nil /\ pick.build <= f.build)
    BY <1>5, <1>6, <1>7
  <1> QED BY <1>8, <1>9 DEF pick, fits

\* The choice, for the kernel that runs and the directory there is.
LEMMA PickStable ==
    ASSUME listing \in KmodDirs
    PROVE  PickIsStable
  <1> DEFINE stem == from_uname_release(uname)
             n == Len(listing)
  <1>1. CASE stem = Nil
    BY <1>1 DEF PickIsStable, Pick
  <1>2. CASE stem # Nil
    <2>1. /\ n \in Nat /\ DOMAIN listing = 1..n
          /\ \A i \in 1..n : listing[i] # Nil /\ (listing[i].build = Nil \/ listing[i].build \in Nat)
      <3>1. /\ listing \in Seq({listing[i] : i \in DOMAIN listing})
            /\ \A i \in DOMAIN listing : listing[i] # Nil /\ (listing[i].build = Nil \/ listing[i].build \in Nat)
        BY LoaderAssumption
      <3>2. n \in Nat /\ DOMAIN listing = 1..n
        BY <3>1
      <3> QED BY <3>1, <3>2
    <2> DEFINE fits == {f \in {listing[i] : i \in DOMAIN listing} : f.line = stem}
               pick == pick_module_file(stem, listing)
    <2>2. IF fits = {} THEN pick = Nil
          ELSE pick \in fits /\ \A f \in fits : pick.build = Nil \/ (f.build # Nil /\ pick.build <= f.build)
      BY <2>1, PickBest
    <2>3. Pick = pick
      BY <1>2 DEF Pick
    <2> HIDE DEF fits, pick, stem
    <2>4. IF fits = {} THEN Pick = Nil
          ELSE Pick \in fits /\ \A f \in fits : Pick.build = Nil \/ (f.build # Nil /\ Pick.build <= f.build)
      BY <2>2, <2>3
    <2> QED BY <1>2, <2>4 DEF PickIsStable, fits, stem
  <1> QED BY <1>1, <1>2

\* The invariant says what the three parts of the property need.
LEMMA LoadSound ==
    LoadInv => ModuleFits
  <1> SUFFICES ASSUME LoadInv
               PROVE  ModuleFits
    OBVIOUS
  <1>1. PickIsStable
    BY PickStable DEF LoadInv
  <1>2. HeldIsUsable
    <2>1. ldr.held \in BOOLEAN /\ ldr.attached \in BOOLEAN
      BY DEF LoadInv, LdrType
    <2> QED BY <2>1 DEF LoadInv, HeldIsUsable
  <1>3. CheckForetellsLoad
    <2>1. check_kmod = "ok" <=> Pick # Nil /\ Pick.magic # Nil /\ relate(Pick.magic, uname) # "different"
      BY DEF check_kmod
    <2>2. TRUE \in Admits(Pick) <=> Pick.magic # Nil /\ relate(Pick.magic, uname) # "different"
      BY DEF Admits
    <2> QED BY <2>1, <2>2 DEF LoadInv, CheckForetellsLoad
  <1> QED BY <1>1, <1>2, <1>3 DEF ModuleFits

\* When the daemon starts it holds nothing, and what is loaded was there before.
LEMMA LoaderStarts ==
    ASSUME NEW r \in Releases, NEW d \in KmodDirs, NEW k \in LkmType, Earlier(k), LoaderStart(r, d, k)
    PROVE  LoadInv
  <1>1. /\ lkm = k /\ listing = d
        /\ ldr = [at |-> "idle", held |-> FALSE, attached |-> FALSE, error |-> Nil]
    BY DEF LoaderStart
  <1>2. ldr \in LdrType
    BY <1>1 DEF LdrType
  <1>3. ldr.at = "idle" /\ ldr.held = FALSE /\ ldr.attached = FALSE /\ ldr.error = Nil
    BY <1>1
  <1>4. Nil \notin {"unknown_release", "missing_module", "finit"}
    BY LoaderAssumption
  <1>5. lkm \in LkmType /\ lkm.holder # "fluxd" /\ ~lkm.ours
    BY <1>1 DEF Earlier
  <1> QED BY <1>1, <1>2, <1>3, <1>4, <1>5 DEF LoadInv

\* The error of a load is kept with the directory it is about.
LEMMA SameDirectory ==
    ASSUME UNCHANGED <<uname, listing>>
    PROVE  Pick' = Pick /\ Admits(Pick)' = Admits(Pick)
BY DEF Pick, Admits, relate

\* The invariant is inductive.
LEMMA LoaderSteps ==
    LoadInv /\ [LoaderNext]_loadvars => LoadInv'
  <1> SUFFICES ASSUME LoadInv, [LoaderNext]_loadvars
               PROVE  LoadInv'
    OBVIOUS
  <1>0. /\ lkm \in LkmType /\ ldr \in LdrType /\ listing \in KmodDirs
        /\ (ldr.held <=> lkm.holder = "fluxd")
        /\ (ldr.held => lkm.resident /\ ldr.at \in {"idle", "status"})
        /\ (ldr.at = "status" => ldr.held)
        /\ (ldr.attached => ldr.held /\ lkm.answers /\ lkm.ready)
        /\ (ldr.at = "idle" /\ ldr.held /\ ~ldr.attached => ldr.error = "status")
        /\ (ldr.error \in {"unknown_release", "missing_module"} => Pick = Nil)
        /\ (ldr.error = "finit" => Pick # Nil)
        /\ (lkm.ours => Pick # Nil /\ TRUE \in Admits(Pick))
    BY DEF LoadInv
  <1>00. Nil \notin {"fluxd", "other", "unknown_release", "missing_module", "finit", "control", "status", "symbols"}
    BY LoaderAssumption
  <1>d. UNCHANGED <<uname, listing>> => Pick' = Pick /\ Admits(Pick)' = Admits(Pick)
    BY SameDirectory
  <1>1. CASE UNCHANGED loadvars
    <2>1. Pick' = Pick /\ Admits(Pick)' = Admits(Pick)
      BY <1>1, <1>d DEF loadvars
    <2> QED BY <1>0, <1>1, <2>1 DEF LoadInv, loadvars
  <1>2. CASE converge_disabled
    <2>1. listing' = listing /\ Pick' = Pick /\ Admits(Pick)' = Admits(Pick)
      BY <1>2, <1>d DEF converge_disabled
    <2>2. /\ ldr' \in LdrType /\ ldr'.held = FALSE /\ ldr'.attached = FALSE /\ ldr'.at = "idle" /\ ldr'.error = Nil
      BY <1>0, <1>2 DEF converge_disabled, drop_kmod, LdrType
    <2>3. lkm' \in LkmType /\ lkm'.holder # "fluxd" /\ lkm'.ours = lkm.ours
      BY <1>0, <1>00, <1>2 DEF converge_disabled, drop_kmod, LkmType
    <2> QED BY <1>0, <1>00, <2>1, <2>2, <2>3 DEF LoadInv
  <1>3. CASE ensure_kmod
    <2>1. listing' = listing /\ Pick' = Pick /\ Admits(Pick)' = Admits(Pick) /\ lkm' = lkm
      BY <1>3, <1>d DEF ensure_kmod
    <2>2. /\ ldr' \in LdrType /\ ldr'.held = ldr.held /\ ldr'.attached = ldr.attached /\ ldr'.error = Nil
          /\ ldr'.at = IF ldr.held THEN "status" ELSE "load"
      BY <1>0, <1>3 DEF ensure_kmod, LdrType
    <2>3. (ldr.attached => ldr.held) /\ ldr'.error \notin {"unknown_release", "missing_module", "finit"}
      BY <1>0, <1>00, <1>3, <2>2 DEF ensure_kmod
    <2>4. CASE ldr.held
      BY <1>0, <2>1, <2>2, <2>3, <2>4 DEF LoadInv
    <2>5. CASE ~ldr.held
      BY <1>0, <2>1, <2>2, <2>3, <2>5 DEF LoadInv
    <2> QED BY <2>4, <2>5
  <1>4. CASE load_refused
    <2>1. listing' = listing /\ Pick' = Pick /\ Admits(Pick)' = Admits(Pick) /\ lkm' = lkm /\ Pick = Nil
      BY <1>4, <1>d DEF load_refused
    <2>2. /\ ldr' \in LdrType /\ ldr'.held = ldr.held /\ ldr'.attached = FALSE /\ ldr'.at = "idle"
          /\ ldr'.error \in {"unknown_release", "missing_module"}
      BY <1>0, <1>4 DEF load_refused, Ends, LdrType
    <2> QED BY <1>0, <1>00, <1>4, <2>1, <2>2 DEF LoadInv, load_refused
  <1>5. CASE finit_module
    <2>1. listing' = listing /\ Pick' = Pick /\ Admits(Pick)' = Admits(Pick) /\ Pick # Nil /\ ldr.at = "load"
      BY <1>5, <1>d DEF finit_module
    <2>2. ~ldr.held /\ ~ldr.attached
      BY <1>0, <2>1
    <2>3. CASE ldr' = [ldr EXCEPT !.at = "open"] /\ lkm' = lkm
      <3>1. ldr' \in LdrType /\ ldr'.held = ldr.held /\ ldr'.attached = ldr.attached /\ ldr'.at = "open" /\ ldr'.error = ldr.error
        BY <1>0, <2>3 DEF LdrType
      <3> QED BY <1>0, <2>1, <2>2, <2>3, <3>1 DEF LoadInv
    <2>4. CASE /\ ldr' = [ldr EXCEPT !.at = "open"] /\ TRUE \in Admits(Pick)
               /\ \E symbols, same \in BOOLEAN :
                    lkm' = [resident |-> TRUE, ready |-> symbols, answers |-> same, ours |-> TRUE, holder |-> Nil]
      <3>1. ldr' \in LdrType /\ ldr'.held = ldr.held /\ ldr'.attached = ldr.attached /\ ldr'.at = "open" /\ ldr'.error = ldr.error
        BY <1>0, <2>4 DEF LdrType
      <3>2. lkm' \in LkmType /\ lkm'.holder # "fluxd"
        BY <1>00, <2>4 DEF LkmType
      <3> QED BY <1>0, <2>1, <2>2, <2>4, <3>1, <3>2 DEF LoadInv
    <2>5. CASE FALSE \in Admits(Pick) /\ Ends("finit") /\ lkm' = lkm
      <3>1. ldr' \in LdrType /\ ldr'.held = ldr.held /\ ldr'.attached = FALSE /\ ldr'.at = "idle" /\ ldr'.error = "finit"
        BY <1>0, <2>5 DEF LdrType, Ends
      <3> QED BY <1>0, <2>1, <2>2, <2>5, <3>1 DEF LoadInv
    <2> QED BY <1>5, <2>3, <2>4, <2>5 DEF finit_module
  <1>6. CASE open_ctl
    <2>1. listing' = listing /\ Pick' = Pick /\ Admits(Pick)' = Admits(Pick) /\ ldr.at = "open" /\ ~ldr.held /\ ~ldr.attached
      BY <1>0, <1>6, <1>d DEF open_ctl
    <2>2. CASE lkm.resident /\ lkm.holder = Nil
      <3>1. /\ ldr' \in LdrType /\ ldr'.held = TRUE /\ ldr'.attached = ldr.attached /\ ldr'.at = "status"
            /\ ldr'.error = ldr.error
        BY <1>0, <1>6, <2>2 DEF LdrType, open_ctl
      <3>2. lkm' \in LkmType /\ lkm'.holder = "fluxd" /\ lkm'.resident /\ lkm'.ours = lkm.ours
        BY <1>0, <1>6, <2>2 DEF LkmType, open_ctl
      <3> QED BY <1>0, <2>1, <3>1, <3>2 DEF LoadInv
    <2>3. CASE ~(lkm.resident /\ lkm.holder = Nil)
      <3>1. /\ ldr' \in LdrType /\ ldr'.held = ldr.held /\ ldr'.attached = ldr.attached /\ ldr'.at = "delete"
            /\ ldr'.error = ldr.error /\ lkm' = lkm
        BY <1>0, <1>6, <2>3 DEF LdrType, open_ctl
      <3> QED BY <1>0, <2>1, <3>1 DEF LoadInv
    <2> QED BY <2>2, <2>3
  <1>7. CASE delete_module
    <2>1. listing' = listing /\ Pick' = Pick /\ Admits(Pick)' = Admits(Pick) /\ ldr.at = "delete" /\ ~ldr.held /\ ~ldr.attached
      BY <1>0, <1>7, <1>d DEF delete_module
    <2>2. ldr' \in LdrType /\ ldr'.held = ldr.held /\ ldr'.attached = FALSE /\ ldr'.at = "idle" /\ ldr'.error = "control"
      BY <1>0, <1>7 DEF LdrType, Ends, delete_module
    <2>3. lkm' \in LkmType /\ lkm'.holder # "fluxd" /\ (lkm'.ours => lkm.ours)
      BY <1>0, <1>00, <1>7, <2>1 DEF LkmType, delete_module, Absent
    <2> QED BY <2>1, <2>2, <2>3, <1>0 DEF LoadInv
  <1>8. CASE ensure_status
    <2>1. listing' = listing /\ Pick' = Pick /\ Admits(Pick)' = Admits(Pick) /\ ldr.held
      BY <1>0, <1>8, <1>d DEF ensure_status
    <2>2. CASE lkm.answers /\ lkm.ready
      <3>1. ldr' \in LdrType /\ ldr'.held = ldr.held /\ ldr'.attached = TRUE /\ ldr'.at = "idle" /\ ldr'.error = ldr.error /\ lkm' = lkm
        BY <1>0, <1>8, <2>2 DEF LdrType, ensure_status
      <3> QED BY <1>0, <2>1, <2>2, <3>1 DEF LoadInv
    <2>3. CASE lkm.answers /\ ~lkm.ready
      <3>1. /\ ldr' \in LdrType /\ ldr'.held = FALSE /\ ldr'.attached = FALSE /\ ldr'.at = "idle" /\ ldr'.error = "symbols"
        BY <1>0, <1>8, <2>3 DEF ensure_status, drop_kmod, LdrType
      <3>2. lkm' \in LkmType /\ lkm'.holder # "fluxd" /\ lkm'.ours = lkm.ours
        BY <1>0, <1>00, <1>8, <2>3 DEF ensure_status, drop_kmod, LkmType
      <3> QED BY <1>0, <2>1, <3>1, <3>2 DEF LoadInv
    <2>4. CASE ~lkm.answers
      <3>1. /\ ldr' \in LdrType /\ ldr'.held = ldr.held /\ ldr'.attached = FALSE /\ ldr'.at = "idle"
            /\ ldr'.error = "status" /\ lkm' = lkm
        BY <1>0, <1>8, <2>4 DEF ensure_status, Ends, LdrType
      <3> QED BY <1>0, <2>1, <3>1 DEF LoadInv
    <2> QED BY <2>2, <2>3, <2>4
  <1>9. CASE LoaderDies
    <2>1. listing' = listing /\ Pick' = Pick /\ Admits(Pick)' = Admits(Pick)
      BY <1>9, <1>d DEF LoaderDies
    <2>2. /\ ldr' \in LdrType /\ ldr'.held = FALSE /\ ldr'.attached = FALSE /\ ldr'.at = "idle" /\ ldr'.error = Nil
      BY <1>0, <1>9 DEF LoaderDies, LdrType
    <2>3. lkm' \in LkmType /\ lkm'.holder # "fluxd" /\ lkm'.ours = lkm.ours
      BY <1>0, <1>00, <1>9 DEF LoaderDies, LkmType
    <2> QED BY <1>0, <1>00, <2>1, <2>2, <2>3 DEF LoadInv
  <1>10. CASE OtherOpens \/ OtherCloses
    <2>1. listing' = listing /\ Pick' = Pick /\ Admits(Pick)' = Admits(Pick) /\ ldr' = ldr
      BY <1>10, <1>d DEF OtherOpens, OtherCloses
    <2>2. /\ lkm' \in LkmType /\ lkm.holder # "fluxd" /\ lkm'.holder # "fluxd" /\ lkm'.ours = lkm.ours
      BY <1>0, <1>00, <1>10 DEF OtherOpens, OtherCloses, LkmType
    <2>3. ~ldr.held /\ ~(ldr.at = "status")
      BY <1>0, <2>2
    <2>4. ~ldr.attached
      BY <1>0, <2>3 DEF LdrType
    <2> QED BY <1>0, <2>1, <2>2, <2>3, <2>4 DEF LoadInv
  <1> QED BY <1>1, <1>2, <1>3, <1>4, <1>5, <1>6, <1>7, <1>8, <1>9, <1>10 DEF LoaderNext

\* The module that is chosen and foretold is one that fits this kernel, for every directory and every
\* release; and whatever build of the module is there before, and whoever else opens and closes the
\* node meanwhile, the daemon says attached only of a module that answers it and can steal.
THEOREM ModulesFit == LoaderSpec => []ModuleFits
  <1>1. (\E r \in Releases, d \in KmodDirs, k \in LkmType : Earlier(k) /\ LoaderStart(r, d, k)) => LoadInv
    BY LoaderStarts
  <1> QED BY <1>1, LoaderSteps, LoadSound, PTL DEF LoaderSpec

-----------------------------------------------------------------------------
(* The policy *)

\* expand_list: what is in the expanded list.
LEMMA ExpandFacts ==
    ASSUME NEW T, NEW raw, NEW lines, raw \in Seq(T \cup {FileRef}),
           FileRef \in Entries(raw) => lines \in Seq(T)
    PROVE  expand_list(raw, lines) \in Seq(T)
  <1> DEFINE lists == [i \in DOMAIN raw |-> IF raw[i] = FileRef THEN lines ELSE <<raw[i]>>]
             n == Len(raw)
  <1>1. n \in Nat /\ DOMAIN raw = 1..n /\ \A i \in 1..n : raw[i] \in T \/ raw[i] = FileRef
    OBVIOUS
  <1> HIDE DEF n
  <1>2. ASSUME NEW i \in 1..n PROVE lists[i] \in Seq(T)
    <2>1. CASE raw[i] = FileRef
      <3>1. FileRef \in Entries(raw)
        BY <1>1, <2>1 DEF Entries
      <3>2. lists[i] = lines
        BY <1>1, <2>1
      <3> QED BY <3>1, <3>2
    <2>2. CASE raw[i] # FileRef
      <3>1. lists[i] = <<raw[i]>> /\ raw[i] \in T
        BY <1>1, <2>2
      <3>2. <<raw[i]>> \in Seq(T)
        BY <3>1
      <3> QED BY <3>1, <3>2
    <2> QED BY <2>1, <2>2
  <1>3. lists = [i \in 1..n |-> lists[i]] /\ expand_list(raw, lines) = Concat(lists)
    BY <1>1 DEF expand_list
  <1> HIDE DEF lists
  <1>4. lists \in Seq(Seq(T))
    <2> DEFINE X == Seq(T)
    <2>1. \A i \in 1..n : lists[i] \in X
      BY <1>2
    <2> HIDE DEF X
    <2>2. lists \in Seq(X)
      BY <1>1, <1>3, <2>1, Mapped
    <2> QED BY <2>2 DEF X
  <1> QED BY <1>3, <1>4, ConcatFacts

LEMMA DimensionFacts ==
    ASSUME NEW T, NEW d, NEW lines, d.list \in Seq(T \cup {FileRef}), lines \in Seq(T \cup {FileRef}),
           dimension(d, lines) # Nil
    PROVE  dimension(d, lines).list \in Seq(T) /\ dimension(d, lines).mode \in {"whitelist", "blacklist"}
  <1>0. dimension(d, lines).mode \in {"whitelist", "blacklist"}
    BY DEF dimension
  <1>1. /\ dimension(d, lines).list = expand_list(d.list, lines)
        /\ ~(FileRef \in Entries(d.list) /\ FileRef \in Entries(lines))
    BY DEF dimension
  <1>2. ASSUME FileRef \in Entries(d.list) PROVE lines \in Seq(T)
    <2>1. \A i \in DOMAIN lines : lines[i] # FileRef
      BY <1>1, <1>2 DEF Entries
    <2>2. \A i \in 1..Len(lines) : lines[i] \in T
      BY <2>1
    <2> QED BY <2>2
  <1> QED BY <1>0, <1>1, <1>2, ExpandFacts

\* parse_cidrs: the prefixes of a list.
LEMMA CidrFacts ==
    ASSUME NEW list \in Seq(CidrEntries), parse_cidrs(list) # Nil
    PROVE  IsFiniteSet(parse_cidrs(list)) /\ parse_cidrs(list) \subseteq [addr : Addr, len : 0..Width]
  <1>1. parse_cidrs(list) = Entries(list) /\ \A i \in DOMAIN list : Canonical(list[i])
    BY DEF parse_cidrs
  <1>2. Len(list) \in Nat /\ DOMAIN list = 1..Len(list)
    OBVIOUS
  <1>3. IsFiniteSet(1..Len(list))
    BY <1>2, FS_Interval
  <1>4. list \in Surjection(1..Len(list), Entries(list))
    BY <1>2 DEF Surjection, Entries
  <1>5. IsFiniteSet(Entries(list))
    BY <1>3, <1>4, FS_Surjection
  <1>6. ASSUME NEW i \in DOMAIN list PROVE list[i] \in [addr : Addr, len : 0..Width]
    <2>1. list[i] \in CidrEntries /\ list[i].len <= Width /\ Width \in Nat
      BY <1>1, PolicyAssumption DEF Canonical
    <2> QED BY <2>1 DEF CidrEntries
  <1> QED BY <1>1, <1>5, <1>6 DEF Entries

LEMMA AppFacts ==
    ASSUME NEW list \in Seq(AppEntries), parse_apps(list) # Nil
    PROVE  \A s \in parse_apps(list) : s.user \in Nat
  <1>1. parse_apps(list) = Entries([i \in DOMAIN list |-> canonical(list[i])])
    BY DEF parse_apps
  <1>2. ASSUME NEW i \in DOMAIN list PROVE canonical(list[i]).user \in Nat
    <2>1. list[i] \in AppEntries
      OBVIOUS
    <2>2. list[i].user \in Nat
      BY <2>1 DEF AppEntries
    <2> QED BY <2>2 DEF canonical
  <1> QED BY <1>1, <1>2 DEF Entries

\* compose_uid: the app id of a composed UID.
LEMMA ComposedApp ==
    ASSUME NEW user \in Nat, NEW app \in 0..(Stride - 1), compose_uid(user, app) # Nil
    PROVE  compose_uid(user, app) % Stride = app /\ app # 0
  <1>1. Stride \in Nat /\ Stride > 0
    BY PolicyAssumption
  <1>2. compose_uid(user, app) = user * Stride + app /\ app # 0
    BY DEF compose_uid
  <1>3. (user * Stride + app) % Stride = app
    BY <1>1
  <1> QED BY <1>2, <1>3

\* PackageIndex::app_id: the id of the last line.
LEMMA AppIdFacts ==
    ASSUME NEW index \in PackageLists, NEW pkg, app_id(index, pkg) # Nil
    PROVE  app_id(index, pkg) \in 0..(Stride - 1)
  <1> DEFINE lines == {i \in DOMAIN index : index[i].pkg = pkg}
             last == CHOOSE i \in lines : \A j \in lines : j <= i
  <1>1. lines # {} /\ app_id(index, pkg) = index[last].uid % Stride
    BY DEF app_id
  <1>2. index \in Seq([pkg : STRING, uid : Nat]) /\ Stride \in Nat /\ Stride > 0
    BY PolicyAssumption
  <1>3. Len(index) \in Nat /\ lines \subseteq 0..Len(index)
    BY <1>2
  <1>4. \E i \in lines : \A j \in lines : j <= i
    BY <1>1, <1>3, LargestNumber
  <1>5. last \in lines
    BY <1>4
  <1> HIDE DEF last
  <1>6. index[last].uid \in Nat
    <2>1. last \in DOMAIN index
      BY <1>5
    <2> DEFINE Packages == [pkg : STRING, uid : Nat]
    <2>2. index \in Seq(Packages)
      BY <1>2
    <2>3. index[last] \in Packages
      <3> HIDE DEF Packages
      <3> QED BY <2>1, <2>2
    <2> QED BY <2>3
  <1> QED BY <1>1, <1>2, <1>6

\* resolve_selected_uids: what is selected.
OnlyApps(uids, mode) ==
    \A uid \in uids : uid % Stride # 0 /\ (uid % Stride \notin AppMin..AppMax => mode = "whitelist")

LEMMA SelectedFacts ==
    ASSUME NEW apps, \A s \in apps : s.user \in Nat, NEW mode, NEW index \in PackageLists,
           resolve_selected_uids(apps, mode, index) # Nil
    PROVE  OnlyApps(resolve_selected_uids(apps, mode, index), mode)
  <1> DEFINE listed == {resolve(index, s) : s \in apps}
             users == {s.user : s \in apps} \cup {0}
             all == {compose_uid(u, a) : u \in users, a \in application_ids(index)}
             selected == IF mode = "whitelist" THEN listed ELSE all \ listed
  <1>1. resolve_selected_uids(apps, mode, index) = selected /\ Nil \notin listed \cup all
    BY DEF resolve_selected_uids
  <1>2. ASSUME NEW s \in apps
        PROVE  resolve(index, s) % Stride # 0
    <2>1. resolve(index, s) # Nil
      BY <1>1
    <2>2. app_id(index, s.pkg) # Nil /\ resolve(index, s) = compose_uid(s.user, app_id(index, s.pkg))
      BY <2>1 DEF resolve
    <2>3. app_id(index, s.pkg) \in 0..(Stride - 1)
      BY <2>2, AppIdFacts
    <2> QED BY <2>1, <2>2, <2>3, ComposedApp
  <1>3. ASSUME NEW u \in users, NEW a \in application_ids(index)
        PROVE  compose_uid(u, a) % Stride # 0 /\ compose_uid(u, a) % Stride \in AppMin..AppMax
    <2>1. a \in AppMin..AppMax
      BY DEF application_ids
    <2>2. a \in 0..(Stride - 1)
      BY <2>1, PolicyAssumption
    <2>3. u \in Nat /\ compose_uid(u, a) # Nil
      BY <1>1
    <2> QED BY <2>1, <2>2, <2>3, ComposedApp
  <1>4. CASE mode = "whitelist"
    BY <1>1, <1>2, <1>4 DEF OnlyApps
  <1>5. CASE mode # "whitelist"
    <2>1. \A uid \in all : uid % Stride # 0 /\ uid % Stride \in AppMin..AppMax
      BY <1>3
    <2> HIDE DEF all, listed
    <2> QED BY <1>1, <1>5, <2>1 DEF OnlyApps
  <1> QED BY <1>4, <1>5

\* A set of tagged prefixes.
Prefixes(b) ==
    /\ IsFiniteSet(DOMAIN b) /\ DOMAIN b \subseteq [addr : Addr, len : 0..Width]
    /\ \A p \in DOMAIN b : b[p] \in {"reserved", "policy"}

\* read_policy_config: the desired policy.
LEMMA DesiredFacts ==
    ASSUME NEW d \in Documents, NEW lines \in ListFiles, NEW index \in PackageLists,
           read_policy_config(d, lines, index) # Nil
    PROVE  LET desired == read_policy_config(d, lines, index) IN
           /\ OnlyApps(desired.selected, desired.flux.apps_mode) /\ Prefixes(desired.bypass)
           /\ desired.flux.cidr_mode \in {"whitelist", "blacklist"}
  <1> DEFINE flux == parse_files(d, lines)
             apps == dimension(d.apps, lines.apps)
             cidr == dimension(d.cidr, lines.cidr)
             uids == IF flux.apps_mode = "whitelist" /\ flux.apps = {} THEN {}
                     ELSE resolve_selected_uids(flux.apps, flux.apps_mode, index)
  <1>1. /\ flux # Nil /\ uids # Nil
        /\ read_policy_config(d, lines, index) = [flux |-> flux, selected |-> uids, bypass |-> tagged(flux.cidrs)]
    BY DEF read_policy_config
  <1>2. /\ apps # Nil /\ cidr # Nil /\ parse_apps(apps.list) # Nil /\ parse_cidrs(cidr.list) # Nil
        /\ flux.apps = parse_apps(apps.list) /\ flux.cidrs = parse_cidrs(cidr.list)
        /\ flux.cidr_mode = cidr.mode
    BY <1>1 DEF parse_files
  <1> HIDE DEF flux, apps, cidr
  <1>3. apps.list \in Seq(AppEntries) /\ cidr.list \in Seq(CidrEntries) /\ cidr.mode \in {"whitelist", "blacklist"}
    <2>1. /\ d.apps.list \in Seq(AppEntries \cup {FileRef}) /\ d.cidr.list \in Seq(CidrEntries \cup {FileRef})
          /\ lines.apps \in Seq(AppEntries \cup {FileRef}) /\ lines.cidr \in Seq(CidrEntries \cup {FileRef})
      BY PolicyAssumption
    <2> QED BY <1>2, <2>1, DimensionFacts DEF apps, cidr
  <1>4. OnlyApps(uids, flux.apps_mode)
    <2>1. \A s \in flux.apps : s.user \in Nat
      BY <1>2, <1>3, AppFacts
    <2>2. CASE uids = {}
      BY <2>2 DEF OnlyApps
    <2>3. CASE uids = resolve_selected_uids(flux.apps, flux.apps_mode, index)
      BY <2>1, <2>3, <1>1, SelectedFacts
    <2> QED BY <2>2, <2>3
  <1>5. Prefixes(tagged(flux.cidrs))
    <2>1. IsFiniteSet(flux.cidrs) /\ flux.cidrs \subseteq [addr : Addr, len : 0..Width]
      BY <1>2, <1>3, CidrFacts
    <2>2. IsFiniteSet(FixedBypass) /\ FixedBypass \subseteq [addr : Addr, len : 0..Width]
      BY PolicyAssumption
    <2>3. IsFiniteSet(flux.cidrs \cup FixedBypass)
      BY <2>1, <2>2, FS_Union
    <2>4. DOMAIN tagged(flux.cidrs) = flux.cidrs \cup FixedBypass
      BY DEF tagged
    <2>5. \A p \in flux.cidrs \cup FixedBypass : tagged(flux.cidrs)[p] \in {"reserved", "policy"}
      BY DEF tagged
    <2> QED BY <2>1, <2>2, <2>3, <2>4, <2>5 DEF Prefixes
  <1> QED BY <1>1, <1>2, <1>3, <1>4, <1>5

AllPrefixes == [addr : Addr, len : 0..Width]

\* cmp_pfx4 orders the prefixes.
LEMMA OrderFacts ==
    ASSUME NEW p \in AllPrefixes, NEW q \in AllPrefixes
    PROVE  /\ ~cmp_pfx(p, p)
           /\ p # q => cmp_pfx(p, q) \/ cmp_pfx(q, p)
           /\ \A r \in AllPrefixes : cmp_pfx(p, q) /\ cmp_pfx(q, r) => cmp_pfx(p, r)
  <1>1. \A r \in AllPrefixes : r.addr \in Int /\ r.len \in Int
    BY DEF AllPrefixes, Addr
  <1>2. p # q => p.addr # q.addr \/ p.len # q.len
    BY DEF AllPrefixes
  <1> QED BY <1>1, <1>2 DEF cmp_pfx

\* The prefixes in front of p in the sorted table, and so its place.
InFront(all, p) == {q \in all : cmp_pfx(q, p)}
Place(all, p) == Cardinality(InFront(all, p))

LEMMA PlaceFacts ==
    ASSUME NEW all, IsFiniteSet(all), all \subseteq AllPrefixes
    PROVE  /\ Cardinality(all) \in Nat
           /\ \A p \in all : Place(all, p) \in 0..(Cardinality(all) - 1)
           /\ \A p, q \in all : cmp_pfx(p, q) => Place(all, p) < Place(all, q)
           /\ \A i \in 1..Cardinality(all) : \E p \in all : Place(all, p) = i - 1
  <1> DEFINE n == Cardinality(all)
  <1>1. n \in Nat
    BY FS_CardinalityType
  <1>2. ASSUME NEW p \in all
        PROVE  IsFiniteSet(InFront(all, p)) /\ Place(all, p) \in Nat /\ p \notin InFront(all, p)
    <2>1. InFront(all, p) \in SUBSET all
      BY DEF InFront
    <2>2. IsFiniteSet(InFront(all, p))
      BY <2>1, FS_Subset
    <2>3. ~cmp_pfx(p, p)
      BY OrderFacts
    <2> QED BY <2>2, <2>3, FS_CardinalityType DEF Place, InFront
  <1>3. ASSUME NEW p \in all
        PROVE  Place(all, p) \in 0..(n - 1)
    <2>1. InFront(all, p) \in SUBSET (all \ {p})
      BY <1>2 DEF InFront
    <2>2. IsFiniteSet(all \ {p}) /\ Cardinality(all \ {p}) = n - 1
      BY FS_RemoveElement
    <2>3. Place(all, p) <= n - 1
      BY <2>1, <2>2, FS_Subset DEF Place
    <2> QED BY <1>1, <1>2, <2>3
  <1>4. ASSUME NEW p \in all, NEW q \in all, cmp_pfx(p, q)
        PROVE  Place(all, p) < Place(all, q)
    <2>1. InFront(all, p) \cup {p} \in SUBSET InFront(all, q)
      BY <1>4, OrderFacts DEF InFront
    <2>2. Cardinality(InFront(all, p) \cup {p}) = Place(all, p) + 1
      BY <1>2, FS_AddElement DEF Place
    <2>3. Cardinality(InFront(all, p) \cup {p}) <= Place(all, q)
      BY <1>2, <2>1, FS_Subset DEF Place
    <2> QED BY <1>2, <2>2, <2>3
  <1>5. \A i \in 1..n : \E p \in all : Place(all, p) = i - 1
    <2> DEFINE f == [p \in all |-> Place(all, p)]
    <2>1. f \in [all -> 0..(n - 1)]
      BY <1>3
    <2>2. \A p, q \in all : p # q => Place(all, p) # Place(all, q)
      BY <1>2, <1>4, OrderFacts
    <2>3. f \in Injection(all, 0..(n - 1))
      <3>1. \A p, q \in all : f[p] = f[q] => p = q
        BY <2>2
      <3> HIDE DEF f
      <3> QED BY <2>1, <3>1 DEF Injection, IsInjective
    <2>4. IsFiniteSet(0..(n - 1)) /\ Cardinality(0..(n - 1)) = n
      BY <1>1, FS_Interval
    <2> HIDE DEF f
    <2>5. f \in Surjection(all, 0..(n - 1))
      BY <2>3, <2>4, FS_Injection
    <2> USE DEF f
    <2>6. \A j \in 0..(n - 1) : \E p \in all : Place(all, p) = j
      BY <2>5 DEF Surjection
    <2> QED BY <1>1, <2>6
  <1> QED BY <1>1, <1>3, <1>4, <1>5

\* fill_off4: how many are in front of a bucket.
InFrontOfLength(all, n) == Cardinality({p \in all : p.len < n})

LEMMA BucketFacts ==
    ASSUME NEW all, IsFiniteSet(all), all \subseteq AllPrefixes
    PROVE  /\ \A n \in 0..(Width + 1) : InFrontOfLength(all, n) \in 0..Cardinality(all)
           /\ \A m, n \in 0..(Width + 1) : m <= n => InFrontOfLength(all, m) <= InFrontOfLength(all, n)
           /\ \A p \in all : /\ InFrontOfLength(all, p.len) <= Place(all, p)
                             /\ Place(all, p) < InFrontOfLength(all, p.len + 1)
  <1> DEFINE of(n) == {p \in all : p.len < n}
  <1>0. Width \in Nat /\ \A p \in all : p.len \in 0..Width
    BY PolicyAssumption DEF AllPrefixes
  <1>1. ASSUME NEW n \in 0..(Width + 1)
        PROVE  IsFiniteSet(of(n)) /\ InFrontOfLength(all, n) \in 0..Cardinality(all)
    <2>1. of(n) \in SUBSET all
      OBVIOUS
    <2>2. IsFiniteSet(of(n)) /\ Cardinality(of(n)) <= Cardinality(all)
      BY <2>1, FS_Subset
    <2>3. Cardinality(of(n)) \in Nat /\ Cardinality(all) \in Nat
      BY <2>2, FS_CardinalityType
    <2> QED BY <2>2, <2>3 DEF InFrontOfLength
  <1>2. ASSUME NEW m \in 0..(Width + 1), NEW n \in 0..(Width + 1), m <= n
        PROVE  InFrontOfLength(all, m) <= InFrontOfLength(all, n)
    <2>1. of(m) \in SUBSET of(n)
      BY <1>0, <1>2
    <2> QED BY <1>1, <2>1, FS_Subset DEF InFrontOfLength
  <1>3. ASSUME NEW p \in all
        PROVE  /\ InFrontOfLength(all, p.len) <= Place(all, p)
               /\ Place(all, p) < InFrontOfLength(all, p.len + 1)
    <2>0. p.len \in 0..(Width + 1) /\ p.len + 1 \in 0..(Width + 1)
      BY <1>0
    <2>1. IsFiniteSet(InFront(all, p)) /\ p \notin InFront(all, p) /\ InFront(all, p) \in SUBSET all
      <3>1. InFront(all, p) \in SUBSET all
        BY DEF InFront
      <3>2. ~cmp_pfx(p, p)
        BY OrderFacts
      <3> QED BY <3>1, <3>2, FS_Subset DEF InFront
    <2>2. of(p.len) \in SUBSET InFront(all, p)
      BY DEF InFront, cmp_pfx
    <2>3. InFrontOfLength(all, p.len) <= Place(all, p)
      BY <2>1, <2>2, FS_Subset DEF Place, InFrontOfLength
    <2>4. InFront(all, p) \cup {p} \in SUBSET of(p.len + 1)
      <3>1. ASSUME NEW q \in all, cmp_pfx(q, p) \/ q = p PROVE q.len < p.len + 1
        BY <1>0, <3>1 DEF cmp_pfx
      <3> QED BY <3>1 DEF InFront
    <2>5. Cardinality(InFront(all, p) \cup {p}) <= InFrontOfLength(all, p.len + 1)
      BY <1>1, <2>0, <2>4, FS_Subset DEF InFrontOfLength
    <2>6. Cardinality(InFront(all, p) \cup {p}) = Place(all, p) + 1
      BY <2>1, FS_AddElement DEF Place
    <2>7. Place(all, p) \in Nat
      BY <2>1, FS_CardinalityType DEF Place
    <2>8. InFrontOfLength(all, p.len + 1) \in 0..Cardinality(all)
      BY <1>1, <2>0
    <2> QED BY <2>3, <2>5, <2>6, <2>7, <2>8
  <1> QED BY <1>1, <1>2, <1>3

TableEntry == [net : Int, tag : {"reserved", "policy"}]

\* pfx4_find: the search ends, with the tag of the entry it looks for.
LEMMA SearchFacts ==
    ASSUME NEW len \in Nat, NEW table \in Seq(TableEntry), len = Len(table),
           NEW lo \in 0..len, NEW hi \in 0..len, NEW key,
           \A i, j \in (lo + 1)..hi : i < j => table[i].net < table[j].net
    PROVE  /\ \A i \in (lo + 1)..hi : table[i].net = key => pfx_find(table, lo, hi, key) = table[i].tag
           /\ (\A i \in (lo + 1)..hi : table[i].net # key) => pfx_find(table, lo, hi, key) = "none"
  <1> DEFINE D == (0..len) \X (0..len)
             mid(w) == w[1] + (w[2] - w[1]) \div 2
             Body(w, g) == IF w[1] >= w[2] THEN "none"
                           ELSE IF table[mid(w) + 1].net = key THEN table[mid(w) + 1].tag
                           ELSE IF table[mid(w) + 1].net < key THEN g[<<mid(w) + 1, w[2]>>]
                           ELSE g[<<w[1], mid(w)>>]
             Run(k, g) == g = [w \in D |-> IF w[2] - w[1] > k THEN "none" ELSE Body(w, g)]
             S == {k \in Nat : \E g : Run(k, g)}
  <1>1. ASSUME NEW w \in D, w[1] < w[2]
        PROVE  /\ w[1] \in 0..len /\ w[2] \in 0..len
               /\ mid(w) \in 0..len /\ w[1] <= mid(w) /\ mid(w) + 1 <= w[2] /\ mid(w) + 1 \in 1..len
               /\ <<mid(w) + 1, w[2]>> \in D /\ <<w[1], mid(w)>> \in D
    <2>1. w[1] \in 0..len /\ w[2] \in 0..len
      OBVIOUS
    <2> DEFINE d == w[2] - w[1]
    <2>2. d \in Nat /\ d >= 1
      BY <2>1, <1>1
    <2> HIDE DEF d
    <2>3. d \div 2 \in Nat /\ d \div 2 < d
      BY <2>2
    <2> USE DEF d
    <2>4. mid(w) \in 0..len /\ w[1] <= mid(w) /\ mid(w) + 1 <= w[2]
      BY <2>1, <2>3
    <2> HIDE DEF mid
    <2> QED BY <2>1, <2>4
  <1> HIDE DEF mid
  <1>2. ASSUME NEW g, NEW h, NEW w \in D, \A v \in D : v[2] - v[1] < w[2] - w[1] => g[v] = h[v]
        PROVE  Body(w, g) = Body(w, h)
    <2>1. CASE w[1] >= w[2]
      BY <2>1
    <2>2. CASE ~(w[1] >= w[2])
      <3>1. w[1] \in Int /\ w[2] \in Int /\ w[1] < w[2]
        BY <2>2
      <3>0. /\ w[1] <= mid(w) /\ mid(w) + 1 <= w[2] /\ mid(w) \in 0..len
            /\ <<mid(w) + 1, w[2]>> \in D /\ <<w[1], mid(w)>> \in D
        BY <1>1, <3>1
      <3>2. g[<<mid(w) + 1, w[2]>>] = h[<<mid(w) + 1, w[2]>>]
        <4>1. <<mid(w) + 1, w[2]>> \in D /\ w[2] - (mid(w) + 1) < w[2] - w[1]
          BY <3>0, <3>1
        <4> QED BY <4>1, <1>2
      <3>3. g[<<w[1], mid(w)>>] = h[<<w[1], mid(w)>>]
        <4>1. <<w[1], mid(w)>> \in D /\ mid(w) - w[1] < w[2] - w[1]
          BY <3>0, <3>1
        <4> QED BY <4>1, <1>2
      <3> QED BY <3>2, <3>3
    <2> QED BY <2>1, <2>2
  <1>3. ASSUME NEW g, NEW w \in D, ~(w[2] - w[1] > 0)
        PROVE  Body(w, g) = "none"
    <2>1. w[1] \in Int /\ w[2] \in Int
      OBVIOUS
    <2> QED BY <1>3, <2>1
  <1> HIDE DEF Body
  <1>4. 0 \in S
    <2> DEFINE g == [w \in D |-> "none"]
               r == [w \in D |-> IF w[2] - w[1] > 0 THEN "none" ELSE Body(w, g)]
    <2> HIDE DEF g
    <2>1. \A w \in D : r[w] = "none"
      BY <1>3
    <2>2. g = r
      BY <2>1 DEF g
    <2>3. Run(0, g)
      BY <2>2
    <2> QED BY <2>3
  <1>5. ASSUME NEW k \in Nat, k \in S
        PROVE  k + 1 \in S
    <2>1. PICK g : Run(k, g)
      BY <1>5
    <2> DEFINE h == [w \in D |-> IF w[2] - w[1] > k + 1 THEN "none" ELSE Body(w, g)]
               r == [w \in D |-> IF w[2] - w[1] > k + 1 THEN "none" ELSE Body(w, h)]
    <2>2. ASSUME NEW w \in D, w[2] - w[1] <= k
          PROVE  g[w] = h[w]
      <3>1. w[1] \in Int /\ w[2] \in Int
        OBVIOUS
      <3>2. g[w] = Body(w, g)
        BY <2>1, <2>2, <3>1
      <3>3. h[w] = Body(w, g)
        BY <2>2, <3>1
      <3> QED BY <3>2, <3>3
    <2>3. ASSUME NEW w \in D, ~(w[2] - w[1] > k + 1)
          PROVE  Body(w, g) = Body(w, h)
      <3>1. w[1] \in Int /\ w[2] \in Int /\ \A v \in D : v[1] \in Int /\ v[2] \in Int
        OBVIOUS
      <3> HIDE DEF h
      <3>2. \A v \in D : v[2] - v[1] < w[2] - w[1] => g[v] = h[v]
        BY <2>2, <2>3, <3>1
      <3> QED BY <3>2, <1>2
    <2>4. h = r
      BY <2>3
    <2>5. Run(k + 1, h)
      BY <2>4
    <2> HIDE DEF h, r, Run
    <2> QED BY <2>5
  <1>6. \A k \in Nat : k \in S
    <2> HIDE DEF S
    <2> QED BY <1>4, <1>5, AllNumbers
  <1> DEFINE Whole(g) == g = [w \in D |-> Body(w, g)]
             find == CHOOSE g : Whole(g)
  <1>7. \E g : Whole(g)
    <2>1. PICK g : Run(len, g)
      BY <1>6
    <2>2. \A w \in D : ~(w[2] - w[1] > len)
      OBVIOUS
    <2>3. Whole(g)
      BY <2>1, <2>2
    <2> QED BY <2>3
  <1>8. Whole(find)
    BY <1>7
  <1>9. pfx_find(table, lo, hi, key) = find[<<lo, hi>>]
    BY DEF pfx_find, Body, mid
  <1> HIDE DEF find
  <1>10. \A w \in D : find[w] = Body(w, find)
    BY <1>8
  <1> DEFINE Right(w) == /\ \A i \in (w[1] + 1)..w[2] : table[i].net = key => find[w] = table[i].tag
                         /\ (\A i \in (w[1] + 1)..w[2] : table[i].net # key) => find[w] = "none"
             Inside(k) == {w \in D : lo <= w[1] /\ w[2] <= hi /\ w[2] - w[1] <= k}
             Good == {k \in Nat : \A w \in Inside(k) : Right(w)}
  <1>11. ASSUME NEW w \in D, ~(w[1] < w[2])
         PROVE  Right(w)
    <2>1. w[1] \in Int /\ w[2] \in Int
      OBVIOUS
    <2>2. find[w] = "none"
      BY <1>3, <1>10, <1>11, <2>1
    <2> QED BY <1>11, <2>1, <2>2
  <1>12. 0 \in Good
    <2> SUFFICES ASSUME NEW w \in Inside(0) PROVE Right(w)
      OBVIOUS
    <2>1. w \in D /\ w[1] \in Int /\ w[2] \in Int /\ ~(w[1] < w[2])
      OBVIOUS
    <2> HIDE DEF Right
    <2> QED BY <1>11, <2>1
  <1>13. ASSUME NEW k \in Nat, k \in Good
         PROVE  k + 1 \in Good
    <2> SUFFICES ASSUME NEW w \in Inside(k + 1), w[1] < w[2] PROVE Right(w)
      <3>1. ASSUME NEW w \in Inside(k + 1) PROVE w \in D
        OBVIOUS
      <3> HIDE DEF Right
      <3> QED BY <1>11, <3>1
    <2>1. w \in D /\ w[1] \in 0..len /\ w[2] \in 0..len /\ lo <= w[1] /\ w[2] <= hi /\ w[2] - w[1] <= k + 1
      OBVIOUS
    <2> DEFINE m == mid(w)
               left == <<w[1], m>>
               right == <<m + 1, w[2]>>
    <2>2. /\ m \in 0..len /\ w[1] <= m /\ m + 1 <= w[2] /\ m + 1 \in 1..len
          /\ left \in D /\ right \in D
      BY <1>1, <2>1
    <2> HIDE DEF m, mid
    <2>3. Right(left) /\ Right(right)
      <3>1. left \in Inside(k) /\ right \in Inside(k)
        BY <2>1, <2>2
      <3> HIDE DEF Right, left, right, Inside
      <3> QED BY <3>1, <1>13
    <2>4. find[w] = IF table[m + 1].net = key THEN table[m + 1].tag
                    ELSE IF table[m + 1].net < key THEN find[right] ELSE find[left]
      <3>1. find[w] = Body(w, find)
        BY <1>10, <2>1
      <3>2. ~(w[1] >= w[2])
        BY <2>1
      <3> QED BY <3>1, <3>2 DEF Body, m
    <2>5. \A i, j \in (w[1] + 1)..w[2] : i < j => table[i].net < table[j].net
      BY <2>1
    <2>6. \A i \in (w[1] + 1)..w[2] : table[i].net \in Int
      <3>1. ASSUME NEW i \in (w[1] + 1)..w[2] PROVE table[i] \in TableEntry
        <4>1. i \in 1..len /\ table \in Seq(TableEntry)
          BY <2>1
        <4> QED BY <4>1
      <3> QED BY <3>1 DEF TableEntry
    <2> HIDE DEF Inside, D
    <2>m. m + 1 \in (w[1] + 1)..w[2]
      BY <2>1, <2>2
    <2>l. ASSUME NEW i \in (w[1] + 1)..w[2], i < m + 1
          PROVE  i \in (left[1] + 1)..left[2]
      BY <2>1, <2>2, <2>l
    <2>r. ASSUME NEW i \in (w[1] + 1)..w[2], i > m + 1
          PROVE  i \in (right[1] + 1)..right[2]
      BY <2>1, <2>2, <2>r
    <2>s. /\ \A i \in (left[1] + 1)..left[2] : i \in (w[1] + 1)..w[2]
          /\ \A i \in (right[1] + 1)..right[2] : i \in (w[1] + 1)..w[2]
      <3>1. ASSUME NEW i \in (left[1] + 1)..left[2] PROVE i \in (w[1] + 1)..w[2]
        <4>1. left[1] = w[1] /\ left[2] = m
          OBVIOUS
        <4> QED BY <2>1, <2>2, <4>1
      <3>2. ASSUME NEW i \in (right[1] + 1)..right[2] PROVE i \in (w[1] + 1)..w[2]
        <4>1. right[1] = m + 1 /\ right[2] = w[2]
          OBVIOUS
        <4> HIDE DEF right
        <4>2. i \in (m + 1 + 1)..w[2]
          BY <4>1
        <4>3. i \in Int /\ m + 1 + 1 <= i /\ i <= w[2]
          BY <2>1, <2>2, <4>2
        <4>4. w[1] \in Int /\ m \in Int /\ w[1] <= m
          BY <2>1, <2>2
        <4>5. w[1] + 1 <= i
          BY <4>3, <4>4
        <4> QED BY <2>1, <4>3, <4>5
      <3> QED BY <3>1, <3>2
    <2> HIDE DEF left, right
    <2>7. ASSUME NEW i \in (w[1] + 1)..w[2], table[i].net = key
          PROVE  find[w] = table[i].tag
      <3>1. CASE i = m + 1
        BY <2>4, <2>7, <3>1
      <3>2. CASE i > m + 1
        <4>1. table[m + 1].net < key /\ table[m + 1].net # key
          <5>1. table[m + 1].net \in Int /\ table[i].net \in Int
            BY <2>m, <2>6
          <5>2. table[m + 1].net < table[i].net
            BY <2>m, <2>5, <3>2
          <5> QED BY <5>1, <5>2, <2>7
        <4>2. find[right] = table[i].tag
          BY <2>3, <2>7, <2>r, <3>2
        <4> QED BY <2>4, <4>1, <4>2
      <3>3. CASE i < m + 1
        <4>1. ~(table[m + 1].net < key) /\ table[m + 1].net # key
          <5>1. table[m + 1].net \in Int /\ table[i].net \in Int
            BY <2>m, <2>6
          <5>2. table[i].net < table[m + 1].net
            BY <2>m, <2>5, <3>3
          <5> QED BY <5>1, <5>2, <2>7
        <4>2. find[left] = table[i].tag
          BY <2>3, <2>7, <2>l, <3>3
        <4> QED BY <2>4, <4>1, <4>2
      <3> QED BY <2>1, <2>2, <3>1, <3>2, <3>3
    <2>8. ASSUME \A i \in (w[1] + 1)..w[2] : table[i].net # key
          PROVE  find[w] = "none"
      <3>1. table[m + 1].net # key
        BY <2>m, <2>8
      <3>2. find[right] = "none"
        BY <2>3, <2>8, <2>s
      <3>3. find[left] = "none"
        BY <2>3, <2>8, <2>s
      <3> QED BY <2>4, <3>1, <3>2, <3>3
    <2> QED BY <2>7, <2>8
  <1>14. \A k \in Nat : k \in Good
    <2> HIDE DEF Good
    <2> QED BY <1>12, <1>13, AllNumbers
  <1>15. Right(<<lo, hi>>)
    <2>1. <<lo, hi>> \in Inside(len)
      OBVIOUS
    <2> HIDE DEF Right, Inside
    <2> QED BY <1>14, <2>1
  <1> QED BY <1>9, <1>15

\* lpm4 on the module's table is the longest match on the prefixes themselves.
LEMMA LookupFacts ==
    ASSUME NEW b, Prefixes(b), NEW a
    PROVE  lpm4(parse_set(b), a) = lpm(b, a)
  <1> DEFINE all == DOMAIN b
             size == Cardinality(all)
             nth(i) == CHOOSE p \in all : Place(all, p) = i - 1
             table == [i \in 1..size |-> [net |-> nth(i).addr, tag |-> b[nth(i)]]]
             off(n) == InFrontOfLength(all, n)
             key(n) == a - (a % 2^(Width - n))
             tag(n) == pfx_find(table, off(n), off(n + 1), key(n))
  <1>0. Width \in Nat
    BY PolicyAssumption
  <1>1. IsFiniteSet(all) /\ all \subseteq AllPrefixes /\ \A p \in all : b[p] \in {"reserved", "policy"}
    BY DEF Prefixes, AllPrefixes
  <1>2. \A p \in all : p.len \in 0..Width /\ p.addr \in Int
    BY <1>1 DEF AllPrefixes, Addr
  <1> HIDE DEF all
  <1>3. /\ size \in Nat
        /\ \A p \in all : Place(all, p) \in 0..(size - 1)
        /\ \A p, q \in all : cmp_pfx(p, q) => Place(all, p) < Place(all, q)
        /\ \A i \in 1..size : \E p \in all : Place(all, p) = i - 1
    BY <1>1, PlaceFacts
  <1>4. /\ \A n \in 0..(Width + 1) : off(n) \in 0..size
        /\ \A m, n \in 0..(Width + 1) : m <= n => off(m) <= off(n)
        /\ \A p \in all : off(p.len) <= Place(all, p) /\ Place(all, p) < off(p.len + 1)
    BY <1>1, BucketFacts
  <1> HIDE DEF size
  <1>5. \A p, q \in all : p # q => cmp_pfx(p, q) \/ cmp_pfx(q, p)
    BY <1>1, OrderFacts
  <1>6. \A p, q \in all : p # q => Place(all, p) # Place(all, q)
    BY <1>3, <1>5
  <1>7. \A i \in 1..size : nth(i) \in all /\ Place(all, nth(i)) = i - 1
    BY <1>3
  <1>8. \A p \in all : Place(all, p) + 1 \in 1..size /\ nth(Place(all, p) + 1) = p
    <2> SUFFICES ASSUME NEW p \in all
                 PROVE  Place(all, p) + 1 \in 1..size /\ nth(Place(all, p) + 1) = p
      OBVIOUS
    <2>1. Place(all, p) + 1 \in 1..size /\ Place(all, p) + 1 - 1 = Place(all, p)
      BY <1>3
    <2>2. nth(Place(all, p) + 1) \in all /\ Place(all, nth(Place(all, p) + 1)) = Place(all, p)
      <3> HIDE DEF nth
      <3> DEFINE i == Place(all, p) + 1
      <3>1. i \in 1..size /\ i - 1 = Place(all, p)
        BY <1>3
      <3> HIDE DEF i
      <3>2. nth(i) \in all /\ Place(all, nth(i)) = Place(all, p)
        BY <1>7, <3>1
      <3> QED BY <3>2 DEF i
    <2> HIDE DEF nth
    <2> QED BY <1>6, <2>1, <2>2
  <1>9. /\ parse_set(b).table = table
        /\ \A n \in 0..(Width + 1) : parse_set(b).off[n] = off(n)
    BY DEF parse_set, Place, InFront, InFrontOfLength, all, size
  <1> HIDE DEF nth
  <1>10. table \in Seq(TableEntry) /\ Len(table) = size
    <2>1. ASSUME NEW i \in 1..size
          PROVE  [net |-> nth(i).addr, tag |-> b[nth(i)]] \in TableEntry
      <3>1. nth(i) \in all
        BY <1>7
      <3>2. nth(i).addr \in Int /\ b[nth(i)] \in {"reserved", "policy"}
        BY <1>1, <1>2, <3>1
      <3> QED BY <3>2 DEF TableEntry
    <2>2. table \in [1..size -> TableEntry]
      BY <2>1
    <2> HIDE DEF table
    <2> QED BY <1>3, <2>2
  <1>11. ASSUME NEW n \in 0..Width
         PROVE  /\ off(n) \in 0..size /\ off(n + 1) \in 0..size
                /\ \A i \in (off(n) + 1)..off(n + 1) : i \in 1..size /\ nth(i).len = n
                /\ \A p \in all : p.len = n => Place(all, p) + 1 \in (off(n) + 1)..off(n + 1)
    <2>0. n \in 0..(Width + 1) /\ n + 1 \in 0..(Width + 1)
      BY <1>0
    <2>1. off(n) \in 0..size /\ off(n + 1) \in 0..size
      BY <1>4, <2>0
    <2>2. ASSUME NEW i \in (off(n) + 1)..off(n + 1)
          PROVE  i \in 1..size /\ nth(i).len = n
      <3>1. i \in 1..size /\ off(n) <= i - 1 /\ i - 1 < off(n + 1)
        BY <1>3, <2>1
      <3> DEFINE p == nth(i)
                 l == p.len
      <3>2. p \in all /\ Place(all, p) = i - 1 /\ l \in 0..Width
        BY <1>2, <1>7, <3>1
      <3> HIDE DEF p
      <3>3. off(l) <= i - 1 /\ i - 1 < off(l + 1) /\ l \in 0..(Width + 1) /\ l + 1 \in 0..(Width + 1)
        BY <1>0, <1>4, <3>2
      <3>4. off(l) \in 0..size /\ off(l + 1) \in 0..size
        BY <1>4, <3>3
      <3> HIDE DEF off, l
      <3>5. ~(l + 1 <= n)
        <4>1. l + 1 <= n => off(l + 1) <= off(n)
          BY <1>4, <2>0, <3>3
        <4> QED BY <2>1, <3>1, <3>3, <3>4, <4>1
      <3>6. ~(n + 1 <= l)
        <4>1. n + 1 <= l => off(n + 1) <= off(l)
          BY <1>4, <2>0, <3>3
        <4> QED BY <2>1, <3>1, <3>3, <3>4, <4>1
      <3>7. l = n
        BY <3>2, <3>5, <3>6
      <3> QED BY <3>1, <3>7 DEF l, p
    <2>3. ASSUME NEW p \in all, p.len = n
          PROVE  Place(all, p) + 1 \in (off(n) + 1)..off(n + 1)
      <3>1. off(n) <= Place(all, p) /\ Place(all, p) < off(n + 1) /\ Place(all, p) \in 0..(size - 1)
        BY <1>3, <1>4, <2>3
      <3> HIDE DEF off
      <3> QED BY <1>3, <2>1, <3>1
    <2> QED BY <2>1, <2>2, <2>3
  <1>12. ASSUME NEW n \in 0..Width
         PROVE  \A i, j \in (off(n) + 1)..off(n + 1) : i < j => table[i].net < table[j].net
    <2> SUFFICES ASSUME NEW i \in (off(n) + 1)..off(n + 1), NEW j \in (off(n) + 1)..off(n + 1), i < j
                 PROVE  table[i].net < table[j].net
      OBVIOUS
    <2>1. i \in 1..size /\ j \in 1..size /\ nth(i).len = n /\ nth(j).len = n
      BY <1>11
    <2>2. nth(i) \in all /\ nth(j) \in all /\ Place(all, nth(i)) = i - 1 /\ Place(all, nth(j)) = j - 1
      BY <1>7, <2>1
    <2>3. ~cmp_pfx(nth(j), nth(i)) /\ nth(i) # nth(j)
      BY <1>3, <2>1, <2>2
    <2>4. cmp_pfx(nth(i), nth(j))
      BY <1>5, <2>2, <2>3
    <2>5. nth(i).addr < nth(j).addr
      BY <2>1, <2>4, <1>0 DEF cmp_pfx
    <2> QED BY <2>1, <2>5
  <1>13. ASSUME NEW n \in 0..Width
         PROVE  /\ \A p \in all : p.len = n /\ p.addr = key(n) => tag(n) = b[p]
                /\ (\A p \in all : p.len = n => p.addr # key(n)) => tag(n) = "none"
    <2> HIDE DEF key
    <2>1. /\ off(n) \in 0..size /\ off(n + 1) \in 0..size
          /\ \A i \in (off(n) + 1)..off(n + 1) : i \in 1..size /\ nth(i).len = n
          /\ \A p \in all : p.len = n => Place(all, p) + 1 \in (off(n) + 1)..off(n + 1)
      BY <1>11
    <2>2. \A i \in 1..size : table[i].net = nth(i).addr /\ table[i].tag = b[nth(i)]
      OBVIOUS
    <2> HIDE DEF table, off
    <2>3. /\ \A i \in (off(n) + 1)..off(n + 1) : table[i].net = key(n) => tag(n) = table[i].tag
          /\ (\A i \in (off(n) + 1)..off(n + 1) : table[i].net # key(n)) => tag(n) = "none"
      <3>1. \A i, j \in (off(n) + 1)..off(n + 1) : i < j => table[i].net < table[j].net
        BY <1>12
      <3>2. size \in Nat /\ table \in Seq(TableEntry) /\ size = Len(table)
        BY <1>3, <1>10
      <3> DEFINE lo == off(n)
                 hi == off(n + 1)
                 k == key(n)
      <3>3. lo \in 0..size /\ hi \in 0..size /\ \A i, j \in (lo + 1)..hi : i < j => table[i].net < table[j].net
        BY <2>1, <3>1
      <3> HIDE DEF lo, hi, k
      <3>4. /\ \A i \in (lo + 1)..hi : table[i].net = k => pfx_find(table, lo, hi, k) = table[i].tag
            /\ (\A i \in (lo + 1)..hi : table[i].net # k) => pfx_find(table, lo, hi, k) = "none"
        BY <3>2, <3>3, SearchFacts
      <3> QED BY <3>4 DEF lo, hi, k
    <2> HIDE DEF tag
    <2>4. ASSUME NEW p \in all, p.len = n, p.addr = key(n)
          PROVE  tag(n) = b[p]
      <3> DEFINE i == Place(all, p) + 1
      <3>1. i \in (off(n) + 1)..off(n + 1) /\ i \in 1..size /\ nth(i) = p
        BY <2>1, <2>4, <1>8
      <3> HIDE DEF i
      <3>2. table[i].net = key(n) /\ table[i].tag = b[p]
        BY <2>2, <2>4, <3>1
      <3> QED BY <2>3, <3>1, <3>2
    <2>5. ASSUME \A p \in all : p.len = n => p.addr # key(n)
          PROVE  tag(n) = "none"
      <3>1. \A i \in (off(n) + 1)..off(n + 1) : table[i].net # key(n)
        BY <1>7, <2>1, <2>2, <2>5
      <3> QED BY <2>3, <3>1
    <2> QED BY <2>4, <2>5
  <1> HIDE DEF table, off
  <1> DEFINE lengths == {n \in 0..Width : tag(n) # "none"}
             hits == {p \in all : In(a, p)}
             long == CHOOSE n \in lengths : \A i \in lengths : i <= n
             best == CHOOSE p \in hits : \A q \in hits : q.len <= p.len
  <1>14. lpm4(parse_set(b), a) = IF lengths = {} THEN "none" ELSE tag(long)
    <2> DEFINE found(n) == pfx_find(parse_set(b).table, parse_set(b).off[n], parse_set(b).off[n + 1], a - (a % 2^(Width - n)))
               its == {n \in 0..Width : found(n) # "none"}
    <2>1. ASSUME NEW n \in 0..Width PROVE found(n) = tag(n)
      <3>1. n \in 0..(Width + 1) /\ n + 1 \in 0..(Width + 1)
        BY <1>0
      <3>2. parse_set(b).off[n] = off(n) /\ parse_set(b).off[n + 1] = off(n + 1)
        BY <1>9, <3>1
      <3> QED BY <1>9, <3>2
    <2>2. lpm4(parse_set(b), a) = IF its = {} THEN "none" ELSE found(CHOOSE n \in its : \A i \in its : i <= n)
      BY DEF lpm4
    <2> HIDE DEF found, tag
    <2>3. its = lengths
      BY <2>1
    <2> HIDE DEF its
    <2>4. lengths # {} => long \in lengths
      BY <1>0, LargestNumber
    <2>5. lengths # {} => long \in 0..Width
      BY <2>4
    <2> HIDE DEF lengths
    <2>6. lpm4(parse_set(b), a) = IF lengths = {} THEN "none" ELSE found(long)
      BY <2>2, <2>3
    <2> HIDE DEF long
    <2> QED BY <2>1, <2>5, <2>6
  <1>15. lpm(b, a) = IF hits = {} THEN "none" ELSE b[best]
    BY DEF lpm, all
  <1>16. \A p \in all : In(a, p) <=> p.addr = key(p.len)
    BY DEF In
  <1> HIDE DEF key, tag
  <1>17. \A p \in hits : p \in all /\ p.len \in lengths /\ tag(p.len) = b[p]
    <2> SUFFICES ASSUME NEW p \in hits PROVE p \in all /\ p.len \in lengths /\ tag(p.len) = b[p]
      OBVIOUS
    <2>1. p \in all /\ p.addr = key(p.len) /\ p.len \in 0..Width
      BY <1>2, <1>16
    <2>2. tag(p.len) = b[p]
      BY <1>13, <2>1
    <2>3. b[p] # "none"
      BY <1>1, <2>1
    <2> QED BY <2>1, <2>2, <2>3
  <1>18. \A n \in lengths : \E p \in hits : p.len = n
    <2> SUFFICES ASSUME NEW n \in lengths PROVE \E p \in hits : p.len = n
      OBVIOUS
    <2>1. n \in 0..Width /\ tag(n) # "none"
      OBVIOUS
    <2>2. PICK p \in all : p.len = n /\ p.addr = key(n)
      BY <1>13, <2>1
    <2> QED BY <1>16, <2>2
  <1>19. CASE hits = {}
    <2>1. lengths = {}
      BY <1>18, <1>19
    <2> QED BY <1>14, <1>15, <1>19, <2>1
  <1>20. CASE hits # {}
    <2>1. lengths # {} /\ lengths \subseteq 0..Width
      BY <1>17, <1>20
    <2>2. \E n \in lengths : \A i \in lengths : i <= n
      <3> HIDE DEF lengths
      <3> QED BY <1>0, <2>1, LargestNumber
    <2>3. long \in lengths /\ \A i \in lengths : i <= long
      BY <2>2
    <2>4. \A q \in hits : q.len \in lengths
      BY <1>17
    <2> HIDE DEF long, lengths
    <2>5. PICK p \in hits : p.len = long
      BY <1>18, <2>3
    <2>6. \A q \in hits : q.len <= p.len
      BY <2>3, <2>4, <2>5
    <2>7. best \in hits /\ \A q \in hits : q.len <= best.len
      BY <2>6
    <2> HIDE DEF best
    <2>8. best.len <= long /\ long <= best.len /\ best.len \in 0..Width /\ long \in 0..Width
      BY <2>1, <2>3, <2>4, <2>5, <2>7
    <2>9. best.len = long
      BY <2>8
    <2>10. tag(long) = b[best]
      BY <1>17, <2>7, <2>9
    <2> QED BY <1>14, <1>15, <1>20, <2>1, <2>10
  <1> QED BY <1>19, <1>20

LEMMA LiveFinite ==
    ASSUME NEW dump \in AddressDumps
    PROVE  IsFiniteSet(Live(dump)) /\ IsFiniteSet(Privacy(dump)) /\ Privacy(dump) \subseteq Live(dump)
  <1> DEFINE usable == {y \in dump : y.usable}
             f == [x \in usable |-> x.addr]
  <1>1. IsFiniteSet(dump)
    BY PolicyAssumption
  <1>2. usable \in SUBSET dump
    OBVIOUS
  <1>3. IsFiniteSet(usable)
    <2> HIDE DEF usable
    <2> QED BY <1>1, <1>2, FS_Subset
  <1>4. f \in Surjection(usable, Live(dump))
    BY DEF Surjection, Live
  <1>5. IsFiniteSet(Live(dump))
    <2> HIDE DEF f, usable
    <2> QED BY <1>3, <1>4, FS_Surjection
  <1>6. Privacy(dump) \in SUBSET Live(dump)
    BY DEF Privacy
  <1> QED BY <1>5, <1>6, FS_Subset

\* Ticked numbers every live address.
LEMMA TickedFacts ==
    ASSUME seen.tick \in Nat, \A a \in DOMAIN seen.at : seen.at[a] \in Nat, NEW dump \in AddressDumps
    PROVE  /\ Ticked(dump).tick \in Nat
           /\ DOMAIN Ticked(dump).at = Live(dump)
           /\ \A a \in Live(dump) : Ticked(dump).at[a] \in Nat
  <1> DEFINE kept == Live(dump) \cap DOMAIN seen.at
             new == Live(dump) \ kept
             at == [a \in Live(dump) |-> IF a \in kept THEN seen.at[a]
                                         ELSE seen.tick + Cardinality({b \in new : b <= a})]
  <1>1. Ticked(dump) = [tick |-> seen.tick + Cardinality(new), at |-> at]
    BY DEF Ticked
  <1>2. IsFiniteSet(Live(dump))
    BY LiveFinite
  <1>3. IsFiniteSet(new) /\ Cardinality(new) \in Nat
    <2>1. new \in SUBSET Live(dump)
      OBVIOUS
    <2> HIDE DEF new
    <2> QED BY <1>2, <2>1, FS_Subset, FS_CardinalityType
  <1>4. ASSUME NEW a \in Live(dump) PROVE at[a] \in Nat
    <2>1. {b \in new : b <= a} \in SUBSET new
      OBVIOUS
    <2>2. Cardinality({b \in new : b <= a}) \in Nat
      <3> HIDE DEF new
      <3> QED BY <1>3, <2>1, FS_Subset, FS_CardinalityType
    <2>3. CASE a \in kept
      BY <2>3
    <2>4. CASE a \notin kept
      <3>1. at[a] = seen.tick + Cardinality({b \in new : b <= a})
        BY <2>4
      <3> HIDE DEF at, new
      <3> QED BY <2>2, <3>1
    <2> QED BY <2>3, <2>4
  <1>5. DOMAIN at = Live(dump)
    OBVIOUS
  <1>6. seen.tick + Cardinality(new) \in Nat
    <2> HIDE DEF new
    <2> QED BY <1>3
  <1> HIDE DEF at, new
  <1> QED BY <1>1, <1>4, <1>5, <1>6

\* The module has the bypass of the epoch.
HasBypass(k, e) == k.cidr_mode = e.cidr_mode /\ k.set = parse_set(e.bypass) /\ k.selfs = e.selfs
EpochType(e) == Prefixes(e.bypass) /\ e.cidr_mode \in {"whitelist", "blacklist"}

WorldTypes ==
    doc \in Documents /\ listfile \in ListFiles /\ packages \in PackageLists /\ addresses \in AddressDumps
SeenTypes == seen.tick \in Nat /\ \A a \in DOMAIN seen.at : seen.at[a] \in Nat
KernType == \E mode, set, selfs, uids : kern = [cidr_mode |-> mode, set |-> set, selfs |-> selfs, uids |-> uids]
\* What is selected in the module was selected by the manager, from the accepted configuration.
MgrInv ==
    /\ EpochType(mgr) /\ kern.uids \in {fluxrs_set_uids(mgr.selected), {}}
    /\ mgr.selected # {} => OnlyApps(mgr.selected, applied.apps_mode)
\* Between the two ioctls the module has the bypass of the epoch to come, and else the manager's.
JobInv ==
    /\ job = NoJob => drifted \/ HasBypass(kern, mgr)
    /\ job # NoJob => /\ EpochType(job.next) /\ OnlyApps(job.next.selected, job.flux.apps_mode)
                      /\ HasBypass(kern, job.next)
                      /\ job.dump \in AddressDumps /\ DOMAIN seen.at = Live(job.dump)
                      /\ job.next.selfs = select_self_addresses(job.dump, seen.at) /\ job.next.selfs # Nil
PolicyInv == WorldTypes /\ SeenTypes /\ KernType /\ MgrInv /\ JobInv

PolicySpec ==
    /\ changes = 0
    /\ \E d \in Documents, l \in ListFiles, p \in PackageLists, dump \in AddressDumps : PolicyStart(d, l, p, dump)
    /\ [][PolicyNext]_<<policyvars, changes>>

\* At the same bypass, and outside the fixed prefixes, the module and the epoch agree.
LEMMA SameVerdict ==
    ASSUME NEW k, NEW e, NEW uid, NEW a, EpochType(e), HasBypass(k, e), ~fluxrs_reserved_dest(a),
           uid \in k.uids, uid \in e.selected, uid \notin {0, OverflowUid}
    PROVE  Stolen(k, uid, a) <=> observe_new_flow(e, uid, a)
  <1>1. lpm4(k.set, a) = lpm(e.bypass, a)
    BY LookupFacts DEF HasBypass, EpochType
  <1>2. lpm(e.bypass, a) \in {"none", "reserved", "policy"}
    <2> DEFINE hits == {p \in DOMAIN e.bypass : In(a, p)}
               best == CHOOSE p \in hits : \A q \in hits : q.len <= p.len
               lengths == {p.len : p \in hits}
    <2>1. lpm(e.bypass, a) = IF hits = {} THEN "none" ELSE e.bypass[best]
      BY DEF lpm
    <2>2. CASE hits = {}
      BY <2>1, <2>2
    <2>3. CASE hits # {}
      <3>1. lengths \subseteq 0..Width /\ lengths # {} /\ Width \in Nat
        BY <2>3, PolicyAssumption DEF EpochType, Prefixes
      <3>2. PICK n \in lengths : \A m \in lengths : m <= n
        <4> HIDE DEF lengths
        <4> QED BY <3>1, LargestNumber
      <3>3. PICK p \in hits : p.len = n
        BY <3>2
      <3>4. \A q \in hits : q.len <= p.len
        BY <3>2, <3>3
      <3>5. best \in hits
        BY <3>3, <3>4
      <3> HIDE DEF best
      <3>6. e.bypass[best] \in {"reserved", "policy"}
        BY <3>5 DEF EpochType, Prefixes
      <3> QED BY <2>1, <2>3, <3>6
    <2> QED BY <2>2, <2>3
  <1> QED BY <1>1, <1>2 DEF Stolen, observe_new_flow, fluxrs_policy_direct, tag_direct, bypass_direct, HasBypass, EpochType

\* select_self_addresses: what the selection contains.
LEMMA SelectionFacts ==
    ASSUME NEW dump \in AddressDumps, NEW at, \A a \in Live(dump) : at[a] \in Nat,
           NEW selfs, selfs = select_self_addresses(dump, at), selfs # Nil
    PROVE  /\ Live(dump) \ Privacy(dump) \subseteq selfs
           /\ \A a \in selfs \cap Privacy(dump), b \in Live(dump) \ selfs : at[b] < at[a]
  <1> DEFINE stable == Live(dump) \ Privacy(dump)
             room == SelfMax - Cardinality(stable)
             newer(a) == {b \in Privacy(dump) : at[b] > at[a]}
  <1>1. selfs = stable \cup {a \in Privacy(dump) : Cardinality(newer(a)) < room}
    BY DEF select_self_addresses
  <1>2. IsFiniteSet(Live(dump)) /\ IsFiniteSet(Privacy(dump)) /\ Privacy(dump) \subseteq Live(dump)
    BY LiveFinite
  <1>3. room \in Int
    <2>1. IsFiniteSet(stable)
      BY <1>2, FS_Subset
    <2> HIDE DEF stable
    <2>2. Cardinality(stable) \in Nat
      BY <2>1, FS_CardinalityType
    <2> QED BY <2>2, PolicyAssumption
  <1> HIDE DEF room
  <1>4. ASSUME NEW a \in Privacy(dump)
        PROVE  IsFiniteSet(newer(a)) /\ Cardinality(newer(a)) \in Nat
    <2>1. newer(a) \in SUBSET Privacy(dump)
      OBVIOUS
    <2> HIDE DEF newer
    <2> QED BY <1>2, <2>1, FS_Subset, FS_CardinalityType
  <1>5. ASSUME NEW a \in selfs \cap Privacy(dump), NEW b \in Live(dump) \ selfs, ~(at[b] < at[a])
        PROVE  FALSE
    <2>1. a \in Privacy(dump) /\ b \in Privacy(dump) /\ Cardinality(newer(a)) < room /\ ~(Cardinality(newer(b)) < room)
      <3> HIDE DEF newer
      <3> QED BY <1>1
    <2>2. newer(b) \in SUBSET newer(a)
      BY <1>2, <1>5, <2>1
    <2>3. Cardinality(newer(b)) <= Cardinality(newer(a))
      <3>1. IsFiniteSet(newer(a))
        BY <1>4, <2>1
      <3> HIDE DEF newer
      <3> QED BY <2>2, <3>1, FS_Subset
    <2>4. Cardinality(newer(a)) \in Nat /\ Cardinality(newer(b)) \in Nat
      BY <1>4, <2>1
    <2> HIDE DEF newer
    <2> QED BY <1>3, <2>1, <2>3, <2>4
  <1> HIDE DEF newer
  <1> QED BY <1>1, <1>5

\* The invariant says that the module does what is configured.
LEMMA PolicySound == PolicyInv => StealsAsConfigured
  <1> SUFFICES ASSUME PolicyInv PROVE StealsAsConfigured
    OBVIOUS
  <1>1. CapturesOnlyApps
    BY DEF PolicyInv, MgrInv, OnlyApps, CapturesOnlyApps, fluxrs_set_uids
  <1>2. ReservedNeverStolen
    BY DEF ReservedNeverStolen, Stolen, fluxrs_reserved_dest
  <1>3. OwnAddressesDirect
    <2> SUFFICES ASSUME job # NoJob
                 PROVE  /\ \A uid \in kern.uids, a \in Live(job.dump) \ Privacy(job.dump) : ~Stolen(kern, uid, a)
                        /\ \A a \in job.next.selfs \cap Privacy(job.dump), b \in Live(job.dump) \ job.next.selfs :
                              seen.at[b] < seen.at[a]
      BY DEF OwnAddressesDirect
    <2>1. /\ job.dump \in AddressDumps /\ DOMAIN seen.at = Live(job.dump) /\ \A a \in DOMAIN seen.at : seen.at[a] \in Nat
          /\ job.next.selfs = select_self_addresses(job.dump, seen.at) /\ job.next.selfs # Nil
          /\ kern.selfs = job.next.selfs
      BY DEF PolicyInv, JobInv, HasBypass, SeenTypes
    <2>2. /\ Live(job.dump) \ Privacy(job.dump) \subseteq job.next.selfs
          /\ \A a \in job.next.selfs \cap Privacy(job.dump), b \in Live(job.dump) \ job.next.selfs :
                seen.at[b] < seen.at[a]
      BY <2>1, SelectionFacts
    <2> QED BY <2>1, <2>2 DEF Stolen, fluxrs_policy_direct
  <1>4. KernelHasEpoch
    <2> SUFFICES ASSUME job = NoJob
                 PROVE  /\ kern.uids \in {fluxrs_set_uids(mgr.selected), {}}
                        /\ drifted \/ \A uid \in kern.uids, a \in Addr :
                              (\A p \in FixedBypass : ~In(a, p)) => (Stolen(kern, uid, a) <=> observe_new_flow(mgr, uid, a))
      BY DEF KernelHasEpoch
    <2>1. kern.uids \in {fluxrs_set_uids(mgr.selected), {}} /\ EpochType(mgr) /\ (drifted \/ HasBypass(kern, mgr))
      BY DEF PolicyInv, JobInv, MgrInv
    <2>2. ASSUME HasBypass(kern, mgr), NEW uid \in kern.uids, NEW a \in Addr, \A p \in FixedBypass : ~In(a, p)
          PROVE  Stolen(kern, uid, a) <=> observe_new_flow(mgr, uid, a)
      <3>1. ~fluxrs_reserved_dest(a)
        BY <2>2 DEF fluxrs_reserved_dest
      <3>2. uid \in mgr.selected /\ uid \notin {0, OverflowUid}
        BY <2>1, <2>2 DEF fluxrs_set_uids
      <3> QED BY <2>1, <2>2, <3>1, <3>2, SameVerdict
    <2> QED BY <2>1, <2>2
  <1> QED BY <1>1, <1>2, <1>3, <1>4 DEF StealsAsConfigured

LEMMA PolicyStarts ==
    ASSUME NEW d \in Documents, NEW l \in ListFiles, NEW p \in PackageLists, NEW dump \in AddressDumps,
           PolicyStart(d, l, p, dump)
    PROVE  PolicyInv
  <1>1. WorldTypes
    BY DEF PolicyStart, WorldTypes
  <1>2. SeenTypes
    BY DEF PolicyStart, SeenTypes
  <1>3. EpochType(Epoch0)
    <2>1. DOMAIN Epoch0.bypass = {} /\ Epoch0.cidr_mode = "blacklist"
      BY DEF Epoch0
    <2> QED BY <2>1, FS_EmptySet DEF EpochType, Prefixes
  <1>4. KernType
    BY DEF PolicyStart, KernType
  <1>5. /\ mgr = Epoch0 /\ job = NoJob
        /\ kern.cidr_mode = "blacklist" /\ kern.set = parse_set(Epoch0.bypass) /\ kern.selfs = {} /\ kern.uids = {}
    BY DEF PolicyStart
  <1>6. Epoch0.cidr_mode = "blacklist" /\ Epoch0.selfs = {} /\ Epoch0.selected = {}
    BY DEF Epoch0
  <1>7. MgrInv /\ JobInv
    BY <1>3, <1>5, <1>6 DEF MgrInv, JobInv, HasBypass
  <1> QED BY <1>1, <1>2, <1>4, <1>7 DEF PolicyInv

LEMMA PolicySteps == PolicyInv /\ [PolicyNext]_<<policyvars, changes>> => PolicyInv'
  <1> SUFFICES ASSUME PolicyInv, [PolicyNext]_<<policyvars, changes>> PROVE PolicyInv'
    OBVIOUS
  <1>0. PICK mode, set, selfs, uids : kern = [cidr_mode |-> mode, set |-> set, selfs |-> selfs, uids |-> uids]
    BY DEF PolicyInv, KernType
  <1>t. ASSUME NEW e, kern' = kmod_set_bypass(kern, e)
        PROVE  KernType' /\ HasBypass(kern', e) /\ kern'.uids = kern.uids
    BY <1>t DEF kmod_set_bypass, KernType, HasBypass
  <1>u. ASSUME NEW u, kern' = [kern EXCEPT !.uids = u]
        PROVE  KernType' /\ kern'.uids = u /\ \A e : HasBypass(kern, e) => HasBypass(kern', e)
    <2>1. kern' = [cidr_mode |-> mode, set |-> set, selfs |-> selfs, uids |-> u]
      BY <1>0, <1>u
    <2> QED BY <1>0, <2>1 DEF KernType, HasBypass
  <1>1. CASE UNCHANGED policyvars
    BY <1>1 DEF PolicyInv, WorldTypes, SeenTypes, KernType, MgrInv, JobInv, policyvars
  <1>2. CASE PolicyWorld
    <2>1. WorldTypes'
      BY <1>2 DEF PolicyWorld, EditDocument, EditList, PackagesChange, Readdress, PolicyInv, WorldTypes
    <2> QED BY <1>2, <2>1 DEF PolicyWorld, Tables, PolicyInv, SeenTypes, KernType, MgrInv, JobInv
  <1>3. CASE ApplyBypass
    <2> DEFINE desired == read_policy_config(doc, listfile, packages)
               own == select_self_addresses(addresses, Ticked(addresses).at)
               next == committed(mgr, desired_epoch(desired, own))
    <2>1. /\ job = NoJob /\ desired # Nil /\ seen' = Ticked(addresses)
          /\ UNCHANGED <<mgr, drifted, applied, doc, listfile, packages, addresses>>
          /\ \/ UNCHANGED <<kern, job>>
             \/ /\ own # Nil /\ kern' = kmod_set_bypass(kern, next)
                /\ job' = [next |-> next, flux |-> desired.flux, dump |-> addresses]
      BY <1>3 DEF ApplyBypass, World
    <2>2. /\ doc \in Documents /\ listfile \in ListFiles /\ packages \in PackageLists /\ addresses \in AddressDumps
          /\ WorldTypes'
      BY <2>1 DEF PolicyInv, WorldTypes
    <2>3. /\ seen'.tick \in Nat /\ DOMAIN seen'.at = Live(addresses) /\ \A a \in DOMAIN seen'.at : seen'.at[a] \in Nat
      BY <2>1, <2>2, TickedFacts DEF PolicyInv, SeenTypes
    <2>4. SeenTypes'
      BY <2>3 DEF SeenTypes
    <2>5. /\ OnlyApps(desired.selected, desired.flux.apps_mode) /\ Prefixes(desired.bypass)
          /\ desired.flux.cidr_mode \in {"whitelist", "blacklist"}
      BY <2>1, <2>2, DesiredFacts
    <2>6. /\ next.bypass = desired.bypass /\ next.cidr_mode = desired.flux.cidr_mode /\ next.selfs = own
          /\ next.selected = desired.selected
      BY DEF committed, desired_epoch
    <2> HIDE DEF desired, own, next
    <2>7. CASE UNCHANGED <<kern, job>>
      BY <2>1, <2>2, <2>4, <2>7 DEF PolicyInv, KernType, MgrInv, JobInv
    <2>8. CASE /\ own # Nil /\ kern' = kmod_set_bypass(kern, next)
               /\ job' = [next |-> next, flux |-> desired.flux, dump |-> addresses]
      <3>1. job'.next = next /\ job'.flux = desired.flux /\ job'.dump = addresses
        BY <2>8
      <3>2. job' # NoJob
        <4>1. "next" \in DOMAIN job'
          BY <2>8
        <4>2. DOMAIN NoJob = {}
          BY DEF NoJob
        <4> QED BY <4>1, <4>2
      <3>3. KernType' /\ HasBypass(kern', next) /\ kern'.uids = kern.uids
        BY <1>t, <2>8
      <3>4. own = select_self_addresses(addresses, seen'.at)
        BY <2>1 DEF own
      <3>5. MgrInv'
        BY <2>1, <3>3 DEF PolicyInv, MgrInv
      <3>6. EpochType(next) /\ OnlyApps(next.selected, desired.flux.apps_mode)
        BY <2>5, <2>6 DEF EpochType
      <3>7. JobInv'
        BY <2>2, <2>3, <2>6, <2>8, <3>1, <3>2, <3>3, <3>4, <3>6 DEF JobInv
      <3> QED BY <2>2, <2>4, <3>3, <3>5, <3>7 DEF PolicyInv
    <2> QED BY <2>1, <2>7, <2>8
  <1>4. CASE ApplyUids
    <2>1. /\ job # NoJob /\ kern' = [kern EXCEPT !.uids = fluxrs_set_uids(job.next.selected)]
          /\ mgr' = job.next /\ applied' = job.flux /\ job' = NoJob
          /\ UNCHANGED <<seen, doc, listfile, packages, addresses>>
      BY <1>4 DEF ApplyUids, World
    <2>2. /\ EpochType(job.next) /\ OnlyApps(job.next.selected, job.flux.apps_mode) /\ HasBypass(kern, job.next)
      BY <2>1 DEF PolicyInv, JobInv
    <2>3. KernType' /\ kern'.uids = fluxrs_set_uids(job.next.selected) /\ HasBypass(kern', job.next)
      BY <1>u, <2>1, <2>2
    <2>4. WorldTypes' /\ SeenTypes'
      BY <2>1 DEF PolicyInv, WorldTypes, SeenTypes
    <2>5. MgrInv'
      BY <2>1, <2>2, <2>3 DEF MgrInv
    <2>6. JobInv'
      BY <2>1, <2>3 DEF JobInv
    <2> QED BY <2>3, <2>4, <2>5, <2>6 DEF PolicyInv
  <1>5. CASE ApplyUidsFails
    <2>1. /\ job' = NoJob /\ UNCHANGED <<mgr, seen, applied, doc, listfile, packages, addresses>>
          /\ (kern' = kmod_set_bypass(kern, mgr) \/ (kern' = kern /\ drifted' = TRUE))
      BY <1>5 DEF ApplyUidsFails, World
    <2>2. KernType' /\ kern'.uids = kern.uids /\ (drifted' \/ HasBypass(kern', mgr))
      <3>1. CASE kern' = kmod_set_bypass(kern, mgr)
        BY <1>t, <3>1
      <3>2. CASE kern' = kern /\ drifted' = TRUE
        BY <3>2 DEF PolicyInv, KernType
      <3> QED BY <2>1, <3>1, <3>2
    <2>3. WorldTypes' /\ SeenTypes'
      BY <2>1 DEF PolicyInv, WorldTypes, SeenTypes
    <2>4. MgrInv' /\ JobInv'
      BY <2>1, <2>2 DEF PolicyInv, MgrInv, JobInv
    <2> QED BY <2>2, <2>3, <2>4 DEF PolicyInv
  <1>6. CASE publish_inactive
    <2>1. /\ job = NoJob /\ kern' = [kern EXCEPT !.uids = {}]
          /\ UNCHANGED <<mgr, seen, job, drifted, applied, doc, listfile, packages, addresses>>
      BY <1>6 DEF publish_inactive, World
    <2>2. KernType' /\ kern'.uids = {} /\ (drifted \/ HasBypass(kern', mgr))
      BY <1>u, <2>1 DEF PolicyInv, JobInv
    <2>3. WorldTypes' /\ SeenTypes'
      BY <2>1 DEF PolicyInv, WorldTypes, SeenTypes
    <2>4. MgrInv' /\ JobInv'
      BY <2>1, <2>2 DEF PolicyInv, MgrInv, JobInv
    <2> QED BY <2>2, <2>3, <2>4 DEF PolicyInv
  <1> QED BY <1>1, <1>2, <1>3, <1>4, <1>5, <1>6 DEF PolicyNext

\* StealsAsConfigured, for any width of addresses, any documents, lists, packages and dumps, any sizes of
\* the tables and any order of edits, ioctls and failures: the module takes packets of apps only, never for
\* a reserved destination or an own address, and at rest its search of the sorted table gives every packet
\* the verdict of the manager's epoch.
THEOREM TakesWhatIsConfigured == PolicySpec => []StealsAsConfigured
  <1>1. (\E d \in Documents, l \in ListFiles, p \in PackageLists, dump \in AddressDumps : PolicyStart(d, l, p, dump))
            => PolicyInv
    BY PolicyStarts
  <1> QED BY <1>1, PolicySteps, PolicySound, PTL DEF PolicySpec

-----------------------------------------------------------------------------
(* The logger *)

LoggerSpec ==
    (\E policy \in LogPolicies : LoggerStart(policy)) /\ [][LoggerNext]_logvars

LoggerTypes ==
    /\ \E w \in Nat : DOMAIN logs \subseteq 0..w
    /\ \A i \in DOMAIN logs : logs[i] \in Seq(Nat)
    /\ logger \in [open : BOOLEAN, bytes : Nat, policy : LogPolicies] /\ line \in Nat
\* fluxd.log is there while it is open.
OpenInv == logger.open => 0 \in DOMAIN logs /\ todo = {}
\* A rotation under way: what it has moved is behind the place the next file goes to, and is retained.
RotationInv ==
    todo # {} => /\ 0 \in todo /\ todo \subseteq DOMAIN logs
                 /\ \A j \in DOMAIN logs \ todo : j <= logger.policy.retain /\ \A i \in todo : j > i + 1
LogInv == LoggerTypes /\ OpenInv /\ RotationInv

LEMMA BeginsFacts ==
    ASSUME NEW lines \in Seq(Nat), NEW n \in Nat
    PROVE  Begins(lines, lines) /\ Append(lines, n) \in Seq(Nat) /\ Begins(Append(lines, n), lines)
  <1>1. Len(lines) \in Nat /\ Append(lines, n) \in Seq(Nat) /\ Len(Append(lines, n)) = Len(lines) + 1
    OBVIOUS
  <1>2. SubSeq(lines, 1, Len(lines)) = lines
    OBVIOUS
  <1>3. SubSeq(Append(lines, n), 1, Len(lines)) = lines
    OBVIOUS
  <1> QED BY <1>1, <1>2, <1>3 DEF Begins

\* The next index to move is the largest one.
LEMMA ForemostFacts ==
    ASSUME NEW w \in Nat, NEW S, S \subseteq 0..w, S # {}
    PROVE  Foremost(S) \in S /\ \A j \in S : j <= Foremost(S)
  BY LargestNumber DEF Foremost

\* A step keeps what a directory has when every file of it is still there, as it was or with one more line.
Kept(d, e) == \A i \in DOMAIN d : i \in DOMAIN e /\ Begins(e[i], d[i])

\* Opening or writing fluxd.log.
LEMMA WriteFacts ==
    ASSUME NEW d, NEW w \in Nat, DOMAIN d \subseteq 0..w, \A i \in DOMAIN d : d[i] \in Seq(Nat), NEW n \in Nat,
           NEW e, e \in {With(d, 0, Append(Lines(d, 0), n)), With(d, 0, Lines(d, 0))}
    PROVE  /\ Kept(d, e) /\ DOMAIN e = DOMAIN d \cup {0} /\ DOMAIN e \subseteq 0..w
           /\ \A i \in DOMAIN e : e[i] \in Seq(Nat)
  <1>1. Lines(d, 0) \in Seq(Nat)
    BY DEF Lines
  <1>2. PICK lines \in {Append(Lines(d, 0), n), Lines(d, 0)} : e = With(d, 0, lines)
    OBVIOUS
  <1>3. lines \in Seq(Nat) /\ Begins(lines, Lines(d, 0))
    BY <1>1, <1>2, BeginsFacts
  <1>4. DOMAIN e = DOMAIN d \cup {0} /\ e[0] = lines /\ \A j \in DOMAIN d \ {0} : e[j] = d[j]
    <2>1. /\ DOMAIN With(d, 0, lines) = DOMAIN d \cup {0} /\ With(d, 0, lines)[0] = lines
          /\ \A j \in DOMAIN d \ {0} : With(d, 0, lines)[j] = d[j]
      BY DEF With
    <2> QED BY <1>2, <2>1
  <1>5. 0 \in DOMAIN d => Lines(d, 0) = d[0]
    BY DEF Lines
  <1>6. \A i \in DOMAIN d : Begins(d[i], d[i])
    BY BeginsFacts
  <1>7. Kept(d, e)
    BY <1>3, <1>4, <1>5, <1>6 DEF Kept
  <1> QED BY <1>3, <1>4, <1>7

LEMMA LoggerStarts ==
    ASSUME NEW policy \in LogPolicies, LoggerStart(policy)
    PROVE  LogInv
  <1>1. /\ DOMAIN logs = {0} /\ logs[0] = <<>> /\ todo = {} /\ line = 0
        /\ logger = [open |-> TRUE, bytes |-> 0, policy |-> policy]
    BY DEF LoggerStart
  <1>2. \E w \in Nat : DOMAIN logs \subseteq 0..w
    <2>1. DOMAIN logs \subseteq 0..0
      BY <1>1
    <2> QED BY <2>1
  <1>3. logs[0] \in Seq(Nat)
    <2>1. <<>> \in Seq(Nat)
      OBVIOUS
    <2> QED BY <1>1, <2>1
  <1> QED BY <1>1, <1>2, <1>3 DEF LogInv, LoggerTypes, OpenInv, RotationInv

\* fluxd.log is not empty when a rotation is due.
LEMMA DueFacts ==
    ASSUME LogInv, Due
    PROVE  0 \in DOMAIN logs
  <1>1. logger \in [open : BOOLEAN, bytes : Nat, policy : LogPolicies]
    BY DEF LogInv, LoggerTypes
  <1>2. logger.policy.max_bytes \in Nat \ {0}
    BY <1>1, LoggerAssumption
  <1>3. CASE logger.open
    BY <1>3 DEF LogInv, OpenInv
  <1>4. CASE ~logger.open
    <2>1. Opened.bytes = Len(Lines(logs, 0)) /\ Opened.policy = logger.policy
      BY <1>1, <1>4 DEF Opened, reopen
    <2>2. Len(Lines(logs, 0)) >= logger.policy.max_bytes
      BY <2>1 DEF Due
    <2>3. 0 \notin DOMAIN logs => Len(Lines(logs, 0)) = 0
      BY DEF Lines
    <2> QED BY <1>2, <2>2, <2>3
  <1> QED BY <1>3, <1>4

\* One step of a rotation: the directory d it leaves, before fluxd.log is opened again.
LEMMA RotationStep ==
    ASSUME LogInv, todo # {}, NEW d,
           d = IF NotRetained(Foremost(todo)) THEN Without(logs, Foremost(todo))
               ELSE Moved(logs, Foremost(todo), Foremost(todo) + 1)
    PROVE  /\ Foremost(todo) \in todo /\ \A j \in todo : j <= Foremost(todo)
           /\ \E w \in Nat : DOMAIN d \subseteq 0..w
           /\ \A i \in DOMAIN d : d[i] \in Seq(Nat)
           /\ todo \ {Foremost(todo)} \subseteq DOMAIN d
           /\ \A j \in DOMAIN d \ (todo \ {Foremost(todo)}) : /\ j <= logger.policy.retain /\ j >= Foremost(todo) + 1
           /\ \A i \in DOMAIN logs : i >= logger.policy.retain \/ \E j \in DOMAIN d : d[j] = logs[i]
  <1> DEFINE m == Foremost(todo)
             retain == logger.policy.retain
  <1>1. PICK w \in Nat : DOMAIN logs \subseteq 0..w
    BY DEF LogInv, LoggerTypes
  <1>2. /\ 0 \in todo /\ todo \subseteq DOMAIN logs
        /\ \A j \in DOMAIN logs \ todo : j <= retain /\ \A i \in todo : j > i + 1
    BY DEF LogInv, RotationInv
  <1>3. m \in todo /\ \A j \in todo : j <= m
    <2>1. todo \subseteq 0..w
      BY <1>1, <1>2
    <2> QED BY <2>1, ForemostFacts
  <1>4. retain \in Nat
    <2>1. logger.policy \in LogPolicies
      BY DEF LogInv, LoggerTypes
    <2> QED BY <2>1, LoggerAssumption
  <1> HIDE DEF m, retain
  <1>5. m \in DOMAIN logs /\ m \in 0..w
    BY <1>1, <1>2, <1>3
  <1>6. m + 1 \notin DOMAIN logs
    <2>1. \A j \in todo : j <= m
      BY <1>3
    <2>2. m + 1 \notin todo
      BY <1>5, <2>1
    <2>3. m + 1 \in DOMAIN logs \ todo => m + 1 > m + 1
      BY <1>2, <1>3
    <2> QED BY <1>5, <2>2, <2>3
  <1>7. \A i \in DOMAIN logs : logs[i] \in Seq(Nat)
    BY DEF LogInv, LoggerTypes
  <1>8. \A j \in DOMAIN logs \ todo : j <= retain /\ j > m + 1
    BY <1>2, <1>3
  <1>9. DOMAIN Without(logs, m) = DOMAIN logs \ {m} /\ \A j \in DOMAIN logs \ {m} : Without(logs, m)[j] = logs[j]
    BY DEF Without
  <1>10. CASE m >= retain
    <2>1. d = Without(logs, m)
      BY <1>10 DEF NotRetained, m, retain
    <2>2. DOMAIN d = DOMAIN logs \ {m} /\ \A j \in DOMAIN logs \ {m} : d[j] = logs[j]
      BY <1>9, <2>1
    <2>3. DOMAIN d \subseteq 0..w
      BY <1>1, <2>2
    <2>4. \A i \in DOMAIN d : d[i] \in Seq(Nat)
      BY <1>7, <2>2
    <2>5. todo \ {m} \subseteq DOMAIN d
      BY <1>2, <2>2
    <2>6. \A j \in DOMAIN d \ (todo \ {m}) : j <= retain /\ j >= m + 1
      <3> SUFFICES ASSUME NEW j \in DOMAIN d \ (todo \ {m}) PROVE j <= retain /\ j >= m + 1
        OBVIOUS
      <3>1. j \in DOMAIN logs \ todo /\ j \in 0..w
        BY <1>1, <2>2
      <3>2. j <= retain /\ j > m + 1
        BY <1>8, <3>1
      <3> QED BY <1>5, <3>1, <3>2
    <2>7. \A i \in DOMAIN logs : i >= retain \/ \E j \in DOMAIN d : d[j] = logs[i]
      BY <1>10, <2>2
    <2> QED BY <1>3, <2>3, <2>4, <2>5, <2>6, <2>7 DEF m, retain
  <1>11. CASE ~(m >= retain)
    <2>0. d = With(Without(logs, m), m + 1, logs[m])
      BY <1>11 DEF NotRetained, Moved, m, retain
    <2>1. /\ DOMAIN With(Without(logs, m), m + 1, logs[m]) = DOMAIN Without(logs, m) \cup {m + 1}
          /\ With(Without(logs, m), m + 1, logs[m])[m + 1] = logs[m]
          /\ \A j \in DOMAIN Without(logs, m) \ {m + 1} : With(Without(logs, m), m + 1, logs[m])[j] = Without(logs, m)[j]
      BY DEF With
    <2>2. /\ DOMAIN d = (DOMAIN logs \ {m}) \cup {m + 1} /\ d[m + 1] = logs[m]
          /\ \A j \in DOMAIN logs \ {m} : d[j] = logs[j]
      BY <1>6, <1>9, <2>0, <2>1
    <2>3. w + 1 \in Nat /\ DOMAIN d \subseteq 0..(w + 1)
      BY <1>1, <1>5, <2>2
    <2>4. \A i \in DOMAIN d : d[i] \in Seq(Nat)
      BY <1>5, <1>7, <2>2
    <2>5. todo \ {m} \subseteq DOMAIN d
      BY <1>2, <2>2
    <2>6. \A j \in DOMAIN d \ (todo \ {m}) : j <= retain /\ j >= m + 1
      <3> SUFFICES ASSUME NEW j \in DOMAIN d \ (todo \ {m}) PROVE j <= retain /\ j >= m + 1
        OBVIOUS
      <3>1. CASE j = m + 1
        BY <1>4, <1>5, <1>11, <3>1
      <3>2. CASE j # m + 1
        <4>1. j \in DOMAIN logs \ todo /\ j \in 0..w
          BY <1>1, <2>2, <3>2
        <4>2. j <= retain /\ j > m + 1
          BY <1>8, <4>1
        <4> QED BY <1>5, <4>1, <4>2
      <3> QED BY <3>1, <3>2
    <2>7. \A i \in DOMAIN logs : i >= retain \/ \E j \in DOMAIN d : d[j] = logs[i]
      BY <2>2
    <2> QED BY <1>3, <2>3, <2>4, <2>5, <2>6, <2>7 DEF m, retain
  <1> QED BY <1>10, <1>11

\* The types of the logger as it is edited.
LEMMA LoggerEdits ==
    ASSUME LogInv
    PROVE  LET Type == [open : BOOLEAN, bytes : Nat, policy : LogPolicies] IN
           /\ Opened \in Type /\ Opened.policy = logger.policy /\ (logger.open => Opened = logger)
           /\ \A l \in Type : /\ [l EXCEPT !.bytes = @ + 1] \in Type /\ [l EXCEPT !.open = FALSE] \in Type
                              /\ ~[l EXCEPT !.open = FALSE].open /\ [l EXCEPT !.open = FALSE].policy = l.policy
                              /\ [l EXCEPT !.open = TRUE, !.bytes = 1] \in Type
                              /\ \A p \in LogPolicies : /\ [l EXCEPT !.policy = p] \in Type
                                                        /\ [l EXCEPT !.policy = p].open = l.open
  <1>1. logger \in [open : BOOLEAN, bytes : Nat, policy : LogPolicies]
    BY DEF LogInv, LoggerTypes
  <1>2. Len(Lines(logs, 0)) \in Nat
    <2>1. Lines(logs, 0) \in Seq(Nat)
      BY DEF LogInv, LoggerTypes, Lines
    <2> QED BY <2>1
  <1>3. Opened \in [open : BOOLEAN, bytes : Nat, policy : LogPolicies] /\ Opened.policy = logger.policy
    <2>1. CASE logger.open
      BY <1>1, <2>1 DEF Opened
    <2>2. CASE ~logger.open
      <3>1. Opened = [logger EXCEPT !.open = TRUE, !.bytes = Len(Lines(logs, 0))]
        BY <2>2 DEF Opened, reopen
      <3> QED BY <1>1, <1>2, <3>1
    <2> QED BY <2>1, <2>2
  <1>4. logger.open => Opened = logger
    BY DEF Opened
  <1> DEFINE Type == [open : BOOLEAN, bytes : Nat, policy : LogPolicies]
  <1>5. ASSUME NEW l \in Type
        PROVE  /\ [l EXCEPT !.bytes = @ + 1] \in Type /\ [l EXCEPT !.open = FALSE] \in Type
               /\ [l EXCEPT !.open = TRUE, !.bytes = 1] \in Type
    <2>1. l.bytes + 1 \in Nat
      OBVIOUS
    <2>2. [l EXCEPT !.bytes = @ + 1] \in Type
      BY <2>1
    <2>3. [l EXCEPT !.open = FALSE] \in Type
      OBVIOUS
    <2>4. [l EXCEPT !.open = TRUE, !.bytes = 1] \in Type
      OBVIOUS
    <2> QED BY <2>2, <2>3, <2>4
  <1>6. ASSUME NEW l \in Type
        PROVE  ~[l EXCEPT !.open = FALSE].open /\ [l EXCEPT !.open = FALSE].policy = l.policy
    OBVIOUS
  <1>7. ASSUME NEW l \in Type, NEW p \in LogPolicies
        PROVE  [l EXCEPT !.policy = p] \in Type /\ [l EXCEPT !.policy = p].open = l.open
    OBVIOUS
  <1>8. Opened \in Type
    BY <1>3
  <1> HIDE DEF Type
  <1>9. /\ Opened \in Type /\ Opened.policy = logger.policy /\ (logger.open => Opened = logger)
        /\ \A l \in Type : /\ [l EXCEPT !.bytes = @ + 1] \in Type /\ [l EXCEPT !.open = FALSE] \in Type
                           /\ ~[l EXCEPT !.open = FALSE].open /\ [l EXCEPT !.open = FALSE].policy = l.policy
                           /\ [l EXCEPT !.open = TRUE, !.bytes = 1] \in Type
                           /\ \A p \in LogPolicies : /\ [l EXCEPT !.policy = p] \in Type
                                                     /\ [l EXCEPT !.policy = p].open = l.open
    BY <1>3, <1>4, <1>5, <1>6, <1>7, <1>8
  <1> QED BY <1>9 DEF Type

\* The directory is as it was.
LEMMA SameDirectoryKept == ASSUME LogInv, logs' = logs PROVE LogKept
  <1>1. \A i \in DOMAIN logs : logs[i] \in Seq(Nat)
    BY DEF LogInv, LoggerTypes
  <1>2. \A i \in DOMAIN logs : Begins(logs[i], logs[i])
    BY <1>1, BeginsFacts
  <1> QED BY <1>2 DEF LogKept

\* Every step of the logger.
LEMMA LoggerSteps ==
    ASSUME LogInv, LoggerNext
    PROVE  LogInv' /\ LogKept /\ RetentionHolds
  <1> DEFINE Type == [open : BOOLEAN, bytes : Nat, policy : LogPolicies]
  <1>1. PICK w \in Nat : DOMAIN logs \subseteq 0..w
    BY DEF LogInv, LoggerTypes
  <1>2. (\A i \in DOMAIN logs : logs[i] \in Seq(Nat)) /\ logger \in Type /\ line \in Nat
    BY DEF LogInv, LoggerTypes
  <1>3. /\ Opened \in Type /\ Opened.policy = logger.policy /\ (logger.open => Opened = logger)
        /\ \A l \in Type : /\ [l EXCEPT !.bytes = @ + 1] \in Type /\ [l EXCEPT !.open = FALSE] \in Type
                           /\ ~[l EXCEPT !.open = FALSE].open /\ [l EXCEPT !.open = FALSE].policy = l.policy
                           /\ [l EXCEPT !.open = TRUE, !.bytes = 1] \in Type
                           /\ \A p \in LogPolicies : /\ [l EXCEPT !.policy = p] \in Type
                                                     /\ [l EXCEPT !.policy = p].open = l.open
    BY LoggerEdits
  <1> HIDE DEF Type
  <1>t. ASSUME DOMAIN logs' \subseteq 0..w, \A i \in DOMAIN logs' : logs'[i] \in Seq(Nat), logger' \in Type, line' \in Nat
        PROVE  LoggerTypes'
    BY <1>t, <1>1 DEF LoggerTypes, Type
  <1>k. Kept(logs, logs') => LogKept
    BY DEF Kept, LogKept
  <1>4. ASSUME NEW policy \in LogPolicies, configure(policy) PROVE LogInv' /\ LogKept /\ RetentionHolds
    <2>1. /\ todo = {} /\ logger' = [logger EXCEPT !.policy = policy] /\ logs' = logs /\ todo' = todo /\ line' = line
      BY <1>4 DEF configure
    <2>2. logger' \in Type /\ logger'.open = logger.open
      BY <1>2, <1>3, <2>1
    <2>3. LoggerTypes'
      BY <1>1, <1>2, <1>t, <2>1, <2>2
    <2>4. OpenInv' /\ RotationInv'
      BY <2>1, <2>2 DEF LogInv, OpenInv, RotationInv
    <2> QED BY <2>1, <2>3, <2>4, SameDirectoryKept DEF LogInv, RetentionHolds
  <1>5. ASSUME NEW policy \in LogPolicies, Restart(policy) PROVE LogInv' /\ LogKept /\ RetentionHolds
    <2>1. /\ logger' = [open |-> TRUE, bytes |-> Len(Lines(logs, 0)), policy |-> policy]
          /\ logs' = With(logs, 0, Lines(logs, 0)) /\ todo' = {} /\ line' = line
      BY <1>5 DEF Restart
    <2>2. Len(Lines(logs, 0)) \in Nat
      <3>1. Lines(logs, 0) \in Seq(Nat)
        BY <1>2 DEF Lines
      <3> QED BY <3>1
    <2>3. logger' \in Type
      BY <2>1, <2>2 DEF Type
    <2>4. /\ Kept(logs, logs') /\ DOMAIN logs' = DOMAIN logs \cup {0} /\ DOMAIN logs' \subseteq 0..w
          /\ \A i \in DOMAIN logs' : logs'[i] \in Seq(Nat)
      BY <1>1, <1>2, <2>1, WriteFacts
    <2>5. LoggerTypes'
      BY <1>2, <1>t, <2>1, <2>3, <2>4
    <2>6. OpenInv' /\ RotationInv'
      BY <2>1, <2>4 DEF OpenInv, RotationInv
    <2> QED BY <1>k, <2>1, <2>4, <2>5, <2>6 DEF LogInv, RetentionHolds
  <1>6. ASSUME NEW ok \in BOOLEAN, NEW partial \in BOOLEAN, append(ok, partial) PROVE LogInv' /\ LogKept /\ RetentionHolds
    <2>1. /\ todo = {} /\ todo' = todo /\ line' = line + 1
          /\ logs' \in {With(logs, 0, Append(Lines(logs, 0), line + 1)), With(logs, 0, Lines(logs, 0))}
          /\ logger' \in {[Opened EXCEPT !.bytes = @ + 1], [Opened EXCEPT !.open = FALSE]}
      BY <1>6 DEF append, Written
    <2>2. logger' \in Type /\ line' \in Nat
      <3>1. [Opened EXCEPT !.bytes = @ + 1] \in Type /\ [Opened EXCEPT !.open = FALSE] \in Type
        BY <1>3
      <3>2. logger' = [Opened EXCEPT !.bytes = @ + 1] \/ logger' = [Opened EXCEPT !.open = FALSE]
        BY <2>1
      <3>3. logger' \in Type
        BY ONLY <3>1, <3>2
      <3> QED BY <1>2, <2>1, <3>3
    <2>3. /\ Kept(logs, logs') /\ DOMAIN logs' = DOMAIN logs \cup {0} /\ DOMAIN logs' \subseteq 0..w
          /\ \A i \in DOMAIN logs' : logs'[i] \in Seq(Nat)
      <3> DEFINE n == line + 1
      <3>1. n \in Nat
        BY <1>2
      <3>2. logs' \in {With(logs, 0, Append(Lines(logs, 0), n)), With(logs, 0, Lines(logs, 0))}
        BY <2>1
      <3> HIDE DEF n
      <3> QED BY <1>1, <1>2, <3>1, <3>2, WriteFacts
    <2>4. LoggerTypes'
      BY <1>t, <2>2, <2>3
    <2>5. OpenInv' /\ RotationInv'
      BY <2>1, <2>3 DEF OpenInv, RotationInv
    <2> QED BY <1>k, <2>1, <2>3, <2>4, <2>5 DEF LogInv, RetentionHolds
  <1>7. ASSUME rotate PROVE LogInv' /\ LogKept /\ RetentionHolds
    <2>1. /\ todo = {} /\ Due /\ logger' = [logger EXCEPT !.open = FALSE] /\ todo' = DOMAIN logs \cup {0}
          /\ logs' = logs /\ line' = line
      BY <1>7 DEF rotate
    <2>2. 0 \in DOMAIN logs
      BY <2>1, DueFacts
    <2>3. logger' \in Type /\ ~logger'.open
      BY <1>2, <1>3, <2>1
    <2>4. LoggerTypes'
      BY <1>1, <1>2, <1>t, <2>1, <2>3
    <2>5. OpenInv' /\ RotationInv'
      BY <2>1, <2>2, <2>3 DEF OpenInv, RotationInv
    <2> QED BY <2>1, <2>4, <2>5, SameDirectoryKept DEF LogInv, RetentionHolds
  <1>8. ASSUME rotate_fails PROVE LogInv' /\ LogKept /\ RetentionHolds
    <2>1. todo # {} /\ todo' = {} /\ line' = line + 1 /\ logs' = logs /\ logger' = logger
      BY <1>8 DEF rotate_fails
    <2>2. ~logger.open
      BY <2>1 DEF LogInv, OpenInv
    <2>3. LoggerTypes'
      BY <1>1, <1>2, <1>t, <2>1
    <2>4. OpenInv' /\ RotationInv'
      BY <2>1, <2>2 DEF OpenInv, RotationInv
    <2> QED BY <2>1, <2>2, <2>3, <2>4, SameDirectoryKept DEF LogInv, RetentionHolds
  <1>9. ASSUME NEW reopened \in BOOLEAN, rotate_step(reopened) PROVE LogInv' /\ LogKept /\ RetentionHolds
    <2> DEFINE m == Foremost(todo)
               retain == logger.policy.retain
               d == IF NotRetained(m) THEN Without(logs, m) ELSE Moved(logs, m, m + 1)
    <2>1. /\ todo # {} /\ todo' = todo \ {m}
          /\ \/ todo # {m} /\ logs' = d /\ logger' = logger /\ line' = line
             \/ todo = {m} /\ reopened /\ logs' = Written(d) /\ line' = line + 1
                /\ logger' = [logger EXCEPT !.open = TRUE, !.bytes = 1]
             \/ todo = {m} /\ ~reopened /\ logs' = d /\ line' = line + 1 /\ logger' = logger
      BY <1>9 DEF rotate_step
    <2>2. /\ m \in todo /\ \A j \in todo : j <= m
          /\ \E u \in Nat : DOMAIN d \subseteq 0..u
          /\ \A i \in DOMAIN d : d[i] \in Seq(Nat)
          /\ todo \ {m} \subseteq DOMAIN d
          /\ \A j \in DOMAIN d \ (todo \ {m}) : j <= retain /\ j >= m + 1
          /\ \A i \in DOMAIN logs : i >= retain \/ \E j \in DOMAIN d : d[j] = logs[i]
      BY <2>1, RotationStep
    <2> HIDE DEF m, d
    <2>3. 0 \in todo /\ todo \subseteq DOMAIN logs /\ ~logger.open /\ retain \in Nat
      <3>1. logger.policy \in LogPolicies
        BY <1>2 DEF Type
      <3> QED BY <2>1, <3>1, LoggerAssumption DEF LogInv, OpenInv, RotationInv
    <2>4. PICK u \in Nat : DOMAIN d \subseteq 0..u
      BY <2>2
    <2>5. ASSUME logs' = d PROVE LogKept
      <3>1. \A j \in DOMAIN d : Begins(d[j], d[j])
        BY <2>2, BeginsFacts
      <3> QED BY <2>2, <2>5, <3>1 DEF LogKept
    <2>6. ASSUME logs' = d, logger' = logger, line' \in Nat PROVE LoggerTypes'
      BY <1>2, <2>2, <2>4, <2>6 DEF LoggerTypes, Type
    <2>7. CASE todo # {m} /\ logs' = d /\ logger' = logger /\ line' = line
      <3>1. LoggerTypes' /\ LogKept
        BY <1>2, <2>5, <2>6, <2>7
      <3>2. OpenInv'
        BY <2>3, <2>7 DEF OpenInv
      <3>3. m # 0 /\ m \in 0..w
        <4>1. PICK i \in todo : i # m
          BY <2>2, <2>7
        <4>2. i \in 0..w /\ m \in 0..w /\ i <= m
          BY <1>1, <2>2, <2>3
        <4> QED BY <4>1, <4>2
      <3>4. \A j \in DOMAIN d \ (todo \ {m}) : j <= retain /\ \A i \in todo \ {m} : j > i + 1
        <4> SUFFICES ASSUME NEW j \in DOMAIN d \ (todo \ {m}), NEW i \in todo \ {m}
                     PROVE  j > i + 1
          BY <2>2
        <4>1. j >= m + 1 /\ i <= m /\ i # m
          BY <2>2
        <4>2. j \in Int /\ i \in Int /\ m \in Int
          BY <1>1, <2>2, <2>3, <2>4
        <4> QED BY <4>1, <4>2
      <3>5. RotationInv'
        BY <2>1, <2>2, <2>3, <2>7, <3>3, <3>4 DEF RotationInv
      <3>6. RetentionHolds
        BY <2>7 DEF RetentionHolds
      <3> QED BY <3>1, <3>2, <3>5, <3>6 DEF LogInv
    <2>8. CASE todo = {m} /\ ~reopened /\ logs' = d /\ line' = line + 1 /\ logger' = logger
      <3>1. LoggerTypes' /\ LogKept
        BY <1>2, <2>5, <2>6, <2>8
      <3>2. OpenInv' /\ RotationInv' /\ RetentionHolds
        BY <2>1, <2>3, <2>8 DEF OpenInv, RotationInv, RetentionHolds
      <3> QED BY <3>1, <3>2 DEF LogInv
    <2>9. CASE todo = {m} /\ reopened /\ logs' = Written(d) /\ line' = line + 1
               /\ logger' = [logger EXCEPT !.open = TRUE, !.bytes = 1]
      <3>1. m = 0
        BY <2>3, <2>9
      <3>2. /\ Kept(d, logs') /\ DOMAIN logs' = DOMAIN d \cup {0} /\ DOMAIN logs' \subseteq 0..u
            /\ \A i \in DOMAIN logs' : logs'[i] \in Seq(Nat)
        <4>1. line + 1 \in Nat /\ logs' = With(d, 0, Append(Lines(d, 0), line + 1))
          BY <1>2, <2>9 DEF Written
        <4> QED BY <2>2, <2>4, <4>1, WriteFacts
      <3>3. logger' \in Type /\ line' \in Nat
        <4>1. [logger EXCEPT !.open = TRUE, !.bytes = 1] \in Type
          BY <1>2, <1>3
        <4> QED BY <1>2, <2>9, <4>1
      <3>4. LoggerTypes'
        BY <3>2, <3>3 DEF LoggerTypes, Type
      <3>5. OpenInv' /\ RotationInv'
        BY <2>1, <2>9, <3>2 DEF OpenInv, RotationInv
      <3>6. LogKept
        BY <2>2, <3>2 DEF Kept, LogKept
      <3>7. DOMAIN logs' \ {0} \subseteq 1..retain
        <4> SUFFICES ASSUME NEW j \in DOMAIN d, j # 0 PROVE j \in 1..retain
          BY <3>2
        <4>1. j <= retain /\ j >= 0 + 1 /\ j \in Int
          BY <2>2, <2>4, <2>9, <3>1
        <4> QED BY <2>3, <4>1
      <3>8. IsFiniteSet(1..retain) /\ Cardinality(1..retain) = retain
        <4>1. IsFiniteSet(1..retain) /\ Cardinality(1..retain) = IF 1 > retain THEN 0 ELSE retain - 1 + 1
          <5>1. 1 \in Int /\ retain \in Int
            BY <2>3
          <5> HIDE DEF retain
          <5> QED BY <5>1, FS_Interval
        <4> QED BY <2>3, <4>1
      <3>9. RetentionHolds
        <4>1. DOMAIN logs' \ {0} \in SUBSET (1..retain)
          BY <3>7
        <4>2. Cardinality(DOMAIN logs' \ {0}) <= retain
          BY <3>8, <4>1, FS_Subset
        <4> QED BY <4>2 DEF RetentionHolds
      <3> QED BY <3>4, <3>5, <3>6, <3>9 DEF LogInv
    <2> QED BY <2>1, <2>7, <2>8, <2>9
  <1> QED BY <1>4, <1>5, <1>6, <1>7, <1>8, <1>9 DEF LoggerNext

\* RotationIsSound, for any sizes and numbers of retained files, any number of lines and in every order of
\* failures, restarts and reconfigurations: no rename overwrites a file, and a complete rotation leaves
\* no more of them than the policy retains.
THEOREM RotationsAreSound == LoggerSpec => RotationIsSound
  <1>1. (\E policy \in LogPolicies : LoggerStart(policy)) => LogInv
    BY LoggerStarts
  <1>2. LogInv /\ [LoggerNext]_logvars => LogInv' /\ [LogKept /\ RetentionHolds]_logvars
    <2>1. LogInv /\ UNCHANGED logvars => LogInv'
      BY DEF LogInv, LoggerTypes, OpenInv, RotationInv, logvars
    <2> QED BY <2>1, LoggerSteps
  <1> QED BY <1>1, <1>2, PTL DEF LoggerSpec, RotationIsSound

-----------------------------------------------------------------------------
(* The nodes *)

Rule == [match : Symbol, replace : Seq(Symbol)]

\* replace_all of one rule.
LEMMA ReplaceFacts ==
    ASSUME NEW tag \in Seq(Symbol), NEW rule \in Rule
    PROVE  Replace(tag, rule) \in Seq(Symbol)
  <1> DEFINE lists == [i \in DOMAIN tag |-> IF tag[i] = rule.match THEN rule.replace ELSE <<tag[i]>>]
             n == Len(tag)
             X == Seq(Symbol)
  <1>1. n \in Nat /\ DOMAIN tag = 1..n /\ \A i \in 1..n : tag[i] \in Symbol
    OBVIOUS
  <1> HIDE DEF n
  <1>2. ASSUME NEW i \in 1..n PROVE lists[i] \in X
    <2>1. <<tag[i]>> \in X /\ rule.replace \in X
      BY <1>1 DEF Rule
    <2> QED BY <1>1, <2>1
  <1>3. lists = [i \in 1..n |-> lists[i]] /\ Replace(tag, rule) = Concat(lists)
    BY <1>1 DEF Replace
  <1> HIDE DEF lists
  <1>4. lists \in Seq(Seq(Symbol))
    <2> HIDE DEF X
    <2>1. lists \in Seq(X)
      BY <1>1, <1>2, <1>3, Mapped
    <2> QED BY <2>1 DEF X
  <1> QED BY <1>3, <1>4, ConcatFacts

\* rename: the rules one after the other.
LEMMA RenameFacts ==
    ASSUME NEW tag \in Seq(Symbol), NEW rules \in Seq(Rule)
    PROVE  rename(tag, rules) \in Seq(Symbol)
  <1> DEFINE X == Seq(Symbol)
             n == Len(rules)
             step == [w \in (1..n) \X X |-> Replace(w[2], rules[w[1]])]
             Whole(f) == f = [i \in 0..n |-> IF i = 0 THEN tag ELSE Replace(f[i - 1], rules[i])]
             f == CHOOSE g : Whole(g)
  <1>1. n \in Nat /\ \A i \in 1..n : rules[i] \in Rule
    OBVIOUS
  <1>2. ASSUME NEW x \in X, NEW i \in 1..n PROVE Replace(x, rules[i]) \in X
    BY <1>1, ReplaceFacts
  <1>3. rename(tag, rules) = f[n]
    BY DEF rename
  <1> HIDE DEF X, n
  <1>4. tag \in X
    BY DEF X
  <1>5. step \in [(1..n) \X X -> X]
    <2>1. ASSUME NEW w \in (1..n) \X X PROVE Replace(w[2], rules[w[1]]) \in X
      <3>1. w[1] \in 1..n /\ w[2] \in X
        OBVIOUS
      <3> QED BY <1>2, <3>1
    <2> QED BY <2>1
  <1> HIDE DEF step
  <1>6. PICK g \in [0..n -> X] : Passes(g, tag, n, step)
    BY <1>1, <1>4, <1>5, Iterated
  <1>7. g[0] = tag /\ \A i \in 1..n : g[i] = step[<<i, g[i - 1]>>]
    BY <1>6 DEF Passes
  <1>8. ASSUME NEW i \in 1..n PROVE g[i] = Replace(g[i - 1], rules[i])
    <2>1. i - 1 \in 0..n
      BY <1>1
    <2>2. g[i - 1] \in X
      BY <2>1
    <2>3. step[<<i, g[i - 1]>>] = Replace(g[i - 1], rules[i])
      BY <2>2 DEF step
    <2> QED BY <1>7, <2>3
  <1>9. Whole(g)
    <2> DEFINE r == [i \in 0..n |-> IF i = 0 THEN tag ELSE Replace(g[i - 1], rules[i])]
    <2>1. ASSUME NEW i \in 0..n PROVE g[i] = r[i]
      <3>1. CASE i = 0
        BY <1>7, <3>1
      <3>2. CASE i # 0
        <4>1. i \in 1..n
          BY <1>1, <3>2
        <4>2. r[i] = Replace(g[i - 1], rules[i])
          BY <3>2
        <4> QED BY <1>8, <4>1, <4>2
      <3> QED BY <3>1, <3>2
    <2>2. g = r
      BY <2>1
    <2> QED BY <2>2
  <1>10. Whole(f)
    BY <1>9
  <1> HIDE DEF f
  <1>11. f[0] = tag /\ \A i \in 1..n : f[i] = Replace(f[i - 1], rules[i])
    BY <1>1, <1>10
  <1> DEFINE Good == {k \in Nat : k <= n => f[k] \in X}
  <1>12. 0 \in Good
    BY <1>4, <1>11
  <1>13. ASSUME NEW k \in Nat, k \in Good PROVE k + 1 \in Good
    <2> SUFFICES ASSUME k + 1 <= n PROVE f[k + 1] \in X
      OBVIOUS
    <2>1. k + 1 \in 1..n /\ k + 1 - 1 = k /\ f[k] \in X
      BY <1>1, <1>13
    <2>2. f[k + 1] = Replace(f[k], rules[k + 1])
      BY <1>11, <2>1
    <2> QED BY <1>2, <2>1, <2>2
  <1>14. \A k \in Nat : k \in Good
    <2> HIDE DEF Good
    <2> QED BY <1>12, <1>13, AllNumbers
  <1>15. f[n] \in X
    BY <1>1, <1>14
  <1> QED BY <1>3, <1>15 DEF X

\* normalise_tag: no new symbol, and no blank in front.
LEMMA NormalFacts ==
    ASSUME NEW tag \in Seq(Symbol)
    PROVE  /\ normalise_tag(tag) \in Seq(Symbol) /\ Entries(normalise_tag(tag)) \subseteq Entries(tag)
           /\ normalise_tag(tag) # <<>> => normalise_tag(tag)[1] # Blank
  <1> DEFINE words == {i \in DOMAIN tag : tag[i] # Blank}
             stays(i) == \/ tag[i] # Blank
                         \/ /\ \E j \in words : j < i
                            /\ \E j \in words : j > i
                            /\ tag[i - 1] # Blank
             K == {i \in DOMAIN tag : stays(i)}
             lists == [i \in DOMAIN tag |-> IF i \in K THEN <<tag[i]>> ELSE <<>>]
             found == [i \in DOMAIN tag |-> IF stays(i) THEN <<tag[i]>> ELSE <<>>]
             r == Chosen(tag, K)
  <1>1. DOMAIN tag = 1..Len(tag) /\ Len(tag) \in Nat
    OBVIOUS
  <1>2. lists = found
    <2>1. \A i \in DOMAIN tag : i \in K <=> stays(i)
      OBVIOUS
    <2> HIDE DEF K, stays
    <2>2. \A i \in DOMAIN tag : lists[i] = found[i]
      BY <2>1
    <2> QED BY <2>2
  <1>3. normalise_tag(tag) = r
    BY <1>2 DEF normalise_tag, Chosen
  <1>4. \A i \in words : i \in K
    OBVIOUS
  <1>5. \A i \in K : tag[i] = Blank => \E j \in words : j < i
    OBVIOUS
  <1>6. words \subseteq DOMAIN tag
    OBVIOUS
  <1> HIDE DEF words, K
  <1>7. r \in Seq(Symbol) /\ (\A x : x \in Entries(r) <=> \E i \in DOMAIN tag \cap K : x = tag[i])
    BY ChosenFacts
  <1>8. r # <<>> => \E i \in DOMAIN tag \cap K : r[1] = tag[i] /\ \A j \in 1..(i - 1) : j \notin K
    BY ChosenFacts
  <1> HIDE DEF r
  <1>9. r # <<>> => r[1] # Blank
    <2> SUFFICES ASSUME r # <<>>, r[1] = Blank PROVE FALSE
      OBVIOUS
    <2>1. PICK i \in DOMAIN tag \cap K : r[1] = tag[i] /\ \A j \in 1..(i - 1) : j \notin K
      BY <1>8
    <2>2. PICK j \in words : j < i
      BY <1>5, <2>1
    <2>3. j \in 1..(i - 1) /\ j \in K
      BY <1>1, <1>4, <1>6, <2>2
    <2> QED BY <2>1, <2>3
  <1>10. Entries(r) \subseteq Entries(tag)
    BY <1>7 DEF Entries
  <1> QED BY <1>3, <1>7, <1>9, <1>10

\* One list behind another.
Follows(s, t, T) ==
    /\ s \o t \in Seq(T) /\ Len(s \o t) = Len(s) + Len(t)
    /\ \A i \in 1..Len(s) : (s \o t)[i] = s[i]
    /\ \A i \in 1..Len(t) : (s \o t)[Len(s) + i] = t[i]

LEMMA Joins == \A T : \A s, t \in Seq(T) : Follows(s, t, T)
  <1> SUFFICES ASSUME NEW T, NEW s \in Seq(T), NEW t \in Seq(T) PROVE Follows(s, t, T)
    OBVIOUS
  <1> QED BY DEF Follows

\* truncate_tag: a tag stays a tag, of the configured length.
LEMMA TruncateFacts ==
    ASSUME NEW tag \in Seq(Symbol), tag # <<>>, tag[1] # Blank, NEW max \in Nat, max # 0
    PROVE  /\ Len(truncate_tag(tag, max)) \in 1..max
           /\ truncate_tag(tag, max)[1] # Blank
           /\ Entries(truncate_tag(tag, max)) \subseteq Entries(tag) \cup {Dot}
  <1> DEFINE n == Len(tag)
             r == truncate_tag(tag, max)
  <1>1. n \in Nat /\ n # 0 /\ DOMAIN tag = 1..n
    OBVIOUS
  <1>2. Dot # Blank
    BY NodesAssumption
  <1>3. CASE n <= max
    <2>1. r = tag
      BY <1>3 DEF truncate_tag
    <2> HIDE DEF r
    <2> QED BY <1>1, <1>3, <2>1 DEF r
  <1>4. CASE ~(n <= max) /\ max <= 3
    <2> DEFINE dots == [i \in 1..max |-> Dot]
    <2>1. r = dots
      BY <1>1, <1>4 DEF truncate_tag
    <2>2. dots = [i \in 1..max |-> dots[i]] /\ \A i \in 1..max : dots[i] = Dot
      OBVIOUS
    <2> HIDE DEF dots, r
    <2>3. Len(dots) = max /\ DOMAIN dots = 1..max
      BY <2>2, Mapped
    <2>4. dots[1] = Dot
      BY <2>2
    <2>5. Entries(dots) \subseteq {Dot}
      BY <2>2, <2>3 DEF Entries
    <2> QED BY <1>2, <2>1, <2>3, <2>4, <2>5 DEF r
  <1>5. CASE ~(n <= max) /\ ~(max <= 3)
    <2> DEFINE s == SubSeq(tag, 1, max - 3)
               d == <<Dot, Dot, Dot>>
    <2>1. r = s \o d
      BY <1>1, <1>5 DEF truncate_tag
    <2>2. max - 3 \in 1..n /\ max - 3 \in Nat
      BY <1>1, <1>5
    <2>3. s \in Seq(Symbol) /\ Len(s) = max - 3 /\ \A i \in 1..(max - 3) : s[i] = tag[i]
      BY <1>1, <2>2
    <2>4. d \in Seq(Symbol) /\ Len(d) = 3 /\ \A i \in 1..3 : d[i] = Dot
      BY DEF Symbol
    <2> HIDE DEF s, d, r
    <2>5. s \in Seq(Symbol) /\ d \in Seq(Symbol)
      BY <2>3, <2>4
    <2>6. Follows(s, d, Symbol)
      BY <2>5, Joins
    <2> DEFINE u == s \o d
    <2>7. /\ u \in Seq(Symbol) /\ Len(u) = Len(s) + Len(d)
          /\ \A i \in 1..Len(s) : u[i] = s[i]
          /\ \A i \in 1..Len(d) : u[Len(s) + i] = d[i]
      BY <2>6 DEF Follows
    <2> HIDE DEF u
    <2>8. u \in Seq(Symbol) /\ Len(u) = max
      BY <2>2, <2>3, <2>4, <2>7
    <2>9. ASSUME NEW i \in 1..(max - 3) PROVE u[i] = tag[i]
      <3>1. u[i] = s[i] /\ s[i] = tag[i]
        BY <2>3, <2>7
      <3> QED BY <3>1
    <2>10. ASSUME NEW i \in 1..3 PROVE u[max - 3 + i] = Dot
      <3>1. u[Len(s) + i] = d[i] /\ d[i] = Dot
        BY <2>4, <2>7
      <3> QED BY <2>3, <3>1
    <2>11. u[1] = tag[1]
      <3>1. 1 \in 1..(max - 3)
        BY <2>2
      <3> QED BY <2>9, <3>1
    <2>12. ASSUME NEW i \in 1..max PROVE u[i] \in Entries(tag) \cup {Dot}
      <3>1. CASE i <= max - 3
        <4>1. i \in 1..(max - 3) /\ i \in 1..n
          BY <2>2, <3>1
        <4> QED BY <1>1, <2>9, <4>1 DEF Entries
      <3>2. CASE ~(i <= max - 3)
        <4>1. i - (max - 3) \in 1..3 /\ max - 3 + (i - (max - 3)) = i
          BY <2>2, <3>2
        <4> QED BY <2>10, <4>1
      <3> QED BY <3>1, <3>2
    <2>13. DOMAIN u = 1..max
      BY <2>8
    <2>14. Entries(u) \subseteq Entries(tag) \cup {Dot}
      BY <2>12, <2>13 DEF Entries
    <2>15. Len(u) \in 1..max /\ u[1] # Blank
      BY <2>2, <2>8, <2>11
    <2> QED BY <2>1, <2>14, <2>15 DEF r, u
  <1> QED BY <1>3, <1>4, <1>5

\* A refinement policy of advanced.toml.
PolicyType(p) == p.rename \in Seq(Rule) /\ p.max_tag_length \in Nat \ {0}

\* An outbound that a source may bring.
IsOutbound(o) == o.tag \in Seq(Symbol) /\ o.kind \in STRING

\* cleaned: what a provider's tag becomes.
CleanTag(tag, p) ==
    /\ Len(tag) \in 1..p.max_tag_length
    /\ p.strip_emoji => Emoji \notin Entries(tag)
    /\ tag[1] # Blank

LEMMA CleanedFacts ==
    ASSUME NEW o, NEW p, IsOutbound(o), PolicyType(p)
    PROVE  CleanTag(cleaned(o, p), p)
  <1> DEFINE renamed == rename(o.tag, p.rename)
             plain == normalise_tag(IF p.strip_emoji THEN Keep(renamed, Emoji) ELSE renamed)
             named == IF plain = <<>> THEN <<o.kind>> ELSE plain
             max == p.max_tag_length
  <1>1. cleaned(o, p) = truncate_tag(named, max)
    BY DEF cleaned
  <1>2. renamed \in Seq(Symbol)
    <2>1. o.tag \in Seq(Symbol) /\ p.rename \in Seq(Rule)
      BY DEF IsOutbound, PolicyType
    <2> QED BY <2>1, RenameFacts
  <1>3. o.kind \in STRING /\ o.kind # Blank /\ o.kind # Emoji /\ Dot # Emoji /\ max \in Nat \ {0}
    BY NodesAssumption DEF IsOutbound, PolicyType
  <1> HIDE DEF renamed, max
  <1> DEFINE stripped == IF p.strip_emoji THEN Keep(renamed, Emoji) ELSE renamed
  <1>4. stripped \in Seq(Symbol) /\ (p.strip_emoji => Emoji \notin Entries(stripped))
    <2>1. CASE p.strip_emoji
      <3> DEFINE S == Entries(renamed) \ {Emoji}
      <3>1. stripped = Only(renamed, S)
        BY <2>1 DEF Keep
      <3>2. Emoji \notin S
        OBVIOUS
      <3>3. IsList(renamed)
        BY <1>2, ListFacts
      <3> HIDE DEF S, stripped
      <3>4. Entries(Only(renamed, S)) = Entries(renamed) \cap S /\ Only(renamed, S) \in Seq(Symbol)
        BY <1>2, <3>3, OnlyFacts
      <3> QED BY <3>1, <3>2, <3>4
    <2>2. CASE ~p.strip_emoji
      BY <1>2, <2>2
    <2> QED BY <2>1, <2>2
  <1>5. plain = normalise_tag(stripped)
    OBVIOUS
  <1> HIDE DEF stripped, plain
  <1>6. /\ plain \in Seq(Symbol) /\ Entries(plain) \subseteq Entries(stripped)
        /\ plain # <<>> => plain[1] # Blank
    BY <1>4, <1>5, NormalFacts
  <1>7. /\ named \in Seq(Symbol) /\ named # <<>> /\ named[1] # Blank
        /\ p.strip_emoji => Emoji \notin Entries(named)
    <2>1. CASE plain = <<>>
      <3>1. named = <<o.kind>>
        BY <2>1
      <3>2. <<o.kind>> \in Seq(Symbol) /\ <<o.kind>> # <<>> /\ <<o.kind>>[1] = o.kind /\ Entries(<<o.kind>>) = {o.kind}
        BY <1>3 DEF Symbol, Entries
      <3> HIDE DEF named
      <3> QED BY <1>3, <3>1, <3>2
    <2>2. CASE plain # <<>>
      BY <1>4, <1>6, <2>2
    <2> QED BY <2>1, <2>2
  <1> HIDE DEF named
  <1> DEFINE r == truncate_tag(named, max)
  <1>8. Len(r) \in 1..max /\ r[1] # Blank /\ Entries(r) \subseteq Entries(named) \cup {Dot}
    BY <1>3, <1>7, TruncateFacts
  <1> HIDE DEF r
  <1>9. p.strip_emoji => Emoji \notin Entries(r)
    BY <1>3, <1>7, <1>8
  <1>10. cleaned(o, p) = r
    BY <1>1 DEF r
  <1> QED BY <1>8, <1>9, <1>10 DEF CleanTag, max

\* parse_uri: the outbound of a URI.
FromUri(o, u) ==
    /\ o.line = u /\ "line" \in DOMAIN o
    /\ o.tls = apply_tls(u) /\ o.transport = apply_transport(u) /\ o.transport # "refused"
    /\ IsOutbound(o)

LEMMA ParsedUri ==
    ASSUME NEW u, IsUri(u), WellFormed(u), parse_uri(u) # Nil
    PROVE  FromUri(parse_uri(u), u)
  <1> DEFINE kind == Kind(u)
             tag == uri_tag(u)
             o == [kind |-> kind, tag |-> tag, port |-> endpoint(u), tls |-> apply_tls(u),
                   transport |-> apply_transport(u), line |-> u]
  <1>1. parse_uri(u) = o /\ apply_transport(u) # "refused"
    BY DEF parse_uri
  <1>2. u.tag \in Seq(Symbol) /\ u.scheme \in STRING
    BY DEF WellFormed
  <1>3. kind \in STRING
    BY <1>2, NodesAssumption DEF Kind
  <1>4. "VMess" \in Symbol /\ kind \in Symbol
    BY <1>3, NodesAssumption DEF Symbol
  <1>5. <<"VMess">> \in Seq(Symbol) /\ <<kind>> \in Seq(Symbol)
    BY <1>4
  <1>6. tag \in Seq(Symbol)
    BY <1>2, <1>5 DEF uri_tag
  <1> HIDE DEF tag, kind
  <1>7. /\ o.kind = kind /\ o.line = u /\ "line" \in DOMAIN o /\ o.tag = tag
        /\ o.tls = apply_tls(u) /\ o.transport = apply_transport(u)
    OBVIOUS
  <1> HIDE DEF o
  <1>8. FromUri(o, u)
    BY <1>1, <1>3, <1>6, <1>7 DEF FromUri, IsOutbound
  <1> QED BY <1>1, <1>8

\* What a node may be: a provider's outbound, or that of a URI.
Origin(o) == IsOutbound(o) /\ ("line" \in DOMAIN o => \E u : FromUri(o, u))

\* What a node owes to its URI.
Honest(o, u) ==
    /\ u.scheme \in {"trojan", "tuic", "hysteria", "hysteria2"} => o.tls # Nil
    /\ u.scheme \in {"vless", "vmess"} /\ u.security = "tls" => o.tls # Nil
    /\ u.scheme \in {"vless", "trojan", "tuic", "hysteria", "hysteria2"} /\ u.security = "reality"
         => o.tls # Nil /\ o.tls.reality
    /\ u.scheme \in {"vless", "vmess", "trojan"} /\ u.transport \notin Plain
         => o.transport = IF u.transport = "h2" THEN "http" ELSE u.transport

LEMMA HonestOrigin ==
    ASSUME NEW o, Origin(o), "line" \in DOMAIN o
    PROVE  Honest(o, o.line)
  <1>1. PICK u : FromUri(o, u)
    BY DEF Origin
  <1>2. o.line = u /\ o.tls = apply_tls(u) /\ o.transport = apply_transport(u) /\ o.transport # "refused"
    BY <1>1 DEF FromUri
  <1>3. Nil \notin {"http", "ws", "grpc", "quic", "httpupgrade"} /\ \A b \in BOOLEAN : [reality |-> b] # Nil
    BY NodesAssumption
  <1>4. (u.security = "reality") \in BOOLEAN
    OBVIOUS
  <1>5. ASSUME apply_tls(u) = [reality |-> (u.security = "reality")]
        PROVE  apply_tls(u) # Nil /\ (u.security = "reality" => apply_tls(u).reality)
    <2>1. apply_tls(u) # Nil
      BY <1>3, <1>4, <1>5
    <2>2. apply_tls(u).reality = (u.security = "reality")
      BY <1>5
    <2> QED BY <2>1, <2>2
  <1>6. u.scheme \in {"trojan", "tuic", "hysteria", "hysteria2"} => apply_tls(u) = [reality |-> (u.security = "reality")]
    BY DEF apply_tls
  <1>7. u.scheme = "vless" /\ u.security \in {"tls", "reality"} => apply_tls(u) = [reality |-> (u.security = "reality")]
    BY DEF apply_tls
  <1>8. u.scheme = "vmess" /\ u.security = "tls" => apply_tls(u) # Nil
    <2>1. u.scheme = "vmess" /\ u.security = "tls" => apply_tls(u) = [reality |-> FALSE]
      BY DEF apply_tls
    <2> QED BY <1>3, <2>1
  <1>9. ASSUME u.transport \notin Plain, u.scheme \in {"vless", "vmess", "trojan"},
               apply_transport(u) # "refused"
        PROVE  apply_transport(u) = IF u.transport = "h2" THEN "http" ELSE u.transport
    BY <1>9 DEF apply_transport
  <1> QED BY <1>2, <1>5, <1>6, <1>7, <1>8, <1>9 DEF Honest

\* parse_subscription: every entry of an accepted answer is an outbound.
LEMMA ParsedReply ==
    ASSUME NEW reply \in Replies, Nil \notin Entries(parse_subscription(reply))
    PROVE  IsList(parse_subscription(reply)) /\ \A o \in Entries(parse_subscription(reply)) : Origin(o)
  <1> DEFINE list == parse_subscription(reply)
             n == Len(reply)
  <1>1. /\ reply \in Seq({reply[i] : i \in DOMAIN reply})
        /\ \A i \in DOMAIN reply : reply[i] = Nil \/ WellFormed(reply[i])
    BY NodesAssumption
  <1>2. n \in Nat /\ DOMAIN reply = 1..n
    BY <1>1
  <1> HIDE DEF n
  <1>3. list = [i \in 1..n |-> IF reply[i] = Nil THEN Nil
                               ELSE IF IsUri(reply[i]) THEN parse_uri(reply[i]) ELSE reply[i]]
    BY <1>2 DEF parse_subscription
  <1> HIDE DEF list
  <1>4. list = [i \in 1..n |-> list[i]]
    BY <1>3
  <1>5. IsList(list) /\ DOMAIN list = 1..n
    BY <1>2, <1>4, Mapped
  <1>6. ASSUME NEW i \in 1..n PROVE Origin(list[i])
    <2>1. list[i] # Nil
      BY <1>5 DEF Entries, list
    <2>2. reply[i] # Nil /\ WellFormed(reply[i]) /\ list[i] = IF IsUri(reply[i]) THEN parse_uri(reply[i]) ELSE reply[i]
      BY <1>1, <1>2, <1>3, <2>1
    <2>3. CASE IsUri(reply[i])
      <3>1. FromUri(list[i], reply[i])
        BY <2>1, <2>2, <2>3, ParsedUri
      <3> QED BY <3>1 DEF Origin, FromUri
    <2>4. CASE ~IsUri(reply[i])
      BY <2>2, <2>4 DEF Origin, WellFormed, IsOutbound
    <2> QED BY <2>3, <2>4
  <1> QED BY <1>5, <1>6 DEF list, Entries

\* refine: the nodes of an answer.
FromProvider(node, o, p) ==
    /\ node.outbound = o /\ node.remote /\ Origin(o)
    /\ CleanTag(node.tag, p) /\ ~Finds(p.exclude, o.tag)

LEMMA RefinedFacts ==
    ASSUME NEW list, IsList(list), \A o \in Entries(list) : Origin(o), NEW p, PolicyType(p),
           refine(list, p) # Nil
    PROVE  /\ IsList(refine(list, p)) /\ refine(list, p) # <<>>
           /\ \A node \in Entries(refine(list, p)) : \E o \in Entries(list) : FromProvider(node, o, p)
  <1> DEFINE S == {o \in Entries(list) : Selectable(o, p)}
             chosen == Only(list, S)
             nodes == [i \in DOMAIN chosen |-> RefinedNode(chosen[i], cleaned(chosen[i], p), TRUE, p)]
             n == Len(chosen)
  <1>1. chosen # <<>> /\ refine(list, p) = nodes
    BY DEF refine
  <1>2. \A o \in S : o \in Entries(list) /\ Selectable(o, p)
    OBVIOUS
  <1>3. S \subseteq Entries(list)
    OBVIOUS
  <1> HIDE DEF S
  <1>4. IsList(chosen) /\ Entries(chosen) = S
    <2>1. IsList(Only(list, S)) /\ Entries(Only(list, S)) = Entries(list) \cap S
      BY OnlyFacts
    <2>2. Entries(list) \cap S = S
      BY <1>3
    <2> QED BY <2>1, <2>2
  <1> HIDE DEF chosen
  <1>5. n \in Nat /\ DOMAIN chosen = 1..n /\ n # 0
    <2>1. chosen \in Seq(Entries(chosen))
      BY <1>4 DEF IsList
    <2> QED BY <1>1, <2>1
  <1> HIDE DEF n
  <1>6. nodes = [i \in 1..n |-> nodes[i]]
    BY <1>5
  <1>7. \A i \in 1..n : nodes[i] = RefinedNode(chosen[i], cleaned(chosen[i], p), TRUE, p)
    BY <1>5
  <1> HIDE DEF nodes
  <1>8. DOMAIN nodes = 1..n /\ Len(nodes) = n /\ IsList(nodes)
    BY <1>5, <1>6, Mapped
  <1>9. nodes # <<>>
    BY <1>5, <1>8
  <1>10. ASSUME NEW i \in 1..n PROVE \E o \in Entries(list) : FromProvider(nodes[i], o, p)
    <2> DEFINE o == chosen[i]
    <2>1. o \in S
      BY <1>4, <1>5 DEF Entries
    <2>2. o \in Entries(list) /\ Selectable(o, p) /\ Origin(o)
      BY <1>2, <2>1
    <2>3. nodes[i] = RefinedNode(o, cleaned(o, p), TRUE, p)
      BY <1>7
    <2> HIDE DEF o
    <2>4. nodes[i].outbound = o /\ nodes[i].remote /\ nodes[i].tag = cleaned(o, p)
      BY <2>3 DEF RefinedNode
    <2>5. CleanTag(cleaned(o, p), p)
      BY <2>2, CleanedFacts DEF Origin
    <2>6. FromProvider(nodes[i], o, p)
      BY <2>2, <2>4, <2>5 DEF FromProvider, Selectable
    <2> QED BY <2>2, <2>6
  <1>11. \A node \in Entries(nodes) : \E o \in Entries(list) : FromProvider(node, o, p)
    BY <1>8, <1>10 DEF Entries
  <1> QED BY <1>1, <1>8, <1>9, <1>11

\* parse_nodes: every source that is not a repeated provider.
SourceType(s) == IF Remote(s) THEN s.id \in Provider ELSE IsUri(s.uri) /\ WellFormed(s.uri)

LEMMA ParsedSources ==
    ASSUME NEW list \in SourceLists, NEW p, parse_nodes(list, p) # Nil
    PROVE  /\ IsList(parse_nodes(list, p)) /\ IsList(list)
           /\ \A s \in Entries(parse_nodes(list, p)) :
                 SourceType(s) /\ (~Remote(s) => manual(s.uri, p) # Nil)
           /\ \A s \in Entries(list) : ~Remote(s) => s \in Entries(parse_nodes(list, p))
           /\ \A s \in Entries(list) : Remote(s) =>
                 \E t \in Entries(parse_nodes(list, p)) : Remote(t) /\ t.id = s.id
  <1> DEFINE first(i) == ~Remote(list[i]) \/ \A j \in 1..(i - 1) : ~Remote(list[j]) \/ list[j].id # list[i].id
             K == {i \in DOMAIN list : first(i)}
             lists == [i \in DOMAIN list |-> IF i \in K THEN <<list[i]>> ELSE <<>>]
             found == [i \in DOMAIN list |-> IF first(i) THEN <<list[i]>> ELSE <<>>]
             n == Len(list)
             r == Chosen(list, K)
  <1>1. /\ list \in Seq({list[i] : i \in DOMAIN list})
        /\ \A i \in DOMAIN list : SourceType(list[i])
    BY NodesAssumption DEF SourceType, Remote
  <1>2. IsList(list)
    BY <1>1 DEF IsList, Entries
  <1>3. n \in Nat /\ DOMAIN list = 1..n
    BY <1>2 DEF IsList
  <1>4. lists = found
    <2>1. \A i \in DOMAIN list : i \in K <=> first(i)
      OBVIOUS
    <2> HIDE DEF K, first
    <2>2. \A i \in DOMAIN list : lists[i] = found[i]
      BY <2>1
    <2> QED BY <2>2
  <1>5. /\ \A i \in DOMAIN list : ~(~Remote(list[i]) /\ manual(list[i].uri, p) = Nil)
        /\ parse_nodes(list, p) = Concat(found)
    BY DEF parse_nodes
  <1>6. parse_nodes(list, p) = r
    BY <1>4, <1>5 DEF Chosen
  <1>7. \A i \in 1..n : i \in K <=> first(i)
    BY <1>3
  <1> HIDE DEF K, n
  <1>8. IsList(r) /\ \A x : x \in Entries(r) <=> \E i \in DOMAIN list \cap K : x = list[i]
    <2> DEFINE T == Entries(list)
    <2>1. list \in Seq(T)
      BY <1>2 DEF IsList
    <2> HIDE DEF T
    <2>2. r \in Seq(T) /\ \A x : x \in Entries(r) <=> \E i \in DOMAIN list \cap K : x = list[i]
      BY <2>1, ChosenFacts
    <2> HIDE DEF r
    <2>3. IsList(r)
      BY <2>2, ListFacts
    <2> QED BY <2>2, <2>3
  <1> HIDE DEF r
  <1>9. \A s \in Entries(r) : SourceType(s) /\ (~Remote(s) => manual(s.uri, p) # Nil)
    BY <1>1, <1>5, <1>8
  <1>10. ASSUME NEW i \in 1..n, ~Remote(list[i]) PROVE list[i] \in Entries(r)
    BY <1>3, <1>7, <1>8, <1>10
  <1>11. ASSUME NEW i \in 1..n, Remote(list[i])
         PROVE  \E t \in Entries(r) : Remote(t) /\ t.id = list[i].id
    <2> DEFINE same == {j \in 1..n : Remote(list[j]) /\ list[j].id = list[i].id}
    <2>1. i \in same
      BY <1>11
    <2>2. IsWellFoundedOn(Before, Nat)
      BY NatLessThanWellFounded DEF OpToRel, Before
    <2>3. same \subseteq Nat
      BY <1>3
    <2>4. PICK k \in same : \A j \in same : ~(<<j, k>> \in Before)
      <3> HIDE DEF same
      <3> QED BY <2>1, <2>2, <2>3, WFMin
    <2>5. k \in 1..n /\ Remote(list[k]) /\ list[k].id = list[i].id
      BY <2>4
    <2>6. ASSUME NEW j \in 1..(k - 1), Remote(list[j]) PROVE list[j].id # list[k].id
      <3> SUFFICES ASSUME list[j].id = list[k].id PROVE FALSE
        OBVIOUS
      <3>1. j \in 1..n /\ j \in Nat /\ k \in Nat /\ j < k
        BY <1>3, <2>5
      <3>2. j \in same
        BY <2>5, <2>6, <3>1
      <3>3. <<j, k>> \in Before
        BY <3>1 DEF Before
      <3> QED BY <2>4, <3>2, <3>3
    <2>7. first(k)
      BY <2>5, <2>6
    <2>8. k \in K
      BY <1>7, <2>5, <2>7
    <2>9. list[k] \in Entries(r)
      BY <1>3, <1>8, <2>5, <2>8
    <2> QED BY <2>5, <2>9
  <1>12. \A s \in Entries(list) : \E i \in 1..n : s = list[i]
    BY <1>3 DEF Entries
  <1> QED BY <1>2, <1>6, <1>8, <1>9, <1>10, <1>11, <1>12

\* What a source brings, when its answer is there and readable.
LEMMA BatchFacts ==
    ASSUME NEW list, NEW i \in DOMAIN list, NEW p, PolicyType(p),
           NEW response \in [Provider -> Replies \cup {Nil}],
           SourceType(list[i]), ~Remote(list[i]) => manual(list[i].uri, p) # Nil,
           batch(list, i, p, response) # Nil
    PROVE  LET b == batch(list, i, p, response) IN
           /\ IsList(b)
           /\ Remote(list[i]) =>
                 /\ \A node \in Entries(b) :
                       \E o \in Entries(parse_subscription(response[list[i].id])) : FromProvider(node, o, p)
                 /\ response[list[i].id] # Nil => b # <<>>
           /\ ~Remote(list[i]) =>
                 \E node : /\ Entries(b) = {node} /\ ~node.remote /\ Origin(node.outbound)
                           /\ node.tag = parse_uri(list[i].uri).tag
  <1> DEFINE b == batch(list, i, p, response)
             u == list[i].uri
             reply == response[list[i].id]
  <1>1. CASE ~Remote(list[i])
    <2> DEFINE node == manual(u, p)
    <2>1. node # Nil /\ IsUri(u) /\ WellFormed(u)
      BY <1>1 DEF SourceType
    <2>2. b = <<node>>
      BY <1>1 DEF batch
    <2>3. parse_uri(u) # Nil /\ node = RefinedNode(parse_uri(u), parse_uri(u).tag, FALSE, p)
      BY <2>1 DEF manual
    <2>4. Origin(parse_uri(u))
      BY <2>1, <2>3, ParsedUri DEF Origin, FromUri
    <2> HIDE DEF node, b, u
    <2>5. node.outbound = parse_uri(u) /\ ~node.remote /\ node.tag = parse_uri(u).tag
      BY <2>3 DEF RefinedNode
    <2>6. Entries(<<node>>) = {node} /\ <<node>> \in Seq({node})
      BY DEF Entries
    <2>7. IsList(b) /\ Entries(b) = {node}
      BY <2>2, <2>6 DEF IsList
    <2>8. \E x : Entries(b) = {x} /\ ~x.remote /\ Origin(x.outbound) /\ x.tag = parse_uri(u).tag
      BY <2>4, <2>5, <2>7
    <2> QED BY <1>1, <2>7, <2>8 DEF b, u
  <1>2. CASE Remote(list[i]) /\ reply = Nil
    <2>1. b = <<>>
      BY <1>2 DEF batch
    <2> HIDE DEF b, reply
    <2>2. IsList(b) /\ Entries(b) = {}
      BY <2>1 DEF IsList, Entries
    <2> QED BY <1>2, <2>2 DEF b, reply
  <1>3. CASE Remote(list[i]) /\ reply # Nil
    <2> DEFINE parsed == parse_subscription(reply)
    <2>1. reply \in Replies
      BY <1>3 DEF SourceType
    <2>2. b = remote(reply, p) /\ b # Nil
      BY <1>3 DEF batch
    <2> HIDE DEF b, reply
    <2>3. Nil \notin Entries(parsed) /\ b = refine(parsed, p)
      BY <2>2 DEF remote
    <2>4. IsList(parsed) /\ \A o \in Entries(parsed) : Origin(o)
      BY <2>1, <2>3, ParsedReply
    <2> HIDE DEF parsed
    <2>5. refine(parsed, p) # Nil
      BY <2>2, <2>3
    <2>6. /\ IsList(b) /\ b # <<>>
          /\ \A node \in Entries(b) : \E o \in Entries(parsed) : FromProvider(node, o, p)
      BY <2>3, <2>4, <2>5, RefinedFacts
    <2> QED BY <1>3, <2>6 DEF b, reply, parsed
  <1> QED BY <1>1, <1>2, <1>3

\* assemble_nodes: where each node is from, and what every source has brought.
NodeFrom(node, p) ==
    \/ ~node.remote /\ Origin(node.outbound)
    \/ \E o : FromProvider(node, o, p)

LEMMA AssembledFacts ==
    ASSUME NEW list, IsList(list), NEW p, PolicyType(p),
           NEW response \in [Provider -> Replies \cup {Nil}],
           \A s \in Entries(list) : SourceType(s) /\ (~Remote(s) => manual(s.uri, p) # Nil),
           assemble_nodes(list, p, response) # Nil
    PROVE  LET nodes == assemble_nodes(list, p, response) IN
           /\ IsList(nodes) /\ Unambiguous(nodes)
           /\ \A node \in Entries(nodes) : NodeFrom(node, p)
           /\ \A s \in Entries(list) : ~Remote(s) =>
                 \E node \in Entries(nodes) : ~node.remote /\ node.tag = parse_uri(s.uri).tag
           /\ \A s \in Entries(list) : Remote(s) /\ response[s.id] # Nil =>
                 \E node \in Entries(nodes), o \in Entries(parse_subscription(response[s.id])) :
                    node.remote /\ node.outbound = o
  <1> DEFINE batches == [i \in DOMAIN list |-> batch(list, i, p, response)]
             nodes == Concat(batches)
             n == Len(list)
  <1>1. /\ Nil \notin Entries(batches) /\ Unambiguous(nodes)
        /\ assemble_nodes(list, p, response) = nodes
    BY DEF assemble_nodes
  <1>2. n \in Nat /\ DOMAIN list = 1..n
    BY DEF IsList
  <1> HIDE DEF n
  <1>3. batches = [i \in 1..n |-> batches[i]] /\ \A i \in 1..n : batches[i] = batch(list, i, p, response)
    BY <1>2
  <1> HIDE DEF batches
  <1>4. IsList(batches) /\ DOMAIN batches = 1..n
    BY <1>2, <1>3, Mapped
  <1>5. ASSUME NEW i \in 1..n
        PROVE  /\ IsList(batches[i])
               /\ Remote(list[i]) =>
                     /\ \A node \in Entries(batches[i]) :
                           \E o \in Entries(parse_subscription(response[list[i].id])) : FromProvider(node, o, p)
                     /\ response[list[i].id] # Nil => batches[i] # <<>>
               /\ ~Remote(list[i]) =>
                     \E node : /\ Entries(batches[i]) = {node} /\ ~node.remote /\ Origin(node.outbound)
                               /\ node.tag = parse_uri(list[i].uri).tag
    <2>1. i \in DOMAIN list /\ list[i] \in Entries(list)
      BY <1>2 DEF Entries
    <2>2. batch(list, i, p, response) = batches[i] /\ batches[i] # Nil
      BY <1>1, <1>3, <1>4 DEF Entries
    <2>3. batch(list, i, p, response) # Nil
      BY <2>2
    <2>4. SourceType(list[i]) /\ (~Remote(list[i]) => manual(list[i].uri, p) # Nil)
      BY <2>1
    <2> QED BY <2>1, <2>2, <2>3, <2>4, BatchFacts
  <1>6. IsList(nodes) /\ \A x : x \in Entries(nodes) <=> \E i \in 1..n : x \in Entries(batches[i])
    BY <1>4, <1>5, ConcatOf
  <1> HIDE DEF nodes
  <1>7. ASSUME NEW node \in Entries(nodes) PROVE NodeFrom(node, p)
    <2>1. PICK i \in 1..n : node \in Entries(batches[i])
      BY <1>6
    <2>2. CASE Remote(list[i])
      <3>1. \E o : FromProvider(node, o, p)
        BY <1>5, <2>1, <2>2
      <3> QED BY <3>1 DEF NodeFrom
    <2>3. CASE ~Remote(list[i])
      <3>1. ~node.remote /\ Origin(node.outbound)
        BY <1>5, <2>1, <2>3
      <3> QED BY <3>1 DEF NodeFrom
    <2> QED BY <2>2, <2>3
  <1>8. ASSUME NEW i \in 1..n, ~Remote(list[i])
        PROVE  \E node \in Entries(nodes) : ~node.remote /\ node.tag = parse_uri(list[i].uri).tag
    <2>1. PICK node : /\ Entries(batches[i]) = {node} /\ ~node.remote
                      /\ node.tag = parse_uri(list[i].uri).tag
      BY <1>5, <1>8
    <2>2. node \in Entries(nodes)
      BY <1>6, <2>1
    <2> QED BY <2>1, <2>2
  <1>9. ASSUME NEW i \in 1..n, Remote(list[i]), response[list[i].id] # Nil
        PROVE  \E node \in Entries(nodes), o \in Entries(parse_subscription(response[list[i].id])) :
                  node.remote /\ node.outbound = o
    <2>1. IsList(batches[i]) /\ batches[i] # <<>>
      BY <1>5, <1>9
    <2>2. Entries(batches[i]) # {}
      <3> DEFINE T == Entries(batches[i])
      <3>1. batches[i] \in Seq(T)
        BY <2>1 DEF IsList
      <3> QED BY <2>1, <3>1, ListFacts
    <2>3. PICK node \in Entries(batches[i]) : TRUE
      BY <2>2
    <2>4. PICK o \in Entries(parse_subscription(response[list[i].id])) : FromProvider(node, o, p)
      BY <1>5, <1>9, <2>3
    <2>5. node \in Entries(nodes)
      BY <1>6, <2>3
    <2>6. node.remote /\ node.outbound = o
      BY <2>4 DEF FromProvider
    <2> QED BY <2>4, <2>5, <2>6
  <1>10. \A s \in Entries(list) : \E i \in 1..n : s = list[i]
    BY <1>2 DEF Entries
  <1>11. \A s \in Entries(list) : ~Remote(s) =>
            \E node \in Entries(nodes) : ~node.remote /\ node.tag = parse_uri(s.uri).tag
    BY <1>8, <1>10
  <1>12. \A s \in Entries(list) : Remote(s) /\ response[s.id] # Nil =>
            \E node \in Entries(nodes), o \in Entries(parse_subscription(response[s.id])) :
               node.remote /\ node.outbound = o
    BY <1>9, <1>10
  <1> QED BY <1>1, <1>6, <1>7, <1>11, <1>12

\* The groups of the template.
LEMMA MembersFacts ==
    ASSUME NEW g, NEW nodes, IsList(nodes)
    PROVE  /\ Members(g, nodes) # <<>>
           /\ Entries(Members(g, nodes)) \subseteq {Direct} \cup {nodes[j].tag : j \in DOMAIN nodes}
           /\ g.tag \in AllNodes => \A node \in Entries(nodes) : node.tag \in Entries(Members(g, nodes))
  <1> DEFINE S == {node \in Entries(nodes) : g.tag \in AllNodes \/ g.tag \in node.groups}
             chosen == Only(nodes, S)
             tags == [i \in DOMAIN chosen |-> chosen[i].tag]
             n == Len(chosen)
  <1>1. Members(g, nodes) = IF chosen = <<>> THEN <<Direct>> ELSE tags
    BY DEF Members
  <1>2. S \subseteq Entries(nodes) /\ (g.tag \in AllNodes => S = Entries(nodes))
    OBVIOUS
  <1> HIDE DEF S
  <1>3. IsList(chosen) /\ Entries(chosen) = S
    <2>1. IsList(Only(nodes, S)) /\ Entries(Only(nodes, S)) = Entries(nodes) \cap S
      BY OnlyFacts
    <2>2. Entries(nodes) \cap S = S
      BY <1>2
    <2> QED BY <2>1, <2>2
  <1> HIDE DEF chosen
  <1>4. chosen \in Seq(S)
    BY <1>3 DEF IsList
  <1>5. n \in Nat /\ DOMAIN chosen = 1..n /\ (chosen # <<>> => n # 0) /\ (chosen = <<>> => S = {})
    <2>1. n \in Nat /\ DOMAIN chosen = 1..n /\ (chosen # <<>> => n # 0)
      BY <1>4
    <2>2. chosen = <<>> => Entries(chosen) = {}
      BY DEF Entries
    <2> QED BY <1>3, <2>1, <2>2
  <1> HIDE DEF n
  <1>6. CASE chosen = <<>>
    <2>1. Members(g, nodes) = <<Direct>> /\ S = {}
      BY <1>1, <1>5, <1>6
    <2>2. <<Direct>> # <<>> /\ Entries(<<Direct>>) = {Direct}
      BY DEF Entries
    <2> QED BY <1>2, <2>1, <2>2
  <1>7. CASE chosen # <<>>
    <2>1. Members(g, nodes) = tags /\ n # 0
      BY <1>1, <1>5, <1>7
    <2>2. tags = [i \in 1..n |-> tags[i]] /\ \A i \in 1..n : tags[i] = chosen[i].tag
      BY <1>5
    <2> HIDE DEF tags
    <2>3. DOMAIN tags = 1..n /\ Len(tags) = n
      BY <1>5, <2>2, Mapped
    <2>4. tags # <<>>
      BY <2>1, <2>3
    <2>5. ASSUME NEW i \in 1..n PROVE tags[i] \in {nodes[j].tag : j \in DOMAIN nodes}
      <3>1. chosen[i] \in Entries(nodes)
        BY <1>2, <1>3, <1>5 DEF Entries
      <3>2. PICK j \in DOMAIN nodes : chosen[i] = nodes[j]
        BY <3>1 DEF Entries
      <3> QED BY <2>2, <3>2
    <2>6. Entries(tags) \subseteq {nodes[j].tag : j \in DOMAIN nodes}
      BY <2>3, <2>5 DEF Entries
    <2>7. ASSUME g.tag \in AllNodes, NEW node \in Entries(nodes) PROVE node.tag \in Entries(tags)
      <3>1. node \in Entries(chosen)
        BY <1>2, <1>3, <2>7
      <3>2. PICK i \in 1..n : node = chosen[i]
        BY <1>5, <3>1 DEF Entries
      <3> QED BY <2>2, <2>3, <3>2 DEF Entries
    <2> QED BY <2>1, <2>4, <2>6, <2>7
  <1> QED BY <1>6, <1>7

NodesInv ==
    /\ template \in Templates /\ sources \in SourceLists /\ advanced \in AdvancedFiles
    /\ available \in [Provider -> Replies \cup {Nil}]
    /\ generated # Nil => generated = Candidate_config

NodesSpec ==
    /\ changes = 0 /\ \E t \in Templates, s \in SourceLists, f \in AdvancedFiles : NodesStart(t, s, f)
    /\ [][NodesNext]_<<nodevars, changes>>

\* What an accepted candidate went through.
LEMMA Accepted ==
    ASSUME NodesInv, generated # Nil
    PROVE  \E p, list, nodes :
              /\ p = parse_advanced(advanced).policy /\ parse_advanced(advanced) # Nil
              /\ list = parse_nodes(sources, p) /\ list # Nil
              /\ nodes = assemble_nodes(list, p, available) /\ nodes # Nil
              /\ ~(nodes = <<>> /\ \E i \in DOMAIN template.outbounds : Fillable(template.outbounds[i]))
              /\ generated.nodes = nodes /\ generated.inbounds = ReservedTags /\ template.inbounds = {}
              /\ generated.outbounds =
                    [i \in DOMAIN template.outbounds |->
                        IF Fillable(template.outbounds[i]) THEN [template.outbounds[i] EXCEPT !.members = Members(template.outbounds[i], nodes)]
                        ELSE template.outbounds[i]]
              /\ first_reserved_tag(generated) = {}
  <1> DEFINE p == parse_advanced(advanced)
             list == IF p = Nil THEN Nil ELSE parse_nodes(sources, p.policy)
             nodes == IF list = Nil THEN Nil ELSE assemble_nodes(list, p.policy, available)
             config == IF nodes = Nil THEN Nil ELSE generate_from_template(template, nodes)
             built == IF config = Nil THEN Nil ELSE build_effective(config)
  <1>1. generated = built /\ built # Nil
    BY DEF NodesInv, Candidate_config
  <1> HIDE DEF config
  <1>2. config # Nil /\ generated = build_effective(config)
    BY <1>1
  <1> HIDE DEF nodes
  <1>3. nodes # Nil /\ config = generate_from_template(template, nodes)
    BY <1>2 DEF config
  <1> HIDE DEF list
  <1>4. list # Nil /\ nodes = assemble_nodes(list, p.policy, available)
    BY <1>3 DEF nodes
  <1> HIDE DEF p
  <1>5. p # Nil /\ list = parse_nodes(sources, p.policy)
    BY <1>4 DEF list
  <1> DEFINE filled == [i \in DOMAIN template.outbounds |->
                          IF Fillable(template.outbounds[i]) THEN [template.outbounds[i] EXCEPT !.members = Members(template.outbounds[i], nodes)]
                          ELSE template.outbounds[i]]
  <1>6. /\ ~(nodes = <<>> /\ \E i \in DOMAIN template.outbounds : Fillable(template.outbounds[i]))
        /\ config = [outbounds |-> filled, nodes |-> nodes, inbounds |-> template.inbounds]
    BY <1>2, <1>3 DEF generate_from_template
  <1> HIDE DEF filled
  <1>7. /\ first_reserved_tag(config) = {} /\ config.inbounds = {}
        /\ generated = [config EXCEPT !.inbounds = ReservedTags]
    BY <1>1, <1>2 DEF build_effective
  <1>8. generated.outbounds = filled /\ generated.nodes = nodes /\ generated.inbounds = ReservedTags
    BY <1>6, <1>7
  <1>9. config.outbounds = filled /\ config.nodes = nodes /\ template.inbounds = {}
    BY <1>6, <1>7
  <1>10. first_reserved_tag(generated) = {}
    BY <1>7, <1>8, <1>9 DEF first_reserved_tag
  <1> QED BY <1>3, <1>4, <1>5, <1>6, <1>8, <1>9, <1>10 DEF p, filled

LEMMA PolicyFacts ==
    ASSUME NodesInv, parse_advanced(advanced) # Nil
    PROVE  LET p == parse_advanced(advanced).policy IN
           /\ PolicyType(p) /\ p.exclude = advanced.exclude /\ p.strip_emoji = advanced.strip_emoji
           /\ p.max_tag_length = Default(advanced.max_tag_length, 32)
  <1> DEFINE f == advanced
             q == [exclude |-> f.exclude, rename |-> f.rename, strip_emoji |-> f.strip_emoji,
                   max_tag_length |-> Default(f.max_tag_length, 32), groups |-> f.groups]
  <1>1. f.max_tag_length # 0 /\ parse_advanced(advanced).policy = q
    BY DEF parse_advanced
  <1>2. f.max_tag_length \in Nat \cup {Nil} /\ f.rename \in Seq(Rule)
    BY NodesAssumption DEF NodesInv, Rule
  <1>3. Default(f.max_tag_length, 32) \in Nat \ {0}
    BY <1>1, <1>2 DEF Default
  <1>4. /\ q.exclude = f.exclude /\ q.strip_emoji = f.strip_emoji /\ q.rename = f.rename
        /\ q.max_tag_length = Default(f.max_tag_length, 32)
    OBVIOUS
  <1> HIDE DEF q
  <1>5. PolicyType(q)
    BY <1>2, <1>3, <1>4 DEF PolicyType
  <1> QED BY <1>1, <1>4, <1>5

LEMMA PoolSound == NodesInv => PoolIsSound
  <1> SUFFICES ASSUME NodesInv PROVE PoolIsSound
    OBVIOUS
  <1>1. CASE generated = Nil
    BY <1>1 DEF PoolIsSound, GroupsFilled, ExcludedNeverOffered, TagsUnambiguous, OthersContribute,
                ProviderTagsClean, NeverDowngraded
  <1>2. CASE generated # Nil
    <2>1. PICK p, list, nodes :
              /\ p = parse_advanced(advanced).policy /\ parse_advanced(advanced) # Nil
              /\ list = parse_nodes(sources, p) /\ list # Nil
              /\ nodes = assemble_nodes(list, p, available) /\ nodes # Nil
              /\ ~(nodes = <<>> /\ \E i \in DOMAIN template.outbounds : Fillable(template.outbounds[i]))
              /\ generated.nodes = nodes /\ generated.inbounds = ReservedTags /\ template.inbounds = {}
              /\ generated.outbounds =
                    [i \in DOMAIN template.outbounds |->
                        IF Fillable(template.outbounds[i]) THEN [template.outbounds[i] EXCEPT !.members = Members(template.outbounds[i], nodes)]
                        ELSE template.outbounds[i]]
              /\ first_reserved_tag(generated) = {}
      BY <1>2, Accepted
    <2>2. /\ PolicyType(p) /\ p.exclude = advanced.exclude /\ p.strip_emoji = advanced.strip_emoji
          /\ p.max_tag_length = Default(advanced.max_tag_length, 32)
      BY <2>1, PolicyFacts
    <2>3. sources \in SourceLists /\ available \in [Provider -> Replies \cup {Nil}] /\ template \in Templates
      BY DEF NodesInv
    <2>4. /\ IsList(list) /\ IsList(sources)
          /\ \A s \in Entries(list) : SourceType(s) /\ (~Remote(s) => manual(s.uri, p) # Nil)
          /\ \A s \in Entries(sources) : ~Remote(s) => s \in Entries(list)
          /\ \A s \in Entries(sources) : Remote(s) => \E t \in Entries(list) : Remote(t) /\ t.id = s.id
      BY <2>1, <2>3, ParsedSources
    <2>5. /\ IsList(nodes) /\ Unambiguous(nodes)
          /\ \A node \in Entries(nodes) : NodeFrom(node, p)
          /\ \A s \in Entries(list) : ~Remote(s) =>
                \E node \in Entries(nodes) : ~node.remote /\ node.tag = parse_uri(s.uri).tag
          /\ \A s \in Entries(list) : Remote(s) /\ available[s.id] # Nil =>
                \E node \in Entries(nodes), o \in Entries(parse_subscription(available[s.id])) :
                   node.remote /\ node.outbound = o
      BY <2>1, <2>2, <2>3, <2>4, AssembledFacts
    <2>6. generated.nodes = nodes
      BY <2>1
    <2>7. \A x : x \in Entries(nodes) <=> \E i \in DOMAIN nodes : x = nodes[i]
      BY DEF Entries
    <2>8. \A x : x \in Entries(sources) <=> \E i \in DOMAIN sources : x = sources[i]
      BY DEF Entries
    <2>9. ASSUME NEW i \in DOMAIN nodes PROVE NodeFrom(nodes[i], p)
      BY <2>5, <2>7
    <2>10. GroupsFilled
      <3> DEFINE out == generated.outbounds
                 tags == {nodes[j].tag : j \in DOMAIN nodes}
      <3> SUFFICES ASSUME NEW i \in DOMAIN template.outbounds, Fillable(template.outbounds[i])
                   PROVE  /\ out[i].members # <<>>
                          /\ Entries(out[i].members) \subseteq {Direct} \cup tags
                          /\ template.outbounds[i].tag \in AllNodes => tags \cap unreferenced_node_tags(generated) = {}
        BY <2>6 DEF GroupsFilled
      <3> DEFINE g == template.outbounds[i]
      <3>1. DOMAIN out = DOMAIN template.outbounds /\ out[i] = [g EXCEPT !.members = Members(g, nodes)]
        BY <2>1
      <3>2. DOMAIN g = {"tag", "kind", "members"}
        BY <2>3, NodesAssumption
      <3>3. out[i].members = Members(g, nodes) /\ out[i].kind = g.kind
        BY <3>1, <3>2
      <3>4. IsGroup(out[i])
        BY <3>3 DEF Fillable, IsGroup
      <3> DEFINE members == Members(g, nodes)
      <3>5. /\ members # <<>>
            /\ Entries(members) \subseteq {Direct} \cup tags
            /\ g.tag \in AllNodes => \A node \in Entries(nodes) : node.tag \in Entries(members)
        BY <2>5, MembersFacts
      <3> DEFINE taken == UNION {Entries(h.members) : h \in {o \in Entries(out) : IsGroup(o)}}
                 named == {[tag |-> o.tag, kind |-> o.kind] : o \in Entries(out)}
                          \cup {[tag |-> node.tag, kind |-> node.outbound.kind] : node \in Entries(nodes)}
                 proxies == {o.tag : o \in {o \in named : o.kind \notin Unproxied}}
      <3>6. unreferenced_node_tags(generated) \cap taken = {}
        <4>1. unreferenced_node_tags(generated) = proxies \ taken
          BY <2>6 DEF unreferenced_node_tags
        <4> HIDE DEF taken, proxies
        <4> QED BY <4>1
      <3>7. Entries(out[i].members) \subseteq taken
        <4>1. out[i] \in Entries(out)
          BY <3>1 DEF Entries
        <4> HIDE DEF out
        <4> QED BY <3>4, <4>1
      <3> HIDE DEF members, taken, out
      <3>8. ASSUME g.tag \in AllNodes PROVE tags \cap unreferenced_node_tags(generated) = {}
        <4>1. \A j \in DOMAIN nodes : nodes[j].tag \in Entries(members)
          BY <2>7, <3>5, <3>8
        <4>2. members = out[i].members
          BY <3>3 DEF members
        <4>3. tags \subseteq taken
          BY <3>7, <4>1, <4>2
        <4> HIDE DEF tags
        <4> QED BY <3>6, <4>3
      <3> QED BY <3>3, <3>5, <3>8 DEF members
    <2>11. ExcludedNeverOffered
      <3>1. ASSUME NEW i \in DOMAIN nodes, nodes[i].remote
            PROVE  ~Finds(advanced.exclude, nodes[i].outbound.tag)
        <4>1. \E o : FromProvider(nodes[i], o, p)
          BY <2>9, <3>1 DEF NodeFrom
        <4> QED BY <2>2, <4>1 DEF FromProvider
      <3>2. ASSUME NEW k \in DOMAIN sources, ~Remote(sources[k])
            PROVE  \E i \in DOMAIN nodes : ~nodes[i].remote /\ nodes[i].tag = parse_uri(sources[k].uri).tag
        <4>1. sources[k] \in Entries(list)
          BY <2>4, <2>8, <3>2
        <4>2. PICK node \in Entries(nodes) : ~node.remote /\ node.tag = parse_uri(sources[k].uri).tag
          BY <2>5, <3>2, <4>1
        <4> QED BY <2>7, <4>2
      <3> QED BY <2>6, <3>1, <3>2 DEF ExcludedNeverOffered
    <2>12. TagsUnambiguous
      <3>1. {nodes[i].tag : i \in DOMAIN nodes} \cap ReservedTags = {}
        BY <2>1 DEF first_reserved_tag
      <3>2. \A i, j \in DOMAIN nodes : nodes[i].tag = nodes[j].tag => i = j
        BY <2>5 DEF Unambiguous
      <3> QED BY <2>1, <3>1, <3>2 DEF TagsUnambiguous
    <2>13. OthersContribute
      <3>1. ASSUME NEW k \in DOMAIN sources, Remote(sources[k]), available[sources[k].id] # Nil
            PROVE  \E i \in DOMAIN nodes, e \in Entries(parse_subscription(available[sources[k].id])) :
                      nodes[i].remote /\ nodes[i].outbound = e
        <4>1. PICK t \in Entries(list) : Remote(t) /\ t.id = sources[k].id
          BY <2>4, <2>8, <3>1
        <4>2. PICK node \in Entries(nodes), o \in Entries(parse_subscription(available[t.id])) :
                 node.remote /\ node.outbound = o
          BY <2>5, <3>1, <4>1
        <4> QED BY <2>7, <4>1, <4>2
      <3> QED BY <2>6, <3>1 DEF OthersContribute
    <2>14. ProviderTagsClean
      <3>1. ASSUME NEW i \in DOMAIN nodes, nodes[i].remote PROVE CleanTag(nodes[i].tag, p)
        <4>1. \E o : FromProvider(nodes[i], o, p)
          BY <2>9, <3>1 DEF NodeFrom
        <4> QED BY <4>1 DEF FromProvider
      <3> QED BY <2>2, <2>6, <3>1 DEF ProviderTagsClean, CleanTag
    <2>15. NeverDowngraded
      <3>1. ASSUME NEW i \in DOMAIN nodes, "line" \in DOMAIN nodes[i].outbound
            PROVE  Honest(nodes[i].outbound, nodes[i].outbound.line)
        <4>1. Origin(nodes[i].outbound)
          BY <2>9 DEF NodeFrom, FromProvider
        <4> QED BY <3>1, <4>1, HonestOrigin
      <3> QED BY <2>6, <3>1 DEF NeverDowngraded, Honest
    <2> QED BY <2>10, <2>11, <2>12, <2>13, <2>14, <2>15 DEF PoolIsSound
  <1> QED BY <1>1, <1>2

LEMMA NodesStarts ==
    ASSUME NEW t \in Templates, NEW s \in SourceLists, NEW f \in AdvancedFiles, NodesStart(t, s, f)
    PROVE  NodesInv
  BY DEF NodesStart, NodesInv

LEMMA NodesSteps == NodesInv /\ [NodesNext]_<<nodevars, changes>> => NodesInv'
  <1> SUFFICES ASSUME NodesInv, [NodesNext]_<<nodevars, changes>> PROVE NodesInv'
    OBVIOUS
  <1>1. CASE EditNodes
    BY <1>1 DEF EditNodes, NodesInv
  <1>2. CASE Respond
    <2>1. PICK id \in Provider, reply \in Replies : available' = [available EXCEPT ![id] = reply]
      BY <1>2 DEF Respond
    <2>2. available' \in [Provider -> Replies \cup {Nil}]
      BY <2>1 DEF NodesInv
    <2> QED BY <1>2, <2>2 DEF Respond, NodesInv
  <1>3. CASE Generate
    <2>1. /\ template' = template /\ sources' = sources /\ advanced' = advanced /\ available' = available
          /\ generated' = Candidate_config
      BY <1>3 DEF Generate
    <2>2. Candidate_config' = Candidate_config
      BY <2>1 DEF Candidate_config
    <2> QED BY <2>1, <2>2 DEF NodesInv
  <1>4. CASE UNCHANGED <<nodevars, changes>>
    <2>1. /\ template' = template /\ sources' = sources /\ advanced' = advanced /\ available' = available
          /\ generated' = generated
      BY <1>4 DEF nodevars
    <2>2. Candidate_config' = Candidate_config
      BY <2>1 DEF Candidate_config
    <2> QED BY <2>1, <2>2 DEF NodesInv
  <1> QED BY <1>1, <1>2, <1>3, <1>4 DEF NodesNext

\* From node sources to the configuration, for any template, sources, answers and rules:
\* the groups of an accepted configuration are filled with nodes that exist; what a
\* provider's own tag excludes is not among them and what the user wrote is; a tag names
\* one node and none of Flux's inbounds, which are the only ones; a missing answer takes nothing
\* from the others; a provider's tag is clean and never empty; the transport of a URI is kept, and
\* its TLS where the protocol has no other mode, vless says tls or reality or vmess says tls.
THEOREM PoolsAreSound == NodesSpec => []PoolIsSound
  <1>1. ASSUME changes = 0, \E t \in Templates, s \in SourceLists, f \in AdvancedFiles : NodesStart(t, s, f)
        PROVE  NodesInv
    BY <1>1, NodesStarts
  <1> QED BY <1>1, NodesSteps, PoolSound, PTL DEF NodesSpec
=============================================================================
