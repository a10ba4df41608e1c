------------------------ MODULE ToolWorkflow_proofs ------------------------
(***************************************************************************)
(* Proofs about ToolWorkflow: the registry under it, the catalog beside it *)
(* and the runs that call tools, for any plugins, requests and runners.    *)
(*                                                                         *)
(* The order of priority comes first.  Sorted picks the plugin before      *)
(* which n others come; in a finite set a strict total order gives every   *)
(* place one such number (BeforeCount, PlaceOrders), so the list is the    *)
(* only one in that order (OrderIsUnique), and filtering the sorted list   *)
(* is sorting what is left (FilteredLists).  Hence catalog and registry    *)
(* list the same plugins in the same order wherever they list the same     *)
(* set.  Sorted and Those are recursive functions: that they obey their    *)
(* equations, and what these equations come to, is proved with the least   *)
(* counterexample (LeastNatural).                                          *)
(*                                                                         *)
(* RegistryInv says which plugins run while the application comes up and   *)
(* goes down, by the hooks still to call: LifecycleIsPaired only speaks of *)
(* the application at rest.  RunInv says how a run stands by the results   *)
(* of its steps, and that a call still under way fits what was checked.    *)
(***************************************************************************)
EXTENDS ToolWorkflow, FiniteSetTheorems, WellFoundedInduction, TLAPS

-----------------------------------------------------------------------------
(* Induction over the natural numbers: a set of them has a least member.   *)
LEMMA LeastNatural ==
  ASSUME NEW S, S \subseteq Nat, S # {}
  PROVE  \E n \in S : \A k \in S : n <= k
<1>1. PICK n \in S : \A k \in S : <<k, n>> \notin OpToRel(<, Nat)
  BY WFMin, NatLessThanWellFounded
<1>2. \A k \in S : ~(k < n)
  BY <1>1 DEF OpToRel
<1> QED
  BY <1>2

-----------------------------------------------------------------------------
(* The order of priority: places of plugins, the first one first.          *)
Places(registered, S) ==
  /\ S \subseteq Nat /\ IsFiniteSet(S)
  /\ \A at \in S : registered[at].priority \in Int

Before(registered, S, at) == {k \in S : ByPriority(registered, k, at)}

LEMMA PriorityIsTotal ==
  ASSUME NEW registered, NEW S, Places(registered, S)
  PROVE  /\ \A a \in S : ~ByPriority(registered, a, a)
         /\ \A a, b \in S : a # b => ByPriority(registered, a, b) \/ ByPriority(registered, b, a)
         /\ \A a, b, c \in S : ByPriority(registered, a, b) /\ ByPriority(registered, b, c)
                                 => ByPriority(registered, a, c)
<1>1. \A a \in S : a \in Nat /\ registered[a].priority \in Int
  BY DEF Places
<1> QED
  BY <1>1 DEF ByPriority

(* How many plugins come before one of them tells its place.               *)
LEMMA BeforeCount ==
  ASSUME NEW registered, NEW S, Places(registered, S), NEW a \in S
  PROVE  /\ IsFiniteSet(Before(registered, S, a))
         /\ Cardinality(Before(registered, S, a)) \in 0 .. Cardinality(S) - 1
         /\ \A b \in S : ByPriority(registered, a, b) =>
              Cardinality(Before(registered, S, a)) < Cardinality(Before(registered, S, b))
<1> DEFINE B(at) == Before(registered, S, at)
<1>0. IsFiniteSet(S) /\ Cardinality(S) \in Nat
  BY FS_CardinalityType DEF Places
<1>1. \A at \in S : B(at) \in SUBSET S /\ at \notin B(at)
  BY PriorityIsTotal DEF Before
<1>2. \A at \in S : IsFiniteSet(B(at))
  BY <1>0, <1>1, FS_Subset
<1>3. \A at \in S : Cardinality(B(at)) \in Nat
  BY <1>2, FS_CardinalityType
<1>4. Cardinality(B(a)) <= Cardinality(S) - 1
  <2>1. B(a) \in SUBSET (S \ {a})
    BY <1>1
  <2>2. IsFiniteSet(S \ {a}) /\ Cardinality(S \ {a}) = Cardinality(S) - 1
    BY <1>0, FS_RemoveElement
  <2> HIDE DEF B
  <2> QED
    BY <2>1, <2>2, FS_Subset
<1>5. ASSUME NEW b \in S, ByPriority(registered, a, b)
      PROVE  Cardinality(B(a)) < Cardinality(B(b))
  <2>1. B(a) \cup {a} \in SUBSET B(b)
    BY <1>5, PriorityIsTotal DEF Before
  <2>2. IsFiniteSet(B(a)) /\ IsFiniteSet(B(b)) /\ a \notin B(a)
    BY <1>1, <1>2
  <2> HIDE DEF B
  <2>3. Cardinality(B(a) \cup {a}) = Cardinality(B(a)) + 1
    BY <2>2, FS_AddElement
  <2>4. Cardinality(B(a) \cup {a}) <= Cardinality(B(b))
    BY <2>1, <2>2, FS_Subset
  <2> QED
    BY <1>3, <2>3, <2>4
<1> HIDE DEF B
<1>6. Cardinality(B(a)) \in 0 .. Cardinality(S) - 1
  BY <1>0, <1>3, <1>4
<1> QED
  BY <1>2, <1>5, <1>6 DEF B

(* The place that comes i-th.                                              *)
Place(registered, S) ==
  [i \in 1 .. Cardinality(S) |->
     CHOOSE at \in S : Cardinality(Before(registered, S, at)) = i - 1]

(* The places of S in the order of priority.                               *)
PlacedInOrder(registered, S, n, place) ==
  /\ n \in Nat /\ place \in [1 .. n -> S]
  /\ \A at \in S : \E i \in 1 .. n : place[i] = at
  /\ \A i, k \in 1 .. n : i < k => ByPriority(registered, place[i], place[k])

LEMMA PlaceOrders ==
  ASSUME NEW registered, NEW S, Places(registered, S)
  PROVE  PlacedInOrder(registered, S, Cardinality(S), Place(registered, S))
<1> DEFINE n == Cardinality(S)
           rank == [at \in S |-> Cardinality(Before(registered, S, at)) + 1]
           place == Place(registered, S)
<1>1. IsFiniteSet(S) /\ n \in Nat
  BY FS_CardinalityType DEF Places
<1>2. \A at \in S : rank[at] \in 1 .. n
  BY <1>1, BeforeCount
<1>3. \A a, b \in S : ByPriority(registered, a, b) => rank[a] < rank[b]
  <2>1. \A a \in S : Cardinality(Before(registered, S, a)) \in Nat
    BY <1>1, BeforeCount
  <2> QED
    BY <2>1, BeforeCount
<1>4. \A a, b \in S : rank[a] = rank[b] => a = b
  <2>1. \A a \in S : rank[a] \in Nat
    BY <1>1, <1>2
  <2> HIDE DEF rank
  <2> QED
    BY <1>3, <2>1, PriorityIsTotal
<1>5. rank \in Injection(S, 1 .. n)
  BY <1>2, <1>4 DEF Injection, IsInjective
<1>6. rank \in Surjection(S, 1 .. n)
  <2>1. IsFiniteSet(1 .. n) /\ Cardinality(1 .. n) = n
    BY <1>1, FS_Interval
  <2> HIDE DEF rank
  <2>2. Cardinality(S) = Cardinality(1 .. n)
    BY <2>1
  <2> QED
    BY <1>5, <2>1, <2>2, FS_Injection
<1>7. \A i \in 1 .. n : \E at \in S : rank[at] = i
  BY <1>6 DEF Surjection
<1>8. \A i \in 1 .. n : place[i] \in S /\ rank[place[i]] = i
  <2> SUFFICES ASSUME NEW i \in 1 .. n
               PROVE  place[i] \in S /\ rank[place[i]] = i
    OBVIOUS
  <2>1. PICK at \in S : rank[at] = i
    BY <1>7
  <2>2. Cardinality(Before(registered, S, at)) = i - 1
    BY <1>1, <2>1, BeforeCount
  <2>3. place[i] = CHOOSE b \in S : Cardinality(Before(registered, S, b)) = i - 1
    BY DEF Place
  <2>4. place[i] \in S /\ Cardinality(Before(registered, S, place[i])) = i - 1
    BY <2>2, <2>3
  <2> QED
    BY <2>4
<1>9. place \in [1 .. n -> S]
  BY <1>8 DEF Place
<1> HIDE DEF place, rank
<1>10. \A at \in S : \E i \in 1 .. n : place[i] = at
  BY <1>2, <1>4, <1>8
<1>11. \A i, k \in 1 .. n : i < k => ByPriority(registered, place[i], place[k])
  <2> SUFFICES ASSUME NEW i \in 1 .. n, NEW k \in 1 .. n, i < k
               PROVE  ByPriority(registered, place[i], place[k])
    OBVIOUS
  <2>1. place[i] \in S /\ place[k] \in S /\ rank[place[i]] = i /\ rank[place[k]] = k
    BY <1>8
  <2>2. place[i] # place[k]
    BY <2>1
  <2>3. ~ByPriority(registered, place[k], place[i])
    BY <1>3, <2>1
  <2> QED
    BY <2>1, <2>2, <2>3, PriorityIsTotal
<1> QED
  BY <1>1, <1>9, <1>10, <1>11 DEF PlacedInOrder, place

(* There is but one such order.                                            *)
LEMMA OrderIsUnique ==
  ASSUME NEW registered, NEW S, Places(registered, S),
         NEW n, NEW place, PlacedInOrder(registered, S, n, place)
  PROVE  n = Cardinality(S) /\ place = Place(registered, S)
<1>1. /\ n \in Nat /\ place \in [1 .. n -> S]
      /\ \A at \in S : \E i \in 1 .. n : place[i] = at
      /\ \A i, k \in 1 .. n : i < k => ByPriority(registered, place[i], place[k])
  BY DEF PlacedInOrder
<1>2. \A i, k \in 1 .. n : ByPriority(registered, place[i], place[k]) <=> i < k
  <2> SUFFICES ASSUME NEW i \in 1 .. n, NEW k \in 1 .. n,
                      ByPriority(registered, place[i], place[k]), ~(i < k)
               PROVE  FALSE
    BY <1>1
  <2>1. k < i \/ k = i
    OBVIOUS
  <2>2. CASE k < i
    BY <1>1, <2>2, PriorityIsTotal
  <2>3. CASE k = i
    BY <1>1, <2>3, PriorityIsTotal
  <2> QED
    BY <2>1, <2>2, <2>3
<1>3. \A i, k \in 1 .. n : place[i] = place[k] => i = k
  <2> SUFFICES ASSUME NEW i \in 1 .. n, NEW k \in 1 .. n, place[i] = place[k], i # k
               PROVE  FALSE
    OBVIOUS
  <2>1. i < k \/ k < i
    OBVIOUS
  <2> QED
    BY <1>1, <2>1, PriorityIsTotal
<1>4. n = Cardinality(S)
  <2>1. place \in Bijection(1 .. n, S)
    BY <1>1, <1>3 DEF Bijection, Injection, Surjection, IsInjective
  <2>2. ExistsBijection(1 .. n, S)
    BY <2>1 DEF ExistsBijection
  <2> QED
    BY <1>1, <2>2, FS_CountingElements
<1>5. ASSUME NEW i \in 1 .. n
      PROVE  Cardinality(Before(registered, S, place[i])) = i - 1
  <2> DEFINE f == [k \in 1 .. i - 1 |-> place[k]]
             B == Before(registered, S, place[i])
  <2>1. \A k \in 1 .. n : place[k] \in B <=> k < i
    BY <1>1, <1>2 DEF Before
  <2>2. \A k \in 1 .. i - 1 : f[k] \in B /\ f[k] = place[k] /\ k \in 1 .. n
    BY <1>1, <2>1
  <2>3. \A at \in B : \E k \in 1 .. i - 1 : f[k] = at
    <3> SUFFICES ASSUME NEW at \in B
                 PROVE  \E k \in 1 .. i - 1 : f[k] = at
      OBVIOUS
    <3>1. PICK k \in 1 .. n : place[k] = at
      BY <1>1 DEF Before
    <3>2. k \in 1 .. i - 1
      BY <2>1, <3>1
    <3> QED
      BY <3>1, <3>2
  <2>4. f \in [1 .. i - 1 -> B]
    BY <2>2
  <2> HIDE DEF f, B
  <2>5. \A j, k \in 1 .. i - 1 : f[j] = f[k] => j = k
    BY <1>3, <2>2
  <2>6. f \in Bijection(1 .. i - 1, B)
    BY <2>3, <2>4, <2>5 DEF Bijection, Injection, Surjection, IsInjective
  <2>7. ExistsBijection(1 .. i - 1, B) /\ i - 1 \in Nat
    BY <2>6 DEF ExistsBijection
  <2> QED
    BY <2>7, FS_CountingElements DEF B
<1>6. ASSUME NEW i \in 1 .. n
      PROVE  place[i] = Place(registered, S)[i]
  <2> DEFINE p == Place(registered, S)[i]
  <2>1. p = CHOOSE at \in S : Cardinality(Before(registered, S, at)) = i - 1
    BY <1>4 DEF Place
  <2>2. p \in S /\ Cardinality(Before(registered, S, p)) = i - 1
    BY <1>1, <1>5, <2>1
  <2> HIDE DEF p
  <2>3. PICK k \in 1 .. n : place[k] = p
    BY <1>1, <2>2
  <2>4. k - 1 = i - 1
    BY <1>5, <2>2, <2>3
  <2>5. k = i
    BY <2>4
  <2> QED
    BY <2>3, <2>5 DEF p
<1>7. place = Place(registered, S)
  BY <1>1, <1>4, <1>6 DEF Place
<1> QED
  BY <1>4, <1>7

-----------------------------------------------------------------------------
(* Sorted is the sequence that its recursion builds.                       *)
LEMMA SortedEquation ==
  ASSUME NEW registered, NEW S, Cardinality(S) \in Nat
  PROVE  \E sorted :
           /\ sorted[0] = <<>>
           /\ \A n \in 1 .. Cardinality(S) :
                sorted[n] = Append(sorted[n - 1], registered[Place(registered, S)[n]])
           /\ Sorted(registered, S) = sorted[Cardinality(S)]
<1> DEFINE N == Cardinality(S)
           Item(n) == registered[CHOOSE at \in S : Cardinality({k \in S : ByPriority(registered, k, at)}) = n - 1]
           Step(h, n) == IF n = 0 THEN <<>> ELSE Append(h[n - 1], Item(n))
           Defines(h, m) == h = [n \in 0 .. m |-> Step(h, n)]
           Bad == {m \in 0 .. N : ~\E h : Defines(h, m)}
<1>1. Bad = {}
  <2> SUFFICES ASSUME Bad # {} PROVE FALSE
    OBVIOUS
  <2>1. PICK m \in Bad : \A k \in Bad : m <= k
    <3>1. Bad \subseteq Nat
      OBVIOUS
    <3> HIDE DEF Bad
    <3> QED
      BY <3>1, LeastNatural
  <2> HIDE DEF Item
  <2>2. m # 0
    <3>1. Defines([n \in 0 .. 0 |-> <<>>], 0)
      OBVIOUS
    <3> QED
      BY <3>1
  <2>3. m - 1 \in 0 .. N /\ m - 1 \notin Bad
    <3>1. m \in 0 .. N
      OBVIOUS
    <3> HIDE DEF Bad
    <3> QED
      BY <2>1, <2>2, <3>1
  <2>4. PICK h : Defines(h, m - 1)
    BY <2>3
  <2> DEFINE g == [n \in 0 .. m |-> IF n = m THEN Step(h, m) ELSE h[n]]
  <2>5. Defines(g, m)
    <3>1. \A n \in 0 .. m : g[n] = Step(g, n)
      <4> SUFFICES ASSUME NEW n \in 0 .. m
                   PROVE  g[n] = Step(g, n)
        OBVIOUS
      <4>1. CASE n = m
        <5>1. g[m - 1] = h[m - 1]
          BY <2>2, <4>1
        <5> QED
          BY <4>1, <5>1
      <4>2. CASE n # m
        <5>1. n \in 0 .. m - 1 /\ g[n] = h[n] /\ (n # 0 => n - 1 \in 0 .. m /\ n - 1 # m)
          BY <4>2
        <5>2. n # 0 => g[n - 1] = h[n - 1]
          BY <5>1
        <5>3. h[n] = Step(h, n)
          BY <2>4, <5>1
        <5> QED
          BY <5>1, <5>2, <5>3
      <4> QED
        BY <4>1, <4>2
    <3> QED
      BY <3>1
  <2> QED
    BY <2>1, <2>5
<1>2. \E h : Defines(h, N)
  <2>1. N \in 0 .. N
    OBVIOUS
  <2>2. N \notin Bad
    <3> HIDE DEF Bad
    <3> QED
      BY <1>1
  <2> HIDE DEF Defines
  <2> QED
    BY <2>1, <2>2
<1> DEFINE f == CHOOSE h : Defines(h, N)
<1>3. Defines(f, N)
  <2> HIDE DEF Step
  <2> QED
    BY <1>2
<1>4. Sorted(registered, S) = f[N]
  BY DEF Sorted
<1>5. \A n \in 1 .. N : Item(n) = registered[Place(registered, S)[n]]
  BY DEF Place, Before
<1> HIDE DEF f, Item
<1>6. f[0] = <<>> /\ \A n \in 1 .. N : f[n] = Append(f[n - 1], Item(n))
  BY <1>3
<1> QED
  BY <1>4, <1>5, <1>6

(* The plugins of S in the order of priority.                              *)
LEMMA SortedIs ==
  ASSUME NEW P, NEW registered \in Seq(P), NEW S, S \subseteq DOMAIN registered,
         Places(registered, S)
  PROVE  /\ Sorted(registered, S) \in Seq(P)
         /\ Len(Sorted(registered, S)) = Cardinality(S)
         /\ \A i \in 1 .. Cardinality(S) :
              /\ Place(registered, S)[i] \in S
              /\ Sorted(registered, S)[i] = registered[Place(registered, S)[i]]
<1> DEFINE N == Cardinality(S)
           place == Place(registered, S)
<1>1. N \in Nat /\ \A i \in 1 .. N : place[i] \in S /\ registered[place[i]] \in P
  <2>1. N \in Nat
    BY FS_CardinalityType DEF Places
  <2>2. \A i \in 1 .. N : place[i] \in S
    BY PlaceOrders DEF PlacedInOrder
  <2> HIDE DEF place
  <2> QED
    BY <2>1, <2>2
<1>2. PICK sorted :
        /\ sorted[0] = <<>>
        /\ \A n \in 1 .. N : sorted[n] = Append(sorted[n - 1], registered[place[n]])
        /\ Sorted(registered, S) = sorted[N]
  BY <1>1, SortedEquation
<1> HIDE DEF place
<1> DEFINE OK(n) == /\ sorted[n] \in Seq(P) /\ Len(sorted[n]) = n
                    /\ \A i \in 1 .. n : sorted[n][i] = registered[place[i]]
           Bad == {n \in 0 .. N : ~OK(n)}
<1>3. Bad = {}
  <2> SUFFICES ASSUME Bad # {} PROVE FALSE
    OBVIOUS
  <2>1. PICK n \in Bad : \A k \in Bad : n <= k
    <3>1. Bad \subseteq Nat
      OBVIOUS
    <3> HIDE DEF Bad
    <3> QED
      BY <3>1, LeastNatural
  <2>2. n # 0
    <3>1. OK(0)
      BY <1>2
    <3> QED
      BY <3>1
  <2>3. n \in 1 .. N /\ OK(n - 1)
    <3> HIDE DEF OK
    <3>1. n \in 1 .. N /\ n - 1 \in 0 .. N
      BY <1>1, <2>2
    <3>2. n - 1 \notin Bad
      <4> HIDE DEF Bad
      <4> QED
        BY <2>1, <3>1
    <3> QED
      BY <3>1, <3>2
  <2>4. sorted[n] = Append(sorted[n - 1], registered[place[n]]) /\ registered[place[n]] \in P
    BY <1>1, <1>2, <2>3
  <2>5. OK(n)
    BY <2>3, <2>4
  <2> QED
    BY <2>5
<1>4. OK(N)
  BY <1>1, <1>3
<1> QED
  BY <1>1, <1>2, <1>4 DEF place

-----------------------------------------------------------------------------
(* Those is the sequence that its recursion builds.                        *)
LEMMA ThoseEquation ==
  ASSUME NEW plugins, NEW places, Len(plugins) \in Nat
  PROVE  \E kept :
           /\ kept[0] = <<>>
           /\ \A n \in 1 .. Len(plugins) :
                kept[n] = IF n \in places THEN Append(kept[n - 1], plugins[n]) ELSE kept[n - 1]
           /\ Those(plugins, places) = kept[Len(plugins)]
<1> DEFINE N == Len(plugins)
           Step(h, n) == IF n = 0 THEN <<>>
                         ELSE IF n \in places THEN Append(h[n - 1], plugins[n]) ELSE h[n - 1]
           Defines(h, m) == h = [n \in 0 .. m |-> Step(h, n)]
           Bad == {m \in 0 .. N : ~\E h : Defines(h, m)}
<1>1. Bad = {}
  <2> SUFFICES ASSUME Bad # {} PROVE FALSE
    OBVIOUS
  <2>1. PICK m \in Bad : \A k \in Bad : m <= k
    <3>1. Bad \subseteq Nat
      OBVIOUS
    <3> HIDE DEF Bad
    <3> QED
      BY <3>1, LeastNatural
  <2>2. m # 0
    <3>1. Defines([n \in 0 .. 0 |-> <<>>], 0)
      OBVIOUS
    <3> QED
      BY <3>1
  <2>3. m - 1 \in 0 .. N /\ m - 1 \notin Bad
    <3>1. m \in 0 .. N
      OBVIOUS
    <3> HIDE DEF Bad
    <3> QED
      BY <2>1, <2>2, <3>1
  <2>4. PICK h : Defines(h, m - 1)
    BY <2>3
  <2> DEFINE g == [n \in 0 .. m |-> IF n = m THEN Step(h, m) ELSE h[n]]
  <2>5. Defines(g, m)
    <3>1. \A n \in 0 .. m : g[n] = Step(g, n)
      <4> SUFFICES ASSUME NEW n \in 0 .. m
                   PROVE  g[n] = Step(g, n)
        OBVIOUS
      <4>1. CASE n = m
        <5>1. g[m - 1] = h[m - 1]
          BY <2>2, <4>1
        <5> QED
          BY <4>1, <5>1
      <4>2. CASE n # m
        <5>1. n \in 0 .. m - 1 /\ g[n] = h[n] /\ (n # 0 => n - 1 \in 0 .. m /\ n - 1 # m)
          BY <4>2
        <5>2. n # 0 => g[n - 1] = h[n - 1]
          BY <5>1
        <5>3. h[n] = Step(h, n)
          BY <2>4, <5>1
        <5> QED
          BY <5>1, <5>2, <5>3
      <4> QED
        BY <4>1, <4>2
    <3> QED
      BY <3>1
  <2> QED
    BY <2>1, <2>5
<1>2. \E h : Defines(h, N)
  <2>1. N \in 0 .. N
    OBVIOUS
  <2>2. N \notin Bad
    <3> HIDE DEF Bad
    <3> QED
      BY <1>1
  <2> HIDE DEF Defines
  <2> QED
    BY <2>1, <2>2
<1> DEFINE f == CHOOSE h : Defines(h, N)
<1>3. Defines(f, N)
  <2> HIDE DEF Step
  <2> QED
    BY <1>2
<1>4. Those(plugins, places) = f[N]
  BY DEF Those
<1> HIDE DEF f
<1>5. /\ f[0] = <<>>
      /\ \A n \in 1 .. N :
           f[n] = IF n \in places THEN Append(f[n - 1], plugins[n]) ELSE f[n - 1]
  <2>1. \A n \in 0 .. N : f[n] = Step(f, n)
    <3> HIDE DEF Step
    <3> QED
      BY <1>3
  <2>2. 0 \in 0 .. N /\ \A n \in 1 .. N : n \in 0 .. N /\ n # 0
    OBVIOUS
  <2> QED
    BY <2>1, <2>2
<1> QED
  BY <1>4, <1>5

(* at tells where each plugin of kept stands among the first n: at the     *)
(* places, from left to right.                                             *)
Keeps(plugins, places, n, kept, at) ==
  /\ kept \in Seq({plugins[k] : k \in 1 .. n})
  /\ at \in [1 .. Len(kept) -> 1 .. n]
  /\ \A i \in 1 .. Len(kept) : at[i] \in places /\ kept[i] = plugins[at[i]]
  /\ \A i, k \in 1 .. Len(kept) : i < k => at[i] < at[k]
  /\ \A k \in 1 .. n : k \in places => \E i \in 1 .. Len(kept) : at[i] = k

LEMMA KeepsNext ==
  ASSUME NEW plugins, NEW places, NEW n \in Nat \ {0},
         NEW kept, NEW at, Keeps(plugins, places, n - 1, kept, at)
  PROVE  \E to : Keeps(plugins, places, n,
                       IF n \in places THEN Append(kept, plugins[n]) ELSE kept, to)
<1> DEFINE old == {plugins[k] : k \in 1 .. n - 1}
           all == {plugins[k] : k \in 1 .. n}
<1>1. /\ kept \in Seq(old) /\ Len(kept) \in Nat
      /\ at \in [1 .. Len(kept) -> 1 .. n - 1]
      /\ \A i \in 1 .. Len(kept) : at[i] \in places /\ kept[i] = plugins[at[i]]
      /\ \A i, k \in 1 .. Len(kept) : i < k => at[i] < at[k]
      /\ \A k \in 1 .. n - 1 : k \in places => \E i \in 1 .. Len(kept) : at[i] = k
  BY DEF Keeps
<1>2. \A x \in old : x \in all
  OBVIOUS
<1>3. plugins[n] \in all
  OBVIOUS
<1> HIDE DEF old
<1>4. kept \in Seq(all)
  <2> HIDE DEF all
  <2> QED
    BY <1>1, <1>2
<1>5. CASE n \notin places
  <2>1. \A i \in 1 .. Len(kept) : at[i] \in 1 .. n
    BY <1>1
  <2>2. at \in [1 .. Len(kept) -> 1 .. n]
    BY <1>1, <2>1
  <2>3. \A k \in 1 .. n : k \in places => k \in 1 .. n - 1
    BY <1>5
  <2>4. Keeps(plugins, places, n, kept, at)
    BY <1>1, <1>4, <2>2, <2>3 DEF Keeps
  <2> QED
    BY <1>5, <2>4
<1>6. CASE n \in places
  <2> DEFINE m == Len(kept) + 1
             new == Append(kept, plugins[n])
             to == [i \in 1 .. m |-> IF i = m THEN n ELSE at[i]]
  <2>1. /\ new \in Seq(all) /\ Len(new) = m /\ new[m] = plugins[n]
        /\ \A i \in 1 .. Len(kept) : new[i] = kept[i]
    <3> HIDE DEF all
    <3> QED
      BY <1>3, <1>4
  <2>2. /\ \A i \in 1 .. m : to[i] \in 1 .. n /\ to[i] \in places
        /\ \A i \in 1 .. Len(kept) : to[i] = at[i]
        /\ to[m] = n
        /\ to \in [1 .. m -> 1 .. n]
    BY <1>1, <1>6
  <2> HIDE DEF new, to
  <2>3. \A i \in 1 .. m : new[i] = plugins[to[i]]
    BY <1>1, <2>1, <2>2
  <2>4. \A i, k \in 1 .. m : i < k => to[i] < to[k]
    <3> SUFFICES ASSUME NEW i \in 1 .. m, NEW k \in 1 .. m, i < k
                 PROVE  to[i] < to[k]
      OBVIOUS
    <3>1. i \in 1 .. Len(kept) /\ to[i] = at[i] /\ at[i] \in 1 .. n - 1
      BY <1>1, <2>2
    <3>2. CASE k = m
      BY <2>2, <3>1, <3>2
    <3>3. CASE k # m
      <4>1. k \in 1 .. Len(kept)
        BY <1>1, <3>3
      <4>2. to[k] = at[k]
        BY <2>2, <4>1
      <4> QED
        BY <1>1, <3>1, <4>1, <4>2
    <3> QED
      BY <3>2, <3>3
  <2>5. \A k \in 1 .. n : k \in places => \E i \in 1 .. m : to[i] = k
    <3> SUFFICES ASSUME NEW k \in 1 .. n, k \in places
                 PROVE  \E i \in 1 .. m : to[i] = k
      OBVIOUS
    <3>1. CASE k = n
      BY <1>1, <2>2, <3>1
    <3>2. CASE k # n
      <4>1. PICK i \in 1 .. Len(kept) : at[i] = k
        BY <1>1, <3>2
      <4> QED
        BY <1>1, <2>2, <4>1
    <3> QED
      BY <3>1, <3>2
  <2>6. Keeps(plugins, places, n, new, to)
    BY <2>1, <2>2, <2>3, <2>4, <2>5 DEF Keeps
  <2> QED
    BY <1>6, <2>6 DEF new
<1> QED
  BY <1>5, <1>6

LEMMA ThoseKeep ==
  ASSUME NEW P, NEW plugins \in Seq(P), NEW places
  PROVE  \E at : Keeps(plugins, places, Len(plugins), Those(plugins, places), at)
<1>0. Len(plugins) \in Nat
  OBVIOUS
<1>1. PICK kept :
        /\ kept[0] = <<>>
        /\ \A n \in 1 .. Len(plugins) :
             kept[n] = IF n \in places THEN Append(kept[n - 1], plugins[n]) ELSE kept[n - 1]
        /\ Those(plugins, places) = kept[Len(plugins)]
  BY <1>0, ThoseEquation
<1> DEFINE OK(n) == \E at : Keeps(plugins, places, n, kept[n], at)
           Bad == {n \in 0 .. Len(plugins) : ~OK(n)}
<1>2. Bad = {}
  <2> SUFFICES ASSUME Bad # {} PROVE FALSE
    OBVIOUS
  <2>1. PICK n \in Bad : \A k \in Bad : n <= k
    <3>1. Bad \subseteq Nat
      OBVIOUS
    <3> HIDE DEF Bad
    <3> QED
      BY <3>1, LeastNatural
  <2>2. n # 0
    <3>1. Keeps(plugins, places, 0, <<>>, [i \in 1 .. 0 |-> i])
      BY DEF Keeps
    <3> QED
      BY <1>1, <3>1
  <2>3. n \in 1 .. Len(plugins) /\ OK(n - 1)
    <3>1. n \in 0 .. Len(plugins)
      OBVIOUS
    <3>2. n - 1 \in 0 .. Len(plugins) /\ n - 1 \notin Bad
      <4> HIDE DEF Bad
      <4> QED
        BY <2>1, <2>2, <3>1
    <3> QED
      BY <2>2, <3>1, <3>2
  <2>4. PICK at : Keeps(plugins, places, n - 1, kept[n - 1], at)
    BY <2>3
  <2>5. OK(n)
    BY <1>1, <2>3, <2>4, KeepsNext
  <2> QED
    BY <2>5
<1>3. OK(Len(plugins))
  <2>1. Len(plugins) \in 0 .. Len(plugins)
    BY <1>0
  <2> HIDE DEF OK
  <2> QED
    BY <1>2, <2>1
<1> QED
  BY <1>1, <1>3

-----------------------------------------------------------------------------
(* The registry: of every id there is one plugin at most.                  *)
Has(plugins, p) == \E i \in DOMAIN plugins : plugins[i] = p

Unique(registered) ==
  \A i, k \in DOMAIN registered : registered[i].plugin_id = registered[k].plugin_id => i = k

Ids == {p.plugin_id : p \in AllPlugins}

(* register and unregister leave the plugins of other ids as they are.     *)
LEMMA RegisteredIs ==
  ASSUME NEW registered \in Seq(AllPlugins), Unique(registered), NEW p \in AllPlugins
  PROVE  LET new == Registered(registered, p) IN
         /\ new \in Seq(AllPlugins) /\ Unique(new)
         /\ \A q : q.plugin_id # p.plugin_id => (Has(new, q) <=> Has(registered, q))
<1> DEFINE same == {i \in DOMAIN registered : registered[i].plugin_id = p.plugin_id}
           new == Registered(registered, p)
<1>1. DOMAIN registered = 1 .. Len(registered) /\ Len(registered) \in Nat
  OBVIOUS
<1>2. CASE same = {}
  <2>1. /\ new = Append(registered, p)
        /\ \A i \in DOMAIN registered : registered[i].plugin_id # p.plugin_id
    BY <1>2 DEF Registered
  <2>2. /\ new \in Seq(AllPlugins) /\ DOMAIN new = 1 .. Len(registered) + 1
        /\ new[Len(registered) + 1] = p
        /\ \A i \in DOMAIN registered : new[i] = registered[i]
    BY <2>1
  <2> HIDE DEF new
  <2>3. Unique(new)
    <3> SUFFICES ASSUME NEW i \in DOMAIN new, NEW k \in DOMAIN new,
                        new[i].plugin_id = new[k].plugin_id
                 PROVE  i = k
      BY DEF Unique
    <3>1. CASE i \in DOMAIN registered /\ k \in DOMAIN registered
      BY <2>2, <3>1 DEF Unique
    <3>2. CASE i \notin DOMAIN registered \/ k \notin DOMAIN registered
      BY <1>1, <2>1, <2>2, <3>2
    <3> QED
      BY <3>1, <3>2
  <2>4. ASSUME NEW q, q.plugin_id # p.plugin_id
        PROVE  Has(new, q) <=> Has(registered, q)
    <3>1. \A i \in DOMAIN new : new[i] = q => i \in DOMAIN registered
      BY <1>1, <2>2, <2>4
    <3>2. \A i \in DOMAIN registered : i \in DOMAIN new
      BY <1>1, <2>2
    <3> QED
      BY <2>2, <3>1, <3>2 DEF Has
  <2> QED
    BY <2>2, <2>3, <2>4 DEF new
<1>3. CASE same # {}
  <2> DEFINE at == CHOOSE i \in same : TRUE
  <2>1. at \in DOMAIN registered /\ registered[at].plugin_id = p.plugin_id
    BY <1>3
  <2>2. new = [registered EXCEPT ![at] = p]
    BY <1>3 DEF Registered
  <2> HIDE DEF at, same
  <2>3. /\ new \in Seq(AllPlugins) /\ DOMAIN new = DOMAIN registered
        /\ new[at] = p /\ \A i \in DOMAIN registered : i # at => new[i] = registered[i]
    BY <2>1, <2>2
  <2> HIDE DEF new
  <2>4. \A i \in DOMAIN new : new[i].plugin_id = registered[i].plugin_id
    BY <2>1, <2>3
  <2>5. Unique(new)
    BY <2>3, <2>4 DEF Unique
  <2>6. ASSUME NEW q, q.plugin_id # p.plugin_id
        PROVE  Has(new, q) <=> Has(registered, q)
    <3>1. registered[at] # q /\ new[at] # q
      BY <2>1, <2>3, <2>6
    <3> QED
      BY <2>3, <3>1 DEF Has
  <2> QED
    BY <2>3, <2>5, <2>6 DEF new
<1> QED
  BY <1>2, <1>3

LEMMA UnregisteredIs ==
  ASSUME NEW registered \in Seq(AllPlugins), Unique(registered), NEW id
  PROVE  LET new == Unregistered(registered, id) IN
         /\ new \in Seq(AllPlugins) /\ Unique(new)
         /\ \A q : q.plugin_id # id => (Has(new, q) <=> Has(registered, q))
<1> DEFINE places == {i \in DOMAIN registered : registered[i].plugin_id # id}
           new == Those(registered, places)
<1>1. DOMAIN registered = 1 .. Len(registered) /\ Len(registered) \in Nat
  OBVIOUS
<1>2. PICK at : Keeps(registered, places, Len(registered), new, at)
  BY ThoseKeep
<1>3. \A k \in 1 .. Len(registered) : k \in places <=> registered[k].plugin_id # id
  BY <1>1
<1>4. new = Unregistered(registered, id)
  BY DEF Unregistered
<1> HIDE DEF places, new
<1>5. /\ new \in Seq({registered[k] : k \in 1 .. Len(registered)})
      /\ at \in [1 .. Len(new) -> 1 .. Len(registered)]
      /\ \A i \in 1 .. Len(new) : at[i] \in places /\ new[i] = registered[at[i]]
      /\ \A i, k \in 1 .. Len(new) : i < k => at[i] < at[k]
      /\ \A k \in 1 .. Len(registered) : k \in places => \E i \in 1 .. Len(new) : at[i] = k
  BY <1>2 DEF Keeps
<1>6. new \in Seq(AllPlugins) /\ DOMAIN new = 1 .. Len(new) /\ Len(new) \in Nat
  <2>1. \A x \in {registered[k] : k \in 1 .. Len(registered)} : x \in AllPlugins
    BY <1>1
  <2> QED
    BY <1>5, <2>1
<1>7. Unique(new)
  <2> SUFFICES ASSUME NEW i \in 1 .. Len(new), NEW k \in 1 .. Len(new),
                      new[i].plugin_id = new[k].plugin_id
               PROVE  i = k
    BY <1>6 DEF Unique
  <2>1. at[i] = at[k]
    <3>1. at[i] \in DOMAIN registered /\ at[k] \in DOMAIN registered
      BY <1>1, <1>5
    <3>2. new[i] = registered[at[i]] /\ new[k] = registered[at[k]]
      BY <1>5
    <3> QED
      BY <3>1, <3>2 DEF Unique
  <2>2. ~(i < k) /\ ~(k < i)
    BY <1>5, <2>1
  <2> QED
    BY <1>6, <2>2
<1>8. ASSUME NEW q, q.plugin_id # id
      PROVE  Has(new, q) <=> Has(registered, q)
  <2>1. ASSUME Has(registered, q) PROVE Has(new, q)
    <3>1. PICK k \in 1 .. Len(registered) : registered[k] = q
      BY <1>1, <2>1 DEF Has
    <3>2. PICK i \in 1 .. Len(new) : at[i] = k
      BY <1>3, <1>5, <1>8, <3>1
    <3> QED
      BY <1>5, <1>6, <3>1, <3>2 DEF Has
  <2>2. ASSUME Has(new, q) PROVE Has(registered, q)
    <3>1. PICK i \in 1 .. Len(new) : new[i] = q
      BY <1>6, <2>2 DEF Has
    <3>2. at[i] \in DOMAIN registered /\ registered[at[i]] = q
      BY <1>1, <1>5, <3>1
    <3> QED
      BY <3>2 DEF Has
  <2> QED
    BY <2>1, <2>2
<1> QED
  BY <1>4, <1>6, <1>7, <1>8

-----------------------------------------------------------------------------
(* The inductive invariant of the registry.                                *)
Due(p) == Has(registry.registered, p) /\ IsEnabled(registry, p)

Todo(p) == Has(lifespan.todo, p)

RegistryRecords ==
  /\ registry \in [registered : Seq(AllPlugins), enabled : SUBSET Ids]
  /\ Unique(registry.registered)
  /\ states \in [Switched -> BOOLEAN \cup {None}]
  /\ lifespan \in [at : {"down", "starting", "up", "stopping"}, started : BOOLEAN,
                   todo : Seq(AllPlugins)]
  /\ running \subseteq AllPlugins
  /\ history \in [touched : SUBSET AllPlugins, misfit : SUBSET AllPlugins, raised : BOOLEAN]

(* While the application comes up a plugin runs if its turn has come, and  *)
(* while it goes down if its turn is still to come.                        *)
Followed(p) ==
  /\ p \notin history.misfit
  /\ lifespan.at = "down" => p \notin running
  /\ lifespan.at = "starting" =>
       (Todo(p) => Has(registry.registered, p)) /\ (p \in running <=> Due(p) /\ ~Todo(p))
  /\ lifespan.at = "up" => (p \in running <=> Due(p))
  /\ lifespan.at = "stopping" =>
       (Todo(p) => Has(registry.registered, p)) /\ (p \in running <=> Due(p) /\ Todo(p))

Lifecycle ==
  ~history.raised =>
    /\ lifespan.started <=> lifespan.at \in {"up", "stopping"}
    /\ \A i, k \in DOMAIN lifespan.todo : lifespan.todo[i] = lifespan.todo[k] => i = k
    /\ \A p \in PluginsWith(Switched) \ history.touched : Followed(p)

RegistryInv == RegistryRecords /\ Lifecycle

(* Of the hooks, each plugin has one.                                      *)
LEMMA RegisteredPlaces ==
  ASSUME NEW registered \in Seq(AllPlugins), NEW S, S \subseteq DOMAIN registered
  PROVE  Places(registered, S)
<1> DEFINE n == Len(registered)
<1>1. n \in Nat /\ S \in SUBSET (1 .. n)
  OBVIOUS
<1>2. IsFiniteSet(1 .. n)
  <2> HIDE DEF n
  <2> QED
    BY <1>1, FS_Interval
<1>3. IsFiniteSet(S)
  <2> HIDE DEF n
  <2> QED
    BY <1>1, <1>2, FS_Subset
<1>4. \A at \in S : registered[at] \in AllPlugins
  OBVIOUS
<1>5. \A p \in AllPlugins : p.priority \in Int
  BY PluginRegistryAssumption DEF AllPlugins
<1> QED
  BY <1>1, <1>3, <1>4, <1>5 DEF Places

LEMMA HooksAre ==
  ASSUME RegistryRecords
  PROVE  /\ Hooks \in Seq(AllPlugins)
         /\ \A i, k \in DOMAIN Hooks : Hooks[i] = Hooks[k] => i = k
         /\ \A p \in PluginsWith(Switched) : Has(Hooks, p) <=> Has(registry.registered, p)
<1> DEFINE R == registry.registered
           S == {i \in DOMAIN R : R[i].plugin_id \in Switched}
           place == Place(R, S)
<1>1. R \in Seq(AllPlugins) /\ Unique(R)
  BY DEF RegistryRecords
<1>2. S \subseteq DOMAIN R /\ Hooks = Sorted(R, S)
  BY DEF Hooks
<1> HIDE DEF R
<1>3. \A p \in PluginsWith(Switched) : \A i \in DOMAIN R : R[i] = p => i \in S
  BY DEF PluginsWith
<1> HIDE DEF S
<1>4. Places(R, S)
  BY <1>1, <1>2, RegisteredPlaces
<1>5. /\ Hooks \in Seq(AllPlugins) /\ Len(Hooks) = Cardinality(S)
      /\ DOMAIN Hooks = 1 .. Cardinality(S)
      /\ \A i \in 1 .. Cardinality(S) : place[i] \in S /\ Hooks[i] = R[place[i]]
  BY <1>1, <1>2, <1>4, SortedIs
<1>6. /\ \A at \in S : \E i \in 1 .. Cardinality(S) : place[i] = at
      /\ \A i, k \in 1 .. Cardinality(S) : i < k => ByPriority(R, place[i], place[k])
      /\ Cardinality(S) \in Nat
  BY <1>4, PlaceOrders DEF PlacedInOrder
<1> HIDE DEF place
<1>7. ASSUME NEW i \in DOMAIN Hooks, NEW k \in DOMAIN Hooks, Hooks[i] = Hooks[k], i # k
      PROVE  FALSE
  <2>1. place[i] = place[k] /\ place[i] \in S
    BY <1>1, <1>2, <1>5, <1>7 DEF Unique
  <2>2. i < k \/ k < i
    BY <1>5, <1>6, <1>7
  <2> QED
    BY <1>4, <1>5, <1>6, <2>1, <2>2, PriorityIsTotal
<1>8. ASSUME NEW p \in PluginsWith(Switched)
      PROVE  Has(Hooks, p) <=> Has(R, p)
  <2>1. ASSUME Has(R, p) PROVE Has(Hooks, p)
    <3>1. PICK at \in S : R[at] = p
      BY <1>3, <2>1 DEF Has
    <3>2. PICK i \in 1 .. Cardinality(S) : place[i] = at
      BY <1>6
    <3> QED
      BY <1>5, <3>1, <3>2 DEF Has
  <2>2. ASSUME Has(Hooks, p) PROVE Has(R, p)
    BY <1>2, <1>5, <2>2 DEF Has
  <2> QED
    BY <2>1, <2>2
<1> QED
  BY <1>5, <1>7, <1>8 DEF R

-----------------------------------------------------------------------------
(* A change of plugins: those of other ids are as they were, and those of  *)
(* the id are touched unless they rest.                                    *)
LEMMA Changes ==
  ASSUME RegistryInv, NEW ids, history' = Touch(ids),
         lifespan' = lifespan, running' = running,
         registry' \in [registered : Seq(AllPlugins), enabled : SUBSET Ids],
         Unique(registry'.registered),
         states' \in [Switched -> BOOLEAN \cup {None}],
         \A q \in AllPlugins : q.plugin_id \notin ids =>
           /\ Has(registry'.registered, q) <=> Has(registry.registered, q)
           /\ IsEnabled(registry', q) <=> IsEnabled(registry, q)
  PROVE  RegistryInv'
<1>1. history \in [touched : SUBSET AllPlugins, misfit : SUBSET AllPlugins, raised : BOOLEAN]
  BY DEF RegistryInv, RegistryRecords
<1>2. CASE lifespan.at = "down" /\ running \cap PluginsWith(ids) = {}
  <2>1. history' = history
    BY <1>2 DEF Touch
  <2>2. RegistryRecords'
    BY <2>1 DEF RegistryInv, RegistryRecords
  <2>3. ASSUME ~history'.raised PROVE \A p \in PluginsWith(Switched) \ history'.touched : Followed(p)'
    <3> SUFFICES ASSUME NEW p \in PluginsWith(Switched) \ history.touched
                 PROVE  Followed(p)'
      BY <2>1
    <3>1. Followed(p)
      BY <2>1, <2>3 DEF RegistryInv, Lifecycle
    <3> QED
      BY <1>2, <2>1, <3>1 DEF Followed
  <2>4. Lifecycle'
    BY <2>1, <2>3 DEF RegistryInv, Lifecycle
  <2> QED
    BY <2>2, <2>4 DEF RegistryInv
<1>3. CASE ~(lifespan.at = "down" /\ running \cap PluginsWith(ids) = {})
  <2>1. history' = [history EXCEPT !.touched = @ \cup PluginsWith(ids)]
    BY <1>3 DEF Touch
  <2>2. /\ history'.touched = history.touched \cup PluginsWith(ids)
        /\ history'.misfit = history.misfit /\ history'.raised = history.raised
        /\ history' \in [touched : SUBSET AllPlugins, misfit : SUBSET AllPlugins, raised : BOOLEAN]
    BY <1>1, <2>1 DEF PluginsWith
  <2>3. RegistryRecords'
    BY <2>2 DEF RegistryInv, RegistryRecords
  <2>4. ASSUME ~history'.raised PROVE \A p \in PluginsWith(Switched) \ history'.touched : Followed(p)'
    <3> SUFFICES ASSUME NEW p \in PluginsWith(Switched) \ history'.touched
                 PROVE  Followed(p)'
      OBVIOUS
    <3>1. p \in AllPlugins /\ p.plugin_id \notin ids /\ p \notin history.touched
      BY <2>2 DEF PluginsWith
    <3>2. Followed(p)
      BY <2>2, <2>4, <3>1 DEF RegistryInv, Lifecycle
    <3>3. (Due(p)' <=> Due(p)) /\ (Todo(p)' <=> Todo(p))
      BY <3>1 DEF Due, Todo
    <3> QED
      BY <2>2, <3>1, <3>2, <3>3 DEF Followed
  <2>5. Lifecycle'
    BY <2>2, <2>4 DEF RegistryInv, Lifecycle
  <2> QED
    BY <2>3, <2>5 DEF RegistryInv
<1> QED
  BY <1>2, <1>3

LEMMA RegisterKeeps ==
  ASSUME RegistryInv, NEW p \in PluginsWith(Switched) \cap Custom, Register(p)
  PROVE  RegistryInv'
<1> DEFINE new == Registered(registry.registered, p)
           on == (registry.enabled \ {p.plugin_id}) \cup EnabledOf({p})
<1>1. p \in AllPlugins /\ registry.registered \in Seq(AllPlugins) /\ Unique(registry.registered)
      /\ registry.enabled \in SUBSET Ids
  BY DEF PluginsWith, RegistryInv, RegistryRecords
<1>2. /\ new \in Seq(AllPlugins) /\ Unique(new)
      /\ \A q : q.plugin_id # p.plugin_id => (Has(new, q) <=> Has(registry.registered, q))
  BY <1>1, RegisteredIs
<1>3. /\ on \in SUBSET Ids
      /\ \A q \in AllPlugins : q.plugin_id # p.plugin_id =>
           (q.plugin_id \in on <=> q.plugin_id \in registry.enabled)
  BY <1>1 DEF EnabledOf, Ids
<1>4. registry' = [registered |-> new, enabled |-> on]
  BY DEF Register
<1> HIDE DEF new, on
<1>5. /\ registry' \in [registered : Seq(AllPlugins), enabled : SUBSET Ids]
      /\ registry'.registered = new /\ registry'.enabled = on
  BY <1>2, <1>3, <1>4
<1>6. states' \in [Switched -> BOOLEAN \cup {None}]
  BY DEF Register, RegistryInv, RegistryRecords
<1>7. \A q \in AllPlugins : q.plugin_id \notin {p.plugin_id} =>
        /\ Has(registry'.registered, q) <=> Has(registry.registered, q)
        /\ IsEnabled(registry', q) <=> IsEnabled(registry, q)
  BY <1>2, <1>3, <1>5 DEF IsEnabled
<1>8. /\ history' = Touch({p.plugin_id}) /\ lifespan' = lifespan /\ running' = running
  BY DEF Register
<1> QED
  BY <1>2, <1>5, <1>6, <1>7, <1>8, Changes

LEMMA UnregisterKeeps ==
  ASSUME RegistryInv, NEW id \in Switched, Unregister(id)
  PROVE  RegistryInv'
<1> DEFINE new == Unregistered(registry.registered, id)
<1>1. /\ registry \in [registered : Seq(AllPlugins), enabled : SUBSET Ids]
      /\ Unique(registry.registered)
  BY DEF RegistryInv, RegistryRecords
<1>2. /\ new \in Seq(AllPlugins) /\ Unique(new)
      /\ \A q : q.plugin_id # id => (Has(new, q) <=> Has(registry.registered, q))
  BY <1>1, UnregisteredIs
<1>3. registry' = [registry EXCEPT !.registered = new]
  BY DEF Unregister
<1> HIDE DEF new
<1>4. /\ registry' \in [registered : Seq(AllPlugins), enabled : SUBSET Ids]
      /\ registry'.registered = new /\ registry'.enabled = registry.enabled
  BY <1>1, <1>2, <1>3
<1>5. states' \in [Switched -> BOOLEAN \cup {None}]
  BY DEF Unregister, RegistryInv, RegistryRecords
<1>6. \A q \in AllPlugins : q.plugin_id \notin {id} =>
        /\ Has(registry'.registered, q) <=> Has(registry.registered, q)
        /\ IsEnabled(registry', q) <=> IsEnabled(registry, q)
  BY <1>2, <1>4 DEF IsEnabled
<1>7. /\ history' = Touch({id}) /\ lifespan' = lifespan /\ running' = running
  BY DEF Unregister
<1> QED
  BY <1>2, <1>4, <1>5, <1>6, <1>7, Changes

LEMMA SwitchKeeps ==
  ASSUME RegistryInv, NEW id \in Switched, NEW on \in BOOLEAN, Switch(id, on)
  PROVE  RegistryInv'
<1> DEFINE new == IF on THEN registry.enabled \cup {id} ELSE registry.enabled \ {id}
<1>1. /\ registry \in [registered : Seq(AllPlugins), enabled : SUBSET Ids]
      /\ Unique(registry.registered) /\ states \in [Switched -> BOOLEAN \cup {None}]
  BY DEF RegistryInv, RegistryRecords
<1>2. id \in Ids
  <2>1. PICK i \in DOMAIN registry.registered : registry.registered[i].plugin_id = id
    BY DEF Switch
  <2>2. registry.registered[i] \in AllPlugins
    BY <1>1, <2>1
  <2> QED
    BY <2>1, <2>2 DEF Ids
<1>3. /\ new \in SUBSET Ids
      /\ \A q \in AllPlugins : q.plugin_id # id =>
           (q.plugin_id \in new <=> q.plugin_id \in registry.enabled)
  BY <1>1, <1>2
<1>4. registry' = [registry EXCEPT !.enabled = new] /\ states' = [states EXCEPT ![id] = on]
  BY DEF Switch
<1> HIDE DEF new
<1>5. /\ registry' \in [registered : Seq(AllPlugins), enabled : SUBSET Ids]
      /\ registry'.registered = registry.registered /\ registry'.enabled = new
  BY <1>1, <1>3, <1>4
<1>6. states' \in [Switched -> BOOLEAN \cup {None}]
  BY <1>1, <1>4
<1>7. \A q \in AllPlugins : q.plugin_id \notin {id} =>
        /\ Has(registry'.registered, q) <=> Has(registry.registered, q)
        /\ IsEnabled(registry', q) <=> IsEnabled(registry, q)
  BY <1>3, <1>5 DEF IsEnabled
<1>8. /\ history' = Touch({id}) /\ lifespan' = lifespan /\ running' = running
  BY DEF Switch
<1> QED
  BY <1>1, <1>5, <1>6, <1>7, <1>8, Changes

(* The steps of the application: the plugins are as they were.             *)
LEMMA BeginStartupKeeps ==
  ASSUME RegistryInv, BeginStartup
  PROVE  RegistryInv'
<1>1. lifespan \in [at : {"down", "starting", "up", "stopping"}, started : BOOLEAN,
                    todo : Seq(AllPlugins)]
  BY DEF RegistryInv, RegistryRecords
<1>2. /\ Hooks \in Seq(AllPlugins)
      /\ \A i, k \in DOMAIN Hooks : Hooks[i] = Hooks[k] => i = k
      /\ \A p \in PluginsWith(Switched) : Has(Hooks, p) <=> Has(registry.registered, p)
  BY HooksAre DEF RegistryInv
<1>3. /\ lifespan.at = "down" /\ registry' = registry /\ states' = states
      /\ running' = running /\ history' = history
      /\ lifespan' = IF lifespan.started THEN [lifespan EXCEPT !.at = "up"]
                     ELSE [lifespan EXCEPT !.at = "starting", !.todo = Hooks]
  BY DEF BeginStartup
<1>4. lifespan' \in [at : {"down", "starting", "up", "stopping"}, started : BOOLEAN,
                     todo : Seq(AllPlugins)]
  BY <1>1, <1>2, <1>3
<1>5. RegistryRecords'
  BY <1>3, <1>4 DEF RegistryInv, RegistryRecords
<1>6. ASSUME ~history'.raised
      PROVE  /\ lifespan'.started <=> lifespan'.at \in {"up", "stopping"}
             /\ \A i, k \in DOMAIN lifespan'.todo : lifespan'.todo[i] = lifespan'.todo[k] => i = k
             /\ \A p \in PluginsWith(Switched) \ history'.touched : Followed(p)'
  <2>1. ~lifespan.started
    BY <1>3, <1>6 DEF RegistryInv, Lifecycle
  <2>2. lifespan'.at = "starting" /\ lifespan'.started = lifespan.started /\ lifespan'.todo = Hooks
    BY <1>1, <1>3, <2>1
  <2>3. ASSUME NEW p \in PluginsWith(Switched) \ history.touched
        PROVE  Followed(p)'
    <3>1. Followed(p)
      BY <1>3, <1>6 DEF RegistryInv, Lifecycle
    <3>2. Todo(p)' <=> Has(registry.registered, p)
      BY <1>2, <2>2 DEF Todo
    <3>3. Due(p)' <=> Due(p)
      BY <1>3 DEF Due
    <3> QED
      BY <1>3, <2>2, <3>1, <3>2, <3>3 DEF Followed, Due
  <2> QED
    BY <1>2, <1>3, <2>1, <2>2, <2>3
<1> QED
  BY <1>5, <1>6 DEF RegistryInv, Lifecycle

LEMMA TheHead ==
  ASSUME NEW todo \in Seq(AllPlugins), todo # <<>>,
         \A i, k \in DOMAIN todo : todo[i] = todo[k] => i = k
  PROVE  /\ Head(todo) \in AllPlugins /\ Tail(todo) \in Seq(AllPlugins)
         /\ \A i, k \in DOMAIN Tail(todo) : Tail(todo)[i] = Tail(todo)[k] => i = k
         /\ Has(todo, Head(todo))
         /\ \A q : Has(Tail(todo), q) <=> Has(todo, q) /\ q # Head(todo)
<1> DEFINE n == Len(todo)
<1>1. n \in Nat /\ n > 0 /\ DOMAIN todo = 1 .. n
  BY DEF n
<1>2. /\ Tail(todo) \in Seq(AllPlugins) /\ DOMAIN Tail(todo) = 1 .. n - 1
      /\ \A i \in 1 .. n - 1 : Tail(todo)[i] = todo[i + 1]
      /\ Head(todo) = todo[1] /\ todo[1] \in AllPlugins
  BY DEF n
<1> HIDE DEF n
<1>3. \A i, k \in DOMAIN Tail(todo) : Tail(todo)[i] = Tail(todo)[k] => i = k
  <2> SUFFICES ASSUME NEW i \in 1 .. n - 1, NEW k \in 1 .. n - 1, todo[i + 1] = todo[k + 1]
               PROVE  i = k
    BY <1>2
  <2>1. i + 1 \in DOMAIN todo /\ k + 1 \in DOMAIN todo
    BY <1>1
  <2>2. i + 1 = k + 1
    BY <2>1
  <2> QED
    BY <1>1, <2>2
<1>4. Has(todo, Head(todo))
  BY <1>1, <1>2 DEF Has
<1>5. ASSUME NEW q PROVE Has(Tail(todo), q) <=> Has(todo, q) /\ q # Head(todo)
  <2>1. ASSUME Has(Tail(todo), q) PROVE Has(todo, q) /\ q # Head(todo)
    <3>1. PICK i \in 1 .. n - 1 : todo[i + 1] = q
      BY <1>2, <2>1 DEF Has
    <3>2. i + 1 \in DOMAIN todo /\ 1 \in DOMAIN todo /\ i + 1 # 1
      BY <1>1
    <3>3. todo[i + 1] # todo[1]
      BY <3>2
    <3> QED
      BY <1>2, <3>1, <3>2, <3>3 DEF Has
  <2>2. ASSUME Has(todo, q), q # Head(todo) PROVE Has(Tail(todo), q)
    <3>1. PICK i \in 1 .. n : todo[i] = q
      BY <1>1, <2>2 DEF Has
    <3>2. i # 1
      BY <1>2, <2>2, <3>1
    <3>3. i - 1 \in 1 .. n - 1 /\ (i - 1) + 1 = i
      BY <1>1, <3>2
    <3>4. Tail(todo)[i - 1] = todo[(i - 1) + 1]
      BY <1>2, <3>3
    <3> QED
      BY <1>2, <3>1, <3>3, <3>4 DEF Has
  <2> QED
    BY <2>1, <2>2
<1> QED
  BY <1>2, <1>3, <1>4, <1>5

LEMMA StartNextKeeps ==
  ASSUME RegistryInv, StartNext
  PROVE  RegistryInv'
<1> DEFINE h == Head(lifespan.todo)
<1>1. /\ lifespan \in [at : {"down", "starting", "up", "stopping"}, started : BOOLEAN,
                       todo : Seq(AllPlugins)]
      /\ history \in [touched : SUBSET AllPlugins, misfit : SUBSET AllPlugins, raised : BOOLEAN]
      /\ running \subseteq AllPlugins
  BY DEF RegistryInv, RegistryRecords
<1>2. /\ lifespan.at = "starting" /\ lifespan.todo # <<>> /\ registry' = registry /\ states' = states
      /\ lifespan' = [lifespan EXCEPT !.todo = Tail(@)]
      /\ IF IsEnabled(registry, h)
         THEN /\ running' = running \cup {h}
              /\ history' = IF h \in running THEN [history EXCEPT !.misfit = @ \cup {h}] ELSE history
         ELSE running' = running /\ history' = history
  BY DEF StartNext, Started
<1>3. /\ lifespan'.at = "starting" /\ lifespan'.todo = Tail(lifespan.todo)
      /\ lifespan'.started = lifespan.started
      /\ lifespan' \in [at : {"down", "starting", "up", "stopping"}, started : BOOLEAN,
                        todo : Seq(AllPlugins)]
      /\ h \in AllPlugins
  <2>1. h \in AllPlugins /\ Tail(lifespan.todo) \in Seq(AllPlugins)
    <3> DEFINE todo == lifespan.todo
    <3>1. todo \in Seq(AllPlugins) /\ todo # <<>>
      BY <1>1, <1>2
    <3> HIDE DEF todo
    <3>2. Head(todo) \in AllPlugins /\ Tail(todo) \in Seq(AllPlugins)
      BY <3>1
    <3> QED
      BY <3>2 DEF todo
  <2> DEFINE rest == Tail(lifespan.todo)
  <2>2. lifespan' = [lifespan EXCEPT !.todo = rest]
    BY <1>2
  <2> HIDE DEF h, rest
  <2>3. /\ lifespan'.at = "starting" /\ lifespan'.todo = rest /\ lifespan'.started = lifespan.started
        /\ lifespan' \in [at : {"down", "starting", "up", "stopping"}, started : BOOLEAN,
                          todo : Seq(AllPlugins)]
    BY <1>1, <1>2, <2>1, <2>2 DEF rest
  <2> QED
    BY <2>1, <2>3 DEF rest
<1> HIDE DEF h
<1>4. /\ history' \in [touched : SUBSET AllPlugins, misfit : SUBSET AllPlugins, raised : BOOLEAN]
      /\ history'.touched = history.touched /\ history'.raised = history.raised
      /\ history'.misfit = IF IsEnabled(registry, h) /\ h \in running
                           THEN history.misfit \cup {h} ELSE history.misfit
      /\ running' = IF IsEnabled(registry, h) THEN running \cup {h} ELSE running
  <2>1. CASE IsEnabled(registry, h) /\ h \in running
    <3>1. history' = [history EXCEPT !.misfit = @ \cup {h}] /\ running' = running \cup {h}
      BY <1>2, <2>1
    <3> QED
      BY <1>1, <1>3, <2>1, <3>1
  <2>2. CASE ~(IsEnabled(registry, h) /\ h \in running)
    <3>1. history' = history
          /\ running' = IF IsEnabled(registry, h) THEN running \cup {h} ELSE running
      BY <1>2, <2>2
    <3> QED
      BY <1>1, <2>2, <3>1
  <2> QED
    BY <2>1, <2>2
<1>5. RegistryRecords'
  BY <1>1, <1>2, <1>3, <1>4 DEF RegistryInv, RegistryRecords
<1>6. ASSUME ~history'.raised
      PROVE  /\ lifespan'.started <=> lifespan'.at \in {"up", "stopping"}
             /\ \A i, k \in DOMAIN lifespan'.todo : lifespan'.todo[i] = lifespan'.todo[k] => i = k
             /\ \A p \in PluginsWith(Switched) \ history'.touched : Followed(p)'
  <2>1. /\ lifespan.started <=> lifespan.at \in {"up", "stopping"}
        /\ \A i, k \in DOMAIN lifespan.todo : lifespan.todo[i] = lifespan.todo[k] => i = k
        /\ \A p \in PluginsWith(Switched) \ history.touched : Followed(p)
    BY <1>4, <1>6 DEF RegistryInv, Lifecycle
  <2>2. /\ \A i, k \in DOMAIN lifespan'.todo : lifespan'.todo[i] = lifespan'.todo[k] => i = k
        /\ Has(lifespan.todo, h)
        /\ \A q : Has(lifespan'.todo, q) <=> Has(lifespan.todo, q) /\ q # h
    BY <1>1, <1>2, <1>3, <2>1, TheHead DEF h
  <2>3. ASSUME NEW p \in PluginsWith(Switched) \ history.touched
        PROVE  Followed(p)'
    <3>1. Followed(p)
      BY <2>1
    <3>2. (Todo(p)' <=> Todo(p) /\ p # h) /\ (p = h => Todo(p))
      BY <2>2 DEF Todo
    <3>3. (Due(p)' <=> Due(p)) /\ (Due(p) <=> Has(registry.registered, p) /\ IsEnabled(registry, p))
      BY <1>2 DEF Due
    <3>4. /\ p \notin history.misfit /\ (Todo(p) => Has(registry.registered, p))
          /\ p \in running <=> Due(p) /\ ~Todo(p)
      BY <1>2, <3>1 DEF Followed
    <3>5. p \notin history'.misfit
      BY <1>4, <3>2, <3>4
    <3>6. p \in running' <=> Due(p)' /\ ~Todo(p)'
      BY <1>4, <3>2, <3>3, <3>4
    <3> QED
      BY <1>2, <1>3, <3>2, <3>4, <3>5, <3>6 DEF Followed
  <2> QED
    BY <1>2, <1>3, <1>4, <2>1, <2>2, <2>3
<1> QED
  BY <1>5, <1>6 DEF RegistryInv, Lifecycle

LEMMA CompleteKeeps ==
  ASSUME RegistryInv, CompleteStartup \/ CompleteShutdown
  PROVE  RegistryInv'
<1>1. lifespan \in [at : {"down", "starting", "up", "stopping"}, started : BOOLEAN,
                    todo : Seq(AllPlugins)]
  BY DEF RegistryInv, RegistryRecords
<1>2. /\ registry' = registry /\ states' = states /\ running' = running /\ history' = history
      /\ lifespan.todo = <<>>
      /\ \/ lifespan.at = "starting" /\ lifespan' = [lifespan EXCEPT !.at = "up", !.started = TRUE]
         \/ lifespan.at = "stopping" /\ lifespan' = [lifespan EXCEPT !.at = "down", !.started = FALSE]
  BY DEF CompleteStartup, CompleteShutdown
<1>3. /\ lifespan' \in [at : {"down", "starting", "up", "stopping"}, started : BOOLEAN,
                        todo : Seq(AllPlugins)]
      /\ lifespan'.todo = <<>>
      /\ \/ lifespan.at = "starting" /\ lifespan'.at = "up" /\ lifespan'.started = TRUE
         \/ lifespan.at = "stopping" /\ lifespan'.at = "down" /\ lifespan'.started = FALSE
  BY <1>1, <1>2
<1>4. RegistryRecords'
  BY <1>2, <1>3 DEF RegistryInv, RegistryRecords
<1>5. ASSUME ~history'.raised, NEW p \in PluginsWith(Switched) \ history'.touched
      PROVE  Followed(p)'
  <2>1. Followed(p)
    BY <1>2, <1>5 DEF RegistryInv, Lifecycle
  <2>2. ~Todo(p)
    BY <1>2 DEF Todo, Has
  <2>3. Due(p)' <=> Due(p)
    BY <1>2 DEF Due
  <2> QED
    BY <1>2, <1>3, <2>1, <2>2, <2>3 DEF Followed
<1> QED
  BY <1>2, <1>3, <1>4, <1>5 DEF RegistryInv, Lifecycle

(* The hooks the other way round are the same hooks.                       *)
LEMMA TheOtherWay ==
  ASSUME NEW hooks \in Seq(AllPlugins),
         \A i, k \in DOMAIN hooks : hooks[i] = hooks[k] => i = k
  PROVE  LET back == [i \in DOMAIN hooks |-> hooks[Len(hooks) + 1 - i]] IN
         /\ back \in Seq(AllPlugins)
         /\ \A i, k \in DOMAIN back : back[i] = back[k] => i = k
         /\ \A q : Has(back, q) <=> Has(hooks, q)
<1> DEFINE n == Len(hooks)
           back == [i \in DOMAIN hooks |-> hooks[Len(hooks) + 1 - i]]
<1>1. n \in Nat /\ DOMAIN hooks = 1 .. n /\ \A i \in 1 .. n : hooks[i] \in AllPlugins
  BY DEF n
<1>2. DOMAIN back = 1 .. n /\ \A i \in 1 .. n : back[i] = hooks[n + 1 - i]
  BY <1>1 DEF n
<1>3. back = [i \in 1 .. n |-> back[i]]
  BY <1>1
<1> HIDE DEF n, back
<1>4. \A i \in 1 .. n : n + 1 - i \in 1 .. n /\ n + 1 - (n + 1 - i) = i
  BY <1>1
<1>5. back \in Seq(AllPlugins)
  <2>1. \A i \in 1 .. n : back[i] \in AllPlugins
    BY <1>1, <1>2, <1>4
  <2>2. back \in [1 .. n -> AllPlugins]
    BY <1>3, <2>1
  <2> QED
    BY <1>1, <2>2
<1>6. \A i, k \in DOMAIN back : back[i] = back[k] => i = k
  <2> SUFFICES ASSUME NEW i \in 1 .. n, NEW k \in 1 .. n, hooks[n + 1 - i] = hooks[n + 1 - k]
               PROVE  i = k
    BY <1>2
  <2>1. n + 1 - i = n + 1 - k
    BY <1>1, <1>4
  <2> QED
    BY <1>1, <2>1
<1>7. ASSUME NEW q PROVE Has(back, q) <=> Has(hooks, q)
  <2>1. ASSUME Has(back, q) PROVE Has(hooks, q)
    BY <1>1, <1>2, <1>4, <2>1 DEF Has
  <2>2. ASSUME Has(hooks, q) PROVE Has(back, q)
    <3>1. PICK i \in 1 .. n : hooks[i] = q
      BY <1>1, <2>2 DEF Has
    <3>2. n + 1 - i \in 1 .. n /\ back[n + 1 - i] = hooks[i]
      BY <1>2, <1>4
    <3> QED
      BY <1>2, <3>1, <3>2 DEF Has
  <2> QED
    BY <2>1, <2>2
<1> QED
  BY <1>5, <1>6, <1>7 DEF back

LEMMA BeginShutdownKeeps ==
  ASSUME RegistryInv, BeginShutdown
  PROVE  RegistryInv'
<1> DEFINE back == [i \in DOMAIN Hooks |-> Hooks[Len(Hooks) + 1 - i]]
<1>1. lifespan \in [at : {"down", "starting", "up", "stopping"}, started : BOOLEAN,
                    todo : Seq(AllPlugins)]
  BY DEF RegistryInv, RegistryRecords
<1>2. /\ Hooks \in Seq(AllPlugins)
      /\ \A i, k \in DOMAIN Hooks : Hooks[i] = Hooks[k] => i = k
      /\ \A p \in PluginsWith(Switched) : Has(Hooks, p) <=> Has(registry.registered, p)
  BY HooksAre DEF RegistryInv
<1>3. /\ back \in Seq(AllPlugins)
      /\ \A i, k \in DOMAIN back : back[i] = back[k] => i = k
      /\ \A q : Has(back, q) <=> Has(Hooks, q)
  BY <1>2, TheOtherWay
<1>4. /\ lifespan.at = "up" /\ registry' = registry /\ states' = states
      /\ running' = running /\ history' = history
      /\ lifespan' = [lifespan EXCEPT !.at = "stopping", !.todo = back]
  BY DEF BeginShutdown
<1> HIDE DEF back
<1>5. /\ lifespan' \in [at : {"down", "starting", "up", "stopping"}, started : BOOLEAN,
                        todo : Seq(AllPlugins)]
      /\ lifespan'.at = "stopping" /\ lifespan'.started = lifespan.started /\ lifespan'.todo = back
  BY <1>1, <1>3, <1>4
<1>6. RegistryRecords'
  BY <1>4, <1>5 DEF RegistryInv, RegistryRecords
<1>7. ASSUME ~history'.raised
      PROVE  /\ lifespan'.started <=> lifespan'.at \in {"up", "stopping"}
             /\ \A i, k \in DOMAIN lifespan'.todo : lifespan'.todo[i] = lifespan'.todo[k] => i = k
             /\ \A p \in PluginsWith(Switched) \ history'.touched : Followed(p)'
  <2>1. lifespan.started
    BY <1>4, <1>7 DEF RegistryInv, Lifecycle
  <2>2. ASSUME NEW p \in PluginsWith(Switched) \ history.touched
        PROVE  Followed(p)'
    <3>1. Followed(p)
      BY <1>4, <1>7 DEF RegistryInv, Lifecycle
    <3>2. Todo(p)' <=> Has(registry.registered, p)
      BY <1>2, <1>3, <1>5 DEF Todo
    <3>3. Due(p)' <=> Due(p)
      BY <1>4 DEF Due
    <3> QED
      BY <1>4, <1>5, <3>1, <3>2, <3>3 DEF Followed, Due
  <2> QED
    BY <1>3, <1>4, <1>5, <2>1, <2>2
<1> QED
  BY <1>6, <1>7 DEF RegistryInv, Lifecycle

LEMMA StopNextKeeps ==
  ASSUME RegistryInv, StopNext
  PROVE  RegistryInv'
<1> DEFINE h == Head(lifespan.todo)
           rest == Tail(lifespan.todo)
<1>1. /\ lifespan \in [at : {"down", "starting", "up", "stopping"}, started : BOOLEAN,
                       todo : Seq(AllPlugins)]
      /\ history \in [touched : SUBSET AllPlugins, misfit : SUBSET AllPlugins, raised : BOOLEAN]
      /\ running \subseteq AllPlugins
  BY DEF RegistryInv, RegistryRecords
<1>2. /\ lifespan.at = "stopping" /\ lifespan.todo # <<>> /\ registry' = registry /\ states' = states
      /\ lifespan' = [lifespan EXCEPT !.todo = rest]
      /\ IF IsEnabled(registry, h)
         THEN /\ running' = running \ {h}
              /\ history' = IF h \in running THEN history ELSE [history EXCEPT !.misfit = @ \cup {h}]
         ELSE running' = running /\ history' = history
  BY DEF StopNext
<1>3. h \in AllPlugins /\ rest \in Seq(AllPlugins)
  <2> DEFINE todo == lifespan.todo
  <2>1. todo \in Seq(AllPlugins) /\ todo # <<>>
    BY <1>1, <1>2
  <2> HIDE DEF todo
  <2>2. Head(todo) \in AllPlugins /\ Tail(todo) \in Seq(AllPlugins)
    BY <2>1
  <2> QED
    BY <2>2 DEF todo
<1> HIDE DEF h, rest
<1>4. /\ lifespan'.at = "stopping" /\ lifespan'.todo = rest
      /\ lifespan'.started = lifespan.started
      /\ lifespan' \in [at : {"down", "starting", "up", "stopping"}, started : BOOLEAN,
                        todo : Seq(AllPlugins)]
  BY <1>1, <1>2, <1>3
<1>5. /\ history' \in [touched : SUBSET AllPlugins, misfit : SUBSET AllPlugins, raised : BOOLEAN]
      /\ history'.touched = history.touched /\ history'.raised = history.raised
      /\ history'.misfit = IF IsEnabled(registry, h) /\ h \notin running
                           THEN history.misfit \cup {h} ELSE history.misfit
      /\ running' = IF IsEnabled(registry, h) THEN running \ {h} ELSE running
  <2>1. CASE IsEnabled(registry, h) /\ h \notin running
    <3>1. history' = [history EXCEPT !.misfit = @ \cup {h}] /\ running' = running \ {h}
      BY <1>2, <2>1
    <3> QED
      BY <1>1, <1>3, <2>1, <3>1
  <2>2. CASE ~(IsEnabled(registry, h) /\ h \notin running)
    <3>1. history' = history
          /\ running' = IF IsEnabled(registry, h) THEN running \ {h} ELSE running
      BY <1>2, <2>2
    <3> QED
      BY <1>1, <2>2, <3>1
  <2> QED
    BY <2>1, <2>2
<1>6. RegistryRecords'
  BY <1>1, <1>2, <1>3, <1>4, <1>5 DEF RegistryInv, RegistryRecords
<1>7. ASSUME ~history'.raised
      PROVE  /\ lifespan'.started <=> lifespan'.at \in {"up", "stopping"}
             /\ \A i, k \in DOMAIN lifespan'.todo : lifespan'.todo[i] = lifespan'.todo[k] => i = k
             /\ \A p \in PluginsWith(Switched) \ history'.touched : Followed(p)'
  <2>1. /\ lifespan.started <=> lifespan.at \in {"up", "stopping"}
        /\ \A i, k \in DOMAIN lifespan.todo : lifespan.todo[i] = lifespan.todo[k] => i = k
        /\ \A p \in PluginsWith(Switched) \ history.touched : Followed(p)
    BY <1>5, <1>7 DEF RegistryInv, Lifecycle
  <2>2. /\ \A i, k \in DOMAIN lifespan'.todo : lifespan'.todo[i] = lifespan'.todo[k] => i = k
        /\ Has(lifespan.todo, h)
        /\ \A q : Has(lifespan'.todo, q) <=> Has(lifespan.todo, q) /\ q # h
    BY <1>1, <1>2, <1>4, <2>1, TheHead DEF h, rest
  <2>3. ASSUME NEW p \in PluginsWith(Switched) \ history.touched
        PROVE  Followed(p)'
    <3>1. Followed(p)
      BY <2>1
    <3>2. (Todo(p)' <=> Todo(p) /\ p # h) /\ (p = h => Todo(p))
      BY <2>2 DEF Todo
    <3>3. (Due(p)' <=> Due(p)) /\ (Due(p) <=> Has(registry.registered, p) /\ IsEnabled(registry, p))
      BY <1>2 DEF Due
    <3>4. /\ p \notin history.misfit /\ (Todo(p) => Has(registry.registered, p))
          /\ p \in running <=> Due(p) /\ Todo(p)
      BY <1>2, <3>1 DEF Followed
    <3>5. p \notin history'.misfit
      BY <1>5, <3>2, <3>3, <3>4
    <3>6. p \in running' <=> Due(p)' /\ Todo(p)'
      BY <1>5, <3>2, <3>3, <3>4
    <3> QED
      BY <1>2, <1>4, <3>2, <3>4, <3>5, <3>6 DEF Followed
  <2> QED
    BY <1>2, <1>4, <1>5, <2>1, <2>2, <2>3
<1> QED
  BY <1>6, <1>7 DEF RegistryInv, Lifecycle

LEMMA HookRaisesKeeps ==
  ASSUME RegistryInv, HookRaises
  PROVE  RegistryInv'
<1>1. /\ registry' = registry /\ states' = states /\ running' = running
      /\ lifespan' = [lifespan EXCEPT !.at = "down", !.todo = <<>>]
      /\ history' = [history EXCEPT !.raised = TRUE]
  BY DEF HookRaises
<1>2. /\ lifespan \in [at : {"down", "starting", "up", "stopping"}, started : BOOLEAN,
                       todo : Seq(AllPlugins)]
      /\ history \in [touched : SUBSET AllPlugins, misfit : SUBSET AllPlugins, raised : BOOLEAN]
  BY DEF RegistryInv, RegistryRecords
<1>3. lifespan' \in [at : {"down", "starting", "up", "stopping"}, started : BOOLEAN,
                     todo : Seq(AllPlugins)]
  <2>1. <<>> \in Seq(AllPlugins)
    OBVIOUS
  <2> QED
    BY <1>1, <1>2, <2>1
<1>4. /\ history' \in [touched : SUBSET AllPlugins, misfit : SUBSET AllPlugins, raised : BOOLEAN]
      /\ history'.raised
  BY <1>1, <1>2
<1> QED
  BY <1>1, <1>3, <1>4 DEF RegistryInv, RegistryRecords, Lifecycle

(* A process begins with the built-in plugins, none of which runs.         *)
LEMMA BuiltRegistry ==
  ASSUME states \in [Switched -> BOOLEAN \cup {None}]
  PROVE  /\ Built \in [registered : Seq(AllPlugins), enabled : SUBSET Ids]
         /\ Unique(Built.registered)
<1>1. Builtin \in Seq(AllPlugins)
  <2> DEFINE S == {Builtin[i] : i \in DOMAIN Builtin}
  <2>1. Builtin \in Seq(S) /\ S \subseteq AllPlugins
    BY PluginRegistryAssumption DEF AllPlugins
  <2> HIDE DEF S
  <2> QED
    BY <2>1
<1>2. EnabledOf({Builtin[i] : i \in DOMAIN Builtin}) \in SUBSET Ids
  BY DEF EnabledOf, Ids, AllPlugins
<1>3. Unique(Builtin)
  BY PluginRegistryAssumption DEF Unique
<1> QED
  BY <1>1, <1>2, <1>3 DEF Built

LEMMA FreshRegistry ==
  ASSUME states \in [Switched -> BOOLEAN \cup {None}], registry = Built,
         lifespan = [at |-> "down", started |-> FALSE, todo |-> <<>>],
         running = {}, history = [touched |-> {}, misfit |-> {}, raised |-> FALSE]
  PROVE  RegistryInv
<1>1. /\ registry \in [registered : Seq(AllPlugins), enabled : SUBSET Ids]
      /\ Unique(registry.registered)
  BY BuiltRegistry
<1>2. RegistryRecords
  <2>1. <<>> \in Seq(AllPlugins)
    OBVIOUS
  <2> QED
    BY <1>1, <2>1 DEF RegistryRecords
<1>3. Lifecycle
  BY DEF Lifecycle, Followed
<1> QED
  BY <1>2, <1>3 DEF RegistryInv

LEMMA NextRegistryKeeps ==
  ASSUME RegistryInv, NextRegistry
  PROVE  RegistryInv'
<1>1. ASSUME NEW p \in PluginsWith(Switched) \cap Custom, Register(p) PROVE RegistryInv'
  BY <1>1, RegisterKeeps
<1>2. ASSUME NEW id \in Switched, Unregister(id) PROVE RegistryInv'
  BY <1>2, UnregisterKeeps
<1>3. ASSUME NEW id \in Switched, Switch(id, TRUE) PROVE RegistryInv'
  BY <1>3, SwitchKeeps
<1>4. ASSUME NEW id \in Switched, Switch(id, FALSE) PROVE RegistryInv'
  BY <1>4, SwitchKeeps
<1>5. ASSUME BeginStartup \/ StartNext \/ CompleteStartup PROVE RegistryInv'
  BY <1>5, BeginStartupKeeps, StartNextKeeps, CompleteKeeps
<1>6. ASSUME BeginShutdown \/ StopNext \/ CompleteShutdown \/ HookRaises PROVE RegistryInv'
  BY <1>6, BeginShutdownKeeps, StopNextKeeps, CompleteKeeps, HookRaisesKeeps
<1> QED
  BY <1>1, <1>2, <1>3, <1>4, <1>5, <1>6 DEF NextRegistry

(* The registry of ToolWorkflow changes by its own steps and by a restart. *)
LEMMA RegistryInduction == Spec => []RegistryInv
<1>1. Init => RegistryInv
  <2>1. ASSUME Init PROVE states \in [Switched -> BOOLEAN \cup {None}]
    BY <2>1 DEF Init, InitRegistry
  <2> QED
    BY <2>1, FreshRegistry DEF Init, InitRegistry
<1>2. RegistryInv /\ [Next]_vars => RegistryInv'
  <2> SUFFICES ASSUME RegistryInv, [Next]_vars PROVE RegistryInv'
    OBVIOUS
  <2>1. ASSUME UNCHANGED registryVars PROVE RegistryInv'
    BY <2>1 DEF registryVars, RegistryInv, RegistryRecords, Lifecycle, Followed, Due, Todo
  <2>2. ASSUME RestartRegistry PROVE RegistryInv'
    <3>1. states \in [Switched -> BOOLEAN \cup {None}] /\ states' = states
      BY <2>2 DEF RegistryInv, RegistryRecords, RestartRegistry
    <3>2. /\ Built \in [registered : Seq(AllPlugins), enabled : SUBSET Ids]
          /\ Unique(Built.registered)
      BY <3>1, BuiltRegistry
    <3>3. /\ registry' = Built /\ running' = {}
          /\ lifespan' = [at |-> "down", started |-> FALSE, todo |-> <<>>]
          /\ history' = [touched |-> {}, misfit |-> {}, raised |-> FALSE]
      BY <2>2 DEF RestartRegistry
    <3>4. <<>> \in Seq(AllPlugins)
      OBVIOUS
    <3>5. RegistryRecords'
      BY <3>1, <3>2, <3>3, <3>4 DEF RegistryRecords
    <3>6. Lifecycle'
      BY <3>3 DEF Lifecycle, Followed
    <3> QED
      BY <3>5, <3>6 DEF RegistryInv
  <2> QED
    BY <2>1, <2>2, NextRegistryKeeps DEF Next, vars, Begin, Answer, CallRaises, Respond, Restart
<1> QED
  BY <1>1, <1>2, PTL DEF Spec

-----------------------------------------------------------------------------
(* Once the application is up, what runs of the plugins that nobody        *)
(* touched is what is registered and enabled; each was started once and    *)
(* will be shut down once.  startup, shutdown and the switches of          *)
(* PluginRegistry, whatever requests run meanwhile.                        *)
THEOREM HooksArePaired == Spec => []LifecycleIsPaired
<1>1. RegistryInv => LifecycleIsPaired
  BY DEF RegistryInv, Lifecycle, Followed, Due, Has, LifecycleIsPaired
<1> QED
  BY <1>1, RegistryInduction, PTL

-----------------------------------------------------------------------------
(* L lists the plugins at the places S, the highest priority first.        *)
Lists(registered, S, L) ==
  /\ S \subseteq DOMAIN registered
  /\ L \in Seq(AllPlugins)
  /\ Len(L) = Cardinality(S)
  /\ \A i \in 1 .. Cardinality(S) :
       /\ Place(registered, S)[i] \in S
       /\ L[i] = registered[Place(registered, S)[i]]

(* The places of the tools the registry resolves, and those of the tools   *)
(* the catalog lists.                                                      *)
ToRun(reg, tenant, industry, channel) ==
  {i \in DOMAIN reg.registered : /\ reg.registered[i].kind = "business_tool"
                                 /\ IsEnabled(reg, reg.registered[i])
                                 /\ InScope(reg.registered[i], tenant, industry, channel)}

ToOffer(reg, tenant, industry, channel, include_disabled) ==
  {i \in DOMAIN reg.registered : /\ reg.registered[i].kind = "business_tool"
                                 /\ include_disabled \/ IsEnabled(reg, reg.registered[i])
                                 /\ CatalogScope(reg.registered[i], tenant, industry, channel)}

LEMMA ResolveLists ==
  ASSUME RegistryRecords, NEW tenant, NEW industry, NEW channel
  PROVE  Lists(registry.registered, ToRun(registry, tenant, industry, channel),
               Resolve(registry, "business_tool", tenant, industry, channel))
<1> DEFINE R == registry.registered
           S == ToRun(registry, tenant, industry, channel)
<1>1. R \in Seq(AllPlugins)
  BY DEF RegistryRecords
<1>2. S \subseteq DOMAIN R
  BY DEF ToRun
<1>3. Resolve(registry, "business_tool", tenant, industry, channel) = Sorted(R, S)
  BY DEF Resolve, ToRun
<1> HIDE DEF R, S
<1>4. Places(R, S)
  BY <1>1, <1>2, RegisteredPlaces
<1> QED
  BY <1>1, <1>2, <1>3, <1>4, SortedIs DEF Lists, R, S

(* Filtering what is sorted lists what is left in the order of priority.   *)
LEMMA FilteredLists ==
  ASSUME NEW R \in Seq(AllPlugins), NEW K, K \subseteq DOMAIN R, NEW S, S \subseteq K,
         NEW places, places = {i \in DOMAIN Sorted(R, K) : Place(R, K)[i] \in S}
  PROVE  Lists(R, S, Those(Sorted(R, K), places))
<1> DEFINE tools == Sorted(R, K)
           place == Place(R, K)
           L == Those(tools, places)
           N == Cardinality(K)
<1>1. Places(R, K) /\ Places(R, S)
  BY RegisteredPlaces
<1>2. /\ tools \in Seq(AllPlugins) /\ Len(tools) = N
      /\ \A i \in 1 .. N : place[i] \in K /\ tools[i] = R[place[i]]
  BY <1>1, SortedIs
<1>3. /\ N \in Nat
      /\ \A at \in K : \E i \in 1 .. N : place[i] = at
      /\ \A i, k \in 1 .. N : i < k => ByPriority(R, place[i], place[k])
  BY <1>1, PlaceOrders DEF PlacedInOrder
<1>4. DOMAIN tools = 1 .. N
  BY <1>2
<1> HIDE DEF tools, place
<1>5. PICK at : Keeps(tools, places, Len(tools), L, at)
  BY <1>2, ThoseKeep
<1> HIDE DEF L, N
<1>6. /\ L \in Seq({tools[k] : k \in 1 .. N})
      /\ at \in [1 .. Len(L) -> 1 .. N]
      /\ \A i \in 1 .. Len(L) : at[i] \in places /\ L[i] = tools[at[i]]
      /\ \A i, k \in 1 .. Len(L) : i < k => at[i] < at[k]
      /\ \A k \in 1 .. N : k \in places => \E i \in 1 .. Len(L) : at[i] = k
  BY <1>2, <1>5 DEF Keeps
<1>7. L \in Seq(AllPlugins) /\ Len(L) \in Nat
  <2>1. \A x \in {tools[k] : k \in 1 .. N} : x \in AllPlugins
    BY <1>2, <1>4
  <2> QED
    BY <1>6, <2>1
<1> DEFINE to == [i \in 1 .. Len(L) |-> place[at[i]]]
<1>8. \A k \in 1 .. N : k \in places <=> place[k] \in S
  BY <1>4 DEF tools, place
<1>9. \A i \in 1 .. Len(L) : to[i] \in S /\ L[i] = R[to[i]]
  BY <1>2, <1>6, <1>8
<1>10. PlacedInOrder(R, S, Len(L), to)
  <2>1. to \in [1 .. Len(L) -> S]
    BY <1>9
  <2>2. \A a \in S : \E i \in 1 .. Len(L) : to[i] = a
    BY <1>3, <1>6, <1>8
  <2>3. \A i, k \in 1 .. Len(L) : i < k => ByPriority(R, to[i], to[k])
    BY <1>3, <1>6
  <2> HIDE DEF to
  <2> QED
    BY <1>7, <2>1, <2>2, <2>3 DEF PlacedInOrder
<1> HIDE DEF to
<1>11. Len(L) = Cardinality(S) /\ to = Place(R, S)
  BY <1>1, <1>10, OrderIsUnique
<1> QED
  BY <1>7, <1>9, <1>11 DEF Lists, L, tools

LEMMA CatalogLists ==
  ASSUME RegistryRecords, NEW tenant, NEW industry, NEW channel, NEW include_disabled
  PROVE  Lists(registry.registered,
               ToOffer(registry, tenant, industry, channel, include_disabled),
               ListTools(registry, tenant, industry, channel, include_disabled))
<1> DEFINE R == registry.registered
           K == {i \in DOMAIN R : R[i].kind = "business_tool"}
           S == ToOffer(registry, tenant, industry, channel, include_disabled)
           tools == Sorted(R, K)
           places == {i \in DOMAIN tools : /\ include_disabled \/ IsEnabled(registry, tools[i])
                                           /\ CatalogScope(tools[i], tenant, industry, channel)}
<1>1. R \in Seq(AllPlugins)
  BY DEF RegistryRecords
<1>2. K \subseteq DOMAIN R /\ S \subseteq K
  BY DEF ToOffer
<1>3. ListTools(registry, tenant, industry, channel, include_disabled) = Those(tools, places)
  BY DEF ListTools, PluginsOf
<1>4. \A i \in DOMAIN tools : Place(R, K)[i] \in K /\ tools[i] = R[Place(R, K)[i]]
  <2> HIDE DEF R, K
  <2>1. Places(R, K)
    BY <1>1, <1>2, RegisteredPlaces
  <2>2. /\ tools \in Seq(AllPlugins) /\ Len(tools) = Cardinality(K)
        /\ \A i \in 1 .. Cardinality(K) : Place(R, K)[i] \in K /\ tools[i] = R[Place(R, K)[i]]
    BY <1>1, <1>2, <2>1, SortedIs
  <2> HIDE DEF tools
  <2> QED
    BY <2>2
<1>5. \A at \in K : at \in S <=> /\ include_disabled \/ IsEnabled(registry, R[at])
                                 /\ CatalogScope(R[at], tenant, industry, channel)
  BY DEF ToOffer
<1>6. places = {i \in DOMAIN tools : Place(R, K)[i] \in S}
  <2> HIDE DEF R, K, S, tools
  <2> QED
    BY <1>4, <1>5
<1> HIDE DEF R, K, S, places
<1>7. Lists(R, S, Those(tools, places))
  BY <1>1, <1>2, <1>6, FilteredLists
<1> QED
  BY <1>3, <1>7 DEF R, S

(* The first plugin of a list for a tool is the one of highest priority.   *)
First(L, tool_name) ==
  LET named(plugin) == plugin.tool_name = tool_name IN FirstSuch(L, named)

IsFirst(registered, S, tool_name, a) ==
  /\ a \in S /\ registered[a].tool_name = tool_name
  /\ \A b \in S : registered[b].tool_name = tool_name /\ b # a => ByPriority(registered, a, b)

LEMMA FirstIs ==
  ASSUME NEW R \in Seq(AllPlugins), NEW S, NEW L, Lists(R, S, L), NEW tool_name
  PROVE  \/ First(L, tool_name) = None /\ \A b \in S : R[b].tool_name # tool_name
         \/ \E a \in S : IsFirst(R, S, tool_name, a) /\ First(L, tool_name) = R[a]
<1> DEFINE named == {i \in DOMAIN L : L[i].tool_name = tool_name}
           place == Place(R, S)
           N == Cardinality(S)
<1>1. /\ S \subseteq DOMAIN R /\ L \in Seq(AllPlugins) /\ Len(L) = N
      /\ \A i \in 1 .. N : place[i] \in S /\ L[i] = R[place[i]]
  BY DEF Lists
<1>2. Places(R, S)
  BY <1>1, RegisteredPlaces
<1>3. /\ N \in Nat
      /\ \A at \in S : \E i \in 1 .. N : place[i] = at
      /\ \A i, k \in 1 .. N : i < k => ByPriority(R, place[i], place[k])
  BY <1>2, PlaceOrders DEF PlacedInOrder
<1>4. First(L, tool_name) = IF named = {} THEN None
                            ELSE L[CHOOSE i \in named : \A k \in named : i <= k]
  BY DEF First, FirstSuch
<1> HIDE DEF place, N
<1>5. DOMAIN L = 1 .. N
  BY <1>1
<1>6. \A i \in 1 .. N : i \in named <=> R[place[i]].tool_name = tool_name
  BY <1>1, <1>5
<1>7. named \subseteq Nat
  BY <1>5
<1>8. CASE named = {}
  <2>1. \A b \in S : R[b].tool_name # tool_name
    BY <1>3, <1>6, <1>8
  <2> HIDE DEF named
  <2> QED
    BY <1>4, <1>8, <2>1
<1>9. CASE named # {}
  <2> DEFINE f == CHOOSE i \in named : \A k \in named : i <= k
  <2>1. named \subseteq 1 .. N
    BY <1>5
  <2> HIDE DEF named
  <2>2. \E i \in named : \A k \in named : i <= k
    BY <1>7, <1>9, LeastNatural
  <2>3. f \in named /\ \A k \in named : f <= k
    BY <2>2
  <2>4. First(L, tool_name) = L[f]
    BY <1>4, <1>9
  <2> HIDE DEF f
  <2>5. f \in 1 .. N /\ place[f] \in S /\ R[place[f]].tool_name = tool_name
        /\ First(L, tool_name) = R[place[f]]
    BY <1>1, <1>6, <2>1, <2>3, <2>4
  <2>6. ASSUME NEW b \in S, R[b].tool_name = tool_name, b # place[f]
        PROVE  ByPriority(R, place[f], b)
    <3>1. PICK k \in 1 .. N : place[k] = b
      BY <1>3
    <3>2. k \in named
      BY <1>6, <2>6, <3>1
    <3>3. f < k
      BY <1>3, <2>3, <2>5, <2>6, <3>1, <3>2
    <3> QED
      BY <1>3, <2>5, <3>1, <3>3
  <2> QED
    BY <2>5, <2>6 DEF IsFirst
<1> QED
  BY <1>8, <1>9

(* What the catalog finds and what the registry finds for a tool: the same *)
(* plugin, unless the industry is unknown and the catalog found one that   *)
(* is bound to an industry.                                                *)
LEMMA CheckedAndRun ==
  ASSUME RegistryRecords, NEW context, context.tenant_id # None, context.channel # None,
         NEW tool_name
  PROVE  LET checked == GetPlugin(registry, tool_name, context, FALSE)
             by == Executor(registry, tool_name, context)
         IN /\ checked \in AllPlugins \cup {None} /\ by \in AllPlugins \cup {None}
            /\ checked # None /\ by # checked =>
                 context.industry = None /\ checked.industry_scopes # {}
<1> DEFINE R == registry.registered
           tenant == context.tenant_id
           industry == context.industry
           channel == context.channel
           S == ToOffer(registry, tenant, industry, channel, FALSE)
           T == ToRun(registry, tenant, industry, channel)
           L == ListTools(registry, tenant, industry, channel, FALSE)
           M == Resolve(registry, "business_tool", tenant, industry, channel)
           checked == GetPlugin(registry, tool_name, context, FALSE)
           by == Executor(registry, tool_name, context)
<1>1. R \in Seq(AllPlugins) /\ \A i \in DOMAIN R : R[i] \in AllPlugins
  BY DEF RegistryRecords
<1>2. Lists(R, S, L) /\ Lists(R, T, M)
  BY CatalogLists, ResolveLists
<1>3. checked = First(L, tool_name) /\ by = First(M, tool_name)
  BY DEF GetPlugin, Executor, First
<1>4. T \subseteq S /\ S \subseteq DOMAIN R
  BY DEF ToRun, ToOffer, InScope, CatalogScope, MatchesScope
<1>5. \A a \in S : industry # None \/ R[a].industry_scopes = {} => a \in T
  BY DEF ToRun, ToOffer, InScope, CatalogScope, MatchesScope, ScopeMatch
<1> HIDE DEF R, S, T, L, M, checked, by, tenant, industry, channel
<1>6. \/ checked = None /\ \A b \in S : R[b].tool_name # tool_name
      \/ \E a \in S : IsFirst(R, S, tool_name, a) /\ checked = R[a]
  BY <1>1, <1>2, <1>3, FirstIs
<1>7. \/ by = None /\ \A b \in T : R[b].tool_name # tool_name
      \/ \E a \in T : IsFirst(R, T, tool_name, a) /\ by = R[a]
  BY <1>1, <1>2, <1>3, FirstIs
<1>8. checked \in AllPlugins \cup {None} /\ by \in AllPlugins \cup {None}
  BY <1>1, <1>4, <1>6, <1>7
<1>9. ASSUME checked # None, industry # None \/ checked.industry_scopes = {}
      PROVE  by = checked
  <2>1. PICK a \in S : IsFirst(R, S, tool_name, a) /\ checked = R[a]
    BY <1>6, <1>9
  <2>2. a \in T /\ R[a].tool_name = tool_name
    BY <1>5, <1>9, <2>1 DEF IsFirst
  <2>3. PICK b \in T : IsFirst(R, T, tool_name, b) /\ by = R[b]
    BY <1>7, <2>2
  <2>4. Places(R, S)
    BY <1>1, <1>4, RegisteredPlaces
  <2>5. a = b
    <3> SUFFICES ASSUME a # b PROVE FALSE
      OBVIOUS
    <3>1. ByPriority(R, a, b)
      BY <1>4, <2>1, <2>3 DEF IsFirst
    <3>2. ByPriority(R, b, a)
      BY <2>2, <2>3 DEF IsFirst
    <3> QED
      BY <1>4, <2>4, <3>1, <3>2, PriorityIsTotal
  <2> QED
    BY <2>1, <2>3, <2>5
<1> QED
  BY <1>8, <1>9 DEF checked, by, industry

-----------------------------------------------------------------------------
(* What the runs of ToolWorkflow keep.                                     *)
TraceItem ==
  [tool_name : STRING, status : Status, checked : AllPlugins, by : AllPlugins \cup {None}]

(* The plugin that runs is the one that was checked, or one bound to an    *)
(* industry was passed over.                                               *)
Fits(call, context) ==
  call.by # call.checked => context.industry = None /\ call.checked.industry_scopes # {}

(* A run, and what is true of its trace from its first step on.            *)
IsRun(s) ==
  /\ s = [at |-> s.at, request |-> s.request, context |-> s.context, trace |-> s.trace,
          call |-> s.call]
  /\ s.request \in Request
  /\ s.context.tenant_id # None /\ s.context.channel # None
  /\ s.trace \in Seq(TraceItem)

Follows(s) ==
  /\ Len(s.trace) <= Len(s.request.steps)
  /\ Len(s.trace) <= s.request.max_steps
  /\ \A i \in 1 .. Len(s.trace) :
       /\ s.trace[i].tool_name = s.request.steps[i].tool_name
       /\ s.trace[i].tool_name \in Allowed(s.request)
       /\ s.trace[i].status # "missing_parameter" => Fits(s.trace[i], s.context)

Succeeded(s, n) == \A i \in 1 .. n : s.trace[i].status = "success"

(* Where a run stands, by what its steps came to.                          *)
Stands(s) ==
  \/ /\ s.at = "calling" /\ Succeeded(s, Len(s.trace)) /\ Len(s.trace) < Len(s.request.steps)
     /\ Len(s.request.steps) <= s.request.max_steps
     /\ s.call.tool_name = s.request.steps[Len(s.trace) + 1].tool_name
     /\ s.call.tool_name \in Allowed(s.request)
     /\ s.call.checked \in AllPlugins /\ s.call.by \in AllPlugins \cup {None}
     /\ Fits(s.call, s.context)
  \/ s.at = "final" /\ Succeeded(s, Len(s.trace)) /\ Len(s.trace) = Len(s.request.steps)
  \/ /\ s.at = "repair_required" /\ Len(s.trace) > 0 /\ Succeeded(s, Len(s.trace) - 1)
     /\ s.trace[Len(s.trace)].status # "success"
  \/ s.at = "failed" /\ Succeeded(s, Len(s.trace)) /\ Len(s.trace) < Len(s.request.steps)

Going(s) == IsRun(s) /\ Follows(s) /\ Stands(s)

RunInv ==
  /\ run = [r \in Runner |-> run[r]]
  /\ \A r \in Runner : run[r] = Idle \/ Going(run[r])

-----------------------------------------------------------------------------
LEMMA Requests ==
  ASSUME NEW request \in Request
  PROVE  /\ request.tenant_id # None /\ request.channel # None
         /\ Len(request.steps) \in Nat /\ DOMAIN request.steps = 1 .. Len(request.steps)
         /\ \A i \in 1 .. Len(request.steps) : request.steps[i].tool_name \in STRING
         /\ request.max_steps \in Nat \ {0}
<1> DEFINE S == {request.steps[i] : i \in DOMAIN request.steps}
           steps == request.steps
<1>1. steps \in Seq(S) /\ \A i \in DOMAIN steps : steps[i].tool_name \in STRING
  BY ToolWorkflowAssumption
<1>2. Len(steps) \in Nat /\ DOMAIN steps = 1 .. Len(steps)
  <2> HIDE DEF S, steps
  <2> QED
    BY <1>1
<1> QED
  BY <1>1, <1>2, ToolWorkflowAssumption

LEMMA LocalStatus ==
  ASSUME NEW tool_name, NEW q
  PROVE  LocalExecute(tool_name, q) \in {"missing_parameter", "success", "not_found", "validation_error"}
<1>1. \A records, id : LocalLookup(records, id) \in {"missing_parameter", "success", "not_found"}
  BY DEF LocalLookup
<1>2. /\ LocalOrderStatus(q) \in {"missing_parameter", "success", "not_found"}
      /\ LocalAfterSaleStatus(q) \in {"missing_parameter", "success", "not_found"}
      /\ LocalLogisticsTracking(q) \in {"missing_parameter", "success", "not_found"}
      /\ LocalAccountLookup(q) \in {"missing_parameter", "success", "not_found"}
      /\ LocalSubscriptionLookup(q) \in {"missing_parameter", "success", "not_found"}
      /\ LocalTicketLookup(q) \in {"missing_parameter", "success", "not_found"}
      /\ LocalCourseLookup(q) \in {"missing_parameter", "success", "not_found"}
      /\ LocalProgressLookup(q) \in {"missing_parameter", "success", "not_found"}
      /\ LocalWaybillLookup(q) \in {"missing_parameter", "success", "not_found"}
      /\ LocalClaimLookup(q) \in {"missing_parameter", "success", "not_found"}
      /\ LocalCRMProfile(q) \in {"missing_parameter", "success", "not_found"}
  BY <1>1 DEF LocalOrderStatus, LocalAfterSaleStatus, LocalLogisticsTracking, LocalAccountLookup,
              LocalSubscriptionLookup, LocalTicketLookup, LocalCourseLookup, LocalProgressLookup,
              LocalWaybillLookup, LocalClaimLookup, LocalCRMProfile
<1> QED
  BY <1>2 DEF LocalExecute

(* ToolService.execute up to the call: an error, what is missing, or a     *)
(* call that fits.                                                         *)
LEMMA Prepared ==
  ASSUME RegistryRecords, NEW context, context.tenant_id # None, context.channel # None,
         NEW tool_name, NEW parameters
  PROVE  LET prepared == Prepare(registry, context, tool_name, parameters)
         IN \/ prepared.is = "validation_error"
            \/ prepared.is = "missing_parameter" /\ prepared.checked \in AllPlugins
            \/ /\ prepared.is = "call" /\ prepared.tool_name = tool_name
               /\ prepared.checked \in AllPlugins /\ prepared.by \in AllPlugins \cup {None}
               /\ Fits(prepared, context)
<1> DEFINE checked == GetPlugin(registry, tool_name, context, FALSE)
           by == Executor(registry, tool_name, context)
           prepared == Prepare(registry, context, tool_name, parameters)
           resolved == ResolveParameters(checked, context, parameters)
           final == IF by = None THEN resolved ELSE ResolveParameters(by, context, resolved)
<1>1. /\ checked \in AllPlugins \cup {None} /\ by \in AllPlugins \cup {None}
      /\ checked # None /\ by # checked =>
           context.industry = None /\ checked.industry_scopes # {}
  BY CheckedAndRun
<1>2. \/ prepared = [is |-> "validation_error"]
      \/ checked # None /\ prepared = [is |-> "missing_parameter", checked |-> checked]
      \/ checked # None /\ prepared = [is |-> "call", tool_name |-> tool_name, checked |-> checked,
                                       by |-> by, parameters |-> final]
  BY DEF Prepare
<1> HIDE DEF checked, by, prepared, final
<1>3. CASE prepared = [is |-> "validation_error"]
  BY <1>3 DEF prepared
<1>4. CASE checked # None /\ prepared = [is |-> "missing_parameter", checked |-> checked]
  <2>1. prepared.is = "missing_parameter" /\ prepared.checked = checked
    BY <1>4
  <2> QED
    BY <1>1, <1>4, <2>1 DEF prepared
<1>5. CASE checked # None /\ prepared = [is |-> "call", tool_name |-> tool_name, checked |-> checked,
                                         by |-> by, parameters |-> final]
  <2>1. /\ prepared.is = "call" /\ prepared.tool_name = tool_name
        /\ prepared.checked = checked /\ prepared.by = by
    BY <1>5
  <2> QED
    BY <1>1, <1>5, <2>1 DEF prepared, Fits
<1> QED
  BY <1>2, <1>3, <1>4, <1>5

(* A step enters the trace.                                                *)
LEMMA Entered ==
  ASSUME NEW s, IsRun(s), Follows(s), Succeeded(s, Len(s.trace)),
         Len(s.trace) < Len(s.request.steps), Len(s.request.steps) <= s.request.max_steps,
         NEW item \in TraceItem,
         item.tool_name = s.request.steps[Len(s.trace) + 1].tool_name,
         item.tool_name \in Allowed(s.request),
         item.status # "missing_parameter" => Fits(item, s.context),
         NEW t, t = [at |-> t.at, request |-> t.request, context |-> t.context, trace |-> t.trace,
                     call |-> t.call],
         t.request = s.request, t.context = s.context, t.trace = Append(s.trace, item)
  PROVE  /\ IsRun(t) /\ Follows(t)
         /\ Len(t.trace) = Len(s.trace) + 1 /\ t.trace[Len(t.trace)] = item
         /\ Succeeded(t, Len(s.trace))
<1> DEFINE n == Len(s.trace)
<1>1. /\ s.trace \in Seq(TraceItem) /\ s.request \in Request
      /\ s.context.tenant_id # None /\ s.context.channel # None
  BY DEF IsRun
<1>2. /\ n \in Nat /\ Len(s.request.steps) \in Nat /\ s.request.max_steps \in Nat
  BY <1>1, Requests
<1>3. /\ t.trace \in Seq(TraceItem) /\ Len(t.trace) = n + 1 /\ t.trace[n + 1] = item
      /\ \A i \in 1 .. n : t.trace[i] = s.trace[i]
  <2> DEFINE trace == s.trace
  <2>1. trace \in Seq(TraceItem) /\ t.trace = Append(trace, item) /\ n = Len(trace)
    BY <1>1
  <2> HIDE DEF trace, n
  <2>2. Append(trace, item) \in Seq(TraceItem) /\ Len(Append(trace, item)) = Len(trace) + 1
        /\ Append(trace, item)[Len(trace) + 1] = item
        /\ \A i \in 1 .. Len(trace) : Append(trace, item)[i] = trace[i]
    BY <2>1
  <2> QED
    BY <2>1, <2>2 DEF trace
<1>4. IsRun(t)
  BY <1>1, <1>3 DEF IsRun
<1>5. \A i \in 1 .. n :
        /\ s.trace[i].tool_name = s.request.steps[i].tool_name
        /\ s.trace[i].tool_name \in Allowed(s.request)
        /\ s.trace[i].status # "missing_parameter" => Fits(s.trace[i], s.context)
  BY DEF Follows
<1>6. Succeeded(s, n) /\ n < Len(s.request.steps)
  OBVIOUS
<1> HIDE DEF n
<1>7. Follows(t)
  <2> SUFFICES ASSUME NEW i \in 1 .. n + 1
               PROVE  /\ t.trace[i].tool_name = t.request.steps[i].tool_name
                      /\ t.trace[i].tool_name \in Allowed(t.request)
                      /\ t.trace[i].status # "missing_parameter" => Fits(t.trace[i], t.context)
    BY <1>2, <1>3, <1>6 DEF Follows
  <2>1. CASE i \in 1 .. n
    BY <1>3, <1>5, <2>1
  <2>2. CASE i = n + 1
    BY <1>3, <2>2 DEF n
  <2>3. i \in 1 .. n \/ i = n + 1
    BY <1>2
  <2> QED
    BY <2>1, <2>2, <2>3
<1>8. Succeeded(t, n)
  BY <1>3, <1>6 DEF Succeeded
<1> QED
  BY <1>3, <1>4, <1>7, <1>8 DEF n

(* The fields of a run that a step writes.                                 *)
LEMMA RunRecord ==
  ASSUME NEW s, s = [at |-> s.at, request |-> s.request, context |-> s.context,
                     trace |-> s.trace, call |-> s.call]
  PROVE  /\ \A at, call : [s EXCEPT !.at = at, !.call = call]
                           = [at |-> at, request |-> s.request, context |-> s.context,
                              trace |-> s.trace, call |-> call]
         /\ \A at, item : [s EXCEPT !.at = at, !.trace = Append(@, item)]
                           = [at |-> at, request |-> s.request, context |-> s.context,
                              trace |-> Append(s.trace, item), call |-> s.call]
         /\ \A at : [s EXCEPT !.at = at]
                     = [at |-> at, request |-> s.request, context |-> s.context,
                        trace |-> s.trace, call |-> s.call]
         /\ \A item, call : [s EXCEPT !.trace = Append(@, item), !.call = call]
                             = [at |-> s.at, request |-> s.request, context |-> s.context,
                                trace |-> Append(s.trace, item), call |-> call]
<1>0. DOMAIN s = {"at", "request", "context", "trace", "call"}
  OBVIOUS
<1>1. ASSUME NEW at, NEW call
      PROVE  [s EXCEPT !.at = at, !.call = call]
               = [at |-> at, request |-> s.request, context |-> s.context,
                  trace |-> s.trace, call |-> call]
  <2> DEFINE t == [s EXCEPT !.at = at, !.call = call]
  <2>1. DOMAIN t = {"at", "request", "context", "trace", "call"}
    BY <1>0
  <2>2. /\ t.at = at /\ t.trace = s.trace /\ t.call = call
        /\ t.request = s.request /\ t.context = s.context
    BY <1>0
  <2>3. t = [i \in DOMAIN t |-> t[i]]
    OBVIOUS
  <2> HIDE DEF t
  <2>4. t = [at |-> at, request |-> s.request, context |-> s.context,
             trace |-> s.trace, call |-> call]
    BY <2>1, <2>2, <2>3
  <2> QED
    BY <2>4 DEF t
<1>2. ASSUME NEW at, NEW item
      PROVE  [s EXCEPT !.at = at, !.trace = Append(@, item)]
               = [at |-> at, request |-> s.request, context |-> s.context,
                  trace |-> Append(s.trace, item), call |-> s.call]
  <2> DEFINE t == [s EXCEPT !.at = at, !.trace = Append(@, item)]
  <2>1. DOMAIN t = {"at", "request", "context", "trace", "call"}
    BY <1>0
  <2>2. /\ t.at = at /\ t.trace = Append(s.trace, item) /\ t.call = s.call
        /\ t.request = s.request /\ t.context = s.context
    BY <1>0
  <2>3. t = [i \in DOMAIN t |-> t[i]]
    OBVIOUS
  <2> HIDE DEF t
  <2>4. t = [at |-> at, request |-> s.request, context |-> s.context,
             trace |-> Append(s.trace, item), call |-> s.call]
    BY <2>1, <2>2, <2>3
  <2> QED
    BY <2>4 DEF t
<1>3. ASSUME NEW at
      PROVE  [s EXCEPT !.at = at]
               = [at |-> at, request |-> s.request, context |-> s.context,
                  trace |-> s.trace, call |-> s.call]
  <2> DEFINE t == [s EXCEPT !.at = at]
  <2>1. DOMAIN t = {"at", "request", "context", "trace", "call"}
    BY <1>0
  <2>2. /\ t.at = at /\ t.trace = s.trace /\ t.call = s.call
        /\ t.request = s.request /\ t.context = s.context
    BY <1>0
  <2>3. t = [i \in DOMAIN t |-> t[i]]
    OBVIOUS
  <2> HIDE DEF t
  <2>4. t = [at |-> at, request |-> s.request, context |-> s.context,
             trace |-> s.trace, call |-> s.call]
    BY <2>1, <2>2, <2>3
  <2> QED
    BY <2>4 DEF t
<1>4. ASSUME NEW item, NEW call
      PROVE  [s EXCEPT !.trace = Append(@, item), !.call = call]
               = [at |-> s.at, request |-> s.request, context |-> s.context,
                  trace |-> Append(s.trace, item), call |-> call]
  <2> DEFINE t == [s EXCEPT !.trace = Append(@, item), !.call = call]
  <2>1. DOMAIN t = {"at", "request", "context", "trace", "call"}
    BY <1>0
  <2>2. /\ t.at = s.at /\ t.trace = Append(s.trace, item) /\ t.call = call
        /\ t.request = s.request /\ t.context = s.context
    BY <1>0
  <2>3. t = [i \in DOMAIN t |-> t[i]]
    OBVIOUS
  <2> HIDE DEF t
  <2>4. t = [at |-> s.at, request |-> s.request, context |-> s.context,
             trace |-> Append(s.trace, item), call |-> call]
    BY <2>1, <2>2, <2>3
  <2> QED
    BY <2>4 DEF t
<1> QED
  BY <1>1, <1>2, <1>3, <1>4

(* A run that goes on after its steps succeeded.                           *)
LEMMA Continues ==
  ASSUME RegistryRecords, NEW s, IsRun(s), Follows(s), Succeeded(s, Len(s.trace)),
         Len(s.request.steps) <= s.request.max_steps
  PROVE  Going(Continue(s))
<1> DEFINE k == Len(s.trace) + 1
           step == s.request.steps[k]
           prepared == Prepare(registry, s.context, step.tool_name, step.parameters)
           asked == [tool_name |-> step.tool_name, status |-> "missing_parameter",
                     checked |-> prepared.checked, by |-> None]
           R(at, trace, call) == [at |-> at, request |-> s.request, context |-> s.context,
                                  trace |-> trace, call |-> call]
           next == Continue(s)
<1>1. /\ s = [at |-> s.at, request |-> s.request, context |-> s.context, trace |-> s.trace,
              call |-> s.call]
      /\ s.trace \in Seq(TraceItem) /\ s.request \in Request
      /\ s.context.tenant_id # None /\ s.context.channel # None
  BY DEF IsRun
<1>2. /\ Len(s.trace) \in Nat /\ Len(s.request.steps) \in Nat /\ s.request.max_steps \in Nat
      /\ Len(s.trace) <= Len(s.request.steps)
      /\ \A i \in 1 .. Len(s.request.steps) : s.request.steps[i].tool_name \in STRING
  <2>1. Len(s.trace) \in Nat
    BY <1>1
  <2> QED
    BY <1>1, <2>1, Requests DEF Follows
<1>3. \A at, call : [s EXCEPT !.at = at, !.call = call] = R(at, s.trace, call)
  BY <1>1, RunRecord
<1>4. \A at, item : [s EXCEPT !.at = at, !.trace = Append(@, item)]
                      = R(at, Append(s.trace, item), s.call)
  BY <1>1, RunRecord
<1>5. \A at : [s EXCEPT !.at = at] = R(at, s.trace, s.call)
  BY <1>1, RunRecord
<1>6. \/ prepared.is = "validation_error"
      \/ prepared.is = "missing_parameter" /\ prepared.checked \in AllPlugins
      \/ /\ prepared.is = "call" /\ prepared.tool_name = step.tool_name
         /\ prepared.checked \in AllPlugins /\ prepared.by \in AllPlugins \cup {None}
         /\ Fits(prepared, s.context)
  BY <1>1, Prepared
<1> DEFINE answer == CASE prepared.is = "validation_error" ->
                            [s EXCEPT !.at = "failed", !.call = "validation_error"]
                       [] prepared.is = "missing_parameter" ->
                            [s EXCEPT !.at = "repair_required", !.trace = Append(@, asked)]
                       [] prepared.is = "call" -> [s EXCEPT !.at = "calling", !.call = prepared]
<1>7. next = IF k > Len(s.request.steps) THEN [s EXCEPT !.at = "final"]
             ELSE IF step.tool_name \notin Allowed(s.request)
             THEN [s EXCEPT !.at = "failed", !.call = "forbidden"]
             ELSE answer
  BY DEF Continue
<1> HIDE DEF next, prepared, asked, answer
<1>8. \/ k > Len(s.request.steps) /\ next = R("final", s.trace, s.call)
      \/ k <= Len(s.request.steps) /\ \E call : next = R("failed", s.trace, call)
      \/ /\ k <= Len(s.request.steps) /\ step.tool_name \in Allowed(s.request)
         /\ prepared.is = "missing_parameter"
         /\ next = R("repair_required", Append(s.trace, asked), s.call)
      \/ /\ k <= Len(s.request.steps) /\ step.tool_name \in Allowed(s.request)
         /\ prepared.is = "call" /\ next = R("calling", s.trace, prepared)
  <2>1. CASE k > Len(s.request.steps)
    BY <1>5, <1>7, <2>1
  <2>2. CASE k <= Len(s.request.steps) /\ step.tool_name \notin Allowed(s.request)
    <3>1. next = [s EXCEPT !.at = "failed", !.call = "forbidden"]
      BY <1>2, <1>7, <2>2
    <3> QED
      BY <1>3, <2>2, <3>1
  <2>3. CASE k <= Len(s.request.steps) /\ step.tool_name \in Allowed(s.request)
    <3>1. next = answer
      BY <1>2, <1>7, <2>3
    <3>2. CASE prepared.is = "validation_error"
      <4>1. next = [s EXCEPT !.at = "failed", !.call = "validation_error"]
        BY <3>1, <3>2 DEF answer
      <4> QED
        BY <1>3, <2>3, <4>1
    <3>3. CASE prepared.is = "missing_parameter"
      <4>1. next = [s EXCEPT !.at = "repair_required", !.trace = Append(@, asked)]
        BY <3>1, <3>3 DEF answer
      <4> QED
        BY <1>4, <2>3, <3>3, <4>1
    <3>4. CASE prepared.is = "call"
      <4>1. next = [s EXCEPT !.at = "calling", !.call = prepared]
        BY <3>1, <3>4 DEF answer
      <4> QED
        BY <1>3, <2>3, <3>4, <4>1
    <3> QED
      BY <1>6, <3>2, <3>3, <3>4
  <2> QED
    BY <1>2, <2>1, <2>2, <2>3
<1>9. ASSUME NEW at, NEW call, next = R(at, s.trace, call)
      PROVE  /\ next.at = at /\ next.call = call /\ next.trace = s.trace
             /\ next.request = s.request /\ next.context = s.context
             /\ IsRun(next) /\ Follows(next) /\ Succeeded(next, Len(next.trace))
  <2>1. /\ next.at = at /\ next.call = call /\ next.trace = s.trace
        /\ next.request = s.request /\ next.context = s.context
        /\ next = [at |-> next.at, request |-> next.request, context |-> next.context,
                   trace |-> next.trace, call |-> next.call]
    BY <1>9
  <2>2. IsRun(next)
    BY <1>1, <2>1 DEF IsRun
  <2>3. Follows(next)
    BY <2>1 DEF Follows
  <2>4. Succeeded(next, Len(next.trace))
    BY <2>1 DEF Succeeded
  <2> QED
    BY <2>1, <2>2, <2>3, <2>4
<1>10. CASE k > Len(s.request.steps) /\ next = R("final", s.trace, s.call)
  <2>1. Len(s.trace) = Len(s.request.steps)
    BY <1>2, <1>10
  <2> QED
    BY <1>9, <1>10, <2>1 DEF Going, Stands, next
<1>11. CASE k <= Len(s.request.steps) /\ \E call : next = R("failed", s.trace, call)
  <2>1. PICK call : next = R("failed", s.trace, call)
    BY <1>11
  <2>2. Len(s.trace) < Len(s.request.steps)
    BY <1>2, <1>11
  <2> QED
    BY <1>9, <2>1, <2>2 DEF Going, Stands, next
<1>12. CASE /\ k <= Len(s.request.steps) /\ step.tool_name \in Allowed(s.request)
            /\ prepared.is = "call" /\ next = R("calling", s.trace, prepared)
  <2>1. /\ prepared.tool_name = step.tool_name
        /\ prepared.checked \in AllPlugins /\ prepared.by \in AllPlugins \cup {None}
        /\ Fits(prepared, s.context)
    BY <1>6, <1>12
  <2>2. Len(s.trace) < Len(s.request.steps)
    BY <1>2, <1>12
  <2> QED
    BY <1>9, <1>12, <2>1, <2>2 DEF Going, Stands, next
<1>13. CASE /\ k <= Len(s.request.steps) /\ step.tool_name \in Allowed(s.request)
            /\ prepared.is = "missing_parameter"
            /\ next = R("repair_required", Append(s.trace, asked), s.call)
  <2>1. /\ asked \in TraceItem /\ asked.tool_name = step.tool_name
        /\ asked.status = "missing_parameter" /\ asked.tool_name \in Allowed(s.request)
    BY <1>2, <1>6, <1>13 DEF asked, TraceItem, Status
  <2>2. /\ next.at = "repair_required" /\ next.trace = Append(s.trace, asked)
        /\ next.request = s.request /\ next.context = s.context
        /\ next = [at |-> next.at, request |-> next.request, context |-> next.context,
                   trace |-> next.trace, call |-> next.call]
    BY <1>13
  <2>3. Len(s.trace) < Len(s.request.steps)
    BY <1>2, <1>13
  <2>4. /\ IsRun(next) /\ Follows(next)
        /\ Len(next.trace) = Len(s.trace) + 1 /\ next.trace[Len(next.trace)] = asked
        /\ Succeeded(next, Len(s.trace))
    BY <2>1, <2>2, <2>3, Entered
  <2>5. Len(next.trace) - 1 = Len(s.trace) /\ Len(next.trace) > 0
    BY <1>2, <2>4
  <2> QED
    BY <2>1, <2>2, <2>4, <2>5 DEF Going, Stands, next
<1> QED
  BY <1>8, <1>10, <1>11, <1>12, <1>13

-----------------------------------------------------------------------------
(* The steps of one run leave the others alone.                            *)
LEMMA OneRun ==
  ASSUME RunInv, NEW r \in Runner, NEW s, s = Idle \/ Going(s), run' = [run EXCEPT ![r] = s]
  PROVE  RunInv'
<1>1. run = [q \in Runner |-> run[q]] /\ \A q \in Runner : run[q] = Idle \/ Going(run[q])
  BY DEF RunInv
<1>2. run' = [q \in Runner |-> IF q = r THEN s ELSE run[q]]
  BY <1>1
<1>3. run' = [q \in Runner |-> run'[q]]
  BY <1>2
<1>4. \A q \in Runner : run'[q] = Idle \/ Going(run'[q])
  BY <1>1, <1>2
<1> QED
  BY <1>3, <1>4 DEF RunInv, Going, IsRun, Follows, Succeeded, Stands

LEMMA GoingIsNotIdle ==
  ASSUME NEW s
  PROVE  /\ Idle.at = "idle"
         /\ Going(s) => s.at \in {"calling", "final", "repair_required", "failed"}
  BY DEF Idle, Going, Stands

LEMMA BeginKeeps ==
  ASSUME RegistryRecords, RunInv, NEW r \in Runner, Begin(r)
  PROVE  RunInv'
<1>1. PICK request \in Request :
        LET context == Build(registry, request.tenant_id, request.channel, request.sent, None)
            fresh == [at |-> "begun", request |-> request, context |-> context,
                      trace |-> <<>>, call |-> None]
        IN run' = [run EXCEPT ![r] =
                     IF Len(request.steps) > request.max_steps
                     THEN [fresh EXCEPT !.at = "failed", !.call = "validation_error"]
                     ELSE Continue(fresh)]
  BY DEF Begin
<1> DEFINE context == Build(registry, request.tenant_id, request.channel, request.sent, None)
           fresh == [at |-> "begun", request |-> request, context |-> context,
                     trace |-> <<>>, call |-> None]
           failed == [fresh EXCEPT !.at = "failed", !.call = "validation_error"]
           next == IF Len(request.steps) > request.max_steps THEN failed ELSE Continue(fresh)
<1>2. run' = [run EXCEPT ![r] = next]
  BY <1>1
<1>3. context.tenant_id = request.tenant_id /\ context.channel = request.channel
  BY DEF Build, Enriched
<1>4. /\ request.tenant_id # None /\ request.channel # None
      /\ Len(request.steps) \in Nat /\ request.max_steps \in Nat \ {0}
  BY Requests
<1> HIDE DEF context
<1>5. /\ fresh = [at |-> fresh.at, request |-> fresh.request, context |-> fresh.context,
                  trace |-> fresh.trace, call |-> fresh.call]
      /\ fresh.request = request /\ fresh.context = context /\ fresh.trace = <<>>
  OBVIOUS
<1>6. failed = [at |-> "failed", request |-> request, context |-> context, trace |-> <<>>,
                call |-> "validation_error"]
  <2> HIDE DEF fresh
  <2>1. failed = [at |-> "failed", request |-> fresh.request, context |-> fresh.context,
                  trace |-> fresh.trace, call |-> "validation_error"]
    BY <1>5, RunRecord
  <2> HIDE DEF failed
  <2> QED
    BY <1>5, <2>1
<1> HIDE DEF fresh
<1>7. <<>> \in Seq(TraceItem) /\ Len(<<>>) = 0
  OBVIOUS
<1>8. IsRun(fresh) /\ Follows(fresh) /\ Succeeded(fresh, Len(fresh.trace))
  BY <1>3, <1>4, <1>5, <1>7 DEF IsRun, Follows, Succeeded
<1>9. CASE Len(request.steps) > request.max_steps
  <2>1. next = failed
    BY <1>9
  <2> HIDE DEF failed, next
  <2>2. /\ failed = [at |-> failed.at, request |-> failed.request, context |-> failed.context,
                     trace |-> failed.trace, call |-> failed.call]
        /\ failed.at = "failed" /\ failed.request = request /\ failed.context = context
        /\ failed.trace = <<>>
    BY <1>6
  <2>3. IsRun(failed) /\ Follows(failed)
    BY <1>3, <1>4, <1>7, <2>2 DEF IsRun, Follows
  <2>4. Len(failed.trace) < Len(failed.request.steps) /\ Succeeded(failed, Len(failed.trace))
    BY <1>4, <1>7, <1>9, <2>2 DEF Succeeded
  <2>5. Going(failed)
    BY <2>2, <2>3, <2>4 DEF Going, Stands
  <2> QED
    BY <1>2, <2>1, <2>5, OneRun
<1>10. CASE Len(request.steps) <= request.max_steps
  <2>1. next = Continue(fresh)
    BY <1>4, <1>10
  <2> HIDE DEF next
  <2>2. Going(Continue(fresh))
    BY <1>5, <1>8, <1>10, Continues
  <2> QED
    BY <1>2, <2>1, <2>2, OneRun
<1> QED
  BY <1>4, <1>9, <1>10

LEMMA AnswerKeeps ==
  ASSUME RegistryRecords, RunInv, NEW r \in Runner, Answer(r)
  PROVE  RunInv'
<1> DEFINE s == run[r]
<1>1. PICK status \in Answers(s.call) :
        LET item == [tool_name |-> s.call.tool_name, status |-> status,
                     checked |-> s.call.checked, by |-> s.call.by]
            after == [s EXCEPT !.trace = Append(@, item), !.call = None]
        IN run' = [run EXCEPT ![r] = IF status = "success" THEN Continue(after)
                                     ELSE [after EXCEPT !.at = "repair_required"]]
  BY DEF Answer
<1>2. s.at = "calling" /\ (s = Idle \/ Going(s))
  BY DEF Answer, RunInv
<1> DEFINE item == [tool_name |-> s.call.tool_name, status |-> status,
                    checked |-> s.call.checked, by |-> s.call.by]
           after == [s EXCEPT !.trace = Append(@, item), !.call = None]
           repair == [after EXCEPT !.at = "repair_required"]
           next == IF status = "success" THEN Continue(after) ELSE repair
<1>3. run' = [run EXCEPT ![r] = next]
  BY <1>1
<1>4. status \in Status
  <2>1. LocalExecute(s.call.tool_name, s.call.parameters)
          \in {"missing_parameter", "success", "not_found", "validation_error"}
    BY LocalStatus
  <2> QED
    BY <2>1 DEF Answers, Status
<1> HIDE DEF s, next
<1>5. /\ IsRun(s) /\ Follows(s) /\ Succeeded(s, Len(s.trace)) /\ Len(s.trace) < Len(s.request.steps)
      /\ Len(s.request.steps) <= s.request.max_steps
      /\ s.call.tool_name = s.request.steps[Len(s.trace) + 1].tool_name
      /\ s.call.tool_name \in Allowed(s.request)
      /\ s.call.checked \in AllPlugins /\ s.call.by \in AllPlugins \cup {None}
      /\ Fits(s.call, s.context)
  BY <1>2, GoingIsNotIdle DEF Going, Stands
<1>6. /\ s = [at |-> s.at, request |-> s.request, context |-> s.context, trace |-> s.trace,
              call |-> s.call]
      /\ s.request \in Request /\ s.trace \in Seq(TraceItem)
  BY <1>5 DEF IsRun
<1>7. Len(s.trace) \in Nat /\ Len(s.request.steps) \in Nat
      /\ \A i \in 1 .. Len(s.request.steps) : s.request.steps[i].tool_name \in STRING
  BY <1>6, Requests
<1>8. s.call.tool_name \in STRING
  <2>1. Len(s.trace) + 1 \in 1 .. Len(s.request.steps)
    BY <1>5, <1>7
  <2> QED
    BY <1>5, <1>7, <2>1
<1>9. /\ item \in TraceItem /\ item.tool_name = s.call.tool_name /\ item.status = status
      /\ Fits(item, s.context)
  BY <1>4, <1>5, <1>8 DEF TraceItem, Fits
<1>10. after = [at |-> s.at, request |-> s.request, context |-> s.context,
                trace |-> Append(s.trace, item), call |-> None]
  <2> HIDE DEF item
  <2> QED
    BY <1>6, RunRecord
<1> HIDE DEF item, after
<1>11. /\ after = [at |-> after.at, request |-> after.request, context |-> after.context,
                   trace |-> after.trace, call |-> after.call]
       /\ after.request = s.request /\ after.context = s.context
       /\ after.trace = Append(s.trace, item)
  BY <1>10
<1>12. /\ IsRun(after) /\ Follows(after)
       /\ Len(after.trace) = Len(s.trace) + 1 /\ after.trace[Len(after.trace)] = item
       /\ Succeeded(after, Len(s.trace))
  BY <1>5, <1>9, <1>11, Entered
<1>13. CASE status = "success"
  <2>1. Succeeded(after, Len(after.trace))
    <3> SUFFICES ASSUME NEW i \in 1 .. Len(after.trace) PROVE after.trace[i].status = "success"
      BY DEF Succeeded
    <3>1. i \in 1 .. Len(s.trace) \/ i = Len(after.trace)
      BY <1>7, <1>12
    <3> QED
      BY <1>9, <1>12, <1>13, <3>1 DEF Succeeded
  <2>2. Going(Continue(after))
    BY <1>5, <1>11, <1>12, <2>1, Continues
  <2>3. next = Continue(after)
    BY <1>13 DEF next
  <2> QED
    BY <1>3, <2>2, <2>3, OneRun
<1>14. CASE status # "success"
  <2>1. repair = [at |-> "repair_required", request |-> after.request, context |-> after.context,
                  trace |-> after.trace, call |-> after.call]
    BY <1>11, RunRecord
  <2>2. next = repair
    BY <1>14 DEF next
  <2> HIDE DEF repair
  <2>3. /\ repair = [at |-> repair.at, request |-> repair.request, context |-> repair.context,
                     trace |-> repair.trace, call |-> repair.call]
        /\ repair.at = "repair_required" /\ repair.request = after.request
        /\ repair.context = after.context /\ repair.trace = after.trace
    BY <2>1
  <2>4. IsRun(repair) /\ Follows(repair)
    BY <1>12, <2>3 DEF IsRun, Follows
  <2>5. /\ Len(repair.trace) > 0 /\ Len(repair.trace) - 1 = Len(s.trace)
        /\ repair.trace[Len(repair.trace)].status # "success"
    BY <1>7, <1>9, <1>12, <1>14, <2>3
  <2>6. Succeeded(repair, Len(repair.trace) - 1)
    BY <1>12, <2>3, <2>5 DEF Succeeded
  <2>7. Going(repair)
    BY <2>3, <2>4, <2>5, <2>6 DEF Going, Stands
  <2> QED
    BY <1>3, <2>2, <2>7, OneRun
<1> QED
  BY <1>13, <1>14

LEMMA CallRaisesKeeps ==
  ASSUME RunInv, NEW r \in Runner, CallRaises(r)
  PROVE  RunInv'
<1> DEFINE s == run[r]
           t == [s EXCEPT !.at = "failed", !.call = "raised"]
<1>1. s.at = "calling" /\ run' = [run EXCEPT ![r] = t] /\ (s = Idle \/ Going(s))
  BY DEF CallRaises, RunInv
<1> HIDE DEF s
<1>2. /\ IsRun(s) /\ Follows(s) /\ Succeeded(s, Len(s.trace)) /\ Len(s.trace) < Len(s.request.steps)
  BY <1>1, GoingIsNotIdle DEF Going, Stands
<1>3. t = [at |-> "failed", request |-> s.request, context |-> s.context, trace |-> s.trace,
           call |-> "raised"]
  BY <1>2, RunRecord DEF IsRun
<1> HIDE DEF t
<1>4. /\ t = [at |-> t.at, request |-> t.request, context |-> t.context, trace |-> t.trace,
              call |-> t.call]
      /\ t.at = "failed" /\ t.request = s.request /\ t.context = s.context /\ t.trace = s.trace
  BY <1>3
<1>5. IsRun(t) /\ Follows(t) /\ Succeeded(t, Len(t.trace)) /\ Len(t.trace) < Len(t.request.steps)
  BY <1>2, <1>4 DEF IsRun, Follows, Succeeded
<1>6. Going(t)
  BY <1>4, <1>5 DEF Going, Stands
<1> QED
  BY <1>1, <1>6, OneRun

LEMMA RunInduction == Spec => []RunInv
<1>1. Init => RunInv
  <2> SUFFICES ASSUME Init PROVE RunInv
    OBVIOUS
  <2>1. run = [r \in Runner |-> Idle]
    BY DEF Init
  <2> QED
    BY <2>1 DEF RunInv
<1>2. RunInv /\ RegistryInv /\ [Next]_vars => RunInv'
  <2> SUFFICES ASSUME RunInv, RegistryInv, [Next]_vars PROVE RunInv'
    OBVIOUS
  <2>0. RegistryRecords
    BY DEF RegistryInv
  <2>1. ASSUME UNCHANGED run PROVE RunInv'
    BY <2>1 DEF RunInv, Going, IsRun, Follows, Succeeded, Stands
  <2>2. ASSUME NEW r \in Runner, Begin(r) PROVE RunInv'
    BY <2>0, <2>2, BeginKeeps
  <2>3. ASSUME NEW r \in Runner, Answer(r) PROVE RunInv'
    BY <2>0, <2>3, AnswerKeeps
  <2>4. ASSUME NEW r \in Runner, CallRaises(r) PROVE RunInv'
    BY <2>4, CallRaisesKeeps
  <2>5. ASSUME NEW r \in Runner, Respond(r) PROVE RunInv'
    <3>1. run' = [run EXCEPT ![r] = Idle]
      BY <2>5 DEF Respond
    <3> QED
      BY <3>1, OneRun
  <2>6. ASSUME Restart PROVE RunInv'
    <3>1. run' = [r \in Runner |-> Idle]
      BY <2>6 DEF Restart
    <3>2. run' = [r \in Runner |-> run'[r]] /\ \A r \in Runner : run'[r] = Idle
      BY <3>1
    <3> QED
      BY <3>2 DEF RunInv
  <2> QED
    BY <2>1, <2>2, <2>3, <2>4, <2>5, <2>6 DEF Next, vars
<1> QED
  BY <1>1, <1>2, RegistryInduction, PTL DEF Spec

(* What TypeOK says of the registry, the requests and their traces.        *)
THEOREM TypeCorrect == Spec => []TypeOK
<1>1. RegistryInv /\ RunInv => TypeOK
  <2> SUFFICES ASSUME RegistryInv, RunInv PROVE TypeOK
    OBVIOUS
  <2>1. RegistryTypeOK
    BY DEF RegistryInv, RegistryRecords, RegistryTypeOK, Ids
  <2>2. ASSUME NEW r \in Runner
        PROVE  /\ run[r].at \in {"idle", "calling", "final", "repair_required", "failed"}
               /\ run[r].at # "idle" =>
                    /\ run[r].request \in Request
                    /\ \A i \in DOMAIN run[r].trace : IsTraceItem(run[r].trace[i])
               /\ run[r].at = "calling" => run[r].call.checked \in AllPlugins
    <3>1. run[r] = Idle \/ Going(run[r])
      BY DEF RunInv
    <3>2. CASE run[r] = Idle
      BY <3>2, GoingIsNotIdle
    <3>3. CASE Going(run[r])
      <4> DEFINE trace == run[r].trace
      <4>1. trace \in Seq(TraceItem) /\ run[r].request \in Request
        BY <3>3 DEF Going, IsRun
      <4>2. run[r].at \in {"calling", "final", "repair_required", "failed"}
        BY <3>3, GoingIsNotIdle
      <4>3. run[r].at = "calling" => run[r].call.checked \in AllPlugins
        BY <3>3 DEF Going, Stands
      <4> HIDE DEF trace
      <4>4. \A i \in DOMAIN trace : trace[i] \in TraceItem
        BY <4>1
      <4>5. \A item \in TraceItem : IsTraceItem(item)
        BY DEF TraceItem, IsTraceItem
      <4>6. \A i \in DOMAIN trace : IsTraceItem(trace[i])
        BY <4>4, <4>5
      <4> QED
        BY <4>1, <4>2, <4>3, <4>6 DEF trace
    <3> QED
      BY <3>1, <3>2, <3>3
  <2> QED
    BY <2>1, <2>2 DEF TypeOK
<1> QED
  BY <1>1, RegistryInduction, RunInduction, PTL

(* However the plugins change under it, a workflow keeps to its plan, ends *)
(* final only when every step succeeded, and runs the plugin it checked    *)
(* unless that one is bound to an industry that is unknown: run_workflow   *)
(* of AgentToolWorkflow and execute of ToolService.                        *)
THEOREM PlansAreFollowed == Spec => []StepsFollowThePlan
<1>1. RunInv => StepsFollowThePlan
  <2> SUFFICES ASSUME RunInv, NEW r \in Runner, run[r].at # "idle"
               PROVE  LET steps == run[r].request.steps
                          trace == run[r].trace
                          calls == {trace[i] : i \in {k \in DOMAIN trace :
                                                        trace[k].status # "missing_parameter"}}
                                   \cup (IF run[r].at = "calling" THEN {run[r].call} ELSE {})
                          succeeded == {i \in DOMAIN trace : trace[i].status = "success"}
                      IN /\ Len(trace) <= run[r].request.max_steps
                         /\ \A i \in DOMAIN trace : trace[i].tool_name = steps[i].tool_name
                         /\ \A i \in 1 .. Len(trace) - 1 : i \in succeeded
                         /\ run[r].at = "final" <=> (succeeded = DOMAIN steps)
                         /\ run[r].at = "repair_required" <=> (DOMAIN trace \ succeeded # {})
                         /\ \A call \in calls :
                              /\ call.tool_name \in Allowed(run[r].request)
                              /\ call.by # call.checked =>
                                   run[r].context.industry = None /\ call.checked.industry_scopes # {}
    BY DEF StepsFollowThePlan
  <2> DEFINE s == run[r]
             trace == s.trace
             n == Len(s.trace)
             m == Len(s.request.steps)
             steps == s.request.steps
             succeeded == {i \in DOMAIN trace : trace[i].status = "success"}
             calls == {trace[i] : i \in {k \in DOMAIN trace : trace[k].status # "missing_parameter"}}
                      \cup (IF s.at = "calling" THEN {s.call} ELSE {})
  <2>1. Going(s)
    BY GoingIsNotIdle DEF RunInv
  <2> HIDE DEF s
  <2>2. s.request \in Request /\ s.trace \in Seq(TraceItem)
    BY <2>1 DEF Going, IsRun
  <2>3. n \in Nat /\ DOMAIN trace = 1 .. n /\ m \in Nat /\ DOMAIN steps = 1 .. m
    BY <2>2, Requests
  <2>4. /\ n <= m /\ n <= s.request.max_steps
        /\ \A i \in 1 .. n :
             /\ trace[i].tool_name = steps[i].tool_name
             /\ trace[i].tool_name \in Allowed(s.request)
             /\ trace[i].status # "missing_parameter" => Fits(trace[i], s.context)
    BY <2>1 DEF Going, Follows
  <2>5. \A i \in 1 .. n : i \in succeeded <=> trace[i].status = "success"
    BY <2>3
  <2>6. succeeded \subseteq 1 .. n
    BY <2>3
  <2>7. \/ /\ s.at = "calling" /\ Succeeded(s, n) /\ n < m
           /\ s.call.tool_name \in Allowed(s.request) /\ Fits(s.call, s.context)
        \/ s.at = "final" /\ Succeeded(s, n) /\ n = m
        \/ s.at = "repair_required" /\ n > 0 /\ Succeeded(s, n - 1) /\ trace[n].status # "success"
        \/ s.at = "failed" /\ Succeeded(s, n) /\ n < m
    BY <2>1 DEF Going, Stands
  <2>8. \A k : Succeeded(s, k) <=> \A i \in 1 .. k : trace[i].status = "success"
    BY DEF Succeeded
  <2> HIDE DEF succeeded, n, m
  <2>9. \A i \in 1 .. n - 1 : i \in succeeded
    BY <2>3, <2>5, <2>7, <2>8
  <2>10. s.at = "final" <=> (succeeded = DOMAIN steps)
    <3>1. CASE s.at = "final"
      <4>1. n = m /\ Succeeded(s, n)
        BY <2>7, <3>1
      <4>2. succeeded = 1 .. n
        BY <2>5, <2>6, <2>8, <4>1
      <4> QED
        BY <2>3, <3>1, <4>1, <4>2
    <3>2. CASE s.at # "final"
      <4>1. CASE n < m
        <5>1. m \in DOMAIN steps /\ m \notin succeeded
          BY <2>3, <2>6, <4>1
        <5> QED
          BY <3>2, <5>1
      <4>2. CASE n > 0 /\ trace[n].status # "success"
        <5>1. n \in DOMAIN steps /\ n \in 1 .. n
          BY <2>3, <2>4, <4>2
        <5>2. n \notin succeeded
          BY <2>5, <4>2, <5>1
        <5> QED
          BY <3>2, <5>1, <5>2
      <4> QED
        BY <2>7, <3>2, <4>1, <4>2
    <3> QED
      BY <3>1, <3>2
  <2>11. s.at = "repair_required" <=> (DOMAIN trace \ succeeded # {})
    <3>1. CASE s.at = "repair_required"
      <4>1. n > 0 /\ trace[n].status # "success"
        BY <2>7, <3>1
      <4>2. n \in 1 .. n
        BY <2>3, <4>1
      <4>3. n \in DOMAIN trace \ succeeded
        BY <2>3, <2>5, <4>1, <4>2
      <4> QED
        BY <3>1, <4>3
    <3>2. CASE s.at # "repair_required"
      <4>1. Succeeded(s, n)
        BY <2>7, <3>2
      <4>2. \A i \in 1 .. n : i \in succeeded
        BY <2>5, <2>8, <4>1
      <4>3. DOMAIN trace \ succeeded = {}
        BY <2>3, <4>2
      <4> QED
        BY <3>2, <4>3
    <3> QED
      BY <3>1, <3>2
  <2>12. ASSUME NEW call \in calls
         PROVE  call.tool_name \in Allowed(s.request) /\ Fits(call, s.context)
    <3>1. \/ \E i \in 1 .. n : trace[i].status # "missing_parameter" /\ call = trace[i]
          \/ s.at = "calling" /\ call = s.call
      BY <2>3
    <3> QED
      BY <2>4, <2>7, <3>1
  <2> HIDE DEF calls
  <2> QED
    BY <2>3, <2>4, <2>9, <2>10, <2>11, <2>12 DEF Fits, s, n, succeeded, calls
<1> QED
  BY <1>1, RunInduction, PTL

-----------------------------------------------------------------------------
(* A list has as many plugins of a kind as there are places with one.      *)
InList(L, P) == {i \in DOMAIN L : L[i] \in P}

AtPlaces(R, S, P) == {a \in S : R[a] \in P}

LEMMA Counted ==
  ASSUME NEW R \in Seq(AllPlugins), NEW S, NEW L, Lists(R, S, L), NEW P
  PROVE  Cardinality(InList(L, P)) = Cardinality(AtPlaces(R, S, P))
<1> DEFINE place == Place(R, S)
           N == Cardinality(S)
           A == InList(L, P)
           B == AtPlaces(R, S, P)
           f == [i \in A |-> place[i]]
<1>1. /\ S \subseteq DOMAIN R /\ L \in Seq(AllPlugins) /\ Len(L) = N
      /\ \A i \in 1 .. N : place[i] \in S /\ L[i] = R[place[i]]
  BY DEF Lists
<1>2. Places(R, S)
  BY <1>1, RegisteredPlaces
<1>3. /\ N \in Nat
      /\ \A at \in S : \E i \in 1 .. N : place[i] = at
      /\ \A i, k \in 1 .. N : i < k => ByPriority(R, place[i], place[k])
  BY <1>2, PlaceOrders DEF PlacedInOrder
<1> HIDE DEF place, N
<1>4. DOMAIN L = 1 .. N
  BY <1>1
<1>5. A \subseteq 1 .. N /\ \A i \in 1 .. N : i \in A <=> place[i] \in B
  BY <1>1, <1>4 DEF InList, AtPlaces
<1>6. B \subseteq S
  BY DEF AtPlaces
<1> HIDE DEF A, B
<1>7. f \in [A -> B]
  BY <1>5
<1>8. \A b \in B : \E i \in A : f[i] = b
  BY <1>3, <1>5, <1>6
<1>9. ASSUME NEW i \in A, NEW k \in A, f[i] = f[k] PROVE i = k
  <2>1. place[i] = place[k] /\ place[i] \in S /\ i \in 1 .. N /\ k \in 1 .. N
    BY <1>1, <1>5, <1>9
  <2>2. ~ByPriority(R, place[i], place[i])
    BY <1>2, <2>1, PriorityIsTotal
  <2>3. ~(i < k) /\ ~(k < i)
    BY <1>3, <2>1, <2>2
  <2> QED
    BY <1>3, <2>1, <2>3
<1> HIDE DEF f
<1>10. f \in Bijection(A, B)
  BY <1>7, <1>8, <1>9 DEF Bijection, Injection, Surjection, IsInjective
<1>11. ExistsBijection(A, B)
  BY <1>10 DEF ExistsBijection
<1>12. IsFiniteSet(A)
  <2>1. IsFiniteSet(1 .. N)
    BY <1>3, FS_Interval
  <2> QED
    BY <1>5, <2>1, FS_Subset
<1>13. Cardinality(B) = Cardinality(A)
  BY <1>11, <1>12, FS_Bijection
<1> QED
  BY <1>13 DEF A, B

(* Which plugins a list has, and that it is the only one of its places.    *)
LEMMA ListHas ==
  ASSUME NEW R \in Seq(AllPlugins), NEW S, NEW L, Lists(R, S, L)
  PROVE  /\ \A i \in DOMAIN L : \E a \in S : L[i] = R[a]
         /\ \A a \in S : \E i \in DOMAIN L : L[i] = R[a]
         /\ \A M : Lists(R, S, M) => M = L
<1> DEFINE place == Place(R, S)
           N == Cardinality(S)
<1>1. /\ S \subseteq DOMAIN R /\ L \in Seq(AllPlugins) /\ Len(L) = N
      /\ \A i \in 1 .. N : place[i] \in S /\ L[i] = R[place[i]]
  BY DEF Lists
<1>2. Places(R, S)
  BY <1>1, RegisteredPlaces
<1>3. N \in Nat /\ \A at \in S : \E i \in 1 .. N : place[i] = at
  BY <1>2, PlaceOrders DEF PlacedInOrder
<1> HIDE DEF place, N
<1>4. DOMAIN L = 1 .. N
  BY <1>1
<1>5. ASSUME NEW M, Lists(R, S, M) PROVE M = L
  <2>1. /\ M \in Seq(AllPlugins) /\ Len(M) = N /\ \A i \in 1 .. N : M[i] = R[place[i]]
    BY <1>5 DEF Lists, place, N
  <2>2. DOMAIN M = 1 .. N /\ \A i \in 1 .. N : M[i] = L[i]
    BY <1>1, <2>1
  <2>3. M = [i \in DOMAIN M |-> M[i]] /\ L = [i \in DOMAIN L |-> L[i]]
    BY <1>1, <2>1
  <2> QED
    BY <1>4, <2>2, <2>3
<1> QED
  BY <1>1, <1>3, <1>4, <1>5

(* What the catalog of a tenant, an industry and a channel offers.         *)
Agrees(tenant, industry, channel) ==
  LET run_by == Resolve(registry, "business_tool", tenant, industry, channel)
      shown == ListTools(registry, tenant, industry, channel, TRUE)
      offered == ListTools(registry, tenant, industry, channel, FALSE)
      among(tool, tools) == \E i \in DOMAIN tools : tools[i] = tool
      counted(category) == {i \in DOMAIN offered : offered[i].category = category}
  IN /\ industry # None => offered = run_by
     /\ \A i \in DOMAIN run_by : among(run_by[i], offered)
     /\ \A i \in DOMAIN shown :
          Available(registry, shown[i], tenant, industry, channel) <=> among(shown[i], offered)
     /\ \A c \in ListCategories(registry, tenant, industry, channel, TRUE) :
          c.enabled_count = Cardinality(counted(c.category))

LEMMA Offers ==
  ASSUME RegistryRecords, NEW tenant, tenant # None, NEW channel, channel # None, NEW industry
  PROVE  Agrees(tenant, industry, channel)
<1> DEFINE R == registry.registered
           T == ToRun(registry, tenant, industry, channel)
           A == ToOffer(registry, tenant, industry, channel, TRUE)
           S == ToOffer(registry, tenant, industry, channel, FALSE)
           run_by == Resolve(registry, "business_tool", tenant, industry, channel)
           shown == ListTools(registry, tenant, industry, channel, TRUE)
           offered == ListTools(registry, tenant, industry, channel, FALSE)
           available(p) == Available(registry, p, tenant, industry, channel)
<1>1. R \in Seq(AllPlugins)
  BY DEF RegistryRecords
<1>2. Lists(R, T, run_by) /\ Lists(R, A, shown) /\ Lists(R, S, offered)
  BY ResolveLists, CatalogLists
<1>3. T \subseteq S /\ (industry # None => T = S)
  BY DEF ToRun, ToOffer, InScope, CatalogScope, MatchesScope
<1>4. \A a : a \in S <=> a \in A /\ IsEnabled(registry, R[a])
  BY DEF ToOffer
<1>5. \A a : a \in S <=> a \in A /\ available(R[a])
  BY DEF ToOffer, Available
<1>6. \A a \in S : available(R[a])
  BY <1>5
<1> HIDE DEF R, T, A, S, run_by, shown, offered, available
<1>7. industry # None => offered = run_by
  BY <1>1, <1>2, <1>3, ListHas
<1>8. ASSUME NEW i \in DOMAIN run_by PROVE \E k \in DOMAIN offered : offered[k] = run_by[i]
  <2>1. PICK a \in T : run_by[i] = R[a]
    BY <1>1, <1>2, ListHas
  <2>2. a \in S
    BY <1>3
  <2>3. PICK k \in DOMAIN offered : offered[k] = R[a]
    BY <1>1, <1>2, <2>2, ListHas
  <2> QED
    BY <2>1, <2>3
<1>9. ASSUME NEW i \in DOMAIN shown
      PROVE  available(shown[i]) <=> \E k \in DOMAIN offered : offered[k] = shown[i]
  <2>1. PICK a \in A : shown[i] = R[a]
    BY <1>1, <1>2, ListHas
  <2>2. ASSUME available(shown[i]) PROVE \E k \in DOMAIN offered : offered[k] = shown[i]
    <3>1. a \in S
      BY <1>5, <2>1, <2>2
    <3>2. PICK k \in DOMAIN offered : offered[k] = R[a]
      BY <1>1, <1>2, <3>1, ListHas
    <3> QED
      BY <2>1, <3>2
  <2>3. ASSUME NEW k \in DOMAIN offered, offered[k] = shown[i] PROVE available(shown[i])
    <3>1. PICK b \in S : offered[k] = R[b]
      BY <1>1, <1>2, ListHas
    <3> QED
      BY <1>6, <2>3, <3>1
  <2> QED
    BY <2>2, <2>3
<1>10. ASSUME NEW c \in ListCategories(registry, tenant, industry, channel, TRUE)
       PROVE  c.enabled_count = Cardinality({i \in DOMAIN offered : offered[i].category = c.category})
  <2> DEFINE of(category) == {i \in DOMAIN shown : shown[i].category = category}
  <2>1. PICK name : c = [category |-> name, tool_count |-> Cardinality(of(name)),
                         enabled_count |-> Cardinality({i \in of(name) : IsEnabled(registry, shown[i])})]
    BY <1>10 DEF ListCategories, shown
  <2> DEFINE P == {p \in AllPlugins : p.category = name}
             Q == {p \in P : IsEnabled(registry, p)}
             X == {i \in of(name) : IsEnabled(registry, shown[i])}
             Y == {i \in DOMAIN offered : offered[i].category = name}
  <2>2. c.category = name /\ c.enabled_count = Cardinality(X)
    BY <2>1
  <2>3. /\ \A i \in DOMAIN shown : shown[i] \in AllPlugins
        /\ \A i \in DOMAIN offered : offered[i] \in AllPlugins
    BY <1>2 DEF Lists
  <2>4. X = InList(shown, Q) /\ Y = InList(offered, P)
    BY <2>3 DEF InList
  <2>5. \A a \in S : R[a] \in P <=> R[a] \in Q
    BY <1>4
  <2> HIDE DEF X, Y, P
  <2>6. \A a \in A : R[a] \in Q <=> a \in S /\ R[a] \in P
    BY <1>4
  <2>7. AtPlaces(R, A, Q) = AtPlaces(R, S, P)
    BY <1>4, <2>6 DEF AtPlaces
  <2> HIDE DEF Q
  <2>8. Cardinality(InList(shown, Q)) = Cardinality(AtPlaces(R, A, Q))
    BY <1>1, <1>2, Counted
  <2>9. Cardinality(InList(offered, P)) = Cardinality(AtPlaces(R, S, P))
    BY <1>1, <1>2, Counted
  <2>10. Cardinality(X) = Cardinality(Y)
    BY <2>4, <2>7, <2>8, <2>9
  <2> QED
    BY <2>2, <2>10 DEF Y
<1> QED
  BY <1>7, <1>8, <1>9, <1>10 DEF Agrees, run_by, shown, offered, available

(* The catalog agrees with the registry, whatever is switched, registered  *)
(* and removed: list_tools, get_tool and list_categories of ToolCatalog    *)
(* against resolve of the plugin registry.                                 *)
THEOREM CatalogAgrees == Spec => []CatalogOffersWhatRuns
<1>1. RegistryInv => CatalogOffersWhatRuns
  <2> SUFFICES ASSUME RegistryInv PROVE CatalogOffersWhatRuns
    OBVIOUS
  <2>1. RegistryRecords
    BY DEF RegistryInv
  <2>2. \A of \in {[tenant |-> q.tenant_id, channel |-> q.channel] : q \in Request} :
          of.tenant # None /\ of.channel # None
    BY Requests
  <2> DEFINE ofs == {[tenant |-> q.tenant_id, channel |-> q.channel] : q \in Request}
             industries == (UNION {p.industry_scopes : p \in PluginsWith(Switched)}) \cup {None}
  <2>3. \A of \in ofs, industry \in industries : Agrees(of.tenant, industry, of.channel)
    <3> HIDE DEF ofs, industries
    <3> QED
      BY <2>1, <2>2, Offers DEF ofs
  <2> QED
    BY <2>3 DEF CatalogOffersWhatRuns, Agrees
<1> QED
  BY <1>1, RegistryInduction, PTL

=============================================================================
