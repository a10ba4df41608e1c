--------------------------- MODULE ChatTurn_proofs ---------------------------
(***************************************************************************)
(* Theorems of ChatTurn.                                                   *)
(*                                                                         *)
(* First the operators, in the order of a turn: recursive functions and    *)
(* sorting, citations, the registry, routing, the stack, contexts, costs,  *)
(* the plugins that rework an answer, and those that hand over.  Then the  *)
(* invariant: what a turn holds while it waits (TurnIs) is what its end    *)
(* relies on, what is cached (Cached) may be sent to whoever finds the     *)
(* same chunks, and the top of a stack (Remembers) tells whether the last  *)
(* decision was unsure.  There is one lemma per action, and the theorems   *)
(* follow.  The last one needs more of the stacks, RiskInv.                *)
(***************************************************************************)
EXTENDS ChatTurn, FiniteSetTheorems, WellFoundedInduction, TLAPS

-----------------------------------------------------------------------------
(* Induction over the natural numbers: a set of them has a least member.   *)
LEMMA LeastNatural ==
  ASSUME NEW S, S \subseteq Nat, S # {}
  PROVE  \E n \in S : \A k \in S : n <= k
<1>1. PICK n \in S : \A k \in S : <<k, n>> \notin OpToRel(<, Nat)
  BY WFMin, NatLessThanWellFounded
<1>2. \A k \in S : ~(k < n)
  BY <1>1 DEF OpToRel
<1> QED
  BY <1>2

-----------------------------------------------------------------------------
(* A strict total order, as a set of pairs, ranks the members of a finite  *)
(* set: each has its own number of members below it.                       *)
LinearOrder(R, S) ==
  /\ \A a \in S : <<a, a>> \notin R
  /\ \A a, b \in S : a # b => <<a, b>> \in R \/ <<b, a>> \in R
  /\ \A a, b, c \in S : <<a, b>> \in R /\ <<b, c>> \in R => <<a, c>> \in R

Below(R, S, at) == {k \in S : <<k, at>> \in R}

Nth(R, S, n) == CHOOSE at \in S : Cardinality(Below(R, S, at)) = n - 1

LEMMA BelowCount ==
  ASSUME NEW R, NEW S, IsFiniteSet(S), LinearOrder(R, S), NEW a \in S
  PROVE  /\ IsFiniteSet(Below(R, S, a))
         /\ Cardinality(Below(R, S, a)) \in 0 .. Cardinality(S) - 1
         /\ \A b \in S : <<a, b>> \in R =>
              Cardinality(Below(R, S, a)) < Cardinality(Below(R, S, b))
<1> DEFINE B(at) == Below(R, S, at)
<1>0. Cardinality(S) \in Nat
  BY FS_CardinalityType
<1>1. \A at \in S : B(at) \in SUBSET S /\ at \notin B(at)
  BY DEF LinearOrder, Below
<1>2. \A at \in S : IsFiniteSet(B(at))
  BY <1>1, FS_Subset
<1>3. \A at \in S : Cardinality(B(at)) \in Nat
  BY <1>2, FS_CardinalityType
<1>4. Cardinality(B(a)) <= Cardinality(S) - 1
  <2>1. B(a) \in SUBSET (S \ {a})
    BY <1>1
  <2>2. IsFiniteSet(S \ {a}) /\ Cardinality(S \ {a}) = Cardinality(S) - 1
    BY FS_RemoveElement
  <2> HIDE DEF B
  <2> QED
    BY <2>1, <2>2, FS_Subset
<1>5. ASSUME NEW b \in S, <<a, b>> \in R
      PROVE  Cardinality(B(a)) < Cardinality(B(b))
  <2>1. B(a) \cup {a} \in SUBSET B(b)
    BY <1>5 DEF LinearOrder, Below
  <2>2. IsFiniteSet(B(a)) /\ IsFiniteSet(B(b)) /\ a \notin B(a)
    BY <1>1, <1>2
  <2> HIDE DEF B
  <2>3. Cardinality(B(a) \cup {a}) = Cardinality(B(a)) + 1
    BY <2>2, FS_AddElement
  <2>4. Cardinality(B(a) \cup {a}) <= Cardinality(B(b))
    BY <2>1, <2>2, FS_Subset
  <2> QED
    BY <1>3, <2>3, <2>4
<1> HIDE DEF B
<1>6. Cardinality(B(a)) \in 0 .. Cardinality(S) - 1
  BY <1>0, <1>3, <1>4
<1> QED
  BY <1>2, <1>5, <1>6 DEF B

(* Hence there is a first member, a second one, and so on to the last.     *)
LEMMA NthIs ==
  ASSUME NEW R, NEW S, IsFiniteSet(S), LinearOrder(R, S)
  PROVE  /\ Cardinality(S) \in Nat
         /\ \A n \in 1 .. Cardinality(S) : Nth(R, S, n) \in S
         /\ \A at \in S : \E n \in 1 .. Cardinality(S) : Nth(R, S, n) = at
<1> DEFINE N == Cardinality(S)
           rank == [at \in S |-> Cardinality(Below(R, S, at)) + 1]
<1>1. N \in Nat
  BY FS_CardinalityType
<1>2. \A at \in S : rank[at] \in 1 .. N /\ Cardinality(Below(R, S, at)) = rank[at] - 1
  BY <1>1, BelowCount
<1>3. \A a, b \in S : <<a, b>> \in R => rank[a] < rank[b]
  <2>1. \A a \in S : Cardinality(Below(R, S, a)) \in Nat
    BY <1>1, BelowCount
  <2> QED
    BY <2>1, BelowCount
<1> HIDE DEF rank
<1>4. \A a, b \in S : rank[a] = rank[b] => a = b
  <2>1. \A a \in S : rank[a] \in Nat
    BY <1>1, <1>2
  <2> SUFFICES ASSUME NEW a \in S, NEW b \in S, rank[a] = rank[b], a # b PROVE FALSE
    OBVIOUS
  <2>2. <<a, b>> \in R \/ <<b, a>> \in R
    BY DEF LinearOrder
  <2>3. rank[a] < rank[b] \/ rank[b] < rank[a]
    BY <1>3, <2>2
  <2> QED
    BY <2>1, <2>3
<1>5. rank \in Injection(S, 1 .. N)
  <2>1. rank = [at \in S |-> rank[at]]
    BY DEF rank
  <2> QED
    BY <1>2, <1>4, <2>1 DEF Injection, IsInjective
<1>6. rank \in Surjection(S, 1 .. N)
  <2>1. IsFiniteSet(1 .. N) /\ Cardinality(1 .. N) = N
    BY <1>1, FS_Interval
  <2> QED
    BY <1>5, <2>1, FS_Injection
<1>7. \A n \in 1 .. N : \E at \in S : rank[at] = n
  BY <1>6 DEF Surjection
<1>8. \A n \in 1 .. N : Nth(R, S, n) \in S /\ Cardinality(Below(R, S, Nth(R, S, n))) = n - 1
  <2> SUFFICES ASSUME NEW n \in 1 .. N
               PROVE  Nth(R, S, n) \in S /\ Cardinality(Below(R, S, Nth(R, S, n))) = n - 1
    OBVIOUS
  <2>1. PICK at \in S : rank[at] = n
    BY <1>7
  <2>2. Cardinality(Below(R, S, at)) = n - 1
    BY <1>2, <2>1
  <2> QED
    BY <2>2 DEF Nth
<1>9. ASSUME NEW at \in S
      PROVE  Nth(R, S, rank[at]) = at
  <2> DEFINE other == Nth(R, S, rank[at])
  <2>1. other \in S /\ Cardinality(Below(R, S, other)) = rank[at] - 1
    BY <1>2, <1>8
  <2> HIDE DEF other
  <2>2. rank[other] - 1 = rank[at] - 1 /\ rank[other] \in 1 .. N /\ rank[at] \in 1 .. N
    BY <1>2, <2>1
  <2>3. rank[other] = rank[at]
    BY <1>1, <2>2
  <2> QED
    BY <1>4, <2>1, <2>3 DEF other
<1> QED
  BY <1>1, <1>2, <1>8, <1>9

-----------------------------------------------------------------------------
(* Induction up to a number, and recursion: a function that obeys the      *)
(* equations exists.                                                       *)
LEMMA UpTo ==
  ASSUME NEW N \in Nat, NEW S, 0 \in S, \A n \in 1 .. N : n - 1 \in S => n \in S
  PROVE  \A n \in 0 .. N : n \in S
<1> DEFINE Bad == (0 .. N) \ S
<1>1. Bad \subseteq Nat
  OBVIOUS
<1>2. ASSUME Bad # {} PROVE FALSE
  <2>1. PICK n \in Bad : \A k \in Bad : n <= k
    <3> HIDE DEF Bad
    <3> QED
      BY <1>1, <1>2, LeastNatural
  <2>2. n \in 1 .. N /\ n - 1 \in 0 .. N
    OBVIOUS
  <2>3. n - 1 \notin Bad
    <3> HIDE DEF Bad
    <3> QED
      BY <2>1, <2>2
  <2> QED
    BY <2>2, <2>3
<1> QED
  BY <1>2

Solves(h, X, N, base, G) ==
  /\ h \in [0 .. N -> X] /\ h[0] = base
  /\ \A n \in 1 .. N : h[n] = G[<<n, h[n - 1]>>]

LEMMA Recursion ==
  ASSUME NEW X, NEW N \in Nat, NEW base \in X, NEW G \in [(1 .. N) \X X -> X]
  PROVE  \E h : Solves(h, X, N, base, G)
<1> DEFINE Obeys(h, m) == Solves(h, X, m, base, G)
           Good == {m \in 0 .. N : \E h : Obeys(h, m)}
<1>1. 0 \in Good
  <2>1. Solves([n \in 0 .. 0 |-> base], X, 0, base, G)
    BY DEF Solves
  <2> QED
    BY <2>1
<1>2. ASSUME NEW m \in 1 .. N, m - 1 \in Good PROVE m \in Good
  <2>3. m - 1 \in 0 .. N
    OBVIOUS
  <2>5. PICK h : Obeys(h, m - 1)
    BY <1>2
  <2> DEFINE g == [n \in 0 .. m |-> IF n = m THEN G[<<m, h[m - 1]>>] ELSE h[n]]
  <2>6. h[m - 1] \in X /\ G[<<m, h[m - 1]>>] \in X
    BY <2>3, <2>5 DEF Solves
  <2>7. \A n \in 0 .. m - 1 : g[n] = h[n]
    BY <2>3
  <2>8. g[m] = G[<<m, h[m - 1]>>] /\ g \in [0 .. m -> X]
    BY <2>3, <2>5, <2>6 DEF Solves
  <2> HIDE DEF g
  <2>9. \A n \in 1 .. m : g[n] = G[<<n, g[n - 1]>>]
    <3> SUFFICES ASSUME NEW n \in 1 .. m PROVE g[n] = G[<<n, g[n - 1]>>]
      OBVIOUS
    <3>1. n - 1 \in 0 .. m - 1 /\ g[n - 1] = h[n - 1]
      BY <2>3, <2>7
    <3>2. CASE n = m
      BY <2>8, <3>1, <3>2
    <3>3. CASE n # m
      <4>1. n \in 1 .. m - 1 /\ g[n] = h[n]
        BY <2>3, <2>7, <3>3
      <4> QED
        BY <2>5, <3>1, <4>1 DEF Solves
    <3> QED
      BY <3>2, <3>3
  <2>10. g[0] = base
    BY <2>3, <2>5, <2>7 DEF Solves
  <2>11. Obeys(g, m)
    BY <2>8, <2>9, <2>10 DEF Solves
  <2> QED
    BY <2>11
<1>3. N \in 0 .. N /\ N \in Good
  <2> HIDE DEF Good
  <2> QED
    BY <1>1, <1>2, UpTo
<1> QED
  BY <1>3

-----------------------------------------------------------------------------
(* The plugins at the places S, the highest priority first.                *)
Ranks(registered, S) == {p \in S \X S : ByPriority(registered, p[1], p[2])}

LEMMA SortedIs ==
  ASSUME NEW P, NEW registered \in Seq(P), NEW S \in SUBSET (DOMAIN registered),
         \A at \in S : registered[at].priority \in Int
  PROVE  LET sorted == Sorted(registered, S) IN
         /\ sorted \in Seq(P)
         /\ \A i \in DOMAIN sorted : \E at \in S : sorted[i] = registered[at]
         /\ \A at \in S : \E i \in DOMAIN sorted : sorted[i] = registered[at]
<1> DEFINE R == Ranks(registered, S)
           N == Cardinality(S)
           Item(n) == registered[CHOOSE at \in S :
                                   Cardinality({k \in S : ByPriority(registered, k, at)}) = n - 1]
           Step(h, n) == IF n = 0 THEN <<>> ELSE Append(h[n - 1], Item(n))
           first == <<>>
           G == [q \in (1 .. N) \X Seq(P) |-> Append(q[2], Item(q[1]))]
<1>1. IsFiniteSet(S)
  <2>1. IsFiniteSet(1 .. Len(registered)) /\ S \in SUBSET (1 .. Len(registered))
    BY FS_Interval
  <2> QED
    BY <2>1, FS_Subset
<1>2. LinearOrder(R, S)
  <2>1. \A a \in S : a \in Nat /\ registered[a].priority \in Int
    OBVIOUS
  <2>2. \A a, b \in S : <<a, b>> \in R <=> ByPriority(registered, a, b)
    BY DEF Ranks
  <2> HIDE DEF R
  <2>3. \A a \in S : ~ByPriority(registered, a, a)
    BY <2>1 DEF ByPriority
  <2>4. \A a, b \in S : a # b => ByPriority(registered, a, b) \/ ByPriority(registered, b, a)
    BY <2>1 DEF ByPriority
  <2>5. \A a, b, c \in S : ByPriority(registered, a, b) /\ ByPriority(registered, b, c)
                             => ByPriority(registered, a, c)
    BY <2>1 DEF ByPriority
  <2> QED
    BY <2>2, <2>3, <2>4, <2>5 DEF LinearOrder
<1>3. \A at \in S : {k \in S : ByPriority(registered, k, at)} = Below(R, S, at)
  BY DEF Ranks, Below
<1> HIDE DEF R
<1>4. /\ N \in Nat
      /\ \A n \in 1 .. N : Nth(R, S, n) \in S
      /\ \A at \in S : \E n \in 1 .. N : Nth(R, S, n) = at
  BY <1>1, <1>2, NthIs
<1>5. \A n \in 1 .. N : Item(n) = registered[Nth(R, S, n)]
  BY <1>3 DEF Nth
<1> HIDE DEF Item
<1>6. \A n \in 1 .. N : Item(n) \in P
  BY <1>4, <1>5
<1>7. G \in [(1 .. N) \X Seq(P) -> Seq(P)]
  BY <1>6
<1>8. \E h : h = [n \in 0 .. N |-> Step(h, n)]
  <2>1. first \in Seq(P)
    OBVIOUS
  <2>2. PICK h : Solves(h, Seq(P), N, first, G)
    <3> HIDE DEF G, first, N
    <3> QED
      BY <1>4, <1>7, <2>1, Recursion
  <2> USE DEF Solves
  <2>3. \A n \in 0 .. N : h[n] = Step(h, n)
    <3> SUFFICES ASSUME NEW n \in 0 .. N PROVE h[n] = Step(h, n)
      OBVIOUS
    <3>1. CASE n = 0
      BY <2>2, <3>1
    <3>2. CASE n # 0
      <4>1. n \in 1 .. N /\ h[n - 1] \in Seq(P)
        BY <1>4, <2>2, <3>2
      <4>2. G[<<n, h[n - 1]>>] = Append(h[n - 1], Item(n))
        BY <4>1
      <4> QED
        BY <2>2, <3>2, <4>1, <4>2
    <3> QED
      BY <3>1, <3>2
  <2> HIDE DEF Step, N
  <2> QED
    BY <2>2, <2>3
<1> DEFINE f == CHOOSE h : h = [n \in 0 .. N |-> Step(h, n)]
<1>9. f = [n \in 0 .. N |-> Step(f, n)]
  <2> HIDE DEF Step, N
  <2> QED
    BY <1>8
<1>10. Sorted(registered, S) = f[N]
  BY DEF Sorted, Item

<1> DEFINE OK(n) == /\ f[n] \in Seq(P) /\ Len(f[n]) = n
                    /\ \A i \in 1 .. n : f[n][i] = Item(i)
           Is == {n \in 0 .. N : OK(n)}
<1>11. OK(0)
  <2>1. f[0] = <<>>
    <3> HIDE DEF f
    <3> QED
      BY <1>4, <1>9
  <2> HIDE DEF f
  <2> QED
    BY <2>1
<1>12. ASSUME NEW n \in 1 .. N, OK(n - 1) PROVE OK(n)
  <2> HIDE DEF f
  <2>1. f[n] = Append(f[n - 1], Item(n))
    <3>1. n \in 0 .. N /\ n # 0
      BY <1>4
    <3> HIDE DEF N
    <3> QED
      BY <1>9, <3>1
  <2> QED
    BY <1>6, <1>12, <2>1
<1>13. OK(N)
  <2> HIDE DEF OK
  <2>1. N \in Nat /\ 0 \in 0 .. N /\ N \in 0 .. N /\ \A n \in 1 .. N : n \in 0 .. N /\ n - 1 \in 0 .. N
    BY <1>4
  <2> HIDE DEF N
  <2>2. 0 \in Is /\ \A n \in 1 .. N : n - 1 \in Is => n \in Is
    BY <1>11, <1>12, <2>1
  <2>3. N \in Is
    <3> HIDE DEF Is
    <3> QED
      BY <2>1, <2>2, UpTo
  <2> QED
    BY <2>3
<1> HIDE DEF f
<1>14. /\ Sorted(registered, S) \in Seq(P) /\ DOMAIN Sorted(registered, S) = 1 .. N
       /\ \A i \in 1 .. N : Sorted(registered, S)[i] = registered[Nth(R, S, i)]
  BY <1>4, <1>5, <1>10, <1>13
<1> QED
  BY <1>4, <1>14

-----------------------------------------------------------------------------
(* What is at some places of a sequence is of it.                          *)
LEMMA ThoseIn ==
  ASSUME NEW P, NEW s \in Seq(P), NEW places
  PROVE  Those(s, places) \in Seq(P)
<1> DEFINE N == Len(s)
           Step(h, n) == IF n = 0 THEN <<>>
                         ELSE IF n \in places THEN Append(h[n - 1], s[n]) ELSE h[n - 1]
           first == <<>>
           G == [q \in (1 .. N) \X Seq(P) |->
                   IF q[1] \in places THEN Append(q[2], s[q[1]]) ELSE q[2]]
<1>1. N \in Nat /\ (\A n \in 1 .. N : s[n] \in P) /\ first \in Seq(P)
  OBVIOUS
<1>2. G \in [(1 .. N) \X Seq(P) -> Seq(P)]
  BY <1>1
<1>3. \E h : h = [n \in 0 .. N |-> Step(h, n)]
  <2>1. PICK h : Solves(h, Seq(P), N, first, G)
    <3> HIDE DEF G, first, N
    <3> QED
      BY <1>1, <1>2, Recursion
  <2>2. \A n \in 0 .. N : h[n] = Step(h, n)
    <3> SUFFICES ASSUME NEW n \in 0 .. N PROVE h[n] = Step(h, n)
      OBVIOUS
    <3>1. CASE n = 0
      BY <2>1, <3>1 DEF Solves
    <3>2. CASE n # 0
      <4>1. n \in 1 .. N /\ h[n - 1] \in Seq(P)
        BY <1>1, <2>1, <3>2 DEF Solves
      <4>2. G[<<n, h[n - 1]>>] = IF n \in places THEN Append(h[n - 1], s[n]) ELSE h[n - 1]
        BY <4>1
      <4> QED
        BY <2>1, <3>2, <4>1, <4>2 DEF Solves
    <3> QED
      BY <3>1, <3>2
  <2>3. h = [n \in 0 .. N |-> h[n]]
    BY <2>1 DEF Solves
  <2> HIDE DEF Step, N
  <2> QED
    BY <2>2, <2>3
<1> DEFINE f == CHOOSE h : h = [n \in 0 .. N |-> Step(h, n)]
<1>4. f = [n \in 0 .. N |-> Step(f, n)]
  <2> HIDE DEF Step, N
  <2> QED
    BY <1>3
<1>5. Those(s, places) = f[N]
  BY DEF Those
<1> HIDE DEF f
<1> DEFINE Is == {n \in 0 .. N : f[n] \in Seq(P)}
<1>6. f[0] \in Seq(P)
  <2>1. f[0] = <<>>
    BY <1>1, <1>4
  <2> QED
    BY <2>1
<1>7. ASSUME NEW n \in 1 .. N, f[n - 1] \in Seq(P) PROVE f[n] \in Seq(P)
  <2>1. n \in 0 .. N /\ n # 0
    BY <1>1
  <2>2. f[n] = IF n \in places THEN Append(f[n - 1], s[n]) ELSE f[n - 1]
    BY <1>4, <2>1
  <2> QED
    BY <1>1, <1>7, <2>2
<1>8. f[N] \in Seq(P)
  <2>1. 0 \in 0 .. N /\ N \in 0 .. N /\ \A n \in 1 .. N : n \in 0 .. N /\ n - 1 \in 0 .. N
    BY <1>1
  <2>2. 0 \in Is /\ \A n \in 1 .. N : n - 1 \in Is => n \in Is
    BY <1>6, <1>7, <2>1
  <2> HIDE DEF N
  <2>3. N \in Is
    <3> HIDE DEF Is
    <3> QED
      BY <1>1, <2>1, <2>2, UpTo
  <2> QED
    BY <2>3
<1> QED
  BY <1>5, <1>8

(* The hits in their order are those hits.                                 *)
HitsOrder(hits) == {p \in (DOMAIN hits) \X (DOMAIN hits) : Ahead(hits, p[1], p[2])}

LEMMA RankedIn ==
  ASSUME NEW hits \in Seq(Hit)
  PROVE  Ranked(hits) \in Seq(Hit)
<1> DEFINE S == DOMAIN hits
           R == HitsOrder(hits)
           N == Len(hits)
<1>1. S = 1 .. N /\ N \in Nat /\ IsFiniteSet(S) /\ Cardinality(S) = N
  <2>1. S = 1 .. N /\ N \in Nat
    OBVIOUS
  <2>2. IsFiniteSet(1 .. N) /\ Cardinality(1 .. N) = N
    BY <2>1, FS_Interval
  <2> QED
    BY <2>1, <2>2
<1>2. LinearOrder(R, S)
  <2>1. \A a \in S : /\ a \in Nat /\ hits[a].score \in Int /\ hits[a].source \in Int
                     /\ hits[a].position \in Int
    <3>1. \A a \in S : a \in Nat /\ hits[a] \in Hit
      BY <1>1
    <3> QED
      BY <3>1 DEF Hit
  <2>2. \A a, b \in S : <<a, b>> \in R <=> Ahead(hits, a, b)
    BY DEF HitsOrder
  <2> HIDE DEF R, S
  <2>3. \A a \in S : ~Ahead(hits, a, a)
    BY <2>1 DEF Ahead, Before
  <2>4. \A a, b \in S : a # b => Ahead(hits, a, b) \/ Ahead(hits, b, a)
    BY <2>1 DEF Ahead, Before
  <2>5. \A a, b, c \in S : Ahead(hits, a, b) /\ Ahead(hits, b, c) => Ahead(hits, a, c)
    <3> SUFFICES ASSUME NEW a \in S, NEW b \in S, NEW c \in S,
                        Ahead(hits, a, b), Ahead(hits, b, c)
                 PROVE  Ahead(hits, a, c)
      OBVIOUS
    <3> DEFINE x == hits[a]
               y == hits[b]
               z == hits[c]
    <3>1. /\ a \in Int /\ b \in Int /\ c \in Int
          /\ x.score \in Int /\ y.score \in Int /\ z.score \in Int
          /\ x.source \in Int /\ y.source \in Int /\ z.source \in Int
          /\ x.position \in Int /\ y.position \in Int /\ z.position \in Int
      BY <2>1
    <3>2. /\ Before(x, y) \/ (~Before(y, x) /\ a < b)
          /\ Before(y, z) \/ (~Before(z, y) /\ b < c)
      BY DEF Ahead
    <3> HIDE DEF x, y, z
    <3>3. Before(x, z) \/ (~Before(z, x) /\ a < c)
      BY <3>1, <3>2 DEF Before
    <3> QED
      BY <3>3 DEF Ahead, x, y, z
  <2> QED
    BY <2>2, <2>3, <2>4, <2>5 DEF LinearOrder
<1>3. \A k \in S : {i \in DOMAIN hits : Ahead(hits, i, k)} = Below(R, S, k)
  BY DEF HitsOrder, Below
<1>4. \A n \in 1 .. N : Nth(R, S, n) \in S
  <2> HIDE DEF R, S
  <2> QED
    BY <1>1, <1>2, NthIs
<1>5. \A n \in DOMAIN hits : Ranked(hits)[n] = hits[Nth(R, S, n)]
  BY <1>3 DEF Ranked, Nth
<1>6. Ranked(hits) = [n \in 1 .. N |-> Ranked(hits)[n]]
  BY <1>1 DEF Ranked
<1>7. \A n \in 1 .. N : Ranked(hits)[n] \in Hit
  BY <1>1, <1>4, <1>5
<1> QED
  BY <1>1, <1>6, <1>7

LEMMA ShorterIs ==
  ASSUME NEW P, NEW s \in Seq(P), NEW n \in Nat
  PROVE  Shorter(s, n) \in Seq(P)
BY DEF Shorter

(* What a search cites, whatever was found.                                *)
LEMMA RetrieveCites ==
  ASSUME NEW found \in Found, NEW message, NEW top_k \in Nat
  PROVE  Retrieve(found, message, top_k) \in Seq(Citation)
<1>1. found.hits \in Seq(Hit) /\ found.chunks \in Seq(Hit)
  BY ChatTurnAssumption
<1>2. ASSUME NEW hits \in Seq(Hit)
      PROVE  FromHits(Rerank(message, hits, top_k)) \in Seq(Citation)
  <2> DEFINE scored == [i \in DOMAIN hits |-> [hits[i] EXCEPT !.score = HybridScore(hits[i])]]
  <2>1. \A i \in DOMAIN hits : scored[i] \in Hit
    <3> SUFFICES ASSUME NEW i \in DOMAIN hits PROVE scored[i] \in Hit
      OBVIOUS
    <3>1. hits[i] \in Hit
      OBVIOUS
    <3>2. hits[i].score \in Int /\ hits[i].overlap \in Int
      BY <3>1 DEF Hit
    <3>3. HybridScore(hits[i]) \in Int
      BY <3>2 DEF HybridScore
    <3> QED
      BY <3>1, <3>3 DEF Hit
  <2>2. scored \in Seq(Hit)
    BY <2>1
  <2> HIDE DEF scored
  <2>3. Ranked(scored) \in Seq(Hit)
    BY <2>2, RankedIn
  <2>4. Rerank(message, hits, top_k) \in Seq(Hit)
    BY <2>3, ShorterIs DEF Rerank, scored
  <2> DEFINE ranked == Rerank(message, hits, top_k)
  <2> HIDE DEF ranked
  <2>5. \A i \in DOMAIN ranked : ranked[i] \in Hit
    BY <2>4 DEF ranked
  <2>6. \A i \in DOMAIN ranked : [chunk_id |-> ranked[i].chunk_id, version_id |-> ranked[i].version_id,
                                  score |-> ranked[i].score] \in Citation
    BY <2>5 DEF Hit, Citation
  <2>7. DOMAIN ranked = 1 .. Len(ranked) /\ Len(ranked) \in Nat
    BY <2>4 DEF ranked
  <2>8. FromHits(ranked) \in Seq(Citation)
    BY <2>6, <2>7 DEF FromHits
  <2> QED
    BY <2>8 DEF ranked
<1>3. Shorter(found.chunks, top_k) \in Seq(Hit)
  BY <1>1, ShorterIs
<1>4. ASSUME NEW chunks \in Seq(Hit)
      PROVE  [i \in DOMAIN chunks |-> [chunks[i] EXCEPT !.score = 10]] \in Seq(Hit)
  <2>1. \A i \in DOMAIN chunks : chunks[i] \in Hit
    OBVIOUS
  <2>2. \A i \in DOMAIN chunks : [chunks[i] EXCEPT !.score = 10] \in Hit
    <3> SUFFICES ASSUME NEW hit \in Hit, NEW score \in Int
                 PROVE  [hit EXCEPT !.score = score] \in Hit
      BY <2>1
    <3> QED
      BY DEF Hit
  <2> QED
    BY <2>2
<1> QED
  BY <1>1, <1>2, <1>3, <1>4 DEF Retrieve

LEMMA CitedIs ==
  ASSUME NEW citations \in Seq(Citation), NEW min_score
  PROVE  /\ Effective(citations, min_score) \in Seq(Citation)
         /\ Len(Effective(citations, min_score)) \in Nat
         /\ Cited(citations, min_score) \in Seq(Citation)
<1>1. Effective(citations, min_score) \in Seq(Citation)
  BY ThoseIn DEF Effective
<1> QED
  BY <1>1, ShorterIs DEF Cited

-----------------------------------------------------------------------------
(* The built-in plugins and their kinds.                                   *)
Industry == {EcommerceIndustry, SaaSIndustry, EducationIndustry, LogisticsIndustry, CRMIndustry}

Enricher ==
  {PageContextEnricher, BusinessObjectEnricher, UserProfileEnricher, BehaviorSignalsEnricher,
   SessionInsightsEnricher}

Tool ==
  {OrderStatusTool, AfterSaleStatusTool, LogisticsTrackingTool, AccountLookupTool,
   SubscriptionLookupTool, TicketLookupTool, CourseLookupTool, ProgressLookupTool,
   WaybillLookupTool, ClaimLookupTool, CRMProfileTool}

RouteStrategy ==
  {RiskRoute, HumanRequestRoute, BusinessIntentRoute, KnowledgeQuestionRoute, FallbackRoute}

Handoff == {RouteDecisionHandoff, ConfidenceHandoff, DefaultSummaryHandoff}

PostProcessor == {ReferenceAppend, SensitiveMask, StructuredOutput}

BuiltinPlugin == Industry \cup Enricher \cup Tool \cup RouteStrategy \cup Handoff \cup PostProcessor

LEMMA DescriptorIs ==
  ASSUME NEW id, NEW kind, NEW priority
  PROVE  LET p == Descriptor(id, kind, priority) IN
         /\ p.plugin_id = id /\ p.kind = kind /\ p.priority = priority
         /\ p.tenant_scopes = {} /\ p.industry_scopes = {} /\ p.channel_scopes = {}
BY DEF Descriptor

IsIndustry(p) == p.kind = "industry_adapter" /\ p.priority = 400 /\ p.industry \in Industries

IsTool(p) == p.kind = "business_tool" /\ p.priority = 300 /\ p.tool_name \in ToolName

LEMMA IndustryIs ==
  ASSUME NEW id, NEW industry \in Industries, NEW page_types, NEW preferred_tools
  PROVE  IsIndustry(ConfiguredIndustry(id, industry, page_types, preferred_tools))
BY DEF IsIndustry, ConfiguredIndustry

LEMMA ToolIs ==
  ASSUME NEW id, NEW tool_name \in ToolName, NEW category, NEW required, NEW optional,
         NEW industries
  PROVE  IsTool(AdapterBacked(id, tool_name, category, required, optional, industries))
BY DEF IsTool, AdapterBacked

LEMMA Kinds ==
  /\ \A p \in Industry : IsIndustry(p)
  /\ \A p \in Enricher : p.kind = "context_enricher" /\ p.priority \in Int
  /\ \A p \in Tool : IsTool(p)
  /\ \A p \in RouteStrategy : p.kind = "route_strategy" /\ p.priority \in Nat /\ p.priority <= 1000
                              /\ (p.priority = 1000 => p = RiskRoute)
  /\ \A p \in Handoff : p.kind = "human_handoff" /\ p.priority \in Int
  /\ \A p \in PostProcessor : p.kind = "response_post_processor" /\ p.priority \in Int
<1>1. \A p \in Industry : IsIndustry(p)
  <2>1. /\ IsIndustry(EcommerceIndustry) /\ IsIndustry(SaaSIndustry)
        /\ IsIndustry(EducationIndustry) /\ IsIndustry(LogisticsIndustry)
        /\ IsIndustry(CRMIndustry)
    BY IndustryIs DEF Industries, EcommerceIndustry, SaaSIndustry, EducationIndustry, LogisticsIndustry,
                      CRMIndustry
  <2> QED
    BY <2>1 DEF Industry
<1>2. \A p \in Enricher : p.kind = "context_enricher" /\ p.priority \in Int
  BY DescriptorIs DEF Enricher, PageContextEnricher, BusinessObjectEnricher, UserProfileEnricher,
                      BehaviorSignalsEnricher, SessionInsightsEnricher
<1>3. \A p \in Tool : IsTool(p)
  <2>1. /\ IsTool(OrderStatusTool) /\ IsTool(AfterSaleStatusTool)
        /\ IsTool(LogisticsTrackingTool) /\ IsTool(AccountLookupTool)
    BY ToolIs DEF ToolName, OrderStatusTool, AfterSaleStatusTool, LogisticsTrackingTool,
           AccountLookupTool
  <2>2. /\ IsTool(SubscriptionLookupTool) /\ IsTool(TicketLookupTool)
        /\ IsTool(CourseLookupTool) /\ IsTool(ProgressLookupTool)
    BY ToolIs DEF ToolName, SubscriptionLookupTool, TicketLookupTool, CourseLookupTool,
           ProgressLookupTool
  <2>3. IsTool(WaybillLookupTool) /\ IsTool(ClaimLookupTool) /\ IsTool(CRMProfileTool)
    BY ToolIs DEF ToolName, WaybillLookupTool, ClaimLookupTool, CRMProfileTool
  <2> QED
    BY <2>1, <2>2, <2>3 DEF Tool
<1>4. \A p \in RouteStrategy : p.kind = "route_strategy" /\ p.priority \in Nat /\ p.priority <= 1000
                               /\ (p.priority = 1000 => p = RiskRoute)
  BY DescriptorIs DEF RouteStrategy, RiskRoute, HumanRequestRoute, BusinessIntentRoute,
                      KnowledgeQuestionRoute, FallbackRoute
<1>5. \A p \in Handoff : p.kind = "human_handoff" /\ p.priority \in Int
  BY DescriptorIs DEF Handoff, RouteDecisionHandoff, ConfidenceHandoff, DefaultSummaryHandoff
<1>6. \A p \in PostProcessor : p.kind = "response_post_processor" /\ p.priority \in Int
  BY DescriptorIs DEF PostProcessor, ReferenceAppend, SensitiveMask, StructuredOutput
<1> QED
  BY <1>1, <1>2, <1>3, <1>4, <1>5, <1>6

Has(s, x) == \E i \in DOMAIN s : s[i] = x

LEMMA Concatenated ==
  ASSUME NEW P, NEW s \in Seq(P), NEW t \in Seq(P)
  PROVE  /\ s \o t \in Seq(P)
         /\ \A x : Has(s, x) \/ Has(t, x) => Has(s \o t, x)
<1>1. s \o t \in Seq(P) /\ Len(s \o t) = Len(s) + Len(t)
  OBVIOUS
<1>2. ASSUME NEW i \in DOMAIN s PROVE i \in DOMAIN (s \o t) /\ (s \o t)[i] = s[i]
  OBVIOUS
<1>3. ASSUME NEW i \in DOMAIN t
      PROVE  Len(s) + i \in DOMAIN (s \o t) /\ (s \o t)[Len(s) + i] = t[i]
  OBVIOUS
<1>4. ASSUME NEW x, Has(s, x) PROVE Has(s \o t, x)
  BY <1>2, <1>4 DEF Has
<1>5. ASSUME NEW x, Has(t, x) PROVE Has(s \o t, x)
  BY <1>3, <1>5 DEF Has
<1> QED
  BY <1>1, <1>4, <1>5

LEMMA Builtins ==
  /\ BuiltinPlugins \in Seq(BuiltinPlugin)
  /\ Has(BuiltinPlugins, RiskRoute)
  /\ Has(BuiltinPlugins, RouteDecisionHandoff)
<1> DEFINE P == BuiltinPlugin
           first == IndustryPlugins \o EnricherPlugins
           second == first \o ToolPlugins
           third == second \o RoutePlugins
           fourth == third \o HandoffPlugins
<1>1. IndustryPlugins \in Seq(P)
  BY DEF IndustryPlugins, BuiltinPlugin, Industry
<1>2. EnricherPlugins \in Seq(P)
  BY DEF EnricherPlugins, BuiltinPlugin, Enricher
<1>3. ToolPlugins \in Seq(P)
  BY DEF ToolPlugins, BuiltinPlugin, Tool
<1>4. RoutePlugins \in Seq(P) /\ Has(RoutePlugins, RiskRoute)
  BY DEF RoutePlugins, BuiltinPlugin, RouteStrategy, Has
<1>5. HandoffPlugins \in Seq(P) /\ Has(HandoffPlugins, RouteDecisionHandoff)
  BY DEF HandoffPlugins, BuiltinPlugin, Handoff, Has
<1>6. PostProcessors \in Seq(P)
  BY DEF PostProcessors, BuiltinPlugin, PostProcessor
<1>7. BuiltinPlugins = fourth \o PostProcessors
  BY DEF BuiltinPlugins
<1> HIDE DEF P
<1>8. first \in Seq(P)
  BY <1>1, <1>2, Concatenated
<1> HIDE DEF first
<1>9. second \in Seq(P)
  BY <1>3, <1>8, Concatenated
<1> HIDE DEF second
<1>10. third \in Seq(P) /\ Has(third, RiskRoute)
  BY <1>4, <1>9, Concatenated
<1> HIDE DEF third
<1>11. fourth \in Seq(P) /\ Has(fourth, RiskRoute) /\ Has(fourth, RouteDecisionHandoff)
  BY <1>5, <1>10, Concatenated
<1> HIDE DEF fourth
<1>12. /\ fourth \o PostProcessors \in Seq(P)
       /\ Has(fourth \o PostProcessors, RiskRoute)
       /\ Has(fourth \o PostProcessors, RouteDecisionHandoff)
  BY <1>6, <1>11, Concatenated
<1> QED
  BY <1>7, <1>12 DEF P

(* What the registry resolves for a kind are enabled plugins of that kind, *)
(* and all of them that are in scope.                                      *)
LEMMA ResolveIs ==
  ASSUME NEW kind, NEW tenant, NEW industry, NEW channel
  PROVE  LET found == Resolve(registry, kind, tenant, industry, channel) IN
         /\ found \in Seq(BuiltinPlugin)
         /\ \A i \in DOMAIN found : found[i].kind = kind
         /\ \A p \in BuiltinPlugin :
              /\ Has(BuiltinPlugins, p) /\ p.kind = kind /\ IsEnabled(registry, p)
              /\ InScope(p, tenant, industry, channel)
              => Has(found, p)
<1> DEFINE of == BuiltinPlugins
           S == {i \in DOMAIN of : /\ of[i].kind = kind
                                   /\ IsEnabled(registry, of[i])
                                   /\ InScope(of[i], tenant, industry, channel)}
           found == Sorted(of, S)
<1>1. Resolve(registry, kind, tenant, industry, channel) = found
  BY DEF Resolve, registry
<1>2. of \in Seq(BuiltinPlugin)
  BY Builtins
<1>3. S \in SUBSET (DOMAIN of)
  OBVIOUS
<1>4. \A at \in S : of[at].priority \in Int
  <2>1. \A p \in BuiltinPlugin : p.priority \in Int
    BY Kinds DEF BuiltinPlugin, IsIndustry, IsTool
  <2> HIDE DEF of
  <2> QED
    BY <1>2, <1>3, <2>1
<1>5. /\ found \in Seq(BuiltinPlugin)
      /\ \A i \in DOMAIN found : \E at \in S : found[i] = of[at]
      /\ \A at \in S : \E i \in DOMAIN found : found[i] = of[at]
  <2> HIDE DEF of, S
  <2> QED
    BY <1>2, <1>3, <1>4, SortedIs
<1>6. \A i \in DOMAIN found : found[i].kind = kind
  <2> HIDE DEF found
  <2> QED
    BY <1>5
<1>7. ASSUME NEW p \in BuiltinPlugin, NEW at \in DOMAIN of, of[at] = p,
             p.kind = kind, IsEnabled(registry, p), InScope(p, tenant, industry, channel)
      PROVE  Has(found, p)
  <2>1. at \in S
    BY <1>7
  <2> HIDE DEF found, S
  <2> QED
    BY <1>5, <1>7, <2>1 DEF Has
<1> HIDE DEF found
<1> QED
  BY <1>1, <1>5, <1>6, <1>7 DEF Has

-----------------------------------------------------------------------------
(* Snapshots and decisions.                                                *)
HasPage(context) == context.page_type \in Maybe(STRING) /\ context.business_objects \in Objects

LEMMA SnapshotIs ==
  /\ NoSnapshot \in Snapshot
  /\ \A context : HasPage(context) => ContextSnapshot(context) \in Snapshot
  /\ \A base, incoming \in Snapshot : MergeSnapshot(base, incoming) \in Snapshot
<1>1. NoSnapshot \in Snapshot
  BY DEF NoSnapshot, Snapshot, NoObjects, Objects, Maybe
<1>2. \A context : HasPage(context) => ContextSnapshot(context) \in Snapshot
  BY DEF HasPage, ContextSnapshot, Snapshot
<1>3. ASSUME NEW base \in Snapshot, NEW incoming \in Snapshot
      PROVE  MergeSnapshot(base, incoming) \in Snapshot
  <2>1. /\ base.page_type \in Maybe(STRING) /\ base.business_objects \in Objects
        /\ incoming.page_type \in Maybe(STRING) /\ incoming.business_objects \in Objects
    BY DEF Snapshot
  <2>2. OrElse(incoming.page_type, base.page_type) \in Maybe(STRING)
    BY <2>1 DEF OrElse
  <2>3. \A f \in ObjectField :
          OrElse(incoming.business_objects[f], base.business_objects[f]) \in Maybe(STRING)
    BY <2>1 DEF OrElse, Objects
  <2> QED
    BY <2>2, <2>3 DEF MergeSnapshot, Snapshot, Objects
<1> QED
  BY <1>1, <1>2, <1>3

(* Only routes that go to a human ask for one.                             *)
Plausible(d) == d \in DecisionRecord /\ (d.requires_handoff => d.route \in {"handoff", "risk"})

LEMMA DecisionIs ==
  ASSUME NEW route \in Route, NEW confidence \in Confidence, NEW intent \in Intent,
         NEW tool_name \in Maybe(ToolName), NEW human \in BOOLEAN, NEW snapshot \in Snapshot
  PROVE  LET d == Decision(route, confidence, intent, tool_name, human, snapshot) IN
         /\ d \in DecisionRecord
         /\ d.route = route /\ d.confidence = confidence /\ d.requires_handoff = human
         /\ d.tool_name = tool_name /\ d.confidence_band = "low"
BY DEF Decision, DecisionRecord

(* A decision with another confidence, band, or snapshot.                  *)
Changed(d, c, snapshot) == [d EXCEPT !.confidence = c, !.context_snapshot = snapshot]

Banded(d, band, snapshot) == [d EXCEPT !.confidence_band = band, !.context_snapshot = snapshot]

Moved(d, snapshot) == [d EXCEPT !.context_snapshot = snapshot]

LEMMA ChangedDecision ==
  ASSUME NEW d \in DecisionRecord, NEW snapshot \in Snapshot, NEW c \in Confidence
  PROVE  LET e == Changed(d, c, snapshot) IN
         /\ e \in DecisionRecord /\ e.route = d.route /\ e.confidence = c
         /\ e.requires_handoff = d.requires_handoff
BY DEF DecisionRecord, Changed

LEMMA BandedDecision ==
  ASSUME NEW d \in DecisionRecord, NEW snapshot \in Snapshot, NEW band \in {"high", "medium", "low"}
  PROVE  LET e == Banded(d, band, snapshot) IN
         /\ e \in DecisionRecord /\ e.route = d.route /\ e.confidence = d.confidence
         /\ e.requires_handoff = d.requires_handoff /\ e.confidence_band = band
BY DEF DecisionRecord, Banded

LEMMA MovedDecision ==
  ASSUME NEW d \in DecisionRecord, NEW snapshot \in Snapshot
  PROVE  LET e == Moved(d, snapshot) IN
         /\ e \in DecisionRecord /\ e.route = d.route /\ e.confidence = d.confidence
         /\ e.requires_handoff = d.requires_handoff
BY DEF DecisionRecord, Moved

LEMMA ConfidenceIs ==
  \A c : c \in Confidence <=> c \in Int /\ 0 <= c /\ c <= 99
BY DEF Confidence

LEMMA Clamped ==
  ASSUME NEW c \in Confidence, NEW least \in Int
  PROVE  AtLeast(c, least) \in Confidence
BY ConfidenceIs DEF Clamp, AtLeast

-----------------------------------------------------------------------------
(* The tools of pages and of keywords.                                     *)
LEMMA PageTools ==
  ASSUME NEW page_type
  PROVE  ToolOfPage(page_type) \in Maybe(ToolName)
BY DEF ToolOfPage, PageTool, Maybe, ToolName

LEMMA KeywordTools ==
  ASSUME NEW i \in DOMAIN KeywordOrder
  PROVE  KeywordOrder[i] \in ToolName
<1>1. DOMAIN KeywordOrder = DOMAIN ToolPlugins
  BY DEF KeywordOrder
<1>2. ToolPlugins[i] \in Tool
  BY <1>1 DEF ToolPlugins, Tool
<1> QED
  BY <1>1, <1>2, Kinds DEF KeywordOrder, IsTool

(* Only a tool or a human is as sure as can be.                            *)
Humble(d) == d.route \in {"knowledge", "fallback"} => d.confidence <= 98

Sound(d) == Plausible(d) /\ Humble(d)

LEMMA SoundDecision ==
  ASSUME NEW route \in Route, NEW confidence \in Confidence, NEW intent \in Intent,
         NEW tool_name \in Maybe(ToolName), NEW human \in BOOLEAN, NEW snapshot \in Snapshot,
         human => route \in {"handoff", "risk"},
         route \in {"knowledge", "fallback"} => confidence <= 98
  PROVE  Sound(Decision(route, confidence, intent, tool_name, human, snapshot))
BY DecisionIs DEF Sound, Plausible, Humble

LEMMA PlausibleDecision ==
  ASSUME NEW route \in Route, NEW confidence \in Confidence, NEW intent \in Intent,
         NEW tool_name \in Maybe(ToolName), NEW human \in BOOLEAN, NEW snapshot \in Snapshot,
         human => route \in {"handoff", "risk"}
  PROVE  Plausible(Decision(route, confidence, intent, tool_name, human, snapshot))
BY DecisionIs DEF Plausible

(* What a route plugin matches.                                            *)
LEMMA MatchIs ==
  ASSUME NEW plugin \in RouteStrategy, NEW message
  PROVE  MatchRoute(plugin, message) # None => Sound(MatchRoute(plugin, message))
<1>1. NoSnapshot \in Snapshot /\ None \in Maybe(ToolName) /\ \A x \in ToolName : x \in Maybe(ToolName)
  BY SnapshotIs DEF Maybe
<1>2. /\ "risk" \in Intent /\ "human_request" \in Intent /\ "knowledge_question" \in Intent
      /\ "fallback_clarification" \in Intent /\ \A x \in ToolName : x \in Intent
      /\ "risk" \in Route /\ "handoff" \in Route /\ "knowledge" \in Route
      /\ "fallback" \in Route /\ "business" \in Route
  BY DEF Intent, Route
<1>3. /\ Sound(Decision("risk", 98, "risk", None, TRUE, NoSnapshot))
      /\ Sound(Decision("handoff", 99, "human_request", None, TRUE, NoSnapshot))
      /\ Sound(Decision("knowledge", 72, "knowledge_question", None, FALSE, NoSnapshot))
      /\ Sound(Decision("fallback", 36, "fallback_clarification", None, FALSE, NoSnapshot))
  <2>1. /\ 98 \in Confidence /\ 99 \in Confidence
        /\ 72 \in Confidence /\ 72 <= 98 /\ 36 \in Confidence /\ 36 <= 98
    BY ConfidenceIs
  <2>2. Sound(Decision("risk", 98, "risk", None, TRUE, NoSnapshot))
    BY <1>1, <1>2, <2>1, SoundDecision
  <2>3. Sound(Decision("handoff", 99, "human_request", None, TRUE, NoSnapshot))
    BY <1>1, <1>2, <2>1, SoundDecision
  <2>4. Sound(Decision("knowledge", 72, "knowledge_question", None, FALSE, NoSnapshot))
    BY <1>1, <1>2, <2>1, SoundDecision
  <2>5. Sound(Decision("fallback", 36, "fallback_clarification", None, FALSE, NoSnapshot))
    BY <1>1, <1>2, <2>1, SoundDecision
  <2> QED
    BY <2>2, <2>3, <2>4, <2>5
<1>4. /\ MatchRisk(message) # None => Sound(MatchRisk(message))
      /\ MatchHumanRequest(message) # None => Sound(MatchHumanRequest(message))
      /\ MatchKnowledgeQuestion(message) # None => Sound(MatchKnowledgeQuestion(message))
      /\ Sound(MatchFallback)
  BY <1>3 DEF MatchRisk, MatchHumanRequest, MatchKnowledgeQuestion, MatchFallback
<1>5. MatchBusinessIntent(message) # None => Sound(MatchBusinessIntent(message))
  <2> DEFINE S == {i \in DOMAIN KeywordOrder : KeywordOrder[i] \in message.tools}
             at == CHOOSE i \in S : \A k \in S : i <= k
             tool == KeywordOrder[at]
  <2>1. CASE S = {}
    BY <2>1 DEF MatchBusinessIntent, FirstSuch
  <2>2. CASE S # {}
    <3>1. S \subseteq Nat
      BY DEF KeywordOrder, ToolPlugins
    <3>2. \E i \in S : \A k \in S : i <= k
      <4> HIDE DEF S
      <4> QED
        BY <2>2, <3>1, LeastNatural
    <3>3. at \in S
      <4> HIDE DEF S
      <4> QED
        BY <3>2
    <3>4. tool \in ToolName
      <4> HIDE DEF at
      <4> QED
        BY <3>3, KeywordTools
    <3>5. \/ MatchBusinessIntent(message) = None
          \/ MatchBusinessIntent(message) = Decision("business", 88, tool, tool, FALSE, NoSnapshot)
      BY <2>2 DEF MatchBusinessIntent, FirstSuch
    <3> HIDE DEF tool
    <3>6. 88 \in Confidence
      BY ConfidenceIs
    <3>7. Sound(Decision("business", 88, tool, tool, FALSE, NoSnapshot))
      BY <1>1, <1>2, <3>4, <3>6, SoundDecision
    <3> QED
      BY <3>5, <3>7
  <2> QED
    BY <2>1, <2>2
<1> QED
  BY <1>4, <1>5 DEF MatchRoute, RouteStrategy

-----------------------------------------------------------------------------
(* The candidate of the intent stack, and the signals of the page.         *)
HumbleStack(frames) == \A i \in DOMAIN frames : Humble(frames[i])

LEMMA TopFrames ==
  ASSUME NEW frames \in Seq(Frame)
  PROVE  /\ ActiveIntent(frames) # None => /\ ActiveIntent(frames) \in Frame
                                           /\ HumbleStack(frames) => Humble(ActiveIntent(frames))
         /\ PreviousIntent(frames) # None =>
              /\ PreviousIntent(frames) \in Frame
              /\ HumbleStack(frames) => Humble(PreviousIntent(frames))
         /\ ActiveIntent(frames) # None <=> frames # <<>>
<1>1. ASSUME frames # <<>>
      PROVE  /\ ActiveIntent(frames) = frames[Len(frames)] /\ Len(frames) \in DOMAIN frames
             /\ frames[Len(frames)] \in Frame
  BY <1>1 DEF ActiveIntent
<1>2. ASSUME Len(frames) >= 2
      PROVE  /\ PreviousIntent(frames) = frames[Len(frames) - 1] /\ Len(frames) - 1 \in DOMAIN frames
             /\ frames[Len(frames) - 1] \in Frame
  BY <1>2 DEF PreviousIntent
<1>3. frames = <<>> => ActiveIntent(frames) = None
  BY DEF ActiveIntent
<1>4. Len(frames) \in Nat /\ (~(Len(frames) >= 2) => PreviousIntent(frames) = None)
  BY DEF PreviousIntent
<1>5. None \notin Frame
  BY ChatTurnAssumption
<1> QED
  BY <1>1, <1>2, <1>3, <1>4, <1>5 DEF HumbleStack

LEMMA FrameIs ==
  ASSUME NEW frame \in Frame, NEW snapshot \in Snapshot
  PROVE  /\ frame.intent \in Intent /\ frame.route \in Route /\ frame.tool_name \in Maybe(ToolName)
         /\ frame.confidence \in Confidence /\ frame.context_snapshot \in Snapshot
         /\ MergeSnapshot(frame.context_snapshot, snapshot) \in Snapshot
<1>1. /\ frame.intent \in Intent /\ frame.route \in Route /\ frame.tool_name \in Maybe(ToolName)
      /\ frame.confidence \in Confidence /\ frame.context_snapshot \in Snapshot
  BY DEF Frame
<1> QED
  BY <1>1, SnapshotIs

LEMMA BackTo ==
  ASSUME NEW frame \in Frame, NEW snapshot \in Snapshot
  PROVE  LET d == Decision(frame.route, AtLeast(frame.confidence, 84), frame.intent,
                           frame.tool_name, FALSE, MergeSnapshot(frame.context_snapshot, snapshot))
         IN Plausible(d) /\ (Humble(frame) => Humble(d))
<1> DEFINE c == AtLeast(frame.confidence, 84)
           merged == MergeSnapshot(frame.context_snapshot, snapshot)
           d == Decision(frame.route, c, frame.intent, frame.tool_name, FALSE, merged)
<1>1. /\ frame.intent \in Intent /\ frame.route \in Route /\ frame.tool_name \in Maybe(ToolName)
      /\ frame.confidence \in Confidence /\ merged \in Snapshot
  BY FrameIs
<1>2. c \in Confidence
  BY <1>1, Clamped, ConfidenceIs
<1>3. frame.confidence <= 98 => c <= 98
  BY <1>1, ConfidenceIs DEF AtLeast, Clamp
<1> HIDE DEF c, merged
<1>4. Plausible(d)
  BY <1>1, <1>2, PlausibleDecision
<1>5. ASSUME Humble(frame) PROVE Humble(d)
  <2>1. frame.route \in {"knowledge", "fallback"} => c <= 98
    BY <1>3, <1>5 DEF Humble
  <2>2. Sound(d)
    BY <1>1, <1>2, <2>1, SoundDecision
  <2> QED
    BY <2>2 DEF Sound
<1> HIDE DEF d
<1>6. Plausible(d) /\ (Humble(frame) => Humble(d))
  BY <1>4, <1>5
<1> QED
  BY <1>6 DEF d, c, merged

LEMMA BusinessIs ==
  ASSUME NEW c \in Confidence, NEW intent \in Intent, NEW tool_name \in Maybe(ToolName),
         NEW merged \in Snapshot
  PROVE  Sound(Decision("business", c, intent, tool_name, FALSE, merged))
<1>1. "business" \in Route
  BY DEF Route
<1> QED
  BY <1>1, SoundDecision

LEMMA ContinueIs ==
  ASSUME NEW message, NEW snapshot \in Snapshot, NEW frame \in Frame
  PROVE  ContinueCandidate(message, snapshot, frame) # None =>
           Sound(ContinueCandidate(message, snapshot, frame))
<1> DEFINE c == AtLeast(frame.confidence, 80)
           merged == MergeSnapshot(frame.context_snapshot, snapshot)
<1>1. /\ frame.intent \in Intent /\ frame.tool_name \in Maybe(ToolName)
      /\ frame.confidence \in Confidence /\ merged \in Snapshot
  BY FrameIs
<1>2. c \in Confidence
  BY <1>1, Clamped, ConfidenceIs
<1>3. \/ ContinueCandidate(message, snapshot, frame) = None
      \/ ContinueCandidate(message, snapshot, frame) =
           Decision("business", c, frame.intent, frame.tool_name, FALSE, merged)
  BY DEF ContinueCandidate
<1> HIDE DEF c, merged
<1>4. Sound(Decision("business", c, frame.intent, frame.tool_name, FALSE, merged))
  BY <1>1, <1>2, BusinessIs
<1> QED
  BY <1>3, <1>4

LEMMA InferIs ==
  ASSUME NEW message, NEW context, HasPage(context), NEW active \in Maybe(Frame)
  PROVE  InferCandidate(message, context, active) # None =>
           Sound(InferCandidate(message, context, active))
<1> DEFINE tool == InferTool(message, context, active)
           merged == MergeSnapshot(IF active = None THEN NoSnapshot ELSE active.context_snapshot,
                                   ContextSnapshot(context))
           c == IF ContextSupportsTool(tool, merged) THEN 78 ELSE 62
<1>1. ContextSnapshot(context) \in Snapshot /\ NoSnapshot \in Snapshot
  BY SnapshotIs
<1>2. active # None => active.tool_name \in Maybe(ToolName) /\ active.context_snapshot \in Snapshot
  BY DEF Frame, Maybe
<1>3. tool \in Maybe(ToolName)
  BY <1>2, PageTools DEF InferTool, Maybe
<1>4. merged \in Snapshot
  BY <1>1, <1>2, SnapshotIs
<1>5. c \in Confidence
  BY ConfidenceIs
<1>6. InferCandidate(message, context, active) =
        IF tool = None THEN None ELSE Decision("business", c, tool, tool, FALSE, merged)
  BY DEF InferCandidate
<1>7. tool # None => tool \in Intent
  BY <1>3 DEF Maybe, Intent
<1> HIDE DEF tool, merged, c
<1>8. tool # None => Sound(Decision("business", c, tool, tool, FALSE, merged))
  BY <1>3, <1>4, <1>5, <1>7, BusinessIs
<1> QED
  BY <1>6, <1>8

LEMMA ContextualIs ==
  ASSUME NEW message, NEW context, HasPage(context), NEW frames \in Seq(Frame)
  PROVE  ContextualCandidate(message, context, frames) # None =>
           /\ Plausible(ContextualCandidate(message, context, frames))
           /\ HumbleStack(frames) => Humble(ContextualCandidate(message, context, frames))
<1> DEFINE active == ActiveIntent(frames)
           previous == PreviousIntent(frames)
           snapshot == ContextSnapshot(context)
           OK(d) == d # None => Plausible(d) /\ (HumbleStack(frames) => Humble(d))
<1>1. /\ active \in Maybe(Frame)
      /\ previous # None => previous \in Frame /\ (HumbleStack(frames) => Humble(previous))
  BY TopFrames DEF Maybe
<1>2. snapshot \in Snapshot
  BY SnapshotIs
<1>3. OK(ReturnCandidate(message, snapshot, frames))
  BY <1>1, <1>2, BackTo DEF ReturnCandidate
<1>4. OK(ContinueCandidate(message, snapshot, active))
  <2>1. CASE active = None
    BY <2>1 DEF ContinueCandidate
  <2>2. CASE active # None
    BY <1>1, <1>2, <2>2, ContinueIs DEF Sound, Maybe
  <2> QED
    BY <2>1, <2>2
<1>5. OK(InferCandidate(message, context, active))
  BY <1>1, InferIs DEF Sound
<1> HIDE DEF OK
<1>6. OK(ContextualCandidate(message, context, frames))
  BY <1>3, <1>4, <1>5 DEF ContextualCandidate
<1> QED
  BY <1>6 DEF OK

LEMMA SignalledIs ==
  ASSUME NEW d, Plausible(d), NEW message, NEW context, HasPage(context),
         NEW frames \in Seq(Frame)
  PROVE  LET e == Signalled(d, message, context, frames) IN
         /\ Plausible(e) /\ e.route = d.route /\ (Humble(d) => Humble(e))
         /\ d.route \in {"handoff", "risk"} => e.confidence = d.confidence
<1> DEFINE active == ActiveIntent(frames)
           own == ContextSnapshot(context)
           merged == MergeSnapshot(active.context_snapshot, own)
           same == active # None /\ active.tool_name = d.tool_name /\ message.followup
           snapshot == IF same THEN merged ELSE own
           c0 == IF same THEN Clamp(d.confidence + 5) ELSE d.confidence
           c1 == IF ContextSupportsTool(d.tool_name, snapshot) THEN Clamp(c0 + 8) ELSE c0
           c2 == IF ToolOfPage(context.page_type) = d.tool_name THEN Clamp(c1 + 6) ELSE c1
           e == Signalled(d, message, context, frames)
<1>1. d \in DecisionRecord /\ d.confidence \in Confidence
  BY DEF Plausible, DecisionRecord
<1>2. own \in Snapshot /\ (active # None => merged \in Snapshot)
  BY TopFrames, FrameIs, SnapshotIs
<1>3. snapshot \in Snapshot
  BY <1>2
<1>4. c0 \in Confidence
  BY <1>1, ConfidenceIs DEF Clamp
<1>5. c1 \in Confidence
  <2> HIDE DEF c0
  <2> QED
    BY <1>4, ConfidenceIs DEF Clamp
<1>6. c2 \in Confidence
  <2> HIDE DEF c1
  <2> QED
    BY <1>5, ConfidenceIs DEF Clamp
<1>7. Clamp(d.confidence - 12) \in Confidence /\ Clamp(d.confidence - 12) <= 98
  BY <1>1, ConfidenceIs DEF Clamp
<1>8. \/ d.route = "business" /\ e = Changed(d, c2, snapshot)
      \/ d.route = "knowledge" /\ active # None /\ e = Changed(d, Clamp(d.confidence - 12), merged)
      \/ e = Moved(d, own)
  BY DEF Signalled, Changed, Moved
<1> HIDE DEF c2, snapshot, merged, own, active, e
<1>9. CASE d.route = "business" /\ e = Changed(d, c2, snapshot)
  <2>1. e \in DecisionRecord /\ e.route = d.route /\ e.requires_handoff = d.requires_handoff
    BY <1>1, <1>3, <1>6, <1>9, ChangedDecision
  <2> QED
    BY <1>9, <2>1 DEF Plausible, Humble, e
<1>10. CASE d.route = "knowledge" /\ active # None /\ e = Changed(d, Clamp(d.confidence - 12), merged)
  <2>1. /\ e \in DecisionRecord /\ e.route = d.route /\ e.requires_handoff = d.requires_handoff
        /\ e.confidence = Clamp(d.confidence - 12)
    BY <1>1, <1>2, <1>7, <1>10, ChangedDecision, ConfidenceIs
  <2> QED
    BY <1>7, <1>10, <2>1 DEF Plausible, Humble, e
<1>11. CASE e = Moved(d, own)
  <2>1. /\ e \in DecisionRecord /\ e.route = d.route /\ e.requires_handoff = d.requires_handoff
        /\ e.confidence = d.confidence
    BY <1>1, <1>2, <1>11, MovedDecision
  <2> QED
    BY <2>1 DEF Plausible, Humble, e
<1> QED
  BY <1>8, <1>9, <1>10, <1>11

(* The surest candidate.                                                   *)
IsCandidate(c) ==
  c.decision.confidence \in Confidence /\ c.priority \in Nat /\ c.priority <= 1000 /\ c.place \in Nat

LEMMA BestIs ==
  ASSUME NEW C, C # {}, \A c \in C : IsCandidate(c), NEW context
  PROVE  \E a \in C : Best(C, context) = a.decision /\ \A b \in C : Better(a, b)
<1> DEFINE sure(c) == 99 - c.decision.confidence
           rank(c) == 1000 - c.priority
           S1 == {sure(c) : c \in C}
<1>1. \A c \in C : sure(c) \in Nat /\ rank(c) \in Nat /\ c.place \in Nat
                   /\ c.decision.confidence \in Int /\ c.priority \in Int
  BY ConfidenceIs DEF IsCandidate
<1>2. PICK c1 \in C : \A b \in C : sure(c1) <= sure(b)
  <2>1. S1 \subseteq Nat /\ S1 # {}
    BY <1>1
  <2>2. \E n \in S1 : \A k \in S1 : n <= k
    <3> HIDE DEF S1
    <3> QED
      BY <2>1, LeastNatural
  <2> QED
    BY <2>2
<1> DEFINE C2 == {c \in C : sure(c) = sure(c1)}
           S2 == {rank(c) : c \in C2}
<1>3. PICK c2 \in C2 : \A b \in C2 : rank(c2) <= rank(b)
  <2>1. S2 \subseteq Nat /\ S2 # {}
    BY <1>1
  <2>2. \E n \in S2 : \A k \in S2 : n <= k
    <3> HIDE DEF S2
    <3> QED
      BY <2>1, LeastNatural
  <2> QED
    BY <2>2
<1> DEFINE C3 == {c \in C2 : rank(c) = rank(c2)}
           S3 == {c.place : c \in C3}
<1>4. PICK c3 \in C3 : \A b \in C3 : c3.place <= b.place
  <2>1. S3 \subseteq Nat /\ S3 # {}
    BY <1>1
  <2>2. \E n \in S3 : \A k \in S3 : n <= k
    <3> HIDE DEF S3
    <3> QED
      BY <2>1, LeastNatural
  <2> QED
    BY <2>2
<1>5. ASSUME NEW b \in C PROVE Better(c3, b)
  <2>1. c3 \in C /\ sure(c3) = sure(c1) /\ rank(c3) = rank(c2)
    OBVIOUS
  <2>2. sure(c3) <= sure(b)
    BY <1>2, <2>1
  <2>3. sure(b) = sure(c3) => rank(c3) <= rank(b)
    BY <1>3, <2>1
  <2>4. sure(b) = sure(c3) /\ rank(b) = rank(c3) => c3.place <= b.place
    BY <1>4, <2>1
  <2> QED
    BY <1>1, <2>1, <2>2, <2>3, <2>4 DEF Better
<1>6. \E a \in C : \A b \in C : Better(a, b)
  BY <1>5
<1> DEFINE a == CHOOSE x \in C : \A b \in C : Better(x, b)
<1>7. a \in C /\ \A b \in C : Better(a, b)
  BY <1>6
<1>8. Best(C, context) = a.decision
  BY DEF Best
<1> HIDE DEF a
<1> QED
  BY <1>7, <1>8

LEMMA RiskMatch ==
  ASSUME NEW message
  PROVE  /\ MatchRoute(RiskRoute, message) = MatchRisk(message)
         /\ MatchRisk(message) # None =>
              MatchRisk(message).route = "risk" /\ MatchRisk(message).confidence = 98
         /\ message.risk => MatchRisk(message) # None
<1>1. MatchRoute(RiskRoute, message) = MatchRisk(message)
  <2>1. /\ RiskRoute.priority = 1000 /\ HumanRequestRoute.priority = 950
        /\ BusinessIntentRoute.priority = 800 /\ KnowledgeQuestionRoute.priority = 500
        /\ FallbackRoute.priority = 1
    BY DescriptorIs DEF RiskRoute, HumanRequestRoute, BusinessIntentRoute,
                        KnowledgeQuestionRoute, FallbackRoute
  <2>2. /\ RiskRoute # HumanRequestRoute /\ RiskRoute # BusinessIntentRoute
        /\ RiskRoute # KnowledgeQuestionRoute /\ RiskRoute # FallbackRoute
    BY <2>1
  <2> QED
    BY <2>2 DEF MatchRoute
<1>2. MatchRisk(message) # None =>
        MatchRisk(message).route = "risk" /\ MatchRisk(message).confidence = 98
  BY DEF MatchRisk, Decision
<1>3. ASSUME message.risk PROVE MatchRisk(message) # None
  <2>1. /\ "risk" \in Route /\ 98 \in Confidence /\ "risk" \in Intent
        /\ None \in Maybe(ToolName) /\ NoSnapshot \in Snapshot
    BY ConfidenceIs, SnapshotIs DEF Route, Intent, Maybe
  <2>2. Decision("risk", 98, "risk", None, TRUE, NoSnapshot) \in DecisionRecord
    BY <2>1, PlausibleDecision DEF Plausible
  <2>3. None \notin DecisionRecord
    BY ChatTurnAssumption
  <2> QED
    BY <1>3, <2>2, <2>3 DEF MatchRisk
<1> QED
  BY <1>1, <1>2, <1>3

LEMMA CandidatesAre ==
  ASSUME NEW plugins \in Seq(RouteStrategy), NEW message, NEW context, HasPage(context),
         NEW frames \in Seq(Frame), NEW c \in Candidates(plugins, message, context, frames)
  PROVE  /\ IsCandidate(c) /\ Plausible(c.decision)
         /\ HumbleStack(frames) => Humble(c.decision)
         /\ c.priority = 1000 => c.decision.route = "risk"
<1> DEFINE found(i) == MatchRoute(plugins[i], message)
           Plugin(i) == [decision |-> Signalled(found(i), message, context, frames),
                         priority |-> plugins[i].priority, place |-> i]
           Stack(d) == [decision |-> d, priority |-> 875, place |-> 0]
<1>1. \/ \E i \in DOMAIN plugins : found(i) # None /\ c = Plugin(i)
      \/ /\ ContextualCandidate(message, context, frames) # None
         /\ c = Stack(ContextualCandidate(message, context, frames))
  BY DEF Candidates
<1>2. \A d : Plausible(d) => d.confidence \in Confidence
  BY DEF Plausible, DecisionRecord
<1>3. ASSUME NEW i \in DOMAIN plugins, found(i) # None, c = Plugin(i)
      PROVE  /\ IsCandidate(c) /\ Plausible(c.decision) /\ Humble(c.decision)
             /\ c.priority = 1000 => c.decision.route = "risk"
  <2> DEFINE d == Signalled(found(i), message, context, frames)
  <2>1. plugins[i] \in RouteStrategy /\ i \in Nat
    OBVIOUS
  <2>2. Sound(found(i))
    BY <1>3, <2>1, MatchIs
  <2>3. Plausible(d) /\ Humble(d) /\ d.route = found(i).route
    BY <2>2, SignalledIs DEF Sound
  <2>4. plugins[i].priority \in Nat /\ plugins[i].priority <= 1000 /\ (plugins[i].priority = 1000 => plugins[i] = RiskRoute)
    BY <2>1, Kinds
  <2>5. plugins[i] = RiskRoute => found(i).route = "risk"
    BY <1>3, RiskMatch
  <2>6. c.decision = d /\ c.priority = plugins[i].priority /\ c.place = i
    BY <1>3
  <2> HIDE DEF d, found
  <2> QED
    BY <1>2, <2>1, <2>3, <2>4, <2>5, <2>6 DEF IsCandidate
<1>4. ASSUME NEW d, d = ContextualCandidate(message, context, frames), d # None, c = Stack(d)
      PROVE  /\ IsCandidate(c) /\ Plausible(c.decision)
             /\ HumbleStack(frames) => Humble(c.decision)
             /\ c.priority # 1000
  <2>1. Plausible(d) /\ (HumbleStack(frames) => Humble(d))
    BY <1>4, ContextualIs
  <2>2. c.decision = d /\ c.priority = 875 /\ c.place = 0
    BY <1>4
  <2> QED
    BY <1>2, <2>1, <2>2 DEF IsCandidate
<1> QED
  BY <1>1, <1>3, <1>4

(* The best candidate: a message of risk is not outdone by less than a     *)
(* tool that is as sure as can be.                                         *)
Urgent(d) ==
  d.route \in {"handoff", "risk"} \/ (d.route = "business" /\ d.confidence = 99)

LEMMA BestRoute ==
  ASSUME NEW plugins \in Seq(RouteStrategy), NEW message, NEW context, HasPage(context),
         NEW frames \in Seq(Frame)
  PROVE  LET best == Best(Candidates(plugins, message, context, frames), context) IN
         /\ Plausible(best)
         /\ HumbleStack(frames) => Humble(best)
         /\ HumbleStack(frames) /\ message.risk /\ Has(plugins, RiskRoute) => Urgent(best)
<1> DEFINE C == Candidates(plugins, message, context, frames)
           best == Best(C, context)
<1>1. \A c \in C : /\ IsCandidate(c) /\ Plausible(c.decision)
                   /\ HumbleStack(frames) => Humble(c.decision)
                   /\ c.priority = 1000 => c.decision.route = "risk"
  BY CandidatesAre
<1>2. CASE C = {}
  <2>1. /\ "fallback" \in Route /\ 30 \in Confidence /\ 30 <= 98
        /\ "fallback_clarification" \in Intent
        /\ None \in Maybe(ToolName) /\ ContextSnapshot(context) \in Snapshot
    BY ConfidenceIs, SnapshotIs DEF Route, Intent, Maybe
  <2>2. Sound(Decision("fallback", 30, "fallback_clarification", None, FALSE,
                       ContextSnapshot(context)))
    BY <2>1, SoundDecision
  <2>3. Sound(best)
    BY <1>2, <2>2 DEF Best
  <2>4. ~(message.risk /\ Has(plugins, RiskRoute))
    <3> SUFFICES ASSUME message.risk, NEW i \in DOMAIN plugins, plugins[i] = RiskRoute
                 PROVE  FALSE
      BY DEF Has
    <3>1. MatchRoute(plugins[i], message) # None
      BY RiskMatch
    <3> DEFINE r == [decision |-> Signalled(MatchRoute(plugins[i], message), message, context,
                                           frames),
                     priority |-> plugins[i].priority, place |-> i]
    <3>2. r \in C
      BY <3>1 DEF Candidates
    <3> QED
      BY <1>2, <3>2
  <2> QED
    BY <2>3, <2>4 DEF Sound
<1>3. CASE C # {}
  <2> HIDE DEF C
  <2>1. PICK a \in C : best = a.decision /\ \A b \in C : Better(a, b)
    BY <1>1, <1>3, BestIs
  <2>2. Plausible(best) /\ (HumbleStack(frames) => Humble(best))
    BY <1>1, <2>1
  <2>3. ASSUME HumbleStack(frames), message.risk, NEW i \in DOMAIN plugins,
               plugins[i] = RiskRoute
        PROVE  Urgent(best)
    <3> DEFINE d == Signalled(MatchRoute(plugins[i], message), message, context, frames)
               r == [decision |-> d, priority |-> plugins[i].priority, place |-> i]
    <3>1. /\ MatchRoute(plugins[i], message) # None
          /\ MatchRoute(plugins[i], message).route = "risk"
          /\ MatchRoute(plugins[i], message).confidence = 98
      BY <2>3, RiskMatch
    <3>2. r \in C
      BY <3>1 DEF Candidates, C
    <3>3. Plausible(MatchRoute(plugins[i], message))
      BY <3>1, MatchIs DEF Sound
    <3>4. d.confidence = 98
      BY <3>1, <3>3, SignalledIs
    <3>5. plugins[i].priority = 1000
      BY <2>3, DescriptorIs DEF RiskRoute
    <3> HIDE DEF d
    <3>6. Better(a, r) /\ r.decision.confidence = 98 /\ r.priority = 1000
      BY <2>1, <3>2, <3>4, <3>5
    <3> HIDE DEF r
    <3>7. /\ a.decision.confidence \in Int /\ a.decision.confidence <= 99
          /\ a.priority \in Nat /\ a.priority <= 1000
      BY <1>1, ConfidenceIs DEF IsCandidate
    <3>8. a.decision.confidence > 98 \/ a.priority >= 1000
      BY <3>6, <3>7 DEF Better
    <3>9. a.decision.confidence = 99 \/ a.priority = 1000
      BY <3>7, <3>8
    <3>10. a.decision.route \in Route
      BY <1>1 DEF Plausible, DecisionRecord
    <3>11. a.priority = 1000 => Urgent(a.decision)
      BY <1>1 DEF Urgent
    <3>12. a.decision.confidence = 99 => Urgent(a.decision)
      BY <1>1, <2>3, <3>10 DEF Humble, Urgent, Route
    <3> QED
      BY <2>1, <3>9, <3>11, <3>12
  <2> QED
    BY <2>2, <2>3 DEF Has, C
<1> QED
  BY <1>2, <1>3

LEMMA StrategyIs ==
  ASSUME NEW d, Plausible(d), NEW context, HasPage(context), NEW frames
  PROVE  LET e == WithStrategy(d, context, frames, policies) IN
         /\ Plausible(e) /\ e.confidence = d.confidence
         /\ e.confidence_band = "low" /\ ShouldEscalate(context, frames) => e.route = "handoff"
         /\ e.confidence_band = "low" /\ e.route = "handoff" =>
              \/ ShouldEscalate(context, frames)
              \/ e.confidence < policies.route_handoff_confidence_threshold
         /\ /\ policies.route_fallback_confidence_threshold \in Int
            /\ policies.route_fallback_confidence_threshold <= 99
            => (Humble(d) => Humble(e)) /\ (Urgent(d) => Urgent(e))
<1> DEFINE e == WithStrategy(d, context, frames, policies)
           c == d.confidence
           threshold == policies.route_fallback_confidence_threshold
           least == policies.route_handoff_confidence_threshold
           snapshot == IF d.context_snapshot = NoSnapshot THEN ContextSnapshot(context)
                       ELSE d.context_snapshot
           band == ConfidenceBand(c, threshold)
           Handed == Decision("handoff", c, "low_confidence_handoff", None, TRUE, snapshot)
           Asked == Decision("fallback", c, "fallback_clarification", None, FALSE, snapshot)
<1>1. d \in DecisionRecord /\ c \in Confidence /\ snapshot \in Snapshot
  BY SnapshotIs DEF Plausible, DecisionRecord
<1>2. \/ d.route \in {"handoff", "risk"} /\ e = Banded(d, "high", snapshot)
      \/ d.route \notin {"handoff", "risk"} /\ c >= threshold /\ e = Banded(d, band, snapshot)
      \/ /\ d.route \notin {"handoff", "risk"} /\ ~(c >= threshold) /\ e = Handed
         /\ c < least \/ ShouldEscalate(context, frames)
      \/ /\ d.route \notin {"handoff", "risk"} /\ ~(c >= threshold) /\ e = Asked
         /\ ~ShouldEscalate(context, frames)
  BY DEF WithStrategy, Banded
<1> HIDE DEF snapshot, e
<1>3. CASE d.route \in {"handoff", "risk"} /\ e = Banded(d, "high", snapshot)
  <2>1. /\ e \in DecisionRecord /\ e.route = d.route /\ e.confidence = c
        /\ e.requires_handoff = d.requires_handoff /\ e.confidence_band = "high"
    BY <1>1, <1>3, BandedDecision
  <2> QED
    BY <1>3, <2>1 DEF Plausible, Humble, Urgent, e
<1>4. CASE d.route \notin {"handoff", "risk"} /\ c >= threshold /\ e = Banded(d, band, snapshot)
  <2>1. band \in {"high", "medium"}
    BY <1>4 DEF ConfidenceBand
  <2> HIDE DEF band
  <2>2. /\ e \in DecisionRecord /\ e.route = d.route /\ e.confidence = c
        /\ e.requires_handoff = d.requires_handoff /\ e.confidence_band = band
    BY <1>1, <1>4, <2>1, BandedDecision
  <2> QED
    BY <1>4, <2>1, <2>2 DEF Plausible, Humble, Urgent, e
<1>5. CASE /\ d.route \notin {"handoff", "risk"} /\ ~(c >= threshold) /\ e = Handed
           /\ c < least \/ ShouldEscalate(context, frames)
  <2>1. /\ "handoff" \in Route /\ "low_confidence_handoff" \in Intent /\ None \in Maybe(ToolName)
        /\ TRUE \in BOOLEAN /\ "handoff" \in {"handoff", "risk"}
    BY DEF Route, Intent, Maybe
  <2>2. Plausible(e)
    BY <1>1, <1>5, <2>1, PlausibleDecision
  <2>3. e.route = "handoff" /\ e.confidence = c
    BY <1>5 DEF Decision
  <2> QED
    BY <1>5, <2>2, <2>3 DEF Humble, Urgent, e
<1>6. CASE /\ d.route \notin {"handoff", "risk"} /\ ~(c >= threshold) /\ e = Asked
           /\ ~ShouldEscalate(context, frames)
  <2>1. /\ "fallback" \in Route /\ "fallback_clarification" \in Intent
        /\ None \in Maybe(ToolName) /\ FALSE \in BOOLEAN
    BY DEF Route, Intent, Maybe
  <2>2. Plausible(e)
    BY <1>1, <1>6, <2>1, PlausibleDecision
  <2>3. e.route = "fallback" /\ e.confidence = c
    BY <1>6 DEF Decision
  <2>4. threshold \in Int /\ threshold <= 99 => c <= 98
    BY <1>1, <1>6, ConfidenceIs
  <2>5. threshold \in Int /\ threshold <= 99 => ~Urgent(d)
    BY <1>6, <2>4 DEF Urgent
  <2> QED
    BY <1>6, <2>2, <2>3, <2>4, <2>5 DEF Humble, e
<1> QED
  BY <1>2, <1>3, <1>4, <1>5, <1>6

-----------------------------------------------------------------------------
(* Plugins are known by their kinds.                                       *)
LEMMA OfKind ==
  ASSUME NEW p \in BuiltinPlugin
  PROVE  /\ p.kind = "industry_adapter" => p \in Industry
         /\ p.kind = "route_strategy" => p \in RouteStrategy
         /\ p.kind = "human_handoff" => p \in Handoff
         /\ p.kind = "response_post_processor" => p \in PostProcessor
BY Kinds DEF BuiltinPlugin, IsIndustry, IsTool

LEMMA ResolvedKind ==
  ASSUME NEW tenant, NEW industry, NEW channel
  PROVE  /\ Resolve(registry, "industry_adapter", tenant, industry, channel) \in Seq(Industry)
         /\ Resolve(registry, "route_strategy", tenant, industry, channel) \in Seq(RouteStrategy)
         /\ Resolve(registry, "human_handoff", tenant, industry, channel) \in Seq(Handoff)
         /\ Resolve(registry, "response_post_processor", tenant, industry, channel)
              \in Seq(PostProcessor)
<1> DEFINE found(kind) == Resolve(registry, kind, tenant, industry, channel)
<1>1. \A kind : /\ found(kind) \in Seq(BuiltinPlugin)
                /\ \A i \in DOMAIN found(kind) : found(kind)[i].kind = kind
  BY ResolveIs
<1> HIDE DEF found
<1>2. \A kind, X :
        (\A i \in DOMAIN found(kind) : found(kind)[i] \in X) => found(kind) \in Seq(X)
  BY <1>1
<1>3. \A kind : \A i \in DOMAIN found(kind) :
        found(kind)[i] \in BuiltinPlugin /\ found(kind)[i].kind = kind
  BY <1>1
<1>4. found("industry_adapter") \in Seq(Industry)
  BY <1>2, <1>3, OfKind
<1>5. found("route_strategy") \in Seq(RouteStrategy)
  BY <1>2, <1>3, OfKind
<1>6. found("human_handoff") \in Seq(Handoff)
  BY <1>2, <1>3, OfKind
<1>7. found("response_post_processor") \in Seq(PostProcessor)
  BY <1>2, <1>3, OfKind
<1> QED
  BY <1>4, <1>5, <1>6, <1>7 DEF found

(* Two of the built-in plugins are found whenever they are enabled.        *)
LEMMA FoundEverywhere ==
  ASSUME NEW tenant, NEW industry, NEW channel
  PROVE  /\ IsEnabled(registry, RiskRoute) =>
              Has(Resolve(registry, "route_strategy", tenant, industry, channel), RiskRoute)
         /\ IsEnabled(registry, RouteDecisionHandoff) =>
              Has(Resolve(registry, "human_handoff", tenant, industry, channel),
                  RouteDecisionHandoff)
<1>1. /\ RiskRoute \in BuiltinPlugin /\ RouteDecisionHandoff \in BuiltinPlugin
  BY DEF BuiltinPlugin, RouteStrategy, Handoff
<1>2. RiskRoute.kind = "route_strategy" /\ RouteDecisionHandoff.kind = "human_handoff"
  BY DescriptorIs DEF RiskRoute, RouteDecisionHandoff
<1>3. /\ InScope(RiskRoute, tenant, industry, channel)
      /\ InScope(RouteDecisionHandoff, tenant, industry, channel)
  BY DescriptorIs DEF RiskRoute, RouteDecisionHandoff, InScope, ScopeMatch
<1> QED
  BY <1>1, <1>2, <1>3, Builtins, ResolveIs

(* The decision of a message.                                              *)
LEMMA DecideIs ==
  ASSUME NEW message, NEW context, HasPage(context), NEW frames \in Seq(Frame)
  PROVE  LET d == Decide(registry, policies, message, context, frames) IN
         /\ Plausible(d)
         /\ d.confidence_band = "low" /\ ShouldEscalate(context, frames) => d.route = "handoff"
         /\ d.confidence_band = "low" /\ d.route = "handoff" =>
              \/ ShouldEscalate(context, frames)
              \/ d.confidence < policies.route_handoff_confidence_threshold
         /\ /\ policies.route_fallback_confidence_threshold \in Int
            /\ policies.route_fallback_confidence_threshold <= 99
            /\ HumbleStack(frames)
            => /\ Humble(d)
               /\ message.risk /\ IsEnabled(registry, RiskRoute) => Urgent(d)
<1> DEFINE plugins == Resolve(registry, "route_strategy", context.tenant_id, context.industry,
                              context.channel)
           best == Best(Candidates(plugins, message, context, frames), context)
<1>1. plugins \in Seq(RouteStrategy) /\ (IsEnabled(registry, RiskRoute) => Has(plugins, RiskRoute))
  BY ResolvedKind, FoundEverywhere
<1>2. Decide(registry, policies, message, context, frames) =
        WithStrategy(best, context, frames, policies)
  BY DEF Decide
<1> HIDE DEF plugins
<1>3. /\ Plausible(best) /\ (HumbleStack(frames) => Humble(best))
      /\ HumbleStack(frames) /\ message.risk /\ Has(plugins, RiskRoute) => Urgent(best)
  BY <1>1, BestRoute
<1> HIDE DEF best
<1> QED
  BY <1>1, <1>2, <1>3, StrategyIs

-----------------------------------------------------------------------------
(* The intent stack after a decision.                                      *)
Latest(s, depth) == SubSeq(s, IF Len(s) > depth THEN Len(s) - depth + 1 ELSE 1, Len(s))

LEMMA LatestIs ==
  ASSUME NEW P, NEW s \in Seq(P), s # <<>>, NEW depth \in Nat \ {0}
  PROVE  LET t == Latest(s, depth) IN
         /\ t \in Seq(P) /\ t # <<>> /\ Len(t) <= depth /\ t[Len(t)] = s[Len(s)]
         /\ \A i \in DOMAIN t : \E k \in DOMAIN s : t[i] = s[k]
<1> DEFINE m == IF Len(s) > depth THEN Len(s) - depth + 1 ELSE 1
           t == SubSeq(s, m, Len(s))
<1>1. Len(s) \in Nat /\ Len(s) >= 1
  OBVIOUS
<1>2. m \in 1 .. Len(s) /\ Len(s) - m + 1 <= depth
  BY <1>1
<1> HIDE DEF m
<1>3. /\ t \in Seq(P) /\ Len(t) = Len(s) - m + 1
      /\ \A i \in 1 .. Len(t) : t[i] = s[m + i - 1] /\ m + i - 1 \in DOMAIN s
  BY <1>1, <1>2
<1>5. DOMAIN t = 1 .. Len(t)
  BY <1>3
<1> HIDE DEF t
<1>4. t[Len(t)] = s[Len(s)] /\ t # <<>>
  <2>1. Len(t) \in 1 .. Len(t) /\ m + Len(t) - 1 = Len(s) /\ Len(t) >= 1
    BY <1>1, <1>2, <1>3
  <2> QED
    BY <1>3, <2>1
<1>6. \A i \in DOMAIN t : \E k \in DOMAIN s : t[i] = s[k]
  BY <1>3, <1>5
<1>7. t = Latest(s, depth)
  BY DEF t, m, Latest
<1> QED
  BY <1>2, <1>3, <1>4, <1>6, <1>7

Counts(frames, n) == \A i \in DOMAIN frames : frames[i].low_confidence_count <= n

Alarmed(frames) == frames # <<>> /\ frames[Len(frames)].low_confidence_count >= 1

LEMMA RecordIs ==
  ASSUME NEW frames \in Seq(Frame), NEW d \in DecisionRecord, NEW depth \in Nat \ {0},
         NEW n \in Nat, Counts(frames, n)
  PROVE  LET new == RecordRouteDecision(frames, d, depth) IN
         /\ new \in Seq(Frame) /\ Len(new) <= depth
         /\ Counts(new, n + 1)
         /\ Alarmed(new) <=> d.confidence_band = "low"
         /\ HumbleStack(frames) /\ Humble(d) => HumbleStack(new)
<1> DEFINE low == d.confidence_band = "low"
           top == ActiveIntent(frames)
           previous == PreviousIntent(frames)
           again(frame) == IF low THEN frame.low_confidence_count + 1 ELSE 0
           frame(k) == [intent |-> d.intent, route |-> d.route, tool_name |-> d.tool_name,
                        confidence |-> d.confidence, low_confidence_count |-> k,
                        context_snapshot |-> d.context_snapshot]
           next == IF top # None /\ SameIntent(top, d)
                   THEN [frames EXCEPT ![Len(frames)] = frame(again(top))]
                   ELSE IF previous # None /\ SameIntent(previous, d)
                   THEN Append(frames, frame(again(previous)))
                   ELSE Append(frames, frame(IF low THEN 1 ELSE 0))
           new == RecordRouteDecision(frames, d, depth)
<1>1. new = Latest(next, depth)
  BY DEF RecordRouteDecision, Latest
<1>2. \A k \in Nat : frame(k) \in Frame /\ frame(k).low_confidence_count = k
                     /\ (Humble(d) => Humble(frame(k)))
  BY DEF DecisionRecord, Frame, Humble
<1>3. /\ top # None => /\ frames # <<>> /\ top.low_confidence_count \in Nat
                       /\ top.low_confidence_count <= n
      /\ previous # None => /\ previous.low_confidence_count \in Nat
                            /\ previous.low_confidence_count <= n
  <2>1. \A i \in DOMAIN frames : frames[i].low_confidence_count \in Nat
                                 /\ frames[i].low_confidence_count <= n
    <3>1. \A i \in DOMAIN frames : frames[i] \in Frame
      OBVIOUS
    <3> QED
      BY <3>1 DEF Counts, Frame
  <2>2. frames # <<>> => Len(frames) \in DOMAIN frames
    OBVIOUS
  <2>3. Len(frames) \in Nat /\ (Len(frames) >= 2 => Len(frames) - 1 \in DOMAIN frames)
    OBVIOUS
  <2> QED
    BY <2>1, <2>2, <2>3 DEF ActiveIntent, PreviousIntent
<1> HIDE DEF frame
<1>4. PICK k \in Nat :
        /\ k <= n + 1 /\ (k >= 1 <=> low)
        /\ \/ next = Append(frames, frame(k))
           \/ frames # <<>> /\ next = [frames EXCEPT ![Len(frames)] = frame(k)]
  <2> HIDE DEF top, previous
  <2>1. CASE top # None /\ SameIntent(top, d)
    <3>1. /\ again(top) \in Nat /\ again(top) <= n + 1 /\ (again(top) >= 1 <=> low)
      BY <1>3, <2>1
    <3> QED
      BY <1>3, <2>1, <3>1
  <2>2. CASE ~(top # None /\ SameIntent(top, d)) /\ previous # None /\ SameIntent(previous, d)
    <3>1. again(previous) \in Nat /\ again(previous) <= n + 1 /\ (again(previous) >= 1 <=> low)
      BY <1>3, <2>2
    <3> QED
      BY <2>2, <3>1
  <2>3. CASE ~(top # None /\ SameIntent(top, d)) /\ ~(previous # None /\ SameIntent(previous, d))
    <3>1. (IF low THEN 1 ELSE 0) \in Nat /\ (IF low THEN 1 ELSE 0) <= n + 1
          /\ ((IF low THEN 1 ELSE 0) >= 1 <=> low)
      OBVIOUS
    <3> QED
      BY <2>3, <3>1
  <2> QED
    BY <2>1, <2>2, <2>3
<1> HIDE DEF next
<1>5. /\ next \in Seq(Frame) /\ next # <<>> /\ next[Len(next)] = frame(k)
      /\ \A i \in DOMAIN next : next[i] = frame(k) \/ \E j \in DOMAIN frames : next[i] = frames[j]
  BY <1>2, <1>4
<1>6. /\ new \in Seq(Frame) /\ new # <<>> /\ Len(new) <= depth /\ new[Len(new)] = next[Len(next)]
      /\ \A i \in DOMAIN new : \E j \in DOMAIN next : new[i] = next[j]
  BY <1>1, <1>5, LatestIs
<1> HIDE DEF new
<1>7. \A i \in DOMAIN new : new[i] = frame(k) \/ \E j \in DOMAIN frames : new[i] = frames[j]
  BY <1>5, <1>6
<1>8. Counts(new, n + 1)
  <2> SUFFICES ASSUME NEW i \in DOMAIN new PROVE new[i].low_confidence_count <= n + 1
    BY DEF Counts
  <2>1. CASE new[i] = frame(k)
    BY <1>2, <1>4, <2>1
  <2>2. ASSUME NEW j \in DOMAIN frames, new[i] = frames[j]
        PROVE  new[i].low_confidence_count <= n + 1
    <3>1. frames[j].low_confidence_count \in Nat
      <4>1. frames[j] \in Frame
        OBVIOUS
      <4> QED
        BY <4>1 DEF Frame
    <3> QED
      BY <2>2, <3>1 DEF Counts
  <2> QED
    BY <1>7, <2>1, <2>2
<1>9. Alarmed(new) <=> low
  BY <1>2, <1>4, <1>5, <1>6 DEF Alarmed
<1>10. HumbleStack(frames) /\ Humble(d) => HumbleStack(new)
  BY <1>2, <1>7 DEF HumbleStack
<1> QED
  BY <1>6, <1>8, <1>9, <1>10 DEF new

-----------------------------------------------------------------------------
(* The context of a turn: what the host sent, enriched.                    *)
IsContext(context, sent) ==
  /\ context.industry \in AnyIndustry
  /\ context.behavior_signals.frustrated \in BOOLEAN
  /\ context.integration_context.response_format = sent.response_format

LEMMA DetectIs ==
  ASSUME NEW tenant, NEW channel, NEW sent \in Sent, NEW message
  PROVE  Detect(registry, tenant, channel, sent, message) \in AnyIndustry
<1> DEFINE adapters == Resolve(registry, "industry_adapter", tenant, sent.industry, channel)
           sure(i) == MatchIndustry(adapters[i], sent, message)
           best == {i \in DOMAIN adapters : /\ sure(i) > 0
                                            /\ \A k \in DOMAIN adapters : sure(k) <= sure(i)}
           first == CHOOSE i \in best : \A k \in best : i <= k
<1>1. Detect(registry, tenant, channel, sent, message) =
        IF sent.industry # None THEN sent.industry
        ELSE IF best = {} THEN None ELSE adapters[first].industry
  BY DEF Detect
<1>2. \A i \in DOMAIN adapters : i \in Nat /\ adapters[i].industry \in Industries
  <2>1. adapters \in Seq(Industry)
    BY ResolvedKind
  <2> HIDE DEF adapters
  <2>2. \A i \in DOMAIN adapters : i \in Nat /\ adapters[i] \in Industry
    BY <2>1
  <2> QED
    BY <2>2, Kinds DEF IsIndustry
<1>3. best # {} => first \in DOMAIN adapters
  <2> HIDE DEF adapters, sure
  <2>1. best \subseteq Nat
    BY <1>2
  <2>2. best # {} => \E i \in best : \A k \in best : i <= k
    <3> HIDE DEF best
    <3> QED
      BY <2>1, LeastNatural
  <2> QED
    BY <2>2
<1>4. sent.industry \in Maybe(STRING)
  BY DEF Sent
<1> HIDE DEF best, first, adapters
<1> QED
  BY <1>1, <1>2, <1>3, <1>4 DEF AnyIndustry, Maybe

LEMMA BuiltIs ==
  ASSUME NEW sent \in Sent, NEW message
  PROVE  LET built == Build(registry, Tenant, Channel, sent, message) IN
         /\ HasPage(built) /\ IsContext(built, sent)
         /\ DOMAIN built = {"tenant_id", "channel", "industry", "page_type", "business_objects",
                            "behavior_signals", "preferred_tools", "integration_context"}
         /\ built.integration_context = sent
<1> DEFINE industry == Detect(registry, Tenant, Channel, sent, message)
           built == Build(registry, Tenant, Channel, sent, message)
           enrichers == Resolve(registry, "context_enricher", Tenant, industry, Channel)
           runs(enricher) == \E i \in DOMAIN enrichers : enrichers[i] = enricher
           tools == PreferredTools(registry, Tenant, Channel, sent, industry)
<1>1. built = [tenant_id |-> Tenant, channel |-> Channel, industry |-> industry,
               page_type |-> IF runs(PageContextEnricher) THEN sent.page_type ELSE None,
               business_objects |-> IF runs(BusinessObjectEnricher) THEN sent.business_objects
                                    ELSE NoObjects,
               behavior_signals |-> IF runs(BehaviorSignalsEnricher) THEN sent.behavior_signals
                                    ELSE NoBehavior,
               preferred_tools |-> tools, integration_context |-> sent]
  BY DEF Build, Enriched
<1>2. industry \in AnyIndustry
  BY DetectIs
<1>3. /\ sent.page_type \in Maybe(STRING) /\ sent.business_objects \in Objects
      /\ sent.behavior_signals.frustrated \in BOOLEAN
  BY DEF Sent
<1>4. NoObjects \in Objects /\ None \in Maybe(STRING) /\ NoBehavior.frustrated \in BOOLEAN
  BY DEF NoObjects, Objects, Maybe, NoBehavior
<1> HIDE DEF industry, runs, tools, built
<1>5. /\ built.industry = industry /\ built.integration_context = sent
      /\ built.page_type \in {sent.page_type, None}
      /\ built.business_objects \in {sent.business_objects, NoObjects}
      /\ built.behavior_signals \in {sent.behavior_signals, NoBehavior}
      /\ DOMAIN built = {"tenant_id", "channel", "industry", "page_type", "business_objects",
                         "behavior_signals", "preferred_tools", "integration_context"}
  BY <1>1
<1> QED
  BY <1>2, <1>3, <1>4, <1>5 DEF built, HasPage, IsContext

(* What a snapshot adds leaves the rest of a context as it is.             *)
LEMMA AppliedIs ==
  ASSUME NEW sent \in Sent, NEW message, NEW snapshot
  PROVE  LET built == Build(registry, Tenant, Channel, sent, message)
             context == ApplyContextSnapshot(built, snapshot) IN
         /\ IsContext(context, sent)
         /\ context.behavior_signals = built.behavior_signals
<1> DEFINE built == Build(registry, Tenant, Channel, sent, message)
           context == ApplyContextSnapshot(built, snapshot)
<1>1. /\ IsContext(built, sent)
      /\ DOMAIN built = {"tenant_id", "channel", "industry", "page_type", "business_objects",
                         "behavior_signals", "preferred_tools", "integration_context"}
      /\ built.integration_context = sent
  BY BuiltIs
<1>2. DOMAIN sent = {"industry", "page_type", "business_objects", "fields", "behavior_signals",
                     "response_format"}
  BY DEF Sent
<1> HIDE DEF built
<1>3. /\ context.industry = built.industry /\ context.behavior_signals = built.behavior_signals
      /\ context.integration_context.response_format = sent.response_format
  BY <1>1, <1>2 DEF ApplyContextSnapshot
<1> QED
  BY <1>1, <1>3 DEF built, IsContext

LEMMA EscalationIs ==
  ASSUME NEW context, NEW frames \in Seq(Frame)
  PROVE  ShouldEscalate(context, frames) <=>
           \/ context.behavior_signals.frustrated
           \/ context.behavior_signals.repeat_contact_7d >= 2
           \/ Alarmed(frames)
BY TopFrames DEF ShouldEscalate, ActiveIntent, Alarmed

-----------------------------------------------------------------------------
(* What an answer costs.                                                   *)
LEMMA PriceIs ==
  ASSUME NEW provide, NEW model
  PROVE  ResolveModelPrice(Prices, provide, model) \in [input : Nat, output : Nat]
<1> DEFINE names == <<<<provide, model>>, <<model>>, <<provide>>, <<"default">>>>
           named == {i \in DOMAIN names : names[i] \in DOMAIN Prices}
           first == CHOOSE i \in named : \A k \in named : i <= k
<1>1. ResolveModelPrice(Prices, provide, model) = Prices[names[first]]
  BY DEF ResolveModelPrice
<1>2. DOMAIN names \subseteq Nat /\ 4 \in DOMAIN names /\ names[4] = <<"default">>
  OBVIOUS
<1>3. named \subseteq Nat /\ named # {}
  BY <1>2, ChatTurnAssumption
<1>4. first \in named
  <2> HIDE DEF named
  <2>1. \E i \in named : \A k \in named : i <= k
    BY <1>3, LeastNatural
  <2> QED
    BY <2>1
<1>5. names[first] \in DOMAIN Prices
  BY <1>4
<1> HIDE DEF first, names
<1> QED
  BY <1>1, <1>5, ChatTurnAssumption

LEMMA CostIs ==
  ASSUME NEW usage \in UsageRecord, NEW provide, NEW model
  PROVE  EstimatedCost(usage, ResolveModelPrice(Prices, provide, model)) \in Nat
<1> DEFINE price == ResolveModelPrice(Prices, provide, model)
<1>1. price.input \in Nat /\ price.output \in Nat
  BY PriceIs
<1> HIDE DEF price
<1>2. /\ usage.input_tokens \in Nat /\ usage.output_tokens \in Nat /\ usage.total_tokens \in Nat
  BY DEF UsageRecord
<1>3. \A a, b \in Nat : a * b \in Nat
  OBVIOUS
<1>4. /\ usage.total_tokens * price.input \in Nat /\ usage.input_tokens * price.input \in Nat
      /\ usage.output_tokens * price.output \in Nat
  BY <1>1, <1>2, <1>3
<1>5. EstimatedCost(usage, price) \in Nat
  BY <1>2, <1>4 DEF EstimatedCost
<1> QED
  BY <1>5 DEF price

LEMMA NoUsageCosts ==
  ASSUME NEW price
  PROVE  NoUsage \in UsageRecord /\ EstimatedCost(NoUsage, price) = 0
BY DEF NoUsage, Usage, UsageRecord, EstimatedCost

(* What the model may answer, whichever it is.                             *)
IsAnswer(answer) ==
  /\ answer.text \in Text /\ answer.text.says \in {"answer", "nothing"} /\ answer.text.titles = 0
  /\ answer.confidence \in Confidence /\ answer.usage \in UsageRecord

LEMMA AnswersAre ==
  ASSUME NEW q, NEW answer \in Answers(q)
  PROVE  IsAnswer(answer)
<1>1. \/ answer = LocalAnswer(q)
      \/ \E r \in RemoteAnswer, overlap \in Overlap : answer = Remote(r, overlap)
      \/ answer = EmptyStream
  BY DEF Answers
<1>2. EstimateUsage(60) \in UsageRecord
  <2>1. 60 \div 3 = 20
    OBVIOUS
  <2>2. EstimateUsage(60) = Usage(60, 20, 80, TRUE)
    BY <2>1 DEF EstimateUsage
  <2>3. Usage(60, 20, 80, TRUE) \in UsageRecord
    BY DEF Usage, UsageRecord
  <2> QED
    BY <2>2, <2>3
<1>3. LocalConfidence(q.decision.route, q.tool_status, q.citations) \in Confidence
  BY ConfidenceIs DEF LocalConfidence
<1>4. \A b \in BOOLEAN :
        LET text == [Plain("answer") EXCEPT !.phone = b] IN
        text \in Text /\ text.says = "answer" /\ text.titles = 0
  BY DEF Plain, Text
<1>5. IsAnswer(LocalAnswer(q))
  BY <1>2, <1>3, <1>4 DEF IsAnswer, LocalAnswer
<1>6. IsAnswer(EmptyStream)
  BY <1>2, ConfidenceIs DEF IsAnswer, EmptyStream, StreamConfidence, Plain, Text
<1>7. ASSUME NEW r \in RemoteAnswer, NEW overlap PROVE IsAnswer(Remote(r, overlap))
  BY <1>4, ChatTurnAssumption DEF IsAnswer, Remote
<1> QED
  BY <1>1, <1>5, <1>6, <1>7

-----------------------------------------------------------------------------
(* A response whose text, or structured output, is another.                *)
Rephrased(response, text) == [response EXCEPT !.answer = text]

Repeated(response, output) == [response EXCEPT !.structured_output = output]

(* What no plugin changes in a response.                                   *)
Same(a, b) ==
  /\ b.route = a.route /\ b.confidence = a.confidence /\ b.citations = a.citations
  /\ b.tool_status = a.tool_status /\ b.handoff = a.handoff /\ b.industry = a.industry
  /\ b.hallucination_check = a.hallucination_check /\ b.refusal = a.refusal
  /\ b.cache_hit = a.cache_hit /\ b.usage = a.usage

LEMMA RephrasedIs ==
  ASSUME NEW response \in Response, NEW text \in Text
  PROVE  LET r == Rephrased(response, text) IN
         /\ r \in Response /\ Same(response, r) /\ r.answer = text
         /\ r.structured_output = response.structured_output
BY DEF Rephrased, Response, Same

LEMMA RepeatedIs ==
  ASSUME NEW response \in Response, NEW output \in Output
  PROVE  LET r == Repeated(response, output) IN
         /\ r \in Response /\ Same(response, r) /\ r.answer = response.answer
         /\ r.structured_output = output
BY DEF Repeated, Response, Same, Maybe

LEMMA StructuredIs ==
  ASSUME NEW response \in Response
  PROVE  Structured(response) \in Output
BY DEF Structured, Response, Output

LEMMA TextIs ==
  ASSUME NEW text \in Text
  PROVE  /\ text.titles \in 0 .. 2 /\ text.phone \in BOOLEAN
         /\ LET t == [text EXCEPT !.titles = 1] IN
            t \in Text /\ t.titles = 1 /\ t.says = text.says /\ t.phone = text.phone
         /\ LET t == [text EXCEPT !.phone = FALSE] IN
            t \in Text /\ t.titles = text.titles /\ t.says = text.says /\ ~t.phone
<1>1. text = [says |-> text.says, titles |-> text.titles, phone |-> text.phone]
      /\ text.says \in {"nothing", "answer", "tool", "refusal", "handover"}
      /\ text.titles \in 0 .. 2 /\ text.phone \in BOOLEAN
  BY DEF Text
<1>2. ASSUME NEW t, t = [text EXCEPT !.titles = 1]
      PROVE  t \in Text /\ t.titles = 1 /\ t.says = text.says /\ t.phone = text.phone
  <2>1. DOMAIN text = {"says", "titles", "phone"}
    BY <1>1
  <2>2. t = [says |-> t.says, titles |-> t.titles, phone |-> t.phone]
    BY <1>2, <2>1
  <2>3. t.titles = 1 /\ t.says = text.says /\ t.phone = text.phone
    BY <1>2, <2>1
  <2> QED
    BY <1>1, <2>2, <2>3 DEF Text
<1>3. ASSUME NEW t, t = [text EXCEPT !.phone = FALSE]
      PROVE  t \in Text /\ t.titles = text.titles /\ t.says = text.says /\ ~t.phone
  <2>1. DOMAIN text = {"says", "titles", "phone"}
    BY <1>1
  <2>2. t = [says |-> t.says, titles |-> t.titles, phone |-> t.phone]
    BY <1>3, <2>1
  <2>3. t.titles = text.titles /\ t.says = text.says /\ t.phone = FALSE
    BY <1>3, <2>1
  <2> QED
    BY <1>1, <2>2, <2>3 DEF Text
<1> QED
  BY <1>1, <1>2, <1>3

LEMMA PlainIs ==
  ASSUME NEW says \in {"nothing", "answer", "tool", "refusal", "handover"}
  PROVE  LET t == Plain(says) IN
         t \in Text /\ t.says = says /\ t.titles = 0 /\ ~t.phone
BY DEF Plain, Text

(* How a response may be reworked: an empty answer may become that of a    *)
(* tool, and a structured output comes only where it is asked for.         *)
Reworked(a, b, context) ==
  /\ b \in Response /\ Same(a, b)
  /\ a.answer.titles <= 1 => b.answer.titles <= 1
  /\ b.answer.says = a.answer.says \/ (a.answer.says = "nothing" /\ b.answer.says = "tool")
  /\ context.integration_context.response_format # "structured" =>
       b.structured_output = a.structured_output

LEMMA ReworkedTwice ==
  ASSUME NEW a, NEW b, NEW c, NEW context, Reworked(a, b, context), Reworked(b, c, context)
  PROVE  Reworked(a, c, context)
BY DEF Reworked, Same

LEMMA NotReworked ==
  ASSUME NEW a \in Response, NEW context
  PROVE  Reworked(a, a, context)
BY DEF Reworked, Same

LEMMA RephrasedReworks ==
  ASSUME NEW a \in Response, NEW context, NEW text \in Text,
         a.answer.titles <= 1 => text.titles <= 1,
         text.says = a.answer.says \/ (a.answer.says = "nothing" /\ text.says = "tool")
  PROVE  Reworked(a, Rephrased(a, text), context)
BY RephrasedIs DEF Reworked

LEMMA FormattedIs ==
  ASSUME NEW a \in Response, NEW context
  PROVE  Reworked(a, FormatResponseFields(a), context)
<1>1. Plain("tool") \in Text /\ Plain("tool").says = "tool" /\ Plain("tool").titles = 0
  BY PlainIs
<1>2. CASE a.answer.says = "nothing" /\ a.tool_status # None
  <2>1. FormatResponseFields(a) = Rephrased(a, Plain("tool"))
    BY <1>2 DEF FormatResponseFields, Rephrased
  <2> QED
    BY <1>1, <1>2, <2>1, RephrasedReworks
<1>3. CASE ~(a.answer.says = "nothing" /\ a.tool_status # None)
  BY <1>3, NotReworked DEF FormatResponseFields
<1> QED
  BY <1>2, <1>3

LEMMA TitledIs ==
  ASSUME NEW a \in Response, NEW context
  PROVE  Reworked(a, [a EXCEPT !.answer.titles = 1], context)
<1> DEFINE text == [a.answer EXCEPT !.titles = 1]
<1>1. a.answer \in Text
  BY DEF Response
<1>2. text \in Text /\ text.titles = 1 /\ text.says = a.answer.says
  BY <1>1, TextIs
<1>3. [a EXCEPT !.answer.titles = 1] = Rephrased(a, text)
  BY DEF Rephrased
<1> HIDE DEF text
<1> QED
  BY <1>2, <1>3, RephrasedReworks

LEMMA MaskedIs ==
  ASSUME NEW a \in Response, NEW context
  PROVE  Reworked(a, MaskSensitive(a), context) /\ ~MaskSensitive(a).answer.phone
<1> DEFINE text == [a.answer EXCEPT !.phone = FALSE]
<1>1. a.answer \in Text
  BY DEF Response
<1>2. text \in Text /\ text.titles = a.answer.titles /\ text.says = a.answer.says /\ ~text.phone
  BY <1>1, TextIs
<1>3. MaskSensitive(a) = Rephrased(a, text)
  BY DEF Rephrased, MaskSensitive
<1> HIDE DEF text
<1> QED
  BY <1>2, <1>3, RephrasedReworks, RephrasedIs

(* The structured output repeats the response beside it.                   *)
Consistent(response) ==
  response.structured_output # None =>
    /\ response.structured_output.answer = response.answer
    /\ response.structured_output.citations = response.citations
    /\ response.structured_output.handoff = response.handoff

LEMMA EnsuredIs ==
  ASSUME NEW a \in Response, NEW context
  PROVE  LET b == EnsureStructuredOutput(a, context) IN
         /\ Reworked(a, b, context) /\ b.answer = a.answer
         /\ context.integration_context.response_format = "structured" =>
              b.structured_output # None /\ Consistent(b)
<1> DEFINE b == EnsureStructuredOutput(a, context)
<1>1. CASE context.integration_context.response_format = "structured"
  <2>1. b = Repeated(a, Structured(a)) /\ Structured(a) \in Output
    BY <1>1, StructuredIs DEF EnsureStructuredOutput, Repeated
  <2>2. /\ b \in Response /\ Same(a, b) /\ b.answer = a.answer
        /\ b.structured_output = Structured(a)
    BY <2>1, RepeatedIs
  <2>3. Structured(a) # None
    BY <2>1, ChatTurnAssumption
  <2>4. Consistent(b)
    BY <2>2 DEF Consistent, Structured, Same
  <2> QED
    BY <1>1, <2>2, <2>3, <2>4 DEF Reworked
<1>2. CASE context.integration_context.response_format # "structured"
  BY <1>2, NotReworked DEF EnsureStructuredOutput
<1> QED
  BY <1>1, <1>2

LEMMA ProcessIs ==
  ASSUME NEW plugin \in PostProcessor, NEW a \in Response, NEW context
  PROVE  Reworked(a, Process(plugin, a, context), context)
<1>1. ReferenceAppend.priority = 200 /\ SensitiveMask.priority = 190 /\ StructuredOutput.priority = 100
  BY DescriptorIs DEF ReferenceAppend, SensitiveMask, StructuredOutput
<1>2. CASE plugin = ReferenceAppend
  <2>1. plugin # SensitiveMask /\ plugin # StructuredOutput
    BY <1>1, <1>2
  <2>2. Process(plugin, a, context) \in {a, [a EXCEPT !.answer.titles = 1]}
    BY <1>2, <2>1 DEF Process
  <2> QED
    BY <2>2, NotReworked, TitledIs
<1>3. CASE plugin = SensitiveMask
  <2>1. plugin # ReferenceAppend /\ plugin # StructuredOutput
    BY <1>1, <1>3
  <2>2. Process(plugin, a, context) = MaskSensitive(a)
    BY <1>3, <2>1 DEF Process
  <2> QED
    BY <2>2, MaskedIs
<1>4. CASE plugin = StructuredOutput
  <2>1. plugin # ReferenceAppend /\ plugin # SensitiveMask
    BY <1>1, <1>4
  <2>2. Process(plugin, a, context) = EnsureStructuredOutput(a, context)
    BY <1>4, <2>1 DEF Process
  <2> QED
    BY <2>2, EnsuredIs
<1> QED
  BY <1>2, <1>3, <1>4 DEF PostProcessor

LEMMA EnhancementsAre ==
  ASSUME NEW a \in Response, NEW context
  PROVE  LET b == ApplyBuiltinEnhancements(a, context) IN
         /\ Reworked(a, b, context) /\ ~b.answer.phone
         /\ context.integration_context.response_format = "structured" =>
              b.structured_output # None /\ Consistent(b)
<1> DEFINE a1 == FormatResponseFields(a)
           a2 == AppendReferenceTitles(a1)
           a3 == MaskSensitive(a2)
           b == EnsureStructuredOutput(a3, context)
<1>1. ApplyBuiltinEnhancements(a, context) = b
  BY DEF ApplyBuiltinEnhancements
<1>2. Reworked(a, a1, context) /\ a1 \in Response
  BY FormattedIs DEF Reworked
<1> HIDE DEF a1
<1>3. Reworked(a1, a2, context) /\ a2 \in Response
  BY <1>2, NotReworked, TitledIs DEF AppendReferenceTitles, Reworked
<1> HIDE DEF a2
<1>4. Reworked(a2, a3, context) /\ ~a3.answer.phone /\ a3 \in Response
  BY <1>3, MaskedIs DEF Reworked
<1> HIDE DEF a3
<1>5. /\ Reworked(a3, b, context) /\ b.answer = a3.answer
      /\ context.integration_context.response_format = "structured" =>
           b.structured_output # None /\ Consistent(b)
  BY <1>4, EnsuredIs
<1> HIDE DEF b
<1>6. Reworked(a, b, context)
  <2>1. Reworked(a, a2, context)
    BY <1>2, <1>3, ReworkedTwice
  <2>2. Reworked(a, a3, context)
    BY <2>1, <1>4, ReworkedTwice
  <2> QED
    BY <2>2, <1>5, ReworkedTwice
<1> QED
  BY <1>1, <1>4, <1>5, <1>6

(* What is sent is the text the plugins leave: masked, with the titles     *)
(* once, and repeated in the structured output where that is asked for.    *)
LEMMA EnhanceIs ==
  ASSUME NEW response \in Response, NEW context
  PROVE  LET b == Enhance(registry, response, context) IN
         /\ Reworked(response, b, context) /\ ~b.answer.phone
         /\ context.integration_context.response_format = "structured" =>
              b.structured_output # None /\ Consistent(b)
<1> DEFINE plugins == Resolve(registry, "response_post_processor", context.tenant_id,
                              context.industry, context.channel)
           N == Len(plugins)
           first == ApplyBuiltinEnhancements(response, context)
           Step(h, n) == IF n = 0 THEN first ELSE Process(plugins[n], h[n - 1], context)
           X == {r \in Response : Reworked(response, r, context)}
           G == [q \in (1 .. N) \X X |-> Process(plugins[q[1]], q[2], context)]
<1>1. N \in Nat /\ (\A n \in 1 .. N : plugins[n] \in PostProcessor)
  <2>1. plugins \in Seq(PostProcessor)
    BY ResolvedKind
  <2> HIDE DEF plugins
  <2> QED
    BY <2>1
<1>2. first \in X
  <2>1. Reworked(response, first, context)
    BY EnhancementsAre
  <2> QED
    BY <2>1 DEF Reworked
<1>3. \A n \in 1 .. N : \A a \in X : Process(plugins[n], a, context) \in X
  <2> SUFFICES ASSUME NEW n \in 1 .. N, NEW a \in X PROVE Process(plugins[n], a, context) \in X
    OBVIOUS
  <2>1. Reworked(a, Process(plugins[n], a, context), context)
    BY <1>1, ProcessIs
  <2>2. Reworked(response, Process(plugins[n], a, context), context)
    BY <2>1, ReworkedTwice
  <2> QED
    BY <2>2 DEF Reworked
<1> HIDE DEF first, X, N, plugins
<1>4. G \in [(1 .. N) \X X -> X]
  BY <1>3
<1>5. \E h : h = [n \in 0 .. N |-> Step(h, n)]
  <2>1. PICK h : Solves(h, X, N, first, G)
    <3> HIDE DEF G
    <3> QED
      BY <1>1, <1>2, <1>4, Recursion
  <2>2. \A n \in 0 .. N : h[n] = Step(h, n)
    <3> SUFFICES ASSUME NEW n \in 0 .. N PROVE h[n] = Step(h, n)
      OBVIOUS
    <3>1. CASE n = 0
      BY <2>1, <3>1 DEF Solves
    <3>2. CASE n # 0
      <4>1. n \in 1 .. N /\ h[n - 1] \in X
        BY <1>1, <2>1, <3>2 DEF Solves
      <4>2. G[<<n, h[n - 1]>>] = Process(plugins[n], h[n - 1], context)
        BY <4>1
      <4> QED
        BY <2>1, <3>2, <4>1, <4>2 DEF Solves
    <3> QED
      BY <3>1, <3>2
  <2>3. h = [n \in 0 .. N |-> h[n]]
    BY <2>1 DEF Solves
  <2> HIDE DEF Step
  <2> QED
    BY <2>2, <2>3
<1> DEFINE after == CHOOSE h : h = [n \in 0 .. N |-> Step(h, n)]
<1>6. after = [n \in 0 .. N |-> Step(after, n)]
  <2> HIDE DEF Step
  <2> QED
    BY <1>5
<1>7. Enhance(registry, response, context) = ApplyBuiltinEnhancements(after[N], context)
  BY DEF Enhance, N, first, plugins
<1> HIDE DEF after
<1> DEFINE Is == {n \in 0 .. N : after[n] \in X}
<1>8. after[N] \in X
  <2>1. 0 \in 0 .. N /\ N \in 0 .. N /\ \A n \in 1 .. N : n \in 0 .. N /\ n # 0 /\ n - 1 \in 0 .. N
    BY <1>1
  <2>2. after[0] \in X
    BY <1>2, <1>6, <2>1
  <2>3. ASSUME NEW n \in 1 .. N, after[n - 1] \in X PROVE after[n] \in X
    <3>1. after[n] = Process(plugins[n], after[n - 1], context)
      BY <1>6, <2>1
    <3> QED
      BY <1>3, <2>3, <3>1
  <2>4. 0 \in Is /\ \A n \in 1 .. N : n - 1 \in Is => n \in Is
    BY <2>1, <2>2, <2>3
  <2>5. N \in Is
    <3> HIDE DEF Is
    <3> QED
      BY <1>1, <2>1, <2>4, UpTo
  <2> QED
    BY <2>5
<1> DEFINE last == after[N]
           b == ApplyBuiltinEnhancements(last, context)
<1>9. last \in Response /\ Reworked(response, last, context)
  BY <1>8 DEF X
<1>10. Enhance(registry, response, context) = b
  BY <1>7
<1> HIDE DEF last
<1>11. /\ Reworked(last, b, context) /\ ~b.answer.phone
       /\ context.integration_context.response_format = "structured" =>
            b.structured_output # None /\ Consistent(b)
  BY <1>9, EnhancementsAre
<1> HIDE DEF b
<1>12. Reworked(response, b, context)
  BY <1>9, <1>11, ReworkedTwice
<1> QED
  BY <1>10, <1>11, <1>12

-----------------------------------------------------------------------------
(* Whether a conversation is handed over.                                  *)
Verdict(v) ==
  /\ v.should_handoff \in BOOLEAN /\ v.reason \in Reason
  /\ v.priority \in Nat /\ v.priority <= 300

ToHuman(response) == response.requires_handoff \/ response.route \in {"handoff", "risk"}

LEMMA EvaluateIs ==
  ASSUME NEW plugin \in Handoff, NEW response
  PROVE  LET v == Evaluate(plugin, response, policies) IN
         /\ Verdict(v)
         /\ plugin = RouteDecisionHandoff /\ ToHuman(response) => v.should_handoff
         /\ ~ToHuman(response) /\ response.refusal = TRUE => ~v.should_handoff
<1>1. /\ RouteDecisionHandoff.priority = 300 /\ ConfidenceHandoff.priority = 250
      /\ DefaultSummaryHandoff.priority = 100
  BY DescriptorIs DEF RouteDecisionHandoff, ConfidenceHandoff, DefaultSummaryHandoff
<1>2. CASE plugin = RouteDecisionHandoff
  <2>1. plugin # ConfidenceHandoff /\ plugin # DefaultSummaryHandoff
    BY <1>1, <1>2
  <2>2. Evaluate(plugin, response, policies) = EvaluateRouteDecision(response)
    BY <1>2, <2>1 DEF Evaluate
  <2> QED
    BY <2>2 DEF EvaluateRouteDecision, Verdict, Reason, Maybe, NoHandoff, ToHuman
<1>3. CASE plugin = ConfidenceHandoff
  <2>1. plugin # RouteDecisionHandoff /\ plugin # DefaultSummaryHandoff
    BY <1>1, <1>3
  <2>2. Evaluate(plugin, response, policies) = EvaluateConfidence(response, policies)
    BY <1>3, <2>1 DEF Evaluate
  <2> QED
    BY <2>1, <2>2 DEF EvaluateConfidence, Verdict, Reason, Maybe, NoHandoff
<1>4. CASE plugin = DefaultSummaryHandoff
  <2>1. plugin # RouteDecisionHandoff /\ plugin # ConfidenceHandoff
    BY <1>1, <1>4
  <2>2. Evaluate(plugin, response, policies) = NoHandoff
    BY <1>4, <2>1 DEF Evaluate
  <2> QED
    BY <2>1, <2>2 DEF Verdict, Reason, Maybe, NoHandoff
<1> QED
  BY <1>2, <1>3, <1>4 DEF Handoff

LEMMA ShouldHandoffIs ==
  ASSUME NEW context, NEW response
  PROVE  LET v == ShouldHandoff(registry, context, response, policies) IN
         /\ Verdict(v)
         /\ IsEnabled(registry, RouteDecisionHandoff) /\ ToHuman(response) => v.should_handoff
         /\ ~ToHuman(response) /\ response.refusal = TRUE => ~v.should_handoff
<1> DEFINE plugins == HandoffPluginsFor(registry, context)
           of == [i \in DOMAIN plugins |-> Evaluate(plugins[i], response, policies)]
           for == {i \in DOMAIN of : of[i].should_handoff}
           Wins(i, k) == \/ of[k].priority < of[i].priority
                         \/ of[k].priority = of[i].priority /\ i <= k
           best == CHOOSE i \in for : \A k \in for : Wins(i, k)
           v == ShouldHandoff(registry, context, response, policies)
<1>1. v = IF for = {} THEN NoHandoff ELSE of[best]
  BY DEF ShouldHandoff
<1>2. /\ \A i \in DOMAIN plugins : i \in Nat /\ plugins[i] \in Handoff
      /\ IsEnabled(registry, RouteDecisionHandoff) => Has(plugins, RouteDecisionHandoff)
  <2>1. /\ plugins \in Seq(Handoff)
        /\ IsEnabled(registry, RouteDecisionHandoff) => Has(plugins, RouteDecisionHandoff)
    BY ResolvedKind, FoundEverywhere DEF HandoffPluginsFor
  <2> HIDE DEF plugins
  <2> QED
    BY <2>1
<1> HIDE DEF plugins, v
<1>3. \A i \in DOMAIN of : /\ i \in Nat /\ Verdict(of[i])
                           /\ ~ToHuman(response) /\ response.refusal = TRUE => ~of[i].should_handoff
  BY <1>2, EvaluateIs
<1>4. IsEnabled(registry, RouteDecisionHandoff) /\ ToHuman(response) => for # {}
  <2> SUFFICES ASSUME IsEnabled(registry, RouteDecisionHandoff), ToHuman(response)
               PROVE  for # {}
    OBVIOUS
  <2>1. PICK i \in DOMAIN plugins : plugins[i] = RouteDecisionHandoff
    BY <1>2 DEF Has
  <2>2. of[i].should_handoff
    BY <1>2, <2>1, EvaluateIs
  <2> QED
    BY <2>1, <2>2
<1> HIDE DEF of
<1>5. for # {} => best \in for
  <2> SUFFICES ASSUME for # {} PROVE \E i \in for : \A k \in for : Wins(i, k)
    OBVIOUS
  <2> DEFINE rank(i) == 300 - of[i].priority
             S1 == {rank(i) : i \in for}
  <2>1. \A i \in for : i \in Nat /\ rank(i) \in Nat /\ of[i].priority \in Int
    BY <1>3 DEF Verdict
  <2>2. PICK i1 \in for : \A k \in for : rank(i1) <= rank(k)
    <3> HIDE DEF for, rank
    <3>1. S1 \subseteq Nat /\ S1 # {}
      BY <2>1
    <3>2. \E n \in S1 : \A k \in S1 : n <= k
      <4> HIDE DEF S1
      <4> QED
        BY <3>1, LeastNatural
    <3> QED
      BY <3>2
  <2> DEFINE S2 == {i \in for : rank(i) = rank(i1)}
  <2>3. PICK i2 \in S2 : \A k \in S2 : i2 <= k
    <3>1. S2 \subseteq Nat /\ S2 # {}
      BY <2>1
    <3> HIDE DEF S2
    <3> QED
      BY <3>1, LeastNatural
  <2>4. ASSUME NEW k \in for PROVE Wins(i2, k)
    <3> HIDE DEF for
    <3>1. i2 \in for /\ rank(i2) = rank(i1)
      OBVIOUS
    <3>2. rank(i2) <= rank(k)
      BY <2>2, <3>1
    <3>3. rank(k) = rank(i2) => i2 <= k
      BY <2>3, <3>1
    <3> QED
      BY <2>1, <3>1, <3>2, <3>3
  <2> QED
    BY <2>3, <2>4
<1> HIDE DEF best
<1>6. Verdict(NoHandoff) /\ ~NoHandoff.should_handoff
  BY DEF Verdict, NoHandoff, Reason, Maybe
<1>7. CASE for = {}
  BY <1>1, <1>4, <1>6, <1>7 DEF v
<1>8. CASE for # {}
  <2>1. v = of[best] /\ best \in DOMAIN of /\ of[best].should_handoff
    BY <1>1, <1>5, <1>8
  <2> QED
    BY <1>3, <2>1 DEF v
<1> QED
  BY <1>7, <1>8

-----------------------------------------------------------------------------
(* What a turn holds from its decision to its answer.                      *)
TurnField ==
  {"at", "session", "request", "context", "decision", "stack", "policies", "tool_status", "base",
   "citations", "effective", "model", "key"}

Held(q) ==
  /\ DOMAIN q = TurnField
  /\ q.session \in Session /\ q.request \in Request
  /\ IsContext(q.context, q.request.sent) /\ Plausible(q.decision)
  /\ q.stack \in Seq(Frame) /\ Len(q.stack) <= 20
  /\ q.policies \in PolicyConfig /\ q.tool_status \in ToolStatus
  /\ q.citations \in Seq(Citation) /\ q.effective \in Nat

(* A key names the very chunks the turn found.                             *)
ChunkNames(citations) ==
  [i \in DOMAIN citations |-> [chunk_id |-> citations[i].chunk_id,
                               version_id |-> citations[i].version_id]]

Keyed(q) ==
  q.key # None =>
    /\ q.decision.route = "knowledge" /\ ~q.request.host_auth
    /\ q.key.citations = ChunkNames(q.citations)

Waiting(q) ==
  /\ Held(q) /\ q.at \in {"tool", "retrieving", "generating"}
  /\ q.at = "retrieving" => q.decision.route = "knowledge"
  /\ q.at = "generating" => Keyed(q)

(* What stays of a turn while it waits.                                    *)
Kept(q, m) ==
  /\ m.session = q.session /\ m.request = q.request /\ m.context = q.context
  /\ m.decision = q.decision /\ m.stack = q.stack

LEMMA HeldAt ==
  ASSUME NEW q, Held(q), NEW at
  PROVE  LET m == [q EXCEPT !.at = at] IN Held(m) /\ Kept(q, m) /\ m.at = at
BY DEF Held, Kept, TurnField

LEMMA HeldTo ==
  ASSUME NEW q, Held(q), NEW at, NEW base
  PROVE  LET m == [q EXCEPT !.at = at, !.base = base] IN Held(m) /\ Kept(q, m) /\ m.at = at
BY DEF Held, Kept, TurnField

LEMMA HeldWith ==
  ASSUME NEW q, Held(q)
  PROVE  /\ \A base : LET m == [q EXCEPT !.base = base] IN Held(m) /\ Kept(q, m)
         /\ \A status \in ToolStatus :
              LET m == [q EXCEPT !.tool_status = status] IN Held(m) /\ Kept(q, m)
         /\ \A citations \in Seq(Citation), effective \in Nat :
              LET m == [q EXCEPT !.citations = citations, !.effective = effective] IN
              /\ Held(m) /\ Kept(q, m) /\ m.citations = citations /\ m.effective = effective
BY DEF Held, Kept, TurnField

LEMMA ToModelIs ==
  ASSUME NEW q, Held(q)
  PROVE  LET m == ToModel(q) IN
         /\ Waiting(m) /\ Kept(q, m) /\ m.at = "generating"
         /\ m.citations = q.citations /\ m.effective = q.effective
<1> DEFINE model == SelectModel(policies, q.decision.route, Tenant, "llm")
           key == Key(q, q.citations, model)
           m == [q EXCEPT !.at = "generating", !.model = model, !.key = key]
<1>1. ToModel(q) = m
  BY DEF ToModel
<1>2. key # None => /\ q.decision.route = "knowledge" /\ ~q.request.host_auth
                    /\ key.citations = ChunkNames(q.citations)
  BY DEF Key, ChunkNames
<1> HIDE DEF model, key
<1>3. /\ Held(m) /\ Kept(q, m) /\ m.at = "generating" /\ m.key = key
      /\ m.citations = q.citations /\ m.effective = q.effective
  BY DEF Held, Kept, TurnField
<1> HIDE DEF m
<1> QED
  BY <1>1, <1>2, <1>3 DEF Waiting, Keyed, Kept

(* A turn that is routed, and how it goes on.                              *)
LEMMA RoutedIs ==
  ASSUME policies \in PolicyConfig, NEW s \in Session, stack[s] \in Seq(Frame),
         NEW n \in Nat, Counts(stack[s], n), NEW request \in Request
  PROVE  LET built == Build(registry, Tenant, Channel, request.sent, request.message)
             decision == Decide(registry, policies, request.message, built, stack[s])
             q == Routed(s, request, built, decision) IN
         /\ Held(q) /\ Counts(q.stack, n + 1)
         /\ q.session = s /\ q.request = request /\ q.decision = decision
         /\ q.context.behavior_signals = built.behavior_signals
         /\ Alarmed(q.stack) <=> decision.confidence_band = "low"
         /\ HumbleStack(stack[s]) /\ Humble(decision) => HumbleStack(q.stack)
<1> DEFINE built == Build(registry, Tenant, Channel, request.sent, request.message)
           decision == Decide(registry, policies, request.message, built, stack[s])
           context == ApplyContextSnapshot(built, decision.context_snapshot)
           depth == policies.intent_stack_max_depth
           frames == RecordRouteDecision(stack[s], decision, depth)
           q == Routed(s, request, built, decision)
<1>1. request.sent \in Sent /\ depth \in Nat \ {0} /\ depth <= 20
  <2>1. depth \in 1 .. 20
    BY ChatTurnAssumption
  <2>2. request.sent \in Sent
    BY ChatTurnAssumption
  <2> HIDE DEF depth
  <2> QED
    BY <2>1, <2>2
<1>2. HasPage(built)
  BY <1>1, BuiltIs
<1>3. IsContext(context, request.sent) /\ context.behavior_signals = built.behavior_signals
  BY <1>1, AppliedIs
<1>4. Plausible(decision)
  <2> HIDE DEF built
  <2> QED
    BY <1>2, DecideIs
<1> HIDE DEF decision, built
<1>5. /\ frames \in Seq(Frame) /\ Len(frames) <= 20 /\ Counts(frames, n + 1)
      /\ Alarmed(frames) <=> decision.confidence_band = "low"
      /\ HumbleStack(stack[s]) /\ Humble(decision) => HumbleStack(frames)
  <2>1. decision \in DecisionRecord
    BY <1>4 DEF Plausible
  <2> HIDE DEF depth
  <2>2. /\ frames \in Seq(Frame) /\ Len(frames) <= depth /\ Counts(frames, n + 1)
        /\ Alarmed(frames) <=> decision.confidence_band = "low"
        /\ HumbleStack(stack[s]) /\ Humble(decision) => HumbleStack(frames)
    BY <1>1, <2>1, RecordIs
  <2> QED
    BY <1>1, <2>2
<1> HIDE DEF context, frames
<1>6. q = [at |-> "routed", session |-> s, request |-> request, context |-> context,
           decision |-> decision, stack |-> frames, policies |-> policies, tool_status |-> None,
           base |-> request.base, citations |-> <<>>, effective |-> 0, model |-> None, key |-> None]
  BY DEF Routed, context, frames
<1>7. <<>> \in Seq(Citation) /\ None \in ToolStatus
  BY DEF ToolStatus, Maybe
<1> HIDE DEF q
<1>8. /\ q.session = s /\ q.request = request /\ q.context = context /\ q.decision = decision
      /\ q.stack = frames /\ DOMAIN q = TurnField /\ q.tool_status = None /\ q.citations = <<>>
      /\ q.effective = 0 /\ q.policies = policies
  BY <1>6 DEF TurnField
<1>9. Held(q)
  BY <1>3, <1>4, <1>5, <1>7, <1>8 DEF Held
<1> QED
  BY <1>3, <1>5, <1>8, <1>9 DEF q, built, decision

LEMMA OnwardIs ==
  ASSUME NEW q, Held(q)
  PROVE  LET m == Onward(q) IN m = Idle \/ (Waiting(m) /\ Kept(q, m))
<1>1. CASE q.decision.route = "business" /\ q.decision.tool_name # None
  <2> DEFINE prepared == Prepare(registry, q.context, q.decision.tool_name,
                                 ExtractToolParameters(q.decision.tool_name, q.request.message))
  <2>1. prepared.is \in {"call", "missing_parameter", "validation_error"}
    BY DEF Prepare
  <2>2. Onward(q) = WithTool(q, prepared)
    BY <1>1 DEF Onward
  <2> HIDE DEF prepared
  <2>3. CASE prepared.is = "call"
    <3>1. Onward(q) = [q EXCEPT !.at = "tool"]
      BY <2>2, <2>3 DEF WithTool
    <3>2. Held(Onward(q)) /\ Kept(q, Onward(q)) /\ Onward(q).at = "tool"
      BY <3>1, HeldAt
    <3> QED
      BY <3>2 DEF Waiting
  <2>4. CASE prepared.is = "missing_parameter"
    <3> DEFINE m == [q EXCEPT !.tool_status = "missing_parameter"]
    <3>1. Onward(q) = ToModel(m)
      BY <2>2, <2>4 DEF WithTool
    <3>2. Held(m) /\ Kept(q, m)
      BY HeldWith DEF ToolStatus, Maybe
    <3> HIDE DEF m
    <3>3. Waiting(ToModel(m)) /\ Kept(m, ToModel(m))
      BY <3>2, ToModelIs
    <3> QED
      BY <3>1, <3>2, <3>3 DEF Kept
  <2>5. CASE prepared.is = "validation_error"
    BY <2>2, <2>5 DEF WithTool
  <2> QED
    BY <2>1, <2>3, <2>4, <2>5
<1>2. CASE /\ ~(q.decision.route = "business" /\ q.decision.tool_name # None)
           /\ q.decision.route = "knowledge"
  <2> DEFINE base == ResolvePrimary(Domains, Tenant, q.context.industry, q.base)
  <2>1. Onward(q) = WithBase(q, base)
    BY <1>2 DEF Onward
  <2> HIDE DEF base
  <2>2. CASE base = None
    <3> DEFINE m == [q EXCEPT !.base = None]
    <3>1. Onward(q) = ToModel(m)
      BY <2>1, <2>2 DEF WithBase
    <3>2. Held(m) /\ Kept(q, m)
      BY HeldWith
    <3> HIDE DEF m
    <3>3. Waiting(ToModel(m)) /\ Kept(m, ToModel(m))
      BY <3>2, ToModelIs
    <3> QED
      BY <3>1, <3>2, <3>3 DEF Kept
  <2>3. CASE base # None
    <3> DEFINE m == [q EXCEPT !.at = "retrieving", !.base = base]
    <3>1. Onward(q) = m
      BY <2>1, <2>3 DEF WithBase
    <3>2. Held(m) /\ Kept(q, m) /\ m.at = "retrieving"
      BY HeldTo
    <3> HIDE DEF m
    <3> QED
      BY <1>2, <3>1, <3>2 DEF Waiting, Kept
  <2> QED
    BY <2>2, <2>3
<1>3. CASE /\ ~(q.decision.route = "business" /\ q.decision.tool_name # None)
           /\ q.decision.route # "knowledge"
  BY <1>3, ToModelIs DEF Onward
<1> QED
  BY <1>1, <1>2, <1>3

-----------------------------------------------------------------------------
(* The response to an answer of the model, on its way to the user.         *)
LEMMA RespondedIs ==
  ASSUME NEW q, Held(q), NEW answer, IsAnswer(answer)
  PROVE  LET r == Responded(q, answer) IN
         /\ r \in Response
         /\ r.route = q.decision.route /\ r.requires_handoff = q.decision.requires_handoff
         /\ r.answer = answer.text /\ r.citations = q.citations /\ r.handoff = None
         /\ r.refusal = None /\ r.structured_output = None /\ ~r.cache_hit
<1> DEFINE d == q.decision
<1>1. /\ d.route \in Route /\ d.confidence \in Confidence /\ d.intent \in Intent
      /\ d.requires_handoff \in BOOLEAN
  BY DEF Held, Plausible, DecisionRecord
<1>2. /\ answer.confidence \in Confidence /\ answer.text \in Text /\ answer.usage \in UsageRecord
  BY DEF IsAnswer
<1>3. /\ q.citations \in Seq(Citation) /\ q.tool_status \in ToolStatus
      /\ q.context.industry \in AnyIndustry
  BY DEF Held, IsContext
<1>4. /\ None \in Reason /\ None \in Maybe(CheckRecord) /\ None \in Maybe(BOOLEAN)
      /\ None \in Maybe(Output) /\ FALSE \in BOOLEAN /\ 0 \in Nat /\ "ok" \in {"ok", "alert"}
  BY DEF Reason, Maybe
<1> HIDE DEF d
<1>5. Responded(q, answer) =
        [route |-> d.route, confidence |-> answer.confidence, route_confidence |-> d.confidence,
         intent |-> d.intent, answer |-> answer.text, citations |-> q.citations,
         tool_status |-> q.tool_status, handoff |-> None, industry |-> q.context.industry,
         requires_handoff |-> d.requires_handoff, hallucination_check |-> None,
         refusal |-> None, structured_output |-> None, cache_hit |-> FALSE,
         usage |-> answer.usage, cost |-> 0, budget_status |-> "ok"]
  BY DEF Responded, d
<1>6. Responded(q, answer) \in Response
  BY <1>1, <1>2, <1>3, <1>4, <1>5 DEF Response
<1> QED
  BY <1>5, <1>6 DEF d

(* The gate: a checked response, and one that is refused.                  *)
Checked(r, check, refused) == [r EXCEPT !.hallucination_check = check, !.refusal = refused]

Withheld(r, text, confidence) ==
  [r EXCEPT !.answer = text, !.citations = <<>>, !.confidence = confidence]

(* What the gate and the handover leave as it is.                          *)
SameTurn(a, b) ==
  /\ b.route = a.route /\ b.requires_handoff = a.requires_handoff
  /\ b.structured_output = a.structured_output /\ b.cache_hit = a.cache_hit

LEMMA CheckedIs ==
  ASSUME NEW r \in Response, NEW check \in CheckRecord, NEW refused \in BOOLEAN
  PROVE  LET c == Checked(r, check, refused) IN
         /\ c \in Response /\ SameTurn(r, c) /\ c.hallucination_check = check
         /\ c.refusal = refused /\ c.answer = r.answer /\ c.citations = r.citations
         /\ c.handoff = r.handoff /\ c.confidence = r.confidence
BY DEF Checked, Response, SameTurn, Maybe

LEMMA WithheldIs ==
  ASSUME NEW r \in Response, NEW text \in Text, NEW confidence \in Confidence
  PROVE  LET w == Withheld(r, text, confidence) IN
         /\ w \in Response /\ SameTurn(r, w) /\ w.hallucination_check = r.hallucination_check
         /\ w.refusal = r.refusal /\ w.answer = text /\ w.citations = <<>>
         /\ w.handoff = r.handoff /\ w.confidence = confidence
<1>1. <<>> \in Seq(Citation)
  OBVIOUS
<1> DEFINE nothing == <<>>
<1>2. nothing \in Seq(Citation)
  BY <1>1
<1> HIDE DEF nothing
<1>3. LET w == [r EXCEPT !.answer = text, !.citations = nothing, !.confidence = confidence] IN
      /\ w \in Response /\ SameTurn(r, w) /\ w.hallucination_check = r.hallucination_check
      /\ w.refusal = r.refusal /\ w.answer = text /\ w.citations = nothing
      /\ w.handoff = r.handoff /\ w.confidence = confidence
  BY <1>2 DEF Response, SameTurn
<1> QED
  BY <1>3 DEF Withheld, nothing

LEMMA CheckIs ==
  ASSUME NEW answer, NEW citations \in Seq(Citation), NEW effective \in Nat
  PROVE  LET check == Check(answer, citations, effective) IN
         /\ check \in CheckRecord
         /\ check.reason = "passed" => effective > 0
         /\ check.effective_citation_count = effective
BY DEF Check, CheckRecord

(* The gate refuses an answer from knowledge without evidence, and leaves  *)
(* every other answer as it is.                                            *)
Judged(g, q, answer) ==
  /\ g \in Response
  /\ g.route = q.decision.route /\ g.requires_handoff = q.decision.requires_handoff
  /\ g.structured_output = None /\ ~g.cache_hit /\ g.handoff = None
  /\ g.answer = answer.text \/ g.answer = Plain("refusal")
  /\ q.decision.route # "knowledge" => g.refusal = None
  /\ q.decision.route = "knowledge" =>
       \/ /\ g.refusal = FALSE /\ g.citations = q.citations /\ g.answer = answer.text
          /\ g.hallucination_check.reason = "passed"
          /\ g.hallucination_check.effective_citation_count > 0 /\ q.effective > 0
       \/ /\ g.refusal = TRUE /\ g.citations = <<>> /\ g.answer = Plain("refusal")
          /\ g.confidence <= 35

LEMMA GatedIs ==
  ASSUME NEW q, Held(q), NEW answer, IsAnswer(answer)
  PROVE  Judged(Gated(Responded(q, answer), q, answer), q, answer)
<1> DEFINE r == Responded(q, answer)
           check == Check(answer, q.citations, q.effective)
           c == Checked(r, check, Refused(check))
           least == IF c.confidence < 35 THEN c.confidence ELSE 35
           g == Gated(r, q, answer)
<1>1. /\ r \in Response
      /\ r.route = q.decision.route /\ r.requires_handoff = q.decision.requires_handoff
      /\ r.answer = answer.text /\ r.citations = q.citations /\ r.handoff = None
      /\ r.refusal = None /\ r.structured_output = None /\ ~r.cache_hit
  BY RespondedIs
<1> HIDE DEF r
<1>2. /\ check \in CheckRecord /\ check.effective_citation_count = q.effective
      /\ check.reason = "passed" => q.effective > 0
  BY CheckIs DEF Held
<1>3. g = IF q.decision.route # "knowledge" THEN r
          ELSE IF ~Refused(check) THEN c ELSE Withheld(c, Plain("refusal"), least)
  BY DEF Gated, Checked, Withheld
<1> HIDE DEF check, g
<1>4. Refused(check) \in BOOLEAN
  BY DEF Refused
<1>5. /\ c \in Response /\ SameTurn(r, c) /\ c.hallucination_check = check
      /\ c.refusal = Refused(check) /\ c.answer = r.answer /\ c.citations = r.citations
      /\ c.handoff = r.handoff
  BY <1>1, <1>2, <1>4, CheckedIs
<1> HIDE DEF c
<1>6. least \in Confidence /\ least <= 35
  <2>1. c.confidence \in Confidence
    BY <1>5 DEF Response
  <2> QED
    BY <2>1, ConfidenceIs
<1> HIDE DEF least
<1>7. CASE q.decision.route # "knowledge"
  BY <1>1, <1>3, <1>7 DEF Judged, g, r
<1>8. CASE q.decision.route = "knowledge" /\ ~Refused(check)
  <2>1. g = c /\ check.reason = "passed" /\ c.refusal = FALSE
    BY <1>3, <1>5, <1>8 DEF Refused
  <2>2. Judged(c, q, answer)
    BY <1>1, <1>2, <1>5, <1>8, <2>1 DEF Judged, SameTurn
  <2> QED
    BY <2>1, <2>2 DEF g, r
<1>9. CASE q.decision.route = "knowledge" /\ Refused(check)
  <2> DEFINE w == Withheld(c, Plain("refusal"), least)
  <2>1. Plain("refusal") \in Text
    BY PlainIs
  <2>2. /\ w \in Response /\ SameTurn(c, w) /\ w.refusal = c.refusal
        /\ w.answer = Plain("refusal") /\ w.citations = <<>> /\ w.handoff = c.handoff
        /\ w.confidence = least
    BY <1>5, <1>6, <2>1, WithheldIs
  <2>3. g = w /\ c.refusal = TRUE
    BY <1>3, <1>5, <1>9
  <2> HIDE DEF w
  <2>4. Judged(w, q, answer)
    BY <1>1, <1>5, <1>6, <1>9, <2>2, <2>3 DEF Judged, SameTurn
  <2> QED
    BY <2>3, <2>4 DEF g, r
<1> QED
  BY <1>7, <1>8, <1>9

(* A response that announces the handover.                                 *)
Announced(g, reason, text, confidence) ==
  [g EXCEPT !.handoff = reason, !.answer = text, !.confidence = confidence]

LEMMA AnnouncedIs ==
  ASSUME NEW g \in Response, NEW reason \in Reason, NEW text \in Text, NEW confidence \in Confidence
  PROVE  LET h == Announced(g, reason, text, confidence) IN
         /\ h \in Response /\ SameTurn(g, h) /\ h.refusal = g.refusal
         /\ h.hallucination_check = g.hallucination_check /\ h.citations = g.citations
         /\ h.answer = text
BY DEF Announced, Response, SameTurn

LEMMA HandedOverIs ==
  ASSUME NEW g \in Response, NEW context, NEW v, Verdict(v)
  PROVE  LET h == HandedOver(g, context, v) IN
         /\ h \in Response /\ SameTurn(g, h) /\ h.refusal = g.refusal
         /\ h.hallucination_check = g.hallucination_check /\ h.citations = g.citations
         /\ v.should_handoff => h.answer = Plain("handover")
         /\ ~v.should_handoff => h = g
<1>1. CASE ~v.should_handoff
  BY <1>1 DEF HandedOver, SameTurn
<1>2. CASE v.should_handoff
  <2> DEFINE reason == Package(registry, context, v.reason)
             confidence == IF g.confidence > 92 THEN g.confidence ELSE 92
  <2>1. reason \in Reason
    BY DEF Package, Verdict, Reason, Maybe
  <2>2. g.confidence \in Confidence
    BY DEF Response
  <2>3. confidence \in Confidence
    BY <2>2, ConfidenceIs
  <2>4. HandedOver(g, context, v) = Announced(g, reason, Plain("handover"), confidence)
    BY <1>2 DEF HandedOver, Announced
  <2> HIDE DEF reason, confidence
  <2>5. Plain("handover") \in Text
    BY PlainIs
  <2> QED
    BY <1>2, <2>1, <2>3, <2>4, <2>5, AnnouncedIs
<1> QED
  BY <1>1, <1>2

(* The response e that ends the turn q, handed over or not.                *)
Answered(e, q, answer, handed) ==
  /\ handed \in BOOLEAN /\ e \in Response
  /\ e.route = q.decision.route /\ ~e.cache_hit
  /\ ~e.answer.phone /\ e.answer.titles <= 1
  /\ e.answer.says = "handover" <=> handed
  /\ e.answer.says = "nothing" => answer.text.says = "nothing"
  /\ Consistent(e)
  /\ q.request.sent.response_format = "structured" => e.structured_output # None
  /\ q.decision.route # "knowledge" => e.refusal = None
  /\ q.decision.route = "knowledge" =>
       \/ /\ e.refusal = FALSE /\ e.citations = q.citations
          /\ e.hallucination_check.reason = "passed"
          /\ e.hallucination_check.effective_citation_count > 0 /\ q.effective > 0
       \/ /\ e.refusal = TRUE /\ e.citations = <<>> /\ e.answer.says = "refusal"
          /\ e.confidence <= 35 /\ e.handoff = None /\ ~handed
  /\ IsEnabled(registry, RouteDecisionHandoff) /\ q.decision.route \in {"handoff", "risk"} =>
       handed

LEMMA AnsweredIs ==
  ASSUME NEW q, Held(q), NEW answer, IsAnswer(answer)
  PROVE  LET gated == Gated(Responded(q, answer), q, answer)
             v == ShouldHandoff(registry, q.context, gated, policies)
             e == Enhance(registry, HandedOver(gated, q.context, v), q.context)
         IN Answered(e, q, answer, v.should_handoff)
<1> DEFINE gated == Gated(Responded(q, answer), q, answer)
           v == ShouldHandoff(registry, q.context, gated, policies)
           h == HandedOver(gated, q.context, v)
           e == Enhance(registry, h, q.context)
           handed == v.should_handoff
<1>1. Judged(gated, q, answer)
  BY GatedIs
<1> HIDE DEF gated
<1>2. /\ Verdict(v)
      /\ IsEnabled(registry, RouteDecisionHandoff) /\ ToHuman(gated) => handed
      /\ ~ToHuman(gated) /\ gated.refusal = TRUE => ~handed
  BY ShouldHandoffIs
<1> HIDE DEF v
<1>3. /\ h \in Response /\ SameTurn(gated, h) /\ h.refusal = gated.refusal
      /\ h.hallucination_check = gated.hallucination_check /\ h.citations = gated.citations
      /\ handed => h.answer = Plain("handover")
      /\ ~handed => h = gated
  BY <1>1, <1>2, HandedOverIs DEF Judged
<1> HIDE DEF h
<1>4. /\ Reworked(h, e, q.context) /\ ~e.answer.phone
      /\ q.context.integration_context.response_format = "structured" =>
           e.structured_output # None /\ Consistent(e)
  BY <1>3, EnhanceIs
<1> HIDE DEF e
<1>5. q.context.integration_context.response_format = q.request.sent.response_format
  BY DEF Held, IsContext
<1>6. /\ answer.text.says \in {"answer", "nothing"} /\ answer.text.titles = 0
      /\ Plain("handover").says = "handover" /\ Plain("handover").titles = 0
      /\ Plain("refusal").says = "refusal" /\ Plain("refusal").titles = 0
  BY DEF IsAnswer, Plain
<1>7. handed \in BOOLEAN
  BY <1>2 DEF Verdict
<1>8. /\ h.answer.titles = 0
      /\ h.answer.says = "handover" <=> handed
      /\ ~handed => h.answer.says = answer.text.says \/ h.answer.says = "refusal"
  BY <1>1, <1>3, <1>6, <1>7 DEF Judged
<1>9. /\ e.route = q.decision.route /\ ~e.cache_hit
  BY <1>1, <1>3, <1>4 DEF Judged, Reworked, Same, SameTurn
<1>10. /\ e.answer.titles <= 1
       /\ e.answer.says = "handover" <=> handed
       /\ e.answer.says = "nothing" => answer.text.says = "nothing"
  BY <1>4, <1>6, <1>7, <1>8 DEF Reworked
<1>11. /\ Consistent(e)
       /\ q.request.sent.response_format = "structured" => e.structured_output # None
  <2>1. CASE q.request.sent.response_format = "structured"
    BY <1>4, <1>5, <2>1
  <2>2. CASE q.request.sent.response_format # "structured"
    <3>1. e.structured_output = h.structured_output /\ h.structured_output = None
      BY <1>1, <1>3, <1>4, <1>5, <2>2 DEF Reworked, SameTurn, Judged
    <3> QED
      BY <2>2, <3>1 DEF Consistent
  <2> QED
    BY <2>1, <2>2
<1>12. /\ e.refusal = gated.refusal /\ e.hallucination_check = gated.hallucination_check
       /\ e.citations = gated.citations /\ e.confidence = h.confidence /\ e.handoff = h.handoff
  BY <1>3, <1>4 DEF Reworked, Same
<1>13. ToHuman(gated) <=> q.decision.route \in {"handoff", "risk"}
  BY <1>1 DEF ToHuman, Judged, Held, Plausible
<1>14. ASSUME q.decision.route = "knowledge", gated.refusal = TRUE
       PROVE  /\ e.answer.says = "refusal" /\ e.confidence <= 35 /\ e.handoff = None /\ ~handed
  <2>1. ~handed /\ h = gated
    BY <1>2, <1>3, <1>13, <1>14
  <2>2. gated.answer = Plain("refusal") /\ gated.confidence <= 35 /\ gated.handoff = None
    BY <1>1, <1>14 DEF Judged
  <2> QED
    BY <1>4, <1>6, <1>12, <2>1, <2>2 DEF Reworked
<1>15. q.decision.route = "knowledge" =>
         \/ /\ e.refusal = FALSE /\ e.citations = q.citations
            /\ e.hallucination_check.reason = "passed"
            /\ e.hallucination_check.effective_citation_count > 0 /\ q.effective > 0
         \/ /\ e.refusal = TRUE /\ e.citations = <<>> /\ e.answer.says = "refusal"
            /\ e.confidence <= 35 /\ e.handoff = None /\ ~handed
  <2> SUFFICES ASSUME q.decision.route = "knowledge"
               PROVE  \/ /\ e.refusal = FALSE /\ e.citations = q.citations
                         /\ e.hallucination_check.reason = "passed"
                         /\ e.hallucination_check.effective_citation_count > 0 /\ q.effective > 0
                      \/ /\ e.refusal = TRUE /\ e.citations = <<>> /\ e.answer.says = "refusal"
                         /\ e.confidence <= 35 /\ e.handoff = None /\ ~handed
    BY Zenon
  <2>1. \/ /\ gated.refusal = FALSE /\ gated.citations = q.citations
           /\ gated.hallucination_check.reason = "passed"
           /\ gated.hallucination_check.effective_citation_count > 0 /\ q.effective > 0
        \/ gated.refusal = TRUE /\ gated.citations = <<>>
    BY <1>1 DEF Judged
  <2>2. CASE gated.refusal = TRUE /\ gated.citations = <<>>
    <3>1. /\ e.answer.says = "refusal" /\ e.confidence <= 35 /\ e.handoff = None /\ ~handed
      BY <1>14, <2>2, Zenon
    <3>2. e.refusal = TRUE /\ e.citations = <<>>
      BY <1>12, <2>2, Zenon
    <3> QED
      BY <3>1, <3>2, Zenon
  <2>3. CASE /\ gated.refusal = FALSE /\ gated.citations = q.citations
             /\ gated.hallucination_check.reason = "passed"
             /\ gated.hallucination_check.effective_citation_count > 0 /\ q.effective > 0
    BY <1>12, <2>3, Zenon
  <2> QED
    BY <2>1, <2>2, <2>3, Zenon
<1>16. /\ q.decision.route # "knowledge" => e.refusal = None
       /\ IsEnabled(registry, RouteDecisionHandoff) /\ q.decision.route \in {"handoff", "risk"} =>
            handed
  BY <1>1, <1>2, <1>12, <1>13 DEF Judged
<1>17. e \in Response
  BY <1>4 DEF Reworked
<1>18. Answered(e, q, answer, handed)
  BY <1>4, <1>7, <1>9, <1>10, <1>11, <1>15, <1>16, <1>17 DEF Answered
<1> QED
  BY <1>18 DEF e, h, v, gated

-----------------------------------------------------------------------------
(* The end of a turn.                                                      *)
Charged(response, cost, status) == [response EXCEPT !.cost = cost, !.budget_status = status]

FromCache(response) == [response EXCEPT !.cache_hit = TRUE, !.usage = NoUsage]

(* What the price leaves as it is, and what the cache does.                *)
SameReply(a, b) ==
  /\ b.route = a.route /\ b.answer = a.answer /\ b.citations = a.citations
  /\ b.handoff = a.handoff /\ b.refusal = a.refusal /\ b.confidence = a.confidence
  /\ b.hallucination_check = a.hallucination_check
  /\ b.structured_output = a.structured_output

LEMMA ChargedIs ==
  ASSUME NEW r \in Response, NEW cost \in Nat, NEW status \in {"ok", "alert"}
  PROVE  LET c == Charged(r, cost, status) IN
         c \in Response /\ SameReply(r, c) /\ c.cache_hit = r.cache_hit /\ c.cost = cost
BY DEF Charged, Response, SameReply

LEMMA FromCacheIs ==
  ASSUME NEW r \in Response
  PROVE  LET c == FromCache(r) IN
         c \in Response /\ SameReply(r, c) /\ c.cache_hit = TRUE /\ c.usage = NoUsage
<1> DEFINE usage == NoUsage
<1>1. usage \in UsageRecord
  BY NoUsageCosts
<1> HIDE DEF usage
<1>2. LET c == [r EXCEPT !.cache_hit = TRUE, !.usage = usage] IN
      c \in Response /\ SameReply(r, c) /\ c.cache_hit = TRUE /\ c.usage = usage
  BY <1>1 DEF Response, SameReply
<1> QED
  BY <1>2 DEF FromCache, usage

Final(q, response) ==
  LET cost == EstimatedCost(response.usage, ResolveModelPrice(Prices, provider, q.model))
  IN Charged(response, cost, BudgetStatus(cost, AlertEstimatedCents(q.policies, Tenant)))

Ended(q, response, enqueued, deltas) ==
  [at |-> "done", request |-> q.request, decision |-> q.decision, citations |-> q.citations,
   effective |-> q.effective, response |-> Final(q, response), enqueued |-> enqueued,
   events |-> IF q.request.stream THEN StreamEvents(deltas, Final(q, response).answer) ELSE <<>>]

LEMMA DoneIs ==
  ASSUME NEW t, NEW q, NEW response, NEW enqueued, NEW deltas,
         Done(t, q, response, enqueued, deltas)
  PROVE  /\ turn' = [turn EXCEPT ![t] = Ended(q, response, enqueued, deltas)]
         /\ stack' = [stack EXCEPT ![q.session] = q.stack]
         /\ seen' = [seen EXCEPT ![q.session].lost = @ \/ q.stack # stack[q.session]]
BY Zenon DEF Done, Ended, Final, Charged

LEMMA FinalIs ==
  ASSUME NEW q, NEW response \in Response
  PROVE  LET f == Final(q, response) IN
         /\ f \in Response /\ SameReply(response, f) /\ f.cache_hit = response.cache_hit
         /\ response.usage = NoUsage => f.cost = 0
<1> DEFINE price == ResolveModelPrice(Prices, provider, q.model)
           cost == EstimatedCost(response.usage, price)
           status == BudgetStatus(cost, AlertEstimatedCents(q.policies, Tenant))
<1>1. response.usage \in UsageRecord
  BY DEF Response
<1>2. cost \in Nat
  BY <1>1, CostIs
<1>3. response.usage = NoUsage => cost = 0
  BY NoUsageCosts
<1>4. status \in {"ok", "alert"}
  BY DEF BudgetStatus
<1>5. Final(q, response) = Charged(response, cost, status)
  BY DEF Final
<1> HIDE DEF cost, status
<1> QED
  BY <1>2, <1>3, <1>4, <1>5, ChargedIs

(* A stream carries the answer that is sent.                               *)
LEMMA EventsAre ==
  ASSUME NEW answer, NEW text, answer.says = "nothing" => text.says = "nothing"
  PROVE  /\ LET events == StreamEvents(IF text.says = "nothing" THEN <<>> ELSE <<text>>, answer) IN
            /\ \A i \in DOMAIN events : events[i] = answer
            /\ answer.says # "nothing" => Len(events) = 1
         /\ LET events == StreamEvents(<<>>, answer) IN
            /\ \A i \in DOMAIN events : events[i] = answer
            /\ answer.says # "nothing" => Len(events) = 1
<1>1. \A i \in DOMAIN <<answer>> : <<answer>>[i] = answer
  OBVIOUS
<1>2. Len(<<answer>>) = 1 /\ DOMAIN <<>> = {}
  OBVIOUS
<1> QED
  BY <1>1, <1>2 DEF StreamEvents

LEMMA ChunksAre ==
  ASSUME NEW a \in Seq(Citation), NEW b \in Seq(Citation), ChunkNames(a) = ChunkNames(b)
  PROVE  Chunks(a) = Chunks(b)
<1>1. DOMAIN a = DOMAIN b
  <2>1. DOMAIN ChunkNames(a) = DOMAIN a /\ DOMAIN ChunkNames(b) = DOMAIN b
    BY DEF ChunkNames
  <2> QED
    BY <2>1
<1>2. \A i \in DOMAIN a : a[i].chunk_id = b[i].chunk_id /\ a[i].version_id = b[i].version_id
  <2> SUFFICES ASSUME NEW i \in DOMAIN a
               PROVE  a[i].chunk_id = b[i].chunk_id /\ a[i].version_id = b[i].version_id
    OBVIOUS
  <2>1. /\ ChunkNames(a)[i] = [chunk_id |-> a[i].chunk_id, version_id |-> a[i].version_id]
        /\ ChunkNames(b)[i] = [chunk_id |-> b[i].chunk_id, version_id |-> b[i].version_id]
    BY <1>1 DEF ChunkNames
  <2>2. [chunk_id |-> a[i].chunk_id, version_id |-> a[i].version_id] =
          [chunk_id |-> b[i].chunk_id, version_id |-> b[i].version_id]
    BY <2>1
  <2> QED
    BY <2>2
<1> QED
  BY <1>1, <1>2 DEF Chunks

(* What is remembered, and what a turn that ended has sent.                *)
Cached(k, r) ==
  /\ r \in Response /\ r.route = "knowledge" /\ r.handoff = None /\ r.refusal = FALSE
  /\ r.hallucination_check.reason = "passed"
  /\ r.hallucination_check.effective_citation_count > 0
  /\ ChunkNames(r.citations) = k.citations
  /\ ~r.answer.phone /\ r.answer.titles <= 1 /\ Consistent(r)

Grounded(d) ==
  LET response == d.response IN
  /\ d.decision.route = "knowledge" /\ response.refusal = FALSE =>
       /\ response.hallucination_check.reason = "passed"
       /\ response.hallucination_check.effective_citation_count > 0
       /\ Chunks(response.citations) = Chunks(d.citations)
  /\ d.decision.route = "knowledge" /\ d.effective = 0 =>
       response.refusal = TRUE \/ response.cache_hit
  /\ response.answer.says = "handover" => d.enqueued \/ response.cache_hit
  /\ response.refusal = TRUE =>
       /\ response.answer.says = "refusal" /\ response.citations = <<>>
       /\ response.handoff = None /\ ~d.enqueued /\ response.confidence <= 35
  /\ response.cache_hit =>
       /\ d.decision.route = "knowledge" /\ ~d.request.host_auth
       /\ response.refusal = FALSE /\ response.handoff = None /\ response.cost = 0

Delivered(d) ==
  LET response == d.response
      events == d.events IN
  /\ ~response.answer.phone /\ response.answer.titles <= 1
  /\ \A i \in DOMAIN events : events[i] = response.answer
  /\ d.request.stream /\ response.answer.says # "nothing" => Len(events) = 1
  /\ response.structured_output # None =>
       /\ response.structured_output.answer = response.answer
       /\ response.structured_output.citations = response.citations
       /\ response.structured_output.handoff = response.handoff
  /\ d.request.sent.response_format = "structured" /\ ~response.cache_hit =>
       response.structured_output # None

Finished(d) == d.at = "done" /\ d.response \in Response /\ Grounded(d) /\ Delivered(d)

LEMMA EndedIs ==
  ASSUME NEW q, NEW response, NEW enqueued, NEW deltas
  PROVE  LET d == Ended(q, response, enqueued, deltas) IN
         /\ d.at = "done" /\ d.request = q.request /\ d.decision = q.decision
         /\ d.citations = q.citations /\ d.effective = q.effective
         /\ d.response = Final(q, response) /\ d.enqueued = enqueued
         /\ d.events = IF q.request.stream THEN StreamEvents(deltas, Final(q, response).answer)
                       ELSE <<>>
BY DEF Ended

LEMMA GeneratedEnds ==
  ASSUME NEW q, Held(q), NEW answer, NEW e, NEW handed, Answered(e, q, answer, handed)
  PROVE  Finished(Ended(q, e, handed,
                        IF answer.text.says = "nothing" THEN <<>> ELSE <<answer.text>>))
<1> DEFINE deltas == IF answer.text.says = "nothing" THEN <<>> ELSE <<answer.text>>
           f == Final(q, e)
           d == Ended(q, e, handed, deltas)
           events == StreamEvents(deltas, f.answer)
<1>1. f \in Response /\ SameReply(e, f) /\ f.cache_hit = e.cache_hit
  BY FinalIs DEF Answered
<1> HIDE DEF f
<1>2. /\ d.at = "done" /\ d.request = q.request /\ d.decision = q.decision
      /\ d.citations = q.citations /\ d.effective = q.effective
      /\ d.response = f /\ d.enqueued = handed
      /\ d.events = IF q.request.stream THEN events ELSE <<>>
  BY EndedIs DEF f
<1> HIDE DEF d
<1>3. /\ \A i \in DOMAIN events : events[i] = f.answer
      /\ f.answer.says # "nothing" => Len(events) = 1
  <2>1. f.answer.says = "nothing" => answer.text.says = "nothing"
    BY <1>1 DEF SameReply, Answered
  <2> QED
    BY <2>1, EventsAre
<1> HIDE DEF events
<1>4. Grounded(d)
  <2>1. /\ f.refusal = e.refusal /\ f.hallucination_check = e.hallucination_check
        /\ f.citations = e.citations /\ f.answer = e.answer /\ f.handoff = e.handoff
        /\ f.confidence = e.confidence
    BY <1>1 DEF SameReply
  <2>2. ~f.cache_hit /\ handed \in BOOLEAN
    BY <1>1 DEF Answered
  <2>3. None \notin BOOLEAN
    BY ChatTurnAssumption
  <2>4. CASE q.decision.route # "knowledge"
    <3>1. f.refusal = None /\ (f.answer.says = "handover" <=> handed)
      BY <2>1, <2>4 DEF Answered
    <3>2. f.refusal # TRUE
      BY <2>3, <3>1
    <3> QED
      BY <1>2, <2>2, <2>4, <3>1, <3>2 DEF Grounded
  <2>5. CASE q.decision.route = "knowledge" /\ e.refusal = FALSE
    <3>1. /\ e.citations = q.citations /\ e.hallucination_check.reason = "passed"
          /\ e.hallucination_check.effective_citation_count > 0 /\ q.effective > 0
          /\ e.answer.says = "handover" <=> handed
      BY <2>5 DEF Answered
    <3>2. q.effective # 0
      BY <3>1 DEF Held
    <3> QED
      BY <1>2, <2>1, <2>2, <2>5, <3>1, <3>2 DEF Grounded
  <2>6. CASE q.decision.route = "knowledge" /\ e.refusal = TRUE
    <3>1. /\ e.citations = <<>> /\ e.answer.says = "refusal"
          /\ e.confidence <= 35 /\ e.handoff = None /\ ~handed
      BY <2>6 DEF Answered
    <3> QED
      BY <1>2, <2>1, <2>2, <2>6, <3>1 DEF Grounded
  <2> QED
    BY <2>4, <2>5, <2>6 DEF Answered
<1>5. Delivered(d)
  <2>1. /\ f.citations = e.citations /\ f.answer = e.answer /\ f.handoff = e.handoff
        /\ f.structured_output = e.structured_output
    BY <1>1 DEF SameReply
  <2>2. /\ ~e.answer.phone /\ e.answer.titles <= 1 /\ Consistent(e)
        /\ q.request.sent.response_format = "structured" => e.structured_output # None
    BY DEF Answered
  <2>3. \A i \in DOMAIN d.events : d.events[i] = f.answer
    BY <1>2, <1>3
  <2>4. d.request.stream /\ f.answer.says # "nothing" => Len(d.events) = 1
    BY <1>2, <1>3
  <2> QED
    BY <1>2, <2>1, <2>2, <2>3, <2>4 DEF Delivered, Consistent
<1>6. Finished(d)
  BY <1>1, <1>2, <1>4, <1>5 DEF Finished
<1> QED
  BY <1>6 DEF d

LEMMA CachedEnds ==
  ASSUME NEW q, Held(q), q.decision.route = "knowledge", ~q.request.host_auth, NEW r,
         NEW k, Cached(k, r), k.citations = ChunkNames(q.citations)
  PROVE  Finished(Ended(q, FromCache(r), FALSE, <<>>))
<1> DEFINE c == FromCache(r)
           f == Final(q, c)
           deltas == <<>>
           d == Ended(q, c, FALSE, deltas)
           events == StreamEvents(deltas, f.answer)
<1>1. c \in Response /\ SameReply(r, c) /\ c.cache_hit = TRUE /\ c.usage = NoUsage
  BY FromCacheIs DEF Cached
<1> HIDE DEF c
<1>2. f \in Response /\ SameReply(c, f) /\ f.cache_hit = TRUE /\ f.cost = 0
  BY <1>1, FinalIs
<1> HIDE DEF f
<1>3. /\ d.at = "done" /\ d.request = q.request /\ d.decision = q.decision
      /\ d.citations = q.citations /\ d.effective = q.effective
      /\ d.response = f /\ d.enqueued = FALSE
      /\ d.events = IF q.request.stream THEN events ELSE <<>>
  BY DEF Ended, f
<1> HIDE DEF d
<1>4. /\ \A i \in DOMAIN events : events[i] = f.answer
      /\ f.answer.says # "nothing" => Len(events) = 1
  BY EventsAre
<1> HIDE DEF events
<1>5. /\ f.refusal = r.refusal /\ f.hallucination_check = r.hallucination_check
      /\ f.citations = r.citations /\ f.answer = r.answer /\ f.handoff = r.handoff
      /\ f.structured_output = r.structured_output
  BY <1>1, <1>2 DEF SameReply
<1>6. Grounded(d)
  <2>1. Chunks(r.citations) = Chunks(q.citations)
    BY ChunksAre DEF Cached, Held, Response
  <2> QED
    BY <1>2, <1>3, <1>5, <2>1 DEF Grounded, Cached
<1>7. Delivered(d)
  <2>1. \A i \in DOMAIN d.events : d.events[i] = f.answer
    BY <1>3, <1>4
  <2>2. d.request.stream /\ f.answer.says # "nothing" => Len(d.events) = 1
    BY <1>3, <1>4
  <2> QED
    BY <1>2, <1>3, <1>5, <2>1, <2>2 DEF Delivered, Cached, Consistent
<1>8. Finished(d)
  BY <1>2, <1>3, <1>6, <1>7 DEF Finished
<1> QED
  BY <1>8 DEF d, c

(* What is remembered of a turn may be sent again.                         *)
LEMMA RememberedIs ==
  ASSUME NEW q, Waiting(q), q.at = "generating", NEW answer, NEW e, NEW handed,
         Answered(e, q, answer, handed),
         None \notin DOMAIN cache, \A k \in DOMAIN cache : Cached(k, cache[k])
  PROVE  LET new == Remember(q.key, e) IN
         None \notin DOMAIN new /\ \A k \in DOMAIN new : Cached(k, new[k])
<1> DEFINE new == Remember(q.key, e)
           kept == /\ q.key # None /\ policies.response_cache_enabled
                   /\ e.route = "knowledge" /\ e.handoff = None /\ e.refusal # TRUE
<1>1. CASE ~kept
  <2>1. new = cache
    BY <1>1, Zenon DEF Remember
  <2> QED
    BY <2>1
<1>2. CASE kept
  <2>1. Cached(q.key, e)
    <3>1. q.key.citations = ChunkNames(q.citations) /\ q.decision.route = "knowledge"
      BY <1>2 DEF Waiting, Keyed
    <3>2. /\ e.refusal = FALSE /\ e.citations = q.citations
          /\ e.hallucination_check.reason = "passed"
          /\ e.hallucination_check.effective_citation_count > 0
      BY <1>2, <3>1 DEF Answered
    <3> QED
      BY <1>2, <3>1, <3>2 DEF Cached, Answered
  <2>2. new = [k \in DOMAIN cache \cup {q.key} |-> IF k = q.key THEN e ELSE cache[k]]
    BY <1>2, Zenon DEF Remember
  <2>3. None \notin DOMAIN new
    BY <1>2, <2>2
  <2>4. ASSUME NEW k \in DOMAIN new PROVE Cached(k, new[k])
    BY <2>1, <2>2
  <2> QED
    BY <2>3, <2>4
<1> QED
  BY <1>1, <1>2

-----------------------------------------------------------------------------
(* The inductive invariant.  A session remembers a low confidence in the   *)
(* top frame of its stack, unless an overlapping turn overwrote that; the  *)
(* counts in a stack, stored or held by a turn, are bounded by the         *)
(* messages; an answer is remembered only as Cached says; a turn is idle,  *)
(* waits with what it decided, or ended as Finished says.                  *)
Ids == {BuiltinPlugins[i].plugin_id : i \in DOMAIN BuiltinPlugins}

Settings ==
  provider \in {"local", "remote"} /\ enabled \subseteq Ids /\ policies \in PolicyConfig

Remembers(frames, m) ==
  /\ DOMAIN m = {"messages", "low", "lost"}
  /\ m.messages \in Nat /\ m.messages <= MaxMessages
  /\ frames \in Seq(Frame) /\ Len(frames) <= 20 /\ Counts(frames, m.messages)
  /\ ~m.lost => (m.low <=> Alarmed(frames))

SessionsRemember ==
  /\ DOMAIN stack = Session /\ DOMAIN seen = Session
  /\ \A s \in Session : Remembers(stack[s], seen[s])

CacheIsSound == None \notin DOMAIN cache /\ \A k \in DOMAIN cache : Cached(k, cache[k])

TurnIs(d, told) ==
  \/ d = Idle
  \/ Waiting(d) /\ Counts(d.stack, told[d.session].messages)
  \/ Finished(d)

TurnsAre == DOMAIN turn = Turn /\ \A t \in Turn : TurnIs(turn[t], seen)

IInv == Settings /\ SessionsRemember /\ CacheIsSound /\ TurnsAre

(* Counts that are bounded stay bounded.                                   *)
LEMMA CountsGrow ==
  ASSUME NEW frames \in Seq(Frame), NEW m \in Nat, NEW n \in Nat, m <= n, Counts(frames, m)
  PROVE  Counts(frames, n)
<1>1. \A i \in DOMAIN frames : frames[i].low_confidence_count \in Nat
  <2>1. \A i \in DOMAIN frames : frames[i] \in Frame
    OBVIOUS
  <2> QED
    BY <2>1 DEF Frame
<1> QED
  BY <1>1 DEF Counts

LEMMA StillIs ==
  ASSUME NEW d, NEW told, NEW now, TurnIs(d, told),
         \A s \in Session : /\ told[s].messages \in Nat /\ now[s].messages \in Nat
                            /\ told[s].messages <= now[s].messages
  PROVE  TurnIs(d, now)
<1>1. CASE d = Idle \/ Finished(d)
  BY <1>1 DEF TurnIs
<1>2. CASE Waiting(d) /\ Counts(d.stack, told[d.session].messages)
  <2>1. d.session \in Session /\ d.stack \in Seq(Frame)
    BY <1>2 DEF Waiting, Held
  <2>2. Counts(d.stack, now[d.session].messages)
    BY <1>2, <2>1, CountsGrow
  <2> QED
    BY <1>2, <2>2 DEF TurnIs
<1> QED
  BY <1>1, <1>2 DEF TurnIs

(* One turn moves, the others stay as they are.                            *)
LEMMA TurnMoves ==
  ASSUME TurnsAre, NEW t \in Turn, NEW d, turn' = [turn EXCEPT ![t] = d],
         \A s \in Session : /\ seen[s].messages \in Nat /\ seen'[s].messages \in Nat
                            /\ seen[s].messages <= seen'[s].messages,
         TurnIs(d, seen')
  PROVE  TurnsAre'
<1>1. DOMAIN turn' = Turn
  BY DEF TurnsAre
<1>2. ASSUME NEW u \in Turn PROVE TurnIs(turn'[u], seen')
  <2>1. CASE u = t
    BY <2>1 DEF TurnsAre
  <2>2. CASE u # t
    <3>1. turn'[u] = turn[u] /\ TurnIs(turn[u], seen)
      BY <2>2 DEF TurnsAre
    <3> QED
      BY <3>1, StillIs
  <2> QED
    BY <2>1, <2>2
<1> QED
  BY <1>1, <1>2 DEF TurnsAre

(* What a turn stores at its end.                                          *)
LEMMA StoredIs ==
  ASSUME SessionsRemember, NEW q, Held(q), Counts(q.stack, seen[q.session].messages),
         stack' = [stack EXCEPT ![q.session] = q.stack],
         seen' = [seen EXCEPT ![q.session].lost = @ \/ q.stack # stack[q.session]]
  PROVE  /\ SessionsRemember'
         /\ \A s \in Session : /\ seen[s].messages \in Nat /\ seen'[s].messages \in Nat
                               /\ seen[s].messages <= seen'[s].messages
<1> DEFINE r == q.session
           lost == seen[r].lost \/ q.stack # stack[r]
<1>1. r \in Session /\ q.stack \in Seq(Frame) /\ Len(q.stack) <= 20
  BY DEF Held
<1>2. \A s \in Session : Remembers(stack[s], seen[s])
  BY DEF SessionsRemember
<1>3. /\ stack'[r] = q.stack /\ \A s \in Session \ {r} : stack'[s] = stack[s]
      /\ \A s \in Session \ {r} : seen'[s] = seen[s]
      /\ DOMAIN stack' = Session /\ DOMAIN seen' = Session
  BY <1>1 DEF SessionsRemember
<1>4. /\ seen'[r].messages = seen[r].messages /\ seen'[r].low = seen[r].low
      /\ seen'[r].lost = lost /\ DOMAIN seen'[r] = {"messages", "low", "lost"}
  <2>1. DOMAIN seen[r] = {"messages", "low", "lost"} /\ r \in DOMAIN seen
    BY <1>1, <1>2 DEF Remembers, SessionsRemember
  <2>2. seen'[r] = [seen[r] EXCEPT !.lost = lost]
    BY <2>1
  <2> HIDE DEF lost
  <2> QED
    BY <2>1, <2>2
<1>5. Remembers(stack'[r], seen'[r])
  <2>1. ~lost => (seen[r].low <=> Alarmed(q.stack))
    BY <1>1, <1>2 DEF Remembers
  <2> HIDE DEF lost
  <2> QED
    BY <1>1, <1>2, <1>3, <1>4, <2>1 DEF Remembers
<1>6. \A s \in Session : Remembers(stack'[s], seen'[s])
  BY <1>2, <1>3, <1>5
<1>7. \A s \in Session : /\ seen[s].messages \in Nat /\ seen'[s].messages \in Nat
                         /\ seen[s].messages <= seen'[s].messages
  BY <1>2, <1>3, <1>4 DEF Remembers
<1> QED
  BY <1>3, <1>6, <1>7 DEF SessionsRemember

-----------------------------------------------------------------------------
(* The routed turn of a message to s.                                      *)
RoutedTurn(s, request) ==
  LET built == Build(registry, Tenant, Channel, request.sent, request.message)
  IN Routed(s, request, built, Decide(registry, policies, request.message, built, stack[s]))

LEMMA BeginBegins ==
  ASSUME NEW t, Begin(t)
  PROVE  \E s \in Session, request \in Request :
           seen[s].messages < MaxMessages /\ Begun(t, RoutedTurn(s, request))
<1>1. PICK s \in Session, request \in Request :
        /\ seen[s].messages < MaxMessages
        /\ \E built \in {Build(registry, Tenant, Channel, request.sent, request.message)} :
             \E decision \in {Decide(registry, policies, request.message, built, stack[s])} :
               Begun(t, Routed(s, request, built, decision))
  BY DEF Begin
<1>2. Begun(t, RoutedTurn(s, request))
  <2> DEFINE b == Build(registry, Tenant, Channel, request.sent, request.message)
             d == Decide(registry, policies, request.message, b, stack[s])
  <2>1. PICK built \in {b} :
          \E decision \in {Decide(registry, policies, request.message, built, stack[s])} :
            Begun(t, Routed(s, request, built, decision))
    BY <1>1
  <2>2. built = b
    BY <2>1
  <2> HIDE DEF b
  <2>3. \E decision \in {d} : Begun(t, Routed(s, request, b, decision))
    BY <2>1, <2>2
  <2> HIDE DEF d
  <2>4. Begun(t, Routed(s, request, b, d))
    BY <2>3
  <2> QED
    BY <2>4 DEF RoutedTurn, b, d
<1> QED
  BY <1>1, <1>2

LEMMA RoutedTurnIs ==
  ASSUME Settings, SessionsRemember, NEW s \in Session, NEW request \in Request
  PROVE  LET q == RoutedTurn(s, request) IN
         /\ Held(q) /\ Counts(q.stack, seen[s].messages + 1) /\ q.session = s
         /\ Alarmed(q.stack) <=> q.decision.confidence_band = "low"
<1>1. /\ policies \in PolicyConfig /\ stack[s] \in Seq(Frame) /\ seen[s].messages \in Nat
      /\ Counts(stack[s], seen[s].messages)
  BY DEF Settings, SessionsRemember, Remembers
<1> QED
  BY <1>1, RoutedIs DEF RoutedTurn

LEMMA BeginKeeps ==
  ASSUME IInv, NEW t \in Turn, Begin(t), provider' = provider
  PROVE  IInv'
<1>1. PICK s \in Session, request \in Request :
        seen[s].messages < MaxMessages /\ Begun(t, RoutedTurn(s, request))
  BY BeginBegins
<1> DEFINE q == RoutedTurn(s, request)
           low == q.decision.confidence_band = "low"
           m == [messages |-> seen[s].messages + 1, lost |-> FALSE, low |-> low]
<1>2. /\ Held(q) /\ Counts(q.stack, seen[s].messages + 1) /\ q.session = s
      /\ Alarmed(q.stack) <=> low
  BY RoutedTurnIs DEF IInv
<1>3. Begun(t, q)
  BY <1>1
<1> HIDE DEF q
<1>4. \A r \in Session : Remembers(stack[r], seen[r])
  BY DEF IInv, SessionsRemember
<1>5. /\ stack' = [stack EXCEPT ![s] = q.stack] /\ seen' = [seen EXCEPT ![s] = m]
      /\ turn' = [turn EXCEPT ![t] = Onward(q)]
  BY <1>2, <1>3 DEF Begun
<1>6. /\ DOMAIN m = {"messages", "low", "lost"} /\ m.messages = seen[s].messages + 1
      /\ m.lost = FALSE /\ m.low <=> low
  OBVIOUS
<1> HIDE DEF m, low
<1>7. /\ stack'[s] = q.stack /\ seen'[s] = m
      /\ \A r \in Session \ {s} : stack'[r] = stack[r] /\ seen'[r] = seen[r]
      /\ DOMAIN stack' = Session /\ DOMAIN seen' = Session
  BY <1>5 DEF IInv, SessionsRemember
<1>8. Remembers(q.stack, m)
  <2>1. seen[s].messages \in Nat /\ MaxMessages \in Nat
    BY <1>4, ChatTurnAssumption DEF Remembers
  <2>2. m.messages \in Nat /\ m.messages <= MaxMessages
    BY <1>1, <1>6, <2>1
  <2> QED
    BY <1>2, <1>6, <2>2 DEF Remembers, Held
<1>9. SessionsRemember'
  <2>1. \A r \in Session : Remembers(stack'[r], seen'[r])
    BY <1>4, <1>7, <1>8
  <2> QED
    BY <1>7, <2>1 DEF SessionsRemember
<1>10. \A r \in Session : /\ seen[r].messages \in Nat /\ seen'[r].messages \in Nat
                          /\ seen[r].messages <= seen'[r].messages
  BY <1>4, <1>6, <1>7 DEF Remembers
<1>11. TurnIs(Onward(q), seen')
  <2> DEFINE d == Onward(q)
  <2>1. d = Idle \/ (Waiting(d) /\ Kept(q, d))
    BY <1>2, OnwardIs
  <2> HIDE DEF d
  <2>2. ASSUME Waiting(d), Kept(q, d) PROVE Counts(d.stack, seen'[d.session].messages)
    <3>1. d.stack = q.stack /\ d.session = s
      BY <1>2, <2>2 DEF Kept
    <3> QED
      BY <1>2, <1>6, <1>7, <3>1
  <2>3. TurnIs(d, seen')
    BY <2>1, <2>2 DEF TurnIs
  <2> QED
    BY <2>3 DEF d
<1>12. TurnsAre'
  BY <1>5, <1>10, <1>11, TurnMoves DEF IInv
<1>13. /\ enabled' = enabled /\ policies' = policies /\ cache' = cache
  BY DEF Begin
<1>14. Settings' /\ CacheIsSound'
  BY <1>13 DEF IInv, Settings, CacheIsSound
<1> QED
  BY <1>9, <1>12, <1>14 DEF IInv

(* What leaves the sessions, the cache and the other turns alone.          *)
LEMMA OnlyTurnMoves ==
  ASSUME IInv, NEW t \in Turn, NEW d, turn' = [turn EXCEPT ![t] = d], TurnIs(d, seen),
         UNCHANGED <<provider, enabled, policies, stack, cache, seen>>
  PROVE  IInv'
<1>1. \A s \in Session : seen[s].messages \in Nat
  BY DEF IInv, SessionsRemember, Remembers
<1>2. seen' = seen
  OBVIOUS
<1>3. TurnsAre'
  <2>1. \A s \in Session : /\ seen[s].messages \in Nat /\ seen'[s].messages \in Nat
                           /\ seen[s].messages <= seen'[s].messages
    BY <1>1, <1>2
  <2>2. TurnIs(d, seen')
    BY <1>2
  <2> QED
    BY <2>1, <2>2, TurnMoves DEF IInv
<1>4. SessionsRemember' /\ CacheIsSound' /\ Settings'
  BY DEF IInv, SessionsRemember, CacheIsSound, Settings
<1> QED
  BY <1>3, <1>4 DEF IInv

(* A turn that waits is neither idle nor done.                             *)
LEMMA WaitingIs ==
  ASSUME IInv, NEW t \in Turn, turn[t].at \in {"tool", "retrieving", "generating"}
  PROVE  Waiting(turn[t]) /\ Counts(turn[t].stack, seen[turn[t].session].messages)
<1>1. TurnIs(turn[t], seen)
  BY DEF IInv, TurnsAre
<1>2. turn[t] # Idle /\ turn[t].at # "done"
  BY DEF Idle
<1> QED
  BY <1>1, <1>2 DEF TurnIs, Finished

LEMMA ToolAnswersIs ==
  ASSUME IInv, NEW t \in Turn, ToolAnswers(t)
  PROVE  \E d : /\ Waiting(d) /\ Kept(turn[t], d) /\ d.at = "generating"
                /\ turn' = [turn EXCEPT ![t] = d]
<1> DEFINE q == turn[t]
<1>1. Waiting(q)
  BY WaitingIs DEF ToolAnswers
<1>2. PICK status \in {"success", "not_found"} :
        turn' = [turn EXCEPT ![t] = ToModel([q EXCEPT !.tool_status = status])]
  BY DEF ToolAnswers, IInv, TurnsAre
<1> DEFINE m == [q EXCEPT !.tool_status = status]
           d == ToModel(m)
<1>3. Held(m) /\ Kept(q, m)
  BY <1>1, HeldWith DEF Waiting, ToolStatus, Maybe
<1>4. turn' = [turn EXCEPT ![t] = d]
  BY <1>2
<1> HIDE DEF q, m
<1>5. Waiting(d) /\ Kept(m, d) /\ d.at = "generating"
  BY <1>3, ToModelIs
<1>6. Kept(q, d)
  BY <1>3, <1>5 DEF Kept
<1> HIDE DEF d
<1> QED
  BY <1>4, <1>5, <1>6 DEF q

LEMMA ToolAnswersKeeps ==
  ASSUME IInv, NEW t \in Turn, ToolAnswers(t), provider' = provider
  PROVE  IInv'
<1> DEFINE q == turn[t]
<1>1. Waiting(q) /\ Counts(q.stack, seen[q.session].messages)
  BY WaitingIs DEF ToolAnswers
<1>2. PICK d : Waiting(d) /\ Kept(q, d) /\ turn' = [turn EXCEPT ![t] = d]
  BY ToolAnswersIs
<1>3. TurnIs(d, seen)
  BY <1>1, <1>2 DEF TurnIs, Kept
<1> QED
  BY <1>2, <1>3, OnlyTurnMoves DEF ToolAnswers

LEMMA CallRaisesKeeps ==
  ASSUME IInv, NEW t \in Turn, CallRaises(t), provider' = provider
  PROVE  IInv'
BY OnlyTurnMoves DEF CallRaises, TurnIs

LEMMA ReplyKeeps ==
  ASSUME IInv, NEW t \in Turn, Reply(t), provider' = provider
  PROVE  IInv'
BY OnlyTurnMoves DEF Reply, TurnIs

LEMMA PutPoliciesKeeps ==
  ASSUME IInv, PutPolicies, provider' = provider
  PROVE  IInv'
<1>1. CacheIsSound'
  <2>1. cache' = cache \/ cache' = <<>>
    BY DEF PutPolicies
  <2>2. DOMAIN <<>> = {}
    OBVIOUS
  <2> QED
    BY <2>1, <2>2 DEF CacheIsSound, IInv
<1>2. SessionsRemember' /\ TurnsAre' /\ Settings'
  BY DEF PutPolicies, IInv, SessionsRemember, TurnsAre, Settings
<1> QED
  BY <1>1, <1>2 DEF IInv

LEMMA SwitchPluginKeeps ==
  ASSUME IInv, NEW id \in Switched, SwitchPlugin(id), provider' = provider
  PROVE  IInv'
<1>1. id \in Ids
  BY ChatTurnAssumption DEF Ids
<1> QED
  BY <1>1 DEF SwitchPlugin, IInv, SessionsRemember, TurnsAre, Settings, CacheIsSound

LEMMA ExpireKeeps ==
  ASSUME IInv, Expire, provider' = provider
  PROVE  IInv'
<1>1. PICK k \in DOMAIN cache : cache' = [j \in DOMAIN cache \ {k} |-> cache[j]]
  BY DEF Expire
<1>2. CacheIsSound'
  BY <1>1 DEF CacheIsSound, IInv
<1> QED
  BY <1>2 DEF Expire, IInv, SessionsRemember, TurnsAre, Settings

(* A search that ends: the answer is in the cache, or the model is asked.  *)
LEMMA RetrievedIs ==
  ASSUME IInv, NEW t \in Turn, Retrieved(t)
  PROVE  \E asked :
           /\ Waiting(asked) /\ Kept(turn[t], asked) /\ asked.at = "generating"
           /\ IF asked.key \in DOMAIN cache /\ policies.response_cache_enabled
              THEN Done(t, asked, FromCache(cache[asked.key]), FALSE, <<>>)
              ELSE turn' = [turn EXCEPT ![t] = asked] /\ UNCHANGED <<stack, seen>>
<1> DEFINE q == turn[t]
<1>1. Waiting(q) /\ Counts(q.stack, seen[q.session].messages)
  BY WaitingIs DEF Retrieved
<1>2. PICK found \in Found :
        LET all == Retrieve(found, q.request.message, q.policies.knowledge_top_k)
            asked == ToModel([q EXCEPT
                                !.citations = Cited(all, q.policies.knowledge_min_score),
                                !.effective =
                                  Len(Effective(all, q.policies.knowledge_min_score))])
        IN IF asked.key \in DOMAIN cache /\ policies.response_cache_enabled
           THEN Done(t, asked, FromCache(cache[asked.key]), FALSE, <<>>)
           ELSE turn' = [turn EXCEPT ![t] = asked] /\ UNCHANGED <<stack, seen>>
  BY Zenon DEF Retrieved, FromCache
<1> DEFINE all == Retrieve(found, q.request.message, q.policies.knowledge_top_k)
           citations == Cited(all, q.policies.knowledge_min_score)
           effective == Len(Effective(all, q.policies.knowledge_min_score))
           m == [q EXCEPT !.citations = citations, !.effective = effective]
           asked == ToModel(m)
           r == cache[asked.key]
<1>3. citations \in Seq(Citation) /\ effective \in Nat
  <2>1. q.policies.knowledge_top_k \in Nat
    BY <1>1, ChatTurnAssumption DEF Waiting, Held
  <2>2. all \in Seq(Citation)
    BY <2>1, RetrieveCites
  <2> HIDE DEF all
  <2> QED
    BY <2>2, CitedIs
<1>4. IF asked.key \in DOMAIN cache /\ policies.response_cache_enabled
      THEN Done(t, asked, FromCache(r), FALSE, <<>>)
      ELSE turn' = [turn EXCEPT ![t] = asked] /\ UNCHANGED <<stack, seen>>
  BY <1>2, Zenon
<1> HIDE DEF citations, effective, q
<1>5. Held(m) /\ Kept(q, m)
  BY <1>1, <1>3, HeldWith DEF Waiting
<1> HIDE DEF m
<1>6. Waiting(asked) /\ Kept(q, asked) /\ asked.at = "generating"
  BY <1>5, ToModelIs DEF Kept
<1> HIDE DEF asked
<1> QED
  BY <1>4, <1>6 DEF q

LEMMA RetrievedKeeps ==
  ASSUME IInv, NEW t \in Turn, Retrieved(t), provider' = provider
  PROVE  IInv'
<1> DEFINE q == turn[t]
<1>1. Waiting(q) /\ Counts(q.stack, seen[q.session].messages)
  BY WaitingIs DEF Retrieved
<1>2. PICK asked :
        /\ Waiting(asked) /\ Kept(q, asked) /\ asked.at = "generating"
        /\ IF asked.key \in DOMAIN cache /\ policies.response_cache_enabled
           THEN Done(t, asked, FromCache(cache[asked.key]), FALSE, <<>>)
           ELSE turn' = [turn EXCEPT ![t] = asked] /\ UNCHANGED <<stack, seen>>
  BY RetrievedIs
<1>3. UNCHANGED <<provider, enabled, policies, cache>>
  BY DEF Retrieved
<1> HIDE DEF q
<1> DEFINE r == cache[asked.key]
<1>4. Counts(asked.stack, seen[asked.session].messages)
  BY <1>1, <1>2 DEF Kept
<1>5. CASE asked.key \in DOMAIN cache /\ policies.response_cache_enabled
  <2> DEFINE nothing == <<>>
             no == FALSE
             d == Ended(asked, FromCache(r), no, nothing)
  <2>1. Done(t, asked, FromCache(r), no, nothing)
    BY <1>2, <1>5
  <2>2. Finished(d)
    <3>1. Cached(asked.key, r) /\ asked.key # None
      BY <1>5 DEF IInv, CacheIsSound
    <3>2. /\ asked.decision.route = "knowledge" /\ ~asked.request.host_auth
          /\ asked.key.citations = ChunkNames(asked.citations) /\ Held(asked)
      BY <1>2, <3>1 DEF Waiting, Keyed
    <3> HIDE DEF r
    <3> QED
      BY <3>1, <3>2, CachedEnds
  <2> HIDE DEF nothing, no
  <2>3. /\ turn' = [turn EXCEPT ![t] = d]
        /\ stack' = [stack EXCEPT ![asked.session] = asked.stack]
        /\ seen' = [seen EXCEPT ![asked.session].lost = @ \/ asked.stack # stack[asked.session]]
    BY <2>1, DoneIs
  <2> HIDE DEF d
  <2>4. /\ SessionsRemember'
        /\ \A s \in Session : /\ seen[s].messages \in Nat /\ seen'[s].messages \in Nat
                              /\ seen[s].messages <= seen'[s].messages
    BY <1>2, <1>4, <2>3, StoredIs DEF IInv, Waiting
  <2>5. TurnsAre'
    BY <2>2, <2>3, <2>4, TurnMoves DEF IInv, TurnIs
  <2> QED
    BY <1>3, <2>4, <2>5 DEF IInv, Settings, CacheIsSound
<1>6. CASE ~(asked.key \in DOMAIN cache /\ policies.response_cache_enabled)
  <2>1. turn' = [turn EXCEPT ![t] = asked] /\ UNCHANGED <<stack, seen>>
    BY <1>2, <1>6
  <2>2. TurnIs(asked, seen)
    BY <1>2, <1>4 DEF TurnIs
  <2> QED
    BY <1>3, <2>1, <2>2, OnlyTurnMoves
<1> QED
  BY <1>5, <1>6

(* The model answers, and the turn ends.                                   *)
Deltas(answer) == IF answer.text.says = "nothing" THEN <<>> ELSE <<answer.text>>

LEMMA GeneratedIs ==
  ASSUME IInv, NEW t \in Turn, Generated(t)
  PROVE  LET q == turn[t] IN
         /\ Waiting(q) /\ q.at = "generating" /\ Counts(q.stack, seen[q.session].messages)
         /\ \E answer, e, handed :
              /\ Answered(e, q, answer, handed)
              /\ cache' = Remember(q.key, e)
              /\ Done(t, q, e, handed, Deltas(answer))
         /\ UNCHANGED <<enabled, policies>>
<1> DEFINE q == turn[t]
           gated(answer) == Gated(Responded(q, answer), q, answer)
           v(answer) == ShouldHandoff(registry, q.context, gated(answer), policies)
           e(answer) == Enhance(registry, HandedOver(gated(answer), q.context, v(answer)), q.context)
<1>1. /\ Waiting(q) /\ q.at = "generating" /\ Counts(q.stack, seen[q.session].messages)
  BY WaitingIs DEF Generated
<1>2. PICK answer \in Answers(q) :
        /\ cache' = Remember(q.key, e(answer))
        /\ Done(t, q, e(answer), v(answer).should_handoff, Deltas(answer))
  BY Zenon DEF Generated, Deltas
<1>3. IsAnswer(answer)
  BY AnswersAre
<1>4. Answered(e(answer), q, answer, v(answer).should_handoff)
  BY <1>1, <1>3, AnsweredIs DEF Waiting
<1>5. UNCHANGED <<enabled, policies>>
  BY DEF Generated
<1> HIDE DEF e, v, q
<1> QED
  BY <1>1, <1>2, <1>4, <1>5, Zenon DEF q

LEMMA GeneratedKeeps ==
  ASSUME IInv, NEW t \in Turn, Generated(t), provider' = provider
  PROVE  IInv'
<1> DEFINE q == turn[t]
<1>1. Waiting(q) /\ q.at = "generating" /\ Counts(q.stack, seen[q.session].messages)
  BY GeneratedIs
<1>2. UNCHANGED <<provider, enabled, policies>>
  BY GeneratedIs
<1>3. PICK answer, e, handed :
        /\ Answered(e, q, answer, handed)
        /\ cache' = Remember(q.key, e)
        /\ Done(t, q, e, handed, Deltas(answer))
  BY GeneratedIs
<1> HIDE DEF q
<1> DEFINE d == Ended(q, e, handed, Deltas(answer))
<1>4. Finished(d)
  BY <1>1, <1>3, GeneratedEnds DEF Waiting, Deltas
<1>5. /\ turn' = [turn EXCEPT ![t] = d]
      /\ stack' = [stack EXCEPT ![q.session] = q.stack]
      /\ seen' = [seen EXCEPT ![q.session].lost = @ \/ q.stack # stack[q.session]]
  BY <1>3, DoneIs
<1> HIDE DEF d
<1>6. /\ SessionsRemember'
      /\ \A s \in Session : /\ seen[s].messages \in Nat /\ seen'[s].messages \in Nat
                            /\ seen[s].messages <= seen'[s].messages
  BY <1>1, <1>5, StoredIs DEF IInv, Waiting
<1>7. TurnsAre'
  BY <1>4, <1>5, <1>6, TurnMoves DEF IInv, TurnIs
<1>8. CacheIsSound'
  <2>1. None \notin DOMAIN cache /\ \A k \in DOMAIN cache : Cached(k, cache[k])
    BY DEF IInv, CacheIsSound
  <2> QED
    BY <1>1, <1>3, <2>1, RememberedIs DEF CacheIsSound
<1> QED
  BY <1>2, <1>6, <1>7, <1>8 DEF IInv, Settings

-----------------------------------------------------------------------------
LEMMA InitIs == Init => IInv
<1> SUFFICES ASSUME Init PROVE IInv
  OBVIOUS
<1>1. /\ stack = [s \in Session |-> <<>>] /\ cache = <<>> /\ turn = [t \in Turn |-> Idle]
      /\ seen = [s \in Session |-> [messages |-> 0, low |-> FALSE, lost |-> FALSE]]
      /\ enabled = Ids /\ policies \in PolicyConfig /\ provider \in {"local", "remote"}
  BY DEF Init, Ids
<1>2. \A s \in Session : Remembers(stack[s], seen[s])
  <2> SUFFICES ASSUME NEW s \in Session PROVE Remembers(stack[s], seen[s])
    OBVIOUS
  <2>1. stack[s] = <<>> /\ seen[s] = [messages |-> 0, low |-> FALSE, lost |-> FALSE]
    BY <1>1
  <2>2. <<>> \in Seq(Frame) /\ Len(<<>>) = 0 /\ DOMAIN <<>> = {} /\ 0 <= MaxMessages
    BY ChatTurnAssumption
  <2> QED
    BY <2>1, <2>2 DEF Remembers, Counts, Alarmed
<1>3. CacheIsSound
  <2>1. DOMAIN <<>> = {}
    OBVIOUS
  <2> QED
    BY <1>1, <2>1 DEF CacheIsSound
<1>4. TurnsAre
  BY <1>1 DEF TurnsAre, TurnIs
<1> QED
  BY <1>1, <1>2, <1>3, <1>4 DEF IInv, Settings, SessionsRemember

LEMMA NextKeeps == IInv /\ [Next]_vars => IInv'
<1> SUFFICES ASSUME IInv, [Next]_vars PROVE IInv'
  OBVIOUS
<1>1. CASE UNCHANGED vars
  BY <1>1 DEF vars, IInv, Settings, SessionsRemember, CacheIsSound, TurnsAre
<1>2. CASE Next
  <2>1. provider' = provider
    BY <1>2 DEF Next
  <2>2. CASE \E t \in Turn : \/ Begin(t) \/ ToolAnswers(t) \/ Retrieved(t) \/ Generated(t)
                             \/ CallRaises(t) \/ Reply(t)
    BY <2>1, <2>2, BeginKeeps, ToolAnswersKeeps, RetrievedKeeps, GeneratedKeeps, CallRaisesKeeps,
       ReplyKeeps
  <2>3. CASE PutPolicies
    BY <2>1, <2>3, PutPoliciesKeeps
  <2>4. CASE \E id \in Switched : SwitchPlugin(id)
    BY <2>1, <2>4, SwitchPluginKeeps
  <2>5. CASE Expire
    BY <2>1, <2>5, ExpireKeeps
  <2> QED
    BY <1>2, <2>2, <2>3, <2>4, <2>5 DEF Next
<1> QED
  BY <1>1, <1>2

LEMMA InvariantHolds == Spec => []IInv
BY InitIs, NextKeeps, PTL DEF Spec

(* What TypeOK says of the policies, the stacks, the cache and the turns:  *)
(* a stack is no deeper than the schema of the policies lets it be, and    *)
(* no count in it exceeds the messages of its session.                     *)
THEOREM TypeCorrect == Spec => []TypeOK
<1>1. IInv => TypeOK
  <2> SUFFICES ASSUME IInv PROVE TypeOK
    OBVIOUS
  <2>1. /\ provider \in {"local", "remote"} /\ policies \in PolicyConfig
        /\ enabled \subseteq {BuiltinPlugins[i].plugin_id : i \in DOMAIN BuiltinPlugins}
    BY DEF IInv, Settings, Ids
  <2>2. ASSUME NEW s \in Session
        PROVE  /\ stack[s] \in Seq(Frame) /\ Len(stack[s]) <= 20
               /\ \A i \in DOMAIN stack[s] : stack[s][i].low_confidence_count <= MaxMessages
               /\ seen[s].messages \in 0 .. MaxMessages
    <3>1. Remembers(stack[s], seen[s])
      BY DEF IInv, SessionsRemember
    <3>2. seen[s].messages \in Nat /\ MaxMessages \in Nat /\ seen[s].messages <= MaxMessages
      BY <3>1, ChatTurnAssumption DEF Remembers
    <3>3. Counts(stack[s], MaxMessages)
      BY <3>1, <3>2, CountsGrow DEF Remembers
    <3> QED
      BY <3>1, <3>2, <3>3 DEF Remembers, Counts
  <2>3. \A k \in DOMAIN cache : cache[k] \in Response
    BY DEF IInv, CacheIsSound, Cached
  <2>4. ASSUME NEW t \in Turn
        PROVE  /\ turn[t].at \in {"idle", "tool", "retrieving", "generating", "done"}
               /\ turn[t].at = "done" => turn[t].response \in Response
    <3>1. TurnIs(turn[t], seen)
      BY DEF IInv, TurnsAre
    <3> QED
      BY <3>1 DEF TurnIs, Idle, Waiting, Finished
  <2> QED
    BY <2>1, <2>2, <2>3, <2>4 DEF TypeOK
<1> QED
  BY <1>1, InvariantHolds, PTL

(* A turn that is done has ended as Finished says.                         *)
LEMMA DoneTurns ==
  ASSUME IInv, NEW t \in {u \in Turn : turn[u].at = "done"}
  PROVE  Grounded(turn[t]) /\ Delivered(turn[t])
<1>1. TurnIs(turn[t], seen) /\ turn[t].at = "done"
  BY DEF IInv, TurnsAre
<1>2. turn[t] # Idle
  BY <1>1 DEF Idle
<1> QED
  BY <1>1, <1>2 DEF TurnIs, Waiting, Finished

(* Every reply is grounded, one from the cache as well: process_message,   *)
(* get_cached_response and the hallucination check.                        *)
THEOREM RepliesStayGrounded == Spec => []RepliesAreGrounded
<1>1. IInv => RepliesAreGrounded
  <2> SUFFICES ASSUME IInv PROVE RepliesAreGrounded
    OBVIOUS
  <2>1. \A t \in {u \in Turn : turn[u].at = "done"} : Grounded(turn[t])
    BY DoneTurns
  <2> QED
    BY <2>1, Zenon DEF RepliesAreGrounded, Grounded
<1> QED
  BY <1>1, InvariantHolds, PTL

(* What is sent is the final answer, masked and with its titles once, by   *)
(* a stream or not: process_message_stream and ResponseEnhancer.           *)
THEOREM FinalIsDelivered == Spec => []DeliveredIsFinal
<1>1. IInv => DeliveredIsFinal
  <2> SUFFICES ASSUME IInv PROVE DeliveredIsFinal
    OBVIOUS
  <2>1. \A t \in {u \in Turn : turn[u].at = "done"} : Delivered(turn[t])
    BY DoneTurns
  <2> QED
    BY <2>1, Zenon DEF DeliveredIsFinal, Delivered
<1> QED
  BY <1>1, InvariantHolds, PTL

-----------------------------------------------------------------------------
(* A step moves one turn.                                                  *)
Acts(t) ==
  Begin(t) \/ ToolAnswers(t) \/ Retrieved(t) \/ Generated(t) \/ CallRaises(t) \/ Reply(t)

LEMMA ActsOn ==
  ASSUME IInv, NEW t \in Turn, Acts(t)
  PROVE  \E d : turn' = [turn EXCEPT ![t] = d]
<1>1. CASE Begin(t)
  BY <1>1, BeginBegins DEF Begun
<1>2. CASE ToolAnswers(t)
  BY <1>2, ToolAnswersIs
<1>3. CASE Retrieved(t)
  <2>1. PICK asked :
          \/ Done(t, asked, FromCache(cache[asked.key]), FALSE, <<>>)
          \/ turn' = [turn EXCEPT ![t] = asked]
    BY <1>3, RetrievedIs
  <2> QED
    BY <2>1 DEF Done
<1>4. CASE Generated(t)
  <2>1. PICK q, answer, e, handed : Done(t, q, e, handed, Deltas(answer))
    BY <1>4, GeneratedIs
  <2> QED
    BY <2>1 DEF Done
<1>5. CASE CallRaises(t) \/ Reply(t)
  BY <1>5 DEF CallRaises, Reply
<1> QED
  BY <1>1, <1>2, <1>3, <1>4, <1>5 DEF Acts

LEMMA Mover ==
  ASSUME IInv, [Next]_vars, NEW t \in Turn, turn'[t] # turn[t]
  PROVE  Acts(t)
<1>1. turn' # turn
  OBVIOUS
<1>2. PICK u \in Turn : Acts(u)
  BY <1>1 DEF Next, vars, Acts, PutPolicies, SwitchPlugin, Expire
<1>3. PICK d : turn' = [turn EXCEPT ![u] = d]
  BY <1>2, ActsOn
<1>4. u = t
  BY <1>3 DEF IInv, TurnsAre
<1> QED
  BY <1>2, <1>4

(* Repeated low confidence is escalated exactly as promised:               *)
(* record_route_decision and _apply_confidence_strategy agree on the count *)
(* in the top frame, whatever policies, plugins and other turns do.        *)
THEOREM LowConfidenceIsEscalated == Spec => LowConfidenceEscalates
<1> DEFINE A == \A t \in Turn :
                  turn[t] = Idle /\ turn'[t] # Idle =>
                    LET q == turn'[t]
                        before == seen[q.session]
                        signals == q.context.behavior_signals
                        low == q.decision.confidence_band = "low"
                    IN /\ low /\ before.low /\ ~before.lost => q.decision.route = "handoff"
                       /\ low /\ q.decision.route = "handoff" =>
                            \/ before.low \/ before.lost
                            \/ q.decision.confidence < policies.route_handoff_confidence_threshold
                            \/ signals.frustrated \/ signals.repeat_contact_7d >= 2
<1>1. IInv /\ [Next]_vars => A
  <2> SUFFICES ASSUME IInv, [Next]_vars, NEW t \in Turn, turn[t] = Idle, turn'[t] # Idle
               PROVE  LET q == turn'[t]
                          before == seen[q.session]
                          signals == q.context.behavior_signals
                          low == q.decision.confidence_band = "low"
                      IN /\ low /\ before.low /\ ~before.lost => q.decision.route = "handoff"
                         /\ low /\ q.decision.route = "handoff" =>
                              \/ before.low \/ before.lost
                              \/ q.decision.confidence < policies.route_handoff_confidence_threshold
                              \/ signals.frustrated \/ signals.repeat_contact_7d >= 2
    OBVIOUS
  <2>1. Begin(t)
    <3>1. Acts(t)
      BY Mover
    <3> QED
      BY <3>1 DEF Acts, ToolAnswers, Retrieved, Generated, CallRaises, Reply, Idle
  <2>2. PICK s \in Session, request \in Request : Begun(t, RoutedTurn(s, request))
    BY <2>1, BeginBegins
  <2> DEFINE q == RoutedTurn(s, request)
             built == Build(registry, Tenant, Channel, request.sent, request.message)
             d == Decide(registry, policies, request.message, built, stack[s])
             b == built.behavior_signals
             n == seen[s].messages
  <2>3. Remembers(stack[s], seen[s]) /\ policies \in PolicyConfig
    BY DEF IInv, SessionsRemember, Settings
  <2>4. stack[s] \in Seq(Frame) /\ n \in Nat /\ Counts(stack[s], n)
    BY <2>3 DEF Remembers
  <2>5. /\ Held(q) /\ q.session = s /\ q.decision = d /\ q.context.behavior_signals = b
    <3> HIDE DEF n
    <3> QED
      BY <2>3, <2>4, RoutedIs DEF RoutedTurn
  <2>6. HasPage(built)
    BY BuiltIs, ChatTurnAssumption
  <2>7. turn'[t] = Onward(q)
    BY <2>2 DEF Begun, IInv, TurnsAre
  <2> HIDE DEF q, built
  <2>8. /\ d.confidence_band = "low" /\ ShouldEscalate(built, stack[s]) => d.route = "handoff"
        /\ d.confidence_band = "low" /\ d.route = "handoff" =>
             \/ ShouldEscalate(built, stack[s])
             \/ d.confidence < policies.route_handoff_confidence_threshold
    BY <2>4, <2>6, DecideIs
  <2> HIDE DEF d
  <2>9. ShouldEscalate(built, stack[s]) <=>
          b.frustrated \/ b.repeat_contact_7d >= 2 \/ Alarmed(stack[s])
    BY <2>4, EscalationIs
  <2>10. ~seen[s].lost => (seen[s].low <=> Alarmed(stack[s]))
    BY <2>3 DEF Remembers
  <2> HIDE DEF b
  <2>11. Kept(q, turn'[t])
    BY <2>5, <2>7, OnwardIs
  <2>12. /\ turn'[t].session = s /\ turn'[t].decision = d
         /\ turn'[t].context.behavior_signals = b
    BY <2>5, <2>11 DEF Kept
  <2> QED
    BY <2>8, <2>9, <2>10, <2>12
<1>2. Spec => [][A]_vars
  BY <1>1, InvariantHolds, PTL DEF Spec
<1> QED
  BY <1>2 DEF LowConfidenceEscalates

-----------------------------------------------------------------------------
(* What a risk relies on: the plugin that sees it is not switched off, and *)
(* no policy sets the threshold of the fallback, which the schema lets be  *)
(* as high as one, above what a tool with its page and objects reaches.    *)
RiskIsWatched ==
  /\ RiskRoute.plugin_id \notin Switched
  /\ \A p \in PolicyConfig : /\ p.route_fallback_confidence_threshold \in Int
                             /\ p.route_fallback_confidence_threshold <= 99

(* What keeps a risk from being outdone: no frame, stored or held by a     *)
(* turn, is of a question or a fallback as sure as 0.99, so none that a    *)
(* later message returns to is; and a turn with a risk is urgent.          *)
Wary(d) ==
  d.at \in {"tool", "retrieving", "generating"} =>
    /\ HumbleStack(d.stack)
    /\ d.request.message.risk => Urgent(d.decision)

RiskInv ==
  /\ RiskRoute.plugin_id \in enabled
  /\ \A s \in Session : HumbleStack(stack[s])
  /\ \A t \in Turn : Wary(turn[t])

LEMMA RiskInit == Init => RiskInv
<1> SUFFICES ASSUME Init PROVE RiskInv
  OBVIOUS
<1>1. /\ stack = [s \in Session |-> <<>>] /\ turn = [t \in Turn |-> Idle] /\ enabled = Ids
  BY DEF Init, Ids
<1>2. RiskRoute.plugin_id \in Ids
  BY Builtins DEF Has, Ids
<1>3. \A s \in Session : HumbleStack(stack[s])
  <2>1. DOMAIN <<>> = {}
    OBVIOUS
  <2> QED
    BY <1>1, <2>1 DEF HumbleStack
<1>4. Wary(Idle)
  BY DEF Wary, Idle
<1> QED
  BY <1>1, <1>2, <1>3, <1>4 DEF RiskInv

(* One turn moves to d, and what is stored is humble.                      *)
LEMMA RiskMoves ==
  ASSUME IInv, RiskInv, NEW t \in Turn, NEW d, turn' = [turn EXCEPT ![t] = d], Wary(d),
         enabled' = enabled, \A s \in Session : HumbleStack(stack'[s])
  PROVE  RiskInv'
<1>1. \A u \in Turn : Wary(turn'[u])
  BY DEF IInv, TurnsAre, RiskInv
<1> QED
  BY <1>1 DEF RiskInv

LEMMA RiskStored ==
  ASSUME IInv, RiskInv, NEW r \in Session, NEW frames, HumbleStack(frames),
         stack' = [stack EXCEPT ![r] = frames]
  PROVE  \A s \in Session : HumbleStack(stack'[s])
BY DEF IInv, SessionsRemember, RiskInv

LEMMA BeginIsWary ==
  ASSUME RiskIsWatched, IInv, RiskInv, NEW t \in Turn, Begin(t)
  PROVE  RiskInv'
<1>1. PICK s \in Session, request \in Request : Begun(t, RoutedTurn(s, request))
  BY BeginBegins
<1> DEFINE q == RoutedTurn(s, request)
           built == Build(registry, Tenant, Channel, request.sent, request.message)
           d == Decide(registry, policies, request.message, built, stack[s])
           n == seen[s].messages
<1>2. Remembers(stack[s], seen[s]) /\ policies \in PolicyConfig
  BY DEF IInv, SessionsRemember, Settings
<1>3. stack[s] \in Seq(Frame) /\ n \in Nat /\ Counts(stack[s], n) /\ HumbleStack(stack[s])
  BY <1>2 DEF Remembers, RiskInv
<1>4. /\ Held(q) /\ q.session = s /\ q.request = request /\ q.decision = d
      /\ HumbleStack(stack[s]) /\ Humble(d) => HumbleStack(q.stack)
  <2> HIDE DEF n
  <2> QED
    BY <1>2, <1>3, RoutedIs DEF RoutedTurn
<1>5. HasPage(built)
  BY BuiltIs, ChatTurnAssumption
<1>6. IsEnabled(registry, RiskRoute)
  BY DEF RiskInv, IsEnabled, registry
<1>7. /\ turn' = [turn EXCEPT ![t] = Onward(q)] /\ stack' = [stack EXCEPT ![q.session] = q.stack]
      /\ enabled' = enabled
  BY <1>1 DEF Begun, Begin
<1> HIDE DEF q, built
<1>8. Humble(d) /\ (request.message.risk => Urgent(d))
  <2>1. /\ policies.route_fallback_confidence_threshold \in Int
        /\ policies.route_fallback_confidence_threshold <= 99
    BY <1>2 DEF RiskIsWatched
  <2> QED
    BY <1>3, <1>5, <1>6, <2>1, DecideIs
<1> HIDE DEF d
<1>9. HumbleStack(q.stack)
  BY <1>3, <1>4, <1>8
<1>10. Wary(Onward(q))
  <2> DEFINE m == Onward(q)
  <2>1. m = Idle \/ Kept(q, m)
    BY <1>4, OnwardIs
  <2> HIDE DEF m
  <2>2. Wary(m)
    BY <1>4, <1>8, <1>9, <2>1 DEF Wary, Idle, Kept
  <2> QED
    BY <2>2 DEF m
<1>11. \A r \in Session : HumbleStack(stack'[r])
  BY <1>4, <1>7, <1>9, RiskStored
<1> QED
  BY <1>7, <1>10, <1>11, RiskMoves

(* A turn that goes on is as wary as it was.                               *)
LEMMA StaysWary ==
  ASSUME NEW q, Wary(q), q.at \in {"tool", "retrieving", "generating"}, NEW d, Kept(q, d)
  PROVE  Wary(d) /\ HumbleStack(q.stack)
BY DEF Wary, Kept

LEMMA ToolAnswersIsWary ==
  ASSUME IInv, RiskInv, NEW t \in Turn, ToolAnswers(t)
  PROVE  RiskInv'
<1>1. PICK d : Kept(turn[t], d) /\ turn' = [turn EXCEPT ![t] = d]
  BY ToolAnswersIs
<1>2. Wary(d)
  BY <1>1, StaysWary DEF ToolAnswers, RiskInv
<1>3. enabled' = enabled /\ stack' = stack
  BY DEF ToolAnswers
<1> QED
  BY <1>1, <1>2, <1>3, RiskMoves DEF RiskInv

LEMMA RetrievedIsWary ==
  ASSUME IInv, RiskInv, NEW t \in Turn, Retrieved(t)
  PROVE  RiskInv'
<1> DEFINE q == turn[t]
<1>1. PICK asked :
        /\ Waiting(asked) /\ Kept(q, asked)
        /\ IF asked.key \in DOMAIN cache /\ policies.response_cache_enabled
           THEN Done(t, asked, FromCache(cache[asked.key]), FALSE, <<>>)
           ELSE turn' = [turn EXCEPT ![t] = asked] /\ UNCHANGED <<stack, seen>>
  BY RetrievedIs
<1>2. Wary(asked) /\ HumbleStack(asked.stack)
  BY <1>1, StaysWary DEF Retrieved, RiskInv, Kept
<1>3. enabled' = enabled
  BY DEF Retrieved
<1> DEFINE nothing == <<>>
           no == FALSE
           r == FromCache(cache[asked.key])
<1>4. CASE Done(t, asked, r, no, nothing)
  <2> HIDE DEF nothing, no, r
  <2> DEFINE d == Ended(asked, r, no, nothing)
  <2>1. /\ turn' = [turn EXCEPT ![t] = d]
        /\ stack' = [stack EXCEPT ![asked.session] = asked.stack]
        /\ seen' = [seen EXCEPT ![asked.session].lost = @ \/ asked.stack # stack[asked.session]]
    BY <1>4, DoneIs
  <2>2. d.at = "done"
    BY EndedIs
  <2> HIDE DEF d
  <2>3. Wary(d)
    BY <2>2 DEF Wary
  <2>4. \A s \in Session : HumbleStack(stack'[s])
    BY <1>1, <1>2, <2>1, RiskStored DEF Waiting, Held
  <2> QED
    BY <1>3, <2>1, <2>3, <2>4, RiskMoves
<1>5. CASE turn' = [turn EXCEPT ![t] = asked] /\ stack' = stack
  BY <1>2, <1>3, <1>5, RiskMoves DEF RiskInv
<1> QED
  BY <1>1, <1>4, <1>5

LEMMA GeneratedIsWary ==
  ASSUME IInv, RiskInv, NEW t \in Turn, Generated(t)
  PROVE  RiskInv'
<1> DEFINE q == turn[t]
<1>1. Waiting(q) /\ q.at = "generating" /\ enabled' = enabled
  BY GeneratedIs
<1>2. PICK answer, e, handed : Done(t, q, e, handed, Deltas(answer))
  BY GeneratedIs
<1>3. HumbleStack(q.stack)
  BY <1>1 DEF RiskInv, Wary
<1> HIDE DEF q
<1> DEFINE d == Ended(q, e, handed, Deltas(answer))
<1>4. /\ turn' = [turn EXCEPT ![t] = d]
      /\ stack' = [stack EXCEPT ![q.session] = q.stack]
      /\ seen' = [seen EXCEPT ![q.session].lost = @ \/ q.stack # stack[q.session]]
  BY <1>2, DoneIs
<1>5. d.at = "done"
  BY EndedIs
<1> HIDE DEF d
<1>6. Wary(d)
  BY <1>5 DEF Wary
<1>7. \A s \in Session : HumbleStack(stack'[s])
  BY <1>1, <1>3, <1>4, RiskStored DEF Waiting, Held
<1> QED
  BY <1>1, <1>4, <1>6, <1>7, RiskMoves

LEMMA RiskKept ==
  ASSUME RiskIsWatched, IInv, RiskInv, [Next]_vars
  PROVE  RiskInv'
<1>1. ASSUME NEW t \in Turn, CallRaises(t) \/ Reply(t) PROVE RiskInv'
  <2>1. turn' = [turn EXCEPT ![t] = Idle] /\ enabled' = enabled /\ stack' = stack
    BY <1>1 DEF CallRaises, Reply
  <2>2. Wary(Idle)
    BY DEF Wary, Idle
  <2> QED
    BY <2>1, <2>2, RiskMoves DEF RiskInv
<1>2. ASSUME turn' = turn, stack' = stack, RiskRoute.plugin_id \in enabled' PROVE RiskInv'
  BY <1>2 DEF RiskInv
<1>3. ASSUME NEW id \in Switched, SwitchPlugin(id) PROVE RiskInv'
  <2>1. RiskRoute.plugin_id \in enabled'
    BY <1>3 DEF SwitchPlugin, RiskIsWatched, RiskInv
  <2> QED
    BY <1>2, <1>3, <2>1 DEF SwitchPlugin
<1>4. CASE PutPolicies \/ Expire \/ UNCHANGED vars
  BY <1>2, <1>4 DEF PutPolicies, Expire, vars, RiskInv
<1> QED
  BY <1>1, <1>3, <1>4, BeginIsWary, ToolAnswersIsWary, RetrievedIsWary, GeneratedIsWary DEF Next

(* The turn of a risk ends with a human in the queue, who is announced, or *)
(* a tool is as sure as can be: _match of the risk plugin, the choice of   *)
(* the best candidate and RouteDecisionHandoffPlugin agree.                *)
THEOREM RiskReachesAHuman ==
  ASSUME RiskIsWatched
  PROVE  Spec => RiskIsHandedOver
<1> DEFINE A == \A t \in Turn :
                  /\ turn[t].at = "generating" /\ turn'[t].at = "done"
                  /\ turn[t].request.message.risk
                  /\ IsEnabled(registry, RouteDecisionHandoff)
                  => \/ turn'[t].enqueued /\ turn'[t].response.answer.says = "handover"
                     \/ turn[t].decision.route = "business" /\ turn[t].decision.confidence = 99
<1>1. IInv /\ RiskInv /\ [Next]_vars => A
  <2> SUFFICES ASSUME IInv, RiskInv, [Next]_vars, NEW t \in Turn,
                      turn[t].at = "generating", turn'[t].at = "done",
                      turn[t].request.message.risk, IsEnabled(registry, RouteDecisionHandoff),
                      turn[t].decision.route \in {"handoff", "risk"}
               PROVE  turn'[t].enqueued /\ turn'[t].response.answer.says = "handover"
    BY DEF RiskInv, Wary, Urgent
  <2> DEFINE q == turn[t]
  <2>1. Generated(t)
    <3>1. Acts(t)
      BY Mover
    <3>2. ~(CallRaises(t) \/ Reply(t))
      BY DEF CallRaises, Reply, Idle, IInv, TurnsAre
    <3> QED
      BY <3>1, <3>2 DEF Acts, Begin, ToolAnswers, Retrieved, Idle
  <2>2. PICK answer, e, handed :
          Answered(e, q, answer, handed) /\ Done(t, q, e, handed, Deltas(answer))
    BY <2>1, GeneratedIs
  <2> HIDE DEF q
  <2>3. handed = TRUE /\ e.answer.says = "handover" /\ e \in Response
    BY <2>2 DEF Answered, q
  <2> DEFINE d == Ended(q, e, handed, Deltas(answer))
  <2>4. /\ turn' = [turn EXCEPT ![t] = d]
        /\ stack' = [stack EXCEPT ![q.session] = q.stack]
        /\ seen' = [seen EXCEPT ![q.session].lost = @ \/ q.stack # stack[q.session]]
    BY <2>2, DoneIs
  <2>5. d.enqueued = handed /\ d.response = Final(q, e)
    BY EndedIs
  <2> HIDE DEF d
  <2>6. Final(q, e).answer = e.answer
    BY <2>3, FinalIs DEF SameReply
  <2>7. turn'[t] = d
    BY <2>4 DEF IInv, TurnsAre
  <2> QED
    BY <2>3, <2>5, <2>6, <2>7
<1>2. RiskInv /\ IInv /\ [Next]_vars => RiskInv'
  BY RiskKept
<1>3. Spec => [][A]_vars
  BY <1>1, <1>2, RiskInit, InvariantHolds, PTL DEF Spec
<1> QED
  BY <1>3 DEF RiskIsHandedOver
=============================================================================
