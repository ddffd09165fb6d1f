------------------------------ MODULE DataLemmas ------------------------------
(***************************************************************************)
(* Facts about data that the proofs about several components rest on:      *)
(* induction over the naturals for a set of them, recursive functions over *)
(* a prefix of the naturals, and sums over finite sets.  The induction     *)
(* theorems of the library take operators as parameters; these take sets,  *)
(* and follow from the well-foundedness of < on the naturals.              *)
(***************************************************************************)
EXTENDS FiniteSetsExt, FiniteSetTheorems, WellFoundedInduction, TLAPS

(***************************************************************************)
(* Natural numbers and recursion                                           *)
(***************************************************************************)

\* "Less than" on the naturals.
Below == {r \in Nat \X Nat : r[1] < r[2]}

LEMMA BelowWellFounded == IsWellFoundedOn(Below, Nat)
  BY NatLessThanWellFounded DEF OpToRel, Below

\* Induction over the naturals, for a set of them.
LEMMA NatSet ==
  ASSUME NEW G, 0 \in G, \A n \in Nat : n \in G => n + 1 \in G
  PROVE  Nat \subseteq G
<1> DEFINE B == {n \in Nat : n \notin G}
<1> SUFFICES ASSUME B # {} PROVE FALSE
  OBVIOUS
<1>1. PICK n \in B : \A m \in B : ~(<<m, n>> \in Below)
  <2>1. B \subseteq Nat /\ IsWellFoundedOn(Below, Nat)
    BY BelowWellFounded
  <2> HIDE DEF B
  <2> QED
    BY <2>1, WFMin
<1>2. n \in Nat /\ n \notin G /\ n # 0
  OBVIOUS
<1>3. n - 1 \in Nat /\ (n - 1) + 1 = n /\ n - 1 < n
  BY <1>2
<1>4. n - 1 \in B
  BY <1>2, <1>3
<1>5. <<n - 1, n>> \in Below
  BY <1>2, <1>3 DEF Below
<1> QED
  BY <1>1, <1>4, <1>5

\* A set of naturals that is bounded has a greatest element.
LEMMA Greatest ==
  ASSUME NEW n \in Nat, NEW S, S \subseteq 0..n, S # {}
  PROVE  \E m \in S : \A l \in S : l <= m
<1> DEFINE B == {b \in Nat : \A l \in S : l <= b}
<1>1. n \in B /\ B \subseteq Nat
  OBVIOUS
<1>2. PICK b \in B : \A a \in B : ~(<<a, b>> \in Below)
  <2> HIDE DEF B
  <2> QED
    BY <1>1, BelowWellFounded, WFMin
<1>3. b \in Nat /\ \A l \in S : l \in Nat /\ l <= b
  BY <1>2
<1>4. ASSUME b \notin S PROVE FALSE
  <2>1. PICK l : l \in S
    OBVIOUS
  <2>2. b # 0 /\ \A k \in S : k <= b - 1
    BY <1>3, <1>4, <2>1
  <2>3. b - 1 \in B /\ b - 1 < b
    BY <1>3, <2>2
  <2>4. <<b - 1, b>> \in Below
    BY <1>3, <2>3 DEF Below
  <2> QED
    BY <1>2, <2>3, <2>4
<1> QED
  BY <1>3, <1>4

\* And one that has any element has a smallest.
LEMMA Smallest ==
  ASSUME NEW S, S \subseteq Nat, S # {}
  PROVE  \E m \in S : \A l \in S : m <= l
<1>1. PICK m \in S : \A a \in S : ~(<<a, m>> \in Below)
  BY BelowWellFounded, WFMin
<1>2. ASSUME NEW l \in S PROVE m <= l
  <2>1. l \in Nat /\ m \in Nat
    OBVIOUS
  <2>2. l < m => <<l, m>> \in Below
    BY <2>1 DEF Below
  <2> QED
    BY <1>1, <2>1, <2>2
<1> QED
  BY <1>2

\* f is what the recursion says.
Unwinds(f, n, D, base, G) ==
  /\ f \in [0..n -> D]
  /\ f[0] = base
  /\ \A i \in 1..n : f[i] = G[i][f[i - 1]]

\* A function over 0..n that starts with base and goes on by G exists.  What is
\* defined by such a recursion is therefore what the recursion says.
LEMMA Recursion ==
  ASSUME NEW n \in Nat, NEW D, NEW base \in D,
         NEW G \in [1..n -> [D -> D]]
  PROVE  \E f : Unwinds(f, n, D, base, G)
<1> DEFINE Right(f, k) == \A i \in 1..n : i <= k => f[i] = G[i][f[i - 1]]
           K == {k \in Nat : \E f \in [0..n -> D] : f[0] = base /\ Right(f, k)}
<1>1. 0 \in K
  <2> DEFINE f == [i \in 0..n |-> base]
  <2>1. f \in [0..n -> D] /\ f[0] = base /\ Right(f, 0)
    OBVIOUS
  <2> HIDE DEF f
  <2> QED
    BY <2>1
<1>2. ASSUME NEW k \in Nat, k \in K PROVE k + 1 \in K
  <2>1. PICK f \in [0..n -> D] : f[0] = base /\ Right(f, k)
    BY <1>2
  <2>2. CASE k + 1 \in 1..n
    <3> DEFINE e == G[k + 1][f[k]]
               g == [f EXCEPT ![k + 1] = e]
    <3>1. f[k] \in D /\ e \in D
      BY <2>2
    <3> HIDE DEF e
    <3>2. /\ g \in [0..n -> D] /\ g[k + 1] = e
          /\ \A i \in 0..n : i # k + 1 => g[i] = f[i]
      BY <2>2, <3>1
    <3> HIDE DEF g
    <3>3. g[0] = base
      BY <2>1, <3>2
    <3>4. ASSUME NEW i \in 1..n, i <= k + 1 PROVE g[i] = G[i][g[i - 1]]
      <4>1. i - 1 \in 0..n /\ i - 1 # k + 1 /\ i \in 0..n
        BY <3>4
      <4>2. g[i - 1] = f[i - 1]
        BY <3>2, <4>1
      <4>3. CASE i = k + 1
        BY <3>2, <4>2, <4>3 DEF e
      <4>4. CASE i # k + 1
        BY <2>1, <3>2, <3>4, <4>1, <4>2, <4>4
      <4> QED
        BY <4>3, <4>4
    <3> QED
      BY <3>2, <3>3, <3>4
  <2>3. CASE k + 1 \notin 1..n
    <3>1. Right(f, k + 1)
      BY <2>1, <2>3
    <3> QED
      BY <2>1, <3>1
  <2> QED
    BY <2>2, <2>3
<1>3. Nat \subseteq K
  <2> HIDE DEF K
  <2> QED
    BY <1>1, <1>2, NatSet
<1>4. PICK f \in [0..n -> D] : f[0] = base /\ Right(f, n)
  BY <1>3
<1> QED
  BY <1>4 DEF Unwinds

-----------------------------------------------------------------------------
(***************************************************************************)
(* Sums over finite sets                                                   *)
(***************************************************************************)

\* How the sum over s goes on, given the sums over smaller sets.
NextSum(f, h, s) ==
  IF s = {} THEN 0
  ELSE f[CHOOSE x \in s : TRUE] + h[s \ {CHOOSE x \in s : TRUE}]

\* h is the table of the sums of f over the subsets of S.
Tabulates(h, f, S) == h = [s \in SUBSET S |-> NextSum(f, h, s)]

LEMMA SumIsChosen ==
  ASSUME NEW f, NEW S
  PROVE  SumFunctionOnSet(f, S) = (CHOOSE h : Tabulates(h, f, S))[S]
  BY DEF SumFunctionOnSet, FoldFunctionOnSet, MapThenFoldSet, Tabulates, NextSum

\* h is right about the subsets of S with at most n elements.
RightUpTo(h, f, S, n) ==
  \A s \in SUBSET S : Cardinality(s) <= n => h[s] = NextSum(f, h, s)

\* Taking away the element that goes first leaves one less.
LEMMA FirstTaken ==
  ASSUME NEW S, IsFiniteSet(S), NEW s \in SUBSET S, s # {}
  PROVE  LET x == CHOOSE y \in s : TRUE IN
         /\ x \in s /\ s \ {x} \in SUBSET S /\ x \notin s \ {x}
         /\ IsFiniteSet(s) /\ Cardinality(s) \in Nat
         /\ Cardinality(s) # 0
         /\ Cardinality(s \ {x}) = Cardinality(s) - 1
<1>1. IsFiniteSet(s)
  BY FS_Subset
<1>2. (CHOOSE y \in s : TRUE) \in s
  OBVIOUS
<1> QED
  BY <1>1, <1>2, FS_RemoveElement, FS_EmptySet, FS_CardinalityType

LEMMA RightExists ==
  ASSUME NEW f, NEW S, IsFiniteSet(S)
  PROVE  \A n \in Nat : \E h : DOMAIN h = SUBSET S /\ h = [s \in SUBSET S |-> h[s]]
                               /\ RightUpTo(h, f, S, n)
<1> DEFINE First(s) == CHOOSE y \in s : TRUE
           G == {n \in Nat : \E h : h = [s \in SUBSET S |-> h[s]] /\ RightUpTo(h, f, S, n)}
<1>1. 0 \in G
  <2> DEFINE h == [s \in SUBSET S |-> 0]
  <2>1. \A s \in SUBSET S : Cardinality(s) <= 0 => s = {}
    BY FS_Subset, FS_EmptySet, FS_CardinalityType
  <2>2. RightUpTo(h, f, S, 0) /\ h = [s \in SUBSET S |-> h[s]]
    BY <2>1 DEF RightUpTo, NextSum
  <2> QED
    BY <2>2
<1>2. ASSUME NEW n \in Nat, n \in G PROVE n + 1 \in G
  <2>1. PICK h : h = [s \in SUBSET S |-> h[s]] /\ RightUpTo(h, f, S, n)
    BY <1>2
  <2> DEFINE g == [s \in SUBSET S |-> NextSum(f, h, s)]
  <2>2. ASSUME NEW s \in SUBSET S, Cardinality(s) <= n PROVE g[s] = h[s]
    BY <2>1, <2>2 DEF RightUpTo
  <2>3. ASSUME NEW s \in SUBSET S, Cardinality(s) <= n + 1
        PROVE  g[s] = NextSum(f, g, s)
    <3>1. CASE s = {}
      BY <3>1 DEF NextSum
    <3>2. CASE s # {}
      <4>1. /\ s \ {First(s)} \in SUBSET S
            /\ Cardinality(s \ {First(s)}) = Cardinality(s) - 1 /\ Cardinality(s) \in Nat
        BY <3>2, FirstTaken
      <4>2. g[s \ {First(s)}] = h[s \ {First(s)}]
        <5>1. Cardinality(s \ {First(s)}) <= n
          BY <4>1, <2>3
        <5> HIDE DEF g, First
        <5> QED
          BY <2>2, <4>1, <5>1
      <4>3. g[s] = f[First(s)] + h[s \ {First(s)}]
        BY <3>2 DEF NextSum
      <4>4. NextSum(f, g, s) = f[First(s)] + g[s \ {First(s)}]
        BY <3>2 DEF NextSum
      <4> QED
        BY <4>2, <4>3, <4>4
    <3> QED
      BY <3>1, <3>2
  <2>4. RightUpTo(g, f, S, n + 1) /\ g = [s \in SUBSET S |-> g[s]]
    <3>1. g = [s \in SUBSET S |-> g[s]]
      OBVIOUS
    <3> HIDE DEF g
    <3> QED
      BY <2>3, <3>1 DEF RightUpTo
  <2> HIDE DEF g
  <2> QED
    BY <2>4
<1>3. Nat \subseteq G
  <2> HIDE DEF G
  <2> QED
    BY <1>1, <1>2, NatSet
<1> QED
  <2> SUFFICES ASSUME NEW n \in Nat
      PROVE \E h : DOMAIN h = SUBSET S /\ h = [s \in SUBSET S |-> h[s]] /\ RightUpTo(h, f, S, n)
    OBVIOUS
  <2>1. PICK h : h = [s \in SUBSET S |-> h[s]] /\ RightUpTo(h, f, S, n)
    BY <1>3
  <2>2. DOMAIN h = SUBSET S
    BY <2>1
  <2> QED
    BY <2>1, <2>2

\* A finite set has a table of sums, and the sum is what the table says.
LEMMA SumTable ==
  ASSUME NEW f, NEW S, IsFiniteSet(S)
  PROVE  \E h : Tabulates(h, f, S) /\ SumFunctionOnSet(f, S) = h[S]
<1>1. Cardinality(S) \in Nat
  BY FS_CardinalityType
<1>2. PICK h : h = [s \in SUBSET S |-> h[s]] /\ RightUpTo(h, f, S, Cardinality(S))
  BY <1>1, RightExists
<1>3. \A s \in SUBSET S : Cardinality(s) <= Cardinality(S)
  BY FS_Subset
<1>4. \A s \in SUBSET S : h[s] = NextSum(f, h, s)
  BY <1>2, <1>3 DEF RightUpTo
<1>5. Tabulates(h, f, S)
  BY <1>2, <1>4 DEF Tabulates
<1> DEFINE g == CHOOSE k : Tabulates(k, f, S)
<1>6. Tabulates(g, f, S)
  BY <1>5
<1>7. SumFunctionOnSet(f, S) = g[S]
  BY SumIsChosen
<1> QED
  BY <1>6, <1>7

\* Induction over the subsets of a finite set by their size, for a set of sizes.
LEMMA BySize ==
  ASSUME NEW S, IsFiniteSet(S), NEW W \in SUBSET (SUBSET S),
         {} \in W,
         \A n \in Nat : (\A s \in SUBSET S : Cardinality(s) = n => s \in W)
                          => (\A s \in SUBSET S : Cardinality(s) = n + 1 => s \in W)
  PROVE  \A s \in SUBSET S : s \in W
<1> DEFINE G == {n \in Nat : \A s \in SUBSET S : Cardinality(s) = n => s \in W}
<1>1. 0 \in G
  <2>1. \A s \in SUBSET S : Cardinality(s) = 0 => s = {}
    BY FS_Subset, FS_EmptySet
  <2> QED
    BY <2>1
<1>2. \A n \in Nat : n \in G => n + 1 \in G
  OBVIOUS
<1>3. Nat \subseteq G
  <2> HIDE DEF G
  <2> QED
    BY <1>1, <1>2, NatSet
<1>4. \A s \in SUBSET S : Cardinality(s) \in Nat
  BY FS_Subset, FS_CardinalityType
<1> QED
  BY <1>3, <1>4

\* A set of n + 1 elements, and what is left of it without one of them.
LEMMA OneLess ==
  ASSUME NEW S, IsFiniteSet(S), NEW n \in Nat, NEW s \in SUBSET S,
         Cardinality(s) = n + 1
  PROVE  /\ s # {} /\ IsFiniteSet(s) /\ (CHOOSE y \in s : TRUE) \in s
         /\ \A x \in s : s \ {x} \in SUBSET S /\ Cardinality(s \ {x}) = n
<1>1. IsFiniteSet(s)
  BY FS_Subset
<1>2. Cardinality(s) # 0
  OBVIOUS
<1>3. s # {}
  BY <1>2, FS_EmptySet
<1>4. ASSUME NEW x \in s PROVE Cardinality(s \ {x}) = n
  <2>1. Cardinality(s \ {x}) = Cardinality(s) - 1
    BY <1>1, FS_RemoveElement
  <2> QED
    BY <2>1
<1> QED
  BY <1>1, <1>3, <1>4

\* Sums of naturals are naturals.
LEMMA TableOfNaturals ==
  ASSUME NEW S, IsFiniteSet(S), NEW f, NEW h, Tabulates(h, f, S),
         \A x \in S : f[x] \in Nat
  PROVE  \A s \in SUBSET S : h[s] \in Nat
<1> DEFINE First(s) == CHOOSE y \in s : TRUE
           W == {s \in SUBSET S : h[s] \in Nat}
<1>1. /\ h[{}] = 0
      /\ \A s \in SUBSET S : s # {} => h[s] = f[First(s)] + h[s \ {First(s)}]
  BY DEF Tabulates, NextSum
<1>2. {} \in W
  BY <1>1
<1>3. ASSUME NEW n \in Nat, \A s \in SUBSET S : Cardinality(s) = n => s \in W,
             NEW s \in SUBSET S, Cardinality(s) = n + 1
      PROVE  s \in W
  <2>1. s # {} /\ First(s) \in s
    BY <1>3, OneLess
  <2>2. s \ {First(s)} \in SUBSET S /\ Cardinality(s \ {First(s)}) = n
    BY <1>3, <2>1, OneLess
  <2>3. h[s] = f[First(s)] + h[s \ {First(s)}]
    BY <1>1, <2>1
  <2> DEFINE y == First(s)
  <2>4. f[y] \in Nat /\ h[s \ {y}] \in Nat
    <3>1. y \in S /\ s \ {y} \in W
      BY <1>3, <2>1, <2>2
    <3> HIDE DEF y
    <3> QED
      BY <3>1
  <2>5. h[s] \in Nat
    <3>1. h[s] = f[y] + h[s \ {y}]
      BY <2>3
    <3> HIDE DEF y
    <3> QED
      BY <2>4, <3>1
  <2> QED
    BY <2>5
<1>5. W \in SUBSET (SUBSET S)
  OBVIOUS
<1> HIDE DEF W
<1>4. \A s \in SUBSET S : s \in W
  BY <1>2, <1>3, <1>5, BySize
<1> QED
  BY <1>4 DEF W

\* A sum may take its elements in any order.
LEMMA AnyOrder ==
  ASSUME NEW S, IsFiniteSet(S), NEW f, NEW h, Tabulates(h, f, S),
         \A x \in S : f[x] \in Nat
  PROVE  \A s \in SUBSET S : \A x \in s : h[s] = f[x] + h[s \ {x}]
<1> DEFINE First(s) == CHOOSE y \in s : TRUE
           W == {s \in SUBSET S : \A x \in s : h[s] = f[x] + h[s \ {x}]}
<1>1. \A s \in SUBSET S : s # {} => h[s] = f[First(s)] + h[s \ {First(s)}]
  BY DEF Tabulates, NextSum
<1>2. {} \in W
  OBVIOUS
<1>3. ASSUME NEW n \in Nat, \A s \in SUBSET S : Cardinality(s) = n => s \in W,
             NEW s \in SUBSET S, Cardinality(s) = n + 1
      PROVE  s \in W
  <2> DEFINE y == First(s)
  <2>1. s # {} /\ y \in s
    BY <1>3, OneLess
  <2>2. y \in s /\ s \ {y} \in SUBSET S /\ Cardinality(s \ {y}) = n
    BY <1>3, <2>1, OneLess
  <2>3. h[s] = f[y] + h[s \ {y}]
    BY <1>1, <2>1
  <2>4. f[y] \in Nat /\ s \ {y} \in W
    BY <1>3, <2>2
  <2> HIDE DEF y
  <2>5. ASSUME NEW x \in s, x # y PROVE h[s] = f[x] + h[s \ {x}]
    <3>1. Cardinality(s \ {x}) = n /\ s \ {x} \in SUBSET S
      BY <1>3, OneLess
    <3>2. s \ {x} \in W /\ f[x] \in Nat
      BY <1>3, <3>1
    <3> DEFINE u == (s \ {x}) \ {y}
    <3>3. (s \ {y}) \ {x} = u /\ x \in s \ {y} /\ y \in s \ {x} /\ u \in SUBSET S
      BY <2>2, <2>5
    <3>4. h[s \ {y}] = f[x] + h[u]
      BY <2>4, <3>3
    <3>5. h[s \ {x}] = f[y] + h[u]
      BY <3>2, <3>3
    <3>6. h[u] \in Nat
      BY <3>3, TableOfNaturals
    <3> HIDE DEF u
    <3> QED
      BY <2>3, <2>4, <3>2, <3>4, <3>5, <3>6
  <2> QED
    BY <2>3, <2>5
<1>5. W \in SUBSET (SUBSET S)
  OBVIOUS
<1> HIDE DEF W
<1>4. \A s \in SUBSET S : s \in W
  BY <1>2, <1>3, <1>5, BySize
<1> QED
  BY <1>4 DEF W

\* Tables of functions that agree agree, whatever else they tabulate.
LEMMA TablesAgree ==
  ASSUME NEW S, IsFiniteSet(S), NEW T \in SUBSET S,
         NEW f, NEW g, NEW h, NEW k, Tabulates(h, f, S), Tabulates(k, g, T),
         \A x \in T : f[x] = g[x]
  PROVE  \A s \in SUBSET T : h[s] = k[s]
<1> DEFINE First(s) == CHOOSE y \in s : TRUE
           W == {s \in SUBSET T : h[s] = k[s]}
<1>1. /\ h[{}] = 0 /\ k[{}] = 0
      /\ \A s \in SUBSET T : s # {} => /\ h[s] = f[First(s)] + h[s \ {First(s)}]
                                       /\ k[s] = g[First(s)] + k[s \ {First(s)}]
  BY DEF Tabulates, NextSum
<1>2. {} \in W /\ IsFiniteSet(T)
  BY <1>1, FS_Subset
<1>3. ASSUME NEW n \in Nat, \A s \in SUBSET T : Cardinality(s) = n => s \in W,
             NEW s \in SUBSET T, Cardinality(s) = n + 1
      PROVE  s \in W
  <2>1. s # {} /\ First(s) \in s
    BY <1>2, <1>3, OneLess
  <2>2. s \ {First(s)} \in SUBSET T /\ Cardinality(s \ {First(s)}) = n
    BY <1>2, <1>3, <2>1, OneLess
  <2> DEFINE y == First(s)
  <2>3. h[s] = f[y] + h[s \ {y}] /\ k[s] = g[y] + k[s \ {y}]
    BY <1>1, <2>1
  <2>4. y \in T /\ s \ {y} \in W
    BY <1>3, <2>1, <2>2
  <2> HIDE DEF y
  <2>5. h[s \ {y}] = k[s \ {y}] /\ f[y] = g[y]
    BY <2>4
  <2> QED
    BY <2>3, <2>5
<1>5. W \in SUBSET (SUBSET T)
  OBVIOUS
<1> HIDE DEF W
<1>4. \A s \in SUBSET T : s \in W
  BY <1>2, <1>3, <1>5, BySize
<1> QED
  BY <1>4 DEF W

-----------------------------------------------------------------------------

\* Nothing sums to zero.
LEMMA SumOfNone == ASSUME NEW f PROVE SumFunctionOnSet(f, {}) = 0
<1>1. PICK h : Tabulates(h, f, {}) /\ SumFunctionOnSet(f, {}) = h[{}]
  BY SumTable, FS_EmptySet
<1> QED
  BY <1>1 DEF Tabulates, NextSum

\* One element more adds its value.
LEMMA SumOfOneMore ==
  ASSUME NEW S, IsFiniteSet(S), NEW e, e \notin S, NEW f,
         \A x \in S \cup {e} : f[x] \in Nat
  PROVE  SumFunctionOnSet(f, S \cup {e}) = f[e] + SumFunctionOnSet(f, S)
<1> DEFINE U == S \cup {e}
<1>1. IsFiniteSet(U) /\ S \in SUBSET U /\ U \ {e} = S
  BY FS_AddElement
<1>2. PICK h : Tabulates(h, f, U) /\ SumFunctionOnSet(f, U) = h[U]
  BY <1>1, SumTable
<1>3. PICK k : Tabulates(k, f, S) /\ SumFunctionOnSet(f, S) = k[S]
  BY SumTable
<1>4. h[S] = k[S]
  <2>1. S \in SUBSET S
    OBVIOUS
  <2> HIDE DEF U
  <2> QED
    BY <1>1, <1>2, <1>3, <2>1, TablesAgree
<1>5. h[U] = f[e] + h[U \ {e}]
  BY <1>1, <1>2, AnyOrder
<1> QED
  BY <1>1, <1>2, <1>3, <1>4, <1>5

\* Functions that agree have the same sum.
LEMMA SumOfSame ==
  ASSUME NEW S, IsFiniteSet(S), NEW f, NEW g, \A x \in S : f[x] = g[x]
  PROVE  SumFunctionOnSet(f, S) = SumFunctionOnSet(g, S)
<1>1. PICK h : Tabulates(h, f, S) /\ SumFunctionOnSet(f, S) = h[S]
  BY SumTable
<1>2. PICK k : Tabulates(k, g, S) /\ SumFunctionOnSet(g, S) = k[S]
  BY SumTable
<1>3. S \in SUBSET S
  OBVIOUS
<1>4. \A s \in SUBSET S : h[s] = k[s]
  BY <1>1, <1>2, <1>3, TablesAgree
<1> QED
  BY <1>1, <1>2, <1>3, <1>4

\* A sum of naturals is one.
LEMMA SumIsNatural ==
  ASSUME NEW S, IsFiniteSet(S), NEW f, \A x \in S : f[x] \in Nat
  PROVE  SumFunctionOnSet(f, S) \in Nat
<1>1. PICK h : Tabulates(h, f, S) /\ SumFunctionOnSet(f, S) = h[S]
  BY SumTable
<1> QED
  BY <1>1, TableOfNaturals

\* The same for a set built from one and an element outside it.
LEMMA SumByElements ==
  ASSUME NEW S, IsFiniteSet(S), NEW W \in SUBSET (SUBSET S), {} \in W,
         \A s \in SUBSET S : \A e \in S \ s : s \in W => s \cup {e} \in W
  PROVE  S \in W
<1>1. ASSUME NEW n \in Nat, \A s \in SUBSET S : Cardinality(s) = n => s \in W,
             NEW s \in SUBSET S, Cardinality(s) = n + 1
      PROVE  s \in W
  <2>1. s # {}
    BY <1>1, OneLess
  <2>2. PICK e : e \in s
    BY <2>1
  <2>3. s \ {e} \in SUBSET S /\ Cardinality(s \ {e}) = n
    BY <1>1, <2>2, OneLess
  <2>4. s \ {e} \in W /\ e \in S \ (s \ {e}) /\ (s \ {e}) \cup {e} = s
    BY <1>1, <2>2, <2>3
  <2> QED
    BY <2>3, <2>4
<1>2. \A s \in SUBSET S : s \in W
  BY <1>1, BySize
<1> QED
  BY <1>2

\* A sum of less over fewer is no more.
LEMMA SumOfLess ==
  ASSUME NEW S, IsFiniteSet(S), NEW T \in SUBSET S, NEW f, NEW g,
         \A x \in S : g[x] \in Nat,
         \A x \in T : f[x] \in Nat /\ f[x] <= g[x]
  PROVE  SumFunctionOnSet(f, T) <= SumFunctionOnSet(g, S)
<1> DEFINE F(s) == SumFunctionOnSet(f, s \cap T)
           K(s) == SumFunctionOnSet(g, s)
           W == {s \in SUBSET S : F(s) <= K(s)}
<1>1. {} \in W
  <2>1. {} \cap T = {} /\ SumFunctionOnSet(f, {}) = 0 /\ SumFunctionOnSet(g, {}) = 0
    BY SumOfNone
  <2> QED
    BY <2>1
<1>2. ASSUME NEW s \in SUBSET S, NEW e \in S \ s, s \in W PROVE s \cup {e} \in W
  <2>1. IsFiniteSet(s) /\ IsFiniteSet(s \cap T) /\ g[e] \in Nat
    BY FS_Subset
  <2>2. F(s) \in Nat /\ K(s) \in Nat
    BY <2>1, SumIsNatural
  <2>3. K(s \cup {e}) = g[e] + K(s)
    BY <2>1, SumOfOneMore
  <2>4. CASE e \in T
    <3>1. (s \cup {e}) \cap T = (s \cap T) \cup {e} /\ e \notin s \cap T
      BY <1>2, <2>4
    <3>2. \A x \in (s \cap T) \cup {e} : f[x] \in Nat
      BY <2>4
    <3>3. F(s \cup {e}) = f[e] + F(s)
      BY <2>1, <3>1, <3>2, SumOfOneMore
    <3>4. f[e] \in Nat /\ f[e] <= g[e] /\ F(s) <= K(s)
      BY <1>2, <2>4
    <3> HIDE DEF F, K
    <3>5. F(s \cup {e}) <= K(s \cup {e})
      BY <2>1, <2>2, <2>3, <3>3, <3>4
    <3> QED
      BY <3>5
  <2>5. CASE e \notin T
    <3>1. (s \cup {e}) \cap T = s \cap T
      BY <2>5
    <3>2. F(s \cup {e}) = F(s) /\ F(s) <= K(s)
      BY <1>2, <3>1
    <3> HIDE DEF F, K
    <3>3. F(s \cup {e}) <= K(s \cup {e})
      BY <2>1, <2>2, <2>3, <3>2
    <3> QED
      BY <3>3
  <2> QED
    BY <2>4, <2>5
<1>3. S \in W
  <2>1. W \in SUBSET (SUBSET S)
    OBVIOUS
  <2> HIDE DEF W
  <2> QED
    BY <1>1, <1>2, <2>1, SumByElements
<1>4. S \cap T = T
  OBVIOUS
<1> QED
  BY <1>3, <1>4

\* Sums may be added element by element.
LEMMA SumOfSums ==
  ASSUME NEW S, IsFiniteSet(S), NEW f, NEW g, NEW h,
         \A x \in S : f[x] \in Nat /\ g[x] \in Nat /\ h[x] \in Nat
                      /\ h[x] = f[x] + g[x]
  PROVE  SumFunctionOnSet(h, S) = SumFunctionOnSet(f, S) + SumFunctionOnSet(g, S)
<1> DEFINE F(s) == SumFunctionOnSet(f, s)
           K(s) == SumFunctionOnSet(g, s)
           H(s) == SumFunctionOnSet(h, s)
           W == {s \in SUBSET S : H(s) = F(s) + K(s)}
<1>1. {} \in W
  BY SumOfNone
<1>2. ASSUME NEW s \in SUBSET S, NEW e \in S \ s, s \in W PROVE s \cup {e} \in W
  <2>1. IsFiniteSet(s) /\ \A x \in s \cup {e} : x \in S
    BY FS_Subset
  <2>2. F(s) \in Nat /\ K(s) \in Nat
    BY <2>1, SumIsNatural
  <2>3. /\ F(s \cup {e}) = f[e] + F(s) /\ K(s \cup {e}) = g[e] + K(s)
        /\ H(s \cup {e}) = h[e] + H(s)
    BY <2>1, SumOfOneMore
  <2>4. /\ f[e] \in Nat /\ g[e] \in Nat /\ h[e] = f[e] + g[e]
        /\ H(s) = F(s) + K(s)
    BY <1>2
  <2> HIDE DEF F, K, H
  <2>5. H(s \cup {e}) = F(s \cup {e}) + K(s \cup {e})
    BY <2>2, <2>3, <2>4
  <2> QED
    BY <2>5
<1>3. S \in W
  <2>1. W \in SUBSET (SUBSET S)
    OBVIOUS
  <2> HIDE DEF W
  <2> QED
    BY <1>1, <1>2, <2>1, SumByElements
<1> QED
  BY <1>3

\* What unwinds where it has been unwound to a value of D does so everywhere.
LEMMA Unwound ==
  ASSUME NEW n \in Nat, NEW D, NEW base \in D, NEW G \in [1..n -> [D -> D]],
         NEW h, h = [i \in 0..n |-> h[i]], h[0] = base,
         \A i \in 1..n : h[i - 1] \in D => h[i] = G[i][h[i - 1]]
  PROVE  Unwinds(h, n, D, base, G)
<1> DEFINE K == {k \in Nat : k <= n => h[k] \in D}
<1>1. 0 \in K
  OBVIOUS
<1>2. ASSUME NEW k \in Nat, k \in K PROVE k + 1 \in K
  <2> SUFFICES ASSUME k + 1 <= n PROVE h[k + 1] \in D
    OBVIOUS
  <2>1. k + 1 \in 1..n /\ (k + 1) - 1 = k /\ h[k] \in D
    BY <1>2
  <2>2. h[k + 1] = G[k + 1][h[k]]
    BY <2>1
  <2> QED
    BY <2>1, <2>2
<1>3. Nat \subseteq K
  <2> HIDE DEF K
  <2> QED
    BY <1>1, <1>2, NatSet
<1>4. \A k \in 0..n : h[k] \in D
  BY <1>3
<1>5. h \in [0..n -> D]
  BY <1>4
<1>6. \A i \in 1..n : h[i] = G[i][h[i - 1]]
  <2> SUFFICES ASSUME NEW i \in 1..n PROVE h[i] = G[i][h[i - 1]]
    OBVIOUS
  <2>1. i - 1 \in 0..n
    OBVIOUS
  <2> QED
    BY <1>4, <2>1
<1> QED
  BY <1>5, <1>6 DEF Unwinds

SameSteps(G, H, n) == \A i \in 1..n : H[i] = G[i]

\* Two that are made the same way as far as they both go are the same so far.
LEMMA UnwindsSame ==
  ASSUME NEW n \in Nat, NEW m \in Nat, n <= m, NEW D, NEW base, NEW G, NEW H,
         SameSteps(G, H, n),
         NEW f, NEW g, Unwinds(f, n, D, base, G), Unwinds(g, m, D, base, H)
  PROVE  \A i \in 0..n : f[i] = g[i]
<1> DEFINE K == {k \in Nat : k <= n => f[k] = g[k]}
<1>1. 0 \in K
  BY DEF Unwinds
<1>2. ASSUME NEW k \in Nat, k \in K PROVE k + 1 \in K
  <2> SUFFICES ASSUME k + 1 <= n PROVE f[k + 1] = g[k + 1]
    OBVIOUS
  <2>1. k + 1 \in 1..n /\ k + 1 \in 1..m /\ (k + 1) - 1 = k /\ f[k] = g[k]
    BY <1>2
  <2>2. f[k + 1] = G[k + 1][f[k]] /\ g[k + 1] = H[k + 1][g[k]]
    BY <2>1 DEF Unwinds
  <2>3. H[k + 1] = G[k + 1]
    BY <2>1 DEF SameSteps
  <2> QED
    BY <2>1, <2>2, <2>3
<1>3. Nat \subseteq K
  <2> HIDE DEF K
  <2> QED
    BY <1>1, <1>2, NatSet
<1> QED
  BY <1>3

\* And a function that is at each place what one step makes of the one before is
\* the same function.
LEMMA UnwindsIs ==
  ASSUME NEW n \in Nat, NEW D, NEW base, NEW G, NEW f, Unwinds(f, n, D, base, G),
         NEW e, e = [i \in 0..n |-> e[i]], e[0] = base,
         \A i \in 1..n : e[i] = G[i][f[i - 1]]
  PROVE  f = e
<1>1. f = [i \in 0..n |-> f[i]]
  BY DEF Unwinds
<1>2. ASSUME NEW i \in 0..n PROVE f[i] = e[i]
  <2>1. CASE i = 0
    BY <2>1 DEF Unwinds
  <2>2. CASE i # 0
    <3>1. i \in 1..n
      BY <2>2
    <3> QED
      BY <3>1 DEF Unwinds
  <2> QED
    BY <2>1, <2>2
<1> QED
  BY <1>1, <1>2

================================================================================
