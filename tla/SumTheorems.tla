---------------------------- MODULE SumTheorems -----------------------------
(***************************************************************************)
(* Facts about sums over finite sets, for any set and any function.        *)
(*                                                                         *)
(* They need induction over finite sets.  The library's theorem for it has *)
(* an operator as a parameter, but its theorem that the strict subsets of  *)
(* a finite set are well-founded has none, and yields `Minimal': a         *)
(* collection of subsets of a finite set has one that contains no other.   *)
(* Every proof by induction below is a proof that the smallest             *)
(* counterexample does not exist.                                          *)
(*                                                                         *)
(* MapThenSumSet is defined by the function that maps each subset to its   *)
(* sum, taking out one element after the other.  SumDef is what defines    *)
(* it; the first lemmas show that there is such a function, and only one.  *)
(***************************************************************************)
EXTENDS Sums, FiniteSetTheorems, WellFoundedInduction, TLAPS

\* The element that is taken out of a set first.
One(s) == CHOOSE x \in s : TRUE

\* g sums f over the subsets of S.
SumDef(g, S, f) ==
  g = [s \in SUBSET S |-> IF s = {} THEN 0 ELSE f[One(s)] + g[s \ {One(s)}]]

\* The definition of a sum.
LEMMA Unfold == \A S, f : SumOver(S, f) = (CHOOSE g : SumDef(g, S, f))[S]
  BY Zenon DEF SumOver, MapThenSumSet, MapThenFoldSet, SumDef, One

\* A set that is not empty has the element that is taken out of it.
LEMMA OneIsIn == \A s : s # {} => One(s) \in s
  BY DEF One

\* Of some subsets of a finite set, one contains no other.
LEMMA Minimal ==
  ASSUME NEW S, IsFiniteSet(S), NEW T, T \subseteq SUBSET S, T # {}
  PROVE  \E t \in T : \A u \in T : u \subseteq t => u = t
<1>1. IsWellFoundedOn(StrictSubsetOrdering(S), FiniteSubsetsOf(S))
  BY FS_StrictSubsetOrderingWellFounded
<1>2. T \subseteq FiniteSubsetsOf(S)
  BY FS_Subset DEF FiniteSubsetsOf
<1>3. PICK t \in T : \A u \in T : ~ (<<u, t>> \in StrictSubsetOrdering(S))
  BY <1>1, <1>2, WFMin
<1>4. \A u \in T : u \subseteq t => u = t
  BY <1>3 DEF StrictSubsetOrdering
<1> QED
  BY <1>4

\* What the function that sums says of one set.
LEMMA SumDefAt ==
  ASSUME NEW S, NEW f, NEW g, SumDef(g, S, f), NEW s \in SUBSET S
  PROVE  g[s] = IF s = {} THEN 0 ELSE f[One(s)] + g[s \ {One(s)}]
  BY DEF SumDef

\* There is at most one such function on the subsets of a finite set.
LEMMA SumDefUnique ==
  ASSUME NEW S, IsFiniteSet(S), NEW f, NEW g, NEW h, SumDef(g, S, f), SumDef(h, S, f)
  PROVE  g = h
<1> DEFINE T == {s \in SUBSET S : g[s] # h[s]}
<1>1. ASSUME T # {} PROVE FALSE
  <2>1. PICK t \in T : \A u \in T : u \subseteq t => u = t
    <3>1. T \subseteq SUBSET S
      OBVIOUS
    <3> HIDE DEF T
    <3> QED
      BY <3>1, <1>1, Minimal
  <2>2. t # {}
    <3>1. {} \in SUBSET S
      OBVIOUS
    <3>2. g[{}] = 0 /\ h[{}] = 0
      BY <3>1, SumDefAt
    <3> QED
      BY <2>1, <3>2
  <2>3. One(t) \in t /\ t \ {One(t)} \in SUBSET S
    BY <2>1, <2>2, OneIsIn
  <2>4. g[t \ {One(t)}] = h[t \ {One(t)}]
    BY <2>1, <2>3
  <2> QED
    BY <2>1, <2>2, <2>4, SumDefAt
<1>2. \A s \in SUBSET S : g[s] = h[s]
  BY <1>1
<1> QED
  BY <1>2 DEF SumDef

\* Restricted to the subsets of a subset, it is one again.
LEMMA SumDefPart ==
  ASSUME NEW S, NEW f, NEW g, SumDef(g, S, f), NEW v \in SUBSET S
  PROVE  SumDef([s \in SUBSET v |-> g[s]], v, f)
<1> DEFINE h == [s \in SUBSET v |-> g[s]]
<1>1. ASSUME NEW s \in SUBSET v
      PROVE  h[s] = IF s = {} THEN 0 ELSE f[One(s)] + h[s \ {One(s)}]
  <2>1. h[s] = g[s] /\ h[s \ {One(s)}] = g[s \ {One(s)}] /\ s \in SUBSET S
    OBVIOUS
  <2> QED
    BY <2>1, SumDefAt
<1> HIDE DEF h
<1>2. h = [s \in SUBSET v |-> h[s]]
  BY DEF h
<1>3. h = [s \in SUBSET v |-> IF s = {} THEN 0 ELSE f[One(s)] + h[s \ {One(s)}]]
  BY <1>1, <1>2
<1> QED
  BY <1>3 DEF SumDef, h

\* What it says of a subset is the sum over that subset.
LEMMA SumDefValue ==
  ASSUME NEW S, IsFiniteSet(S), NEW f, NEW g, SumDef(g, S, f), NEW v \in SUBSET S
  PROVE  g[v] = SumOver(v, f)
<1> DEFINE h == [s \in SUBSET v |-> g[s]]
<1>1. SumDef(h, v, f) /\ IsFiniteSet(v) /\ h[v] = g[v]
  BY SumDefPart, FS_Subset
<1> HIDE DEF h
<1> DEFINE c == CHOOSE k : SumDef(k, v, f)
<1>2. SumDef(c, v, f)
  BY <1>1
<1>3. c[v] = SumOver(v, f)
  BY Unfold
<1> HIDE DEF c
<1> QED
  BY <1>1, <1>2, <1>3, SumDefUnique

\* There is such a function on the subsets of every finite set.
LEMMA SumDefExists ==
  ASSUME NEW S, IsFiniteSet(S), NEW f
  PROVE  \E g : SumDef(g, S, f)
<1> DEFINE T == {s \in SUBSET S : ~ \E g : SumDef(g, s, f)}
<1> SUFFICES ASSUME T # {} PROVE FALSE
  OBVIOUS
<1>1. PICK t \in T : \A u \in T : u \subseteq t => u = t
  <2>1. T \subseteq SUBSET S
    OBVIOUS
  <2> HIDE DEF T
  <2> QED
    BY <2>1, Minimal
<1>2. \A u \in SUBSET t : u # t => \E g : SumDef(g, u, f)
  BY <1>1
<1>3. \A u \in SUBSET t : IsFiniteSet(u)
  BY <1>1, FS_Subset
<1> DEFINE G == [s \in SUBSET t |-> IF s = {} THEN 0 ELSE f[One(s)] + SumOver(s \ {One(s)}, f)]
<1>4. ASSUME NEW u \in SUBSET t, u # t PROVE G[u] = SumOver(u, f)
  <2>1. PICK g : SumDef(g, u, f)
    BY <1>2, <1>4
  <2>2. ASSUME NEW v \in SUBSET u PROVE g[v] = SumOver(v, f)
    <3>1. IsFiniteSet(u)
      BY <1>3
    <3> QED
      BY <2>1, <3>1, SumDefValue
  <2>3. g[u] = IF u = {} THEN 0 ELSE f[One(u)] + g[u \ {One(u)}]
    BY <2>1, SumDefAt
  <2> QED
    BY <2>2, <2>3
<1>5. ASSUME NEW s \in SUBSET t, s # {} PROVE G[s \ {One(s)}] = SumOver(s \ {One(s)}, f)
  BY <1>4, <1>5, OneIsIn
<1>6. \A s \in SUBSET t : G[s] = IF s = {} THEN 0 ELSE f[One(s)] + G[s \ {One(s)}]
  BY <1>5
<1>7. G = [s \in SUBSET t |-> G[s]]
  OBVIOUS
<1> HIDE DEF G
<1>8. G = [s \in SUBSET t |-> IF s = {} THEN 0 ELSE f[One(s)] + G[s \ {One(s)}]]
  BY <1>6, <1>7
<1> QED
  BY <1>1, <1>8 DEF SumDef

\* Nothing adds up to zero.
LEMMA SumEmpty == \A f : SumOver({}, f) = 0
<1> TAKE f
<1>1. IsFiniteSet({})
  BY FS_EmptySet
<1>2. PICK g : SumDef(g, {}, f)
  BY <1>1, SumDefExists
<1> QED
  BY <1>1, <1>2, SumDefValue, SumDefAt

\* One element is taken out of the sum.
LEMMA SumOne ==
  ASSUME NEW S, IsFiniteSet(S), S # {}, NEW f
  PROVE  /\ One(S) \in S
         /\ SumOver(S, f) = f[One(S)] + SumOver(S \ {One(S)}, f)
<1>1. PICK g : SumDef(g, S, f)
  BY SumDefExists
<1>2. g[S] = SumOver(S, f) /\ g[S \ {One(S)}] = SumOver(S \ {One(S)}, f)
  BY <1>1, SumDefValue
<1>3. One(S) \in S
  BY OneIsIn
<1>4. g[S] = f[One(S)] + g[S \ {One(S)}]
  <2>1. S \in SUBSET S
    OBVIOUS
  <2>2. g[S] = IF S = {} THEN 0 ELSE f[One(S)] + g[S \ {One(S)}]
    BY <1>1, <2>1, SumDefAt
  <2> QED
    BY <2>2
<1> QED
  BY <1>2, <1>3, <1>4

\* A sum of integers is an integer.
LEMMA SumType ==
  ASSUME NEW S, IsFiniteSet(S), NEW f, \A x \in S : f[x] \in Int
  PROVE  SumOver(S, f) \in Int
<1> DEFINE T == {s \in SUBSET S : SumOver(s, f) \notin Int}
<1> SUFFICES ASSUME T # {} PROVE FALSE
  OBVIOUS
<1>1. PICK t \in T : \A u \in T : u \subseteq t => u = t
  <2>1. T \subseteq SUBSET S
    OBVIOUS
  <2> HIDE DEF T
  <2> QED
    BY <2>1, Minimal
<1>2. t # {} /\ IsFiniteSet(t)
  <2>1. t \in SUBSET S /\ SumOver(t, f) \notin Int
    BY <1>1
  <2>2. SumOver({}, f) = 0
    BY SumEmpty
  <2>3. IsFiniteSet(t)
    BY <2>1, FS_Subset
  <2> QED
    BY <2>1, <2>2, <2>3
<1>3. One(t) \in t /\ SumOver(t, f) = f[One(t)] + SumOver(t \ {One(t)}, f)
  BY <1>2, SumOne
<1>4. SumOver(t \ {One(t)}, f) \in Int
  BY <1>1, <1>3
<1> QED
  BY <1>1, <1>3, <1>4

\* Any element can be taken out of the sum: the order does not matter.
LEMMA SumTake ==
  ASSUME NEW S, IsFiniteSet(S), NEW f, \A x \in S : f[x] \in Int, NEW x \in S
  PROVE  SumOver(S, f) = f[x] + SumOver(S \ {x}, f)
<1> DEFINE T == {s \in SUBSET S : \E y \in s : SumOver(s, f) # f[y] + SumOver(s \ {y}, f)}
<1>1. ASSUME T # {} PROVE FALSE
  <2>1. PICK t \in T : \A u \in T : u \subseteq t => u = t
    <3>1. T \subseteq SUBSET S
      OBVIOUS
    <3> HIDE DEF T
    <3> QED
      BY <3>1, <1>1, Minimal
  <2>2. PICK y \in t : SumOver(t, f) # f[y] + SumOver(t \ {y}, f)
    BY <2>1
  <2>3. IsFiniteSet(t) /\ t \subseteq S
    BY <2>1, FS_Subset
  <2> DEFINE z == One(t)
  <2>4. z \in t /\ SumOver(t, f) = f[z] + SumOver(t \ {z}, f)
    BY <2>2, <2>3, SumOne
  <2> HIDE DEF z
  <2>5. y # z
    BY <2>2, <2>4
  <2> DEFINE r == (t \ {z}) \ {y}
  <2>6. t \ {z} \notin T /\ t \ {y} \notin T
    BY <2>1, <2>2, <2>4
  <2>7. SumOver(t \ {z}, f) = f[y] + SumOver(r, f)
    BY <2>2, <2>3, <2>5, <2>6
  <2>8. r = (t \ {y}) \ {z}
    OBVIOUS
  <2>9. SumOver(t \ {y}, f) = f[z] + SumOver(r, f)
    BY <2>3, <2>4, <2>5, <2>6, <2>8
  <2>10. IsFiniteSet(r) /\ r \subseteq S
    BY <2>3, FS_Subset
  <2> HIDE DEF r
  <2>11. SumOver(r, f) \in Int /\ f[y] \in Int /\ f[z] \in Int
    BY <2>2, <2>3, <2>4, <2>10, SumType
  <2> QED
    BY <2>2, <2>4, <2>7, <2>9, <2>11
<1> QED
  BY <1>1

\* A sum depends on the values on the set only.
LEMMA SumSame ==
  ASSUME NEW S, IsFiniteSet(S), NEW f, NEW h, \A x \in S : f[x] = h[x]
  PROVE  SumOver(S, f) = SumOver(S, h)
<1> DEFINE T == {s \in SUBSET S : SumOver(s, f) # SumOver(s, h)}
<1>1. ASSUME T # {} PROVE FALSE
  <2>1. PICK t \in T : \A u \in T : u \subseteq t => u = t
    <3>1. T \subseteq SUBSET S
      OBVIOUS
    <3> HIDE DEF T
    <3> QED
      BY <3>1, <1>1, Minimal
  <2>2. t # {} /\ IsFiniteSet(t)
    BY <2>1, SumEmpty, FS_Subset
  <2>3. /\ One(t) \in t
        /\ SumOver(t, f) = f[One(t)] + SumOver(t \ {One(t)}, f)
        /\ SumOver(t, h) = h[One(t)] + SumOver(t \ {One(t)}, h)
    BY <2>2, SumOne
  <2>4. SumOver(t \ {One(t)}, f) = SumOver(t \ {One(t)}, h)
    BY <2>1, <2>3
  <2> QED
    BY <2>1, <2>3, <2>4
<1> QED
  BY <1>1

\* When the value of one element changes, the sum changes by the difference.
LEMMA SumChange ==
  ASSUME NEW S, IsFiniteSet(S), NEW f, NEW h, NEW x \in S,
         \A y \in S : f[y] \in Int /\ h[y] \in Int,
         \A y \in S \ {x} : f[y] = h[y]
  PROVE  SumOver(S, h) = SumOver(S, f) - f[x] + h[x]
<1>1. IsFiniteSet(S \ {x})
  BY FS_Subset
<1>2. SumOver(S \ {x}, f) = SumOver(S \ {x}, h) /\ SumOver(S \ {x}, f) \in Int
  BY <1>1, SumSame, SumType
<1>3. SumOver(S, f) = f[x] + SumOver(S \ {x}, f) /\ SumOver(S, h) = h[x] + SumOver(S \ {x}, h)
  BY SumTake
<1> QED
  BY <1>2, <1>3

\* A sum of natural numbers is one, and no less than any of them.
LEMMA SumNat ==
  ASSUME NEW S, IsFiniteSet(S), NEW f, \A x \in S : f[x] \in Nat
  PROVE  SumOver(S, f) \in Nat /\ \A x \in S : f[x] <= SumOver(S, f)
<1> DEFINE T == {s \in SUBSET S : ~ SumOver(s, f) >= 0}
<1>0. \A s \in SUBSET S : IsFiniteSet(s) /\ SumOver(s, f) \in Int
  BY FS_Subset, SumType
<1>1. ASSUME T # {} PROVE FALSE
  <2>1. PICK t \in T : \A u \in T : u \subseteq t => u = t
    <3>1. T \subseteq SUBSET S
      OBVIOUS
    <3> HIDE DEF T
    <3> QED
      BY <3>1, <1>1, Minimal
  <2>2. t # {} /\ IsFiniteSet(t)
    <3>1. t \in SUBSET S /\ ~ SumOver(t, f) >= 0
      BY <2>1
    <3>2. SumOver({}, f) = 0
      BY SumEmpty
    <3> QED
      BY <1>0, <3>1, <3>2
  <2>3. One(t) \in t /\ SumOver(t, f) = f[One(t)] + SumOver(t \ {One(t)}, f)
    BY <2>2, SumOne
  <2>4. SumOver(t \ {One(t)}, f) >= 0
    BY <2>1, <2>3
  <2> QED
    BY <1>0, <2>1, <2>3, <2>4
<1>2. \A s \in SUBSET S : SumOver(s, f) \in Nat
  BY <1>0, <1>1
<1>3. ASSUME NEW x \in S PROVE f[x] <= SumOver(S, f)
  <2>1. SumOver(S, f) = f[x] + SumOver(S \ {x}, f) /\ SumOver(S \ {x}, f) \in Nat
    BY <1>2, SumTake
  <2> QED
    BY <2>1
<1> QED
  BY <1>2, <1>3

\* A sum of sums, element by element.
LEMMA SumPlus ==
  ASSUME NEW S, IsFiniteSet(S), NEW f, NEW g, NEW h,
         \A x \in S : f[x] \in Int /\ g[x] \in Int /\ h[x] = f[x] + g[x]
  PROVE  SumOver(S, h) = SumOver(S, f) + SumOver(S, g)
<1> DEFINE T == {s \in SUBSET S : SumOver(s, h) # SumOver(s, f) + SumOver(s, g)}
<1>1. ASSUME T # {} PROVE FALSE
  <2>1. PICK t \in T : \A u \in T : u \subseteq t => u = t
    <3>1. T \subseteq SUBSET S
      OBVIOUS
    <3> HIDE DEF T
    <3> QED
      BY <3>1, <1>1, Minimal
  <2>2. t # {} /\ IsFiniteSet(t) /\ t \subseteq S
    <3>1. t \in SUBSET S /\ SumOver(t, h) # SumOver(t, f) + SumOver(t, g)
      BY <2>1
    <3>2. SumOver({}, f) = 0 /\ SumOver({}, g) = 0 /\ SumOver({}, h) = 0
      BY SumEmpty
    <3>3. ASSUME t = {} PROVE FALSE
      <4>1. SumOver({}, h) # SumOver({}, f) + SumOver({}, g)
        BY <3>1, <3>3
      <4> QED
        BY <3>2, <4>1
    <3> QED
      BY <3>1, <3>3, FS_Subset
  <2> DEFINE z == One(t)
             r == t \ {z}
  <2>3. /\ z \in t
        /\ SumOver(t, f) = f[z] + SumOver(r, f)
        /\ SumOver(t, g) = g[z] + SumOver(r, g)
        /\ SumOver(t, h) = h[z] + SumOver(r, h)
    BY <2>2, SumOne
  <2>4. r \in SUBSET S /\ r \notin T /\ IsFiniteSet(r)
    BY <2>1, <2>2, <2>3, FS_Subset
  <2>5. SumOver(r, h) = SumOver(r, f) + SumOver(r, g)
    BY <2>4
  <2>6. SumOver(r, f) \in Int /\ SumOver(r, g) \in Int
    BY <2>4, SumType
  <2>7. f[z] \in Int /\ g[z] \in Int /\ h[z] = f[z] + g[z]
    BY <2>2, <2>3
  <2>8. SumOver(t, h) # SumOver(t, f) + SumOver(t, g)
    BY <2>1
  <2> HIDE DEF r, z
  <2> QED
    BY <2>3, <2>5, <2>6, <2>7, <2>8
<1> QED
  BY <1>1

\* Less is added up to less.
LEMMA SumLess ==
  ASSUME NEW S, IsFiniteSet(S), NEW f, NEW g,
         \A x \in S : f[x] \in Int /\ g[x] \in Int /\ f[x] <= g[x]
  PROVE  SumOver(S, f) <= SumOver(S, g)
<1> DEFINE d == [x \in S |-> g[x] - f[x]]
<1>1. \A x \in S : d[x] \in Nat /\ g[x] = f[x] + d[x]
  OBVIOUS
<1> HIDE DEF d
<1>2. SumOver(S, g) = SumOver(S, f) + SumOver(S, d)
  BY <1>1, SumPlus
<1>3. SumOver(S, d) \in Nat /\ SumOver(S, f) \in Int
  BY <1>1, SumNat, SumType
<1> QED
  BY <1>2, <1>3

\* The sum over two sets that have nothing in common.
LEMMA SumUnion ==
  ASSUME NEW A, IsFiniteSet(A), NEW B, IsFiniteSet(B), A \cap B = {},
         NEW f, \A x \in A \cup B : f[x] \in Int
  PROVE  SumOver(A \cup B, f) = SumOver(A, f) + SumOver(B, f)
<1> DEFINE T == {s \in SUBSET B : SumOver(A \cup s, f) # SumOver(A, f) + SumOver(s, f)}
<1>1. ASSUME T # {} PROVE FALSE
  <2>1. PICK t \in T : \A u \in T : u \subseteq t => u = t
    <3>1. T \subseteq SUBSET B
      OBVIOUS
    <3> HIDE DEF T
    <3> QED
      BY <3>1, <1>1, Minimal
  <2>2. /\ t \subseteq B /\ IsFiniteSet(t) /\ IsFiniteSet(A \cup t)
        /\ SumOver(A \cup t, f) # SumOver(A, f) + SumOver(t, f)
    BY <2>1, FS_Subset, FS_Union
  <2>3. SumOver(A, f) \in Int
    BY SumType
  <2>4. t # {}
    <3>1. SumOver({}, f) = 0
      BY SumEmpty
    <3>2. ASSUME t = {} PROVE FALSE
      <4>1. A \cup t = A
        BY <3>2
      <4> QED
        BY <2>2, <2>3, <3>1, <3>2, <4>1
    <3> QED
      BY <3>2
  <2>5. PICK x \in t : TRUE
    BY <2>4
  <2>6. PICK r : r = t \ {x}
    OBVIOUS
  <2>7. r \notin T /\ r \subseteq B /\ IsFiniteSet(r)
    <3>1. r \subseteq t /\ r # t
      BY <2>5, <2>6
    <3> QED
      BY <2>1, <2>2, <3>1, FS_Subset
  <2>8. SumOver(A \cup r, f) = SumOver(A, f) + SumOver(r, f)
    BY <2>7
  <2>9. SumOver(t, f) = f[x] + SumOver(r, f)
    BY <2>2, <2>5, <2>6, SumTake
  <2>10. SumOver(A \cup t, f) = f[x] + SumOver(A \cup r, f)
    <3>1. (A \cup t) \ {x} = A \cup r
      BY <2>2, <2>5, <2>6
    <3>2. x \in A \cup t /\ \A y \in A \cup t : f[y] \in Int
      BY <2>2, <2>5
    <3> QED
      BY <2>2, <3>1, <3>2, SumTake
  <2>11. SumOver(r, f) \in Int /\ f[x] \in Int
    BY <2>2, <2>5, <2>7, SumType
  <2> QED
    BY <2>2, <2>3, <2>8, <2>9, <2>10, <2>11
<1>2. B \notin T
  BY <1>1
<1> QED
  BY <1>2

\* Elements without a value do not count.
LEMMA SumZero ==
  ASSUME NEW S, IsFiniteSet(S), NEW f, \A x \in S : f[x] = 0
  PROVE  SumOver(S, f) = 0
<1> DEFINE T == {s \in SUBSET S : SumOver(s, f) # 0}
<1>1. ASSUME T # {} PROVE FALSE
  <2>1. PICK t \in T : \A u \in T : u \subseteq t => u = t
    <3>1. T \subseteq SUBSET S
      OBVIOUS
    <3> HIDE DEF T
    <3> QED
      BY <3>1, <1>1, Minimal
  <2>2. t # {} /\ IsFiniteSet(t) /\ t \subseteq S /\ SumOver(t, f) # 0
    BY <2>1, SumEmpty, FS_Subset
  <2>3. One(t) \in t /\ SumOver(t, f) = f[One(t)] + SumOver(t \ {One(t)}, f)
    BY <2>2, SumOne
  <2>4. SumOver(t \ {One(t)}, f) = 0
    BY <2>1, <2>2, <2>3
  <2>5. f[One(t)] = 0
    BY <2>2, <2>3
  <2> QED
    BY <2>2, <2>3, <2>4, <2>5
<1> QED
  BY <1>1

\* In a finite set, a strict order has an element with nothing above it.
LEMMA HasTop ==
  ASSUME NEW S, IsFiniteSet(S), S # {}, NEW R,
         \A x \in S : <<x, x>> \notin R,
         \A x, y, z \in S : <<x, y>> \in R /\ <<y, z>> \in R => <<x, z>> \in R
  PROVE  \E x \in S : \A y \in S : <<x, y>> \notin R
<1> DEFINE T == {s \in SUBSET S : \E x \in S : s = {y \in S : <<x, y>> \in R}}
<1> SUFFICES ASSUME \A x \in S : \E y \in S : <<x, y>> \in R PROVE FALSE
  OBVIOUS
<1>1. T # {}
  <2>1. PICK x \in S : TRUE
    OBVIOUS
  <2>2. {y \in S : <<x, y>> \in R} \in T
    BY <2>1
  <2> QED
    BY <2>2
<1>2. PICK t \in T : \A u \in T : u \subseteq t => u = t
  <2>1. T \subseteq SUBSET S
    OBVIOUS
  <2> HIDE DEF T
  <2> QED
    BY <2>1, <1>1, Minimal
<1>3. PICK x \in S : t = {y \in S : <<x, y>> \in R}
  BY <1>2
<1>4. PICK z \in S : <<x, z>> \in R
  OBVIOUS
<1> DEFINE u == {y \in S : <<z, y>> \in R}
<1>5. u \in T /\ u \subseteq t /\ z \in t /\ z \notin u
  BY <1>3, <1>4
<1> QED
  BY <1>2, <1>5

\* A finite set of integers has a greatest element.
LEMMA HasMax ==
  ASSUME NEW S, IsFiniteSet(S), S \subseteq Int, S # {}
  PROVE  Max(S) \in S /\ \A y \in S : Max(S) >= y
<1> DEFINE R == {p \in S \X S : p[1] < p[2]}
<1>1. \A x, y \in S : <<x, y>> \in R <=> x < y
  OBVIOUS
<1> HIDE DEF R
<1>2. /\ \A x \in S : <<x, x>> \notin R
      /\ \A x, y, z \in S : <<x, y>> \in R /\ <<y, z>> \in R => <<x, z>> \in R
  BY <1>1
<1>3. PICK x \in S : \A y \in S : <<x, y>> \notin R
  BY <1>2, HasTop
<1>4. ASSUME NEW y \in S PROVE x >= y
  <2>1. ~ (x < y)
    BY <1>1, <1>3, Zenon
  <2> QED
    BY <2>1
<1> QED
  BY <1>4, Zenon DEF Max

\* A finite set of integers has a least element.
LEMMA HasMin ==
  ASSUME NEW S, IsFiniteSet(S), S \subseteq Int, S # {}
  PROVE  Min(S) \in S /\ \A y \in S : Min(S) <= y
<1> DEFINE R == {p \in S \X S : p[1] > p[2]}
<1>1. \A x, y \in S : <<x, y>> \in R <=> x > y
  OBVIOUS
<1> HIDE DEF R
<1>2. /\ \A x \in S : <<x, x>> \notin R
      /\ \A x, y, z \in S : <<x, y>> \in R /\ <<y, z>> \in R => <<x, z>> \in R
  BY <1>1
<1>3. PICK x \in S : \A y \in S : <<x, y>> \notin R
  BY <1>2, HasTop
<1>4. ASSUME NEW y \in S PROVE x <= y
  <2>1. ~ (x > y)
    BY <1>1, <1>3, Zenon
  <2> QED
    BY <2>1
<1> QED
  BY <1>4, Zenon DEF Min

\* A function takes finitely many values on a finite set.
LEMMA FiniteImage ==
  ASSUME NEW S, IsFiniteSet(S), NEW f
  PROVE  IsFiniteSet({f[x] : x \in S})
<1> DEFINE g == [x \in S |-> f[x]]
           V == {f[x] : x \in S}
<1>1. g \in Surjection(S, V)
  BY DEF Surjection
<1> QED
  BY <1>1, FS_Surjection

\* A sum counts the elements whose value is one, where no other has any.
LEMMA SumCount ==
  ASSUME NEW S, IsFiniteSet(S), NEW A, NEW f, \A x \in S : f[x] = IF x \in A THEN 1 ELSE 0
  PROVE  SumOver(S, f) = Cardinality(S \cap A)
<1> DEFINE T == {s \in SUBSET S : SumOver(s, f) # Cardinality(s \cap A)}
<1>1. ASSUME T # {} PROVE FALSE
  <2>1. PICK t \in T : \A u \in T : u \subseteq t => u = t
    <3>1. T \subseteq SUBSET S
      OBVIOUS
    <3> HIDE DEF T
    <3> QED
      BY <3>1, <1>1, Minimal
  <2>2. t # {} /\ IsFiniteSet(t) /\ t \subseteq S
    <3>1. t \in SUBSET S /\ SumOver(t, f) # Cardinality(t \cap A)
      BY <2>1
    <3>2. SumOver({}, f) = 0 /\ Cardinality({}) = 0
      BY SumEmpty, FS_EmptySet
    <3>3. t # {}
      <4> SUFFICES ASSUME t = {} PROVE FALSE
        OBVIOUS
      <4>1. t \cap A = {}
        OBVIOUS
      <4> QED
        BY <3>1, <3>2, <4>1
    <3> QED
      BY <3>1, <3>3, FS_Subset
  <2> DEFINE z == One(t)
             r == t \ {z}
  <2>3. z \in t /\ SumOver(t, f) = f[z] + SumOver(r, f)
    BY <2>2, SumOne
  <2>4. r \in SUBSET S /\ r \notin T
    BY <2>1, <2>2, <2>3
  <2>5. SumOver(r, f) = Cardinality(r \cap A)
    BY <2>4
  <2>6. IsFiniteSet(r \cap A) /\ Cardinality(r \cap A) \in Nat
    BY <2>2, FS_Subset, FS_CardinalityType
  <2>7. SumOver(t, f) # Cardinality(t \cap A)
    BY <2>1
  <2>8. CASE z \in A
    <3>1. t \cap A = (r \cap A) \cup {z} /\ z \notin r \cap A
      BY <2>3, <2>8
    <3>2. Cardinality(t \cap A) = Cardinality(r \cap A) + 1
      BY <2>6, <3>1, FS_AddElement
    <3>3. f[z] = 1
      BY <2>2, <2>3, <2>8
    <3> QED
      BY <2>3, <2>5, <2>6, <2>7, <3>2, <3>3
  <2>9. CASE z \notin A
    <3>1. t \cap A = r \cap A
      BY <2>3, <2>9
    <3>2. f[z] = 0
      BY <2>2, <2>3, <2>9
    <3> QED
      BY <2>3, <2>5, <2>6, <2>7, <3>1, <3>2
  <2> QED
    BY <2>8, <2>9
<1> QED
  BY <1>1

-----------------------------------------------------------------------------

\* Totals of a function.

LEMMA TotalType ==
  ASSUME NEW S, IsFiniteSet(S), NEW f \in [S -> Int]
  PROVE  Total(f) \in Int /\ Total(f) = SumOver(S, f)
  BY SumType DEF Total

\* When one element changes, the total changes by the difference.
LEMMA TotalChange ==
  ASSUME NEW S, IsFiniteSet(S), NEW f \in [S -> Int], NEW g \in [S -> Int],
         NEW x \in S, \A y \in S \ {x} : g[y] = f[y]
  PROVE  Total(g) = Total(f) - f[x] + g[x]
<1>1. SumOver(S, g) = SumOver(S, f) - f[x] + g[x]
  BY SumChange
<1>2. Total(f) = SumOver(S, f) /\ Total(g) = SumOver(S, g)
  BY DEF Total
<1> QED
  BY <1>1, <1>2

\* What one element gives and another gets stays in the total.
LEMMA TotalMove ==
  ASSUME NEW S, IsFiniteSet(S), NEW f \in [S -> Int], NEW g \in [S -> Int],
         NEW x \in S, NEW z \in S, x # z, f[x] + f[z] = g[x] + g[z],
         \A y \in S \ {x, z} : g[y] = f[y]
  PROVE  Total(g) = Total(f)
<1> DEFINE h == [f EXCEPT ![x] = g[x]]
<1>1. /\ h \in [S -> Int] /\ h[x] = g[x] /\ h[z] = f[z]
      /\ \A y \in S \ {x} : h[y] = f[y]
      /\ \A y \in S \ {z} : g[y] = h[y]
  OBVIOUS
<1> HIDE DEF h
<1>2. Total(h) = Total(f) - f[x] + h[x]
  BY <1>1, TotalChange
<1>3. Total(g) = Total(h) - h[z] + g[z]
  BY <1>1, TotalChange
<1>4. Total(f) \in Int /\ f[x] \in Int /\ f[z] \in Int /\ g[x] \in Int /\ g[z] \in Int
  BY TotalType
<1> QED
  BY <1>1, <1>2, <1>3, <1>4

\* Nothing anywhere is nothing in total.
LEMMA TotalZero ==
  ASSUME NEW S, IsFiniteSet(S)
  PROVE  Total([x \in S |-> 0]) = 0
  BY SumZero DEF Total
=============================================================================
