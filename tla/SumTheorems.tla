------------------------------ MODULE SumTheorems ------------------------------
(***************************************************************************)
(* What SumFunctionOnSet of the community modules computes over a finite   *)
(* set: nothing for the empty set, and one value more for every element,   *)
(* in whatever order the elements are taken.  The money of the ledgers is  *)
(* such a sum over refunds and payouts.                                    *)
(***************************************************************************)
EXTENDS Integers, FiniteSetsExt, FiniteSetTheorems, WellFoundedInduction, TLAPS

\* The element the library adds last.
Pick(s) == CHOOSE x \in s : TRUE

LEMMA PickIsElement ==
    ASSUME NEW s, s # {}
    PROVE  Pick(s) \in s
BY Zenon DEF Pick

\* g adds up the values of f over every part of S.
AddsUp(g, f, S) ==
    g = [s \in SUBSET S |-> IF s = {} THEN 0 ELSE f[Pick(s)] + g[s \ {Pick(s)}]]

\* Of some parts of a finite set, one contains no other.
LEMMA SmallestPart ==
    ASSUME NEW S, IsFiniteSet(S), NEW T, T \subseteq SUBSET S, T # {}
    PROVE  \E x \in T : \A y \in T : y \subseteq x => y = x
<1>1. IsWellFoundedOn(StrictSubsetOrdering(S), SUBSET S)
  BY FS_StrictSubsetOrderingWellFounded, FS_FiniteSubsetsOfFinite, Zenon
<1>2. PICK x \in T : \A y \in T : ~ (<<y, x>> \in StrictSubsetOrdering(S))
  BY <1>1, WFMin, Zenon
<1>3. \A y \in T : y \subseteq x => y = x
  BY <1>2 DEF StrictSubsetOrdering
<1> QED BY <1>3

\* One function adds up f over the parts of S, ...
LEMMA OneSum ==
    ASSUME NEW f, NEW S, IsFiniteSet(S), NEW g, AddsUp(g, f, S), NEW h, AddsUp(h, f, S)
    PROVE  g = h
<1> DEFINE T == {s \in SUBSET S : g[s] # h[s]}
<1>1. ASSUME T # {} PROVE FALSE
  <2>0. T \subseteq SUBSET S
    OBVIOUS
  <2>1. PICK x \in T : \A y \in T : y \subseteq x => y = x
    <3> HIDE DEF T
    <3> QED BY <1>1, <2>0, SmallestPart
  <2>2. x # {}
    BY DEF AddsUp
  <2>3. Pick(x) \in x
    BY <2>2, PickIsElement
  <2>4. g[x \ {Pick(x)}] = h[x \ {Pick(x)}]
    BY <2>1, <2>3
  <2> QED BY <2>2, <2>4 DEF AddsUp
<1>2. \A s \in SUBSET S : g[s] = h[s]
  BY <1>1
<1> QED BY <1>2 DEF AddsUp

\* ... and it is the one for the parts of a part.
LEMMA SumOfPart ==
    ASSUME NEW f, NEW S, NEW U, U \subseteq S, NEW g, AddsUp(g, f, S)
    PROVE  AddsUp([s \in SUBSET U |-> g[s]], f, U)
<1> DEFINE h == [s \in SUBSET U |-> g[s]]
<1>1. \A s \in SUBSET U : h[s] = IF s = {} THEN 0 ELSE f[Pick(s)] + h[s \ {Pick(s)}]
  BY DEF AddsUp
<1>2. h = [s \in SUBSET U |-> h[s]]
  OBVIOUS
<1> HIDE DEF h
<1>3. h = [s \in SUBSET U |-> IF s = {} THEN 0 ELSE f[Pick(s)] + h[s \ {Pick(s)}]]
  BY <1>1, <1>2
<1>4. AddsUp(h, f, U)
  BY <1>3 DEF AddsUp
<1> QED BY <1>4 DEF h

\* A finite set has such a function.
LEMMA SumExists ==
    ASSUME NEW f, NEW S, IsFiniteSet(S)
    PROVE  \E g : AddsUp(g, f, S)
<1> DEFINE T == {s \in SUBSET S : ~ \E g : AddsUp(g, f, s)}
<1>1. ASSUME T # {} PROVE FALSE
  <2>0. T \subseteq SUBSET S
    OBVIOUS
  <2>1. PICK x \in T : \A y \in T : y \subseteq x => y = x
    <3> HIDE DEF T
    <3> QED BY <1>1, <2>0, SmallestPart
  <2> DEFINE G(u) == CHOOSE g : AddsUp(g, f, u)
             g == [s \in SUBSET x |-> IF s = {} THEN 0
                                      ELSE f[Pick(s)] + G(s \ {Pick(s)})[s \ {Pick(s)}]]
  <2>2. \A u \in SUBSET x : u # x => AddsUp(G(u), f, u)
    BY <2>1, Zenon
  <2> HIDE DEF G
  <2>3. ASSUME NEW u \in SUBSET x, u # x
        PROVE  g[u] = G(u)[u]
    <3>1. CASE u = {}
      BY <3>1, <2>2, <2>3 DEF AddsUp
    <3>2. CASE u # {}
      <4> DEFINE v == u \ {Pick(u)}
      <4>1. Pick(u) \in u
        BY <3>2, PickIsElement
      <4>2. v \in SUBSET x /\ v # x /\ v \subseteq u /\ IsFiniteSet(v)
        BY <4>1, <2>1, FS_Subset
      <4>3. AddsUp(G(u), f, u) /\ AddsUp(G(v), f, v)
        BY <2>2, <2>3, <4>2
      <4>4. AddsUp([s \in SUBSET v |-> G(u)[s]], f, v)
        BY <4>2, <4>3, SumOfPart
      <4>5. [s \in SUBSET v |-> G(u)[s]] = G(v)
        BY <4>2, <4>3, <4>4, OneSum
      <4>6. G(u)[v] = G(v)[v]
        BY <4>5
      <4>7. G(u)[u] = f[Pick(u)] + G(u)[v]
        BY <4>3, <3>2 DEF AddsUp
      <4>8. g[u] = f[Pick(u)] + G(v)[v]
        BY <3>2
      <4> QED BY <4>6, <4>7, <4>8
    <3> QED BY <3>1, <3>2
  <2>4. \A s \in SUBSET x : g[s] = IF s = {} THEN 0 ELSE f[Pick(s)] + g[s \ {Pick(s)}]
    <3> SUFFICES ASSUME NEW s \in SUBSET x, s # {}
                 PROVE  g[s] = f[Pick(s)] + g[s \ {Pick(s)}]
      OBVIOUS
    <3>1. s \ {Pick(s)} \in SUBSET x /\ s \ {Pick(s)} # x
      BY PickIsElement
    <3>2. g[s \ {Pick(s)}] = G(s \ {Pick(s)})[s \ {Pick(s)}]
      BY <2>3, <3>1
    <3> QED BY <3>2
  <2>5. g = [s \in SUBSET x |-> g[s]]
    OBVIOUS
  <2> HIDE DEF g
  <2>6. AddsUp(g, f, x)
    BY <2>4, <2>5 DEF AddsUp
  <2> QED BY <2>1, <2>6
<1> QED BY <1>1

\* The library's sum, unfolded once.
LEMMA SumUnfolds ==
    ASSUME NEW f, NEW S, IsFiniteSet(S)
    PROVE  SumFunctionOnSet(f, S) =
               IF S = {} THEN 0
               ELSE f[Pick(S)] + SumFunctionOnSet(f, S \ {Pick(S)})
<1> DEFINE G(u) == CHOOSE g : AddsUp(g, f, u)
           U == S \ {Pick(S)}
<1>1. \A u : SumFunctionOnSet(f, u) = G(u)[u]
  BY Zenon DEF SumFunctionOnSet, FoldFunctionOnSet, MapThenFoldSet, AddsUp, Pick
<1>2. AddsUp(G(S), f, S)
  BY SumExists, Zenon
<1>3. IsFiniteSet(U)
  BY FS_Subset
<1>4. AddsUp(G(U), f, U)
  BY <1>3, SumExists, Zenon
<1> HIDE DEF G
<1>5. AddsUp([s \in SUBSET U |-> G(S)[s]], f, U)
  BY <1>2, SumOfPart
<1>6. [s \in SUBSET U |-> G(S)[s]] = G(U)
  BY <1>3, <1>4, <1>5, OneSum
<1>7. G(S)[U] = G(U)[U]
  BY <1>6
<1>8. G(S)[S] = IF S = {} THEN 0 ELSE f[Pick(S)] + G(S)[U]
  BY <1>2 DEF AddsUp
<1> QED BY <1>1, <1>7, <1>8

\* A sum of integers is one.
LEMMA SumType ==
    ASSUME NEW S, IsFiniteSet(S), NEW f, \A s \in S : f[s] \in Int
    PROVE  SumFunctionOnSet(f, S) \in Int
<1> DEFINE T == {s \in SUBSET S : SumFunctionOnSet(f, s) \notin Int}
<1>1. ASSUME T # {} PROVE FALSE
  <2>0. T \subseteq SUBSET S
    OBVIOUS
  <2>1. PICK x \in T : \A y \in T : y \subseteq x => y = x
    <3> HIDE DEF T
    <3> QED BY <1>1, <2>0, SmallestPart
  <2> DEFINE y == x \ {Pick(x)}
  <2>2. SumFunctionOnSet(f, x) = IF x = {} THEN 0 ELSE f[Pick(x)] + SumFunctionOnSet(f, y)
    BY <2>1, FS_Subset, SumUnfolds
  <2>3. x # {} /\ Pick(x) \in x
    BY <2>2, PickIsElement
  <2>4. SumFunctionOnSet(f, y) \in Int
    BY <2>1, <2>3
  <2> QED BY <2>2, <2>3, <2>4
<1> QED BY <1>1

\* Any element may be added last.
LEMMA SumAdds ==
    ASSUME NEW S, IsFiniteSet(S), NEW f, \A s \in S : f[s] \in Int, NEW e \in S
    PROVE  SumFunctionOnSet(f, S) = f[e] + SumFunctionOnSet(f, S \ {e})
<1> DEFINE Sum(s) == SumFunctionOnSet(f, s)
           T == {s \in SUBSET S : \E d \in s : Sum(s) # f[d] + Sum(s \ {d})}
<1>0. \A s \in SUBSET S : IsFiniteSet(s) /\ Sum(s) \in Int
  BY FS_Subset, SumType
<1>1. ASSUME T # {} PROVE FALSE
  <2>0. T \subseteq SUBSET S
    OBVIOUS
  <2>1. PICK x \in T : \A y \in T : y \subseteq x => y = x
    <3> HIDE DEF T
    <3> QED BY <1>1, <2>0, SmallestPart
  <2>2. PICK d \in x : Sum(x) # f[d] + Sum(x \ {d})
    BY <2>1
  <2> DEFINE p == Pick(x)
  <2>3. p \in x
    BY <2>2, PickIsElement
  <2>4. Sum(x) = f[p] + Sum(x \ {p})
    BY <1>0, <2>1, <2>2, SumUnfolds
  <2>a. \A y \in SUBSET x : y # x => \A e2 \in y : Sum(y) = f[e2] + Sum(y \ {e2})
    BY <2>1, Zenon
  <2> HIDE DEF p, Sum
  <2>5. d # p
    BY <2>2, <2>4
  <2>6. Sum(x \ {p}) = f[d] + Sum((x \ {p}) \ {d})
    <3>1. x \ {p} \in SUBSET x /\ x \ {p} # x /\ d \in x \ {p}
      BY <2>2, <2>3, <2>5
    <3> QED BY <3>1, <2>a, Zenon
  <2>7. Sum(x \ {d}) = f[p] + Sum((x \ {d}) \ {p})
    <3>1. x \ {d} \in SUBSET x /\ x \ {d} # x /\ p \in x \ {d}
      BY <2>2, <2>3, <2>5
    <3> QED BY <3>1, <2>a, Zenon
  <2>8. (x \ {p}) \ {d} = (x \ {d}) \ {p}
    OBVIOUS
  <2>9. PICK a \in Int, b \in Int, q \in Int :
            a = f[d] /\ b = f[p] /\ q = Sum((x \ {p}) \ {d})
    BY <1>0, <2>1, <2>3
  <2>10. Sum(x) = b + (a + q) /\ Sum(x \ {d}) = b + q
    BY <2>4, <2>6, <2>7, <2>8, <2>9, Zenon
  <2>11. b + (a + q) = a + (b + q)
    OBVIOUS
  <2> QED BY <2>2, <2>9, <2>10, <2>11, Zenon
<1> QED BY <1>1

\* The sum depends on the values over the set only.
LEMMA SameSum ==
    ASSUME NEW S, IsFiniteSet(S), NEW f, NEW g, \A s \in S : f[s] = g[s]
    PROVE  SumFunctionOnSet(f, S) = SumFunctionOnSet(g, S)
<1> DEFINE T == {s \in SUBSET S : SumFunctionOnSet(f, s) # SumFunctionOnSet(g, s)}
<1>1. ASSUME T # {} PROVE FALSE
  <2>0. T \subseteq SUBSET S
    OBVIOUS
  <2>1. PICK x \in T : \A y \in T : y \subseteq x => y = x
    <3> HIDE DEF T
    <3> QED BY <1>1, <2>0, SmallestPart
  <2> DEFINE y == x \ {Pick(x)}
  <2>2. /\ SumFunctionOnSet(f, x) = IF x = {} THEN 0 ELSE f[Pick(x)] + SumFunctionOnSet(f, y)
        /\ SumFunctionOnSet(g, x) = IF x = {} THEN 0 ELSE g[Pick(x)] + SumFunctionOnSet(g, y)
    BY <2>1, FS_Subset, SumUnfolds
  <2>3. x # {} /\ Pick(x) \in x
    BY <2>1, <2>2, PickIsElement
  <2>4. SumFunctionOnSet(f, y) = SumFunctionOnSet(g, y)
    BY <2>1, <2>3
  <2> QED BY <2>1, <2>2, <2>3, <2>4
<1> QED BY <1>1

\* A sum of naturals is one.
LEMMA SumOfNaturals ==
    ASSUME NEW S, IsFiniteSet(S), NEW f, \A s \in S : f[s] \in Nat
    PROVE  SumFunctionOnSet(f, S) \in Nat
<1> DEFINE T == {s \in SUBSET S : SumFunctionOnSet(f, s) \notin Nat}
<1>1. ASSUME T # {} PROVE FALSE
  <2>0. T \subseteq SUBSET S
    OBVIOUS
  <2>1. PICK x \in T : \A y \in T : y \subseteq x => y = x
    <3> HIDE DEF T
    <3> QED BY <1>1, <2>0, SmallestPart
  <2> DEFINE y == x \ {Pick(x)}
  <2>2. SumFunctionOnSet(f, x) = IF x = {} THEN 0 ELSE f[Pick(x)] + SumFunctionOnSet(f, y)
    BY <2>1, FS_Subset, SumUnfolds
  <2>3. x # {} /\ Pick(x) \in x
    BY <2>2, PickIsElement
  <2>4. SumFunctionOnSet(f, y) \in Nat
    BY <2>1, <2>3
  <2> QED BY <2>2, <2>3, <2>4
<1> QED BY <1>1

LEMMA SumOfNothing ==
    ASSUME NEW f
    PROVE  SumFunctionOnSet(f, {}) = 0
BY SumUnfolds, FS_EmptySet

\* A new element adds its value, whatever the function is elsewhere.
LEMMA SumOfMore ==
    ASSUME NEW S, IsFiniteSet(S), NEW f, \A s \in S : f[s] \in Int,
           NEW e, e \notin S, NEW g, \A s \in S : g[s] = f[s], g[e] \in Int
    PROVE  SumFunctionOnSet(g, S \union {e}) = g[e] + SumFunctionOnSet(f, S)
<1> DEFINE U == S \union {e}
<1>1. IsFiniteSet(U)
  BY FS_AddElement
<1>2. \A s \in U : g[s] \in Int
  OBVIOUS
<1>3. U \ {e} = S /\ e \in U
  OBVIOUS
<1> HIDE DEF U
<1>4. SumFunctionOnSet(g, U) = g[e] + SumFunctionOnSet(g, U \ {e})
  BY <1>1, <1>2, <1>3, SumAdds
<1>5. SumFunctionOnSet(f, S) = SumFunctionOnSet(g, S)
  BY SameSum
<1> QED BY <1>3, <1>4, <1>5 DEF U

\* Fewer naturals add up to no more.
LEMMA SumOfLess ==
    ASSUME NEW S, IsFiniteSet(S), NEW f, \A s \in S : f[s] \in Nat, NEW e
    PROVE  /\ SumFunctionOnSet(f, S \ {e}) \in Nat
           /\ SumFunctionOnSet(f, S \ {e}) <= SumFunctionOnSet(f, S)
<1>1. IsFiniteSet(S \ {e})
  BY FS_RemoveElement
<1>2. SumFunctionOnSet(f, S \ {e}) \in Nat
  BY <1>1, SumOfNaturals
<1>3. CASE e \in S
  <2>1. SumFunctionOnSet(f, S) = f[e] + SumFunctionOnSet(f, S \ {e})
    BY <1>3, SumAdds
  <2> QED BY <1>2, <1>3, <2>1
<1>4. CASE e \notin S
  <2>1. S \ {e} = S
    BY <1>4
  <2> QED BY <1>2, <2>1
<1> QED BY <1>3, <1>4
===============================================================================
