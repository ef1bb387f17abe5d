----------------------------- MODULE FiniteSums -------------------------------
(***************************************************************************)
(* Facts about sums over finite sets that the proofs of the ledger need:   *)
(* MapThenSumSet of the community modules is a recursive function on the   *)
(* subsets of its set.  What holds of every finite set is shown by a       *)
(* counterexample that no smaller set shares.                              *)
(***************************************************************************)
EXTENDS Integers, FiniteSetTheorems, TLAPS

\* The element a sum takes next.
Pick(s) == CHOOSE x \in s : TRUE

\* g sums up f over the subsets of S, the way MapThenSumSet does.
IsSum(g, f, S) ==
  g = [s \in SUBSET S |-> IF s = {} THEN 0 ELSE f[Pick(s)] + g[s \ {Pick(s)}]]

\* The sum of f over S.
Total(f, S) == (CHOOSE g : IsSum(g, f, S))[S]

\* The subsets of a finite set, ordered by inclusion, have no infinite descent.
LEMMA SubsetsWellFounded ==
  ASSUME NEW S, IsFiniteSet(S)
  PROVE  IsWellFoundedOn(StrictSubsetOrdering(S), SUBSET S)
  BY FS_FiniteSubsetsOfFinite, FS_StrictSubsetOrderingWellFounded, Zenon

\* Induction over the subsets of a finite set: what holds of a set whenever it
\* holds of all that are smaller holds of every subset.
LEMMA SubsetInduction ==
  ASSUME NEW S, IsFiniteSet(S), NEW Good,
         \A t \in SUBSET S : (\A s \in SUBSET t : s # t => s \in Good) => t \in Good
  PROVE  SUBSET S \subseteq Good
<1>. DEFINE Below == StrictSubsetOrdering(S)
            Bad == (SUBSET S) \ Good
<1>. SUFFICES ASSUME Bad # {} PROVE FALSE
  OBVIOUS
<1>1. IsWellFoundedOn(Below, SUBSET S)
  BY SubsetsWellFounded
<1>2. PICK t \in Bad : \A s \in Bad : <<s, t>> \notin Below
  <2>1. Bad \subseteq SUBSET S /\ Bad # {}
    OBVIOUS
  <2>. HIDE DEF Below, Bad
  <2>. QED  BY ONLY <1>1, <2>1, WFMin, Zenon
<1>3. ASSUME NEW s \in SUBSET t, s # t
      PROVE  s \in Good
  BY <1>2, <1>3 DEF StrictSubsetOrdering
<1>. QED  BY <1>3

\* What is taken out leaves a smaller set.
LEMMA PickRest ==
  ASSUME NEW s, s # {}
  PROVE  Pick(s) \in s /\ s \ {Pick(s)} \subseteq s /\ s \ {Pick(s)} # s
  BY DEF Pick

\* One step of a sum.
LEMMA SumStep ==
  ASSUME NEW g, NEW f, NEW S, IsSum(g, f, S), NEW s \in SUBSET S
  PROVE  g[s] = IF s = {} THEN 0 ELSE f[Pick(s)] + g[s \ {Pick(s)}]
<1>. DEFINE V(x) == IF x = {} THEN 0 ELSE f[Pick(x)] + g[x \ {Pick(x)}]
<1>1. g = [x \in SUBSET S |-> V(x)]
  BY DEF IsSum
<1>. HIDE DEF V
<1>2. g[s] = V(s)
  BY <1>1
<1>. QED  BY <1>2 DEF V

\* Two sums agree wherever both are defined.
LEMMA SumUnique ==
  ASSUME NEW S, IsFiniteSet(S), NEW T, NEW f, NEW g, NEW h,
         IsSum(g, f, S), IsSum(h, f, T), NEW s \in (SUBSET S) \cap (SUBSET T)
  PROVE  g[s] = h[s]
<1>. DEFINE Good == {t \in SUBSET S : t \in SUBSET T => g[t] = h[t]}
<1>1. ASSUME NEW t \in SUBSET S, \A r \in SUBSET t : r # t => r \in Good, t \in SUBSET T
      PROVE  g[t] = h[t]
  <2>1. g[t] = IF t = {} THEN 0 ELSE f[Pick(t)] + g[t \ {Pick(t)}]
    BY SumStep
  <2>2. h[t] = IF t = {} THEN 0 ELSE f[Pick(t)] + h[t \ {Pick(t)}]
    BY <1>1, SumStep
  <2>3. CASE t = {}
    BY <2>1, <2>2, <2>3
  <2>4. CASE t # {}
    <3>. DEFINE u == t \ {Pick(t)}
    <3>1. u \subseteq t /\ u # t
      BY <2>4, PickRest
    <3>2. g[u] = h[u]
      BY <1>1, <3>1
    <3>. QED  BY <2>1, <2>2, <2>4, <3>2
  <2>. QED  BY <2>3, <2>4
<1>2. \A t \in SUBSET S : (\A r \in SUBSET t : r # t => r \in Good) => t \in Good
  BY <1>1
<1>3. SUBSET S \subseteq Good
  <2>. HIDE DEF Good
  <2>. QED  BY <1>2, SubsetInduction
<1>. QED  BY <1>3

\* Every finite set has a sum.
LEMMA SumExists ==
  ASSUME NEW S, IsFiniteSet(S), NEW f
  PROVE  \E g : IsSum(g, f, S)
<1>. DEFINE Good == {t \in SUBSET S : \E g : IsSum(g, f, t)}
<1>1. ASSUME NEW t \in SUBSET S, \A r \in SUBSET t : r # t => r \in Good
      PROVE  \E g : IsSum(g, f, t)
  <2>. DEFINE Part(s) == CHOOSE g : IsSum(g, f, s)
              h == [s \in SUBSET t |->
                     IF s = {} THEN 0 ELSE f[Pick(s)] + Part(s \ {Pick(s)})[s \ {Pick(s)}]]
  <2>1. ASSUME NEW s \in SUBSET t, s # t
        PROVE  IsSum(Part(s), f, s)
    <3>1. \E g : IsSum(g, f, s)
      BY <1>1, <2>1
    <3>. QED  BY <3>1
  <2>. HIDE DEF Part
  <2>2. ASSUME NEW s \in SUBSET t, s # t
        PROVE  h[s] = Part(s)[s]
    <3>1. Part(s)[s] = IF s = {} THEN 0 ELSE f[Pick(s)] + Part(s)[s \ {Pick(s)}]
      BY <2>1, <2>2, SumStep
    <3>2. CASE s = {}
      BY <3>1, <3>2
    <3>3. CASE s # {}
      <4>. DEFINE u == s \ {Pick(s)}
      <4>1. u \in SUBSET s /\ u # s /\ u \in SUBSET t /\ u # t
        BY <3>3, PickRest
      <4>2. IsSum(Part(u), f, u) /\ IsSum(Part(s), f, s)
        BY <2>1, <2>2, <4>1
      <4>3. IsFiniteSet(s)
        BY FS_Subset
      <4>4. Part(s)[u] = Part(u)[u]
        <5>. HIDE DEF u
        <5>. QED  BY <4>1, <4>2, <4>3, SumUnique
      <4>5. h[s] = f[Pick(s)] + Part(u)[u]
        BY <3>3
      <4>. QED  BY <3>1, <3>3, <4>4, <4>5
    <3>. QED  BY <3>2, <3>3
  <2>3. ASSUME NEW s \in SUBSET t
        PROVE  h[s] = IF s = {} THEN 0 ELSE f[Pick(s)] + h[s \ {Pick(s)}]
    <3>1. CASE s = {}
      BY <3>1
    <3>2. CASE s # {}
      <4>. DEFINE u == s \ {Pick(s)}
      <4>1. u \in SUBSET t /\ u # t
        BY <3>2, PickRest
      <4>2. h[u] = Part(u)[u]
        BY <2>2, <4>1
      <4>3. h[s] = f[Pick(s)] + Part(u)[u]
        BY <3>2
      <4>. QED  BY <3>2, <4>2, <4>3
    <3>. QED  BY <3>1, <3>2
  <2>4. h = [s \in SUBSET t |-> h[s]]
    OBVIOUS
  <2>5. IsSum(h, f, t)
    <3>. HIDE DEF h
    <3>. QED  BY <2>3, <2>4 DEF IsSum
  <2>. QED  BY <2>5
<1>2. \A t \in SUBSET S : (\A r \in SUBSET t : r # t => r \in Good) => t \in Good
  BY <1>1
<1>3. SUBSET S \subseteq Good
  <2>. HIDE DEF Good
  <2>. QED  BY <1>2, SubsetInduction
<1>. QED  BY <1>3

\* Any sum over a finite set gives the totals of its subsets.
LEMMA TotalOf ==
  ASSUME NEW S, IsFiniteSet(S), NEW f, NEW g, IsSum(g, f, S), NEW s \in SUBSET S
  PROVE  g[s] = Total(f, s)
<1>. DEFINE h == CHOOSE k : IsSum(k, f, s)
<1>1. IsFiniteSet(s)
  BY FS_Subset
<1>2. IsSum(h, f, s)
  BY <1>1, SumExists
<1>3. Total(f, s) = h[s]
  BY DEF Total
<1>. HIDE DEF h
<1>. QED  BY <1>2, <1>3, SumUnique

\* The total of a finite set, element by element.
LEMMA TotalStep ==
  ASSUME NEW S, IsFiniteSet(S), NEW f
  PROVE  Total(f, S) = IF S = {} THEN 0 ELSE f[Pick(S)] + Total(f, S \ {Pick(S)})
<1>1. PICK g : IsSum(g, f, S)
  BY SumExists
<1>2. g[S] = IF S = {} THEN 0 ELSE f[Pick(S)] + g[S \ {Pick(S)}]
  BY <1>1, SumStep
<1>3. g[S] = Total(f, S) /\ g[S \ {Pick(S)}] = Total(f, S \ {Pick(S)})
  BY <1>1, TotalOf
<1>. QED  BY <1>2, <1>3

\* A total of natural numbers is one.
LEMMA TotalType ==
  ASSUME NEW S, IsFiniteSet(S), NEW f, \A x \in S : f[x] \in Nat
  PROVE  Total(f, S) \in Nat
<1>. DEFINE Good == {t \in SUBSET S : Total(f, t) \in Nat}
<1>1. ASSUME NEW t \in SUBSET S, \A r \in SUBSET t : r # t => r \in Good
      PROVE  Total(f, t) \in Nat
  <2>1. Total(f, t) = IF t = {} THEN 0 ELSE f[Pick(t)] + Total(f, t \ {Pick(t)})
    BY FS_Subset, TotalStep
  <2>2. CASE t # {}
    <3>1. Pick(t) \in S /\ Total(f, t \ {Pick(t)}) \in Nat
      BY <1>1, <2>2, PickRest
    <3>. QED  BY <2>1, <2>2, <3>1
  <2>. QED  BY <2>1, <2>2
<1>2. \A t \in SUBSET S : (\A r \in SUBSET t : r # t => r \in Good) => t \in Good
  BY <1>1
<1>3. SUBSET S \subseteq Good
  <2>. HIDE DEF Good
  <2>. QED  BY <1>2, SubsetInduction
<1>. QED  BY <1>3

\* Any element may be taken first.
LEMMA TotalRemove ==
  ASSUME NEW S, IsFiniteSet(S), NEW f, \A x \in S : f[x] \in Nat, NEW e \in S
  PROVE  Total(f, S) = f[e] + Total(f, S \ {e})
<1>. DEFINE Good == {t \in SUBSET S : \A x \in t : Total(f, t) = f[x] + Total(f, t \ {x})}
<1>1. ASSUME NEW t \in SUBSET S, \A r \in SUBSET t : r # t => r \in Good, NEW x \in t
      PROVE  Total(f, t) = f[x] + Total(f, t \ {x})
  <2>. DEFINE c == Pick(t)
              u == (t \ {x}) \ {c}
  <2>1. c \in t
    BY PickRest
  <2>2. Total(f, t) = f[c] + Total(f, t \ {c})
    BY FS_Subset, TotalStep
  <2>. HIDE DEF c
  <2>3. CASE x = c
    BY <2>2, <2>3
  <2>4. CASE x # c
    <3>1. /\ t \ {c} \in Good /\ x \in t \ {c}
          /\ t \ {x} \in Good /\ c \in t \ {x}
      BY <1>1, <2>1, <2>4
    <3>2. (t \ {c}) \ {x} = u
      OBVIOUS
    <3>3. Total(f, t \ {c}) = f[x] + Total(f, u)
      BY <3>1, <3>2
    <3>4. Total(f, t \ {x}) = f[c] + Total(f, u)
      BY <3>1
    <3>5. f[x] \in Nat /\ f[c] \in Nat /\ Total(f, u) \in Nat
      BY <2>1, FS_Subset, TotalType
    <3>. QED  BY ONLY <2>2, <3>3, <3>4, <3>5
  <2>. QED  BY <2>3, <2>4
<1>2. \A t \in SUBSET S : (\A r \in SUBSET t : r # t => r \in Good) => t \in Good
  BY <1>1
<1>3. SUBSET S \subseteq Good
  <2>. HIDE DEF Good
  <2>. QED  BY <1>2, SubsetInduction
<1>. QED  BY <1>3

\* What is at most as much for every element is so in total.
LEMMA TotalMonotone ==
  ASSUME NEW S, IsFiniteSet(S), NEW f, NEW g,
         \A x \in S : f[x] \in Nat /\ g[x] \in Nat /\ f[x] <= g[x]
  PROVE  Total(f, S) <= Total(g, S)
<1>. DEFINE Good == {t \in SUBSET S : Total(f, t) <= Total(g, t)}
<1>1. ASSUME NEW t \in SUBSET S, \A r \in SUBSET t : r # t => r \in Good
      PROVE  Total(f, t) <= Total(g, t)
  <2>1. /\ Total(f, t) = IF t = {} THEN 0 ELSE f[Pick(t)] + Total(f, t \ {Pick(t)})
        /\ Total(g, t) = IF t = {} THEN 0 ELSE g[Pick(t)] + Total(g, t \ {Pick(t)})
    BY FS_Subset, TotalStep
  <2>2. CASE t = {}
    BY <2>1, <2>2
  <2>3. CASE t # {}
    <3>. DEFINE c == Pick(t)
                u == t \ {Pick(t)}
    <3>1. c \in S /\ u \in SUBSET t /\ u # t
      BY <2>3, PickRest
    <3>2. Total(f, u) <= Total(g, u)
      BY <1>1, <3>1
    <3>3. Total(f, u) \in Nat /\ Total(g, u) \in Nat
      BY FS_Subset, TotalType
    <3>4. f[c] \in Nat /\ g[c] \in Nat /\ f[c] <= g[c]
      BY <3>1
    <3>5. Total(f, t) = f[c] + Total(f, u) /\ Total(g, t) = g[c] + Total(g, u)
      BY <2>1, <2>3
    <3>. QED  BY ONLY <3>2, <3>3, <3>4, <3>5
  <2>. QED  BY <2>2, <2>3
<1>2. \A t \in SUBSET S : (\A r \in SUBSET t : r # t => r \in Good) => t \in Good
  BY <1>1
<1>3. SUBSET S \subseteq Good
  <2>. HIDE DEF Good
  <2>. QED  BY <1>2, SubsetInduction
<1>. QED  BY <1>3

\* The total depends on the values in the set only.
LEMMA TotalSame ==
  ASSUME NEW S, IsFiniteSet(S), NEW f, NEW g, \A x \in S : f[x] \in Nat /\ f[x] = g[x]
  PROVE  Total(f, S) = Total(g, S)
<1>1. Total(f, S) <= Total(g, S) /\ Total(g, S) <= Total(f, S)
  BY TotalMonotone
<1>2. Total(f, S) \in Nat /\ Total(g, S) \in Nat
  BY TotalType
<1>. QED  BY <1>1, <1>2

\* Fewer elements have at most the same total.
LEMMA TotalSubset ==
  ASSUME NEW S, IsFiniteSet(S), NEW T \in SUBSET S, NEW f, \A x \in S : f[x] \in Nat
  PROVE  Total(f, T) <= Total(f, S)
<1>. DEFINE Good == {t \in SUBSET S : T \subseteq t => Total(f, T) <= Total(f, t)}
<1>1. ASSUME NEW t \in SUBSET S, \A r \in SUBSET t : r # t => r \in Good, T \subseteq t
      PROVE  Total(f, T) <= Total(f, t)
  <2>0. Total(f, t) \in Nat /\ Total(f, T) \in Nat
    BY FS_Subset, TotalType
  <2>1. CASE t = T
    BY <2>0, <2>1
  <2>2. CASE t # T
    <3>1. PICK x \in t : x \notin T
      BY <1>1, <2>2
    <3>2. Total(f, T) <= Total(f, t \ {x})
      BY <1>1, <3>1
    <3>3. Total(f, t) = f[x] + Total(f, t \ {x})
      BY FS_Subset, TotalRemove
    <3>4. f[x] \in Nat /\ Total(f, t \ {x}) \in Nat
      BY FS_Subset, TotalType
    <3>. QED  BY ONLY <2>0, <3>2, <3>3, <3>4
  <2>. QED  BY <2>1, <2>2
<1>2. \A t \in SUBSET S : (\A r \in SUBSET t : r # t => r \in Good) => t \in Good
  BY <1>1
<1>3. SUBSET S \subseteq Good
  <2>. HIDE DEF Good
  <2>. QED  BY <1>2, SubsetInduction
<1>. QED  BY <1>3
===============================================================================
