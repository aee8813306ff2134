----------------------------------- MODULE Sums -----------------------------------
(***************************************************************************)
(* Facts about SumFunctionOnSet of the community modules for functions     *)
(* with natural values, on finite sets: what the totals of the models are  *)
(* computed with.  The induction is over finite subsets, by a minimal      *)
(* counterexample.                                                         *)
(***************************************************************************)
EXTENDS Integers, Functions, FiniteSetTheorems, TLAPS

\* A set of subsets of a finite set has a minimal element.
LEMMA MinimalSubset ==
  ASSUME NEW S, IsFiniteSet(S), NEW F \in SUBSET (SUBSET S), F # {}
  PROVE  \E U \in F : \A V \in F : V \subseteq U => V = U
<1> DEFINE R == StrictSubsetOrdering(S)
<1>1. IsWellFoundedOn(R, FiniteSubsetsOf(S))
  BY FS_StrictSubsetOrderingWellFounded
<1>2. F \subseteq FiniteSubsetsOf(S)
  BY FS_FiniteSubsetsOfFinite
<1> HIDE DEF R
<1>3. PICK U \in F : \A V \in F : <<V, U>> \notin R
  BY <1>1, <1>2, WFMin
<1>4. ASSUME NEW V \in F, V \subseteq U PROVE V = U
  BY <1>3, <1>4 DEF R, StrictSubsetOrdering
<1> QED
  BY <1>4

-----------------------------------------------------------------------------
\* The fold's recursion

Pick(s) == CHOOSE x \in s : TRUE
Step(h, g, s) == IF s = {} THEN 0 ELSE h[Pick(s)] + g[s \ {Pick(s)}]
Sums(h, S, g) == g = [s \in SUBSET S |-> Step(h, g, s)]
Iter(h, S) == CHOOSE g : Sums(h, S, g)

LEMMA SumIsIter ==
  ASSUME NEW h, NEW S
  PROVE  SumFunctionOnSet(h, S) = Iter(h, S)[S]
  BY Zenon DEF SumFunctionOnSet, FoldFunctionOnSet, MapThenFoldSet, Iter, Sums,
               Step, Pick

LEMMA Picked == ASSUME NEW s, s # {} PROVE Pick(s) \in s
  BY DEF Pick

\* Two functions that follow the recursion agree where both are defined.
LEMMA SumsAgree ==
  ASSUME NEW h, NEW S, IsFiniteSet(S), NEW T, IsFiniteSet(T),
         NEW f, Sums(h, S, f), NEW g, Sums(h, T, g)
  PROVE  \A s \in SUBSET (S \cap T) : f[s] = g[s]
<1> DEFINE Bad == {s \in SUBSET (S \cap T) : f[s] # g[s]}
<1> SUFFICES ASSUME Bad # {} PROVE FALSE
  OBVIOUS
<1>1. IsFiniteSet(S \cap T)
  BY FS_Intersection
<1>2. PICK U \in Bad : \A V \in Bad : V \subseteq U => V = U
  <2>1. Bad \in SUBSET (SUBSET (S \cap T))
    OBVIOUS
  <2> HIDE DEF Bad
  <2> QED
    BY <1>1, <2>1, MinimalSubset
<1>3. f[U] = Step(h, f, U) /\ g[U] = Step(h, g, U)
  BY <1>2 DEF Sums
<1>4. CASE U = {}
  BY <1>2, <1>3, <1>4 DEF Step
<1>5. CASE U # {}
  <2>1. Pick(U) \in U
    BY <1>5, Picked
  <2>2. U \ {Pick(U)} \notin Bad
    BY <1>2, <2>1
  <2>3. f[U \ {Pick(U)}] = g[U \ {Pick(U)}]
    BY <1>2, <2>2
  <2> QED
    BY <1>2, <1>3, <1>5, <2>3 DEF Step
<1> QED
  BY <1>4, <1>5

\* On a finite set there is such a function, so the fold's CHOOSE finds one.
LEMMA IterSums ==
  ASSUME NEW h, NEW S, IsFiniteSet(S)
  PROVE  Sums(h, S, Iter(h, S))
<1> DEFINE Bad == {s \in SUBSET S : ~ Sums(h, s, Iter(h, s))}
<1> SUFFICES ASSUME Bad # {} PROVE FALSE
  OBVIOUS
<1>1. PICK U \in Bad : \A V \in Bad : V \subseteq U => V = U
  <2>1. Bad \in SUBSET (SUBSET S)
    OBVIOUS
  <2> HIDE DEF Bad
  <2> QED
    BY <2>1, MinimalSubset
<1>2. \A V \in SUBSET U : IsFiniteSet(V)
  BY <1>1, FS_Subset
<1>3. \A V \in SUBSET U : V # U => Sums(h, V, Iter(h, V))
  BY <1>1
<1> DEFINE Less(s) == s \ {Pick(s)}
           g == [s \in SUBSET U |->
                   IF s = {} THEN 0
                   ELSE h[Pick(s)] + Iter(h, Less(s))[Less(s)]]
<1>4. ASSUME NEW s \in SUBSET U, s # {}
      PROVE  g[Less(s)] = Iter(h, Less(s))[Less(s)]
  <2> DEFINE t == Less(s)
  <2>1. t \in SUBSET U /\ t # U
    BY <1>4, Picked
  <2>2. Iter(h, t)[t] = Step(h, Iter(h, t), t)
    <3>1. Sums(h, t, Iter(h, t)) /\ t \in SUBSET t
      BY <1>3, <2>1
    <3> HIDE DEF t
    <3> QED
      BY <3>1 DEF Sums
  <2>3. CASE t = {}
    BY <2>1, <2>2, <2>3 DEF Step
  <2>4. CASE t # {}
    <3>1. Pick(t) \in t
      BY <2>4, Picked
    <3>2. Less(t) \in SUBSET U /\ Less(t) # U /\ Less(t) \in SUBSET (t \cap Less(t))
      BY <2>1, <3>1
    <3> HIDE DEF t, g
    <3>3. Iter(h, t)[Less(t)] = Iter(h, Less(t))[Less(t)]
      BY <1>2, <1>3, <2>1, <3>2, SumsAgree
    <3>4. g[t] = h[Pick(t)] + Iter(h, Less(t))[Less(t)]
      BY <2>1, <2>4 DEF g
    <3>5. g[t] = Iter(h, t)[t]
      BY <2>2, <2>4, <3>3, <3>4 DEF Step
    <3> QED
      BY <3>5 DEF t
  <2> QED
    BY <2>3, <2>4
<1>5. \A s \in SUBSET U : g[s] = Step(h, g, s)
  <2> HIDE DEF g
  <2>1. \A s \in SUBSET U : s = {} => g[s] = 0
    BY DEF g
  <2>2. \A s \in SUBSET U : s # {} => g[s] = h[Pick(s)] + Iter(h, Less(s))[Less(s)]
    BY DEF g
  <2> QED
    BY <1>4, <2>1, <2>2 DEF Step
<1>6. g = [s \in SUBSET U |-> Step(h, g, s)]
  <2>1. g = [s \in SUBSET U |-> g[s]]
    OBVIOUS
  <2> HIDE DEF g
  <2> QED
    BY <1>5, <2>1, Zenon
<1>7. Sums(h, U, g)
  <2> HIDE DEF g
  <2> QED
    BY <1>6 DEF Sums
<1>8. Sums(h, U, Iter(h, U))
  <2> HIDE DEF g
  <2> QED
    BY <1>7, Zenon DEF Iter
<1> QED
  BY <1>1, <1>8

-----------------------------------------------------------------------------
\* What a reader of the models knows of sums

\* Nothing amounts to nothing.
LEMMA SumEmpty == ASSUME NEW h PROVE SumFunctionOnSet(h, {}) = 0
<1>1. Sums(h, {}, Iter(h, {}))
  BY IterSums, FS_EmptySet
<1> QED
  BY <1>1, SumIsIter DEF Sums, Step

LEMMA SumPick ==
  ASSUME NEW h, NEW S, IsFiniteSet(S), S # {}
  PROVE  SumFunctionOnSet(h, S) =
           h[Pick(S)] + SumFunctionOnSet(h, S \ {Pick(S)})
<1> DEFINE T == S \ {Pick(S)}
<1>1. IsFiniteSet(T) /\ T \in SUBSET (S \cap T)
  BY FS_RemoveElement
<1>2. Sums(h, S, Iter(h, S)) /\ Sums(h, T, Iter(h, T))
  BY <1>1, IterSums
<1>3. Iter(h, S)[S] = h[Pick(S)] + Iter(h, S)[T]
  BY <1>2 DEF Sums, Step
<1> HIDE DEF T
<1>4. Iter(h, S)[T] = Iter(h, T)[T]
  BY <1>1, <1>2, SumsAgree
<1> QED
  BY <1>3, <1>4, SumIsIter DEF T

\* A sum of naturals is one.
LEMMA SumNat ==
  ASSUME NEW S, IsFiniteSet(S), NEW h, \A x \in S : h[x] \in Nat
  PROVE  SumFunctionOnSet(h, S) \in Nat
<1> DEFINE Bad == {s \in SUBSET S : SumFunctionOnSet(h, s) \notin Nat}
<1> SUFFICES ASSUME Bad # {} PROVE FALSE
  OBVIOUS
<1>1. PICK U \in Bad : \A V \in Bad : V \subseteq U => V = U
  <2>1. Bad \in SUBSET (SUBSET S)
    OBVIOUS
  <2> HIDE DEF Bad
  <2> QED
    BY <2>1, MinimalSubset
<1>2. U # {} /\ IsFiniteSet(U)
  <2>1. SumFunctionOnSet(h, {}) \in Nat
    BY SumEmpty
  <2> QED
    BY <1>1, <2>1, FS_Subset
<1>3. Pick(U) \in U
  BY <1>2, Picked
<1>4. SumFunctionOnSet(h, U \ {Pick(U)}) \in Nat
  BY <1>1, <1>3
<1>5. h[Pick(U)] \in Nat
  BY <1>1, <1>3
<1> HIDE DEF Bad
<1>6. SumFunctionOnSet(h, U) \in Nat
  BY <1>2, <1>4, <1>5, SumPick
<1> QED
  BY <1>1, <1>6 DEF Bad

\* The sum is the same whichever element is taken out first.
LEMMA SumRemove ==
  ASSUME NEW S, IsFiniteSet(S), NEW h, \A x \in S : h[x] \in Nat, NEW y \in S
  PROVE  SumFunctionOnSet(h, S) = h[y] + SumFunctionOnSet(h, S \ {y})
<1> DEFINE Sum(s) == SumFunctionOnSet(h, s)
           Bad == {s \in SUBSET S : \E x \in s : Sum(s) # h[x] + Sum(s \ {x})}
<1> SUFFICES ASSUME Bad # {} PROVE FALSE
  OBVIOUS
<1>1. PICK U \in Bad : \A V \in Bad : V \subseteq U => V = U
  <2>1. Bad \in SUBSET (SUBSET S)
    OBVIOUS
  <2> HIDE DEF Bad
  <2> QED
    BY <2>1, MinimalSubset
<1>2. PICK x \in U : Sum(U) # h[x] + Sum(U \ {x})
  BY <1>1
<1> DEFINE p == Pick(U)
<1>3. U \in SUBSET S /\ p \in U
  BY <1>1, <1>2, Picked
<1>4. \A s \in SUBSET U : IsFiniteSet(s) /\ Sum(s) \in Nat
  BY <1>3, FS_Subset, SumNat
<1>5. Sum(U) = h[p] + Sum(U \ {p})
  BY <1>2, <1>4, SumPick
<1>6. x # p
  BY <1>2, <1>5
<1>7. \A s \in SUBSET U : s # U => \A z \in s : Sum(s) = h[z] + Sum(s \ {z})
  BY <1>1
<1> HIDE DEF Sum, Bad, p
<1>8. Sum(U \ {p}) = h[x] + Sum((U \ {p}) \ {x})
  BY <1>2, <1>3, <1>6, <1>7
<1>9. Sum(U \ {x}) = h[p] + Sum((U \ {x}) \ {p})
  BY <1>2, <1>3, <1>6, <1>7
<1>10. (U \ {p}) \ {x} = (U \ {x}) \ {p}
  OBVIOUS
<1>11. /\ h[x] \in Nat /\ h[p] \in Nat
       /\ Sum((U \ {x}) \ {p}) \in Nat
  <2>1. (U \ {x}) \ {p} \in SUBSET U
    OBVIOUS
  <2> QED
    BY <1>2, <1>3, <1>4, <2>1
<1> QED
  BY <1>2, <1>5, <1>8, <1>9, <1>10, <1>11

\* One more element.
LEMMA SumAdd ==
  ASSUME NEW S, IsFiniteSet(S), NEW y, y \notin S,
         NEW h, \A x \in S \cup {y} : h[x] \in Nat
  PROVE  SumFunctionOnSet(h, S \cup {y}) = h[y] + SumFunctionOnSet(h, S)
<1>1. IsFiniteSet(S \cup {y}) /\ (S \cup {y}) \ {y} = S
  BY FS_AddElement
<1> QED
  BY <1>1, SumRemove

\* The sum depends on the values at the elements, and on nothing else.
LEMMA SumEqual ==
  ASSUME NEW S, IsFiniteSet(S), NEW f, NEW g, \A x \in S : f[x] = g[x]
  PROVE  SumFunctionOnSet(f, S) = SumFunctionOnSet(g, S)
<1> DEFINE Bad == {s \in SUBSET S :
                     SumFunctionOnSet(f, s) # SumFunctionOnSet(g, s)}
<1> SUFFICES ASSUME Bad # {} PROVE FALSE
  OBVIOUS
<1>1. PICK U \in Bad : \A V \in Bad : V \subseteq U => V = U
  <2>1. Bad \in SUBSET (SUBSET S)
    OBVIOUS
  <2> HIDE DEF Bad
  <2> QED
    BY <2>1, MinimalSubset
<1>2. U # {} /\ IsFiniteSet(U)
  BY <1>1, SumEmpty, FS_Subset
<1>3. Pick(U) \in U
  BY <1>2, Picked
<1>4. SumFunctionOnSet(f, U \ {Pick(U)}) = SumFunctionOnSet(g, U \ {Pick(U)})
  BY <1>1, <1>3
<1>5. f[Pick(U)] = g[Pick(U)]
  BY <1>1, <1>3
<1> HIDE DEF Bad
<1>6. SumFunctionOnSet(f, U) = SumFunctionOnSet(g, U)
  BY <1>2, <1>4, <1>5, SumPick
<1> QED
  BY <1>1, <1>6 DEF Bad
=============================================================================
