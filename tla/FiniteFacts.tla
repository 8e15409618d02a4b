---------------------------- MODULE FiniteFacts ----------------------------
(***************************************************************************)
(* Facts about finite sets: what SumFunctionOnSet of the community modules *)
(* computes, one value per element whatever the order of the additions;    *)
(* least and greatest members; images; and strict total orders, with the   *)
(* rank of a member.  Inductions over finite sets have the form of a       *)
(* smallest counterexample.                                                *)
(***************************************************************************)
EXTENDS Integers, Sequences, Functions, FiniteSets, FiniteSetsExt, FiniteSetTheorems,
        SequenceTheorems, WellFoundedInduction, TLAPS


Pick(s) == CHOOSE x \in s : TRUE

\* The recursion of SumFunctionOnSet, by which g gives the sum of every subset.
IsIteration(g, f, S) ==
    g = [s \in SUBSET S |-> IF s = {} THEN 0 ELSE f[Pick(s)] + g[s \ {Pick(s)}]]
Iteration(f, S) == CHOOSE g : IsIteration(g, f, S)

\* SumFunctionOnSet is that recursion.
LEMMA SumIs ==
  ASSUME NEW f, NEW S
  PROVE  SumFunctionOnSet(f, S) = Iteration(f, S)[S]
BY DEF SumFunctionOnSet, FoldFunctionOnSet, MapThenFoldSet, Iteration, IsIteration, Pick

\* Among subsets of a finite set there is one with no smaller one.
LEMMA Smallest ==
  ASSUME NEW U, IsFiniteSet(U), NEW T, T \subseteq SUBSET U, T # {}
  PROVE  \E m \in T : \A s \in T : s \subseteq m => s = m
<1>1. IsWellFoundedOn(StrictSubsetOrdering(U), FiniteSubsetsOf(U))
  BY FS_StrictSubsetOrderingWellFounded
<1>2. T \subseteq FiniteSubsetsOf(U)
  BY FS_Subset DEF FiniteSubsetsOf
<1>3. PICK m \in T : \A s \in T : <<s, m>> \notin StrictSubsetOrdering(U)
  BY <1>1, <1>2, WFMin
<1> QED
  BY <1>3 DEF StrictSubsetOrdering

\* Among subsets given by the members of a finite set, one is no larger than any.
LEMMA SmallestOf ==
  ASSUME NEW S, IsFiniteSet(S), S # {}, NEW B, \A k \in S : B[k] \subseteq S
  PROVE  \E k \in S : \A y \in S : B[y] \subseteq B[k] => B[y] = B[k]
<1> DEFINE T == {s \in SUBSET S : \E k \in S : s = B[k]}
<1>1. PICK m \in T : \A s \in T : s \subseteq m => s = m
  <2> T \subseteq SUBSET S
    OBVIOUS
  <2> T # {}
    OBVIOUS
  <2> HIDE DEF T
  <2> QED
    BY Smallest
<1>2. PICK k \in S : m = B[k]
  OBVIOUS
<1>3. \A y \in S : B[y] \in T
  OBVIOUS
<1> HIDE DEF T
<1> QED
  BY <1>1, <1>2, <1>3

\* A finite set of numbers has a least member.
LEMMA LeastMember ==
  ASSUME NEW S, IsFiniteSet(S), S # {}
  PROVE  S \subseteq Nat => \E m \in S : \A y \in S : m <= y
<1> DEFINE B == [k \in S |-> {j \in S : j < k}]
<1>1. \A k \in S : B[k] \subseteq S
  OBVIOUS
<1>2. PICK k \in S : \A y \in S : B[y] \subseteq B[k] => B[y] = B[k]
  <2> HIDE DEF B
  <2> QED
    BY <1>1, SmallestOf
<1> SUFFICES ASSUME S \subseteq Nat
             PROVE  \E m \in S : \A y \in S : m <= y
  OBVIOUS
<1>3. ASSUME NEW y \in S, y < k
      PROVE  FALSE
  <2>1. \A j \in S : j < y => j < k
    BY <1>3
  <2>2. B[y] \subseteq B[k]
    BY <2>1
  <2>3. y \in B[k] /\ y \notin B[y]
    BY <1>3
  <2> HIDE DEF B
  <2> QED
    BY <1>2, <2>2, <2>3
<1> QED
  BY <1>3

\* A finite set of numbers has a greatest member.
LEMMA GreatestMember ==
  ASSUME NEW S, IsFiniteSet(S), S # {}
  PROVE  S \subseteq Nat => \E m \in S : \A y \in S : y <= m
<1> DEFINE B == [k \in S |-> {j \in S : k < j}]
<1>1. \A k \in S : B[k] \subseteq S
  OBVIOUS
<1>2. PICK k \in S : \A y \in S : B[y] \subseteq B[k] => B[y] = B[k]
  <2> HIDE DEF B
  <2> QED
    BY <1>1, SmallestOf
<1> SUFFICES ASSUME S \subseteq Nat
             PROVE  \E m \in S : \A y \in S : y <= m
  OBVIOUS
<1>3. ASSUME NEW y \in S, k < y
      PROVE  FALSE
  <2>1. \A j \in S : y < j => k < j
    BY <1>3
  <2>2. B[y] \subseteq B[k]
    BY <2>1
  <2>3. y \in B[k] /\ y \notin B[y]
    BY <1>3
  <2> HIDE DEF B
  <2> QED
    BY <1>2, <2>2, <2>3
<1> QED
  BY <1>3

\* Two iterations agree wherever both are defined.
LEMMA IterationUnique ==
  ASSUME NEW f, NEW S, IsFiniteSet(S), NEW R, NEW g, NEW h,
         IsIteration(g, f, S), IsIteration(h, f, R),
         NEW V, V \subseteq S, V \subseteq R
  PROVE  g[V] = h[V]
<1> DEFINE T == {s \in SUBSET S : s \subseteq R /\ g[s] # h[s]}
<1> SUFFICES ASSUME T # {} PROVE FALSE
  OBVIOUS
<1>1. PICK m \in T : \A s \in T : s \subseteq m => s = m
  <2> T \subseteq SUBSET S
    OBVIOUS
  <2> HIDE DEF T
  <2> QED
    BY Smallest
<1>2. m # {} => Pick(m) \in m /\ g[m \ {Pick(m)}] = h[m \ {Pick(m)}]
  BY <1>1 DEF Pick
<1>3. g[m] = IF m = {} THEN 0 ELSE f[Pick(m)] + g[m \ {Pick(m)}]
  BY DEF IsIteration
<1>4. h[m] = IF m = {} THEN 0 ELSE f[Pick(m)] + h[m \ {Pick(m)}]
  BY DEF IsIteration
<1> QED
  BY <1>2, <1>3, <1>4

\* Every finite set has an iteration.
LEMMA IterationExists ==
  ASSUME NEW f, NEW S, IsFiniteSet(S)
  PROVE  IsIteration(Iteration(f, S), f, S)
<1> DEFINE T == {s \in SUBSET S : ~ \E g : IsIteration(g, f, s)}
<1>1. SUFFICES ASSUME T # {} PROVE FALSE
  BY DEF Iteration
<1>2. PICK m \in T : \A s \in T : s \subseteq m => s = m
  <2> T \subseteq SUBSET S
    OBVIOUS
  <2> HIDE DEF T
  <2> QED
    BY <1>1, Smallest
<1>3. \A s \in SUBSET m : s # m => IsIteration(Iteration(f, s), f, s)
  BY <1>2 DEF Iteration
<1> DEFINE rest(s) == s \ {Pick(s)}
           g == [s \in SUBSET m |->
                    IF s = {} THEN 0 ELSE f[Pick(s)] + Iteration(f, rest(s))[rest(s)]]
<1>4. ASSUME NEW s \in SUBSET m, s # {}
      PROVE  g[rest(s)] = Iteration(f, rest(s))[rest(s)]
  <2> DEFINE t == rest(s)
  <2>1. t \in SUBSET m /\ t # m /\ IsFiniteSet(t)
    BY <1>4, FS_Subset DEF Pick
  <2>2. CASE t = {}
    <3>1. IsIteration(Iteration(f, t), f, t)
      BY <1>3, <2>1
    <3>2. Iteration(f, t)[t] = 0
      <4> HIDE DEF t
      <4> QED
        BY <3>1, <2>2 DEF IsIteration
    <3>3. g[t] = 0
      BY <2>1, <2>2
    <3> QED
      BY <3>2, <3>3
  <2>3. CASE t # {}
    <3>1. rest(t) \in SUBSET t /\ rest(t) # m /\ IsFiniteSet(rest(t))
      BY <2>1, FS_Subset
    <3>2. IsIteration(Iteration(f, t), f, t) /\ IsIteration(Iteration(f, rest(t)), f, rest(t))
      BY <1>3, <2>1, <3>1
    <3>3. Iteration(f, t)[rest(t)] = Iteration(f, rest(t))[rest(t)]
      <4> HIDE DEF t, rest
      <4> QED
        BY <2>1, <3>1, <3>2, IterationUnique
    <3>4. Iteration(f, t)[t] = f[Pick(t)] + Iteration(f, t)[rest(t)]
      BY <3>2, <2>3 DEF IsIteration
    <3> QED
      BY <2>1, <2>3, <3>3, <3>4
  <2> QED
    BY <2>2, <2>3
<1>5. IsIteration(g, f, m)
  BY <1>4 DEF IsIteration
<1> QED
  BY <1>2, <1>5

\* The sum of nothing is 0, and of a set the value of the element picked first
\* and the sum of the others.
LEMMA SumEmpty ==
  ASSUME NEW f
  PROVE  SumFunctionOnSet(f, {}) = 0
<1>1. IsIteration(Iteration(f, {}), f, {})
  BY IterationExists, FS_EmptySet
<1> QED
  BY <1>1, SumIs DEF IsIteration

\* The sum takes one member at a time.
LEMMA SumPicks ==
  ASSUME NEW f, NEW S, IsFiniteSet(S), S # {}
  PROVE  /\ Pick(S) \in S
         /\ SumFunctionOnSet(f, S) = f[Pick(S)] + SumFunctionOnSet(f, S \ {Pick(S)})
<1> DEFINE R == S \ {Pick(S)}
<1>1. Pick(S) \in S
  BY DEF Pick
<1>2. IsIteration(Iteration(f, S), f, S)
  BY IterationExists
<1>3. IsFiniteSet(R) /\ R \subseteq S
  BY FS_Subset
<1>4. IsIteration(Iteration(f, R), f, R)
  BY <1>3, IterationExists
<1>5. Iteration(f, S)[R] = Iteration(f, R)[R]
  <2> HIDE DEF R
  <2> QED
    BY <1>2, <1>3, <1>4, IterationUnique
<1>6. Iteration(f, S)[S] = f[Pick(S)] + Iteration(f, S)[R]
  BY <1>2 DEF IsIteration
<1> QED
  BY <1>1, <1>5, <1>6, SumIs

\* A sum of integers is an integer.
LEMMA SumType ==
  ASSUME NEW f, NEW S, IsFiniteSet(S), \A x \in S : f[x] \in Int
  PROVE  SumFunctionOnSet(f, S) \in Int
<1> DEFINE T == {s \in SUBSET S : SumFunctionOnSet(f, s) \notin Int}
<1>1. SUFFICES ASSUME T # {} PROVE FALSE
  OBVIOUS
<1>2. PICK m \in T : \A s \in T : s \subseteq m => s = m
  <2> T \subseteq SUBSET S
    OBVIOUS
  <2> HIDE DEF T
  <2> QED
    BY <1>1, Smallest
<1>3. m # {}
  BY SumEmpty
<1>4. IsFiniteSet(m)
  BY FS_Subset
<1>5. Pick(m) \in m /\ SumFunctionOnSet(f, m) = f[Pick(m)] + SumFunctionOnSet(f, m \ {Pick(m)})
  BY <1>3, <1>4, SumPicks
<1>6. SumFunctionOnSet(f, m \ {Pick(m)}) \in Int
  BY <1>2, <1>5
<1> QED
  BY <1>5, <1>6

\* Any element can be taken out of a sum first.
LEMMA SumSplits ==
  ASSUME NEW f, NEW S, IsFiniteSet(S), \A x \in S : f[x] \in Int, NEW e \in S
  PROVE  SumFunctionOnSet(f, S) = f[e] + SumFunctionOnSet(f, S \ {e})
<1> DEFINE sum(s) == SumFunctionOnSet(f, s)
           T == {s \in SUBSET S : \E x \in s : sum(s) # f[x] + sum(s \ {x})}
<1>1. SUFFICES ASSUME T # {} PROVE FALSE
  OBVIOUS
<1>2. PICK m \in T : \A s \in T : s \subseteq m => s = m
  <2> T \subseteq SUBSET S
    OBVIOUS
  <2> HIDE DEF T
  <2> QED
    BY <1>1, Smallest
<1>3. PICK x \in m : sum(m) # f[x] + sum(m \ {x})
  BY <1>2
<1> DEFINE c == Pick(m)
<1>4. \A s \in SUBSET m : IsFiniteSet(s) /\ sum(s) \in Int
  <2>1. \A s \in SUBSET m : IsFiniteSet(s) /\ \A y \in s : f[y] \in Int
    BY FS_Subset
  <2> QED
    BY <2>1, SumType
<1>5. c \in m /\ sum(m) = f[c] + sum(m \ {c})
  BY <1>4, <1>3, SumPicks
<1>6. c # x
  BY <1>3, <1>5
<1>10. \A s \in SUBSET m : s # m => \A y \in s : sum(s) = f[y] + sum(s \ {y})
  BY <1>2
<1>11. f[x] \in Int /\ f[c] \in Int
  BY <1>5
<1> HIDE DEF sum, c, T
<1>12. sum((m \ {x}) \ {c}) \in Int
  BY <1>4
<1>7. sum(m \ {c}) = f[x] + sum((m \ {c}) \ {x})
  BY <1>10, <1>5, <1>6
<1>8. sum(m \ {x}) = f[c] + sum((m \ {x}) \ {c})
  BY <1>10, <1>5, <1>6
<1>9. (m \ {c}) \ {x} = (m \ {x}) \ {c}
  OBVIOUS
<1>13. sum(m) = f[c] + (f[x] + sum((m \ {x}) \ {c}))
  BY <1>5, <1>7, <1>9
<1>14. sum(m) # f[x] + (f[c] + sum((m \ {x}) \ {c}))
  BY <1>3, <1>8
<1> QED
  BY <1>11, <1>12, <1>13, <1>14

\* A sum depends on the values at its set only.
LEMMA SumCongruent ==
  ASSUME NEW f, NEW g, NEW S, IsFiniteSet(S), \A x \in S : f[x] = g[x]
  PROVE  SumFunctionOnSet(f, S) = SumFunctionOnSet(g, S)
<1> DEFINE T == {s \in SUBSET S : SumFunctionOnSet(f, s) # SumFunctionOnSet(g, s)}
<1>1. SUFFICES ASSUME T # {} PROVE FALSE
  OBVIOUS
<1>2. PICK m \in T : \A s \in T : s \subseteq m => s = m
  <2> T \subseteq SUBSET S
    OBVIOUS
  <2> HIDE DEF T
  <2> QED
    BY <1>1, Smallest
<1>3. m # {}
  BY SumEmpty
<1>4. IsFiniteSet(m)
  BY FS_Subset
<1>5. /\ Pick(m) \in m
      /\ SumFunctionOnSet(f, m) = f[Pick(m)] + SumFunctionOnSet(f, m \ {Pick(m)})
      /\ SumFunctionOnSet(g, m) = g[Pick(m)] + SumFunctionOnSet(g, m \ {Pick(m)})
  BY <1>3, <1>4, SumPicks
<1>6. SumFunctionOnSet(f, m \ {Pick(m)}) = SumFunctionOnSet(g, m \ {Pick(m)})
  BY <1>2, <1>5
<1> QED
  BY <1>5, <1>6

\* A sum of natural numbers is one, and no smaller than any of them.
LEMMA SumNat ==
  ASSUME NEW f, NEW S, IsFiniteSet(S), \A x \in S : f[x] \in Nat
  PROVE  /\ SumFunctionOnSet(f, S) \in Nat
         /\ \A x \in S : f[x] <= SumFunctionOnSet(f, S)
<1> DEFINE T == {s \in SUBSET S : SumFunctionOnSet(f, s) \notin Nat}
<1>1. ASSUME T # {} PROVE FALSE
  <2>1. PICK m \in T : \A s \in T : s \subseteq m => s = m
    <3> T \subseteq SUBSET S
      OBVIOUS
    <3> HIDE DEF T
    <3> QED
      BY <1>1, Smallest
  <2>2. m # {} /\ IsFiniteSet(m)
    <3>1. SumFunctionOnSet(f, m) # 0
      BY <2>1
    <3> QED
      BY <2>1, <3>1, SumEmpty, FS_Subset
  <2>3. /\ Pick(m) \in m
        /\ SumFunctionOnSet(f, m) = f[Pick(m)] + SumFunctionOnSet(f, m \ {Pick(m)})
    BY <2>2, SumPicks
  <2>4. SumFunctionOnSet(f, m \ {Pick(m)}) \in Nat
    BY <2>1, <2>3
  <2> QED
    BY <2>3, <2>4
<1>2. \A s \in SUBSET S : SumFunctionOnSet(f, s) \in Nat
  BY <1>1
<1>3. ASSUME NEW x \in S
      PROVE  f[x] <= SumFunctionOnSet(f, S)
  <2>1. SumFunctionOnSet(f, S) = f[x] + SumFunctionOnSet(f, S \ {x})
    BY SumSplits
  <2>2. SumFunctionOnSet(f, S \ {x}) \in Nat
    BY <1>2
  <2> QED
    BY <2>1, <2>2
<1> QED
  BY <1>2, <1>3

\* A change of one value changes the sum by as much.
LEMMA SumChanges ==
  ASSUME NEW f, NEW g, NEW S, IsFiniteSet(S), NEW e \in S,
         \A x \in S : f[x] \in Int /\ g[x] \in Int,
         \A x \in S \ {e} : f[x] = g[x]
  PROVE  SumFunctionOnSet(g, S) = SumFunctionOnSet(f, S) + g[e] - f[e]
<1>1. IsFiniteSet(S \ {e})
  BY FS_Subset
<1>2. SumFunctionOnSet(f, S) = f[e] + SumFunctionOnSet(f, S \ {e})
  BY SumSplits
<1>3. SumFunctionOnSet(g, S) = g[e] + SumFunctionOnSet(g, S \ {e})
  BY SumSplits
<1>4. SumFunctionOnSet(f, S \ {e}) = SumFunctionOnSet(g, S \ {e})
  BY <1>1, SumCongruent
<1>5. SumFunctionOnSet(f, S \ {e}) \in Int
  BY <1>1, SumType
<1> QED
  BY <1>2, <1>3, <1>4, <1>5

\* A sum of zeros is 0.
LEMMA SumZero ==
  ASSUME NEW f, NEW S, IsFiniteSet(S), \A x \in S : f[x] = 0
  PROVE  SumFunctionOnSet(f, S) = 0
<1> DEFINE T == {s \in SUBSET S : SumFunctionOnSet(f, s) # 0}
<1>1. SUFFICES ASSUME T # {} PROVE FALSE
  OBVIOUS
<1>2. PICK m \in T : \A s \in T : s \subseteq m => s = m
  <2> T \subseteq SUBSET S
    OBVIOUS
  <2> HIDE DEF T
  <2> QED
    BY <1>1, Smallest
<1>3. m # {} /\ IsFiniteSet(m)
  BY SumEmpty, FS_Subset
<1>4. Pick(m) \in m /\ SumFunctionOnSet(f, m) = f[Pick(m)] + SumFunctionOnSet(f, m \ {Pick(m)})
  BY <1>3, SumPicks
<1>5. SumFunctionOnSet(f, m \ {Pick(m)}) = 0
  BY <1>2, <1>4
<1> QED
  BY <1>4, <1>5

\* A sum of positive numbers is positive.
LEMMA SumPositive ==
  ASSUME NEW S, IsFiniteSet(S), S # {}, NEW f, \A x \in S : f[x] \in Nat /\ f[x] > 0
  PROVE  SumFunctionOnSet(f, S) \in Nat /\ SumFunctionOnSet(f, S) > 0
<1>1. /\ Pick(S) \in S
      /\ SumFunctionOnSet(f, S) = f[Pick(S)] + SumFunctionOnSet(f, S \ {Pick(S)})
  BY SumPicks
<1>2. IsFiniteSet(S \ {Pick(S)})
  BY FS_RemoveElement
<1>3. SumFunctionOnSet(f, S \ {Pick(S)}) \in Nat
  BY <1>2, SumNat
<1> QED
  BY <1>1, <1>3

-----------------------------------------------------------------------------
(* Images and extremes *)

\* The values of a function on a finite set are finitely many.
LEMMA FiniteImage ==
  ASSUME NEW S, IsFiniteSet(S), NEW f
  PROVE  /\ IsFiniteSet({f[x] : x \in S})
         /\ Cardinality({f[x] : x \in S}) <= Cardinality(S)
<1> DEFINE T == {f[x] : x \in S}
           g == [x \in S |-> f[x]]
<1>1. g \in Surjection(S, T)
  BY DEF Surjection
<1> HIDE DEF g, T
<1>2. IsFiniteSet(T) /\ Cardinality(T) <= Cardinality(S)
  BY <1>1, FS_Surjection
<1> QED
  BY <1>2 DEF T

\* Max and Min of the community modules find what they look for.
LEMMA Extremes ==
  ASSUME NEW S, IsFiniteSet(S), S # {}, S \subseteq Nat
  PROVE  /\ Max(S) \in S /\ Max(S) \in Nat
         /\ Min(S) \in S /\ \A y \in S : Min(S) <= y
<1>1. \E m \in S : \A y \in S : m >= y
  BY GreatestMember
<1>2. \E m \in S : \A y \in S : m <= y
  BY LeastMember
<1> QED
  BY <1>1, <1>2 DEF Max, Min

\* The first n numbers are n.
LEMMA CountTo ==
  ASSUME NEW n \in Nat
  PROVE  IsFiniteSet(1 .. n) /\ Cardinality(1 .. n) = n
  BY FS_Interval

-----------------------------------------------------------------------------
(* Orders *)

\* before[x] is what precedes x in a strict total order of S.
Orders(before, S) ==
    /\ before \in [S -> SUBSET S]
    /\ \A x \in S : x \notin before[x]
    /\ \A x, y \in S : x = y \/ x \in before[y] \/ y \in before[x]
    /\ \A x, y \in S : x \in before[y] => before[x] \subseteq before[y]

\* Ranks are numbers below the size of the set, and tell its members apart.
LEMMA Ranks ==
  ASSUME NEW S, IsFiniteSet(S), NEW before, Orders(before, S)
  PROVE  /\ \A x \in S : Cardinality(before[x]) \in 0 .. Cardinality(S) - 1
         /\ \A x, y \in S : Cardinality(before[x]) = Cardinality(before[y]) => x = y
         /\ \A x, y \in S : x \in before[y] => Cardinality(before[x]) < Cardinality(before[y])
<1>1. \A x \in S : IsFiniteSet(before[x]) /\ Cardinality(before[x]) \in Nat
  <2> TAKE x \in S
  <2>1. before[x] \in SUBSET S
    BY DEF Orders
  <2> QED
    BY <2>1, FS_Subset, FS_CardinalityType
<1>2. ASSUME NEW x \in S
      PROVE  Cardinality(before[x]) \in 0 .. Cardinality(S) - 1
  <2>1. before[x] \in SUBSET S /\ before[x] # S
    BY DEF Orders
  <2>2. Cardinality(before[x]) <= Cardinality(S) /\ Cardinality(before[x]) # Cardinality(S)
    BY <2>1, FS_Subset
  <2> QED
    BY <1>1, <2>2, FS_CardinalityType
<1>3. ASSUME NEW x \in S, NEW y \in S, x \in before[y]
      PROVE  Cardinality(before[x]) < Cardinality(before[y])
  <2>1. before[x] \in SUBSET before[y] /\ before[x] # before[y]
    BY <1>3 DEF Orders
  <2>2. /\ Cardinality(before[x]) <= Cardinality(before[y])
        /\ Cardinality(before[x]) # Cardinality(before[y])
    BY <1>1, <2>1, FS_Subset
  <2> QED
    BY <1>1, <2>2
<1>4. ASSUME NEW x \in S, NEW y \in S, Cardinality(before[x]) = Cardinality(before[y])
      PROVE  x = y
  <2>1. x = y \/ x \in before[y] \/ y \in before[x]
    BY DEF Orders
  <2> QED
    BY <1>1, <1>3, <1>4, <2>1
<1> QED
  BY <1>2, <1>3, <1>4

\* No more than k members have fewer than k before them.
LEMMA RanksBelow ==
  ASSUME NEW S, IsFiniteSet(S), NEW before, Orders(before, S), NEW k \in Int
  PROVE  LET F == {x \in S : Cardinality(before[x]) < k}
         IN  /\ IsFiniteSet(F)
             /\ Cardinality(F) <= IF k < 0 THEN 0 ELSE k
<1> DEFINE F == {x \in S : Cardinality(before[x]) < k}
           f == [x \in F |-> Cardinality(before[x]) + 1]
<1>1. f \in [F -> 1 .. k]
  BY Ranks
<1>2. f \in Injection(F, 1 .. k)
  <2>1. \A x, y \in F : f[x] = f[y] => x = y
    BY Ranks
  <2> QED
    BY <1>1, <2>1 DEF Injection, IsInjective
<1>3. IsFiniteSet(1 .. k) /\ Cardinality(1 .. k) = IF 1 > k THEN 0 ELSE k
  BY FS_Interval
<1>4. IsFiniteSet(F) /\ Cardinality(F) <= Cardinality(1 .. k)
  <2> HIDE DEF f, F
  <2> QED
    BY <1>2, <1>3, FS_Injection
<1> QED
  BY <1>3, <1>4

\* Some member has none before it.
LEMMA FirstOnes ==
  ASSUME NEW S, IsFiniteSet(S), S # {}, NEW before, Orders(before, S)
  PROVE  \E x \in S : before[x] = {}
<1>1. PICK x \in S : \A y \in S : before[y] \subseteq before[x] => before[y] = before[x]
  BY SmallestOf DEF Orders
<1>2. ASSUME NEW y \in before[x]
      PROVE  FALSE
  BY <1>1 DEF Orders
<1> QED
  BY <1>2

\* Every rank below the size of the set is the one of a member.
LEMMA RanksFilled ==
  ASSUME NEW S, IsFiniteSet(S), NEW before, Orders(before, S)
  PROVE  \A i \in 1 .. Cardinality(S) : \E x \in S : Cardinality(before[x]) = i - 1
<1> DEFINE T == 1 .. Cardinality(S)
           f == [x \in S |-> Cardinality(before[x]) + 1]
<1>1. Cardinality(S) \in Nat
  BY FS_CardinalityType
<1>2. f \in [S -> T]
  BY <1>1, Ranks
<1>3. f \in Injection(S, T)
  <2>1. \A x, y \in S : f[x] = f[y] => x = y
    BY Ranks
  <2> QED
    BY <1>2, <2>1 DEF Injection, IsInjective
<1>4. IsFiniteSet(T) /\ Cardinality(T) = Cardinality(S)
  BY <1>1, FS_Interval
<1>5. f \in Surjection(S, T)
  <2> HIDE DEF f, T
  <2> QED
    BY <1>3, <1>4, FS_Injection
<1>6. \A i \in T : \E x \in S : f[x] = i
  BY <1>5 DEF Surjection
<1>7. ASSUME NEW i \in T
      PROVE  \E x \in S : Cardinality(before[x]) = i - 1
  <2>1. PICK x \in S : f[x] = i
    BY <1>6
  <2>2. Cardinality(before[x]) \in Int
    BY Ranks
  <2> QED
    BY <2>1, <2>2
<1> QED
  BY <1>7

\* A list by rank, and a list of every member once.
ByRank(list, before, S) ==
    /\ list \in [1 .. Cardinality(S) -> S]
    /\ \A i \in 1 .. Cardinality(S) : Cardinality(before[list[i]]) = i - 1
Lists(list, S) ==
    /\ list \in Seq(S) /\ Len(list) = Cardinality(S)
    /\ \A x \in S : \E i \in DOMAIN list : list[i] = x
    /\ \A i, j \in DOMAIN list : list[i] = list[j] => i = j

\* A list by rank holds every member once.
LEMMA Listed ==
  ASSUME NEW S, IsFiniteSet(S), NEW before, Orders(before, S), NEW list,
         ByRank(list, before, S)
  PROVE  Lists(list, S)
<1>1. Cardinality(S) \in Nat
  BY FS_CardinalityType
<1>2. ASSUME NEW i \in 1 .. Cardinality(S)
      PROVE  list[i] \in S /\ Cardinality(before[list[i]]) = i - 1
  BY DEF ByRank
<1>3. list \in Seq(S) /\ Len(list) = Cardinality(S) /\ DOMAIN list = 1 .. Cardinality(S)
  BY <1>1, SeqDef DEF ByRank
<1>4. ASSUME NEW x \in S
      PROVE  \E i \in DOMAIN list : list[i] = x
  <2> DEFINE i == Cardinality(before[x]) + 1
  <2>1. Cardinality(before[x]) \in 0 .. Cardinality(S) - 1
    BY Ranks
  <2>2. i \in 1 .. Cardinality(S) /\ i - 1 = Cardinality(before[x])
    BY <1>1, <2>1
  <2> QED
    BY <1>2, <1>3, <2>2, Ranks
<1>5. ASSUME NEW i \in DOMAIN list, NEW j \in DOMAIN list, list[i] = list[j]
      PROVE  i = j
  BY <1>2, <1>3, <1>5
<1> QED
  BY <1>3, <1>4, <1>5 DEF Lists

\* Less-than orders any set of numbers.
LEMMA NumbersOrder ==
  ASSUME NEW K
  PROVE  K \subseteq Nat => Orders([x \in K |-> {y \in K \ {x} : y < x}], K)
<1> DEFINE B(x, y) == x < y
<1>1. K \subseteq Nat =>
          /\ \A x, y \in K : x = y \/ B(x, y) \/ B(y, x)
          /\ \A x, y, z \in K : B(x, y) /\ B(y, z) => B(x, z)
          /\ \A x \in K : ~B(x, x)
  OBVIOUS
<1>2. ASSUME /\ \A x, y \in K : x = y \/ B(x, y) \/ B(y, x)
             /\ \A x, y, z \in K : B(x, y) /\ B(y, z) => B(x, z)
             /\ \A x \in K : ~B(x, x)
      PROVE  Orders([x \in K |-> {y \in K \ {x} : B(y, x)}], K)
  <2> HIDE DEF B
  <2> QED
    BY <1>2 DEF Orders
<1>3. K \subseteq Nat => Orders([x \in K |-> {y \in K \ {x} : B(y, x)}], K)
  <2> HIDE DEF B
  <2> QED
    BY <1>1, <1>2
<1> QED
  BY <1>3

=============================================================================
