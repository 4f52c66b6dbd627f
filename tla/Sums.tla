---------------------------------- MODULE Sums ----------------------------------
(***************************************************************************)
(* Sums over finite sets, and the induction they rest on.  The induction   *)
(* principles are stated over sets (of numbers, of subsets) instead of     *)
(* predicates, so that a proof cites them with a set it defines.           *)
(***************************************************************************)
EXTENDS Integers, FiniteSetsExt, FiniteSetTheorems, WellFoundedInduction, TLAPS

(* The sum of f over S, as the modules write it. *)
SumOver(f, S) == MapThenSumSet(LAMBDA x : f[x], S)

-----------------------------------------------------------------------------
(* Induction. *)

(* A set of naturals that is not empty has a least element. *)
LEMMA LeastElement ==
  ASSUME NEW T \in SUBSET Nat, T # {}
  PROVE  \E n \in T : \A m \in T : n <= m
<1>1. PICK n \in T : \A m \in T : ~(<<m, n>> \in OpToRel(<, Nat))
  BY NatLessThanWellFounded, WFMin
<1>2. \A m \in T : ~(m < n)
  BY <1>1 DEF OpToRel
<1> QED
  BY <1>2

(* A set of naturals that has 0 and every successor is all of them. *)
LEMMA Induction ==
  ASSUME NEW P \in SUBSET Nat, 0 \in P, \A n \in P : n + 1 \in P
  PROVE  \A n \in Nat : n \in P
<1> SUFFICES ASSUME NEW k \in Nat, k \notin P PROVE FALSE
  OBVIOUS
<1> DEFINE T == Nat \ P
<1>1. T \in SUBSET Nat /\ T # {}
  OBVIOUS
<1>2. PICK n \in T : \A m \in T : ~(m < n)
  <2> HIDE DEF T
  <2>1. PICK n \in T : \A m \in T : n <= m
    BY <1>1, LeastElement
  <2> QED
    BY <1>1, <2>1
<1>3. n \in Nat /\ n # 0
  OBVIOUS
<1>4. n - 1 \in Nat /\ n - 1 < n /\ (n - 1) + 1 = n
  BY <1>3
<1> QED
  BY <1>2, <1>3, <1>4

(* A family of subsets of a finite set that has the empty one and grows by one *)
(* element at a time has every subset.                                         *)
LEMMA SetInduction ==
  ASSUME NEW S, IsFiniteSet(S), NEW P, {} \in P,
         \A s \in SUBSET S : s \in P => \A x \in S \ s : s \cup {x} \in P
  PROVE  \A s \in SUBSET S : s \in P
<1> DEFINE N == {n \in Nat : \A s \in SUBSET S : Cardinality(s) = n => s \in P}
<1>1. \A s \in SUBSET S : IsFiniteSet(s) /\ Cardinality(s) \in Nat
  BY FS_Subset, FS_CardinalityType
<1>2. 0 \in N
  BY <1>1, FS_EmptySet
<1>3. ASSUME NEW n \in N PROVE n + 1 \in N
  <2> SUFFICES ASSUME NEW s \in SUBSET S, Cardinality(s) = n + 1 PROVE s \in P
    OBVIOUS
  <2>1. s # {} /\ n \in Nat
    BY FS_EmptySet
  <2>2. PICK x \in s : x \in s
    BY <2>1
  <2>3. Cardinality(s \ {x}) = n
    <3>1. Cardinality(s \ {x}) = Cardinality(s) - 1
      BY <1>1, <2>2, FS_RemoveElement
    <3> QED
      BY <2>1, <3>1
  <2>4. s \ {x} \in P /\ s = (s \ {x}) \cup {x} /\ x \in S \ (s \ {x})
    BY <2>3
  <2> QED
    BY <2>4
<1>4. N \in SUBSET Nat
  OBVIOUS
<1> HIDE DEF N
<1>5. \A n \in Nat : n \in N
  BY <1>2, <1>3, <1>4, Induction
<1> QED
  BY <1>1, <1>5 DEF N

-----------------------------------------------------------------------------
(* The recursion behind the sum. *)

ChosenOf(s) == CHOOSE x \in s : TRUE
RestOf(s) == s \ {ChosenOf(s)}
SumStep(f, g, s) == IF s = {} THEN 0 ELSE f[ChosenOf(s)] + g[RestOf(s)]
Adds(f, S, g) == g = [s \in SUBSET S |-> SumStep(f, g, s)]

LEMMA SumIs ==
  ASSUME NEW f, NEW S
  PROVE  SumOver(f, S) = (CHOOSE g : Adds(f, S, g))[S]
  BY DEF SumOver, MapThenSumSet, MapThenFoldSet, Adds, SumStep, RestOf, ChosenOf

(* The recursion is defined up to any size, *)
SetsUpTo(S, n) == {s \in SUBSET S : Cardinality(s) <= n}

LEMMA SmallerSet ==
  ASSUME NEW S, IsFiniteSet(S), NEW s \in SUBSET S
  PROVE  /\ IsFiniteSet(s) /\ Cardinality(s) \in Nat /\ Cardinality(s) <= Cardinality(S)
         /\ Cardinality(s) = 0 <=> s = {}
         /\ s # {} => /\ ChosenOf(s) \in s /\ RestOf(s) \in SUBSET S
                      /\ Cardinality(RestOf(s)) = Cardinality(s) - 1
                      /\ s = RestOf(s) \cup {ChosenOf(s)} /\ ChosenOf(s) \notin RestOf(s)
<1>1. IsFiniteSet(s) /\ Cardinality(s) \in Nat /\ Cardinality(s) <= Cardinality(S)
  BY FS_Subset, FS_CardinalityType
<1>2. Cardinality(s) = 0 <=> s = {}
  BY <1>1, FS_EmptySet
<1>3. ASSUME s # {}
      PROVE  /\ ChosenOf(s) \in s /\ RestOf(s) \in SUBSET S
             /\ Cardinality(RestOf(s)) = Cardinality(s) - 1
             /\ s = RestOf(s) \cup {ChosenOf(s)} /\ ChosenOf(s) \notin RestOf(s)
  <2>1. ChosenOf(s) \in s
    BY <1>3 DEF ChosenOf
  <2>2. Cardinality(RestOf(s)) = Cardinality(s) - 1
    BY <1>1, <2>1, FS_RemoveElement DEF RestOf
  <2> QED
    BY <2>1, <2>2 DEF RestOf
<1> QED
  BY <1>1, <1>2, <1>3

AddsTo(f, S, n, g) == g = [s \in SetsUpTo(S, n) |-> SumStep(f, g, s)]

LEMMA AddsUpTo ==
  ASSUME NEW f, NEW S, IsFiniteSet(S), NEW n \in Nat
  PROVE  \E g : AddsTo(f, S, n, g)
<1> DEFINE N == {k \in Nat : \E g : AddsTo(f, S, k, g)}
<1>1. 0 \in N
  <2> DEFINE g == [s \in SetsUpTo(S, 0) |-> 0]
  <2>1. \A s \in SetsUpTo(S, 0) : s = {}
    BY SmallerSet DEF SetsUpTo
  <2>2. AddsTo(f, S, 0, g)
    BY <2>1 DEF SumStep, AddsTo
  <2> HIDE DEF g
  <2> QED
    BY <2>2
<1>2. ASSUME NEW k \in N PROVE k + 1 \in N
  <2>1. PICK g : AddsTo(f, S, k, g)
    OBVIOUS
  <2> DEFINE h == [s \in SetsUpTo(S, k + 1) |-> SumStep(f, g, s)]
  <2>2. k \in Nat
    OBVIOUS
  <2> HIDE DEF N
  <2>3. SetsUpTo(S, k) \subseteq SetsUpTo(S, k + 1)
    BY <2>2, SmallerSet DEF SetsUpTo
  <2>4. \A s \in SetsUpTo(S, k) : h[s] = g[s]
    BY <2>1, <2>3 DEF AddsTo
  <2>5. \A s \in SetsUpTo(S, k + 1) : s # {} => RestOf(s) \in SetsUpTo(S, k)
    BY <2>2, SmallerSet DEF SetsUpTo
  <2>6. \A s \in SetsUpTo(S, k + 1) : SumStep(f, g, s) = SumStep(f, h, s)
    BY <2>4, <2>5 DEF SumStep
  <2>7. AddsTo(f, S, k + 1, h)
    BY <2>6 DEF AddsTo
  <2> HIDE DEF h
  <2> QED
    BY <2>2, <2>7 DEF N
<1>3. N \in SUBSET Nat
  OBVIOUS
<1> HIDE DEF N
<1>4. n \in N
  BY <1>1, <1>2, <1>3, Induction
<1> QED
  BY <1>4 DEF N

(* and two such recursions agree wherever both are defined. *)
LEMMA AddsAlike ==
  ASSUME NEW f, NEW S, IsFiniteSet(S), NEW T \in SUBSET S, NEW g, NEW h, Adds(f, S, g), Adds(f, T, h)
  PROVE  \A s \in SUBSET T : g[s] = h[s]
<1> DEFINE N == {n \in Nat : \A s \in SUBSET T : Cardinality(s) = n => g[s] = h[s]}
<1>0. IsFiniteSet(T)
  BY FS_Subset
<1>1. \A s \in SUBSET T : g[s] = SumStep(f, g, s) /\ h[s] = SumStep(f, h, s)
  BY DEF Adds
<1>2. 0 \in N
  BY <1>0, <1>1, SmallerSet DEF SumStep
<1>3. ASSUME NEW n \in N PROVE n + 1 \in N
  <2>1. n \in Nat /\ \A s \in SUBSET T : Cardinality(s) = n => g[s] = h[s]
    OBVIOUS
  <2> SUFFICES ASSUME NEW s \in SUBSET T, Cardinality(s) = n + 1 PROVE g[s] = h[s]
    BY <2>1
  <2> HIDE DEF N
  <2>2. Cardinality(s) # 0 /\ Cardinality(s) - 1 = n
    BY <2>1
  <2>3. s # {} /\ RestOf(s) \in SUBSET T /\ Cardinality(RestOf(s)) = n
    BY <1>0, <2>2, SmallerSet
  <2> QED
    BY <1>1, <2>1, <2>3 DEF SumStep
<1>4. N \in SUBSET Nat
  OBVIOUS
<1> HIDE DEF N
<1>5. \A n \in Nat : n \in N
  BY <1>2, <1>3, <1>4, Induction
<1> QED
  BY <1>0, <1>5, SmallerSet DEF N

LEMMA SumRecursion ==
  ASSUME NEW f, NEW S, IsFiniteSet(S)
  PROVE  /\ SumOver(f, {}) = 0
         /\ \A s \in SUBSET S : s # {} => SumOver(f, s) = f[ChosenOf(s)] + SumOver(f, RestOf(s))
<1>1. ASSUME NEW T \in SUBSET S PROVE \E g : Adds(f, T, g)
  <2>1. IsFiniteSet(T) /\ Cardinality(T) \in Nat
    BY <1>1, SmallerSet
  <2>2. SetsUpTo(T, Cardinality(T)) = SUBSET T
    BY <2>1, SmallerSet DEF SetsUpTo
  <2>3. PICK g : AddsTo(f, T, Cardinality(T), g)
    BY <2>1, AddsUpTo
  <2>4. Adds(f, T, g)
    BY <2>2, <2>3 DEF Adds, AddsTo
  <2> QED
    BY <2>4
<1>2. PICK g : Adds(f, S, g)
  BY <1>1
<1>3. ASSUME NEW T \in SUBSET S PROVE SumOver(f, T) = g[T]
  <2>3. ASSUME NEW k, Adds(f, T, k) PROVE \A s \in SUBSET T : g[s] = k[s]
    <3>1. Adds(f, S, g)
      BY <1>2
    <3>2. Adds(f, T, k)
      BY <2>3
    <3>3. T \in SUBSET S /\ IsFiniteSet(S)
      BY <1>3
    <3> QED
      BY <3>1, <3>2, <3>3, AddsAlike, SMTT(20)
  <2>0. PICK h : h = CHOOSE k : Adds(f, T, k)
    OBVIOUS
  <2>1. Adds(f, T, h)
    BY <1>1, <2>0
  <2>2. h[T] = g[T]
    <3>1. \A s \in SUBSET T : g[s] = h[s]
      BY <2>1, <2>3
    <3> QED
      BY <3>1
  <2> QED
    BY <2>0, <2>2, SumIs
<1>4. \A s \in SUBSET S : g[s] = SumStep(f, g, s)
  BY <1>2 DEF Adds
<1>5. \A s \in SUBSET S : s # {} => RestOf(s) \in SUBSET S
  BY DEF RestOf
<1> QED
  BY <1>3, <1>4, <1>5 DEF SumStep

-----------------------------------------------------------------------------
(* What a sum of whole numbers is. *)

THEOREM SumEmpty ==
  ASSUME NEW f
  PROVE  SumOver(f, {}) = 0
  BY SumRecursion, FS_EmptySet

THEOREM SumIsInt ==
  ASSUME NEW f, NEW S, IsFiniteSet(S), \A x \in S : f[x] \in Int
  PROVE  SumOver(f, S) \in Int
<1> DEFINE N == {n \in Nat : \A s \in SUBSET S : Cardinality(s) = n => SumOver(f, s) \in Int}
<1>1. 0 \in N
  <2>1. \A s \in SUBSET S : Cardinality(s) = 0 => s = {}
    BY SmallerSet
  <2> QED
    BY <2>1, SumEmpty
<1>2. ASSUME NEW n \in N PROVE n + 1 \in N
  <2>1. n \in Nat /\ \A s \in SUBSET S : Cardinality(s) = n => SumOver(f, s) \in Int
    OBVIOUS
  <2> SUFFICES ASSUME NEW s \in SUBSET S, Cardinality(s) = n + 1 PROVE SumOver(f, s) \in Int
    BY <2>1
  <2> HIDE DEF N
  <2>2. Cardinality(s) # 0 /\ Cardinality(s) - 1 = n
    BY <2>1
  <2>3. s # {} /\ RestOf(s) \in SUBSET S /\ Cardinality(RestOf(s)) = n /\ ChosenOf(s) \in S
    BY <2>2, SmallerSet
  <2>4. SumOver(f, RestOf(s)) \in Int /\ f[ChosenOf(s)] \in Int
    BY <2>1, <2>3
  <2>5. SumOver(f, s) = f[ChosenOf(s)] + SumOver(f, RestOf(s))
    BY <2>3, SumRecursion
  <2> QED
    BY <2>4, <2>5
<1>3. N \in SUBSET Nat
  OBVIOUS
<1> HIDE DEF N
<1>4. \A n \in Nat : n \in N
  BY <1>1, <1>2, <1>3, Induction
<1> QED
  BY <1>4, SmallerSet DEF N

(* The order in which the elements are taken does not matter. *)
THEOREM SumAdd ==
  ASSUME NEW f, NEW S, IsFiniteSet(S), \A x \in S : f[x] \in Int,
         NEW t \in SUBSET S, NEW x \in S, x \notin t
  PROVE  SumOver(f, t \cup {x}) = SumOver(f, t) + f[x]
<1> DEFINE Adding(s) == \A y \in S : y \notin s => SumOver(f, s \cup {y}) = SumOver(f, s) + f[y]
           N == {n \in Nat : \A s \in SUBSET S : Cardinality(s) = n => Adding(s)}
<1>1. \A s \in SUBSET S : IsFiniteSet(s) /\ Cardinality(s) \in Nat /\ SumOver(f, s) \in Int
  BY SmallerSet, SumIsInt
<1>2. ASSUME NEW s \in SUBSET S, NEW y \in S, y \notin s,
             s # {} => Adding(RestOf(s)),
             \A r \in SUBSET S : Cardinality(r) + 1 = Cardinality(s) => Adding(r)
      PROVE  SumOver(f, s \cup {y}) = SumOver(f, s) + f[y]
  <2> DEFINE u == s \cup {y}
             z == ChosenOf(u)
  <2>1. u \in SUBSET S /\ u # {} /\ z \in u /\ RestOf(u) = u \ {z}
    <3>1. u \in SUBSET S /\ u # {}
      OBVIOUS
    <3> HIDE DEF u
    <3>2. ChosenOf(u) \in u
      BY <3>1 DEF ChosenOf
    <3> QED
      BY <3>1, <3>2 DEF RestOf
  <2>2. SumOver(f, u) = f[z] + SumOver(f, RestOf(u))
    BY <2>1, SumRecursion
  <2>3. CASE z = y
    <3>1. RestOf(u) = s
      BY <1>2, <2>1, <2>3
    <3> QED
      BY <1>1, <2>2, <2>3, <3>1
  <2>4. CASE z # y
    <3> DEFINE r == s \ {z}
    <3>1. z \in s /\ r \in SUBSET S /\ z \notin r /\ y \notin r /\ RestOf(u) = r \cup {y}
          /\ s = r \cup {z}
      BY <1>2, <2>1, <2>4
    <3>2. Cardinality(s) = Cardinality(r) + 1
      BY <1>1, <3>1, FS_AddElement
    <3> HIDE DEF u, z, r
    <3>3. Adding(r)
      BY <1>2, <3>1, <3>2
    <3>4. SumOver(f, RestOf(u)) = SumOver(f, r) + f[y] /\ SumOver(f, s) = SumOver(f, r) + f[z]
      BY <1>2, <3>1, <3>3
    <3>5. SumOver(f, r) \in Int /\ f[y] \in Int /\ f[z] \in Int
      BY <1>1, <1>2, <3>1
    <3> QED
      BY <2>2, <3>4, <3>5 DEF u
  <2> QED
    BY <2>3, <2>4
<1>3. 0 \in N
  <2> SUFFICES ASSUME NEW s \in SUBSET S, Cardinality(s) = 0 PROVE Adding(s)
    OBVIOUS
  <2>1. s = {}
    BY SmallerSet
  <2>2. \A r \in SUBSET S : Cardinality(r) + 1 # Cardinality(s)
    BY <1>1
  <2> HIDE DEF N
  <2> QED
    BY <1>2, <2>1, <2>2
<1>4. ASSUME NEW n \in N PROVE n + 1 \in N
  <2>1. n \in Nat /\ \A s \in SUBSET S : Cardinality(s) = n => Adding(s)
    OBVIOUS
  <2> SUFFICES ASSUME NEW s \in SUBSET S, Cardinality(s) = n + 1 PROVE Adding(s)
    BY <2>1
  <2> HIDE DEF N, Adding
  <2>2. \A r \in SUBSET S : Cardinality(r) + 1 = Cardinality(s) => Adding(r)
    <3>1. \A k \in Nat : k + 1 = n + 1 => k = n
      BY <2>1
    <3> QED
      BY <1>1, <2>1, <3>1
  <2>3. s # {} => Adding(RestOf(s))
    <3>1. s # {} => RestOf(s) \in SUBSET S /\ Cardinality(RestOf(s)) = Cardinality(s) - 1
      BY SmallerSet
    <3>2. Cardinality(s) - 1 = n
      BY <2>1
    <3> QED
      BY <2>1, <3>1, <3>2
  <2> USE DEF Adding
  <2> QED
    BY <1>2, <2>2, <2>3
<1>5. N \in SUBSET Nat
  OBVIOUS
<1>6. \A n \in Nat : n \in N
  <2> HIDE DEF N
  <2> QED
    BY <1>3, <1>4, <1>5, Induction
<1> QED
  BY <1>1, <1>6

THEOREM SumRemove ==
  ASSUME NEW f, NEW S, IsFiniteSet(S), \A x \in S : f[x] \in Int, NEW x \in S
  PROVE  SumOver(f, S \ {x}) = SumOver(f, S) - f[x]
<1>1. (S \ {x}) \cup {x} = S /\ S \ {x} \in SUBSET S /\ x \notin S \ {x}
  OBVIOUS
<1>2. SumOver(f, S) = SumOver(f, S \ {x}) + f[x]
  BY <1>1, SumAdd
<1>3. SumOver(f, S \ {x}) \in Int /\ f[x] \in Int
  BY <1>1, SumIsInt, FS_Subset
<1> QED
  BY <1>2, <1>3

THEOREM SumOne ==
  ASSUME NEW f, NEW x, f[x] \in Int
  PROVE  SumOver(f, {x}) = f[x]
<1>1. IsFiniteSet({x}) /\ {} \in SUBSET {x} /\ {} \cup {x} = {x}
  BY FS_Singleton
<1>2. SumOver(f, {x}) = SumOver(f, {}) + f[x]
  BY <1>1, SumAdd
<1> QED
  BY <1>2, SumEmpty

(* Only what f says of the elements matters. *)
THEOREM SumSame ==
  ASSUME NEW f, NEW g, NEW S, IsFiniteSet(S), \A x \in S : f[x] \in Int /\ g[x] = f[x]
  PROVE  SumOver(g, S) = SumOver(f, S)
<1> DEFINE P == {s \in SUBSET S : SumOver(g, s) = SumOver(f, s)}
<1>1. {} \in P
  BY SumEmpty
<1>2. ASSUME NEW s \in SUBSET S, s \in P, NEW x \in S \ s PROVE s \cup {x} \in P
  <2>1. \A y \in S : f[y] \in Int /\ g[y] \in Int
    OBVIOUS
  <2>2. SumOver(f, s \cup {x}) = SumOver(f, s) + f[x]
    BY <2>1, SumAdd
  <2>3. SumOver(g, s \cup {x}) = SumOver(g, s) + g[x]
    BY <2>1, SumAdd
  <2> QED
    BY <1>2, <2>2, <2>3
<1> HIDE DEF P
<1>3. \A s \in SUBSET S : s \in P
  BY <1>1, <1>2, SetInduction
<1> QED
  BY <1>3 DEF P

(* A change of f at one element changes the sum by as much. *)
THEOREM SumChange ==
  ASSUME NEW f, NEW g, NEW S, IsFiniteSet(S), \A y \in S : f[y] \in Int /\ g[y] \in Int,
         NEW x \in S, \A y \in S : y # x => g[y] = f[y]
  PROVE  SumOver(g, S) = SumOver(f, S) - f[x] + g[x]
<1>1. (S \ {x}) \cup {x} = S /\ S \ {x} \in SUBSET S /\ x \notin S \ {x} /\ IsFiniteSet(S \ {x})
  BY FS_Subset
<1>2. SumOver(f, S) = SumOver(f, S \ {x}) + f[x]
  BY <1>1, SumAdd
<1>3. SumOver(g, S) = SumOver(g, S \ {x}) + g[x]
  BY <1>1, SumAdd
<1>4. SumOver(g, S \ {x}) = SumOver(f, S \ {x})
  BY <1>1, SumSame
<1>5. SumOver(f, S \ {x}) \in Int /\ f[x] \in Int /\ g[x] \in Int
  BY <1>1, SumIsInt
<1> QED
  BY <1>2, <1>3, <1>4, <1>5

(* What is larger everywhere has the larger sum, and no part of a sum of *)
(* amounts exceeds it.                                                   *)
THEOREM SumMonotone ==
  ASSUME NEW f, NEW g, NEW S, IsFiniteSet(S),
         \A x \in S : f[x] \in Int /\ g[x] \in Int /\ f[x] <= g[x]
  PROVE  SumOver(f, S) <= SumOver(g, S)
<1> DEFINE P == {s \in SUBSET S : SumOver(f, s) <= SumOver(g, s)}
<1>1. {} \in P
  BY SumEmpty
<1>2. ASSUME NEW s \in SUBSET S, s \in P, NEW x \in S \ s PROVE s \cup {x} \in P
  <2>1. SumOver(f, s \cup {x}) = SumOver(f, s) + f[x]
    BY SumAdd
  <2>2. SumOver(g, s \cup {x}) = SumOver(g, s) + g[x]
    BY SumAdd
  <2>3. SumOver(f, s) \in Int /\ SumOver(g, s) \in Int
    BY SumIsInt, FS_Subset
  <2>4. SumOver(f, s) <= SumOver(g, s) /\ f[x] \in Int /\ g[x] \in Int /\ f[x] <= g[x]
    BY <1>2
  <2> HIDE DEF P
  <2>5. SumOver(f, s \cup {x}) <= SumOver(g, s \cup {x})
    BY <2>1, <2>2, <2>3, <2>4
  <2> USE DEF P
  <2> QED
    BY <2>5
<1> HIDE DEF P
<1>3. \A s \in SUBSET S : s \in P
  BY <1>1, <1>2, SetInduction
<1> QED
  BY <1>3 DEF P

THEOREM SumPositive ==
  ASSUME NEW f, NEW S, IsFiniteSet(S), \A x \in S : f[x] \in Nat
  PROVE  /\ SumOver(f, S) \in Nat
         /\ \A x \in S : f[x] <= SumOver(f, S)
<1>1. \A T \in SUBSET S : SumOver(f, T) \in Int /\ IsFiniteSet(T)
  BY SumIsInt, FS_Subset
<1>2. ASSUME NEW T \in SUBSET S PROVE SumOver(f, T) >= 0
  <2> DEFINE P == {s \in SUBSET T : SumOver(f, s) >= 0}
  <2>1. {} \in P
    BY SumEmpty
  <2>2. ASSUME NEW s \in SUBSET T, s \in P, NEW x \in T \ s PROVE s \cup {x} \in P
    <3>1. SumOver(f, s \cup {x}) = SumOver(f, s) + f[x]
      BY SumAdd
    <3>2. SumOver(f, s) \in Int /\ SumOver(f, s) >= 0 /\ f[x] \in Nat
      BY <1>1, <2>2
    <3>3. SumOver(f, s \cup {x}) >= 0
      BY <3>1, <3>2
    <3> QED
      BY <3>3
  <2> HIDE DEF P
  <2>3. \A s \in SUBSET T : s \in P
    BY <1>1, <2>1, <2>2, SetInduction
  <2> QED
    BY <2>3 DEF P
<1>3. ASSUME NEW x \in S PROVE f[x] <= SumOver(f, S)
  <2>1. SumOver(f, S \ {x}) = SumOver(f, S) - f[x]
    BY SumRemove
  <2>2. SumOver(f, S \ {x}) >= 0 /\ SumOver(f, S) \in Int /\ f[x] \in Int
    BY <1>1, <1>2
  <2> QED
    BY <2>1, <2>2
<1> QED
  BY <1>1, <1>2, <1>3

THEOREM SumZero ==
  ASSUME NEW f, NEW S, IsFiniteSet(S), \A x \in S : f[x] = 0
  PROVE  SumOver(f, S) = 0
<1> DEFINE P == {s \in SUBSET S : SumOver(f, s) = 0}
<1>0. \A x \in S : f[x] \in Int
  OBVIOUS
<1>1. {} \in P
  BY SumEmpty
<1>2. ASSUME NEW s \in SUBSET S, s \in P, NEW x \in S \ s PROVE s \cup {x} \in P
  <2>1. SumOver(f, s \cup {x}) = SumOver(f, s) + f[x]
    BY <1>0, SumAdd
  <2> QED
    BY <1>2, <2>1
<1> HIDE DEF P
<1>3. \A s \in SUBSET S : s \in P
  BY <1>1, <1>2, SetInduction
<1> QED
  BY <1>3 DEF P

(* What is raised by k at every element of H raises the sum by k for each. *)
THEOREM SumRaise ==
  ASSUME NEW f, NEW g, NEW S, IsFiniteSet(S), NEW H \in SUBSET S, NEW k \in Int,
         \A x \in S : f[x] \in Int /\ g[x] = IF x \in H THEN f[x] + k ELSE f[x]
  PROVE  SumOver(g, S) = SumOver(f, S) + k * Cardinality(H)
<1> DEFINE P == {s \in SUBSET S : SumOver(g, s) = SumOver(f, s) + k * Cardinality(H \cap s)}
<1>0. \A x \in S : f[x] \in Int /\ g[x] \in Int
  OBVIOUS
<1>1. {} \in P
  <2>1. H \cap {} = {} /\ Cardinality({}) = 0 /\ k * 0 = 0
    BY FS_EmptySet
  <2>2. k * Cardinality(H \cap {}) = 0
    BY <2>1
  <2> QED
    BY <2>2, SumEmpty
<1>2. ASSUME NEW s \in SUBSET S, s \in P, NEW x \in S \ s PROVE s \cup {x} \in P
  <2>1. SumOver(f, s \cup {x}) = SumOver(f, s) + f[x] /\ SumOver(g, s \cup {x}) = SumOver(g, s) + g[x]
    BY <1>0, SumAdd
  <2>2. SumOver(f, s) \in Int /\ f[x] \in Int /\ IsFiniteSet(H \cap s) /\ IsFiniteSet(s)
        /\ Cardinality(H \cap s) \in Nat
    BY <1>0, SumIsInt, FS_Subset, FS_CardinalityType
  <2>3. SumOver(g, s) = SumOver(f, s) + k * Cardinality(H \cap s)
    BY <1>2
  <2> HIDE DEF P
  <2>4. \A n \in Nat : k * n \in Int /\ k * (n + 1) = k * n + k
    OBVIOUS
  <2>5. CASE x \in H
    <3>1. H \cap (s \cup {x}) = (H \cap s) \cup {x} /\ x \notin H \cap s
      BY <1>2, <2>5
    <3>2. Cardinality(H \cap (s \cup {x})) = Cardinality(H \cap s) + 1
      BY <2>2, <3>1, FS_AddElement
    <3>3. k * Cardinality(H \cap (s \cup {x})) = k * Cardinality(H \cap s) + k
      BY <2>2, <2>4, <3>2
    <3>4. SumOver(g, s \cup {x}) = SumOver(f, s \cup {x}) + k * Cardinality(H \cap (s \cup {x}))
      BY <2>1, <2>2, <2>3, <2>4, <2>5, <3>3
    <3> QED
      BY <3>4 DEF P
  <2>6. CASE x \notin H
    <3>1. H \cap (s \cup {x}) = H \cap s
      BY <2>6
    <3>2. k * Cardinality(H \cap (s \cup {x})) = k * Cardinality(H \cap s)
          /\ k * Cardinality(H \cap s) \in Int /\ g[x] = f[x]
      BY <2>2, <2>4, <2>6, <3>1
    <3>3. PICK c \in Int : c = k * Cardinality(H \cap s)
      BY <3>2
    <3>4. SumOver(g, s \cup {x}) = SumOver(f, s \cup {x}) + c
      BY <2>1, <2>2, <2>3, <3>2, <3>3
    <3> QED
      BY <3>2, <3>3, <3>4 DEF P
  <2> QED
    BY <2>5, <2>6
<1>3. \A s \in SUBSET S : s \in P
  <2> HIDE DEF P
  <2> QED
    BY <1>1, <1>2, SetInduction
<1>4. H \cap S = H
  OBVIOUS
<1> QED
  BY <1>3, <1>4

===============================================================================
