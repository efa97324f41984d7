------------------------------ MODULE FiniteSums ------------------------------
(***************************************************************************)
(* Sums over finite sets, for the proofs: what the community modules'      *)
(* MapThenSumSet computes does not depend on the order in which it takes   *)
(* the elements.  Induction is by a smallest counterexample among the      *)
(* subsets of a finite set.                                                *)
(***************************************************************************)
EXTENDS Integers, FiniteSetsExt, FiniteSetTheorems, WellFoundedInduction, TLAPS

\* A set of subsets that holds a subset as soon as it holds the smaller ones
\* holds them all.
LEMMA SubsetInduction ==
  ASSUME NEW S, IsFiniteSet(S), NEW G,
         \A T \in SUBSET S : (\A U \in SUBSET T : U # T => U \in G) => T \in G
  PROVE  \A T \in SUBSET S : T \in G
<1> SUFFICES ASSUME (SUBSET S) \ G # {} PROVE FALSE
  OBVIOUS
<1> DEFINE P == SUBSET S
           R == StrictSubsetOrdering(S)
           Bad == P \ G
<1>1. IsWellFoundedOn(R, FiniteSubsetsOf(S))
  <2> HIDE DEF R
  <2>1. R = StrictSubsetOrdering(S)
    BY DEF R
  <2>. QED  BY <2>1, FS_StrictSubsetOrderingWellFounded
<1>2. IsWellFoundedOn(R, P)
  <2>1. FiniteSubsetsOf(S) = P
    BY FS_FiniteSubsetsOfFinite
  <2> HIDE DEF R, P
  <2>. QED  BY <1>1, <2>1
<1>3. \E T \in Bad : \A U \in Bad : ~(<<U, T>> \in R)
  <2>1. Bad \subseteq P /\ Bad # {}
    OBVIOUS
  <2> HIDE DEF Bad, R, P
  <2>. QED  BY <1>2, <2>1, WFMin
<1>4. PICK T \in Bad : \A U \in Bad : ~(<<U, T>> \in R)
  BY <1>3
<1>5. \A U \in SUBSET T : U # T => U \in G
  <2> SUFFICES ASSUME NEW U \in SUBSET T, U # T, U \notin G PROVE FALSE
    OBVIOUS
  <2>1. U \in Bad /\ <<U, T>> \in (SUBSET S) \X (SUBSET S)
    OBVIOUS
  <2>2. <<U, T>> \in R
    BY <2>1 DEF StrictSubsetOrdering
  <2>. QED  BY <1>4, <2>1, <2>2
<1>. QED  BY <1>4, <1>5

-----------------------------------------------------------------------------
\* The element a fold takes next, and the equation of the fold.
First(s) == CHOOSE x \in s : TRUE
Rest(s)  == s \ {First(s)}

LEMMA FirstIn ==
  ASSUME NEW s, s # {}
  PROVE  First(s) \in s /\ Rest(s) \in SUBSET s /\ Rest(s) # s
BY DEF First, Rest

IsFold(g, f, S) ==
  g = [s \in SUBSET S |-> IF s = {} THEN 0 ELSE f[First(s)] + g[Rest(s)]]

Tally(f, S) == (CHOOSE g : IsFold(g, f, S))[S]

LEMMA FoldRestricts ==
  ASSUME NEW S, NEW f, NEW g, IsFold(g, f, S), NEW U \in SUBSET S
  PROVE  IsFold([s \in SUBSET U |-> g[s]], f, U)
<1> DEFINE h == [s \in SUBSET U |-> g[s]]
<1>1. \A s \in SUBSET U : g[s] = IF s = {} THEN 0 ELSE f[First(s)] + g[Rest(s)]
  BY DEF IsFold
<1>2. \A s \in SUBSET U : s # {} => Rest(s) \in SUBSET U
  BY FirstIn
<1>3. \A s \in SUBSET U : h[s] = IF s = {} THEN 0 ELSE f[First(s)] + h[Rest(s)]
  BY <1>1, <1>2
<1>. QED  BY <1>3 DEF IsFold

LEMMA FoldIsUnique ==
  ASSUME NEW S, IsFiniteSet(S), NEW f, NEW g, NEW h, IsFold(g, f, S), IsFold(h, f, S)
  PROVE  g = h
<1> DEFINE G == {s \in SUBSET S : g[s] = h[s]}
<1>1. ASSUME NEW T \in SUBSET S, \A U \in SUBSET T : U # T => U \in G
      PROVE  T \in G
  <2>1. /\ g[T] = IF T = {} THEN 0 ELSE f[First(T)] + g[Rest(T)]
        /\ h[T] = IF T = {} THEN 0 ELSE f[First(T)] + h[Rest(T)]
    BY DEF IsFold
  <2>2. T # {} => g[Rest(T)] = h[Rest(T)]
    BY <1>1, FirstIn
  <2>. QED  BY <2>1, <2>2
<1>2. \A T \in SUBSET S : T \in G
  <2> HIDE DEF G
  <2>. QED  BY <1>1, SubsetInduction
<1>. QED  BY <1>2 DEF IsFold

LEMMA FoldExists ==
  ASSUME NEW S, IsFiniteSet(S), NEW f
  PROVE  \E g : IsFold(g, f, S)
<1> DEFINE G == {T \in SUBSET S : \E g : IsFold(g, f, T)}
<1>1. ASSUME NEW T \in SUBSET S, \A U \in SUBSET T : U # T => U \in G
      PROVE  T \in G
  <2> DEFINE fold(U) == CHOOSE g : IsFold(g, f, U)
             h == [s \in SUBSET T |-> IF s = {} THEN 0 ELSE f[First(s)] + fold(Rest(s))[Rest(s)]]
  <2>1. \A U \in SUBSET T : U # T => IsFold(fold(U), f, U)
    BY <1>1
  <2>2. ASSUME NEW U \in SUBSET T, U # T
        PROVE  h[U] = fold(U)[U]
    <3>1. IsFold(fold(U), f, U) /\ h[U] = IF U = {} THEN 0 ELSE f[First(U)] + fold(Rest(U))[Rest(U)]
      BY <2>1, <2>2
    <3>2. fold(U)[U] = IF U = {} THEN 0 ELSE f[First(U)] + fold(U)[Rest(U)]
      <4>1. IsFold(fold(U), f, U)
        BY <3>1
      <4> HIDE DEF fold
      <4>. QED  BY <4>1 DEF IsFold
    <3>3. CASE U # {}
      <4>1. Rest(U) \in SUBSET U /\ Rest(U) \in SUBSET T /\ Rest(U) # T
        BY <2>2, <3>3, FirstIn
      <4>2. IsFold(fold(Rest(U)), f, Rest(U))
        BY <2>1, <4>1
      <4>3. IsFold([s \in SUBSET Rest(U) |-> fold(U)[s]], f, Rest(U))
        BY <3>1, <4>1, FoldRestricts
      <4>4. IsFiniteSet(Rest(U))
        BY <4>1, FS_Subset
      <4>5. fold(Rest(U)) = [s \in SUBSET Rest(U) |-> fold(U)[s]]
        <5> HIDE DEF fold
        <5>. QED  BY <4>2, <4>3, <4>4, FoldIsUnique
      <4>6. fold(Rest(U))[Rest(U)] = fold(U)[Rest(U)]
        BY <4>5
      <4>. QED  BY <3>1, <3>2, <4>6
    <3>. QED  BY <3>1, <3>2, <3>3
  <2>3. \A s \in SUBSET T : s # {} => h[Rest(s)] = fold(Rest(s))[Rest(s)]
    <3>1. \A s \in SUBSET T : s # {} => Rest(s) \in SUBSET T /\ Rest(s) # T
      BY FirstIn
    <3> HIDE DEF h, fold
    <3>. QED  BY <2>2, <3>1
  <2>4. h = [s \in SUBSET T |-> IF s = {} THEN 0 ELSE f[First(s)] + h[Rest(s)]]
    <3>1. h = [s \in SUBSET T |-> IF s = {} THEN 0 ELSE f[First(s)] + fold(Rest(s))[Rest(s)]]
      OBVIOUS
    <3> HIDE DEF h, fold
    <3>. QED  BY <2>3, <3>1
  <2>5. IsFold(h, f, T)
    <3> HIDE DEF h
    <3>. QED  BY <2>4 DEF IsFold
  <2>. QED  BY <2>5
<1>2. \A T \in SUBSET S : T \in G
  <2> HIDE DEF G
  <2>. QED  BY <1>1, SubsetInduction
<1>. QED  BY <1>2

LEMMA TallyNext ==
  ASSUME NEW S, IsFiniteSet(S), NEW f
  PROVE  Tally(f, S) = IF S = {} THEN 0 ELSE f[First(S)] + Tally(f, Rest(S))
<1> DEFINE fold(U) == CHOOSE g : IsFold(g, f, U)
<1>1. IsFold(fold(S), f, S)
  BY FoldExists
<1>2. fold(S)[S] = IF S = {} THEN 0 ELSE f[First(S)] + fold(S)[Rest(S)]
  <2> HIDE DEF fold
  <2>. QED  BY <1>1 DEF IsFold
<1>3. CASE S # {}
  <2>1. Rest(S) \in SUBSET S /\ IsFiniteSet(Rest(S))
    BY <1>3, FirstIn, FS_Subset
  <2>2. IsFold(fold(Rest(S)), f, Rest(S))
    BY <2>1, FoldExists
  <2>3. IsFold([s \in SUBSET Rest(S) |-> fold(S)[s]], f, Rest(S))
    BY <1>1, <2>1, FoldRestricts
  <2>4. fold(Rest(S)) = [s \in SUBSET Rest(S) |-> fold(S)[s]]
    <3> HIDE DEF fold
    <3>. QED  BY <2>1, <2>2, <2>3, FoldIsUnique
  <2>5. fold(Rest(S))[Rest(S)] = fold(S)[Rest(S)]
    BY <2>4
  <2>. QED  BY <1>2, <2>5 DEF Tally
<1>. QED  BY <1>2, <1>3 DEF Tally

-----------------------------------------------------------------------------
LEMMA TallyEmpty ==
  ASSUME NEW f
  PROVE  Tally(f, {}) = 0
BY TallyNext, FS_EmptySet

LEMMA TallyInt ==
  ASSUME NEW S, IsFiniteSet(S), NEW f, \A x \in S : f[x] \in Int
  PROVE  Tally(f, S) \in Int
<1> DEFINE G == {T \in SUBSET S : Tally(f, T) \in Int}
<1>1. ASSUME NEW T \in SUBSET S, \A U \in SUBSET T : U # T => U \in G
      PROVE  T \in G
  <2>1. IsFiniteSet(T)
    BY FS_Subset
  <2>2. Tally(f, T) = IF T = {} THEN 0 ELSE f[First(T)] + Tally(f, Rest(T))
    BY <2>1, TallyNext
  <2>3. T # {} => First(T) \in S /\ Tally(f, Rest(T)) \in Int
    BY <1>1, FirstIn
  <2>. QED  BY <2>2, <2>3
<1>2. \A T \in SUBSET S : T \in G
  <2> HIDE DEF G
  <2>. QED  BY <1>1, SubsetInduction
<1>. QED  BY <1>2

LEMMA TallyZero ==
  ASSUME NEW S, IsFiniteSet(S), NEW f, \A x \in S : f[x] = 0
  PROVE  Tally(f, S) = 0
<1> DEFINE G == {T \in SUBSET S : Tally(f, T) = 0}
<1>1. ASSUME NEW T \in SUBSET S, \A U \in SUBSET T : U # T => U \in G
      PROVE  T \in G
  <2>1. IsFiniteSet(T)
    BY FS_Subset
  <2>2. Tally(f, T) = IF T = {} THEN 0 ELSE f[First(T)] + Tally(f, Rest(T))
    BY <2>1, TallyNext
  <2>3. T # {} => First(T) \in S /\ Tally(f, Rest(T)) = 0
    BY <1>1, FirstIn
  <2>. QED  BY <2>2, <2>3
<1>2. \A T \in SUBSET S : T \in G
  <2> HIDE DEF G
  <2>. QED  BY <1>1, SubsetInduction
<1>. QED  BY <1>2

LEMMA TallyCong ==
  ASSUME NEW S, IsFiniteSet(S), NEW f, NEW g, \A x \in S : f[x] = g[x]
  PROVE  Tally(f, S) = Tally(g, S)
<1> DEFINE G == {T \in SUBSET S : Tally(f, T) = Tally(g, T)}
<1>1. ASSUME NEW T \in SUBSET S, \A U \in SUBSET T : U # T => U \in G
      PROVE  T \in G
  <2>1. IsFiniteSet(T)
    BY FS_Subset
  <2>2. /\ Tally(f, T) = IF T = {} THEN 0 ELSE f[First(T)] + Tally(f, Rest(T))
        /\ Tally(g, T) = IF T = {} THEN 0 ELSE g[First(T)] + Tally(g, Rest(T))
    BY <2>1, TallyNext
  <2>3. T # {} => First(T) \in S /\ Tally(f, Rest(T)) = Tally(g, Rest(T))
    BY <1>1, FirstIn
  <2>. QED  BY <2>2, <2>3
<1>2. \A T \in SUBSET S : T \in G
  <2> HIDE DEF G
  <2>. QED  BY <1>1, SubsetInduction
<1>. QED  BY <1>2

\* Whatever element is taken out first, the sum is the same.
LEMMA TallyRemove ==
  ASSUME NEW S, IsFiniteSet(S), NEW f, \A x \in S : f[x] \in Int, NEW z \in S
  PROVE  Tally(f, S) = f[z] + Tally(f, S \ {z})
<1> DEFINE G == {T \in SUBSET S : \A x \in T : Tally(f, T) = f[x] + Tally(f, T \ {x})}
<1>1. ASSUME NEW T \in SUBSET S, \A U \in SUBSET T : U # T => U \in G
      PROVE  T \in G
  <2> SUFFICES ASSUME NEW x \in T
               PROVE  Tally(f, T) = f[x] + Tally(f, T \ {x})
    OBVIOUS
  <2> DEFINE y == First(T)
             W == (T \ {y}) \ {x}
  <2>1. y \in T /\ Rest(T) = T \ {y}
    BY FirstIn DEF Rest
  <2>2. IsFiniteSet(T)
    BY FS_Subset
  <2>3. Tally(f, T) = f[y] + Tally(f, T \ {y})
    BY <2>1, <2>2, TallyNext
  <2>4. CASE y = x
    BY <2>3, <2>4
  <2>5. CASE y # x
    <3>1. T \ {y} \in G /\ x \in T \ {y}
      <4>1. T \ {y} \in SUBSET T /\ T \ {y} # T
        BY <2>1
      <4> HIDE DEF G, y
      <4>. QED  BY <1>1, <2>5, <4>1
    <3>2. T \ {x} \in G /\ y \in T \ {x}
      <4>1. T \ {x} \in SUBSET T /\ T \ {x} # T
        OBVIOUS
      <4> HIDE DEF G, y
      <4>. QED  BY <1>1, <2>1, <2>5, <4>1
    <3>3. Tally(f, T \ {y}) = f[x] + Tally(f, W)
      BY <3>1
    <3>4. Tally(f, T \ {x}) = f[y] + Tally(f, W)
      <4>1. W = (T \ {x}) \ {y}
        OBVIOUS
      <4>2. Tally(f, T \ {x}) = f[y] + Tally(f, (T \ {x}) \ {y})
        BY <3>2
      <4> HIDE DEF W
      <4>. QED  BY <4>1, <4>2
    <3>5. f[x] \in Int /\ f[y] \in Int /\ Tally(f, W) \in Int
      <4>1. IsFiniteSet(W) /\ \A w \in W : f[w] \in Int
        BY <2>2, FS_Subset
      <4> HIDE DEF W
      <4>2. Tally(f, W) \in Int
        BY <4>1, TallyInt
      <4>. QED  BY <2>1, <4>2
    <3> HIDE DEF W, y, G
    <3>. QED  BY <2>3, <3>3, <3>4, <3>5
  <2>. QED  BY <2>4, <2>5
<1>2. \A T \in SUBSET S : T \in G
  <2> HIDE DEF G
  <2>. QED  BY <1>1, SubsetInduction
<1>. QED  BY <1>2

LEMMA TallyAdd ==
  ASSUME NEW S, IsFiniteSet(S), NEW f, NEW z, z \notin S, f[z] \in Int,
         \A x \in S : f[x] \in Int
  PROVE  Tally(f, S \cup {z}) = f[z] + Tally(f, S)
<1>1. IsFiniteSet(S \cup {z}) /\ z \in S \cup {z} /\ (S \cup {z}) \ {z} = S
  BY FS_AddElement
<1>2. \A x \in S \cup {z} : f[x] \in Int
  OBVIOUS
<1>3. Tally(f, S \cup {z}) = f[z] + Tally(f, (S \cup {z}) \ {z})
  BY <1>1, <1>2, TallyRemove
<1>. QED  BY <1>1, <1>3

LEMMA TallyNat ==
  ASSUME NEW S, IsFiniteSet(S), NEW f, \A x \in S : f[x] \in Nat
  PROVE  Tally(f, S) \in Nat
<1> DEFINE G == {T \in SUBSET S : Tally(f, T) \in Nat}
<1>1. ASSUME NEW T \in SUBSET S, \A U \in SUBSET T : U # T => U \in G
      PROVE  T \in G
  <2>1. IsFiniteSet(T)
    BY FS_Subset
  <2>2. Tally(f, T) = IF T = {} THEN 0 ELSE f[First(T)] + Tally(f, Rest(T))
    BY <2>1, TallyNext
  <2>3. T # {} => First(T) \in S /\ Tally(f, Rest(T)) \in Nat
    BY <1>1, FirstIn
  <2>. QED  BY <2>2, <2>3
<1>2. \A T \in SUBSET S : T \in G
  <2> HIDE DEF G
  <2>. QED  BY <1>1, SubsetInduction
<1>. QED  BY <1>2

\* Taking more into a sum of naturals does not make it less.
LEMMA TallyMonotone ==
  ASSUME NEW S, IsFiniteSet(S), NEW f, \A x \in S : f[x] \in Nat, NEW Z \in SUBSET S
  PROVE  Tally(f, Z) <= Tally(f, S)
<1> DEFINE G == {U \in SUBSET S : \A T \in SUBSET U : Tally(f, T) <= Tally(f, U)}
<1>1. ASSUME NEW U \in SUBSET S, \A V \in SUBSET U : V # U => V \in G
      PROVE  U \in G
  <2> SUFFICES ASSUME NEW T \in SUBSET U PROVE Tally(f, T) <= Tally(f, U)
    OBVIOUS
  <2>1. \A V \in SUBSET U : Tally(f, V) \in Nat
    <3> SUFFICES ASSUME NEW V \in SUBSET U PROVE Tally(f, V) \in Nat
      OBVIOUS
    <3>1. IsFiniteSet(V) /\ \A x \in V : f[x] \in Nat
      BY FS_Subset
    <3>. QED  BY <3>1, TallyNat
  <2>2. CASE T = U
    BY <2>1, <2>2
  <2>3. CASE T # U
    <3>1. PICK y \in U : y \notin T
      BY <2>3
    <3> DEFINE V == U \ {y}
    <3>2. V \in SUBSET U /\ V # U /\ T \in SUBSET V
      BY <3>1
    <3>3. V \in G
      <4> HIDE DEF G, V
      <4>. QED  BY <1>1, <3>2
    <3>4. Tally(f, T) <= Tally(f, V)
      <4> HIDE DEF V
      <4>. QED  BY <3>2, <3>3
    <3>5. Tally(f, U) = f[y] + Tally(f, V) /\ f[y] \in Nat
      <4>1. IsFiniteSet(U) /\ \A x \in U : f[x] \in Int
        BY FS_Subset
      <4>2. Tally(f, U) = f[y] + Tally(f, U \ {y})
        BY <4>1, TallyRemove
      <4>. QED  BY <4>2
    <3> HIDE DEF V, G
    <3>. QED  BY <2>1, <3>2, <3>4, <3>5
  <2>. QED  BY <2>2, <2>3
<1>2. \A U \in SUBSET S : U \in G
  <2> HIDE DEF G
  <2>. QED  BY <1>1, SubsetInduction
<1>. QED  BY <1>2

\* The sum over a set that another one numbers.
LEMMA TallyImage ==
  ASSUME NEW S, IsFiniteSet(S), NEW g, \A x \in S : g[x] \in Int,
         NEW m, \A x, y \in S : m[x] = m[y] => x = y,
         NEW f, \A x \in S : f[m[x]] = g[x]
  PROVE  Tally(f, {m[x] : x \in S}) = Tally(g, S)
<1> DEFINE Im(T) == {m[x] : x \in T}
           G == {T \in SUBSET S : IsFiniteSet(Im(T)) /\ Tally(f, Im(T)) = Tally(g, T)}
<1>1. ASSUME NEW T \in SUBSET S, \A U \in SUBSET T : U # T => U \in G
      PROVE  T \in G
  <2>1. IsFiniteSet(T)
    BY FS_Subset
  <2>2. CASE T = {}
    <3>1. Im(T) = {}
      BY <2>2
    <3>2. Tally(f, {}) = 0 /\ Tally(g, {}) = 0 /\ IsFiniteSet({})
      BY TallyEmpty, FS_EmptySet
    <3>. QED  BY <2>2, <3>1, <3>2
  <2>3. CASE T # {}
    <3> DEFINE y == First(T)
               U == T \ {y}
    <3>1. y \in T /\ U \in SUBSET T /\ U # T /\ y \notin U
      BY <2>3, FirstIn
    <3>2. IsFiniteSet(Im(U)) /\ Tally(f, Im(U)) = Tally(g, U)
      <4>1. U \in G
        <5> HIDE DEF G, U
        <5>. QED  BY <1>1, <3>1
      <4>. QED  BY <4>1
    <3>3. Im(T) = Im(U) \cup {m[y]} /\ m[y] \notin Im(U)
      BY <3>1
    <3>4. /\ f[m[y]] = g[y] /\ g[y] \in Int
          /\ \A z \in Im(U) : f[z] \in Int
      BY <3>1
    <3>5. IsFiniteSet(Im(T))
      <4> HIDE DEF Im, U, y
      <4>. QED  BY <3>2, <3>3, FS_AddElement
    <3>6. Tally(f, Im(T)) = f[m[y]] + Tally(f, Im(U))
      <4> HIDE DEF Im, U, y
      <4>. QED  BY <3>2, <3>3, <3>4, TallyAdd
    <3>7. Tally(g, T) = g[y] + Tally(g, U)
      <4>1. \A x \in T : g[x] \in Int
        OBVIOUS
      <4>. QED  BY <2>1, <3>1, <4>1, TallyRemove
    <3>. QED  BY <3>2, <3>4, <3>5, <3>6, <3>7
  <2>. QED  BY <2>2, <2>3
<1>2. \A T \in SUBSET S : T \in G
  <2> HIDE DEF G
  <2>. QED  BY <1>1, SubsetInduction
<1>. QED  BY <1>2

\* The sum of sums.
LEMMA TallyPlus ==
  ASSUME NEW S, IsFiniteSet(S), NEW f, NEW g, NEW h,
         \A x \in S : f[x] \in Int /\ g[x] \in Int /\ h[x] = f[x] + g[x]
  PROVE  Tally(h, S) = Tally(f, S) + Tally(g, S)
<1> DEFINE G == {T \in SUBSET S : Tally(h, T) = Tally(f, T) + Tally(g, T)}
<1>1. ASSUME NEW T \in SUBSET S, \A U \in SUBSET T : U # T => U \in G
      PROVE  T \in G
  <2>1. IsFiniteSet(T)
    BY FS_Subset
  <2>2. /\ Tally(f, T) = IF T = {} THEN 0 ELSE f[First(T)] + Tally(f, Rest(T))
        /\ Tally(g, T) = IF T = {} THEN 0 ELSE g[First(T)] + Tally(g, Rest(T))
        /\ Tally(h, T) = IF T = {} THEN 0 ELSE h[First(T)] + Tally(h, Rest(T))
    BY <2>1, TallyNext
  <2>3. T # {} => /\ First(T) \in S
                  /\ Tally(h, Rest(T)) = Tally(f, Rest(T)) + Tally(g, Rest(T))
                  /\ Tally(f, Rest(T)) \in Int /\ Tally(g, Rest(T)) \in Int
    <3> SUFFICES ASSUME T # {}
                 PROVE  /\ First(T) \in S
                        /\ Tally(h, Rest(T)) = Tally(f, Rest(T)) + Tally(g, Rest(T))
                        /\ Tally(f, Rest(T)) \in Int /\ Tally(g, Rest(T)) \in Int
      OBVIOUS
    <3>1. First(T) \in T /\ Rest(T) \in SUBSET T /\ Rest(T) # T
      BY FirstIn
    <3>2. IsFiniteSet(Rest(T)) /\ \A x \in Rest(T) : f[x] \in Int /\ g[x] \in Int
      BY <3>1, FS_Subset
    <3>3. Tally(f, Rest(T)) \in Int /\ Tally(g, Rest(T)) \in Int
      BY <3>2, TallyInt
    <3>. QED  BY <1>1, <3>1, <3>3
  <2>4. T # {} => /\ f[First(T)] \in Int /\ g[First(T)] \in Int
                  /\ h[First(T)] = f[First(T)] + g[First(T)]
    BY <2>3
  <2>5. CASE T = {}
    BY <2>2, <2>5
  <2>6. CASE T # {}
    <3> DEFINE a == f[First(T)]
               b == g[First(T)]
               p == Tally(f, Rest(T))
               q == Tally(g, Rest(T))
    <3>1. /\ Tally(f, T) = a + p /\ Tally(g, T) = b + q
          /\ Tally(h, T) = (a + b) + (p + q)
      BY <2>2, <2>3, <2>4, <2>6
    <3>2. (a + b) + (p + q) = (a + p) + (b + q)
      <4>1. a \in Int /\ b \in Int /\ p \in Int /\ q \in Int
        BY <2>3, <2>4, <2>6
      <4> HIDE DEF a, b, p, q
      <4>. QED  BY <4>1
    <3>. QED  BY <3>1, <3>2
  <2>. QED  BY <2>5, <2>6
<1>2. \A T \in SUBSET S : T \in G
  <2> HIDE DEF G
  <2>. QED  BY <1>1, SubsetInduction
<1>. QED  BY <1>2

\* Sums whose terms differ by half of c at most differ by half of c for each term.
LEMMA TallyNear ==
  ASSUME NEW S, IsFiniteSet(S), NEW f, NEW g, NEW c \in Int,
         \A x \in S : f[x] \in Int /\ g[x] \in Int,
         \A x \in S : 2 * (f[x] - g[x]) <= c /\ 2 * (g[x] - f[x]) <= c
  PROVE  /\ 2 * (Tally(f, S) - Tally(g, S)) <= Cardinality(S) * c
         /\ 2 * (Tally(g, S) - Tally(f, S)) <= Cardinality(S) * c
<1> DEFINE G == {T \in SUBSET S : /\ 2 * (Tally(f, T) - Tally(g, T)) <= Cardinality(T) * c
                                  /\ 2 * (Tally(g, T) - Tally(f, T)) <= Cardinality(T) * c}
<1>1. ASSUME NEW T \in SUBSET S, \A U \in SUBSET T : U # T => U \in G
      PROVE  T \in G
  <2>1. IsFiniteSet(T)
    BY FS_Subset
  <2>2. /\ Tally(f, T) = IF T = {} THEN 0 ELSE f[First(T)] + Tally(f, Rest(T))
        /\ Tally(g, T) = IF T = {} THEN 0 ELSE g[First(T)] + Tally(g, Rest(T))
    BY <2>1, TallyNext
  <2>3. CASE T = {}
    <3>1. Cardinality(T) = 0 /\ 0 * c = 0
      BY <2>3, FS_EmptySet
    <3>. QED  BY <2>2, <2>3, <3>1
  <2>4. CASE T # {}
    <3> DEFINE U == Rest(T)
               n == Cardinality(U)
    <3>1. First(T) \in T /\ U \in SUBSET T /\ U # T /\ U = T \ {First(T)}
      BY <2>4, FirstIn DEF Rest
    <3> HIDE DEF U
    <3>2. IsFiniteSet(U) /\ \A x \in U : f[x] \in Int /\ g[x] \in Int
      BY <2>1, <3>1, FS_Subset
    <3>3. Tally(f, U) \in Int /\ Tally(g, U) \in Int
      BY <3>2, TallyInt
    <3>4. n \in Nat /\ Cardinality(T) = n + 1
      <4>1. Cardinality(T \ {First(T)}) = Cardinality(T) - 1 /\ Cardinality(T) \in Nat
        BY <2>1, <3>1, FS_RemoveElement, FS_CardinalityType
      <4>2. Cardinality(U) \in Nat
        BY <3>2, FS_CardinalityType
      <4>. QED  BY <3>1, <4>1, <4>2
    <3>5. /\ 2 * (Tally(f, U) - Tally(g, U)) <= n * c
          /\ 2 * (Tally(g, U) - Tally(f, U)) <= n * c
      <4>1. U \in G
        <5> HIDE DEF G
        <5>. QED  BY <1>1, <3>1
      <4>. QED  BY <4>1
    <3> HIDE DEF n
    <3>6. (n + 1) * c = n * c + c /\ n * c \in Int
      BY <3>4
    <3> DEFINE y == First(T)
    <3>7. /\ f[y] \in Int /\ g[y] \in Int
          /\ 2 * (f[y] - g[y]) <= c /\ 2 * (g[y] - f[y]) <= c
      BY <3>1
    <3>8. Tally(f, T) = f[y] + Tally(f, U) /\ Tally(g, T) = g[y] + Tally(g, U)
      BY <2>2, <2>4 DEF U
    <3> HIDE DEF y
    <3> DEFINE m == n * c
               a == f[y]
               b == g[y]
               p == Tally(f, U)
               q == Tally(g, U)
    <3>9. 2 * ((a + p) - (b + q)) <= m + c /\ 2 * ((b + q) - (a + p)) <= m + c
      <4>1. a \in Int /\ b \in Int /\ p \in Int /\ q \in Int /\ m \in Int
        BY <3>3, <3>6, <3>7
      <4>2. /\ 2 * (a - b) <= c /\ 2 * (b - a) <= c
            /\ 2 * (p - q) <= m /\ 2 * (q - p) <= m
        BY <3>5, <3>7
      <4> HIDE DEF a, b, p, q, m
      <4>. QED  BY <4>1, <4>2
    <3>. QED  BY <3>4, <3>6, <3>8, <3>9
  <2>. QED  BY <2>3, <2>4
<1>2. \A T \in SUBSET S : T \in G
  <2> HIDE DEF G
  <2>. QED  BY <1>1, SubsetInduction
<1>. QED  BY <1>2

\* A sum of multiples.
LEMMA TallyScale ==
  ASSUME NEW S, IsFiniteSet(S), NEW f, NEW g, NEW m \in Int,
         \A x \in S : f[x] \in Int /\ g[x] = f[x] * m
  PROVE  Tally(g, S) = Tally(f, S) * m
<1> DEFINE G == {T \in SUBSET S : Tally(g, T) = Tally(f, T) * m}
<1>1. ASSUME NEW T \in SUBSET S, \A U \in SUBSET T : U # T => U \in G
      PROVE  T \in G
  <2>1. IsFiniteSet(T)
    BY FS_Subset
  <2>2. /\ Tally(f, T) = IF T = {} THEN 0 ELSE f[First(T)] + Tally(f, Rest(T))
        /\ Tally(g, T) = IF T = {} THEN 0 ELSE g[First(T)] + Tally(g, Rest(T))
    BY <2>1, TallyNext
  <2>3. CASE T = {}
    <3>1. 0 * m = 0
      OBVIOUS
    <3>. QED  BY <2>2, <2>3, <3>1
  <2>4. CASE T # {}
    <3> DEFINE a == f[First(T)]
               p == Tally(f, Rest(T))
    <3>1. First(T) \in T /\ Rest(T) \in SUBSET T /\ Rest(T) # T
      BY <2>4, FirstIn
    <3>2. IsFiniteSet(Rest(T)) /\ \A x \in Rest(T) : f[x] \in Int
      BY <3>1, FS_Subset
    <3>3. p \in Int
      BY <3>2, TallyInt
    <3>4. a \in Int /\ g[First(T)] = a * m
      BY <3>1
    <3>5. Tally(g, Rest(T)) = p * m
      BY <1>1, <3>1
    <3>6. Tally(f, T) = a + p /\ Tally(g, T) = a * m + p * m
      BY <2>2, <2>4, <3>4, <3>5
    <3>7. a * m + p * m = (a + p) * m
      <4> HIDE DEF a, p
      <4>. QED  BY <3>3, <3>4
    <3>. QED  BY <3>6, <3>7
  <2>. QED  BY <2>3, <2>4
<1>2. \A T \in SUBSET S : T \in G
  <2> HIDE DEF G
  <2>. QED  BY <1>1, SubsetInduction
<1>. QED  BY <1>2

-----------------------------------------------------------------------------
\* The community modules' sums: a function choosing its elements in this order.
LEMMA ChosenFold ==
  ASSUME NEW S, IsFiniteSet(S), NEW f, NEW g, IsFold(g, f, S)
  PROVE  g[S] = Tally(f, S)
<1>1. IsFold(CHOOSE h : IsFold(h, f, S), f, S)
  BY FoldExists
<1>2. g = CHOOSE h : IsFold(h, f, S)
  <2> DEFINE c == CHOOSE h : IsFold(h, f, S)
  <2> HIDE DEF c
  <2>1. IsFold(c, f, S)
    BY <1>1 DEF c
  <2>2. g = c
    BY <2>1, FoldIsUnique
  <2>. QED  BY <2>2 DEF c
<1>. QED  BY <1>2 DEF Tally

\* The sum of a function's values.
LEMMA SumOfValues ==
  ASSUME NEW S, IsFiniteSet(S), NEW f
  PROVE  MapThenSumSet(LAMBDA a : f[a], S) = Tally(f, S)
<1> DEFINE Is(h) == h = [s \in SUBSET S |-> IF s = {} THEN 0
                       ELSE LET x == CHOOSE y \in s : TRUE IN f[x] + h[s \ {x}]]
           it == CHOOSE h : Is(h)
<1>1. MapThenSumSet(LAMBDA a : f[a], S) = it[S]
  BY Zenon DEF MapThenSumSet, MapThenFoldSet
<1>2. \A h : Is(h) <=> IsFold(h, f, S)
  BY DEF IsFold, First, Rest
<1>3. \E h : Is(h)
  BY <1>2, FoldExists
<1>4. Is(it)
  <2> HIDE DEF Is
  <2>. QED  BY <1>3
<1>5. IsFold(it, f, S)
  <2> HIDE DEF Is, it
  <2>. QED  BY <1>2, <1>4
<1>6. it[S] = Tally(f, S)
  <2> HIDE DEF it
  <2>. QED  BY <1>5, ChosenFold
<1>. QED  BY <1>1, <1>6

\* The sum of one field of the members.
LEMMA SumOfAmounts ==
  ASSUME NEW S, IsFiniteSet(S)
  PROVE  MapThenSumSet(LAMBDA p : p.amount, S) = Tally([p \in S |-> p.amount], S)
<1> DEFINE f == [p \in S |-> p.amount]
           Is(h) == h = [s \in SUBSET S |-> IF s = {} THEN 0
                       ELSE LET x == CHOOSE y \in s : TRUE IN x.amount + h[s \ {x}]]
           it == CHOOSE h : Is(h)
<1>1. MapThenSumSet(LAMBDA p : p.amount, S) = it[S]
  BY Zenon DEF MapThenSumSet, MapThenFoldSet
<1>2. ASSUME NEW h PROVE Is(h) <=> IsFold(h, f, S)
  <2>1. \A s \in SUBSET S : s # {} => f[First(s)] = First(s).amount
    BY FirstIn
  <2> HIDE DEF f
  <2>2. [s \in SUBSET S |-> IF s = {} THEN 0 ELSE f[First(s)] + h[Rest(s)]]
          = [s \in SUBSET S |-> IF s = {} THEN 0 ELSE First(s).amount + h[Rest(s)]]
    BY <2>1
  <2>3. Is(h) <=> h = [s \in SUBSET S |-> IF s = {} THEN 0 ELSE First(s).amount + h[Rest(s)]]
    BY DEF First, Rest
  <2>. QED  BY <2>2, <2>3 DEF IsFold
<1>3. \E h : Is(h)
  <2>1. \E h : IsFold(h, f, S)
    BY FoldExists
  <2> HIDE DEF f, Is
  <2>. QED  BY <1>2, <2>1
<1>4. Is(it)
  <2> HIDE DEF Is
  <2>. QED  BY <1>3
<1>5. IsFold(it, f, S)
  <2> HIDE DEF Is, it, f
  <2>. QED  BY <1>2, <1>4
<1>6. it[S] = Tally(f, S)
  <2> HIDE DEF it, f
  <2>. QED  BY <1>5, ChosenFold
<1>. QED  BY <1>1, <1>6

\* What that sum is for no members, and for one member more or less.
LEMMA AmountsAddUp ==
  ASSUME NEW S, IsFiniteSet(S), \A p \in S : p.amount \in Int
  PROVE  /\ MapThenSumSet(LAMBDA p : p.amount, S) \in Int
         /\ S = {} => MapThenSumSet(LAMBDA p : p.amount, S) = 0
         /\ \A z \in S : MapThenSumSet(LAMBDA p : p.amount, S)
                           = z.amount + MapThenSumSet(LAMBDA p : p.amount, S \ {z})
<1> DEFINE f == [p \in S |-> p.amount]
           sum == MapThenSumSet(LAMBDA p : p.amount, S)
<1>1. sum = Tally(f, S)
  BY SumOfAmounts
<1>2. \A p \in S : f[p] \in Int /\ f[p] = p.amount
  OBVIOUS
<1>3. ASSUME NEW z \in S
      PROVE  sum = z.amount + MapThenSumSet(LAMBDA p : p.amount, S \ {z})
  <2> DEFINE T == S \ {z}
             g == [p \in T |-> p.amount]
             less == MapThenSumSet(LAMBDA p : p.amount, T)
  <2>1. IsFiniteSet(T)
    BY FS_Subset
  <2>2. less = Tally(g, T)
    <3> HIDE DEF T
    <3>. QED  BY <2>1, SumOfAmounts
  <2>3. \A p \in T : g[p] = f[p]
    OBVIOUS
  <2>4. Tally(g, T) = Tally(f, T)
    <3> HIDE DEF T, g, f
    <3>. QED  BY <2>1, <2>3, TallyCong
  <2>5. Tally(f, S) = f[z] + Tally(f, T)
    <3> HIDE DEF f
    <3>. QED  BY <1>2, TallyRemove
  <2> HIDE DEF T, g, f, less, sum
  <2>6. sum = z.amount + less
    BY <1>1, <1>2, <2>2, <2>4, <2>5
  <2>. QED  BY <2>6 DEF less, T
<1>4. sum \in Int
  <2> HIDE DEF f, sum
  <2>. QED  BY <1>1, <1>2, TallyInt
<1>5. S = {} => sum = 0
  <2> HIDE DEF f, sum
  <2>. QED  BY <1>1, TallyEmpty
<1>. QED  BY <1>3, <1>4, <1>5
=============================================================================
