-------------------------------- MODULE Sums --------------------------------
(***************************************************************************)
(* Facts about least elements and about the sums over finite sets that the *)
(* reports and the tapes are computed with (SumFunctionOnSet of Functions).*)
(* Induction is by a least counterexample: no lemma takes an operator.     *)
(***************************************************************************)
EXTENDS FiniteSetsExt, FiniteSetTheorems, TLAPS

\* A set of finite sets has one that contains no other.
LEMMA LeastSubset == ASSUME NEW F, F # {}, \A T \in F : IsFiniteSet(T)
                     PROVE  \E T \in F : \A U \in F : U \subseteq T => U = T
<1> DEFINE S == UNION F
<1>1. F \subseteq FiniteSubsetsOf(S)
  BY DEF FiniteSubsetsOf
<1>2. PICK T \in F : \A U \in F : ~ (<<U, T>> \in StrictSubsetOrdering(S))
  BY <1>1, FS_StrictSubsetOrderingWellFounded, WFMin, Zenon
<1>3. \A U \in F : U \subseteq T => U = T
  BY <1>2 DEF StrictSubsetOrdering
<1> QED
  BY <1>3

\* Every set of naturals has a least element.
LEMMA LeastNat == ASSUME NEW T \in SUBSET Nat, T # {}
                  PROVE  \E x \in T : \A y \in T : x <= y
<1> DEFINE Below == {0..t : t \in T}
<1>1. Below # {}
  OBVIOUS
<1>2. \A B \in Below : IsFiniteSet(B)
  <2>1. \A t \in T : IsFiniteSet(0..t)
    BY FS_Interval
  <2> QED
    BY <2>1
<1>3. PICK b \in Below : \A c \in Below : c \subseteq b => c = b
  <2> HIDE DEF Below
  <2> QED
    BY <1>1, <1>2, LeastSubset
<1>4. PICK x \in T : b = 0..x
  OBVIOUS
<1>5. ASSUME NEW y \in T, ~ (x <= y)
      PROVE  FALSE
  <2>1. 0..y \in Below
    OBVIOUS
  <2>2. 0..y \subseteq 0..x /\ x \in 0..x /\ x \notin 0..y
    BY <1>5
  <2> QED
    BY <1>3, <1>4, <2>1, <2>2
<1> QED
  BY <1>5

LEMMA LeastIsMin == ASSUME NEW T \in SUBSET Nat, T # {}
                    PROVE  Min(T) \in T /\ \A t \in T : Min(T) <= t
BY LeastNat DEF Min

\* A finite set of naturals has a greatest element.
LEMMA GreatestNat == ASSUME NEW T \in SUBSET Nat, T # {}, NEW n \in Nat, \A t \in T : t <= n
                     PROVE  \E x \in T : \A y \in T : y <= x
<1> DEFINE D == {n - t : t \in T}
<1>1. D \subseteq Nat /\ D # {}
  <2>1. \A t \in T : n - t \in Nat
    OBVIOUS
  <2> QED
    BY <2>1
<1>2. PICK d \in D : \A e \in D : d <= e
  BY <1>1, LeastNat
<1>3. PICK x \in T : d = n - x
  OBVIOUS
<1>4. \A y \in T : n - y \in D
  OBVIOUS
<1> HIDE DEF D
<1> QED
  BY <1>2, <1>3, <1>4

\* What is true of 0 and of the successor of each it is true of holds for all naturals.
LEMMA NatSetInduction == ASSUME NEW P, 0 \in P, \A n \in Nat : n \in P => n + 1 \in P
                         PROVE  Nat \subseteq P
<1> SUFFICES ASSUME Nat \ P # {}
             PROVE  FALSE
  OBVIOUS
<1>1. PICK x \in Nat \ P : \A y \in Nat \ P : x <= y
  <2>1. Nat \ P \in SUBSET Nat
    OBVIOUS
  <2> QED
    BY <2>1, LeastNat
<1>2. x # 0 /\ x - 1 \in Nat /\ x = (x - 1) + 1
  OBVIOUS
<1>3. x - 1 \in P
  BY <1>1, <1>2
<1> QED
  BY <1>2, <1>3

-----------------------------------------------------------------------------
(* The sum as a fold: what its recursive definition defines.               *)

Pick(s) == CHOOSE x \in s : TRUE

Solves(g, T, f) ==
    g = [s \in SUBSET T |-> IF s = {} THEN 0 ELSE f[Pick(s)] + g[s \ {Pick(s)}]]

LEMMA PickIn == ASSUME NEW s, s # {} PROVE Pick(s) \in s
BY DEF Pick

LEMMA SumIsSolution ==
    ASSUME NEW f, NEW T
    PROVE  SumFunctionOnSet(f, T) = (CHOOSE g : Solves(g, T, f))[T]
BY DEF SumFunctionOnSet, FoldFunctionOnSet, MapThenFoldSet, Solves, Pick

LEMMA SolutionAt ==
    ASSUME NEW f, NEW T, NEW g, Solves(g, T, f), NEW s \in SUBSET T
    PROVE  g[s] = IF s = {} THEN 0 ELSE f[Pick(s)] + g[s \ {Pick(s)}]
BY DEF Solves

LEMMA SolutionsAgree ==
    ASSUME NEW f, NEW T, IsFiniteSet(T), NEW U \in SUBSET T,
           NEW g, Solves(g, T, f), NEW h, Solves(h, U, f)
    PROVE  g[U] = h[U]
<1> DEFINE Bad == {s \in SUBSET U : g[s] # h[s]}
<1> SUFFICES ASSUME Bad # {}
             PROVE  FALSE
  OBVIOUS
<1>1. PICK s \in Bad : \A r \in Bad : r \subseteq s => r = s
  <2>1. \A r \in Bad : IsFiniteSet(r)
    BY FS_Subset
  <2> HIDE DEF Bad
  <2> QED
    BY <2>1, LeastSubset
<1>2. s \in SUBSET U /\ s \in SUBSET T
  OBVIOUS
<1>3. s # {}
  BY <1>2, SolutionAt
<1>4. Pick(s) \in s
  BY <1>3, PickIn
<1>5. g[s \ {Pick(s)}] = h[s \ {Pick(s)}]
  BY <1>1, <1>2, <1>4
<1> QED
  BY <1>2, <1>3, <1>5, SolutionAt

LEMMA SolutionExists ==
    ASSUME NEW f, NEW S, IsFiniteSet(S)
    PROVE  \E g : Solves(g, S, f)
<1> DEFINE Bad == {s \in SUBSET S : ~ \E g : Solves(g, s, f)}
<1> SUFFICES ASSUME Bad # {}
             PROVE  FALSE
  OBVIOUS
<1>1. PICK T \in Bad : \A r \in Bad : r \subseteq T => r = T
  <2>1. \A r \in Bad : IsFiniteSet(r)
    BY FS_Subset
  <2> HIDE DEF Bad
  <2> QED
    BY <2>1, LeastSubset
<1> DEFINE Of(s) == CHOOSE g : Solves(g, s, f)
           Sum(s) == Of(s)[s]
           G == [s \in SUBSET T |-> IF s = {} THEN 0 ELSE f[Pick(s)] + Sum(s \ {Pick(s)})]
<1>2. T \in SUBSET S /\ ~ \E g : Solves(g, T, f)
  OBVIOUS
<1>3. \A s \in SUBSET T : s # T => Solves(Of(s), s, f) /\ IsFiniteSet(s)
  <2> SUFFICES ASSUME NEW s \in SUBSET T, s # T
               PROVE  Solves(Of(s), s, f) /\ IsFiniteSet(s)
    OBVIOUS
  <2>1. \E g : Solves(g, s, f)
    BY <1>1, <1>2
  <2>2. IsFiniteSet(s)
    BY <1>2, FS_Subset
  <2> QED
    BY <2>1, <2>2
<1> HIDE DEF Bad, Of
<1>4. ASSUME NEW r \in SUBSET T, r # T
      PROVE  G[r] = Sum(r)
  <2>1. Solves(Of(r), r, f) /\ IsFiniteSet(r) /\ r \in SUBSET r
    BY <1>3, <1>4
  <2>2. Sum(r) = IF r = {} THEN 0 ELSE f[Pick(r)] + Of(r)[r \ {Pick(r)}]
    BY <2>1, SolutionAt
  <2>3. CASE r = {}
    BY <2>2, <2>3
  <2>4. CASE r # {}
    <3>1. Pick(r) \in r
      BY <2>4, PickIn
    <3>2. r \ {Pick(r)} \in SUBSET T /\ r \ {Pick(r)} # T /\ r \ {Pick(r)} \in SUBSET r
      BY <1>4, <3>1
    <3>3. Solves(Of(r \ {Pick(r)}), r \ {Pick(r)}, f)
      BY <1>3, <3>2
    <3>4. Of(r)[r \ {Pick(r)}] = Sum(r \ {Pick(r)})
      BY <2>1, <3>2, <3>3, SolutionsAgree
    <3> QED
      BY <2>2, <2>4, <3>4
  <2> QED
    BY <2>3, <2>4
<1>5. ASSUME NEW s \in SUBSET T, s # {}
      PROVE  Sum(s \ {Pick(s)}) = G[s \ {Pick(s)}]
  <2>1. Pick(s) \in s
    BY <1>5, PickIn
  <2>2. s \ {Pick(s)} \in SUBSET T /\ s \ {Pick(s)} # T
    BY <2>1
  <2> QED
    BY <1>4, <2>2
<1>6. G = [s \in SUBSET T |-> IF s = {} THEN 0 ELSE f[Pick(s)] + G[s \ {Pick(s)}]]
  <2> DEFINE H == [s \in SUBSET T |-> IF s = {} THEN 0 ELSE f[Pick(s)] + G[s \ {Pick(s)}]]
  <2>1. \A s \in SUBSET T : G[s] = H[s]
    <3> HIDE DEF Sum
    <3> QED
      BY <1>5
  <2> QED
    BY <2>1
<1>7. Solves(G, T, f)
  <2> HIDE DEF G
  <2> QED
    BY <1>6 DEF Solves
<1> QED
  BY <1>2, <1>7

\* The recursive equation of the sum.
LEMMA SumPick ==
    ASSUME NEW f, NEW T, IsFiniteSet(T)
    PROVE  /\ T = {} => SumFunctionOnSet(f, T) = 0
           /\ T # {} => SumFunctionOnSet(f, T) = f[Pick(T)] + SumFunctionOnSet(f, T \ {Pick(T)})
<1> DEFINE Of(s) == CHOOSE g : Solves(g, s, f)
<1>1. \A s \in SUBSET T : Solves(Of(s), s, f) /\ SumFunctionOnSet(f, s) = Of(s)[s]
  <2> TAKE s \in SUBSET T
  <2>1. \E g : Solves(g, s, f)
    BY FS_Subset, SolutionExists
  <2> QED
    BY <2>1, SumIsSolution
<1> HIDE DEF Of
<1>2. T \in SUBSET T /\ T \ {Pick(T)} \in SUBSET T
  OBVIOUS
<1>3. Of(T)[T \ {Pick(T)}] = Of(T \ {Pick(T)})[T \ {Pick(T)}]
  BY <1>1, <1>2, SolutionsAgree
<1>4. Of(T)[T] = IF T = {} THEN 0 ELSE f[Pick(T)] + Of(T)[T \ {Pick(T)}]
  BY <1>1, <1>2, SolutionAt
<1> QED
  BY <1>1, <1>2, <1>3, <1>4

-----------------------------------------------------------------------------
(* What holds of sums whatever the order of their terms.                   *)

\* What is true of the empty set, and of a set if it is true of that set without any one
\* of its elements, is true of a finite set.
LEMMA FiniteSetInduction ==
    ASSUME NEW S, IsFiniteSet(S), NEW P, {} \in P,
           \A T \in SUBSET S : T # {} /\ (\A x \in T : T \ {x} \in P) => T \in P
    PROVE  S \in P
<1> DEFINE Bad == {T \in SUBSET S : T \notin P}
<1> SUFFICES ASSUME Bad # {}
             PROVE  FALSE
  OBVIOUS
<1>1. PICK T \in Bad : \A r \in Bad : r \subseteq T => r = T
  <2>1. \A r \in Bad : IsFiniteSet(r)
    BY FS_Subset
  <2> HIDE DEF Bad
  <2> QED
    BY <2>1, LeastSubset
<1>2. T # {}
  OBVIOUS
<1>3. ASSUME NEW x \in T
      PROVE  T \ {x} \in P
  BY <1>1
<1> QED
  BY <1>1, <1>2, <1>3

LEMMA SumEmpty == ASSUME NEW f PROVE SumFunctionOnSet(f, {}) = 0
BY FS_EmptySet, SumPick

LEMMA SumInt ==
    ASSUME NEW S, IsFiniteSet(S), NEW f, \A x \in S : f[x] \in Int
    PROVE  SumFunctionOnSet(f, S) \in Int
<1> DEFINE P == {T \in SUBSET S : SumFunctionOnSet(f, T) \in Int}
<1>1. {} \in P
  BY SumEmpty
<1>2. ASSUME NEW T \in SUBSET S, T # {}, \A x \in T : T \ {x} \in P
      PROVE  T \in P
  <2>1. Pick(T) \in T
    BY <1>2, PickIn
  <2>2. SumFunctionOnSet(f, T) = f[Pick(T)] + SumFunctionOnSet(f, T \ {Pick(T)})
    BY <1>2, FS_Subset, SumPick
  <2> QED
    BY <1>2, <2>1, <2>2
<1> HIDE DEF P
<1>3. S \in P
  BY <1>1, <1>2, FiniteSetInduction
<1> QED
  BY <1>3 DEF P

\* Any term may be taken out first.
LEMMA SumTake ==
    ASSUME NEW S, IsFiniteSet(S), NEW f, \A x \in S : f[x] \in Int, NEW e \in S
    PROVE  SumFunctionOnSet(f, S) = f[e] + SumFunctionOnSet(f, S \ {e})
<1> DEFINE Sum(T) == SumFunctionOnSet(f, T)
           P == {T \in SUBSET S : \A x \in T : Sum(T) = f[x] + Sum(T \ {x})}
<1>1. {} \in P
  OBVIOUS
<1>2. ASSUME NEW T \in SUBSET S, T # {}, \A x \in T : T \ {x} \in P
      PROVE  T \in P
  <2>1. \A r \in SUBSET T : IsFiniteSet(r) /\ Sum(r) \in Int
    <3> TAKE r \in SUBSET T
    <3>1. IsFiniteSet(r) /\ \A y \in r : f[y] \in Int
      BY FS_Subset
    <3> QED
      BY <3>1, SumInt
  <2> DEFINE p == Pick(T)
  <2>2. p \in T
    BY <1>2, PickIn
  <2>3. Sum(T) = f[p] + Sum(T \ {p})
    BY <1>2, <2>1, SumPick
  <2> HIDE DEF p, Sum
  <2>4. ASSUME NEW x \in T
        PROVE  Sum(T) = f[x] + Sum(T \ {x})
    <3>1. CASE x = p
      BY <2>3, <3>1
    <3>2. CASE x # p
      <4>1. Sum(T \ {p}) = f[x] + Sum((T \ {p}) \ {x})
        BY <1>2, <2>2, <3>2
      <4>2. Sum(T \ {x}) = f[p] + Sum((T \ {x}) \ {p})
        BY <1>2, <2>2, <3>2
      <4>3. Sum((T \ {p}) \ {x}) = Sum((T \ {x}) \ {p})
        <5>1. (T \ {p}) \ {x} = (T \ {x}) \ {p}
          OBVIOUS
        <5> QED
          BY <5>1
      <4>4. Sum((T \ {x}) \ {p}) \in Int
        BY <2>1
      <4>5. f[p] \in Int /\ f[x] \in Int
        BY <2>2
      <4> QED
        BY <2>3, <4>1, <4>2, <4>3, <4>4, <4>5
    <3> QED
      BY <3>1, <3>2
  <2> QED
    BY <2>4
<1> HIDE DEF P
<1>3. S \in P
  BY <1>1, <1>2, FiniteSetInduction
<1> QED
  BY <1>3 DEF P

\* Sums over one set of terms that are equal, or not greater.
LEMMA SumSame ==
    ASSUME NEW S, IsFiniteSet(S), NEW f, NEW g,
           \A x \in S : f[x] \in Int /\ g[x] = f[x]
    PROVE  SumFunctionOnSet(g, S) = SumFunctionOnSet(f, S)
<1> DEFINE P == {T \in SUBSET S : SumFunctionOnSet(g, T) = SumFunctionOnSet(f, T)}
<1>1. {} \in P
  BY SumEmpty
<1>2. ASSUME NEW T \in SUBSET S, T # {}, \A x \in T : T \ {x} \in P
      PROVE  T \in P
  <2> PICK x \in T : TRUE
    BY <1>2
  <2>1. IsFiniteSet(T) /\ \A y \in T : f[y] \in Int /\ g[y] \in Int
    BY FS_Subset
  <2>2. SumFunctionOnSet(f, T) = f[x] + SumFunctionOnSet(f, T \ {x})
    BY <2>1, SumTake
  <2>3. SumFunctionOnSet(g, T) = g[x] + SumFunctionOnSet(g, T \ {x})
    BY <2>1, SumTake
  <2> QED
    BY <1>2, <2>2, <2>3
<1> HIDE DEF P
<1>3. S \in P
  BY <1>1, <1>2, FiniteSetInduction
<1> QED
  BY <1>3 DEF P

LEMMA SumLeq ==
    ASSUME NEW S, IsFiniteSet(S), NEW f, NEW g,
           \A x \in S : f[x] \in Int /\ g[x] \in Int /\ f[x] <= g[x]
    PROVE  SumFunctionOnSet(f, S) <= SumFunctionOnSet(g, S)
<1> DEFINE P == {T \in SUBSET S : SumFunctionOnSet(f, T) <= SumFunctionOnSet(g, T)}
<1>1. {} \in P
  BY SumEmpty
<1>2. ASSUME NEW T \in SUBSET S, T # {}, \A x \in T : T \ {x} \in P
      PROVE  T \in P
  <2> PICK x \in T : TRUE
    BY <1>2
  <2>1. IsFiniteSet(T) /\ \A y \in T : f[y] \in Int /\ g[y] \in Int
    BY FS_Subset
  <2>2. SumFunctionOnSet(f, T) = f[x] + SumFunctionOnSet(f, T \ {x})
    BY <2>1, SumTake
  <2>3. SumFunctionOnSet(g, T) = g[x] + SumFunctionOnSet(g, T \ {x})
    BY <2>1, SumTake
  <2>4. IsFiniteSet(T \ {x}) /\ \A y \in T \ {x} : f[y] \in Int /\ g[y] \in Int
    BY <2>1, FS_Subset
  <2>5. SumFunctionOnSet(f, T \ {x}) \in Int /\ SumFunctionOnSet(g, T \ {x}) \in Int
    BY <2>4, SumInt
  <2> QED
    BY <1>2, <2>1, <2>2, <2>3, <2>5
<1> HIDE DEF P
<1>3. S \in P
  BY <1>1, <1>2, FiniteSetInduction
<1> QED
  BY <1>3 DEF P

LEMMA SumNat ==
    ASSUME NEW S, IsFiniteSet(S), NEW f, \A x \in S : f[x] \in Nat
    PROVE  SumFunctionOnSet(f, S) \in Nat
<1> DEFINE P == {T \in SUBSET S : SumFunctionOnSet(f, T) \in Nat}
<1>1. {} \in P
  BY SumEmpty
<1>2. ASSUME NEW T \in SUBSET S, T # {}, \A x \in T : T \ {x} \in P
      PROVE  T \in P
  <2> PICK x \in T : TRUE
    BY <1>2
  <2>1. IsFiniteSet(T) /\ \A y \in T : f[y] \in Int
    BY FS_Subset
  <2>2. SumFunctionOnSet(f, T) = f[x] + SumFunctionOnSet(f, T \ {x})
    BY <2>1, SumTake
  <2> QED
    BY <1>2, <2>2
<1> HIDE DEF P
<1>3. S \in P
  BY <1>1, <1>2, FiniteSetInduction
<1> QED
  BY <1>3 DEF P

\* A term is at most the sum, and a sum of nothings is nothing.
LEMMA TermLeqSum ==
    ASSUME NEW S, IsFiniteSet(S), NEW f, \A x \in S : f[x] \in Nat, NEW e \in S
    PROVE  f[e] <= SumFunctionOnSet(f, S)
<1>1. SumFunctionOnSet(f, S) = f[e] + SumFunctionOnSet(f, S \ {e})
  BY SumTake
<1>2. IsFiniteSet(S \ {e}) /\ \A x \in S \ {e} : f[x] \in Nat
  BY FS_Subset
<1>3. SumFunctionOnSet(f, S \ {e}) \in Nat
  BY <1>2, SumNat
<1> QED
  BY <1>1, <1>3

\* Terms that are zero may be left out.
LEMMA SumSupport ==
    ASSUME NEW S, IsFiniteSet(S), NEW U \in SUBSET S, NEW f, NEW g,
           \A x \in U : f[x] \in Int /\ g[x] = f[x], \A x \in S \ U : f[x] = 0
    PROVE  SumFunctionOnSet(f, S) = SumFunctionOnSet(g, U)
<1> DEFINE P == {T \in SUBSET S : SumFunctionOnSet(f, T) = SumFunctionOnSet(g, T \cap U)}
<1>1. {} \in P
  <2>1. {} \cap U = {}
    OBVIOUS
  <2> QED
    BY <2>1, SumEmpty
<1>2. ASSUME NEW T \in SUBSET S, T # {}, \A x \in T : T \ {x} \in P
      PROVE  T \in P
  <2> PICK x \in T : TRUE
    BY <1>2
  <2>1. IsFiniteSet(T) /\ \A y \in T : f[y] \in Int
    BY FS_Subset
  <2>2. SumFunctionOnSet(f, T) = f[x] + SumFunctionOnSet(f, T \ {x})
    BY <2>1, SumTake
  <2>3. SumFunctionOnSet(f, T \ {x}) = SumFunctionOnSet(g, (T \ {x}) \cap U)
    BY <1>2
  <2>4. SumFunctionOnSet(g, (T \ {x}) \cap U) \in Int
    <3>1. IsFiniteSet((T \ {x}) \cap U) /\ \A y \in (T \ {x}) \cap U : g[y] \in Int
      BY FS_Subset
    <3> QED
      BY <3>1, SumInt
  <2>5. CASE x \in U
    <3>1. IsFiniteSet(T \cap U) /\ \A y \in T \cap U : g[y] \in Int
      BY FS_Subset
    <3>2. SumFunctionOnSet(g, T \cap U) = g[x] + SumFunctionOnSet(g, (T \cap U) \ {x})
      BY <2>5, <3>1, SumTake
    <3>3. (T \cap U) \ {x} = (T \ {x}) \cap U
      OBVIOUS
    <3> QED
      BY <2>2, <2>3, <2>5, <3>2, <3>3
  <2>6. CASE x \notin U
    <3>1. (T \ {x}) \cap U = T \cap U
      BY <2>6
    <3> QED
      BY <2>2, <2>3, <2>4, <2>6, <3>1
  <2> QED
    BY <2>5, <2>6
<1> HIDE DEF P
<1>3. S \in P
  BY <1>1, <1>2, FiniteSetInduction
<1>4. S \cap U = U
  OBVIOUS
<1> QED
  BY <1>3, <1>4 DEF P

LEMMA SumZero ==
    ASSUME NEW S, IsFiniteSet(S), NEW f, \A x \in S : f[x] = 0
    PROVE  SumFunctionOnSet(f, S) = 0
<1>1. SumFunctionOnSet(f, S) = SumFunctionOnSet(f, {})
  BY SumSupport
<1> QED
  BY <1>1, SumEmpty

\* A sum of sums.
LEMMA SumPlus ==
    ASSUME NEW S, IsFiniteSet(S), NEW f, NEW g, NEW h,
           \A x \in S : f[x] \in Int /\ g[x] \in Int /\ h[x] = f[x] + g[x]
    PROVE  SumFunctionOnSet(h, S) = SumFunctionOnSet(f, S) + SumFunctionOnSet(g, S)
<1> DEFINE P == {T \in SUBSET S : SumFunctionOnSet(h, T)
                                  = SumFunctionOnSet(f, T) + SumFunctionOnSet(g, T)}
<1>1. {} \in P
  BY SumEmpty
<1>2. ASSUME NEW T \in SUBSET S, T # {}, \A x \in T : T \ {x} \in P
      PROVE  T \in P
  <2> PICK x \in T : TRUE
    BY <1>2
  <2>1. IsFiniteSet(T) /\ \A y \in T : f[y] \in Int /\ g[y] \in Int /\ h[y] \in Int
    BY FS_Subset
  <2>2. SumFunctionOnSet(f, T) = f[x] + SumFunctionOnSet(f, T \ {x})
    BY <2>1, SumTake
  <2>3. SumFunctionOnSet(g, T) = g[x] + SumFunctionOnSet(g, T \ {x})
    BY <2>1, SumTake
  <2>4. SumFunctionOnSet(h, T) = h[x] + SumFunctionOnSet(h, T \ {x})
    BY <2>1, SumTake
  <2>5. IsFiniteSet(T \ {x}) /\ \A y \in T \ {x} : f[y] \in Int /\ g[y] \in Int
    BY <2>1, FS_Subset
  <2>6. SumFunctionOnSet(f, T \ {x}) \in Int /\ SumFunctionOnSet(g, T \ {x}) \in Int
    BY <2>5, SumInt
  <2>7. SumFunctionOnSet(h, T \ {x})
        = SumFunctionOnSet(f, T \ {x}) + SumFunctionOnSet(g, T \ {x})
    BY <1>2
  <2>8. h[x] = f[x] + g[x] /\ f[x] \in Int /\ g[x] \in Int
    OBVIOUS
  <2>9. SumFunctionOnSet(h, T) = SumFunctionOnSet(f, T) + SumFunctionOnSet(g, T)
    BY <2>2, <2>3, <2>4, <2>6, <2>7, <2>8
  <2> QED
    BY <2>9
<1> HIDE DEF P
<1>3. S \in P
  BY <1>1, <1>2, FiniteSetInduction
<1> QED
  BY <1>3 DEF P

\* The sum over two sets without a common element.
LEMMA SumUnion ==
    ASSUME NEW S, IsFiniteSet(S), NEW U, IsFiniteSet(U), S \cap U = {}, NEW f,
           \A x \in S \cup U : f[x] \in Int
    PROVE  SumFunctionOnSet(f, S \cup U) = SumFunctionOnSet(f, S) + SumFunctionOnSet(f, U)
<1> DEFINE W == S \cup U
           g == [x \in W |-> IF x \in S THEN f[x] ELSE 0]
           h == [x \in W |-> IF x \in U THEN f[x] ELSE 0]
<1>1. IsFiniteSet(W) /\ S \in SUBSET W /\ U \in SUBSET W
  BY FS_Union
<1>2. \A x \in W : g[x] \in Int /\ h[x] \in Int /\ f[x] = g[x] + h[x]
  OBVIOUS
<1>3. \A x \in S : g[x] \in Int /\ f[x] = g[x]
  OBVIOUS
<1>4. \A x \in W \ S : g[x] = 0
  OBVIOUS
<1>5. \A x \in U : h[x] \in Int /\ f[x] = h[x]
  OBVIOUS
<1>6. \A x \in W \ U : h[x] = 0
  OBVIOUS
<1> HIDE DEF W, g, h
<1>7. SumFunctionOnSet(f, W) = SumFunctionOnSet(g, W) + SumFunctionOnSet(h, W)
  BY <1>1, <1>2, SumPlus
<1>8. SumFunctionOnSet(g, W) = SumFunctionOnSet(f, S)
  BY <1>1, <1>3, <1>4, SumSupport
<1>9. SumFunctionOnSet(h, W) = SumFunctionOnSet(f, U)
  BY <1>1, <1>5, <1>6, SumSupport
<1> QED
  BY <1>7, <1>8, <1>9 DEF W

\* The sum of the sizes of sets without common elements is the size of their union.
LEMMA SumOfSizes ==
    ASSUME NEW S, IsFiniteSet(S), NEW A, NEW f,
           \A x \in S : IsFiniteSet(A[x]) /\ f[x] = Cardinality(A[x]),
           \A x, y \in S : x # y => A[x] \cap A[y] = {}
    PROVE  /\ IsFiniteSet(UNION {A[x] : x \in S})
           /\ Cardinality(UNION {A[x] : x \in S}) = SumFunctionOnSet(f, S)
<1> DEFINE All(T) == UNION {A[x] : x \in T}
           P == {T \in SUBSET S : IsFiniteSet(All(T))
                                  /\ Cardinality(All(T)) = SumFunctionOnSet(f, T)}
<1>1. {} \in P
  <2>1. All({}) = {}
    OBVIOUS
  <2> QED
    BY <2>1, SumEmpty, FS_EmptySet
<1>2. ASSUME NEW T \in SUBSET S, T # {}, \A x \in T : T \ {x} \in P
      PROVE  T \in P
  <2> PICK x \in T : TRUE
    BY <1>2
  <2>1. IsFiniteSet(T) /\ \A y \in T : f[y] \in Int
    BY FS_Subset, FS_CardinalityType
  <2>2. SumFunctionOnSet(f, T) = f[x] + SumFunctionOnSet(f, T \ {x})
    BY <2>1, SumTake
  <2>3. All(T) = A[x] \cup All(T \ {x}) /\ A[x] \cap All(T \ {x}) = {}
    OBVIOUS
  <2>4. IsFiniteSet(All(T \ {x})) /\ IsFiniteSet(A[x]) /\ f[x] = Cardinality(A[x])
        /\ Cardinality(All(T \ {x})) = SumFunctionOnSet(f, T \ {x})
    BY <1>2
  <2> HIDE DEF All
  <2>5. /\ IsFiniteSet(All(T))
        /\ Cardinality(All(T)) = Cardinality(A[x]) + Cardinality(All(T \ {x})) - Cardinality({})
    <3> DEFINE a == A[x]
               b == All(T \ {x})
    <3>1. IsFiniteSet(a) /\ IsFiniteSet(b) /\ a \cap b = {} /\ All(T) = a \cup b
      BY <2>3, <2>4
    <3> HIDE DEF a, b
    <3>2. IsFiniteSet(a \cup b) /\ Cardinality(a \cup b) = Cardinality(a) + Cardinality(b) - Cardinality(a \cap b)
      BY <3>1, FS_Union
    <3>3. IsFiniteSet(All(T)) /\ Cardinality(All(T)) = Cardinality(a) + Cardinality(b) - Cardinality({})
      BY <3>1, <3>2
    <3> QED
      BY <3>3 DEF a, b
  <2>6. Cardinality({}) = 0 /\ Cardinality(A[x]) \in Nat /\ Cardinality(All(T \ {x})) \in Nat
    BY <2>4, FS_EmptySet, FS_CardinalityType
  <2> QED
    BY <2>2, <2>4, <2>5, <2>6
<1> HIDE DEF P
<1>3. S \in P
  BY <1>1, <1>2, FiniteSetInduction
<1> QED
  BY <1>3 DEF P

LEMMA Distribute ==
    ASSUME NEW a \in Nat, NEW b \in Nat, NEW d \in Nat
    PROVE  /\ d * (a + b) = d * a + d * b /\ (a + b) * d = a * d + b * d
           /\ d * a \in Nat /\ d * b \in Nat /\ a * d \in Nat /\ b * d \in Nat
           /\ (a + 1) * d = a * d + d
OBVIOUS

\* Sums of terms that are scaled.
LEMMA SumScaled ==
    ASSUME NEW S, IsFiniteSet(S), NEW f, NEW g, NEW d \in Nat, NEW c \in Nat,
           \A x \in S : f[x] \in Nat /\ g[x] \in Nat /\ d * f[x] <= g[x] /\ g[x] <= d * f[x] + c
    PROVE  LET F == SumFunctionOnSet(f, S)
               G == SumFunctionOnSet(g, S)
           IN  d * F <= G /\ G <= d * F + Cardinality(S) * c
<1> DEFINE F(T) == SumFunctionOnSet(f, T)
           G(T) == SumFunctionOnSet(g, T)
           P == {T \in SUBSET S : d * F(T) <= G(T) /\ G(T) <= d * F(T) + Cardinality(T) * c}
<1>1. {} \in P
  BY SumEmpty, FS_EmptySet
<1>2. ASSUME NEW T \in SUBSET S, T # {}, \A x \in T : T \ {x} \in P
      PROVE  T \in P
  <2> PICK x \in T : TRUE
    BY <1>2
  <2>1. IsFiniteSet(T) /\ IsFiniteSet(T \ {x}) /\ \A y \in T : f[y] \in Nat /\ g[y] \in Nat
    BY FS_Subset
  <2>2. F(T) = f[x] + F(T \ {x}) /\ G(T) = g[x] + G(T \ {x})
    BY <2>1, SumTake
  <2>3. F(T \ {x}) \in Nat /\ G(T \ {x}) \in Nat
    BY <2>1, SumNat
  <2>4. Cardinality(T \ {x}) \in Nat /\ Cardinality(T) = Cardinality(T \ {x}) + 1
    BY <2>1, FS_RemoveElement, FS_CardinalityType
  <2>5. d * F(T \ {x}) <= G(T \ {x}) /\ G(T \ {x}) <= d * F(T \ {x}) + Cardinality(T \ {x}) * c
    BY <1>2
  <2>6. f[x] \in Nat /\ g[x] \in Nat /\ d * f[x] <= g[x] /\ g[x] <= d * f[x] + c
    OBVIOUS
  <2> DEFINE n == Cardinality(T \ {x})
             FT == F(T \ {x})
             GT == G(T \ {x})
  <2>7. d * F(T) <= G(T) /\ G(T) <= d * F(T) + Cardinality(T) * c
    <3>1. d * (f[x] + FT) = d * f[x] + d * FT /\ d * f[x] \in Nat /\ d * FT \in Nat
      BY <2>3, <2>6, Distribute
    <3>2. (n + 1) * c = n * c + c /\ n * c \in Nat
      BY <2>4, Distribute
    <3> HIDE DEF n, FT, GT
    <3>3. d * FT <= GT /\ GT <= d * FT + n * c /\ FT \in Nat /\ GT \in Nat
      BY <2>3, <2>5 DEF n, FT, GT
    <3>4. F(T) = f[x] + FT /\ G(T) = g[x] + GT /\ Cardinality(T) = n + 1
      BY <2>2, <2>4 DEF n, FT, GT
    <3> QED
      BY <2>6, <3>1, <3>2, <3>3, <3>4
  <2> QED
    BY <2>7
<1> HIDE DEF P
<1>3. S \in P
  BY <1>1, <1>2, FiniteSetInduction
<1> QED
  BY <1>3 DEF P

\* A union has no more elements than there are sets, times the most one of them has.
LEMMA SizeOfUnion ==
    ASSUME NEW S, IsFiniteSet(S), NEW A, NEW c \in Nat,
           \A x \in S : IsFiniteSet(A[x]) /\ Cardinality(A[x]) <= c
    PROVE  /\ IsFiniteSet(UNION {A[x] : x \in S})
           /\ Cardinality(UNION {A[x] : x \in S}) <= Cardinality(S) * c
<1> DEFINE All(T) == UNION {A[x] : x \in T}
           P == {T \in SUBSET S : IsFiniteSet(All(T)) /\ Cardinality(All(T)) <= Cardinality(T) * c}
<1>1. {} \in P
  <2>1. All({}) = {}
    OBVIOUS
  <2>2. IsFiniteSet({}) /\ Cardinality({}) = 0 /\ 0 * c = 0
    BY FS_EmptySet
  <2> HIDE DEF All
  <2> QED
    BY <2>1, <2>2
<1>2. ASSUME NEW T \in SUBSET S, T # {}, \A x \in T : T \ {x} \in P
      PROVE  T \in P
  <2> PICK x \in T : TRUE
    BY <1>2
  <2> DEFINE R == T \ {x}
  <2>1. All(T) = All(R) \cup A[x]
    OBVIOUS
  <2>2. IsFiniteSet(All(R)) /\ Cardinality(All(R)) <= Cardinality(R) * c
    BY <1>2
  <2>3. IsFiniteSet(A[x]) /\ Cardinality(A[x]) <= c /\ Cardinality(A[x]) \in Nat
    BY FS_CardinalityType
  <2>4. IsFiniteSet(T) /\ IsFiniteSet(R)
    BY FS_Subset
  <2>5. Cardinality(T) = Cardinality(R) + 1 /\ Cardinality(R) \in Nat
    <3>1. R \cup {x} = T /\ x \notin R
      OBVIOUS
    <3> HIDE DEF R
    <3> QED
      BY <2>4, <3>1, FS_AddElement, FS_CardinalityType
  <2> HIDE DEF All, R
  <2>6. /\ IsFiniteSet(All(T))
        /\ Cardinality(All(T)) = Cardinality(All(R)) + Cardinality(A[x]) - Cardinality(All(R) \cap A[x])
    BY <2>1, <2>2, <2>3, FS_Union
  <2>7. Cardinality(All(R) \cap A[x]) \in Nat /\ Cardinality(All(R)) \in Nat
    BY <2>2, <2>3, FS_Subset, FS_CardinalityType
  <2>8. (Cardinality(R) + 1) * c = Cardinality(R) * c + c /\ Cardinality(R) * c \in Nat
    BY <2>5, Distribute
  <2>9. Cardinality(All(T)) <= Cardinality(T) * c
    BY <2>2, <2>3, <2>5, <2>6, <2>7, <2>8
  <2> QED
    BY <2>6, <2>9
<1> HIDE DEF P
<1>3. S \in P
  BY <1>1, <1>2, FiniteSetInduction
<1> QED
  BY <1>3 DEF P

LEMMA DivNat ==
    ASSUME NEW d \in Nat \ {0}, NEW n \in Nat
    PROVE  /\ n \div d \in Nat /\ n % d \in 0..(d - 1)
           /\ n = d * (n \div d) + (n % d)
OBVIOUS

LEMMA DivMono ==
    ASSUME NEW d \in Nat \ {0}, NEW n \in Nat, NEW m \in Nat, n <= m
    PROVE  n \div d <= m \div d
OBVIOUS

\* Two rests of less than a second make a second at most.
LEMMA DivAdd ==
    ASSUME NEW d \in Nat \ {0}, NEW n \in Nat, NEW m \in Nat
    PROVE  ((n + m) \div d) - (n \div d) - (m \div d) \in 0..1
OBVIOUS

LEMMA IntervalButLast ==
    ASSUME NEW k \in Nat \ {0}
    PROVE  /\ IsFiniteSet(1..k) /\ IsFiniteSet(1..(k - 1))
           /\ k \in 1..k /\ (1..k) \ {k} = 1..(k - 1)
<1>1. IsFiniteSet(1..k) /\ IsFiniteSet(1..(k - 1))
  BY FS_Interval
<1>2. k \in 1..k
  OBVIOUS
<1>3. ASSUME NEW i
      PROVE  i \in (1..k) \ {k} <=> i \in 1..(k - 1)
  OBVIOUS
<1> QED
  BY <1>1, <1>2, <1>3

\* Days cut at their midnights, of which the first d show nothing and are left out: what the cuts
\* lost is a second for each midnight at most.
LEMMA CutsAddUp ==
    ASSUME NEW n \in Nat \ {0}, NEW d \in 0..(n - 1), NEW whole, NEW column, NEW part,
           \A i \in 1..n : whole[i] \in Int /\ column[i] \in Nat,
           \A i \in 1..d : column[i] = 0,
           \A i \in 1..(n - d) : part[i] = column[d + i],
           whole[1] = column[1],
           \A i \in 1..(n - 1) : whole[i + 1] - whole[i] - column[i + 1] \in 0..1
    PROVE  whole[n] - SumFunctionOnSet(part, 1..(n - d)) \in 0..(n - 1)
<1> DEFINE Sum(k) == SumFunctionOnSet(part, 1..k)
           P == {k \in Nat : k <= n - 1 => whole[k + 1] - Sum(k + 1 - d) \in 0..k}
<1>1. ASSUME NEW k \in 1..(n - d)
      PROVE  Sum(k) = Sum(k - 1) + column[d + k] /\ Sum(k) \in Nat /\ Sum(k - 1) \in Nat
  <2>1. IsFiniteSet(1..k) /\ IsFiniteSet(1..(k - 1)) /\ k \in 1..k /\ (1..k) \ {k} = 1..(k - 1)
    <3>1. k \in Nat \ {0}
      OBVIOUS
    <3> QED
      BY <3>1, IntervalButLast
  <2>2. \A i \in 1..k : part[i] \in Nat
    <3>1. \A i \in 1..k : i \in 1..(n - d) /\ d + i \in 1..n
      OBVIOUS
    <3> QED
      BY <3>1
  <2>3. \A i \in 1..(k - 1) : part[i] \in Nat
    BY <2>2
  <2>4. SumFunctionOnSet(part, 1..k) = part[k] + SumFunctionOnSet(part, 1..(k - 1))
    <3>1. \A i \in 1..k : part[i] \in Int
      BY <2>2
    <3>2. SumFunctionOnSet(part, 1..k) = part[k] + SumFunctionOnSet(part, (1..k) \ {k})
      <4> DEFINE S == 1..k
      <4>1. IsFiniteSet(S) /\ k \in S /\ \A i \in S : part[i] \in Int
        BY <2>1, <3>1
      <4> HIDE DEF S
      <4>2. SumFunctionOnSet(part, S) = part[k] + SumFunctionOnSet(part, S \ {k})
        BY <4>1, SumTake
      <4> QED
        BY <4>2 DEF S
    <3> QED
      BY <2>1, <3>2
  <2>5. Sum(k) \in Nat /\ Sum(k - 1) \in Nat
    BY <2>1, <2>2, <2>3, SumNat
  <2>6. part[k] = column[d + k] /\ part[k] \in Nat
    BY <2>1, <2>2
  <2> QED
    BY <2>4, <2>5, <2>6
<1>2. ASSUME NEW k \in Int, k <= 0
      PROVE  Sum(k) = 0
  <2>1. 1..k = {}
    BY <1>2
  <2> QED
    BY <2>1, SumEmpty
<1> HIDE DEF Sum
<1>3. 0 \in P
  <2>1. CASE d = 0
    <3>1. 1 \in 1..(n - d) /\ d + 1 = 1 /\ 1 \in 1..n
      BY <2>1
    <3>2. Sum(1) = Sum(1 - 1) + column[1] /\ Sum(1 - 1) = 0
      BY <1>1, <1>2, <3>1
    <3> QED
      BY <2>1, <3>1, <3>2
  <2>2. CASE d # 0
    <3>1. Sum(0 + 1 - d) = 0
      BY <1>2, <2>2
    <3>2. column[1] = 0
      BY <2>2
    <3> QED
      BY <3>1, <3>2
  <2> QED
    BY <2>1, <2>2
<1>4. ASSUME NEW k \in Nat, k \in P
      PROVE  k + 1 \in P
  <2> SUFFICES ASSUME k + 1 <= n - 1
               PROVE  whole[k + 1 + 1] - Sum(k + 1 + 1 - d) \in 0..(k + 1)
    OBVIOUS
  <2>1. whole[k + 1] - Sum(k + 1 - d) \in 0..k
    BY <1>4
  <2>2. whole[k + 1 + 1] - whole[k + 1] - column[k + 1 + 1] \in 0..1
    OBVIOUS
  <2>3. whole[k + 1] \in Int /\ whole[k + 1 + 1] \in Int /\ column[k + 1 + 1] \in Nat
    OBVIOUS
  <2>4. CASE k + 1 + 1 <= d
    <3>1. column[k + 1 + 1] = 0 /\ Sum(k + 1 + 1 - d) = 0 /\ Sum(k + 1 - d) = 0
      BY <1>2, <2>4
    <3> QED
      BY <2>1, <2>2, <2>3, <3>1
  <2>5. CASE ~ (k + 1 + 1 <= d)
    <3> DEFINE m == k + 1 + 1 - d
    <3>1. m \in 1..(n - d) /\ d + m = k + 1 + 1 /\ m - 1 = k + 1 - d
      BY <2>5
    <3> HIDE DEF m
    <3>2. Sum(m) = Sum(m - 1) + column[d + m] /\ Sum(m) \in Nat /\ Sum(m - 1) \in Nat
      BY <1>1, <3>1
    <3> QED
      BY <2>1, <2>2, <2>3, <3>1, <3>2 DEF m
  <2> QED
    BY <2>4, <2>5
<1> HIDE DEF P
<1>5. Nat \subseteq P
  BY <1>3, <1>4, NatSetInduction
<1>6. n - 1 \in Nat /\ (n - 1) + 1 = n
  OBVIOUS
<1>7. n - 1 \in P
  BY <1>5, <1>6
<1> QED
  BY <1>6, <1>7 DEF P, Sum

=============================================================================
