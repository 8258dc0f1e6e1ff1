--------------------------------- MODULE Sums ---------------------------------
(***************************************************************************)
(* What the sums of the community modules come to, for every finite set.   *)
(* Their definition takes an element away after the other, whichever       *)
(* CHOOSE gives; the lemmas say that the order makes no difference.        *)
(***************************************************************************)
EXTENDS Integers, FiniteSets, Functions, FiniteSetTheorems, WellFoundedInduction, TLAPS

\* A set of numbers that is not empty has a least.
LEMMA LeastNumber ==
    ASSUME NEW T \in SUBSET Nat, T # {}
    PROVE  \E m \in T : \A k \in T : m <= k
<1>1. PICK R : R = OpToRel(<, Nat)
  BY Zenon
<1>2. IsWellFoundedOn(R, Nat)
  BY <1>1, NatLessThanWellFounded, Zenon
<1>3. \E m \in T : \A k \in T : ~(<<k, m>> \in R)
  BY <1>2, WFMin
<1>4. PICK m \in T : \A k \in T : ~(<<k, m>> \in R)
  BY <1>3
<1>5. ASSUME NEW k \in T PROVE m <= k
  <2>1. k \in Nat /\ m \in Nat
    OBVIOUS
  <2>2. SUFFICES ASSUME k < m PROVE FALSE
    BY <2>1
  <2>3. <<k, m>> \in R
    BY <1>1, <2>1, <2>2 DEF OpToRel
  <2> QED BY <1>4, <2>3
<1> QED BY <1>5

\* What holds of a subset when it holds of all smaller ones holds of the whole set.
LEMMA BySubsets ==
    ASSUME NEW S, IsFiniteSet(S), NEW P,
           \A T \in SUBSET S : (\A U \in SUBSET T : U # T => U \in P) => T \in P
    PROVE  S \in P
<1> SUFFICES ASSUME S \notin P PROVE FALSE
  OBVIOUS
<1>1. PICK N : N = {n \in Nat : \E T \in SUBSET S : Cardinality(T) = n /\ T \notin P}
  OBVIOUS
<1>2. N \in SUBSET Nat /\ Cardinality(S) \in N
  BY <1>1, FS_CardinalityType
<1>3. PICK m \in N : \A k \in N : m <= k
  BY <1>2, LeastNumber
<1>4. PICK T \in SUBSET S : Cardinality(T) = m /\ T \notin P
  BY <1>1, <1>3
<1>5. IsFiniteSet(T)
  BY FS_Subset
<1>6. ASSUME NEW U \in SUBSET T, U # T PROVE U \in P
  <2>1. IsFiniteSet(U) /\ Cardinality(U) <= Cardinality(T) /\ Cardinality(U) # Cardinality(T)
    BY <1>5, <1>6, FS_Subset
  <2>2. Cardinality(U) \in Nat /\ Cardinality(T) \in Nat /\ U \in SUBSET S
    BY <1>5, <2>1, FS_CardinalityType
  <2>3. Cardinality(U) \notin N
    BY <1>3, <1>4, <2>1, <2>2
  <2> QED BY <1>1, <2>2, <2>3
<1> QED BY <1>4, <1>6

-----------------------------------------------------------------------------
(***************************************************************************)
(* The sum exists                                                          *)
(***************************************************************************)

Chosen(s) == CHOOSE x \in s : TRUE

\* g gives every subset of S its sum of f.
Summed(f, S, g) ==
    g = [s \in SUBSET S |-> IF s = {} THEN 0 ELSE f[Chosen(s)] + g[s \ {Chosen(s)}]]

\* What is summed over a set does not depend on the set it is a part of.
LEMMA SumsAgree ==
    ASSUME NEW f, NEW S, NEW T, NEW g, NEW h, Summed(f, S, g), Summed(f, T, h),
           NEW V, V \subseteq S, V \subseteq T, IsFiniteSet(V)
    PROVE  g[V] = h[V]
<1>1. PICK P : P = {W \in SUBSET V : g[W] = h[W]}
  OBVIOUS
<1>2. ASSUME NEW W \in SUBSET V, \A U \in SUBSET W : U # W => U \in P PROVE W \in P
  <2>1. W \in SUBSET S /\ W \in SUBSET T
    OBVIOUS
  <2>2. CASE W = {}
    <3>1. g[W] = 0 /\ h[W] = 0
      BY <2>1, <2>2 DEF Summed
    <3> QED BY <1>1, <3>1
  <2>3. CASE W # {}
    <3>1. PICK c \in W : c = Chosen(W)
      BY <2>3 DEF Chosen
    <3>2. g[W] = f[c] + g[W \ {c}] /\ h[W] = f[c] + h[W \ {c}]
      BY <2>1, <2>3, <3>1 DEF Summed
    <3>3. W \ {c} \in P
      BY <1>2
    <3> QED BY <1>1, <3>2, <3>3
  <2> QED BY <2>2, <2>3
<1>3. V \in P
  BY <1>2, BySubsets
<1> QED BY <1>1, <1>3

LEMMA SumExists ==
    ASSUME NEW f, NEW S, IsFiniteSet(S)
    PROVE  \E g : Summed(f, S, g)
<1>1. PICK P : P = {T \in SUBSET S : \E g : Summed(f, T, g)}
  OBVIOUS
<1>2. ASSUME NEW T \in SUBSET S, \A U \in SUBSET T : U # T => U \in P PROVE T \in P
  <2>1. CASE T = {}
    <3>1. Summed(f, T, [s \in SUBSET T |-> 0])
      BY <2>1 DEF Summed
    <3> QED BY <1>1, <3>1
  <2>2. CASE T # {}
    <3>1. PICK h : h = [U \in SUBSET T |-> CHOOSE g : Summed(f, U, g)]
      OBVIOUS
    <3>2. \A U \in SUBSET T : U # T => Summed(f, U, h[U])
      BY <1>1, <1>2, <3>1
    <3>3. PICK c \in T : c = Chosen(T)
      BY <2>2 DEF Chosen
    <3>4. PICK g : g = [s \in SUBSET T |-> IF s = T THEN f[c] + h[T \ {c}][T \ {c}] ELSE h[s][s]]
      OBVIOUS
    <3>5. ASSUME NEW s \in SUBSET T
          PROVE  g[s] = IF s = {} THEN 0 ELSE f[Chosen(s)] + g[s \ {Chosen(s)}]
      <4>1. CASE s = T
        <5>1. T \ {c} \in SUBSET T /\ T \ {c} # T
          OBVIOUS
        <5> QED BY <2>2, <3>3, <3>4, <4>1, <5>1
      <4>2. CASE s # T
        <5>1. g[s] = h[s][s] /\ Summed(f, s, h[s])
          BY <3>2, <3>4, <4>2
        <5>2. CASE s = {}
          BY <5>1, <5>2 DEF Summed
        <5>3. CASE s # {}
          <6>1. PICK d \in s : d = Chosen(s)
            BY <5>3 DEF Chosen
          <6>2. h[s][s] = f[d] + h[s][s \ {d}]
            BY <5>1, <5>3, <6>1 DEF Summed
          <6>3. PICK r : r = s \ {d}
            OBVIOUS
          <6>4. r \in SUBSET T /\ r # T /\ r \subseteq s /\ IsFiniteSet(r)
            BY <6>3, FS_Subset
          <6>5. Summed(f, r, h[r]) /\ g[r] = h[r][r]
            BY <3>2, <3>4, <6>4
          <6>6. h[s][r] = h[r][r]
            BY <5>1, <6>4, <6>5, SumsAgree
          <6> QED BY <5>1, <5>3, <6>1, <6>2, <6>3, <6>5, <6>6
        <5> QED BY <5>2, <5>3
      <4> QED BY <4>1, <4>2
    <3>6. Summed(f, T, g)
      BY <3>4, <3>5 DEF Summed
    <3> QED BY <1>1, <3>6
  <2> QED BY <2>1, <2>2
<1>3. S \in P
  BY <1>2, BySubsets
<1> QED BY <1>1, <1>3

LEMMA SumIs ==
    ASSUME NEW f, NEW S, IsFiniteSet(S)
    PROVE  \E g : Summed(f, S, g) /\ SumFunctionOnSet(f, S) = g[S]
<1>1. PICK g : g = CHOOSE h : Summed(f, S, h)
  OBVIOUS
<1>2. Summed(f, S, g)
  BY <1>1, SumExists
<1>3. SumFunctionOnSet(f, S) = g[S]
  BY <1>1 DEF SumFunctionOnSet, FoldFunctionOnSet, MapThenFoldSet, Summed, Chosen
<1> QED BY <1>2, <1>3

-----------------------------------------------------------------------------
(***************************************************************************)
(* What it comes to                                                        *)
(***************************************************************************)

\* The sum over nothing, and over a set with the element that is taken first.
LEMMA SumSteps ==
    ASSUME NEW f
    PROVE  /\ SumFunctionOnSet(f, {}) = 0
           /\ \A S : IsFiniteSet(S) /\ S # {} =>
                Chosen(S) \in S
                /\ SumFunctionOnSet(f, S) = f[Chosen(S)] + SumFunctionOnSet(f, S \ {Chosen(S)})
<1>1. SumFunctionOnSet(f, {}) = 0
  <2>1. PICK g : Summed(f, {}, g) /\ SumFunctionOnSet(f, {}) = g[{}]
    BY SumIs, FS_EmptySet
  <2> QED BY <2>1 DEF Summed
<1>2. ASSUME NEW S, IsFiniteSet(S), S # {}
      PROVE  Chosen(S) \in S
             /\ SumFunctionOnSet(f, S) = f[Chosen(S)] + SumFunctionOnSet(f, S \ {Chosen(S)})
  <2>1. PICK c \in S : c = Chosen(S)
    BY <1>2 DEF Chosen
  <2>2. PICK R : R = S \ {c}
    OBVIOUS
  <2>3. IsFiniteSet(R) /\ R \subseteq S
    BY <1>2, <2>2, FS_Subset
  <2>4. PICK g : Summed(f, S, g) /\ SumFunctionOnSet(f, S) = g[S]
    BY <1>2, SumIs
  <2>5. PICK h : Summed(f, R, h) /\ SumFunctionOnSet(f, R) = h[R]
    BY <2>3, SumIs
  <2>6. g[R] = h[R]
    BY <2>3, <2>4, <2>5, SumsAgree
  <2>7. g[S] = f[c] + g[R]
    BY <1>2, <2>1, <2>2, <2>4 DEF Summed
  <2> QED BY <2>1, <2>2, <2>4, <2>5, <2>6, <2>7
<1> QED BY <1>1, <1>2

\* Sums of integers are integers, and of natural numbers natural numbers.
LEMMA SumType ==
    ASSUME NEW f, NEW S, IsFiniteSet(S)
    PROVE  /\ (\A x \in S : f[x] \in Int) => SumFunctionOnSet(f, S) \in Int
           /\ (\A x \in S : f[x] \in Nat) => SumFunctionOnSet(f, S) \in Nat
<1>1. PICK P : P = {T \in SUBSET S :
            /\ (\A x \in S : f[x] \in Int) => SumFunctionOnSet(f, T) \in Int
            /\ (\A x \in S : f[x] \in Nat) => SumFunctionOnSet(f, T) \in Nat}
  OBVIOUS
<1>2. ASSUME NEW T \in SUBSET S, \A U \in SUBSET T : U # T => U \in P PROVE T \in P
  <2>1. CASE T = {}
    BY <1>1, <2>1, SumSteps
  <2>2. CASE T # {}
    <3>1. IsFiniteSet(T)
      BY FS_Subset
    <3>2. PICK c \in T : SumFunctionOnSet(f, T) = f[c] + SumFunctionOnSet(f, T \ {c})
      BY <2>2, <3>1, SumSteps
    <3>3. T \ {c} \in P
      BY <1>2
    <3>4. PICK n : n = SumFunctionOnSet(f, T \ {c})
      OBVIOUS
    <3>5. /\ (\A x \in S : f[x] \in Int) => n \in Int /\ f[c] \in Int
          /\ (\A x \in S : f[x] \in Nat) => n \in Nat /\ f[c] \in Nat
      BY <1>1, <3>3, <3>4
    <3>6. SumFunctionOnSet(f, T) = f[c] + n
      BY <3>2, <3>4
    <3> QED BY <1>1, <3>5, <3>6
  <2> QED BY <2>1, <2>2
<1>3. S \in P
  BY <1>2, BySubsets
<1> QED BY <1>1, <1>3

\* Only the elements' values matter.
LEMMA SumOfSame ==
    ASSUME NEW f, NEW h, NEW S, IsFiniteSet(S), \A x \in S : f[x] = h[x]
    PROVE  SumFunctionOnSet(f, S) = SumFunctionOnSet(h, S)
<1>1. PICK P : P = {T \in SUBSET S : SumFunctionOnSet(f, T) = SumFunctionOnSet(h, T)}
  OBVIOUS
<1>2. ASSUME NEW T \in SUBSET S, \A U \in SUBSET T : U # T => U \in P PROVE T \in P
  <2>1. CASE T = {}
    BY <1>1, <2>1, SumSteps
  <2>2. CASE T # {}
    <3>1. IsFiniteSet(T)
      BY FS_Subset
    <3>2. PICK c \in T : c = Chosen(T)
      BY <2>2 DEF Chosen
    <3>3. /\ SumFunctionOnSet(f, T) = f[c] + SumFunctionOnSet(f, T \ {c})
          /\ SumFunctionOnSet(h, T) = h[c] + SumFunctionOnSet(h, T \ {c})
      BY <2>2, <3>1, <3>2, SumSteps
    <3>4. T \ {c} \in P /\ f[c] = h[c]
      BY <1>2
    <3> QED BY <1>1, <3>3, <3>4
  <2> QED BY <2>1, <2>2
<1>3. S \in P
  BY <1>2, BySubsets
<1> QED BY <1>1, <1>3

\* Any element may be taken first.
LEMMA SumWithout ==
    ASSUME NEW f, NEW S, IsFiniteSet(S), \A x \in S : f[x] \in Int, NEW y \in S
    PROVE  SumFunctionOnSet(f, S) = f[y] + SumFunctionOnSet(f, S \ {y})
<1>1. PICK P : P = {T \in SUBSET S : \A x \in T :
            SumFunctionOnSet(f, T) = f[x] + SumFunctionOnSet(f, T \ {x})}
  OBVIOUS
<1>2. ASSUME NEW T \in SUBSET S, \A U \in SUBSET T : U # T => U \in P PROVE T \in P
  <2>1. SUFFICES ASSUME NEW x \in T
                 PROVE  SumFunctionOnSet(f, T) = f[x] + SumFunctionOnSet(f, T \ {x})
    BY <1>1
  <2>2. IsFiniteSet(T)
    BY FS_Subset
  <2>3. PICK c \in T : c = Chosen(T) /\ SumFunctionOnSet(f, T) = f[c] + SumFunctionOnSet(f, T \ {c})
    BY <2>2, SumSteps
  <2>4. CASE x = c
    BY <2>3, <2>4
  <2>5. CASE x # c
    <3>1. PICK R : R = T \ {c, x}
      OBVIOUS
    <3>2. (T \ {c}) \ {x} = R /\ (T \ {x}) \ {c} = R /\ x \in T \ {c} /\ c \in T \ {x}
      BY <2>5, <3>1
    <3>3. T \ {c} \in P /\ T \ {x} \in P
      BY <1>2
    <3>4. /\ SumFunctionOnSet(f, T \ {c}) = f[x] + SumFunctionOnSet(f, R)
          /\ SumFunctionOnSet(f, T \ {x}) = f[c] + SumFunctionOnSet(f, R)
      BY <1>1, <3>2, <3>3
    <3>5. IsFiniteSet(R) /\ \A z \in R : f[z] \in Int
      BY <2>2, <3>1, FS_Subset
    <3>6. SumFunctionOnSet(f, R) \in Int /\ f[x] \in Int /\ f[c] \in Int
      BY <3>5, SumType
    <3> QED BY <2>3, <3>4, <3>6
  <2> QED BY <2>4, <2>5
<1>3. S \in P
  BY <1>2, BySubsets
<1> QED BY <1>1, <1>3

\* A sum whose terms are no larger is no larger.
LEMMA SumIsMonotone ==
    ASSUME NEW f, NEW h, NEW S, IsFiniteSet(S),
           \A x \in S : f[x] \in Int /\ h[x] \in Int /\ f[x] <= h[x]
    PROVE  SumFunctionOnSet(f, S) <= SumFunctionOnSet(h, S)
<1>1. PICK P : P = {T \in SUBSET S : SumFunctionOnSet(f, T) <= SumFunctionOnSet(h, T)}
  OBVIOUS
<1>2. ASSUME NEW T \in SUBSET S, \A U \in SUBSET T : U # T => U \in P PROVE T \in P
  <2>1. CASE T = {}
    <3>1. SumFunctionOnSet(f, T) = 0 /\ SumFunctionOnSet(h, T) = 0
      BY <2>1, SumSteps
    <3> QED BY <1>1, <3>1
  <2>2. CASE T # {}
    <3>1. PICK c \in T : TRUE
      BY <2>2
    <3>2. PICK R : R = T \ {c}
      OBVIOUS
    <3>3. IsFiniteSet(T) /\ IsFiniteSet(R)
      BY <3>2, FS_Subset
    <3>4. /\ SumFunctionOnSet(f, T) = f[c] + SumFunctionOnSet(f, R)
          /\ SumFunctionOnSet(h, T) = h[c] + SumFunctionOnSet(h, R)
      BY <3>2, <3>3, SumWithout
    <3>5. SumFunctionOnSet(f, R) \in Int /\ SumFunctionOnSet(h, R) \in Int
      BY <3>2, <3>3, SumType
    <3>6. SumFunctionOnSet(f, R) <= SumFunctionOnSet(h, R)
      BY <1>1, <1>2, <3>2
    <3>7. f[c] \in Int /\ h[c] \in Int /\ f[c] <= h[c]
      OBVIOUS
    <3> QED BY <1>1, <3>4, <3>5, <3>6, <3>7
  <2> QED BY <2>1, <2>2
<1>3. S \in P
  BY <1>2, BySubsets
<1> QED BY <1>1, <1>3

\* A change of one term changes the sum by as much.
LEMMA SumChanges ==
    ASSUME NEW f, NEW h, NEW S, IsFiniteSet(S), NEW y \in S,
           \A x \in S : f[x] \in Int /\ h[x] \in Int,
           \A x \in S \ {y} : h[x] = f[x]
    PROVE  SumFunctionOnSet(h, S) = SumFunctionOnSet(f, S) - f[y] + h[y]
<1>1. PICK R : R = S \ {y}
  OBVIOUS
<1>2. IsFiniteSet(R)
  BY <1>1, FS_Subset
<1>3. SumFunctionOnSet(f, S) = f[y] + SumFunctionOnSet(f, R)
  BY <1>1, SumWithout
<1>4. SumFunctionOnSet(h, S) = h[y] + SumFunctionOnSet(h, R)
  BY <1>1, SumWithout
<1>5. SumFunctionOnSet(f, R) = SumFunctionOnSet(h, R)
  BY <1>1, <1>2, SumOfSame
<1>6. SumFunctionOnSet(f, R) \in Int /\ f[y] \in Int /\ h[y] \in Int
  BY <1>1, <1>2, SumType
<1> QED BY <1>3, <1>4, <1>5, <1>6

\* A sum of nothing but zeros, save perhaps one term, is that term.
LEMMA SumOfOne ==
    ASSUME NEW f, NEW S, IsFiniteSet(S), NEW y \in S, f[y] \in Int,
           \A x \in S \ {y} : f[x] = 0
    PROVE  SumFunctionOnSet(f, S) = f[y]
<1>1. PICK P : P = {T \in SUBSET (S \ {y}) : SumFunctionOnSet(f, T) = 0}
  OBVIOUS
<1>2. ASSUME NEW T \in SUBSET (S \ {y}), \A U \in SUBSET T : U # T => U \in P PROVE T \in P
  <2>1. CASE T = {}
    BY <1>1, <2>1, SumSteps
  <2>2. CASE T # {}
    <3>1. IsFiniteSet(T)
      BY FS_Subset
    <3>2. PICK c \in T : SumFunctionOnSet(f, T) = f[c] + SumFunctionOnSet(f, T \ {c})
      BY <2>2, <3>1, SumSteps
    <3>3. SumFunctionOnSet(f, T \ {c}) = 0
      BY <1>1, <1>2
    <3>4. f[c] = 0
      OBVIOUS
    <3>5. SumFunctionOnSet(f, T) = 0
      BY <3>2, <3>3, <3>4
    <3> QED BY <1>1, <3>5
  <2> QED BY <2>1, <2>2
<1>3. PICK R : R = S \ {y}
  OBVIOUS
<1>4. IsFiniteSet(R)
  BY <1>3, FS_Subset
<1>5. R \in P
  BY <1>2, <1>3, <1>4, BySubsets
<1>6. SumFunctionOnSet(f, R) = 0
  BY <1>1, <1>5
<1>7. SumFunctionOnSet(f, S) = f[y] + SumFunctionOnSet(f, R)
  BY <1>3, SumWithout
<1> QED BY <1>6, <1>7

\* The same terms under other names have the same sum.
LEMMA SumRenamed ==
    ASSUME NEW f, NEW g, NEW S, IsFiniteSet(S), NEW e, IsInjective(e), DOMAIN e = S,
           \A x \in S : g[x] \in Int /\ g[x] = f[e[x]]
    PROVE  SumFunctionOnSet(g, S) = SumFunctionOnSet(f, {e[x] : x \in S})
<1>1. PICK P : P = {T \in SUBSET S : SumFunctionOnSet(g, T) = SumFunctionOnSet(f, {e[x] : x \in T})}
  OBVIOUS
<1>2. ASSUME NEW T \in SUBSET S, \A U \in SUBSET T : U # T => U \in P PROVE T \in P
  <2>1. CASE T = {}
    <3>1. {e[x] : x \in T} = {}
      BY <2>1
    <3> QED BY <1>1, <2>1, <3>1, SumSteps
  <2>2. CASE T # {}
    <3>1. PICK c \in T : TRUE
      BY <2>2
    <3>2. PICK R : R = T \ {c}
      OBVIOUS
    <3>3. PICK E : E = {e[x] : x \in T}
      OBVIOUS
    <3>4. {e[x] : x \in R} = E \ {e[c]} /\ e[c] \in E
      BY <3>2, <3>3 DEF IsInjective
    <3>5. IsFiniteSet(T) /\ IsFiniteSet(E)
      <4>1. IsFiniteSet(T)
        BY FS_Subset
      <4>2. [x \in T |-> e[x]] \in Surjection(T, E)
        BY <3>3 DEF Surjection
      <4> QED BY <4>1, <4>2, FS_Surjection
    <3>6. \A y \in E : f[y] \in Int
      BY <3>3
    <3>7. SumFunctionOnSet(g, T) = g[c] + SumFunctionOnSet(g, R)
      BY <3>2, <3>5, SumWithout
    <3>8. SumFunctionOnSet(f, E) = f[e[c]] + SumFunctionOnSet(f, E \ {e[c]})
      BY <3>4, <3>5, <3>6, SumWithout
    <3>9. SumFunctionOnSet(g, R) = SumFunctionOnSet(f, {e[x] : x \in R})
      BY <1>1, <1>2, <3>2
    <3>10. g[c] = f[e[c]]
      OBVIOUS
    <3>11. SumFunctionOnSet(g, T) = SumFunctionOnSet(f, E)
      BY <3>4, <3>7, <3>8, <3>9, <3>10
    <3> QED BY <1>1, <3>3, <3>11
  <2> QED BY <2>1, <2>2
<1>3. S \in P
  BY <1>2, BySubsets
<1> QED BY <1>1, <1>3

\* A part of a sum of natural numbers is no larger than the sum, and is the sum when
\* nothing is left out but zeros.
LEMMA SumOfPart ==
    ASSUME NEW f, NEW S, IsFiniteSet(S), \A x \in S : f[x] \in Nat, NEW T \in SUBSET S
    PROVE  /\ SumFunctionOnSet(f, T) <= SumFunctionOnSet(f, S)
           /\ (\A x \in S \ T : f[x] = 0) => SumFunctionOnSet(f, T) = SumFunctionOnSet(f, S)
<1>1. PICK P : P = {U \in SUBSET S :
            /\ SumFunctionOnSet(f, U \cap T) <= SumFunctionOnSet(f, U)
            /\ (\A x \in S \ T : f[x] = 0) =>
                 SumFunctionOnSet(f, U \cap T) = SumFunctionOnSet(f, U)}
  OBVIOUS
<1>2. \A x \in S : f[x] \in Nat /\ f[x] \in Int
  OBVIOUS
<1>3. ASSUME NEW U \in SUBSET S, \A V \in SUBSET U : V # U => V \in P PROVE U \in P
  <2>1. CASE U = {}
    <3>1. U \cap T = {} /\ SumFunctionOnSet(f, {}) = 0
      BY <2>1, SumSteps
    <3> QED BY <1>1, <2>1, <3>1
  <2>2. CASE U # {}
    <3>c. PICK c \in U : TRUE
      BY <2>2
    <3>1. PICK V : V = U \ {c}
      OBVIOUS
    <3>2. IsFiniteSet(U) /\ IsFiniteSet(V) /\ IsFiniteSet(U \cap T) /\ IsFiniteSet(V \cap T)
      BY <3>1, FS_Subset
    <3>3. V \in SUBSET U /\ V # U
      BY <3>1
    <3>4. V \in P
      BY <1>3, <3>3
    <3>5. PICK a, b, x : /\ a = SumFunctionOnSet(f, V \cap T) /\ b = SumFunctionOnSet(f, V)
                         /\ x = f[c]
      OBVIOUS
    <3>6. a \in Nat /\ b \in Nat /\ x \in Nat
      <4>1. \A y \in V \cap T : f[y] \in Nat
        BY <1>2, <3>1
      <4>2. \A y \in V : f[y] \in Nat
        BY <1>2, <3>1
      <4>3. x \in Nat
        BY <1>2, <3>1, <3>5
      <4> QED BY <3>2, <3>5, <4>1, <4>2, <4>3, SumType, Zenon
    <3>7. a <= b /\ ((\A y \in S \ T : f[y] = 0) => a = b)
      BY <1>1, <3>4, <3>5
    <3>8. SumFunctionOnSet(f, U) = x + b
      <4>1. \A y \in U : f[y] \in Int
        BY <1>2
      <4> QED BY <3>1, <3>2, <3>5, <4>1, SumWithout
    <3>9. CASE c \in T
      <4>1. c \in U \cap T /\ (U \cap T) \ {c} = V \cap T
        BY <3>1, <3>9
      <4>2. \A y \in U \cap T : f[y] \in Int
        BY <1>2
      <4>3. SumFunctionOnSet(f, U \cap T) = x + a
        BY <3>2, <3>5, <4>1, <4>2, SumWithout
      <4> QED BY <1>1, <3>6, <3>7, <3>8, <4>3
    <3>10. CASE c \notin T
      <4>1. U \cap T = V \cap T
        BY <3>1, <3>10
      <4>2. SumFunctionOnSet(f, U \cap T) = a
        BY <3>5, <4>1
      <4>3. (\A y \in S \ T : f[y] = 0) => x = 0
        BY <3>5, <3>10
      <4> QED BY <1>1, <3>6, <3>7, <3>8, <4>2, <4>3
    <3> QED BY <3>9, <3>10
  <2> QED BY <2>1, <2>2
<1>4. S \in P
  BY <1>3, BySubsets
<1>5. S \cap T = T
  OBVIOUS
<1> QED BY <1>1, <1>4, <1>5

\* A sum of terms that are at most k is at most k for each of them.
LEMMA SumAtMost ==
    ASSUME NEW k \in Nat, NEW f, NEW S, IsFiniteSet(S), \A x \in S : f[x] \in 0..k
    PROVE  SumFunctionOnSet(f, S) \in Nat /\ SumFunctionOnSet(f, S) <= k * Cardinality(S)
<1>1. PICK P : P = {T \in SUBSET S : SumFunctionOnSet(f, T) <= k * Cardinality(T)}
  OBVIOUS
<1>2. \A x \in S : f[x] \in Nat /\ f[x] \in Int /\ f[x] <= k
  OBVIOUS
<1>3. ASSUME NEW T \in SUBSET S, \A U \in SUBSET T : U # T => U \in P PROVE T \in P
  <2>1. CASE T = {}
    <3>1. SumFunctionOnSet(f, T) = 0 /\ Cardinality(T) = 0
      BY <2>1, SumSteps, FS_EmptySet
    <3> QED BY <1>1, <3>1
  <2>2. CASE T # {}
    <3>c. PICK c \in T : TRUE
      BY <2>2
    <3>1. PICK U : U = T \ {c}
      OBVIOUS
    <3>2. IsFiniteSet(T) /\ IsFiniteSet(U)
      BY <3>1, FS_Subset
    <3>3. PICK a, n, x : a = SumFunctionOnSet(f, U) /\ n = Cardinality(U) /\ x = f[c]
      OBVIOUS
    <3>4. SumFunctionOnSet(f, T) = x + a
      <4>1. \A y \in T : f[y] \in Int
        BY <1>2
      <4> QED BY <3>1, <3>2, <3>3, <4>1, SumWithout
    <3>5. a \in Nat
      <4>1. \A y \in U : f[y] \in Nat
        BY <1>2, <3>1
      <4> QED BY <3>2, <3>3, <4>1, SumType
    <3>6. n \in Nat /\ Cardinality(T) = n + 1
      BY <3>1, <3>2, <3>3, FS_CardinalityType, FS_RemoveElement
    <3>7. U \in SUBSET T /\ U # T
      BY <3>1
    <3>8. U \in P
      BY <1>3, <3>7
    <3>9. a <= k * n
      BY <1>1, <3>3, <3>8
    <3>10. x \in Nat /\ x <= k
      BY <1>2, <3>3
    <3>11. k * (n + 1) = k * n + k /\ k * n \in Nat
      BY <3>6
    <3>12. x + a <= k * (n + 1)
      BY <3>5, <3>9, <3>10, <3>11
    <3> QED BY <1>1, <3>4, <3>6, <3>12
  <2> QED BY <2>1, <2>2
<1>4. S \in P
  BY <1>3, BySubsets
<1>5. SumFunctionOnSet(f, S) \in Nat
  BY <1>2, SumType
<1> QED BY <1>1, <1>4, <1>5

\* Sums of natural numbers over longer and longer intervals.
LEMMA SumUpTo ==
    ASSUME NEW f, NEW n \in Nat, \A i \in 1..n : f[i] \in Nat
    PROVE  /\ SumFunctionOnSet(f, 1..0) = 0
           /\ \A k \in 0..n : IsFiniteSet(1..k) /\ SumFunctionOnSet(f, 1..k) \in Nat
           /\ \A k \in 1..n : SumFunctionOnSet(f, 1..k) = f[k] + SumFunctionOnSet(f, 1..(k - 1))
           /\ \A j, k \in 0..n :
                j <= k => SumFunctionOnSet(f, 1..j) <= SumFunctionOnSet(f, 1..k)
<1>1. SumFunctionOnSet(f, 1..0) = 0
  <2>1. 1..0 = {}
    OBVIOUS
  <2> QED BY <2>1, SumSteps
<1>2. ASSUME NEW k \in 0..n
      PROVE  IsFiniteSet(1..k) /\ SumFunctionOnSet(f, 1..k) \in Nat
  <2>1. PICK a \in Int, b \in Int : a = 1 /\ b = k
    OBVIOUS
  <2>2. IsFiniteSet(a..b)
    BY FS_Interval
  <2>3. \A i \in a..b : f[i] \in Nat
    BY <2>1
  <2> QED BY <2>1, <2>2, <2>3, SumType
<1>3. ASSUME NEW k \in 1..n
      PROVE  SumFunctionOnSet(f, 1..k) = f[k] + SumFunctionOnSet(f, 1..(k - 1))
  <2>1. k \in 0..n /\ k \in 1..k /\ (1..k) \ {k} = 1..(k - 1)
    OBVIOUS
  <2>2. IsFiniteSet(1..k)
    BY <1>2, <2>1
  <2>3. \A i \in 1..k : f[i] \in Int
    OBVIOUS
  <2>4. SumFunctionOnSet(f, 1..k) = f[k] + SumFunctionOnSet(f, (1..k) \ {k})
    BY <2>1, <2>2, <2>3, SumWithout
  <2> QED BY <2>1, <2>4
<1>4. ASSUME NEW j \in 0..n, NEW k \in 0..n, j <= k
      PROVE  SumFunctionOnSet(f, 1..j) <= SumFunctionOnSet(f, 1..k)
  <2>1. IsFiniteSet(1..k)
    BY <1>2
  <2>2. \A i \in 1..k : f[i] \in Nat
    OBVIOUS
  <2>3. 1..j \in SUBSET (1..k)
    BY <1>4
  <2> QED BY <2>1, <2>2, <2>3, SumOfPart
<1> QED BY <1>1, <1>2, <1>3, <1>4

\* The first m numbers are the first m - 1 and m.
LEMMA FirstNumbers ==
    ASSUME NEW m \in Nat \ {0}
    PROVE  /\ IsFiniteSet(1..m) /\ IsFiniteSet(1..(m - 1))
           /\ m \in 1..m /\ (1..m) \ {m} = 1..(m - 1)
<1>1. IsFiniteSet(1..m) /\ IsFiniteSet(1..(m - 1))
  BY FS_Interval
<1>2. m \in 1..m /\ (1..m) \ {m} = 1..(m - 1)
  OBVIOUS
<1> QED BY <1>1, <1>2

\* Two sums, term by term.
LEMMA SumPlus ==
    ASSUME NEW f, NEW g, NEW h, NEW S, IsFiniteSet(S),
           \A x \in S : f[x] \in Int /\ g[x] \in Int /\ h[x] = f[x] + g[x]
    PROVE  SumFunctionOnSet(h, S) = SumFunctionOnSet(f, S) + SumFunctionOnSet(g, S)
<1>1. PICK P : P = {T \in SUBSET S :
          SumFunctionOnSet(h, T) = SumFunctionOnSet(f, T) + SumFunctionOnSet(g, T)}
  OBVIOUS
<1>2. ASSUME NEW T \in SUBSET S, \A U \in SUBSET T : U # T => U \in P PROVE T \in P
  <2>1. CASE T = {}
    <3>1. SumFunctionOnSet(f, T) = 0 /\ SumFunctionOnSet(g, T) = 0 /\ SumFunctionOnSet(h, T) = 0
      BY <2>1, SumSteps
    <3> QED BY <1>1, <3>1
  <2>2. CASE T # {}
    <3>1. PICK y \in T : TRUE
      BY <2>2
    <3>2. PICK R : R = T \ {y}
      OBVIOUS
    <3>3. IsFiniteSet(T) /\ IsFiniteSet(R)
      BY <3>2, FS_Subset
    <3>4. /\ f[y] \in Int /\ g[y] \in Int /\ h[y] = f[y] + g[y]
          /\ \A x \in T : f[x] \in Int /\ g[x] \in Int /\ h[x] \in Int
      OBVIOUS
    <3>5. /\ SumFunctionOnSet(f, T) = f[y] + SumFunctionOnSet(f, R)
          /\ SumFunctionOnSet(g, T) = g[y] + SumFunctionOnSet(g, R)
          /\ SumFunctionOnSet(h, T) = h[y] + SumFunctionOnSet(h, R)
      BY <3>2, <3>3, <3>4, SumWithout
    <3>6. SumFunctionOnSet(f, R) \in Int /\ SumFunctionOnSet(g, R) \in Int
      BY <3>2, <3>3, <3>4, SumType
    <3>7. SumFunctionOnSet(h, R) = SumFunctionOnSet(f, R) + SumFunctionOnSet(g, R)
      BY <1>1, <1>2, <3>2
    <3>8. SumFunctionOnSet(h, T) = SumFunctionOnSet(f, T) + SumFunctionOnSet(g, T)
      BY <3>4, <3>5, <3>6, <3>7
    <3> QED BY <1>1, <3>8
  <2> QED BY <2>1, <2>2
<1>3. S \in P
  BY <1>2, BySubsets
<1> QED BY <1>1, <1>3

\* A multiple of a sum.
LEMMA SumTimes ==
    ASSUME NEW f, NEW h, NEW S, IsFiniteSet(S), NEW c \in Int,
           \A x \in S : f[x] \in Int /\ h[x] = c * f[x]
    PROVE  SumFunctionOnSet(h, S) = c * SumFunctionOnSet(f, S)
<1>1. PICK P : P = {T \in SUBSET S : SumFunctionOnSet(h, T) = c * SumFunctionOnSet(f, T)}
  OBVIOUS
<1>2. ASSUME NEW T \in SUBSET S, \A U \in SUBSET T : U # T => U \in P PROVE T \in P
  <2>1. CASE T = {}
    <3>1. SumFunctionOnSet(f, T) = 0 /\ SumFunctionOnSet(h, T) = 0
      BY <2>1, SumSteps
    <3> QED BY <1>1, <3>1
  <2>2. CASE T # {}
    <3>1. PICK y \in T : TRUE
      BY <2>2
    <3>2. PICK R : R = T \ {y}
      OBVIOUS
    <3>3. IsFiniteSet(T) /\ IsFiniteSet(R)
      BY <3>2, FS_Subset
    <3>4. f[y] \in Int /\ h[y] = c * f[y] /\ \A x \in T : f[x] \in Int /\ h[x] \in Int
      OBVIOUS
    <3>5. /\ SumFunctionOnSet(f, T) = f[y] + SumFunctionOnSet(f, R)
          /\ SumFunctionOnSet(h, T) = h[y] + SumFunctionOnSet(h, R)
      BY <3>2, <3>3, <3>4, SumWithout
    <3>6. SumFunctionOnSet(f, R) \in Int
      BY <3>2, <3>3, <3>4, SumType
    <3>7. SumFunctionOnSet(h, R) = c * SumFunctionOnSet(f, R)
      BY <1>1, <1>2, <3>2
    <3>8. SumFunctionOnSet(h, T) = c * SumFunctionOnSet(f, T)
      <4>1. \A a, b \in Int : c * a + c * b = c * (a + b)
        OBVIOUS
      <4> QED BY <3>4, <3>5, <3>6, <3>7, <4>1
    <3> QED BY <1>1, <3>8
  <2> QED BY <2>1, <2>2
<1>3. S \in P
  BY <1>2, BySubsets
<1> QED BY <1>1, <1>3

\* Terms that differ by at most so much have sums that differ by at most so much each.
LEMMA SumsWithin ==
    ASSUME NEW f, NEW h, NEW S, IsFiniteSet(S), NEW c \in Nat,
           \A x \in S : f[x] \in Int /\ h[x] \in Int /\ f[x] <= h[x] + c /\ h[x] <= f[x] + c
    PROVE  /\ SumFunctionOnSet(f, S) <= SumFunctionOnSet(h, S) + c * Cardinality(S)
           /\ SumFunctionOnSet(h, S) <= SumFunctionOnSet(f, S) + c * Cardinality(S)
<1>1. PICK P : P = {T \in SUBSET S :
          /\ SumFunctionOnSet(f, T) <= SumFunctionOnSet(h, T) + c * Cardinality(T)
          /\ SumFunctionOnSet(h, T) <= SumFunctionOnSet(f, T) + c * Cardinality(T)}
  OBVIOUS
<1>2. ASSUME NEW T \in SUBSET S, \A U \in SUBSET T : U # T => U \in P PROVE T \in P
  <2>1. CASE T = {}
    <3>1. SumFunctionOnSet(f, T) = 0 /\ SumFunctionOnSet(h, T) = 0
      BY <2>1, SumSteps
    <3>2. Cardinality(T) = 0
      BY <2>1, FS_EmptySet
    <3>3. c * 0 = 0
      OBVIOUS
    <3> QED BY <1>1, <3>1, <3>2, <3>3
  <2>2. CASE T # {}
    <3>1. PICK y \in T : TRUE
      BY <2>2
    <3>2. PICK R : R = T \ {y}
      OBVIOUS
    <3>3. IsFiniteSet(T) /\ IsFiniteSet(R)
      BY <3>2, FS_Subset
    <3>4. \A x \in T : f[x] \in Int /\ h[x] \in Int
      OBVIOUS
    <3>5. /\ SumFunctionOnSet(f, T) = f[y] + SumFunctionOnSet(f, R)
          /\ SumFunctionOnSet(h, T) = h[y] + SumFunctionOnSet(h, R)
      BY <3>2, <3>3, <3>4, SumWithout
    <3>6. SumFunctionOnSet(f, R) \in Int /\ SumFunctionOnSet(h, R) \in Int
      BY <3>2, <3>3, <3>4, SumType
    <3>7. /\ SumFunctionOnSet(f, R) <= SumFunctionOnSet(h, R) + c * Cardinality(R)
          /\ SumFunctionOnSet(h, R) <= SumFunctionOnSet(f, R) + c * Cardinality(R)
      BY <1>1, <1>2, <3>2
    <3>8. PICK k \in Nat : k = Cardinality(R) /\ Cardinality(T) = k + 1
      <4>1. Cardinality(R) = Cardinality(T) - 1 /\ Cardinality(T) \in Nat /\ Cardinality(R) \in Nat
        BY <3>2, <3>3, FS_RemoveElement, FS_CardinalityType
      <4> QED BY <4>1
    <3>9. PICK d \in Nat : d = c * k /\ c * (k + 1) = d + c
      OBVIOUS
    <3>10. /\ f[y] <= h[y] + c /\ h[y] <= f[y] + c
           /\ f[y] \in Int /\ h[y] \in Int
      OBVIOUS
    <3>11. /\ SumFunctionOnSet(f, T) <= SumFunctionOnSet(h, T) + (d + c)
           /\ SumFunctionOnSet(h, T) <= SumFunctionOnSet(f, T) + (d + c)
      BY <3>5, <3>6, <3>7, <3>8, <3>9, <3>10
    <3> QED BY <1>1, <3>8, <3>9, <3>11
  <2> QED BY <2>1, <2>2
<1>3. S \in P
  BY <1>2, BySubsets
<1> QED BY <1>1, <1>3

\* A sum over a part is the sum over the whole of what is nothing elsewhere.
LEMMA SumPadded ==
    ASSUME NEW f, NEW T, T = DOMAIN f, NEW S, IsFiniteSet(S), T \subseteq S,
           NEW g, \A x \in T : g[x] = f[x] /\ f[x] \in Nat,
           \A x \in S \ T : g[x] = 0
    PROVE  /\ SumFunction(f) = SumFunctionOnSet(g, S)
           /\ \A x \in S : g[x] \in Nat
<1>1. \A x \in S : g[x] \in Nat
  OBVIOUS
<1>2. SumFunctionOnSet(g, T) = SumFunctionOnSet(g, S)
  BY <1>1, SumOfPart
<1>3. IsFiniteSet(T)
  BY FS_Subset
<1>4. SumFunctionOnSet(f, T) = SumFunctionOnSet(g, T)
  BY <1>3, SumOfSame
<1> QED BY <1>1, <1>2, <1>4 DEF SumFunction

\* Two terms that change.
LEMMA SumChangesTwo ==
    ASSUME NEW f, NEW h, NEW S, IsFiniteSet(S), NEW y \in S, NEW z \in S, y # z,
           \A x \in S : f[x] \in Nat /\ h[x] \in Nat,
           \A x \in S \ {y, z} : h[x] = f[x]
    PROVE  /\ SumFunctionOnSet(f, S) \in Nat /\ SumFunctionOnSet(h, S) \in Nat
           /\ SumFunctionOnSet(h, S) = SumFunctionOnSet(f, S) - f[y] - f[z] + h[y] + h[z]
<1>1. PICK g : g = [x \in S |-> IF x = y THEN h[x] ELSE f[x]]
  OBVIOUS
<1>2. \A x \in S : f[x] \in Int /\ h[x] \in Int /\ g[x] \in Int
  BY <1>1
<1>3. \A x \in S \ {y} : g[x] = f[x]
  BY <1>1
<1>4. \A x \in S \ {z} : h[x] = g[x]
  BY <1>1
<1>5. SumFunctionOnSet(g, S) = SumFunctionOnSet(f, S) - f[y] + g[y]
  BY <1>2, <1>3, SumChanges
<1>6. SumFunctionOnSet(h, S) = SumFunctionOnSet(g, S) - g[z] + h[z]
  BY <1>2, <1>4, SumChanges
<1>7. SumFunctionOnSet(f, S) \in Nat /\ SumFunctionOnSet(h, S) \in Nat
  BY SumType
<1>8. g[y] = h[y] /\ g[z] = f[z] /\ f[y] \in Int /\ f[z] \in Int /\ h[y] \in Int /\ h[z] \in Int
  BY <1>1
<1> QED BY <1>5, <1>6, <1>7, <1>8

=============================================================================
