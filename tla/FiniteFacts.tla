----------------------------- MODULE FiniteFacts -----------------------------
(***************************************************************************)
(* What the least and the greatest element of a finite set are, and what a *)
(* sum over one amounts to: SumFunctionOnSet(f, S), for functions to the   *)
(* natural numbers.  The induction theorems of the library take an         *)
(* operator that the provers cannot instantiate, so each induction over    *)
(* subsets is an argument by a minimal counterexample.                     *)
(***************************************************************************)
EXTENDS Integers, FiniteSets, FiniteSetsExt, Functions, FiniteSetTheorems, TLAPS

\* Among some subsets of a finite set one contains no other.
LEMMA MinimalSubset ==
    ASSUME NEW S, IsFiniteSet(S), NEW Q \in SUBSET (SUBSET S), Q # {}
    PROVE  \E T \in Q : \A U \in Q : U \subseteq T => U = T
<1>1. IsWellFoundedOn(StrictSubsetOrdering(S), FiniteSubsetsOf(S))
  BY FS_StrictSubsetOrderingWellFounded
<1>2. Q \subseteq FiniteSubsetsOf(S)
  BY FS_FiniteSubsetsOfFinite
<1>3. \E T \in Q : \A U \in Q : <<U, T>> \notin StrictSubsetOrdering(S)
  BY <1>1, <1>2, WFMin
<1>4. QED
  BY <1>3 DEF StrictSubsetOrdering

-----------------------------------------------------------------------------

\* An element that no other exceeds is the greatest.
LEMMA MaxIs ==
    ASSUME NEW S, \A y \in S : y \in Int, NEW x \in S, \A y \in S : y <= x
    PROVE  Max(S) = x
<1>1. \A z \in S : (\A y \in S : z >= y) => z = x
  OBVIOUS
<1>2. \A y \in S : x >= y
  OBVIOUS
<1>3. QED
  BY <1>1, <1>2 DEF Max

\* A finite set of integers has a greatest element, unless it is empty.
THEOREM MaxExists ==
    ASSUME NEW S, \A x \in S : x \in Int, IsFiniteSet(S), S # {}
    PROVE  Max(S) \in S /\ \A y \in S : y <= Max(S)
<1> DEFINE Q == {T \in SUBSET S : \E x \in S : \A y \in S : y > x => y \in T}
<1>1. S \in Q /\ Q \in SUBSET (SUBSET S)
  OBVIOUS
<1>2. PICK T \in Q : \A U \in Q : U \subseteq T => U = T
  <2>1. Q # {} /\ Q \in SUBSET (SUBSET S)
    BY <1>1
  <2> HIDE DEF Q
  <2>2. QED
    BY <2>1, MinimalSubset
<1>3. PICK x \in S : \A y \in S : y > x => y \in T
  BY <1>2
<1>4. ASSUME NEW y \in S, y > x  PROVE FALSE
  <2>1. y \in T /\ T \in SUBSET S
    BY <1>2, <1>3, <1>4
  <2>2. \A z \in S : z > y => z \in T \ {y}
    BY <1>3, <1>4
  <2>3. T \ {y} \in Q
    BY <2>1, <2>2
  <2>4. QED
    BY <1>2, <2>1, <2>3
<1>5. \A y \in S : y <= x
  BY <1>4
<1>6. QED
  BY <1>5, MaxIs

\* A finite set of integers has a least element, unless it is empty.
THEOREM MinExists ==
    ASSUME NEW S, \A x \in S : x \in Int, IsFiniteSet(S), S # {}
    PROVE  Min(S) \in S /\ \A y \in S : Min(S) <= y
<1> DEFINE Q == {T \in SUBSET S : \E x \in S : \A y \in S : y < x => y \in T}
<1>1. S \in Q /\ Q \in SUBSET (SUBSET S)
  OBVIOUS
<1>2. PICK T \in Q : \A U \in Q : U \subseteq T => U = T
  <2>1. Q # {} /\ Q \in SUBSET (SUBSET S)
    BY <1>1
  <2> HIDE DEF Q
  <2>2. QED
    BY <2>1, MinimalSubset
<1>3. PICK x \in S : \A y \in S : y < x => y \in T
  BY <1>2
<1>4. ASSUME NEW y \in S, y < x  PROVE FALSE
  <2>1. y \in T /\ T \in SUBSET S
    BY <1>2, <1>3, <1>4
  <2>2. \A z \in S : z < y => z \in T \ {y}
    BY <1>3, <1>4
  <2>3. T \ {y} \in Q
    BY <2>1, <2>2
  <2>4. QED
    BY <1>2, <2>1, <2>3
<1>5. \A y \in S : x <= y
  BY <1>4
<1>6. QED
  BY <1>5 DEF Min

-----------------------------------------------------------------------------

First(T) == CHOOSE x \in T : TRUE

\* g takes the sum of f for all subsets of S, one element at a time.
Sums(f, S, g) ==
    g = [T \in SUBSET S |-> IF T = {} THEN 0
                            ELSE f[First(T)] + g[T \ {First(T)}]]

\* The sum is the value at S of the function that adds element by element.
LEMMA SumIs == ASSUME NEW f, NEW S
               PROVE  SumFunctionOnSet(f, S) = (CHOOSE g : Sums(f, S, g))[S]
BY DEF SumFunctionOnSet, FoldFunctionOnSet, MapThenFoldSet, Sums, First

\* Two such functions agree on the subsets that both cover.
LEMMA SumsAgree ==
    ASSUME NEW f, NEW S, IsFiniteSet(S), NEW R \in SUBSET S, NEW g, NEW h,
           Sums(f, S, g), Sums(f, R, h)
    PROVE  g[R] = h[R]
<1> DEFINE Q == {T \in SUBSET R : g[T] # h[T]}
<1>1. SUFFICES ASSUME Q # {}  PROVE FALSE
  OBVIOUS
<1>2. PICK T \in Q : \A U \in Q : U \subseteq T => U = T
  <2>1. IsFiniteSet(R)
    BY FS_Subset
  <2>2. Q \in SUBSET (SUBSET R)
    OBVIOUS
  <2> HIDE DEF Q
  <2>3. QED
    BY <1>1, <2>1, <2>2, MinimalSubset
<1>3. T # {} => First(T) \in T
  BY DEF First
<1>4. T # {} => g[T \ {First(T)}] = h[T \ {First(T)}]
  BY <1>2, <1>3
<1>5. T \in SUBSET S /\ T \in SUBSET R
  BY <1>2
<1>6. g[T] = IF T = {} THEN 0 ELSE f[First(T)] + g[T \ {First(T)}]
  BY <1>5 DEF Sums
<1>7. h[T] = IF T = {} THEN 0 ELSE f[First(T)] + h[T \ {First(T)}]
  BY <1>5 DEF Sums
<1>8. QED
  BY <1>2, <1>4, <1>6, <1>7

\* Its value at a subset is the subset's sum.
LEMMA SumsOfSubset ==
    ASSUME NEW f, NEW S, IsFiniteSet(S), NEW R \in SUBSET S, NEW g, Sums(f, S, g),
           \E h : Sums(f, R, h)
    PROVE  g[R] = SumFunctionOnSet(f, R)
<1>1. Sums(f, R, CHOOSE h : Sums(f, R, h))
  OBVIOUS
<1>2. QED
  BY <1>1, SumIs, SumsAgree

\* There is such a function for every finite set.
LEMMA SumsExist ==
    ASSUME NEW f, NEW S, IsFiniteSet(S)
    PROVE  \E g : Sums(f, S, g)
<1> DEFINE Q == {T \in SUBSET S : ~ \E g : Sums(f, T, g)}
<1>1. SUFFICES ASSUME Q # {}  PROVE FALSE
  BY DEF Q
<1>2. PICK T \in Q : \A U \in Q : U \subseteq T => U = T
  <2>1. Q \in SUBSET (SUBSET S)
    OBVIOUS
  <2> HIDE DEF Q
  <2>2. QED
    BY <1>1, <2>1, MinimalSubset
<1>3. T \in SUBSET S /\ IsFiniteSet(T)
  BY <1>2, FS_Subset
<1>4. \A U \in SUBSET T : U # T => \E g : Sums(f, U, g)
  BY <1>2
<1> DEFINE Less(U) == U \ {First(U)}
           e == [U \in SUBSET T |-> IF U = {} THEN 0
                     ELSE f[First(U)] + SumFunctionOnSet(f, Less(U))]
<1>5. \A U \in SUBSET T : U # {} => /\ Less(U) \in SUBSET T /\ Less(U) # T
                                   /\ IsFiniteSet(Less(U))
  <2>1. \A U : U # {} => First(U) \in U
    BY DEF First
  <2>2. QED
    BY <1>3, <2>1, FS_Subset
<1>6. ASSUME NEW U \in SUBSET T, U # T
      PROVE  e[U] = SumFunctionOnSet(f, U)
  <2>1. PICK g : Sums(f, U, g)
    BY <1>4, <1>6
  <2>2. IsFiniteSet(U)
    BY <1>3, FS_Subset
  <2>3. g[U] = SumFunctionOnSet(f, U)
    BY <2>1, <2>2, SumsOfSubset
  <2>4. g[U] = IF U = {} THEN 0 ELSE f[First(U)] + g[Less(U)]
    BY <2>1 DEF Sums
  <2>5. U # {} => g[Less(U)] = SumFunctionOnSet(f, Less(U))
    <3>1. SUFFICES ASSUME U # {}  PROVE g[Less(U)] = SumFunctionOnSet(f, Less(U))
      OBVIOUS
    <3>2. Less(U) \in SUBSET U /\ \E h : Sums(f, Less(U), h)
      BY <1>4, <1>5, <3>1
    <3> HIDE DEF Less
    <3>3. QED
      BY <2>1, <2>2, <3>2, SumsOfSubset
  <2>6. QED
    BY <2>3, <2>4, <2>5
<1>7. \A U \in SUBSET T : U # {} => e[Less(U)] = SumFunctionOnSet(f, Less(U))
  BY <1>5, <1>6
<1>8. Sums(f, T, e)
  BY <1>7 DEF Sums
<1>9. QED
  BY <1>2, <1>8

\* The sum over a set is an element's value and the sum over the rest.
LEMMA SumFirst ==
    ASSUME NEW f, NEW S, IsFiniteSet(S)
    PROVE  /\ S = {} => SumFunctionOnSet(f, S) = 0
           /\ S # {} => /\ First(S) \in S
                        /\ SumFunctionOnSet(f, S)
                             = f[First(S)] + SumFunctionOnSet(f, S \ {First(S)})
<1>1. PICK g : Sums(f, S, g)
  BY SumsExist
<1>2. g[S] = SumFunctionOnSet(f, S)
  BY <1>1, SumsOfSubset
<1>3. g[S] = IF S = {} THEN 0 ELSE f[First(S)] + g[S \ {First(S)}]
  BY <1>1 DEF Sums
<1>4. S # {} => First(S) \in S
  BY DEF First
<1>5. g[S \ {First(S)}] = SumFunctionOnSet(f, S \ {First(S)})
  <2> DEFINE R == S \ {First(S)}
  <2>1. R \in SUBSET S /\ IsFiniteSet(R)
    BY FS_Subset
  <2> HIDE DEF R
  <2>2. g[R] = SumFunctionOnSet(f, R)
    BY <1>1, <2>1, SumsExist, SumsOfSubset
  <2>3. QED
    BY <2>2 DEF R
<1>6. QED
  BY <1>2, <1>3, <1>4, <1>5

-----------------------------------------------------------------------------

\* A sum of natural numbers is one.
THEOREM SumNat ==
    ASSUME NEW S, IsFiniteSet(S), NEW f, \A i \in S : f[i] \in Nat
    PROVE  SumFunctionOnSet(f, S) \in Nat
<1> DEFINE Q == {T \in SUBSET S : SumFunctionOnSet(f, T) \notin Nat}
<1>1. SUFFICES ASSUME Q # {}  PROVE FALSE
  BY DEF Q
<1>2. PICK T \in Q : \A U \in Q : U \subseteq T => U = T
  <2>1. Q \in SUBSET (SUBSET S)
    OBVIOUS
  <2> HIDE DEF Q
  <2>2. QED
    BY <1>1, <2>1, MinimalSubset
<1>3. IsFiniteSet(T) /\ T \in SUBSET S
  BY <1>2, FS_Subset
<1>4. T # {} => /\ First(T) \in T
                /\ SumFunctionOnSet(f, T \ {First(T)}) \in Nat
  <2>1. T # {} => First(T) \in T
    BY DEF First
  <2>2. QED
    BY <1>2, <1>3, <2>1
<1>5. /\ T = {} => SumFunctionOnSet(f, T) = 0
      /\ T # {} => SumFunctionOnSet(f, T)
                    = f[First(T)] + SumFunctionOnSet(f, T \ {First(T)})
  BY <1>3, SumFirst
<1>6. QED
  BY <1>2, <1>3, <1>4, <1>5

\* Any element may be taken first.
THEOREM SumRemove ==
    ASSUME NEW S, IsFiniteSet(S), NEW f, \A i \in S : f[i] \in Nat
    PROVE  \A x \in S : SumFunctionOnSet(f, S) = f[x] + SumFunctionOnSet(f, S \ {x})
<1> DEFINE Sum(T) == SumFunctionOnSet(f, T)
           Q == {T \in SUBSET S : \E x \in T : Sum(T) # f[x] + Sum(T \ {x})}
<1>1. SUFFICES ASSUME Q # {}  PROVE FALSE
  BY DEF Q
<1>2. PICK T \in Q : \A U \in Q : U \subseteq T => U = T
  <2>1. Q \in SUBSET (SUBSET S)
    OBVIOUS
  <2> HIDE DEF Q
  <2>2. QED
    BY <1>1, <2>1, MinimalSubset
<1>3. T \in SUBSET S /\ \A U \in SUBSET S : IsFiniteSet(U) /\ Sum(U) \in Nat
  <2>1. ASSUME NEW U \in SUBSET S  PROVE IsFiniteSet(U) /\ Sum(U) \in Nat
    BY FS_Subset, SumNat
  <2>2. QED
    BY <1>2, <2>1
<1>4. PICK x \in T : Sum(T) # f[x] + Sum(T \ {x})
  BY <1>2
<1> DEFINE y == First(T)
<1>5. y \in T /\ Sum(T) = f[y] + Sum(T \ {y})
  BY <1>3, <1>4, SumFirst
<1>6. \A U \in SUBSET T : \A z \in U : U # T => Sum(U) = f[z] + Sum(U \ {z})
  BY <1>2, <1>3
<1> HIDE DEF y, Sum, Q
<1>7. CASE y # x
  <2>1. Sum(T \ {y}) = f[x] + Sum((T \ {y}) \ {x})
    BY <1>4, <1>5, <1>6, <1>7
  <2>2. Sum(T \ {x}) = f[y] + Sum((T \ {x}) \ {y})
    BY <1>4, <1>5, <1>6, <1>7
  <2>3. Sum((T \ {y}) \ {x}) = Sum((T \ {x}) \ {y})
    <3>1. (T \ {y}) \ {x} = (T \ {x}) \ {y}
      OBVIOUS
    <3>2. QED
      BY <3>1
  <2>4. Sum((T \ {x}) \ {y}) \in Nat /\ f[x] \in Nat /\ f[y] \in Nat
    BY <1>3, <1>4, <1>5
  <2>5. QED
    BY <1>4, <1>5, <2>1, <2>2, <2>3, <2>4
<1>8. QED
  BY <1>4, <1>5, <1>7

\* The sum over two sets without a common element is the sum of their sums.
THEOREM SumUnion ==
    ASSUME NEW S, IsFiniteSet(S), NEW f, \A i \in S : f[i] \in Nat,
           NEW A \in SUBSET S, NEW B \in SUBSET S, A \cap B = {}
    PROVE  SumFunctionOnSet(f, A \cup B)
             = SumFunctionOnSet(f, A) + SumFunctionOnSet(f, B)
<1> DEFINE Sum(T) == SumFunctionOnSet(f, T)
           Q == {T \in SUBSET S : A \cap T = {} /\ Sum(A \cup T) # Sum(A) + Sum(T)}
<1>1. SUFFICES ASSUME Q # {}  PROVE FALSE
  BY DEF Q
<1>2. PICK T \in Q : \A U \in Q : U \subseteq T => U = T
  <2>1. Q \in SUBSET (SUBSET S)
    OBVIOUS
  <2> HIDE DEF Q
  <2>2. QED
    BY <1>1, <2>1, MinimalSubset
<1>3. ASSUME NEW U \in SUBSET S
      PROVE  /\ Sum(U) \in Nat
             /\ \A x \in U : Sum(U) = f[x] + Sum(U \ {x})
  <2>1. IsFiniteSet(U) /\ \A i \in U : f[i] \in Nat
    BY FS_Subset
  <2>2. QED
    BY <2>1, SumNat, SumRemove
<1>4. T \in SUBSET S /\ A \cap T = {} /\ Sum(A \cup T) # Sum(A) + Sum(T)
  BY <1>2
<1>5. CASE T = {}
  <2>1. Sum(T) = 0
    BY <1>5, FS_EmptySet, SumFirst
  <2>2. Sum(A \cup T) = Sum(A) /\ Sum(A) \in Nat
    <3>1. A \cup T = A
      BY <1>5
    <3>2. QED
      BY <1>3, <3>1
  <2> HIDE DEF Sum
  <2>3. QED
    BY <1>4, <2>1, <2>2
<1>6. CASE T # {}
  <2>1. PICK x : x \in T
    BY <1>6
  <2>2. T \ {x} \notin Q
    BY <1>2, <2>1
  <2>3. Sum(A \cup (T \ {x})) = Sum(A) + Sum(T \ {x})
    BY <1>4, <2>2
  <2>4. /\ T \ {x} \in SUBSET S /\ A \cup T \in SUBSET S
        /\ (A \cup T) \ {x} = A \cup (T \ {x})
        /\ x \in A \cup T /\ f[x] \in Nat
    BY <1>4, <2>1
  <2> HIDE DEF Sum, Q
  <2>5. /\ Sum(A \cup T) = f[x] + Sum(A \cup (T \ {x}))
        /\ Sum(T) = f[x] + Sum(T \ {x})
        /\ Sum(A) \in Nat /\ Sum(T \ {x}) \in Nat
    BY <1>3, <1>4, <2>1, <2>4
  <2>6. QED
    BY <1>4, <2>3, <2>4, <2>5
<1>7. QED
  BY <1>5, <1>6

\* A sum of nothing but zeros is zero.
THEOREM SumZero ==
    ASSUME NEW S, IsFiniteSet(S), NEW f, \A i \in S : f[i] = 0
    PROVE  SumFunctionOnSet(f, S) = 0
<1> DEFINE Q == {T \in SUBSET S : SumFunctionOnSet(f, T) # 0}
<1>1. SUFFICES ASSUME Q # {}  PROVE FALSE
  BY DEF Q
<1>2. PICK T \in Q : \A U \in Q : U \subseteq T => U = T
  <2>1. Q \in SUBSET (SUBSET S)
    OBVIOUS
  <2> HIDE DEF Q
  <2>2. QED
    BY <1>1, <2>1, MinimalSubset
<1>3. T \in SUBSET S /\ IsFiniteSet(T)
  BY <1>2, FS_Subset
<1>4. PICK x : x \in T /\ SumFunctionOnSet(f, T) = f[x] + SumFunctionOnSet(f, T \ {x})
  BY <1>2, <1>3, SumFirst
<1>5. SumFunctionOnSet(f, T \ {x}) = 0 /\ f[x] = 0
  BY <1>2, <1>3, <1>4
<1>6. QED
  BY <1>2, <1>4, <1>5

\* Functions that agree on a set have the same sum over it.
THEOREM SumSame ==
    ASSUME NEW S, IsFiniteSet(S), NEW f, NEW g, \A i \in S : f[i] = g[i]
    PROVE  SumFunctionOnSet(f, S) = SumFunctionOnSet(g, S)
<1> DEFINE Q == {T \in SUBSET S : SumFunctionOnSet(f, T) # SumFunctionOnSet(g, T)}
<1>1. SUFFICES ASSUME Q # {}  PROVE FALSE
  BY DEF Q
<1>2. PICK T \in Q : \A U \in Q : U \subseteq T => U = T
  <2>1. Q \in SUBSET (SUBSET S)
    OBVIOUS
  <2> HIDE DEF Q
  <2>2. QED
    BY <1>1, <2>1, MinimalSubset
<1>3. T \in SUBSET S /\ IsFiniteSet(T)
  BY <1>2, FS_Subset
<1> DEFINE x == First(T)
<1>4. T # {} /\ x \in T
  BY <1>2, <1>3, SumFirst
<1>5. /\ SumFunctionOnSet(f, T) = f[x] + SumFunctionOnSet(f, T \ {x})
      /\ SumFunctionOnSet(g, T) = g[x] + SumFunctionOnSet(g, T \ {x})
  BY <1>3, <1>4, SumFirst
<1>6. SumFunctionOnSet(f, T \ {x}) = SumFunctionOnSet(g, T \ {x}) /\ f[x] = g[x]
  BY <1>2, <1>3, <1>4
<1>7. QED
  BY <1>2, <1>5, <1>6

\* The sum of a sum of two functions.
THEOREM SumPlus ==
    ASSUME NEW S, IsFiniteSet(S), NEW f, NEW g, NEW h,
           \A i \in S : g[i] \in Nat /\ h[i] \in Nat /\ f[i] = g[i] + h[i]
    PROVE  SumFunctionOnSet(f, S) = SumFunctionOnSet(g, S) + SumFunctionOnSet(h, S)
<1> DEFINE Q == {T \in SUBSET S : SumFunctionOnSet(f, T)
                    # SumFunctionOnSet(g, T) + SumFunctionOnSet(h, T)}
<1>1. SUFFICES ASSUME Q # {}  PROVE FALSE
  BY DEF Q
<1>2. PICK T \in Q : \A U \in Q : U \subseteq T => U = T
  <2>1. Q \in SUBSET (SUBSET S)
    OBVIOUS
  <2> HIDE DEF Q
  <2>2. QED
    BY <1>1, <2>1, MinimalSubset
<1>3. T \in SUBSET S /\ IsFiniteSet(T)
  BY <1>2, FS_Subset
<1> DEFINE x == First(T)
           R == T \ {x}
<1>4. T # {} /\ x \in T
  <2>1. T = {} => /\ SumFunctionOnSet(f, T) = 0
                  /\ SumFunctionOnSet(g, T) = 0 /\ SumFunctionOnSet(h, T) = 0
    BY <1>3, SumFirst
  <2>2. T # {}
    BY <1>2, <2>1
  <2>3. QED
    BY <2>2, <1>3, SumFirst
<1>5. /\ SumFunctionOnSet(f, T) = f[x] + SumFunctionOnSet(f, R)
      /\ SumFunctionOnSet(g, T) = g[x] + SumFunctionOnSet(g, R)
      /\ SumFunctionOnSet(h, T) = h[x] + SumFunctionOnSet(h, R)
  BY <1>3, <1>4, SumFirst
<1>6. SumFunctionOnSet(f, R) = SumFunctionOnSet(g, R) + SumFunctionOnSet(h, R)
  BY <1>2, <1>3, <1>4
<1>7. SumFunctionOnSet(g, R) \in Nat /\ SumFunctionOnSet(h, R) \in Nat
  <2>1. /\ IsFiniteSet(R)
        /\ \A i \in R : g[i] \in Nat /\ h[i] \in Nat
    BY <1>3, FS_Subset
  <2> HIDE DEF R
  <2>2. QED
    BY <2>1, SumNat
<1>8. g[x] \in Nat /\ h[x] \in Nat /\ f[x] = g[x] + h[x]
  BY <1>3, <1>4
<1> HIDE DEF x, R
<1>9. SumFunctionOnSet(f, T) = SumFunctionOnSet(g, T) + SumFunctionOnSet(h, T)
  BY <1>5, <1>6, <1>7, <1>8
<1>10. QED
  BY <1>2, <1>9

\* One value changes, and the sum changes with it.
THEOREM SumUpdate ==
    ASSUME NEW S, IsFiniteSet(S), NEW f, NEW g, NEW x \in S, NEW d \in Nat,
           \A i \in S : f[i] \in Nat, g[x] = f[x] + d,
           \A i \in S \ {x} : g[i] = f[i]
    PROVE  SumFunctionOnSet(g, S) = SumFunctionOnSet(f, S) + d
<1> DEFINE R == S \ {x}
<1>1. IsFiniteSet(R) /\ \A i \in R : f[i] \in Nat /\ g[i] = f[i]
  BY FS_Subset
<1>2. \A i \in S : g[i] \in Nat
  OBVIOUS
<1>3. /\ SumFunctionOnSet(f, S) = f[x] + SumFunctionOnSet(f, R)
      /\ SumFunctionOnSet(g, S) = g[x] + SumFunctionOnSet(g, R)
  BY <1>2, SumRemove
<1> HIDE DEF R
<1>4. SumFunctionOnSet(f, R) \in Nat
  BY <1>1, SumNat
<1>5. SumFunctionOnSet(g, R) = SumFunctionOnSet(f, R)
  BY <1>1, SumSame
<1>6. QED
  BY <1>3, <1>4, <1>5

\* A sequence moved on by one place, with a zero in front and its last value
\* dropped.
THEOREM SumShift ==
    ASSUME NEW n \in Nat, NEW f, NEW g, \A i \in 0 .. n : f[i] \in Nat,
           g[0] = 0, \A i \in 1 .. n : g[i] = f[i - 1]
    PROVE  SumFunctionOnSet(g, 0 .. n) <= SumFunctionOnSet(f, 0 .. n)
<1> DEFINE Sf(m) == SumFunctionOnSet(f, 0 .. m)
           Sg(m) == SumFunctionOnSet(g, 0 .. m)
           Q == {m \in 0 .. n : Sg(m) + f[m] # Sf(m)}
<1>1. \A m \in 0 .. n : IsFiniteSet(0 .. m)
  BY FS_Interval
<1>2. \A i \in 0 .. n : g[i] \in Nat
  <2>1. \A i \in 1 .. n : i - 1 \in 0 .. n
    OBVIOUS
  <2>2. QED
    BY <2>1
<1>3. ASSUME NEW m \in 0 .. n
      PROVE  /\ Sf(m) \in Nat /\ Sg(m) \in Nat
             /\ Sf(m) = f[m] + Sf(m - 1) /\ Sg(m) = g[m] + Sg(m - 1)
  <2>1. /\ \A i \in 0 .. m : f[i] \in Nat /\ g[i] \in Nat
        /\ m \in 0 .. m /\ (0 .. m) \ {m} = 0 .. m - 1
    BY <1>2
  <2>2. Sf(m) \in Nat /\ Sg(m) \in Nat
    BY <1>1, <2>1, SumNat
  <2>3. /\ Sf(m) = f[m] + SumFunctionOnSet(f, (0 .. m) \ {m})
        /\ Sg(m) = g[m] + SumFunctionOnSet(g, (0 .. m) \ {m})
    BY <1>1, <2>1, SumRemove
  <2>4. QED
    BY <2>1, <2>2, <2>3
<1>4. Sf(-1) = 0 /\ Sg(-1) = 0
  <2>1. 0 .. -1 = {}
    OBVIOUS
  <2>2. QED
    BY <2>1, FS_EmptySet, SumFirst
<1> HIDE DEF Sf, Sg
<1>5. ASSUME Q # {}  PROVE FALSE
  <2>1. IsFiniteSet(Q) /\ \A m \in Q : m \in Int
    <3>1. IsFiniteSet(0 .. n)
      BY <1>1
    <3>2. QED
      BY <3>1, FS_Subset
  <2>2. PICK m \in Q : \A y \in Q : m <= y
    <3> HIDE DEF Q
    <3>1. QED
      BY <1>5, <2>1, MinExists
  <2>3. m \in 0 .. n /\ Sg(m) + f[m] # Sf(m)
    BY <2>2
  <2>4. CASE m = 0
    BY <1>3, <1>4, <2>3, <2>4
  <2>5. CASE m # 0
    <3>1. m - 1 \in 0 .. n /\ m - 1 \notin Q /\ g[m] = f[m - 1]
      BY <2>2, <2>3, <2>5
    <3>2. Sg(m - 1) + f[m - 1] = Sf(m - 1)
      BY <3>1
    <3>3. /\ f[m] \in Nat /\ f[m - 1] \in Nat
          /\ Sg(m - 1) \in Nat /\ Sf(m - 1) \in Nat
      BY <1>3, <2>3, <3>1
    <3>4. Sf(m) = f[m] + Sf(m - 1) /\ Sg(m) = g[m] + Sg(m - 1)
      BY <1>3, <2>3
    <3>5. QED
      BY <2>3, <3>1, <3>2, <3>3, <3>4
  <2>6. QED
    BY <2>4, <2>5
<1>6. Sg(n) + f[n] = Sf(n) /\ f[n] \in Nat
  BY <1>5
<1>7. Sg(n) <= Sf(n)
  BY <1>3, <1>6
<1>8. QED
  BY <1>7 DEF Sf, Sg
=============================================================================
