-------------------------------- MODULE Sums --------------------------------
(***************************************************************************)
(* Sums over finite sets: what one element more or less, or one number     *)
(* that changes, does to SumFunctionOnSet. The library proves nothing      *)
(* about it, and its induction theorems take a predicate as a parameter,   *)
(* which the provers cannot instantiate; so induction is done with sets    *)
(* here, from the theorem that a well-founded order has minimal elements.  *)
(***************************************************************************)
EXTENDS FiniteSetsExt, FiniteSetTheorems, TLAPS

-----------------------------------------------------------------------------
(* Induction over sets instead of predicates.                              *)

\* Induction over the naturals, for a set of them.
LEMMA NatsFrom ==
  ASSUME NEW G, 0 \in G, \A n \in Nat : n \in G => n + 1 \in G
  PROVE  Nat \subseteq G
<1> SUFFICES ASSUME Nat \ G # {} PROVE FALSE
  OBVIOUS
<1>1. PICK m \in Nat \ G : \A n \in Nat \ G : ~(<<n, m>> \in OpToRel(<, Nat))
  BY NatLessThanWellFounded, WFMin
<1>2. m # 0 /\ m - 1 \in Nat /\ m - 1 < m
  OBVIOUS
<1>3. <<m - 1, m>> \in OpToRel(<, Nat)
  BY <1>2 DEF OpToRel
<1>4. m - 1 \in G
  BY <1>1, <1>2, <1>3
<1> QED
  BY <1>2, <1>4

\* Induction over the subsets of a finite set: a set in G follows from its strict subsets.
LEMMA SubsetsFrom ==
  ASSUME NEW S, IsFiniteSet(S), NEW G,
         \A T \in SUBSET S : (\A U \in SUBSET T : U # T => U \in G) => T \in G
  PROVE  SUBSET S \subseteq G
<1> SUFFICES ASSUME (SUBSET S) \ G # {} PROVE FALSE
  OBVIOUS
<1>1. IsWellFoundedOn(StrictSubsetOrdering(S), SUBSET S)
  <2>1. FiniteSubsetsOf(S) = SUBSET S
    BY FS_FiniteSubsetsOfFinite
  <2>2. IsWellFoundedOn(StrictSubsetOrdering(S), FiniteSubsetsOf(S))
    BY FS_StrictSubsetOrderingWellFounded
  <2> QED
    BY <2>1, <2>2
<1>2. PICK T \in (SUBSET S) \ G : \A U \in (SUBSET S) \ G : ~(<<U, T>> \in StrictSubsetOrdering(S))
  <2> DEFINE R == StrictSubsetOrdering(S)
             Bad == (SUBSET S) \ G
  <2>1. IsWellFoundedOn(R, SUBSET S) /\ Bad \subseteq SUBSET S /\ Bad # {}
    BY <1>1
  <2> HIDE DEF R, Bad
  <2>2. \E T \in Bad : \A U \in Bad : ~(<<U, T>> \in R)
    BY <2>1, WFMin
  <2> QED
    BY <2>2 DEF R, Bad
<1>3. \A U \in SUBSET T : U # T => U \in G
  <2> SUFFICES ASSUME NEW U \in SUBSET T, U # T, U \notin G PROVE FALSE
    OBVIOUS
  <2>1. U \in SUBSET S /\ T \in SUBSET S
    BY <1>2
  <2>2. <<U, T>> \in StrictSubsetOrdering(S)
    BY <2>1 DEF StrictSubsetOrdering
  <2> QED
    BY <1>2, <2>1, <2>2
<1> QED
  BY <1>2, <1>3

-----------------------------------------------------------------------------
(* What SumFunctionOnSet is.                                               *)

SumStep(g, f, s) == IF s = {} THEN 0 ELSE LET x == CHOOSE x \in s : TRUE IN f[x] + g[s \ {x}]
IsSum(g, f, D) == g = [s \in D |-> SumStep(g, f, s)]
SumsOver(f, S) == CHOOSE g : IsSum(g, f, SUBSET S)

\* The fold of the library is the function that IsSum describes.
LEMMA SumIs ==
  ASSUME NEW f, NEW S
  PROVE  SumFunctionOnSet(f, S) = SumsOver(f, S)[S]
BY DEF SumFunctionOnSet, FoldFunctionOnSet, MapThenFoldSet, SumsOver, IsSum, SumStep

\* There is such a function: built up by the size of the subsets.
LEMMA SumsExist ==
  ASSUME NEW S, IsFiniteSet(S), NEW f
  PROVE  IsSum(SumsOver(f, S), f, SUBSET S)
<1> DEFINE Upto(n) == {s \in SUBSET S : Cardinality(s) <= n}
           G == {n \in Nat : \E g : IsSum(g, f, Upto(n))}
<1>1. \A s \in SUBSET S : IsFiniteSet(s) /\ Cardinality(s) \in Nat /\ Cardinality(s) <= Cardinality(S)
  BY FS_Subset, FS_CardinalityType
<1>2. 0 \in G
  <2>1. \A s \in Upto(0) : s = {}
    BY <1>1, FS_EmptySet
  <2>2. PICK g : g = [s \in Upto(0) |-> 0]
    OBVIOUS
  <2>3. g = [s \in Upto(0) |-> SumStep(g, f, s)]
    BY <2>1, <2>2 DEF SumStep
  <2> QED
    BY <2>3 DEF IsSum
<1>3. ASSUME NEW n \in Nat, n \in G PROVE n + 1 \in G
  <2>1. PICK g : g = [s \in Upto(n) |-> SumStep(g, f, s)]
    BY <1>3 DEF IsSum
  <2>2. PICK h : h = [s \in Upto(n + 1) |-> SumStep(g, f, s)]
    OBVIOUS
  <2>3. \A s \in Upto(n) : s \in Upto(n + 1) /\ h[s] = g[s]
    BY <1>1, <2>1, <2>2
  <2>4. ASSUME NEW s \in Upto(n + 1), NEW x \in s PROVE s \ {x} \in Upto(n)
    <3>1. IsFiniteSet(s) /\ Cardinality(s \ {x}) = Cardinality(s) - 1
      BY <1>1, FS_RemoveElement
    <3>2. s \ {x} \in SUBSET S
      OBVIOUS
    <3> QED
      BY <1>1, <3>1, <3>2
  <2>5. ASSUME NEW s \in Upto(n + 1) PROVE SumStep(g, f, s) = SumStep(h, f, s)
    <3>1. CASE s = {}
      BY <3>1 DEF SumStep
    <3>2. CASE s # {}
      <4>1. PICK x : x = CHOOSE y \in s : TRUE
        OBVIOUS
      <4>2. x \in s
        BY <3>2, <4>1
      <4>3. h[s \ {x}] = g[s \ {x}]
        BY <2>3, <2>4, <4>2
      <4> QED
        BY <3>2, <4>1, <4>3 DEF SumStep
    <3> QED
      BY <3>1, <3>2
  <2>6. IsSum(h, f, Upto(n + 1))
    BY <2>2, <2>5 DEF IsSum
  <2> QED
    BY <2>6, n + 1 \in Nat
<1>4. Cardinality(S) \in G
  <2> HIDE DEF G
  <2>1. Nat \subseteq G
    BY <1>2, <1>3, NatsFrom
  <2> QED
    BY <2>1, FS_CardinalityType
<1>5. Upto(Cardinality(S)) = SUBSET S
  BY <1>1
<1>6. \E g : IsSum(g, f, SUBSET S)
  BY <1>4, <1>5
<1> QED
  BY <1>6 DEF SumsOver

\* A sum is the sum without any one of its elements, and that element.
LEMMA SumsStep ==
  ASSUME NEW S, IsFiniteSet(S), NEW f, \A x \in S : f[x] \in Int,
         NEW g, IsSum(g, f, SUBSET S)
  PROVE  /\ g[{}] = 0
         /\ \A s \in SUBSET S : g[s] \in Int
         /\ \A s \in SUBSET S : \A x \in s : g[s] = f[x] + g[s \ {x}]
<1>0. \A s \in SUBSET S : g[s] = SumStep(g, f, s)
  BY DEF IsSum
<1>1. g[{}] = 0
  BY <1>0 DEF SumStep
<1>2. ASSUME NEW s \in SUBSET S, s # {}
      PROVE  \E c \in s : g[s] = f[c] + g[s \ {c}]
  <2>1. PICK c : c = CHOOSE y \in s : TRUE
    OBVIOUS
  <2> QED
    BY <1>0, <1>2, <2>1 DEF SumStep
<1> DEFINE G == {s \in SUBSET S : /\ g[s] \in Int
                                  /\ \A x \in s : g[s] = f[x] + g[s \ {x}]}
<1>3. ASSUME NEW T \in SUBSET S, \A U \in SUBSET T : U # T => U \in G
      PROVE  T \in G
  <2>1. CASE T = {}
    BY <1>1, <2>1
  <2>2. CASE T # {}
    <3>1. PICK c \in T : g[T] = f[c] + g[T \ {c}]
      BY <1>2, <2>2
    <3>2. T \ {c} \in G
      BY <1>3, <3>1
    <3>3. g[T] \in Int
      BY <3>1, <3>2
    <3>4. ASSUME NEW x \in T, x # c PROVE g[T] = f[x] + g[T \ {x}]
      <4>1. g[T \ {c}] = f[x] + g[(T \ {c}) \ {x}]
        BY <3>2, <3>4
      <4>2. T \ {x} \in G
        BY <1>3
      <4>3. g[T \ {x}] = f[c] + g[(T \ {x}) \ {c}]
        BY <3>1, <3>4, <4>2
      <4>4. (T \ {x}) \ {c} = (T \ {c}) \ {x}
        OBVIOUS
      <4>5. (T \ {c}) \ {x} \in G
        BY <1>3
      <4>6. f[x] \in Int /\ f[c] \in Int /\ g[(T \ {c}) \ {x}] \in Int
        BY <4>5
      <4>7. g[T] = f[c] + (f[x] + g[(T \ {c}) \ {x}])
        BY <3>1, <4>1
      <4>8. g[T \ {x}] = f[c] + g[(T \ {c}) \ {x}]
        BY <4>3, <4>4
      <4> HIDE DEF G
      <4> QED
        BY <4>6, <4>7, <4>8
    <3> QED
      BY <3>1, <3>3, <3>4
  <2> QED
    BY <2>1, <2>2
<1>4. SUBSET S \subseteq G
  <2> HIDE DEF G
  <2> QED
    BY <1>3, SubsetsFrom
<1> QED
  BY <1>1, <1>4

\* The sum is the same as a part of a bigger one.
LEMMA SumsAgree ==
  ASSUME NEW S, IsFiniteSet(S), NEW T, IsFiniteSet(T), S \subseteq T,
         NEW f, \A x \in T : f[x] \in Int
  PROVE  SumsOver(f, S)[S] = SumsOver(f, T)[S]
<1> DEFINE A == SumsOver(f, S)
           B == SumsOver(f, T)
<1>0. IsSum(A, f, SUBSET S) /\ IsSum(B, f, SUBSET T)
  BY SumsExist
<1> HIDE DEF A, B
<1> DEFINE G == {s \in SUBSET S : A[s] = B[s]}
<1>1. ASSUME NEW U \in SUBSET S, \A V \in SUBSET U : V # U => V \in G
      PROVE  U \in G
  <2>1. CASE U = {}
    BY <1>0, <2>1, SumsStep
  <2>2. CASE U # {}
    <3>1. PICK x \in U : TRUE
      BY <2>2
    <3>2. A[U] = f[x] + A[U \ {x}]
      BY <1>0, SumsStep
    <3>3. U \in SUBSET T
      OBVIOUS
    <3>4. B[U] = f[x] + B[U \ {x}]
      BY <1>0, <3>3, SumsStep
    <3>5. U \ {x} \in G
      BY <1>1
    <3> QED
      BY <3>2, <3>4, <3>5
  <2> QED
    BY <2>1, <2>2
<1>2. SUBSET S \subseteq G
  <2> HIDE DEF G
  <2> QED
    BY <1>1, SubsetsFrom
<1> QED
  BY <1>2 DEF A, B

-----------------------------------------------------------------------------
(* Facts about sums.                                                       *)

\* No element.
LEMMA SumOfNone ==
  ASSUME NEW f
  PROVE  SumFunctionOnSet(f, {}) = 0
<1>1. IsSum(SumsOver(f, {}), f, SUBSET {})
  BY FS_EmptySet, SumsExist
<1> QED
  BY <1>1, SumIs DEF IsSum, SumStep

\* A sum of integers is one.
LEMMA SumIsInt ==
  ASSUME NEW S, IsFiniteSet(S), NEW f, \A x \in S : f[x] \in Int
  PROVE  SumFunctionOnSet(f, S) \in Int
BY SumsExist, SumsStep, SumIs

\* One element more.
LEMMA SumWith ==
  ASSUME NEW S, IsFiniteSet(S), NEW x, x \notin S, NEW f, \A y \in S \cup {x} : f[y] \in Int
  PROVE  SumFunctionOnSet(f, S \cup {x}) = SumFunctionOnSet(f, S) + f[x]
<1> DEFINE T == S \cup {x}
<1>1. IsFiniteSet(T)
  BY FS_AddElement
<1>2. x \in T /\ T \in SUBSET T /\ T \ {x} = S /\ S \subseteq T /\ \A y \in T : f[y] \in Int
  OBVIOUS
<1> HIDE DEF T
<1>3. IsSum(SumsOver(f, S), f, SUBSET S) /\ IsSum(SumsOver(f, T), f, SUBSET T)
  BY <1>1, <1>2, SumsExist
<1>4. SumsOver(f, T)[T] = f[x] + SumsOver(f, T)[S]
  BY <1>1, <1>2, <1>3, SumsStep
<1>5. SumsOver(f, S)[S] = SumsOver(f, T)[S]
  BY <1>1, <1>2, SumsAgree
<1>6. SumsOver(f, S)[S] \in Int /\ f[x] \in Int
  BY <1>2, <1>3, SumsStep
<1>7. SumsOver(f, T)[T] = SumsOver(f, S)[S] + f[x]
  BY <1>4, <1>5, <1>6
<1> QED
  BY <1>7, SumIs DEF T

\* One element less.
LEMMA SumWithout ==
  ASSUME NEW S, IsFiniteSet(S), NEW x \in S, NEW f, \A y \in S : f[y] \in Int
  PROVE  SumFunctionOnSet(f, S \ {x}) = SumFunctionOnSet(f, S) - f[x]
<1>1. IsFiniteSet(S \ {x}) /\ S = (S \ {x}) \cup {x} /\ x \notin S \ {x}
  BY FS_RemoveElement
<1>2. SumFunctionOnSet(f, S) = SumFunctionOnSet(f, S \ {x}) + f[x]
  BY <1>1, SumWith
<1>3. SumFunctionOnSet(f, S \ {x}) \in Int /\ f[x] \in Int
  BY <1>1, SumIsInt
<1> QED
  BY <1>2, <1>3

\* The same numbers, the same sum.
LEMMA SumOfSame ==
  ASSUME NEW S, IsFiniteSet(S), NEW f, NEW g, \A x \in S : f[x] \in Int /\ g[x] = f[x]
  PROVE  SumFunctionOnSet(g, S) = SumFunctionOnSet(f, S)
<1> DEFINE G == {s \in SUBSET S : SumFunctionOnSet(g, s) = SumFunctionOnSet(f, s)}
<1>1. ASSUME NEW U \in SUBSET S, \A V \in SUBSET U : V # U => V \in G
      PROVE  U \in G
  <2>1. CASE U = {}
    BY <2>1, SumOfNone
  <2>2. CASE U # {}
    <3>1. PICK x \in U : TRUE
      BY <2>2
    <3>2. IsFiniteSet(U) /\ \A y \in U : f[y] \in Int /\ g[y] \in Int
      BY FS_Subset
    <3>3. /\ SumFunctionOnSet(f, U \ {x}) = SumFunctionOnSet(f, U) - f[x]
          /\ SumFunctionOnSet(g, U \ {x}) = SumFunctionOnSet(g, U) - g[x]
          /\ SumFunctionOnSet(f, U) \in Int /\ SumFunctionOnSet(g, U) \in Int
      BY <3>2, SumWithout, SumIsInt
    <3>4. SumFunctionOnSet(g, U \ {x}) = SumFunctionOnSet(f, U \ {x})
      BY <1>1
    <3>5. f[x] \in Int /\ g[x] = f[x]
      OBVIOUS
    <3> QED
      BY <3>3, <3>4, <3>5
  <2> QED
    BY <2>1, <2>2
<1>2. SUBSET S \subseteq G
  <2> HIDE DEF G
  <2> QED
    BY <1>1, SubsetsFrom
<1> QED
  BY <1>2

\* One number changes.
LEMMA SumChanged ==
  ASSUME NEW S, IsFiniteSet(S), NEW x \in S, NEW f, NEW g, \A y \in S : f[y] \in Int /\ g[y] \in Int,
         \A y \in S : y # x => g[y] = f[y]
  PROVE  SumFunctionOnSet(g, S) = SumFunctionOnSet(f, S) - f[x] + g[x]
<1>1. IsFiniteSet(S \ {x})
  BY FS_RemoveElement
<1>2. SumFunctionOnSet(g, S \ {x}) = SumFunctionOnSet(f, S \ {x})
  BY <1>1, SumOfSame
<1>3. /\ SumFunctionOnSet(g, S \ {x}) = SumFunctionOnSet(g, S) - g[x]
      /\ SumFunctionOnSet(f, S \ {x}) = SumFunctionOnSet(f, S) - f[x]
  BY SumWithout
<1>4. /\ SumFunctionOnSet(g, S) \in Int /\ SumFunctionOnSet(f, S) \in Int
      /\ f[x] \in Int /\ g[x] \in Int
  BY SumIsInt
<1> QED
  BY <1>2, <1>3, <1>4

\* A sum of naturals is one, and not less than any of them.
LEMMA SumIsNat ==
  ASSUME NEW S, IsFiniteSet(S), NEW f, \A x \in S : f[x] \in Nat
  PROVE  /\ SumFunctionOnSet(f, S) \in Nat
         /\ \A x \in S : f[x] <= SumFunctionOnSet(f, S)
<1> DEFINE G == {s \in SUBSET S : SumFunctionOnSet(f, s) \in Nat}
<1>0. \A x \in S : f[x] \in Int
  OBVIOUS
<1>1. ASSUME NEW T \in SUBSET S, \A U \in SUBSET T : U # T => U \in G PROVE T \in G
  <2>1. CASE T = {}
    BY <2>1, SumOfNone
  <2>2. CASE T # {}
    <3>1. PICK x \in T : TRUE
      BY <2>2
    <3>2. IsFiniteSet(T) /\ \A y \in T : f[y] \in Int
      BY <1>0, FS_Subset
    <3>3. SumFunctionOnSet(f, T \ {x}) = SumFunctionOnSet(f, T) - f[x]
      BY <3>2, SumWithout
    <3>4. SumFunctionOnSet(f, T \ {x}) \in Nat
      BY <1>1, <3>1
    <3>5. SumFunctionOnSet(f, T) \in Int
      BY <3>2, SumIsInt
    <3> QED
      BY <3>3, <3>4, <3>5
  <2> QED
    BY <2>1, <2>2
<1>2. SUBSET S \subseteq G
  <2> HIDE DEF G
  <2> QED
    BY <1>1, SubsetsFrom
<1>3. ASSUME NEW x \in S PROVE f[x] <= SumFunctionOnSet(f, S)
  <2>1. SumFunctionOnSet(f, S \ {x}) = SumFunctionOnSet(f, S) - f[x]
    BY <1>0, SumWithout
  <2>2. SumFunctionOnSet(f, S \ {x}) \in Nat /\ SumFunctionOnSet(f, S) \in Nat /\ f[x] \in Nat
    BY <1>2
  <2> QED
    BY <2>1, <2>2
<1> QED
  BY <1>2, <1>3

\* Nothing, however often.
LEMMA SumOfZeros ==
  ASSUME NEW S, IsFiniteSet(S), NEW f, \A x \in S : f[x] = 0
  PROVE  SumFunctionOnSet(f, S) = 0
<1> DEFINE G == {s \in SUBSET S : SumFunctionOnSet(f, s) = 0}
<1>1. ASSUME NEW U \in SUBSET S, \A V \in SUBSET U : V # U => V \in G PROVE U \in G
  <2>1. CASE U = {}
    BY <2>1, SumOfNone
  <2>2. CASE U # {}
    <3>1. PICK x \in U : TRUE
      BY <2>2
    <3>2. IsFiniteSet(U) /\ \A y \in U : f[y] \in Int
      BY FS_Subset
    <3>3. SumFunctionOnSet(f, U \ {x}) = SumFunctionOnSet(f, U) - f[x]
      BY <3>2, SumWithout
    <3>4. SumFunctionOnSet(f, U \ {x}) = 0 /\ f[x] = 0
      BY <1>1, <3>1
    <3>5. SumFunctionOnSet(f, U) \in Int
      BY <3>2, SumIsInt
    <3> QED
      BY <3>3, <3>4, <3>5
  <2> QED
    BY <2>1, <2>2
<1>2. SUBSET S \subseteq G
  <2> HIDE DEF G
  <2> QED
    BY <1>1, SubsetsFrom
<1> QED
  BY <1>2

\* Two sums at once.
LEMMA SumOfBoth ==
  ASSUME NEW S, IsFiniteSet(S), NEW f, NEW g, NEW h,
         \A x \in S : f[x] \in Int /\ g[x] \in Int /\ h[x] = f[x] + g[x]
  PROVE  SumFunctionOnSet(h, S) = SumFunctionOnSet(f, S) + SumFunctionOnSet(g, S)
<1> DEFINE G == {s \in SUBSET S :
                   SumFunctionOnSet(h, s) = SumFunctionOnSet(f, s) + SumFunctionOnSet(g, s)}
<1>1. ASSUME NEW U \in SUBSET S, \A V \in SUBSET U : V # U => V \in G PROVE U \in G
  <2>1. CASE U = {}
    BY <2>1, SumOfNone
  <2>2. CASE U # {}
    <3>1. PICK x \in U : TRUE
      BY <2>2
    <3>2. IsFiniteSet(U) /\ \A y \in U : f[y] \in Int /\ g[y] \in Int /\ h[y] \in Int
      BY FS_Subset
    <3>3. /\ SumFunctionOnSet(f, U \ {x}) = SumFunctionOnSet(f, U) - f[x]
          /\ SumFunctionOnSet(g, U \ {x}) = SumFunctionOnSet(g, U) - g[x]
          /\ SumFunctionOnSet(h, U \ {x}) = SumFunctionOnSet(h, U) - h[x]
      BY <3>2, SumWithout
    <3>4. /\ SumFunctionOnSet(f, U) \in Int /\ SumFunctionOnSet(g, U) \in Int
          /\ SumFunctionOnSet(h, U) \in Int
      BY <3>2, SumIsInt
    <3>5. SumFunctionOnSet(h, U \ {x})
            = SumFunctionOnSet(f, U \ {x}) + SumFunctionOnSet(g, U \ {x})
      BY <1>1
    <3>6. h[x] = f[x] + g[x] /\ f[x] \in Int /\ g[x] \in Int
      OBVIOUS
    <3>7. SumFunctionOnSet(h, U) = SumFunctionOnSet(f, U) + SumFunctionOnSet(g, U)
      BY <3>3, <3>4, <3>5, <3>6
    <3> QED
      BY <3>7
  <2> QED
    BY <2>1, <2>2
<1>2. SUBSET S \subseteq G
  <2> HIDE DEF G
  <2> QED
    BY <1>1, SubsetsFrom
<1> QED
  BY <1>2

\* Only a part of the set counts.
LEMMA SumOfPart ==
  ASSUME NEW S, IsFiniteSet(S), NEW T \in SUBSET S, NEW f, NEW g,
         \A x \in T : f[x] \in Int, \A x \in S : g[x] = IF x \in T THEN f[x] ELSE 0
  PROVE  SumFunctionOnSet(g, S) = SumFunctionOnSet(f, T)
<1> DEFINE G == {s \in SUBSET S : SumFunctionOnSet(g, s) = SumFunctionOnSet(f, s \cap T)}
<1>1. ASSUME NEW U \in SUBSET S, \A V \in SUBSET U : V # U => V \in G PROVE U \in G
  <2>1. CASE U = {}
    <3>1. U \cap T = {}
      BY <2>1
    <3> QED
      BY <2>1, <3>1, SumOfNone
  <2>2. CASE U # {}
    <3>1. PICK x \in U : TRUE
      BY <2>2
    <3>2. /\ IsFiniteSet(U) /\ IsFiniteSet(U \cap T)
          /\ \A y \in U : g[y] \in Int
          /\ \A y \in U \cap T : f[y] \in Int
      BY FS_Subset
    <3>3. SumFunctionOnSet(g, U \ {x}) = SumFunctionOnSet(g, U) - g[x]
      BY <3>2, SumWithout
    <3>4. SumFunctionOnSet(g, U \ {x}) = SumFunctionOnSet(f, (U \ {x}) \cap T)
      BY <1>1
    <3>5. SumFunctionOnSet(g, U) \in Int /\ SumFunctionOnSet(f, U \cap T) \in Int
      BY <3>2, SumIsInt
    <3>6. CASE x \in T
      <4>1. (U \ {x}) \cap T = (U \cap T) \ {x} /\ x \in U \cap T
        BY <3>6
      <4>2. SumFunctionOnSet(f, (U \cap T) \ {x}) = SumFunctionOnSet(f, U \cap T) - f[x]
        BY <3>2, <4>1, SumWithout
      <4>3. g[x] = f[x] /\ f[x] \in Int
        BY <3>6
      <4>4. SumFunctionOnSet(g, U) = SumFunctionOnSet(f, U \cap T)
        BY <3>3, <3>4, <3>5, <4>1, <4>2, <4>3
      <4> QED
        BY <4>4
    <3>7. CASE x \notin T
      <4>1. (U \ {x}) \cap T = U \cap T /\ g[x] = 0
        BY <3>7
      <4>2. SumFunctionOnSet(g, U) = SumFunctionOnSet(f, U \cap T)
        BY <3>3, <3>4, <3>5, <4>1
      <4> QED
        BY <4>2
    <3> QED
      BY <3>6, <3>7
  <2> QED
    BY <2>1, <2>2
<1>2. SUBSET S \subseteq G
  <2> HIDE DEF G
  <2> QED
    BY <1>1, SubsetsFrom
<1>3. S \cap T = T
  OBVIOUS
<1> QED
  BY <1>2, <1>3
=============================================================================
