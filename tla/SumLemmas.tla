------------------------------ MODULE SumLemmas ------------------------------
(***************************************************************************)
(* Sums over tables: what SumFunctionOnSet of the community modules gives  *)
(* when a row is added, removed or changed, when the function or the set   *)
(* changes, and what type the sum has.  The caps and the positions of the  *)
(* bot are such sums.                                                      *)
(*                                                                         *)
(* The induction these facts need is over a set: instead of a predicate P, *)
(* the set of the numbers (or of the subsets of S) that have the property  *)
(* is the argument, which keeps every step first-order.                    *)
(*                                                                         *)
(* And the largest element of a set, which the folds over sequences take,  *)
(* and rows counted by a key.                                              *)
(***************************************************************************)
EXTENDS Integers, FiniteSetsExt, FiniteSetTheorems, WellFoundedInduction, TLAPS

-----------------------------------------------------------------------------
(* Induction.                                                              *)

LessThan == {p \in Nat \X Nat : p[1] < p[2]}

\* The order of the naturals, as a set of pairs, is well-founded.
LEMMA LessThanWellFounded == IsWellFoundedOn(LessThan, Nat)
BY NatLessThanWellFounded DEF OpToRel, LessThan

\* A set that holds 0 and the successor of each number in it holds every number:
\* otherwise take the least number it misses.
LEMMA NatInductionOnSet ==
    ASSUME NEW A, 0 \in A, \A n \in Nat : n \in A => n + 1 \in A
    PROVE  Nat \subseteq A
<1> DEFINE Missing == Nat \ A
<1>1. SUFFICES ASSUME Missing # {} PROVE FALSE
  OBVIOUS
<1>2. Missing \subseteq Nat
  OBVIOUS
<1>3. PICK n \in Missing : \A m \in Missing : <<m, n>> \notin LessThan
  <2> HIDE DEF Missing
  <2> QED BY <1>1, <1>2, WFMin, LessThanWellFounded
<1>4. n \in Nat /\ n # 0 /\ n - 1 \in Nat /\ n - 1 + 1 = n
  BY <1>3
<1>5. n - 1 \in Missing
  BY <1>3, <1>4
<1>6. <<n - 1, n>> \in LessThan
  BY <1>4 DEF LessThan
<1> QED
  BY <1>3, <1>5, <1>6

\* A family that holds {} and is closed under adding an element of S holds every
\* subset of the finite set S.
LEMMA SetInductionOnSet ==
    ASSUME NEW S, IsFiniteSet(S), NEW F, {} \in F,
           \A T \in SUBSET S : \A e \in S \ T : T \in F => T \cup {e} \in F
    PROVE  \A T \in SUBSET S : T \in F
<1> DEFINE A == {n \in Nat : \A T \in SUBSET S : Cardinality(T) = n => T \in F}
<1>1. \A T \in SUBSET S : IsFiniteSet(T) /\ Cardinality(T) \in Nat
  BY FS_Subset, FS_CardinalityType
<1>2. 0 \in A
  BY <1>1, FS_EmptySet
<1>3. ASSUME NEW n \in Nat, n \in A
      PROVE  n + 1 \in A
  <2> SUFFICES ASSUME NEW T \in SUBSET S, Cardinality(T) = n + 1 PROVE T \in F
    OBVIOUS
  <2>1. PICK e \in T : TRUE
    BY <1>1, FS_EmptySet
  <2>2. Cardinality(T \ {e}) = n
    <3>1. Cardinality(T \ {e}) = Cardinality(T) - 1
      BY <1>1, <2>1, FS_RemoveElement
    <3> QED
      BY <3>1
  <2>3. T \ {e} \in F /\ T \ {e} \in SUBSET S
    BY <1>3, <2>2
  <2>4. (T \ {e}) \cup {e} = T
    BY <2>1
  <2> QED
    BY <2>1, <2>3, <2>4
<1>4. Nat \subseteq A
  <2> HIDE DEF A
  <2> QED
    BY <1>2, <1>3, NatInductionOnSet
<1> QED
  BY <1>1, <1>4

-----------------------------------------------------------------------------
(* The recursion behind SumFunctionOnSet has a solution, and only one.     *)

\* The recursion equation of a sum over the subsets of S.
SumsTo(it, f, D) ==
    it = [s \in D |-> IF s = {} THEN 0
                      ELSE f[CHOOSE x \in s : TRUE] + it[s \ {CHOOSE x \in s : TRUE}]]

\* The subsets of S with at most n elements.
UpTo(S, n) == {s \in SUBSET S : Cardinality(s) <= n}

\* A sum is the value at S of a function chosen to satisfy the equation.
LEMMA SumIsFold ==
    ASSUME NEW f, NEW S
    PROVE  SumFunctionOnSet(f, S) = (CHOOSE it : SumsTo(it, f, SUBSET S))[S]
BY DEF SumFunctionOnSet, FoldFunctionOnSet, MapThenFoldSet, SumsTo

\* There is such a function: it is built for one size of subset after another.
LEMMA SumsExist ==
    ASSUME NEW S, IsFiniteSet(S), NEW f
    PROVE  \E it : SumsTo(it, f, SUBSET S)
<1> DEFINE c(s) == CHOOSE x \in s : TRUE
           A == {n \in Nat : \E it : SumsTo(it, f, UpTo(S, n))}
<1>1. \A T \in SUBSET S : IsFiniteSet(T) /\ Cardinality(T) \in Nat /\ (Cardinality(T) = 0 <=> T = {})
  BY FS_Subset, FS_CardinalityType, FS_EmptySet
<1>2. 0 \in A
  <2>1. UpTo(S, 0) = {{}}
    BY <1>1, FS_EmptySet DEF UpTo
  <2>2. SumsTo([s \in {{}} |-> 0], f, UpTo(S, 0))
    BY <2>1 DEF SumsTo
  <2> QED
    BY <2>2
<1>3. ASSUME NEW n \in Nat, n \in A
      PROVE  n + 1 \in A
  <2>1. PICK g : SumsTo(g, f, UpTo(S, n))
    BY <1>3
  <2> DEFINE h == [s \in UpTo(S, n + 1) |-> IF s = {} THEN 0 ELSE f[c(s)] + g[s \ {c(s)}]]
  <2>2. ASSUME NEW s \in UpTo(S, n + 1), s # {}
        PROVE  s \ {c(s)} \in UpTo(S, n)
    <3>1. c(s) \in s
      BY <2>2
    <3>2. Cardinality(s \ {c(s)}) = Cardinality(s) - 1
      BY <1>1, <3>1, FS_RemoveElement DEF UpTo
    <3> HIDE DEF c
    <3> QED
      BY <1>1, <3>2 DEF UpTo
  <2>3. \A s \in UpTo(S, n) : s \in UpTo(S, n + 1)
    BY <1>1 DEF UpTo
  <2>4. ASSUME NEW s \in UpTo(S, n)
        PROVE  g[s] = IF s = {} THEN 0 ELSE f[c(s)] + g[s \ {c(s)}]
    BY <2>1 DEF SumsTo
  <2>5. \A s \in UpTo(S, n) : h[s] = g[s]
    <3> HIDE DEF c
    <3> QED
      BY <2>3, <2>4
  <2>6. h = [s \in UpTo(S, n + 1) |-> IF s = {} THEN 0 ELSE f[c(s)] + h[s \ {c(s)}]]
    <3> HIDE DEF c
    <3>1. \A s \in UpTo(S, n + 1) : s # {} => h[s \ {c(s)}] = g[s \ {c(s)}]
      BY <2>2, <2>5
    <3> QED
      BY <3>1
  <2>7. SumsTo(h, f, UpTo(S, n + 1))
    BY <2>6 DEF SumsTo
  <2> QED
    BY <2>7
<1>4. Cardinality(S) \in A
  <2> HIDE DEF A
  <2> QED
    BY <1>1, <1>2, <1>3, NatInductionOnSet
<1>5. UpTo(S, Cardinality(S)) = SUBSET S
  BY <1>1, FS_Subset DEF UpTo
<1> QED
  BY <1>4, <1>5

\* The functions chosen for S and for a subset T of it agree on T.
LEMMA SumsAgree ==
    ASSUME NEW S, IsFiniteSet(S), NEW T \in SUBSET S, NEW f, NEW g, NEW h,
           SumsTo(g, f, SUBSET S), SumsTo(h, f, SUBSET T)
    PROVE  g[T] = h[T]
<1> DEFINE c(s) == CHOOSE x \in s : TRUE
           A == {n \in Nat : \A U \in SUBSET T : Cardinality(U) = n => g[U] = h[U]}
<1>1. \A U \in SUBSET T : IsFiniteSet(U) /\ Cardinality(U) \in Nat /\ (Cardinality(U) = 0 <=> U = {})
  BY FS_Subset, FS_CardinalityType, FS_EmptySet
<1>2. \A U \in SUBSET T : g[U] = IF U = {} THEN 0 ELSE f[c(U)] + g[U \ {c(U)}]
  BY DEF SumsTo
<1>3. \A U \in SUBSET T : h[U] = IF U = {} THEN 0 ELSE f[c(U)] + h[U \ {c(U)}]
  BY DEF SumsTo
<1>4. 0 \in A
  BY <1>1, <1>2, <1>3
<1>5. ASSUME NEW n \in Nat, n \in A
      PROVE  n + 1 \in A
  <2> SUFFICES ASSUME NEW U \in SUBSET T, Cardinality(U) = n + 1 PROVE g[U] = h[U]
    OBVIOUS
  <2>1. U # {} /\ c(U) \in U
    BY <1>1
  <2>2. Cardinality(U \ {c(U)}) = n
    <3> HIDE DEF c
    <3> QED
      BY <1>1, <2>1, FS_RemoveElement
  <2>3. g[U \ {c(U)}] = h[U \ {c(U)}]
    <3> HIDE DEF c
    <3> QED
      BY <1>5, <2>1, <2>2
  <2> HIDE DEF c
  <2> QED
    BY <1>2, <1>3, <2>1, <2>3
<1>6. Cardinality(T) \in A
  <2> HIDE DEF A
  <2> QED
    BY <1>1, <1>4, <1>5, NatInductionOnSet
<1> QED
  BY <1>1, <1>6

-----------------------------------------------------------------------------
(* What a sum is.                                                          *)

\* The sum over nothing.
LEMMA SumEmpty == \A f : SumFunctionOnSet(f, {}) = 0
<1> SUFFICES ASSUME NEW f PROVE SumFunctionOnSet(f, {}) = 0
  OBVIOUS
<1>1. SumsTo(CHOOSE it : SumsTo(it, f, SUBSET {}), f, SUBSET {})
  BY SumsExist, FS_EmptySet
<1> DEFINE g == CHOOSE it : SumsTo(it, f, SUBSET {})
<1>2. g[{}] = 0
  <2>1. SumsTo(g, f, SUBSET {})
    BY <1>1
  <2> HIDE DEF g
  <2> QED
    BY <2>1 DEF SumsTo
<1> QED
  BY <1>2, SumIsFold

\* The sum takes the element that CHOOSE picks first.
LEMMA SumPick ==
    ASSUME NEW S, IsFiniteSet(S), S # {}, NEW f
    PROVE  LET e == CHOOSE x \in S : TRUE
           IN  SumFunctionOnSet(f, S) = f[e] + SumFunctionOnSet(f, S \ {e})
<1> DEFINE e == CHOOSE x \in S : TRUE
           T == S \ {e}
           g == CHOOSE it : SumsTo(it, f, SUBSET S)
           h == CHOOSE it : SumsTo(it, f, SUBSET T)
<1>1. T \in SUBSET S /\ IsFiniteSet(T)
  BY FS_Subset
<1>2. SumsTo(g, f, SUBSET S)
  BY SumsExist
<1>3. SumsTo(h, f, SUBSET T)
  <2> HIDE DEF T
  <2> QED
    BY <1>1, SumsExist
<1>4. g[S] = f[e] + g[T]
  <2>1. S \in SUBSET S
    OBVIOUS
  <2> HIDE DEF g
  <2> QED
    BY <1>2, <2>1 DEF SumsTo
<1>5. g[T] = h[T]
  <2> HIDE DEF g, h, T
  <2> QED
    BY <1>1, <1>2, <1>3, SumsAgree
<1>6. SumFunctionOnSet(f, S) = g[S] /\ SumFunctionOnSet(f, T) = h[T]
  BY SumIsFold
<1> HIDE DEF g, h, T
<1>7. SumFunctionOnSet(f, S) = f[e] + SumFunctionOnSet(f, T)
  BY <1>4, <1>5, <1>6
<1> QED
  BY <1>7 DEF T

\* Values of a type that is closed under addition have a sum of that type.
LEMMA SumType ==
    ASSUME NEW S, IsFiniteSet(S), NEW f, NEW Type, 0 \in Type,
           \A a, b \in Type : a + b \in Type,
           \A x \in S : f[x] \in Type
    PROVE  SumFunctionOnSet(f, S) \in Type
<1> DEFINE A == {n \in Nat : \A T \in SUBSET S :
                     Cardinality(T) = n => SumFunctionOnSet(f, T) \in Type}
<1>1. \A T \in SUBSET S : IsFiniteSet(T) /\ Cardinality(T) \in Nat /\ (Cardinality(T) = 0 <=> T = {})
  BY FS_Subset, FS_CardinalityType, FS_EmptySet
<1>2. 0 \in A
  BY <1>1, SumEmpty
<1>3. ASSUME NEW n \in Nat, n \in A
      PROVE  n + 1 \in A
  <2> SUFFICES ASSUME NEW T \in SUBSET S, Cardinality(T) = n + 1
               PROVE  SumFunctionOnSet(f, T) \in Type
    OBVIOUS
  <2> DEFINE e == CHOOSE x \in T : TRUE
  <2>1. T # {} /\ e \in T
    BY <1>1
  <2>2. SumFunctionOnSet(f, T) = f[e] + SumFunctionOnSet(f, T \ {e})
    BY <1>1, <2>1, SumPick
  <2> HIDE DEF e
  <2>3. Cardinality(T \ {e}) = Cardinality(T) - 1
    BY <1>1, <2>1, FS_RemoveElement
  <2>4. SumFunctionOnSet(f, T \ {e}) \in Type
    BY <1>3, <2>3
  <2> QED
    BY <2>1, <2>2, <2>4
<1>4. Cardinality(S) \in A
  <2> HIDE DEF A
  <2> QED
    BY <1>1, <1>2, <1>3, NatInductionOnSet
<1> QED
  BY <1>1, <1>4

\* Integers have an integer sum, natural numbers a natural one.
LEMMA SumInt ==
    ASSUME NEW S, IsFiniteSet(S), NEW f, \A x \in S : f[x] \in Int
    PROVE  SumFunctionOnSet(f, S) \in Int
BY SumType

LEMMA SumNat ==
    ASSUME NEW S, IsFiniteSet(S), NEW f, \A x \in S : f[x] \in Nat
    PROVE  SumFunctionOnSet(f, S) \in Nat
<1> DEFINE Type == Nat
<1>1. 0 \in Type /\ (\A a, b \in Type : a + b \in Type) /\ \A x \in S : f[x] \in Type
  OBVIOUS
<1>2. SumFunctionOnSet(f, S) \in Type
  <2> HIDE DEF Type
  <2> QED
    BY <1>1, SumType
<1> QED
  BY <1>2

-----------------------------------------------------------------------------
(* The order in which the elements are taken does not matter.              *)

\* Any element may be taken first.
LEMMA SumRemove ==
    ASSUME NEW S, IsFiniteSet(S), NEW f, \A x \in S : f[x] \in Int, NEW x \in S
    PROVE  SumFunctionOnSet(f, S) = f[x] + SumFunctionOnSet(f, S \ {x})
<1> DEFINE A == {n \in Nat : \A T \in SUBSET S : Cardinality(T) = n =>
                     \A y \in T : SumFunctionOnSet(f, T) = f[y] + SumFunctionOnSet(f, T \ {y})}
<1>1. \A T \in SUBSET S : IsFiniteSet(T) /\ Cardinality(T) \in Nat /\ (Cardinality(T) = 0 <=> T = {})
  BY FS_Subset, FS_CardinalityType, FS_EmptySet
<1>2. 0 \in A
  BY <1>1
<1>3. ASSUME NEW n \in Nat, n \in A
      PROVE  n + 1 \in A
  <2> SUFFICES ASSUME NEW T \in SUBSET S, Cardinality(T) = n + 1, NEW y \in T
               PROVE  SumFunctionOnSet(f, T) = f[y] + SumFunctionOnSet(f, T \ {y})
    OBVIOUS
  <2> DEFINE e == CHOOSE z \in T : TRUE
  <2>1. T # {} /\ e \in T
    BY <1>1
  <2>2. SumFunctionOnSet(f, T) = f[e] + SumFunctionOnSet(f, T \ {e})
    BY <1>1, <2>1, SumPick
  <2> HIDE DEF e
  <2>3. CASE y = e
    BY <2>2, <2>3
  <2>4. CASE y # e
    <3>1. Cardinality(T \ {e}) = n /\ Cardinality(T \ {y}) = n
      <4>1. Cardinality(T \ {e}) = Cardinality(T) - 1
        BY <1>1, <2>1, FS_RemoveElement
      <4>2. Cardinality(T \ {y}) = Cardinality(T) - 1
        BY <1>1, FS_RemoveElement
      <4> QED
        BY <4>1, <4>2
    <3>2. SumFunctionOnSet(f, T \ {e}) = f[y] + SumFunctionOnSet(f, (T \ {e}) \ {y})
      BY <1>3, <2>4, <3>1
    <3>3. SumFunctionOnSet(f, T \ {y}) = f[e] + SumFunctionOnSet(f, (T \ {y}) \ {e})
      BY <1>3, <2>1, <2>4, <3>1
    <3>4. (T \ {e}) \ {y} = (T \ {y}) \ {e}
      OBVIOUS
    <3> DEFINE rest == SumFunctionOnSet(f, (T \ {y}) \ {e})
    <3>5. rest \in Int /\ f[e] \in Int /\ f[y] \in Int
      <4>1. IsFiniteSet((T \ {y}) \ {e})
        BY <1>1
      <4> QED
        BY <2>1, <4>1, SumInt
    <3>6. SumFunctionOnSet(f, T) = f[e] + (f[y] + rest)
      BY <2>2, <3>2, <3>4
    <3>7. SumFunctionOnSet(f, T \ {y}) = f[e] + rest
      BY <3>3
    <3> HIDE DEF rest
    <3> QED
      BY <3>5, <3>6, <3>7
  <2> QED
    BY <2>3, <2>4
<1>4. Cardinality(S) \in A
  <2> HIDE DEF A
  <2> QED
    BY <1>1, <1>2, <1>3, NatInductionOnSet
<1> QED
  BY <1>1, <1>4

\* A row that is added adds its value.
LEMMA SumAdd ==
    ASSUME NEW S, IsFiniteSet(S), NEW x, x \notin S, NEW f,
           \A y \in S \cup {x} : f[y] \in Int
    PROVE  SumFunctionOnSet(f, S \cup {x}) = f[x] + SumFunctionOnSet(f, S)
<1>1. IsFiniteSet(S \cup {x}) /\ x \in S \cup {x} /\ (S \cup {x}) \ {x} = S
  BY FS_AddElement
<1> DEFINE T == S \cup {x}
<1>2. IsFiniteSet(T) /\ x \in T /\ T \ {x} = S /\ \A y \in T : f[y] \in Int
  BY <1>1
<1> HIDE DEF T
<1>3. SumFunctionOnSet(f, T) = f[x] + SumFunctionOnSet(f, S)
  BY <1>2, SumRemove
<1> QED
  BY <1>3 DEF T

-----------------------------------------------------------------------------
(* Sums of different functions and over different sets.                    *)

\* Only the values on the set count.
LEMMA SumSame ==
    ASSUME NEW S, IsFiniteSet(S), NEW f, NEW g, \A x \in S : f[x] = g[x]
    PROVE  SumFunctionOnSet(f, S) = SumFunctionOnSet(g, S)
<1> DEFINE A == {n \in Nat : \A T \in SUBSET S : Cardinality(T) = n =>
                     SumFunctionOnSet(f, T) = SumFunctionOnSet(g, T)}
<1>1. \A T \in SUBSET S : IsFiniteSet(T) /\ Cardinality(T) \in Nat /\ (Cardinality(T) = 0 <=> T = {})
  BY FS_Subset, FS_CardinalityType, FS_EmptySet
<1>2. 0 \in A
  BY <1>1, SumEmpty
<1>3. ASSUME NEW n \in Nat, n \in A
      PROVE  n + 1 \in A
  <2> SUFFICES ASSUME NEW T \in SUBSET S, Cardinality(T) = n + 1
               PROVE  SumFunctionOnSet(f, T) = SumFunctionOnSet(g, T)
    OBVIOUS
  <2> DEFINE e == CHOOSE z \in T : TRUE
  <2>1. T # {} /\ e \in T
    BY <1>1
  <2>2. /\ SumFunctionOnSet(f, T) = f[e] + SumFunctionOnSet(f, T \ {e})
        /\ SumFunctionOnSet(g, T) = g[e] + SumFunctionOnSet(g, T \ {e})
    BY <1>1, <2>1, SumPick
  <2> HIDE DEF e
  <2>3. Cardinality(T \ {e}) = Cardinality(T) - 1
    BY <1>1, <2>1, FS_RemoveElement
  <2>4. SumFunctionOnSet(f, T \ {e}) = SumFunctionOnSet(g, T \ {e})
    BY <1>3, <2>3
  <2> QED
    BY <2>1, <2>2, <2>4
<1>4. Cardinality(S) \in A
  <2> HIDE DEF A
  <2> QED
    BY <1>1, <1>2, <1>3, NatInductionOnSet
<1> QED
  BY <1>1, <1>4

\* A row whose value changes moves the sum by the difference.
LEMMA SumChange ==
    ASSUME NEW S, IsFiniteSet(S), NEW f, NEW g, NEW x \in S,
           \A y \in S : f[y] \in Int /\ g[y] \in Int,
           \A y \in S \ {x} : f[y] = g[y]
    PROVE  SumFunctionOnSet(g, S) = SumFunctionOnSet(f, S) + (g[x] - f[x])
<1>1. IsFiniteSet(S \ {x})
  BY FS_Subset
<1>2. SumFunctionOnSet(f, S \ {x}) = SumFunctionOnSet(g, S \ {x})
  BY <1>1, SumSame
<1>3. /\ SumFunctionOnSet(f, S) = f[x] + SumFunctionOnSet(f, S \ {x})
      /\ SumFunctionOnSet(g, S) = g[x] + SumFunctionOnSet(g, S \ {x})
  BY SumRemove
<1>4. SumFunctionOnSet(f, S \ {x}) \in Int
  BY <1>1, SumInt
<1> QED
  BY <1>2, <1>3, <1>4

\* Values that are no larger have a sum that is no larger.
LEMMA SumMonotone ==
    ASSUME NEW S, IsFiniteSet(S), NEW f, NEW g,
           \A x \in S : f[x] \in Int /\ g[x] \in Int /\ f[x] <= g[x]
    PROVE  SumFunctionOnSet(f, S) <= SumFunctionOnSet(g, S)
<1> DEFINE A == {n \in Nat : \A T \in SUBSET S : Cardinality(T) = n =>
                     SumFunctionOnSet(f, T) <= SumFunctionOnSet(g, T)}
<1>1. \A T \in SUBSET S : IsFiniteSet(T) /\ Cardinality(T) \in Nat /\ (Cardinality(T) = 0 <=> T = {})
  BY FS_Subset, FS_CardinalityType, FS_EmptySet
<1>2. 0 \in A
  BY <1>1, SumEmpty
<1>3. ASSUME NEW n \in Nat, n \in A
      PROVE  n + 1 \in A
  <2> SUFFICES ASSUME NEW T \in SUBSET S, Cardinality(T) = n + 1
               PROVE  SumFunctionOnSet(f, T) <= SumFunctionOnSet(g, T)
    OBVIOUS
  <2> DEFINE e == CHOOSE z \in T : TRUE
  <2>1. T # {} /\ e \in T
    BY <1>1
  <2>2. /\ SumFunctionOnSet(f, T) = f[e] + SumFunctionOnSet(f, T \ {e})
        /\ SumFunctionOnSet(g, T) = g[e] + SumFunctionOnSet(g, T \ {e})
    BY <1>1, <2>1, SumPick
  <2> HIDE DEF e
  <2>3. Cardinality(T \ {e}) = Cardinality(T) - 1
    BY <1>1, <2>1, FS_RemoveElement
  <2>4. SumFunctionOnSet(f, T \ {e}) <= SumFunctionOnSet(g, T \ {e})
    BY <1>3, <2>3
  <2>5. SumFunctionOnSet(f, T \ {e}) \in Int /\ SumFunctionOnSet(g, T \ {e}) \in Int
    <3>1. IsFiniteSet(T \ {e})
      BY <1>1
    <3> QED
      BY <3>1, SumInt
  <2> QED
    BY <2>1, <2>2, <2>4, <2>5
<1>4. Cardinality(S) \in A
  <2> HIDE DEF A
  <2> QED
    BY <1>1, <1>2, <1>3, NatInductionOnSet
<1> QED
  BY <1>1, <1>4

\* Fewer rows come to no more.
LEMMA SumSubset ==
    ASSUME NEW S, IsFiniteSet(S), NEW T \in SUBSET S, NEW f, \A x \in S : f[x] \in Nat
    PROVE  SumFunctionOnSet(f, T) <= SumFunctionOnSet(f, S)
<1> DEFINE D == S \ T
           F == {U \in SUBSET D : SumFunctionOnSet(f, T) <= SumFunctionOnSet(f, T \cup U)}
<1>1. \A U \in SUBSET S : IsFiniteSet(U) /\ SumFunctionOnSet(f, U) \in Nat
  <2> SUFFICES ASSUME NEW U \in SUBSET S
               PROVE  IsFiniteSet(U) /\ SumFunctionOnSet(f, U) \in Nat
    OBVIOUS
  <2>1. IsFiniteSet(U) /\ \A x \in U : f[x] \in Nat
    BY FS_Subset
  <2> QED
    BY <2>1, SumNat
<1>2. {} \in F
  BY <1>1
<1>3. ASSUME NEW U \in SUBSET D, NEW e \in D \ U, U \in F
      PROVE  U \cup {e} \in F
  <2>1. T \cup (U \cup {e}) = (T \cup U) \cup {e} /\ e \notin T \cup U
    OBVIOUS
  <2>2. IsFiniteSet(T \cup U) /\ \A y \in (T \cup U) \cup {e} : f[y] \in Int
    BY <1>1
  <2>3. SumFunctionOnSet(f, (T \cup U) \cup {e}) = f[e] + SumFunctionOnSet(f, T \cup U)
    BY <2>1, <2>2, SumAdd
  <2>4. SumFunctionOnSet(f, T) \in Nat /\ SumFunctionOnSet(f, T \cup U) \in Nat /\ f[e] \in Nat
    BY <1>1
  <2>5. SumFunctionOnSet(f, T) <= SumFunctionOnSet(f, T \cup (U \cup {e}))
    <3>1. SumFunctionOnSet(f, T) <= SumFunctionOnSet(f, T \cup U)
      BY <1>3
    <3>2. SumFunctionOnSet(f, T \cup (U \cup {e})) = f[e] + SumFunctionOnSet(f, T \cup U)
      BY <2>1, <2>3
    <3> HIDE DEF D, F
    <3> QED
      BY <2>4, <3>1, <3>2
  <2> QED
    BY <2>5
<1>4. D \in F
  <2>1. IsFiniteSet(D) /\ D \in SUBSET D
    BY <1>1
  <2> HIDE DEF F, D
  <2> QED
    BY <1>2, <1>3, <2>1, SetInductionOnSet
<1>5. T \cup D = S
  OBVIOUS
<1> QED
  BY <1>4, <1>5

-----------------------------------------------------------------------------
(* The largest element of a set of numbers, which folds over a sequence    *)
(* begin with.                                                             *)

LEMMA MaxIs ==
  ASSUME NEW S, S \subseteq Nat, NEW m \in S, \A x \in S : x <= m
  PROVE  Max(S) = m
<1>1. \A y \in S : (\A x \in S : y >= x) <=> y = m
  OBVIOUS
<1> QED
  BY <1>1 DEF Max

LEMMA MaxExists ==
  ASSUME NEW n \in Nat, NEW S, S \subseteq 0..n, S # {}
  PROVE  Max(S) \in S /\ \A x \in S : x <= Max(S)
<1> DEFINE Below == {y \in 0..n : n - y \in S}
<1>0. ASSUME NEW x \in S PROVE n - x \in 0..n /\ n - (n - x) = x
  OBVIOUS
<1>1. Below \subseteq Nat /\ Below # {}
  <2>1. PICK x : x \in S
    OBVIOUS
  <2>2. n - x \in Below
    BY <1>0, <2>1
  <2> QED
    BY <2>2
<1>2. PICK least \in Below : \A b \in Below : <<b, least>> \notin LessThan
  <2> HIDE DEF Below
  <2> QED
    BY <1>1, WFMin, LessThanWellFounded
<1>3. PICK m \in S : least = n - m
  <2>1. n - least \in S /\ n - (n - least) = least
    OBVIOUS
  <2> QED
    BY <2>1
<1>4. ASSUME NEW x \in S PROVE x <= m
  <2>1. n - x \in Below /\ n - x \in Nat /\ n - m \in Nat
    BY <1>0
  <2>2. <<n - x, n - m>> \notin LessThan
    BY <1>2, <1>3, <2>1
  <2>3. ~(n - x < n - m)
    BY <2>1, <2>2 DEF LessThan
  <2> QED
    BY <2>1, <2>3
<1>5. S \subseteq Nat
  OBVIOUS
<1>6. Max(S) = m
  BY <1>4, <1>5, MaxIs
<1> QED
  BY <1>4, <1>6

\* The values a function takes on a finite set.
LEMMA ImageFinite ==
    ASSUME NEW S, IsFiniteSet(S), NEW key
    PROVE  IsFiniteSet({key[i] : i \in S})
<1> DEFINE T == {key[i] : i \in S}
           f == [i \in S |-> key[i]]
<1>1. f \in [S -> T] /\ \A t \in T : \E i \in S : f[i] = t
  OBVIOUS
<1>2. f \in Surjection(S, T)
  <2> HIDE DEF f, T
  <2> QED
    BY <1>1 DEF Surjection
<1> HIDE DEF f
<1> QED
  BY <1>2, FS_Surjection

\* Counted by a key, or all together: the counts of the keys add up.
LEMMA SumByKey ==
    ASSUME NEW R, IsFiniteSet(R), NEW K, IsFiniteSet(K), NEW key, \A i \in R : key[i] \in K,
           NEW T \in SUBSET R
    PROVE  SumFunctionOnSet([k \in K |-> Cardinality({i \in T : key[i] = k})], K) = Cardinality(T)
<1> DEFINE Count(U) == [k \in K |-> Cardinality({i \in U : key[i] = k})]
           F == {U \in SUBSET R : SumFunctionOnSet(Count(U), K) = Cardinality(U)}
<1>1. \A U \in SUBSET R : IsFiniteSet(U) /\ Cardinality(U) \in Nat
  BY FS_Subset, FS_CardinalityType
<1>2. \A U \in SUBSET R : \A k \in K : Count(U)[k] \in Nat
  <2> SUFFICES ASSUME NEW U \in SUBSET R, NEW k \in K PROVE Count(U)[k] \in Nat
    OBVIOUS
  <2>1. {i \in U : key[i] = k} \in SUBSET R
    OBVIOUS
  <2> QED
    BY <1>1, <2>1
<1>3. {} \in F
  <2>1. \A k \in K : Count({})[k] = 0
    <3> SUFFICES ASSUME NEW k \in K PROVE Count({})[k] = 0
      OBVIOUS
    <3>1. {i \in {} : key[i] = k} = {}
      OBVIOUS
    <3> QED
      BY <3>1, FS_EmptySet
  <2> DEFINE Zero == {0}
             c == Count({})
  <2>2. 0 \in Zero /\ (\A a, b \in Zero : a + b \in Zero) /\ \A k \in K : c[k] \in Zero
    BY <2>1
  <2>3. SumFunctionOnSet(c, K) \in Zero
    <3> HIDE DEF Zero, c
    <3> QED
      BY <2>2, SumType
  <2> QED
    BY <2>3, FS_EmptySet
<1>4. ASSUME NEW U \in SUBSET R, NEW e \in R \ U, U \in F
      PROVE  U \cup {e} \in F
  <2> DEFINE V == U \cup {e}
             old == Count(U)
             new == Count(V)
             x == key[e]
  <2>1. x \in K
    OBVIOUS
  <2>2. ASSUME NEW k \in K PROVE new[k] = IF k = x THEN old[k] + 1 ELSE old[k]
    <3> DEFINE A == {i \in U : key[i] = k}
    <3>1. {i \in V : key[i] = k} = IF k = x THEN A \cup {e} ELSE A
      OBVIOUS
    <3>2. IsFiniteSet(A) /\ e \notin A
      <4>1. A \in SUBSET R
        OBVIOUS
      <4> QED
        BY <1>1, <4>1
    <3>3. Cardinality(A \cup {e}) = Cardinality(A) + 1
      <4> HIDE DEF A
      <4> QED
        BY <3>2, FS_AddElement
    <3> QED
      BY <3>1, <3>3
  <2>3. \A k \in K : old[k] \in Int /\ new[k] \in Int
    <3>1. V \in SUBSET R
      OBVIOUS
    <3> HIDE DEF V
    <3>2. \A k \in K : old[k] \in Nat /\ new[k] \in Nat
      BY <1>2, <3>1
    <3> HIDE DEF old, new
    <3> QED
      BY <3>2
  <2>4. SumFunctionOnSet(old, K) = Cardinality(U)
    BY <1>4
  <2>5. Cardinality(V) = Cardinality(U) + 1 /\ Cardinality(U) \in Nat
    BY <1>1, FS_AddElement
  <2>6. V \in SUBSET R
    OBVIOUS
  <2>7. SumFunctionOnSet(new, K) = SumFunctionOnSet(old, K) + (new[x] - old[x])
    <3> HIDE DEF old, new, x
    <3> QED
      BY <2>1, <2>2, <2>3, SumChange
  <2>8. SumFunctionOnSet(new, K) = Cardinality(V)
    <3> HIDE DEF old, new, x, V
    <3> QED
      BY <2>1, <2>2, <2>3, <2>4, <2>5, <2>7
  <2> QED
    BY <2>6, <2>8
<1>5. T \in F
  <2> HIDE DEF F
  <2> QED
    BY <1>3, <1>4, SetInductionOnSet
<1> QED
  BY <1>5
=============================================================================
