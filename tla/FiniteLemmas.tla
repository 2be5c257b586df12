---------------------------- MODULE FiniteLemmas ----------------------------
(***************************************************************************)
(* Lemmas about numbers, finite sets and sums that the proofs of several   *)
(* components rest on.  Each is proved from the least counterexample: the  *)
(* naturals, and the subsets of a finite set, are well-founded.            *)
(***************************************************************************)
EXTENDS Integers, Selection, Functions, FiniteSetTheorems, TLAPS

-----------------------------------------------------------------------------
(* Least and greatest *)

LEMMA LeastNumber ==
  ASSUME NEW T \in SUBSET Nat, T # {}
  PROVE  \E m \in T : \A k \in T : m <= k
<1> DEFINE R == {ss \in Nat \X Nat : ss[1] < ss[2]}
<1>1. IsWellFoundedOn(R, Nat)
  BY NatLessThanWellFounded DEF OpToRel
<1>2. \A x, y \in T : x < y => <<x, y>> \in R
  OBVIOUS
<1> HIDE DEF R
<1>3. \E x \in T : \A y \in T : ~ (<<y, x>> \in R)
  BY <1>1, WFMin
<1>4. \A x, y \in T : ~ (y < x) => x <= y
  OBVIOUS
<1> QED
  BY <1>2, <1>3, <1>4

(* A collection of subsets of a finite set has a minimal one. *)
LEMMA MinimalSubset ==
  ASSUME NEW S, IsFiniteSet(S), NEW C \in SUBSET (SUBSET S), C # {}
  PROVE  \E T \in C : \A U \in C : U \subseteq T => U = T
<1> DEFINE R == StrictSubsetOrdering(S)
<1>1. IsWellFoundedOn(R, SUBSET S)
  BY FS_StrictSubsetOrderingWellFounded, FS_FiniteSubsetsOfFinite
<1>2. \A T, U \in C : U \subseteq T /\ U # T => <<U, T>> \in R
  BY DEF StrictSubsetOrdering
<1> HIDE DEF R
<1>3. \E T \in C : \A U \in C : ~ (<<U, T>> \in R)
  BY <1>1, WFMin
<1> QED
  BY <1>2, <1>3

(* A finite set has a greatest element in any strict order R, of which it   *)
(* need not be total: none is above it.                                     *)
LEMMA MaximalElement ==
  ASSUME NEW S, IsFiniteSet(S), S # {}, NEW R,
         \A x \in S : <<x, x>> \notin R,
         \A x, y, z \in S : <<x, y>> \in R /\ <<y, z>> \in R => <<x, z>> \in R
  PROVE  \E m \in S : \A y \in S : <<m, y>> \notin R
<1> DEFINE Top(T) == \E m \in T : \A y \in T : <<m, y>> \notin R
           C == {T \in SUBSET S : T # {} /\ ~Top(T)}
<1>1. ASSUME C # {} PROVE FALSE
  <2> HIDE DEF C
  <2>1. C \in SUBSET (SUBSET S)
    BY DEF C
  <2>2. PICK T \in C : \A U \in C : U \subseteq T => U = T
    BY <1>1, <2>1, MinimalSubset
  <2>3. T \subseteq S /\ T # {} /\ ~Top(T)
    BY <2>2 DEF C
  <2>4. PICK x \in T : TRUE
    BY <2>3
  <2> DEFINE above == {y \in T : <<x, y>> \in R}
  <2>5. above # {}
    BY <2>3, <2>4
  <2>6. x \notin above /\ above \subseteq T /\ above \subseteq S
    BY <2>3, <2>4
  <2>7. Top(above)
    <3> HIDE DEF Top, above
    <3>1. above \notin C
      BY <2>2, <2>4, <2>6
    <3> QED
      BY <2>5, <2>6, <3>1 DEF C
  <2>8. PICK m \in above : \A y \in above : <<m, y>> \notin R
    BY <2>7
  <2>9. \A y \in T : <<m, y>> \notin R
    BY <2>3, <2>4, <2>8
  <2> QED
    BY <2>3, <2>8, <2>9
<1>2. S \notin C
  BY <1>1
<1> QED
  BY <1>2

(* Max, of integers. *)
LEMMA GreatestNumber ==
  ASSUME NEW S \in SUBSET Int, IsFiniteSet(S), S # {}
  PROVE  \E m \in S : \A x \in S : m >= x
<1> DEFINE R == {p \in Int \X Int : p[1] < p[2]}
<1>1. /\ \A x \in S : <<x, x>> \notin R
      /\ \A x, y, z \in S : <<x, y>> \in R /\ <<y, z>> \in R => <<x, z>> \in R
  OBVIOUS
<1>2. \A m, y \in S : <<m, y>> \notin R => m >= y
  OBVIOUS
<1> HIDE DEF R
<1>3. \E m \in S : \A y \in S : <<m, y>> \notin R
  BY <1>1, MaximalElement
<1> QED
  BY <1>2, <1>3
-----------------------------------------------------------------------------
(* Sizes *)

LEMMA IntervalSize ==
  ASSUME NEW a \in Int, NEW b \in Int, a <= b + 1
  PROVE  IsFiniteSet(a..b) /\ Cardinality(a..b) = b - a + 1
<1>1. IsFiniteSet(a..b)
  BY FS_Interval
<1>2. CASE a <= b
  <2>1. ~(a > b)
    BY <1>2
  <2>2. Cardinality(a..b) = IF a > b THEN 0 ELSE b - a + 1
    BY FS_Interval
  <2> QED
    BY <1>1, <2>1, <2>2
<1>3. CASE a = b + 1
  <2>1. a > b /\ b - a + 1 = 0
    BY <1>3
  <2>2. Cardinality(a..b) = IF a > b THEN 0 ELSE b - a + 1
    BY FS_Interval
  <2> QED
    BY <1>1, <2>1, <2>2
<1> QED
  BY <1>2, <1>3

LEMMA SubsetSize ==
  ASSUME NEW S, IsFiniteSet(S), NEW T, T \subseteq S
  PROVE  /\ IsFiniteSet(T) /\ Cardinality(T) \in Nat /\ Cardinality(S) \in Nat
         /\ Cardinality(T) <= Cardinality(S)
<1>1. IsFiniteSet(T)
  BY FS_Subset
<1>2. Cardinality(T) <= Cardinality(S)
  BY FS_Subset
<1> QED
  BY <1>1, <1>2, FS_CardinalityType

-----------------------------------------------------------------------------
(* Sums: SumFunctionOnSet(f, S) takes the elements of S in an order that    *)
(* CHOOSE decides, which makes no difference.                               *)

Picked(s) == CHOOSE x \in s : TRUE

(* What the recursive function of the fold does with g for its values. *)
Added(f, D, g) ==
    [s \in D |-> IF s = {} THEN 0 ELSE f[Picked(s)] + g[s \ {Picked(s)}]]

IsSum(f, S, g) == g = Added(f, SUBSET S, g)

LEMMA SumUnfolds ==
  ASSUME NEW f, NEW S
  PROVE  SumFunctionOnSet(f, S) = (CHOOSE g : g = Added(f, SUBSET S, g))[S]
BY DEF SumFunctionOnSet, FoldFunctionOnSet, MapThenFoldSet, Added, Picked

LEMMA PickedOf ==
  ASSUME NEW s, s # {}
  PROVE  Picked(s) \in s
BY DEF Picked

(* The recursion is well-defined: by the size of the subsets. *)
LEMMA SumExists ==
  ASSUME NEW f, NEW S, IsFiniteSet(S)
  PROVE  \E g : g = Added(f, SUBSET S, g)
<1> DEFINE Up(n) == {s \in SUBSET S : Cardinality(s) <= n}
           Works(n) == \E g : g = Added(f, Up(n), g)
           B == {n \in Nat : ~Works(n)}
<1>1. \A s \in SUBSET S : IsFiniteSet(s) /\ Cardinality(s) \in Nat
  BY FS_Subset, FS_CardinalityType
<1>2. Works(0)
  <2> DEFINE g == [s \in Up(0) |-> 0]
  <2>1. \A s \in Up(0) : s = {}
    BY <1>1, FS_EmptySet
  <2>2. g = Added(f, Up(0), g)
    BY <2>1 DEF Added
  <2> QED
    BY <2>2
<1>3. ASSUME NEW n \in Nat, Works(n) PROVE Works(n + 1)
  <2>1. PICK g : g = Added(f, Up(n), g)
    BY <1>3
  <2> DEFINE h == Added(f, Up(n + 1), g)
  <2>2. ASSUME NEW s \in Up(n + 1), s # {}
        PROVE  s \ {Picked(s)} \in Up(n)
    <3>1. Picked(s) \in s
      BY <2>2, PickedOf
    <3>2. Cardinality(s \ {Picked(s)}) = Cardinality(s) - 1
      BY <1>1, <3>1, FS_RemoveElement
    <3> QED
      BY <1>1, <3>2
  <2>3. ASSUME NEW t \in Up(n) PROVE h[t] = g[t]
    <3>1. t \in Up(n + 1)
      BY <1>1
    <3> HIDE DEF Up
    <3>2. h[t] = IF t = {} THEN 0 ELSE f[Picked(t)] + g[t \ {Picked(t)}]
      BY <3>1 DEF Added
    <3>3. Added(f, Up(n), g)[t] = IF t = {} THEN 0 ELSE f[Picked(t)] + g[t \ {Picked(t)}]
      BY DEF Added
    <3> HIDE DEF h
    <3> QED
      BY <2>1, <3>2, <3>3
  <2>4. h = Added(f, Up(n + 1), h)
    <3>1. \A s \in Up(n + 1) : s # {} => h[s \ {Picked(s)}] = g[s \ {Picked(s)}]
      BY <2>2, <2>3
    <3> HIDE DEF Up
    <3>2. h = [s \in Up(n + 1) |-> IF s = {} THEN 0 ELSE f[Picked(s)] + g[s \ {Picked(s)}]]
      BY DEF Added
    <3>3. Added(f, Up(n + 1), h)
            = [s \in Up(n + 1) |-> IF s = {} THEN 0 ELSE f[Picked(s)] + h[s \ {Picked(s)}]]
      BY DEF Added
    <3> HIDE DEF h
    <3> QED
      BY <3>1, <3>2, <3>3
  <2> HIDE DEF h
  <2> QED
    BY <2>4
<1>4. B = {}
  <2> HIDE DEF Works
  <2>1. SUFFICES ASSUME B # {} PROVE FALSE
    OBVIOUS
  <2>2. PICK n \in B : \A k \in B : n <= k
    BY <2>1, LeastNumber
  <2>3. n \in Nat /\ n # 0 /\ ~Works(n)
    BY <1>2, <2>2
  <2>4. n - 1 \in Nat /\ n - 1 \notin B /\ (n - 1) + 1 = n
    BY <2>2, <2>3
  <2> QED
    BY <1>3, <2>3, <2>4
<1>5. Up(Cardinality(S)) = SUBSET S
  BY <1>1, FS_Subset
<1>6. Works(Cardinality(S))
  <2> HIDE DEF Works
  <2> QED
    BY <1>1, <1>4
<1> QED
  BY <1>5, <1>6

(* Two such functions agree where both are defined. *)
LEMMA SumUnique ==
  ASSUME NEW f, NEW S, IsFiniteSet(S), NEW T, T \subseteq S,
         NEW g, IsSum(f, S, g), NEW h, IsSum(f, T, h)
  PROVE  g[T] = h[T]
<1> DEFINE C == {s \in SUBSET T : g[s] # h[s]}
<1>1. SUFFICES ASSUME C # {} PROVE FALSE
  BY <1>1
<1>2. PICK s \in C : \A u \in C : u \subseteq s => u = s
  <2>1. IsFiniteSet(T)
    BY FS_Subset
  <2>2. C \in SUBSET (SUBSET T)
    OBVIOUS
  <2> HIDE DEF C
  <2> QED
    BY <1>1, <2>1, <2>2, MinimalSubset
<1>3. /\ g[s] = IF s = {} THEN 0 ELSE f[Picked(s)] + g[s \ {Picked(s)}]
      /\ h[s] = IF s = {} THEN 0 ELSE f[Picked(s)] + h[s \ {Picked(s)}]
  <2>1. s \in SUBSET S /\ s \in SUBSET T
    BY <1>2
  <2>2. /\ Added(f, SUBSET S, g)[s] = IF s = {} THEN 0 ELSE f[Picked(s)] + g[s \ {Picked(s)}]
        /\ Added(f, SUBSET T, h)[s] = IF s = {} THEN 0 ELSE f[Picked(s)] + h[s \ {Picked(s)}]
    BY <2>1 DEF Added
  <2> QED
    BY <2>2 DEF IsSum
<1>4. s # {}
  BY <1>2, <1>3
<1>5. s \ {Picked(s)} \notin C
  BY <1>2, <1>4, PickedOf
<1>6. g[s \ {Picked(s)}] = h[s \ {Picked(s)}]
  BY <1>2, <1>5
<1> QED
  BY <1>2, <1>3, <1>6

LEMMA SumIsFold ==
  ASSUME NEW f, NEW S, IsFiniteSet(S)
  PROVE  \E g : IsSum(f, S, g) /\ SumFunctionOnSet(f, S) = g[S]
BY SumExists, SumUnfolds DEF IsSum

LEMMA SumOfNone ==
  ASSUME NEW f
  PROVE  SumFunctionOnSet(f, {}) = 0
<1>1. PICK g : IsSum(f, {}, g) /\ SumFunctionOnSet(f, {}) = g[{}]
  BY SumIsFold, FS_EmptySet
<1>2. Added(f, SUBSET {}, g)[{}] = 0
  BY DEF Added
<1> QED
  BY <1>1, <1>2 DEF IsSum

LEMMA SumOfAny ==
  ASSUME NEW f, NEW S, IsFiniteSet(S), S # {}
  PROVE  SumFunctionOnSet(f, S) = f[Picked(S)] + SumFunctionOnSet(f, S \ {Picked(S)})
<1>1. PICK T : T = S \ {Picked(S)}
  OBVIOUS
<1>2. T \subseteq S /\ IsFiniteSet(T)
  BY <1>1, FS_Subset
<1>3. PICK g : IsSum(f, S, g) /\ SumFunctionOnSet(f, S) = g[S]
  BY SumIsFold
<1>4. PICK h : IsSum(f, T, h) /\ SumFunctionOnSet(f, T) = h[T]
  BY <1>2, SumIsFold
<1>5. g[T] = h[T]
  BY <1>2, <1>3, <1>4, SumUnique
<1>6. Added(f, SUBSET S, g)[S] = f[Picked(S)] + g[T]
  BY <1>1 DEF Added
<1>7. g[S] = f[Picked(S)] + g[T]
  BY <1>3, <1>6 DEF IsSum
<1> QED
  BY <1>1, <1>3, <1>4, <1>5, <1>7

LEMMA SumIsInt ==
  ASSUME NEW S, IsFiniteSet(S), NEW f, \A x \in S : f[x] \in Int
  PROVE  SumFunctionOnSet(f, S) \in Int
<1> DEFINE C == {s \in SUBSET S : SumFunctionOnSet(f, s) \notin Int}
<1>1. SUFFICES ASSUME C # {} PROVE FALSE
  BY <1>1
<1>2. PICK s \in C : \A u \in C : u \subseteq s => u = s
  <2>1. C \in SUBSET (SUBSET S)
    OBVIOUS
  <2> HIDE DEF C
  <2> QED
    BY <1>1, <2>1, MinimalSubset
<1>3. s # {} /\ IsFiniteSet(s) /\ s \subseteq S /\ SumFunctionOnSet(f, s) \notin Int
  <2>1. SumFunctionOnSet(f, {}) \in Int
    BY SumOfNone
  <2>2. s \subseteq S /\ SumFunctionOnSet(f, s) \notin Int
    BY <1>2
  <2> QED
    BY <2>1, <2>2, FS_Subset
<1>4. Picked(s) \in s
  BY <1>3, PickedOf
<1>5. s \ {Picked(s)} \notin C
  BY <1>2, <1>4
<1>6. SumFunctionOnSet(f, s \ {Picked(s)}) \in Int /\ f[Picked(s)] \in Int
  BY <1>3, <1>4, <1>5
<1>7. SumFunctionOnSet(f, s) = f[Picked(s)] + SumFunctionOnSet(f, s \ {Picked(s)})
  BY <1>3, SumOfAny
<1> QED
  BY <1>3, <1>6, <1>7

(* Whichever element is taken out, what is left is the rest of the sum. *)
LEMMA SumWithout ==
  ASSUME NEW S, IsFiniteSet(S), NEW f, \A x \in S : f[x] \in Int, NEW e \in S
  PROVE  SumFunctionOnSet(f, S) = f[e] + SumFunctionOnSet(f, S \ {e})
<1> DEFINE Right(s) == \A x \in s : SumFunctionOnSet(f, s)
                                      = f[x] + SumFunctionOnSet(f, s \ {x})
           C == {s \in SUBSET S : ~Right(s)}
<1>1. SUFFICES ASSUME C # {} PROVE FALSE
  <2>1. Right(S)
    BY <1>1
  <2> QED
    BY <2>1
<1>2. PICK s \in C : \A u \in C : u \subseteq s => u = s
  <2>1. C \in SUBSET (SUBSET S)
    OBVIOUS
  <2> HIDE DEF C
  <2> QED
    BY <1>1, <2>1, MinimalSubset
<1>3. PICK x \in s : SumFunctionOnSet(f, s) # f[x] + SumFunctionOnSet(f, s \ {x})
  BY <1>2
<1> DEFINE a == Picked(s)
<1>4. IsFiniteSet(s) /\ s \subseteq S /\ a \in s
  BY <1>2, <1>3, PickedOf, FS_Subset
<1>5. SumFunctionOnSet(f, s) = f[a] + SumFunctionOnSet(f, s \ {a})
  BY <1>3, <1>4, SumOfAny
<1>6. a # x
  BY <1>3, <1>5
<1>7. Right(s \ {a}) /\ Right(s \ {x})
  BY <1>2, <1>3, <1>4
<1> DEFINE both == (s \ {a}) \ {x}
<1>8. both = (s \ {x}) \ {a}
  OBVIOUS
<1>9. /\ SumFunctionOnSet(f, s \ {a}) = f[x] + SumFunctionOnSet(f, both)
      /\ SumFunctionOnSet(f, s \ {x}) = f[a] + SumFunctionOnSet(f, both)
  BY <1>3, <1>4, <1>6, <1>7, <1>8
<1>10. f[a] \in Int /\ f[x] \in Int /\ SumFunctionOnSet(f, both) \in Int
  <2>1. IsFiniteSet(both) /\ both \subseteq S
    BY <1>4, FS_Subset
  <2> QED
    BY <1>3, <1>4, <2>1, SumIsInt
<1> HIDE DEF a, both
<1> QED
  BY <1>3, <1>5, <1>9, <1>10

(* Sums of two sets that share nothing. *)
LEMMA SumOfUnion ==
  ASSUME NEW S, IsFiniteSet(S), NEW T, IsFiniteSet(T), S \cap T = {},
         NEW f, \A x \in S \cup T : f[x] \in Int
  PROVE  SumFunctionOnSet(f, S \cup T) = SumFunctionOnSet(f, S) + SumFunctionOnSet(f, T)
<1> DEFINE C == {s \in SUBSET S : SumFunctionOnSet(f, s \cup T)
                                    # SumFunctionOnSet(f, s) + SumFunctionOnSet(f, T)}
<1>1. SUFFICES ASSUME C # {} PROVE FALSE
  BY <1>1
<1>2. PICK s \in C : \A u \in C : u \subseteq s => u = s
  <2>1. C \in SUBSET (SUBSET S)
    OBVIOUS
  <2> HIDE DEF C
  <2> QED
    BY <1>1, <2>1, MinimalSubset
<1>3. s \subseteq S /\ IsFiniteSet(s) /\ IsFiniteSet(s \cup T)
  BY <1>2, FS_Subset, FS_Union
<1>4. SumFunctionOnSet(f, T) \in Int
  BY SumIsInt
<1>5. s # {}
  <2>1. SumFunctionOnSet(f, {} \cup T) = 0 + SumFunctionOnSet(f, T)
    BY <1>4
  <2> QED
    BY <1>2, <2>1, SumOfNone
<1>6. PICK x \in s : TRUE
  BY <1>5
<1> DEFINE r == s \ {x}
<1>7. r \notin C
  BY <1>2, <1>6
<1>8. SumFunctionOnSet(f, r \cup T) = SumFunctionOnSet(f, r) + SumFunctionOnSet(f, T)
  BY <1>3, <1>7
<1>9. (s \cup T) \ {x} = r \cup T
  BY <1>3, <1>6
<1>10. SumFunctionOnSet(f, s \cup T) = f[x] + SumFunctionOnSet(f, r \cup T)
  <2>1. \A y \in s \cup T : f[y] \in Int
    BY <1>3
  <2>2. SumFunctionOnSet(f, s \cup T) = f[x] + SumFunctionOnSet(f, (s \cup T) \ {x})
    BY <1>3, <1>6, <2>1, SumWithout
  <2> QED
    BY <1>9, <2>2
<1>11. SumFunctionOnSet(f, s) = f[x] + SumFunctionOnSet(f, r)
  BY <1>3, <1>6, SumWithout
<1>12. f[x] \in Int /\ SumFunctionOnSet(f, r) \in Int
  <2>1. IsFiniteSet(r) /\ r \subseteq S
    BY <1>3, FS_Subset
  <2> QED
    BY <1>3, <1>6, <2>1, SumIsInt
<1> HIDE DEF r
<1> QED
  BY <1>2, <1>4, <1>8, <1>10, <1>11, <1>12

LEMMA SumIsNat ==
  ASSUME NEW S, IsFiniteSet(S), NEW f, \A x \in S : f[x] \in Nat
  PROVE  SumFunctionOnSet(f, S) \in Nat
<1> DEFINE C == {s \in SUBSET S : SumFunctionOnSet(f, s) \notin Nat}
<1>1. SUFFICES ASSUME C # {} PROVE FALSE
  BY <1>1
<1>2. PICK s \in C : \A u \in C : u \subseteq s => u = s
  <2>1. C \in SUBSET (SUBSET S)
    OBVIOUS
  <2> HIDE DEF C
  <2> QED
    BY <1>1, <2>1, MinimalSubset
<1>3. s # {} /\ IsFiniteSet(s) /\ s \subseteq S /\ SumFunctionOnSet(f, s) \notin Nat
  <2>1. SumFunctionOnSet(f, {}) \in Nat
    BY SumOfNone
  <2>2. s \subseteq S /\ SumFunctionOnSet(f, s) \notin Nat
    BY <1>2
  <2> QED
    BY <2>1, <2>2, FS_Subset
<1>4. Picked(s) \in s
  BY <1>3, PickedOf
<1>5. s \ {Picked(s)} \notin C
  BY <1>2, <1>4
<1>6. SumFunctionOnSet(f, s \ {Picked(s)}) \in Nat /\ f[Picked(s)] \in Nat
  BY <1>3, <1>4, <1>5
<1>7. SumFunctionOnSet(f, s) = f[Picked(s)] + SumFunctionOnSet(f, s \ {Picked(s)})
  BY <1>3, SumOfAny
<1> QED
  BY <1>3, <1>6, <1>7

(* A sum depends on the values it adds alone. *)
LEMMA SameSum ==
  ASSUME NEW S, IsFiniteSet(S), NEW f, NEW g, \A x \in S : f[x] = g[x]
  PROVE  SumFunctionOnSet(f, S) = SumFunctionOnSet(g, S)
<1> DEFINE C == {s \in SUBSET S : SumFunctionOnSet(f, s) # SumFunctionOnSet(g, s)}
<1>1. SUFFICES ASSUME C # {} PROVE FALSE
  BY <1>1
<1>2. PICK s \in C : \A u \in C : u \subseteq s => u = s
  <2>1. C \in SUBSET (SUBSET S)
    OBVIOUS
  <2> HIDE DEF C
  <2> QED
    BY <1>1, <2>1, MinimalSubset
<1>3. s # {} /\ IsFiniteSet(s) /\ s \subseteq S
  BY <1>2, SumOfNone, FS_Subset
<1>4. Picked(s) \in s
  BY <1>3, PickedOf
<1>5. s \ {Picked(s)} \notin C
  BY <1>2, <1>4
<1>6. SumFunctionOnSet(f, s \ {Picked(s)}) = SumFunctionOnSet(g, s \ {Picked(s)})
  BY <1>3, <1>5
<1>7. /\ SumFunctionOnSet(f, s) = f[Picked(s)] + SumFunctionOnSet(f, s \ {Picked(s)})
      /\ SumFunctionOnSet(g, s) = g[Picked(s)] + SumFunctionOnSet(g, s \ {Picked(s)})
  BY <1>3, SumOfAny
<1> QED
  BY <1>2, <1>3, <1>4, <1>6, <1>7

(* The places of what is added make no difference. *)
LEMMA ShiftedSum ==
  ASSUME NEW m \in Nat, NEW n \in Nat, NEW f, NEW g,
         \A i \in 1..n : g[i] \in Int /\ f[m + i] = g[i]
  PROVE  SumFunctionOnSet(f, (m + 1)..(m + n)) = SumFunctionOnSet(g, 1..n)
<1> DEFINE Same(k) == SumFunctionOnSet(f, (m + 1)..(m + k)) = SumFunctionOnSet(g, 1..k)
           T == {k \in 0..n : ~Same(k)}
<1> SUFFICES ASSUME ~Same(n) PROVE FALSE
  OBVIOUS
<1>1. PICK k \in T : \A x \in T : k <= x
  <2>1. n \in T /\ T \in SUBSET Nat
    OBVIOUS
  <2> HIDE DEF T
  <2> QED
    BY <2>1, LeastNumber
<1>2. k \in 0..n /\ k \in Nat /\ ~Same(k)
  BY <1>1
<1>3. k # 0
  <2>1. (m + 1)..(m + 0) = {} /\ 1..0 = {}
    OBVIOUS
  <2>2. Same(0)
    BY <2>1, SumOfNone
  <2> QED
    BY <1>2, <2>2
<1>4. k - 1 \in 0..n /\ ~(k <= k - 1) /\ k \in 1..n
  BY <1>2, <1>3
<1>5. Same(k - 1)
  BY <1>1, <1>4
<1> HIDE DEF T
<1> DEFINE A == (m + 1)..(m + k)
           B == 1..k
<1>6. /\ m + k \in A /\ A \ {m + k} = (m + 1)..(m + (k - 1))
      /\ k \in B /\ B \ {k} = 1..(k - 1)
  <2>1. \A e \in Int, x \in Int : x \in e..(e + k - 1) =>
          x = e + k - 1 \/ x \in e..(e + k - 1 - 1)
    BY <1>2
  <2>2. m + k \in A /\ A \ {m + k} = (m + 1)..(m + (k - 1))
    BY <1>2, <1>4, <2>1
  <2>3. k \in B /\ B \ {k} = 1..(k - 1)
    BY <1>2, <1>4, <2>1
  <2> QED
    BY <2>2, <2>3
<1>7. IsFiniteSet(A) /\ IsFiniteSet(B)
  <2>1. m + 1 \in Int /\ m + k \in Int /\ 1 \in Int /\ k \in Int
    BY <1>2
  <2> QED
    BY <2>1, FS_Interval
<1>8. (\A x \in A : f[x] \in Int) /\ \A x \in B : g[x] \in Int
  <2>1. ASSUME NEW x \in A PROVE f[x] \in Int
    <3>1. x - m \in 1..n /\ m + (x - m) = x
      BY <1>2
    <3> QED
      BY <3>1
  <2>2. \A x \in B : x \in 1..n
    BY <1>2
  <2> QED
    BY <2>1, <2>2
<1> HIDE DEF A, B
<1>9. /\ SumFunctionOnSet(f, A) = f[m + k] + SumFunctionOnSet(f, A \ {m + k})
      /\ SumFunctionOnSet(g, B) = g[k] + SumFunctionOnSet(g, B \ {k})
  BY <1>6, <1>7, <1>8, SumWithout
<1>10. f[m + k] = g[k]
  BY <1>4
<1>11. SumFunctionOnSet(f, A) = SumFunctionOnSet(g, B)
  BY <1>5, <1>6, <1>9, <1>10
<1> QED
  BY <1>2, <1>11 DEF A, B

-----------------------------------------------------------------------------
(* Selections *)

(* The elements of a finite set of numbers are its first to its last.      *)
LEMMA NthIs ==
  ASSUME NEW S \in SUBSET Nat, IsFiniteSet(S), NEW n \in 1..Cardinality(S)
  PROVE  Nth(S, n) \in S /\ Cardinality({j \in S : j <= Nth(S, n)}) = n
<1> DEFINE upto(i) == {j \in S : j <= i}
           T == {i \in S : Cardinality(upto(i)) >= n}
<1>1. Cardinality(S) \in Nat /\ n \in Nat \ {0} /\ S # {}
  <2>1. Cardinality(S) \in Nat
    BY FS_CardinalityType
  <2> QED
    BY <2>1, FS_EmptySet
<1>2. \A i : upto(i) \subseteq S /\ IsFiniteSet(upto(i)) /\ Cardinality(upto(i)) \in Nat
  <2> SUFFICES ASSUME NEW i
               PROVE  /\ upto(i) \subseteq S /\ IsFiniteSet(upto(i))
                      /\ Cardinality(upto(i)) \in Nat
    OBVIOUS
  <2>1. upto(i) \subseteq S
    OBVIOUS
  <2> HIDE DEF upto
  <2> QED
    BY <2>1, FS_Subset, FS_CardinalityType
<1>3. T # {}
  <2>1. PICK m \in S : \A k \in S : m >= k
    BY <1>1, GreatestNumber
  <2>2. upto(m) = S
    BY <2>1
  <2> QED
    BY <1>1, <2>1, <2>2
<1>4. PICK m \in T : \A k \in T : m <= k
  <2>1. T \in SUBSET Nat
    OBVIOUS
  <2> HIDE DEF T
  <2> QED
    BY <1>3, <2>1, LeastNumber
<1>5. m \in S /\ m \in Nat /\ Cardinality(upto(m)) >= n
  BY <1>4
<1> DEFINE P == upto(m) \ {m}
<1>6. Cardinality(upto(m)) = Cardinality(P) + 1 /\ IsFiniteSet(P) /\ Cardinality(P) \in Nat
  <2>1. m \in upto(m)
    BY <1>5
  <2>2. IsFiniteSet(upto(m)) /\ Cardinality(upto(m)) \in Nat
    BY <1>2
  <2> HIDE DEF upto, T
  <2>3. IsFiniteSet(P) /\ Cardinality(P) = Cardinality(upto(m)) - 1
    BY <2>1, <2>2, FS_RemoveElement
  <2>4. Cardinality(P) \in Nat
    BY <2>3, FS_CardinalityType
  <2> QED
    BY <2>2, <2>3, <2>4
<1>7. CASE P = {}
  <2>1. Cardinality(upto(m)) = n
    <3> HIDE DEF P, upto, T
    <3> QED
      BY <1>1, <1>5, <1>6, <1>7, FS_EmptySet
  <2> QED
    BY <1>5, <2>1 DEF Nth
<1>8. CASE P # {}
  <2>1. P \in SUBSET Nat
    OBVIOUS
  <2>2. PICK p \in P : \A k \in P : p >= k
    <3> HIDE DEF P
    <3> QED
      BY <1>6, <1>8, <2>1, GreatestNumber
  <2>3. p \in S /\ p \in Nat /\ p < m
    BY <1>5, <2>2
  <2>4. upto(p) = P
    <3>1. \A j \in S : j <= m /\ j # m => j <= p
      BY <2>2
    <3>2. \A j \in S : j <= p => j <= m /\ j # m
      BY <1>5, <2>3
    <3> QED
      BY <3>1, <3>2
  <2>5. ~(Cardinality(upto(p)) >= n)
    <3>1. p \notin T
      BY <1>4, <1>5, <2>3
    <3> QED
      BY <2>3, <3>1
  <2>6. Cardinality(upto(m)) = n
    <3> HIDE DEF P, upto, T
    <3> QED
      BY <1>1, <1>2, <1>5, <1>6, <2>4, <2>5
  <2> QED
    BY <1>5, <2>6 DEF Nth
<1> QED
  BY <1>7, <1>8

(* ... in their order ... *)
LEMMA NthGrows ==
  ASSUME NEW S \in SUBSET Nat, IsFiniteSet(S),
         NEW m \in 1..Cardinality(S), NEW n \in 1..Cardinality(S), m < n
  PROVE  Nth(S, m) < Nth(S, n)
<1> DEFINE a == Nth(S, m)
           b == Nth(S, n)
<1>1. /\ a \in S /\ Cardinality({j \in S : j <= a}) = m
      /\ b \in S /\ Cardinality({j \in S : j <= b}) = n
  BY NthIs
<1> HIDE DEF a, b
<1>2. a \in Nat /\ b \in Nat
  BY <1>1
<1> SUFFICES ASSUME b <= a PROVE FALSE
  BY <1>2 DEF a, b
<1>3. {j \in S : j <= b} \subseteq {j \in S : j <= a} /\ {j \in S : j <= a} \subseteq S
  <2>1. \A j \in S : j <= b => j <= a
    BY <1>2
  <2> QED
    BY <2>1
<1>4. n <= m
  <2>1. IsFiniteSet({j \in S : j <= a})
    BY <1>3, FS_Subset
  <2> QED
    BY <1>1, <1>3, <2>1, FS_Subset
<1> QED
  BY <1>4

(* ... and all of them. *)
LEMMA NthIsAny ==
  ASSUME NEW S \in SUBSET Nat, IsFiniteSet(S), NEW i \in S
  PROVE  \E n \in 1..Cardinality(S) : Nth(S, n) = i
<1> DEFINE upto(k) == {j \in S : j <= k}
           n == Cardinality(upto(i))
<1>1. upto(i) \subseteq S /\ i \in upto(i)
  OBVIOUS
<1>2. IsFiniteSet(upto(i)) /\ n \in Nat /\ Cardinality(S) \in Nat
  <2> HIDE DEF upto
  <2> QED
    BY <1>1, FS_Subset, FS_CardinalityType
<1>3. n <= Cardinality(S) /\ n # 0
  <2> HIDE DEF upto
  <2> QED
    BY <1>1, <1>2, FS_Subset, FS_EmptySet
<1>4. n \in 1..Cardinality(S)
  BY <1>2, <1>3
<1> DEFINE k == Nth(S, n)
<1>5. k \in S /\ Cardinality(upto(k)) = n
  <2> HIDE DEF n
  <2> QED
    BY <1>4, NthIs
<1> HIDE DEF n, k
<1>6. ASSUME NEW x \in S, NEW y \in S, x < y
      PROVE  Cardinality(upto(x)) # Cardinality(upto(y))
  <2>1. upto(x) \subseteq upto(y) \ {y} /\ y \in upto(y) /\ upto(y) \subseteq S
    <3>1. \A j \in S : j <= x => j <= y /\ j # y
      BY <1>6
    <3>2. y <= y
      OBVIOUS
    <3> QED
      BY <3>1, <3>2
  <2> HIDE DEF upto
  <2>2. IsFiniteSet(upto(y)) /\ IsFiniteSet(upto(y) \ {y})
    BY <2>1, FS_Subset, FS_RemoveElement
  <2>3. Cardinality(upto(y) \ {y}) = Cardinality(upto(y)) - 1
    BY <2>1, <2>2, FS_RemoveElement
  <2>4. Cardinality(upto(x)) <= Cardinality(upto(y) \ {y})
    BY <2>1, <2>2, FS_Subset
  <2>5. Cardinality(upto(x)) \in Nat /\ Cardinality(upto(y)) \in Nat
    <3>1. IsFiniteSet(upto(x))
      BY <2>1, <2>2, FS_Subset
    <3> QED
      BY <2>2, <3>1, FS_CardinalityType
  <2> QED
    BY <2>3, <2>4, <2>5
<1>7. k = i
  <2>1. Cardinality(upto(k)) = Cardinality(upto(i))
    BY <1>5 DEF n
  <2>2. ~(k < i) /\ ~(i < k)
    BY <1>5, <1>6, <2>1
  <2>3. k \in Nat /\ i \in Nat
    BY <1>5
  <2> QED
    BY <2>2, <2>3
<1> QED
  BY <1>4, <1>7 DEF k

(* What is selected is a sequence of those values, and has all of them. *)
LEMMA SelectedIs ==
  ASSUME NEW X, NEW n \in Nat, NEW s \in [1..n -> X], NEW places \in SUBSET (1..n)
  PROVE  /\ IsFiniteSet(places) /\ Cardinality(places) \in Nat
         /\ DOMAIN Selected(s, places) = 1..Cardinality(places)
         /\ Selected(s, places) \in Seq(X)
         /\ \A i \in places : \E k \in 1..Cardinality(places) : Selected(s, places)[k] = s[i]
<1>1. IsFiniteSet(places) /\ Cardinality(places) \in Nat /\ places \in SUBSET Nat
  <2>1. IsFiniteSet(1..n) /\ places \subseteq 1..n
    BY FS_Interval
  <2>2. IsFiniteSet(places)
    BY <2>1, FS_Subset
  <2>3. Cardinality(places) \in Nat
    BY <2>2, FS_CardinalityType
  <2> QED
    BY <2>2, <2>3
<1> DEFINE m == Cardinality(places)
<1>2. \A k \in 1..m : Nth(places, k) \in places
  BY <1>1, NthIs
<1>3. \A i \in places : \E k \in 1..m : Nth(places, k) = i
  BY <1>1, NthIsAny
<1> HIDE DEF m
<1>4. Selected(s, places) = [k \in 1..m |-> s[Nth(places, k)]]
  BY DEF Selected, m
<1>5. Selected(s, places) \in [1..m -> X]
  BY <1>2, <1>4
<1>6. m \in Nat
  BY <1>1 DEF m
<1> DEFINE t == Selected(s, places)
<1>7. DOMAIN t = 1..m /\ t \in Seq(X)
  BY <1>4, <1>5, <1>6
<1>8. \A i \in places : \E k \in 1..m : t[k] = s[i]
  BY <1>3, <1>4
<1> HIDE DEF t
<1> QED
  BY <1>1, <1>7, <1>8 DEF m, t
=============================================================================
