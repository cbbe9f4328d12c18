-------------------------------- MODULE Sums --------------------------------
(***************************************************************************)
(* Lemmas that the proofs about the models share: induction on the         *)
(* naturals and on the subsets of a finite set, for a set in the place of  *)
(* a predicate, and sums of the values of a function.                      *)
(***************************************************************************)
EXTENDS Integers, Sequences, FiniteSets, Functions, FiniteSetTheorems, TLAPS

-----------------------------------------------------------------------------
(* Induction.                                                              *)

LEMMA NatSet ==
    ASSUME NEW S, 0 \in S, \A n \in Nat : n \in S => n + 1 \in S
    PROVE  Nat \subseteq S
<1> DEFINE T == Nat \ S
           R == OpToRel(<, Nat)
<1> SUFFICES ASSUME T # {} PROVE FALSE
    OBVIOUS
<1>1. IsWellFoundedOn(R, Nat)
      BY NatLessThanWellFounded
<1>2. \E x \in T : \A y \in T : <<y, x>> \notin R
      <2> HIDE DEF R
      <2>1. T \subseteq Nat
            OBVIOUS
      <2>2. QED BY <1>1, <2>1, WFMin
<1>3. \A x, y \in Nat : y < x => <<y, x>> \in R
      BY DEF OpToRel
<1>4. PICK x \in T : \A y \in T : ~(y < x)
      BY <1>2, <1>3
<1>5. x # 0 /\ x - 1 \in Nat
      OBVIOUS
<1>6. x - 1 \in S
      BY <1>4, <1>5
<1>7. QED BY <1>5, <1>6

LEMMA SubsetInduction ==
    ASSUME NEW S, IsFiniteSet(S), NEW P, {} \in P,
           \A T \in SUBSET S : T # {} /\ (\A x \in T : T \ {x} \in P) => T \in P
    PROVE  SUBSET S \subseteq P
<1> DEFINE Upto == {n \in Nat : \A T \in SUBSET S : Cardinality(T) <= n => T \in P}
<1>1. \A T \in SUBSET S : IsFiniteSet(T) /\ Cardinality(T) \in Nat
      BY FS_Subset, FS_CardinalityType
<1>2. 0 \in Upto
      <2>1. ASSUME NEW T \in SUBSET S, Cardinality(T) <= 0 PROVE T \in P
            <3>1. Cardinality(T) = 0
                  BY <1>1, <2>1
            <3>2. T = {}
                  BY <1>1, <3>1, FS_EmptySet
            <3>3. QED BY <3>2
      <2>2. QED BY <2>1
<1>3. ASSUME NEW n \in Nat, n \in Upto PROVE n + 1 \in Upto
      <2>1. ASSUME NEW T \in SUBSET S, Cardinality(T) <= n + 1 PROVE T \in P
            <3>1. ASSUME NEW x \in T PROVE T \ {x} \in P
                  <4>1. Cardinality(T \ {x}) = Cardinality(T) - 1
                        BY <1>1, FS_RemoveElement
                  <4>2. Cardinality(T \ {x}) <= n
                        BY <1>1, <1>3, <2>1, <4>1
                  <4>3. T \ {x} \in SUBSET S
                        OBVIOUS
                  <4>4. QED BY <1>3, <4>2, <4>3
            <3>2. QED BY <3>1
      <2>2. QED BY <1>3, <2>1
<1>4. Nat \subseteq Upto
      <2> HIDE DEF Upto
      <2>1. QED BY <1>2, <1>3, NatSet
<1>5. ASSUME NEW T \in SUBSET S PROVE T \in P
      <2>1. Cardinality(T) \in Upto /\ Cardinality(T) <= Cardinality(T)
            BY <1>1, <1>4
      <2>2. QED BY <2>1
<1>6. QED BY <1>5

-----------------------------------------------------------------------------
(* The recursive function that SumFunctionOnSet stands for exists.         *)

Pick(s) == CHOOSE x \in s : TRUE

Adds(g, f, s) == g[s] = IF s = {} THEN 0 ELSE f[Pick(s)] + g[s \ {Pick(s)}]

IsSum(g, f, S) == g = [s \in SUBSET S |-> IF s = {} THEN 0 ELSE f[Pick(s)] + g[s \ {Pick(s)}]]

LEMMA SumExists ==
    ASSUME NEW S, IsFiniteSet(S), NEW f
    PROVE  \E g : IsSum(g, f, S)
<1> DEFINE Partial == {n \in Nat : \E g : \A s \in SUBSET S : Cardinality(s) <= n => Adds(g, f, s)}
<1>1. \A s \in SUBSET S : /\ IsFiniteSet(s) /\ Cardinality(s) \in Nat
                          /\ s # {} => /\ Pick(s) \in s
                                       /\ s \ {Pick(s)} \in SUBSET S
                                       /\ Cardinality(s \ {Pick(s)}) = Cardinality(s) - 1
      <2>1. ASSUME NEW s \in SUBSET S PROVE IsFiniteSet(s) /\ Cardinality(s) \in Nat
            BY FS_Subset, FS_CardinalityType
      <2>2. ASSUME NEW s \in SUBSET S, s # {}
            PROVE  /\ Pick(s) \in s /\ s \ {Pick(s)} \in SUBSET S
                   /\ Cardinality(s \ {Pick(s)}) = Cardinality(s) - 1
            <3>1. Pick(s) \in s
                  BY <2>2 DEF Pick
            <3>2. QED BY <2>1, <3>1, FS_RemoveElement
      <2>3. QED BY <2>1, <2>2
<1>2. 0 \in Partial
      <2> DEFINE g == [s \in SUBSET S |-> 0]
      <2>1. ASSUME NEW s \in SUBSET S, Cardinality(s) <= 0 PROVE Adds(g, f, s)
            <3>1. Cardinality(s) \in Nat /\ IsFiniteSet(s)
                  BY <1>1
            <3>2. Cardinality(s) = 0
                  BY <2>1, <3>1
            <3>3. s = {}
                  BY <3>1, <3>2, FS_EmptySet
            <3>4. QED BY <3>3 DEF Adds
      <2>2. QED BY <2>1
<1>3. ASSUME NEW n \in Nat, n \in Partial PROVE n + 1 \in Partial
      <2>1. PICK g : \A s \in SUBSET S : Cardinality(s) <= n => Adds(g, f, s)
            BY <1>3
      <2> DEFINE h == [s \in SUBSET S |->
                          IF Cardinality(s) <= n THEN g[s] ELSE f[Pick(s)] + g[s \ {Pick(s)}]]
      <2>2. ASSUME NEW s \in SUBSET S, Cardinality(s) <= n + 1 PROVE Adds(h, f, s)
            <3>1. CASE s = {}
                  <4>1. Cardinality(s) <= n
                        BY <1>3, <3>1, FS_EmptySet
                  <4>2. QED BY <2>1, <3>1, <4>1 DEF Adds
            <3>2. CASE s # {}
                  <4>1. /\ s \ {Pick(s)} \in SUBSET S /\ Cardinality(s \ {Pick(s)}) <= n
                        BY <1>1, <1>3, <2>2, <3>2
                  <4>2. h[s \ {Pick(s)}] = g[s \ {Pick(s)}]
                        BY <4>1
                  <4>3. h[s] = f[Pick(s)] + g[s \ {Pick(s)}]
                        BY <2>1, <3>2 DEF Adds
                  <4>4. QED BY <3>2, <4>2, <4>3 DEF Adds
            <3>3. QED BY <3>1, <3>2
      <2> HIDE DEF h
      <2>3. QED BY <1>3, <2>2
<1>4. Nat \subseteq Partial
      <2> HIDE DEF Partial
      <2>1. QED BY <1>2, <1>3, NatSet
<1>5. Cardinality(S) \in Nat
      BY FS_CardinalityType
<1>6. PICK g : \A s \in SUBSET S : Cardinality(s) <= Cardinality(S) => Adds(g, f, s)
      BY <1>4, <1>5
<1>7. \A s \in SUBSET S : Adds(g, f, s)
      BY <1>6, FS_Subset
<1> DEFINE h == [s \in SUBSET S |-> g[s]]
<1>8. h = [s \in SUBSET S |-> IF s = {} THEN 0 ELSE f[Pick(s)] + h[s \ {Pick(s)}]]
      <2>1. ASSUME NEW s \in SUBSET S
            PROVE  h[s] = IF s = {} THEN 0 ELSE f[Pick(s)] + h[s \ {Pick(s)}]
            BY <1>7 DEF Adds
      <2>2. QED BY <2>1
<1>9. IsSum(h, f, S)
      <2> HIDE DEF h
      <2>1. QED BY <1>8 DEF IsSum
<1>10. QED BY <1>9

\* A sum over part of the set can be read off the function for the whole.
LEMMA SumOfPart ==
    ASSUME NEW S, IsFiniteSet(S), NEW f, NEW g, IsSum(g, f, S), NEW T \in SUBSET S
    PROVE  g[T] = SumFunctionOnSet(f, T)
<1> DEFINE h == CHOOSE h : IsSum(h, f, T)
           Same == {s \in SUBSET T : g[s] = h[s]}
<1>1. IsFiniteSet(T)
      BY FS_Subset
<1>2. IsSum(h, f, T)
      BY <1>1, SumExists
<1>3. SumFunctionOnSet(f, T) = h[T]
      BY DEF SumFunctionOnSet, FoldFunctionOnSet, MapThenFoldSet, IsSum, Pick
<1> HIDE DEF h
<1>4. /\ \A s \in SUBSET S : g[s] = IF s = {} THEN 0 ELSE f[Pick(s)] + g[s \ {Pick(s)}]
      /\ \A s \in SUBSET T : h[s] = IF s = {} THEN 0 ELSE f[Pick(s)] + h[s \ {Pick(s)}]
      BY <1>2 DEF IsSum
<1>5. {} \in Same
      BY <1>4
<1>6. ASSUME NEW s \in SUBSET T, s # {}, \A x \in s : s \ {x} \in Same PROVE s \in Same
      <2>1. Pick(s) \in s
            BY <1>6 DEF Pick
      <2>2. g[s \ {Pick(s)}] = h[s \ {Pick(s)}]
            BY <1>6, <2>1
      <2>3. QED BY <1>4, <1>6, <2>2
<1>7. SUBSET T \subseteq Same
      <2> HIDE DEF Same
      <2>1. QED BY <1>1, <1>5, <1>6, SubsetInduction
<1>8. QED BY <1>3, <1>7

-----------------------------------------------------------------------------
(* Sums.                                                                   *)

LEMMA SumEmpty ==
    ASSUME NEW f
    PROVE  SumFunctionOnSet(f, {}) = 0
<1>1. IsFiniteSet({})
      BY FS_EmptySet
<1>2. PICK g : IsSum(g, f, {})
      BY <1>1, SumExists
<1>3. g[{}] = 0
      BY <1>2 DEF IsSum
<1>4. g[{}] = SumFunctionOnSet(f, {})
      BY <1>1, <1>2, SumOfPart
<1>5. QED BY <1>3, <1>4

LEMMA SumPicked ==
    ASSUME NEW S, IsFiniteSet(S), S # {}, NEW f
    PROVE  Pick(S) \in S /\ SumFunctionOnSet(f, S) = f[Pick(S)] + SumFunctionOnSet(f, S \ {Pick(S)})
<1>1. Pick(S) \in S
      BY DEF Pick
<1>2. PICK g : IsSum(g, f, S)
      BY SumExists
<1>3. g[S] = f[Pick(S)] + g[S \ {Pick(S)}]
      BY <1>2 DEF IsSum
<1>4. /\ g[S] = SumFunctionOnSet(f, S)
      /\ g[S \ {Pick(S)}] = SumFunctionOnSet(f, S \ {Pick(S)})
      BY <1>2, SumOfPart
<1>5. QED BY <1>1, <1>3, <1>4

LEMMA SumType ==
    ASSUME NEW S, IsFiniteSet(S), NEW f, \A x \in S : f[x] \in Nat
    PROVE  SumFunctionOnSet(f, S) \in Nat
<1> DEFINE Good == {s \in SUBSET S : SumFunctionOnSet(f, s) \in Nat}
<1>1. {} \in Good
      BY SumEmpty
<1>2. ASSUME NEW s \in SUBSET S, s # {}, \A x \in s : s \ {x} \in Good PROVE s \in Good
      <2>1. IsFiniteSet(s)
            BY FS_Subset
      <2>2. Pick(s) \in s /\ SumFunctionOnSet(f, s) = f[Pick(s)] + SumFunctionOnSet(f, s \ {Pick(s)})
            BY <1>2, <2>1, SumPicked
      <2>3. f[Pick(s)] \in Nat /\ SumFunctionOnSet(f, s \ {Pick(s)}) \in Nat
            BY <1>2, <2>2
      <2>4. QED BY <2>2, <2>3
<1>3. SUBSET S \subseteq Good
      <2> HIDE DEF Good
      <2>1. QED BY <1>1, <1>2, SubsetInduction
<1>4. QED BY <1>3

\* Any element may be added last.
LEMMA SumWithout ==
    ASSUME NEW S, IsFiniteSet(S), NEW f, \A x \in S : f[x] \in Nat, NEW y \in S
    PROVE  SumFunctionOnSet(f, S) = f[y] + SumFunctionOnSet(f, S \ {y})
<1> DEFINE Sum(s) == SumFunctionOnSet(f, s)
           Good == {s \in SUBSET S : \A x \in s : Sum(s) = f[x] + Sum(s \ {x})}
<1>1. {} \in Good
      OBVIOUS
<1>2. ASSUME NEW s \in SUBSET S, s # {}, \A x \in s : s \ {x} \in Good PROVE s \in Good
      <2>1. SUFFICES ASSUME NEW x \in s PROVE Sum(s) = f[x] + Sum(s \ {x})
            BY <1>2
      <2> DEFINE c == Pick(s)
      <2>2. IsFiniteSet(s)
            BY FS_Subset
      <2>3. c \in s /\ Sum(s) = f[c] + Sum(s \ {c})
            BY <2>2, SumPicked
      <2>4. CASE x = c
            BY <2>3, <2>4
      <2>5. CASE x # c
            <3>1. s \ {c} \in Good /\ s \ {x} \in Good /\ x \in s \ {c} /\ c \in s \ {x}
                  BY <1>2, <2>1, <2>3, <2>5
            <3>2. (s \ {c}) \ {x} = (s \ {x}) \ {c}
                  OBVIOUS
            <3>3. Sum(s \ {c}) = f[x] + Sum((s \ {x}) \ {c}) /\ Sum(s \ {x}) = f[c] + Sum((s \ {x}) \ {c})
                  BY <3>1, <3>2
            <3>4. Sum((s \ {x}) \ {c}) \in Nat /\ f[x] \in Nat /\ f[c] \in Nat
                  <4>1. IsFiniteSet((s \ {x}) \ {c}) /\ \A z \in (s \ {x}) \ {c} : f[z] \in Nat
                        BY <2>2, FS_Subset
                  <4>2. QED BY <2>1, <2>3, <4>1, SumType
            <3> HIDE DEF Sum, c
            <3>5. QED BY <2>3, <3>3, <3>4
      <2>6. QED BY <2>4, <2>5
<1>3. SUBSET S \subseteq Good
      <2> HIDE DEF Good
      <2>1. QED BY <1>1, <1>2, SubsetInduction
<1>4. QED BY <1>3

LEMMA SumWith ==
    ASSUME NEW S, IsFiniteSet(S), NEW y, y \notin S, NEW f, \A x \in S \cup {y} : f[x] \in Nat
    PROVE  SumFunctionOnSet(f, S \cup {y}) = f[y] + SumFunctionOnSet(f, S)
<1>1. IsFiniteSet(S \cup {y})
      BY FS_AddElement
<1>2. (S \cup {y}) \ {y} = S /\ y \in S \cup {y}
      OBVIOUS
<1>3. SumFunctionOnSet(f, S \cup {y}) = f[y] + SumFunctionOnSet(f, (S \cup {y}) \ {y})
      BY <1>1, <1>2, SumWithout
<1>4. QED BY <1>2, <1>3

LEMMA SumOfMore ==
    ASSUME NEW S, IsFiniteSet(S), NEW f, \A x \in S : f[x] \in Nat, NEW T \in SUBSET S
    PROVE  SumFunctionOnSet(f, T) <= SumFunctionOnSet(f, S)
<1> DEFINE Sum(s) == SumFunctionOnSet(f, s)
           Good == {s \in SUBSET S : \A t \in SUBSET s : Sum(t) <= Sum(s)}
<1>1. {} \in Good
      BY SumEmpty
<1>2. ASSUME NEW s \in SUBSET S, s # {}, \A x \in s : s \ {x} \in Good PROVE s \in Good
      <2>1. SUFFICES ASSUME NEW t \in SUBSET s PROVE Sum(t) <= Sum(s)
            BY <1>2
      <2>2. /\ IsFiniteSet(s) /\ IsFiniteSet(t) /\ \A x \in s : f[x] \in Nat
            BY FS_Subset
      <2>3. Sum(s) \in Nat /\ Sum(t) \in Nat
            BY <2>2, SumType
      <2>4. CASE t = s
            BY <2>3, <2>4
      <2>5. CASE t # s
            <3>1. PICK x \in s : x \notin t
                  BY <2>5
            <3>2. Sum(t) <= Sum(s \ {x})
                  BY <1>2, <3>1
            <3>3. Sum(s) = f[x] + Sum(s \ {x})
                  BY <2>2, <3>1, SumWithout
            <3>4. IsFiniteSet(s \ {x}) /\ \A z \in s \ {x} : f[z] \in Nat
                  BY <2>2, FS_Subset
            <3>5. Sum(s \ {x}) \in Nat /\ f[x] \in Nat
                  BY <2>2, <3>4, SumType
            <3> HIDE DEF Sum
            <3>6. QED BY <2>3, <3>2, <3>3, <3>5
      <2>6. QED BY <2>4, <2>5
<1>3. SUBSET S \subseteq Good
      <2> HIDE DEF Good
      <2>1. QED BY <1>1, <1>2, SubsetInduction
<1>4. QED BY <1>3

\* Another element outside the part adds to the difference.
LEMMA SumOfMoreWith ==
    ASSUME NEW S, IsFiniteSet(S), NEW f, \A x \in S : f[x] \in Nat,
           NEW T \in SUBSET S, NEW y \in S, y \notin T
    PROVE  SumFunctionOnSet(f, T) + f[y] <= SumFunctionOnSet(f, S)
<1> DEFINE Sum(s) == SumFunctionOnSet(f, s)
<1>1. Sum(S) = f[y] + Sum(S \ {y})
      BY SumWithout
<1>2. IsFiniteSet(S \ {y}) /\ T \in SUBSET (S \ {y})
      BY FS_Subset
<1>3. Sum(T) <= Sum(S \ {y})
      BY <1>2, SumOfMore
<1>4. IsFiniteSet(T)
      BY FS_Subset
<1>5. Sum(T) \in Nat /\ Sum(S \ {y}) \in Nat /\ f[y] \in Nat
      BY <1>2, <1>4, SumType
<1> HIDE DEF Sum
<1>6. Sum(T) + f[y] <= Sum(S)
      BY <1>1, <1>3, <1>5
<1>7. QED BY <1>6 DEF Sum

LEMMA SumOfOne ==
    ASSUME NEW f, NEW y, f[y] \in Nat
    PROVE  SumFunctionOnSet(f, {y}) = f[y]
<1>1. IsFiniteSet({y}) /\ {y} \ {y} = {}
      BY FS_Singleton
<1>2. SumFunctionOnSet(f, {y}) = f[y] + SumFunctionOnSet(f, {})
      BY <1>1, SumWithout
<1>3. QED BY <1>2, SumEmpty

LEMMA SumOfLess ==
    ASSUME NEW S, IsFiniteSet(S), NEW f, NEW g,
           \A x \in S : f[x] \in Nat /\ g[x] \in Nat /\ f[x] <= g[x]
    PROVE  SumFunctionOnSet(f, S) <= SumFunctionOnSet(g, S)
<1> DEFINE F(s) == SumFunctionOnSet(f, s)
           G(s) == SumFunctionOnSet(g, s)
           Good == {s \in SUBSET S : F(s) <= G(s)}
<1>1. {} \in Good
      BY SumEmpty
<1>2. ASSUME NEW s \in SUBSET S, s # {}, \A x \in s : s \ {x} \in Good PROVE s \in Good
      <2>1. PICK x : x \in s
            BY <1>2
      <2>2. IsFiniteSet(s) /\ IsFiniteSet(s \ {x})
            BY FS_Subset
      <2>3. F(s) = f[x] + F(s \ {x}) /\ G(s) = g[x] + G(s \ {x})
            BY <2>1, <2>2, SumWithout
      <2>4. F(s \ {x}) \in Nat /\ G(s \ {x}) \in Nat
            BY <2>2, SumType
      <2>5. F(s \ {x}) <= G(s \ {x}) /\ f[x] \in Nat /\ g[x] \in Nat /\ f[x] <= g[x]
            BY <1>2, <2>1
      <2> HIDE DEF F, G
      <2>6. F(s) <= G(s)
            BY <2>3, <2>4, <2>5
      <2>7. QED BY <2>6
<1>3. SUBSET S \subseteq Good
      <2> HIDE DEF Good
      <2>1. QED BY <1>1, <1>2, SubsetInduction
<1>4. QED BY <1>3

\* A number added to each value is added as often as there are values.
LEMMA SumOfRaised ==
    ASSUME NEW S, IsFiniteSet(S), NEW f, NEW g, NEW c \in Nat,
           \A x \in S : f[x] \in Nat /\ g[x] = c + f[x]
    PROVE  SumFunctionOnSet(g, S) = c * Cardinality(S) + SumFunctionOnSet(f, S)
<1> DEFINE F(s) == SumFunctionOnSet(f, s)
           G(s) == SumFunctionOnSet(g, s)
           Good == {s \in SUBSET S : G(s) = c * Cardinality(s) + F(s)}
<1>1. {} \in Good
      <2>1. Cardinality({}) = 0
            BY FS_EmptySet
      <2>2. QED BY <2>1, SumEmpty
<1>2. ASSUME NEW s \in SUBSET S, s # {}, \A x \in s : s \ {x} \in Good PROVE s \in Good
      <2>1. PICK x : x \in s
            BY <1>2
      <2>2. IsFiniteSet(s) /\ IsFiniteSet(s \ {x})
            BY FS_Subset
      <2>3. f[x] \in Nat /\ g[x] = c + f[x] /\ g[x] \in Nat
            BY <2>1
      <2>4. \A y \in s : f[y] \in Nat /\ g[y] \in Nat
            OBVIOUS
      <2>5. F(s) = f[x] + F(s \ {x}) /\ G(s) = g[x] + G(s \ {x})
            BY <2>1, <2>2, <2>4, SumWithout
      <2>6. F(s \ {x}) \in Nat /\ G(s \ {x}) \in Nat
            BY <2>2, <2>4, SumType
      <2>7. G(s \ {x}) = c * Cardinality(s \ {x}) + F(s \ {x})
            BY <1>2, <2>1
      <2>8. Cardinality(s) \in Nat /\ Cardinality(s \ {x}) = Cardinality(s) - 1
            BY <2>1, <2>2, FS_RemoveElement, FS_CardinalityType
      <2> DEFINE k == Cardinality(s)
      <2>9. c * (k - 1) = c * k - c /\ c * k \in Int
            BY <2>8
      <2> HIDE DEF F, G, k
      <2>10. G(s) = c * k + F(s)
            BY <2>3, <2>5, <2>6, <2>7, <2>8, <2>9 DEF k
      <2>11. QED BY <2>10 DEF k
<1>3. SUBSET S \subseteq Good
      <2> HIDE DEF Good
      <2>1. QED BY <1>1, <1>2, SubsetInduction
<1>4. QED BY <1>3

-----------------------------------------------------------------------------
(* The least and the greatest element of a finite set of numbers exist.    *)

LEMMA ExtremesExist ==
    ASSUME NEW S, IsFiniteSet(S), S \subseteq Nat, S # {}
    PROVE  /\ \E x \in S : \A y \in S : x <= y
           /\ \E x \in S : \A y \in S : x >= y
<1> DEFINE Good == {s \in SUBSET S : s # {} => /\ \E x \in s : \A y \in s : x <= y
                                            /\ \E x \in s : \A y \in s : x >= y}
<1>1. {} \in Good
      OBVIOUS
<1>2. ASSUME NEW s \in SUBSET S, s # {}, \A x \in s : s \ {x} \in Good PROVE s \in Good
      <2>1. PICK z : z \in s
            BY <1>2
      <2>2. CASE s = {z}
            BY <2>1, <2>2
      <2>3. CASE s # {z}
            <3>1. s \ {z} \in Good /\ s \ {z} # {}
                  BY <1>2, <2>1, <2>3
            <3>2. PICK x \in s \ {z} : \A y \in s \ {z} : x <= y
                  BY <3>1
            <3>3. PICK w \in s \ {z} : \A y \in s \ {z} : w >= y
                  BY <3>1
            <3>4. \A y \in s : y \in Nat
                  OBVIOUS
            <3>5. \E v \in s : \A y \in s : v <= y
                  <4>1. CASE x <= z
                        BY <3>2, <4>1
                  <4>2. CASE z <= x
                        BY <2>1, <3>2, <3>4, <4>2
                  <4>3. QED BY <2>1, <3>4, <4>1, <4>2
            <3>6. \E v \in s : \A y \in s : v >= y
                  <4>1. CASE w >= z
                        BY <3>3, <4>1
                  <4>2. CASE z >= w
                        BY <2>1, <3>3, <3>4, <4>2
                  <4>3. QED BY <2>1, <3>4, <4>1, <4>2
            <3>7. QED BY <3>5, <3>6
      <2>4. QED BY <2>2, <2>3
<1>3. SUBSET S \subseteq Good
      <2> HIDE DEF Good
      <2>1. QED BY <1>1, <1>2, SubsetInduction
<1>4. S \in Good
      BY <1>3
<1>5. QED BY <1>4

\* A set of naturals need not be finite to have a least element.
LEMMA LeastOf ==
    ASSUME NEW S, \A x \in S : x \in Nat, S # {}
    PROVE  \E x \in S : \A y \in S : x <= y
<1> SUFFICES ASSUME \A x \in S : \E y \in S : ~(x <= y) PROVE FALSE
    OBVIOUS
<1> DEFINE Good == {n \in Nat : \A m \in 0 .. n : m \notin S}
<1>1. 0 \in Good
      <2>1. \A y \in S : 0 <= y
            OBVIOUS
      <2>2. 0 \notin S
            BY <2>1
      <2>3. QED BY <2>2
<1>2. ASSUME NEW n \in Nat, n \in Good PROVE n + 1 \in Good
      <2>1. \A y \in S : n + 1 <= y
            BY <1>2
      <2>2. n + 1 \notin S
            BY <2>1
      <2>3. \A m \in 0 .. n + 1 : m \in 0 .. n \/ m = n + 1
            OBVIOUS
      <2>4. QED BY <1>2, <2>2, <2>3
<1>3. Nat \subseteq Good
      <2> HIDE DEF Good
      <2>1. QED BY <1>1, <1>2, NatSet
<1>4. PICK x \in S : TRUE
      OBVIOUS
<1>5. x \in Nat /\ x \in 0 .. x
      OBVIOUS
<1>6. QED BY <1>3, <1>4, <1>5

-----------------------------------------------------------------------------
(* A sequence of sequences, one behind the other: what FlattenSeq of the   *)
(* community modules is.                                                   *)

Joins(g, seqs, n) ==
    g = [i \in 1 .. n |-> IF i = 1 THEN seqs[i] ELSE g[i - 1] \o seqs[i]]

Joined(seqs) ==
    IF Len(seqs) = 0 THEN seqs
    ELSE LET flatten[i \in 1 .. Len(seqs)] ==
                 IF i = 1 THEN seqs[i] ELSE flatten[i - 1] \o seqs[i]
         IN  flatten[Len(seqs)]

LEMMA JoinsAt ==
    ASSUME NEW s, NEW n \in Nat, NEW g, Joins(g, s, n), NEW i \in 1 .. n
    PROVE  g[i] = IF i = 1 THEN s[i] ELSE g[i - 1] \o s[i]
BY DEF Joins

LEMMA SeqBehind ==
    ASSUME NEW D, NEW a \in Seq(D), NEW b \in Seq(D)
    PROVE  /\ a \o b \in Seq(D)
           /\ Len(a \o b) = Len(a) + Len(b)
           /\ \A p \in 1 .. Len(a) : (a \o b)[p] = a[p]
           /\ \A p \in 1 .. Len(b) : (a \o b)[Len(a) + p] = b[p]
OBVIOUS

LEMMA JoinExists ==
    ASSUME NEW s, NEW n \in Nat
    PROVE  \E g : Joins(g, s, n)
<1> DEFINE Good == {k \in Nat : \E g : Joins(g, s, k)}
<1>1. 0 \in Good
      <2> DEFINE g == [i \in 1 .. 0 |-> s[i]]
      <2>1. Joins(g, s, 0)
            BY DEF Joins
      <2>2. QED BY <2>1
<1>2. ASSUME NEW k \in Nat, k \in Good PROVE k + 1 \in Good
      <2>1. PICK g : Joins(g, s, k)
            BY <1>2
      <2> DEFINE h == [i \in 1 .. k + 1 |-> IF i = 1 THEN s[i] ELSE g[i - 1] \o s[i]]
      <2>2. ASSUME NEW i \in 1 .. k PROVE h[i] = g[i]
            <3>1. g[i] = IF i = 1 THEN s[i] ELSE g[i - 1] \o s[i]
                  BY <2>1, JoinsAt
            <3>2. i \in 1 .. k + 1
                  OBVIOUS
            <3>3. QED BY <3>1, <3>2
      <2>3. ASSUME NEW i \in 1 .. k + 1 PROVE h[i] = IF i = 1 THEN s[i] ELSE h[i - 1] \o s[i]
            <3>1. CASE i = 1
                  BY <3>1
            <3>2. CASE i # 1
                  <4>1. i - 1 \in 1 .. k
                        BY <3>2
                  <4>2. h[i] = g[i - 1] \o s[i]
                        BY <3>2
                  <4>3. h[i - 1] = g[i - 1]
                        BY <2>2, <4>1
                  <4>4. QED BY <3>2, <4>2, <4>3
            <3>3. QED BY <3>1, <3>2
      <2>4. h = [i \in 1 .. k + 1 |-> IF i = 1 THEN s[i] ELSE h[i - 1] \o s[i]]
            <3>1. h = [i \in 1 .. k + 1 |-> h[i]]
                  OBVIOUS
            <3> HIDE DEF h
            <3>2. QED BY <2>3, <3>1
      <2>5. Joins(h, s, k + 1)
            <3> HIDE DEF h
            <3>1. QED BY <2>4 DEF Joins
      <2>6. QED BY <2>5
<1>3. Nat \subseteq Good
      <2> HIDE DEF Good
      <2>1. QED BY <1>1, <1>2, NatSet
<1>4. QED BY <1>3

LEMMA JoinIsUnique ==
    ASSUME NEW s, NEW n \in Nat, NEW m \in Nat, NEW g, NEW h, Joins(g, s, n), Joins(h, s, m)
    PROVE  \A i \in 1 .. n : i <= m => g[i] = h[i]
<1> DEFINE Good == {k \in Nat : k \in 1 .. n /\ k <= m => g[k] = h[k]}
<1>1. 0 \in Good
      OBVIOUS
<1>2. ASSUME NEW k \in Nat, k \in Good PROVE k + 1 \in Good
      <2> SUFFICES ASSUME k + 1 \in 1 .. n, k + 1 <= m PROVE g[k + 1] = h[k + 1]
          OBVIOUS
      <2>1. CASE k = 0
            BY <2>1 DEF Joins
      <2>2. CASE k # 0
            <3>1. g[k] = h[k]
                  BY <1>2, <2>2
            <3>2. g[k + 1] = g[k] \o s[k + 1]
                  <4>1. g[k + 1] = IF k + 1 = 1 THEN s[k + 1] ELSE g[k + 1 - 1] \o s[k + 1]
                        <5>1. \A i \in 1 .. n : g[i] = IF i = 1 THEN s[i] ELSE g[i - 1] \o s[i]
                              BY JoinsAt
                        <5>2. QED BY <5>1
                  <4>2. k + 1 # 1 /\ k + 1 - 1 = k
                        BY <2>2
                  <4>3. QED BY <4>1, <4>2
            <3>3. h[k + 1] = h[k] \o s[k + 1]
                  <4>1. k + 1 \in 1 .. m
                        OBVIOUS
                  <4>2. h[k + 1] = IF k + 1 = 1 THEN s[k + 1] ELSE h[k + 1 - 1] \o s[k + 1]
                        <5>1. \A i \in 1 .. m : h[i] = IF i = 1 THEN s[i] ELSE h[i - 1] \o s[i]
                              BY JoinsAt
                        <5>2. QED BY <4>1, <5>1
                  <4>3. k + 1 # 1 /\ k + 1 - 1 = k
                        BY <2>2
                  <4>4. QED BY <4>2, <4>3
            <3>4. QED BY <3>1, <3>2, <3>3
      <2>3. QED BY <2>1, <2>2
<1>3. Nat \subseteq Good
      <2> HIDE DEF Good
      <2>1. QED BY <1>1, <1>2, NatSet
<1>4. QED BY <1>3

\* The recursive function in Joined.
LEMMA JoinedIs ==
    ASSUME NEW s, Len(s) \in Nat \ {0}
    PROVE  \E g : Joins(g, s, Len(s)) /\ Joined(s) = g[Len(s)]
<1> DEFINE g == CHOOSE g : g = [i \in 1 .. Len(s) |-> IF i = 1 THEN s[i] ELSE g[i - 1] \o s[i]]
<1>1. \E f : f = [i \in 1 .. Len(s) |-> IF i = 1 THEN s[i] ELSE f[i - 1] \o s[i]]
      BY JoinExists DEF Joins
<1>2. g = [i \in 1 .. Len(s) |-> IF i = 1 THEN s[i] ELSE g[i - 1] \o s[i]]
      BY <1>1
<1>3. Joined(s) = g[Len(s)]
      BY DEF Joined
<1>4. Joins(g, s, Len(s))
      <2> HIDE DEF g
      <2>1. QED BY <1>2 DEF Joins
<1>5. QED BY <1>3, <1>4

\* The first k of the sequences, joined.
FirstJoined(s, k) == Joined(SubSeq(s, 1, k))

LEMMA JoinedStarts ==
    ASSUME NEW D, NEW s \in Seq(Seq(D))
    PROVE  /\ Joined(<<>>) = <<>>
           /\ FirstJoined(s, 0) = <<>>
           /\ FirstJoined(s, Len(s)) = Joined(s)
<1>1. Joined(<<>>) = <<>>
      BY DEF Joined
<1>2. SubSeq(s, 1, 0) = <<>> /\ SubSeq(s, 1, Len(s)) = s
      OBVIOUS
<1>3. QED BY <1>1, <1>2 DEF FirstJoined

LEMMA JoinedStep ==
    ASSUME NEW D, NEW s \in Seq(Seq(D)), NEW k \in 0 .. Len(s) - 1
    PROVE  FirstJoined(s, k + 1) = FirstJoined(s, k) \o s[k + 1]
<1> DEFINE t == SubSeq(s, 1, k)
           u == SubSeq(s, 1, k + 1)
<1>1. /\ t \in Seq(Seq(D)) /\ Len(t) = k /\ \A i \in 1 .. k : t[i] = s[i]
      /\ u \in Seq(Seq(D)) /\ Len(u) = k + 1 /\ \A i \in 1 .. k + 1 : u[i] = s[i]
      OBVIOUS
<1>2. s[k + 1] \in Seq(D) /\ s[k + 1] = u[k + 1]
      BY <1>1
<1> HIDE DEF t, u
<1>0. /\ FirstJoined(s, k) = Joined(t)
      /\ FirstJoined(s, k + 1) = Joined(u)
      BY DEF FirstJoined, t, u
<1>3. PICK h : Joins(h, u, k + 1) /\ Joined(u) = h[k + 1]
      <2>1. Len(u) \in Nat \ {0}
            BY <1>1
      <2>2. \E g : Joins(g, u, Len(u)) /\ Joined(u) = g[Len(u)]
            BY <2>1, JoinedIs, Zenon
      <2>3. QED BY <1>1, <2>2, Zenon
<1>4. CASE k = 0
      <2>1. t = <<>>
            BY <1>1, <1>4
      <2>2. Joined(t) = <<>>
            BY <2>1 DEF Joined
      <2>3. Joined(u) = u[1]
            BY <1>3, <1>4 DEF Joins
      <2>4. <<>> \o s[k + 1] = s[k + 1]
            BY <1>2
      <2>5. s[k + 1] = u[1]
            BY <1>2, <1>4
      <2>6. QED BY <1>0, <2>2, <2>3, <2>4, <2>5, Zenon
<1>5. CASE k # 0
      <2>1. PICK g : Joins(g, t, k) /\ Joined(t) = g[k]
            <3>1. Len(t) \in Nat \ {0}
                  BY <1>1, <1>5
            <3>2. \E g : Joins(g, t, Len(t)) /\ Joined(t) = g[Len(t)]
                  BY <3>1, JoinedIs, Zenon
            <3>3. QED BY <1>1, <3>2, Zenon
      <2>2. Joins(g, u, k)
            <3>1. ASSUME NEW i \in 1 .. k PROVE t[i] = u[i]
                  <4>1. i \in 1 .. k + 1
                        OBVIOUS
                  <4>2. QED BY <1>1, <4>1, Zenon
            <3>2. g = [i \in 1 .. k |-> IF i = 1 THEN t[i] ELSE g[i - 1] \o t[i]]
                  BY <2>1 DEF Joins
            <3>3. QED BY <3>1, <3>2, Zenon DEF Joins
      <2>3. g[k] = h[k]
            <3>1. k \in 1 .. k /\ k <= k + 1 /\ k \in Nat /\ k + 1 \in Nat
                  BY <1>5
            <3>2. \A i \in 1 .. k : i <= k + 1 => g[i] = h[i]
                  BY <1>3, <2>2, <3>1, JoinIsUnique
            <3>3. QED BY <3>1, <3>2
      <2>4. h[k + 1] = h[k] \o u[k + 1]
            <3>1. h[k + 1] = IF k + 1 = 1 THEN u[k + 1] ELSE h[k + 1 - 1] \o u[k + 1]
                  <4>1. k + 1 \in Nat /\ k + 1 \in 1 .. k + 1
                        OBVIOUS
                  <4>2. \A i \in 1 .. k + 1 : h[i] = IF i = 1 THEN u[i] ELSE h[i - 1] \o u[i]
                        BY <1>3, <4>1, JoinsAt
                  <4>3. QED BY <4>1, <4>2
            <3>2. k + 1 # 1 /\ k + 1 - 1 = k
                  BY <1>5
            <3>3. QED BY <3>1, <3>2
      <2>5. QED BY <1>0, <1>2, <1>3, <2>1, <2>3, <2>4, Zenon
<1>6. QED BY <1>4, <1>5

LEMMA FirstJoinedType ==
    ASSUME NEW D, NEW s \in Seq(Seq(D)), NEW k \in 0 .. Len(s)
    PROVE  FirstJoined(s, k) \in Seq(D)
<1> DEFINE Good == {j \in Nat : j <= Len(s) => FirstJoined(s, j) \in Seq(D)}
<1>1. 0 \in Good
      <2>1. FirstJoined(s, 0) = <<>>
            BY JoinedStarts
      <2>2. <<>> \in Seq(D)
            OBVIOUS
      <2>3. QED BY <2>1, <2>2
<1>2. ASSUME NEW j \in Nat, j \in Good PROVE j + 1 \in Good
      <2> SUFFICES ASSUME j + 1 <= Len(s) PROVE FirstJoined(s, j + 1) \in Seq(D)
          OBVIOUS
      <2>1. FirstJoined(s, j) \in Seq(D) /\ s[j + 1] \in Seq(D) /\ j \in 0 .. Len(s) - 1
            BY <1>2
      <2>2. FirstJoined(s, j + 1) = FirstJoined(s, j) \o s[j + 1]
            BY <2>1, JoinedStep
      <2>3. FirstJoined(s, j) \o s[j + 1] \in Seq(D)
            BY <2>1, SeqBehind, Zenon
      <2>4. QED BY <2>2, <2>3
<1>3. Nat \subseteq Good
      <2> HIDE DEF Good
      <2>1. QED BY <1>1, <1>2, NatSet
<1>4. QED BY <1>3

LEMMA JoinedType ==
    ASSUME NEW D, NEW s \in Seq(Seq(D))
    PROVE  Joined(s) \in Seq(D)
BY FirstJoinedType, JoinedStarts

\* What the first ones give is where the whole begins.
LEMMA JoinedPrefix ==
    ASSUME NEW D, NEW s \in Seq(Seq(D)), NEW k \in 0 .. Len(s), NEW m \in k .. Len(s)
    PROVE  /\ Len(FirstJoined(s, k)) <= Len(FirstJoined(s, m))
           /\ \A p \in 1 .. Len(FirstJoined(s, k)) : FirstJoined(s, m)[p] = FirstJoined(s, k)[p]
<1> DEFINE F(j) == FirstJoined(s, j)
           Good == {j \in Nat : k + j <= Len(s) =>
                       /\ Len(F(k)) <= Len(F(k + j))
                       /\ \A p \in 1 .. Len(F(k)) : F(k + j)[p] = F(k)[p]}
<1>1. \A j \in 0 .. Len(s) : F(j) \in Seq(D)
      BY FirstJoinedType
<1>2. \A j \in 0 .. Len(s) - 1 : F(j + 1) = F(j) \o s[j + 1]
      BY JoinedStep
<1> HIDE DEF F
<1>3. 0 \in Good
      <2>1. k + 0 = k /\ Len(F(k)) \in Nat
            BY <1>1
      <2>2. QED BY <2>1
<1>4. ASSUME NEW j \in Nat, j \in Good PROVE j + 1 \in Good
      <2> SUFFICES ASSUME k + (j + 1) <= Len(s)
                   PROVE  /\ Len(F(k)) <= Len(F(k + (j + 1)))
                          /\ \A p \in 1 .. Len(F(k)) : F(k + (j + 1))[p] = F(k)[p]
          OBVIOUS
      <2>1. k + j \in 0 .. Len(s) - 1 /\ k + (j + 1) = (k + j) + 1 /\ k + j <= Len(s)
            OBVIOUS
      <2>2. F(k + (j + 1)) = F(k + j) \o s[(k + j) + 1]
            BY <1>2, <2>1
      <2>3. s[(k + j) + 1] \in Seq(D) /\ F(k + j) \in Seq(D) /\ F(k) \in Seq(D)
            BY <1>1, <2>1
      <2>4. Len(F(k)) <= Len(F(k + j)) /\ \A p \in 1 .. Len(F(k)) : F(k + j)[p] = F(k)[p]
            BY <1>4, <2>1
      <2>5. /\ Len(F(k + (j + 1))) = Len(F(k + j)) + Len(s[(k + j) + 1])
            /\ \A p \in 1 .. Len(F(k + j)) : F(k + (j + 1))[p] = F(k + j)[p]
            <3> DEFINE a == F(k + j)
                         b == s[(k + j) + 1]
            <3>2. a \in Seq(D) /\ b \in Seq(D) /\ F(k + (j + 1)) = a \o b
                  BY <2>2, <2>3
            <3> HIDE DEF a, b
            <3>3. /\ Len(a \o b) = Len(a) + Len(b)
                  /\ \A p \in 1 .. Len(a) : (a \o b)[p] = a[p]
                  BY <3>2, SeqBehind, Zenon
            <3>4. QED BY <3>2, <3>3, Zenon DEF a, b
      <2>6. Len(F(k)) \in Nat /\ Len(F(k + j)) \in Nat /\ Len(s[(k + j) + 1]) \in Nat
            BY <2>3
      <2>7. Len(F(k)) <= Len(F(k + (j + 1)))
            <3> DEFINE x == Len(F(k))
                       y == Len(F(k + j))
                       z == Len(s[(k + j) + 1])
            <3>1. x \in Nat /\ y \in Nat /\ z \in Nat /\ x <= y /\ Len(F(k + (j + 1))) = y + z
                  BY <2>4, <2>5, <2>6
            <3> HIDE DEF x, y, z
            <3>2. x <= y + z
                  BY <3>1
            <3>3. QED BY <3>1, <3>2 DEF x
      <2>8. ASSUME NEW p \in 1 .. Len(F(k)) PROVE F(k + (j + 1))[p] = F(k)[p]
            <3>1. p \in 1 .. Len(F(k + j))
                  BY <2>4, <2>6
            <3>2. QED BY <2>4, <2>5, <3>1, Zenon
      <2>9. QED BY <2>7, <2>8
<1>5. Nat \subseteq Good
      <2> HIDE DEF Good
      <2>1. QED BY <1>3, <1>4, NatSet
<1>6. m - k \in Nat /\ k + (m - k) = m
      OBVIOUS
<1>7. m - k \in Good
      BY <1>5, <1>6
<1>8. QED BY <1>6, <1>7 DEF F
=============================================================================
