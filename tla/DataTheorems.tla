---------------------------- MODULE DataTheorems ----------------------------
(***************************************************************************)
(* What the proofs need to know of the community modules' operators on     *)
(* data: sums over finite sets (SumFunctionOnSet of Functions) and the     *)
(* flattening of sequences (FlattenSeq of SequencesExt).                   *)
(*                                                                         *)
(* Both are recursive functions, so both need induction.  It is stated for *)
(* sets, of numbers or of subsets, instead of predicates, and follows from *)
(* the least element that every set of natural numbers has.                *)
(***************************************************************************)
EXTENDS Integers, Sequences, Functions, SequencesExt, FiniteSetTheorems, NaturalsInduction,
        WellFoundedInduction, TLAPS

-----------------------------------------------------------------------------
(* Induction, over a set of numbers or of subsets instead of over a predicate *)

\* Every set of natural numbers has a least element.
LEMMA LeastNatural ==
    ASSUME NEW T \in SUBSET Nat, T # {}
    PROVE  \E n \in T : \A m \in T : n <= m
<1> DEFINE R == {ss \in Nat \X Nat : ss[1] < ss[2]}
<1>1. IsWellFoundedOn(R, Nat)
  BY NatLessThanWellFounded DEF OpToRel
<1>2. PICK n \in T : \A m \in T : ~ (<<m, n>> \in R)
  <2> HIDE DEF R
  <2> QED
    BY <1>1, WFMin
<1>3. \A m \in T : ~ (m < n)
  BY <1>2
<1> QED
  BY <1>3

LEMMA NumberInduction ==
    ASSUME NEW D \in SUBSET Nat, 0 \in D, \A n \in D : n + 1 \in D
    PROVE  \A n \in Nat : n \in D
<1> SUFFICES ASSUME Nat \ D # {} PROVE FALSE
  OBVIOUS
<1>1. PICK n \in Nat \ D : \A m \in Nat \ D : n <= m
  BY LeastNatural
<1>2. n # 0 /\ n - 1 \in Nat
  OBVIOUS
<1>3. n - 1 \in D
  BY <1>1, <1>2
<1> QED
  BY <1>1, <1>2, <1>3

LEMMA SubsetInduction ==
    ASSUME NEW S, IsFiniteSet(S), NEW C \in SUBSET SUBSET S, {} \in C,
           \A T \in C : \A x \in S \ T : T \cup {x} \in C
    PROVE  S \in C
<1> SUFFICES ASSUME S \notin C PROVE FALSE
  OBVIOUS
<1> DEFINE D == {n \in Nat : \E T \in SUBSET S : T \notin C /\ Cardinality(T) = n}
<1>1. \A T \in SUBSET S : IsFiniteSet(T) /\ Cardinality(T) \in Nat
  BY FS_Subset, FS_CardinalityType
<1>2. Cardinality(S) \in D
  BY <1>1
<1>3. PICK n \in D : \A m \in D : n <= m
  <2> HIDE DEF D
  <2>1. D \subseteq Nat
    BY DEF D
  <2> QED
    BY <1>2, <2>1, LeastNatural
<1>4. PICK T \in SUBSET S : T \notin C /\ Cardinality(T) = n
  BY <1>3
<1>5. PICK x \in T : TRUE
  BY <1>4
<1>6. Cardinality(T \ {x}) = n - 1
  BY <1>1, <1>4, <1>5, FS_RemoveElement
<1>7. T \ {x} \in C
  <2>1. SUFFICES ASSUME T \ {x} \notin C PROVE FALSE
    OBVIOUS
  <2>2. T \ {x} \in SUBSET S /\ n - 1 \in Nat
    BY <1>1, <1>6
  <2>3. n - 1 \in D
    BY <1>6, <2>1, <2>2
  <2> QED
    BY <1>3, <2>2, <2>3
<1>8. (T \ {x}) \cup {x} = T
  BY <1>5
<1> QED
  BY <1>4, <1>5, <1>7, <1>8

-----------------------------------------------------------------------------
(* The fold that adds the values of a function over a finite set *)

Pick(s) == CHOOSE x \in s : TRUE

\* One step of the fold.
Body(f, g, s) == IF s = {} THEN 0 ELSE f[Pick(s)] + g[s \ {Pick(s)}]
AreSums(f, S, g) == g = [s \in SUBSET S |-> Body(f, g, s)]
SumsOf(f, S) == CHOOSE g : AreSums(f, S, g)

LEMMA SumIsFold ==
    ASSUME NEW f, NEW S
    PROVE  SumFunctionOnSet(f, S) = SumsOf(f, S)[S]
  BY DEF SumFunctionOnSet, FoldFunctionOnSet, MapThenFoldSet, SumsOf, AreSums, Body, Pick

LEMMA PickFacts ==
    ASSUME NEW S, IsFiniteSet(S), NEW s \in SUBSET S, s # {}
    PROVE  /\ Pick(s) \in s /\ s \ {Pick(s)} \in SUBSET S
           /\ IsFiniteSet(s) /\ Cardinality(s) \in Nat \ {0}
           /\ Cardinality(s \ {Pick(s)}) = Cardinality(s) - 1
<1>1. Pick(s) \in s
  BY DEF Pick
<1>2. IsFiniteSet(s)
  BY FS_Subset
<1>3. Cardinality(s) \in Nat \ {0}
  BY <1>2, FS_EmptySet, FS_CardinalityType
<1> QED
  BY <1>1, <1>2, <1>3, FS_RemoveElement

\* There is a function that the fold's equation describes.
LEMMA SumsExist ==
    ASSUME NEW S, IsFiniteSet(S), NEW f, \A x \in S : f[x] \in Int
    PROVE  \E g \in [SUBSET S -> Int] : AreSums(f, S, g)
<1> DEFINE Good(g, n) == \A s \in SUBSET S : Cardinality(s) <= n => g[s] = Body(f, g, s)
           D == {n \in Nat : \E g \in [SUBSET S -> Int] : Good(g, n)}
<1>1. \A s \in SUBSET S : IsFiniteSet(s) /\ Cardinality(s) \in Nat
  BY FS_Subset, FS_CardinalityType
<1>2. ASSUME NEW g \in [SUBSET S -> Int], NEW s \in SUBSET S
      PROVE  Body(f, g, s) \in Int
  <2>1. CASE s = {}
    BY <2>1 DEF Body
  <2>2. CASE s # {}
    <3>1. Pick(s) \in S /\ s \ {Pick(s)} \in SUBSET S
      BY <2>2, PickFacts
    <3>2. f[Pick(s)] \in Int /\ g[s \ {Pick(s)}] \in Int
      BY <3>1
    <3> QED
      BY <2>2, <3>2 DEF Body
  <2> QED
    BY <2>1, <2>2
<1>3. 0 \in D
  <2>1. PICK g : g = [s \in SUBSET S |-> 0]
    OBVIOUS
  <2>2. g \in [SUBSET S -> Int]
    BY <2>1
  <2>3. ASSUME NEW s \in SUBSET S, Cardinality(s) <= 0
        PROVE  g[s] = Body(f, g, s)
    <3>1. s = {}
      BY <1>1, <2>3, FS_EmptySet
    <3> QED
      BY <2>1, <3>1 DEF Body
  <2> QED
    BY <2>2, <2>3
<1>4. ASSUME NEW n \in D
      PROVE  n + 1 \in D
  <2>1. PICK g \in [SUBSET S -> Int] : Good(g, n)
    OBVIOUS
  <2>2. PICK h : h = [s \in SUBSET S |-> Body(f, g, s)]
    OBVIOUS
  <2>3. h \in [SUBSET S -> Int]
    BY <1>2, <2>2
  <2>4. ASSUME NEW s \in SUBSET S, Cardinality(s) <= n + 1
        PROVE  h[s] = Body(f, h, s)
    <3>1. CASE s = {}
      BY <2>2, <3>1 DEF Body
    <3>2. CASE s # {}
      <4>1. s \ {Pick(s)} \in SUBSET S /\ Cardinality(s \ {Pick(s)}) <= n
        BY <2>4, <3>2, PickFacts
      <4>2. g[s \ {Pick(s)}] = h[s \ {Pick(s)}]
        BY <2>1, <2>2, <4>1
      <4> QED
        BY <2>2, <3>2, <4>2 DEF Body
    <3> QED
      BY <3>1, <3>2
  <2> QED
    BY <2>3, <2>4
<1>5. \A n \in Nat : n \in D
  <2> HIDE DEF D
  <2>1. D \subseteq Nat
    BY DEF D
  <2> QED
    BY <1>3, <1>4, <2>1, NumberInduction
<1>6. PICK g \in [SUBSET S -> Int] : Good(g, Cardinality(S))
  BY <1>1, <1>5
<1>7. ASSUME NEW s \in SUBSET S
      PROVE  g[s] = Body(f, g, s)
  BY <1>1, <1>6, FS_Subset
<1>8. AreSums(f, S, g)
  BY <1>7 DEF AreSums
<1> QED
  BY <1>8

LEMMA SumsEquation ==
    ASSUME NEW S, IsFiniteSet(S), NEW f, \A x \in S : f[x] \in Int
    PROVE  SumsOf(f, S) = [s \in SUBSET S |-> Body(f, SumsOf(f, S), s)]
<1>1. \E g : AreSums(f, S, g)
  BY SumsExist
<1>2. AreSums(f, S, SumsOf(f, S))
  BY <1>1 DEF SumsOf
<1> QED
  BY <1>2 DEF AreSums

\* The fold over a set goes through its subsets as the folds over them do.
LEMMA SumsAgree ==
    ASSUME NEW S, IsFiniteSet(S), NEW R \in SUBSET S, NEW f, \A x \in S : f[x] \in Int
    PROVE  \A s \in SUBSET R : /\ SumsOf(f, R)[s] = SumsOf(f, S)[s]
                               /\ SumsOf(f, S)[s] \in Int
<1> DEFINE g == SumsOf(f, R)
           h == SumsOf(f, S)
           D == {n \in Nat : \A s \in SUBSET R : Cardinality(s) = n => g[s] = h[s] /\ h[s] \in Int}
<1>1. /\ g = [s \in SUBSET R |-> Body(f, g, s)]
      /\ h = [s \in SUBSET S |-> Body(f, h, s)]
      /\ IsFiniteSet(R)
  <2>1. IsFiniteSet(R)
    BY FS_Subset
  <2> QED
    BY <2>1, SumsEquation
<1> HIDE DEF g, h
<1>2. \A s \in SUBSET R : Cardinality(s) \in Nat
  BY <1>1, FS_Subset, FS_CardinalityType
<1>3. 0 \in D
  <2>1. ASSUME NEW s \in SUBSET R, Cardinality(s) = 0
        PROVE  g[s] = h[s] /\ h[s] \in Int
    <3>1. s = {}
      BY <1>1, <2>1, FS_Subset, FS_EmptySet
    <3>2. g[s] = Body(f, g, s) /\ h[s] = Body(f, h, s)
      BY <1>1
    <3> QED
      BY <3>1, <3>2 DEF Body
  <2> QED
    BY <2>1
<1>4. ASSUME NEW n \in D
      PROVE  n + 1 \in D
  <2>1. ASSUME NEW s \in SUBSET R, Cardinality(s) = n + 1
        PROVE  g[s] = h[s] /\ h[s] \in Int
    <3>1. s # {}
      <4>1. Cardinality(s) # 0
        BY <1>4, <2>1
      <4> QED
        BY <4>1, FS_EmptySet
    <3>2. /\ Pick(s) \in s /\ s \ {Pick(s)} \in SUBSET R
          /\ Cardinality(s \ {Pick(s)}) = n
      BY <1>1, <2>1, <3>1, PickFacts
    <3>3. g[s \ {Pick(s)}] = h[s \ {Pick(s)}] /\ h[s \ {Pick(s)}] \in Int
      BY <3>2
    <3>4. g[s] = Body(f, g, s) /\ h[s] = Body(f, h, s)
      BY <1>1
    <3> QED
      BY <3>1, <3>2, <3>3, <3>4 DEF Body
  <2> QED
    BY <2>1
<1>5. \A n \in Nat : n \in D
  <2> HIDE DEF D
  <2>1. D \subseteq Nat
    BY DEF D
  <2> QED
    BY <1>3, <1>4, <2>1, NumberInduction
<1>6. \A s \in SUBSET R : g[s] = h[s] /\ h[s] \in Int
  BY <1>2, <1>5
<1> QED
  BY <1>6 DEF g, h

\* What the fold of the library does with the element it picks.
LEMMA SumPicks ==
    ASSUME NEW S, IsFiniteSet(S), NEW f, \A x \in S : f[x] \in Int
    PROVE  /\ SumFunctionOnSet(f, S) \in Int
           /\ S = {} => SumFunctionOnSet(f, S) = 0
           /\ S # {} => /\ Pick(S) \in S
                        /\ SumFunctionOnSet(f, S)
                             = f[Pick(S)] + SumFunctionOnSet(f, S \ {Pick(S)})
<1>1. SumsOf(f, S) = [s \in SUBSET S |-> Body(f, SumsOf(f, S), s)]
  BY SumsEquation
<1>2. SumsOf(f, S)[S] = Body(f, SumsOf(f, S), S)
  BY <1>1
<1>3. SumFunctionOnSet(f, S) = Body(f, SumsOf(f, S), S)
  BY <1>2, SumIsFold
<1>4. SumFunctionOnSet(f, S) \in Int
  BY SumIsFold, SumsAgree
<1>5. ASSUME S # {}
      PROVE  Pick(S) \in S /\ SumsOf(f, S)[S \ {Pick(S)}] = SumFunctionOnSet(f, S \ {Pick(S)})
  <2>1. Pick(S) \in S /\ S \ {Pick(S)} \in SUBSET S
    BY <1>5, PickFacts
  <2> QED
    BY <2>1, SumIsFold, SumsAgree
<1> QED
  BY <1>3, <1>4, <1>5 DEF Body

\* Any element may be taken first.
LEMMA SumTakes ==
    ASSUME NEW S, IsFiniteSet(S), NEW f, \A x \in S : f[x] \in Int, NEW a \in S
    PROVE  SumFunctionOnSet(f, S) = f[a] + SumFunctionOnSet(f, S \ {a})
<1> DEFINE Good(T) == \A x \in T : SumFunctionOnSet(f, T) = f[x] + SumFunctionOnSet(f, T \ {x})
           D == {n \in Nat : \A T \in SUBSET S : Cardinality(T) = n => Good(T)}
<1>1. \A T \in SUBSET S : IsFiniteSet(T) /\ Cardinality(T) \in Nat
  BY FS_Subset, FS_CardinalityType
<1>2. 0 \in D
  <2>1. \A T \in SUBSET S : Cardinality(T) = 0 => T = {}
    BY <1>1, FS_EmptySet
  <2> QED
    BY <2>1
<1>3. ASSUME NEW n \in D
      PROVE  n + 1 \in D
  <2>1. ASSUME NEW T \in SUBSET S, Cardinality(T) = n + 1, NEW x \in T
        PROVE  SumFunctionOnSet(f, T) = f[x] + SumFunctionOnSet(f, T \ {x})
    <3>1. PICK y : y = Pick(T)
      OBVIOUS
    <3>2. IsFiniteSet(T) /\ T # {} /\ \A z \in T : f[z] \in Int
      BY <1>1, <2>1
    <3>3. y \in T /\ SumFunctionOnSet(f, T) = f[y] + SumFunctionOnSet(f, T \ {y})
      BY <3>1, <3>2, SumPicks
    <3>4. CASE x = y
      BY <3>3, <3>4
    <3>5. CASE x # y
      <4>1. n \in Nat /\ Cardinality(T \ {y}) = n /\ Cardinality(T \ {x}) = n
        <5>1. n \in Nat /\ Cardinality(T) = n + 1
          BY <2>1
        <5>2. /\ Cardinality(T \ {y}) = Cardinality(T) - 1
              /\ Cardinality(T \ {x}) = Cardinality(T) - 1
          BY <2>1, <3>2, <3>3, FS_RemoveElement
        <5> HIDE DEF D
        <5> QED
          BY <5>1, <5>2
      <4>2. PICK R : R = T \ {x, y}
        OBVIOUS
      <4>3. (T \ {y}) \ {x} = R /\ (T \ {x}) \ {y} = R /\ IsFiniteSet(R) /\ R \subseteq T
        BY <3>2, <4>2, FS_Subset
      <4>4. SumFunctionOnSet(f, T \ {y}) = f[x] + SumFunctionOnSet(f, R)
        <5>1. T \ {y} \in SUBSET S /\ x \in T \ {y}
          BY <3>5
        <5>2. Good(T \ {y})
          BY <4>1, <5>1
        <5> QED
          BY <4>3, <5>1, <5>2
      <4>5. SumFunctionOnSet(f, T \ {x}) = f[y] + SumFunctionOnSet(f, R)
        <5>1. T \ {x} \in SUBSET S /\ y \in T \ {x}
          BY <3>3, <3>5
        <5>2. Good(T \ {x})
          BY <4>1, <5>1
        <5> QED
          BY <4>3, <5>1, <5>2
      <4>6. SumFunctionOnSet(f, R) \in Int
        BY <3>2, <4>3, SumPicks
      <4>7. f[x] \in Int /\ f[y] \in Int
        BY <3>2, <3>3
      <4> QED
        BY <3>3, <4>4, <4>5, <4>6, <4>7
    <3> QED
      BY <3>4, <3>5
  <2> QED
    BY <2>1
<1>4. \A n \in Nat : n \in D
  <2> HIDE DEF D
  <2>1. D \subseteq Nat
    BY DEF D
  <2> QED
    BY <1>2, <1>3, <2>1, NumberInduction
<1>5. Good(S)
  BY <1>1, <1>4
<1> QED
  BY <1>5

-----------------------------------------------------------------------------
(* What the sums of the models need *)

LEMMA SumType ==
    ASSUME NEW S, IsFiniteSet(S), NEW f, \A x \in S : f[x] \in Int
    PROVE  SumFunctionOnSet(f, S) \in Int
  BY SumPicks

LEMMA SumOfNothing ==
    ASSUME NEW f
    PROVE  SumFunctionOnSet(f, {}) = 0
  BY SumPicks, FS_EmptySet

LEMMA SumGrows ==
    ASSUME NEW S, IsFiniteSet(S), NEW a, a \notin S, NEW f, \A x \in S \cup {a} : f[x] \in Int
    PROVE  SumFunctionOnSet(f, S \cup {a}) = SumFunctionOnSet(f, S) + f[a]
<1>1. IsFiniteSet(S \cup {a}) /\ (S \cup {a}) \ {a} = S
  BY FS_AddElement
<1>2. SumFunctionOnSet(f, S \cup {a}) = f[a] + SumFunctionOnSet(f, S)
  BY <1>1, SumTakes
<1>3. SumFunctionOnSet(f, S) \in Int /\ f[a] \in Int
  BY SumType
<1> QED
  BY <1>2, <1>3

\* Sums over the same set are compared term by term.
LEMMA SumsCompare ==
    ASSUME NEW S, IsFiniteSet(S), NEW f, NEW h,
           \A x \in S : f[x] \in Int /\ h[x] \in Int /\ f[x] <= h[x]
    PROVE  SumFunctionOnSet(f, S) <= SumFunctionOnSet(h, S)
<1> DEFINE C == {T \in SUBSET S : SumFunctionOnSet(f, T) <= SumFunctionOnSet(h, T)}
<1>1. {} \in C
  BY SumOfNothing
<1>2. ASSUME NEW T \in C, NEW a \in S \ T
      PROVE  T \cup {a} \in C
  <2>1. IsFiniteSet(T) /\ T \subseteq S
    BY FS_Subset
  <2>2. /\ SumFunctionOnSet(f, T \cup {a}) = SumFunctionOnSet(f, T) + f[a]
        /\ SumFunctionOnSet(h, T \cup {a}) = SumFunctionOnSet(h, T) + h[a]
    BY <2>1, SumGrows
  <2>3. SumFunctionOnSet(f, T) \in Int /\ SumFunctionOnSet(h, T) \in Int
    BY <2>1, SumType
  <2>4. SumFunctionOnSet(f, T) <= SumFunctionOnSet(h, T) /\ f[a] <= h[a] /\ f[a] \in Int
        /\ h[a] \in Int
    OBVIOUS
  <2>5. SumFunctionOnSet(f, T \cup {a}) <= SumFunctionOnSet(h, T \cup {a})
    BY <2>2, <2>3, <2>4
  <2> QED
    BY <2>5
<1>3. S \in C
  <2> HIDE DEF C
  <2>1. C \subseteq SUBSET S
    BY DEF C
  <2> QED
    BY <1>1, <1>2, <2>1, SubsetInduction
<1> QED
  BY <1>3

LEMMA SumsEqual ==
    ASSUME NEW S, IsFiniteSet(S), NEW f, NEW h, \A x \in S : f[x] \in Int /\ h[x] = f[x]
    PROVE  SumFunctionOnSet(h, S) = SumFunctionOnSet(f, S)
<1>1. SumFunctionOnSet(h, S) \in Int /\ SumFunctionOnSet(f, S) \in Int
  BY SumType
<1>2. /\ SumFunctionOnSet(f, S) <= SumFunctionOnSet(h, S)
      /\ SumFunctionOnSet(h, S) <= SumFunctionOnSet(f, S)
  BY SumsCompare
<1> QED
  BY <1>1, <1>2

LEMMA SumIsNatural ==
    ASSUME NEW S, IsFiniteSet(S), NEW f, \A x \in S : f[x] \in Nat
    PROVE  SumFunctionOnSet(f, S) \in Nat
<1> DEFINE C == {T \in SUBSET S : SumFunctionOnSet(f, T) \in Nat}
<1>1. {} \in C
  BY SumOfNothing
<1>2. ASSUME NEW T \in C, NEW a \in S \ T
      PROVE  T \cup {a} \in C
  <2>1. IsFiniteSet(T) /\ a \notin T /\ \A x \in T \cup {a} : f[x] \in Int
    BY FS_Subset
  <2>2. SumFunctionOnSet(f, T \cup {a}) = SumFunctionOnSet(f, T) + f[a]
    BY <2>1, SumGrows
  <2> QED
    BY <2>2
<1>3. S \in C
  <2> HIDE DEF C
  <2>1. C \subseteq SUBSET S
    BY DEF C
  <2> QED
    BY <1>1, <1>2, <2>1, SubsetInduction
<1> QED
  BY <1>3

\* The sum over a set is that over a part of it and that over the rest.
LEMMA SumSplits ==
    ASSUME NEW S, IsFiniteSet(S), NEW R \in SUBSET S, NEW f, \A x \in S : f[x] \in Int
    PROVE  SumFunctionOnSet(f, S) = SumFunctionOnSet(f, R) + SumFunctionOnSet(f, S \ R)
<1> DEFINE rest == S \ R
           C == {T \in SUBSET rest :
                    SumFunctionOnSet(f, R \cup T)
                       = SumFunctionOnSet(f, R) + SumFunctionOnSet(f, T)}
<1>1. IsFiniteSet(rest) /\ IsFiniteSet(R)
  BY FS_Subset
<1>2. {} \in C
  <2>1. R \cup {} = R /\ SumFunctionOnSet(f, R) \in Int
    BY <1>1, SumType
  <2> QED
    BY <2>1, SumOfNothing
<1>3. ASSUME NEW T \in C, NEW a \in rest \ T
      PROVE  T \cup {a} \in C
  <2>1. IsFiniteSet(T) /\ IsFiniteSet(R \cup T) /\ a \notin R \cup T
    BY <1>1, FS_Subset
  <2>2. SumFunctionOnSet(f, T \cup {a}) = SumFunctionOnSet(f, T) + f[a]
    BY <2>1, SumGrows
  <2>3. SumFunctionOnSet(f, (R \cup T) \cup {a}) = SumFunctionOnSet(f, R \cup T) + f[a]
    BY <2>1, SumGrows
  <2>4. (R \cup T) \cup {a} = R \cup (T \cup {a})
    OBVIOUS
  <2>5. SumFunctionOnSet(f, R) \in Int /\ SumFunctionOnSet(f, T) \in Int /\ f[a] \in Int
    BY <1>1, <2>1, SumType
  <2>6. SumFunctionOnSet(f, R \cup T) = SumFunctionOnSet(f, R) + SumFunctionOnSet(f, T)
    OBVIOUS
  <2>7. SumFunctionOnSet(f, R \cup (T \cup {a}))
          = SumFunctionOnSet(f, R) + SumFunctionOnSet(f, T \cup {a})
    <3> HIDE DEF C, rest
    <3>1. SumFunctionOnSet(f, R \cup (T \cup {a})) = SumFunctionOnSet(f, R \cup T) + f[a]
      BY <2>3, <2>4, Zenon
    <3> QED
      BY <2>2, <2>5, <2>6, <3>1
  <2> QED
    BY <2>7
<1>4. rest \in C
  <2> HIDE DEF C, rest
  <2>1. C \subseteq SUBSET rest
    BY DEF C
  <2> QED
    BY <1>1, <1>2, <1>3, <2>1, SubsetInduction
<1>5. R \cup rest = S
  OBVIOUS
<1> QED
  BY <1>4, <1>5

\* A part of naturals comes to at most the whole; elements without value do not count.
LEMMA SumOfPart ==
    ASSUME NEW S, IsFiniteSet(S), NEW R \in SUBSET S, NEW f, \A x \in S : f[x] \in Nat
    PROVE  /\ SumFunctionOnSet(f, R) <= SumFunctionOnSet(f, S)
           /\ (\A x \in S \ R : f[x] = 0) => SumFunctionOnSet(f, R) = SumFunctionOnSet(f, S)
<1>1. SumFunctionOnSet(f, S) = SumFunctionOnSet(f, R) + SumFunctionOnSet(f, S \ R)
  BY SumSplits
<1>2. IsFiniteSet(R) /\ IsFiniteSet(S \ R)
  BY FS_Subset
<1>3. SumFunctionOnSet(f, R) \in Nat /\ SumFunctionOnSet(f, S \ R) \in Nat
  BY <1>2, SumIsNatural
<1>4. ASSUME \A x \in S \ R : f[x] = 0
      PROVE  SumFunctionOnSet(f, S \ R) = 0
  <2> DEFINE zero == [x \in S |-> 0]
             C == {T \in SUBSET (S \ R) : SumFunctionOnSet(f, T) = 0}
  <2>1. {} \in C
    BY SumOfNothing
  <2>2. ASSUME NEW T \in C, NEW a \in (S \ R) \ T
        PROVE  T \cup {a} \in C
    <3>1. IsFiniteSet(T) /\ a \notin T /\ \A x \in T \cup {a} : f[x] \in Int
      BY FS_Subset
    <3>2. SumFunctionOnSet(f, T \cup {a}) = SumFunctionOnSet(f, T) + f[a]
      BY <3>1, SumGrows
    <3> QED
      BY <1>4, <3>2
  <2>3. (S \ R) \in C
    <3> HIDE DEF C
    <3>1. C \subseteq SUBSET (S \ R)
      BY DEF C
    <3> QED
      BY <1>2, <2>1, <2>2, <3>1, SubsetInduction
  <2> QED
    BY <2>3
<1> QED
  BY <1>1, <1>3, <1>4

\* Two sums over a set are the sum of the terms.
LEMMA SumsAdd ==
    ASSUME NEW S, IsFiniteSet(S), NEW f, NEW g, NEW h,
           \A x \in S : f[x] \in Int /\ g[x] \in Int /\ h[x] = f[x] + g[x]
    PROVE  SumFunctionOnSet(h, S) = SumFunctionOnSet(f, S) + SumFunctionOnSet(g, S)
<1> DEFINE C == {T \in SUBSET S : SumFunctionOnSet(h, T)
                                    = SumFunctionOnSet(f, T) + SumFunctionOnSet(g, T)}
<1>1. {} \in C
  BY SumOfNothing
<1>2. ASSUME NEW T \in C, NEW a \in S \ T
      PROVE  T \cup {a} \in C
  <2>1. /\ IsFiniteSet(T) /\ a \notin T
        /\ \A x \in T \cup {a} : f[x] \in Int /\ g[x] \in Int /\ h[x] \in Int
    BY FS_Subset
  <2>2. /\ SumFunctionOnSet(f, T \cup {a}) = SumFunctionOnSet(f, T) + f[a]
        /\ SumFunctionOnSet(g, T \cup {a}) = SumFunctionOnSet(g, T) + g[a]
        /\ SumFunctionOnSet(h, T \cup {a}) = SumFunctionOnSet(h, T) + h[a]
    BY <2>1, SumGrows
  <2>3. SumFunctionOnSet(f, T) \in Int /\ SumFunctionOnSet(g, T) \in Int
    BY <2>1, SumType
  <2>4. /\ SumFunctionOnSet(h, T) = SumFunctionOnSet(f, T) + SumFunctionOnSet(g, T)
        /\ f[a] \in Int /\ g[a] \in Int /\ h[a] = f[a] + g[a]
    OBVIOUS
  <2>5. SumFunctionOnSet(h, T \cup {a})
          = SumFunctionOnSet(f, T \cup {a}) + SumFunctionOnSet(g, T \cup {a})
    BY <2>2, <2>3, <2>4
  <2> QED
    BY <2>5
<1>3. S \in C
  <2> HIDE DEF C
  <2>1. C \subseteq SUBSET S
    BY DEF C
  <2> QED
    BY <1>1, <1>2, <2>1, SubsetInduction
<1> QED
  BY <1>3

-----------------------------------------------------------------------------
(* The flattening of a sequence of sequences *)

\* The first n elements of s, one after the other.
FlatBody(s, f, i) == IF i = 1 THEN s[i] ELSE f[i - 1] \o s[i]
AreFlat(s, n, f) == f = [i \in 1 .. n |-> FlatBody(s, f, i)]
FlatsOf(s) == CHOOSE f : AreFlat(s, Len(s), f)
FlatUpTo(s, n) == IF n = 0 THEN << >> ELSE FlatsOf(s)[n]

LEMMA FlatsExist ==
    ASSUME NEW X, NEW s \in Seq(Seq(X))
    PROVE  \E f \in [1 .. Len(s) -> Seq(X)] : AreFlat(s, Len(s), f)
<1> DEFINE D == {n \in Nat : n <= Len(s) => \E f \in [1 .. n -> Seq(X)] : AreFlat(s, n, f)}
<1>0. Len(s) \in Nat /\ \A i \in 1 .. Len(s) : s[i] \in Seq(X)
  OBVIOUS
<1>1. 0 \in D
  <2> DEFINE f == [i \in 1 .. 0 |-> << >>]
  <2>1. 1 .. 0 = {}
    OBVIOUS
  <2>2. f \in [1 .. 0 -> Seq(X)] /\ AreFlat(s, 0, f)
    BY <2>1 DEF AreFlat
  <2> QED
    BY <2>2
<1>2. ASSUME NEW n \in D
      PROVE  n + 1 \in D
  <2> SUFFICES ASSUME n + 1 <= Len(s)
               PROVE  \E f \in [1 .. n + 1 -> Seq(X)] : AreFlat(s, n + 1, f)
    OBVIOUS
  <2>1. PICK f \in [1 .. n -> Seq(X)] : AreFlat(s, n, f)
    BY <1>0
  <2>2. \A i \in 1 .. n : f[i] = FlatBody(s, f, i)
    BY <2>1 DEF AreFlat
  <2> DEFINE h == [i \in 1 .. n + 1 |-> IF i = n + 1 THEN FlatBody(s, f, i) ELSE f[i]]
  <2>3. FlatBody(s, f, n + 1) \in Seq(X)
    <3>1. n + 1 \in 1 .. Len(s) /\ (n + 1 # 1 => (n + 1) - 1 \in 1 .. n)
      OBVIOUS
    <3>2. s[n + 1] \in Seq(X) /\ (n + 1 # 1 => f[(n + 1) - 1] \in Seq(X))
      BY <1>0, <3>1
    <3> QED
      BY <3>2 DEF FlatBody
  <2>4. \A i \in 1 .. n + 1 : i # n + 1 => i \in 1 .. n
    OBVIOUS
  <2>5. h \in [1 .. n + 1 -> Seq(X)]
    BY <2>3, <2>4
  <2>6. ASSUME NEW i \in 1 .. n + 1
        PROVE  h[i] = FlatBody(s, h, i)
    <3>1. i # 1 => i - 1 \in 1 .. n + 1 /\ i - 1 # n + 1
      OBVIOUS
    <3>2. FlatBody(s, h, i) = FlatBody(s, f, i)
      BY <3>1 DEF FlatBody
    <3> QED
      BY <2>2, <2>4, <3>2
  <2>7. h = [i \in 1 .. n + 1 |-> h[i]]
    OBVIOUS
  <2>8. h = [i \in 1 .. n + 1 |-> FlatBody(s, h, i)]
    <3> HIDE DEF h
    <3> QED
      BY <2>6, <2>7
  <2> QED
    BY <2>5, <2>8 DEF AreFlat
<1>3. \A n \in Nat : n \in D
  <2> HIDE DEF D
  <2>1. D \in SUBSET Nat
    BY DEF D
  <2> QED
    BY <1>1, <1>2, <2>1, NumberInduction
<1> QED
  BY <1>0, <1>3

\* Each element is appended to those before it.
LEMMA FlattensOneByOne ==
    ASSUME NEW X, NEW s \in Seq(Seq(X))
    PROVE  /\ FlatUpTo(s, 0) = << >>
           /\ \A n \in 0 .. Len(s) : FlatUpTo(s, n) \in Seq(X)
           /\ \A n \in Nat : n < Len(s) => FlatUpTo(s, n + 1) = FlatUpTo(s, n) \o s[n + 1]
           /\ FlattenSeq(s) = FlatUpTo(s, Len(s))
<1> DEFINE f == FlatsOf(s)
<1>0. Len(s) \in Nat /\ \A i \in 1 .. Len(s) : s[i] \in Seq(X)
  OBVIOUS
<1>1. AreFlat(s, Len(s), f)
  BY FlatsExist DEF FlatsOf
<1> HIDE DEF f
<1>2. \A i \in 1 .. Len(s) : f[i] = FlatBody(s, f, i)
  BY <1>1 DEF AreFlat
<1>3. \A n \in 1 .. Len(s) : f[n] \in Seq(X)
  <2> DEFINE D == {n \in Nat : n + 1 <= Len(s) => f[n + 1] \in Seq(X)}
  <2>1. 0 \in D
    BY <1>0, <1>2 DEF FlatBody
  <2>2. ASSUME NEW n \in D
        PROVE  n + 1 \in D
    <3> SUFFICES ASSUME (n + 1) + 1 <= Len(s)
                 PROVE  f[(n + 1) + 1] \in Seq(X)
      OBVIOUS
    <3>1. /\ (n + 1) + 1 \in 1 .. Len(s) /\ (n + 1) + 1 # 1
          /\ ((n + 1) + 1) - 1 = n + 1 /\ n + 1 <= Len(s)
      BY <1>0
    <3>2. f[n + 1] \in Seq(X) /\ s[(n + 1) + 1] \in Seq(X)
      BY <1>0, <3>1
    <3>3. f[(n + 1) + 1] = f[n + 1] \o s[(n + 1) + 1]
      BY <1>2, <3>1 DEF FlatBody
    <3> QED
      BY <3>2, <3>3
  <2>3. \A n \in Nat : n \in D
    <3> HIDE DEF D
    <3>1. D \in SUBSET Nat
      BY DEF D
    <3> QED
      BY <2>1, <2>2, <3>1, NumberInduction
  <2> SUFFICES ASSUME NEW n \in 1 .. Len(s) PROVE f[n] \in Seq(X)
    OBVIOUS
  <2>4. n - 1 \in Nat /\ (n - 1) + 1 = n /\ n <= Len(s)
    BY <1>0
  <2> QED
    BY <2>3, <2>4
<1>4. \A n \in 0 .. Len(s) : FlatUpTo(s, n) \in Seq(X)
  BY <1>0, <1>3 DEF FlatUpTo, f
<1>5. ASSUME NEW n \in Nat, n < Len(s)
      PROVE  FlatUpTo(s, n + 1) = FlatUpTo(s, n) \o s[n + 1]
  <2>1. n + 1 \in 1 .. Len(s) /\ n + 1 # 0 /\ (n + 1) - 1 = n
    BY <1>0, <1>5
  <2>2. FlatUpTo(s, n + 1) = FlatBody(s, f, n + 1)
    BY <1>2, <2>1 DEF FlatUpTo, f
  <2>3. CASE n = 0
    <3>1. FlatUpTo(s, n) = << >> /\ FlatUpTo(s, n + 1) = s[n + 1]
      BY <2>2, <2>3 DEF FlatUpTo, FlatBody
    <3>2. s[n + 1] \in Seq(X)
      BY <1>0, <2>1
    <3>3. << >> \o s[n + 1] = s[n + 1]
      BY <3>2
    <3> QED
      BY <3>1, <3>3
  <2>4. CASE n # 0
    <3>0. n + 1 # 1
      BY <2>4
    <3>1. FlatUpTo(s, n + 1) = f[(n + 1) - 1] \o s[n + 1]
      BY <2>2, <3>0 DEF FlatBody
    <3>2. FlatUpTo(s, n) = f[n]
      BY <2>4 DEF FlatUpTo, f
    <3> QED
      BY <2>1, <3>1, <3>2
  <2> QED
    BY <2>3, <2>4
<1>6. FlattenSeq(s) = FlatUpTo(s, Len(s))
  <2>1. CASE Len(s) = 0
    BY <2>1 DEF FlattenSeq, FlatUpTo
  <2>2. CASE Len(s) # 0
    BY <2>2 DEF FlattenSeq, FlatUpTo, FlatsOf, AreFlat, FlatBody
  <2> QED
    BY <2>1, <2>2
<1>7. FlatUpTo(s, 0) = << >>
  BY DEF FlatUpTo
<1> QED
  BY <1>4, <1>5, <1>6, <1>7
=============================================================================
