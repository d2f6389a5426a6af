------------------------------- MODULE SumFacts -------------------------------
(***************************************************************************)
(* Sums over finite sets: what MapThenSumSet of the community modules      *)
(* returns.                                                                *)
(***************************************************************************)
EXTENDS Integers, FiniteSets, FiniteSetsExt, FiniteSetTheorems, WellFoundedInduction, TLAPS

\* Induction over the numbers, of a set instead of a predicate.
LEMMA NatSet ==
    ASSUME NEW L \in SUBSET Nat, 0 \in L, \A n \in L : n + 1 \in L
    PROVE  L = Nat
<1> SUFFICES ASSUME Nat \ L # {} PROVE FALSE
  OBVIOUS
<1>1. PICK x \in Nat \ L : \A y \in Nat \ L : ~(<<y, x>> \in OpToRel(<, Nat))
  <2>1. IsWellFoundedOn(OpToRel(<, Nat), Nat)
    BY NatLessThanWellFounded
  <2>2. Nat \ L \subseteq Nat
    OBVIOUS
  <2> QED
    BY <2>1, <2>2, WFMin
<1>2. \A y \in Nat \ L : ~(y < x)
  BY <1>1 DEF OpToRel
<1>3. x # 0 /\ x - 1 \in L
  BY <1>2
<1>4. x = (x - 1) + 1
  OBVIOUS
<1> QED
  BY <1>3, <1>4

Chosen(s) == CHOOSE x \in s : TRUE

\* What CHOOSE takes from a set that is not empty is in it.
LEMMA ChosenIn == \A s : s # {} => Chosen(s) \in s
BY DEF Chosen

SumStep(g, F, s) == IF s = {} THEN 0 ELSE g[Chosen(s)] + F[s \ {Chosen(s)}]

\* There is a function that sums g over every subset of S: one element after the other.
LEMMA SumExists ==
    ASSUME NEW S, IsFiniteSet(S), NEW g
    PROVE  \E F : F = [s \in SUBSET S |-> SumStep(g, F, s)]
<1> DEFINE Upto(F, n) == \A s \in SUBSET S : Cardinality(s) <= n => F[s] = SumStep(g, F, s)
           L == {n \in Nat : \E F : Upto(F, n)}
<1>0. \A s \in SUBSET S : IsFiniteSet(s) /\ Cardinality(s) \in Nat
  BY FS_Subset, FS_CardinalityType
<1>1. 0 \in L
  <2> DEFINE F == [s \in SUBSET S |-> 0]
  <2>1. ASSUME NEW s \in SUBSET S, Cardinality(s) <= 0 PROVE F[s] = SumStep(g, F, s)
    <3>1. s = {}
      BY <1>0, <2>1, FS_EmptySet
    <3> QED
      BY <3>1 DEF SumStep
  <2> HIDE DEF F
  <2> QED
    BY <2>1
<1>2. ASSUME NEW n \in L PROVE n + 1 \in L
  <2>1. PICK F : Upto(F, n)
    OBVIOUS
  <2> DEFINE G == [s \in SUBSET S |-> SumStep(g, F, s)]
  <2>2. ASSUME NEW s \in SUBSET S, Cardinality(s) <= n + 1 PROVE G[s] = SumStep(g, G, s)
    <3>1. CASE s = {}
      BY <3>1 DEF SumStep
    <3>2. CASE s # {}
      <4> DEFINE t == s \ {Chosen(s)}
      <4>1. t \in SUBSET S /\ Cardinality(t) <= n
        BY <1>0, <2>2, <3>2, ChosenIn, FS_RemoveElement
      <4>2. G[t] = F[t]
        BY <2>1, <4>1
      <4> QED
        BY <3>2, <4>2 DEF SumStep
    <3> QED
      BY <3>1, <3>2
  <2> HIDE DEF G
  <2> QED
    BY <2>2
<1>3. Cardinality(S) \in L
  <2>1. L \in SUBSET Nat
    OBVIOUS
  <2>2. \A n \in L : n + 1 \in L
    BY <1>2
  <2>3. Cardinality(S) \in Nat
    BY <1>0
  <2> HIDE DEF L
  <2> QED
    BY <1>1, <2>1, <2>2, <2>3, NatSet
<1>4. PICK F : Upto(F, Cardinality(S))
  BY <1>3
<1> DEFINE G == [s \in SUBSET S |-> SumStep(g, F, s)]
<1>5. \A s \in SUBSET S : F[s] = SumStep(g, F, s)
  BY <1>4, FS_Subset
<1>6. ASSUME NEW s \in SUBSET S PROVE SumStep(g, F, s) = SumStep(g, G, s)
  <2>1. s # {} => s \ {Chosen(s)} \in SUBSET S
    OBVIOUS
  <2> QED
    BY <1>5, <2>1 DEF SumStep
<1> QED
  BY <1>6

\* A sum of g over S is what some function says of S that sums g over all subsets.
Sums(g, S, F) == F = [s \in SUBSET S |-> SumStep(g, F, s)]

\* ... and Sums says so.
LEMMA SumsExist ==
    ASSUME NEW S, IsFiniteSet(S), NEW g
    PROVE  \E F : Sums(g, S, F)
BY SumExists DEF Sums

Sigma(g, S) == MapThenSumSet(LAMBDA c : g[c], S)

\* MapThenSumSet is what such a function says of S.
LEMMA SumIsSums ==
    ASSUME NEW S, IsFiniteSet(S), NEW g
    PROVE  \E F : Sums(g, S, F) /\ Sigma(g, S) = F[S]
<1>1. \E F : F = [s \in SUBSET S |-> IF s = {} THEN 0
                                    ELSE g[Chosen(s)] + F[s \ {Chosen(s)}]]
  <2>1. PICK F : F = [s \in SUBSET S |-> SumStep(g, F, s)]
    BY SumExists
  <2> QED
    BY <2>1 DEF SumStep
<1>2. \E F : /\ F = [s \in SUBSET S |-> IF s = {} THEN 0
                                    ELSE g[Chosen(s)] + F[s \ {Chosen(s)}]]
             /\ Sigma(g, S) = F[S]
  BY <1>1 DEF Sigma, MapThenSumSet, MapThenFoldSet, Chosen
<1> QED
  BY <1>2 DEF Sums, SumStep

\* What holds of a subset if it holds of all that lack one of its elements holds of
\* every subset.
LEMMA SubsetInduction ==
    ASSUME NEW S, IsFiniteSet(S), NEW Z,
           \A s \in SUBSET S : (\A x \in s : s \ {x} \in Z) => s \in Z
    PROVE  SUBSET S \subseteq Z
<1> DEFINE L == {n \in Nat : \A s \in SUBSET S : Cardinality(s) = n => s \in Z}
<1>1. \A s \in SUBSET S : IsFiniteSet(s) /\ Cardinality(s) \in Nat
  BY FS_Subset, FS_CardinalityType
<1>2. 0 \in L
  <2> SUFFICES ASSUME NEW s \in SUBSET S, Cardinality(s) = 0 PROVE s \in Z
    OBVIOUS
  <2>1. s = {}
    BY <1>1, FS_EmptySet
  <2> QED
    BY <2>1
<1>3. ASSUME NEW n \in L PROVE n + 1 \in L
  <2> SUFFICES ASSUME NEW s \in SUBSET S, Cardinality(s) = n + 1 PROVE s \in Z
    OBVIOUS
  <2>1. \A x \in s : s \ {x} \in SUBSET S /\ Cardinality(s \ {x}) = n
    BY <1>1, FS_RemoveElement
  <2> QED
    BY <2>1
<1>4. L = Nat
  <2>1. L \in SUBSET Nat
    OBVIOUS
  <2>2. \A n \in L : n + 1 \in L
    BY <1>3
  <2> HIDE DEF L
  <2> QED
    BY <1>2, <2>1, <2>2, NatSet
<1> QED
  BY <1>1, <1>4

\* Sums of integers are integers.
LEMMA SumsInt ==
    ASSUME NEW S, IsFiniteSet(S), NEW g, \A c \in S : g[c] \in Int, NEW F, Sums(g, S, F)
    PROVE  \A s \in SUBSET S : F[s] \in Int
<1> DEFINE Z == {s \in SUBSET S : F[s] \in Int}
<1>1. \A s \in SUBSET S : F[s] = SumStep(g, F, s)
  BY DEF Sums
<1>2. ASSUME NEW s \in SUBSET S, \A x \in s : s \ {x} \in Z PROVE s \in Z
  <2>1. CASE s = {}
    <3>1. F[s] = 0
      BY <1>1, <2>1 DEF SumStep
    <3> QED
      BY <3>1
  <2>2. CASE s # {}
    <3>1. Chosen(s) \in s /\ F[s] = g[Chosen(s)] + F[s \ {Chosen(s)}]
      BY <1>1, <2>2, ChosenIn DEF SumStep
    <3> QED
      BY <1>2, <3>1
  <2> QED
    BY <2>1, <2>2
<1> HIDE DEF Z
<1>3. SUBSET S \subseteq Z
  BY <1>2, SubsetInduction
<1> QED
  BY <1>3 DEF Z

\* Sums of natural numbers are natural numbers.
LEMMA SumsNat ==
    ASSUME NEW S, IsFiniteSet(S), NEW g, \A c \in S : g[c] \in Nat, NEW F, Sums(g, S, F)
    PROVE  \A s \in SUBSET S : F[s] \in Nat
<1> DEFINE Z == {s \in SUBSET S : F[s] \in Nat}
<1>1. \A s \in SUBSET S : F[s] = SumStep(g, F, s)
  BY DEF Sums
<1>2. ASSUME NEW s \in SUBSET S, \A x \in s : s \ {x} \in Z PROVE s \in Z
  <2>1. CASE s = {}
    <3>1. F[s] = 0
      BY <1>1, <2>1 DEF SumStep
    <3> QED
      BY <3>1
  <2>2. CASE s # {}
    <3>1. Chosen(s) \in s /\ F[s] = g[Chosen(s)] + F[s \ {Chosen(s)}]
      BY <1>1, <2>2, ChosenIn DEF SumStep
    <3> QED
      BY <1>2, <3>1
  <2> QED
    BY <2>1, <2>2
<1> HIDE DEF Z
<1>3. SUBSET S \subseteq Z
  BY <1>2, SubsetInduction
<1> QED
  BY <1>3 DEF Z

\* Whichever element is taken first.
LEMMA SumsSplit ==
    ASSUME NEW S, IsFiniteSet(S), NEW g, \A c \in S : g[c] \in Int, NEW F, Sums(g, S, F)
    PROVE  \A s \in SUBSET S : \A x \in s : F[s] = g[x] + F[s \ {x}]
<1> DEFINE Splits(s) == \A x \in s : F[s] = g[x] + F[s \ {x}]
           Z == {s \in SUBSET S : Splits(s)}
<1>1. \A s \in SUBSET S : F[s] = SumStep(g, F, s)
  BY DEF Sums
<1>2. ASSUME NEW s \in SUBSET S, \A x \in s : s \ {x} \in Z PROVE s \in Z
  <2> DEFINE c == Chosen(s)
  <2> SUFFICES ASSUME NEW x \in s PROVE F[s] = g[x] + F[s \ {x}]
    OBVIOUS
  <2>1. c \in s /\ F[s] = g[c] + F[s \ {c}]
    BY <1>1, ChosenIn DEF SumStep
  <2> HIDE DEF c
  <2>2. CASE x = c
    BY <2>1, <2>2
  <2>3. CASE x # c
    <3> DEFINE u == (s \ {c}) \ {x}
               sc == s \ {c}
               sx == s \ {x}
    <3>1. u = (s \ {x}) \ {c}
      OBVIOUS
    <3>2. sc \in Z /\ x \in sc /\ sx \in Z /\ c \in sx
      BY <1>2, <2>1, <2>3
    <3>3. F[sc] = g[x] + F[u]
      BY <3>2
    <3>4. F[sx] = g[c] + F[u]
      BY <3>1, <3>2
    <3>5. F[s] = g[c] + F[sc]
      BY <2>1
    <3>6. u \in SUBSET S /\ x \in S /\ c \in S
      BY <2>1
    <3>7. F[u] \in Int /\ g[x] \in Int /\ g[c] \in Int
      BY <3>6, SumsInt
    <3>8. F[s] = g[x] + F[sx]
      <4> HIDE DEF u, sc, sx
      <4> QED
        BY <3>3, <3>4, <3>5, <3>7
    <3> QED
      BY <3>8
  <2> QED
    BY <2>2, <2>3
<1> HIDE DEF Z
<1>3. SUBSET S \subseteq Z
  BY <1>2, SubsetInduction
<1> QED
  BY <1>3 DEF Z

\* Functions that agree have the same sum.
LEMMA SumsAgree ==
    ASSUME NEW S, IsFiniteSet(S), NEW T \in SUBSET S,
           NEW g, NEW h, \A c \in T : g[c] = h[c],
           NEW F, Sums(g, S, F), NEW G, Sums(h, S, G)
    PROVE  F[T] = G[T]
<1> DEFINE Z == {s \in SUBSET T : F[s] = G[s]}
<1>1. \A s \in SUBSET T : F[s] = SumStep(g, F, s) /\ G[s] = SumStep(h, G, s)
  BY DEF Sums
<1>2. \A s \in SUBSET T : (\A x \in s : s \ {x} \in Z) => s \in Z
  BY <1>1, ChosenIn DEF SumStep
<1>3. IsFiniteSet(T)
  BY FS_Subset
<1> HIDE DEF Z
<1>4. SUBSET T \subseteq Z
  BY <1>2, <1>3, SubsetInduction
<1> QED
  BY <1>4 DEF Z

-----------------------------------------------------------------------------
\* The same facts about Sigma, which is MapThenSumSet.
LEMMA SigmaInt ==
    ASSUME NEW S, IsFiniteSet(S), NEW g, \A c \in S : g[c] \in Int
    PROVE  Sigma(g, S) \in Int
<1>1. PICK F : Sums(g, S, F) /\ Sigma(g, S) = F[S]
  BY SumIsSums
<1> QED
  BY <1>1, SumsInt

\* Nat is closed under Sigma.
LEMMA SigmaNat ==
    ASSUME NEW S, IsFiniteSet(S), NEW g, \A c \in S : g[c] \in Nat
    PROVE  Sigma(g, S) \in Nat
<1>1. PICK F : Sums(g, S, F) /\ Sigma(g, S) = F[S]
  BY SumIsSums
<1> QED
  BY <1>1, SumsNat

\* Sigma sees of g what g is on S.
LEMMA SigmaSame ==
    ASSUME NEW S, IsFiniteSet(S), NEW g, NEW h, \A c \in S : g[c] = h[c]
    PROVE  Sigma(g, S) = Sigma(h, S)
<1>1. PICK F : Sums(g, S, F) /\ Sigma(g, S) = F[S]
  BY SumIsSums
<1>2. PICK G : Sums(h, S, G) /\ Sigma(h, S) = G[S]
  BY SumIsSums
<1> QED
  BY <1>1, <1>2, SumsAgree

\* Nothing but zeros sums up to zero.
LEMMA SigmaZero ==
    ASSUME NEW S, IsFiniteSet(S), NEW g, \A c \in S : g[c] = 0
    PROVE  Sigma(g, S) = 0
<1>1. PICK F : Sums(g, S, F) /\ Sigma(g, S) = F[S]
  BY SumIsSums
<1> DEFINE Z == {s \in SUBSET S : F[s] = 0}
<1>2. \A s \in SUBSET S : F[s] = SumStep(g, F, s)
  BY <1>1 DEF Sums
<1>3. ASSUME NEW s \in SUBSET S, \A x \in s : s \ {x} \in Z PROVE s \in Z
  <2>1. CASE s = {}
    BY <1>2, <2>1 DEF SumStep
  <2>2. CASE s # {}
    <3>1. Chosen(s) \in s /\ F[s] = g[Chosen(s)] + F[s \ {Chosen(s)}]
      BY <1>2, <2>2, ChosenIn DEF SumStep
    <3> QED
      BY <1>3, <3>1
  <2> QED
    BY <2>1, <2>2
<1> HIDE DEF Z
<1>4. SUBSET S \subseteq Z
  BY <1>3, SubsetInduction
<1> QED
  BY <1>1, <1>4 DEF Z

\* A change at one place changes the sum by as much.
LEMMA SigmaChange ==
    ASSUME NEW S, IsFiniteSet(S), NEW x \in S, NEW g, NEW h,
           \A c \in S : g[c] \in Int /\ h[c] \in Int,
           \A c \in S \ {x} : g[c] = h[c]
    PROVE  Sigma(h, S) = Sigma(g, S) + (h[x] - g[x])
<1>1. PICK F : Sums(g, S, F) /\ Sigma(g, S) = F[S]
  BY SumIsSums
<1>2. PICK G : Sums(h, S, G) /\ Sigma(h, S) = G[S]
  BY SumIsSums
<1>0. /\ \A c \in S : g[c] \in Int
      /\ \A c \in S : h[c] \in Int
  OBVIOUS
<1>3. F[S] = g[x] + F[S \ {x}]
  <2>1. Sums(g, S, F)
    BY <1>1
  <2>2. \A c \in S : g[c] \in Int
    BY <1>0
  <2> QED
    BY <2>1, <2>2, SumsSplit
<1>4. G[S] = h[x] + G[S \ {x}]
  BY <1>0, <1>2, SumsSplit
<1>5. F[S \ {x}] = G[S \ {x}]
  BY <1>1, <1>2, SumsAgree
<1>6. F[S \ {x}] \in Int
  BY <1>0, <1>1, SumsInt
<1> QED
  BY <1>0, <1>1, <1>2, <1>3, <1>4, <1>5, <1>6
=============================================================================
