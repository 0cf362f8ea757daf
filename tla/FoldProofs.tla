------------------------------ MODULE FoldProofs ------------------------------
(***************************************************************************)
(* Lemmas about the operators of the community modules that the models of  *)
(* the memory distribution and of the scheduling policies compute with.    *)
(* Sums, folds and concatenations are CHOOSEn solutions of an equation,    *)
(* shown here to exist and to go element by element.                       *)
(***************************************************************************)
EXTENDS SequencesExt, FiniteSetTheorems, SequenceTheorems, NaturalsInduction,
        WellFoundedInduction, TLAPS

(* Sums over finite sets.  MapThenSumSet chooses the elements in some order: a   *)
(* function on the subsets that obeys its equation exists, is the only one, and  *)
(* does not depend on the order.                                                 *)

Chosen(d) == CHOOSE x \in d : TRUE
SumOf(g, w, d) == IF d = {} THEN 0 ELSE w[Chosen(d)] + g[d \ {Chosen(d)}]
IsSum(g, w, S) == g = [d \in SUBSET S |-> SumOf(g, w, d)]
Small(S, n) == {d \in SUBSET S : Cardinality(d) <= n}
Total(w, S) == MapThenSumSet(LAMBDA x : w[x], S)

\* A set of natural numbers that is not empty has a least element.
LEMMA LeastNumber ==
    ASSUME NEW T \in SUBSET Nat, T # {}
    PROVE  \E x \in T : \A y \in T : x <= y
<1> DEFINE R == {ss \in Nat \X Nat : ss[1] < ss[2]}
<1>1. \E x \in T : \A y \in T : ~(<<y, x>> \in OpToRel(<, Nat))
  BY NatLessThanWellFounded, WFMin
<1>2. OpToRel(<, Nat) = R
  BY DEF OpToRel
<1>3. PICK x \in T : \A y \in T : ~(<<y, x>> \in R)
  BY <1>1, <1>2
<1>4. ASSUME NEW y \in T PROVE x <= y
  <2>1. ~(<<y, x>> \in R) /\ <<y, x>> \in Nat \X Nat
    BY <1>3
  <2>2. QED
    BY <2>1
<1>5. QED
  BY <1>4

\* The subset of a finite set that the equation of a sum looks at next.
LEMMA NextSubset ==
    ASSUME NEW S, IsFiniteSet(S), NEW d \in SUBSET S, NEW x \in d
    PROVE  /\ Chosen(d) \in d
           /\ d \ {x} \in SUBSET S
           /\ Cardinality(d) \in Nat /\ Cardinality(d \ {x}) = Cardinality(d) - 1
           /\ Cardinality(d \ {x}) \in Nat
<1>1. Chosen(d) \in d
  BY DEF Chosen
<1>2. IsFiniteSet(d)
  BY FS_Subset
<1>3. Cardinality(d) \in Nat /\ Cardinality(d \ {x}) = Cardinality(d) - 1
  BY <1>2, FS_CardinalityType, FS_RemoveElement
<1>4. IsFiniteSet(d \ {x})
  BY <1>2, FS_Subset
<1>5. Cardinality(d \ {x}) \in Nat
  BY <1>4, FS_CardinalityType
<1>6. QED
  BY <1>1, <1>3, <1>5

LEMMA SumExists ==
    ASSUME NEW w, NEW S, IsFiniteSet(S)
    PROVE  \E g : IsSum(g, w, S)
<1> DEFINE Layer(g, n) == g = [d \in Small(S, n) |-> SumOf(g, w, d)]
           Missing == {n \in Nat : ~\E g : Layer(g, n)}
<1>1. ASSUME NEW n \in Missing, \A k \in Missing : n <= k  PROVE FALSE
  <2>1. CASE n = 0
    <3>1. Small(S, 0) = {{}}
      <4>1. ASSUME NEW d \in Small(S, 0)  PROVE d = {}
        <5>1. IsFiniteSet(d) /\ d \in SUBSET S /\ Cardinality(d) <= 0
          BY FS_Subset DEF Small
        <5>2. QED
          BY <5>1, FS_CardinalityType, FS_EmptySet
      <4>2. {} \in Small(S, 0)
        BY FS_EmptySet DEF Small
      <4>3. QED
        BY <4>1, <4>2
    <3> DEFINE g == [d \in Small(S, 0) |-> 0]
    <3>2. Layer(g, 0)
      BY <3>1 DEF SumOf
    <3>3. QED
      BY <2>1, <3>2
  <2>2. CASE n # 0
    <3>1. n - 1 \in Nat /\ ~(n <= n - 1)
      BY <2>2
    <3>2. n - 1 \notin Missing
      BY <1>1, <3>1
    <3>3. PICK g : Layer(g, n - 1)
      BY <3>1, <3>2
    <3> DEFINE h == [d \in Small(S, n) |-> SumOf(g, w, d)]
    <3>4. ASSUME NEW d \in Small(S, n)  PROVE SumOf(g, w, d) = SumOf(h, w, d)
      <4>1. CASE d = {}
        BY <4>1 DEF SumOf
      <4>2. CASE d # {}
        <5>1. d \in SUBSET S /\ Cardinality(d) <= n
          BY DEF Small
        <5>2. Chosen(d) \in d
          BY <4>2 DEF Chosen
        <5> DEFINE e == d \ {Chosen(d)}
        <5>3. e \in SUBSET S /\ Cardinality(d) \in Nat /\ Cardinality(e) = Cardinality(d) - 1
          BY <5>1, <5>2, NextSubset
        <5>4. Cardinality(e) <= n - 1 /\ Cardinality(e) <= n
          BY <5>1, <5>3
        <5>5. e \in Small(S, n - 1) /\ e \in Small(S, n)
          BY <5>3, <5>4 DEF Small
        <5>6. g[e] = SumOf(g, w, e)
          BY <3>3, <5>5
        <5>7. h[e] = g[e]
          BY <5>5, <5>6
        <5> HIDE DEF h
        <5>8. QED
          BY <5>7 DEF SumOf
      <4>3. QED
        BY <4>1, <4>2
    <3>5. h = [d \in Small(S, n) |-> SumOf(h, w, d)]
      <4>1. \A d \in Small(S, n) : h[d] = SumOf(h, w, d)
        BY <3>4
      <4>2. h = [d \in Small(S, n) |-> h[d]]
        OBVIOUS
      <4> HIDE DEF h
      <4>3. QED
        BY <4>1, <4>2
    <3>6. Layer(h, n)
      BY <3>5
    <3> HIDE DEF h
    <3>7. QED
      BY <3>6
  <2>3. QED
    BY <2>1, <2>2
<1>2. Missing = {}
  <2>1. Missing \in SUBSET Nat
    OBVIOUS
  <2> HIDE DEF Missing
  <2>2. QED
    BY <1>1, <2>1, LeastNumber
<1>3. Cardinality(S) \in Nat
  BY FS_CardinalityType
<1>4. PICK g : Layer(g, Cardinality(S))
  BY <1>2, <1>3
<1>5. Small(S, Cardinality(S)) = SUBSET S
  BY FS_Subset DEF Small
<1>6. QED
  BY <1>4, <1>5 DEF IsSum

\* The sum of a set is a number, and one element of it and the sum of the rest;
\* it depends only on the weights of the elements.
LEMMA SumFacts ==
    ASSUME NEW w, NEW S, IsFiniteSet(S), \A x \in S : w[x] \in Nat,
           NEW g, IsSum(g, w, S)
    PROVE  /\ \A d \in SUBSET S : g[d] \in Nat
           /\ \A d \in SUBSET S : \A x \in d : g[d] = w[x] + g[d \ {x}]
           /\ g[{}] = 0
<1>1. \A d \in SUBSET S : g[d] = SumOf(g, w, d)
  BY DEF IsSum
<1>2. ASSUME NEW d \in SUBSET S, d # {}
      PROVE  Chosen(d) \in d /\ g[d] = w[Chosen(d)] + g[d \ {Chosen(d)}]
  BY <1>1, <1>2 DEF SumOf, Chosen
<1>3. g[{}] = 0
  BY <1>1 DEF SumOf
<1> DEFINE Odd == {n \in Nat : \E d \in SUBSET S : Cardinality(d) = n /\ g[d] \notin Nat}
<1>4. Odd = {}
  <2>1. ASSUME NEW n \in Odd, \A k \in Odd : n <= k  PROVE FALSE
    <3>1. PICK d \in SUBSET S : Cardinality(d) = n /\ g[d] \notin Nat
      OBVIOUS
    <3>2. d # {}
      BY <1>3, <3>1
    <3>3. Chosen(d) \in d /\ g[d] = w[Chosen(d)] + g[d \ {Chosen(d)}]
      BY <1>2, <3>2
    <3> DEFINE e == d \ {Chosen(d)}
    <3>4. e \in SUBSET S /\ Cardinality(e) = n - 1 /\ Cardinality(e) \in Nat
      BY <3>1, <3>3, NextSubset
    <3>5. n - 1 \notin Odd
      BY <2>1, <3>4
    <3>6. g[e] \in Nat
      BY <3>4, <3>5
    <3>7. w[Chosen(d)] \in Nat
      BY <3>3
    <3> HIDE DEF e
    <3>8. QED
      BY <3>1, <3>3, <3>6, <3>7 DEF e
  <2>2. Odd \in SUBSET Nat
    OBVIOUS
  <2> HIDE DEF Odd
  <2>3. QED
    BY <2>1, <2>2, LeastNumber
<1>5. \A d \in SUBSET S : g[d] \in Nat
  <2>1. ASSUME NEW d \in SUBSET S  PROVE g[d] \in Nat
    <3>1. Cardinality(d) \in Nat
      BY FS_Subset, FS_CardinalityType
    <3>2. QED
      BY <1>4, <3>1
  <2>2. QED
    BY <2>1
<1> DEFINE Bad == {n \in Nat : \E d \in SUBSET S : Cardinality(d) = n
                                  /\ \E x \in d : g[d] # w[x] + g[d \ {x}]}
<1>6. Bad = {}
  <2>1. ASSUME NEW n \in Bad, \A k \in Bad : n <= k  PROVE FALSE
    <3>0. PICK d \in SUBSET S : Cardinality(d) = n /\ \E x \in d : g[d] # w[x] + g[d \ {x}]
      OBVIOUS
    <3>1. PICK x \in d : Cardinality(d) = n /\ g[d] # w[x] + g[d \ {x}]
      BY <3>0
    <3>2. PICK c : c = Chosen(d)
      OBVIOUS
    <3>3. c \in d /\ g[d] = w[c] + g[d \ {c}]
      BY <1>2, <3>1, <3>2
    <3>4. c # x
      BY <3>1, <3>3
    <3>5. /\ d \ {c} \in SUBSET S /\ Cardinality(d \ {c}) = n - 1 /\ n - 1 \in Nat
          /\ d \ {x} \in SUBSET S /\ Cardinality(d \ {x}) = n - 1
      BY <3>1, <3>3, NextSubset
    <3>6. n - 1 \notin Bad
      <4>1. ~(n <= n - 1)
        OBVIOUS
      <4>2. QED
        BY <2>1, <4>1
    <3>7. \A e \in SUBSET S : Cardinality(e) = n - 1 => \A y \in e : g[e] = w[y] + g[e \ {y}]
      BY <3>5, <3>6
    <3>8. g[d \ {c}] = w[x] + g[(d \ {c}) \ {x}] /\ g[d \ {x}] = w[c] + g[(d \ {x}) \ {c}]
      BY <3>1, <3>3, <3>4, <3>5, <3>7
    <3>9. (d \ {c}) \ {x} = (d \ {x}) \ {c}
      OBVIOUS
    <3>10. PICK rest : rest = g[(d \ {c}) \ {x}]
      OBVIOUS
    <3>11. rest \in Nat /\ w[c] \in Nat /\ w[x] \in Nat
      BY <1>5, <3>1, <3>3, <3>5, <3>10
    <3>12. g[d] = w[c] + (w[x] + rest) /\ g[d \ {x}] = w[c] + rest
      BY <3>3, <3>8, <3>9, <3>10
    <3>13. w[c] + (w[x] + rest) = w[x] + (w[c] + rest)
      BY <3>11
    <3>14. QED
      BY <3>1, <3>12, <3>13
  <2>2. Bad \in SUBSET Nat
    OBVIOUS
  <2> HIDE DEF Bad
  <2>3. QED
    BY <2>1, <2>2, LeastNumber
<1>7. ASSUME NEW d \in SUBSET S, NEW x \in d  PROVE g[d] = w[x] + g[d \ {x}]
  <2>1. Cardinality(d) \in Nat
    BY FS_Subset, FS_CardinalityType
  <2>2. QED
    BY <1>6, <2>1
<1>8. QED
  BY <1>3, <1>5, <1>7

LEMMA SumAgrees ==
    ASSUME NEW w, NEW S, IsFiniteSet(S), NEW g, IsSum(g, w, S),
           NEW v, NEW R \in SUBSET S, NEW h, IsSum(h, v, R),
           \A x \in R : v[x] = w[x]
    PROVE  g[R] = h[R]
<1>1. /\ \A d \in SUBSET S : g[d] = SumOf(g, w, d)
      /\ \A d \in SUBSET R : h[d] = SumOf(h, v, d)
  BY DEF IsSum
<1> DEFINE Odd == {n \in Nat : \E d \in SUBSET R : Cardinality(d) = n /\ g[d] # h[d]}
<1>2. Odd = {}
  <2>1. ASSUME NEW n \in Odd, \A k \in Odd : n <= k  PROVE FALSE
    <3>1. PICK d \in SUBSET R : Cardinality(d) = n /\ g[d] # h[d]
      OBVIOUS
    <3>2. d # {} /\ d \in SUBSET S
      BY <1>1, <3>1 DEF SumOf
    <3>3. PICK c : c = Chosen(d)
      OBVIOUS
    <3>4. c \in d /\ g[d] = w[c] + g[d \ {c}] /\ h[d] = v[c] + h[d \ {c}]
      BY <1>1, <3>1, <3>2, <3>3 DEF SumOf, Chosen
    <3>5. d \ {c} \in SUBSET R /\ Cardinality(d \ {c}) = n - 1 /\ n - 1 \in Nat
      <4>1. Cardinality(d \ {c}) = Cardinality(d) - 1 /\ Cardinality(d \ {c}) \in Nat
        BY <3>2, <3>4, NextSubset
      <4>2. d \ {c} \in SUBSET R
        OBVIOUS
      <4>3. QED
        BY <3>1, <4>1, <4>2
    <3>6. n - 1 \notin Odd
      <4>1. ~(n <= n - 1)
        OBVIOUS
      <4>2. QED
        BY <2>1, <4>1
    <3>7. g[d \ {c}] = h[d \ {c}]
      BY <3>5, <3>6
    <3>8. QED
      BY <3>1, <3>4, <3>7
  <2>2. Odd \in SUBSET Nat
    OBVIOUS
  <2> HIDE DEF Odd
  <2>3. QED
    BY <2>1, <2>2, LeastNumber
<1>3. Cardinality(R) \in Nat
  BY FS_Subset, FS_CardinalityType
<1>4. QED
  BY <1>2, <1>3

LEMMA TotalIs ==
    ASSUME NEW w, NEW S, IsFiniteSet(S)
    PROVE  \E g : IsSum(g, w, S) /\ Total(w, S) = g[S]
<1> DEFINE part(g, d) == IF d = {} THEN 0
                         ELSE w[CHOOSE x \in d : TRUE] + g[d \ {CHOOSE x \in d : TRUE}]
           it == CHOOSE g : g = [d \in SUBSET S |-> part(g, d)]
<1>1. \A g, d : SumOf(g, w, d) = part(g, d)
  BY DEF SumOf, Chosen
<1>2. PICK f : IsSum(f, w, S)
  BY SumExists
<1>3. f = [d \in SUBSET S |-> part(f, d)]
  BY <1>1, <1>2 DEF IsSum
<1>4. it = [d \in SUBSET S |-> part(it, d)]
  BY <1>3
<1>5. Total(w, S) = it[S]
  BY DEF Total, MapThenSumSet, MapThenFoldSet
<1>6. IsSum(it, w, S)
  <2> HIDE DEF it, part
  <2>1. [d \in SUBSET S |-> part(it, d)] = [d \in SUBSET S |-> SumOf(it, w, d)]
    BY <1>1
  <2>2. QED
    BY <1>4, <2>1 DEF IsSum
<1> HIDE DEF it
<1>7. QED
  BY <1>5, <1>6
-----------------------------------------------------------------------------
(* Numbers *)

LEMMA DivIs ==
    ASSUME NEW a \in Nat, NEW p \in Nat \ {0}
    PROVE  a \div p \in Nat /\ (a \div p) * p <= a /\ a < (a \div p) * p + p
OBVIOUS

\* A wrapped number below twice the modulus.
LEMMA WrapIs ==
    ASSUME NEW m \in Nat \ {0}, NEW x \in 0 .. 2 * m - 1
    PROVE  x % m = IF x < m THEN x ELSE x - m
OBVIOUS

LEMMA MaxIs ==
    ASSUME NEW S, NEW m \in S, S \subseteq Nat, \A y \in S : m >= y
    PROVE  Max(S) = m
<1>1. Max(S) \in S /\ \A y \in S : Max(S) >= y
  BY DEF Max
<1>2. m >= Max(S) /\ Max(S) >= m /\ Max(S) \in Nat /\ m \in Nat
  BY <1>1
<1>3. QED
  BY <1>2

\* A set of numbers from 1 to n that is not empty has a greatest.
LEMMA MaxIn ==
    ASSUME NEW n \in Nat, NEW d \in SUBSET (1 .. n), d # {}
    PROVE  Max(d) \in d
<1> DEFINE U == {u \in Nat : \A y \in d : u >= y}
<1>1. U \in SUBSET Nat /\ n \in U
  OBVIOUS
<1> HIDE DEF U
<1>2. PICK u \in U : \A v \in U : u <= v
  BY <1>1, LeastNumber
<1>3. u \in Nat /\ \A y \in d : u >= y
  BY <1>2 DEF U
<1>4. u \in d
  <2>1. SUFFICES ASSUME u \notin d  PROVE FALSE
    OBVIOUS
  <2>2. PICK y \in d : TRUE
    OBVIOUS
  <2>3. u - 1 \in Nat /\ \A z \in d : u - 1 >= z
    BY <1>3, <2>1, <2>2
  <2>4. u - 1 \in U
    BY <2>3 DEF U
  <2>5. QED
    BY <1>2, <1>3, <2>4
<1>5. \E x \in d : \A y \in d : x >= y
  BY <1>3, <1>4
<1>6. QED
  BY <1>5 DEF Max
-----------------------------------------------------------------------------
(* Folds *)

\* The equation of a fold from left to right over the places 1 to n, with the
\* operation as a function F of the value so far and the place.
FoldOf(h, F, base, d) == IF d = {} THEN base ELSE F[<<h[d \ {Max(d)}], Max(d)>>]
IsFold(h, F, base, n) == h = [d \in SUBSET (1 .. n) |-> FoldOf(h, F, base, d)]

\* What Max(d) leaves of d.
LEMMA RestIs ==
    ASSUME NEW n \in Nat, NEW d \in SUBSET (1 .. n), d # {}, NEW e, e = d \ {Max(d)}
    PROVE  /\ Max(d) \in 1 .. n /\ e \in SUBSET (1 .. n)
           /\ Cardinality(d) \in Nat /\ Cardinality(e) \in Nat /\ Cardinality(e) = Cardinality(d) - 1
<1>1. PICK S : S = 1 .. n
  OBVIOUS
<1>2. IsFiniteSet(S) /\ d \in SUBSET S
  BY <1>1, FS_Interval
<1>3. PICK x : x = Max(d)
  OBVIOUS
<1>4. x \in d
  BY <1>3, MaxIn
<1>5. /\ d \ {x} \in SUBSET S /\ Cardinality(d) \in Nat /\ Cardinality(d \ {x}) = Cardinality(d) - 1
      /\ Cardinality(d \ {x}) \in Nat
  BY <1>2, <1>4, NextSubset
<1>6. QED
  BY <1>1, <1>3, <1>4, <1>5

LEMMA FoldExists ==
    ASSUME NEW F, NEW base, NEW n \in Nat
    PROVE  \E h : IsFold(h, F, base, n)
<1> DEFINE S == 1 .. n
           Layer(g, c) == g = [d \in Small(S, c) |-> FoldOf(g, F, base, d)]
           Missing == {c \in Nat : ~\E g : Layer(g, c)}
<1>0. IsFiniteSet(S)
  BY FS_Interval
<1>1. ASSUME NEW c \in Missing, \A k \in Missing : c <= k  PROVE FALSE
  <2>1. CASE c = 0
    <3>1. \A d \in Small(S, 0) : d = {}
      <4>1. ASSUME NEW d \in Small(S, 0)  PROVE d = {}
        <5>1. IsFiniteSet(d) /\ d \in SUBSET S /\ Cardinality(d) <= 0
          BY <1>0, FS_Subset DEF Small
        <5>2. QED
          BY <5>1, FS_CardinalityType, FS_EmptySet
      <4>2. QED
        BY <4>1
    <3> DEFINE g == [d \in Small(S, 0) |-> base]
    <3>2. Layer(g, 0)
      BY <3>1 DEF FoldOf
    <3>3. QED
      BY <2>1, <3>2
  <2>2. CASE c # 0
    <3>1. c - 1 \in Nat /\ ~(c <= c - 1)
      BY <2>2
    <3>2. c - 1 \notin Missing
      BY <1>1, <3>1
    <3>3. PICK g : Layer(g, c - 1)
      BY <3>1, <3>2
    <3> DEFINE h == [d \in Small(S, c) |-> FoldOf(g, F, base, d)]
    <3>4. ASSUME NEW d \in Small(S, c)  PROVE FoldOf(g, F, base, d) = FoldOf(h, F, base, d)
      <4>1. CASE d = {}
        BY <4>1 DEF FoldOf
      <4>2. CASE d # {}
        <5>1. d \in SUBSET S /\ Cardinality(d) <= c
          BY DEF Small
        <5>2. PICK e : e = d \ {Max(d)}
          OBVIOUS
        <5>3. e \in SUBSET S /\ Cardinality(d) \in Nat /\ Cardinality(e) = Cardinality(d) - 1
          BY <4>2, <5>1, <5>2, RestIs
        <5>4. Cardinality(e) <= c - 1 /\ Cardinality(e) <= c
          BY <5>1, <5>3
        <5>5. e \in Small(S, c - 1) /\ e \in Small(S, c)
          BY <5>3, <5>4 DEF Small
        <5>6. g[e] = FoldOf(g, F, base, e)
          BY <3>3, <5>5
        <5>7. h[e] = g[e]
          BY <5>5, <5>6
        <5> HIDE DEF h
        <5>8. QED
          BY <5>2, <5>7 DEF FoldOf
      <4>3. QED
        BY <4>1, <4>2
    <3>5. h = [d \in Small(S, c) |-> FoldOf(h, F, base, d)]
      <4>1. \A d \in Small(S, c) : h[d] = FoldOf(h, F, base, d)
        BY <3>4
      <4>2. h = [d \in Small(S, c) |-> h[d]]
        OBVIOUS
      <4> HIDE DEF h
      <4>3. QED
        BY <4>1, <4>2
    <3>6. Layer(h, c)
      BY <3>5
    <3> HIDE DEF h
    <3>7. QED
      BY <3>6
  <2>3. QED
    BY <2>1, <2>2
<1>2. Missing = {}
  <2>1. Missing \in SUBSET Nat
    OBVIOUS
  <2> HIDE DEF Missing
  <2>2. QED
    BY <1>1, <2>1, LeastNumber
<1>3. Cardinality(S) \in Nat
  BY <1>0, FS_CardinalityType
<1>4. PICK g : Layer(g, Cardinality(S))
  BY <1>2, <1>3
<1>5. Small(S, Cardinality(S)) = SUBSET S
  BY <1>0, FS_Subset DEF Small
<1>6. QED
  BY <1>4, <1>5 DEF IsFold

\* A fold stays in a set that the operation does not leave.
LEMMA FoldStays ==
    ASSUME NEW T, NEW base \in T, NEW n \in Nat, NEW F,
           \A st \in T : \A k \in 1 .. n : F[<<st, k>>] \in T,
           NEW h, IsFold(h, F, base, n)
    PROVE  \A d \in SUBSET (1 .. n) : h[d] \in T
<1>1. \A d \in SUBSET (1 .. n) : h[d] = FoldOf(h, F, base, d)
  BY DEF IsFold
<1> DEFINE Odd == {c \in Nat : \E d \in SUBSET (1 .. n) : Cardinality(d) = c /\ h[d] \notin T}
<1>2. Odd = {}
  <2>1. ASSUME NEW c \in Odd, \A k \in Odd : c <= k  PROVE FALSE
    <3>1. PICK d \in SUBSET (1 .. n) : Cardinality(d) = c /\ h[d] \notin T
      OBVIOUS
    <3>2. d # {}
      BY <1>1, <3>1 DEF FoldOf
    <3>3. PICK e, x : e = d \ {Max(d)} /\ x = Max(d)
      OBVIOUS
    <3>4. x \in 1 .. n /\ e \in SUBSET (1 .. n) /\ Cardinality(e) = c - 1 /\ c - 1 \in Nat
      BY <3>1, <3>2, <3>3, RestIs
    <3>5. c - 1 \notin Odd
      <4>1. ~(c <= c - 1)
        OBVIOUS
      <4>2. QED
        BY <2>1, <4>1
    <3>6. h[e] \in T
      BY <3>4, <3>5
    <3>7. h[d] = F[<<h[e], x>>]
      BY <1>1, <3>2, <3>3 DEF FoldOf
    <3>8. QED
      BY <3>1, <3>4, <3>6, <3>7
  <2>2. Odd \in SUBSET Nat
    OBVIOUS
  <2> HIDE DEF Odd
  <2>3. QED
    BY <2>1, <2>2, LeastNumber
<1>3. ASSUME NEW d \in SUBSET (1 .. n)  PROVE h[d] \in T
  <2>1. IsFiniteSet(1 .. n)
    BY FS_Interval
  <2>2. Cardinality(d) \in Nat
    BY <2>1, FS_Subset, FS_CardinalityType
  <2>3. QED
    BY <1>2, <2>2
<1>4. QED
  BY <1>3

\* The values of a fold, one place after the other.
LEMMA PrefixIs ==
    ASSUME NEW n \in Nat, NEW k \in 1 .. n
    PROVE  /\ Max(1 .. k) = k /\ (1 .. k) \ {k} = 1 .. k - 1 /\ 1 .. k # {}
           /\ 1 .. k \in SUBSET (1 .. n) /\ 1 .. k - 1 \in SUBSET (1 .. n)
<1>1. k \in 1 .. k /\ 1 .. k \subseteq Nat /\ \A y \in 1 .. k : k >= y
  OBVIOUS
<1>2. Max(1 .. k) = k
  BY <1>1, MaxIs
<1>3. QED
  BY <1>1, <1>2

\* A fold whose operation stays in T, as a run of n steps.
IsRun(g, F, base, n) == g[0] = base /\ \A k \in 1 .. n : g[k] = F[<<g[k - 1], k>>]

LEMMA FoldRuns ==
    ASSUME NEW T, NEW base \in T, NEW n \in Nat, NEW F,
           \A st \in T : \A k \in 1 .. n : F[<<st, k>>] \in T,
           NEW h, IsFold(h, F, base, n)
    PROVE  \E g \in [0 .. n -> T] : IsRun(g, F, base, n) /\ h[1 .. n] = g[n]
<1> DEFINE g == [k \in 0 .. n |-> h[1 .. k]]
<1>1. \A d \in SUBSET (1 .. n) : h[d] \in T
  BY FoldStays
<1>2. \A d \in SUBSET (1 .. n) : h[d] = FoldOf(h, F, base, d)
  BY DEF IsFold
<1>3. g[0] = base
  <2>1. 1 .. 0 = {} /\ {} \in SUBSET (1 .. n) /\ 0 \in 0 .. n
    OBVIOUS
  <2>2. h[{}] = base
    BY <1>2, <2>1 DEF FoldOf
  <2>3. QED
    BY <2>1, <2>2
<1>4. ASSUME NEW k \in 0 .. n  PROVE g[k] \in T
  BY <1>1
<1>5. ASSUME NEW k \in 1 .. n  PROVE g[k] = F[<<g[k - 1], k>>]
  <2>1. PICK d, e : d = 1 .. k /\ e = 1 .. k - 1
    OBVIOUS
  <2>2. d \in SUBSET (1 .. n) /\ Max(d) = k /\ d \ {k} = e /\ d # {}
    BY <2>1, PrefixIs
  <2>3. h[d] = F[<<h[e], k>>]
    BY <1>2, <2>2 DEF FoldOf
  <2>4. g[k] = h[d] /\ g[k - 1] = h[e]
    BY <2>1
  <2>5. QED
    BY <2>3, <2>4
<1>6. h[1 .. n] = g[n]
  OBVIOUS
<1>7. g \in [0 .. n -> T]
  BY <1>4
<1> HIDE DEF g
<1>8. QED
  BY <1>3, <1>5, <1>6, <1>7 DEF IsRun
-----------------------------------------------------------------------------
(* Concatenations *)

\* F holds the elements of the first k sequences of ss in their order: b says from
\* which of them each place has its element.
IsFlat(F, b, ss, k) ==
    /\ b \in [1 .. Len(F) -> 1 .. k]
    /\ \A j \in 1 .. Len(F) : F[j] \in ToSet(ss[b[j]])
    /\ \A i \in 1 .. k : \A x \in ToSet(ss[i]) : \E j \in 1 .. Len(F) : F[j] = x /\ b[j] = i
    /\ \A i, j \in 1 .. Len(F) : i <= j => b[i] <= b[j]

LEMMA FlatAppend ==
    ASSUME NEW T, NEW F \in Seq(T), NEW k \in Nat, NEW b, NEW ss, IsFlat(F, b, ss, k),
           NEW s \in Seq(T), s = ss[k + 1]
    PROVE  \E c : IsFlat(F \o s, c, ss, k + 1)
<1> DEFINE c == [j \in 1 .. Len(F) + Len(s) |-> IF j <= Len(F) THEN b[j] ELSE k + 1]
<1>1. PICK G : G = F \o s
  OBVIOUS
<1>2. /\ Len(G) = Len(F) + Len(s) /\ Len(F) \in Nat /\ Len(s) \in Nat
      /\ \A i \in 1 .. Len(G) : G[i] = IF i <= Len(F) THEN F[i] ELSE s[i - Len(F)]
  BY <1>1, ConcatProperties, LenProperties
<1>3. PICK m, l \in Nat : m = Len(F) /\ l = Len(s)
  BY <1>2
<1>4. /\ b \in [1 .. m -> 1 .. k]
      /\ \A j \in 1 .. m : F[j] \in ToSet(ss[b[j]])
      /\ \A i \in 1 .. k : \A x \in ToSet(ss[i]) : \E j \in 1 .. m : F[j] = x /\ b[j] = i
      /\ \A i, j \in 1 .. m : i <= j => b[i] <= b[j]
  BY <1>3 DEF IsFlat
<1>5. DOMAIN s = 1 .. l /\ ToSet(s) = {s[i] : i \in 1 .. l}
  BY <1>3, LenProperties DEF ToSet
<1>6. /\ Len(G) = m + l /\ c = [j \in 1 .. m + l |-> IF j <= m THEN b[j] ELSE k + 1]
      /\ \A j \in 1 .. m + l : G[j] = IF j <= m THEN F[j] ELSE s[j - m]
  BY <1>2, <1>3
<1> HIDE DEF c
<1>7. \A j \in 1 .. m + l : c[j] = IF j <= m THEN b[j] ELSE k + 1
  BY <1>6
<1>8. c \in [1 .. m + l -> 1 .. k + 1]
  <2>1. \A j \in 1 .. m + l : (IF j <= m THEN b[j] ELSE k + 1) \in 1 .. k + 1
    BY <1>4
  <2>2. QED
    BY <1>6, <2>1
<1>9. ASSUME NEW j \in 1 .. m + l  PROVE G[j] \in ToSet(ss[c[j]])
  <2>1. CASE j <= m
    <3>1. j \in 1 .. m
      BY <2>1
    <3>2. G[j] = F[j] /\ c[j] = b[j]
      BY <1>6, <1>7, <2>1
    <3>3. QED
      BY <1>4, <3>1, <3>2
  <2>2. CASE ~(j <= m)
    <3>1. j - m \in 1 .. l
      BY <2>2
    <3>2. G[j] = s[j - m] /\ c[j] = k + 1
      BY <1>6, <1>7, <2>2
    <3>3. QED
      BY <1>5, <3>1, <3>2
  <2>3. QED
    BY <2>1, <2>2
<1>10. ASSUME NEW i \in 1 .. k + 1, NEW x \in ToSet(ss[i])
       PROVE  \E j \in 1 .. m + l : G[j] = x /\ c[j] = i
  <2>1. CASE i \in 1 .. k
    <3>1. PICK j \in 1 .. m : F[j] = x /\ b[j] = i
      BY <1>4, <2>1
    <3>2. j \in 1 .. m + l /\ j <= m
      OBVIOUS
    <3>3. QED
      BY <1>6, <1>7, <3>1, <3>2
  <2>2. CASE i = k + 1
    <3>1. PICK j \in 1 .. l : x = s[j]
      BY <1>5, <2>2
    <3>2. m + j \in 1 .. m + l /\ ~(m + j <= m) /\ (m + j) - m = j
      OBVIOUS
    <3>3. G[m + j] = s[j] /\ c[m + j] = k + 1
      BY <1>6, <1>7, <3>2
    <3>4. QED
      BY <2>2, <3>1, <3>2, <3>3
  <2>3. QED
    BY <2>1, <2>2
<1>11. ASSUME NEW i \in 1 .. m + l, NEW j \in 1 .. m + l, i <= j
       PROVE  c[i] <= c[j]
  <2>1. CASE j <= m
    <3>1. i \in 1 .. m /\ j \in 1 .. m
      BY <1>11, <2>1
    <3>2. c[i] = b[i] /\ c[j] = b[j]
      BY <1>7, <3>1
    <3>3. QED
      BY <1>4, <1>11, <3>1, <3>2
  <2>2. CASE ~(j <= m)
    <3>1. c[j] = k + 1 /\ c[i] \in 1 .. k + 1
      BY <1>7, <1>8, <2>2
    <3>2. QED
      BY <3>1
  <2>3. QED
    BY <2>1, <2>2
<1>12. IsFlat(G, c, ss, k + 1)
  BY <1>6, <1>8, <1>9, <1>10, <1>11 DEF IsFlat
<1>13. QED
  BY <1>1, <1>12

\* FlattenSeq lists the elements of the sequences one sequence after the other.
LEMMA FlattenIs ==
    ASSUME NEW T, NEW n \in Nat, NEW ss \in [1 .. n -> Seq(T)]
    PROVE  FlattenSeq(ss) \in Seq(T) /\ \E b : IsFlat(FlattenSeq(ss), b, ss, n)
<1>1. Len(ss) = n /\ ss \in Seq(Seq(T))
  <2>1. ss \in Seq(Seq(T))
    OBVIOUS
  <2>2. DOMAIN ss = 1 .. n
    OBVIOUS
  <2>3. QED
    BY <2>1, <2>2, LenProperties
<1>2. CASE n = 0
  <2>1. FlattenSeq(ss) = ss /\ ss = <<>>
    BY <1>1, <1>2 DEF FlattenSeq
  <2>2. IsFlat(<<>>, [i \in 1 .. 0 |-> 0], ss, 0)
    BY DEF IsFlat
  <2>3. QED
    BY <1>2, <2>1, <2>2
<1>3. CASE n # 0
  <2> DEFINE part(f, i) == IF i = 1 THEN ss[i] ELSE f[i - 1] \o ss[i]
             it == CHOOSE f : f = [i \in 1 .. n |-> part(f, i)]
             F == [x \in Seq(T) \X (1 .. n) |-> x[1] \o ss[x[2]]]
  <2>1. FlattenSeq(ss) = it[n]
    BY <1>1, <1>3 DEF FlattenSeq
  <2>2. ASSUME NEW st \in Seq(T), NEW k \in 1 .. n
        PROVE  F[<<st, k>>] = st \o ss[k] /\ F[<<st, k>>] \in Seq(T)
    BY ConcatProperties
  <2> HIDE DEF F
  <2>3. PICK none \in Seq(T) : none = <<>>
    BY EmptySeq
  <2>3a. \A s \in Seq(T) : none \o s = s
    BY <2>3, ConcatEmptySeq
  <2>3b. \E b : IsFlat(none, b, ss, 0)
    <3>1. IsFlat(<<>>, [i \in 1 .. 0 |-> 0], ss, 0)
      BY DEF IsFlat
    <3>2. QED
      BY <2>3, <3>1
  <2>4. PICK h : IsFold(h, F, none, n)
    BY FoldExists
  <2>5. PICK g : /\ g[0] = none
                 /\ \A k \in 0 .. n : g[k] \in Seq(T)
                 /\ \A k \in 1 .. n : g[k] = F[<<g[k - 1], k>>]
    <3>1. PICK U : U = Seq(T)
      OBVIOUS
    <3>2. none \in U /\ \A st \in U : \A k \in 1 .. n : F[<<st, k>>] \in U
      BY <2>2, <3>1
    <3>3. PICK g \in [0 .. n -> U] : IsRun(g, F, none, n)
      BY <2>4, <3>2, FoldRuns
    <3>4. QED
      BY <3>1, <3>3 DEF IsRun
  <2>6. ASSUME NEW k \in 1 .. n  PROVE g[k] = g[k - 1] \o ss[k] /\ k - 1 \in 0 .. n
    <3>1. k - 1 \in 0 .. n
      OBVIOUS
    <3>2. PICK st \in Seq(T) : st = g[k - 1]
      BY <2>5, <3>1
    <3>3. g[k] = F[<<st, k>>]
      BY <2>5, <3>2
    <3>4. QED
      BY <2>2, <3>1, <3>2, <3>3
  <2>7. ASSUME NEW k \in 1 .. n  PROVE g[k] = part(g, k)
    <3>1. CASE k = 1
      <4>1. g[1] = none \o ss[1] /\ ss[1] \in Seq(T)
        <5>1. ss[k] \in Seq(T) /\ g[k] = g[k - 1] \o ss[k] /\ k - 1 = 0
          BY <2>6, <3>1
        <5>2. QED
          BY <2>5, <3>1, <5>1
      <4>2. QED
        BY <2>3a, <3>1, <4>1
    <3>2. CASE k # 1
      BY <2>6, <3>2
    <3>3. QED
      BY <3>1, <3>2
  <2> DEFINE f == [k \in 1 .. n |-> g[k]]
  <2>8. f = [k \in 1 .. n |-> part(f, k)]
    <3>1. ASSUME NEW k \in 1 .. n  PROVE g[k] = part(f, k)
      <4>1. CASE k = 1
        BY <2>7, <4>1
      <4>2. CASE k # 1
        <5>1. k - 1 \in 1 .. n
          BY <4>2
        <5>2. f[k - 1] = g[k - 1]
          BY <5>1
        <5>3. g[k] = g[k - 1] \o ss[k]
          BY <2>6
        <5> HIDE DEF f
        <5>4. QED
          BY <4>2, <5>2, <5>3
      <4>3. QED
        BY <4>1, <4>2
    <3> HIDE DEF part
    <3>2. QED
      BY <3>1
  <2>9. it = [i \in 1 .. n |-> part(it, i)]
    <3> HIDE DEF f, part
    <3>1. QED
      BY <2>8
  <2> HIDE DEF it
  <2>10. \A k \in 1 .. n : it[k] = part(it, k)
    <3> HIDE DEF part
    <3>1. QED
      BY <2>9
  <2>11. it[1] = ss[1] /\ \A k \in 1 .. n : k # 1 => it[k] = it[k - 1] \o ss[k]
    <3>1. 1 \in 1 .. n
      BY <1>3
    <3>2. QED
      BY <2>10, <3>1
  <2> HIDE DEF part
  <2> DEFINE Odd == {k \in Nat : k \in 1 .. n /\ ~(it[k] \in Seq(T) /\ \E b : IsFlat(it[k], b, ss, k))}
  <2>12. ASSUME NEW k \in Odd, \A j \in Odd : k <= j  PROVE FALSE
    <3>1. k \in Nat /\ k \in 1 .. n /\ ss[k] \in Seq(T)
      OBVIOUS
    <3>2. CASE k = 1
      <4>1. PICK b : IsFlat(none, b, ss, 0)
        BY <2>3b
      <4>2. PICK s \in Seq(T) : s = ss[0 + 1]
        BY <3>1, <3>2
      <4>3. \E c : IsFlat(none \o s, c, ss, 0 + 1)
        BY <4>1, <4>2, FlatAppend
      <4>4. none \o s = s /\ it[1] = s
        <5>1. s = ss[1] /\ none \o s = s
          BY <2>3a, <4>2
        <5>2. QED
          BY <2>11, <5>1
      <4>5. QED
        BY <3>2, <4>3, <4>4
    <3>3. CASE k # 1
      <4>1. k - 1 \in Nat /\ k - 1 \in 1 .. n /\ ~(k <= k - 1) /\ (k - 1) + 1 = k
        BY <3>1, <3>3
      <4>2. k - 1 \notin Odd
        BY <2>12, <4>1
      <4>3. it[k - 1] \in Seq(T)
        BY <4>1, <4>2
      <4>4. PICK b : IsFlat(it[k - 1], b, ss, k - 1)
        BY <4>1, <4>2
      <4>5. PICK e, s : e = it[k - 1] /\ s = ss[k] /\ s \in Seq(T)
        BY <3>1
      <4>6. \E c : IsFlat(e \o s, c, ss, (k - 1) + 1)
        BY <4>1, <4>3, <4>4, <4>5, FlatAppend
      <4>7. it[k] = e \o s /\ e \o s \in Seq(T)
        BY <2>11, <3>1, <3>3, <4>3, <4>5, ConcatProperties
      <4>8. QED
        BY <4>1, <4>6, <4>7
    <3>4. QED
      BY <3>2, <3>3
  <2>13. Odd = {}
    <3>1. Odd \in SUBSET Nat
      OBVIOUS
    <3> HIDE DEF Odd
    <3>2. QED
      BY <2>12, <3>1, LeastNumber
  <2>14. n \in 1 .. n
    BY <1>3
  <2>15. it[n] \in Seq(T) /\ \E b : IsFlat(it[n], b, ss, n)
    BY <2>13, <2>14
  <2>16. QED
    BY <2>1, <2>15
<1>4. QED
  BY <1>2, <1>3

\* Min is the least.
LEMMA MinIs ==
    ASSUME NEW S, S \subseteq Nat, S # {}
    PROVE  Min(S) \in S /\ \A y \in S : Min(S) <= y
<1>1. \E x \in S : \A y \in S : x <= y
  BY LeastNumber
<1>2. QED
  BY <1>1 DEF Min
=============================================================================
