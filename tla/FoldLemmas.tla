----------------------------- MODULE FoldLemmas -----------------------------
(***************************************************************************)
(* Induction without an operator parameter, folds over sequences, and the  *)
(* orders in which finite sets are listed.                                 *)
(*                                                                         *)
(* An induction is stated of a set of numbers: every set of naturals that  *)
(* is not empty has a least element (WFMin of WellFoundedInduction), so    *)
(* one that holds 0 and each successor of an element holds all of Nat.     *)
(*                                                                         *)
(* FoldLeft unfolds to a function on the subsets of the sequence's domain, *)
(* which removes the greatest element at each step.  That it exists is     *)
(* IteratesExist; its values on the intervals 1 .. k are the states of the *)
(* loop that the fold models.  FlattenSeq and the models' own recursive    *)
(* functions are on an interval, and exist by ChainExists.                 *)
(*                                                                         *)
(* OneEnumeration says that numbers in increasing order are in one, and    *)
(* ListingExists and ListingIsWhole that a finite set can be sorted.       *)
(***************************************************************************)
EXTENDS Integers, Sequences, FiniteSets, SequencesExt, SequenceTheorems,
        FiniteSetTheorems, WellFoundedInduction, TLAPS

\* A set of naturals has a least element.
LEMMA LeastElement ==
    ASSUME NEW T \in SUBSET Nat, T # {}
    PROVE  \E m \in T : \A k \in T : m <= k
<1> DEFINE R == OpToRel(<, Nat)
<1>1. IsWellFoundedOn(R, Nat)
  BY NatLessThanWellFounded
<1>2. R = {ss \in Nat \X Nat : ss[1] < ss[2]}
  BY DEF OpToRel
<1> HIDE DEF R
<1>3. PICK m \in T : \A k \in T : <<k, m>> \notin R
  BY <1>1, WFMin
<1>4. ASSUME NEW k \in T PROVE m <= k
  <2>1. k \in Nat /\ m \in Nat /\ <<k, m>> \in Nat \X Nat
    OBVIOUS
  <2>2. ~(k < m)
    BY <1>2, <1>3, <2>1
  <2> QED
    BY <2>1, <2>2
<1> QED
  BY <1>4

\* Induction over Nat.
LEMMA Induction ==
    ASSUME NEW T, 0 \in T, \A n \in Nat : n \in T => n + 1 \in T
    PROVE  Nat \subseteq T
<1> SUFFICES ASSUME Nat \ T # {} PROVE FALSE
  OBVIOUS
<1>1. PICK m \in Nat \ T : \A k \in Nat \ T : m <= k
  BY LeastElement
<1>2. m # 0 /\ m - 1 \in Nat /\ m - 1 \in T
  BY <1>1
<1> QED
  BY <1>2

\* Induction over an interval.
LEMMA InductionUpTo ==
    ASSUME NEW n \in Nat, NEW T, 0 \in T, \A k \in 1 .. n : k - 1 \in T => k \in T
    PROVE  0 .. n \subseteq T
<1> DEFINE U == {k \in Nat : k <= n => k \in T}
<1>1. 0 \in U
  OBVIOUS
<1>2. \A k \in Nat : k \in U => k + 1 \in U
  OBVIOUS
<1>3. Nat \subseteq U
  <2> HIDE DEF U
  <2> QED
    BY <1>1, <1>2, Induction
<1> QED
  BY <1>3

\* The greatest elements of 1 .. n, of a set that n bounds, and of any set.
LEMMA MaxOfInterval ==
    ASSUME NEW n \in Nat, NEW k \in 1 .. n
    PROVE  /\ Max(1 .. k) = k /\ (1 .. k) \ {k} = 1 .. k - 1
           /\ 1 .. k # {} /\ (1 .. k) \in SUBSET (1 .. n)
<1>1. k \in 1 .. k /\ \A y \in 1 .. k : k >= y
  OBVIOUS
<1>2. \A x \in 1 .. k : (\A y \in 1 .. k : x >= y) => x = k
  OBVIOUS
<1> QED
  BY <1>1, <1>2 DEF Max

\* The greatest element of a set that holds its bound.
LEMMA MaxWithTop ==
    ASSUME NEW n \in Nat, NEW S \in SUBSET (1 .. n), n \in S
    PROVE  Max(S) = n
<1>1. n \in S /\ \A y \in S : n >= y
  OBVIOUS
<1>2. \A x \in S : (\A y \in S : x >= y) => x = n
  OBVIOUS
<1> QED
  BY <1>1, <1>2 DEF Max

\* A set of numbers of an interval holds its greatest element.
LEMMA MaxInInterval ==
    ASSUME NEW n \in Nat, NEW S \in SUBSET (1 .. n), S # {}
    PROVE  Max(S) \in S
<1> DEFINE below == {n - i : i \in S}
<1>1. below \in SUBSET Nat /\ below # {}
  <2>1. \A i \in S : n - i \in Nat
    OBVIOUS
  <2>2. PICK i \in S : TRUE
    OBVIOUS
  <2>3. n - i \in below
    OBVIOUS
  <2> QED
    BY <2>1, <2>3
<1>2. PICK low \in below : \A k \in below : low <= k
  <2> HIDE DEF below
  <2> QED
    BY <1>1, LeastElement
<1>3. PICK m \in S : low = n - m
  OBVIOUS
<1>4. \A y \in S : m >= y
  <2> TAKE y \in S
  <2>1. n - y \in below /\ y \in Int /\ m \in Int
    OBVIOUS
  <2> QED
    BY <1>2, <1>3, <2>1
<1> QED
  BY <1>4 DEF Max

\* A function on the subsets of an interval that is defined by removing the
\* greatest element exists.
LEMMA IteratesExist ==
    ASSUME NEW n \in Nat, NEW V, NEW base \in V, NEW step \in [V \X (1 .. n) -> V]
    PROVE  \E iter \in [SUBSET (1 .. n) -> V] :
             /\ iter[{}] = base
             /\ \A S \in SUBSET (1 .. n) : S # {} =>
                  iter[S] = step[<<iter[S \ {Max(S)}], Max(S)>>] /\ Max(S) \in 1 .. n
<1> DEFINE Iterates(iter, k) ==
             \A S \in SUBSET (1 .. k) :
                iter[S] = IF S = {} THEN base ELSE step[<<iter[S \ {Max(S)}], Max(S)>>]
           T == {k \in 0 .. n : \E iter \in [SUBSET (1 .. k) -> V] : Iterates(iter, k)}
<1>1. 0 \in T
  <2>1. PICK k \in 0 .. n : k = 0
    OBVIOUS
  <2>2. SUBSET (1 .. k) = {{}}
    BY <2>1
  <2> DEFINE none == [S \in SUBSET (1 .. k) |-> base]
  <2>3. Iterates(none, k) /\ none \in [SUBSET (1 .. k) -> V]
    BY <2>2
  <2> HIDE DEF none, Iterates
  <2>4. k \in T
    BY <2>3
  <2> QED
    BY <2>1, <2>4
<1>2. ASSUME NEW k \in 1 .. n, k - 1 \in T PROVE k \in T
  <2>1. PICK iter \in [SUBSET (1 .. k - 1) -> V] : Iterates(iter, k - 1)
    BY <1>2
  <2> DEFINE more == [S \in SUBSET (1 .. k) |->
                        IF k \in S THEN step[<<iter[S \ {k}], k>>] ELSE iter[S]]
  <2>2. ASSUME NEW S \in SUBSET (1 .. k), k \notin S PROVE S \in SUBSET (1 .. k - 1)
    BY <2>2
  <2>3. \A S \in SUBSET (1 .. k) : S \ {k} \in SUBSET (1 .. k - 1)
    OBVIOUS
  <2>4. more \in [SUBSET (1 .. k) -> V]
    BY <2>2, <2>3
  <2>5. ASSUME NEW S \in SUBSET (1 .. k)
        PROVE  more[S] = IF S = {} THEN base ELSE step[<<more[S \ {Max(S)}], Max(S)>>]
    <3>1. CASE k \in S
      <4>1. Max(S) = k
        BY <3>1, MaxWithTop
      <4>2. more[S \ {k}] = iter[S \ {k}]
        BY <2>3
      <4> QED
        BY <3>1, <4>1, <4>2
    <3>2. CASE k \notin S
      <4>1. S \in SUBSET (1 .. k - 1) /\ more[S] = iter[S]
        BY <2>2, <3>2
      <4>2. S \ {Max(S)} \in SUBSET (1 .. k) /\ k \notin S \ {Max(S)}
        BY <3>2
      <4>3. more[S \ {Max(S)}] = iter[S \ {Max(S)}]
        BY <4>2
      <4>4. iter[S] = IF S = {} THEN base ELSE step[<<iter[S \ {Max(S)}], Max(S)>>]
        BY <2>1, <4>1
      <4> QED
        BY <4>1, <4>3, <4>4
    <3> QED
      BY <3>1, <3>2
  <2> HIDE DEF more
  <2>6. Iterates(more, k)
    BY <2>5
  <2> HIDE DEF Iterates
  <2> QED
    BY <2>4, <2>6
<1>3. n \in T
  <2> HIDE DEF T
  <2> QED
    BY <1>1, <1>2, InductionUpTo
<1>4. PICK iter \in [SUBSET (1 .. n) -> V] : Iterates(iter, n)
  BY <1>3
<1>5. iter[{}] = base
  BY <1>4
<1>6. ASSUME NEW S \in SUBSET (1 .. n), S # {}
      PROVE  iter[S] = step[<<iter[S \ {Max(S)}], Max(S)>>] /\ Max(S) \in 1 .. n
  <2>1. Max(S) \in 1 .. n
    BY <1>6, MaxInInterval
  <2> QED
    BY <1>4, <1>6, <2>1
<1> QED
  BY <1>5, <1>6

Chain(f, n, base, step) ==
    f[0] = base /\ \A k \in 1 .. n : f[k] = step[<<f[k - 1], k>>]

\* A function on 0 .. n that is defined by recursion exists.
LEMMA ChainExists ==
    ASSUME NEW n \in Nat, NEW V, NEW base \in V, NEW step \in [V \X (1 .. n) -> V]
    PROVE  \E f \in [0 .. n -> V] : Chain(f, n, base, step)
<1>1. PICK iter \in [SUBSET (1 .. n) -> V] :
         /\ iter[{}] = base
         /\ \A S \in SUBSET (1 .. n) : S # {} =>
              iter[S] = step[<<iter[S \ {Max(S)}], Max(S)>>] /\ Max(S) \in 1 .. n
  BY IteratesExist
<1> DEFINE f == [k \in 0 .. n |-> iter[1 .. k]]
<1>2. \A k \in 0 .. n : (1 .. k) \in SUBSET (1 .. n)
  OBVIOUS
<1>3. f \in [0 .. n -> V]
  BY <1>2
<1>4. f[0] = base
  BY <1>1
<1>5. ASSUME NEW k \in 1 .. n PROVE f[k] = step[<<f[k - 1], k>>]
  <2>1. /\ Max(1 .. k) = k /\ (1 .. k) \ {k} = 1 .. k - 1
        /\ 1 .. k # {} /\ (1 .. k) \in SUBSET (1 .. n)
    BY MaxOfInterval
  <2>2. iter[1 .. k] = step[<<iter[(1 .. k) \ {Max(1 .. k)}], Max(1 .. k)>>]
    BY <1>1, <2>1
  <2>3. k - 1 \in 0 .. n /\ k \in 0 .. n
    OBVIOUS
  <2> QED
    BY <2>1, <2>2, <2>3
<1> HIDE DEF f
<1>6. Chain(f, n, base, step)
  BY <1>4, <1>5 DEF Chain
<1> QED
  BY <1>3, <1>6

-----------------------------------------------------------------------------
Joins(run, n, none, seqs) ==
    run[0] = none /\ \A k \in 1 .. n : run[k] = run[k - 1] \o seqs[k]

\* What joining sequences goes through.
LEMMA JoinsExist ==
    ASSUME NEW n \in Nat, NEW V, NEW seqs \in [1 .. n -> V], NEW none \in V,
           \A v, w \in V : v \o w \in V
    PROVE  \E run \in [0 .. n -> V] : Joins(run, n, none, seqs)
<1> DEFINE step == [x \in V \X (1 .. n) |-> x[1] \o seqs[x[2]]]
<1>1. step \in [V \X (1 .. n) -> V]
  OBVIOUS
<1>2. \A v \in V, k \in 1 .. n : step[<<v, k>>] = v \o seqs[k]
  OBVIOUS
<1> HIDE DEF step
<1>3. PICK run \in [0 .. n -> V] : Chain(run, n, none, step)
  BY <1>1, ChainExists
<1>4. \A k \in 1 .. n : run[k - 1] \in V
  OBVIOUS
<1>5. Joins(run, n, none, seqs)
  BY <1>2, <1>3, <1>4 DEF Chain, Joins
<1> QED
  BY <1>5

\* FlattenSeq joins its sequences from left to right.
LEMMA FlattenRun ==
    ASSUME NEW S, NEW n \in Nat, NEW seqs \in [1 .. n -> Seq(S)]
    PROVE  \E run \in [0 .. n -> Seq(S)] :
             Joins(run, n, <<>>, seqs) /\ run[n] = FlattenSeq(seqs)
<1> DEFINE V == Seq(S)
           Rec(f) == f = [i \in 1 .. n |-> IF i = 1 THEN seqs[i] ELSE f[i - 1] \o seqs[i]]
           flatten == CHOOSE f : Rec(f)
<1>1. Len(seqs) = n /\ (n = 0 => seqs = <<>>)
  OBVIOUS
<1>2. FlattenSeq(seqs) = IF n = 0 THEN seqs ELSE flatten[n]
  BY <1>1 DEF FlattenSeq
<1>3. <<>> \in V /\ \A v, w \in V : v \o w \in V
  OBVIOUS
<1>4. \A v \in V : <<>> \o v = v
  OBVIOUS
<1>5. seqs \in [1 .. n -> V]
  OBVIOUS
<1> HIDE DEF V
<1>6. PICK run \in [0 .. n -> V] : Joins(run, n, <<>>, seqs)
  BY <1>3, <1>5, JoinsExist
<1>7. run[0] = <<>> /\ \A k \in 1 .. n : run[k] = run[k - 1] \o seqs[k]
  BY <1>6 DEF Joins
<1>8. ASSUME NEW k \in 1 .. n
      PROVE  run[k] = run[k - 1] \o seqs[k] /\ run[k] \in V /\ run[k - 1] \in V
  <2>1. k \in 0 .. n /\ k - 1 \in 0 .. n
    OBVIOUS
  <2>2. run[k] \in V /\ run[k - 1] \in V
    BY <1>7, <2>1
  <2> QED
    BY <1>7, <2>2
<1>9. \E f : Rec(f)
  <2> DEFINE f == [i \in 1 .. n |-> run[i]]
  <2>1. ASSUME NEW i \in 1 .. n
        PROVE  run[i] = IF i = 1 THEN seqs[i] ELSE f[i - 1] \o seqs[i]
    <3>1. CASE i = 1
      <4>1. run[i] = run[0] \o seqs[i]
        BY <1>8, <3>1
      <4> QED
        BY <1>4, <1>5, <1>7, <3>1, <4>1
    <3>2. CASE i # 1
      <4>1. i - 1 \in 1 .. n
        BY <3>2
      <4> QED
        BY <1>8, <3>2, <4>1
    <3> QED
      BY <3>1, <3>2
  <2>2. Rec(f)
    BY <2>1
  <2> HIDE DEF f, Rec
  <2> QED
    BY <2>2
<1>10. Rec(flatten)
  <2> HIDE DEF Rec
  <2> QED
    BY <1>9
<1>11. \A i \in 1 .. n : flatten[i] = IF i = 1 THEN seqs[i] ELSE flatten[i - 1] \o seqs[i]
  BY <1>10
<1> HIDE DEF flatten
<1> DEFINE T == {k \in 0 .. n : k = 0 \/ flatten[k] = run[k]}
<1>12. 0 \in T
  OBVIOUS
<1>13. ASSUME NEW k \in 1 .. n, k - 1 \in T PROVE k \in T
  <2>1. CASE k = 1
    <3>1. run[1] = run[0] \o seqs[1] /\ flatten[1] = seqs[1]
      BY <1>8, <1>11, <2>1
    <3> QED
      BY <1>4, <1>5, <1>7, <2>1, <3>1
  <2>2. CASE k # 1
    <3>1. flatten[k - 1] = run[k - 1]
      BY <1>13, <2>2
    <3>2. flatten[k] = flatten[k - 1] \o seqs[k]
      BY <1>11, <2>2
    <3>3. run[k] = run[k - 1] \o seqs[k]
      BY <1>8
    <3>4. flatten[k] = run[k]
      BY <3>1, <3>2, <3>3
    <3> QED
      BY <3>4
  <2> QED
    BY <2>1, <2>2
<1>14. 0 .. n \subseteq T
  <2> HIDE DEF T
  <2> QED
    BY <1>12, <1>13, InductionUpTo
<1>15. run[n] = FlattenSeq(seqs)
  <2>1. n \in T
    BY <1>14
  <2> QED
    BY <1>1, <1>2, <1>7, <2>1
<1> QED
  BY <1>6, <1>15 DEF V

\* Sequences of one kind are joined to another of it.
LEMMA FlattenType ==
    ASSUME NEW S, NEW n \in Nat, NEW seqs \in [1 .. n -> Seq(S)]
    PROVE  FlattenSeq(seqs) \in Seq(S)
<1>1. PICK run \in [0 .. n -> Seq(S)] :
         Joins(run, n, <<>>, seqs) /\ run[n] = FlattenSeq(seqs)
  BY FlattenRun
<1>2. n \in 0 .. n
  OBVIOUS
<1>3. run[n] \in Seq(S)
  BY <1>2
<1> QED
  BY <1>1, <1>3

\* Nothing joined is nothing.
LEMMA FlattenEmpty == FlattenSeq(<<>>) = <<>>
  BY DEF FlattenSeq

\* One sequence more is joined at the end.
LEMMA FlattenAppend ==
    ASSUME NEW S, NEW n \in Nat, NEW seqs \in [1 .. n -> Seq(S)],
           NEW more \in [1 .. n + 1 -> Seq(S)], \A k \in 1 .. n : more[k] = seqs[k]
    PROVE  FlattenSeq(more) = FlattenSeq(seqs) \o more[n + 1]
<1>1. PICK run \in [0 .. n -> Seq(S)] :
         Joins(run, n, <<>>, seqs) /\ run[n] = FlattenSeq(seqs)
  BY FlattenRun
<1>2. /\ run[0] = <<>> /\ run[n] = FlattenSeq(seqs)
      /\ \A k \in 1 .. n : run[k] = run[k - 1] \o seqs[k]
  BY <1>1 DEF Joins
<1>3. PICK m \in Nat : m = n + 1
  OBVIOUS
<1>4. more \in [1 .. m -> Seq(S)]
  BY <1>3
<1>5. PICK longer \in [0 .. m -> Seq(S)] :
         Joins(longer, m, <<>>, more) /\ longer[m] = FlattenSeq(more)
  BY <1>4, FlattenRun
<1>6. /\ longer[0] = <<>> /\ longer[m] = FlattenSeq(more)
      /\ \A k \in 1 .. m : longer[k] = longer[k - 1] \o more[k]
  BY <1>5 DEF Joins
<1> DEFINE T == {k \in 0 .. n : longer[k] = run[k]}
<1>7. 0 \in T
  BY <1>2, <1>6
<1>8. ASSUME NEW k \in 1 .. n, k - 1 \in T PROVE k \in T
  <2>1. k \in 1 .. m /\ longer[k - 1] = run[k - 1] /\ more[k] = seqs[k]
    BY <1>3, <1>8
  <2>2. longer[k] = longer[k - 1] \o more[k] /\ run[k] = run[k - 1] \o seqs[k]
    BY <1>2, <1>6, <2>1
  <2>3. longer[k] = run[k]
    BY <2>1, <2>2
  <2> QED
    BY <2>3
<1>9. 0 .. n \subseteq T
  <2> HIDE DEF T
  <2> QED
    BY <1>7, <1>8, InductionUpTo
<1>10. longer[n] = run[n] /\ m \in 1 .. m /\ m - 1 = n
  BY <1>3, <1>9
<1>11. longer[m] = longer[m - 1] \o more[m]
  BY <1>6, <1>10
<1> QED
  BY <1>2, <1>3, <1>6, <1>10, <1>11

-----------------------------------------------------------------------------
Increases(s, n) == \A i, j \in 1 .. n : i < j => s[i] < s[j]
Within(a, n, b, m) == \A i \in 1 .. n : \E j \in 1 .. m : a[i] = b[j]
SameBelow(a, n, b, m, t) == \A k \in 1 .. n : k < t => k <= m /\ a[k] = b[k]

\* Two enumerations of a set agree as far as they go.
LEMMA AgreeUpTo ==
    ASSUME NEW n \in Nat, NEW m \in Nat, NEW a \in [1 .. n -> Nat], NEW b \in [1 .. m -> Nat],
           Increases(a, n), Increases(b, m), Within(a, n, b, m),
           NEW t \in 1 .. n, SameBelow(a, n, b, m, t)
    PROVE  t <= m /\ b[t] <= a[t]
<1>1. PICK j \in 1 .. m : a[t] = b[j]
  BY DEF Within
<1>2. ~(j < t)
  <2> SUFFICES ASSUME j < t PROVE FALSE
    OBVIOUS
  <2>1. j \in 1 .. n /\ a[j] = b[j] /\ a[j] < a[t]
    BY DEF Increases, SameBelow
  <2>2. a[j] \in Nat /\ a[t] \in Nat
    BY <2>1
  <2> QED
    BY <1>1, <2>1, <2>2
<1>3. t \in 1 .. m
  BY <1>2
<1>4. t = j \/ b[t] < b[j]
  BY <1>2, <1>3 DEF Increases
<1>5. b[t] \in Nat /\ b[j] \in Nat
  BY <1>3
<1> QED
  BY <1>1, <1>3, <1>4, <1>5

\* A set is enumerated in its order in one way only.
LEMMA OneEnumeration ==
    ASSUME NEW n \in Nat, NEW m \in Nat, NEW a \in [1 .. n -> Nat], NEW b \in [1 .. m -> Nat],
           Increases(a, n), Increases(b, m),
           Within(a, n, b, m), Within(b, m, a, n)
    PROVE  n = m /\ a = b
<1> DEFINE T == {k \in Nat : (k \in 1 .. n \/ k \in 1 .. m) /\ ~(k <= n /\ k <= m /\ a[k] = b[k])}
<1>1. T = {}
  <2> SUFFICES ASSUME T # {} PROVE FALSE
    OBVIOUS
  <2>1. PICK t \in T : \A k \in T : t <= k
    <3>1. T \in SUBSET Nat
      OBVIOUS
    <3> HIDE DEF T
    <3> QED
      BY <3>1, LeastElement
  <2>2. t \in Nat /\ (t \in 1 .. n \/ t \in 1 .. m) /\ ~(t <= n /\ t <= m /\ a[t] = b[t])
    OBVIOUS
  <2>3. ASSUME NEW k \in Nat, k \in 1 .. n \/ k \in 1 .. m, k < t
        PROVE  k <= n /\ k <= m /\ a[k] = b[k]
    <3>1. k \notin T
      <4> HIDE DEF T
      <4> QED
        BY <2>1, <2>2, <2>3
    <3> QED
      BY <2>3, <3>1
  <2>4. t \in 1 .. n => t <= m /\ b[t] <= a[t]
    <3> HIDE DEF T
    <3> HAVE t \in 1 .. n
    <3>1. SameBelow(a, n, b, m, t)
      BY <2>2, <2>3 DEF SameBelow
    <3> QED
      BY <3>1, AgreeUpTo
  <2>5. t \in 1 .. m => t <= n /\ a[t] <= b[t]
    <3> HIDE DEF T
    <3> HAVE t \in 1 .. m
    <3>1. SameBelow(b, m, a, n, t)
      BY <2>2, <2>3 DEF SameBelow
    <3> QED
      BY <3>1, AgreeUpTo
  <2>6. t \in 1 .. n /\ t \in 1 .. m
    BY <2>2, <2>4, <2>5
  <2>7. a[t] \in Nat /\ b[t] \in Nat
    BY <2>6
  <2> QED
    BY <2>2, <2>4, <2>5, <2>6, <2>7
<1>2. ASSUME NEW k \in Nat, k \in 1 .. n \/ k \in 1 .. m PROVE k <= n /\ k <= m /\ a[k] = b[k]
  <2>1. k \notin T
    BY <1>1
  <2> QED
    BY <1>2, <2>1
<1>3. n = m
  <2>1. n = 0 \/ n \in 1 .. n
    OBVIOUS
  <2>2. m = 0 \/ m \in 1 .. m
    OBVIOUS
  <2>3. (n # 0 => n <= m) /\ (m # 0 => m <= n)
    BY <1>2, <2>1, <2>2
  <2> QED
    BY <2>3
<1> QED
  BY <1>2, <1>3

-----------------------------------------------------------------------------
Orders(R, S) ==
    /\ \A x, y \in S : x = y \/ <<x, y>> \in R \/ <<y, x>> \in R
    /\ \A x, y, z \in S : <<x, y>> \in R /\ <<y, z>> \in R => <<x, z>> \in R

Greatest(top, R, M) == \A x \in M : x = top \/ <<x, top>> \in R
InOrder(f, n, R) == \A i, j \in 1 .. n : i < j => <<f[i], f[j]>> \in R

\* A finite set that is not empty has a greatest element in any order of it.
LEMMA GreatestExists ==
    ASSUME NEW S, IsFiniteSet(S), NEW R, Orders(R, S), NEW M \in SUBSET S, M # {}
    PROVE  \E top \in M : Greatest(top, R, M)
<1>1. PICK n \in Nat : n = Cardinality(S)
  BY FS_CardinalityType
<1> DEFINE T == {k \in 0 .. n : \A N \in SUBSET S :
                    Cardinality(N) = k /\ N # {} => \E top \in N : Greatest(top, R, N)}
<1>2. 0 \in T
  <2>1. ASSUME NEW N \in SUBSET S, Cardinality(N) = 0 PROVE N = {}
    <3>1. IsFiniteSet(N)
      BY FS_Subset
    <3> QED
      BY <2>1, <3>1, FS_EmptySet
  <2>2. \A k \in 0 .. n : k = 0 => k \in T
    BY <2>1
  <2>3. 0 \in 0 .. n
    OBVIOUS
  <2> QED
    BY <2>2, <2>3
<1>3. ASSUME NEW k \in 1 .. n, k - 1 \in T PROVE k \in T
  <2>1. ASSUME NEW N \in SUBSET S, Cardinality(N) = k, N # {}
        PROVE  \E top \in N : Greatest(top, R, N)
    <3>1. PICK x \in N : TRUE
      BY <2>1
    <3>2. IsFiniteSet(N)
      BY FS_Subset
    <3>3. Cardinality(N \ {x}) = k - 1
      BY <2>1, <3>2, FS_RemoveElement
    <3>4. CASE N \ {x} = {}
      <4>1. Greatest(x, R, N)
        BY <3>4 DEF Greatest
      <4> QED
        BY <4>1
    <3>5. CASE N \ {x} # {}
      <4>1. N \ {x} \in SUBSET S
        OBVIOUS
      <4>2. PICK top \in N \ {x} : Greatest(top, R, N \ {x})
        BY <1>3, <3>3, <3>5, <4>1
      <4>3. x \in S /\ top \in S /\ \A y \in N : y \in S
        OBVIOUS
      <4>4. CASE <<x, top>> \in R
        <5>1. Greatest(top, R, N)
          BY <4>2, <4>4 DEF Greatest
        <5> QED
          BY <5>1
      <4>5. CASE <<top, x>> \in R
        <5>1. ASSUME NEW y \in N PROVE y = x \/ <<y, x>> \in R
          <6>1. y = x \/ y = top \/ <<y, top>> \in R
            BY <4>2 DEF Greatest
          <6> QED
            BY <4>3, <4>5, <6>1 DEF Orders
        <5>2. Greatest(x, R, N)
          BY <5>1 DEF Greatest
        <5> QED
          BY <5>2
      <4> QED
        BY <4>2, <4>3, <4>4, <4>5 DEF Orders
    <3> QED
      BY <3>4, <3>5
  <2>2. k \in 0 .. n
    OBVIOUS
  <2> QED
    BY <2>1, <2>2
<1>4. 0 .. n \subseteq T
  <2> HIDE DEF T
  <2> QED
    BY <1>2, <1>3, InductionUpTo
<1>5. Cardinality(M) \in 0 .. n
  <2>1. Cardinality(M) <= n /\ IsFiniteSet(M)
    BY <1>1, FS_Subset
  <2>2. Cardinality(M) \in Nat
    BY <2>1, FS_CardinalityType
  <2> QED
    BY <2>1, <2>2
<1> QED
  BY <1>4, <1>5

\* A finite set can be listed in any order of it.
LEMMA ListingExists ==
    ASSUME NEW S, IsFiniteSet(S), NEW R, Orders(R, S)
    PROVE  \E f \in [1 .. Cardinality(S) -> S] : InOrder(f, Cardinality(S), R)
<1>1. PICK n \in Nat : n = Cardinality(S)
  BY FS_CardinalityType
<1> DEFINE Listed(N, k) == \E f \in [1 .. k -> N] : InOrder(f, k, R)
           T == {k \in 0 .. n : \A N \in SUBSET S : Cardinality(N) = k => Listed(N, k)}
<1>2. 0 \in T
  <2>1. ASSUME NEW N \in SUBSET S PROVE Listed(N, 0)
    <3> DEFINE f == [i \in 1 .. 0 |-> i]
    <3>1. f \in [1 .. 0 -> N] /\ InOrder(f, 0, R)
      BY DEF InOrder
    <3> HIDE DEF f
    <3> QED
      BY <3>1
  <2> HIDE DEF Listed
  <2>2. \A k \in 0 .. n : k = 0 => k \in T
    BY <2>1
  <2>3. 0 \in 0 .. n
    OBVIOUS
  <2> HIDE DEF T
  <2> QED
    BY <2>2, <2>3
<1>3. ASSUME NEW k \in 1 .. n, k - 1 \in T PROVE k \in T
  <2>1. ASSUME NEW N \in SUBSET S, Cardinality(N) = k PROVE Listed(N, k)
    <3>1. IsFiniteSet(N)
      BY FS_Subset
    <3>2. N # {}
      BY <2>1, <3>1, FS_EmptySet
    <3>3. PICK top \in N : Greatest(top, R, N)
      BY <3>2, GreatestExists
    <3>4. Cardinality(N \ {top}) = k - 1 /\ N \ {top} \in SUBSET S
      BY <2>1, <3>1, FS_RemoveElement
    <3>5. PICK h \in [1 .. k - 1 -> N \ {top}] : InOrder(h, k - 1, R)
      BY <1>3, <3>4
    <3> DEFINE f == [i \in 1 .. k |-> IF i = k THEN top ELSE h[i]]
    <3>6. \A i \in 1 .. k : i = k \/ i \in 1 .. k - 1
      OBVIOUS
    <3>7. f \in [1 .. k -> N]
      BY <3>6
    <3>8. ASSUME NEW i \in 1 .. k, NEW j \in 1 .. k, i < j PROVE <<f[i], f[j]>> \in R
      <4>1. i \in 1 .. k - 1 /\ f[i] = h[i] /\ h[i] \in N \ {top}
        BY <3>8
      <4>2. CASE j = k
        <5>1. <<h[i], top>> \in R
          BY <3>3, <4>1 DEF Greatest
        <5> QED
          BY <4>1, <4>2, <5>1
      <4>3. CASE j # k
        <5>1. j \in 1 .. k - 1 /\ f[j] = h[j]
          BY <4>3
        <5> QED
          BY <3>5, <3>8, <4>1, <5>1 DEF InOrder
      <4> QED
        BY <4>2, <4>3
    <3> HIDE DEF f
    <3>9. InOrder(f, k, R)
      BY <3>8 DEF InOrder
    <3> QED
      BY <3>7, <3>9
  <2>2. k \in 0 .. n
    OBVIOUS
  <2> HIDE DEF Listed
  <2> QED
    BY <2>1, <2>2
<1>4. 0 .. n \subseteq T
  <2> HIDE DEF T
  <2> QED
    BY <1>2, <1>3, InductionUpTo
<1>5. n \in T /\ S \in SUBSET S
  BY <1>4
<1> QED
  BY <1>1, <1>5

\* A list in an order that no element precedes itself in holds every element.
LEMMA ListingIsWhole ==
    ASSUME NEW S, IsFiniteSet(S), NEW R, \A x \in S : <<x, x>> \notin R,
           NEW f \in [1 .. Cardinality(S) -> S], InOrder(f, Cardinality(S), R)
    PROVE  \A x \in S : \E i \in 1 .. Cardinality(S) : f[i] = x
<1>1. PICK n \in Nat : n = Cardinality(S)
  BY FS_CardinalityType
<1>2. ASSUME NEW i \in 1 .. n, NEW j \in 1 .. n, f[i] = f[j] PROVE i = j
  <2>1. f[i] \in S /\ f[j] \in S
    BY <1>1
  <2>2. ~(i < j) /\ ~(j < i)
    BY <1>1, <1>2, <2>1 DEF InOrder
  <2> QED
    BY <2>2
<1>3. f \in Injection(1 .. n, S)
  BY <1>1, <1>2 DEF Injection, IsInjective
<1>4. Cardinality(1 .. n) = n
  BY FS_Interval
<1>5. f \in Surjection(1 .. n, S)
  BY <1>1, <1>3, <1>4, FS_Injection
<1> QED
  BY <1>1, <1>5 DEF Surjection
=============================================================================
