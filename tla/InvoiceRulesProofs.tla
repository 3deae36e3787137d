------------------------- MODULE InvoiceRulesProofs -------------------------
(***************************************************************************)
(* Proofs about InvoiceRules: what is accepted adds up, the worst line     *)
(* decides, an accepted date has one reading, and an approved payload can  *)
(* be recorded.                                                            *)
(*                                                                         *)
(* The first two rest on what the loops over a draft's lines arrive at:    *)
(* each fold is unfolded to the states of its loop (SumRun, LineRun), and  *)
(* an induction over them says what the last one is.  The last rests on    *)
(* this: no two committed documents are of one invoice, because an         *)
(* approval looks for every other one, a record still counts only while    *)
(* its document is committed with its payload, and the destination's       *)
(* column tells apart what the rules tell apart, because a normalised      *)
(* supplier has no colon.                                                  *)
(***************************************************************************)
EXTENDS InvoiceRules, FoldLemmas, SequenceTheorems, TLAPS

Accepting == COMMITTED_STATUSES \cup {"validated"}

Keyed(draft) == business_key(draft) # NoKey
SameDraft(d, e) == business_key(document[d].draft) = business_key(document[e].draft)

\* A document that was accepted has its draft, which has a key and one date,
\* and adds up.
AcceptedDocument(d) ==
    document[d].status \in Accepting =>
        /\ {"draft", "status"} \subseteq DOMAIN document[d]
        /\ document[d].draft \in Drafts
        /\ Keyed(document[d].draft)
        /\ ~Ambiguous(document[d].draft.date)
        /\ Implied(document[d].draft) = document[d].draft.total

\* The results of the rules are those of the draft they stand with.
Judgement(d) ==
    "results" \in DOMAIN document[d] =>
        /\ document[d].draft \in Drafts
        /\ document[d].results.lines = LineOutcome(document[d].draft.lines)

RecordKept(r) ==
    /\ r.document \in Documents /\ r.payload \in Drafts
    /\ Keyed(r.payload) /\ r.key = StoredKey(r.payload)
    /\ Implied(r.payload) = r.payload.total

RulesInv ==
    /\ DOMAIN document = Documents
    /\ \A d \in Documents : AcceptedDocument(d) /\ Judgement(d)
    /\ \A d, e \in Documents :
         (d # e /\ document[d].status \in COMMITTED_STATUSES
                /\ document[e].status \in COMMITTED_STATUSES) => ~SameDraft(d, e)
    /\ \A r \in records : RecordKept(r)

-----------------------------------------------------------------------------
\* The sum of a sequence is what a loop over it arrives at.
LEMMA SumRun ==
    ASSUME NEW amounts \in Seq(Int)
    PROVE  \E run : /\ run[0] = 0
                    /\ \A k \in 1 .. Len(amounts) : run[k] = run[k - 1] + amounts[k]
                    /\ run[Len(amounts)] = Sum(amounts)
<1> DEFINE n == Len(amounts)
           V == Int
           step == [x \in V \X (1 .. n) |-> x[1] + amounts[x[2]]]
           Rec(f) == f = [S \in SUBSET (1 .. n) |->
                            IF S = {} THEN 0 ELSE f[S \ {Max(S)}] + amounts[Max(S)]]
           iter == CHOOSE f : Rec(f)
           run == [k \in 0 .. n |-> iter[1 .. k]]
<1>1. n \in Nat /\ DOMAIN amounts = 1 .. n /\ \A i \in 1 .. n : amounts[i] \in V
  OBVIOUS
<1>2. step \in [V \X (1 .. n) -> V] /\ 0 \in V
  BY <1>1
<1>3. Sum(amounts) = iter[1 .. n]
  BY <1>1 DEF Sum, FoldLeft, MapThenFoldSet
<1> HIDE DEF n, V
<1>4. \E f : Rec(f)
  <2> HIDE DEF step
  <2>1. PICK f \in [SUBSET (1 .. n) -> V] :
           /\ f[{}] = 0
           /\ \A S \in SUBSET (1 .. n) : S # {} =>
                f[S] = step[<<f[S \ {Max(S)}], Max(S)>>] /\ Max(S) \in 1 .. n
    BY <1>1, <1>2, IteratesExist
  <2>2. \A S \in SUBSET (1 .. n) : S # {} => f[S] = f[S \ {Max(S)}] + amounts[Max(S)]
    BY <2>1 DEF step
  <2> QED
    BY <2>1, <2>2
<1>5. Rec(iter)
  <2> HIDE DEF Rec
  <2> QED
    BY <1>4
<1> HIDE DEF iter, step
<1>6. run[0] = 0
  BY <1>1, <1>5
<1>7. ASSUME NEW k \in 1 .. n PROVE run[k] = run[k - 1] + amounts[k]
  <2>1. k - 1 \in 0 .. n /\ k \in 0 .. n
    BY <1>1
  <2>2. /\ Max(1 .. k) = k /\ (1 .. k) \ {k} = 1 .. k - 1
        /\ 1 .. k # {} /\ (1 .. k) \in SUBSET (1 .. n)
    BY <1>1, MaxOfInterval
  <2>3. iter[1 .. k] = iter[(1 .. k) \ {Max(1 .. k)}] + amounts[Max(1 .. k)]
    BY <1>5, <2>2
  <2> QED
    BY <2>1, <2>2, <2>3
<1>8. run[n] = Sum(amounts)
  BY <1>1, <1>3
<1> HIDE DEF run
<1> QED
  BY <1>6, <1>7, <1>8 DEF n

LEMMA SumIsInt ==
    ASSUME NEW amounts \in Seq(Int)
    PROVE  Sum(amounts) \in Int
<1>1. PICK run : /\ run[0] = 0
                 /\ \A k \in 1 .. Len(amounts) : run[k] = run[k - 1] + amounts[k]
                 /\ run[Len(amounts)] = Sum(amounts)
  BY SumRun
<1> DEFINE n == Len(amounts)
           T == {k \in 0 .. n : run[k] \in Int}
<1>2. n \in Nat /\ \A k \in 1 .. n : amounts[k] \in Int
  OBVIOUS
<1>3. 0 \in T /\ \A k \in 1 .. n : k - 1 \in T => k \in T
  BY <1>1, <1>2
<1> HIDE DEF T
<1>4. 0 .. n \subseteq T
  BY <1>2, <1>3, InductionUpTo
<1> QED
  BY <1>1, <1>2, <1>4 DEF T

-----------------------------------------------------------------------------
LineType == [quantity : Int, unit_price : Int, amount : Int]
Drift(line) == Distance(line.quantity * line.unit_price, line.amount)
Outcomes == {"pass", "needs_review", "fail"}

LEMMA DriftType ==
    ASSUME NEW line \in LineType
    PROVE  Drift(line) \in Nat
  BY DEF LineType, Drift, Distance

LEMMA OutcomeOfDrift ==
    ASSUME NEW drift \in Nat
    PROVE  /\ MoneyOutcome(drift) \in Outcomes
           /\ MoneyOutcome(drift) = "fail" <=> drift > Tolerance
           /\ MoneyOutcome(drift) = "pass" <=> drift = 0
  BY RulesAssumption DEF MoneyOutcome, Outcomes

\* The rule about lines is what a loop over them arrives at.
LEMMA LineRun ==
    ASSUME NEW lines \in Seq(LineType)
    PROVE  \E run : /\ run[0] = "pass"
                    /\ \A k \in 1 .. Len(lines) :
                         run[k] = Worse(run[k - 1], MoneyOutcome(Drift(lines[k])))
                    /\ run[Len(lines)] = LineOutcome(lines)
<1> DEFINE n == Len(lines)
           V == Outcomes
           More(v, i) == Worse(v, MoneyOutcome(Drift(lines[i])))
           step == [x \in V \X (1 .. n) |-> More(x[1], x[2])]
           Rec(f) == f = [S \in SUBSET (1 .. n) |->
                            IF S = {} THEN "pass" ELSE More(f[S \ {Max(S)}], Max(S))]
           iter == CHOOSE f : Rec(f)
           run == [k \in 0 .. n |-> iter[1 .. k]]
<1>1. n \in Nat /\ DOMAIN lines = 1 .. n /\ \A i \in 1 .. n : lines[i] \in LineType
  OBVIOUS
<1>2. step \in [V \X (1 .. n) -> V] /\ "pass" \in V
  <2>1. \A i \in 1 .. n : MoneyOutcome(Drift(lines[i])) \in Outcomes
    BY <1>1, DriftType, OutcomeOfDrift
  <2> QED
    BY <2>1 DEF Worse, Outcomes
<1>3. LineOutcome(lines) = iter[1 .. n]
  BY <1>1 DEF LineOutcome, FoldLeft, MapThenFoldSet, Drift
<1> HIDE DEF n, V, More
<1>4. \E f : Rec(f)
  <2> HIDE DEF step
  <2>1. PICK f \in [SUBSET (1 .. n) -> V] :
           /\ f[{}] = "pass"
           /\ \A S \in SUBSET (1 .. n) : S # {} =>
                f[S] = step[<<f[S \ {Max(S)}], Max(S)>>] /\ Max(S) \in 1 .. n
    BY <1>1, <1>2, IteratesExist
  <2>2. \A S \in SUBSET (1 .. n) : S # {} => f[S] = More(f[S \ {Max(S)}], Max(S))
    BY <2>1 DEF step
  <2> QED
    BY <2>1, <2>2
<1>5. Rec(iter)
  <2> HIDE DEF Rec
  <2> QED
    BY <1>4
<1> HIDE DEF iter, step
<1>6. run[0] = "pass"
  BY <1>1, <1>5
<1>7. ASSUME NEW k \in 1 .. n PROVE run[k] = More(run[k - 1], k)
  <2>1. k - 1 \in 0 .. n /\ k \in 0 .. n
    BY <1>1
  <2>2. /\ Max(1 .. k) = k /\ (1 .. k) \ {k} = 1 .. k - 1
        /\ 1 .. k # {} /\ (1 .. k) \in SUBSET (1 .. n)
    BY <1>1, MaxOfInterval
  <2>3. iter[1 .. k] = More(iter[(1 .. k) \ {Max(1 .. k)}], Max(1 .. k))
    BY <1>5, <2>2
  <2> QED
    BY <2>1, <2>2, <2>3
<1>8. run[n] = LineOutcome(lines)
  BY <1>1, <1>3
<1> HIDE DEF run
<1> QED
  BY <1>6, <1>7, <1>8 DEF n, More

\* The worst line decides, wherever it stands.
LEMMA WorstOfLines ==
    ASSUME NEW lines \in Seq(LineType)
    PROVE  /\ LineOutcome(lines) \in Outcomes
           /\ LineOutcome(lines) = "fail" <=>
                \E i \in 1 .. Len(lines) : Drift(lines[i]) > Tolerance
           /\ LineOutcome(lines) = "pass" <=>
                \A i \in 1 .. Len(lines) : Drift(lines[i]) = 0
<1> DEFINE n == Len(lines)
           Worst(v, k) == /\ v \in Outcomes
                          /\ v = "fail" <=> \E i \in 1 .. k : Drift(lines[i]) > Tolerance
                          /\ v = "pass" <=> \A i \in 1 .. k : Drift(lines[i]) = 0
<1>1. PICK run : /\ run[0] = "pass"
                 /\ \A k \in 1 .. n :
                      run[k] = Worse(run[k - 1], MoneyOutcome(Drift(lines[k])))
                 /\ run[n] = LineOutcome(lines)
  BY LineRun
<1> DEFINE T == {k \in 0 .. n : Worst(run[k], k)}
<1>2. n \in Nat /\ \A k \in 1 .. n : lines[k] \in LineType
  OBVIOUS
<1> HIDE DEF n
<1>3. 0 \in T
  BY <1>1, <1>2 DEF Outcomes
<1>4. ASSUME NEW k \in 1 .. n, k - 1 \in T PROVE k \in T
  <2> DEFINE drift == Drift(lines[k])
             outcome == MoneyOutcome(drift)
  <2>1. drift \in Nat
    BY <1>2, DriftType
  <2>2. /\ outcome \in Outcomes
        /\ outcome = "fail" <=> drift > Tolerance
        /\ outcome = "pass" <=> drift = 0
    BY <2>1, OutcomeOfDrift
  <2>3. Worst(run[k - 1], k - 1) /\ run[k] = Worse(run[k - 1], outcome)
    BY <1>1, <1>4
  <2>4. \A i : i \in 1 .. k <=> i \in 1 .. k - 1 \/ i = k
    BY <1>2
  <2> HIDE DEF outcome
  <2>5. Tolerance \in Nat /\ k \in 0 .. n
    BY <1>2, RulesAssumption
  <2>6. run[k] \in Outcomes
    BY <2>2, <2>3 DEF Worse, Outcomes
  <2>7. run[k] = "fail" <=> run[k - 1] = "fail" \/ outcome = "fail"
    BY <2>2, <2>3 DEF Worse, Outcomes
  <2>8. run[k] = "pass" <=> run[k - 1] = "pass" /\ outcome = "pass"
    BY <2>2, <2>3 DEF Worse, Outcomes
  <2>9. run[k] = "fail" <=> \E i \in 1 .. k : Drift(lines[i]) > Tolerance
    BY <2>2, <2>3, <2>4, <2>7
  <2>10. run[k] = "pass" <=> \A i \in 1 .. k : Drift(lines[i]) = 0
    BY <2>2, <2>3, <2>4, <2>8
  <2> QED
    BY <2>5, <2>6, <2>9, <2>10
<1> HIDE DEF T
<1>5. 0 .. n \subseteq T
  BY <1>2, <1>3, <1>4, InductionUpTo
<1>6. n \in T
  BY <1>2, <1>5
<1> QED
  BY <1>1, <1>6 DEF T, n

\* A draft whose lines, subtotal and total pass adds up.
LEMMA PassingAmounts ==
    ASSUME NEW draft \in DraftType,
           LineOutcome(draft.lines) = "pass",
           MoneyOutcome(Distance(Sum(Amounts(draft.lines)), draft.subtotal)) = "pass",
           MoneyOutcome(Distance(draft.subtotal + draft.tax, draft.total)) = "pass"
    PROVE  Implied(draft) = draft.total
<1>1. PICK lines \in Seq(LineType), subtotal \in Int, tax \in Int, total \in Int :
           /\ lines = draft.lines /\ subtotal = draft.subtotal
           /\ tax = draft.tax /\ total = draft.total
  BY DEF DraftType, LineType
<1> DEFINE n == Len(lines)
           implied == [i \in DOMAIN lines |-> lines[i].quantity * lines[i].unit_price]
<1>2. DOMAIN lines = 1 .. n /\ n \in Nat /\ \A i \in 1 .. n : lines[i] \in LineType
  OBVIOUS
<1>3. \A i \in 1 .. n : Drift(lines[i]) = 0
  BY <1>1, WorstOfLines
<1>4. \A i \in 1 .. n : lines[i].quantity * lines[i].unit_price = lines[i].amount
  <2> TAKE i \in 1 .. n
  <2>1. PICK product \in Int : product = lines[i].quantity * lines[i].unit_price
    BY <1>2 DEF LineType
  <2>2. lines[i].amount \in Int /\ Distance(product, lines[i].amount) = 0
    BY <1>2, <1>3, <2>1 DEF LineType, Drift
  <2> QED
    BY <2>1, <2>2 DEF Distance
<1>5. implied = Amounts(lines)
  BY <1>2, <1>4 DEF Amounts
<1>6. Amounts(lines) \in Seq(Int)
  <2>1. Amounts(lines) = [i \in 1 .. n |-> lines[i].amount]
    BY <1>2 DEF Amounts
  <2>2. Amounts(lines) \in [1 .. n -> Int]
    BY <1>2, <2>1 DEF LineType
  <2> QED
    BY <1>2, <2>2
<1>7. Sum(Amounts(lines)) \in Int
  BY <1>6, SumIsInt
<1>8. ASSUME NEW a \in Int, NEW b \in Int, MoneyOutcome(Distance(a, b)) = "pass"
      PROVE  a = b
  <2>1. Distance(a, b) \in Nat
    BY DEF Distance
  <2>2. Distance(a, b) = 0
    BY <1>8, <2>1, OutcomeOfDrift
  <2> QED
    BY <2>2 DEF Distance
<1>9. subtotal + tax \in Int
  BY <1>1
<1>10. Sum(Amounts(lines)) = subtotal
  BY <1>1, <1>7, <1>8
<1>11. subtotal + tax = total
  BY <1>1, <1>8, <1>9
<1>12. Implied(draft) = Sum(implied) + tax
  BY <1>1 DEF Implied
<1> QED
  BY <1>1, <1>5, <1>10, <1>11, <1>12

-----------------------------------------------------------------------------
\* A normalised supplier is what a loop over the name arrives at, and has
\* only characters of Alphanumeric.
LEMMA NormalizedType ==
    ASSUME NEW name \in Seq(STRING)
    PROVE  normalize_supplier(name) \in Seq(Alphanumeric)
<1> DEFINE n == Len(name)
           V == Seq(Alphanumeric)
           More(v, i) == IF Lower(name[i]) \in Alphanumeric THEN Append(v, Lower(name[i])) ELSE v
           step == [x \in V \X (1 .. n) |-> More(x[1], x[2])]
           Rec(f) == f = [S \in SUBSET (1 .. n) |->
                            IF S = {} THEN <<>> ELSE More(f[S \ {Max(S)}], Max(S))]
           iter == CHOOSE f : Rec(f)
           T == {k \in 0 .. n : iter[1 .. k] \in V}
<1>1. n \in Nat /\ DOMAIN name = 1 .. n
  OBVIOUS
<1>2. \A v \in V, i \in 1 .. n : More(v, i) \in V
  OBVIOUS
<1>3. step \in [V \X (1 .. n) -> V] /\ <<>> \in V
  BY <1>2
<1>4. normalize_supplier(name) = iter[1 .. n]
  BY <1>1 DEF normalize_supplier, FoldLeft, MapThenFoldSet
<1> HIDE DEF n, V, More
<1>5. \E f : Rec(f)
  <2> HIDE DEF step
  <2>1. PICK f \in [SUBSET (1 .. n) -> V] :
           /\ f[{}] = <<>>
           /\ \A S \in SUBSET (1 .. n) : S # {} =>
                f[S] = step[<<f[S \ {Max(S)}], Max(S)>>] /\ Max(S) \in 1 .. n
    BY <1>1, <1>3, IteratesExist
  <2>2. \A S \in SUBSET (1 .. n) : S # {} => f[S] = More(f[S \ {Max(S)}], Max(S))
    BY <2>1 DEF step
  <2> QED
    BY <2>1, <2>2
<1>6. Rec(iter)
  <2> HIDE DEF Rec
  <2> QED
    BY <1>5
<1> HIDE DEF iter, step
<1>7. 0 \in T
  BY <1>1, <1>3, <1>6
<1>8. ASSUME NEW k \in 1 .. n, k - 1 \in T PROVE k \in T
  <2>1. /\ Max(1 .. k) = k /\ (1 .. k) \ {k} = 1 .. k - 1
        /\ 1 .. k # {} /\ (1 .. k) \in SUBSET (1 .. n)
    BY <1>1, MaxOfInterval
  <2>2. iter[1 .. k] = More(iter[(1 .. k) \ {Max(1 .. k)}], Max(1 .. k))
    BY <1>6, <2>1
  <2>3. iter[1 .. k - 1] \in V /\ k \in 0 .. n
    BY <1>1, <1>8
  <2> QED
    BY <1>2, <2>1, <2>2, <2>3
<1> HIDE DEF T
<1>9. 0 .. n \subseteq T
  BY <1>1, <1>7, <1>8, InductionUpTo
<1> QED
  BY <1>1, <1>4, <1>9 DEF T, V

Joined(name, number) == name \o <<":">> \o number

\* What a colon joins can be taken apart if the first part has none.
LEMMA FirstColonSeparates ==
    ASSUME NEW a \in Seq(Alphanumeric), NEW b \in Seq(Alphanumeric),
           NEW Char, NEW c \in Seq(Char), NEW d \in Seq(Char),
           Joined(a, c) = Joined(b, d)
    PROVE  a = b /\ c = d
<1> DEFINE l == a \o <<":">> \o c
           r == b \o <<":">> \o d
<1> DEFINE U == Alphanumeric \cup Char \cup {":"}
<1>1. a \in Seq(U) /\ b \in Seq(U) /\ c \in Seq(U) /\ d \in Seq(U) /\ <<":">> \in Seq(U)
  <2>1. Alphanumeric \subseteq U /\ Char \subseteq U /\ ":" \in U
    OBVIOUS
  <2> HIDE DEF U
  <2> QED
    BY <2>1, SeqMonotonic
<1>2. /\ Len(l) = Len(a) + 1 + Len(c) /\ l[Len(a) + 1] = ":"
      /\ \A i \in 1 .. Len(a) : l[i] = a[i]
      /\ \A i \in 1 .. Len(c) : l[Len(a) + 1 + i] = c[i]
  BY <1>1
<1>3. /\ Len(r) = Len(b) + 1 + Len(d) /\ r[Len(b) + 1] = ":"
      /\ \A i \in 1 .. Len(b) : r[i] = b[i]
      /\ \A i \in 1 .. Len(d) : r[Len(b) + 1 + i] = d[i]
  BY <1>1
<1>4. l = r
  BY DEF Joined
<1>5. /\ \A i \in 1 .. Len(a) : a[i] # ":"
      /\ \A i \in 1 .. Len(b) : b[i] # ":"
  <2>1. ":" \notin Alphanumeric
    BY DEF Alphanumeric
  <2> QED
    BY <2>1
<1>6. Len(a) \in Nat /\ Len(b) \in Nat /\ Len(c) \in Nat /\ Len(d) \in Nat
  OBVIOUS
<1> HIDE DEF l, r
<1>7. ~(Len(a) < Len(b))
  <2> SUFFICES ASSUME Len(a) < Len(b) PROVE FALSE
    OBVIOUS
  <2>1. Len(a) + 1 \in 1 .. Len(b)
    BY <1>6
  <2> QED
    BY <1>2, <1>3, <1>4, <1>5, <2>1
<1>8. ~(Len(b) < Len(a))
  <2> SUFFICES ASSUME Len(b) < Len(a) PROVE FALSE
    OBVIOUS
  <2>1. Len(b) + 1 \in 1 .. Len(a)
    BY <1>6
  <2> QED
    BY <1>2, <1>3, <1>4, <1>5, <2>1
<1>9. Len(a) = Len(b) /\ Len(c) = Len(d)
  BY <1>2, <1>3, <1>4, <1>6, <1>7, <1>8
<1>10. \A i \in 1 .. Len(a) : a[i] = b[i]
  BY <1>2, <1>3, <1>4, <1>9
<1>11. \A i \in 1 .. Len(c) : c[i] = d[i]
  BY <1>2, <1>3, <1>4, <1>9
<1> QED
  BY <1>1, <1>9, <1>10, <1>11, SeqEqual

LEMMA StripType ==
    ASSUME NEW text \in Seq(STRING)
    PROVE  strip(text) \in Seq(STRING)
<1> DEFINE Solid(ch) == ch # " "
           I == {i \in 1 .. Len(text) : Solid(text[i])}
<1>1. CASE \E i \in DOMAIN text : Solid(text[i])
  <2>1. I # {} /\ I \subseteq 1 .. Len(text) /\ Len(text) \in Nat
    <3>1. DOMAIN text = 1 .. Len(text) /\ Len(text) \in Nat
      OBVIOUS
    <3>2. PICK i \in 1 .. Len(text) : Solid(text[i])
      BY <1>1, <3>1
    <3>3. i \in I
      BY <3>2
    <3> QED
      BY <3>1, <3>3
  <2> HIDE DEF I
  <2>2. Max(I) \in 1 .. Len(text)
    BY <2>1, MaxInInterval
  <2>3. Min(I) \in 1 .. Len(text)
    <3>1. I \in SUBSET Nat
      BY <2>1
    <3>2. \E m \in I : \A k \in I : m <= k
      BY <2>1, <3>1, LeastElement
    <3>3. Min(I) \in I
      BY <3>2 DEF Min
    <3> QED
      BY <2>1, <3>3
  <2>4. strip(text) = SubSeq(text, Min(I), Max(I))
    BY <1>1, <2>1 DEF strip, SelectInSeq, SelectLastInSeq, I
  <2>5. SubSeq(text, Min(I), Max(I)) \in Seq(STRING)
    BY <2>2, <2>3, SubSeqProperties
  <2> QED
    BY <2>4, <2>5
<1>2. CASE ~\E i \in DOMAIN text : Solid(text[i])
  <2>1. strip(text) = <<>>
    BY <1>2 DEF strip
  <2> QED
    BY <2>1
<1> QED
  BY <1>1, <1>2

\* The destination's column tells invoices apart as the rules do.
LEMMA StoredKeysDiffer ==
    ASSUME NEW a \in DraftType, NEW b \in DraftType,
           business_key(a) # NoKey, business_key(b) # NoKey, StoredKey(a) = StoredKey(b)
    PROVE  business_key(a) = business_key(b)
<1>1. /\ a.supplier \in Seq(STRING) /\ a.number \in Seq(STRING)
      /\ b.supplier \in Seq(STRING) /\ b.number \in Seq(STRING)
  BY DEF DraftType
<1>2. /\ business_key(a) = <<normalize_supplier(a.supplier), strip(a.number)>>
      /\ business_key(b) = <<normalize_supplier(b.supplier), strip(b.number)>>
  BY DEF business_key, NoKey
<1>3. /\ normalize_supplier(a.supplier) \in Seq(Alphanumeric)
      /\ normalize_supplier(b.supplier) \in Seq(Alphanumeric)
      /\ strip(a.number) \in Seq(STRING) /\ strip(b.number) \in Seq(STRING)
  BY <1>1, NormalizedType, StripType
<1>4. Joined(normalize_supplier(a.supplier), strip(a.number))
        = Joined(normalize_supplier(b.supplier), strip(b.number))
  BY <1>2 DEF StoredKey, Joined
<1>5. /\ normalize_supplier(a.supplier) = normalize_supplier(b.supplier)
      /\ strip(a.number) = strip(b.number)
  BY <1>3, <1>4, FirstColonSeparates
<1> QED
  BY <1>2, <1>5

-----------------------------------------------------------------------------
LEMMA NothingToStrip == strip(<<>>) = <<>>
<1>1. ~\E i \in DOMAIN <<>> : <<>>[i] # " "
  OBVIOUS
<1> QED
  BY <1>1 DEF strip

\* Drafts that pass have a key, a date with one reading, add up, and are of an
\* invoice no other committed document is of.
LEMMA PassingDraft ==
    ASSUME NEW d \in Documents, NEW draft \in Drafts, Accepted(Validate(d, draft))
    PROVE  /\ Keyed(draft)
           /\ ~Ambiguous(draft.date)
           /\ Implied(draft) = draft.total
           /\ business_key(draft) \notin KnownNumbers(d)
<1> DEFINE results == Validate(d, draft)
<1>1. \A rule \in {"required", "lines", "subtotal", "total", "date", "duplicate"} :
        results[rule] = "pass"
  <2>1. {"required", "lines", "subtotal", "total", "date", "duplicate"} \subseteq DOMAIN results
    BY DEF Validate
  <2> HIDE DEF results
  <2>2. \A rule \in DOMAIN results : results[rule] = "pass"
    BY DEF results, Accepted
  <2> QED
    BY <2>1, <2>2
<1>2. /\ results.required = "pass" /\ results.date = "pass" /\ results.duplicate = "pass"
      /\ results.lines = "pass" /\ results.subtotal = "pass" /\ results.total = "pass"
  <2> HIDE DEF results
  <2> QED
    BY <1>1
<1>3. strip(draft.supplier) # <<>> /\ strip(draft.number) # <<>>
  BY <1>2 DEF Validate, PassOr
<1>4. draft.supplier # <<>> /\ draft.number # <<>>
  BY <1>3, NothingToStrip
<1>5. business_key(draft) = RuleKey(draft) /\ Keyed(draft)
  BY <1>4 DEF business_key, RuleKey, Keyed, NoKey
<1>6. ~Ambiguous(draft.date)
  BY <1>2 DEF Validate, PassOr
<1>7. RuleKey(draft) \notin KnownNumbers(d)
  BY <1>2 DEF Validate, PassOr
<1>8. Implied(draft) = draft.total
  <2>1. /\ LineOutcome(draft.lines) = "pass"
        /\ MoneyOutcome(Distance(Sum(Amounts(draft.lines)), draft.subtotal)) = "pass"
        /\ MoneyOutcome(Distance(draft.subtotal + draft.tax, draft.total)) = "pass"
    BY <1>2 DEF Validate
  <2>2. draft \in DraftType
    BY DraftsAssumption
  <2> QED
    BY <2>1, <2>2, PassingAmounts
<1> QED
  BY <1>5, <1>6, <1>7, <1>8

\* Judging a draft, for the first time or again.
LEMMA JudgedStep ==
    ASSUME RulesInv, NEW d \in Documents, NEW draft \in Drafts,
           NEW accepted \in {"validated", "approved"},
           Judged(d, draft, accepted), UNCHANGED records
    PROVE  RulesInv'
<1> DEFINE results == Validate(d, draft)
           status == IF Accepted(results) THEN accepted ELSE "needs_review"
           new == [draft |-> draft, results |-> results, status |-> status]
<1>1. /\ document' = [document EXCEPT ![d] = new]
      /\ DOMAIN document = Documents
  BY DEF Judged, RulesInv
<1>2. /\ document'[d] = new
      /\ DOMAIN document' = Documents
      /\ \A e \in Documents : e # d => document'[e] = document[e]
  BY <1>1
<1>3. /\ new.draft = draft /\ new.status = status
      /\ {"draft", "status"} \subseteq DOMAIN new
  OBVIOUS
<1>4. status \in Accepting => Accepted(results)
  BY DEF Accepting, COMMITTED_STATUSES
<1> HIDE DEF new, status
<1>5. status \in Accepting =>
        /\ Keyed(draft) /\ ~Ambiguous(draft.date) /\ Implied(draft) = draft.total
        /\ business_key(draft) \notin KnownNumbers(d)
  BY <1>4, PassingDraft
<1>6. ASSUME NEW e \in Documents PROVE AcceptedDocument(e)' /\ Judgement(e)'
  <2>1. CASE e = d
    <3>1. AcceptedDocument(d)'
      BY <1>2, <1>3, <1>5 DEF AcceptedDocument
    <3>2. Judgement(d)'
      <4>1. new.results.lines = LineOutcome(new.draft.lines)
        BY DEF new, Validate
      <4> QED
        BY <1>2, <1>3, <4>1 DEF Judgement
    <3> QED
      BY <2>1, <3>1, <3>2
  <2>2. CASE e # d
    BY <1>2, <2>2 DEF RulesInv, AcceptedDocument, Judgement
  <2> QED
    BY <2>1, <2>2
<1>7. ASSUME NEW e \in Documents, e # d,
             document'[e].status \in COMMITTED_STATUSES, status \in COMMITTED_STATUSES
      PROVE  business_key(draft) # business_key(document'[e].draft)
  <2>1. document[e].status \in COMMITTED_STATUSES /\ document'[e].draft = document[e].draft
    BY <1>2, <1>7
  <2>2. Keyed(document[e].draft)
    BY <2>1 DEF RulesInv, AcceptedDocument, Accepting
  <2>3. business_key(document[e].draft) \in KnownNumbers(d)
    BY <1>7, <2>1, <2>2 DEF KnownNumbers, Keyed
  <2>4. business_key(draft) \notin KnownNumbers(d)
    BY <1>5, <1>7 DEF Accepting
  <2> QED
    BY <2>1, <2>3, <2>4
<1>8. ASSUME NEW e \in Documents, NEW f \in Documents, e # f,
             document'[e].status \in COMMITTED_STATUSES,
             document'[f].status \in COMMITTED_STATUSES
      PROVE  ~SameDraft(e, f)'
  <2>1. CASE e = d
    BY <1>2, <1>3, <1>7, <1>8, <2>1 DEF SameDraft
  <2>2. CASE f = d
    BY <1>2, <1>3, <1>7, <1>8, <2>2 DEF SameDraft
  <2>3. CASE e # d /\ f # d
    BY <1>2, <1>8, <2>3 DEF RulesInv, SameDraft
  <2> QED
    BY <2>1, <2>2, <2>3
<1>9. \A r \in records' : RecordKept(r)
  BY DEF RulesInv
<1> QED
  BY <1>2, <1>6, <1>8, <1>9 DEF RulesInv, RecordKept

LEMMA FailedStep ==
    ASSUME RulesInv, NEW d \in Documents, ExtractionFails(d)
    PROVE  RulesInv'
<1>1. /\ document' = [document EXCEPT ![d] = [status |-> "extraction_failed"]]
      /\ DOMAIN document = Documents /\ UNCHANGED records
  BY DEF ExtractionFails, RulesInv
<1>2. /\ document'[d].status = "extraction_failed"
      /\ DOMAIN document' = Documents
      /\ \A e \in Documents : e # d => document'[e] = document[e]
  BY <1>1
<1>3. "extraction_failed" \notin Accepting
  BY DEF Accepting, COMMITTED_STATUSES
<1>4. \A e \in Documents : AcceptedDocument(e)' /\ Judgement(e)'
  BY <1>1, <1>2, <1>3 DEF RulesInv, AcceptedDocument, Judgement
<1>5. \A e \in Documents : document'[e].status \in COMMITTED_STATUSES => document'[e] = document[e]
  BY <1>2, <1>3 DEF Accepting
<1>6. ASSUME NEW e \in Documents, NEW f \in Documents, e # f,
             document'[e].status \in COMMITTED_STATUSES,
             document'[f].status \in COMMITTED_STATUSES
      PROVE  ~SameDraft(e, f)'
  BY <1>5, <1>6 DEF RulesInv, SameDraft
<1>7. \A r \in records' : RecordKept(r)
  BY <1>1 DEF RulesInv
<1> QED
  BY <1>2, <1>4, <1>6, <1>7 DEF RulesInv, RecordKept

LEMMA WriteStep ==
    ASSUME RulesInv, NEW d \in Documents, Write(d)
    PROVE  RulesInv'
<1>1. PICK draft : draft = document[d].draft
  OBVIOUS
<1>2. PICK record : record = [document |-> d, payload |-> draft, key |-> StoredKey(draft)]
  OBVIOUS
<1>3. /\ document[d].status = "approved" /\ business_key(draft) # NoKey
      /\ records' = records \cup {record}
      /\ document' = [document EXCEPT ![d].status = "written"]
  BY <1>1, <1>2 DEF Write
<1>4. /\ {"draft", "status"} \subseteq DOMAIN document[d]
      /\ draft \in Drafts /\ ~Ambiguous(draft.date) /\ Implied(draft) = draft.total
      /\ DOMAIN document = Documents
  BY <1>1, <1>3 DEF RulesInv, AcceptedDocument, Accepting, COMMITTED_STATUSES
<1>5. /\ document'[d].status = "written" /\ document'[d].draft = draft
      /\ DOMAIN document'[d] = DOMAIN document[d]
      /\ document'[d].results = document[d].results
      /\ DOMAIN document' = Documents
      /\ \A e \in Documents : e # d => document'[e] = document[e]
  BY <1>1, <1>3, <1>4
<1>6. ASSUME NEW e \in Documents PROVE AcceptedDocument(e)' /\ Judgement(e)'
  <2>1. AcceptedDocument(e)'
    BY <1>3, <1>4, <1>5 DEF RulesInv, AcceptedDocument, Keyed
  <2>2. Judgement(e)'
    <3>1. Judgement(e)
      BY DEF RulesInv
    <3> QED
      BY <1>1, <1>5, <3>1 DEF Judgement
  <2> QED
    BY <2>1, <2>2
<1>7. \A e \in Documents :
        document'[e].status \in COMMITTED_STATUSES =>
          document[e].status \in COMMITTED_STATUSES /\ document'[e].draft = document[e].draft
  BY <1>1, <1>3, <1>5 DEF COMMITTED_STATUSES
<1>8. ASSUME NEW e \in Documents, NEW f \in Documents, e # f,
             document'[e].status \in COMMITTED_STATUSES,
             document'[f].status \in COMMITTED_STATUSES
      PROVE  ~SameDraft(e, f)'
  BY <1>7, <1>8 DEF RulesInv, SameDraft
<1>9. RecordKept(record)
  BY <1>2, <1>3, <1>4 DEF RecordKept, Keyed
<1>10. \A r \in records' : RecordKept(r)
  BY <1>3, <1>9 DEF RulesInv
<1> QED
  BY <1>5, <1>6, <1>8, <1>10 DEF RulesInv, RecordKept

LEMMA RulesInvariant == Spec => []RulesInv
<1>1. Init => RulesInv
  BY DEF Init, Received, RulesInv, AcceptedDocument, Judgement, Accepting, COMMITTED_STATUSES
<1>2. RulesInv /\ [Next]_vars => RulesInv'
  <2> SUFFICES ASSUME RulesInv, [Next]_vars PROVE RulesInv'
    OBVIOUS
  <2>1. CASE UNCHANGED vars
    BY <2>1 DEF vars, RulesInv, AcceptedDocument, Judgement, SameDraft, RecordKept
  <2>2. ASSUME NEW d \in Documents, Extract(d) PROVE RulesInv'
    BY <2>2, JudgedStep DEF Extract
  <2>3. ASSUME NEW d \in Documents, Approve(d) PROVE RulesInv'
    <3>1. document[d].draft \in Drafts
      BY <2>3 DEF Approve, RulesInv, AcceptedDocument, Accepting
    <3> QED
      BY <2>3, <3>1, JudgedStep DEF Approve
  <2> QED
    BY <2>1, <2>2, <2>3, FailedStep, WriteStep DEF Next
<1> QED
  BY <1>1, <1>2, PTL DEF Spec

-----------------------------------------------------------------------------
\* Whatever is accepted or recorded adds up to its total from its quantities and
\* prices, for every number of lines and any amounts that Decimals compute
\* without rounding.  (line_item_arithmetic,
\* line_items_sum_to_subtotal, subtotal_plus_tax_equals_total)
THEOREM AcceptedDraftsAddUp == Spec => []AcceptedAddsUp
<1>1. RulesInv => AcceptedAddsUp
  BY DEF RulesInv, AcceptedDocument, RecordKept, AcceptedAddsUp, Accepting
<1> QED
  BY <1>1, RulesInvariant, PTL

\* However many lines a draft has and in whichever order, the rule's outcome is
\* that of the worst.  (line_item_arithmetic)
THEOREM WorstLineAlwaysDecides == Spec => []WorstLineDecides
<1>1. RulesInv => WorstLineDecides
  <2> SUFFICES ASSUME RulesInv, NEW d \in Documents, "results" \in DOMAIN document[d]
               PROVE  LET lines == document[d].draft.lines
                          drifts == {Distance(lines[i].quantity * lines[i].unit_price,
                                              lines[i].amount) : i \in DOMAIN lines}
                      IN  /\ document[d].results.lines = "fail" <=> \E x \in drifts : x > Tolerance
                          /\ document[d].results.lines = "pass" <=> drifts \subseteq {0}
    BY DEF WorstLineDecides
  <2> DEFINE lines == document[d].draft.lines
             drifts == {Distance(lines[i].quantity * lines[i].unit_price,
                                 lines[i].amount) : i \in DOMAIN lines}
  <2>1. document[d].draft \in DraftType /\ document[d].results.lines = LineOutcome(lines)
    BY DraftsAssumption DEF RulesInv, Judgement
  <2>2. lines \in Seq(LineType)
    BY <2>1 DEF DraftType, LineType
  <2>3. DOMAIN lines = 1 .. Len(lines) /\ drifts = {Drift(lines[i]) : i \in DOMAIN lines}
    BY <2>2 DEF Drift
  <2> HIDE DEF lines, drifts
  <2>4. /\ document[d].results.lines = "fail" <=> \E x \in drifts : x > Tolerance
        /\ document[d].results.lines = "pass" <=> drifts \subseteq {0}
    BY <2>1, <2>2, <2>3, WorstOfLines
  <2> QED
    BY <2>4 DEF lines, drifts
<1> QED
  BY <1>1, RulesInvariant, PTL

\* No date in figures that was accepted can be read in two ways, whatever its
\* two numbers are.  (issue_date_unambiguous)
THEOREM AcceptedDatesAreClear == Spec => []AcceptedDateHasOneReading
<1>1. RulesInv => AcceptedDateHasOneReading
  <2> SUFFICES ASSUME RulesInv, NEW d \in Documents, document[d].status \in Accepting,
                      document[d].draft.date # <<>>
               PROVE  \A a, b \in Readings(document[d].draft.date) : a = b
    BY DEF AcceptedDateHasOneReading, Accepting
  <2> SUFFICES ASSUME NEW a \in Readings(document[d].draft.date),
                      NEW b \in Readings(document[d].draft.date), a # b
               PROVE  FALSE
    OBVIOUS
  <2>1. PICK quote : quote = document[d].draft.date
    OBVIOUS
  <2>2. ~Ambiguous(quote)
    BY <2>1 DEF RulesInv, AcceptedDocument
  <2>3. PICK first, second : first = quote[1] /\ second = quote[2]
    OBVIOUS
  <2>4. /\ a \in {[day |-> first, month |-> second], [day |-> second, month |-> first]}
        /\ b \in {[day |-> first, month |-> second], [day |-> second, month |-> first]}
        /\ a.month \in 1 .. 12 /\ b.month \in 1 .. 12
    BY <2>1, <2>3 DEF Readings
  <2>5. first # second /\ first \in 1 .. 12 /\ second \in 1 .. 12
    BY <2>4
  <2>6. first <= 12 /\ second <= 12
    BY <2>5
  <2>7. quote # <<>> /\ quote[1] # quote[2] /\ quote[1] <= 12 /\ quote[2] <= 12
    BY <2>1, <2>3, <2>5, <2>6, Zenon
  <2> QED
    BY <2>2, <2>7, Zenon DEF Ambiguous
<1> QED
  BY <1>1, RulesInvariant, PTL

\* Whatever is extracted, approved and written in whichever order, an approved
\* payload can be recorded.  (invoice_number_not_duplicate, business_key,
\* create_record)
THEOREM ApprovedIsRecordable == Spec => []ApprovedCanBeRecorded
<1>1. RulesInv => ApprovedCanBeRecorded
  <2> SUFFICES ASSUME RulesInv, NEW d \in Documents, document[d].status = "approved"
               PROVE  /\ business_key(document[d].draft) # NoKey
                      /\ \A r \in records : r.key = StoredKey(document[d].draft) =>
                           \/ r.document = d
                           \/ document[r.document].status \notin COMMITTED_STATUSES
                           \/ document[r.document].draft # r.payload
    BY DEF ApprovedCanBeRecorded
  <2>1. document[d].draft \in Drafts /\ Keyed(document[d].draft)
    BY DEF RulesInv, AcceptedDocument, Accepting, COMMITTED_STATUSES
  <2>2. ASSUME NEW r \in records, r.key = StoredKey(document[d].draft), r.document # d,
               document[r.document].status \in COMMITTED_STATUSES,
               document[r.document].draft = r.payload
        PROVE  FALSE
    <3>1. RecordKept(r)
      BY DEF RulesInv
    <3>2. business_key(r.payload) = business_key(document[d].draft)
      BY <2>1, <2>2, <3>1, StoredKeysDiffer, DraftsAssumption DEF RecordKept, Keyed
    <3>3. SameDraft(r.document, d)
      BY <2>2, <3>2 DEF SameDraft
    <3>4. r.document \in Documents /\ document[d].status \in COMMITTED_STATUSES
      BY <3>1 DEF RecordKept, COMMITTED_STATUSES
    <3> QED
      BY <2>2, <3>3, <3>4 DEF RulesInv
  <2> QED
    BY <2>1, <2>2 DEF Keyed
<1> QED
  BY <1>1, RulesInvariant, PTL
=============================================================================
