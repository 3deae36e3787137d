--------------------------- MODULE EvidenceProofs ---------------------------
(***************************************************************************)
(* Proofs about Evidence, for every text, quote and number of fields: what *)
(* is verified is in the source, at its first place; the page is the       *)
(* source, once; its marks are the evidence.                               *)
(*                                                                         *)
(* The first half is about what _collapse_whitespace keeps.  Offsets       *)
(* enumerates the kept positions in their order (OffsetsEnumerate), and a  *)
(* set has one such enumeration, so that what a part of the text keeps is  *)
(* a window of what the whole keeps (Window).  A match in the collapsed    *)
(* text is then a part that reads as the quote (MatchReads), and a part    *)
(* that reads as the quote holds a match (PartMatches).                    *)
(*                                                                         *)
(* The second half is the loop of segments: ShownRun unfolds the fold, and *)
(* Loop, its invariant, says of the first k marks in sorted order that the *)
(* parts are the text up to the cursor, that marks stand at their spans,   *)
(* that each span is marked or meets a mark, and that the cursor is the    *)
(* end of one: a span that is skipped begins before that end, and not      *)
(* before that mark, because the spans are sorted.                         *)
(***************************************************************************)
EXTENDS Evidence, FoldLemmas, SequenceTheorems, FiniteSetTheorems, TLAPS

\* s enumerates, in their order, the kept positions of text up to i.
Enumerates(s, m, text, i) ==
    /\ s \in [1 .. m -> Nat] /\ Increases(s, m)
    /\ \A k \in 1 .. m : s[k] \in 1 .. i /\ Kept(text, s[k])
    /\ \A j \in 1 .. i : Kept(text, j) => \E k \in 1 .. m : s[k] = j

KeepsTo(run, text, n) ==
    /\ run[0] = <<>>
    /\ \A i \in 1 .. n : run[i] = IF Kept(text, i) THEN Append(run[i - 1], i) ELSE run[i - 1]

\* What the loop of _collapse_whitespace goes through.
LEMMA OffsetsRun ==
    ASSUME NEW C, NEW text \in Seq(C)
    PROVE  \E run \in [0 .. Len(text) -> Seq(Nat)] :
              KeepsTo(run, text, Len(text)) /\ run[Len(text)] = Offsets(text)
<1> DEFINE n == Len(text)
           V == Seq(Nat)
           Rec(f) == f = [i \in 0 .. n |->
                            IF i = 0 THEN <<>>
                            ELSE IF Kept(text, i) THEN Append(f[i - 1], i) ELSE f[i - 1]]
           upTo == CHOOSE f : Rec(f)
           step == [x \in V \X (1 .. n) |-> IF Kept(text, x[2]) THEN Append(x[1], x[2]) ELSE x[1]]
           none == <<>>
<1>1. n \in Nat
  OBVIOUS
<1>2. Offsets(text) = upTo[n]
  BY DEF Offsets
<1>3. none \in V /\ \A s \in V, i \in 1 .. n : Append(s, i) \in V
  OBVIOUS
<1> HIDE DEF n, V
<1>4. step \in [V \X (1 .. n) -> V]
  BY <1>3
<1>5. \A s \in V, i \in 1 .. n : step[<<s, i>>] = IF Kept(text, i) THEN Append(s, i) ELSE s
  OBVIOUS
<1>6. PICK run \in [0 .. n -> V] : Chain(run, n, none, step)
  <2> HIDE DEF step, none
  <2> QED
    BY <1>1, <1>3, <1>4, ChainExists
<1> HIDE DEF step
<1>7. KeepsTo(run, text, n)
  <2>1. \A i \in 1 .. n : run[i - 1] \in V
    BY <1>1
  <2> QED
    BY <1>5, <1>6, <2>1 DEF Chain, KeepsTo
<1>8. Rec(run)
  <2>1. ASSUME NEW i \in 0 .. n
        PROVE  run[i] = IF i = 0 THEN <<>>
                        ELSE IF Kept(text, i) THEN Append(run[i - 1], i) ELSE run[i - 1]
    <3>1. i = 0 \/ i \in 1 .. n
      BY <1>1
    <3>2. CASE i = 0
      BY <1>7, <3>2 DEF KeepsTo
    <3>3. CASE i \in 1 .. n
      BY <1>7, <3>3 DEF KeepsTo
    <3> QED
      BY <3>1, <3>2, <3>3
  <2> QED
    BY <2>1
<1>9. Rec(upTo)
  <2> HIDE DEF Rec
  <2> QED
    BY <1>8
<1> HIDE DEF upTo
<1> DEFINE T == {i \in 0 .. n : upTo[i] = run[i]}
<1>10. 0 \in T
  BY <1>1, <1>8, <1>9
<1>11. ASSUME NEW i \in 1 .. n, i - 1 \in T PROVE i \in T
  <2>1. i \in 0 .. n /\ i # 0 /\ upTo[i - 1] = run[i - 1]
    BY <1>1, <1>11
  <2>2. upTo[i] = IF Kept(text, i) THEN Append(upTo[i - 1], i) ELSE upTo[i - 1]
    BY <1>9, <2>1
  <2>3. run[i] = IF Kept(text, i) THEN Append(run[i - 1], i) ELSE run[i - 1]
    BY <1>7 DEF KeepsTo
  <2>4. upTo[i] = run[i]
    BY <2>1, <2>2, <2>3
  <2> QED
    BY <2>1, <2>4
<1>12. 0 .. n \subseteq T
  <2> HIDE DEF T
  <2> QED
    BY <1>1, <1>10, <1>11, InductionUpTo
<1>13. run[n] = Offsets(text)
  BY <1>1, <1>2, <1>12
<1> QED
  BY <1>7, <1>13 DEF n, V

\* One position more is enumerated if it is kept.
LEMMA EnumeratesNext ==
    ASSUME NEW text, NEW m \in Nat, NEW s \in Seq(Nat), Len(s) = m, NEW i \in Nat \ {0},
           Enumerates(s, m, text, i - 1)
    PROVE  /\ Kept(text, i) => Enumerates(Append(s, i), m + 1, text, i)
           /\ ~Kept(text, i) => Enumerates(s, m, text, i)
<1>1. /\ s \in [1 .. m -> Nat] /\ Increases(s, m)
      /\ \A k \in 1 .. m : s[k] \in 1 .. i - 1 /\ Kept(text, s[k])
      /\ \A j \in 1 .. i - 1 : Kept(text, j) => \E k \in 1 .. m : s[k] = j
  BY DEF Enumerates
<1>2. \A k \in 1 .. m : s[k] \in Nat /\ s[k] < i /\ s[k] \in 1 .. i
  BY <1>1
<1>3. ASSUME ~Kept(text, i) PROVE Enumerates(s, m, text, i)
  <2>1. ASSUME NEW j \in 1 .. i, Kept(text, j) PROVE \E k \in 1 .. m : s[k] = j
    <3>1. j # i
      BY <1>3, <2>1
    <3>2. j \in 1 .. i - 1
      BY <3>1
    <3> QED
      BY <1>1, <2>1, <3>2
  <2> QED
    BY <1>1, <1>2, <2>1 DEF Enumerates
<1>4. ASSUME Kept(text, i) PROVE Enumerates(Append(s, i), m + 1, text, i)
  <2> DEFINE t == Append(s, i)
  <2>1. t \in Seq(Nat) /\ Len(t) = m + 1
    OBVIOUS
  <2>2. t \in [1 .. m + 1 -> Nat]
    BY <2>1, LenProperties
  <2>3. /\ t \in [1 .. m + 1 -> Nat] /\ t[m + 1] = i
        /\ \A k \in 1 .. m : t[k] = s[k]
    BY <2>2
  <2> HIDE DEF t
  <2>4. \A k \in 1 .. m + 1 : k = m + 1 \/ k \in 1 .. m
    OBVIOUS
  <2>5. \A k \in 1 .. m + 1 : t[k] \in 1 .. i /\ Kept(text, t[k])
    BY <1>1, <1>2, <1>4, <2>3, <2>4
  <2>6. Increases(t, m + 1)
    <3> SUFFICES ASSUME NEW a \in 1 .. m + 1, NEW b \in 1 .. m + 1, a < b PROVE t[a] < t[b]
      BY DEF Increases
    <3>1. a \in 1 .. m
      OBVIOUS
    <3>2. CASE b = m + 1
      BY <1>2, <2>3, <3>1, <3>2
    <3>3. CASE b \in 1 .. m
      BY <1>1, <2>3, <3>1, <3>3 DEF Increases
    <3> QED
      BY <2>4, <3>2, <3>3
  <2>7. ASSUME NEW j \in 1 .. i, Kept(text, j) PROVE \E k \in 1 .. m + 1 : t[k] = j
    <3>1. CASE j = i
      BY <2>3, <3>1
    <3>2. CASE j # i
      <4>1. PICK k \in 1 .. m : s[k] = j
        BY <1>1, <2>7, <3>2
      <4> QED
        BY <2>3, <4>1
    <3> QED
      BY <3>1, <3>2
  <2>8. Enumerates(t, m + 1, text, i)
    BY <2>3, <2>5, <2>6, <2>7 DEF Enumerates
  <2> QED
    BY <2>8 DEF t
<1> QED
  BY <1>3, <1>4

\* Offsets are the kept positions, in their order.
LEMMA OffsetsEnumerate ==
    ASSUME NEW C, NEW text \in Seq(C)
    PROVE  /\ Offsets(text) \in Seq(Nat)
           /\ Enumerates(Offsets(text), Len(Offsets(text)), text, Len(text))
<1>1. PICK run \in [0 .. Len(text) -> Seq(Nat)] :
         KeepsTo(run, text, Len(text)) /\ run[Len(text)] = Offsets(text)
  BY OffsetsRun
<1> DEFINE n == Len(text)
           T == {i \in 0 .. n : Enumerates(run[i], Len(run[i]), text, i)}
<1>2. n \in Nat
  OBVIOUS
<1>3. \A i \in 0 .. n : run[i] \in Seq(Nat)
  OBVIOUS
<1> HIDE DEF n
<1>4. 0 \in T
  <2>1. run[0] = <<>> /\ Len(run[0]) = 0
    BY <1>1 DEF KeepsTo
  <2>2. run[0] \in [1 .. 0 -> Nat] /\ \A k \in 1 .. 0 : FALSE
    BY <2>1
  <2>3. Enumerates(run[0], 0, text, 0)
    BY <2>2 DEF Enumerates, Increases
  <2> QED
    BY <1>2, <2>1, <2>3
<1>5. ASSUME NEW i \in 1 .. n, i - 1 \in T PROVE i \in T
  <2>1. /\ i - 1 \in 0 .. n /\ i \in 0 .. n /\ i \in Nat \ {0}
        /\ Enumerates(run[i - 1], Len(run[i - 1]), text, i - 1)
    BY <1>2, <1>5
  <2>2. run[i] = IF Kept(text, i) THEN Append(run[i - 1], i) ELSE run[i - 1]
    BY <1>1 DEF KeepsTo, n
  <2>3. PICK s \in Seq(Nat) : s = run[i - 1]
    BY <1>3, <2>1
  <2>4. PICK m \in Nat : m = Len(s)
    OBVIOUS
  <2>5. /\ Kept(text, i) => Enumerates(Append(s, i), m + 1, text, i)
        /\ ~Kept(text, i) => Enumerates(s, m, text, i)
    BY <2>1, <2>3, <2>4, EnumeratesNext
  <2>6. Len(Append(s, i)) = m + 1
    BY <2>4
  <2>7. Enumerates(run[i], Len(run[i]), text, i)
    BY <2>2, <2>3, <2>4, <2>5, <2>6
  <2> QED
    BY <2>1, <2>7
<1>6. 0 .. n \subseteq T
  <2> HIDE DEF T
  <2> QED
    BY <1>2, <1>4, <1>5, InductionUpTo
<1>7. n \in T /\ run[n] \in Seq(Nat)
  BY <1>2, <1>3, <1>6
<1> QED
  BY <1>1, <1>7 DEF n

-----------------------------------------------------------------------------
Shade(ch) == IF Blank(ch) THEN " " ELSE ch

\* The first kept position holds no blank, and of two that follow each other
\* one holds none.
LEMMA NoTwoBlanks ==
    ASSUME NEW text, NEW n \in Nat, NEW m \in Nat, NEW s, Enumerates(s, m, text, n)
    PROVE  /\ m >= 1 => ~Blank(text[s[1]])
           /\ \A k \in 2 .. m : ~Blank(text[s[k - 1]]) \/ ~Blank(text[s[k]])
<1>1. /\ s \in [1 .. m -> Nat] /\ Increases(s, m)
      /\ \A k \in 1 .. m : s[k] \in 1 .. n /\ Kept(text, s[k])
      /\ \A j \in 1 .. n : Kept(text, j) => \E k \in 1 .. m : s[k] = j
  BY DEF Enumerates
<1>2. ASSUME NEW k \in 1 .. m, Blank(text[s[k]])
      PROVE  \E h \in 1 .. k - 1 : s[h] = s[k] - 1 /\ ~Blank(text[s[h]])
  <2>1. s[k] \in 1 .. n /\ s[k] > 1 /\ ~Blank(text[s[k] - 1])
    BY <1>1, <1>2 DEF Kept
  <2>2. s[k] - 1 \in 1 .. n /\ Kept(text, s[k] - 1)
    BY <2>1 DEF Kept
  <2>3. PICK h \in 1 .. m : s[h] = s[k] - 1
    BY <1>1, <2>2
  <2>4. s[h] < s[k]
    BY <2>1, <2>3
  <2>5. ~(k <= h)
    <3> SUFFICES ASSUME k <= h PROVE FALSE
      OBVIOUS
    <3>1. k = h \/ s[k] < s[h]
      BY <1>1 DEF Increases
    <3>2. s[k] \in Nat /\ s[h] \in Nat
      BY <1>1
    <3> QED
      BY <2>4, <3>1, <3>2
  <2> QED
    BY <2>1, <2>3, <2>5
<1>3. m >= 1 => ~Blank(text[s[1]])
  <2> SUFFICES ASSUME m >= 1, Blank(text[s[1]]) PROVE FALSE
    OBVIOUS
  <2>1. 1 \in 1 .. m
    OBVIOUS
  <2>2. \E h \in 1 .. 1 - 1 : s[h] = s[1] - 1 /\ ~Blank(text[s[h]])
    BY <1>2, <2>1
  <2> QED
    BY <2>2
<1>4. ASSUME NEW k \in 2 .. m, Blank(text[s[k]]), Blank(text[s[k - 1]]) PROVE FALSE
  <2>1. k \in 1 .. m /\ k - 1 \in 1 .. m
    OBVIOUS
  <2>2. PICK h \in 1 .. k - 1 : s[h] = s[k] - 1 /\ ~Blank(text[s[h]])
    BY <1>2, <1>4, <2>1
  <2>3. h \in 1 .. m /\ h < k - 1
    BY <1>4, <2>1, <2>2
  <2>4. s[h] < s[k - 1] /\ s[k - 1] < s[k]
    BY <1>1, <2>1, <2>3 DEF Increases
  <2>5. s[h] \in Nat /\ s[k - 1] \in Nat /\ s[k] \in Nat
    BY <1>1, <2>1, <2>3
  <2> QED
    BY <2>2, <2>4, <2>5
<1> QED
  BY <1>3, <1>4

\* What is collapsed, position by position.
LEMMA CollapsedIs ==
    ASSUME NEW C, NEW text \in Seq(C)
    PROVE  LET o == Offsets(text)
               c == Collapsed(text)
           IN  /\ c \in Seq(C \cup {" "}) /\ Len(c) = Len(o)
               /\ \A k \in 1 .. Len(o) : c[k] = Shade(text[o[k]])
<1> DEFINE o == Offsets(text)
           m == Len(o)
           c == Collapsed(text)
           D == C \cup {" "}
<1>1. o \in Seq(Nat) /\ Enumerates(o, m, text, Len(text))
  BY OffsetsEnumerate
<1>2. m \in Nat /\ DOMAIN o = 1 .. m /\ Len(text) \in Nat
  BY <1>1
<1>3. c = [k \in 1 .. m |-> Shade(text[o[k]])]
  BY <1>2 DEF Collapsed, Shade
<1>4. \A k \in 1 .. m : text[o[k]] \in C
  BY <1>1 DEF Enumerates
<1>5. \A k \in 1 .. m : Shade(text[o[k]]) \in D
  BY <1>4 DEF Shade
<1> HIDE DEF o, m, c, D
<1>6. c \in [1 .. m -> D]
  BY <1>3, <1>5
<1>7. c \in Seq(D) /\ Len(c) = m
  BY <1>2, <1>6
<1>8. \A k \in 1 .. m : c[k] = Shade(text[o[k]])
  BY <1>3
<1> QED
  BY <1>7, <1>8 DEF o, m, c, D

\* A sequence without its last element, if that is b and no two are in a row.
LEMMA WithoutLast ==
    ASSUME NEW D, NEW c \in Seq(D), NEW b, NEW w,
           w = IF c # <<>> /\ c[Len(c)] = b THEN SubSeq(c, 1, Len(c) - 1) ELSE c,
           Len(c) >= 1 => c[1] # b,
           \A k \in 2 .. Len(c) : c[k - 1] # b \/ c[k] # b
    PROVE  /\ w \in Seq(D) /\ Len(w) \in 0 .. Len(c)
           /\ \A k \in 1 .. Len(w) : w[k] = c[k]
           /\ w # <<>> => w[1] # b /\ w[Len(w)] # b
           /\ Len(c) > 0 /\ c[Len(c)] # b => w = c
<1>1. PICK m \in Nat : m = Len(c)
  OBVIOUS
<1>2. c # <<>> <=> m >= 1
  BY <1>1
<1>3. CASE m >= 1 /\ c[m] = b
  <2>1. w = SubSeq(c, 1, m - 1)
    BY <1>1, <1>2, <1>3
  <2>2. m # 1
    BY <1>1, <1>3
  <2>3. m \in 2 .. m /\ m - 1 \in 1 .. m /\ 1 \in 1 .. m - 1
    BY <1>3, <2>2
  <2>4. c[m - 1] # b /\ c[1] # b
    BY <1>1, <1>3, <2>3
  <2>5. w \in Seq(D) /\ Len(w) = m - 1
    BY <1>1, <2>1, <2>3
  <2>6. \A k \in 1 .. m - 1 : w[k] = c[k]
    BY <1>1, <2>1, <2>3
  <2>7. w[1] # b /\ w[m - 1] # b
    BY <2>3, <2>4, <2>6
  <2> QED
    BY <1>1, <1>3, <2>3, <2>5, <2>6, <2>7
<1>4. CASE ~(m >= 1 /\ c[m] = b)
  <2>1. w = c
    BY <1>1, <1>2, <1>4
  <2> QED
    BY <1>1, <1>2, <1>4, <2>1
<1> QED
  BY <1>3, <1>4

\* What is normalised: the kept characters but a last blank.
LEMMA NormalizedIs ==
    ASSUME NEW C, NEW text \in Seq(C)
    PROVE  LET o == Offsets(text)
               w == Normalized(text)
           IN  /\ w \in Seq(C \cup {" "}) /\ Len(w) \in 0 .. Len(o)
               /\ \A k \in 1 .. Len(w) : w[k] = Shade(text[o[k]])
               /\ w # <<>> => w[1] # " " /\ w[Len(w)] # " "
               /\ Len(o) > 0 /\ ~Blank(text[o[Len(o)]]) => w = Collapsed(text)
<1> DEFINE o == Offsets(text)
           m == Len(o)
           c == Collapsed(text)
           w == Normalized(text)
           D == C \cup {" "}
<1>1. o \in Seq(Nat) /\ Enumerates(o, m, text, Len(text))
  BY OffsetsEnumerate
<1>2. c \in Seq(D) /\ Len(c) = m /\ \A k \in 1 .. m : c[k] = Shade(text[o[k]])
  BY CollapsedIs
<1>3. m \in Nat /\ Len(text) \in Nat
  BY <1>1
<1> DEFINE b == " "
<1>4. w = IF c # <<>> /\ c[Len(c)] = b THEN SubSeq(c, 1, Len(c) - 1) ELSE c
  BY DEF Normalized, Last, Front
<1>5. /\ m >= 1 => ~Blank(text[o[1]])
      /\ \A k \in 2 .. m : ~Blank(text[o[k - 1]]) \/ ~Blank(text[o[k]])
  <2> HIDE DEF m, o
  <2> QED
    BY <1>1, <1>3, NoTwoBlanks
<1>6. \A k \in 1 .. m : c[k] = b <=> Blank(text[o[k]])
  <2> HIDE DEF c, m, o
  <2> QED
    BY <1>2 DEF Shade, Blank, NewLine
<1> HIDE DEF b, c, w, D, o, m
<1>7. (m >= 1 => c[1] # b) /\ \A k \in 2 .. m : c[k - 1] # b \/ c[k] # b
  <2>1. \A k \in 2 .. m : k \in 1 .. m /\ k - 1 \in 1 .. m
    BY <1>3
  <2>2. m >= 1 => 1 \in 1 .. m
    BY <1>3
  <2> QED
    BY <1>5, <1>6, <2>1, <2>2
<1>8. /\ w \in Seq(D) /\ Len(w) \in 0 .. Len(c)
      /\ \A k \in 1 .. Len(w) : w[k] = c[k]
      /\ w # <<>> => w[1] # b /\ w[Len(w)] # b
      /\ Len(c) > 0 /\ c[Len(c)] # b => w = c
  BY <1>2, <1>4, <1>7, WithoutLast
<1>9. \A k \in 1 .. Len(w) : w[k] = Shade(text[o[k]])
  BY <1>2, <1>3, <1>8
<1>10. m > 0 /\ ~Blank(text[o[m]]) => w = c
  BY <1>2, <1>3, <1>6, <1>8
<1> QED
  BY <1>2, <1>8, <1>9, <1>10 DEF o, m, c, w, D, b

-----------------------------------------------------------------------------
\* A sequence that increases orders its values as it does their places.
LEMMA IncreasesOrders ==
    ASSUME NEW m \in Nat, NEW s \in [1 .. m -> Nat], Increases(s, m),
           NEW i \in 1 .. m, NEW j \in 1 .. m
    PROVE  i <= j <=> s[i] <= s[j]
<1>1. s[i] \in Nat /\ s[j] \in Nat
  OBVIOUS
<1>2. (i < j => s[i] < s[j]) /\ (j < i => s[j] < s[i])
  BY DEF Increases
<1>3. i = j => s[i] = s[j]
  OBVIOUS
<1> QED
  BY <1>1, <1>2, <1>3

\* t is kept as the part of text after start is; only its first character
\* may be a blank that it does not keep.
KeptAlike(t, p, text, start) ==
    \A i \in 1 .. p :
        /\ Kept(t, i) => Kept(text, start + i)
        /\ Kept(text, start + i) => i = 1 \/ Kept(t, i)

\* What a slice is, character by character, and what it keeps.
LEMMA SliceIs ==
    ASSUME NEW C, NEW text \in Seq(C), NEW start \in 0 .. Len(text), NEW end \in start .. Len(text)
    PROVE  LET t == Slice(text, start, end)
           IN  /\ t \in Seq(C) /\ Len(t) = end - start
               /\ \A i \in 1 .. end - start : t[i] = text[start + i]
               /\ KeptAlike(t, end - start, text, start)
<1> DEFINE t == Slice(text, start, end)
<1>1. PICK p \in Nat : p = end - start
  OBVIOUS
<1>2. t \in Seq(C) /\ Len(t) = p /\ \A i \in 1 .. p : t[i] = text[start + i]
  BY <1>1 DEF Slice
<1> HIDE DEF t
<1>3. ASSUME NEW i \in 1 .. p
      PROVE  /\ Kept(t, i) => Kept(text, start + i)
             /\ Kept(text, start + i) => i = 1 \/ Kept(t, i)
  <2>1. t[i] = text[start + i]
    BY <1>2
  <2>2. CASE i = 1
    BY <2>1, <2>2 DEF Kept
  <2>3. CASE i > 1
    <3>1. i - 1 \in 1 .. p /\ start + i > 1 /\ start + (i - 1) = (start + i) - 1
      BY <2>3
    <3>2. t[i - 1] = text[(start + i) - 1]
      BY <1>2, <3>1
    <3> QED
      BY <2>1, <2>3, <3>1, <3>2 DEF Kept
  <2> QED
    BY <2>2, <2>3
<1>4. KeptAlike(t, p, text, start)
  BY <1>3 DEF KeptAlike
<1> QED
  BY <1>1, <1>2, <1>4 DEF t

Shifted(e, l, o, start, j) == \A k \in 1 .. l : e[k] + start = o[j + k - 1]

\* The kept positions of a part are a window of those of the whole.
LEMMA Window ==
    ASSUME NEW text, NEW n \in Nat, NEW m \in Nat, NEW o, Enumerates(o, m, text, n),
           NEW t, NEW p \in Nat, NEW l \in Nat \ {0}, NEW e, Enumerates(e, l, t, p),
           NEW start \in Nat, start + p <= n, KeptAlike(t, p, text, start)
    PROVE  \E j \in 1 .. m : j + l - 1 <= m /\ Shifted(e, l, o, start, j)
<1>1. /\ o \in [1 .. m -> Nat] /\ Increases(o, m)
      /\ \A k \in 1 .. m : o[k] \in 1 .. n /\ Kept(text, o[k])
      /\ \A i \in 1 .. n : Kept(text, i) => \E k \in 1 .. m : o[k] = i
  BY DEF Enumerates
<1>2. /\ e \in [1 .. l -> Nat] /\ Increases(e, l)
      /\ \A k \in 1 .. l : e[k] \in 1 .. p /\ Kept(t, e[k])
      /\ \A i \in 1 .. p : Kept(t, i) => \E k \in 1 .. l : e[k] = i
  BY DEF Enumerates
<1>3. ASSUME NEW k \in 1 .. l PROVE \E r \in 1 .. m : o[r] = e[k] + start
  <2>1. e[k] \in 1 .. p /\ Kept(text, start + e[k])
    BY <1>2 DEF KeptAlike
  <2>2. start + e[k] \in 1 .. n /\ start + e[k] = e[k] + start
    BY <2>1
  <2> QED
    BY <1>1, <2>1, <2>2
<1>4. 1 \in 1 .. l /\ l \in 1 .. l
  OBVIOUS
<1>5. PICK j \in 1 .. m : o[j] = e[1] + start
  BY <1>3, <1>4
<1>6. PICK q \in 1 .. m : o[q] = e[l] + start
  BY <1>3, <1>4
<1>7. \A k \in 1 .. l : e[k] \in Nat /\ e[1] <= e[k] /\ e[k] <= e[l]
  <2> TAKE k \in 1 .. l
  <2>1. e[1] <= e[k]
    <3>1. 1 <= k
      OBVIOUS
    <3> QED
      BY <1>2, <1>4, <3>1, IncreasesOrders
  <2>2. e[k] <= e[l]
    <3>1. k <= l
      OBVIOUS
    <3> QED
      BY <1>2, <1>4, <3>1, IncreasesOrders
  <2> QED
    BY <1>2, <2>1, <2>2
<1>8. \A k \in 1 .. m : o[k] \in Nat
  BY <1>1
<1>9. j <= q
  <2>1. o[j] <= o[q]
    BY <1>4, <1>5, <1>6, <1>7, <1>8
  <2> QED
    BY <1>1, <2>1, IncreasesOrders
<1>10. PICK w \in Nat : w = q - j + 1
  BY <1>9
<1> DEFINE a == [k \in 1 .. w |-> o[j + k - 1]]
           b == [k \in 1 .. l |-> e[k] + start]
<1>11. \A k \in 1 .. w : j + k - 1 \in 1 .. m /\ j <= j + k - 1 /\ j + k - 1 <= q
  BY <1>10
<1>12. a \in [1 .. w -> Nat] /\ Increases(a, w)
  <2>1. a \in [1 .. w -> Nat]
    BY <1>8, <1>11
  <2>2. ASSUME NEW x \in 1 .. w, NEW y \in 1 .. w, x < y PROVE a[x] < a[y]
    <3>1. j + x - 1 < j + y - 1 /\ j + x - 1 \in 1 .. m /\ j + y - 1 \in 1 .. m
      BY <1>11, <2>2
    <3>2. o[j + x - 1] < o[j + y - 1]
      BY <1>1, <3>1 DEF Increases
    <3> QED
      BY <3>2
  <2> HIDE DEF a
  <2>3. Increases(a, w)
    BY <2>2 DEF Increases
  <2> QED
    BY <2>1, <2>3
<1>13. b \in [1 .. l -> Nat] /\ Increases(b, l)
  <2>1. b \in [1 .. l -> Nat]
    BY <1>7
  <2>2. ASSUME NEW x \in 1 .. l, NEW y \in 1 .. l, x < y PROVE b[x] < b[y]
    <3>1. e[x] < e[y]
      BY <1>2, <2>2 DEF Increases
    <3> QED
      BY <1>7, <3>1
  <2> HIDE DEF b
  <2>3. Increases(b, l)
    BY <2>2 DEF Increases
  <2> QED
    BY <2>1, <2>3
<1>14. Within(b, l, a, w)
  <2> SUFFICES ASSUME NEW k \in 1 .. l PROVE \E r \in 1 .. w : b[k] = a[r]
    BY DEF Within
  <2>1. PICK r \in 1 .. m : o[r] = e[k] + start
    BY <1>3
  <2>2. o[j] <= o[r] /\ o[r] <= o[q]
    BY <1>4, <1>5, <1>6, <1>7, <2>1
  <2>3. j <= r /\ r <= q
    BY <1>1, <2>2, IncreasesOrders
  <2>4. PICK x \in 1 .. w : x = r - j + 1
    BY <1>10, <2>3
  <2>5. a[x] = o[r]
    BY <2>4
  <2> QED
    BY <2>1, <2>4, <2>5
<1>15. Within(a, w, b, l)
  <2> SUFFICES ASSUME NEW x \in 1 .. w PROVE \E k \in 1 .. l : a[x] = b[k]
    BY DEF Within
  <2>1. PICK r \in 1 .. m : r = j + x - 1 /\ j <= r /\ r <= q
    BY <1>11
  <2>2. o[j] <= o[r] /\ o[r] <= o[q]
    <3> HIDE DEF a, b
    <3>1. o \in [1 .. m -> Nat] /\ Increases(o, m) /\ j <= r /\ r <= q
      BY <1>1, <2>1
    <3>2. o[j] <= o[r]
      BY <3>1, IncreasesOrders
    <3>3. o[r] <= o[q]
      BY <3>1, IncreasesOrders
    <3> QED
      BY <3>2, <3>3
  <2>3. e[1] \in 1 .. p /\ e[l] \in 1 .. p
    BY <1>2, <1>4
  <2>4. PICK i \in 1 .. p : o[r] = start + i /\ e[1] <= i
    <3>1. o[r] \in Nat /\ e[1] + start <= o[r] /\ o[r] <= e[l] + start
      BY <1>5, <1>6, <1>8, <2>2
    <3>2. o[r] - start \in 1 .. p /\ o[r] = start + (o[r] - start) /\ e[1] <= o[r] - start
      BY <2>3, <3>1
    <3> QED
      BY <3>2
  <2>5. Kept(text, start + i)
    BY <1>1, <2>4
  <2>6. Kept(t, i)
    <3>1. i = 1 => e[1] = 1
      BY <2>3, <2>4
    <3>2. i = 1 => Kept(t, i)
      BY <1>2, <1>4, <3>1
    <3> QED
      BY <2>5, <3>2 DEF KeptAlike
  <2>7. PICK k \in 1 .. l : e[k] = i
    BY <1>2, <2>6
  <2>8. a[x] = o[r] /\ b[k] = e[k] + start
    BY <2>1
  <2> QED
    BY <2>4, <2>7, <2>8
<1>16. w = l /\ a = b
  <2> HIDE DEF a, b
  <2> QED
    BY <1>12, <1>13, <1>14, <1>15, OneEnumeration
<1>17. Shifted(e, l, o, start, j)
  <2>1. \A k \in 1 .. l : e[k] + start = o[j + k - 1]
    BY <1>16
  <2> QED
    BY <2>1 DEF Shifted
<1> QED
  BY <1>10, <1>16, <1>17

-----------------------------------------------------------------------------
Matches(c, w, i) ==
    i \in 1 .. Len(c) - Len(w) + 1 /\ \A k \in 1 .. Len(w) : c[i + k - 1] = w[k]

\* Where text.find looks and finds, character by character.
LEMMA HitsAreMatches ==
    ASSUME NEW D, NEW c \in Seq(D), NEW w \in Seq(D), w # <<>>
    PROVE  \A i : i \in Hits(c, w) <=> Matches(c, w, i)
<1>1. PICK m \in Nat : m = Len(c)
  OBVIOUS
<1>2. PICK l \in Nat \ {0} : l = Len(w)
  OBVIOUS
<1>3. ASSUME NEW i \in 1 .. m - l + 1
      PROVE  SubSeq(c, i, i + l - 1) = w <=> \A k \in 1 .. l : c[i + k - 1] = w[k]
  <2> DEFINE part == SubSeq(c, i, i + l - 1)
  <2>1. \A k \in i .. i + l - 1 : k \in 1 .. m
    BY <1>1
  <2>2. /\ part \in Seq(D) /\ Len(part) = l
        /\ \A k \in 1 .. l : part[k] = c[i + k - 1]
    BY <1>1, <2>1
  <2> HIDE DEF part
  <2>3. (\A k \in 1 .. l : part[k] = w[k]) => part = w
    BY <1>2, <2>2, SeqEqual
  <2>4. part = w <=> \A k \in 1 .. l : c[i + k - 1] = w[k]
    BY <2>2, <2>3
  <2> QED
    BY <2>4 DEF part
<1>4. \A i : i \in Hits(c, w) <=> i \in 1 .. m - l + 1 /\ SubSeq(c, i, i + l - 1) = w
  BY <1>1, <1>2 DEF Hits
<1> QED
  BY <1>1, <1>2, <1>3, <1>4 DEF Matches

\* What FindSpan returns: nothing, or the place of the first match.
LEMMA FindSpanIs ==
    ASSUME NEW C, NEW text \in Seq(C), NEW quote \in Seq(C)
    PROVE  LET w == Normalized(quote)
               c == Collapsed(text)
               o == Offsets(text)
               span == FindSpan(text, quote)
           IN  \/ span = NoSpan /\ (w = <<>> \/ \A i : ~Matches(c, w, i))
               \/ /\ w # <<>>
                  /\ \E at : /\ Matches(c, w, at)
                             /\ \A i : Matches(c, w, i) => at <= i
                             /\ span.start = o[at] - 1
                             /\ span.end = o[at + Len(w) - 1]
<1> DEFINE w == Normalized(quote)
           c == Collapsed(text)
           o == Offsets(text)
           hits == Hits(c, w)
           D == C \cup {" "}
<1>1. w \in Seq(D) /\ c \in Seq(D)
  BY CollapsedIs, NormalizedIs
<1> DEFINE at == Min(hits)
           found == [start |-> o[at] - 1, end |-> o[at + Len(w) - 1], line |-> Lines(text, o[at] - 1)]
<1>2. FindSpan(text, quote) = IF w = <<>> \/ hits = {} THEN NoSpan ELSE found
  BY DEF FindSpan
<1> HIDE DEF w, c, o, D, hits, at, found
<1>3. w # <<>> => \A i : i \in hits <=> Matches(c, w, i)
  BY <1>1, HitsAreMatches DEF hits
<1>4. CASE w = <<>> \/ hits = {}
  BY <1>2, <1>3, <1>4 DEF w, c
<1>5. CASE w # <<>> /\ hits # {}
  <2>1. hits \in SUBSET Nat
    BY <1>3, <1>5 DEF Matches
  <2>2. \E m \in hits : \A k \in hits : m <= k
    BY <1>5, <2>1, LeastElement
  <2>3. at \in hits /\ \A k \in hits : at <= k
    BY <2>2 DEF at, Min
  <2>4. Matches(c, w, at) /\ \A i : Matches(c, w, i) => at <= i
    BY <1>3, <1>5, <2>3
  <2>5. FindSpan(text, quote) = found
    BY <1>2, <1>5
  <2>6. found.start = o[at] - 1 /\ found.end = o[at + Len(w) - 1]
    BY DEF found
  <2> QED
    BY <1>5, <2>4, <2>5, <2>6 DEF w, c, o
<1> QED
  BY <1>4, <1>5

Unblank(text, start, end) ==
    LET t == Slice(text, start, end) IN ~Blank(Head(t)) /\ ~Blank(Last(t))

\* A match reads as what is looked for, from its first character to its last.
LEMMA MatchReads ==
    ASSUME NEW C, NEW text \in Seq(C), NEW quote \in Seq(C), NEW at,
           Normalized(quote) # <<>>, Matches(Collapsed(text), Normalized(quote), at)
    PROVE  LET o == Offsets(text)
               start == o[at] - 1
               end == o[at + Len(Normalized(quote)) - 1]
           IN  /\ start \in 0 .. Len(text) /\ end \in 0 .. Len(text) /\ start < end
               /\ Normalized(Slice(text, start, end)) = Normalized(quote)
               /\ Unblank(text, start, end)
<1> DEFINE o == Offsets(text)
           m == Len(o)
           n == Len(text)
           c == Collapsed(text)
           w == Normalized(quote)
           L == Len(w)
           start == o[at] - 1
           end == o[at + L - 1]
           D == C \cup {" "}
<1>1. o \in Seq(Nat) /\ Enumerates(o, m, text, n)
  BY OffsetsEnumerate
<1>2. c \in Seq(D) /\ Len(c) = m /\ \A k \in 1 .. m : c[k] = Shade(text[o[k]])
  BY CollapsedIs
<1>3. w \in Seq(D) /\ w # <<>> /\ w[1] # " " /\ w[L] # " "
  BY NormalizedIs
<1>4. Matches(c, w, at)
  OBVIOUS
<1> HIDE DEF o, m, n, c, w, L, D
<1>5. m \in Nat /\ n \in Nat /\ L \in Nat \ {0}
  <2>1. m \in Nat
    BY <1>1 DEF m
  <2>2. n \in Nat
    BY DEF n
  <2>3. L \in Nat \ {0}
    BY <1>3, EmptySeq DEF L
  <2> QED
    BY <2>1, <2>2, <2>3
<1>6. /\ at \in 1 .. m /\ at + L - 1 \in 1 .. m /\ at <= at + L - 1
      /\ \A k \in 1 .. L : at + k - 1 \in 1 .. m /\ c[at + k - 1] = w[k]
  BY <1>2, <1>4, <1>5 DEF Matches, L
<1>7. /\ o \in [1 .. m -> Nat] /\ Increases(o, m)
      /\ \A k \in 1 .. m : o[k] \in 1 .. n
  BY <1>1 DEF Enumerates
<1>8. ~Blank(text[o[at]]) /\ ~Blank(text[o[at + L - 1]])
  <2>1. 1 \in 1 .. L /\ L \in 1 .. L /\ at + 1 - 1 = at
    BY <1>5, <1>6
  <2>2. c[at] = w[1] /\ c[at + L - 1] = w[L]
    BY <1>6, <2>1
  <2>3. Shade(text[o[at]]) # " " /\ Shade(text[o[at + L - 1]]) # " "
    BY <1>2, <1>3, <1>6, <2>2
  <2> QED
    BY <2>3 DEF Shade
<1>9. o[at] <= o[at + L - 1]
  BY <1>5, <1>6, <1>7, IncreasesOrders
<1>10. start \in 0 .. n /\ end \in start .. n /\ end \in 0 .. n /\ start < end
  BY <1>5, <1>6, <1>7, <1>9
<1>11. PICK p \in Nat \ {0} : p = end - start
  BY <1>5, <1>10
<1> HIDE DEF start, end
<1> DEFINE t == Slice(text, start, end)
<1>12. /\ t \in Seq(C) /\ Len(t) = p /\ KeptAlike(t, p, text, start)
       /\ \A i \in 1 .. p : t[i] = text[start + i]
  BY <1>10, <1>11, SliceIs DEF n
<1> DEFINE e == Offsets(t)
           l == Len(e)
<1>13. e \in Seq(Nat) /\ Enumerates(e, l, t, p)
  BY <1>12, OffsetsEnumerate
<1>14. /\ Collapsed(t) \in Seq(D) /\ Len(Collapsed(t)) = l
       /\ \A k \in 1 .. l : Collapsed(t)[k] = Shade(t[e[k]])
  BY <1>12, CollapsedIs DEF D
<1>15. l > 0 /\ ~Blank(t[e[l]]) => Normalized(t) = Collapsed(t)
  BY <1>12, NormalizedIs
<1>16. l \in Nat
  BY <1>13
<1> HIDE DEF t, e, l
<1>17. /\ e \in [1 .. l -> Nat] /\ Increases(e, l)
       /\ \A k \in 1 .. l : e[k] \in 1 .. p
       /\ \A i \in 1 .. p : Kept(t, i) => \E k \in 1 .. l : e[k] = i
  BY <1>13 DEF Enumerates
<1>18. ~Blank(t[1]) /\ ~Blank(t[p])
  <2>1. 1 \in 1 .. p /\ p \in 1 .. p
    OBVIOUS
  <2>2. start + 1 = o[at]
    BY <1>6, <1>7 DEF start
  <2>3. start + p = end
    BY <1>5, <1>10, <1>11
  <2>4. 1 \in 1 .. p /\ p \in 1 .. p /\ start + 1 = o[at] /\ start + p = o[at + L - 1]
    BY <2>1, <2>2, <2>3 DEF end
  <2> QED
    BY <1>8, <1>12, <2>4
<1>19. PICK first \in 1 .. l : e[first] = 1
  BY <1>17, <1>18 DEF Kept
<1>20. PICK last \in 1 .. l : e[last] = p
  BY <1>17, <1>18 DEF Kept
<1>21. 1 \in 1 .. l /\ l \in 1 .. l /\ 1 <= first /\ last <= l /\ l \in Nat \ {0}
  BY <1>16, <1>19
<1>22. e[1] = 1
  <2>1. e[1] <= e[first]
    BY <1>16, <1>17, <1>21, IncreasesOrders
  <2> QED
    BY <1>17, <1>19, <1>21, <2>1
<1>23. e[l] = p
  <2>1. e[last] <= e[l]
    BY <1>16, <1>17, <1>21, IncreasesOrders
  <2> QED
    BY <1>17, <1>20, <1>21, <2>1
<1>24. PICK j \in 1 .. m : j + l - 1 <= m /\ Shifted(e, l, o, start, j)
  <2>1. start \in Nat /\ start + p <= n
    BY <1>5, <1>10, <1>11
  <2> QED
    BY <1>1, <1>5, <1>12, <1>13, <1>21, <2>1, Window
<1>25. \A k \in 1 .. l : e[k] + start = o[j + k - 1]
  BY <1>24 DEF Shifted
<1>26. j = at
  <2>1. o[j] = o[at]
    <3>1. e[1] + start = o[j + 1 - 1] /\ j + 1 - 1 = j
      BY <1>21, <1>25
    <3>2. 1 + start = o[at]
      BY <1>6, <1>7 DEF start
    <3> QED
      BY <1>10, <1>22, <3>1, <3>2
  <2>2. o[j] \in Nat /\ o[at] \in Nat
    BY <1>6, <1>7
  <2>3. o[j] <= o[at] /\ o[at] <= o[j]
    BY <2>1, <2>2
  <2>4. j <= at /\ at <= j
    BY <1>5, <1>6, <1>7, <2>3, IncreasesOrders
  <2> QED
    BY <1>6, <2>4
<1>27. l = L
  <2>1. o[at + l - 1] = o[at + L - 1] /\ at + l - 1 \in 1 .. m
    <3>1. p + start = o[at + l - 1]
      BY <1>21, <1>23, <1>25, <1>26
    <3>2. p + start = o[at + L - 1]
      BY <1>5, <1>10, <1>11 DEF end
    <3>3. at + l - 1 \in 1 .. m
      BY <1>5, <1>21, <1>24, <1>26
    <3> QED
      BY <3>1, <3>2, <3>3
  <2>2. o[at + l - 1] \in Nat /\ o[at + L - 1] \in Nat
    BY <1>6, <1>7, <2>1
  <2>3. o[at + l - 1] <= o[at + L - 1] /\ o[at + L - 1] <= o[at + l - 1]
    BY <2>1, <2>2
  <2>4. at + l - 1 <= at + L - 1 /\ at + L - 1 <= at + l - 1
    BY <1>5, <1>6, <1>7, <2>1, <2>3, IncreasesOrders
  <2> QED
    BY <1>5, <1>6, <1>16, <2>4
<1>28. \A k \in 1 .. L : Collapsed(t)[k] = w[k]
  <2> TAKE k \in 1 .. L
  <2>1. k \in 1 .. l /\ e[k] \in 1 .. p /\ e[k] + start = o[at + k - 1]
    BY <1>17, <1>25, <1>26, <1>27
  <2>2. t[e[k]] = text[o[at + k - 1]]
    <3>1. t[e[k]] = text[start + e[k]] /\ start + e[k] = e[k] + start
      BY <1>10, <1>12, <2>1
    <3> QED
      BY <2>1, <3>1
  <2>3. c[at + k - 1] = w[k] /\ c[at + k - 1] = Shade(text[o[at + k - 1]])
    BY <1>2, <1>6
  <2> QED
    BY <1>14, <2>1, <2>2, <2>3
<1>29. Collapsed(t) = w
  <2>1. Len(Collapsed(t)) = Len(w)
    BY <1>14, <1>27 DEF L
  <2> QED
    BY <1>3, <1>14, <1>28, <2>1, SeqEqual DEF L
<1>30. Normalized(t) = w
  BY <1>15, <1>18, <1>21, <1>23, <1>29
<1>31. Head(t) = t[1] /\ Last(t) = t[p]
  BY <1>12 DEF Last
<1>32. Unblank(text, start, end)
  BY <1>18, <1>31 DEF Unblank, t
<1> QED
  BY <1>10, <1>30, <1>32 DEF t, w, o, n, start, end, L


\* A part of the text that reads as what is looked for holds a match.
LEMMA PartMatches ==
    ASSUME NEW C, NEW text \in Seq(C), NEW quote \in Seq(C),
           NEW start \in 0 .. Len(text), NEW end \in start .. Len(text),
           Normalized(quote) # <<>>,
           Normalized(Slice(text, start, end)) = Normalized(quote)
    PROVE  \E j : /\ Matches(Collapsed(text), Normalized(quote), j)
                  /\ j + Len(Normalized(quote)) - 1 \in 1 .. Len(Offsets(text))
                  /\ Offsets(text)[j + Len(Normalized(quote)) - 1] <= end
<1> DEFINE o == Offsets(text)
           m == Len(o)
           n == Len(text)
           c == Collapsed(text)
           w == Normalized(quote)
           L == Len(w)
           D == C \cup {" "}
           t == Slice(text, start, end)
           e == Offsets(t)
           l == Len(e)
<1>1. o \in Seq(Nat) /\ Enumerates(o, m, text, n) /\ n \in Nat
  BY OffsetsEnumerate
<1>2. c \in Seq(D) /\ Len(c) = m /\ \A k \in 1 .. m : c[k] = Shade(text[o[k]])
  BY CollapsedIs
<1>3. w \in Seq(D) /\ w # <<>>
  BY NormalizedIs
<1>4. PICK p \in Nat : p = end - start
  OBVIOUS
<1>5. start \in 0 .. n /\ end \in start .. n /\ start \in Nat /\ end \in Nat /\ start + p <= n
  BY <1>4
<1>6. /\ t \in Seq(C) /\ Len(t) = p /\ KeptAlike(t, p, text, start)
      /\ \A i \in 1 .. p : t[i] = text[start + i]
  BY <1>4, SliceIs
<1>7. e \in Seq(Nat) /\ Enumerates(e, l, t, p)
  BY <1>6, OffsetsEnumerate
<1>8. Normalized(t) = w
  OBVIOUS
<1>9. L \in 0 .. l /\ \A k \in 1 .. L : w[k] = Shade(t[e[k]])
  BY <1>6, <1>8, NormalizedIs
<1> HIDE DEF o, m, n, c, w, D, t, e
<1>10. m \in Nat /\ l \in Nat /\ L \in Nat \ {0}
  <2>1. m \in Nat
    BY <1>1 DEF m
  <2>2. l \in Nat
    BY <1>7
  <2>3. L \in Nat \ {0}
    BY <1>3, EmptySeq
  <2> QED
    BY <2>1, <2>2, <2>3
<1> HIDE DEF L, l
<1>11. l \in Nat \ {0} /\ L <= l
  BY <1>9, <1>10
<1>12. PICK j \in 1 .. m : j + l - 1 <= m /\ Shifted(e, l, o, start, j)
  BY <1>1, <1>5, <1>6, <1>7, <1>10, <1>11, Window
<1>13. \A k \in 1 .. l : e[k] \in 1 .. p /\ e[k] + start = o[j + k - 1]
  BY <1>7, <1>12 DEF Shifted, Enumerates
<1>14. ASSUME NEW k \in 1 .. L PROVE c[j + k - 1] = w[k]
  <2>1. k \in 1 .. l /\ j + k - 1 \in 1 .. m
    BY <1>10, <1>11, <1>12
  <2>2. e[k] \in 1 .. p /\ e[k] + start = o[j + k - 1] /\ start + e[k] = e[k] + start
    BY <1>5, <1>13, <2>1
  <2>3. t[e[k]] = text[o[j + k - 1]]
    BY <1>6, <2>2
  <2> QED
    BY <1>2, <1>9, <2>1, <2>3
<1>15. j \in 1 .. m - L + 1 /\ j + L - 1 \in 1 .. m
  BY <1>10, <1>11, <1>12
<1>16. Matches(c, w, j)
  BY <1>2, <1>14, <1>15 DEF Matches, L
<1>17. o[j + L - 1] <= end
  <2>1. L \in 1 .. l
    BY <1>10, <1>11
  <2>2. e[L] \in 1 .. p /\ e[L] + start = o[j + L - 1]
    BY <1>13, <2>1
  <2> QED
    BY <1>4, <1>5, <2>2
<1> QED
  BY <1>15, <1>16, <1>17 DEF c, w, o, m, L

\* What find_span finds is there, and it finds what is there, as early as it is.
LEMMA FindSpanSound ==
    ASSUME NEW C, NEW text \in Seq(C), NEW quote \in Seq(C), FindSpan(text, quote) # NoSpan
    PROVE  LET span == FindSpan(text, quote)
           IN  /\ span.start \in 0 .. Len(text) /\ span.end \in 0 .. Len(text)
               /\ span.start < span.end
               /\ Normalized(Slice(text, span.start, span.end)) = Normalized(quote)
               /\ Unblank(text, span.start, span.end)
<1> DEFINE w == Normalized(quote)
           c == Collapsed(text)
           o == Offsets(text)
           span == FindSpan(text, quote)
<1>1. PICK at : /\ w # <<>> /\ Matches(c, w, at)
                /\ span.start = o[at] - 1
                /\ span.end = o[at + Len(w) - 1]
  BY FindSpanIs
<1>2. LET start == o[at] - 1
          end == o[at + Len(w) - 1]
      IN  /\ start \in 0 .. Len(text) /\ end \in 0 .. Len(text) /\ start < end
          /\ Normalized(Slice(text, start, end)) = Normalized(quote)
          /\ Unblank(text, start, end)
  BY <1>1, MatchReads
<1> HIDE DEF w, c, o, span
<1>3. /\ span.start \in 0 .. Len(text) /\ span.end \in 0 .. Len(text) /\ span.start < span.end
      /\ Normalized(Slice(text, span.start, span.end)) = Normalized(quote)
      /\ Unblank(text, span.start, span.end)
  BY <1>1, <1>2
<1> QED
  BY <1>3 DEF span

\* What is there is found, and found no later than it is there.
LEMMA FindSpanComplete ==
    ASSUME NEW C, NEW text \in Seq(C), NEW quote \in Seq(C),
           NEW start \in 0 .. Len(text), NEW end \in start .. Len(text),
           Normalized(quote) # <<>>,
           Normalized(Slice(text, start, end)) = Normalized(quote)
    PROVE  FindSpan(text, quote) # NoSpan /\ FindSpan(text, quote).end <= end
<1> DEFINE w == Normalized(quote)
           c == Collapsed(text)
           o == Offsets(text)
           m == Len(o)
           n == Len(text)
           L == Len(w)
           span == FindSpan(text, quote)
           D == C \cup {" "}
<1>1. PICK j : Matches(c, w, j) /\ j + L - 1 \in 1 .. m /\ o[j + L - 1] <= end
  BY PartMatches
<1>2. /\ \E at : /\ w # <<>> /\ Matches(c, w, at)
                 /\ \A i : Matches(c, w, i) => at <= i
                 /\ span.start = o[at] - 1
                 /\ span.end = o[at + L - 1]
  BY <1>1, FindSpanIs
<1>3. PICK at : /\ Matches(c, w, at) /\ at <= j
                /\ span.start = o[at] - 1 /\ span.end = o[at + L - 1]
  BY <1>1, <1>2
<1>4. span.start \in 0 .. n
  BY <1>3, MatchReads
<1>5. span # NoSpan
  BY <1>4 DEF NoSpan
<1>6. o \in Seq(Nat) /\ Enumerates(o, m, text, n)
  BY OffsetsEnumerate
<1>7. w \in Seq(D) /\ w # <<>>
  BY NormalizedIs
<1>8. Len(c) = m
  BY CollapsedIs
<1> HIDE DEF w, c, o, n, D, span
<1>9. m \in Nat /\ L \in Nat \ {0}
  <2>1. m \in Nat
    BY <1>6
  <2>2. L \in Nat \ {0}
    BY <1>7, EmptySeq
  <2> QED
    BY <2>1, <2>2
<1> HIDE DEF m, L
<1>10. o \in [1 .. m -> Nat] /\ Increases(o, m)
  BY <1>6 DEF Enumerates
<1>11. at + L - 1 \in 1 .. m /\ at \in Nat /\ j \in Nat
  BY <1>1, <1>3, <1>8, <1>9 DEF Matches, L
<1>12. at + L - 1 <= j + L - 1
  BY <1>3, <1>9, <1>11
<1>13. o[at + L - 1] <= o[j + L - 1]
  BY <1>1, <1>9, <1>10, <1>11, <1>12, IncreasesOrders
<1>14. o[at + L - 1] \in Nat /\ o[j + L - 1] \in Nat
  BY <1>1, <1>10, <1>11
<1> QED
  BY <1>1, <1>3, <1>5, <1>13, <1>14 DEF span

-----------------------------------------------------------------------------
\* A result's span is that of the quote or value that it claims, and a value
\* stands in only for a quote that is not there.
Resolved(result, text) ==
    /\ result.item \in [quote : Text, value : Text]
    /\ result.span = FindSpan(text, Claim(result))
    /\ result.derived => FindSpan(text, result.item.quote) = NoSpan

Results(results, text) ==
    /\ \E n \in {0, Fields} : DOMAIN results = 1 .. n
    /\ \A i \in DOMAIN results : Resolved(results[i], text)

Inv ==
    /\ source \in Text
    /\ Results(evidence, source)
    /\ page = <<>> \/ page = Segments(source, evidence)

\* _resolve gives what the invariant says of a result.
LEMMA ResolveResolves ==
    ASSUME NEW item \in [quote : Text, value : Text], NEW text, NEW fallback \in BOOLEAN
    PROVE  Resolved(Resolve(item, text, fallback), text)
<1> DEFINE span == FindSpan(text, item.quote)
           other == FindSpan(text, item.value)
           result == Resolve(item, text, fallback)
           kept == [item |-> item, span |-> span, derived |-> FALSE]
           stood == [item |-> item, span |-> other, derived |-> other # NoSpan]
<1>1. result = IF span # NoSpan \/ ~fallback THEN kept ELSE stood
  BY DEF Resolve
<1>2. /\ kept.item = item /\ kept.span = span /\ kept.derived = FALSE
      /\ stood.item = item /\ stood.span = other /\ stood.derived = (other # NoSpan)
  OBVIOUS
<1> HIDE DEF kept, stood, result
<1>3. CASE span # NoSpan \/ ~fallback
  <2>1. result = kept
    BY <1>1, <1>3
  <2>2. Claim(result) = item.quote
    BY <1>2, <2>1 DEF Claim
  <2>3. result.item = item /\ result.span = span /\ ~result.derived
    BY <1>2, <2>1
  <2> QED
    BY <2>2, <2>3 DEF Resolved, result
<1>4. CASE span = NoSpan /\ other = NoSpan /\ fallback
  <2>1. result = stood
    BY <1>1, <1>4
  <2>2. result.item = item /\ result.span = other /\ ~result.derived
    BY <1>2, <1>4, <2>1
  <2>3. Claim(result) = item.quote
    BY <2>2 DEF Claim
  <2> QED
    BY <1>4, <2>2, <2>3 DEF Resolved, result
<1>5. CASE span = NoSpan /\ other # NoSpan /\ fallback
  <2>1. result = stood
    BY <1>1, <1>5
  <2>2. result.item = item /\ result.span = other /\ result.derived
    BY <1>2, <1>5, <2>1
  <2>3. Claim(result) = item.value
    BY <2>2 DEF Claim
  <2> QED
    BY <1>5, <2>2, <2>3 DEF Resolved, result
<1> QED
  BY <1>3, <1>4, <1>5

\* The invariant: results are those of the source, a page is that of the results.
LEMMA InvHolds == Spec => []Inv
<1>1. Init => Inv
  <2> SUFFICES ASSUME Init PROVE Inv
    OBVIOUS
  <2>1. source \in Text
    BY EvidenceAssumption DEF Init
  <2>2. DOMAIN evidence = 1 .. 0 /\ 1 .. 0 = {}
    BY DEF Init
  <2>3. Results(evidence, source)
    BY <2>2 DEF Results
  <2> QED
    BY <2>1, <2>3 DEF Inv, Init
<1>2. Inv /\ [Next]_vars => Inv'
  <2> SUFFICES ASSUME Inv, [Next]_vars PROVE Inv'
    OBVIOUS
  <2>1. ASSUME NEW draft \in [1 .. Fields -> Items], NEW fallback \in BOOLEAN,
               Extract(draft, fallback)
        PROVE  Inv'
    <3>1. source' = source /\ page' = <<>>
      BY <2>1 DEF Extract
    <3>2. evidence' = [i \in 1 .. Fields |-> Resolve(draft[i], source, fallback)]
      BY <2>1 DEF Extract
    <3>3. DOMAIN evidence' = 1 .. Fields
      BY <3>2
    <3>4. ASSUME NEW i \in 1 .. Fields PROVE Resolved(evidence'[i], source)
      <4>1. draft[i] \in [quote : Text, value : Text]
        BY EvidenceAssumption
      <4>2. evidence'[i] = Resolve(draft[i], source, fallback)
        BY <3>2
      <4> QED
        BY <4>1, <4>2, ResolveResolves
    <3>5. Results(evidence', source)
      BY <3>3, <3>4 DEF Results
    <3> QED
      BY <3>1, <3>5 DEF Inv
  <2>2. CASE Show
    BY <2>2 DEF Inv, Show
  <2>3. CASE UNCHANGED vars
    BY <2>3 DEF Inv, vars
  <2> QED
    BY <2>1, <2>2, <2>3 DEF Next
<1> QED
  BY <1>1, <1>2, PTL DEF Spec

\* What a result claims is a text, and its span is that of the claim.
LEMMA ClaimIsText ==
    ASSUME NEW result, NEW text, Resolved(result, text)
    PROVE  /\ Claim(result) \in Text
           /\ result.item.quote \in Text
           /\ result.span = FindSpan(text, Claim(result))
<1>1. result.item \in [quote : Text, value : Text]
  BY DEF Resolved
<1>2. result.item.quote \in Text /\ result.item.value \in Text
  BY <1>1
<1> QED
  BY <1>2 DEF Claim, Resolved

\* What is verified is in the source, and reads as its quote, or as the value
\* that stands in for it.  (find_span)
THEOREM VerifiedIsThere == Spec => []EvidenceIsInTheSource
<1>1. Inv => EvidenceIsInTheSource
  <2> SUFFICES ASSUME Inv, NEW i \in DOMAIN evidence, Verified(evidence[i])
               PROVE  LET span == evidence[i].span
                          text == Slice(source, span.start, span.end)
                      IN  /\ ReadsAs(text, Claim(evidence[i]))
                          /\ ~Blank(Head(text)) /\ ~Blank(Last(text))
    BY DEF EvidenceIsInTheSource
  <2> DEFINE result == evidence[i]
  <2>1. Resolved(result, source) /\ source \in Text
    BY DEF Inv, Results
  <2>2. Claim(result) \in Text /\ result.span = FindSpan(source, Claim(result))
    BY <2>1, ClaimIsText
  <2>3. FindSpan(source, Claim(result)) # NoSpan
    BY <2>2 DEF Verified
  <2>4. PICK C : Text = Seq(C)
    BY DEF Text
  <2>5. LET span == FindSpan(source, Claim(result))
        IN  /\ Normalized(Slice(source, span.start, span.end)) = Normalized(Claim(result))
            /\ Unblank(source, span.start, span.end)
    BY <2>1, <2>2, <2>3, <2>4, FindSpanSound
  <2> QED
    BY <2>2, <2>5 DEF ReadsAs, Unblank
<1> QED
  BY <1>1, InvHolds, PTL

\* Nothing that the source holds is rejected, and a span is the first place
\* that holds what it claims.  (find_span, _resolve)
THEOREM FirstPlaceIsFound == Spec => []NoEvidenceIsMissed
<1>1. Inv => NoEvidenceIsMissed
  <2> SUFFICES ASSUME Inv PROVE NoEvidenceIsMissed
    OBVIOUS
  <2> DEFINE Quoted(quote, limit) ==
               \E start \in 0 .. limit - 1 : \E end \in start + 1 .. limit :
                   Normalized(quote) # <<>> /\ ReadsAs(Slice(source, start, end), quote)
             n == Len(source)
  <2>1. PICK C : Text = Seq(C)
    BY DEF Text
  <2>2. source \in Seq(C) /\ n \in Nat
    BY <2>1 DEF Inv
  <2>3. ASSUME NEW quote \in Seq(C), NEW limit \in Nat, limit <= n, Quoted(quote, limit)
        PROVE  FindSpan(source, quote) # NoSpan /\ FindSpan(source, quote).end <= limit
    <3>1. PICK start \in 0 .. limit - 1 : \E end \in start + 1 .. limit :
                Normalized(quote) # <<>> /\ ReadsAs(Slice(source, start, end), quote)
      BY <2>3
    <3>2. PICK end \in start + 1 .. limit :
                Normalized(quote) # <<>> /\ ReadsAs(Slice(source, start, end), quote)
      BY <3>1
    <3>3. start \in 0 .. n /\ end \in start .. n /\ end <= limit /\ end \in Nat
      BY <2>2, <2>3, <3>1, <3>2
    <3>4. FindSpan(source, quote) # NoSpan /\ FindSpan(source, quote).end <= end
      <4> HIDE DEF Quoted
      <4> QED
        BY <2>2, <3>2, <3>3, FindSpanComplete DEF ReadsAs
    <3>5. FindSpan(source, quote).end \in 0 .. n
      <4> HIDE DEF Quoted
      <4> QED
        BY <2>2, <3>4, FindSpanSound
    <3> QED
      BY <2>2, <2>3, <3>3, <3>4, <3>5
  <2>4. ASSUME NEW i \in DOMAIN evidence
        PROVE  /\ ~Quoted(Claim(evidence[i]),
                          IF Verified(evidence[i]) THEN evidence[i].span.end - 1 ELSE n)
               /\ evidence[i].derived => ~Quoted(evidence[i].item.quote, n)
    <3> DEFINE result == evidence[i]
    <3>1. Resolved(result, source)
      BY DEF Inv, Results
    <3>2. /\ Claim(result) \in Seq(C) /\ result.item.quote \in Seq(C)
          /\ result.span = FindSpan(source, Claim(result))
      BY <2>1, <3>1, ClaimIsText
    <3>3. result.derived => FindSpan(source, result.item.quote) = NoSpan
      BY <3>1 DEF Resolved
    <3> HIDE DEF Quoted, result
    <3>4. result.derived => ~Quoted(result.item.quote, n)
      BY <2>2, <2>3, <3>2, <3>3
    <3>5. ~Verified(result) => ~Quoted(Claim(result), n)
      BY <2>2, <2>3, <3>2 DEF Verified
    <3>6. Verified(result) => ~Quoted(Claim(result), result.span.end - 1)
      <4> SUFFICES ASSUME Verified(result), Quoted(Claim(result), result.span.end - 1)
                   PROVE  FALSE
        OBVIOUS
      <4>1. /\ result.span.start \in 0 .. n /\ result.span.end \in 0 .. n
            /\ result.span.start < result.span.end
        BY <2>2, <3>2, FindSpanSound DEF Verified
      <4>2. result.span.end - 1 \in Nat /\ result.span.end - 1 <= n
        BY <2>2, <4>1
      <4>3. FindSpan(source, Claim(result)).end <= result.span.end - 1
        BY <2>3, <3>2, <4>2
      <4> QED
        BY <2>2, <3>2, <4>1, <4>3
    <3> QED
      BY <3>4, <3>5, <3>6 DEF result
  <2> QED
    BY <2>4 DEF NoEvidenceIsMissed
<1> QED
  BY <1>1, InvHolds, PTL

-----------------------------------------------------------------------------
Part(C) == [text : Seq(C), field : Nat]
Parts(C) == [cursor : Nat, segments : Seq(Part(C))]

\* Every verified span lies in the text and is not empty.
Spanned(results, n, text) ==
    \A i \in 1 .. n : Verified(results[i]) =>
        /\ results[i].span.start \in 0 .. Len(text)
        /\ results[i].span.end \in 0 .. Len(text)
        /\ results[i].span.start < results[i].span.end

\* Text between marks is a part of a page, or none.
LEMMA PlainType ==
    ASSUME NEW C, NEW text \in Seq(C), NEW from \in 0 .. Len(text), NEW to \in 0 .. Len(text)
    PROVE  Plain(text, from, to) \in Seq(Part(C))
<1> DEFINE part == [text |-> Slice(text, from, to), field |-> 0]
<1>1. Slice(text, from, to) \in Seq(C)
  <2>1. \A i \in from + 1 .. to : text[i] \in C
    OBVIOUS
  <2> QED
    BY <2>1, SubSeqProperties DEF Slice
<1>2. part \in Part(C)
  BY <1>1 DEF Part
<1> HIDE DEF part
<1>3. <<part>> \in Seq(Part(C)) /\ <<>> \in Seq(Part(C))
  BY <1>2
<1> QED
  BY <1>3 DEF Plain, part

\* Placed extends what is shown, or leaves it.
LEMMA PlacedType ==
    ASSUME NEW C, NEW text \in Seq(C), NEW shown \in Parts(C), shown.cursor <= Len(text),
           NEW span, span.start \in 0 .. Len(text), span.end \in 0 .. Len(text), NEW field \in Nat
    PROVE  /\ Placed(text, shown, span, field) \in Parts(C)
           /\ Placed(text, shown, span, field).cursor <= Len(text)
<1> DEFINE mark == [text |-> Slice(text, span.start, span.end), field |-> field]
           more == shown.segments \o Plain(text, shown.cursor, span.start) \o <<mark>>
           next == [cursor |-> span.end, segments |-> more]
           P == Part(C)
<1>1. Placed(text, shown, span, field) = IF span.start < shown.cursor THEN shown ELSE next
  BY DEF Placed
<1>2. Len(text) \in Nat /\ shown.cursor \in 0 .. Len(text) /\ shown.segments \in Seq(P)
  BY DEF Parts
<1>3. Plain(text, shown.cursor, span.start) \in Seq(P)
  BY <1>2, PlainType
<1>4. <<mark>> \in Seq(P)
  <2>1. \A i \in span.start + 1 .. span.end : text[i] \in C
    OBVIOUS
  <2>2. Slice(text, span.start, span.end) \in Seq(C)
    BY <2>1, SubSeqProperties DEF Slice
  <2>3. mark \in P
    BY <2>2 DEF Part
  <2> HIDE DEF mark, P
  <2> QED
    BY <2>3
<1>5. more \in Seq(P)
  <2> HIDE DEF mark, P
  <2>1. shown.segments \o Plain(text, shown.cursor, span.start) \in Seq(P)
    BY <1>2, <1>3
  <2> QED
    BY <1>4, <2>1
<1>6. next \in Parts(C) /\ next.cursor = span.end
  <2> HIDE DEF more
  <2> QED
    BY <1>5 DEF Parts
<1> HIDE DEF next
<1> QED
  BY <1>1, <1>2, <1>6

Places(run, n, text, results, s) ==
    /\ run[0] = Unmarked
    /\ \A k \in 1 .. n : run[k] = Placed(text, run[k - 1], results[s[k]].span, s[k])

SpansWithin(text, n, results, s) ==
    \A k \in 1 .. n : /\ results[s[k]].span.start \in 0 .. Len(text)
                      /\ results[s[k]].span.end \in 0 .. Len(text)

HasRun(C, text, n, results, s) ==
    \E run \in [0 .. n -> Parts(C)] :
        Places(run, n, text, results, s) /\ run[n] = Shown(text, results)

\* What the loop of segments goes through.
LEMMA ShownRun ==
    ASSUME NEW C, NEW text \in Seq(C), NEW results, NEW n \in Nat,
           NEW s \in [1 .. n -> Nat], s = Sorted(results),
           SpansWithin(text, n, results, s)
    PROVE  HasRun(C, text, n, results, s)
<1> DEFINE V == {shown \in Parts(C) : shown.cursor <= Len(text)}
           base == Unmarked
           step == [x \in V \X (1 .. n) |-> Placed(text, x[1], results[s[x[2]]].span, s[x[2]])]
           Rec(f) == f = [S \in SUBSET (1 .. n) |->
                            IF S = {} THEN base
                            ELSE Placed(text, f[S \ {Max(S)}], results[s[Max(S)]].span, s[Max(S)])]
           iter == CHOOSE f : Rec(f)
           run == [k \in 0 .. n |-> iter[1 .. k]]
<1>1. Shown(text, results) = iter[1 .. n]
  BY DEF Shown, FoldLeft, MapThenFoldSet
<1>2. base \in V
  <2>1. <<>> \in Seq(Part(C)) /\ Len(text) \in Nat
    OBVIOUS
  <2> QED
    BY <2>1 DEF Unmarked, Parts
<1>3. \A v \in V, k \in 1 .. n : Placed(text, v, results[s[k]].span, s[k]) \in V
  BY PlacedType DEF SpansWithin
<1> HIDE DEF V, base
<1>4. step \in [V \X (1 .. n) -> V]
  BY <1>3
<1>5. \A v \in V, k \in 1 .. n : step[<<v, k>>] = Placed(text, v, results[s[k]].span, s[k])
  OBVIOUS
<1> HIDE DEF step
<1>6. PICK f \in [SUBSET (1 .. n) -> V] :
         /\ f[{}] = base
         /\ \A S \in SUBSET (1 .. n) : S # {} =>
              f[S] = step[<<f[S \ {Max(S)}], Max(S)>>] /\ Max(S) \in 1 .. n
  BY <1>2, <1>4, IteratesExist
<1>7. Rec(f)
  <2>1. \A S \in SUBSET (1 .. n) : S # {} =>
           f[S] = Placed(text, f[S \ {Max(S)}], results[s[Max(S)]].span, s[Max(S)])
    <3> SUFFICES ASSUME NEW S \in SUBSET (1 .. n), S # {}
                 PROVE  f[S] = Placed(text, f[S \ {Max(S)}], results[s[Max(S)]].span, s[Max(S)])
      OBVIOUS
    <3>1. f[S] = step[<<f[S \ {Max(S)}], Max(S)>>] /\ Max(S) \in 1 .. n
      BY <1>6
    <3>2. f[S \ {Max(S)}] \in V
      OBVIOUS
    <3> QED
      BY <1>5, <3>1, <3>2
  <2> QED
    BY <1>6, <2>1
<1>8. Rec(iter)
  <2> HIDE DEF Rec
  <2> QED
    BY <1>7
<1> HIDE DEF iter
<1>9. run[0] = base
  <2>1. {} \in SUBSET (1 .. n) /\ 1 .. 0 = {} /\ 0 \in 0 .. n
    OBVIOUS
  <2>2. iter[{}] = base
    BY <1>8, <2>1
  <2> QED
    BY <2>1, <2>2
<1>10. ASSUME NEW k \in 1 .. n
       PROVE  run[k] = Placed(text, run[k - 1], results[s[k]].span, s[k])
  <2>1. k - 1 \in 0 .. n /\ k \in 0 .. n
    OBVIOUS
  <2>2. /\ Max(1 .. k) = k /\ (1 .. k) \ {k} = 1 .. k - 1
        /\ 1 .. k # {} /\ (1 .. k) \in SUBSET (1 .. n)
    BY MaxOfInterval
  <2>3. iter[1 .. k] = Placed(text, iter[(1 .. k) \ {Max(1 .. k)}],
                              results[s[Max(1 .. k)]].span, s[Max(1 .. k)])
    BY <1>8, <2>2
  <2> QED
    BY <2>1, <2>2, <2>3
<1>11. run[n] = Shown(text, results)
  BY <1>1
<1> DEFINE T == {k \in 0 .. n : run[k] \in V}
<1>12. 0 \in T
  BY <1>2, <1>9
<1>13. ASSUME NEW k \in 1 .. n, k - 1 \in T PROVE k \in T
  <2> HIDE DEF run
  <2>1. run[k - 1] \in V
    BY <1>13
  <2>2. run[k] \in V
    BY <1>3, <1>10, <2>1
  <2> QED
    BY <2>2
<1>14. 0 .. n \subseteq T
  <2> HIDE DEF T
  <2> QED
    BY <1>12, <1>13, InductionUpTo
<1>15. run \in [0 .. n -> Parts(C)]
  BY <1>14 DEF V
<1> HIDE DEF run
<1>16. Places(run, n, text, results, s)
  BY <1>9, <1>10 DEF Places, base
<1> QED
  BY <1>11, <1>15, <1>16 DEF HasRun


\* Marks can be sorted, and every one of them is.
LEMMA SortedLists ==
    ASSUME NEW results, NEW n \in Nat, DOMAIN results = 1 .. n,
           \A i \in 1 .. n : Verified(results[i]) =>
               results[i].span.start \in Int /\ results[i].span.end \in Int
    PROVE  \E m \in Nat :
             /\ Sorted(results) \in [1 .. m -> 1 .. n]
             /\ \A k \in 1 .. m : Verified(results[Sorted(results)[k]])
             /\ \A j, k \in 1 .. m : j < k => Before(results, Sorted(results)[j], Sorted(results)[k])
             /\ \A i \in 1 .. n : Verified(results[i]) => \E k \in 1 .. m : Sorted(results)[k] = i
<1> DEFINE M == Marked(results)
           R == {pair \in M \X M : Before(results, pair[1], pair[2])}
<1>1. M \in SUBSET (1 .. n) /\ \A i \in 1 .. n : i \in M <=> Verified(results[i])
  BY DEF Marked
<1>2. IsFiniteSet(M)
  <2>1. IsFiniteSet(1 .. n)
    <3>1. 1 \in Int /\ n \in Int
      OBVIOUS
    <3> HIDE DEF M, R
    <3> QED
      BY <3>1, FS_Interval
  <2> QED
    BY <1>1, <2>1, FS_Subset
<1>3. \A x \in M : x \in Int /\ results[x].span.start \in Int /\ results[x].span.end \in Int
  BY <1>1
<1> HIDE DEF M
<1>4. \A x, y \in M : <<x, y>> \in R <=> Before(results, x, y)
  OBVIOUS
<1>5. \A x, y \in M : x = y \/ Before(results, x, y) \/ Before(results, y, x)
  BY <1>3 DEF Before
<1>6. \A x, y, z \in M : Before(results, x, y) /\ Before(results, y, z) => Before(results, x, z)
  BY <1>3 DEF Before
<1>7. \A x \in M : ~Before(results, x, x)
  BY <1>3 DEF Before
<1> HIDE DEF R
<1>8. Orders(R, M)
  BY <1>4, <1>5, <1>6 DEF Orders
<1>9. PICK m \in Nat : m = Cardinality(M)
  BY <1>2, FS_CardinalityType
<1>10. PICK f \in [1 .. m -> M] : InOrder(f, m, R)
  BY <1>2, <1>8, <1>9, ListingExists
<1>11. \A i, j \in DOMAIN f : i < j => Before(results, f[i], f[j])
  BY <1>4, <1>10 DEF InOrder
<1>12. /\ Sorted(results) \in [1 .. m -> M]
       /\ \A i, j \in DOMAIN Sorted(results) :
             i < j => Before(results, Sorted(results)[i], Sorted(results)[j])
  BY <1>9, <1>11 DEF Sorted, M
<1>13. PICK s \in [1 .. m -> M] : s = Sorted(results)
  BY <1>12
<1>14. \A i, j \in 1 .. m : i < j => Before(results, s[i], s[j])
  BY <1>12, <1>13
<1>15. InOrder(s, m, R)
  BY <1>4, <1>14 DEF InOrder
<1>16. \A x \in M : \E k \in 1 .. m : s[k] = x
  BY <1>2, <1>4, <1>7, <1>9, <1>15, ListingIsWhole
<1>17. s \in [1 .. m -> 1 .. n] /\ \A k \in 1 .. m : Verified(results[s[k]])
  BY <1>1
<1>18. \A i \in 1 .. n : Verified(results[i]) => \E k \in 1 .. m : s[k] = i
  BY <1>1, <1>16
<1> QED
  BY <1>13, <1>14, <1>17, <1>18

-----------------------------------------------------------------------------
\* Where part i of a page begins.
BeginIn(parts, i) == Len(FlattenSeq([k \in 1 .. i - 1 |-> parts[k].text]))

\* The page so far is the text up to a place.
Laid(parts, text, to) == FlattenSeq([i \in DOMAIN parts |-> parts[i].text]) = SubSeq(text, 1, to)

Extends(longer, parts) ==
    /\ Len(parts) <= Len(longer)
    /\ \A i \in 1 .. Len(parts) : longer[i] = parts[i] /\ BeginIn(longer, i) = BeginIn(parts, i)

\* The text from one place to the next is added.
LEMMA PartAdded ==
    ASSUME NEW C, NEW text \in Seq(C), NEW parts \in Seq(Part(C)),
           NEW from \in 0 .. Len(text), NEW to \in from .. Len(text), NEW field \in Nat,
           Laid(parts, text, from)
    PROVE  LET longer == parts \o <<[text |-> Slice(text, from, to), field |-> field]>>
               l == Len(parts)
           IN  /\ longer \in Seq(Part(C)) /\ Len(longer) = l + 1
               /\ Laid(longer, text, to) /\ Extends(longer, parts)
               /\ longer[l + 1].field = field /\ BeginIn(longer, l + 1) = from
               /\ BeginIn(longer, l + 1) + Len(longer[l + 1].text) = to
<1> DEFINE part == [text |-> Slice(text, from, to), field |-> field]
           longer == parts \o <<part>>
           P == Part(C)
           slice == Slice(text, from, to)
<1>1. PICK l \in Nat : l = Len(parts)
  OBVIOUS
<1>2. slice \in Seq(C) /\ Len(slice) = to - from
  BY SliceIs
<1>3. part \in P /\ part.text = slice /\ part.field = field
  BY <1>2 DEF Part
<1> HIDE DEF part, P, slice
<1>4. /\ longer \in Seq(P) /\ Len(longer) = l + 1 /\ longer[l + 1] = part
      /\ \A i \in 1 .. l : longer[i] = parts[i]
  BY <1>1, <1>3 DEF P
<1> HIDE DEF longer
<1>5. \A i \in 1 .. l : parts[i] \in P /\ parts[i].text \in Seq(C)
  <2>1. \A x \in P : x.text \in Seq(C)
    BY DEF P, Part
  <2>2. parts \in Seq(P)
    BY DEF P
  <2>3. \A i \in 1 .. l : parts[i] \in P
    BY <1>1, <2>2
  <2> QED
    BY <2>1, <2>3
<1> DEFINE texts == [i \in 1 .. l |-> parts[i].text]
           more == [i \in 1 .. l + 1 |-> longer[i].text]
<1>6. texts \in [1 .. l -> Seq(C)]
  BY <1>5
<1>7. more \in [1 .. l + 1 -> Seq(C)] /\ more[l + 1] = slice /\ \A i \in 1 .. l : more[i] = texts[i]
  <2>1. \A i \in 1 .. l + 1 : i = l + 1 \/ i \in 1 .. l
    OBVIOUS
  <2>2. \A i \in 1 .. l + 1 : longer[i].text \in Seq(C)
    BY <1>2, <1>3, <1>4, <1>5, <2>1
  <2>3. l + 1 \in 1 .. l + 1 /\ \A i \in 1 .. l : i \in 1 .. l + 1
    OBVIOUS
  <2> QED
    BY <1>3, <1>4, <2>2, <2>3
<1>8. FlattenSeq(texts) = SubSeq(text, 1, from)
  <2>1. DOMAIN parts = 1 .. l
    BY <1>1
  <2> QED
    BY <2>1 DEF Laid
<1>9. DOMAIN longer = 1 .. l + 1
  BY <1>4
<1>10. FlattenSeq(more) = FlattenSeq(texts) \o slice
  <2> HIDE DEF texts, more
  <2> QED
    BY <1>6, <1>7, FlattenAppend
<1>11. SubSeq(text, 1, from) \o slice = SubSeq(text, 1, to)
  BY ConcatAdjacentSubSeq DEF slice, Slice
<1>12. Laid(longer, text, to)
  BY <1>8, <1>9, <1>10, <1>11 DEF Laid
<1>13. Len(SubSeq(text, 1, from)) = from
  OBVIOUS
<1>14. BeginIn(longer, l + 1) = from
  <2>1. [k \in 1 .. (l + 1) - 1 |-> longer[k].text] = texts
    BY <1>4
  <2> QED
    BY <1>8, <1>13, <2>1 DEF BeginIn
<1>15. \A i \in 1 .. l : BeginIn(longer, i) = BeginIn(parts, i)
  <2> SUFFICES ASSUME NEW i \in 1 .. l PROVE BeginIn(longer, i) = BeginIn(parts, i)
    OBVIOUS
  <2>1. [k \in 1 .. i - 1 |-> longer[k].text] = [k \in 1 .. i - 1 |-> parts[k].text]
    BY <1>4
  <2> QED
    BY <2>1 DEF BeginIn
<1>16. Extends(longer, parts)
  BY <1>1, <1>4, <1>15 DEF Extends
<1>17. longer[l + 1].field = field /\ from + Len(longer[l + 1].text) = to
  <2>1. longer[l + 1].field = field /\ longer[l + 1].text = slice
    BY <1>3, <1>4
  <2>2. from \in Int /\ to \in Int
    OBVIOUS
  <2> HIDE DEF texts, more
  <2> QED
    BY <1>2, <2>1, <2>2
<1> QED
  BY <1>1, <1>4, <1>12, <1>14, <1>16, <1>17 DEF longer, part, P

\* The text that leads to a mark is added, if there is any.
LEMMA PlainAdded ==
    ASSUME NEW C, NEW text \in Seq(C), NEW parts \in Seq(Part(C)),
           NEW from \in 0 .. Len(text), NEW to \in from .. Len(text), Laid(parts, text, from)
    PROVE  LET longer == parts \o Plain(text, from, to)
           IN  /\ longer \in Seq(Part(C)) /\ Laid(longer, text, to) /\ Extends(longer, parts)
               /\ \A i \in 1 .. Len(longer) : i \in 1 .. Len(parts) \/ longer[i].field = 0
<1> DEFINE longer == parts \o Plain(text, from, to)
<1>1. CASE from < to
  <2> DEFINE l == Len(parts)
  <2>1. longer = parts \o <<[text |-> Slice(text, from, to), field |-> 0]>>
    BY <1>1 DEF Plain
  <2>2. /\ longer \in Seq(Part(C)) /\ Len(longer) = l + 1
        /\ Laid(longer, text, to) /\ Extends(longer, parts)
        /\ longer[l + 1].field = 0
    <3> HIDE DEF longer
    <3> QED
      BY <2>1, PartAdded
  <2>3. l \in Nat /\ \A i \in 1 .. l + 1 : i \in 1 .. l \/ i = l + 1
    OBVIOUS
  <2> HIDE DEF longer, l
  <2> QED
    BY <2>2, <2>3 DEF longer, l
<1>2. CASE from = to
  <2>1. longer = parts
    <3>1. Plain(text, from, to) = <<>>
      BY <1>2 DEF Plain
    <3> QED
      BY <3>1
  <2> HIDE DEF longer
  <2>2. Extends(longer, parts)
    BY <2>1 DEF Extends
  <2> QED
    BY <1>2, <2>1, <2>2 DEF longer
<1> QED
  BY <1>1, <1>2


-----------------------------------------------------------------------------
EndIn(parts, i) == BeginIn(parts, i) + Len(parts[i].text)

\* The marks of parts stand at their spans; each of the first k marks is among
\* them or meets one; where the last one ends is where the parts end.
MarksStand(parts, s, k, results) ==
    \A i \in 1 .. Len(parts) : parts[i].field # 0 =>
        \E j \in 1 .. k : /\ s[j] = parts[i].field
                          /\ BeginIn(parts, i) = results[s[j]].span.start
                          /\ EndIn(parts, i) = results[s[j]].span.end
Meets(parts, i, f, span) ==
    /\ parts[i].field # 0
    /\ parts[i].field = f \/ (BeginIn(parts, i) < span.end /\ span.start < EndIn(parts, i))
MarksMet(parts, s, k, results) ==
    \A j \in 1 .. k : \E i \in 1 .. Len(parts) : Meets(parts, i, s[j], results[s[j]].span)
EndsWithMark(parts, cursor) ==
    cursor = 0 \/ \E i \in 1 .. Len(parts) : parts[i].field # 0 /\ EndIn(parts, i) = cursor

Loop(shown, C, text, s, k, results) ==
    /\ shown \in Parts(C) /\ shown.cursor <= Len(text)
    /\ Laid(shown.segments, text, shown.cursor)
    /\ MarksStand(shown.segments, s, k, results)
    /\ MarksMet(shown.segments, s, k, results)
    /\ EndsWithMark(shown.segments, shown.cursor)

\* Parts keep their places when others follow.
LEMMA ExtendsKeeps ==
    ASSUME NEW P, NEW longer \in Seq(P), NEW parts \in Seq(P), Extends(longer, parts),
           NEW i \in 1 .. Len(parts)
    PROVE  /\ i \in 1 .. Len(longer) /\ longer[i] = parts[i]
           /\ BeginIn(longer, i) = BeginIn(parts, i) /\ EndIn(longer, i) = EndIn(parts, i)
<1>1. Len(parts) \in Nat /\ Len(longer) \in Nat /\ Len(parts) <= Len(longer)
  BY DEF Extends
<1>2. longer[i] = parts[i] /\ BeginIn(longer, i) = BeginIn(parts, i)
  BY DEF Extends
<1> QED
  BY <1>1, <1>2 DEF EndIn

\* Parts that follow may be followed.
LEMMA ExtendsTwice ==
    ASSUME NEW P, NEW a \in Seq(P), NEW b \in Seq(P), NEW c \in Seq(P),
           Extends(b, a), Extends(c, b)
    PROVE  Extends(c, a)
<1>1. /\ Len(a) \in Nat /\ Len(b) \in Nat /\ Len(c) \in Nat
      /\ Len(a) <= Len(b) /\ Len(b) <= Len(c)
  BY DEF Extends
<1>2. ASSUME NEW i \in 1 .. Len(a) PROVE c[i] = a[i] /\ BeginIn(c, i) = BeginIn(a, i)
  <2>1. i \in 1 .. Len(b)
    BY <1>1
  <2> QED
    BY <2>1 DEF Extends
<1> QED
  BY <1>1, <1>2 DEF Extends

\* Spans that are marked, in the order of their starts.
MarksOf(results, s, n, text) ==
    /\ \A k \in 1 .. n : LET span == results[s[k]].span
                         IN  /\ span.start \in 0 .. Len(text) /\ span.end \in 0 .. Len(text)
                             /\ span.start < span.end
    /\ \A j, k \in 1 .. n : j < k => results[s[j]].span.start <= results[s[k]].span.start

\* A span that is skipped begins within the last mark.
LEMMA Skipped ==
    ASSUME NEW C, NEW text \in Seq(C), NEW results, NEW n \in Nat, NEW s \in [1 .. n -> Nat \ {0}],
           MarksOf(results, s, n, text), NEW k \in 1 .. n, NEW shown,
           Loop(shown, C, text, s, k - 1, results),
           results[s[k]].span.start < shown.cursor
    PROVE  Loop(shown, C, text, s, k, results)
<1> DEFINE g == shown.segments
           span == results[s[k]].span
<1>1. /\ shown \in Parts(C) /\ shown.cursor <= Len(text) /\ Laid(g, text, shown.cursor)
      /\ MarksStand(g, s, k - 1, results) /\ MarksMet(g, s, k - 1, results)
      /\ EndsWithMark(g, shown.cursor)
  BY DEF Loop
<1>2. span.start \in Nat /\ span.end \in Nat /\ span.start < span.end /\ span.start < shown.cursor
  BY DEF MarksOf
<1>3. shown.cursor \in Nat
  BY <1>1 DEF Parts
<1> HIDE DEF g, span
<1>4. PICK i \in 1 .. Len(g) : g[i].field # 0 /\ EndIn(g, i) = shown.cursor
  BY <1>1, <1>2, <1>3 DEF EndsWithMark
<1>5. PICK h \in 1 .. k - 1 : /\ s[h] = g[i].field
                              /\ BeginIn(g, i) = results[s[h]].span.start
  BY <1>1, <1>4 DEF MarksStand
<1>6. h \in 1 .. n /\ h < k
  OBVIOUS
<1>7. results[s[h]].span.start <= span.start /\ results[s[h]].span.start \in Nat
  BY <1>6 DEF MarksOf, span
<1>8. BeginIn(g, i) < span.end /\ span.start < EndIn(g, i)
  BY <1>2, <1>3, <1>4, <1>5, <1>7
<1>9. Meets(g, i, s[k], span)
  BY <1>4, <1>8 DEF Meets
<1>10. MarksStand(g, s, k, results)
  <2>1. \A j \in 1 .. k - 1 : j \in 1 .. k
    OBVIOUS
  <2> QED
    BY <1>1, <2>1 DEF MarksStand
<1>11. MarksMet(g, s, k, results)
  <2>1. \A j \in 1 .. k : j = k \/ j \in 1 .. k - 1
    OBVIOUS
  <2> QED
    BY <1>1, <1>9, <2>1 DEF MarksMet, span
<1> QED
  BY <1>1, <1>10, <1>11 DEF Loop, g

\* A span that is not is marked after the text that leads to it.
LEMMA MarkedNext ==
    ASSUME NEW C, NEW text \in Seq(C), NEW results, NEW n \in Nat, NEW s \in [1 .. n -> Nat \ {0}],
           MarksOf(results, s, n, text), NEW k \in 1 .. n, NEW shown,
           Loop(shown, C, text, s, k - 1, results),
           ~(results[s[k]].span.start < shown.cursor)
    PROVE  Loop(Placed(text, shown, results[s[k]].span, s[k]), C, text, s, k, results)
<1> DEFINE g == shown.segments
           span == results[s[k]].span
           P == Part(C)
<1>1. /\ shown \in Parts(C) /\ shown.cursor <= Len(text) /\ Laid(g, text, shown.cursor)
      /\ MarksStand(g, s, k - 1, results) /\ MarksMet(g, s, k - 1, results)
  BY DEF Loop
<1>2. /\ span.start \in 0 .. Len(text) /\ span.end \in 0 .. Len(text) /\ span.start < span.end
      /\ ~(span.start < shown.cursor) /\ Len(text) \in Nat
  BY DEF MarksOf
<1>3. shown.cursor \in 0 .. Len(text) /\ g \in Seq(P)
  BY <1>1, <1>2 DEF Parts
<1>4. PICK x, from, to, f : /\ x = shown.cursor /\ from = span.start /\ to = span.end
                            /\ f = s[k]
  OBVIOUS
<1> DEFINE led == g \o Plain(text, x, from)
           more == led \o <<[text |-> Slice(text, from, to), field |-> f]>>
           l == Len(led)
<1>5. Placed(text, shown, span, s[k]) = [cursor |-> span.end, segments |-> more]
  BY <1>2, <1>4 DEF Placed
<1> HIDE DEF g, span, P
<1>6. /\ x \in 0 .. Len(text) /\ from \in 0 .. Len(text) /\ from \in x .. Len(text)
      /\ to \in from .. Len(text) /\ f \in Nat
  BY <1>2, <1>3, <1>4
<1>7. /\ led \in Seq(P) /\ Laid(led, text, from) /\ Extends(led, g)
      /\ \A i \in 1 .. l : i \in 1 .. Len(g) \/ led[i].field = 0
  <2>1. Laid(g, text, x)
    BY <1>1, <1>4
  <2> QED
    BY <1>3, <1>6, <2>1, PlainAdded DEF P
<1> HIDE DEF led
<1>8. s[k] \in Nat /\ s[k] # 0
  OBVIOUS
<1>9. /\ more \in Seq(P) /\ Len(more) = l + 1 /\ Laid(more, text, to) /\ Extends(more, led)
       /\ more[l + 1].field = f /\ BeginIn(more, l + 1) = from
       /\ BeginIn(more, l + 1) + Len(more[l + 1].text) = to
  BY <1>6, <1>7, PartAdded DEF P
<1>10. /\ more \in Seq(P) /\ Len(more) = l + 1 /\ Laid(more, text, span.end) /\ Extends(more, led)
      /\ more[l + 1].field = s[k] /\ BeginIn(more, l + 1) = span.start
      /\ BeginIn(more, l + 1) + Len(more[l + 1].text) = span.end
  <2> HIDE DEF more, l
  <2> QED
    BY <1>4, <1>9
<1> HIDE DEF more
<1>11. EndIn(more, l + 1) = span.end
  BY <1>10 DEF EndIn
<1>12. l \in Nat
  BY <1>7
<1> HIDE DEF l
<1>13. Extends(more, g)
  BY <1>3, <1>7, <1>10, ExtendsTwice
<1>14. \A i \in 1 .. Len(g) : /\ i \in 1 .. Len(more) /\ more[i] = g[i]
                              /\ BeginIn(more, i) = BeginIn(g, i) /\ EndIn(more, i) = EndIn(g, i)
  BY <1>3, <1>10, <1>13, ExtendsKeeps
<1>15. ASSUME NEW i \in 1 .. Len(more), more[i].field # 0 PROVE i = l + 1 \/ i \in 1 .. Len(g)
  <2>1. i = l + 1 \/ i \in 1 .. l
    BY <1>10, <1>12
  <2>2. ASSUME i \in 1 .. l PROVE more[i] = led[i]
    BY <1>7, <1>10, <2>2, ExtendsKeeps DEF l
  <2> QED
    BY <1>7, <1>15, <2>1, <2>2
<1>16. l + 1 \in 1 .. Len(more)
  BY <1>10, <1>12
<1>17. MarksStand(more, s, k, results)
  <2> SUFFICES ASSUME NEW i \in 1 .. Len(more), more[i].field # 0
               PROVE  \E j \in 1 .. k : /\ s[j] = more[i].field
                                        /\ BeginIn(more, i) = results[s[j]].span.start
                                        /\ EndIn(more, i) = results[s[j]].span.end
    BY DEF MarksStand
  <2>1. CASE i = l + 1
    <3>1. k \in 1 .. k
      OBVIOUS
    <3> QED
      BY <1>10, <1>11, <2>1, <3>1 DEF span
  <2>2. CASE i \in 1 .. Len(g)
    <3>1. PICK j \in 1 .. k - 1 : /\ s[j] = g[i].field
                                  /\ BeginIn(g, i) = results[s[j]].span.start
                                  /\ EndIn(g, i) = results[s[j]].span.end
      BY <1>1, <1>14, <2>2 DEF MarksStand
    <3>2. j \in 1 .. k
      OBVIOUS
    <3> QED
      BY <1>14, <2>2, <3>1, <3>2
  <2> QED
    BY <1>15, <2>1, <2>2
<1>18. MarksMet(more, s, k, results)
  <2> SUFFICES ASSUME NEW j \in 1 .. k
               PROVE  \E i \in 1 .. Len(more) : Meets(more, i, s[j], results[s[j]].span)
    BY DEF MarksMet
  <2>1. CASE j = k
    BY <1>8, <1>10, <1>16, <2>1 DEF Meets
  <2>2. CASE j # k
    <3>1. j \in 1 .. k - 1
      BY <2>2
    <3>2. PICK i \in 1 .. Len(g) : Meets(g, i, s[j], results[s[j]].span)
      BY <1>1, <3>1 DEF MarksMet
    <3>3. Meets(more, i, s[j], results[s[j]].span)
      BY <1>14, <3>2 DEF Meets
    <3> QED
      BY <1>14, <3>3
  <2> QED
    BY <2>1, <2>2
<1>19. EndsWithMark(more, span.end)
  BY <1>8, <1>10, <1>11, <1>16 DEF EndsWithMark
<1> DEFINE next == [cursor |-> span.end, segments |-> more]
<1>20. /\ next \in Parts(C) /\ next.cursor = span.end /\ next.segments = more
  BY <1>2, <1>10 DEF Parts, P
<1>21. next.cursor <= Len(text)
  BY <1>2, <1>20
<1> HIDE DEF next
<1>22. Loop(next, C, text, s, k, results)
  BY <1>10, <1>17, <1>18, <1>19, <1>20, <1>21 DEF Loop
<1> QED
  BY <1>5, <1>22 DEF next, span


\* Nothing is shown when the loop begins.
LEMMA LoopBegins ==
    ASSUME NEW C, NEW text \in Seq(C), NEW s, NEW results
    PROVE  Loop(Unmarked, C, text, s, 0, results)
<1>1. /\ Unmarked.cursor = 0 /\ Unmarked.segments = <<>>
  BY DEF Unmarked
<1>2. Unmarked \in Parts(C) /\ 0 <= Len(text)
  <2>1. <<>> \in Seq(Part(C)) /\ Len(text) \in Nat
    OBVIOUS
  <2> QED
    BY <2>1 DEF Unmarked, Parts
<1>3. Laid(<<>>, text, 0)
  <2>1. [i \in DOMAIN <<>> |-> <<>>[i].text] = <<>>
    OBVIOUS
  <2>2. SubSeq(text, 1, 0) = <<>>
    BY SubSeqEmpty
  <2> QED
    BY <2>1, <2>2, FlattenEmpty DEF Laid
<1>4. 1 .. Len(<<>>) = {} /\ 1 .. 0 = {}
  OBVIOUS
<1> QED
  BY <1>1, <1>2, <1>3, <1>4 DEF Loop, MarksStand, MarksMet, EndsWithMark

\* The page that segments makes: all of the text, its marks where the verified
\* spans are, and no verified span apart from every mark.
LEMMA PageIs ==
    ASSUME NEW C, NEW text \in Seq(C), NEW n \in Nat, NEW results, DOMAIN results = 1 .. n,
           Spanned(results, n, text)
    PROVE  LET parts == Segments(text, results)
           IN  /\ parts \in Seq(Part(C)) /\ Laid(parts, text, Len(text))
               /\ \A i \in 1 .. Len(parts) : parts[i].field # 0 =>
                     LET span == results[parts[i].field].span
                     IN  BeginIn(parts, i) = span.start /\ EndIn(parts, i) = span.end
               /\ \A f \in 1 .. n : Verified(results[f]) =>
                     \E i \in 1 .. Len(parts) : Meets(parts, i, f, results[f].span)
<1>1. \A i \in 1 .. n : Verified(results[i]) =>
          /\ results[i].span.start \in 0 .. Len(text)
          /\ results[i].span.end \in 0 .. Len(text)
          /\ results[i].span.start < results[i].span.end
  BY DEF Spanned
<1>2. \A i \in 1 .. n : Verified(results[i]) =>
          results[i].span.start \in Int /\ results[i].span.end \in Int
  BY <1>1
<1>3. PICK m \in Nat :
          /\ Sorted(results) \in [1 .. m -> 1 .. n]
          /\ \A k \in 1 .. m : Verified(results[Sorted(results)[k]])
          /\ \A j, k \in 1 .. m : j < k => Before(results, Sorted(results)[j], Sorted(results)[k])
          /\ \A i \in 1 .. n : Verified(results[i]) => \E k \in 1 .. m : Sorted(results)[k] = i
  BY <1>2, SortedLists
<1>4. PICK s \in [1 .. m -> 1 .. n] : s = Sorted(results)
  BY <1>3
<1>5. /\ \A k \in 1 .. m : Verified(results[s[k]])
      /\ \A j, k \in 1 .. m : j < k => Before(results, s[j], s[k])
      /\ \A i \in 1 .. n : Verified(results[i]) => \E k \in 1 .. m : s[k] = i
  BY <1>3, <1>4
<1>6. \A k \in 1 .. m : /\ s[k] \in 1 .. n
                        /\ results[s[k]].span.start \in 0 .. Len(text)
                        /\ results[s[k]].span.end \in 0 .. Len(text)
                        /\ results[s[k]].span.start < results[s[k]].span.end
  BY <1>1, <1>5
<1>7. MarksOf(results, s, m, text)
  <2>1. \A j, k \in 1 .. m : j < k => results[s[j]].span.start <= results[s[k]].span.start
    <3> SUFFICES ASSUME NEW j \in 1 .. m, NEW k \in 1 .. m, j < k
                 PROVE  results[s[j]].span.start <= results[s[k]].span.start
      OBVIOUS
    <3>1. Before(results, s[j], s[k])
      BY <1>5
    <3>2. results[s[j]].span.start \in Int /\ results[s[k]].span.start \in Int
      BY <1>6
    <3>3. results[s[j]].span.start < results[s[k]].span.start \/ results[s[j]].span.start = results[s[k]].span.start
      BY <3>1 DEF Before
    <3> QED
      BY <3>2, <3>3
  <2> QED
    BY <1>6, <2>1 DEF MarksOf
<1>8. s \in [1 .. m -> Nat \ {0}] /\ s \in [1 .. m -> Nat]
  OBVIOUS
<1>9. PICK run \in [0 .. m -> Parts(C)] :
          Places(run, m, text, results, s) /\ run[m] = Shown(text, results)
  <2>1. SpansWithin(text, m, results, s)
    BY <1>6 DEF SpansWithin
  <2>2. HasRun(C, text, m, results, s)
    BY <1>4, <1>8, <2>1, ShownRun
  <2> QED
    BY <2>2 DEF HasRun
<1>10. /\ run[0] = Unmarked
       /\ \A k \in 1 .. m : run[k] = Placed(text, run[k - 1], results[s[k]].span, s[k])
  BY <1>9 DEF Places
<1> DEFINE T == {k \in 0 .. m : Loop(run[k], C, text, s, k, results)}
<1>11. 0 \in T
  <2>1. Loop(run[0], C, text, s, 0, results)
    BY <1>10, LoopBegins
  <2>2. 0 \in 0 .. m
    OBVIOUS
  <2> QED
    BY <2>1, <2>2
<1>12. ASSUME NEW k \in 1 .. m, k - 1 \in T PROVE k \in T
  <2> DEFINE shown == run[k - 1]
             span == results[s[k]].span
  <2>1. Loop(shown, C, text, s, k - 1, results)
    BY <1>12
  <2> HIDE DEF T
  <2>2. CASE span.start < shown.cursor
    <3>1. Loop(shown, C, text, s, k, results)
      BY <1>7, <1>8, <2>1, <2>2, Skipped
    <3>2. run[k] = shown
      BY <1>10, <2>2 DEF Placed
    <3>3. Loop(run[k], C, text, s, k, results)
      BY <3>1, <3>2
    <3> QED
      BY <3>3 DEF T
  <2>3. CASE ~(span.start < shown.cursor)
    <3>1. Loop(Placed(text, shown, span, s[k]), C, text, s, k, results)
      BY <1>7, <1>8, <2>1, <2>3, MarkedNext
    <3>2. run[k] = Placed(text, shown, span, s[k])
      BY <1>10
    <3>3. Loop(run[k], C, text, s, k, results)
      BY <3>1, <3>2
    <3> QED
      BY <3>3 DEF T
  <2> QED
    BY <2>2, <2>3
<1>13. 0 .. m \subseteq T
  <2> HIDE DEF T
  <2> QED
    BY <1>11, <1>12, InductionUpTo
<1>14. PICK shown : shown = Shown(text, results)
  OBVIOUS
<1>15. Loop(shown, C, text, s, m, results)
  BY <1>9, <1>13, <1>14
<1>16. PICK x, whole : x = shown.cursor /\ whole = Len(text)
  OBVIOUS
<1> DEFINE g == shown.segments
           parts == g \o Plain(text, x, whole)
           P == Part(C)
<1>17. /\ shown \in Parts(C) /\ shown.cursor <= Len(text) /\ Laid(g, text, shown.cursor)
       /\ MarksStand(g, s, m, results) /\ MarksMet(g, s, m, results)
  BY <1>15 DEF Loop
<1>18. Segments(text, results) = parts
  BY <1>14, <1>16 DEF Segments
<1>19. /\ g \in Seq(P) /\ x \in 0 .. Len(text) /\ whole \in x .. Len(text) /\ Len(text) \in Nat
  BY <1>16, <1>17 DEF Parts
<1> HIDE DEF g, T
<1>20. /\ parts \in Seq(P) /\ Laid(parts, text, whole) /\ Extends(parts, g)
       /\ \A i \in 1 .. Len(parts) : i \in 1 .. Len(g) \/ parts[i].field = 0
  <2>1. Laid(g, text, x)
    BY <1>16, <1>17
  <2> QED
    BY <1>19, <2>1, PlainAdded
<1> HIDE DEF parts, P
<1>21. /\ parts \in Seq(P) /\ Laid(parts, text, Len(text)) /\ Extends(parts, g)
       /\ \A i \in 1 .. Len(parts) : i \in 1 .. Len(g) \/ parts[i].field = 0
  BY <1>16, <1>20
<1>22. \A i \in 1 .. Len(g) : /\ i \in 1 .. Len(parts) /\ parts[i] = g[i]
                              /\ BeginIn(parts, i) = BeginIn(g, i)
                              /\ EndIn(parts, i) = EndIn(g, i)
  BY <1>19, <1>21, ExtendsKeeps
<1>23. ASSUME NEW i \in 1 .. Len(parts), parts[i].field # 0
       PROVE  LET span == results[parts[i].field].span
              IN  BeginIn(parts, i) = span.start /\ EndIn(parts, i) = span.end
  <2>1. i \in 1 .. Len(g)
    BY <1>21, <1>23
  <2>2. PICK j \in 1 .. m : /\ s[j] = g[i].field
                            /\ BeginIn(g, i) = results[s[j]].span.start
                            /\ EndIn(g, i) = results[s[j]].span.end
    BY <1>17, <1>22, <1>23, <2>1 DEF MarksStand
  <2> QED
    BY <1>22, <2>1, <2>2
<1>24. ASSUME NEW f \in 1 .. n, Verified(results[f])
       PROVE  \E i \in 1 .. Len(parts) : Meets(parts, i, f, results[f].span)
  <2>1. PICK k \in 1 .. m : s[k] = f
    BY <1>5, <1>24
  <2>2. PICK i \in 1 .. Len(g) : Meets(g, i, f, results[f].span)
    BY <1>17, <2>1 DEF MarksMet
  <2>3. Meets(parts, i, f, results[f].span)
    BY <1>22, <2>2 DEF Meets
  <2> QED
    BY <1>22, <2>3
<1> QED
  BY <1>18, <1>21, <1>23, <1>24 DEF P

\* What PageIs says of the page that is shown.
PageHolds(C, n) ==
    /\ source \in Seq(C) /\ page \in Seq(Part(C)) /\ DOMAIN evidence = 1 .. n
    /\ Laid(page, source, Len(source))
    /\ \A i \in 1 .. Len(page) : page[i].field # 0 =>
          LET span == evidence[page[i].field].span
          IN  BeginIn(page, i) = span.start /\ EndIn(page, i) = span.end
    /\ \A f \in 1 .. n : Verified(evidence[f]) =>
          \E i \in 1 .. Len(page) : Meets(page, i, f, evidence[f].span)

\* The page that is shown is that of PageIs.
LEMMA PageOfInv ==
    ASSUME Inv, page # <<>>
    PROVE  \E C : \E n \in Nat : PageHolds(C, n)
<1>1. PICK C : Text = Seq(C)
  BY DEF Text
<1>2. source \in Seq(C) /\ page = Segments(source, evidence) /\ Results(evidence, source)
  BY <1>1 DEF Inv
<1>3. PICK n \in {0, Fields} : DOMAIN evidence = 1 .. n
  BY <1>2 DEF Results
<1>4. n \in Nat
  BY EvidenceAssumption
<1>5. Spanned(evidence, n, source)
  <2> SUFFICES ASSUME NEW i \in 1 .. n, Verified(evidence[i])
               PROVE  /\ evidence[i].span.start \in 0 .. Len(source)
                      /\ evidence[i].span.end \in 0 .. Len(source)
                      /\ evidence[i].span.start < evidence[i].span.end
    BY DEF Spanned
  <2>1. Resolved(evidence[i], source)
    BY <1>2, <1>3 DEF Results
  <2>2. Claim(evidence[i]) \in Seq(C) /\ evidence[i].span = FindSpan(source, Claim(evidence[i]))
    BY <1>1, <2>1, ClaimIsText
  <2> QED
    BY <1>2, <2>2, FindSpanSound DEF Verified
<1> QED
  <2>1. PageHolds(C, n)
    BY <1>2, <1>3, <1>4, <1>5, PageIs DEF PageHolds
  <2> QED
    BY <1>4, <2>1

\* The page shows the source, once and whole.  (segments)
THEOREM PageShowsSource == Spec => []PageIsTheSource
<1>1. Inv => PageIsTheSource
  <2> SUFFICES ASSUME Inv, page # <<>>
               PROVE  FlattenSeq([i \in DOMAIN page |-> page[i].text]) = source
    BY DEF PageIsTheSource
  <2>1. PICK C : source \in Seq(C) /\ Laid(page, source, Len(source))
    BY PageOfInv DEF PageHolds
  <2> QED
    BY <2>1, SubSeqFull DEF Laid
<1> QED
  BY <1>1, InvHolds, PTL

\* Marks stand where the evidence does, and no evidence is apart from every
\* mark.  (segments, detail)
THEOREM MarksAreEvidence == Spec => []EveryMarkIsEvidence
<1>1. Inv => EveryMarkIsEvidence
  <2> SUFFICES ASSUME Inv, page # <<>> PROVE EveryMarkIsEvidence
    BY DEF EveryMarkIsEvidence
  <2>1. PICK C : \E n \in Nat : PageHolds(C, n)
    BY PageOfInv
  <2>2. PICK n \in Nat : PageHolds(C, n)
    BY <2>1
  <2>3. /\ source \in Seq(C) /\ page \in Seq(Part(C)) /\ DOMAIN evidence = 1 .. n
        /\ Laid(page, source, Len(source))
        /\ \A i \in 1 .. Len(page) : page[i].field # 0 =>
              LET span == evidence[page[i].field].span
              IN  BeginIn(page, i) = span.start /\ EndIn(page, i) = span.end
        /\ \A f \in 1 .. n : Verified(evidence[f]) =>
              \E i \in 1 .. Len(page) : Meets(page, i, f, evidence[f].span)
    BY <2>2 DEF PageHolds
  <2>4. DOMAIN page = 1 .. Len(page)
    BY <2>3
  <2>5. \A i : Begin(i) = BeginIn(page, i)
    BY DEF Begin, BeginIn
  <2>6. ASSUME NEW f \in DOMAIN evidence, NEW i \in {i \in DOMAIN page : page[i].field = f}
        PROVE  /\ Begin(i) = evidence[f].span.start
               /\ Begin(i) + Len(page[i].text) = evidence[f].span.end
    <3>1. f # 0 /\ i \in 1 .. Len(page) /\ page[i].field = f
      BY <2>3, <2>4
    <3>2. BeginIn(page, i) = evidence[f].span.start /\ EndIn(page, i) = evidence[f].span.end
      BY <2>3, <3>1
    <3> QED
      BY <2>5, <3>2 DEF EndIn
  <2>7. ASSUME NEW f \in DOMAIN evidence, Verified(evidence[f])
        PROVE  \/ {i \in DOMAIN page : page[i].field = f} # {}
               \/ \E i \in DOMAIN page :
                     /\ page[i].field # 0
                     /\ Begin(i) < evidence[f].span.end
                     /\ evidence[f].span.start < Begin(i) + Len(page[i].text)
    <3>1. PICK i \in 1 .. Len(page) : Meets(page, i, f, evidence[f].span)
      BY <2>3, <2>7
    <3> QED
      BY <2>4, <2>5, <3>1 DEF Meets, EndIn
  <2> QED
    BY <2>6, <2>7 DEF EveryMarkIsEvidence
<1> QED
  BY <1>1, InvHolds, PTL
=============================================================================
