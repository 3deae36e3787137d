------------------------ MODULE RequestLimitsProofs -------------------------
(***************************************************************************)
(* Proofs about RequestLimits, for every limit, window and set of clients. *)
(*                                                                         *)
(* What a client is remembered by is the end of its history (Recalls), in  *)
(* the order of time (InOrder), and what is forgotten has left the window  *)
(* for ever (Forgotten).                                                   *)
(***************************************************************************)
EXTENDS RequestLimits, FiniteSetTheorems, SequenceTheorems, TLAPS

Times == 0 .. MaxTime

Recalls(c) ==
    /\ Len(seen[c]) <= Len(admitted[c])
    /\ \A k \in 1 .. Len(seen[c]) :
         seen[c][k] = admitted[c][Len(admitted[c]) - Len(seen[c]) + k]

InOrder(c) ==
    /\ \A i \in 1 .. Len(admitted[c]) : admitted[c][i] <= now
    /\ \A i, j \in 1 .. Len(admitted[c]) : i <= j => admitted[c][i] <= admitted[c][j]

Forgotten(c) ==
    \A i \in 1 .. Len(admitted[c]) - Len(seen[c]) : admitted[c][i] <= now - Window

History == \A c \in Clients : Recalls(c) /\ InOrder(c) /\ Forgotten(c)

LimitsInv == TypeOK /\ History /\ NoWindowOverflows

-----------------------------------------------------------------------------
(* Popping from the front removes the longest stale prefix. *)
LEMMA Popping ==
    ASSUME NEW hits \in Seq(Times), NEW moment \in Times
    PROVE  \E n \in 0 .. Len(hits) :
             /\ Remembered(hits, moment) = SubSeq(hits, n + 1, Len(hits))
             /\ \A k \in 1 .. n : Stale(hits[k], moment)
             /\ n < Len(hits) => ~Stale(hits[n + 1], moment)
<1> DEFINE popped == {i \in DOMAIN hits : \A k \in 1 .. i : Stale(hits[k], moment)}
           n == Cardinality(popped)
<1>1. /\ Len(hits) \in Nat
      /\ DOMAIN hits = 1 .. Len(hits)
  BY LenProperties
<1>2. /\ IsFiniteSet(popped)
      /\ n \in 0 .. Len(hits)
  <2>1. popped \in SUBSET (1 .. Len(hits))
    BY <1>1
  <2>2. /\ IsFiniteSet(1 .. Len(hits))
        /\ Cardinality(1 .. Len(hits)) = Len(hits)
    BY <1>1, FS_Interval
  <2> HIDE DEF popped
  <2>3. IsFiniteSet(popped) /\ Cardinality(popped) <= Cardinality(1 .. Len(hits))
    BY <2>1, <2>2, FS_Subset
  <2>4. Cardinality(popped) \in Nat
    BY <2>3, FS_CardinalityType
  <2> QED
    BY <1>1, <2>2, <2>3, <2>4
<1>3. \A i \in popped : i <= n
  <2> SUFFICES ASSUME NEW i \in popped PROVE i <= n
    OBVIOUS
  <2>1. i \in Nat /\ 1 .. i \in SUBSET popped
    BY <1>1
  <2>2. Cardinality(1 .. i) <= n
    BY <1>2, <2>1, FS_Subset
  <2> QED
    BY <1>1, <1>2, <2>1, <2>2, FS_Interval
<1>4. popped = 1 .. n
  <2>1. popped \in SUBSET (1 .. n)
    BY <1>1, <1>3
  <2>2. IsFiniteSet(1 .. n) /\ Cardinality(1 .. n) = n
    BY <1>2, FS_Interval
  <2> HIDE DEF popped
  <2> QED
    BY <2>1, <2>2, FS_Subset
<1>5. Remembered(hits, moment) = SubSeq(hits, n + 1, Len(hits))
  BY DEF Remembered
<1>6. \A k \in 1 .. n : Stale(hits[k], moment)
  BY <1>2, <1>4
<1>7. ASSUME n < Len(hits), Stale(hits[n + 1], moment) PROVE FALSE
  <2>1. n + 1 \in DOMAIN hits /\ n + 1 \notin 1 .. n
    BY <1>1, <1>2, <1>7
  <2>2. \A k \in 1 .. n + 1 : Stale(hits[k], moment)
    BY <1>2, <1>6, <1>7
  <2> QED
    BY <1>4, <2>1, <2>2
<1> HIDE DEF n
<1> QED
  BY <1>2, <1>5, <1>6, <1>7

(* Of the history, a client is remembered by the requests of the last        *)
(* window: what precedes them is stale, and the first of them is not.        *)
LEMMA Memory ==
    ASSUME LimitsAssumption, LimitsInv, NEW c \in Clients,
           NEW hits, hits = Remembered(seen[c], now)
    PROVE  /\ hits \in Seq(Times)
           /\ Len(hits) <= Len(seen[c])
           /\ Len(hits) <= Len(admitted[c])
           /\ \A k \in 1 .. Len(hits) :
                hits[k] = admitted[c][Len(admitted[c]) - Len(hits) + k]
           /\ \A i \in 1 .. Len(admitted[c]) - Len(hits) :
                admitted[c][i] <= now - Window
           /\ Len(hits) > 0 =>
                admitted[c][Len(admitted[c]) - Len(hits) + 1] > now - Window
<1>1. /\ now \in Times
      /\ seen[c] \in Seq(Times)
      /\ admitted[c] \in Seq(Times)
      /\ MaxTime \in Nat /\ Window \in Nat
  BY DEF LimitsInv, TypeOK, Times, LimitsAssumption
<1>2. /\ Len(seen[c]) \in Nat
      /\ Len(admitted[c]) \in Nat
      /\ \A k \in 1 .. Len(seen[c]) : seen[c][k] \in Times
      /\ \A k \in 1 .. Len(admitted[c]) : admitted[c][k] \in Times
  BY <1>1, LenProperties, ElementOfSeq
<1>3. PICK n \in 0 .. Len(seen[c]) :
         /\ hits = SubSeq(seen[c], n + 1, Len(seen[c]))
         /\ \A k \in 1 .. n : Stale(seen[c][k], now)
         /\ n < Len(seen[c]) => ~Stale(seen[c][n + 1], now)
  BY <1>1, Popping
<1>4. Recalls(c) /\ Forgotten(c)
  BY DEF LimitsInv, History
<1>5. /\ hits \in Seq(Times)
      /\ Len(hits) = Len(seen[c]) - n
      /\ \A k \in 1 .. Len(hits) : hits[k] = seen[c][n + k]
  <2>1. /\ n + 1 \in Int /\ Len(seen[c]) \in Int
        /\ \A k \in n + 1 .. Len(seen[c]) : seen[c][k] \in Times
    BY <1>2
  <2>2. /\ hits \in Seq(Times)
        /\ Len(hits) = IF n + 1 <= Len(seen[c]) THEN Len(seen[c]) - (n + 1) + 1 ELSE 0
        /\ \A k \in 1 .. Len(seen[c]) - (n + 1) + 1 : hits[k] = seen[c][(n + 1) + k - 1]
    BY <1>3, <2>1, SubSeqProperties
  <2> QED
    BY <1>2, <2>2
<1>6. /\ Len(seen[c]) \in Nat /\ Len(admitted[c]) \in Nat /\ Len(hits) \in Nat
      /\ n \in Nat /\ n <= Len(seen[c])
      /\ Len(hits) = Len(seen[c]) - n
      /\ Len(seen[c]) <= Len(admitted[c])
  <2>1. Len(hits) \in Nat /\ Len(hits) = Len(seen[c]) - n
    BY <1>5, LenProperties
  <2>2. Len(seen[c]) <= Len(admitted[c])
    BY <1>4 DEF Recalls
  <2> QED
    BY <1>2, <2>1, <2>2
<1>7. ASSUME NEW k \in 1 .. Len(hits)
      PROVE  hits[k] = admitted[c][Len(admitted[c]) - Len(hits) + k]
  <2> DEFINE h == Len(hits)  s == Len(seen[c])  a == Len(admitted[c])
  <2>0. h \in Nat /\ s \in Nat /\ a \in Nat /\ n \in Nat /\ h = s - n /\ n <= s /\ k \in 1 .. h
    BY <1>6
  <2> HIDE DEF h, s, a
  <2>1. n + k \in 1 .. s /\ a - s + (n + k) = a - h + k
    BY <2>0
  <2> USE DEF h, s, a
  <2>2. seen[c][n + k] = admitted[c][Len(admitted[c]) - Len(seen[c]) + (n + k)]
    BY <1>4, <2>1 DEF Recalls
  <2> QED
    BY <1>5, <2>1, <2>2
<1>8. ASSUME NEW i \in 1 .. Len(admitted[c]) - Len(hits)
      PROVE  admitted[c][i] <= now - Window
  <2> DEFINE h == Len(hits)  s == Len(seen[c])  a == Len(admitted[c])
  <2>0. /\ h \in Nat /\ s \in Nat /\ a \in Nat /\ n \in Nat
        /\ h = s - n /\ s <= a /\ i \in 1 .. a - h
    BY <1>6
  <2> HIDE DEF h, s, a
  <2>1. CASE i <= a - s
    <3>1. i \in 1 .. a - s
      BY <2>0, <2>1
    <3> QED
      BY <1>4, <3>1 DEF Forgotten, a, s
  <2>2. CASE i > a - s
    <3> DEFINE k == i - (a - s)
    <3>1. /\ k \in 1 .. n /\ k \in 1 .. s
          /\ a - s + k = i
      BY <2>0, <1>6, <2>2
    <3> HIDE DEF k
    <3>2. seen[c][k] = admitted[c][i]
      BY <1>4, <3>1 DEF Recalls, a, s
    <3>3. Stale(seen[c][k], now)
      BY <1>3, <3>1
    <3> QED
      BY <3>2, <3>3 DEF Stale
  <2> QED
    BY <2>0, <2>1, <2>2
<1>9. ASSUME Len(hits) > 0
      PROVE  admitted[c][Len(admitted[c]) - Len(hits) + 1] > now - Window
  <2>1. n < Len(seen[c]) /\ 1 \in 1 .. Len(hits) /\ n + 1 \in 1 .. Len(seen[c])
    BY <1>6, <1>9
  <2>2. hits[1] = seen[c][n + 1]
    BY <1>5, <2>1
  <2>3. hits[1] = admitted[c][Len(admitted[c]) - Len(hits) + 1]
    BY <1>7, <2>1
  <2>4. seen[c][n + 1] \in Times /\ ~Stale(seen[c][n + 1], now)
    BY <1>2, <1>3, <2>1
  <2>5. seen[c][n + 1] > now - Window
    BY <1>1, <2>4 DEF Stale, Times
  <2> QED
    BY <2>2, <2>3, <2>5
<1>10. Len(hits) <= Len(seen[c]) /\ Len(hits) <= Len(admitted[c])
  BY <1>6
<1> QED
  BY <1>5, <1>7, <1>8, <1>9, <1>10

-----------------------------------------------------------------------------
LEMMA InitLimits == LimitsAssumption /\ Init => LimitsInv
<1> SUFFICES ASSUME LimitsAssumption, Init PROVE LimitsInv
  OBVIOUS
<1>1. /\ <<>> \in Seq(0 .. MaxTime)
      /\ Len(<<>>) = 0
      /\ DOMAIN <<>> = {}
  BY EmptySeq, LenProperties
<1>2. TypeOK
  BY <1>1 DEF Init, TypeOK, LimitsAssumption, Answers
<1>3. History
  BY <1>1 DEF Init, History, Recalls, InOrder, Forgotten
<1>4. NoWindowOverflows
  BY <1>1 DEF Init, NoWindowOverflows
<1> QED
  BY <1>2, <1>3, <1>4 DEF LimitsInv

(* What a request leaves behind when the window allows it: a longer history,  *)
(* whose end is remembered, and no window that holds more than Limit.         *)
LEMMA Granted ==
    ASSUME LimitsAssumption, LimitsInv, NEW c \in Clients, Allowed(c)
    PROVE  /\ seen'[c] \in Seq(Times) /\ Len(seen'[c]) <= Limit
           /\ admitted'[c] \in Seq(Times)
           /\ Recalls(c)' /\ InOrder(c)' /\ Forgotten(c)'
           /\ \A i \in DOMAIN admitted'[c] : i + Limit \in DOMAIN admitted'[c]
                => admitted'[c][i + Limit] - admitted'[c][i] >= Window
<1> DEFINE hits == Remembered(seen[c], now)
           h == Len(hits)
           a == Len(admitted[c])
<1>1. /\ now \in Times /\ now \in Int /\ now' = now
      /\ admitted[c] \in Seq(Times)
      /\ Window \in Nat /\ Window > 0 /\ Limit \in Nat
      /\ seen'[c] = Append(hits, now)
      /\ admitted'[c] = Append(admitted[c], now)
  BY DEF LimitsInv, TypeOK, Times, LimitsAssumption, Allowed
<1>2. /\ hits \in Seq(Times)
      /\ h <= a
      /\ \A k \in 1 .. h : hits[k] = admitted[c][a - h + k]
      /\ \A i \in 1 .. a - h : admitted[c][i] <= now - Window
  <2> HIDE DEF hits
  <2>1. hits = Remembered(seen[c], now)
    BY DEF hits
  <2> QED
    BY <2>1, Memory
<1> HIDE DEF hits
<1>3. /\ seen'[c] \in Seq(Times)
      /\ Len(seen'[c]) = h + 1
      /\ \A k \in 1 .. h : seen'[c][k] = hits[k]
      /\ seen'[c][h + 1] = now
  BY <1>1, <1>2, AppendProperties
<1>4. /\ admitted'[c] \in Seq(Times)
      /\ Len(admitted'[c]) = a + 1
      /\ \A k \in 1 .. a : admitted'[c][k] = admitted[c][k]
      /\ admitted'[c][a + 1] = now
  BY <1>1, AppendProperties
<1>5. /\ h \in Nat /\ a \in Nat
      /\ \A k \in 1 .. a : admitted[c][k] \in Int
      /\ DOMAIN admitted[c] = 1 .. a /\ DOMAIN admitted'[c] = 1 .. a + 1
  <2>1. h \in Nat /\ a \in Nat /\ DOMAIN admitted[c] = 1 .. a
    BY <1>1, <1>2, LenProperties
  <2>2. DOMAIN admitted'[c] = 1 .. a + 1
    BY <1>4, LenProperties
  <2>3. \A k \in 1 .. a : admitted[c][k] \in Int
    BY <1>1, ElementOfSeq DEF Times
  <2> QED
    BY <2>1, <2>2, <2>3
<1>6. h < Limit
  BY <1>1, <1>5 DEF Allowed, Exhausted, hits
<1>7. InOrder(c)
  BY DEF LimitsInv, History
<1> HIDE DEF h, a
<1>8. Recalls(c)'
  <2>1. h + 1 <= a + 1 /\ (a + 1) - (h + 1) = a - h
    BY <1>2, <1>5
  <2>2. ASSUME NEW k \in 1 .. h + 1
        PROVE  seen'[c][k] = admitted'[c][a - h + k]
    <3>1. CASE k = h + 1
      <4>1. a - h + k = a + 1
        BY <1>5, <3>1
      <4> QED
        BY <1>3, <1>4, <3>1, <4>1
    <3>2. CASE k # h + 1
      <4>1. k \in 1 .. h /\ a - h + k \in 1 .. a
        BY <1>2, <1>5, <3>2
      <4> QED
        BY <1>2, <1>3, <1>4, <4>1
    <3> QED
      BY <3>1, <3>2
  <2> QED
    BY <1>3, <1>4, <2>1, <2>2 DEF Recalls
<1>9. InOrder(c)'
  <2>1. ASSUME NEW i \in 1 .. a + 1 PROVE admitted'[c][i] <= now
    <3>1. CASE i = a + 1
      BY <1>1, <1>4, <3>1
    <3>2. CASE i # a + 1
      <4>1. i \in 1 .. a
        BY <1>5, <3>2
      <4> QED
        BY <1>4, <1>7, <4>1 DEF InOrder, a
    <3> QED
      BY <3>1, <3>2
  <2>2. ASSUME NEW i \in 1 .. a + 1, NEW j \in 1 .. a + 1, i <= j
        PROVE  admitted'[c][i] <= admitted'[c][j]
    <3>1. CASE j = a + 1
      BY <1>4, <2>1, <3>1
    <3>2. CASE j # a + 1
      <4>1. i \in 1 .. a /\ j \in 1 .. a
        BY <1>5, <2>2, <3>2
      <4> QED
        BY <1>4, <1>7, <2>2, <4>1 DEF InOrder, a
    <3> QED
      BY <3>1, <3>2
  <2> QED
    BY <1>1, <1>4, <2>1, <2>2 DEF InOrder
<1>10. Forgotten(c)'
  <2>1. (a + 1) - (h + 1) = a - h
    BY <1>5
  <2>2. ASSUME NEW i \in 1 .. a - h PROVE admitted'[c][i] <= now - Window
    <3>1. i \in 1 .. a
      BY <1>2, <1>5
    <3> QED
      BY <1>2, <1>4, <3>1
  <2> QED
    BY <1>1, <1>3, <1>4, <2>1, <2>2 DEF Forgotten
<1>11. ASSUME NEW i \in 1 .. a + 1, i + Limit \in 1 .. a + 1
       PROVE  admitted'[c][i + Limit] - admitted'[c][i] >= Window
  <2>1. i \in 1 .. a
    BY <1>1, <1>5, <1>6, <1>11
  <2>2. CASE i + Limit = a + 1
    <3>1. i \in 1 .. a - h
      BY <1>1, <1>5, <1>6, <2>1, <2>2
    <3>2. /\ admitted'[c][i + Limit] = now
          /\ admitted'[c][i] = admitted[c][i]
          /\ admitted[c][i] \in Int
          /\ admitted[c][i] <= now - Window
      BY <1>2, <1>4, <1>5, <2>1, <2>2, <3>1
    <3> QED
      BY <1>1, <3>2
  <2>3. CASE i + Limit # a + 1
    <3>1. i + Limit \in 1 .. a
      BY <1>1, <1>5, <1>11, <2>3
    <3>2. admitted[c][i + Limit] - admitted[c][i] >= Window
      BY <1>5, <2>1, <3>1 DEF LimitsInv, NoWindowOverflows
    <3> QED
      BY <1>4, <2>1, <3>1, <3>2
  <2> QED
    BY <2>2, <2>3
<1>12. Len(seen'[c]) <= Limit
  BY <1>1, <1>3, <1>5, <1>6
<1> QED
  BY <1>3, <1>4, <1>5, <1>8, <1>9, <1>10, <1>11, <1>12

(* A refusal only forgets what is stale. *)
LEMMA TurnedDown ==
    ASSUME LimitsAssumption, LimitsInv, NEW c \in Clients, Refused(c)
    PROVE  /\ seen'[c] \in Seq(Times) /\ Len(seen'[c]) <= Limit
           /\ Recalls(c)' /\ InOrder(c)' /\ Forgotten(c)'
<1>1. /\ now' = now /\ admitted' = admitted
      /\ seen'[c] = Remembered(seen[c], now)
      /\ Len(seen[c]) <= Limit
      /\ seen[c] \in Seq(Times)
  BY DEF LimitsInv, TypeOK, Times, Refused
<1>2. /\ seen'[c] \in Seq(Times)
      /\ Len(seen'[c]) <= Len(seen[c])
      /\ Len(seen'[c]) <= Len(admitted[c])
      /\ \A k \in 1 .. Len(seen'[c]) :
           seen'[c][k] = admitted[c][Len(admitted[c]) - Len(seen'[c]) + k]
      /\ \A i \in 1 .. Len(admitted[c]) - Len(seen'[c]) : admitted[c][i] <= now - Window
  BY <1>1, Memory
<1>3. Recalls(c)' /\ Forgotten(c)'
  BY <1>1, <1>2 DEF Recalls, Forgotten
<1>4. InOrder(c)'
  BY <1>1 DEF LimitsInv, History, InOrder
<1>5. Len(seen'[c]) <= Limit
  <2>1. Len(seen'[c]) \in Nat /\ Len(seen[c]) \in Nat /\ Limit \in Nat
    BY <1>1, <1>2, LenProperties DEF LimitsAssumption
  <2> QED
    BY <1>1, <1>2, <2>1
<1> QED
  BY <1>2, <1>3, <1>4, <1>5

(* Nothing that happens to one client reaches another. *)
LEMMA Others ==
    ASSUME LimitsInv, NEW c \in Clients, UNCHANGED now,
           seen'[c] = seen[c], admitted'[c] = admitted[c]
    PROVE  /\ seen'[c] \in Seq(Times) /\ Len(seen'[c]) <= Limit
           /\ admitted'[c] \in Seq(Times)
           /\ Recalls(c)' /\ InOrder(c)' /\ Forgotten(c)'
           /\ \A i \in DOMAIN admitted'[c] : i + Limit \in DOMAIN admitted'[c]
                => admitted'[c][i + Limit] - admitted'[c][i] >= Window
BY DEF LimitsInv, TypeOK, Times, History, NoWindowOverflows, Recalls, InOrder, Forgotten

(* Time orders what has happened and makes nothing fresh again. *)
LEMMA TimePasses == LimitsAssumption /\ LimitsInv /\ Tick => LimitsInv'
<1> SUFFICES ASSUME LimitsAssumption, LimitsInv, Tick PROVE LimitsInv'
  OBVIOUS
<1>1. /\ now \in Nat /\ now' = now + 1 /\ now' \in 0 .. MaxTime
      /\ Window \in Nat
      /\ UNCHANGED <<seen, admitted, answer>>
  BY DEF LimitsInv, TypeOK, Tick, LimitsAssumption
<1>2. TypeOK'
  BY <1>1 DEF LimitsInv, TypeOK
<1>3. ASSUME NEW c \in Clients PROVE Recalls(c)' /\ InOrder(c)' /\ Forgotten(c)'
  <2>1. /\ Recalls(c) /\ InOrder(c) /\ Forgotten(c)
        /\ admitted[c] \in Seq(Times)
    BY DEF LimitsInv, History, TypeOK, Times
  <2>2. \A i \in 1 .. Len(admitted[c]) : admitted[c][i] \in Int
    BY <2>1, ElementOfSeq DEF Times
  <2>3. \A i \in 1 .. Len(admitted[c]) : admitted[c][i] <= now'
    BY <1>1, <2>1, <2>2 DEF InOrder
  <2>4. ASSUME NEW i \in 1 .. Len(admitted[c]) - Len(seen[c])
        PROVE  admitted[c][i] <= now' - Window
    <3>1. Len(admitted[c]) \in Nat /\ Len(seen[c]) \in Nat
      BY <2>1, LenProperties DEF LimitsInv, TypeOK
    <3>2. i \in 1 .. Len(admitted[c])
      BY <3>1
    <3>3. admitted[c][i] \in Int /\ admitted[c][i] <= now - Window
      BY <2>1, <2>2, <3>2 DEF Forgotten
    <3> QED
      BY <1>1, <3>3
  <2> QED
    BY <1>1, <2>1, <2>3, <2>4 DEF Recalls, InOrder, Forgotten
<1>4. NoWindowOverflows'
  BY <1>1 DEF LimitsInv, NoWindowOverflows
<1> QED
  BY <1>2, <1>3, <1>4 DEF LimitsInv, History

LEMMA NextLimits == LimitsAssumption /\ LimitsInv /\ [Next]_vars => LimitsInv'
<1> SUFFICES ASSUME LimitsAssumption, LimitsInv, [Next]_vars PROVE LimitsInv'
  OBVIOUS
<1> DEFINE Kept(c) ==
      /\ seen'[c] \in Seq(Times) /\ Len(seen'[c]) <= Limit
      /\ admitted'[c] \in Seq(Times)
      /\ Recalls(c)' /\ InOrder(c)' /\ Forgotten(c)'
      /\ \A i \in DOMAIN admitted'[c] : i + Limit \in DOMAIN admitted'[c]
           => admitted'[c][i + Limit] - admitted'[c][i] >= Window
<1>1. ASSUME \A c \in Clients : Kept(c), UNCHANGED now,
             seen' \in [Clients -> Seq(Times)], admitted' \in [Clients -> Seq(Times)],
             answer' \in [Clients -> Answers]
      PROVE  LimitsInv'
  <2>1. TypeOK'
    BY <1>1 DEF LimitsInv, TypeOK, Times
  <2>2. History' /\ NoWindowOverflows'
    BY <1>1 DEF History, NoWindowOverflows
  <2> QED
    BY <2>1, <2>2 DEF LimitsInv
<1>2. /\ seen \in [Clients -> Seq(Times)] /\ admitted \in [Clients -> Seq(Times)]
      /\ answer \in [Clients -> Answers]
  BY DEF LimitsInv, TypeOK, Times
<1>3. ASSUME NEW c \in Clients, Allowed(c) PROVE LimitsInv'
  <2>1. /\ seen' = [seen EXCEPT ![c] = seen'[c]]
        /\ admitted' = [admitted EXCEPT ![c] = admitted'[c]]
        /\ answer' \in [Clients -> Answers] /\ now' = now
    BY <1>2, <1>3 DEF Allowed, Answers
  <2>2. Kept(c)
    BY <1>3, Granted
  <2>3. ASSUME NEW d \in Clients, d # c PROVE Kept(d)
    <3>1. seen'[d] = seen[d] /\ admitted'[d] = admitted[d]
      BY <1>2, <2>1, <2>3
    <3> QED
      BY <2>1, <3>1, Others
  <2>4. seen' \in [Clients -> Seq(Times)] /\ admitted' \in [Clients -> Seq(Times)]
    BY <1>2, <2>1, <2>2
  <2>5. \A d \in Clients : Kept(d)
    BY <2>2, <2>3
  <2> QED
    BY <1>1, <2>1, <2>4, <2>5
<1>4. ASSUME NEW c \in Clients, Refused(c) PROVE LimitsInv'
  <2>1. /\ seen' = [seen EXCEPT ![c] = seen'[c]]
        /\ admitted' = admitted
        /\ answer' \in [Clients -> Answers] /\ now' = now
    BY <1>2, <1>4 DEF Refused, Answers
  <2>2. Kept(c)
    <3>1. /\ admitted'[c] \in Seq(Times)
          /\ \A i \in DOMAIN admitted'[c] : i + Limit \in DOMAIN admitted'[c]
               => admitted'[c][i + Limit] - admitted'[c][i] >= Window
      BY <1>2, <2>1 DEF LimitsInv, NoWindowOverflows
    <3> QED
      BY <1>4, <3>1, TurnedDown
  <2>3. ASSUME NEW d \in Clients, d # c PROVE Kept(d)
    <3>1. seen'[d] = seen[d] /\ admitted'[d] = admitted[d]
      BY <1>2, <2>1, <2>3
    <3> QED
      BY <2>1, <3>1, Others
  <2>4. seen' \in [Clients -> Seq(Times)] /\ admitted' \in [Clients -> Seq(Times)]
    BY <1>2, <2>1, <2>2
  <2>5. \A d \in Clients : Kept(d)
    BY <2>2, <2>3
  <2> QED
    BY <1>1, <2>1, <2>4, <2>5
<1>5. ASSUME UNCHANGED <<now, seen, admitted>>, answer' \in [Clients -> Answers]
      PROVE  LimitsInv'
  <2>1. \A d \in Clients : Kept(d)
    BY <1>5, Others
  <2> QED
    BY <1>1, <1>2, <1>5, <2>1
<1>6. ASSUME NEW c \in Clients, TooLarge(c) \/ Unguarded(c) PROVE LimitsInv'
  BY <1>2, <1>5, <1>6 DEF TooLarge, Unguarded, Answers
<1>7. CASE UNCHANGED vars
  BY <1>2, <1>5, <1>7 DEF vars
<1> QED
  BY <1>3, <1>4, <1>6, <1>7, TimePasses DEF Next

-----------------------------------------------------------------------------
(* The invariant holds in every behaviour. *)
THEOREM LimitsInvariant == Spec => []LimitsInv
<1>1. Init => LimitsInv
  BY InitLimits, LimitsAssumption
<1>2. LimitsInv /\ [Next]_vars => LimitsInv'
  BY NextLimits, LimitsAssumption
<1> QED
  BY <1>1, <1>2, PTL DEF Spec

(* Every variable keeps its type, and SlidingWindow never remembers more than *)
(* Limit hits of a client.                                                    *)
THEOREM MemoryIsBounded == Spec => []TypeOK
<1>1. LimitsInv => TypeOK
  BY DEF LimitsInv
<1> QED
  BY <1>1, LimitsInvariant, PTL

(* SlidingWindow lets no more than Limit requests of a client into any window *)
(* of time.                                                                   *)
THEOREM WindowsHold == Spec => []NoWindowOverflows
<1>1. LimitsInv => NoWindowOverflows
  BY DEF LimitsInv
<1> QED
  BY <1>1, LimitsInvariant, PTL

(* SlidingWindow refuses a client only while its last window is full. *)
THEOREM RefusalsAreDue == Spec => []OnlyFullWindowsRefuse
<1>1. LimitsInv => OnlyFullWindowsRefuse
  <2> SUFFICES ASSUME LimitsInv, NEW c \in Clients, Exhausted(c), Limit # 0
               PROVE  Full(c)
    BY DEF OnlyFullWindowsRefuse, Full
  <2> DEFINE hits == Remembered(seen[c], now)
             h == Len(hits)
             a == Len(admitted[c])
  <2>1. /\ hits \in Seq(Times) /\ admitted[c] \in Seq(Times)
        /\ now \in Int /\ Window \in Nat /\ Limit \in Nat
    BY Memory, LimitsAssumption DEF LimitsInv, TypeOK, Times, LimitsAssumption
  <2>2. h \in Nat /\ a \in Nat /\ \A i \in 1 .. a : admitted[c][i] \in Int
    <3>1. h \in Nat /\ a \in Nat
      BY <2>1, LenProperties
    <3>2. \A i \in 1 .. a : admitted[c][i] \in Times
      BY <2>1, ElementOfSeq
    <3> QED
      BY <3>1, <3>2 DEF Times
  <2>3. h <= a /\ (h > 0 => admitted[c][a - h + 1] > now - Window)
    BY Memory, LimitsAssumption
  <2>4. h >= Limit
    BY DEF Exhausted
  <2> HIDE DEF h
  <2>5. /\ a >= Limit /\ h > 0
        /\ a - h + 1 \in 1 .. a /\ a - Limit + 1 \in 1 .. a
        /\ a - h + 1 <= a - Limit + 1
    BY <2>1, <2>2, <2>3, <2>4
  <2>6. admitted[c][a - h + 1] <= admitted[c][a - Limit + 1]
    BY <2>5 DEF LimitsInv, History, InOrder
  <2>7. now - admitted[c][a - Limit + 1] < Window
    <3> DEFINE x == admitted[c][a - h + 1]
               y == admitted[c][a - Limit + 1]
    <3>1. x \in Int /\ y \in Int /\ x <= y /\ x > now - Window
      BY <2>2, <2>3, <2>5, <2>6
    <3> HIDE DEF x, y
    <3>2. now - y < Window
      BY <2>1, <3>1
    <3> QED
      BY <3>2 DEF y
  <2> QED
    BY <2>5, <2>7 DEF Full
<1> QED
  BY <1>1, LimitsInvariant, PTL
=============================================================================
