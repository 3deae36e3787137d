------------------------------ MODULE Evidence ------------------------------
(***************************************************************************)
(* Where a quote stands in the text of a document, and the page that marks *)
(* it (app/domain/evidence.py, app/api/highlight.py, as extract_document   *)
(* and the review screen use them).                                        *)
(*                                                                         *)
(* A text is a sequence of characters.  Spans count from 0 and exclude     *)
(* their end, as the code's do; Slice takes such a span from a sequence.   *)
(***************************************************************************)
EXTENDS Integers, Sequences, FiniteSets, FiniteSetsExt, SequencesExt

CONSTANTS
    Sources,    \* texts of documents
    Items,      \* what a provider may say of a field: its value and its quote
    Fields      \* number of evidenced fields of a draft

Text == Seq(STRING)

ASSUME EvidenceAssumption ==
    /\ Fields \in Nat \ {0}
    /\ Sources \subseteq Text
    /\ Items \subseteq [quote : Text, value : Text]

VARIABLES
    source,     \* document.source_text
    evidence,   \* extraction.evidence; empty before the extraction
    page        \* the segments of the review page last shown

vars == <<source, evidence, page>>

NewLine == "\n"
Blank(ch) == ch \in {" ", NewLine}

Slice(text, start, end) == SubSeq(text, start + 1, end)

\* Positions that _collapse_whitespace keeps: every character, and of a run
\* of blanks the first, unless the text begins with it.
Kept(text, i) == ~Blank(text[i]) \/ (i > 1 /\ ~Blank(text[i - 1]))
Offsets(text) ==
    LET upTo[i \in 0 .. Len(text)] ==
            IF i = 0 THEN <<>>
            ELSE IF Kept(text, i) THEN Append(upTo[i - 1], i) ELSE upTo[i - 1]
    IN  upTo[Len(text)]

Collapsed(text) ==
    [k \in DOMAIN Offsets(text) |->
        LET ch == text[Offsets(text)[k]] IN IF Blank(ch) THEN " " ELSE ch]

\* White space runs are one blank, and none is left at the ends.
Normalized(quote) ==
    LET text == Collapsed(quote)
    IN  IF text # <<>> /\ Last(text) = " " THEN Front(text) ELSE text

NoSpan == [start |-> -1, end |-> -1, line |-> 0]

\* Where text.find looks, and finds, from left to right.
Hits(text, part) ==
    {i \in 1 .. Len(text) - Len(part) + 1 : SubSeq(text, i, i + Len(part) - 1) = part}

Lines(text, start) == 1 + Cardinality({i \in 1 .. start : text[i] = NewLine})

\* Mutants of FindSpan: the quote's own length is taken for that of the span; the
\* quote is looked for as it is.
FindSpanUnmapped(text, quote) ==
    LET wanted == Normalized(quote)
        hits == Hits(Collapsed(text), wanted)
    IN  IF wanted = <<>> \/ hits = {} THEN NoSpan
        ELSE LET start == Offsets(text)[Min(hits)] - 1
             IN  [start |-> start, end |-> start + Len(wanted),
                  line |-> Lines(text, start)]
FindSpanVerbatim(text, quote) ==
    IF Normalized(quote) = <<>> \/ Hits(text, quote) = {} THEN NoSpan
    ELSE LET start == Min(Hits(text, quote)) - 1
         IN  [start |-> start, end |-> start + Len(quote), line |-> Lines(text, start)]

\* find_span.
FindSpan(text, quote) ==
    LET wanted == Normalized(quote)
        hits == Hits(Collapsed(text), wanted)
    IN  IF wanted = <<>> \/ hits = {} THEN NoSpan
        ELSE LET at == Min(hits)
                 start == Offsets(text)[at] - 1
             IN  [start |-> start,
                  end   |-> Offsets(text)[at + Len(wanted) - 1],
                  line  |-> Lines(text, start)]

\* _resolve: the quote, or the value if that may stand in for it.
Resolve(item, text, fallback) ==
    LET span == FindSpan(text, item.quote)
        other == FindSpan(text, item.value)
    IN  IF span # NoSpan \/ ~fallback
        THEN [item |-> item, span |-> span, derived |-> FALSE]
        ELSE [item |-> item, span |-> other, derived |-> other # NoSpan]

Verified(result) == result.span # NoSpan

-----------------------------------------------------------------------------
Plain(text, from, to) ==
    IF from < to THEN <<[text |-> Slice(text, from, to), field |-> 0]>> ELSE <<>>

\* Mutants of Placed: overlaps are marked again; touching spans are skipped.
PlacedAgain(text, shown, span, field) ==
    [cursor   |-> span.end,
     segments |-> shown.segments \o Plain(text, shown.cursor, span.start)
                    \o <<[text |-> Slice(text, span.start, span.end), field |-> field]>>]
PlacedApart(text, shown, span, field) ==
    IF span.start <= shown.cursor /\ shown.cursor > 0 THEN shown
    ELSE [cursor   |-> span.end,
          segments |-> shown.segments \o Plain(text, shown.cursor, span.start)
                    \o <<[text |-> Slice(text, span.start, span.end), field |-> field]>>]

\* One round of the loop in segments: a span that begins before the cursor is
\* skipped, another is marked after the text that leads to it.
Placed(text, shown, span, field) ==
    IF span.start < shown.cursor THEN shown
    ELSE [cursor   |-> span.end,
          segments |-> shown.segments \o Plain(text, shown.cursor, span.start)
                    \o <<[text |-> Slice(text, span.start, span.end), field |-> field]>>]

\* sorted by start and, from one start, the longest first; ties as they come.
Before(results, i, j) ==
    LET a == results[i].span
        b == results[j].span
    IN  \/ a.start < b.start
        \/ a.start = b.start /\ a.end > b.end
        \/ a.start = b.start /\ a.end = b.end /\ i < j

Marked(results) == {i \in DOMAIN results : Verified(results[i])}
Sorted(results) ==
    CHOOSE marks \in [1 .. Cardinality(Marked(results)) -> Marked(results)] :
        \A i, j \in DOMAIN marks : i < j => Before(results, marks[i], marks[j])

Unmarked == [cursor |-> 0, segments |-> <<>>]
Shown(text, results) ==
    FoldLeft(LAMBDA shown, i : Placed(text, shown, results[i].span, i), Unmarked, Sorted(results))

\* segments.
Segments(text, results) ==
    LET shown == Shown(text, results)
    IN  shown.segments \o Plain(text, shown.cursor, Len(text))

-----------------------------------------------------------------------------
Init ==
    /\ source \in Sources
    /\ evidence = <<>>
    /\ page = <<>>

\* The provider's draft is checked against the source and stored.  The page
\* is made of the latest extraction alone, so one is enough.
Extract(draft, fallback) ==
    /\ evidence = <<>>
    /\ evidence' = [i \in DOMAIN draft |-> Resolve(draft[i], source, fallback)]
    /\ page' = <<>>
    /\ UNCHANGED source

\* The review page is shown.
Show ==
    /\ page' = Segments(source, evidence)
    /\ UNCHANGED <<source, evidence>>

Next ==
    \/ \E draft \in [1 .. Fields -> Items], fallback \in BOOLEAN : Extract(draft, fallback)
    \/ Show

Spec == Init /\ [][Next]_vars

-----------------------------------------------------------------------------
\* What a result claims to have found.
Claim(result) == IF result.derived THEN result.item.value ELSE result.item.quote

ReadsAs(text, quote) == Normalized(text) = Normalized(quote)

\* The characters a verified span covers read as the quote, whatever white
\* space lies in and around them, and the span begins and ends with one that
\* is not blank.  (find_span; docs/architecture.md "The evidence contract")
EvidenceIsInTheSource ==
    \A i \in DOMAIN evidence : Verified(evidence[i]) =>
        LET span == evidence[i].span
            text == Slice(source, span.start, span.end)
        IN  /\ ReadsAs(text, Claim(evidence[i]))
            /\ ~Blank(Head(text)) /\ ~Blank(Last(text))

\* Evidence is rejected only if the text holds it nowhere, and the span is
\* the first place that holds it; the value stands in only for a quote that
\* cannot be found.  (find_span, _resolve)
NoEvidenceIsMissed ==
    \A i \in DOMAIN evidence :
        LET span == evidence[i].span
            Quoted(quote, limit) ==
                \E start \in 0 .. limit - 1 : \E end \in start + 1 .. limit :
                    Normalized(quote) # <<>> /\ ReadsAs(Slice(source, start, end), quote)
        IN  /\ ~Quoted(Claim(evidence[i]),
                       IF Verified(evidence[i]) THEN span.end - 1 ELSE Len(source))
            /\ evidence[i].derived => ~Quoted(evidence[i].item.quote, Len(source))

\* The page is the source, nothing twice and nothing left out, however the
\* spans overlap, nest and touch.  (segments; docs/architecture.md:269 "a
\* highlighter that duplicates document text is worse than no screen at all")
PageIsTheSource ==
    page # <<>> => FlattenSeq([i \in DOMAIN page |-> page[i].text]) = source

\* Where segment i of the page begins.
Begin(i) == Len(FlattenSeq([k \in 1 .. i - 1 |-> page[k].text]))

\* A mark stands where its field's evidence stands, and evidence without a
\* mark of its own overlaps one that has: the reviewer sees all of it that
\* can be shown.  (segments, detail)
EveryMarkIsEvidence ==
    page # <<>> =>
        LET Marks(f) == {i \in DOMAIN page : page[i].field = f}
            Stands(i, span) == Begin(i) = span.start /\ Begin(i) + Len(page[i].text) = span.end
            Touched(i, span) == Begin(i) < span.end /\ span.start < Begin(i) + Len(page[i].text)
        IN  /\ \A f \in DOMAIN evidence : \A i \in Marks(f) : Stands(i, evidence[f].span)
            /\ \A f \in DOMAIN evidence : Verified(evidence[f]) =>
                  \/ Marks(f) # {}
                  \/ \E i \in DOMAIN page : page[i].field # 0 /\ Touched(i, evidence[f].span)
=============================================================================
