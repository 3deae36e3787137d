---------------------------- MODULE InvoiceRules ----------------------------
(***************************************************************************)
(* The rules a draft must pass (app/domain/validation.py) and the key that *)
(* says which invoice it is, as the duplicate rule, the repository and the *)
(* destination compute it (business_key, DatabaseCrm).  Requests come one  *)
(* after the other here: DocumentFlow has what happens when they overlap.  *)
(*                                                                         *)
(* Amounts are integers, in a unit small enough for every product of a     *)
(* quantity and a price.  Integers are exact; the code's Decimals are so   *)
(* as long as products and sums have no more than 28 significant digits,   *)
(* which nothing in the schema bounds.  Names are sequences of characters. *)
(* The rules about currency, plausible dates and evidence compare one      *)
(* field with a table: the draft's field verdict is what the worst says.   *)
(***************************************************************************)
EXTENDS Integers, Sequences, FiniteSets, SequencesExt

CONSTANTS
    Documents,
    Drafts,         \* drafts a provider may return
    Tolerance,      \* MONEY_TOLERANCE, in units
    MaxRecords      \* bound on the records of the destination

ASSUME RulesAssumption == Tolerance \in Nat /\ MaxRecords \in Nat

\* InvoiceDraft, as far as the rules read it.
DraftType ==
    [lines : Seq([quantity : Int, unit_price : Int, amount : Int]),
     subtotal : Int, tax : Int, total : Int, date : Seq(Nat),
     supplier : Seq(STRING), number : Seq(STRING),
     verdict : {"pass", "needs_review", "fail"}]

ASSUME DraftsAssumption == Drafts \subseteq DraftType

VARIABLES
    document,   \* of each document: status, draft and the rules' results
    records     \* what the destination holds: document, payload and key

vars == <<document, records>>

Received == [status |-> "received"]
COMMITTED_STATUSES == {"approved", "written"}

-----------------------------------------------------------------------------
Distance(a, b) == IF a < b THEN b - a ELSE a - b

\* Mutant of MoneyOutcome: a drift within the tolerance passes.
MoneyOutcomeLenient(drift) ==
    CASE drift = 0 \/ drift < Tolerance -> "pass"
      [] drift = Tolerance -> "needs_review"
      [] OTHER -> "fail"

\* _money_outcome, of a drift that was computed without rounding.
MoneyOutcome(drift) ==
    CASE drift = 0 -> "pass"
      [] drift # 0 /\ drift <= Tolerance -> "needs_review"
      [] OTHER -> "fail"

Amounts(lines) == [i \in DOMAIN lines |-> lines[i].amount]
Sum(amounts) == FoldLeft(LAMBDA a, b : a + b, 0, amounts)

\* Mutant of Worse: the last line that drifts decides.
WorseLast(worst, outcome) == IF outcome = "pass" THEN worst ELSE outcome

\* The worst outcome so far, after one more line.
Worse(worst, outcome) ==
    IF outcome = "fail" \/ (outcome # "pass" /\ worst = "pass") THEN outcome ELSE worst

\* line_item_arithmetic
LineOutcome(lines) ==
    FoldLeft(LAMBDA worst, line :
                Worse(worst, MoneyOutcome(Distance(line.quantity * line.unit_price, line.amount))),
             "pass", lines)

\* Mutant of Ambiguous: December is not a month.
AmbiguousBefore12(quote) ==
    quote # <<>> /\ quote[1] # quote[2] /\ quote[1] < 12 /\ quote[2] < 12

\* The first two numbers of a date that is quoted in figures; <<>> for others.
Ambiguous(quote) ==
    quote # <<>> /\ quote[1] # quote[2] /\ quote[1] <= 12 /\ quote[2] <= 12

-----------------------------------------------------------------------------
Lowered ==
    [A |-> "a", B |-> "b", C |-> "c", D |-> "d", E |-> "e", F |-> "f",
     G |-> "g", H |-> "h", I |-> "i", J |-> "j", K |-> "k", L |-> "l",
     M |-> "m", N |-> "n", O |-> "o", P |-> "p", Q |-> "q", R |-> "r",
     S |-> "s", T |-> "t", U |-> "u", V |-> "v", W |-> "w", X |-> "x",
     Y |-> "y", Z |-> "z"]
Lower(ch) == IF ch \in DOMAIN Lowered THEN Lowered[ch] ELSE ch

Alphanumeric ==
    {"a", "b", "c", "d", "e", "f", "g", "h", "i", "j", "k", "l", "m", "n",
     "o", "p", "q", "r", "s", "t", "u", "v", "w", "x", "y", "z", "0", "1",
     "2", "3", "4", "5", "6", "7", "8", "9"}

\* Letters and digits are kept, in lower case.
normalize_supplier(name) ==
    FoldLeft(LAMBDA kept, ch : IF Lower(ch) \in Alphanumeric THEN Append(kept, Lower(ch))
                               ELSE kept,
             <<>>, name)

\* str.strip
strip(text) ==
    LET Solid(ch) == ch # " "
    IN  IF \E i \in DOMAIN text : Solid(text[i])
        THEN SubSeq(text, SelectInSeq(text, Solid), SelectLastInSeq(text, Solid)) ELSE <<>>

NoKey == <<>>
business_key(draft) ==
    IF draft.supplier = <<>> \/ draft.number = <<>> THEN NoKey
    ELSE <<normalize_supplier(draft.supplier), strip(draft.number)>>

\* The key DatabaseCrm stores in its unique column.
StoredKey(draft) == business_key(draft)[1] \o <<":">> \o business_key(draft)[2]

\* committed_invoice_numbers, for a document that is not to count itself.
KnownNumbers(doc) ==
    {business_key(document[d].draft) :
        d \in {e \in Documents \ {doc} : document[e].status \in COMMITTED_STATUSES}} \ {NoKey}

\* Mutant of RuleKey: the number is compared as it is printed.
RuleKeyUnstripped(draft) == <<normalize_supplier(draft.supplier), draft.number>>

\* What invoice_number_not_duplicate looks for.
RuleKey(draft) == <<normalize_supplier(draft.supplier), strip(draft.number)>>

PassOr(ok, outcome) == IF ok THEN "pass" ELSE outcome

\* validate: every rule's outcome.
Validate(doc, draft) ==
    [required  |-> PassOr(/\ strip(draft.supplier) # <<>> /\ strip(draft.number) # <<>>
                          /\ draft.lines # <<>>, "fail"),
     lines     |-> LineOutcome(draft.lines),
     subtotal  |-> MoneyOutcome(Distance(Sum(Amounts(draft.lines)), draft.subtotal)),
     total     |-> MoneyOutcome(Distance(draft.subtotal + draft.tax, draft.total)),
     date      |-> PassOr(~Ambiguous(draft.date), "needs_review"),
     duplicate |-> PassOr(RuleKey(draft) \notin KnownNumbers(doc), "fail"),
     credit    |-> PassOr(\/ draft.total >= 0
                          \/ \A i \in DOMAIN draft.lines : draft.lines[i].amount <= 0, "fail"),
     fields    |-> draft.verdict]

\* is_accepted
Accepted(results) == \A rule \in DOMAIN results : results[rule] = "pass"

-----------------------------------------------------------------------------
Init ==
    /\ document = [d \in Documents |-> Received]
    /\ records = {}

Judged(d, draft, accepted) ==
    LET results == Validate(d, draft)
    IN  document' = [document EXCEPT ![d] =
            [draft |-> draft, results |-> results,
             status |-> IF Accepted(results) THEN accepted ELSE "needs_review"]]

\* A document is extracted, perhaps again, and validated.
Extract(d) ==
    /\ \E draft \in Drafts : Judged(d, draft, "validated")
    /\ UNCHANGED records

\* An extraction that fails leaves nothing to validate or approve.
ExtractionFails(d) ==
    /\ document' = [document EXCEPT ![d] = [status |-> "extraction_failed"]]
    /\ UNCHANGED records

\* approve_extraction validates again; a refusal is kept as well.
Approve(d) ==
    /\ document[d].status = "validated"
    /\ Judged(d, document[d].draft, "approved")
    /\ UNCHANGED records

\* The destination has the record already, or stores it under a key that is
\* free.  A write it rejects leaves the document as it is.
Write(d) ==
    LET draft == document[d].draft
        record == [document |-> d, payload |-> draft, key |-> StoredKey(draft)]
    IN  /\ document[d].status = "approved"
        /\ business_key(draft) # NoKey
        /\ record \in records \/ \A r \in records : r.key # record.key
        /\ Cardinality(records \union {record}) <= MaxRecords
        /\ records' = records \union {record}
        /\ document' = [document EXCEPT ![d].status = "written"]

Next == \E d \in Documents : Extract(d) \/ ExtractionFails(d) \/ Approve(d) \/ Write(d)

Spec == Init /\ [][Next]_vars

-----------------------------------------------------------------------------
\* The amounts a draft is made of, without those it states.
Implied(draft) ==
    Sum([i \in DOMAIN draft.lines |-> draft.lines[i].quantity * draft.lines[i].unit_price])
        + draft.tax

\* What is accepted or recorded adds up from its quantities and prices to its
\* total, to the last unit, whatever drifts cancel out in between, as long as
\* its figures stay within the 28 digits in which Decimals are exact.
\* (line_item_arithmetic, line_items_sum_to_subtotal,
\* subtotal_plus_tax_equals_total)
AcceptedAddsUp ==
    /\ \A d \in Documents : document[d].status \in COMMITTED_STATUSES \union {"validated"}
         => Implied(document[d].draft) = document[d].draft.total
    /\ \A r \in records : Implied(r.payload) = r.payload.total

\* However the lines are ordered, the rule fails if one of them is off by more
\* than the tolerance and asks for review if that is not so but one is off.
\* (line_item_arithmetic; docs/architecture.md "one minor unit of rounding
\* drift")
WorstLineDecides ==
    \A d \in Documents : "results" \in DOMAIN document[d] =>
        LET lines == document[d].draft.lines
            drifts == {Distance(lines[i].quantity * lines[i].unit_price, lines[i].amount) :
                       i \in DOMAIN lines}
        IN  /\ document[d].results.lines = "fail" <=> \E x \in drifts : x > Tolerance
            /\ document[d].results.lines = "pass" <=> drifts \subseteq {0}

\* The dates that two numbers may stand for, day first or month first.
Readings(quote) ==
    {date \in {[day |-> quote[1], month |-> quote[2]], [day |-> quote[2], month |-> quote[1]]} :
        date.day \in 1 .. 31 /\ date.month \in 1 .. 12}

\* A date in figures that was accepted can be read in one way only.
\* (issue_date_unambiguous)
AcceptedDateHasOneReading ==
    \A d \in Documents : document[d].status \in COMMITTED_STATUSES \union {"validated"} =>
        LET quote == document[d].draft.date
        IN  quote # <<>> => \A a, b \in Readings(quote) : a = b

\* An approved payload can be recorded: the destination rejects it only for an
\* invoice of the same document, or of one that has been extracted again since
\* it was written and so claims nothing.  The rule, the repository and the
\* destination agree on which invoices are the same, and every accepted draft
\* has a key.  (invoice_number_not_duplicate, business_key, create_record)
ApprovedCanBeRecorded ==
    \A d \in Documents : document[d].status = "approved" =>
        /\ business_key(document[d].draft) # NoKey
        /\ \A r \in records : r.key = StoredKey(document[d].draft) =>
             \/ r.document = d
             \/ document[r.document].status \notin COMMITTED_STATUSES
             \/ document[r.document].draft # r.payload
=============================================================================
