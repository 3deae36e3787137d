--------------------------- MODULE MCInvoiceRules ---------------------------
(***************************************************************************)
(* Drafts around every boundary of the rules: lines, sums and totals that  *)
(* are exact, off by the tolerance, and off by one unit less or more;      *)
(* dates with a twelfth and a thirteenth; suppliers and numbers that are   *)
(* the same, blank or nearly so after normalisation.                       *)
(***************************************************************************)
EXTENDS InvoiceRules, TLC

Two == 2        \* a cent is two units
Line(quantity, unit_price, amount) ==
    [quantity |-> quantity, unit_price |-> unit_price, amount |-> amount]

Exact == Line(2, 1, 2)
OneOff == Line(2, 1, 1)
TwoOff == Line(1, 2, 4)
ThreeOff == Line(-1, 1, 2)

LineLists ==
    {<<>>, <<TwoOff>>, <<OneOff, ThreeOff>>, <<ThreeOff, OneOff>>, <<ThreeOff, TwoOff, Exact>>,
     <<Line(-1, 3, -3)>>}

\* A draft that passes, but for what Other says.
Draft(Other) ==
    Other @@ [lines |-> <<Exact>>, subtotal |-> 2, tax |-> 1, total |-> 3,
              date |-> <<>>, verdict |-> "pass", supplier |-> <<"a">>, number |-> <<"1">>]

LineDrafts ==
    {Draft([lines |-> lines, subtotal |-> Sum(Amounts(lines)),
            total |-> Sum(Amounts(lines)) + 1]) : lines \in LineLists}

\* What the subtotal and the total are off by; some drifts cancel out.
Drifts == {<<1, 0>>, <<-2, 0>>, <<-1, 1>>, <<3, -3>>}
SumDrafts ==
    {Draft([subtotal |-> 2 + drift[1], total |-> 3 + drift[1] + drift[2]]) : drift \in Drifts}

DateDrafts == {Draft([date |-> date]) : date \in {<<1, 12>>, <<12, 12>>, <<12, 13>>}}

NameDrafts ==
    {Draft([supplier |-> s, number |-> n]) :
        s \in {<<"A">>, <<"a", "." >>, <<".">>}, n \in {<<"1">>, <<" ", "1">>, <<":", "1">>}}

BoundaryDrafts ==
    LineDrafts \union SumDrafts \union DateDrafts \union NameDrafts
        \union {Draft([number |-> <<" ">>]), Draft([verdict |-> "needs_review"])}

Interchangeable == Permutations(Documents)
=============================================================================
