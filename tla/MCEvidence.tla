----------------------------- MODULE MCEvidence -----------------------------
(***************************************************************************)
(* Every short text, and quotes that differ from each other in their white *)
(* space, contain each other or occur nowhere.                             *)
(***************************************************************************)
EXTENDS Evidence

ShortTexts == BoundedSeq({"a", "b", " ", NewLine}, 4)

Quotes == { <<"a">>, <<"b">>, <<"a", "b">>, <<"a", " ", "b">>,
            <<" ", "b", NewLine, " ", "a">>, <<" ">> }

\* A field whose quote is hard to find has a value that is easy to find.
AnyItem == {[quote |-> q, value |-> <<"a">>] : q \in Quotes}
=============================================================================
