--------------------------- MODULE MCDocumentFlow ---------------------------
(***************************************************************************)
(* Instances of DocumentFlow for the model checker.                        *)
(***************************************************************************)
EXTENDS DocumentFlow, TLC

\* Every payload is of the same invoice: versions and copies of it.
SameInvoice == [h \in Hashes |-> "INV-1"]

\* Sessions are alike, and so are documents.
Interchangeable == Permutations(Docs) \cup Permutations(Sessions)
=============================================================================
