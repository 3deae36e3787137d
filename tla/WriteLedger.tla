----------------------------- MODULE WriteLedger -----------------------------
(***************************************************************************)
(* What the approval gate promises the people who approve (docs/           *)
(* architecture.md "Approval" and "Writing"), without documents, sessions, *)
(* rows or retries: a payload is recorded by the destination only after a  *)
(* person approved it, once; an invoice once, whatever its payloads; and a *)
(* payload that is shown as written is recorded.                           *)
(***************************************************************************)
CONSTANTS
    Keys,       \* a document and a payload of it
    Acceptable, \* the keys a person may approve
    Invoice,    \* the invoice each key is about
    Exclusive   \* does the destination hold one record of an invoice?

VARIABLES
    approved,   \* the keys that were ever approved
    recorded,   \* the keys the destination holds a record of
    shown       \* the keys whose document is shown as written

vars == <<approved, recorded, shown>>

Init == approved = {} /\ recorded = {} /\ shown = {}

\* The document of an approved key is no longer shown as written.
Approve(k) ==
    /\ k \in Acceptable
    /\ approved' = approved \cup {k}
    /\ shown' \subseteq shown
    /\ UNCHANGED recorded

Record(k) ==
    /\ k \in approved \ recorded
    /\ Exclusive => \A other \in recorded : Invoice[other] # Invoice[k]
    /\ recorded' = recorded \cup {k}
    /\ shown' \in {shown, shown \cup {k}}
    /\ UNCHANGED approved

Show(k) ==
    /\ k \in recorded
    /\ shown' = shown \cup {k}
    /\ UNCHANGED <<approved, recorded>>

\* A document is extracted again.
Hide ==
    /\ shown' \subseteq shown
    /\ UNCHANGED <<approved, recorded>>

Next == (\E k \in Keys : Approve(k) \/ Record(k) \/ Show(k)) \/ Hide

Spec == Init /\ [][Next]_vars
=============================================================================
