----------------------------- MODULE UnitOfWork -----------------------------
(***************************************************************************)
(* What a flush of the ORM session writes.  The library (SQLAlchemy) keeps *)
(* the value of every attribute as it was loaded, and the UPDATE it emits  *)
(* names only the columns whose new value differs from the loaded one.  An *)
(* assignment of the value already in the session's cache emits nothing,   *)
(* whatever another transaction has meanwhile committed to the row.        *)
(***************************************************************************)

\* The column after the flush: row is what the table holds at the flush,
\* loaded is what this session read, new is what the handler assigned.
Net(row, loaded, new) == IF new = loaded THEN row ELSE new

=============================================================================
