------------------------- MODULE DocumentFlowProofs -------------------------
(***************************************************************************)
(* Proofs about DocumentFlow, for every set of documents, sessions and     *)
(* payloads.                                                               *)
(*                                                                         *)
(* With either destination: type correctness, that the destination holds   *)
(* nothing that was not approved, and that a success a session reports is  *)
(* a record.                                                               *)
(*                                                                         *)
(* With the destination that shares the transaction (DatabaseCrm):         *)
(* one record of an invoice, our account of the writes agrees with it, a   *)
(* written document is backed by it, and a settled write stays settled.    *)
(* These four are proved together, because each needs the others.  Between *)
(* the answer of the destination and the commit, the answer has to stay    *)
(* true: that is CallOK.  It stays true because no two sessions are there  *)
(* with one key (the lock of the crm_write row), or with two new records   *)
(* of one invoice (the lock of the unique index), which is Apart.          *)
(*                                                                         *)
(* The last part, about both destinations, is the refinement of            *)
(* WriteLedger.                                                            *)
(***************************************************************************)
EXTENDS DocumentFlow, TLAPS

\* Past the gate of a write.
Writing(s) == sess[s].pc \in {"gated", "claimed", "called"}

\* Before the first extraction of a document has committed.
Early == {"absent", "received"}

\* The fields of a session that its step has filled in.  What it has loaded is
\* no younger than its document.
SessionOK(s) ==
    /\ sess[s].pc # "idle" =>
          /\ sess[s].doc \in Docs
          /\ doc[sess[s].doc].status \in Early => sess[s].loaded.status \in Early
    /\ sess[s].pc = "flushed" => sess[s].status \notin Early
    /\ sess[s].pc = "checked" => sess[s].row.hash \in Hashes
    /\ Writing(s) => sess[s].loaded.hash \in Hashes

TypeInv == TypeOK /\ \A s \in Sessions : SessionOK(s)

-----------------------------------------------------------------------------
LEMMA InitTypes == Init => TypeInv
<1> SUFFICES ASSUME Init PROVE TypeInv
    OBVIOUS
<1> USE DEF Init, Idle, NoDocument, Nothing
<1>1. NoDocument \in Document /\ Nothing \in [at : Nat, hash : Hashes \cup {NoHash}]
    BY DEF Document
<1>2. Idle \in Session
    BY <1>1 DEF Session, DocStatuses, COMMITTED_STATUSES, WriteStatuses
<1>3. TypeOK
    BY <1>1, <1>2 DEF TypeOK, WriteStatuses
<1>4. ASSUME NEW s \in Sessions PROVE SessionOK(s)
    BY DEF SessionOK, Writing
<1> QED BY <1>3, <1>4 DEF TypeInv

\* A step that gives one session a new, well formed record keeps the typing
\* of the sessions.
LEMMA OneSessionMoves ==
    ASSUME TypeInv, NEW s \in Sessions, NEW new \in Session,
           sess' = [sess EXCEPT ![s] = new],
           \A d \in Docs : doc'[d].status \in Early => doc[d].status \in Early,
           new.pc # "idle" =>
              /\ new.doc \in Docs
              /\ doc'[new.doc].status \in Early => new.loaded.status \in Early,
           new.pc = "flushed" => new.status \notin Early,
           new.pc = "checked" => new.row.hash \in Hashes,
           new.pc \in {"gated", "claimed", "called"} => new.loaded.hash \in Hashes
    PROVE  (sess \in [Sessions -> Session])' /\ (\A t \in Sessions : SessionOK(t))'
<1>1. sess' \in [Sessions -> Session]
    BY DEF TypeInv, TypeOK
<1>2. ASSUME NEW t \in Sessions PROVE SessionOK(t)'
    <2>1. CASE t = s
        BY <2>1 DEF TypeInv, TypeOK, SessionOK, Writing
    <2>2. CASE t # s
        BY <2>2 DEF TypeInv, TypeOK, SessionOK, Writing
    <2> QED BY <2>1, <2>2
<1> QED BY <1>1, <1>2

LEMMA IdleIsASession ==
    Idle \in Session /\ Idle.pc = "idle"
<1>1. NoDocument \in Document /\ Nothing \in [at : Nat, hash : Hashes \cup {NoHash}]
    BY DEF Document, NoDocument, Nothing
<1> QED BY <1>1 DEF Session, DocStatuses, COMMITTED_STATUSES, WriteStatuses, Idle

\* A session ends.
LEMMA EndTypes ==
    ASSUME TypeInv, NEW s \in Sessions, sess' = End(s),
           \A d \in Docs : doc'[d].status \in Early => doc[d].status \in Early
    PROVE  (sess \in [Sessions -> Session])' /\ (\A t \in Sessions : SessionOK(t))'
BY OneSessionMoves, IdleIsASession DEF End

-----------------------------------------------------------------------------
\* What an extraction makes of its document row is a row again, and no longer
\* an early one.
LEMMA ExtractedType ==
    ASSUME NEW row \in Document, NEW me,
           me.loaded \in Document, me.status \in DocStatuses \ Early,
           row.status \in Early => me.loaded.status \in Early
    PROVE  Extracted(row, me) \in Document /\ Extracted(row, me).status \notin Early
<1>1. /\ row.status \in DocStatuses \cup {"absent"} /\ row.hash \in Hashes \cup {NoHash}
      /\ me.loaded.status \in DocStatuses \cup {"absent"} /\ me.status \notin Early
    BY DEF Document
<1>2. "extracted" \in DocStatuses \ Early
    BY DEF DocStatuses, Early
<1>3. CASE me.row.hash = NoHash
    <2>1. /\ Extracted(row, me).status = Net(row.status, me.loaded.status, me.status)
          /\ Extracted(row, me).hash = row.hash
        BY <1>3 DEF Extracted, Document
    <2>2. Extracted(row, me) \in Document
        BY <1>1, <1>3 DEF Extracted, Document, Net
    <2> QED BY <1>1, <2>1, <2>2 DEF Net
<1>4. CASE me.row.hash # NoHash
    BY <1>1, <1>2, <1>4 DEF Extracted, Document, Net
<1> QED BY <1>3, <1>4

\* An extraction makes no document written: one that stays so keeps its hash
\* or loses it.
LEMMA ExtractedWrites ==
    ASSUME NEW row \in Document, NEW me, me.status # "written",
           Extracted(row, me).status = "written"
    PROVE  /\ row.status = "written"
           /\ Extracted(row, me).hash \in {row.hash, NoHash}
<1>1. CASE me.row.hash = NoHash
    BY <1>1 DEF Extracted, Document, Net
<1>2. CASE me.row.hash # NoHash
    BY <1>2 DEF Extracted, Net
<1> QED BY <1>1, <1>2

-----------------------------------------------------------------------------
\* The statuses an extraction gives its document.
LEMMA FlushStatus ==
    ASSUME NEW s, ExtractFlush(s)
    PROVE  \E status \in {"extraction_failed", "extracted", "validated", "needs_review"} :
              sess' = [sess EXCEPT ![s].pc = "flushed", ![s].status = status]
BY DEF ExtractFlush, Routed

LEMMA FlushMoves ==
    ASSUME TypeInv, NEW s \in Sessions, ExtractFlush(s)
    PROVE  /\ sess'[s].pc = "flushed" /\ sess'[s].status # "written"
           /\ \A t \in Sessions \ {s} : sess'[t] = sess[t]
<1>1. sess \in [Sessions -> Session]
    BY DEF TypeInv, TypeOK
<1>2. PICK status \in {"extraction_failed", "extracted", "validated", "needs_review"} :
          sess' = [sess EXCEPT ![s].pc = "flushed", ![s].status = status]
    BY FlushStatus
<1> QED BY <1>1, <1>2 DEF Session

\* The steps that move one session, and change no table.
LEMMA MoveTypes ==
    ASSUME TypeInv, NEW s \in Sessions
    PROVE  /\ \A d \in Docs, pc \in {"extracting", "approving", "writing"} :
                Begin(s, d, pc) => TypeInv'
           /\ \A hash \in Hashes \cup {NoHash} : ProviderAnswers(s, hash) => TypeInv'
           /\ ProviderRaises(s) => TypeInv'
           /\ ExtractFlush(s) => TypeInv'
           /\ ApproveRead(s) => TypeInv'
           /\ ApproveCheck(s) => TypeInv'
           /\ ApproveTurnedAway(s) => TypeInv'
           /\ WriteGate(s) => TypeInv'
           /\ WriteTurnedAway(s) => TypeInv'
           /\ WriteClaim(s) => TypeInv'
           /\ CreateRecord(s) => TypeInv'
           /\ Abort(s) => TypeInv'
<1> DEFINE Tables == UNCHANGED <<doc, extraction, approval, write, crm>>
           Typed == /\ (sess \in [Sessions -> Session])'
                    /\ (\A t \in Sessions : SessionOK(t))'
<1>1. Tables /\ Typed => TypeInv'
    BY DEF TypeInv, TypeOK
<1> HIDE DEF Typed
<1>moves. ASSUME NEW new \in Session, sess' = [sess EXCEPT ![s] = new],
                 UNCHANGED doc,
                 new.pc # "idle" =>
                    /\ new.doc \in Docs
                    /\ doc[new.doc].status \in Early => new.loaded.status \in Early,
                 new.pc = "flushed" => new.status \notin Early,
                 new.pc = "checked" => new.row.hash \in Hashes,
                 new.pc \in {"gated", "claimed", "called"} => new.loaded.hash \in Hashes
          PROVE  Typed
    BY <1>moves, OneSessionMoves DEF Typed
<1>ends. ASSUME sess' = End(s), UNCHANGED doc PROVE Typed
    BY <1>ends, EndTypes DEF Typed
<1>here. /\ sess[s] \in Session
         /\ sess \in [Sessions -> Session]
         /\ SessionOK(s)
    BY DEF TypeInv, TypeOK
\* A session that goes on with its document.
<1>goes. ASSUME NEW new \in Session, sess' = [sess EXCEPT ![s] = new], Tables,
                sess[s].pc # "idle", new.doc = sess[s].doc, new.loaded = sess[s].loaded,
                new.pc = "flushed" => new.status \notin Early,
                new.pc = "checked" => new.row.hash \in Hashes,
                new.pc \in {"gated", "claimed", "called"} => new.loaded.hash \in Hashes
         PROVE  TypeInv'
    <2>1. /\ new.doc \in Docs
          /\ doc[new.doc].status \in Early => new.loaded.status \in Early
        BY <1>here, <1>goes DEF SessionOK
    <2> QED BY <1>1, <1>moves, <1>goes, <2>1
<1>2. ASSUME NEW d \in Docs, NEW pc \in {"extracting", "approving", "writing"},
             Begin(s, d, pc)
      PROVE  TypeInv'
    <2> DEFINE new == [Idle EXCEPT !.pc = pc, !.doc = d, !.loaded = doc[d]]
    <2>1. new \in Session /\ new.pc = pc /\ new.doc = d /\ new.loaded = doc[d]
        BY IdleIsASession DEF TypeInv, TypeOK, Session
    <2>2. Tables /\ sess' = [sess EXCEPT ![s] = new]
        BY <1>2 DEF Begin
    <2> QED BY <1>1, <1>moves, <2>1, <2>2
<1>3. ASSUME NEW hash \in Hashes \cup {NoHash}, ProviderAnswers(s, hash) PROVE TypeInv'
    <2>1. PICK at \in 1 .. MaxStamp :
              sess' = [sess EXCEPT ![s].pc = "recorded",
                                   ![s].row = [at |-> at, hash |-> hash]]
        BY <1>3 DEF ProviderAnswers, FreeStamps
    <2> DEFINE new == [sess[s] EXCEPT !.pc = "recorded",
                                      !.row = [at |-> at, hash |-> hash]]
    <2>2. Tables /\ sess[s].pc = "extracting"
        BY <1>3 DEF ProviderAnswers
    <2>3. sess' = [sess EXCEPT ![s] = new]
        BY <2>1, <1>here
    <2>4. at \in Nat
        BY FlowAssumption
    <2>5. /\ new \in Session /\ new.pc = "recorded"
          /\ new.doc = sess[s].doc /\ new.loaded = sess[s].loaded
        BY <1>here, <2>4 DEF Session
    <2> QED BY <1>goes, <2>2, <2>3, <2>5
<1>4. ASSUME ProviderRaises(s) PROVE TypeInv'
    BY <1>1, <1>ends, <1>4 DEF ProviderRaises
<1>5. ASSUME ExtractFlush(s) PROVE TypeInv'
    <2>1. PICK status \in {"extraction_failed", "extracted", "validated", "needs_review"} :
              sess' = [sess EXCEPT ![s].pc = "flushed", ![s].status = status]
        BY <1>5, FlushStatus
    <2> DEFINE new == [sess[s] EXCEPT !.pc = "flushed", !.status = status]
    <2>2. Tables /\ sess[s].pc = "recorded" /\ sess' = [sess EXCEPT ![s] = new]
        BY <1>5, <1>here, <2>1 DEF ExtractFlush
    <2>3. /\ new \in Session /\ new.pc = "flushed" /\ new.status = status
          /\ new.doc = sess[s].doc /\ new.loaded = sess[s].loaded
        BY <1>here DEF Session, DocStatuses
    <2>4. status \notin Early
        BY DEF Early
    <2> QED BY <1>goes, <2>2, <2>3, <2>4
<1>6. ASSUME ApproveRead(s) PROVE TypeInv'
    <2>1. PICK row \in extraction[sess[s].doc] :
              sess' = [sess EXCEPT ![s].pc = "reading", ![s].row = row]
        BY <1>6 DEF ApproveRead
    <2> DEFINE new == [sess[s] EXCEPT !.pc = "reading", !.row = row]
    <2>2. Tables /\ sess[s].doc \in Docs /\ sess[s].pc # "idle"
        BY <1>6, <1>here DEF ApproveRead, SessionOK
    <2>3. sess' = [sess EXCEPT ![s] = new]
        BY <2>1, <1>here
    <2>4. row \in [at : Nat, hash : Hashes \cup {NoHash}]
        BY <2>2 DEF TypeInv, TypeOK, Extraction
    <2>5. /\ new \in Session /\ new.pc = "reading"
          /\ new.doc = sess[s].doc /\ new.loaded = sess[s].loaded
        BY <1>here, <2>4 DEF Session
    <2> QED BY <1>goes, <2>2, <2>3, <2>5
<1>7. ASSUME ApproveCheck(s) PROVE TypeInv'
    <2>1. Tables /\ sess[s].pc = "reading" /\ sess[s].row.hash # NoHash
        BY <1>7 DEF ApproveCheck
    <2>2. sess[s].row.hash \in Hashes /\ sess[s].doc \in Docs
        BY <1>here, <2>1 DEF Session, SessionOK
    <2>3. CASE \E at \in 1 .. MaxStamp :
                  sess' = [sess EXCEPT ![s].pc = "checked",
                                       ![s].status = "approved", ![s].row.at = at]
        <3>1. PICK at \in 1 .. MaxStamp :
                  sess' = [sess EXCEPT ![s].pc = "checked",
                                       ![s].status = "approved", ![s].row.at = at]
            BY <2>3
        <3> DEFINE row == [sess[s].row EXCEPT !.at = at]
                   new == [sess[s] EXCEPT !.pc = "checked", !.status = "approved",
                                          !.row = row]
        <3>2. sess' = [sess EXCEPT ![s] = new]
            BY <3>1, <1>here DEF Session
        <3>3. /\ row \in [at : Nat, hash : Hashes \cup {NoHash}]
              /\ row.hash = sess[s].row.hash
            BY <1>here, FlowAssumption DEF Session
        <3> HIDE DEF row
        <3>4. /\ new \in Session /\ new.row = row /\ new.pc = "checked"
              /\ new.doc = sess[s].doc /\ new.loaded = sess[s].loaded
            BY <1>here, <3>3 DEF Session, DocStatuses, COMMITTED_STATUSES
        <3> QED BY <1>goes, <2>1, <2>2, <3>2, <3>3, <3>4
    <2>4. CASE sess' = [sess EXCEPT ![s].pc = "checked", ![s].status = "needs_review"]
        <3> DEFINE new == [sess[s] EXCEPT !.pc = "checked", !.status = "needs_review"]
        <3>1. sess' = [sess EXCEPT ![s] = new]
            BY <2>4, <1>here
        <3>2. /\ new \in Session /\ new.row = sess[s].row /\ new.pc = "checked"
              /\ new.doc = sess[s].doc /\ new.loaded = sess[s].loaded
            BY <1>here DEF Session, DocStatuses
        <3> QED BY <1>goes, <2>1, <2>2, <3>1, <3>2
    <2> QED BY <1>7, <2>3, <2>4 DEF ApproveCheck, FreeStamps
<1>8. ASSUME ApproveTurnedAway(s) PROVE TypeInv'
    BY <1>1, <1>ends, <1>8 DEF ApproveTurnedAway
<1>9. ASSUME WriteGate(s) PROVE TypeInv'
    <2> DEFINE new == [sess[s] EXCEPT !.pc = "gated", !.write = write[Key(s)]]
    <2>1. Tables /\ sess[s].pc = "writing" /\ sess' = [sess EXCEPT ![s] = new]
        BY <1>9, <1>here DEF WriteGate
    <2>2. sess[s].doc \in Docs /\ sess[s].loaded.hash \in Hashes
        BY <1>9, <1>here, <2>1 DEF WriteGate, MayWrite, SessionOK, Session, Document
    <2>3. write[Key(s)] \in WriteStatuses
        BY <2>2 DEF TypeInv, TypeOK, Key, Keys
    <2>4. /\ new \in Session /\ new.pc = "gated"
          /\ new.doc = sess[s].doc /\ new.loaded = sess[s].loaded
        BY <1>here, <2>3 DEF Session
    <2> QED BY <1>goes, <2>1, <2>2, <2>4
<1>10. ASSUME WriteTurnedAway(s) PROVE TypeInv'
    BY <1>1, <1>ends, <1>10 DEF WriteTurnedAway
<1>11. ASSUME WriteClaim(s) PROVE TypeInv'
    <2> DEFINE found == IF sess[s].write = "none" THEN write[Key(s)] ELSE sess[s].write
               new == [sess[s] EXCEPT !.pc = "claimed", !.write = found]
    <2>1. Tables /\ sess[s].pc = "gated" /\ sess' = [sess EXCEPT ![s] = new]
        BY <1>11, <1>here DEF WriteClaim
    <2>2. sess[s].doc \in Docs /\ sess[s].loaded.hash \in Hashes
        BY <1>here, <2>1 DEF SessionOK, Writing
    <2>3. found \in WriteStatuses
        BY <1>here, <2>2 DEF TypeInv, TypeOK, Key, Keys, Session
    <2>4. /\ new \in Session /\ new.pc = "claimed"
          /\ new.doc = sess[s].doc /\ new.loaded = sess[s].loaded
        BY <1>here, <2>3 DEF Session
    <2> QED BY <1>goes, <2>1, <2>2, <2>4
<1>12. ASSUME CreateRecord(s) PROVE TypeInv'
    <2> DEFINE new == [sess[s] EXCEPT !.pc = "called", !.outcome = Insertion(Key(s))]
    <2>1. Tables /\ sess[s].pc = "claimed" /\ sess' = [sess EXCEPT ![s] = new]
        BY <1>12, <1>here DEF CreateRecord
    <2>2. Insertion(Key(s)) \in {"created", "existing", "rejected"}
        BY DEF Insertion
    <2>3. /\ new \in Session /\ new.pc = "called"
          /\ new.doc = sess[s].doc /\ new.loaded = sess[s].loaded
        BY <1>here, <2>2 DEF Session
    <2> QED BY <1>goes, <1>here, <2>1, <2>3 DEF SessionOK, Writing
<1>13. ASSUME Abort(s) PROVE TypeInv'
    BY <1>1, <1>ends, <1>13 DEF Abort
<1> QED BY <1>2, <1>3, <1>4, <1>5, <1>6, <1>7, <1>8, <1>9, <1>10, <1>11, <1>12, <1>13

\* The steps that change a table.
LEMMA TableTypes ==
    ASSUME TypeInv
    PROVE  /\ \A d \in Docs : Receive(d) \/ Expire(d) => TypeInv'
           /\ \A s \in Sessions :
                 (\/ ExtractCommit(s) \/ ApproveCommit(s) \/ CallDestination(s)
                  \/ WriteSucceeds(s) \/ WriteFails(s) \/ WriteRaises(s)) => TypeInv'
<1>here. /\ doc \in [Docs -> Document]
         /\ extraction \in [Docs -> SUBSET Extraction]
         /\ approval \in [Docs -> SUBSET Approval]
         /\ write \in [Keys -> WriteStatuses]
         /\ crm \subseteq Keys
         /\ sess \in [Sessions -> Session]
         /\ \A s \in Sessions : SessionOK(s)
         /\ \A d \in Docs : doc[d].status \in Early =>
                doc[d].hash = NoHash /\ extraction[d] = {} /\ approval[d] = {}
    BY DEF TypeInv, TypeOK, Early
<1>1. ASSUME UNCHANGED sess, NEW s \in Sessions,
             \A d \in Docs : doc'[d].status \in Early => doc[d].status \in Early
      PROVE  SessionOK(s)'
    BY <1>1, <1>here DEF SessionOK, Writing
<1>2. ASSUME NEW d \in Docs, Receive(d) PROVE TypeInv'
    <2>1. doc' \in [Docs -> Document]
        BY <1>2, <1>here DEF Receive, Document, DocStatuses
    <2>2. \A e \in Docs : doc'[e].status \in Early =>
              doc[e].status \in Early /\ doc'[e].hash = doc[e].hash
        BY <1>2, <1>here DEF Receive, Document, Early
    <2> QED BY <1>1, <1>2, <1>here, <2>1, <2>2 DEF Receive, TypeInv, TypeOK, Early
<1>3. ASSUME NEW d \in Docs, Expire(d) PROVE TypeInv'
    <2>1. PICK a \in approval[d] :
              approval' = [approval EXCEPT ![d] =
                             (@ \ {a}) \cup {[a EXCEPT !.expired = TRUE]}]
        BY <1>3 DEF Expire
    <2>2. [a EXCEPT !.expired = TRUE] \in Approval
        <3>1. approval[d] \subseteq Approval
            BY <1>here
        <3>2. a \in Approval
            BY <2>1, <3>1
        <3> QED BY <3>2 DEF Approval
    <2>3. approval' \in [Docs -> SUBSET Approval]
        BY <1>here, <2>1, <2>2
    <2>4. \A e \in Docs : approval[e] = {} => approval'[e] = {}
        BY <1>here, <2>1
    <2> QED BY <1>1, <1>3, <1>here, <2>3, <2>4 DEF Expire, TypeInv, TypeOK, Early
<1> SUFFICES ASSUME NEW s \in Sessions
             PROVE  (\/ ExtractCommit(s) \/ ApproveCommit(s) \/ CallDestination(s)
                     \/ WriteSucceeds(s) \/ WriteFails(s) \/ WriteRaises(s)) => TypeInv'
    BY <1>2, <1>3
<1> DEFINE me == sess[s]
<1>me. me \in Session /\ (me.pc # "idle" => me.doc \in Docs)
    BY <1>here DEF SessionOK
<1>key. me.pc \in {"claimed", "called"} =>
            me.doc \in Docs /\ me.loaded.hash \in Hashes /\ Key(s) \in Keys
    BY <1>here DEF SessionOK, Writing, Key, Keys
<1>4. ASSUME ExtractCommit(s) PROVE TypeInv'
    <2>1. /\ me.doc \in Docs /\ me.status \in DocStatuses \ Early
          /\ doc[me.doc].status \in Early => me.loaded.status \in Early
          /\ sess' = End(s) /\ UNCHANGED <<approval, write, crm>>
        BY <1>4, <1>me, <1>here DEF ExtractCommit, SessionOK, Session, Early
    <2>2. extraction' \in [Docs -> SUBSET Extraction]
        BY <1>4, <1>here, <1>me DEF ExtractCommit, Session, Extraction
    <2> DEFINE row == Extracted(doc[me.doc], me)
    <2>3. row \in Document /\ row.status \notin Early
        BY <1>here, <1>me, <2>1, ExtractedType DEF Session
    <2>4. /\ doc' = [doc EXCEPT ![me.doc] = row]
          /\ extraction' = [extraction EXCEPT ![me.doc] = @ \cup {me.row}]
        BY <1>4 DEF ExtractCommit
    <2> HIDE DEF row, me
    <2>5. /\ doc' \in [Docs -> Document]
          /\ \A d \in Docs : doc'[d].status \in Early =>
                doc'[d] = doc[d] /\ extraction'[d] = extraction[d]
        BY <1>here, <2>1, <2>3, <2>4
    <2> QED BY <1>here, <2>1, <2>2, <2>5, EndTypes DEF TypeInv, TypeOK, Early
<1>5. ASSUME ApproveCommit(s) PROVE TypeInv'
    <2>1. /\ me.doc \in Docs /\ me.row.at \in Nat /\ me.row.hash \in Hashes
          /\ sess' = End(s) /\ UNCHANGED <<extraction, write, crm>>
        BY <1>5, <1>me, <1>here DEF ApproveCommit, SessionOK, Session
    <2>2. [at |-> me.row.at, hash |-> me.row.hash, expired |-> FALSE] \in Approval
        BY <2>1 DEF Approval
    <2>3. approval' \in [Docs -> SUBSET Approval]
        <3>1. CASE approval' = [approval EXCEPT ![me.doc] = @ \cup
                    {[at |-> me.row.at, hash |-> me.row.hash, expired |-> FALSE]}]
            BY <1>here, <2>1, <2>2, <3>1
        <3>2. CASE UNCHANGED approval
            BY <1>here, <3>2
        <3> QED BY <1>5, <3>1, <3>2 DEF ApproveCommit
    <2>4. doc' \in [Docs -> Document]
        <3>1. doc[me.doc] \in Document /\ me.loaded \in Document
            BY <1>here, <1>me, <2>1 DEF Session
        <3>2. [status |-> "approved",
               hash |-> Net(doc[me.doc].hash, me.loaded.hash, me.row.hash)] \in Document
            BY <2>1, <3>1 DEF Document, DocStatuses, COMMITTED_STATUSES, Net
        <3>3. [doc[me.doc] EXCEPT !.status = "needs_review"] \in Document
            BY <3>1 DEF Document, DocStatuses
        <3> QED BY <1>5, <1>here, <3>2, <3>3 DEF ApproveCommit
    <2>5. \A d \in Docs : doc'[d].status \in Early =>
              doc'[d] = doc[d] /\ approval'[d] = approval[d]
        <3> SUFFICES ASSUME NEW d \in Docs, doc'[d].status \in Early
                     PROVE  d # me.doc
            BY <1>5, <1>here DEF ApproveCommit
        <3> QED BY <1>5, <1>here DEF ApproveCommit, Early, Document
    <2> QED BY <1>here, <2>1, <2>3, <2>4, <2>5, EndTypes DEF TypeInv, TypeOK, Early
<1>6. ASSUME CallDestination(s) PROVE TypeInv'
    <2>1. PICK outcome \in {"created", "existing", "unavailable"} :
              sess' = [sess EXCEPT ![s].pc = "called", ![s].outcome = outcome]
        BY <1>6 DEF CallDestination
    <2> DEFINE new == [me EXCEPT !.pc = "called", !.outcome = outcome]
    <2>2. /\ me.pc = "claimed" /\ crm' \subseteq Keys
          /\ UNCHANGED <<doc, extraction, approval, write>>
        BY <1>6, <1>key, <1>here DEF CallDestination
    <2>3. sess' = [sess EXCEPT ![s] = new]
        BY <1>here, <2>1
    <2>4. /\ new \in Session /\ new.pc = "called"
          /\ new.doc = me.doc /\ new.loaded = me.loaded
        BY <1>me DEF Session
    <2>5. (sess \in [Sessions -> Session])' /\ (\A t \in Sessions : SessionOK(t))'
        BY <1>here, <1>key, <2>2, <2>3, <2>4, OneSessionMoves DEF SessionOK
    <2> QED BY <1>here, <2>2, <2>5 DEF TypeInv, TypeOK
<1>7. ASSUME WriteSucceeds(s) PROVE TypeInv'
    <2>1. /\ me.doc \in Docs /\ Key(s) \in Keys
          /\ sess' = End(s) /\ UNCHANGED <<extraction, approval>>
        BY <1>7, <1>key DEF WriteSucceeds
    <2>2. MarkWritten(doc[me.doc], me.loaded.hash) \in Document
        BY <1>here, <2>1 DEF MarkWritten, Document, DocStatuses, COMMITTED_STATUSES
    <2>3. doc' \in [Docs -> Document]
        BY <1>7, <1>here, <2>2 DEF WriteSucceeds
    <2>4. write' \in [Keys -> WriteStatuses]
        BY <1>7, <1>here DEF WriteSucceeds, Net, WriteStatuses
    <2>5. crm' \subseteq Keys
        BY <1>7, <1>here, <2>1 DEF WriteSucceeds
    <2>6. \A d \in Docs : doc'[d].status \in Early => doc'[d] = doc[d]
        BY <1>7, <1>here DEF WriteSucceeds, MarkWritten, Document, Early
    <2> QED BY <1>here, <2>1, <2>3, <2>4, <2>5, <2>6, EndTypes DEF TypeInv, TypeOK, Early
<1>8. ASSUME WriteFails(s) PROVE TypeInv'
    <2>1. write' \in [Keys -> WriteStatuses]
        BY <1>8, <1>here DEF WriteFails, Net, WriteStatuses
    <2> QED BY <1>8, <1>here, <2>1, EndTypes DEF WriteFails, TypeInv, TypeOK
<1>9. ASSUME WriteRaises(s) PROVE TypeInv'
    <2>1. write' \in [Keys -> WriteStatuses]
        BY <1>9, <1>here DEF WriteRaises, WriteStatuses
    <2>2. crm' \subseteq Keys
        BY <1>9, <1>here, <1>key DEF WriteRaises
    <2> QED BY <1>9, <1>here, <2>1, <2>2, EndTypes DEF WriteRaises, TypeInv, TypeOK
<1> QED BY <1>4, <1>5, <1>6, <1>7, <1>8, <1>9

LEMMA TypesStep == TypeInv /\ [Next]_vars => TypeInv'
<1> SUFFICES ASSUME TypeInv, [Next]_vars PROVE TypeInv'
    OBVIOUS
<1>1. CASE UNCHANGED vars
    BY <1>1 DEF vars, TypeInv, TypeOK, SessionOK, Writing
<1>2. CASE \E d \in Docs : Receive(d) \/ Expire(d)
    BY <1>2, TableTypes
<1>3. ASSUME NEW s \in Sessions, NEW d \in Docs,
             ExtractBegin(s, d) \/ ApproveBegin(s, d) \/ WriteBegin(s, d)
      PROVE  TypeInv'
    BY <1>3, MoveTypes DEF ExtractBegin, ApproveBegin, WriteBegin
<1>4. ASSUME NEW s \in Sessions, Step(s) PROVE TypeInv'
    <2>1. /\ \A hash \in Hashes \cup {NoHash} : ProviderAnswers(s, hash) => TypeInv'
          /\ ProviderRaises(s) => TypeInv'
          /\ ExtractFlush(s) => TypeInv'
          /\ ApproveRead(s) => TypeInv'
          /\ ApproveCheck(s) => TypeInv'
          /\ ApproveTurnedAway(s) => TypeInv'
          /\ WriteGate(s) => TypeInv'
          /\ WriteTurnedAway(s) => TypeInv'
          /\ WriteClaim(s) => TypeInv'
          /\ CreateRecord(s) => TypeInv'
        BY MoveTypes
    <2>2. (\/ ExtractCommit(s) \/ ApproveCommit(s) \/ CallDestination(s)
           \/ WriteSucceeds(s) \/ WriteFails(s)) => TypeInv'
        BY TableTypes
    <2> QED BY <1>4, <2>1, <2>2 DEF Step
<1>5. ASSUME NEW s \in Sessions, WriteRaises(s) \/ Abort(s) PROVE TypeInv'
    BY <1>5, MoveTypes, TableTypes
<1> QED BY <1>1, <1>2, <1>3, <1>4, <1>5 DEF Next

\* Every variable keeps its type, and no race or raised rule leaves a document
\* received that has an extraction or an approval.
THEOREM FlowTypeCorrect == Spec => []TypeOK
<1>1. TypeInv => TypeOK
    BY DEF TypeInv
<1> QED BY InitTypes, TypesStep, <1>1, PTL DEF Spec

-----------------------------------------------------------------------------
(***************************************************************************)
(* The destination holds nothing that was not approved.  The invariant     *)
(* alone is not inductive: it needs to know that a payload whose approval  *)
(* is under way has passed the rules, and that a write past its gate has   *)
(* its approval.  Approvals are never removed, so this stays so.           *)
(***************************************************************************)
ApprovalsPassed == \A d \in Docs : \A a \in approval[d] : a.hash \notin Blocked

Backed(s) ==
    /\ sess[s].pc = "checked" /\ sess[s].status = "approved"
         => sess[s].row.hash \notin Blocked
    /\ Writing(s) => \E a \in approval[sess[s].doc] : a.hash = sess[s].loaded.hash

RecordsInv ==
    /\ RecordsWereApproved
    /\ ApprovalsPassed
    /\ \A s \in Sessions : Backed(s)

ApprovalsGrow ==
    \A d \in Docs : \A a \in approval[d] : \E b \in approval'[d] : b.hash = a.hash

\* What a step of s has to show.
LEMMA RecordsFrame ==
    ASSUME TypeInv, RecordsInv, NEW s \in Sessions,
           \A t \in Sessions \ {s} : sess'[t] = sess[t],
           ApprovalsPassed', ApprovalsGrow, Backed(s)',
           crm' = crm \/ (Writing(s) /\ crm' = crm \cup {Key(s)})
    PROVE  RecordsInv'
<1>1. ASSUME NEW t \in Sessions PROVE Backed(t)'
    <2>1. CASE t = s
        BY <2>1
    <2>2. CASE t # s /\ Writing(t)
        <3>1. sess'[t] = sess[t] /\ sess[t].doc \in Docs
            BY <2>2 DEF TypeInv, SessionOK, Writing
        <3>2. PICK a \in approval[sess[t].doc] : a.hash = sess[t].loaded.hash
            BY <2>2 DEF RecordsInv, Backed
        <3>3. \E b \in approval'[sess[t].doc] : b.hash = a.hash
            BY <3>1, <3>2 DEF ApprovalsGrow
        <3> QED BY <2>2, <3>1, <3>2, <3>3 DEF RecordsInv, Backed, Writing
    <2>3. CASE t # s /\ ~Writing(t)
        BY <2>3 DEF RecordsInv, Backed, Writing
    <2> QED BY <2>1, <2>2, <2>3
<1>2. ASSUME NEW k \in crm'
      PROVE  k[2] \notin Blocked /\ \E a \in approval'[k[1]] : a.hash = k[2]
    <2>1. k[1] \in Docs /\ \E a \in approval[k[1]] : a.hash = k[2]
        <3>1. CASE k \in crm
            BY <3>1 DEF RecordsInv, RecordsWereApproved, TypeInv, TypeOK, Keys
        <3>2. CASE Writing(s) /\ k = Key(s)
            BY <3>2 DEF RecordsInv, Backed, TypeInv, SessionOK, Writing, Key
        <3> QED BY <1>2, <3>1, <3>2
    <2>2. PICK b \in approval'[k[1]] : b.hash = k[2]
        BY <2>1 DEF ApprovalsGrow
    <2> QED BY <2>1, <2>2 DEF ApprovalsPassed
<1> QED BY <1>1, <1>2 DEF RecordsInv, RecordsWereApproved

LEMMA RecordsStep == TypeInv /\ RecordsInv /\ [Next]_vars => RecordsInv'
<1> SUFFICES ASSUME TypeInv, RecordsInv, [Next]_vars PROVE RecordsInv'
    OBVIOUS
<1>here. /\ sess \in [Sessions -> Session]
         /\ approval \in [Docs -> SUBSET Approval]
         /\ \A s \in Sessions : SessionOK(s) /\ Backed(s)
    BY DEF TypeInv, TypeOK, RecordsInv
<1>same. UNCHANGED approval => ApprovalsPassed' /\ ApprovalsGrow
    BY DEF RecordsInv, ApprovalsPassed, ApprovalsGrow
\* A session that ends needs nothing any more.
<1>end. ASSUME NEW s \in Sessions, sess' = End(s)
        PROVE  /\ \A t \in Sessions \ {s} : sess'[t] = sess[t]
               /\ Backed(s)'
    BY <1>end, <1>here, IdleIsASession DEF End, Backed, Writing
\* A session that moves on without changing a table.
<1>move. ASSUME NEW s \in Sessions,
                \A t \in Sessions \ {s} : sess'[t] = sess[t],
                UNCHANGED <<doc, extraction, approval, write, crm>>,
                \/ sess'[s].pc \notin {"checked", "gated", "claimed", "called"}
                \/ sess'[s].pc = "checked" /\ sess'[s].status # "approved"
                \/ /\ sess'[s].pc \in {"gated", "claimed", "called"} /\ Writing(s)
                   /\ sess'[s].doc = sess[s].doc /\ sess'[s].loaded = sess[s].loaded
         PROVE  RecordsInv'
    <2>1. Backed(s)'
        BY <1>move, <1>here DEF Backed, Writing
    <2> QED BY <1>move, <1>same, <2>1, RecordsFrame
<1>1. CASE UNCHANGED vars
    BY <1>1 DEF vars, RecordsInv, RecordsWereApproved, ApprovalsPassed, Backed, Writing
<1>2. ASSUME NEW d \in Docs, Receive(d) PROVE RecordsInv'
    BY <1>2 DEF Receive, RecordsInv, RecordsWereApproved, ApprovalsPassed, Backed, Writing
<1>3. ASSUME NEW d \in Docs, Expire(d) PROVE RecordsInv'
    <2>1. PICK a \in approval[d] :
              approval' = [approval EXCEPT ![d] =
                             (@ \ {a}) \cup {[a EXCEPT !.expired = TRUE]}]
        BY <1>3 DEF Expire
    <2> DEFINE old == [a EXCEPT !.expired = TRUE]
    <2>2. old.hash = a.hash
        <3>1. a \in Approval
            BY <1>here, <2>1
        <3> QED BY <3>1 DEF Approval
    <2> HIDE DEF old
    <2>3. approval' = [approval EXCEPT ![d] = (@ \ {a}) \cup {old}]
        BY <2>1 DEF old
    <2>4. ApprovalsPassed'
        BY <1>here, <2>1, <2>2, <2>3 DEF RecordsInv, ApprovalsPassed
    <2>5. ApprovalsGrow
        BY <1>here, <2>1, <2>2, <2>3 DEF ApprovalsGrow
    <2>6. \A s \in Sessions : Backed(s)'
        <3> SUFFICES ASSUME NEW s \in Sessions PROVE Backed(s)'
            OBVIOUS
        <3>1. sess' = sess
            BY <1>3 DEF Expire
        <3>2. Writing(s) => \E b \in approval'[sess[s].doc] : b.hash = sess[s].loaded.hash
            BY <1>here, <2>5 DEF Backed, Writing, SessionOK, ApprovalsGrow
        <3> QED BY <1>here, <3>1, <3>2 DEF Backed, Writing
    <2>7. RecordsWereApproved'
        <3> SUFFICES ASSUME NEW k \in crm
                     PROVE  k[2] \notin Blocked /\ \E b \in approval'[k[1]] : b.hash = k[2]
            BY <1>3 DEF Expire, RecordsWereApproved
        <3>1. k[1] \in Docs
            BY DEF TypeInv, TypeOK, Keys
        <3> QED BY <2>5, <3>1 DEF ApprovalsGrow, RecordsInv, RecordsWereApproved
    <2> QED BY <2>4, <2>6, <2>7 DEF RecordsInv
<1>4. ASSUME NEW s \in Sessions, NEW d \in Docs,
             NEW pc \in {"extracting", "approving", "writing"},
             Begin(s, d, pc)
      PROVE  RecordsInv'
    <2>1. sess'[s].pc = pc
        BY <1>4, <1>here DEF Begin, Idle
    <2> QED BY <1>4, <1>here, <1>move, <2>1 DEF Begin
<1>5. ASSUME NEW s \in Sessions, NEW hash \in Hashes \cup {NoHash}, ProviderAnswers(s, hash)
      PROVE  RecordsInv'
    <2>1. sess'[s].pc = "recorded"
        BY <1>5, <1>here DEF ProviderAnswers, Session
    <2> QED BY <1>5, <1>here, <1>move, <2>1 DEF ProviderAnswers
<1> SUFFICES ASSUME NEW s \in Sessions,
                    Step(s) \/ WriteRaises(s) \/ Abort(s),
                    ~ \E hash \in Hashes \cup {NoHash} : ProviderAnswers(s, hash)
             PROVE  RecordsInv'
    <2>1. CASE UNCHANGED vars \/ \E d \in Docs : Receive(d) \/ Expire(d)
        BY <1>1, <1>2, <1>3, <2>1
    <2>2. ASSUME NEW t \in Sessions, NEW d \in Docs,
                 ExtractBegin(t, d) \/ ApproveBegin(t, d) \/ WriteBegin(t, d)
          PROVE  RecordsInv'
        BY <1>4, <2>2 DEF ExtractBegin, ApproveBegin, WriteBegin
    <2>3. ASSUME NEW t \in Sessions, Step(t) \/ WriteRaises(t) \/ Abort(t)
          PROVE  RecordsInv'
        BY <1>5, <2>3
    <2> QED BY <2>1, <2>2, <2>3 DEF Next
<1>6. CASE ProviderRaises(s) \/ ApproveTurnedAway(s) \/ WriteTurnedAway(s) \/ Abort(s)
    <2>1. sess' = End(s) /\ UNCHANGED <<doc, extraction, approval, write, crm>>
        BY <1>6 DEF ProviderRaises, ApproveTurnedAway, WriteTurnedAway, Abort
    <2> QED BY <1>end, <1>same, <2>1, RecordsFrame
<1>7. CASE ExtractFlush(s)
    <2>1. sess'[s].pc = "flushed"
        BY <1>7, <1>here DEF ExtractFlush, Session
    <2> QED BY <1>7, <1>here, <1>move, <2>1 DEF ExtractFlush
<1>8. CASE ApproveRead(s)
    <2>1. sess'[s].pc = "reading"
        BY <1>8, <1>here DEF ApproveRead, Session
    <2> QED BY <1>8, <1>here, <1>move, <2>1 DEF ApproveRead
<1>9. CASE ExtractCommit(s) \/ WriteFails(s)
    <2>1. sess' = End(s) /\ UNCHANGED <<approval, crm>>
        BY <1>9 DEF ExtractCommit, WriteFails
    <2> QED BY <1>end, <1>same, <2>1, RecordsFrame
<1>10. CASE ApproveCheck(s)
    <2>1. CASE sess' = [sess EXCEPT ![s].pc = "checked", ![s].status = "needs_review"]
        <3>1. sess'[s].pc = "checked" /\ sess'[s].status = "needs_review"
            BY <1>here, <2>1 DEF Session
        <3> QED BY <1>10, <1>here, <1>move, <2>1, <3>1 DEF ApproveCheck
    <2>2. CASE /\ Accepted(sess[s].doc, sess[s].row.hash)
               /\ \E at \in 1 .. MaxStamp :
                     sess' = [sess EXCEPT ![s].pc = "checked",
                                          ![s].status = "approved", ![s].row.at = at]
        <3>1. sess[s].row.hash \notin Blocked
            BY <2>2 DEF Accepted
        <3>2. /\ sess'[s].pc = "checked" /\ sess'[s].row.hash = sess[s].row.hash
              /\ \A t \in Sessions \ {s} : sess'[t] = sess[t]
            BY <1>here, <2>2 DEF Session
        <3>3. Backed(s)'
            BY <3>1, <3>2 DEF Backed, Writing
        <3>4. UNCHANGED <<approval, crm>>
            BY <1>10 DEF ApproveCheck
        <3> QED BY <1>same, <3>2, <3>3, <3>4, RecordsFrame
    <2> QED BY <1>10, <2>1, <2>2 DEF ApproveCheck, FreeStamps
<1>11. CASE ApproveCommit(s)
    <2>1. /\ sess' = End(s) /\ UNCHANGED crm
          /\ sess[s].pc = "checked" /\ sess[s].doc \in Docs
        BY <1>11, <1>here DEF ApproveCommit, SessionOK
    <2>2. CASE UNCHANGED approval
        BY <1>end, <1>same, <2>1, <2>2, RecordsFrame
    <2>3. CASE sess[s].status = "approved" /\ ~UNCHANGED approval
        <3> DEFINE row == [at |-> sess[s].row.at, hash |-> sess[s].row.hash,
                           expired |-> FALSE]
        <3>1. approval' = [approval EXCEPT ![sess[s].doc] = @ \cup {row}]
            BY <1>11, <2>3 DEF ApproveCommit
        <3>2. row.hash \notin Blocked
            BY <1>here, <2>1, <2>3 DEF Backed
        <3> HIDE DEF row
        <3>3. ApprovalsPassed' /\ ApprovalsGrow
            BY <1>here, <2>1, <3>1, <3>2 DEF RecordsInv, ApprovalsPassed, ApprovalsGrow
        <3> QED BY <1>end, <2>1, <3>3, RecordsFrame
    <2> QED BY <1>11, <2>2, <2>3 DEF ApproveCommit
<1>12. CASE WriteGate(s)
    <2>1. \E a \in approval[sess[s].doc] : a.hash = sess[s].loaded.hash
        BY <1>12 DEF WriteGate, MayWrite
    <2>2. /\ sess'[s].pc = "gated" /\ sess'[s].doc = sess[s].doc
          /\ sess'[s].loaded = sess[s].loaded
          /\ \A t \in Sessions \ {s} : sess'[t] = sess[t]
        BY <1>12, <1>here DEF WriteGate, Session
    <2>3. UNCHANGED <<approval, crm>>
        BY <1>12 DEF WriteGate
    <2>4. Backed(s)'
        BY <2>1, <2>2, <2>3 DEF Backed
    <2> QED BY <1>same, <2>2, <2>3, <2>4, RecordsFrame
<1>13. CASE WriteClaim(s) \/ CreateRecord(s)
    <2>1. /\ sess'[s].pc \in {"claimed", "called"} /\ Writing(s)
          /\ sess'[s].doc = sess[s].doc /\ sess'[s].loaded = sess[s].loaded
          /\ \A t \in Sessions \ {s} : sess'[t] = sess[t]
        BY <1>13, <1>here DEF WriteClaim, CreateRecord, Session, Writing
    <2> QED BY <1>13, <1>move, <2>1 DEF WriteClaim, CreateRecord
<1>14. CASE CallDestination(s)
    <2>1. PICK outcome \in {"created", "existing", "unavailable"} :
              sess' = [sess EXCEPT ![s].pc = "called", ![s].outcome = outcome]
        BY <1>14 DEF CallDestination
    <2>2. /\ sess'[s].pc = "called" /\ sess'[s].doc = sess[s].doc
          /\ sess'[s].loaded = sess[s].loaded
          /\ \A t \in Sessions \ {s} : sess'[t] = sess[t]
        BY <1>here, <2>1 DEF Session
    <2>3. /\ Writing(s) /\ UNCHANGED approval
          /\ crm' = crm \/ crm' = crm \cup {Key(s)}
        BY <1>14 DEF CallDestination, Writing
    <2>4. Backed(s)'
        BY <1>here, <2>2, <2>3 DEF Backed, Writing
    <2> QED BY <1>same, <2>2, <2>3, <2>4, RecordsFrame
<1>15. CASE WriteSucceeds(s)
    <2>1. /\ sess' = End(s) /\ UNCHANGED approval
          /\ Writing(s) /\ (crm' = crm \/ crm' = crm \cup {Key(s)})
        BY <1>15 DEF WriteSucceeds, Writing
    <2> QED BY <1>end, <1>same, <2>1, RecordsFrame
<1>16. CASE WriteRaises(s)
    <2>1. /\ sess' = End(s) /\ UNCHANGED approval
          /\ Writing(s) /\ (crm' = crm \/ crm' = crm \cup {Key(s)})
        BY <1>16 DEF WriteRaises, Writing
    <2> QED BY <1>end, <1>same, <2>1, RecordsFrame
<1> QED BY <1>6, <1>7, <1>8, <1>9, <1>10, <1>11, <1>12, <1>13, <1>14, <1>15, <1>16 DEF Step

\* What the destination holds has been approved, and has passed the rules.
THEOREM RecordsAreApproved == Spec => []RecordsWereApproved
<1>1. Init => RecordsInv
    BY DEF Init, RecordsInv, RecordsWereApproved, ApprovalsPassed, Backed,
           Writing, Idle
<1>2. TypeInv /\ [Next]_vars => TypeInv'
    BY TypesStep
<1>3. TypeInv /\ RecordsInv /\ [Next]_vars => RecordsInv'
    BY RecordsStep
<1>4. RecordsInv => RecordsWereApproved
    BY DEF RecordsInv
<1> QED BY InitTypes, <1>1, <1>2, <1>3, <1>4, PTL DEF Spec

-----------------------------------------------------------------------------
(***************************************************************************)
(* What is reported as settled or written is at the destination, with      *)
(* either destination: an answer that a record exists stays true, because  *)
(* the destination forgets nothing.                                        *)
(***************************************************************************)
Answered(s) ==
    /\ sess[s].pc = "called" /\ sess[s].outcome = "existing" => Key(s) \in crm
    /\ sess[s].pc = "flushed" => sess[s].status # "written"

BehindInv == RecordBehindSuccess /\ \A s \in Sessions : Answered(s)

\* What a step has to show.
LEMMA BehindFrame ==
    ASSUME BehindInv, crm \subseteq crm',
           \A k \in Keys : write'[k] = "succeeded" => write[k] = "succeeded" \/ k \in crm',
           \A d \in Docs : doc'[d].status = "written" =>
               \/ /\ doc[d].status = "written"
                  /\ doc'[d].hash \in {doc[d].hash, NoHash}
               \/ doc'[d].hash \in Hashes /\ <<d, doc'[d].hash>> \in crm',
           \A t \in Sessions : sess'[t] = sess[t] \/ Answered(t)'
    PROVE  BehindInv'
<1>1. RecordBehindSuccess'
    BY DEF BehindInv, RecordBehindSuccess
<1>2. ASSUME NEW t \in Sessions PROVE Answered(t)'
    BY DEF BehindInv, Answered, Key
<1> QED BY <1>1, <1>2 DEF BehindInv

\* A session moves on, without a record and without a settled write.
LEMMA BehindMove ==
    ASSUME BehindInv, NEW s \in Sessions, UNCHANGED <<doc, write, crm>>,
           \A t \in Sessions \ {s} : sess'[t] = sess[t],
           sess'[s].pc \notin {"called", "flushed"}
    PROVE  BehindInv'
<1>1. Answered(s)'
    BY DEF Answered
<1> QED BY <1>1, BehindFrame

LEMMA BehindStep == TypeInv /\ BehindInv /\ [Next]_vars => BehindInv'
<1> SUFFICES ASSUME TypeInv, BehindInv, [Next]_vars PROVE BehindInv'
    OBVIOUS
<1>here. /\ sess \in [Sessions -> Session]
         /\ doc \in [Docs -> Document]
         /\ write \in [Keys -> WriteStatuses]
         /\ \A s \in Sessions : SessionOK(s) /\ Answered(s)
    BY DEF TypeInv, TypeOK, BehindInv
<1>end. ASSUME NEW s \in Sessions, sess' = End(s)
        PROVE  \A t \in Sessions : sess'[t] = sess[t] \/ Answered(t)'
    <2>1. sess'[s] = Idle /\ \A t \in Sessions \ {s} : sess'[t] = sess[t]
        BY <1>end, <1>here DEF End
    <2> QED BY <2>1, IdleIsASession DEF Answered
<1>1. CASE UNCHANGED vars
    BY <1>1, BehindFrame DEF vars
<1>2. ASSUME NEW d \in Docs, Receive(d) PROVE BehindInv'
    <2>1. \A e \in Docs : doc'[e].status = "written" =>
              doc[e].status = "written" /\ doc'[e].hash \in {doc[e].hash, NoHash}
        BY <1>2, <1>here DEF Receive, Document
    <2> QED BY <1>2, <2>1, BehindFrame DEF Receive
<1>3. ASSUME NEW d \in Docs, Expire(d) PROVE BehindInv'
    BY <1>3, BehindFrame DEF Expire
<1>4. ASSUME NEW s \in Sessions, NEW d \in Docs,
             NEW pc \in {"extracting", "approving", "writing"},
             Begin(s, d, pc)
      PROVE  BehindInv'
    <2>1. sess'[s].pc = pc /\ \A t \in Sessions \ {s} : sess'[t] = sess[t]
        BY <1>4, <1>here DEF Begin, Idle
    <2> QED BY <1>4, <2>1, BehindMove DEF Begin
<1>5. ASSUME NEW s \in Sessions, NEW hash \in Hashes \cup {NoHash}, ProviderAnswers(s, hash)
      PROVE  BehindInv'
    <2>1. sess'[s].pc = "recorded" /\ \A t \in Sessions \ {s} : sess'[t] = sess[t]
        BY <1>5, <1>here DEF ProviderAnswers, Session
    <2> QED BY <1>5, <2>1, BehindMove DEF ProviderAnswers
<1> SUFFICES ASSUME NEW s \in Sessions,
                    Step(s) \/ WriteRaises(s) \/ Abort(s),
                    ~ \E hash \in Hashes \cup {NoHash} : ProviderAnswers(s, hash)
             PROVE  BehindInv'
    <2>1. CASE UNCHANGED vars \/ \E d \in Docs : Receive(d) \/ Expire(d)
        BY <1>1, <1>2, <1>3, <2>1
    <2>2. ASSUME NEW t \in Sessions, NEW d \in Docs,
                 ExtractBegin(t, d) \/ ApproveBegin(t, d) \/ WriteBegin(t, d)
          PROVE  BehindInv'
        BY <1>4, <2>2 DEF ExtractBegin, ApproveBegin, WriteBegin
    <2>3. ASSUME NEW t \in Sessions, Step(t) \/ WriteRaises(t) \/ Abort(t)
          PROVE  BehindInv'
        BY <1>5, <2>3
    <2> QED BY <2>1, <2>2, <2>3 DEF Next
<1>6. CASE ProviderRaises(s) \/ ApproveTurnedAway(s) \/ WriteTurnedAway(s) \/ Abort(s)
    <2>1. sess' = End(s) /\ UNCHANGED <<doc, extraction, approval, write, crm>>
        BY <1>6 DEF ProviderRaises, ApproveTurnedAway, WriteTurnedAway, Abort
    <2> QED BY <1>end, <2>1, BehindFrame
<1>7. CASE ExtractFlush(s)
    <2>1. /\ sess'[s].pc = "flushed" /\ sess'[s].status # "written"
          /\ \A t \in Sessions \ {s} : sess'[t] = sess[t]
        BY <1>7, FlushMoves
    <2>2. Answered(s)'
        BY <2>1 DEF Answered
    <2> QED BY <1>7, <2>1, <2>2, BehindFrame DEF ExtractFlush
<1>8. CASE ApproveRead(s) \/ WriteGate(s) \/ WriteClaim(s)
    <2>1. CASE ApproveRead(s)
        <3>1. sess'[s].pc = "reading" /\ \A t \in Sessions \ {s} : sess'[t] = sess[t]
            BY <1>here, <2>1 DEF ApproveRead, Session
        <3> QED BY <2>1, <3>1, BehindMove DEF ApproveRead
    <2>2. CASE WriteGate(s)
        <3>1. sess'[s].pc = "gated" /\ \A t \in Sessions \ {s} : sess'[t] = sess[t]
            BY <1>here, <2>2 DEF WriteGate, Session
        <3> QED BY <2>2, <3>1, BehindMove DEF WriteGate
    <2>3. CASE WriteClaim(s)
        <3>1. sess'[s].pc = "claimed" /\ \A t \in Sessions \ {s} : sess'[t] = sess[t]
            BY <1>here, <2>3 DEF WriteClaim, Session
        <3> QED BY <2>3, <3>1, BehindMove DEF WriteClaim
    <2> QED BY <1>8, <2>1, <2>2, <2>3
<1>9. CASE ApproveCheck(s)
    <2>1. /\ sess'[s].pc = "checked"
          /\ \A t \in Sessions \ {s} : sess'[t] = sess[t]
        <3>1. CASE \E at \in 1 .. MaxStamp :
                      sess' = [sess EXCEPT ![s].pc = "checked",
                                 ![s].status = "approved", ![s].row.at = at]
            BY <1>here, <3>1 DEF Session
        <3>2. CASE sess' = [sess EXCEPT ![s].pc = "checked", ![s].status = "needs_review"]
            BY <1>here, <3>2 DEF Session
        <3> QED BY <1>9, <3>1, <3>2 DEF ApproveCheck, FreeStamps
    <2> QED BY <1>9, <2>1, BehindMove DEF ApproveCheck
<1>10. CASE ExtractCommit(s)
    <2>1. sess' = End(s) /\ UNCHANGED <<write, crm>> /\ sess[s].status # "written"
        BY <1>10, <1>here DEF ExtractCommit, Answered
    <2>2. ASSUME NEW d \in Docs, doc'[d].status = "written"
          PROVE  doc[d].status = "written" /\ doc'[d].hash \in {doc[d].hash, NoHash}
        <3>1. CASE d # sess[s].doc
            BY <1>10, <1>here, <2>2, <3>1 DEF ExtractCommit
        <3>2. CASE d = sess[s].doc
            BY <1>10, <1>here, <2>1, <2>2, <3>2, ExtractedWrites DEF ExtractCommit, SessionOK
        <3> QED BY <3>1, <3>2
    <2> QED BY <1>end, <2>1, <2>2, BehindFrame
<1>11. CASE ApproveCommit(s)
    <2>1. sess' = End(s) /\ UNCHANGED <<write, crm>>
        BY <1>11 DEF ApproveCommit
    <2>2. ASSUME NEW d \in Docs, doc'[d].status = "written"
          PROVE  doc[d].status = "written" /\ doc'[d].hash \in {doc[d].hash, NoHash}
        <3>1. CASE d # sess[s].doc
            BY <1>11, <1>here, <2>2, <3>1 DEF ApproveCommit
        <3>2. CASE d = sess[s].doc
            BY <1>11, <1>here, <2>2, <3>2 DEF ApproveCommit, Document
        <3> QED BY <3>1, <3>2
    <2> QED BY <1>end, <2>1, <2>2, BehindFrame
<1>12. CASE CreateRecord(s) \/ CallDestination(s)
    <2>1. PICK outcome :
              /\ sess' = [sess EXCEPT ![s].pc = "called", ![s].outcome = outcome]
              /\ outcome = "existing" => Key(s) \in crm
        <3>1. CASE CreateRecord(s)
            <4> DEFINE answer == Insertion(Key(s))
            <4>1. sess' = [sess EXCEPT ![s].pc = "called", ![s].outcome = answer]
                BY <3>1 DEF CreateRecord
            <4>2. answer = "existing" => Key(s) \in crm
                BY DEF Insertion
            <4> HIDE DEF answer
            <4> QED BY <4>1, <4>2
        <3>2. CASE CallDestination(s)
            <4>1. CASE sess' = [sess EXCEPT ![s].pc = "called",
                         ![s].outcome = IF Key(s) \in crm THEN "existing" ELSE "created"]
                <5> DEFINE answer == IF Key(s) \in crm THEN "existing" ELSE "created"
                <5>1. /\ sess' = [sess EXCEPT ![s].pc = "called", ![s].outcome = answer]
                      /\ answer = "existing" => Key(s) \in crm
                    BY <4>1
                <5> HIDE DEF answer
                <5> QED BY <5>1
            <4>2. CASE sess' = [sess EXCEPT ![s].pc = "called",
                                            ![s].outcome = "unavailable"]
                <5> DEFINE answer == "unavailable"
                <5>1. /\ sess' = [sess EXCEPT ![s].pc = "called", ![s].outcome = answer]
                      /\ answer = "existing" => Key(s) \in crm
                    BY <4>2
                <5> HIDE DEF answer
                <5> QED BY <5>1
            <4> QED BY <3>2, <4>1, <4>2 DEF CallDestination
        <3> QED BY <1>12, <3>1, <3>2
    <2>2. crm \subseteq crm' /\ UNCHANGED <<doc, write>>
        BY <1>12 DEF CreateRecord, CallDestination
    <2>3. /\ sess'[s].pc = "called" /\ sess'[s].outcome = outcome
          /\ sess'[s].doc = sess[s].doc /\ sess'[s].loaded = sess[s].loaded
          /\ \A t \in Sessions \ {s} : sess'[t] = sess[t]
        BY <1>here, <2>1 DEF Session
    <2>4. Answered(s)'
        BY <2>1, <2>2, <2>3 DEF Answered, Key
    <2> QED BY <2>2, <2>3, <2>4, BehindFrame
<1>13. CASE WriteSucceeds(s)
    <2> DEFINE me == sess[s]
    <2>1. /\ sess' = End(s) /\ me.doc \in Docs /\ me.loaded.hash \in Hashes
          /\ Key(s) = <<me.doc, me.loaded.hash>> /\ Key(s) \in Keys
        BY <1>13, <1>here DEF WriteSucceeds, SessionOK, Writing, Key, Keys
    <2>2. crm \subseteq crm' /\ Key(s) \in crm'
        BY <1>13, <1>here DEF WriteSucceeds, Answered
    <2>3. \A k \in Keys : write'[k] = "succeeded" => write[k] = "succeeded" \/ k \in crm'
        BY <1>13, <1>here, <2>1, <2>2 DEF WriteSucceeds
    <2>4. doc' = [doc EXCEPT ![me.doc] = MarkWritten(doc[me.doc], me.loaded.hash)]
        BY <1>13 DEF WriteSucceeds
    <2>5. ASSUME NEW d \in Docs, doc'[d].status = "written", doc'[d] # doc[d]
          PROVE  doc'[d].hash \in Hashes /\ <<d, doc'[d].hash>> \in crm'
        <3>1. d = me.doc /\ doc'[d] = MarkWritten(doc[d], me.loaded.hash)
            BY <1>here, <2>4, <2>5
        <3>2. doc'[d].hash = me.loaded.hash
            BY <1>here, <2>5, <3>1 DEF MarkWritten, Document
        <3> QED BY <2>1, <2>2, <3>1, <3>2
    <2> QED BY <1>end, <2>1, <2>2, <2>3, <2>5, BehindFrame
<1>14. CASE WriteFails(s)
    <2>1. \A k \in Keys : write'[k] = "succeeded" => write[k] = "succeeded"
        BY <1>14, <1>here DEF WriteFails, Net
    <2> QED BY <1>14, <1>end, <2>1, BehindFrame DEF WriteFails
<1>15. CASE WriteRaises(s)
    <2>1. /\ sess' = End(s) /\ UNCHANGED doc /\ crm \subseteq crm'
          /\ \A k \in Keys : write'[k] = "succeeded" => write[k] = "succeeded"
        BY <1>15, <1>here DEF WriteRaises
    <2> QED BY <1>end, <2>1, BehindFrame
<1> QED BY <1>6, <1>7, <1>8, <1>9, <1>10, <1>11, <1>12, <1>13, <1>14, <1>15 DEF Step

\* No write is reported that the destination does not hold.
THEOREM RecordsBehindSuccess == Spec => []RecordBehindSuccess
<1>1. Init => BehindInv
    BY DEF Init, BehindInv, RecordBehindSuccess, Answered, Idle, NoDocument
<1>2. BehindInv => RecordBehindSuccess
    BY DEF BehindInv
<1> QED BY InitTypes, TypesStep, <1>1, BehindStep, <1>2, PTL DEF Spec

-----------------------------------------------------------------------------
\* The destination that shares the caller's transaction.

Called(s) == sess[s].pc = "called"
Invoice(s) == BusinessKey[sess[s].loaded.hash]

\* A write that was loaded as settled is settled, and an extraction does not
\* make a document written.
LoadedOK(s) ==
    /\ Writing(s) /\ sess[s].write = "succeeded" => write[Key(s)] = "succeeded"
    /\ sess[s].pc = "flushed" => sess[s].status # "written"

\* What the destination answered still holds.
CallOK(s) ==
    Called(s) =>
        /\ sess[s].outcome \in {"created", "existing", "rejected"}
        /\ sess[s].outcome = "created" => \A k \in crm : BusinessKey[k[2]] # Invoice(s)
        /\ sess[s].outcome = "existing" => Key(s) \in crm
        /\ sess[s].outcome = "rejected" => Key(s) \notin crm

Apart(s, t) ==
    Called(s) /\ Called(t) =>
        /\ Key(s) # Key(t)
        /\ sess[s].outcome = "created" /\ sess[t].outcome = "created"
             => Invoice(s) # Invoice(t)

WriteInv ==
    /\ OneRecordPerInvoice
    /\ LedgersAgree
    /\ WrittenIsBacked
    /\ \A s \in Sessions : LoadedOK(s) /\ CallOK(s)
    /\ \A s, t \in Sessions : s # t => Apart(s, t)

SettledKept == \A k \in Keys : write[k] = "succeeded" => write'[k] = "succeeded"
SameSettled == \A k \in Keys : write'[k] = "succeeded" <=> write[k] = "succeeded"

-----------------------------------------------------------------------------
\* A step that adds no record and settles no write, and after which every
\* session is as it was or not at its call.
LEMMA QuietFrame ==
    ASSUME TypeInv, WriteInv, TypeInv', SameSettled, UNCHANGED crm,
           \A d \in Docs : doc'[d].status = "written" =>
               doc[d].status = "written" /\ doc'[d].hash \in {doc[d].hash, NoHash},
           \A t \in Sessions : sess'[t] = sess[t] \/ (~Called(t)' /\ LoadedOK(t)')
    PROVE  WriteInv' /\ SettledKept
<1>1. OneRecordPerInvoice' /\ LedgersAgree' /\ SettledKept
    BY DEF WriteInv, OneRecordPerInvoice, LedgersAgree, SameSettled, SettledKept
<1>2. WrittenIsBacked'
    <2> SUFFICES ASSUME NEW d \in Docs, doc'[d].status = "written"
                 PROVE  \E h \in Hashes : /\ doc'[d].hash \in {h, NoHash}
                                          /\ <<d, h>> \in crm'
                                          /\ write'[<<d, h>>] = "succeeded"
        BY DEF WrittenIsBacked
    <2>1. PICK h \in Hashes : /\ doc[d].hash \in {h, NoHash} /\ <<d, h>> \in crm
                              /\ write[<<d, h>>] = "succeeded"
        BY DEF WriteInv, WrittenIsBacked
    <2>2. <<d, h>> \in Keys
        BY DEF Keys
    <2>3. doc'[d].hash \in {h, NoHash}
        BY <2>1
    <2> QED BY <2>1, <2>2, <2>3 DEF SameSettled
<1>3. ASSUME NEW t \in Sessions PROVE LoadedOK(t)' /\ CallOK(t)'
    <2>1. CASE sess'[t] = sess[t]
        <3>1. Writing(t) => Key(t) \in Keys
            BY DEF TypeInv, SessionOK, Key, Keys, Writing
        <3> QED BY <2>1, <3>1
            DEF WriteInv, LoadedOK, CallOK, Called, Writing, Key, Invoice, SameSettled
    <2>2. CASE ~Called(t)' /\ LoadedOK(t)'
        BY <2>2 DEF CallOK
    <2> QED BY <2>1, <2>2
<1>4. ASSUME NEW s \in Sessions, NEW t \in Sessions, s # t PROVE Apart(s, t)'
    <2>1. CASE sess'[s] = sess[s] /\ sess'[t] = sess[t]
        BY <1>4, <2>1 DEF WriteInv, Apart, Called, Key, Invoice
    <2>2. CASE ~Called(s)' \/ ~Called(t)'
        BY <2>2 DEF Apart
    <2> QED BY <2>1, <2>2
<1> QED BY <1>1, <1>2, <1>3, <1>4 DEF WriteInv

\* The destination answers.
LEMMA CreateRecordKeeps ==
    ASSUME TypeInv, WriteInv, NEW s \in Sessions, CreateRecord(s)
    PROVE  WriteInv' /\ SettledKept
<1>1. /\ sess[s].pc = "claimed" /\ Writing(s)
      /\ UNCHANGED <<doc, extraction, approval, write, crm>>
      /\ sess' = [sess EXCEPT ![s].pc = "called", ![s].outcome = Insertion(Key(s))]
    BY DEF CreateRecord, Writing
<1>2. /\ sess'[s].pc = "called" /\ sess'[s].outcome = Insertion(Key(s))
      /\ sess'[s].doc = sess[s].doc /\ sess'[s].loaded = sess[s].loaded
      /\ sess'[s].write = sess[s].write
      /\ \A t \in Sessions \ {s} : sess'[t] = sess[t]
    BY <1>1 DEF TypeInv, TypeOK, Session
<1>3. Key(s)[2] = sess[s].loaded.hash /\ Key(s)' = Key(s) /\ Invoice(s)' = Invoice(s)
    BY <1>2 DEF Key, Invoice
<1>4. LoadedOK(s)' /\ CallOK(s)'
    <2>1. LoadedOK(s)'
        BY <1>1, <1>2, <1>3 DEF LoadedOK, WriteInv, Writing
    <2>2. CallOK(s)'
        <3>1. /\ (Insertion(Key(s)) = "existing" => Key(s) \in crm)
              /\ (Insertion(Key(s)) = "rejected" => Key(s) \notin crm)
              /\ (Insertion(Key(s)) = "created" =>
                   \A k \in crm : BusinessKey[k[2]] # BusinessKey[Key(s)[2]])
              /\ Insertion(Key(s)) \in {"created", "existing", "rejected"}
            BY DEF Insertion
        <3> QED BY <1>1, <1>2, <1>3, <3>1 DEF CallOK, Invoice
    <2> QED BY <2>1, <2>2
<1>5. ASSUME NEW t \in Sessions \ {s} PROVE LoadedOK(t)' /\ CallOK(t)'
    <2>1. /\ sess'[t] = sess[t] /\ LoadedOK(t) /\ CallOK(t)
          /\ write' = write /\ crm' = crm
        BY <1>1, <1>2 DEF WriteInv
    <2>2. Key(t)' = Key(t) /\ Invoice(t)' = Invoice(t)
        BY <2>1 DEF Key, Invoice
    <2>3. LoadedOK(t)'
        BY <2>1, <2>2 DEF LoadedOK, Writing
    <2>4. CallOK(t)'
        BY <2>1, <2>2 DEF CallOK, Called
    <2> QED BY <2>3, <2>4
<1>6. ASSUME NEW t \in Sessions \ {s}, Called(t)
      PROVE  /\ Key(t) # Key(s)
             /\ sess[t].outcome = "created" => Invoice(t) # Invoice(s)
    BY <1>6 DEF CreateRecord, Called, Invoice
<1>7. ASSUME NEW t \in Sessions, NEW u \in Sessions, t # u PROVE Apart(t, u)'
    <2>1. CASE t # s /\ u # s
        BY <1>2, <1>7, <2>1 DEF WriteInv, Apart, Called, Key, Invoice
    <2>2. CASE t = s \/ u = s
        BY <1>2, <1>3, <1>6, <1>7, <2>2 DEF Apart, Called, Key, Invoice
    <2> QED BY <2>1, <2>2
<1>8. OneRecordPerInvoice' /\ LedgersAgree' /\ WrittenIsBacked' /\ SettledKept
    BY <1>1 DEF WriteInv, OneRecordPerInvoice, LedgersAgree, WrittenIsBacked, SettledKept
<1> QED BY <1>4, <1>5, <1>7, <1>8 DEF WriteInv

\* The write commits.
LEMMA WriteSucceedsKeeps ==
    ASSUME TypeInv, WriteInv, NEW s \in Sessions, WriteSucceeds(s)
    PROVE  WriteInv' /\ SettledKept
<1> DEFINE me == sess[s]
           K == Key(s)
<1>1. /\ Called(s) /\ Writing(s) /\ me.outcome \in {"created", "existing"}
      /\ me.doc \in Docs /\ me.loaded.hash \in Hashes
      /\ K \in Keys /\ K = <<me.doc, me.loaded.hash>>
    BY DEF WriteSucceeds, TypeInv, SessionOK, Writing, Called, Key, Keys
<1>2. /\ sess' = End(s) /\ crm' = crm \cup {K}
      /\ write' = [write EXCEPT ![K] = Net(@, me.write, "succeeded")]
    <2>1. me.outcome = "existing" => crm \cup {K} = crm
        BY <1>1 DEF WriteInv, CallOK
    <2> QED BY <1>1, <2>1 DEF WriteSucceeds
<1>3. write'[K] = "succeeded" /\ \A k \in Keys \ {K} : write'[k] = write[k]
    BY <1>1, <1>2 DEF TypeInv, TypeOK, WriteInv, LoadedOK, Net
<1>4. SettledKept /\ LedgersAgree'
    BY <1>1, <1>2, <1>3 DEF SettledKept, WriteInv, LedgersAgree
<1>5. OneRecordPerInvoice'
    <2>1. CASE me.outcome = "existing"
        BY <1>1, <1>2, <2>1 DEF WriteInv, CallOK, OneRecordPerInvoice
    <2>2. CASE me.outcome = "created"
        <3>1. \A k \in crm : BusinessKey[k[2]] # BusinessKey[K[2]]
            BY <1>1, <2>2 DEF WriteInv, CallOK, Invoice
        <3>2. \A k1, k2 \in crm : BusinessKey[k1[2]] = BusinessKey[k2[2]] => k1 = k2
            BY DEF WriteInv, OneRecordPerInvoice
        <3> HIDE DEF K
        <3> QED BY <1>2, <3>1, <3>2 DEF OneRecordPerInvoice
    <2> QED BY <1>1, <2>1, <2>2
<1>6. WrittenIsBacked'
    <2>key. crm' \subseteq Keys
        BY <1>1, <1>2 DEF TypeInv, TypeOK
    <2> SUFFICES ASSUME NEW d \in Docs, doc'[d].status = "written"
                 PROVE  \E h \in Hashes : doc'[d].hash \in {h, NoHash} /\ <<d, h>> \in crm'
        BY <1>4, <2>key DEF WrittenIsBacked, LedgersAgree
    <2>1. doc' = [doc EXCEPT ![me.doc] = MarkWritten(doc[me.doc], me.loaded.hash)]
        BY DEF WriteSucceeds
    <2>2. CASE doc'[d] = doc[d]
        BY <1>2, <2>2 DEF WriteInv, WrittenIsBacked
    <2>3. CASE doc'[d] # doc[d]
        <3>1. d = me.doc /\ doc'[d] = MarkWritten(doc[d], me.loaded.hash)
            BY <2>1, <2>3 DEF TypeInv, TypeOK
        <3>2. doc'[d].hash = me.loaded.hash
            BY <2>3, <3>1 DEF MarkWritten, TypeInv, TypeOK, Document
        <3> QED BY <1>1, <1>2, <3>1, <3>2
    <2> QED BY <2>2, <2>3
<1>7. sess'[s] = Idle /\ \A t \in Sessions \ {s} : sess'[t] = sess[t]
    BY <1>2 DEF End, TypeInv, TypeOK
<1>8. LoadedOK(s)' /\ ~Called(s)'
    BY <1>7, IdleIsASession DEF LoadedOK, Called, Writing
<1>9. ASSUME NEW t \in Sessions \ {s} PROVE LoadedOK(t)' /\ CallOK(t)'
    <2>1. /\ sess'[t] = sess[t] /\ Key(t)' = Key(t) /\ Invoice(t)' = Invoice(t)
          /\ Writing(t) => Key(t) \in Keys
        BY <1>7 DEF Key, Invoice, TypeInv, SessionOK, Keys, Writing
    <2>2. LoadedOK(t)'
        BY <1>4, <2>1 DEF WriteInv, LoadedOK, Writing, SettledKept
    <2>3. CASE Called(t)
        <3>1. /\ Key(t) # K
              /\ me.outcome = "created" /\ sess[t].outcome = "created"
                   => Invoice(s) # Invoice(t)
            BY <1>1, <2>3 DEF WriteInv, Apart
        <3>2. sess[t].outcome = "created" => BusinessKey[K[2]] # Invoice(t)
            <4>1. CASE me.outcome = "created"
                BY <1>1, <3>1, <4>1 DEF Invoice
            <4>2. CASE me.outcome = "existing"
                BY <1>1, <2>3, <4>2 DEF WriteInv, CallOK
            <4> QED BY <1>1, <4>1, <4>2
        <3> QED BY <1>2, <2>1, <2>2, <2>3, <3>1, <3>2 DEF WriteInv, CallOK, Called
    <2>4. CASE ~Called(t)
        BY <2>1, <2>2, <2>4 DEF CallOK, Called
    <2> QED BY <2>3, <2>4
<1>10. ASSUME NEW t \in Sessions, NEW u \in Sessions, t # u PROVE Apart(t, u)'
    BY <1>7, <1>8, <1>10 DEF WriteInv, Apart, Called, Key, Invoice
<1> QED BY <1>4, <1>5, <1>6, <1>8, <1>9, <1>10 DEF WriteInv, CallOK

\* The write is refused.
LEMMA WriteFailsKeeps ==
    ASSUME TypeInv, WriteInv, TypeInv', Destination = "database",
           NEW s \in Sessions, WriteFails(s)
    PROVE  WriteInv' /\ SettledKept
<1> DEFINE K == Key(s)
<1>1. /\ Called(s) /\ Writing(s) /\ sess[s].outcome \in {"rejected", "unavailable"}
      /\ sess' = End(s) /\ UNCHANGED <<doc, crm>> /\ K \in Keys
    BY DEF WriteFails, TypeInv, SessionOK, Writing, Called, Key, Keys
<1>2. write[K] # "succeeded"
    BY <1>1 DEF WriteInv, CallOK, LedgersAgree
<1>3. sess[s].write # "succeeded"
    BY <1>1, <1>2 DEF WriteInv, LoadedOK
<1>4. SameSettled
    <2>1. CASE write' = write
        BY <2>1 DEF SameSettled
    <2>2. CASE write' = [write EXCEPT ![K] = Net(@, sess[s].write, "failed")]
        <3>1. write'[K] # "succeeded"
            BY <1>1, <1>2, <2>2 DEF Net, TypeInv, TypeOK
        <3>2. \A k \in Keys \ {K} : write'[k] = write[k]
            BY <2>2 DEF TypeInv, TypeOK
        <3> QED BY <1>2, <3>1, <3>2 DEF SameSettled
    <2> QED BY <2>1, <2>2 DEF WriteFails
<1>5. ASSUME NEW t \in Sessions
      PROVE  sess'[t] = sess[t] \/ (~Called(t)' /\ LoadedOK(t)')
    <2>1. sess'[s] = Idle /\ \A u \in Sessions \ {s} : sess'[u] = sess[u]
        BY <1>1 DEF End, TypeInv, TypeOK
    <2> QED BY <2>1, IdleIsASession DEF Called, LoadedOK, Writing
<1> QED BY <1>1, <1>4, <1>5, QuietFrame

\* A session that moves, and the tables of the writes that do not.
LEMMA QuietMove ==
    ASSUME TypeInv, WriteInv, TypeInv', NEW s \in Sessions,
           UNCHANGED <<write, crm>>,
           \A d \in Docs : doc'[d].status = "written" =>
               doc[d].status = "written" /\ doc'[d].hash \in {doc[d].hash, NoHash},
           \A t \in Sessions \ {s} : sess'[t] = sess[t],
           ~Called(s)', LoadedOK(s)'
    PROVE  WriteInv' /\ SettledKept
<1>1. SameSettled
    BY DEF SameSettled
<1> QED BY <1>1, QuietFrame

LEMMA QuietEnd ==
    ASSUME TypeInv, WriteInv, TypeInv', NEW s \in Sessions,
           UNCHANGED <<write, crm>>,
           \A d \in Docs : doc'[d].status = "written" =>
               doc[d].status = "written" /\ doc'[d].hash \in {doc[d].hash, NoHash},
           sess' = End(s)
    PROVE  WriteInv' /\ SettledKept
<1>1. sess'[s] = Idle /\ \A t \in Sessions \ {s} : sess'[t] = sess[t]
    BY DEF End, TypeInv, TypeOK
<1>2. ~Called(s)' /\ LoadedOK(s)'
    BY <1>1, IdleIsASession DEF Called, LoadedOK, Writing
<1> QED BY <1>1, <1>2, QuietMove

LEMMA WriteStep ==
    ASSUME Destination = "database", TypeInv, WriteInv, [Next]_vars
    PROVE  WriteInv' /\ SettledKept
<1> USE TypesStep
<1>here. /\ doc \in [Docs -> Document]
         /\ sess \in [Sessions -> Session]
         /\ write \in [Keys -> WriteStatuses]
         /\ \A s \in Sessions : SessionOK(s) /\ LoadedOK(s)
    BY DEF TypeInv, TypeOK, WriteInv
<1>types. TypeInv'
    OBVIOUS
<1>1. CASE UNCHANGED vars
    BY <1>1, <1>types, QuietFrame DEF vars, SameSettled
<1>2. ASSUME NEW d \in Docs, Receive(d) PROVE WriteInv' /\ SettledKept
    <2>1. \A e \in Docs : doc'[e].status = "written" =>
              doc[e].status = "written" /\ doc'[e].hash \in {doc[e].hash, NoHash}
        BY <1>2, <1>here DEF Receive, Document
    <2> QED BY <1>2, <1>types, <2>1, QuietFrame DEF Receive, SameSettled
<1>3. ASSUME NEW d \in Docs, Expire(d) PROVE WriteInv' /\ SettledKept
    BY <1>3, <1>types, QuietFrame DEF Expire, SameSettled
<1>4. ASSUME NEW s \in Sessions, NEW d \in Docs,
             NEW pc \in {"extracting", "approving", "writing"},
             Begin(s, d, pc)
      PROVE  WriteInv' /\ SettledKept
    <2>1. sess'[s].pc = pc /\ \A t \in Sessions \ {s} : sess'[t] = sess[t]
        BY <1>4, <1>here DEF Begin, Idle
    <2>2. ~Called(s)' /\ LoadedOK(s)'
        BY <2>1 DEF Called, LoadedOK, Writing
    <2> QED BY <1>4, <1>types, <2>1, <2>2, QuietMove DEF Begin
<1>5. ASSUME NEW s \in Sessions, NEW hash \in Hashes \cup {NoHash}, ProviderAnswers(s, hash)
      PROVE  WriteInv' /\ SettledKept
    <2>1. sess'[s].pc = "recorded" /\ \A t \in Sessions \ {s} : sess'[t] = sess[t]
        BY <1>5, <1>here DEF ProviderAnswers, Session
    <2>2. ~Called(s)' /\ LoadedOK(s)'
        BY <2>1 DEF Called, LoadedOK, Writing
    <2> QED BY <1>5, <1>types, <2>1, <2>2, QuietMove DEF ProviderAnswers
<1> SUFFICES ASSUME NEW s \in Sessions,
                    Step(s) \/ WriteRaises(s) \/ Abort(s),
                    ~ \E hash \in Hashes \cup {NoHash} : ProviderAnswers(s, hash)
             PROVE  WriteInv' /\ SettledKept
    <2>1. CASE UNCHANGED vars \/ \E d \in Docs : Receive(d) \/ Expire(d)
        BY <1>1, <1>2, <1>3, <2>1
    <2>2. ASSUME NEW t \in Sessions, NEW d \in Docs,
                 ExtractBegin(t, d) \/ ApproveBegin(t, d) \/ WriteBegin(t, d)
          PROVE  WriteInv' /\ SettledKept
        BY <1>4, <2>2 DEF ExtractBegin, ApproveBegin, WriteBegin
    <2>3. ASSUME NEW t \in Sessions, Step(t) \/ WriteRaises(t) \/ Abort(t)
          PROVE  WriteInv' /\ SettledKept
        BY <1>5, <2>3
    <2> QED BY <2>1, <2>2, <2>3 DEF Next
<1>6. CASE ProviderRaises(s) \/ ApproveTurnedAway(s) \/ WriteTurnedAway(s) \/ Abort(s)
    <2>1. sess' = End(s) /\ UNCHANGED <<doc, extraction, approval, write, crm>>
        BY <1>6 DEF ProviderRaises, ApproveTurnedAway, WriteTurnedAway, Abort
    <2> QED BY <1>types, <2>1, QuietEnd
<1>7. CASE ExtractFlush(s) \/ ApproveRead(s) \/ ApproveCheck(s)
    <2>1. CASE ExtractFlush(s)
        <3>1. /\ sess'[s].pc = "flushed" /\ sess'[s].status # "written"
              /\ \A t \in Sessions \ {s} : sess'[t] = sess[t]
            BY <2>1, FlushMoves
        <3>2. ~Called(s)' /\ LoadedOK(s)'
            BY <3>1 DEF Called, LoadedOK, Writing
        <3> QED BY <1>types, <2>1, <3>1, <3>2, QuietMove DEF ExtractFlush
    <2>2. CASE ApproveRead(s)
        <3>1. /\ sess'[s].pc = "reading"
              /\ \A t \in Sessions \ {s} : sess'[t] = sess[t]
            BY <1>here, <2>2 DEF ApproveRead, Session
        <3>2. ~Called(s)' /\ LoadedOK(s)'
            BY <3>1 DEF Called, LoadedOK, Writing
        <3> QED BY <1>types, <2>2, <3>1, <3>2, QuietMove DEF ApproveRead
    <2>3. CASE ApproveCheck(s)
        <3>1. /\ sess'[s].pc = "checked"
              /\ \A t \in Sessions \ {s} : sess'[t] = sess[t]
            <4>1. CASE \E at \in 1 .. MaxStamp :
                          sess' = [sess EXCEPT ![s].pc = "checked",
                                     ![s].status = "approved", ![s].row.at = at]
                BY <1>here, <4>1 DEF Session
            <4>2. CASE sess' = [sess EXCEPT ![s].pc = "checked",
                                            ![s].status = "needs_review"]
                BY <1>here, <4>2 DEF Session
            <4> QED BY <2>3, <4>1, <4>2 DEF ApproveCheck, FreeStamps
        <3>2. ~Called(s)' /\ LoadedOK(s)'
            BY <3>1 DEF Called, LoadedOK, Writing
        <3> QED BY <1>types, <2>3, <3>1, <3>2, QuietMove DEF ApproveCheck
    <2> QED BY <1>7, <2>1, <2>2, <2>3
<1>8. CASE ExtractCommit(s)
    <2>1. sess' = End(s) /\ UNCHANGED <<write, crm>> /\ sess[s].status # "written"
        BY <1>8, <1>here DEF ExtractCommit, LoadedOK
    <2>2. ASSUME NEW d \in Docs, doc'[d].status = "written"
          PROVE  doc[d].status = "written" /\ doc'[d].hash \in {doc[d].hash, NoHash}
        <3>1. CASE d # sess[s].doc
            BY <1>8, <1>here, <2>2, <3>1 DEF ExtractCommit
        <3>2. CASE d = sess[s].doc
            BY <1>8, <1>here, <2>1, <2>2, <3>2, ExtractedWrites DEF ExtractCommit, SessionOK
        <3> QED BY <3>1, <3>2
    <2> QED BY <1>types, <2>1, <2>2, QuietEnd
<1>9. CASE ApproveCommit(s)
    <2>1. sess' = End(s) /\ UNCHANGED <<write, crm>>
        BY <1>9 DEF ApproveCommit
    <2>2. ASSUME NEW d \in Docs, doc'[d].status = "written"
          PROVE  doc[d].status = "written" /\ doc'[d].hash \in {doc[d].hash, NoHash}
        <3>1. CASE d # sess[s].doc
            BY <1>9, <1>here, <2>2, <3>1 DEF ApproveCommit
        <3>2. CASE d = sess[s].doc
            BY <1>9, <1>here, <2>2, <3>2 DEF ApproveCommit, Document
        <3> QED BY <3>1, <3>2
    <2> QED BY <1>types, <2>1, <2>2, QuietEnd
<1>10. CASE WriteGate(s)
    <2>1. /\ sess'[s].pc = "gated" /\ sess'[s].write = write[Key(s)]
          /\ sess'[s].doc = sess[s].doc /\ sess'[s].loaded = sess[s].loaded
          /\ \A t \in Sessions \ {s} : sess'[t] = sess[t]
        BY <1>10, <1>here DEF WriteGate, Session
    <2>2. UNCHANGED <<doc, write, crm>>
        BY <1>10 DEF WriteGate
    <2>3. ~Called(s)' /\ LoadedOK(s)'
        BY <2>1, <2>2 DEF Called, LoadedOK, Writing, Key
    <2> QED BY <1>types, <2>1, <2>2, <2>3, QuietMove
<1>11. CASE WriteClaim(s)
    <2>1. /\ sess'[s].pc = "claimed" /\ sess[s].pc = "gated"
          /\ sess'[s].write \in {write[Key(s)], sess[s].write}
          /\ sess'[s].doc = sess[s].doc /\ sess'[s].loaded = sess[s].loaded
          /\ \A t \in Sessions \ {s} : sess'[t] = sess[t]
        BY <1>11, <1>here DEF WriteClaim, Session
    <2>2. UNCHANGED <<doc, write, crm>>
        BY <1>11 DEF WriteClaim
    <2>3. ~Called(s)' /\ LoadedOK(s)'
        BY <1>here, <2>1, <2>2 DEF Called, LoadedOK, Writing, Key
    <2> QED BY <1>types, <2>1, <2>2, <2>3, QuietMove
<1>12. ~CallDestination(s)
    BY DEF CallDestination
\* A row inserted as pending was not there, so it was not settled.
<1>13. CASE WriteRaises(s)
    <2>1. /\ sess' = End(s) /\ UNCHANGED <<doc, crm>> /\ SameSettled
        BY <1>13, <1>here DEF WriteRaises, SameSettled
    <2>2. ASSUME NEW t \in Sessions
          PROVE  sess'[t] = sess[t] \/ (~Called(t)' /\ LoadedOK(t)')
        <3>1. sess'[s] = Idle /\ \A u \in Sessions \ {s} : sess'[u] = sess[u]
            BY <1>here, <2>1 DEF End
        <3> QED BY <3>1, IdleIsASession DEF Called, LoadedOK, Writing
    <2> QED BY <1>types, <2>1, <2>2, QuietFrame
<1> QED BY <1>6, <1>7, <1>8, <1>9, <1>10, <1>11, <1>12, <1>13, <1>types,
           CreateRecordKeeps, WriteSucceedsKeeps, WriteFailsKeeps DEF Step

LEMMA InitWrites == Init => WriteInv
BY IdleIsASession DEF Init, WriteInv, OneRecordPerInvoice, LedgersAgree,
   WrittenIsBacked, LoadedOK, CallOK, Apart, Called, Writing, NoDocument

LEMMA WritesHold ==
    ASSUME Destination = "database"
    PROVE  Spec => [](TypeInv /\ WriteInv)
<1>1. TypeInv /\ WriteInv /\ [Next]_vars => (TypeInv /\ WriteInv)'
    BY TypesStep, WriteStep
<1> QED BY InitTypes, InitWrites, <1>1, PTL DEF Spec

-----------------------------------------------------------------------------
\* The destination holds one record of an invoice.
THEOREM OneRecord ==
    ASSUME Destination = "database"
    PROVE  Spec => []OneRecordPerInvoice
<1>1. WriteInv => OneRecordPerInvoice
    BY DEF WriteInv
<1> QED BY WritesHold, <1>1, PTL

\* A record is there exactly where our write is settled.
THEOREM LedgersAlwaysAgree ==
    ASSUME Destination = "database"
    PROVE  Spec => []LedgersAgree
<1>1. WriteInv => LedgersAgree
    BY DEF WriteInv
<1> QED BY WritesHold, <1>1, PTL

\* A written document has its record and its settled write.
THEOREM WrittenIsAlwaysBacked ==
    ASSUME Destination = "database"
    PROVE  Spec => []WrittenIsBacked
<1>1. WriteInv => WrittenIsBacked
    BY DEF WriteInv
<1> QED BY WritesHold, <1>1, PTL

\* No step unsettles a settled write.
THEOREM SettledWritesStay ==
    ASSUME Destination = "database"
    PROVE  Spec => SettledStaysSettled
<1>1. TypeInv /\ WriteInv /\ [Next]_vars
        => [\A k \in Keys : write[k] = "succeeded" => write'[k] = "succeeded"]_vars
    BY WriteStep DEF SettledKept
<1> QED BY WritesHold, <1>1, PTL DEF Spec, SettledStaysSettled

-----------------------------------------------------------------------------
(***************************************************************************)
(* DocumentFlow implements WriteLedger, with either destination: every     *)
(* step of a handler is a step of the ledger or none.                      *)
(*                                                                         *)
(* Most steps change neither the records nor the approvals, and make no    *)
(* document written: the ledger may only hide something.  Three do more:   *)
(* an approval commits, an external destination takes a record, a write    *)
(* commits.  What has to be known of them are the invariants proved        *)
(* before: a write past its gate has its approval (Backed), an answer that *)
(* a record exists is true (Answered), and DatabaseCrm never answers       *)
(* "created" where the invoice has a record (CallOK).                      *)
(***************************************************************************)

ApprovedKeys == {k \in Keys : \E a \in approval[k[1]] : a.hash = k[2]}
ShownKeys == {k \in Keys : doc[k[1]] = [status |-> "written", hash |-> k[2]]}

LedgerInv ==
    /\ TypeInv
    /\ RecordsInv
    /\ BehindInv
    /\ Destination = "database" => WriteInv

LedgerStep == [WLedger!Next]_(WLedger!vars)

-----------------------------------------------------------------------------
\* A step that adds no record and no approval, and after which a document is
\* written only as it was before or without its hash.
LEMMA HideFrame ==
    ASSUME UNCHANGED crm, ApprovedKeys' = ApprovedKeys,
           \A d \in Docs : doc'[d].status = "written" =>
               doc'[d] = doc[d] \/ doc'[d].hash = NoHash
    PROVE  LedgerStep
<1>1. ASSUME NEW k \in ShownKeys' PROVE k \in ShownKeys
    <2>1. k \in Keys /\ k[1] \in Docs /\ k[2] # NoHash
        BY FlowAssumption DEF ShownKeys, Keys
    <2>2. doc'[k[1]] = [status |-> "written", hash |-> k[2]]
        BY DEF ShownKeys
    <2>3. doc'[k[1]].status = "written" /\ doc'[k[1]].hash = k[2]
        BY <2>2
    <2>4. doc'[k[1]] = doc[k[1]]
        BY <2>1, <2>3
    <2> QED BY <2>1, <2>2, <2>4 DEF ShownKeys
<1>2. ShownKeys' \subseteq ShownKeys
    BY <1>1
<1>3. WLedger!Hide
    BY <1>2 DEF WLedger!Hide, ApprovedKeys, ShownKeys
<1> QED BY <1>3 DEF LedgerStep, WLedger!Next

\* A step that leaves the approvals alone.
LEMMA SameApprovals ==
    ASSUME UNCHANGED approval PROVE ApprovedKeys' = ApprovedKeys
BY DEF ApprovedKeys

\* The status of one document changes, and not to written.
LEMMA OneDocument ==
    ASSUME TypeInv, NEW d \in Docs, NEW row, row.status # "written",
           doc' = [doc EXCEPT ![d] = row]
    PROVE  \A e \in Docs : doc'[e].status = "written" => doc'[e] = doc[e]
BY DEF TypeInv, TypeOK

-----------------------------------------------------------------------------
\* An approval commits.
LEMMA ApprovalIsALedgerStep ==
    ASSUME LedgerInv, NEW s \in Sessions, ApproveCommit(s)
    PROVE  LedgerStep
<1> DEFINE me == sess[s]
<1>1. /\ me.pc = "checked" /\ me.doc \in Docs /\ me.row.hash \in Hashes
      /\ UNCHANGED crm
      /\ doc \in [Docs -> Document]
    BY DEF ApproveCommit, LedgerInv, TypeInv, TypeOK, SessionOK
<1>2. CASE me.status = "needs_review"
    <2>1. /\ doc' = [doc EXCEPT ![me.doc].status = "needs_review"]
          /\ UNCHANGED approval
        BY <1>2 DEF ApproveCommit
    <2>2. ASSUME NEW e \in Docs, doc'[e].status = "written" PROVE doc'[e] = doc[e]
        BY <1>1, <2>1, <2>2 DEF Document
    <2> QED BY <1>1, <2>1, <2>2, SameApprovals, HideFrame
<1>3. CASE me.status = "approved"
    <2> DEFINE new == [at |-> me.row.at, hash |-> me.row.hash, expired |-> FALSE]
               row == [status |-> "approved",
                       hash |-> Net(doc[me.doc].hash, me.loaded.hash, me.row.hash)]
    <2>1. /\ approval' = [approval EXCEPT ![me.doc] = @ \cup {new}]
          /\ doc' = [doc EXCEPT ![me.doc] = row]
        BY <1>3 DEF ApproveCommit
    <2>2. PICK key \in Keys : key = <<me.doc, me.row.hash>>
        BY <1>1 DEF Keys
    <2>3. me.row.hash \notin Blocked
        BY <1>1, <1>3 DEF LedgerInv, RecordsInv, Backed
    <2>4. row.status # "written" /\ new.hash = me.row.hash
        OBVIOUS
    <2> HIDE DEF new, row
    <2>5. \A e \in Docs : doc'[e].status = "written" => doc'[e] = doc[e]
        BY <1>1, <2>1, <2>4, OneDocument DEF LedgerInv
    <2>6. ShownKeys' \subseteq ShownKeys
        BY <2>5 DEF ShownKeys, Keys
    <2>7. ASSUME NEW k \in Keys
          PROVE  (\E a \in approval'[k[1]] : a.hash = k[2])
                   <=> (\E a \in approval[k[1]] : a.hash = k[2]) \/ k = key
        <3>1. k[1] \in Docs /\ k = <<k[1], k[2]>>
            BY DEF Keys
        <3>2. CASE k[1] = me.doc
            <4>1. approval'[k[1]] = approval[k[1]] \cup {new}
                BY <1>1, <2>1, <3>2 DEF LedgerInv, TypeInv, TypeOK
            <4>2. new.hash = k[2] <=> k = key
                BY <2>2, <2>4, <3>1, <3>2
            <4> HIDE DEF me
            <4> QED BY <4>1, <4>2
        <3>3. CASE k[1] # me.doc
            <4>1. approval'[k[1]] = approval[k[1]]
                BY <1>1, <2>1, <3>1, <3>3 DEF LedgerInv, TypeInv, TypeOK
            <4>2. k # key
                BY <2>2, <3>3
            <4> QED BY <4>1, <4>2
        <3> QED BY <3>2, <3>3
    <2> HIDE DEF me
    <2>8. ApprovedKeys' = ApprovedKeys \cup {key}
        <3>1. ASSUME NEW k \in Keys
              PROVE  k \in ApprovedKeys' <=> k \in ApprovedKeys \cup {key}
            BY <2>7 DEF ApprovedKeys
        <3>2. ApprovedKeys \subseteq Keys /\ ApprovedKeys' \subseteq Keys
            BY DEF ApprovedKeys, Keys
        <3> QED BY <2>2, <3>1, <3>2
    <2>9. key[2] \notin Blocked
        BY <2>2, <2>3
    <2>10. WLedger!Approve(key)
        BY <1>1, <2>2, <2>6, <2>8, <2>9
           DEF WLedger!Approve, ApprovedKeys, ShownKeys
    <2> QED BY <2>2, <2>10 DEF LedgerStep, WLedger!Next
<1> QED BY <1>2, <1>3 DEF ApproveCommit

-----------------------------------------------------------------------------
\* A step that records the key of an approved write, or finds it recorded, and
\* at most makes the document of that key written.
LEMMA RecordFrame ==
    ASSUME LedgerInv, NEW K \in Keys, K \in ApprovedKeys,
           UNCHANGED approval,
           crm' = crm \/ crm' = crm \cup {K},
           ShownKeys' \in {ShownKeys, ShownKeys \cup {K}},
           K \notin crm' => ShownKeys' = ShownKeys,
           K \notin crm /\ K \in crm' /\ Destination = "database"
             => \A other \in crm : BusinessKey[other[2]] # BusinessKey[K[2]]
    PROVE  LedgerStep
<1>1. ApprovedKeys' = ApprovedKeys /\ crm \subseteq Keys
    BY SameApprovals DEF LedgerInv, TypeInv, TypeOK
<1>2. CASE K \notin crm /\ K \in crm'
    <2>1. crm' = crm \cup {K}
        BY <1>2
    <2> DEFINE invoice == [k \in Keys |-> BusinessKey[k[2]]]
    <2>2. Destination = "database" => \A other \in crm : invoice[other] # invoice[K]
        BY <1>1, <1>2
    <2>3. WLedger!Record(K)
        BY <1>1, <1>2, <2>1, <2>2 DEF WLedger!Record, ApprovedKeys, ShownKeys
    <2> QED BY <2>3 DEF LedgerStep, WLedger!Next
<1>3. CASE K \in crm
    <2>1. crm' = crm
        BY <1>3
    <2>2. CASE ShownKeys' = ShownKeys
        <3>1. WLedger!Hide
            BY <1>1, <2>1, <2>2 DEF WLedger!Hide, ApprovedKeys, ShownKeys
        <3> QED BY <3>1 DEF LedgerStep, WLedger!Next
    <2>3. CASE ShownKeys' = ShownKeys \cup {K}
        <3>1. WLedger!Show(K)
            BY <1>1, <1>3, <2>1, <2>3 DEF WLedger!Show, ApprovedKeys, ShownKeys
        <3> QED BY <3>1 DEF LedgerStep, WLedger!Next
    <2> QED BY <2>2, <2>3
<1>4. CASE K \notin crm'
    <2>1. crm' = crm
        BY <1>4
    <2>2. WLedger!Hide
        BY <1>1, <1>4, <2>1 DEF WLedger!Hide, ApprovedKeys, ShownKeys
    <2> QED BY <2>2 DEF LedgerStep, WLedger!Next
<1> QED BY <1>2, <1>3, <1>4

\* The key of a write past its gate.
LEMMA WritersAreApproved ==
    ASSUME LedgerInv, NEW s \in Sessions, Writing(s)
    PROVE  /\ Key(s) \in Keys /\ Key(s) \in ApprovedKeys
           /\ Key(s)[1] = sess[s].doc /\ Key(s)[2] = sess[s].loaded.hash
           /\ sess[s].doc \in Docs
<1>1. /\ sess[s].doc \in Docs /\ sess[s].loaded.hash \in Hashes
      /\ \E a \in approval[sess[s].doc] : a.hash = sess[s].loaded.hash
    BY DEF LedgerInv, TypeInv, SessionOK, RecordsInv, Backed, Writing
<1> QED BY <1>1 DEF Key, Keys, ApprovedKeys

\* An external destination answers, and holds a new record or not.
LEMMA CallIsALedgerStep ==
    ASSUME LedgerInv, NEW s \in Sessions, CallDestination(s)
    PROVE  LedgerStep
<1>1. /\ Writing(s) /\ Destination = "external"
      /\ UNCHANGED <<doc, approval>>
      /\ crm' = crm \/ crm' = crm \cup {Key(s)}
    BY DEF CallDestination, Writing
<1>2. Destination # "database"
    BY <1>1
<1>3. ShownKeys' = ShownKeys
    BY <1>1 DEF ShownKeys
<1> QED BY <1>1, <1>2, <1>3, WritersAreApproved, RecordFrame

\* A call that raises may have left a record at an external destination.
LEMMA RaiseIsALedgerStep ==
    ASSUME LedgerInv, NEW s \in Sessions, WriteRaises(s)
    PROVE  LedgerStep
<1>1. /\ Writing(s) /\ UNCHANGED <<doc, approval>>
      /\ crm' = crm \/ crm' = crm \cup {Key(s)}
      /\ Destination = "database" => crm' = crm
    BY FlowAssumption DEF WriteRaises, Writing
<1>2. ShownKeys' = ShownKeys
    BY <1>1 DEF ShownKeys
<1> QED BY <1>1, <1>2, WritersAreApproved, RecordFrame

\* A write commits.
LEMMA WriteIsALedgerStep ==
    ASSUME LedgerInv, NEW s \in Sessions, WriteSucceeds(s)
    PROVE  LedgerStep
<1> DEFINE me == sess[s]
           K == Key(s)
           marked == MarkWritten(doc[me.doc], me.loaded.hash)
<1>1. /\ me.pc = "called" /\ me.outcome \in {"created", "existing"} /\ Writing(s)
      /\ UNCHANGED approval
      /\ crm' = IF me.outcome = "created" THEN crm \cup {K} ELSE crm
      /\ doc' = [doc EXCEPT ![me.doc] = marked]
    BY DEF WriteSucceeds, Writing
<1>2. /\ K \in Keys /\ K \in ApprovedKeys /\ me.doc \in Docs
      /\ K[1] = me.doc /\ K[2] = me.loaded.hash
    BY <1>1, WritersAreApproved
<1>3. K \in crm'
    BY <1>1 DEF LedgerInv, BehindInv, Answered
<1>4. doc \in [Docs -> Document]
    BY DEF LedgerInv, TypeInv, TypeOK
<1>5. marked = doc[me.doc] \/ marked = [status |-> "written", hash |-> me.loaded.hash]
    BY <1>2, <1>4 DEF MarkWritten, Document
<1>6. ASSUME K \notin crm, Destination = "database"
      PROVE  \A other \in crm : BusinessKey[other[2]] # BusinessKey[K[2]]
    <2>1. me.outcome = "created"
        BY <1>1, <1>3, <1>6
    <2> QED BY <1>1, <1>2, <1>6, <2>1 DEF LedgerInv, WriteInv, CallOK, Called, Invoice
<1> HIDE DEF marked, K, me
<1>7. CASE marked = doc[me.doc]
    <2>1. doc' = doc
        BY <1>1, <1>4, <1>7
    <2>2. ShownKeys' = ShownKeys
        BY <2>1 DEF ShownKeys
    <2> QED BY <1>1, <1>2, <1>3, <1>6, <2>2, RecordFrame
<1>8. CASE marked = [status |-> "written", hash |-> me.loaded.hash] /\ marked # doc[me.doc]
    <2>1. ASSUME NEW k \in Keys PROVE k \in ShownKeys' <=> k \in ShownKeys \cup {K}
        <3>1. k[1] \in Docs /\ k = <<k[1], k[2]>>
            BY DEF Keys
        <3>2. K = <<me.doc, me.loaded.hash>>
            BY <1>2 DEF Keys
        <3>3. CASE k[1] # me.doc
            <4>1. doc'[k[1]] = doc[k[1]] /\ k # K
                BY <1>1, <1>2, <1>4, <3>1, <3>3
            <4> QED BY <4>1 DEF ShownKeys
        <3>4. CASE k[1] = me.doc
            <4>1. doc'[k[1]] = marked
                BY <1>1, <1>2, <1>4, <3>4
            <4>2. doc[me.doc].status # "written"
                BY <1>2, <1>4, <1>8 DEF MarkWritten, marked, Document
            <4>3. k \notin ShownKeys
                BY <3>4, <4>2 DEF ShownKeys
            <4>4. k \in ShownKeys' <=> k[2] = me.loaded.hash
                BY <1>8, <4>1 DEF ShownKeys
            <4>5. k = K <=> k[2] = me.loaded.hash
                BY <3>1, <3>2, <3>4
            <4> QED BY <4>3, <4>4, <4>5
        <3> QED BY <3>3, <3>4
    <2>2. ShownKeys \subseteq Keys /\ ShownKeys' \subseteq Keys
        BY DEF ShownKeys, Keys
    <2>3. ShownKeys' = ShownKeys \cup {K}
        BY <1>2, <2>1, <2>2
    <2> QED BY <1>1, <1>2, <1>3, <1>6, <2>3, RecordFrame
<1> QED BY <1>5, <1>7, <1>8

-----------------------------------------------------------------------------
\* Every step of the handlers is a step of the ledger, or none.
LEMMA EveryStepIsALedgerStep ==
    ASSUME LedgerInv, [Next]_vars PROVE LedgerStep
<1>here. /\ TypeInv /\ doc \in [Docs -> Document] /\ approval \in [Docs -> SUBSET Approval]
    BY DEF LedgerInv, TypeInv, TypeOK
<1>1. CASE UNCHANGED <<doc, approval, crm>>
    BY <1>1, SameApprovals, HideFrame
<1>2. ASSUME NEW d \in Docs, Receive(d) PROVE LedgerStep
    <2>1. ASSUME NEW e \in Docs, doc'[e].status = "written" PROVE doc'[e] = doc[e]
        BY <1>2, <1>here, <2>1 DEF Receive, Document
    <2> QED BY <1>2, <2>1, SameApprovals, HideFrame DEF Receive
<1>3. ASSUME NEW d \in Docs, Expire(d) PROVE LedgerStep
    <2>1. PICK a \in approval[d] :
             approval' = [approval EXCEPT ![d] =
                            (@ \ {a}) \cup {[a EXCEPT !.expired = TRUE]}]
        BY <1>3 DEF Expire
    <2> DEFINE late == [a EXCEPT !.expired = TRUE]
    <2>2. late.hash = a.hash
        BY <1>here, <2>1 DEF Approval
    <2> HIDE DEF late
    <2>3. ASSUME NEW e \in Docs, NEW hash
          PROVE  (\E b \in approval'[e] : b.hash = hash)
                   <=> (\E b \in approval[e] : b.hash = hash)
        <3>1. CASE e = d
            <4>1. approval'[e] = (approval[e] \ {a}) \cup {late}
                BY <1>here, <2>1, <3>1 DEF late
            <4> QED BY <2>1, <2>2, <3>1, <4>1
        <3>2. CASE e # d
            BY <1>here, <2>1, <3>2
        <3> QED BY <3>1, <3>2
    <2>4. ASSUME NEW k \in Keys PROVE k \in ApprovedKeys' <=> k \in ApprovedKeys
        <3>1. k[1] \in Docs
            BY DEF Keys
        <3> QED BY <2>3, <3>1 DEF ApprovedKeys
    <2>5. ApprovedKeys \subseteq Keys /\ ApprovedKeys' \subseteq Keys
        BY DEF ApprovedKeys, Keys
    <2>6. ApprovedKeys' = ApprovedKeys
        BY <2>4, <2>5
    <2> QED BY <1>3, <2>6, HideFrame DEF Expire
<1>4. ASSUME NEW s \in Sessions, ExtractCommit(s) PROVE LedgerStep
    <2> DEFINE me == sess[s]
               row == Extracted(doc[me.doc], me)
    <2>1. /\ me.doc \in Docs /\ me.status # "written"
          /\ me.loaded \in Document /\ me.status \in DocStatuses \ Early
          /\ doc[me.doc].status \in Early => me.loaded.status \in Early
          /\ UNCHANGED <<approval, crm>>
        BY <1>4, <1>here DEF ExtractCommit, LedgerInv, BehindInv, Answered, TypeInv,
           TypeOK, SessionOK, Session, Early
    <2>2. doc' = [doc EXCEPT ![me.doc] = row]
        BY <1>4 DEF ExtractCommit
    <2>3. row.status = "written" =>
              doc[me.doc].status = "written" /\ row.hash \in {doc[me.doc].hash, NoHash}
        BY <1>here, <2>1, ExtractedWrites
    <2>4. row \in Document /\ doc[me.doc] \in Document
        BY <1>here, <2>1, ExtractedType
    <2>5. row.status = "written" => row = doc[me.doc] \/ row.hash = NoHash
        BY <2>3, <2>4 DEF Document
    <2> HIDE DEF row, me
    <2>6. \A e \in Docs : doc'[e].status = "written" =>
              doc'[e] = doc[e] \/ doc'[e].hash = NoHash
        BY <1>here, <2>1, <2>2, <2>5
    <2> QED BY <2>1, <2>6, SameApprovals, HideFrame
<1>5. ASSUME NEW s \in Sessions, Step(s) PROVE LedgerStep
    <2>1. \/ UNCHANGED <<doc, approval, crm>>
          \/ ExtractCommit(s) \/ ApproveCommit(s) \/ CreateRecord(s)
          \/ CallDestination(s) \/ WriteSucceeds(s)
        BY <1>5 DEF Step, ProviderAnswers, ProviderRaises, ExtractFlush, ApproveRead,
           ApproveCheck, ApproveTurnedAway, WriteGate, WriteTurnedAway, WriteClaim,
           WriteFails
    <2>2. CreateRecord(s) => UNCHANGED <<doc, approval, crm>>
        BY DEF CreateRecord
    <2> QED BY <1>1, <1>4, <2>1, <2>2, ApprovalIsALedgerStep, CallIsALedgerStep,
               WriteIsALedgerStep
<1>6. ASSUME NEW s \in Sessions, NEW d \in Docs,
             ExtractBegin(s, d) \/ ApproveBegin(s, d) \/ WriteBegin(s, d)
      PROVE  LedgerStep
    BY <1>1, <1>6 DEF ExtractBegin, ApproveBegin, WriteBegin, Begin
<1>7. ASSUME NEW s \in Sessions, WriteRaises(s) \/ Abort(s) PROVE LedgerStep
    BY <1>1, <1>7, RaiseIsALedgerStep DEF Abort
<1>8. CASE UNCHANGED vars
    BY <1>1, <1>8 DEF vars
<1> QED BY <1>2, <1>3, <1>5, <1>6, <1>7, <1>8 DEF Next

LEMMA LedgerInvHolds == Spec => []LedgerInv
<1>1. Init => RecordsInv
    BY DEF Init, RecordsInv, RecordsWereApproved, ApprovalsPassed, Backed,
           Writing, Idle
<1>2. Init => BehindInv
    BY DEF Init, BehindInv, RecordBehindSuccess, Answered, Idle, NoDocument
<1>3. Init => LedgerInv
    BY <1>1, <1>2, InitTypes, InitWrites DEF LedgerInv
<1>4. LedgerInv /\ [Next]_vars => LedgerInv'
    BY TypesStep, RecordsStep, BehindStep, WriteStep DEF LedgerInv
<1> QED BY <1>3, <1>4, PTL DEF Spec

\* The handlers, in every interleaving and with either destination, implement
\* the ledger: a payload is approved before it is recorded, recorded once, and
\* recorded before it is shown as written.
THEOREM ImplementsWriteLedger == Spec => KeepsWriteLedger
<1>1. Init => WLedger!Init
    <2> SUFFICES ASSUME Init PROVE WLedger!Init
        OBVIOUS
    <2>1. \A k \in Keys : k[1] \in Docs
        BY DEF Keys
    <2>2. ApprovedKeys = {} /\ crm = {}
        BY <2>1 DEF Init, ApprovedKeys
    <2>3. \A d \in Docs : doc[d].status # "written"
        BY DEF Init, NoDocument
    <2>4. ShownKeys = {}
        BY <2>1, <2>3 DEF ShownKeys
    <2> QED BY <2>2, <2>4 DEF WLedger!Init, ApprovedKeys, ShownKeys
<1>2. LedgerInv /\ [Next]_vars => [WLedger!Next]_(WLedger!vars)
    BY EveryStepIsALedgerStep DEF LedgerStep
<1> QED BY LedgerInvHolds, <1>1, <1>2, PTL DEF Spec, KeepsWriteLedger, WLedger!Spec
=============================================================================
