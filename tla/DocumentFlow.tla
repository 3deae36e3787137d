---------------------------- MODULE DocumentFlow ----------------------------
(***************************************************************************)
(* The life of a document: extraction, validation, approval by a person    *)
(* and the write to the destination (app/services, app/repositories,       *)
(* app/providers/crm.py, and the routes and the worker that call them).    *)
(*                                                                         *)
(* A session is one request or one dispatched job: it runs one handler in  *)
(* one database transaction at READ COMMITTED.  A handler is cut into      *)
(* steps where another session may come between: after a row is loaded, a  *)
(* query is answered, a lock is taken or an outside call returns.  Queries *)
(* that follow each other are one step.  What a session has written is     *)
(* kept in its record until it commits; what it loaded stays in its cache, *)
(* and a flush writes the columns that differ from the cache (UnitOfWork). *)
(*                                                                         *)
(* A payload is its hash.  Hashes with one BusinessKey are versions or     *)
(* copies of one invoice; those in Blocked fail a rule that looks at the   *)
(* draft alone.                                                            *)
(***************************************************************************)
EXTENDS Integers, FiniteSets, UnitOfWork

CONSTANTS
    Docs,
    Sessions,
    Hashes,         \* payload hashes a provider may propose
    NoHash,         \* approved_payload_hash or payload_hash IS NULL
    BusinessKey,    \* supplier and invoice number of each payload
    Blocked,        \* payloads that fail a rule other than the duplicate rule
    Destination,    \* "database" (DatabaseCrm) or "external" (MockCrm)
    MayAbort,       \* may a transaction be lost before it commits?
    MaxExtractions, \* bound on the extractions of a document
    MaxApprovals,   \* bound on the approvals of a document
    MaxStamp        \* bound on the places in the order of a document's rows

ASSUME FlowAssumption ==
    /\ NoHash \notin Hashes
    /\ Blocked \subseteq Hashes
    /\ Destination \in {"database", "external"}
    /\ MayAbort \in BOOLEAN
    /\ MaxExtractions \in Nat
    /\ MaxApprovals \in Nat
    /\ MaxStamp \in Nat

VARIABLES
    doc,        \* the document table: status and approved_payload_hash
    extraction, \* the committed extraction rows of each document
    approval,   \* the committed approval rows of each document
    write,      \* status of the crm_write row of each key, "none" without row
    crm,        \* the keys under which the destination holds a record
    sess        \* what each session is doing

vars == <<doc, extraction, approval, write, crm, sess>>

COMMITTED_STATUSES == {"approved", "written"}

DocStatuses ==
    {"received", "extraction_failed", "extracted", "needs_review", "validated"}
      \cup COMMITTED_STATUSES

\* "absent": the document is not there yet.
Document == [status : DocStatuses \cup {"absent"}, hash : Hashes \cup {NoHash}]

\* A failed extraction has no payload.  at is the row's place in the order of
\* (created_at, id).
Extraction == [at : Nat, hash : Hashes \cup {NoHash}]
Approval == [at : Nat, hash : Hashes, expired : BOOLEAN]

\* idempotency_key(document_id, payload_hash) tells any two pairs apart.
Keys == Docs \X Hashes
WriteStatuses == {"none", "pending", "failed", "succeeded"}

Nothing == [at |-> 0, hash |-> NoHash]
NoDocument == [status |-> "absent", hash |-> NoHash]

\* A session: the handler step it has reached, its document, the document
\* row in its cache, the extraction or approval row it read or inserted, the
\* status it gives the document, the crm_write status it loaded, and how the
\* destination answered.
Session ==
    [ pc      : {"idle", "extracting", "recorded", "flushed",
                 "approving", "reading", "checked",
                 "writing", "gated", "claimed", "called"},
      doc     : Docs \cup {"none"},
      loaded  : Document,
      row     : [at : Nat, hash : Hashes \cup {NoHash}],
      status  : DocStatuses \cup {"absent"},
      write   : WriteStatuses,
      outcome : {"none", "created", "existing", "rejected", "unavailable"} ]

Idle == [ pc |-> "idle", doc |-> "none",
          loaded |-> NoDocument, row |-> Nothing, status |-> "absent",
          write |-> "none", outcome |-> "none" ]

Init ==
    /\ doc = [d \in Docs |-> NoDocument]
    /\ extraction = [d \in Docs |-> {}]
    /\ approval = [d \in Docs |-> {}]
    /\ write = [k \in Keys |-> "none"]
    /\ crm = {}
    /\ sess = [s \in Sessions |-> Idle]

-----------------------------------------------------------------------------
\* Sessions that run a handler on d and have got to one of these steps.
At(d, steps) == {s \in Sessions : sess[s].doc = d /\ sess[s].pc \in steps}

End(s) == [sess EXCEPT ![s] = Idle]

\* The row a query ordered by (created_at, id) DESC finds first.
Latest(rows, row) == row \in rows /\ \A other \in rows : other.at <= row.at

\* The places a new row may take: created_at is drawn from the clock of its own
\* process, and of rows stamped alike the random ids decide.
FreeStamps(used) == 1 .. MaxStamp \ used

\* The invoice numbers other documents have committed to.
CommittedNumbers(d) ==
    {BusinessKey[e.hash] : e \in UNION
        {{r \in extraction[o] : r.hash # NoHash /\ r.hash = doc[o].hash} :
            o \in {o \in Docs \ {d} : doc[o].status \in COMMITTED_STATUSES}}}

\* Mutant of Accepted: only the duplicate rule decides.
AcceptedUnlessCopied(d, hash) == BusinessKey[hash] \notin CommittedNumbers(d)

\* All rules pass, the duplicate rule against what is committed now.
Accepted(d, hash) ==
    hash \notin Blocked /\ BusinessKey[hash] \notin CommittedNumbers(d)

\* validate_extraction: where the rules send the document.
Routed(d, hash) == IF Accepted(d, hash) THEN "validated" ELSE "needs_review"

\* Does an extraction that was flushed hold the lock of its document row?  Its
\* first flush made the document EXTRACTED without an approved hash, or
\* EXTRACTION_FAILED, and updated the row if the cached one was not so already.
Locked(s) ==
    /\ sess[s].pc = "flushed"
    /\ IF sess[s].row.hash = NoHash
       THEN sess[s].loaded.status # "extraction_failed"
       ELSE sess[s].loaded # [status |-> "extracted", hash |-> NoHash]
DocFree(s, d) == \A t \in Sessions \ {s} : sess[t].doc = d => ~Locked(t)

\* The idempotency key of a write under way.
Key(s) == <<sess[s].doc, sess[s].loaded.hash>>

-----------------------------------------------------------------------------
\* create_document.
Receive(d) ==
    /\ doc[d].status = "absent"
    /\ doc' = [doc EXCEPT ![d].status = "received"]
    /\ UNCHANGED <<extraction, approval, write, crm, sess>>

\* A session starts a handler: it loads the document.
Begin(s, d, pc) ==
    /\ sess[s].pc = "idle"
    /\ doc[d].status # "absent"
    /\ sess' = [sess EXCEPT ![s] = [Idle EXCEPT !.pc = pc, !.doc = d,
                                               !.loaded = doc[d]]]
    /\ UNCHANGED <<doc, extraction, approval, write, crm>>

-----------------------------------------------------------------------------
(***************************************************************************)
(* Extraction and validation: extract_document, then validate_extraction   *)
(* in the same transaction.                                                *)
(***************************************************************************)
ExtractBegin(s, d) ==
    /\ Cardinality(extraction[d])
         + Cardinality(At(d, {"extracting", "recorded", "flushed"})) < MaxExtractions
    /\ Begin(s, d, "extracting")

\* The provider answers, and the extraction row is inserted.  NoHash is a
\* ProviderError or an output that fails the schema.
ProviderAnswers(s, hash) ==
    /\ sess[s].pc = "extracting"
    /\ LET d == sess[s].doc IN
       \E at \in FreeStamps({r.at : r \in extraction[d]} \cup
                   {sess[t].row.at : t \in At(d, {"recorded", "flushed"})}) :
          sess' = [sess EXCEPT ![s].pc = "recorded",
                               ![s].row = [at |-> at, hash |-> hash]]
    /\ UNCHANGED <<doc, extraction, approval, write, crm>>

\* The provider raises something that is not a ProviderError.  The request
\* is rolled back; a worker commits, but no extraction row was added.
ProviderRaises(s) ==
    /\ sess[s].pc = "extracting"
    /\ sess' = End(s)
    /\ UNCHANGED <<doc, extraction, approval, write, crm>>

\* The document row is updated, and after a success the rules decide where it
\* goes.  If one of them raises, a worker returns the exception and commits
\* EXTRACTED; the API is rolled back, as by Abort.
ExtractFlush(s) ==
    /\ sess[s].pc = "recorded"
    /\ LET d == sess[s].doc
           hash == sess[s].row.hash
       IN  \E status \in IF hash = NoHash THEN {"extraction_failed"}
                         ELSE {Routed(d, hash), "extracted"} :
              /\ sess' = [sess EXCEPT ![s].pc = "flushed", ![s].status = status]
              /\ Locked(s)' => DocFree(s, d)
    /\ UNCHANGED <<doc, extraction, approval, write, crm>>

\* Mutant of Extracted: a failed extraction does not mark its document.
ExtractedUnmarked(row, me) ==
    IF me.row.hash = NoHash THEN row
    ELSE [status |-> Net(Net(row.status, me.loaded.status, "extracted"),
                         "extracted", me.status),
          hash   |-> Net(row.hash, me.loaded.hash, NoHash)]

\* What the flushes of an extraction make of the document row.  A failure
\* leaves the approved hash; a success clears it and has two flushes, the
\* second of what the rules say.
Extracted(row, me) ==
    IF me.row.hash = NoHash
    THEN [row EXCEPT !.status = Net(@, me.loaded.status, me.status)]
    ELSE [status |-> Net(Net(row.status, me.loaded.status, "extracted"),
                         "extracted", me.status),
          hash   |-> Net(row.hash, me.loaded.hash, NoHash)]

\* The transaction commits; a second flush may be the first to need the row.
ExtractCommit(s) ==
    /\ sess[s].pc = "flushed"
    /\ LET me == sess[s] IN
       /\ me.status \in {"validated", "needs_review"} => DocFree(s, me.doc)
       /\ extraction' = [extraction EXCEPT ![me.doc] = @ \cup {me.row}]
       /\ doc' = [doc EXCEPT ![me.doc] = Extracted(@, me)]
    /\ sess' = End(s)
    /\ UNCHANGED <<approval, write, crm>>

-----------------------------------------------------------------------------
(***************************************************************************)
(* Approval: the two approve routes and approve_extraction.                *)
(***************************************************************************)
ApproveBegin(s, d) ==
    /\ Cardinality(approval[d])
         + Cardinality(At(d, {"approving", "reading", "checked"})) < MaxApprovals
    /\ Begin(s, d, "approving")

\* The route reads the latest extraction.
ApproveRead(s) ==
    /\ sess[s].pc = "approving"
    /\ \E row \in extraction[sess[s].doc] :
          /\ Latest(extraction[sess[s].doc], row)
          /\ sess' = [sess EXCEPT ![s].pc = "reading", ![s].row = row]
    /\ UNCHANGED <<doc, extraction, approval, write, crm>>

\* Sessions that have inserted an approval of d and not committed it.
Granting(d) == {t \in At(d, {"checked"}) : sess[t].status = "approved"}

\* The service finds the cached document validated and the extraction still
\* the latest, and runs the rules again: the approval row is inserted, or
\* the document is to go back to a person.
ApproveCheck(s) ==
    /\ sess[s].pc = "reading"
    /\ LET d == sess[s].doc
           hash == sess[s].row.hash
       IN  /\ sess[s].loaded.status = "validated"
           /\ Latest(extraction[d], sess[s].row)
           /\ hash # NoHash
           /\ \/ /\ Accepted(d, hash)
                 /\ \E at \in FreeStamps({a.at : a \in approval[d]} \cup
                                         {sess[t].row.at : t \in Granting(d)}) :
                      sess' = [sess EXCEPT ![s].pc = "checked",
                                  ![s].status = "approved", ![s].row.at = at]
              \/ /\ ~Accepted(d, hash)
                 /\ sess' = [sess EXCEPT ![s].pc = "checked",
                                ![s].status = "needs_review"]
    /\ UNCHANGED <<doc, extraction, approval, write, crm>>

\* The document row is updated, whatever it has become, and the transaction
\* commits; a refusal commits its status as well.
ApproveCommit(s) ==
    /\ sess[s].pc = "checked"
    /\ LET me == sess[s] IN
       /\ DocFree(s, me.doc)
       /\ \/ /\ me.status = "approved"
             /\ approval' = [approval EXCEPT ![me.doc] = @ \cup
                    {[at |-> me.row.at, hash |-> me.row.hash, expired |-> FALSE]}]
             /\ doc' = [doc EXCEPT ![me.doc] =
                    [status |-> "approved",
                     hash |-> Net(@.hash, me.loaded.hash, me.row.hash)]]
          \/ /\ me.status = "needs_review"
             /\ doc' = [doc EXCEPT ![me.doc].status = "needs_review"]
             /\ UNCHANGED approval
    /\ sess' = End(s)
    /\ UNCHANGED <<extraction, write, crm>>

\* The request ends without a change: there is nothing to approve, the page
\* shows another payload, the document is not validated, a newer extraction
\* has come, or the latest one has no draft.
ApproveTurnedAway(s) ==
    /\ LET rows == extraction[sess[s].doc] IN
       \/ /\ sess[s].pc = "approving"
          /\ \/ rows = {}
             \/ \E form \in Hashes : \E row \in rows :
                   Latest(rows, row) /\ row.hash # form
       \/ /\ sess[s].pc = "reading"
          /\ \/ sess[s].loaded.status # "validated"
             \/ ~Latest(rows, sess[s].row)
             \/ sess[s].row.hash = NoHash
    /\ sess' = End(s)
    /\ UNCHANGED <<doc, extraction, approval, write, crm>>

\* The time to live of an approval runs out.
Expire(d) ==
    /\ \E a \in approval[d] :
          /\ ~a.expired
          /\ approval' = [approval EXCEPT ![d] =
                            (@ \ {a}) \cup {[a EXCEPT !.expired = TRUE]}]
    /\ UNCHANGED <<doc, extraction, write, crm, sess>>

-----------------------------------------------------------------------------
(***************************************************************************)
(* The write to the destination: write_approved_record, claim_write,       *)
(* create_record, mark_written, and how each caller ends a failed one.     *)
(***************************************************************************)
WriteBegin(s, d) == Begin(s, d, "writing")

\* Not settled before, and the latest approval and the latest extraction are
\* of the payload the cached document was approved with.
MayWrite(s) ==
    LET d == sess[s].doc
        hash == sess[s].loaded.hash
    IN  /\ hash # NoHash
        /\ write[Key(s)] # "succeeded"
        /\ \E a \in approval[d] :
             Latest(approval[d], a) /\ a.hash = hash /\ ~a.expired
        /\ \E row \in extraction[d] :
             Latest(extraction[d], row) /\ row.hash = hash

WriteGate(s) ==
    /\ sess[s].pc = "writing"
    /\ MayWrite(s)
    /\ sess' = [sess EXCEPT ![s].pc = "gated", ![s].write = write[Key(s)]]
    /\ UNCHANGED <<doc, extraction, approval, write, crm>>

\* ApprovalMissing, ApprovalExpired, ExtractionSupersededError or
\* AlreadyWritten, or the replay of a settled write: nothing changes.
WriteTurnedAway(s) ==
    /\ sess[s].pc = "writing"
    /\ ~MayWrite(s)
    /\ sess' = End(s)
    /\ UNCHANGED <<doc, extraction, approval, write, crm>>

\* claim_write finds the row of the key or inserts it.  A row the gate has
\* loaded stays in the cache as it was.  An insertion waits for a rival that
\* has inserted the key and not yet ended.
Inserting(t) == sess[t].pc \in {"claimed", "called"} /\ sess[t].write = "none"
WriteClaim(s) ==
    /\ sess[s].pc = "gated"
    /\ \A t \in Sessions : Inserting(t) => Key(t) # Key(s)
    /\ sess' = [sess EXCEPT ![s].pc = "claimed",
           ![s].write = IF @ = "none" THEN write[Key(s)] ELSE @]
    /\ UNCHANGED <<doc, extraction, approval, write, crm>>

\* Mutants of Insertion: no unique business key; the idempotency key is not
\* looked up after a conflict.
InsertionByKey(key) == IF key \in crm THEN "existing" ELSE "created"
InsertionByInvoice(key) ==
    IF \E other \in crm : BusinessKey[other[2]] = BusinessKey[key[2]]
    THEN "rejected" ELSE "created"

\* What the unique constraints make of an INSERT under a key: the idempotency
\* key is looked up first, so a record already there is no failure.
Insertion(key) ==
    IF key \in crm THEN "existing"
    ELSE IF \E other \in crm : BusinessKey[other[2]] = BusinessKey[key[2]]
    THEN "rejected"
    ELSE "created"

\* Mutants of CreateRecord: the record is inserted on a connection of its own;
\* a rival's uncommitted record is not waited for; a rival with the invoice
\* that has only claimed its write is waited for.
CreateRecordAtOnce(s) ==
    /\ sess[s].pc = "claimed"
    /\ sess' = [sess EXCEPT ![s].pc = "called", ![s].outcome = Insertion(Key(s))]
    /\ crm' = IF Insertion(Key(s)) = "created" THEN crm \cup {Key(s)} ELSE crm
    /\ UNCHANGED <<doc, extraction, approval, write>>
CreateRecordUnseen(s) ==
    /\ sess[s].pc = "claimed"
    /\ sess' = [sess EXCEPT ![s].pc = "called", ![s].outcome = Insertion(Key(s))]
    /\ UNCHANGED <<doc, extraction, approval, write, crm>>
CreateRecordInTurn(s) ==
    /\ sess[s].pc = "claimed"
    /\ \A t \in Sessions \ {s} : sess[t].pc \in {"claimed", "called"} =>
          BusinessKey[sess[t].loaded.hash] # BusinessKey[sess[s].loaded.hash]
    /\ sess' = [sess EXCEPT ![s].pc = "called", ![s].outcome = Insertion(Key(s))]
    /\ UNCHANGED <<doc, extraction, approval, write, crm>>

\* DatabaseCrm.create_record, in the caller's transaction: the UPDATE of the
\* crm_write row waits for a rival's, and the INSERT of the record for a
\* rival's record with the same key or the same invoice.
CreateRecord(s) ==
    /\ Destination = "database"
    /\ sess[s].pc = "claimed"
    /\ \A t \in Sessions : sess[t].pc = "called" =>
          /\ Key(t) # Key(s)
          /\ sess[t].outcome = "created" =>
               BusinessKey[sess[t].loaded.hash] # BusinessKey[sess[s].loaded.hash]
    /\ sess' = [sess EXCEPT ![s].pc = "called", ![s].outcome = Insertion(Key(s))]
    /\ UNCHANGED <<doc, extraction, approval, write, crm>>

\* Mutant of CallDestination: a failed call passes for a record found.
CallDestinationLost(s) ==
    /\ sess[s].pc = "claimed"
    /\ sess' = [sess EXCEPT ![s].pc = "called", ![s].outcome = "existing"]
    /\ UNCHANGED <<doc, extraction, approval, write, crm>>

\* MockCrm.create_record: takes effect at once, knows keys only, may fail.
CallDestination(s) ==
    /\ Destination = "external"
    /\ sess[s].pc = "claimed"
    /\ \/ /\ crm' = crm \cup {Key(s)}
          /\ sess' = [sess EXCEPT ![s].pc = "called",
                 ![s].outcome = IF Key(s) \in crm THEN "existing" ELSE "created"]
       \/ /\ UNCHANGED crm
          /\ sess' = [sess EXCEPT ![s].pc = "called", ![s].outcome = "unavailable"]
    /\ UNCHANGED <<doc, extraction, approval, write>>

\* Mutant of MarkWritten: the UPDATE does not ask for the approved payload.
MarkedUnguarded(row, hash) ==
    IF row.status = "approved" THEN [row EXCEPT !.status = "written"] ELSE row

\* mark_written: the guarded UPDATE.
MarkWritten(row, hash) ==
    IF row.status = "approved" /\ row.hash = hash
    THEN [row EXCEPT !.status = "written"]
    ELSE row

\* The destination has the record.  The crm_write row is settled and the
\* document marked, and the transaction commits even if the mark found the
\* document in another state: that refusal is committed too.
WriteSucceeds(s) ==
    /\ sess[s].pc = "called"
    /\ sess[s].outcome \in {"created", "existing"}
    /\ LET me == sess[s]
           marked == MarkWritten(doc[me.doc], me.loaded.hash)
       IN  /\ marked # doc[me.doc] => DocFree(s, me.doc)
           /\ write' = [write EXCEPT ![Key(s)] = Net(@, me.write, "succeeded")]
           /\ crm' = IF me.outcome = "created" THEN crm \cup {Key(s)} ELSE crm
           /\ doc' = [doc EXCEPT ![me.doc] = marked]
    /\ sess' = End(s)
    /\ UNCHANGED <<extraction, approval>>

\* The destination has refused.  The worker and the review screen commit the
\* failure; the API's route raises an HTTPException and is rolled back.
WriteFails(s) ==
    /\ sess[s].pc = "called"
    /\ sess[s].outcome \in {"rejected", "unavailable"}
    /\ write' \in {write, [write EXCEPT ![Key(s)] = Net(@, sess[s].write, "failed")]}
    /\ sess' = End(s)
    /\ UNCHANGED <<doc, extraction, approval, crm>>

\* The call raises something that is not a CrmError.  A worker returns the
\* exception and commits, with the row its claim inserted still PENDING; an
\* external destination may have the record.  The routes are rolled back, as by
\* Abort.
WriteRaises(s) ==
    /\ sess[s].pc = "claimed"
    /\ write' = [write EXCEPT ![Key(s)] = IF @ = "none" THEN "pending" ELSE @]
    /\ crm' \in IF Destination = "external" THEN {crm, crm \cup {Key(s)}} ELSE {crm}
    /\ sess' = End(s)
    /\ UNCHANGED <<doc, extraction, approval>>

\* The transaction is lost: a crash, a dropped connection, a failed commit; or
\* a request is rolled back, because a rule or the destination raised.
Abort(s) ==
    /\ MayAbort
    /\ sess[s].pc # "idle"
    /\ sess' = End(s)
    /\ UNCHANGED <<doc, extraction, approval, write, crm>>

-----------------------------------------------------------------------------
\* What a session that has begun can do to come to its end.
Step(s) ==
    \/ \E hash \in Hashes \cup {NoHash} : ProviderAnswers(s, hash)
    \/ ProviderRaises(s)
    \/ ExtractFlush(s)
    \/ ExtractCommit(s)
    \/ ApproveRead(s)
    \/ ApproveCheck(s)
    \/ ApproveCommit(s)
    \/ ApproveTurnedAway(s)
    \/ WriteGate(s)
    \/ WriteTurnedAway(s)
    \/ WriteClaim(s)
    \/ CreateRecord(s)
    \/ CallDestination(s)
    \/ WriteSucceeds(s)
    \/ WriteFails(s)

Next ==
    \/ \E d \in Docs : Receive(d) \/ Expire(d)
    \/ \E s \in Sessions :
         \/ \E d \in Docs :
              \/ ExtractBegin(s, d)
              \/ ApproveBegin(s, d)
              \/ WriteBegin(s, d)
         \/ Step(s)
         \/ WriteRaises(s)
         \/ Abort(s)

Spec == Init /\ [][Next]_vars

\* A session that has begun goes on, and the database grants a lock that is
\* free again and again to one that waits for it (it queues the waiters).
FairSpec == Spec /\ \A s \in Sessions : SF_vars(Step(s))

-----------------------------------------------------------------------------
\* Every variable has its type, and a document that is still received has no
\* extraction and no approval, whatever races or fails.
\* (docs/runbook.md "received: no extraction has run"; extract_document, _fail)
TypeOK ==
    /\ doc \in [Docs -> Document]
    /\ extraction \in [Docs -> SUBSET Extraction]
    /\ approval \in [Docs -> SUBSET Approval]
    /\ write \in [Keys -> WriteStatuses]
    /\ crm \subseteq Keys
    /\ sess \in [Sessions -> Session]
    /\ \A d \in Docs : doc[d].status \in {"absent", "received"} =>
          doc[d].hash = NoHash /\ extraction[d] = {} /\ approval[d] = {}

\* The destination holds one record of an invoice, whichever documents,
\* versions, retries and racing writers it came through.
\* (docs/runbook.md "the destination's business key"; DatabaseCrm)
OneRecordPerInvoice ==
    \A k1, k2 \in crm : BusinessKey[k1[2]] = BusinessKey[k2[2]] => k1 = k2

\* A document that says it is written is: the payload it was approved with
\* has its record and its settled write.  (mark_written, claim_write)  An
\* extraction that raised, and whose document had been extracted without
\* validation before, may have taken the hash from a written document.
WrittenIsBacked ==
    \A d \in Docs : doc[d].status = "written" =>
        \E h \in Hashes : /\ doc[d].hash \in {h, NoHash}
                          /\ <<d, h>> \in crm
                          /\ write[<<d, h>>] = "succeeded"

\* Our account of the writes agrees with the destination's records, after
\* every crash and every race.  (crm_write and crm_record in one transaction)
LedgersAgree ==
    \A k \in Keys : k \in crm <=> write[k] = "succeeded"

\* What the destination holds, a person has approved, payload by payload, and
\* the rules have passed.  (approve_extraction, write_approved_record)
RecordsWereApproved ==
    \A k \in crm : /\ \E a \in approval[k[1]] : a.hash = k[2]
                  /\ k[2] \notin Blocked

\* Whatever the destination answers and however its answers cross, what we
\* report as settled or written is there.  (write_approved_record, MockCrm)
RecordBehindSuccess ==
    /\ \A k \in Keys : write[k] = "succeeded" => k \in crm
    /\ \A d \in Docs : doc[d].status = "written" =>
          \E h \in Hashes : doc[d].hash \in {h, NoHash} /\ <<d, h>> \in crm

\* With the destination in the database a settled write stays settled, however
\* late, doubled or unlucky the writers that still hold its key are.
\* (claim_write, DatabaseCrm.create_record)  An external destination may refuse
\* the second of two writers after it served the first: then it does not.
SettledStaysSettled ==
    [][\A k \in Keys : write[k] = "succeeded" => write'[k] = "succeeded"]_vars

\* No handler waits for ever on the locks and keys of the others.
HandlersEnd == \A s \in Sessions : sess[s].pc # "idle" ~> sess[s].pc = "idle"

-----------------------------------------------------------------------------
\* What approvals, records and statuses amount to for those who approve.
WLedger == INSTANCE WriteLedger WITH
    Acceptable <- {k \in Keys : k[2] \notin Blocked},
    Invoice    <- [k \in Keys |-> BusinessKey[k[2]]],
    Exclusive  <- Destination = "database",
    approved   <- {k \in Keys : \E a \in approval[k[1]] : a.hash = k[2]},
    recorded   <- crm,
    shown      <- {k \in Keys : doc[k[1]] = [status |-> "written", hash |-> k[2]]}

\* All the interleavings, retries and lost transactions of the handlers come to
\* this: approved before recorded, recorded once, recorded before shown.
KeepsWriteLedger == WLedger!Spec

-----------------------------------------------------------------------------
(***************************************************************************)
(* What the documentation says and the code does not keep.                 *)
(***************************************************************************)

\* docs/architecture.md:155 "approve_extraction refuses anything that is not
\* currently validated".
OnlyValidatedIsApproved ==
    [][\A d \in Docs :
         (doc'[d].status = "approved" /\ doc[d].status # "approved")
           => doc[d].status = "validated"]_vars

\* docs/architecture.md:171 "Zero rows affected means the document left the
\* approved state while the write was in flight, and the write is rejected".
RejectedWriteLeavesNoRecord ==
    [][\A k \in crm' \ crm :
         doc[k[1]].status = "approved" /\ doc[k[1]].hash = k[2]]_vars
=============================================================================
