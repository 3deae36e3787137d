# EvidenceFlow in TLA+

EvidenceFlow takes the text of an invoice through extraction by a language
model, validation, approval by a person and a write to a destination system
(the CRM).  Its promises are about what happens when these steps are run by
several requests and workers at once, when workers are lost and when steps are
retried: no unapproved payload is ever written, an invoice is recorded once,
what the database says of a write is what the destination holds, no job is
lost or run twice at the same time, and every process serves on a database that
is migrated and seeded.  This directory states those promises,
checks them with TLC on small instances, and proves the safety ones for
instances of every size.

- [The system](#the-system)
- [Modules](#modules)
- [How the models correspond to the code](#how-the-models-correspond-to-the-code)
- [Properties](#properties)
- [Runs and bounds](#runs-and-bounds)
- [Fairness](#fairness)
- [Proofs](#proofs)
- [Where the code and its documents differ](#where-the-code-and-its-documents-differ)
- [What is not modelled](#what-is-not-modelled)
- [Plan](#plan)

All paths are those of the repository.

## The system

| part | state it keeps | operations | talks to |
|---|---|---|---|
| job queue (`app/workflows/queue.py`, `app/domain/jobs.py`) | table `job`: status, attempts, `run_at`, lease, owner, failure kind | `enqueue`, `reclaim_expired`, `claim`, `succeed`, `fail`, `review_queue` | worker, job routes |
| worker (`app/workflows/worker.py`, `worker_process.py`) | the id of the job in hand; one thread or process each | `run_once` (claim, dispatch, settle: three transactions), `run_forever`, `drain` | queue, services |
| extraction (`app/services/extraction.py`) | table `extraction`; document status and approved hash | `extract_document` | provider, repositories |
| validation (`app/services/validation.py`, `app/domain/validation.py`) | table `validation_result`; document status | `validate_extraction`, the rules | repositories |
| approval (`app/services/approval.py`, `app/domain/approval.py`) | table `approval`; document status and approved hash | `approve_extraction`, expiry | validation rules, repositories |
| write gate (`app/services/crm_write.py`) | table `crm_write`; document status | `write_approved_record` | destination, repositories |
| destination (`app/providers/crm.py`) | table `crm_record` (DatabaseCrm) or a dictionary (MockCrm) | `create_record` | the caller's transaction, or none |
| repositories (`app/repositories`) | all tables, and the session's cache of loaded rows | queries, `claim_write`, `mark_written`, `session_scope` | database |
| routes and review screen (`app/api`) | none | create, extract, approve, write, queue a job | services, queue |
| providers (`app/providers`) | none | `extract`: answers, raises a `ProviderError`, or raises something else | the model's API |
| request limits (`app/api/limits.py`) | recent request times of each client | `SlidingWindow.allows` | every guarded route |
| start and seeding (`app/api/app.py`, `app/repositories/session.py`, `app/seed.py`) | documents and jobs | `create_schema`, `seed_documents` | repositories, queue |
| migrations (`app/migrate.py`, `migrations/`) | the schema and its revision | `upgrade head` | database |
| deployment (`scripts/start.sh`, `docker-compose.yml`, `Dockerfile`) | which processes run | start, restart, wait for the migration | start, migrations |
| evidence search and highlighting (`app/domain/evidence.py`, `app/api/highlight.py`) | none | locate a quote in a text, cut a text into segments | extraction, review screen |
| draft schema (`app/domain/schema.py`) | none | parse, canonicalise and hash a draft | extraction |

What is hard in it:

- Every handler loads a document at its start, decides by the loaded row, and
  updates by primary key at its end.  At READ COMMITTED another session may
  commit in between.  Only `mark_written` and `claim` repeat their condition
  in the UPDATE.
- The ORM writes the columns a handler *changed*: assigning a value that is
  already in the session's cache writes nothing, whatever the table now holds.
- A worker may be lost between any two of its three transactions, and a
  dispatch that has outlived its lease runs beside the one that replaced it.
- The destination's record is in the caller's transaction with `DatabaseCrm`,
  and outside every transaction with an external client.
- Which row is the latest goes by `created_at`, drawn before the commit.
- The provider's call, the longest step, is made inside the transaction.
- What goes wrong in a dispatch travels to the queue as a return value, so that
  the rows that explain it commit; in the API it travels as an exception, and
  some exceptions commit and others roll back.
- Processes that start together migrate, create tables and seed the same
  database, and any of them may be killed and started again on the way.

What makes each part correct: a job has one owner, a bounded number of attempts,
one final verdict, and gets it; an approval is of the payload a person saw and
the rules accept; the destination gets approved payloads only, and one record
per invoice; `crm_write`, `crm_record` and the document's status tell one story;
what passes the rules adds up and the rules, the repository and the destination
agree on which invoice it is; evidence that is shown is in the text and nothing
that is in the text is rejected; no client gets more than its share of requests;
the verdict on a job, the tables and the destination agree whoever was lost; a
database is migrated before it is served and seeded as a whole or not at all.

## Modules

| module | what it is |
|---|---|
| `UnitOfWork` | `Net`, the one rule of the ORM the models need: what a flush makes of a column, from the table's, the loaded and the assigned value |
| `JobLedger` | what the queue promises, without leases or retries: submit, take, let go, conclude |
| `JobQueue` | the job table and the workers that drain it; instantiates `JobLedger` under a refinement mapping (`KeepsLedger`) |
| `JobQueueProofs` | type correctness, and what survives workers that settle late; ownership, final verdicts, bounded retries and the refinement of `JobLedger`, when no dispatch outlasts its lease |
| `DocumentFlow` | extraction, validation, approval and write of documents by concurrent sessions, with either destination |
| `WriteLedger` | what the approval gate promises, without documents, sessions, rows or retries: approve, record, show, hide; `DocumentFlow` instantiates it under a refinement mapping (`KeepsWriteLedger`) |
| `DocumentFlowProofs` | type correctness, `RecordsWereApproved`, `RecordBehindSuccess` and the refinement of `WriteLedger`, for either destination; one record per invoice and the agreement of the tables, for `DatabaseCrm` |
| `Pipeline` | the composition: jobs of the queue (as `JobLedger`), workers, API and review screen on the documents they share, with workers and requests that are lost |
| `PipelineProofs` | what the queue says is on record, requests are answered, writes that landed are found again |
| `InvoiceRules` | the rules a draft must pass, and the key that says which invoice it is, for documents handled one after the other |
| `InvoiceRulesProofs` | accepted drafts add up, the worst line decides, accepted dates have one reading, approved payloads can be recorded |
| `Evidence` | the search for a quote in a text, and the page that marks what was found |
| `EvidenceProofs` | evidence is in the text, at its first place; the page is the text, and its marks are the evidence |
| `FoldLemmas` | induction over numbers, folds over sequences and the sorting of finite sets, for the two modules above |
| `RequestLimits` | the sliding window in front of the routes, beside the full history of requests it stands for |
| `RequestLimitsProofs` | the window never overflows, never refuses early and remembers no more than it must |
| `Startup` | migration, `create_all` and seeding by the processes of a deployment that start, crash and start again on one database |
| `StartupProofs` | the schema a deployment serves on, and seeding by any number of processes |
| `MC...` | constant definitions and symmetry for the runs |

The queue and the documents are composed on two levels.  `DocumentFlow` has the
interleavings: a handler is cut into the steps between which another session can
come, any number of sessions run handlers at any time, and so it covers what jobs
that run twice at once can do to a document.  `Pipeline` has the sequence: a
handler is one step, what is interleaved is the three transactions of a worker,
the losses between and inside them, and the requests of people.  Its queue is
`JobLedger`, each action that moves a job being an action of the ledger, and
`JobQueue` is proved to implement `JobLedger` as long as dispatches end within
their leases.  Dispatches that do not are the subject of `queue_late`.

```
JobQueue  --implements-->  JobLedger  <--is the queue of--  Pipeline
DocumentFlow  --implements-->  WriteLedger
```

`InvoiceRules` and `Evidence` open what these take as given: which payloads the
rules refuse, and which of them are the same invoice.  `RequestLimits` stands in
front of every route and shares no state with what is behind it.  `Startup` ends
where the others begin, with a process that serves.

Operators whose comment begins with "Mutant of" are faulty versions of the
operator after them.  Nothing uses them; put in its place, each one makes the
property it is listed with in `PROJECT.json` fail, which shows that the
property depends on that line of the code.

## How the models correspond to the code

### JobQueue

| model | code |
|---|---|
| `job[j]` | a row of `job`; `"absent"` before `enqueue` |
| `wait`, `lease` | ticks until `run_at` and `lease_expires_at`; 0 is due or expired, `NoLease` is NULL |
| `worker[w].pc` | idle; claimed (the claim is committed); dispatched (the dispatch is committed or rolled back and its error is known); loaded (the settle transaction has done `session.get`) |
| `Claim`, `ClaimNothing` | `Worker._claim`: `reclaim_expired`, then `claim`, one transaction |
| `Dispatch` | the second transaction: its error is chosen from the classes the retry policy can meet |
| `SettleLoad`, `SettleFlush` | the third transaction; the row it loads and the row it updates may differ |
| `Abandon` | a process that dies, or an exception that leaves `run_once`: the job keeps its lease |
| `Tick` | the clock |

The claim is one step because its UPDATE takes the write lock (SQLite), or the
candidate rows are read `FOR UPDATE SKIP LOCKED` (PostgreSQL).  Any due job may
be claimed, although `run_at` orders the candidates, since locked rows are
skipped.  `Backoff` is exact up to `Horizon`, and delays beyond it are equal.

### DocumentFlow

A session is one request or one dispatched job, in one transaction.  Its steps
are cut where another session can come between; what it writes stays in its
record until `...Commit`, `WriteSucceeds`, `WriteFails` or `WriteRaises` puts it in
the tables.

| handler | steps |
|---|---|
| extract (`_dispatch`, `extract_document`, `validate_extraction`) | `ExtractBegin` loads the document; `ProviderAnswers` inserts the extraction; `ExtractFlush` updates the document and runs the rules, which route it or raise; `ExtractCommit`. `ProviderRaises` is an exception that is not a `ProviderError` |
| approve (both routes, `approve_extraction`) | `ApproveBegin` loads; `ApproveRead` reads the latest extraction for the form's payload; `ApproveCheck` makes the service's checks and runs the rules; `ApproveCommit`. `ApproveTurnedAway` is every refusal that changes nothing |
| write (`write_approved_record`) | `WriteBegin` loads; `WriteGate` or `WriteTurnedAway`; `WriteClaim` (`claim_write`); `CreateRecord` or `CallDestination`, then `WriteSucceeds` or `WriteFails`; or `WriteRaises`, if the call raises what is not a `CrmError` |

- A payload is its hash.  `BusinessKey` gives its supplier and invoice number,
  `Blocked` are the payloads some rule other than the duplicate rule refuses.
- `at` is a row's place in the order of `(created_at, id)`: any place that is free
  (`FreeStamps`).  So a row may sort before one that was committed earlier: its
  clock was read first, or runs behind, or it was stamped alike and has the smaller
  id.
- A rule that raises leaves the document `extracted` when a worker runs it: the
  worker returns the exception and its session commits (`ExtractFlush`; the API is
  rolled back, which is `Abort`).  `Extracted` is what the two flushes of an
  extraction make of the row, each by what the session has loaded or assigned
  before; `Locked` says from which of them on the row is locked.
- Row locks: `DocFree` is the lock of the document row that a flushed extraction
  holds; `WriteClaim` waits for an uncommitted insertion of its key and
  `CreateRecord` for the lock of its `crm_write` row and for uncommitted records
  of its invoice, as the unique indexes do.  These are PostgreSQL's.
- Queries that directly follow each other are one step, so an interleaving
  between two SELECTs of the write gate is not in the model.  Each is checked
  against the same cached document.
- `WriteSucceeds` commits even if `mark_written` finds the document moved on:
  the routes and the worker commit an `ApprovalError` (`commit_refusal`).
- A call the destination refused is committed by the worker and the review screen
  and rolled back by the API's write route: `WriteFails` may do either.  After
  an exception nobody expects the worker commits the row its claim inserted, as
  `pending`, and the routes roll back: `WriteRaises` and `Abort`.
- `Abort` loses a transaction at any step.  What an external destination has
  done by then stays done.

In the mapping to `WriteLedger` a key is a document and a payload; it is
`approved` when there is an approval row of it, `recorded` when the destination
holds it, and `shown` when its document is written with it.  Extractions,
refusals and lost transactions map to `Hide` or to a stutter.

### Pipeline

| model | code |
|---|---|
| `verdict`, `holders` | `JobLedger`: what became of a job, and who has it in hand |
| `job[j].landed` | history: the payload a dispatch of the job has brought to the destination, and how many extractions the document had then; no guard reads it |
| `requested[d]`, `runs[d]` | the `extraction_requested` events and the `extraction` rows of a document |
| `Extracts`, `Breaks` | `extract_document` with `validate_extraction`: a draft that was judged or a `ProviderError`; any other exception, with what was written before it |
| `Writes` | `write_approved_record`: a replay, a refusal of the gate, a record, or a refusal of the destination |
| `Claim`, `Dispatch`, `Settle` | the three transactions of `Worker.run_once`; `Dispatch` commits whatever it returns |
| `ExtractNow`, `ApproveNow`, `ApproveOnScreen`, `WriteNow`, `Receive`, `Enqueue` | the routes and the review screen; `ApiBreaks` is the rollback of `get_session` |
| `Lose`, `LoseInWrite`, `WriteNowLost` | a worker that dies between its transactions, or after the destination answered; a request that dies then |
| `Expire` | `expires_at` of the latest approval passes |

The destination is outside the transaction (`MockCrm`), the harder of the two.
`attempts`, `error` and the retry are those of `queue.fail`; back-off and leases
are `JobQueue`'s.

### Startup

| model | code |
|---|---|
| `tables[t]` | a table that is there, with its unique columns and the parents of its foreign keys; `Models`, `Initial` and `BusinessKeyed` are `Base.metadata` and the two revisions |
| `revision` | `alembic_version` |
| `records` | whether `crm_record` has rows from before revision 0002 |
| `document` | the rows of the table, with the file they were seeded from or the name a client posted |
| `Role` | what a process runs: the container of the `Dockerfile`, a service of compose, or the app alone, as in `README.md:60-65` (`"local"`: it seeds because `SEED_ON_START` is set there, the default is not to) |
| `MigrateRead`, `MigrateApply`, `MigrateFails` | `app.migrate`: alembic reads the revision, and upgrades in one transaction |
| `CreateRead`, `CreateApply`, `CreateFails` | `create_all`: it looks for missing tables, and creates them |
| `SeedRead`, `SeedInsert`, `SeedConflict`, `SeedCommit` | `seed_documents` in one `session_scope`; an INSERT waits for a rival's uncommitted row of its id (`Held`) |
| `Post`, `Crash`, `Start` | a client's document; a kill; a start or restart, after the migration where compose says so |

The database is PostgreSQL for every role, also where the default of
`database_url` and the `Dockerfile` say SQLite: the roles are about who migrates,
creates and seeds.  The container's `create_all` is a no-op after its migration, which the model
keeps; `render.yaml` turns it off, which is the same.

### InvoiceRules

| model | code |
|---|---|
| amounts | `Decimal`s, as integers in a unit that divides them; the tolerance of one cent is two units in the runs, so a drift may be less than it. Integers are exact, `Decimal`s up to 28 significant digits of a product or a sum (`validation.py:108`, `119`, `131`), and `Money` sets no bound: what is said of amounts is said of those |
| `Draft.date` | the two numbers `AMBIGUOUS_DATE` finds in the quote, `<<>>` if it finds none |
| `Draft.verdict` | the worst outcome of the currency, plausible-date and evidence rules, which compare one field with a table |
| `DraftType` | the fields of `InvoiceDraft` that the rules read: any number of lines, any amounts, any characters |
| `normalize_supplier`, `strip`, `business_key`, `StoredKey` | the functions of those names, on sequences of characters; `lower` on the 26 letters, and a blank for white space |
| `Extract`, `ExtractionFails`, `Approve`, `Write` | the services, each as one step: their interleavings are those of `DocumentFlow` |

A write that the destination rejects leaves the document approved; it is no
step of the model.

### Evidence

A text and a quote are sequences of characters.  `Kept` says which positions
`_collapse_whitespace` keeps, and `Offsets` lists them in one pass from the left, as
its loop does; `FindSpan` is `find_span`, `Resolve` is `_resolve` with the fallback to
the value on or off.  Of `segments`, `Sorted` is the verified spans in the order of
the sort key, `Placed` is one round of the loop, `Shown` all of its rounds and
`Segments` the whole.  Spans count from 0 and
exclude their end, as in the code.  `Extract` stores the evidence of a draft;
`Show` is the review page.  After a failed extraction there is no evidence and
`Show` gives the plain text.

### RequestLimits

`seen[c]` is the deque of a client and `now` the monotonic clock.  `Remembered`
is what the loop of `popleft` leaves, `Exhausted` the comparison with the limit,
and `TooLarge`, `Allowed`, `Refused` and `Unguarded` are the four ways through
`dispatch`.  A `Content-Length` that is not a number raises before the window is
asked; it changes nothing and is no step.  `admitted[c]`, all requests the client was ever granted, is a
history variable: no action reads it.  One process answers from one event loop
and `allows` does not await, so a request is one step.

## Properties

| property | what it says |
|---|---|
| `OwnerHoldsLease` | the worker with a job in hand is its only owner, under a live lease |
| `AttemptsWithinBudget` | `max_attempts` is exceeded by no more than the workers that were lost |
| `KeepsLedger` | the queue implements `JobLedger`: one holder at a time, verdicts final |
| `OnlyHoldersResettle` | however late workers settle, a job with a verdict gets no new worker, and only a worker that still has it in hand changes its row, as it lets the job go |
| `FailureIsExplained` | a failed job has a failure kind, and `transient_exhausted` is said only of one that had all its attempts |
| `LeaseNamesOwner` | lease and owner columns are NULL together |
| `JobSettles` | every queued job comes to a verdict that stays, after the last late settlement |
| `OneRecordPerInvoice` | the destination has one record per invoice, whichever documents, versions and retries it came through |
| `WrittenIsBacked` | a written document has the record and the settled write of its approved payload, or of one if it has lost the hash |
| `LedgersAgree` | a record exists exactly where `crm_write` says succeeded |
| `RecordsWereApproved` | every recorded payload has an approval row and passes the rules that look at the draft alone |
| `RecordBehindSuccess` | with either destination, what we report as settled or written is recorded |
| `SettledStaysSettled` | with `DatabaseCrm`, a settled write stays settled |
| `KeepsWriteLedger` | with either destination the flow implements `WriteLedger`: recorded only when approved, an invoice once with `DatabaseCrm`, shown as written only when recorded |
| `HandlersEnd` | no handler waits for ever on the rows, locks and keys of others |
| `VerdictIsOnRecord` | the verdict and the error of a job show in the tables: a draft, a settled write with its record, a failed extraction, a row of the write |
| `RequestsAreAnswered` | every extraction request of the trail has its row, or a job that broke or a worker that was lost accounts for it; no row is without a request |
| `LostWriteIsFound` | a write job that landed does not end in the review queue, unless the document was extracted again, or our own record of the write was lost and the retry was refused or came after the approval ran out |
| `QueuedDocumentsMove` | a document with a queued extraction leaves `received`, or its job is in the review queue |
| `SeededTogether` | the seeds are all there, once each, or none is |
| `WaitersHoldNothing` | a seeder that waits for a rival holds nothing another could wait for |
| `ServesMigratedSchema` | whatever is deployed serves on the schema of the models |
| `ServingIsSeeded` | an app that seeds at its start serves documents |
| `StartsOrFails` | a process that starts comes to serve or fails visibly |
| `AcceptedAddsUp` | an accepted or recorded draft adds up from quantities and prices to its total, whatever drifts cancel out on the way |
| `WorstLineDecides` | the arithmetic rule gives the verdict of its worst line, in any order of the lines |
| `AcceptedDateHasOneReading` | an accepted date in figures has one reading |
| `ApprovedCanBeRecorded` | the destination rejects an approved payload only for a record of the same document, or of one that was extracted again after its write |
| `EvidenceIsInTheSource` | a verified span reads as its quote, up to white space, and begins and ends with a character of it |
| `NoEvidenceIsMissed` | evidence is rejected only if no part of the text reads as the quote, and the span ends where the first such part ends |
| `PageIsTheSource` | the segments of the page, joined, are the text |
| `EveryMarkIsEvidence` | a mark stands exactly on its field's span, and evidence without a mark overlaps a mark |
| `NoWindowOverflows` | no window of time holds more than `Limit` requests of a client |
| `OnlyFullWindowsRefuse` | a client is refused only while the window that ends now is full |

Each module has one `TypeOK` besides, except `InvoiceRules` and `Evidence`.  That of
`DocumentFlow` also says that a document that is still received has no extraction, no
approval and no hash, that of
`RequestLimits` also bounds the memory by `Limit`, that of `Pipeline` the attempts of
a job by its budget and the losses, and that of `Startup` says that the schema is
never a mixture of revisions.

The first three hold only while no dispatch outlasts its lease (`Overrun =
FALSE`), the next four also when dispatches do.  That condition is the operator's to
meet: a lease lasts 60 seconds (`DEFAULT_LEASE`, `jobs.py:12`) and so does the
provider's timeout by default (`config.py:34`), so a dispatch that runs into a
`ProviderTimeout` ends after its lease unless the timeout is set lower.
`SettledForever`, that a verdict is frozen, has the same condition and is proved
under it; without it it is false, since `succeed` and `fail` ask for no lease, and
what is true then is `OnlyHoldersResettle`.  `OneRecordPerInvoice`,
`WrittenIsBacked`, `LedgersAgree` and `SettledStaysSettled` are about
`DatabaseCrm`: an external client knows idempotency keys only.

## Runs and bounds

| run | instance | shows |
|---|---|---|
| `queue_leases` | 2 jobs, 2 workers, 3 attempts, lease of 2 ticks, 2 workers lost, every class of error; no overrun | types, ownership, budget, refinement |
| `queue_late` | 1 job, 2 workers, 3 attempts, 2 lost, overrun | the columns stay consistent under lost updates, late workers settle what they hold and no more, every job is settled for good |
| `flow_versions` | 1 document, 2 sessions, 3 payloads of one invoice (1 blocked), 2 extractions, 2 approvals, `DatabaseCrm`, aborts | versions of one document race through every step; the tables agree, the flow implements `WriteLedger` and every handler ends |
| `flow_copies` | 2 documents with one payload, 2 sessions, 1 extraction and approval each, aborts | copies race to the destination: one record |
| `flow_external` | 1 document, 2 sessions, 2 payloads (1 blocked), external destination, aborts | no success without a record; the flow implements `WriteLedger` |
| `pipeline` | 1 document, 2 jobs of either type, 2 workers, 2 payloads (1 blocked), 2 attempts, 2 extractions, 1 worker or request lost | queue, tables, trail and destination agree; a queued document moves |
| `startup` | 4 processes (container, one-shot migration, compose app, local app), 2 files, 1 posted document, 2 starts each, every database they may find | schema, seeds and start-up, whoever races or crashes |
| `invoice_rules` | 2 documents, 24 drafts around the boundaries of the rules, 1 record | accepted drafts add up; the three keys agree |
| `evidence` | every text of up to 4 characters (2 letters, blank, new line), every draft of 3 fields over 6 quotes, fallback on and off | spans and pages are exact |
| `request_limits` | 2 clients, 2 requests in a window of 3 ticks, 8 instants | admission and refusal agree with the history |
| `flow_approval_race`, `flow_rejected_write` (violations) | the smallest instance that shows it | see below |

Why these are enough.  A lost update needs two workers on one row, and a second
claim; a lease of 2 ticks has a state in which it is live, about to expire and
expired; 3 attempts have a first, a middle and a last; every delay up to
`Horizon` (4) is distinguished and `Backoff` reaches it.  The races of
`DocumentFlow` are between two sessions: a third only repeats the part of one of
them.  Two extractions and two approvals make a superseded one and an approval
that is older than what it approves; the third payload, blocked, lets the rules
refuse what was accepted before.  In `flow_versions` the sessions also compete for
every lock there is: an extraction that was flushed holds the document row while
the other session extracts, approves or writes the document, and two writers
meet at the `crm_write` row and at the invoice; so it is the run of `HandlersEnd`.
All payloads share one invoice, since
payloads of different invoices meet nowhere but in the document row.
In `pipeline` two jobs let an extraction overtake a write, or one write
repeat another; two attempts have a first and a last; the one loss may hit any
worker or request, anywhere.  In `startup` two files are what two seeders could
take in opposite orders, and two starts let a process fail or die and come back;
the compose worker, which neither migrates nor seeds, is left to the proof.
`MaxExtractions`, `MaxApprovals`, `MaxStamp`, `MaxRuns`, `MaxCrashes` and
`MaxStarts` bound counters the program does not bound; `MaxStamp` is the number of
rows of either kind, so it never forbids a step.  Symmetry is used where no property
is a liveness property.

In `invoice_rules` lines, sums and totals are exact, off by less than the
tolerance, by the tolerance and by more, alone and so that they cancel out;
suppliers and numbers are equal, equal after normalisation, blank, or contain the
colon that joins them.  `MaxRecords` is 1 because `ApprovedCanBeRecorded` is about
one document and one record.  Four characters hold a run of blanks inside, before
or after a quote, two quotes that overlap, nest or touch, and a second occurrence;
three fields give two marks that meet and one between or over them.
`request_limits` sees two windows pass, so that requests leave the memory one by
one and all at once; `MaxTime` bounds the clock.

Deadlock checking is off for the queue, the document flow, the pipeline, the
start and the evidence: when all documents and jobs are through, or every process
serves, the system rests.  That nothing stops earlier is what `JobSettles`,
`HandlersEnd`, `QueuedDocumentsMove` and `StartsOrFails` say.

## Fairness

- `JobQueue`: time passes, a worker in the middle of `run_once` goes on
  (`run_forever` loops; the provider's call has a timeout, so a dispatch ends),
  unless it is lost, at most `MaxCrashes` times.  Claims are strongly fair job by
  job: due jobs are tried in the order of `run_at`, and a job that is retried is
  due later than those that already wait, so one that keeps becoming due is
  claimed.
- `DocumentFlow`: a session that has begun takes its next step if it can do so
  again and again: the database queues the waiters for a lock.  Nothing forces
  a session to begin, and `Abort` may end it at any step.
- `Pipeline`: as `JobQueue`, without time: claims strongly fair job by job, and a
  worker that has a job in hand goes on.  No request of a person is fair.
- `Startup`: a process that was started takes its next step if it can.  Nothing
  forces it to be started, or started again after a crash.

## Proofs

Every theorem is for all values of the constants that satisfy the named
assumption of its module (`QueueAssumption`, `FlowAssumption`,
`PipelineAssumption`, `StartupAssumption` and so on): any sets of jobs, workers,
documents, sessions, payloads, processes and files, any bounds.

**Queue, late workers included** (`JobQueueProofs`): `TypeCorrect`,
`LeaseAndOwnerAgree`, `ReviewQueueIsExplained`, `VerdictsDrawNoWorker`.  The last needs
types only: a settled row is neither reclaimed nor claimable, whatever its other
columns are.  For the two before it, a late worker overwrites parts of a row
with values computed from an older copy, so neither property of the row is
inductive alone.  `LateInv` adds that the loaded copy was itself `Sound`, and
that the row `Outgrows` it: attempts never fall, and a failure kind, once
set, is never unset.  From these the merge of the two is sound again.

**Queue, leases respected** (`JobQueueProofs`, under `~Overrun`, see above for what
that asks of the timeouts):
`Ownership`, `VerdictsAreFinal`, `RetriesAreBounded`, `QueueImplementsLedger`.
`OnTimeInv` adds to `OwnerHoldsLease` that rows are `Tidy` (only a running row
has a lease, only a pending one waits), and that a loaded copy is still `Current`.  A live lease shields its row
from the other workers' claim transactions, so the owner's copy stays current
and the settlement is an update of what it loaded.  `BudgetInv` adds that an
open job in nobody's hand still has an attempt left, not counting those that
were cut short.  In the refinement a claim maps to `Take`, a
settlement to `Conclude` or, for a retry, to `LetGo`, a lost worker to `LetGo`,
and all else to a stutter.

**Documents, either destination** (`DocumentFlowProofs`): `FlowTypeCorrect`,
`RecordsAreApproved`, `RecordsBehindSuccess`.  That a received document has no rows
needs to know that what a session has loaded is no younger than its document, so that
its flush does move the status (`Early`).  `RecordsAreApproved` needs that every
approval passed the rules, and that a session past the gate carries the hash of
a payload that has been approved (`Backed`): the rows of `approval` are never
deleted, so this is never undone.  `RecordsBehindSuccess` needs that the record a session was
told exists does (`Answered`): the destination forgets nothing.

**Documents, `DatabaseCrm`** (`DocumentFlowProofs`, under
`Destination = "database"`): `OneRecord`, `LedgersAlwaysAgree`,
`WrittenIsAlwaysBacked`, `SettledWritesStay`.  The four are proved together.
Between the destination's answer and the commit the answer must stay true
(`CallOK`); it does because two sessions at that point have different keys (the
lock of the `crm_write` row), and different invoices if both insert (the unique
index): `Apart`.

**Documents, the refinement** (`DocumentFlowProofs`, either destination):
`ImplementsWriteLedger`.  Most steps change neither records nor approvals and make
no document written, and only hide something.  Three do more: the commit of an
approval maps to `Approve`, the answer of an external destination to `Record`, the
commit of a write to `Record` or `Show`.  That these are allowed is what `Backed`,
`Answered` and `CallOK` say, so the refinement is proved on top of the two
invariants above.

**Pipeline** (`PipelineProofs`): `TypeCorrect`, `QueueTellsTheTruth`,
`RequestsGetAnswers`, `LandedWritesAreFound`, `CalledIsApproved`.  The inductive
invariant `PipelineInv` has three parts.  `Tables` relates the document tables to
each other (`Coherent`: what is written is settled, and a document approved for its
latest extraction is approved or written).  `Queue` says who has which job in hand,
and counts attempts.  `Records` ties them together: what a worker has in hand as
an outcome, and what a job says, shows in the tables.  It is stable because no step
takes back what the tables show: `Forward`, which is proved once for every handler
and then used by every action.  A payload that landed is `Kept` while the document
is not extracted again, so a retry replays it or passes the gate but for the time.
`RequestsGetAnswers` counts: `Trail` adds that a broken job is in one place, as an
outcome or as an error, and does not run again, so each accounts for one request.

**Start** (`StartupProofs`): `TypeCorrect`, `SeedsComeTogether`,
`SeedersNeverDeadlock`, `DeployedOnModels`, `SeededBeforeServing`.  `IInv` says of
every process where its role can be, that what it has read still holds and that
what it has inserted begins with the first file's row (`Fine`), that at most one
process holds seeds it has not committed (`OneSeeder`: the key of the first row makes
the second to start wait), that the committed seeds are all or none (`SeedsOK`),
and that the revision tells the schema (`SchemaOK`).

**Folds** (`FoldLemmas`): what the next two parts rest on.  An induction theorem
that takes a predicate as its parameter cannot be used here, so an induction is
stated of a set: the numbers that have the property are a set that holds 0 and
each successor of an element, and a set of naturals has a least element
(`LeastElement`, `Induction`, `InductionUpTo`).  A fold unfolds to a recursive
function; `IteratesExist` and `ChainExists` say that there is one and what its values
are, step by step, and these values are the states of the loop the fold models.
`ListingExists` and `OneEnumeration` say that a finite set of indices can be sorted,
and in one way.

**Rules** (`InvoiceRulesProofs`): `AcceptedDraftsAddUp`, `WorstLineAlwaysDecides`,
`AcceptedDatesAreClear`, `ApprovedIsRecordable`, for drafts of any number of lines,
any names and any integer amounts, which are the code's within 28 digits.  `RulesInv` says that accepted documents and records add
up, that the result for the lines is that of the worst one, and that no two
committed documents are of one invoice, since an approval looks for all the others.
Sums and the worst outcome are loops (`SumRun`, `LineRun`), and about each there is an
induction: if all lines pass, the sum of the amounts is that of the products
(`PassingAmounts`), and the outcome so far says whether a line so far is off, and by
more than the tolerance (`WorstOfLines`).  That the stored key, supplier
and number joined by a colon, tells apart what the pair tells apart is proved and
not assumed: `normalize_supplier` leaves letters and digits only
(`NormalizedType`), so the first colon of a key is the one that joins
(`FirstColonSeparates`).  Nothing of the kind holds of the number, which may
contain a colon.

**Evidence** (`EvidenceProofs`): `VerifiedIsThere`, `FirstPlaceIsFound`,
`PageShowsSource`, `MarksAreEvidence`, for every text, quote and number of fields.
`Offsets` enumerates the kept positions in their order (`OffsetsEnumerate`), and a set
has one such enumeration.  So what a part of the text keeps is a stretch of what
the whole text keeps, but for a blank at either end (`Window`).  From this both
directions follow: the characters under a match read as the quote
(`MatchReads`), and a part that reads as the quote holds a match (`PartMatches`), so
that the first match is the first place.  The page is a loop over the spans in
sorted order.  Its invariant says that the parts so far, joined, are the text up to the
cursor, that every mark stands at its span, that every span so far is marked or
meets a mark, and that the cursor is the end of a marked span.  The last part is
what a skipped span needs: it begins before the cursor, so before the end of that
mark, and it does not begin before the mark, because the spans are sorted.

**Request limits** (`RequestLimitsProofs`): `MemoryIsBounded`, `WindowsHold`,
`RefusalsAreDue`.  The deque is related to the history: it is the history's end
(`Recalls`), the history is in the order of time (`InOrder`), and what is no
longer remembered has left the window (`Forgotten`).  `Memory` then says of the
deque, once stale hits are popped, that it holds the requests of the last window
and no others; both properties follow from it by counting.

The properties above were model-checked on the instances of the runs before they
were proved.  Every invariant and every action property that a passing run checks
is stated by a theorem, and so are both refinements.  **Only model-checked** are
`JobSettles`, `HandlersEnd`, `QueuedDocumentsMove` and `StartsOrFails`: liveness under
fairness, and `ENABLED`, are beyond the prover.  What the violation runs show is a
counterexample and needs no proof.

## Where the code and its documents differ

Each of these is a run that TLC ends with a behaviour of the code that breaks a
sentence of the documentation.

- **`flow_approval_race`** An approval that loaded the document before an
  extraction committed replaces the status that extraction gave it.
  "`approve_extraction` refuses anything that is not currently `validated`"
  (`docs/architecture.md:155`).
- **`flow_rejected_write`** A write whose document moved on while it was in flight
  is refused, and its record is committed with the refusal.  "The write is
  rejected" (`docs/architecture.md:171`).

Others have no run:

- A worker whose lease was taken over still settles the job: `succeed` and `fail`
  clear the lease of its successor.  "A live lease is never stolen"
  (`docs/runbook.md:99`) is true of claims only.
- An extraction that loaded the document before it was approved leaves the
  approved hash where it is (`Net` of a column that was NULL when it was loaded).
  "A new extraction clears it" (`docs/architecture.md:150`).
- A document whose rules raised in a worker is `extracted`; if it had an approved
  hash all the same (the case before this one), the next rule that raises
  assigns the status it already had and clears the hash, in a document that may have
  been written meanwhile: it stays `written`, without the hash of what was written.
  This takes two raised rules.
- A written document that is extracted again with the same payload and approved
  again stays `approved`: its key is settled but the document is not `written`, so
  every further write is refused (`AlreadyWritten`).  The runbook's
  "approved, write not settled" (`docs/runbook.md:23`) is then not the case.
- A worker that died after the destination answered does not always "find the
  record already there and settle" (`docs/runbook.md:106`): if the approval ran out
  before the retry, the gate comes first and the job fails
  (the third case of `LostWriteIsFound`).
- Revision 0002 adds a NOT NULL column without a default, so a database of
  revision 0001 that holds `crm_record` rows cannot be upgraded (`Upgradable`);
  and one made by `create_all` has no revision, so `app.migrate` fails on it.
  "Upgrades a database to head" (`docs/architecture.md:306`) is true of new ones and
  of those without records.
- Two approvals of two copies may validate before either commits, and both stand;
  the destination's business key refuses the second record.  "Re-validating ...
  closes that window" (`docs/architecture.md:135`) holds only for approvals that do
  not overlap, which is what `ApprovedCanBeRecorded` says.
- A writer that finds the settled row of a rival at its claim calls the destination
  again (`docs/runbook.md:79` says "without calling the destination"); with an
  external destination that call may fail and unsettle the write.
- The API's write route rolls a failed destination call back, although
  `docs/architecture.md:179` says that it leaves the row in `failed` (`WriteFails`).
- A provider exception that is not a `ProviderError` leaves no extraction row,
  although `docs/architecture.md:91` says that every failure writes one
  (`ProviderRaises`).
- `normalize_supplier` maps a name without Latin letters or digits to nothing, so
  the invoices of all such suppliers share one number space.

None of them lets an unapproved payload through, or a second record of an
invoice into the database's destination: that is what the proofs say.

## What is not modelled

- Events other than `extraction_requested`, validation results, timestamps other
  than `created_at`, `last_error`, and `crm_write.attempts`: they are written for
  people and decide nothing.
- SQLite's single write lock and its DDL outside transactions.  The lock allows
  fewer interleavings than PostgreSQL, but makes other writers time out while a
  provider is called.  PostgreSQL's deadlock detector: no run needs it.
- In `Pipeline`, exceptions nobody expects in a write job, and two handlers at the
  same moment; in `Startup`, column types and indexes, downgrades and offline
  migrations.
- Parsing and hashing of drafts: in `DocumentFlow` a payload is its hash, and
  `Blocked` is what the rules refuse.  That different drafts have different hashes, and
  that every pair of document and payload has its own idempotency key, is assumed.
- The operator's manual SQL in `docs/runbook.md`.
- Rendering and schemas of the API, evaluations and scripts, images, ports and
  health checks, CI: listed in `PROJECT.json` with the reason.

## Plan

Done: the queue and the write gate with their abstract specifications, the
document flow with both destinations, the pipeline that composes workers, people
and documents, the start of a deployment, the rules, the evidence, the request
limits, and the proofs of all safety properties.
In the order of their weight, what is next:

1. The whole trail of events in `Pipeline`: every status a document has had is
   explained by its events, in their order.
2. A write job that meets an exception nobody expects, and an external destination
   in two processes at once, in `Pipeline`.
3. SQLite's write lock as a second lock model of `DocumentFlow`, with the timeout of
   a writer that waits for a provider's call.
4. That `Pipeline`, too, implements `WriteLedger`, with a proof.
5. Downgrades of the migrations, and a database with a revision the code does not
   know.
