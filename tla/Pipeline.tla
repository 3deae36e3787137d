------------------------------ MODULE Pipeline ------------------------------
(***************************************************************************)
(* The queue, the workers, the API and the review screen on the documents  *)
(* they share: what the job table says, what the document tables say, and  *)
(* what the destination holds, when workers are lost between their         *)
(* transactions or in the middle of one (app/workflows/worker.py,          *)
(* app/api/routes.py, app/api/review.py).                                  *)
(*                                                                         *)
(* The queue is its abstract specification, JobLedger, which JobQueue      *)
(* implements: each action that moves a job is an action of the ledger.    *)
(* A handler is one step, the transaction it commits; what happens between *)
(* the steps of two handlers is the subject of DocumentFlow.  The          *)
(* destination is outside the transaction (MockCrm).                       *)
(***************************************************************************)
EXTENDS Integers, FiniteSets, Sequences

CONSTANTS
    Docs,
    Jobs,
    Workers,
    Hashes,         \* payload hashes a provider may propose
    NoHash,         \* payload_hash or approved_payload_hash IS NULL
    Blocked,        \* payloads the rules refuse
    MaxAttempts,    \* max_attempts of every job
    MaxRuns,        \* bound on the extractions of a document
    MaxCrashes      \* bound on the workers and requests lost in a behaviour

ASSUME PipelineAssumption ==
    /\ NoHash \notin Hashes
    /\ Blocked \subseteq Hashes
    /\ MaxAttempts \in Nat \ {0}
    /\ MaxRuns \in Nat
    /\ MaxCrashes \in Nat

VARIABLES
    verdict,    \* JobLedger: the verdict on each job
    holders,    \* JobLedger: the worker that has it in hand
    job,        \* type, document, attempts and last_error of each job
    worker,     \* what each worker is doing
    doc,        \* status and approved_payload_hash of each document
    runs,       \* the payloads of its extraction rows, in their order
    requested,  \* how many extraction_requested events it has
    approval,   \* its latest approval
    write,      \* status of the crm_write row of each key
    crm,        \* the keys the destination holds a record of
    crashes     \* how many workers and requests were lost

queue == <<verdict, holders, job, worker, crashes>>
tables == <<doc, runs, requested, approval, write>>
vars == <<queue, tables, crm>>

Ledger == INSTANCE JobLedger

None == "none"

ProviderErrors == {"ProviderTimeout", "ProviderRefusal"}
CrmErrors == {"CrmUnavailable", "CrmRejected"}
Errors == ProviderErrors \cup CrmErrors \cup {"ApprovalError", "Unclassified"}

IsTransient(error) == error \in {"ProviderTimeout", "CrmUnavailable"}

DocStatuses == {"absent", "received", "extraction_failed", "extracted",
                "needs_review", "validated", "approved", "written"}
Keys == Docs \X Hashes

\* A job.  landed is history: the payload a dispatch of it has brought to the
\* destination, and how many extractions the document had then.
Nowhere == [hash |-> NoHash, at |-> 0]
NoJob == [ type |-> None, doc |-> None, attempts |-> 0, error |-> None,
           landed |-> Nowhere ]
Idle == [pc |-> "idle", job |-> None, outcome |-> None]

NoApproval == [hash |-> NoHash, expired |-> FALSE]

Init ==
    /\ Ledger!Init
    /\ job = [j \in Jobs |-> NoJob]
    /\ worker = [w \in Workers |-> Idle]
    /\ doc = [d \in Docs |-> [status |-> "absent", hash |-> NoHash]]
    /\ runs = [d \in Docs |-> << >>]
    /\ requested = [d \in Docs |-> 0]
    /\ approval = [d \in Docs |-> NoApproval]
    /\ write = [k \in Keys |-> "none"]
    /\ crm = {}
    /\ crashes = 0

-----------------------------------------------------------------------------
\* latest_extraction: its payload, if it has one.
Latest(d) == IF runs[d] = << >> THEN NoHash ELSE runs[d][Len(runs[d])]

Routed(hash) == IF hash \in Blocked THEN "needs_review" ELSE "validated"

Requests(d) == requested' = [requested EXCEPT ![d] = @ + 1]

\* extract_document adds its row and gives the document a status.
Runs(d, hash, status) ==
    /\ Len(runs[d]) < MaxRuns
    /\ Requests(d)
    /\ runs' = [runs EXCEPT ![d] = Append(@, hash)]
    /\ doc' = [doc EXCEPT ![d] =
                 [status |-> status, hash |-> IF hash = NoHash THEN @.hash ELSE NoHash]]

\* The outcomes of extract_document and validate_extraction that the API
\* commits as a worker does: a draft that was judged, or a ProviderError.
Extracts(d, error) ==
    /\ \/ error = None /\ \E hash \in Hashes : Runs(d, hash, Routed(hash))
       \/ error \in ProviderErrors /\ Runs(d, NoHash, "extraction_failed")
    /\ UNCHANGED <<approval, write>>

\* An exception nobody expects leaves the provider, or the rules: what the
\* handler has written by then is the event, or all but the judgement.
Breaks(d) ==
    /\ \/ Requests(d) /\ UNCHANGED <<runs, doc>>
       \/ \E hash \in Hashes : Runs(d, hash, "extracted")
    /\ UNCHANGED <<approval, write>>

Key(d) == <<d, doc[d].hash>>
Settled(d) == doc[d].hash # NoHash /\ write[Key(d)] = "succeeded"

\* Mutant of Replays: the approval is looked at before the settled write.
ReplaysInTime(d) == Settled(d) /\ doc[d].status = "written" /\ ~approval[d].expired

\* The gate: a settled write of a written document is a replay ...
Replays(d) == Settled(d) /\ doc[d].status = "written"

\* ... and the destination is called for an unsettled one whose approval is of
\* the document's payload and in time, and whose extraction is the latest.
Calls(d) ==
    /\ doc[d].hash # NoHash
    /\ ~Settled(d)
    /\ approval[d].hash = doc[d].hash /\ ~approval[d].expired
    /\ Latest(d) = doc[d].hash

\* write_approved_record as it commits: a replay, a refusal of the gate, a
\* record, or a refusal of the destination.  Between two handlers, what passes
\* the gate is approved, and mark_written finds it so.
Writes(d, error) ==
    /\ \/ Replays(d) /\ error = None /\ UNCHANGED <<doc, write, crm>>
       \/ ~Replays(d) /\ ~Calls(d) /\ error = "ApprovalError" /\ UNCHANGED <<doc, write, crm>>
       \/ /\ Calls(d)
          /\ crm' = crm \cup {Key(d)}
          /\ write' = [write EXCEPT ![Key(d)] = "succeeded"]
          /\ doc[d].status = "approved" /\ error = None
          /\ doc' = [doc EXCEPT ![d].status = "written"]
       \/ /\ Calls(d) /\ error \in CrmErrors
          /\ write' = [write EXCEPT ![Key(d)] = "failed"]
          /\ UNCHANGED <<doc, crm>>
    /\ UNCHANGED <<runs, requested, approval>>

-----------------------------------------------------------------------------
(***************************************************************************)
(* Requests of the API and the review screen.                              *)
(***************************************************************************)
Receive(d) ==
    /\ doc[d].status = "absent"
    /\ doc' = [doc EXCEPT ![d].status = "received"]
    /\ UNCHANGED <<queue, runs, requested, approval, write, crm>>

Enqueue(j, type, d) ==
    /\ doc[d].status # "absent"
    /\ Ledger!Submit(j)
    /\ job' = [job EXCEPT ![j].type = type, ![j].doc = d]
    /\ UNCHANGED <<worker, crashes, tables, crm>>

\* Mutant of ApiBreaks: the session is committed whatever leaves the handler.
ApiBreaksOpen(d) == Breaks(d) /\ UNCHANGED <<crm>>

\* get_session: an unexpected exception rolls everything back.
ApiBreaks(d) == UNCHANGED <<tables, crm>>

ExtractNow(d) ==
    /\ doc[d].status # "absent"
    /\ \/ \E error \in ProviderErrors \cup {None} : Extracts(d, error) /\ UNCHANGED crm
       \/ ApiBreaks(d)
    /\ UNCHANGED <<queue>>

\* Both write routes commit what the gate refuses; a refusal of the
\* destination is committed by the review screen alone.
WriteNow(d, route) ==
    /\ doc[d].status # "absent"
    /\ \E error \in Errors \cup {None} :
         /\ route = "api" => error \notin CrmErrors
         /\ Writes(d, error)
    /\ UNCHANGED <<queue>>

\* A request dies after the destination has answered.
WriteNowLost(d) ==
    /\ Calls(d)
    /\ crashes < MaxCrashes
    /\ crashes' = crashes + 1
    /\ crm' = crm \cup {Key(d)}
    /\ UNCHANGED <<verdict, holders, job, worker, tables>>

\* The form of the review screen carries the payload its page showed, which
\* may be of an earlier extraction; the API route has no form.
FormMatches(d, form) == form = Latest(d)

\* approve_extraction of the latest extraction.  A refusal changes nothing
\* here: between two handlers, what is validated is not blocked.
Approves(d) ==
    /\ doc[d].status = "validated"
    /\ Latest(d) # NoHash /\ Latest(d) \notin Blocked
    /\ approval' = [approval EXCEPT ![d] = [hash |-> Latest(d), expired |-> FALSE]]
    /\ doc' = [doc EXCEPT ![d] = [status |-> "approved", hash |-> Latest(d)]]
    /\ UNCHANGED <<queue, runs, requested, write, crm>>

ApproveOnScreen(d, form) == FormMatches(d, form) /\ Approves(d)
ApproveNow(d) == Approves(d)

Expire(d) ==
    /\ approval[d].hash # NoHash /\ ~approval[d].expired
    /\ approval' = [approval EXCEPT ![d].expired = TRUE]
    /\ UNCHANGED <<queue, doc, runs, requested, write, crm>>

-----------------------------------------------------------------------------
(***************************************************************************)
(* The worker: claim, dispatch and settle.                                 *)
(***************************************************************************)
Holds(w, j, pc) == worker[w].pc = pc /\ worker[w].job = j

Claim(w, j) ==
    /\ worker[w].pc = "idle"
    /\ Ledger!Take(w, j)
    /\ job' = [job EXCEPT ![j].attempts = @ + 1]
    /\ worker' = [worker EXCEPT ![w] = [pc |-> "claimed", job |-> j, outcome |-> None]]
    /\ UNCHANGED <<crashes, tables, crm>>

\* The payload this dispatch has brought to the destination.
Landed(d) == [hash |-> doc[d].hash, at |-> Len(runs[d])]

\* Mutant of Dispatched: _dispatch raises what went wrong, and its transaction
\* is rolled back.
DispatchedOrRaised(j, error) ==
    LET d == job[j].doc IN
    /\ IF error # None THEN UNCHANGED <<tables, crm>>
       ELSE \/ job[j].type = "extract" /\ Extracts(d, error) /\ UNCHANGED crm
            \/ job[j].type = "write" /\ Writes(d, error)
    /\ UNCHANGED job

\* _dispatch returns what went wrong, and its transaction commits.
Dispatched(j, error) ==
    LET d == job[j].doc IN
    \/ /\ job[j].type = "extract"
       /\ Extracts(d, error) \/ (error = "Unclassified" /\ Breaks(d))
       /\ UNCHANGED <<job, crm>>
    \/ /\ job[j].type = "write"
       /\ Writes(d, error)
       /\ job' = IF error = None THEN [job EXCEPT ![j].landed = Landed(d)] ELSE job

Dispatch(w, j, error) ==
    /\ Holds(w, j, "claimed")
    /\ Dispatched(j, error)
    /\ worker' = [worker EXCEPT ![w].pc = "dispatched", ![w].outcome = error]
    /\ UNCHANGED <<verdict, holders, crashes>>

\* Mutant of Retried: transient errors are retried without end.
RetriedForever(j, error) == IsTransient(error)

\* queue.succeed and queue.fail: a transient error is retried while there are
\* attempts left.
Retried(j, error) == IsTransient(error) /\ job[j].attempts < MaxAttempts

Settle(w, j) ==
    LET error == worker[w].outcome IN
    /\ Holds(w, j, "dispatched")
    /\ \/ error = None /\ Ledger!Conclude(w, j, "succeeded")
       \/ error # None /\ Retried(j, error) /\ Ledger!LetGo(w, j)
       \/ error # None /\ ~Retried(j, error) /\ Ledger!Conclude(w, j, "failed")
    /\ job' = [job EXCEPT ![j].error = error]
    /\ worker' = [worker EXCEPT ![w] = Idle]
    /\ UNCHANGED <<crashes, tables, crm>>

\* Mutant of Lost: the lease of a lost worker never runs out.
LostForGood(w, j) ==
    /\ holders[j] = {w}
    /\ crashes < MaxCrashes
    /\ crashes' = crashes + 1
    /\ worker' = [worker EXCEPT ![w] = Idle]
    /\ UNCHANGED <<verdict, holders>>

\* A worker is lost; its lease runs out.
Lost(w, j) ==
    /\ Ledger!LetGo(w, j)
    /\ crashes < MaxCrashes
    /\ crashes' = crashes + 1
    /\ worker' = [worker EXCEPT ![w] = Idle]

Lose(w, j) ==
    /\ worker[w].pc # "idle" /\ worker[w].job = j
    /\ Lost(w, j)
    /\ UNCHANGED <<job, tables, crm>>

\* A worker is lost after the destination has answered and before the dispatch
\* has committed.
LoseInWrite(w, j) ==
    LET d == job[j].doc IN
    /\ Holds(w, j, "claimed")
    /\ job[j].type = "write" /\ Calls(d)
    /\ Lost(w, j)
    /\ crm' = crm \cup {Key(d)}
    /\ job' = [job EXCEPT ![j].landed = Landed(d)]
    /\ UNCHANGED tables

Work(w, j) ==
    \/ \E error \in Errors \cup {None} : Dispatch(w, j, error)
    \/ Settle(w, j)

Next ==
    \/ \E d \in Docs :
         \/ Receive(d) \/ ExtractNow(d) \/ ApproveNow(d) \/ Expire(d) \/ WriteNowLost(d)
         \/ \E form \in Hashes : ApproveOnScreen(d, form)
         \/ \E route \in {"api", "screen"} : WriteNow(d, route)
         \/ \E j \in Jobs, type \in {"extract", "write"} : Enqueue(j, type, d)
    \/ \E w \in Workers, j \in Jobs :
         Claim(w, j) \/ Work(w, j) \/ Lose(w, j) \/ LoseInWrite(w, j)

Spec == Init /\ [][Next]_vars

\* Workers claim what is due and go on with what they have claimed.
Fairness ==
    /\ \A j \in Jobs : SF_vars(\E w \in Workers : Claim(w, j))
    /\ \A w \in Workers : WF_vars(\E j \in Jobs : Work(w, j))

FairSpec == Spec /\ Fairness

-----------------------------------------------------------------------------
\* Every variable has its type.
TypeOK ==
    /\ verdict \in [Jobs -> {"absent", "open", "succeeded", "failed"}]
    /\ holders \in [Jobs -> SUBSET Workers]
    /\ job \in [Jobs -> [ type     : {"extract", "write", None},
                          doc      : Docs \cup {None},
                          attempts : 0 .. MaxAttempts + MaxCrashes,
                          error    : Errors \cup {None},
                          landed   : [hash : Hashes \cup {NoHash}, at : 0 .. MaxRuns] ]]
    /\ worker \in [Workers -> [ pc      : {"idle", "claimed", "dispatched"},
                                job     : Jobs \cup {None},
                                outcome : Errors \cup {None} ]]
    /\ doc \in [Docs -> [status : DocStatuses, hash : Hashes \cup {NoHash}]]
    /\ runs \in [Docs -> Seq(Hashes \cup {NoHash})]
    /\ requested \in [Docs -> Nat]
    /\ approval \in [Docs -> [ hash : Hashes \cup {NoHash}, expired : BOOLEAN ]]
    /\ write \in [Keys -> {"none", "failed", "succeeded"}]
    /\ crm \subseteq Keys
    /\ crashes \in 0 .. MaxCrashes

\* What the tables can show of a document: a draft, a failed extraction, a
\* settled write of a record that is there, and a row of a write.
HasDraft(d) == \E i \in DOMAIN runs[d] : runs[d][i] # NoHash
HasFailure(d) == \E i \in DOMAIN runs[d] : runs[d][i] = NoHash
HasRecord(d) == \E h \in Hashes : write[<<d, h>>] = "succeeded" /\ <<d, h>> \in crm
HasWrite(d) == \E h \in Hashes : write[<<d, h>>] # "none"

\* What the queue says of a job, the tables show, whoever was lost on the way:
\* an extraction or a settled write for a success, a failed extraction or a
\* crm_write row for an error of the provider or the destination.
\* (docs/architecture.md:204 "so the audit rows commit and only then is the job
\* marked failed"; _dispatch)
VerdictIsOnRecord ==
    \A j \in Jobs :
        LET d == job[j].doc IN
        /\ verdict[j] = "succeeded" /\ job[j].type = "extract" => HasDraft(d)
        /\ verdict[j] = "succeeded" /\ job[j].type = "write" => HasRecord(d)
        /\ job[j].error \in ProviderErrors => HasFailure(d)
        /\ job[j].error \in CrmErrors => HasWrite(d)

\* Dispatches of d's jobs that ended in an error nobody expected.
Broken(d) ==
    {j \in Jobs : job[j].doc = d /\ job[j].error = "Unclassified"}
      \cup {worker[w].job : w \in
              {w \in Workers : /\ worker[w].outcome = "Unclassified"
                               /\ job[worker[w].job].doc = d}}

\* Every extraction_requested event of the trail is answered by an extraction
\* row, or by a job that broke or a worker that was lost.
\* (docs/runbook.md:28 "the history is intact even for a job that crashed")
RequestsAreAnswered ==
    \A d \in Docs :
        /\ Len(runs[d]) <= requested[d]
        /\ requested[d] <= Len(runs[d]) + Cardinality(Broken(d)) + crashes

\* A write job that once brought its payload to the destination does not end
\* in the review queue, unless the document was extracted again, or the retry
\* was needed because the loss took our own record of the write with it, and
\* it met a refusal of the destination or an approval that has run out.
\* (docs/architecture.md:176 "a retry of settled work is not a new action and
\* must not become an error"; docs/runbook.md:106)
LostWriteIsFound ==
    \A j \in Jobs :
        LET d == job[j].doc
            landed == job[j].landed
        IN  (verdict[j] = "failed" /\ landed # Nowhere)
              => \/ Len(runs[d]) > landed.at
                 \/ job[j].error \in CrmErrors
                 \/ approval[d].expired /\ write[<<d, landed.hash>>] # "succeeded"

\* A document whose extraction is queued does not stay received unless a
\* person finds its job in the review queue.
\* (docs/runbook.md:19 "no extraction has run")
QueuedDocumentsMove ==
    \A j \in Jobs : \A d \in Docs :
        (verdict[j] = "open" /\ job[j].type = "extract" /\ job[j].doc = d)
          ~> (doc[d].status # "received" \/ verdict[j] = "failed")
=============================================================================
