------------------------------ MODULE JobQueue ------------------------------
(***************************************************************************)
(* The durable job table and the workers that drain it                     *)
(* (app/workflows/queue.py, app/workflows/worker.py, app/domain/jobs.py).  *)
(*                                                                         *)
(* A worker runs three transactions per job.  The claim transaction is one *)
(* atomic step here: it starts with the UPDATE of reclaim_expired and its  *)
(* candidate rows are read FOR UPDATE SKIP LOCKED (PostgreSQL) or under    *)
(* the write lock that UPDATE took (SQLite).  The dispatch transaction is  *)
(* one step that yields the failure, or none.  The settle transaction is   *)
(* two steps, the SELECT that loads the row and the UPDATE that flushes    *)
(* it, because nothing locks the row between them.                         *)
(*                                                                         *)
(* Time is a countdown: run_at and lease_expires_at are kept as the ticks  *)
(* that remain until they are due, and 0 is "not after now".               *)
(***************************************************************************)
EXTENDS Integers, FiniteSets, UnitOfWork

CONSTANTS
    Jobs,           \* rows of the job table
    Workers,        \* worker threads and processes
    NoWorker,       \* locked_by IS NULL
    NoLease,        \* lease_expires_at IS NULL
    Failures,       \* the exception classes a dispatch may return
    MaxAttempts,    \* max_attempts of every job
    Lease,          \* length of a lease, in ticks
    BackoffBase,    \* first retry delay, in ticks
    Horizon,        \* delays are counted up to here, longer ones are equal
    MaxCrashes,     \* bound on the workers lost in a behaviour
    Overrun         \* may a dispatch outlast the lease it runs under?

\* Each exception class with its base classes, as far as the retry policy
\* can tell them apart.  Unclassified stands for everything else.
MRO ==
    [ ProviderTimeout  |-> {"ProviderTimeout", "ProviderError"},
      ProviderRefusal  |-> {"ProviderRefusal", "ProviderError"},
      CrmUnavailable   |-> {"CrmUnavailable", "CrmError"},
      CrmRejected      |-> {"CrmRejected", "CrmError"},
      ApprovalRefusal  |-> {"ApprovalRefusal", "ApprovalError"},
      Unclassified     |-> {"Unclassified"} ]

None == "none"

TRANSIENT_ERRORS == {"ProviderTimeout", "CrmUnavailable"}
IsTransient(error) == MRO[error] \cap TRANSIENT_ERRORS # {}

ASSUME QueueAssumption ==
    /\ MaxAttempts \in Nat \ {0}
    /\ Lease \in Nat \ {0}
    /\ BackoffBase \in Nat
    /\ Horizon \in Nat
    /\ MaxCrashes \in Nat
    /\ Overrun \in BOOLEAN
    /\ Failures \subseteq DOMAIN MRO
    /\ NoWorker \notin Workers
    /\ NoLease \notin Int
    /\ None \notin Jobs

Statuses == {"pending", "running", "succeeded", "failed"}
FailureKinds == {"transient_exhausted", "permanent"}

VARIABLES
    job,        \* the job table; a row that is not there yet is "absent"
    worker,     \* what each worker is doing, with the row its session loaded
    crashes     \* how many workers were lost so far

vars == <<job, worker, crashes>>

Row == [ status      : Statuses \cup {"absent"},
         attempts    : Nat,
         wait        : Nat,
         lease       : Nat \cup {NoLease},
         lockedBy    : Workers \cup {NoWorker},
         failureKind : FailureKinds \cup {None} ]

NoRow == [ status |-> "absent", attempts |-> 0, wait |-> 0, lease |-> NoLease,
           lockedBy |-> NoWorker, failureKind |-> None ]

\* Where a worker is in run_once.
Pcs == {"idle", "claimed", "dispatched", "loaded"}

Idle == [pc |-> "idle", held |-> None, outcome |-> None, loaded |-> NoRow]

WorkerState == [ pc      : Pcs,
                 held    : Jobs \cup {None},
                 outcome : Failures \cup {None},
                 loaded  : Row ]

Init ==
    /\ job = [j \in Jobs |-> NoRow]
    /\ worker = [w \in Workers |-> Idle]
    /\ crashes = 0

-----------------------------------------------------------------------------
\* Mutant of Backoff: the delay is counted from the claim, a lease ago.
BackoffSinceClaim(attempts) ==
    LET delay == BackoffBase * 2 ^ (IF attempts > 1 THEN attempts - 1 ELSE 0) - Lease
    IN  IF delay <= Horizon THEN delay ELSE Horizon

\* The delay before the next attempt, in ticks up to Horizon.
Backoff(attempts) ==
    LET delay == BackoffBase * 2 ^ (IF attempts > 1 THEN attempts - 1 ELSE 0)
    IN  IF delay \in 0 .. Horizon THEN delay ELSE Horizon

Open(row) == row.status \in {"pending", "running"}
Settled(row) == row.status \in {"succeeded", "failed"}

\* lease_expires_at <= now, which SQL does not grant to a NULL.
Expired(row) == row.lease = 0

\* Mutants of Claimable: live leases, settled jobs, spent attempts.
ClaimableLeased(row) == Open(row) /\ row.wait = 0
ClaimableSettled(row) ==
    row.status # "absent" /\ row.wait = 0 /\ (row.lease = NoLease \/ Expired(row))
ClaimableInBudget(row) ==
    /\ Open(row) /\ row.wait = 0 /\ (row.lease = NoLease \/ Expired(row))
    /\ row.attempts < MaxAttempts

\* The candidates of claim, and the guard of its UPDATE.
Claimable(row) ==
    /\ Open(row)
    /\ row.wait = 0
    /\ row.lease = NoLease \/ Expired(row)

\* Mutants of Reclaimed: leases that have not expired; the lock is kept.
ReclaimedEarly(row) ==
    IF row.status = "running"
    THEN [row EXCEPT !.status = "pending", !.lockedBy = NoWorker, !.lease = NoLease]
    ELSE row
ReclaimedLocked(row) ==
    IF row.status = "running" /\ Expired(row)
    THEN [row EXCEPT !.status = "pending", !.lease = NoLease]
    ELSE row

\* What reclaim_expired makes of a row.
Reclaimed(row) ==
    IF row.status = "running" /\ Expired(row)
    THEN [row EXCEPT !.status = "pending", !.lockedBy = NoWorker,
                     !.lease = NoLease]
    ELSE row

\* What the guarded UPDATE of claim makes of a row.
Leased(row, w) ==
    [row EXCEPT !.status = "running", !.lockedBy = w, !.lease = Lease,
                !.attempts = @ + 1]

-----------------------------------------------------------------------------
\* A client queues an extraction or a write.
Enqueue(j) ==
    /\ job[j].status = "absent"
    /\ job' = [job EXCEPT ![j].status = "pending"]
    /\ UNCHANGED <<worker, crashes>>

\* The claim transaction: expired leases are reclaimed, then one due job is
\* leased.  run_at orders the candidates, but under contention the locked
\* ones are skipped, so any due job may be the one.
Claim(w, j) ==
    /\ worker[w].pc = "idle"
    /\ Claimable(Reclaimed(job[j]))
    /\ job' = [k \in Jobs |-> IF k = j THEN Leased(Reclaimed(job[k]), w)
                                       ELSE Reclaimed(job[k])]
    /\ worker' = [worker EXCEPT ![w] = [Idle EXCEPT !.pc = "claimed", !.held = j]]
    /\ UNCHANGED crashes

\* The claim transaction of a worker that finds nothing due.
ClaimNothing(w) ==
    /\ worker[w].pc = "idle"
    /\ \A j \in Jobs : ~Claimable(Reclaimed(job[j]))
    /\ job' = [j \in Jobs |-> Reclaimed(job[j])]
    /\ UNCHANGED <<worker, crashes>>

\* The dispatch transaction commits and yields the error it ran into, or none.
Dispatch(w, error) ==
    /\ worker[w].pc = "claimed"
    /\ worker' = [worker EXCEPT ![w].pc = "dispatched", ![w].outcome = error]
    /\ UNCHANGED <<job, crashes>>

\* The row as the settling session caches it.  Only NULL or not NULL matters
\* of the two timestamps.
Snapshot(row) ==
    [row EXCEPT !.wait = 0, !.lease = IF @ = NoLease THEN NoLease ELSE 0]

SettleLoad(w) ==
    /\ worker[w].pc = "dispatched"
    /\ worker' = [worker EXCEPT ![w].pc = "loaded",
                                ![w].loaded = Snapshot(job[worker[w].held])]
    /\ UNCHANGED <<job, crashes>>

\* What the flush of a settled job makes of its row: status and failureKind
\* are what the handler assigned to the loaded job, and like the lease and
\* the lock they reach the row only where they differ from what was loaded.
Flushed(row, loaded, status, failureKind) ==
    [row EXCEPT !.status      = Net(@, loaded.status, status),
                !.lease       = Net(@, loaded.lease, NoLease),
                !.lockedBy    = Net(@, loaded.lockedBy, NoWorker),
                !.failureKind = Net(@, loaded.failureKind, failureKind)]

\* queue.succeed leaves failure_kind as it was.
Succeeded(row, loaded) == Flushed(row, loaded, "succeeded", loaded.failureKind)

\* Mutants of FailedRow: one attempt too many, one too few.
FailedRowLate(row, loaded, error) ==
    IF ~IsTransient(error)
    THEN Flushed(row, loaded, "failed", "permanent")
    ELSE IF loaded.attempts > MaxAttempts
    THEN Flushed(row, loaded, "failed", "transient_exhausted")
    ELSE [Flushed(row, loaded, "pending", loaded.failureKind)
            EXCEPT !.wait = Backoff(loaded.attempts)]
FailedRowEarly(row, loaded, error) ==
    IF ~IsTransient(error)
    THEN Flushed(row, loaded, "failed", "permanent")
    ELSE IF loaded.attempts + 1 >= MaxAttempts
    THEN Flushed(row, loaded, "failed", "transient_exhausted")
    ELSE [Flushed(row, loaded, "pending", loaded.failureKind)
            EXCEPT !.wait = Backoff(loaded.attempts)]

\* queue.fail: a permanent error, a transient one out of attempts, or a retry.
\* A retry's run_at lies after the loaded one, so it is always written.
FailedRow(row, loaded, error) ==
    IF ~IsTransient(error)
    THEN Flushed(row, loaded, "failed", "permanent")
    ELSE IF loaded.attempts >= MaxAttempts
    THEN Flushed(row, loaded, "failed", "transient_exhausted")
    ELSE [Flushed(row, loaded, "pending", loaded.failureKind)
            EXCEPT !.wait = Backoff(loaded.attempts)]

\* The settle transaction commits.  Nothing in it asks whether the lease, or
\* even the claim, is still this worker's.
SettleFlush(w) ==
    /\ worker[w].pc = "loaded"
    /\ LET me == worker[w] IN
       job' = [job EXCEPT ![me.held] =
                  IF me.outcome = None
                  THEN Succeeded(@, me.loaded)
                  ELSE FailedRow(@, me.loaded, me.outcome)]
    /\ worker' = [worker EXCEPT ![w] = Idle]
    /\ UNCHANGED crashes

\* A worker dies, or an exception leaves run_once and run_forever starts the
\* next round: either way the job keeps its lease and nobody works on it.
Abandon(w) ==
    /\ worker[w].pc # "idle"
    /\ crashes < MaxCrashes
    /\ crashes' = crashes + 1
    /\ worker' = [worker EXCEPT ![w] = Idle]
    /\ UNCHANGED job

\* One tick less until it is due.
Later(ticks) == IF ticks = NoLease \/ ticks = 0 THEN ticks ELSE ticks - 1

\* Time passes.  Without Overrun a worker always settles in its lease.
Tick ==
    /\ \E j \in Jobs : job[j].wait > 0 \/ job[j].lease \notin {NoLease, 0}
    /\ \/ Overrun
       \/ \A w \in Workers : worker[w].pc # "idle" => job[worker[w].held].lease # 1
    /\ job' = [j \in Jobs |-> [job[j] EXCEPT !.wait = Later(@), !.lease = Later(@)]]
    /\ UNCHANGED <<worker, crashes>>

Next ==
    \/ Tick
    \/ \E j \in Jobs : Enqueue(j)
    \/ \E w \in Workers :
         \/ \E j \in Jobs : Claim(w, j)
         \/ ClaimNothing(w)
         \/ \E error \in Failures \cup {None} : Dispatch(w, error)
         \/ SettleLoad(w)
         \/ SettleFlush(w)
         \/ Abandon(w)

-----------------------------------------------------------------------------
\* Claims are fair job by job: the oldest due jobs are tried first, and a
\* retried job is due later than those that already wait.
Fairness ==
    /\ WF_vars(Tick)
    /\ \A j \in Jobs : SF_vars(\E w \in Workers : Claim(w, j))
    /\ \A w \in Workers :
         /\ WF_vars(\E error \in Failures \cup {None} : Dispatch(w, error))
         /\ WF_vars(SettleLoad(w))
         /\ WF_vars(SettleFlush(w))

Spec == Init /\ [][Next]_vars
FairSpec == Spec /\ Fairness

-----------------------------------------------------------------------------
Holds(w, j) == worker[w].pc # "idle" /\ worker[w].held = j

\* Every variable has its type.
TypeOK ==
    /\ job \in [Jobs -> Row]
    /\ worker \in [Workers -> WorkerState]
    /\ \A w \in Workers : worker[w].pc # "idle" => worker[w].held \in Jobs
    /\ crashes \in 0 .. MaxCrashes

\* As long as no dispatch outlasts its lease, a worker that has a job in hand
\* is its only owner: the row is running, locked by that worker, under a lease
\* that is still live.
\* (docs/runbook.md "A live lease is never stolen"; queue.claim)
OwnerHoldsLease ==
    \A w \in Workers : \A j \in Jobs :
        Holds(w, j) => /\ job[j].status = "running"
                       /\ job[j].lockedBy = w
                       /\ job[j].lease \notin {NoLease, 0}

\* What the review queue shows is explained: a failed job says why, and
\* transient_exhausted is only said of a job that had all its attempts.
\* (queue.fail; docs/runbook.md "transient_exhausted, not permanent")
FailureIsExplained ==
    \A j \in Jobs :
        /\ job[j].status = "failed" => job[j].failureKind # None
        /\ job[j].failureKind = "transient_exhausted"
             => job[j].attempts >= MaxAttempts

\* The columns of the lease and of its owner agree in every row, lost
\* updates of late workers included.  (queue.claim, succeed, fail, reclaim)
LeaseNamesOwner ==
    \A j \in Jobs : job[j].lease = NoLease <=> job[j].lockedBy = NoWorker

\* As long as no dispatch outlasts its lease, the retry budget is exceeded only
\* by the attempts that were cut short.
\* (queue.fail, queue.claim: a claim does not look at the budget)
AttemptsWithinBudget ==
    \A j \in Jobs : job[j].attempts <= MaxAttempts + crashes

\* As long as no dispatch outlasts its lease, a job that succeeded or failed for
\* good is never touched again: it is not claimed and its row stays as it is.
\* A late worker may still settle it: see OnlyHoldersResettle.
\* (queue.succeed, queue.fail)
SettledForever ==
    [][\A j \in Jobs : Settled(job[j]) => job'[j] = job[j]]_vars

\* Every job that is queued comes to a verdict that stays, whatever the
\* workers that try it run into, however late they settle it and however many
\* of them are lost.  (queue.fail, reclaim_expired)
JobSettles ==
    \A j \in Jobs : <>[](job[j].status = "absent" \/ Settled(job[j]))

-----------------------------------------------------------------------------
\* What the rows and the workers amount to for a client of the queue.
Verdict(row) == IF Open(row) THEN "open" ELSE row.status
Holders(j) == {w \in Workers : Holds(w, j)}

\* However late workers settle a job, one that has a verdict gets no new worker,
\* and no one but a worker that still has it in hand changes its row, once, as
\* it lets the job go.  (queue.claim, reclaim_expired, queue.succeed, queue.fail)
OnlyHoldersResettle ==
    [][\A j \in Jobs : Settled(job[j]) =>
         /\ Holders(j)' \subseteq Holders(j)
         /\ Snapshot(job'[j]) # Snapshot(job[j]) =>
              \E w \in Workers : Holds(w, j) /\ ~Holds(w, j)']_vars

Ledger == INSTANCE JobLedger WITH verdict <- [j \in Jobs |-> Verdict(job[j])],
                                  holders <- [j \in Jobs |-> Holders(j)]

\* As long as no dispatch outlasts its lease, leases, retries and crashes
\* implement the ledger: one holder at a time, and verdicts that are final.
KeepsLedger == Ledger!Spec
=============================================================================
