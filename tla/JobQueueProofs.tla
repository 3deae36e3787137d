--------------------------- MODULE JobQueueProofs ---------------------------
(***************************************************************************)
(* Theorems about the job queue.  Each is stated for every set of jobs and *)
(* workers, every lease, retry budget and bound on crashes.                *)
(*                                                                         *)
(* The first part is about workers that may settle after their lease: the  *)
(* rows stay sound, and a verdict draws no new worker.  The second is      *)
(* about those that settle within it (Overrun is FALSE): ownership is      *)
(* exclusive, verdicts are final, the retry budget holds, and the queue    *)
(* implements its ledger.  OwnerHoldsLease is not inductive: that a claim  *)
(* cannot take a held job needs the lease to be live, and that a settle    *)
(* really frees the row needs the row to be still the one that was loaded. *)
(* OnTimeInv adds that (Current), and that only a running job has a lease  *)
(* and only a pending one a delay (Tidy).                                  *)
(***************************************************************************)
EXTENDS JobQueue, TLAPS

LEMMA NoRowType == NoRow \in Row
  BY DEF NoRow, Row, Statuses, FailureKinds, None

LEMMA IdleType == Idle \in WorkerState
  BY NoRowType DEF Idle, WorkerState, Pcs, None

\* Whatever the delay comes to, it is counted in ticks.
LEMMA BackoffType ==
  ASSUME NEW attempts
  PROVE  Backoff(attempts) \in Nat
  BY QueueAssumption DEF Backoff

\* The operators that make a row out of a row keep it a row.
LEMMA ReclaimedType ==
  ASSUME NEW row \in Row
  PROVE  Reclaimed(row) \in Row
  BY DEF Reclaimed, Row, Statuses

LEMMA LeasedType ==
  ASSUME NEW row \in Row, NEW w \in Workers
  PROVE  Leased(row, w) \in Row
  <1>1. row.attempts + 1 \in Nat /\ Lease \in Nat
    BY QueueAssumption DEF Row
  <1> QED BY <1>1 DEF Leased, Row, Statuses

LEMMA SnapshotType ==
  ASSUME NEW row \in Row
  PROVE  Snapshot(row) \in Row
  BY DEF Snapshot, Row

LEMMA FlushedType ==
  ASSUME NEW row \in Row, NEW loaded \in Row,
         NEW status \in Statuses, NEW kind \in FailureKinds \cup {None}
  PROVE  Flushed(row, loaded, status, kind) \in Row
  <1>1. /\ Net(row.status, loaded.status, status) \in Statuses \cup {"absent"}
        /\ Net(row.lease, loaded.lease, NoLease) \in Nat \cup {NoLease}
        /\ Net(row.lockedBy, loaded.lockedBy, NoWorker) \in Workers \cup {NoWorker}
        /\ Net(row.failureKind, loaded.failureKind, kind) \in FailureKinds \cup {None}
    BY DEF Net, Row
  <1> QED BY <1>1 DEF Flushed, Row

LEMMA SucceededType ==
  ASSUME NEW row \in Row, NEW loaded \in Row
  PROVE  Succeeded(row, loaded) \in Row
  <1>1. loaded.failureKind \in FailureKinds \cup {None} /\ "succeeded" \in Statuses
    BY DEF Row, Statuses
  <1> QED BY <1>1, FlushedType DEF Succeeded

LEMMA FailedRowType ==
  ASSUME NEW row \in Row, NEW loaded \in Row, NEW error
  PROVE  FailedRow(row, loaded, error) \in Row
  <1>1. loaded.failureKind \in FailureKinds \cup {None}
    BY DEF Row
  <1>2. /\ Flushed(row, loaded, "failed", "permanent") \in Row
        /\ Flushed(row, loaded, "failed", "transient_exhausted") \in Row
        /\ Flushed(row, loaded, "pending", loaded.failureKind) \in Row
    BY <1>1, FlushedType DEF Statuses, FailureKinds
  <1>3. ASSUME NEW retried \in Row
        PROVE  [retried EXCEPT !.wait = Backoff(loaded.attempts)] \in Row
    BY BackoffType DEF Row
  <1> QED BY <1>2, <1>3 DEF FailedRow

LEMMA LaterType ==
  ASSUME NEW ticks \in Nat \cup {NoLease}
  PROVE  /\ Later(ticks) \in Nat \cup {NoLease}
         /\ ticks \in Nat => Later(ticks) \in Nat
         /\ Later(ticks) = NoLease <=> ticks = NoLease
  BY QueueAssumption DEF Later

-----------------------------------------------------------------------------
LEMMA TypeInit == Init => TypeOK
  BY NoRowType, IdleType, QueueAssumption DEF Init, TypeOK, Idle

LEMMA TypeNext == TypeOK /\ [Next]_vars => TypeOK'
<1> SUFFICES ASSUME TypeOK, [Next]_vars PROVE TypeOK'
  OBVIOUS
<1>1. CASE Tick
  <2>1. ASSUME NEW j \in Jobs
        PROVE  [job[j] EXCEPT !.wait = Later(@), !.lease = Later(@)] \in Row
    BY LaterType DEF TypeOK, Row
  <2> QED BY <1>1, <2>1 DEF Tick, TypeOK
<1>2. ASSUME NEW j \in Jobs, Enqueue(j) PROVE TypeOK'
  <2>1. [job[j] EXCEPT !.status = "pending"] \in Row
    BY DEF TypeOK, Row, Statuses
  <2> QED BY <1>2, <2>1 DEF Enqueue, TypeOK
<1>3. ASSUME NEW w \in Workers, NEW j \in Jobs, Claim(w, j) PROVE TypeOK'
  <2>1. [Idle EXCEPT !.pc = "claimed", !.held = j] \in WorkerState
    BY IdleType DEF WorkerState, Pcs
  <2>2. job' \in [Jobs -> Row]
    BY <1>3, ReclaimedType, LeasedType DEF Claim, TypeOK
  <2> QED BY <1>3, <2>1, <2>2 DEF Claim, TypeOK, Idle
<1>4. ASSUME NEW w \in Workers, ClaimNothing(w) PROVE TypeOK'
  BY <1>4, ReclaimedType DEF ClaimNothing, TypeOK
<1>5. ASSUME NEW w \in Workers, NEW error \in Failures \cup {None}, Dispatch(w, error)
      PROVE  TypeOK'
  <2>1. [worker[w] EXCEPT !.pc = "dispatched", !.outcome = error] \in WorkerState
    BY DEF TypeOK, WorkerState, Pcs
  <2> QED BY <1>5, <2>1 DEF Dispatch, TypeOK, WorkerState
<1>6. ASSUME NEW w \in Workers, SettleLoad(w) PROVE TypeOK'
  <2>1. Snapshot(job[worker[w].held]) \in Row
    BY <1>6, SnapshotType DEF SettleLoad, TypeOK
  <2>2. [worker[w] EXCEPT !.pc = "loaded", !.loaded = Snapshot(job[worker[w].held])]
          \in WorkerState
    BY <2>1 DEF TypeOK, WorkerState, Pcs
  <2> QED BY <1>6, <2>2 DEF SettleLoad, TypeOK, WorkerState
<1>7. ASSUME NEW w \in Workers, SettleFlush(w) PROVE TypeOK'
  <2>1. worker[w].held \in Jobs /\ worker[w].loaded \in Row
    BY <1>7 DEF SettleFlush, TypeOK, WorkerState
  <2>2. job' \in [Jobs -> Row]
    BY <1>7, <2>1, SucceededType, FailedRowType DEF SettleFlush, TypeOK
  <2> QED BY <1>7, <2>2, IdleType DEF SettleFlush, TypeOK, Idle
<1>8. ASSUME NEW w \in Workers, Abandon(w) PROVE TypeOK'
  BY <1>8, IdleType, QueueAssumption DEF Abandon, TypeOK, Idle
<1>9. CASE UNCHANGED vars
  BY <1>9 DEF vars, TypeOK
<1> QED
  BY <1>1, <1>2, <1>3, <1>4, <1>5, <1>6, <1>7, <1>8, <1>9 DEF Next

\* Every state is well typed: rows stay rows under the lost updates of late
\* workers too.
THEOREM TypeCorrect == Spec => []TypeOK
  BY TypeInit, TypeNext, PTL DEF Spec
-----------------------------------------------------------------------------
(***************************************************************************)
(* What late workers cannot break.  A worker whose lease is over may flush *)
(* what it once loaded over the row another worker has claimed since.  The *)
(* columns it leaves alone are those it did not change, so what holds of   *)
(* the row afterwards must follow from what holds of the row and of the    *)
(* loaded copy: Sound is that invariant of a row, and Outgrows says what   *)
(* the row still has in common with the copy.                              *)
(***************************************************************************)
Sound(row) ==
    /\ row.lease = NoLease <=> row.lockedBy = NoWorker
    /\ row.status = "failed" => row.failureKind # None
    /\ row.failureKind = "transient_exhausted" => row.attempts >= MaxAttempts

Outgrows(row, older) ==
    /\ row.attempts >= older.attempts
    /\ older.failureKind # None => row.failureKind # None

LateInv ==
    /\ TypeOK
    /\ \A j \in Jobs : Sound(job[j])
    /\ \A w \in Workers : worker[w].pc = "loaded" =>
          /\ Sound(worker[w].loaded)
          /\ Outgrows(job[worker[w].held], worker[w].loaded)

LEMMA ReclaimedSound ==
  ASSUME NEW row \in Row, Sound(row)
  PROVE  Sound(Reclaimed(row)) /\ Outgrows(Reclaimed(row), row)
  BY DEF Sound, Outgrows, Reclaimed, Row

LEMMA LeasedSound ==
  ASSUME NEW row \in Row, Sound(row), NEW w \in Workers
  PROVE  Sound(Leased(row, w)) /\ Outgrows(Leased(row, w), row)
  <1>1. Lease # NoLease /\ w # NoWorker
    BY QueueAssumption
  <1>2. row.attempts \in Nat
    BY DEF Row
  <1>3. /\ Leased(row, w).lease = Lease
        /\ Leased(row, w).lockedBy = w
        /\ Leased(row, w).status = "running"
        /\ Leased(row, w).failureKind = row.failureKind
        /\ Leased(row, w).attempts = row.attempts + 1
    BY DEF Leased, Row
  <1> QED BY <1>1, <1>2, <1>3, QueueAssumption DEF Sound, Outgrows

LEMMA SnapshotSound ==
  ASSUME NEW row \in Row, Sound(row)
  PROVE  Sound(Snapshot(row)) /\ Outgrows(row, Snapshot(row))
  BY QueueAssumption DEF Sound, Outgrows, Snapshot, Row

\* The flush of a stale copy keeps the row sound, column by column.
LEMMA FlushedSound ==
  ASSUME NEW row \in Row, NEW loaded \in Row, Sound(row), Sound(loaded),
         Outgrows(row, loaded),
         NEW status \in Statuses, NEW kind \in FailureKinds \cup {None},
         status = "failed" => kind # None,
         loaded.failureKind # None => kind # None,
         kind = "transient_exhausted" =>
            loaded.attempts >= MaxAttempts \/ kind = loaded.failureKind
  PROVE  Sound(Flushed(row, loaded, status, kind))
         /\ Outgrows(Flushed(row, loaded, status, kind), row)
  <1> DEFINE new == Flushed(row, loaded, status, kind)
  <1>1. /\ new.status = Net(row.status, loaded.status, status)
        /\ new.lease = Net(row.lease, loaded.lease, NoLease)
        /\ new.lockedBy = Net(row.lockedBy, loaded.lockedBy, NoWorker)
        /\ new.failureKind = Net(row.failureKind, loaded.failureKind, kind)
        /\ new.attempts = row.attempts
    BY DEF Flushed, Row
  <1>2. new.lease = NoLease <=> new.lockedBy = NoWorker
    BY <1>1 DEF Net, Sound
  <1>3. row.failureKind # None => new.failureKind # None
    BY <1>1 DEF Net, Outgrows
  <1>4. new.status = "failed" => new.failureKind # None
    BY <1>1, <1>3 DEF Net, Sound, Outgrows
  <1>5. row.attempts \in Nat /\ loaded.attempts \in Nat /\ MaxAttempts \in Nat
    BY QueueAssumption DEF Row
  <1>6. new.failureKind = "transient_exhausted" => new.attempts >= MaxAttempts
    BY <1>1, <1>5 DEF Net, Sound, Outgrows
  <1> QED BY <1>1, <1>2, <1>3, <1>4, <1>5, <1>6 DEF Sound, Outgrows

LEMMA SettledSound ==
  ASSUME NEW row \in Row, NEW loaded \in Row, Sound(row), Sound(loaded),
         Outgrows(row, loaded), NEW error
  PROVE  /\ Sound(Succeeded(row, loaded)) /\ Outgrows(Succeeded(row, loaded), row)
         /\ Sound(FailedRow(row, loaded, error))
         /\ Outgrows(FailedRow(row, loaded, error), row)
  <1>1. loaded.failureKind \in FailureKinds \cup {None}
    BY DEF Row
  <1>2. Sound(Succeeded(row, loaded)) /\ Outgrows(Succeeded(row, loaded), row)
    BY <1>1, FlushedSound DEF Succeeded, Statuses
  <1> DEFINE permanent == Flushed(row, loaded, "failed", "permanent")
             exhausted == Flushed(row, loaded, "failed", "transient_exhausted")
             pending == Flushed(row, loaded, "pending", loaded.failureKind)
             retried == [pending EXCEPT !.wait = Backoff(loaded.attempts)]
  <1>3. Sound(permanent) /\ Outgrows(permanent, row)
    BY FlushedSound DEF Statuses, FailureKinds, None
  <1>4. loaded.attempts >= MaxAttempts => Sound(exhausted) /\ Outgrows(exhausted, row)
    BY FlushedSound DEF Statuses, FailureKinds, None
  <1>5. Sound(pending) /\ Outgrows(pending, row) /\ pending \in Row
    BY <1>1, FlushedSound, FlushedType DEF Statuses
  <1>6. /\ retried.status = pending.status /\ retried.lease = pending.lease
        /\ retried.lockedBy = pending.lockedBy /\ retried.attempts = pending.attempts
        /\ retried.failureKind = pending.failureKind
    BY <1>5 DEF Row
  <1>7. Sound(retried) /\ Outgrows(retried, row)
    BY <1>5, <1>6 DEF Sound, Outgrows
  <1> QED BY <1>2, <1>3, <1>4, <1>7 DEF FailedRow

LEMMA LaterSound ==
  ASSUME NEW row \in Row, Sound(row)
  PROVE  LET later == [row EXCEPT !.wait = Later(@), !.lease = Later(@)]
         IN  Sound(later) /\ Outgrows(later, row)
  <1>1. Later(row.lease) = NoLease <=> row.lease = NoLease
    BY LaterType DEF Row
  <1> QED BY <1>1 DEF Sound, Outgrows, Row

\* Every step keeps every row sound and lets it only outgrow what it was.
LEMMA RowsGrow ==
  ASSUME LateInv, [Next]_vars
  PROVE  \A j \in Jobs : Sound(job'[j]) /\ Outgrows(job'[j], job[j])
<1> USE DEF LateInv
<1>0. /\ job \in [Jobs -> Row]
      /\ \A j \in Jobs : Sound(job[j])
      /\ \A j \in Jobs : Outgrows(job[j], job[j])
  BY DEF TypeOK, Outgrows, Row
<1> SUFFICES ASSUME NEW j \in Jobs PROVE Sound(job'[j]) /\ Outgrows(job'[j], job[j])
  OBVIOUS
<1>1. CASE Tick
  BY <1>0, <1>1, LaterSound DEF Tick
<1>2. ASSUME NEW k \in Jobs, Enqueue(k) PROVE Sound(job'[j]) /\ Outgrows(job'[j], job[j])
  <2>1. CASE k = j
    BY <1>0, <1>2, <2>1 DEF Enqueue, Sound, Outgrows, Row
  <2>2. CASE k # j
    BY <1>0, <1>2, <2>2 DEF Enqueue
  <2> QED BY <2>1, <2>2
<1>3. ASSUME NEW w \in Workers, NEW k \in Jobs, Claim(w, k)
      PROVE  Sound(job'[j]) /\ Outgrows(job'[j], job[j])
  <2>1. Sound(Reclaimed(job[j])) /\ Outgrows(Reclaimed(job[j]), job[j])
        /\ Reclaimed(job[j]) \in Row
    BY <1>0, ReclaimedSound, ReclaimedType
  <2>2. Sound(Leased(Reclaimed(job[j]), w))
        /\ Outgrows(Leased(Reclaimed(job[j]), w), Reclaimed(job[j]))
        /\ Leased(Reclaimed(job[j]), w) \in Row
    BY <2>1, LeasedSound, LeasedType
  <2>3. Outgrows(Leased(Reclaimed(job[j]), w), job[j])
    BY <1>0, <2>1, <2>2 DEF Outgrows, Row
  <2> QED BY <1>3, <2>1, <2>2, <2>3 DEF Claim
<1>4. ASSUME NEW w \in Workers, ClaimNothing(w)
      PROVE  Sound(job'[j]) /\ Outgrows(job'[j], job[j])
  BY <1>0, <1>4, ReclaimedSound DEF ClaimNothing
<1>5. ASSUME NEW w \in Workers, SettleFlush(w)
      PROVE  Sound(job'[j]) /\ Outgrows(job'[j], job[j])
  <2>1. CASE worker[w].held = j
    <3>1. /\ worker[w].loaded \in Row /\ Sound(worker[w].loaded)
          /\ Outgrows(job[j], worker[w].loaded)
      BY <1>5, <2>1 DEF SettleFlush, TypeOK, WorkerState
    <3> QED BY <1>0, <1>5, <2>1, <3>1, SettledSound DEF SettleFlush
  <2>2. CASE worker[w].held # j
    BY <1>0, <1>5, <2>2 DEF SettleFlush
  <2> QED BY <2>1, <2>2
<1>6. CASE job' = job
  BY <1>0, <1>6
<1> QED BY <1>1, <1>2, <1>3, <1>4, <1>5, <1>6
        DEF Next, Dispatch, SettleLoad, Abandon, vars

LEMMA LateInit == Init => LateInv
  BY TypeInit, QueueAssumption DEF Init, LateInv, Sound, Outgrows, NoRow, Idle, None

LEMMA LateNext == LateInv /\ [Next]_vars => LateInv'
<1> SUFFICES ASSUME LateInv, [Next]_vars PROVE LateInv'
  OBVIOUS
<1>1. TypeOK'
  BY TypeNext DEF LateInv
<1>2. \A j \in Jobs : Sound(job'[j]) /\ Outgrows(job'[j], job[j])
  BY RowsGrow
<1>3. ASSUME NEW w \in Workers, worker'[w].pc = "loaded"
      PROVE  Sound(worker'[w].loaded) /\ Outgrows(job'[worker'[w].held], worker'[w].loaded)
  <2>1. CASE worker'[w] = worker[w]
    <3>1. /\ worker[w].held \in Jobs /\ worker[w].loaded \in Row
          /\ job[worker[w].held] \in Row /\ job'[worker[w].held] \in Row
      BY <1>1, <1>3, <2>1 DEF LateInv, TypeOK, WorkerState
    <3> QED BY <1>2, <1>3, <2>1, <3>1 DEF LateInv, Outgrows, Row
  <2>2. CASE SettleLoad(w)
    <3>1. /\ worker[w].held \in Jobs /\ job[worker[w].held] \in Row
          /\ Sound(job[worker[w].held])
      BY <2>2 DEF LateInv, TypeOK, SettleLoad
    <3>2. /\ worker'[w].loaded = Snapshot(job[worker[w].held])
          /\ worker'[w].held = worker[w].held /\ job' = job
      BY <2>2 DEF SettleLoad, LateInv, TypeOK, WorkerState
    <3> QED BY <3>1, <3>2, SnapshotSound
  <2>3. worker'[w] = worker[w] \/ SettleLoad(w)
    <3>1. worker \in [Workers -> WorkerState]
      BY DEF LateInv, TypeOK
    <3>2. ASSUME NEW u \in Workers,
                 \/ \E error \in Failures \cup {None} : Dispatch(u, error)
                 \/ SettleFlush(u) \/ Abandon(u) \/ \E j \in Jobs : Claim(u, j)
          PROVE  worker'[w] = worker[w]
      <4>1. worker'[u].pc # "loaded"
        <5>1. CASE \E error \in Failures \cup {None} : Dispatch(u, error)
          BY <3>1, <5>1 DEF Dispatch, WorkerState
        <5>2. CASE SettleFlush(u) \/ Abandon(u)
          BY <3>1, <5>2 DEF SettleFlush, Abandon, Idle
        <5>3. CASE \E j \in Jobs : Claim(u, j)
          BY <3>1, <5>3 DEF Claim, Idle
        <5> QED BY <3>2, <5>1, <5>2, <5>3
      <4>2. u # w
        BY <1>3, <4>1
      <4> QED BY <3>1, <3>2, <4>2 DEF Dispatch, SettleFlush, Abandon, Claim
    <3>3. ASSUME NEW u \in Workers, SettleLoad(u), u # w
          PROVE  worker'[w] = worker[w]
      BY <3>1, <3>3 DEF SettleLoad
    <3>4. CASE UNCHANGED worker
      BY <3>4
    <3> QED BY <3>2, <3>3, <3>4 DEF Next, vars, Tick, Enqueue, ClaimNothing
  <2> QED BY <2>1, <2>2, <2>3
<1> QED BY <1>1, <1>2, <1>3 DEF LateInv

\* Lost updates included, a lease and its owner appear and vanish together.
THEOREM LeaseAndOwnerAgree == Spec => []LeaseNamesOwner
<1>1. LateInv => LeaseNamesOwner
  BY DEF LateInv, Sound, LeaseNamesOwner
<1> QED BY <1>1, LateInit, LateNext, PTL DEF Spec

\* Lost updates included, the review queue never shows an unexplained
\* failure, nor an exhausted job that has attempts left.
THEOREM ReviewQueueIsExplained == Spec => []FailureIsExplained
<1>1. LateInv => FailureIsExplained
  BY DEF LateInv, Sound, FailureIsExplained
<1> QED BY <1>1, LateInit, LateNext, PTL DEF Spec

\* A verdict draws no new worker, late ones included: what is still done to its
\* row is done by a worker that had the job in hand before.
THEOREM VerdictsDrawNoWorker == Spec => OnlyHoldersResettle
<1> DEFINE Kept(j) ==
      /\ Holders(j)' \subseteq Holders(j)
      /\ Snapshot(job'[j]) # Snapshot(job[j]) =>
           \E w \in Workers : Holds(w, j) /\ ~Holds(w, j)'
<1>1. ASSUME TypeOK, [Next]_vars, NEW j \in Jobs, Settled(job[j])
      PROVE  Kept(j)
  <2>1. /\ job \in [Jobs -> Row] /\ job[j] \in Row
        /\ worker \in [Workers -> WorkerState]
    BY <1>1 DEF TypeOK
  <2>2. Reclaimed(job[j]) = job[j] /\ ~Claimable(Reclaimed(job[j]))
    BY <1>1 DEF Settled, Reclaimed, Claimable, Open
  <2>3. ASSUME NEW w \in Workers, NEW k \in Jobs, Claim(w, k)
        PROVE  Kept(j)
    <3>1. k # j /\ job'[j] = job[j]
      BY <2>2, <2>3 DEF Claim
    <3>2. /\ worker'[w].held = k
          /\ \A u \in Workers \ {w} : worker'[u] = worker[u]
      BY <2>1, <2>3 DEF Claim, Idle
    <3> QED BY <3>1, <3>2 DEF Holders, Holds
  <2>4. ASSUME NEW w \in Workers, SettleFlush(w)
        PROVE  Kept(j)
    <3>1. /\ worker'[w].pc = "idle"
          /\ \A u \in Workers \ {w} : worker'[u] = worker[u]
      BY <2>1, <2>4 DEF SettleFlush, Idle
    <3>2. worker[w].held # j => job'[j] = job[j]
      BY <2>1, <2>4 DEF SettleFlush
    <3>3. worker[w].held = j => Holds(w, j) /\ ~Holds(w, j)'
      BY <2>4, <3>1 DEF SettleFlush, Holds
    <3>4. Holders(j)' \subseteq Holders(j)
      BY <3>1 DEF Holders, Holds
    <3> QED BY <3>2, <3>3, <3>4
  <2>5. CASE Tick
    <3>1. Later(job[j].lease) = NoLease <=> job[j].lease = NoLease
      BY <2>1, LaterType DEF Row
    <3>2. job'[j] = [job[j] EXCEPT !.wait = Later(@), !.lease = Later(@)]
      BY <2>1, <2>5 DEF Tick
    <3>3. Snapshot(job'[j]) = Snapshot(job[j])
      BY <2>1, <3>1, <3>2 DEF Snapshot, Row
    <3> QED BY <2>5, <3>3 DEF Tick, Holders, Holds
  <2>6. ASSUME NEW w \in Workers,
               \/ \E error \in Failures \cup {None} : Dispatch(w, error)
               \/ SettleLoad(w) \/ Abandon(w)
        PROVE  Kept(j)
    <3>1. /\ job' = job
          /\ \A u \in Workers \ {w} : worker'[u] = worker[u]
          /\ \/ worker[w].pc # "idle" /\ worker'[w].held = worker[w].held
             \/ worker'[w].pc = "idle"
      BY <2>1, <2>6 DEF Dispatch, SettleLoad, Abandon, Idle, WorkerState
    <3> QED BY <3>1 DEF Holders, Holds
  <2>7. ASSUME NEW k \in Jobs, Enqueue(k)
        PROVE  Kept(j)
    <3>1. k # j
      BY <1>1, <2>7 DEF Enqueue, Settled
    <3> QED BY <2>1, <2>7, <3>1 DEF Enqueue, Holders, Holds
  <2>8. ASSUME NEW w \in Workers, ClaimNothing(w)
        PROVE  Kept(j)
    BY <2>2, <2>8 DEF ClaimNothing, Holders, Holds
  <2>9. CASE UNCHANGED vars
    BY <2>9 DEF vars, Holders, Holds
  <2> QED BY <1>1, <2>3, <2>4, <2>5, <2>6, <2>7, <2>8, <2>9 DEF Next
<1>2. TypeOK /\ [Next]_vars => [\A j \in Jobs : Settled(job[j]) => Kept(j)]_vars
  BY <1>1
<1> QED BY <1>2, TypeInit, TypeNext, PTL DEF Spec, OnlyHoldersResettle
-----------------------------------------------------------------------------
\* Workers that settle within their lease.

Tidy(row) ==
    /\ row.status # "running" => row.lease = NoLease
    /\ row.status # "pending" => row.wait = 0

Current(w) == worker[w].loaded = Snapshot(job[worker[w].held])

OnTimeInv ==
    /\ TypeOK
    /\ OwnerHoldsLease
    /\ \A j \in Jobs : Tidy(job[j])
    /\ \A w \in Workers : worker[w].pc = "loaded" => Current(w)

LEMMA OnTimeInit == Init => OnTimeInv
  BY TypeInit DEF Init, OnTimeInv, OwnerHoldsLease, Holds, Tidy, NoRow, Idle

\* A live lease shields its row from both halves of the claim transaction.
LEMMA LiveLeaseShields ==
  ASSUME NEW row \in Row, row.status = "running", row.lease \notin {NoLease, 0}
  PROVE  Reclaimed(row) = row /\ ~Claimable(row)
  BY DEF Reclaimed, Claimable, Expired

LEMMA ReclaimedTidy ==
  ASSUME NEW row \in Row, Tidy(row)
  PROVE  /\ Tidy(Reclaimed(row))
         /\ Settled(row) => Reclaimed(row) = row
         /\ Reclaimed(row).attempts = row.attempts
         /\ Open(Reclaimed(row)) <=> Open(row)
         /\ Settled(Reclaimed(row)) <=> Settled(row)
  BY DEF Tidy, Reclaimed, Settled, Open, Row

LEMMA LeasedTidy ==
  ASSUME NEW row \in Row, row.wait = 0, NEW w \in Workers
  PROVE  /\ Tidy(Leased(row, w))
         /\ Leased(row, w).status = "running"
         /\ Leased(row, w).lockedBy = w
         /\ Leased(row, w).lease \notin {NoLease, 0}
         /\ Leased(row, w).attempts = row.attempts + 1
  BY QueueAssumption DEF Tidy, Leased, Row

\* The passing of time does not show in what a session caches of a row.
LEMMA SnapshotAge ==
  ASSUME NEW row \in Row
  PROVE  Snapshot([row EXCEPT !.wait = Later(@), !.lease = Later(@)]) = Snapshot(row)
  <1>1. Later(row.lease) = NoLease <=> row.lease = NoLease
    BY LaterType DEF Row
  <1> QED BY <1>1 DEF Snapshot, Row

\* A settle on time ends the lease and leaves the running state.
LEMMA SettledTidy ==
  ASSUME NEW row \in Row, Tidy(row), row.status = "running",
         row.lease # NoLease, NEW error
  PROVE  /\ Tidy(Succeeded(row, Snapshot(row)))
         /\ Succeeded(row, Snapshot(row)).status = "succeeded"
         /\ Succeeded(row, Snapshot(row)).attempts = row.attempts
         /\ Tidy(FailedRow(row, Snapshot(row), error))
         /\ FailedRow(row, Snapshot(row), error).status \in {"failed", "pending"}
         /\ FailedRow(row, Snapshot(row), error).attempts = row.attempts
         /\ FailedRow(row, Snapshot(row), error).status = "pending"
              => row.attempts < MaxAttempts
  <1>1. /\ Snapshot(row).lease = 0 /\ Snapshot(row).status = "running"
        /\ Snapshot(row).attempts = row.attempts
    BY DEF Snapshot, Row
  <1>2. ASSUME NEW status \in Statuses \ {"running"}, NEW kind
        PROVE  /\ Flushed(row, Snapshot(row), status, kind).lease = NoLease
               /\ Flushed(row, Snapshot(row), status, kind).status = status
               /\ Flushed(row, Snapshot(row), status, kind).wait = 0
               /\ Flushed(row, Snapshot(row), status, kind).attempts = row.attempts
    BY <1>1, QueueAssumption DEF Flushed, Net, Row, Tidy
  <1>3. /\ Tidy(Succeeded(row, Snapshot(row)))
        /\ Succeeded(row, Snapshot(row)).status = "succeeded"
        /\ Succeeded(row, Snapshot(row)).attempts = row.attempts
    BY <1>2 DEF Succeeded, Tidy, Statuses
  <1>4. ASSUME NEW kind
        PROVE  LET gone == Flushed(row, Snapshot(row), "failed", kind)
               IN  Tidy(gone) /\ gone.status = "failed" /\ gone.attempts = row.attempts
    BY <1>2 DEF Tidy, Statuses
  <1>5. LET back == Flushed(row, Snapshot(row), "pending", Snapshot(row).failureKind)
            retried == [back EXCEPT !.wait = Backoff(Snapshot(row).attempts)]
        IN  Tidy(retried) /\ retried.status = "pending" /\ retried.attempts = row.attempts
    <2> DEFINE back == Flushed(row, Snapshot(row), "pending", Snapshot(row).failureKind)
               retried == [back EXCEPT !.wait = Backoff(Snapshot(row).attempts)]
    <2>1. back.lease = NoLease /\ back.status = "pending" /\ back.attempts = row.attempts
      BY <1>2 DEF Statuses
    <2>2. back \in Row
      BY SnapshotType, FlushedType DEF Row, Statuses
    <2>3. /\ retried.lease = back.lease /\ retried.status = back.status
          /\ retried.attempts = back.attempts
      BY <2>2 DEF Row
    <2> QED BY <2>1, <2>3 DEF Tidy
  <1>6. Snapshot(row).attempts >= MaxAttempts \/ row.attempts < MaxAttempts
    BY <1>1, QueueAssumption DEF Row
  <1> QED BY <1>3, <1>4, <1>5, <1>6 DEF FailedRow
-----------------------------------------------------------------------------
\* In the invariant, a step on a row that a worker holds is that worker's.
LEMMA ClaimNotHeld ==
  ASSUME OnTimeInv, NEW w \in Workers, NEW j \in Jobs, Holds(w, j)
  PROVE  Reclaimed(job[j]) = job[j] /\ ~Claimable(job[j])
  BY LiveLeaseShields DEF OnTimeInv, OwnerHoldsLease, TypeOK

LEMMA FlushIsCurrent ==
  ASSUME OnTimeInv, NEW w \in Workers, SettleFlush(w)
  PROVE  /\ worker[w].held \in Jobs
         /\ job[worker[w].held].status = "running"
         /\ job[worker[w].held].lockedBy = w
         /\ job[worker[w].held].lease # NoLease
         /\ worker[w].loaded = Snapshot(job[worker[w].held])
  BY DEF OnTimeInv, OwnerHoldsLease, Holds, TypeOK, SettleFlush, Current

\* How a step changes what a worker holds.
LEMMA HeldByStep ==
  ASSUME TypeOK, [Next]_vars, NEW w \in Workers, NEW j \in Jobs, Holds(w, j)'
  PROVE  \/ Holds(w, j) /\ ~Abandon(w) /\ ~SettleFlush(w)
         \/ Claim(w, j)
<1>1. worker \in [Workers -> WorkerState]
  BY DEF TypeOK
<1>2. ASSUME NEW u \in Workers, SettleFlush(u) \/ Abandon(u)
      PROVE  Holds(w, j)
  BY <1>1, <1>2 DEF SettleFlush, Abandon, Idle, Holds
<1>3. ASSUME NEW u \in Workers, NEW k \in Jobs, Claim(u, k)
      PROVE  Holds(w, j) \/ Claim(w, j)
  <2>1. CASE u = w
    <3>1. k = j
      BY <1>1, <1>3, <2>1 DEF Claim, Idle, Holds
    <3> QED BY <1>3, <2>1, <3>1
  <2>2. CASE u # w
    BY <1>1, <1>3, <2>2 DEF Claim, Holds
  <2> QED BY <2>1, <2>2
<1>4. ASSUME NEW u \in Workers, SettleLoad(u)
      PROVE  Holds(w, j)
  BY <1>1, <1>4 DEF SettleLoad, WorkerState, Holds
<1>5. ASSUME NEW u \in Workers, NEW error \in Failures \cup {None}, Dispatch(u, error)
      PROVE  Holds(w, j)
  BY <1>1, <1>5 DEF Dispatch, WorkerState, Holds
<1>6. ASSUME UNCHANGED worker PROVE Holds(w, j)
  BY <1>6 DEF Holds
<1>7. Holds(w, j) \/ Claim(w, j)
  BY <1>2, <1>3, <1>4, <1>5, <1>6 DEF Next, vars, Tick, Enqueue, ClaimNothing
<1>8. ~Abandon(w) /\ ~SettleFlush(w)
  BY <1>1 DEF SettleFlush, Abandon, Idle, Holds
<1> QED BY <1>7, <1>8

LEMMA OwnerNext ==
  ASSUME OnTimeInv, ~Overrun, [Next]_vars
  PROVE  OwnerHoldsLease'
<1> DEFINE Owned(row, w) == /\ row.status = "running" /\ row.lockedBy = w
                            /\ row.lease \notin {NoLease, 0}
<1> SUFFICES ASSUME NEW w \in Workers, NEW j \in Jobs, Holds(w, j)'
             PROVE  Owned(job'[j], w)
  BY DEF OwnerHoldsLease
<1>1. job \in [Jobs -> Row] /\ job[j] \in Row /\ Tidy(job[j]) /\ TypeOK
  BY DEF OnTimeInv, TypeOK
<1>2. CASE Claim(w, j)
  <2>1. Reclaimed(job[j]) \in Row /\ Reclaimed(job[j]).wait = 0
    BY <1>1, <1>2, ReclaimedType DEF Claim, Claimable
  <2>2. Owned(Leased(Reclaimed(job[j]), w), w)
    BY <2>1, LeasedTidy
  <2> QED BY <1>1, <1>2, <2>2 DEF Claim
<1>3. CASE Holds(w, j) /\ ~Abandon(w) /\ ~SettleFlush(w) /\ ~Claim(w, j)
  <2>1. Owned(job[j], w) /\ Reclaimed(job[j]) = job[j] /\ ~Claimable(job[j])
    BY <1>3, ClaimNotHeld DEF OnTimeInv, OwnerHoldsLease
  <2>2. CASE Tick
    <3>1. job[j].lease \in Nat /\ job[j].lease \notin {0, 1}
      BY <1>1, <1>3, <2>1, <2>2 DEF Tick, Holds, Row
    <3>2. Later(job[j].lease) \notin {NoLease, 0}
      BY <3>1, QueueAssumption DEF Later
    <3> QED BY <1>1, <2>1, <2>2, <3>2 DEF Tick, Row
  <2>3. ASSUME NEW k \in Jobs, Enqueue(k) PROVE job'[j] = job[j]
    BY <1>1, <2>1, <2>3 DEF Enqueue
  <2>4. ASSUME NEW u \in Workers, NEW k \in Jobs, Claim(u, k) PROVE job'[j] = job[j]
    BY <1>1, <2>1, <2>4 DEF Claim
  <2>5. ASSUME NEW u \in Workers, ClaimNothing(u) PROVE job'[j] = job[j]
    BY <1>1, <2>1, <2>5 DEF ClaimNothing
  <2>6. ASSUME NEW u \in Workers, SettleFlush(u) PROVE job'[j] = job[j]
    <3>1. job[worker[u].held].lockedBy = u /\ u # w
      BY <1>3, <2>6, FlushIsCurrent
    <3>2. worker[u].held # j
      BY <2>1, <3>1
    <3> QED BY <1>1, <2>6, <3>2 DEF SettleFlush
  <2>7. CASE job' = job
    BY <2>1, <2>7
  <2> QED BY <2>1, <2>2, <2>3, <2>4, <2>5, <2>6, <2>7
          DEF Next, vars, Dispatch, SettleLoad, Abandon
<1> QED BY <1>1, <1>2, <1>3, HeldByStep

\* What a step may make of one row when every settle is on time.
LEMMA TidyNext ==
  ASSUME OnTimeInv, [Next]_vars, NEW j \in Jobs
  PROVE  Tidy(job'[j]) /\ (Settled(job[j]) => job'[j] = job[j])
<1>1. job \in [Jobs -> Row] /\ job[j] \in Row /\ Tidy(job[j]) /\ TypeOK
  BY DEF OnTimeInv, TypeOK
<1>2. CASE Tick
  <2>1. Later(job[j].lease) = NoLease <=> job[j].lease = NoLease
    BY <1>1, LaterType DEF Row
  <2>2. job[j].wait = 0 => Later(job[j].wait) = 0
    BY DEF Later
  <2>3. job'[j] = [job[j] EXCEPT !.wait = Later(@), !.lease = Later(@)]
    BY <1>1, <1>2 DEF Tick
  <2>4. Tidy(job'[j])
    BY <1>1, <2>1, <2>2, <2>3 DEF Tidy, Row
  <2>5. ASSUME Settled(job[j]) PROVE job'[j] = job[j]
    <3>1. Later(job[j].lease) = job[j].lease /\ Later(job[j].wait) = job[j].wait
      BY <1>1, <2>2, <2>5 DEF Settled, Tidy, Later
    <3> QED BY <1>1, <2>3, <3>1 DEF Row
  <2> QED BY <2>4, <2>5
<1>3. ASSUME NEW k \in Jobs, Enqueue(k)
      PROVE  Tidy(job'[j]) /\ (Settled(job[j]) => job'[j] = job[j])
  BY <1>1, <1>3 DEF Enqueue, Tidy, Settled, Row
<1>4. ASSUME NEW u \in Workers, NEW k \in Jobs, Claim(u, k)
      PROVE  Tidy(job'[j]) /\ (Settled(job[j]) => job'[j] = job[j])
  <2>1. CASE k = j
    <3>1. Claimable(Reclaimed(job[j])) /\ job'[j] = Leased(Reclaimed(job[j]), u)
      BY <1>1, <1>4, <2>1 DEF Claim
    <3>2. Tidy(job'[j])
      BY <1>1, <3>1, ReclaimedType, LeasedTidy DEF Claimable
    <3>3. ~Settled(job[j])
      BY <1>1, <3>1, ReclaimedTidy DEF Claimable, Open, Settled
    <3> QED BY <3>2, <3>3
  <2>2. CASE k # j
    BY <1>1, <1>4, <2>2, ReclaimedTidy DEF Claim
  <2> QED BY <2>1, <2>2
<1>5. ASSUME NEW u \in Workers, ClaimNothing(u)
      PROVE  Tidy(job'[j]) /\ (Settled(job[j]) => job'[j] = job[j])
  BY <1>1, <1>5, ReclaimedTidy DEF ClaimNothing
<1>6. ASSUME NEW u \in Workers, SettleFlush(u)
      PROVE  Tidy(job'[j]) /\ (Settled(job[j]) => job'[j] = job[j])
  <2>1. CASE worker[u].held = j
    BY <1>1, <1>6, <2>1, FlushIsCurrent, SettledTidy DEF SettleFlush, Settled
  <2>2. CASE worker[u].held # j
    BY <1>1, <1>6, <2>2 DEF SettleFlush
  <2> QED BY <2>1, <2>2
<1>7. CASE job' = job
  BY <1>1, <1>7
<1> QED BY <1>2, <1>3, <1>4, <1>5, <1>6, <1>7
        DEF Next, vars, Dispatch, SettleLoad, Abandon

\* Only its owner changes a row that was loaded, but for the time that passes.
LEMMA CurrentNext ==
  ASSUME OnTimeInv, ~Overrun, [Next]_vars, NEW w \in Workers, worker'[w].pc = "loaded"
  PROVE  Current(w)'
<1>0. TypeOK /\ TypeOK' /\ OwnerHoldsLease'
  BY TypeNext, OwnerNext DEF OnTimeInv
<1> PICK j \in Jobs : worker'[w].held = j
  BY <1>0 DEF TypeOK
<1>1. TypeOK /\ TypeOK' /\ Holds(w, j)'
  BY <1>0 DEF Holds
<1>2. job \in [Jobs -> Row] /\ job[j] \in Row /\ job'[j] \in Row
      /\ worker \in [Workers -> WorkerState]
  BY <1>1 DEF TypeOK
<1>3. ~Claim(w, j)
  BY <1>2 DEF Claim, Idle
<1>4. Holds(w, j) /\ ~Abandon(w) /\ ~SettleFlush(w)
  BY <1>1, <1>3, HeldByStep
<1>5. CASE SettleLoad(w)
  BY <1>2, <1>5 DEF SettleLoad, Current, WorkerState
<1>6. CASE ~SettleLoad(w)
  <2>1. worker'[w] = worker[w]
    <3>1. ASSUME NEW error \in Failures \cup {None} PROVE ~Dispatch(w, error)
      BY <1>2 DEF Dispatch, WorkerState
    <3>2. ASSUME NEW k \in Jobs PROVE ~Claim(w, k)
      BY <1>2 DEF Claim, Idle
    <3>3. ASSUME NEW u \in Workers, u # w,
                 \/ \E k \in Jobs : Claim(u, k)
                 \/ \E error \in Failures \cup {None} : Dispatch(u, error)
                 \/ SettleLoad(u) \/ SettleFlush(u) \/ Abandon(u)
          PROVE  worker'[w] = worker[w]
      BY <1>2, <3>3 DEF Claim, Dispatch, SettleLoad, SettleFlush, Abandon
    <3>4. CASE UNCHANGED worker
      BY <3>4
    <3> QED BY <1>4, <1>6, <3>1, <3>2, <3>3, <3>4
            DEF Next, vars, Tick, Enqueue, ClaimNothing
  <2>2. worker[w].loaded = Snapshot(job[j]) /\ worker[w].held = j
    BY <2>1 DEF OnTimeInv, Current
  <2>3. Reclaimed(job[j]) = job[j] /\ ~Claimable(job[j]) /\ job[j].lockedBy = w
    BY <1>1, <1>4, ClaimNotHeld DEF OnTimeInv, OwnerHoldsLease
  <2>4. Snapshot(job'[j]) = Snapshot(job[j])
    <3>1. CASE Tick
      <4>1. job'[j] = [job[j] EXCEPT !.wait = Later(@), !.lease = Later(@)]
        BY <1>2, <3>1 DEF Tick
      <4> QED BY <1>2, <4>1, SnapshotAge
    <3>2. ASSUME NEW k \in Jobs, Enqueue(k) PROVE job'[j] = job[j]
      BY <1>1, <1>2, <1>4, <3>2 DEF Enqueue, OnTimeInv, OwnerHoldsLease
    <3>3. ASSUME NEW u \in Workers, (\E k \in Jobs : Claim(u, k)) \/ ClaimNothing(u)
          PROVE  job'[j] = job[j]
      BY <1>1, <1>2, <2>3, <3>3 DEF Claim, ClaimNothing
    <3>4. ASSUME NEW u \in Workers, SettleFlush(u) PROVE job'[j] = job[j]
      <4>1. worker[u].held # j
        BY <1>4, <2>3, <3>4, FlushIsCurrent
      <4> QED BY <1>2, <3>4, <4>1 DEF SettleFlush
    <3>5. CASE job' = job
      BY <3>5
    <3> QED BY <3>1, <3>2, <3>3, <3>4, <3>5
            DEF Next, vars, Dispatch, SettleLoad, Abandon
  <2> QED BY <2>1, <2>2, <2>4 DEF Current
<1> QED BY <1>5, <1>6

LEMMA OnTimeNext ==
  ASSUME ~Overrun
  PROVE  OnTimeInv /\ [Next]_vars => OnTimeInv'
  BY TypeNext, OwnerNext, TidyNext, CurrentNext DEF OnTimeInv

\* No two workers ever work on one job: whoever works on it owns its lease.
THEOREM Ownership == ASSUME ~Overrun PROVE Spec => []OwnerHoldsLease
<1>1. OnTimeInv => OwnerHoldsLease
  BY DEF OnTimeInv
<1> QED BY <1>1, OnTimeInit, OnTimeNext, PTL DEF Spec

\* As long as no dispatch outlasts its lease, a verdict is final and the row it
\* stands in is frozen.
THEOREM VerdictsAreFinal == ASSUME ~Overrun PROVE Spec => SettledForever
<1>1. OnTimeInv /\ [Next]_vars
        => [\A j \in Jobs : Settled(job[j]) => job'[j] = job[j]]_vars
  BY TidyNext
<1> QED BY <1>1, OnTimeInit, OnTimeNext, PTL DEF Spec, SettledForever
-----------------------------------------------------------------------------
(***************************************************************************)
(* The retry budget.  A job nobody holds and that is not settled still has *)
(* an attempt left, not counting the attempts that crashes cut short.      *)
(***************************************************************************)
InHand(j) == \E w \in Workers : Holds(w, j)

BudgetInv ==
    /\ OnTimeInv
    /\ \A j \in Jobs :
         /\ job[j].attempts <= MaxAttempts + crashes
         /\ ~Settled(job[j]) /\ ~InHand(j) => job[j].attempts < MaxAttempts + crashes

LEMMA BudgetNext ==
  ASSUME ~Overrun
  PROVE  BudgetInv /\ [Next]_vars => BudgetInv'
<1> SUFFICES ASSUME BudgetInv, [Next]_vars, NEW j \in Jobs
             PROVE  /\ job'[j].attempts <= MaxAttempts + crashes'
                    /\ ~Settled(job'[j]) /\ ~InHand(j)'
                          => job'[j].attempts < MaxAttempts + crashes'
  BY OnTimeNext DEF BudgetInv
<1>1. /\ job \in [Jobs -> Row] /\ job[j] \in Row /\ Tidy(job[j]) /\ TypeOK
      /\ worker \in [Workers -> WorkerState] /\ OnTimeInv
      /\ MaxAttempts \in Nat /\ crashes \in Nat /\ job[j].attempts \in Nat
  BY QueueAssumption DEF BudgetInv, OnTimeInv, TypeOK, Row
<1>2. /\ job[j].attempts <= MaxAttempts + crashes
      /\ ~Settled(job[j]) /\ ~InHand(j) => job[j].attempts < MaxAttempts + crashes
  BY DEF BudgetInv
<1>3. ASSUME NEW w \in Workers, Claim(w, j)
      PROVE  job'[j].attempts <= MaxAttempts + crashes' /\ InHand(j)'
  <2>1. ~InHand(j)
    BY <1>1, <1>3, ClaimNotHeld DEF InHand, Claim
  <2>2. ~Settled(job[j])
    BY <1>1, <1>3, ReclaimedTidy DEF Claim, Claimable, Settled, Open
  <2>3. job'[j].attempts = job[j].attempts + 1
    <3>1. Reclaimed(job[j]) \in Row /\ Reclaimed(job[j]).wait = 0
      BY <1>1, <1>3, ReclaimedType DEF Claim, Claimable
    <3>2. Leased(Reclaimed(job[j]), w).attempts = job[j].attempts + 1
      BY <1>1, <3>1, ReclaimedTidy, LeasedTidy
    <3> QED BY <1>1, <1>3, <3>2 DEF Claim
  <2>4. worker'[w].pc = "claimed" /\ worker'[w].held = j
    BY <1>1, <1>3 DEF Claim, Idle
  <2>5. InHand(j)'
    BY <2>4 DEF InHand, Holds
  <2>6. crashes' = crashes
    BY <1>3 DEF Claim
  <2> QED BY <1>1, <1>2, <2>1, <2>2, <2>3, <2>5, <2>6
<1>4. ASSUME NEW w \in Workers, SettleFlush(w), worker[w].held = j
      PROVE  /\ crashes' = crashes
             /\ job'[j].attempts = job[j].attempts
             /\ ~Settled(job'[j]) => job[j].attempts < MaxAttempts
  <2>1. job[j].status = "running" /\ job[j].lease # NoLease
        /\ worker[w].loaded = Snapshot(job[j])
    BY <1>1, <1>4, FlushIsCurrent
  <2>2. \/ job'[j] = Succeeded(job[j], Snapshot(job[j]))
        \/ job'[j] = FailedRow(job[j], Snapshot(job[j]), worker[w].outcome)
    BY <1>1, <1>4, <2>1 DEF SettleFlush
  <2>3. crashes' = crashes
    BY <1>4 DEF SettleFlush
  <2> QED BY <1>1, <2>1, <2>2, <2>3, SettledTidy DEF Settled
<1>5. ASSUME NEW w \in Workers, Abandon(w), worker[w].held = j
      PROVE  crashes' = crashes + 1 /\ job' = job
  BY <1>5 DEF Abandon
<1>6. ASSUME \A w \in Workers : /\ ~Claim(w, j)
                              /\ ~(SettleFlush(w) /\ worker[w].held = j)
                              /\ ~(Abandon(w) /\ worker[w].held = j)
      PROVE  /\ job'[j].attempts = job[j].attempts
             /\ crashes' = crashes \/ crashes' = crashes + 1
             /\ Settled(job'[j]) <=> Settled(job[j])
             /\ InHand(j) => InHand(j)'
  <2>1. CASE Tick
    BY <1>1, <2>1 DEF Tick, Row, Settled, InHand, Holds
  <2>2. ASSUME NEW k \in Jobs, Enqueue(k)
        PROVE  /\ job'[j].attempts = job[j].attempts /\ UNCHANGED <<worker, crashes>>
               /\ Settled(job'[j]) <=> Settled(job[j])
    BY <1>1, <2>2 DEF Enqueue, Row, Settled
  <2>3. ASSUME NEW w \in Workers, NEW k \in Jobs, Claim(w, k)
        PROVE  /\ job'[j].attempts = job[j].attempts /\ crashes' = crashes
               /\ Settled(job'[j]) <=> Settled(job[j])
               /\ InHand(j) => InHand(j)'
    <3>1. k # j
      BY <1>6, <2>3
    <3>2. job'[j] = Reclaimed(job[j])
      BY <1>1, <2>3, <3>1 DEF Claim
    <3>3. \A u \in Workers : Holds(u, j) => worker'[u] = worker[u]
      BY <1>1, <2>3 DEF Claim, Holds
    <3> QED BY <1>1, <2>3, <3>2, <3>3, ReclaimedTidy DEF InHand, Holds, Claim
  <2>4. ASSUME NEW w \in Workers, ClaimNothing(w)
        PROVE  /\ job'[j].attempts = job[j].attempts /\ UNCHANGED <<worker, crashes>>
               /\ Settled(job'[j]) <=> Settled(job[j])
    BY <1>1, <2>4, ReclaimedTidy DEF ClaimNothing
  <2>5. ASSUME NEW w \in Workers, NEW error \in Failures \cup {None}, Dispatch(w, error)
        PROVE  UNCHANGED <<job, crashes>> /\ (InHand(j) => InHand(j)')
    BY <1>1, <2>5 DEF Dispatch, InHand, Holds, WorkerState
  <2>6. ASSUME NEW w \in Workers, SettleLoad(w)
        PROVE  UNCHANGED <<job, crashes>> /\ (InHand(j) => InHand(j)')
    BY <1>1, <2>6 DEF SettleLoad, InHand, Holds, WorkerState
  <2>7. ASSUME NEW w \in Workers, SettleFlush(w)
        PROVE  job'[j] = job[j] /\ crashes' = crashes /\ (InHand(j) => InHand(j)')
    <3>1. worker[w].held # j
      BY <1>6, <2>7
    <3>2. \A u \in Workers : Holds(u, j) => worker'[u] = worker[u]
      BY <1>1, <2>7, <3>1 DEF SettleFlush, Holds
    <3> QED BY <1>1, <2>7, <3>1, <3>2 DEF SettleFlush, InHand, Holds
  <2>8. ASSUME NEW w \in Workers, Abandon(w)
        PROVE  job' = job /\ crashes' = crashes + 1 /\ (InHand(j) => InHand(j)')
    <3>1. worker[w].held # j
      BY <1>6, <2>8
    <3>2. \A u \in Workers : Holds(u, j) => worker'[u] = worker[u]
      BY <1>1, <2>8, <3>1 DEF Abandon, Holds
    <3> QED BY <2>8, <3>2 DEF Abandon, InHand, Holds
  <2>9. CASE UNCHANGED vars
    BY <2>9 DEF vars, InHand, Holds
  <2>10. UNCHANGED worker => (InHand(j) => InHand(j)')
    BY DEF InHand, Holds
  <2> QED BY <2>1, <2>2, <2>3, <2>4, <2>5, <2>6, <2>7, <2>8, <2>9, <2>10 DEF Next
<1> QED BY <1>1, <1>2, <1>3, <1>4, <1>5, <1>6

\* Retries stop at max_attempts; only attempts that were cut short go beyond.
THEOREM RetriesAreBounded == ASSUME ~Overrun PROVE Spec => []AttemptsWithinBudget
<1>1. Init => BudgetInv
  BY OnTimeInit, QueueAssumption DEF Init, BudgetInv, NoRow
<1>2. BudgetInv => AttemptsWithinBudget
  BY DEF BudgetInv, AttemptsWithinBudget
<1> QED BY <1>1, <1>2, BudgetNext, PTL DEF Spec
-----------------------------------------------------------------------------
(***************************************************************************)
(* The refinement.  A claim is the ledger's Take, a settle its Conclude or *)
(* (a retry) LetGo, an abandoned job a LetGo; ticks, dispatches and loads  *)
(* are steps the ledger does not see.                                      *)
(***************************************************************************)
Verdicts == [j \in Jobs |-> Verdict(job[j])]
Hands == [j \in Jobs |-> Holders(j)]

LEMMA VerdictSame ==
  ASSUME NEW row \in Row
  PROVE  /\ Verdict(Reclaimed(row)) = Verdict(row)
         /\ Verdict([row EXCEPT !.wait = Later(@), !.lease = Later(@)]) = Verdict(row)
  BY DEF Verdict, Open, Reclaimed, Row

LEMMA HandsSame ==
  ASSUME TypeOK,
         \A w \in Workers : worker'[w].pc # "idle" <=> worker[w].pc # "idle",
         \A w \in Workers : worker[w].pc # "idle" => worker'[w].held = worker[w].held
  PROVE  Hands' = Hands
  BY DEF Hands, Holders, Holds

\* When w lets go of its job, nobody else was holding it.
LEMMA HandsFreed ==
  ASSUME OnTimeInv, NEW w \in Workers, worker[w].pc # "idle",
         worker' = [worker EXCEPT ![w] = Idle]
  PROVE  /\ Hands[worker[w].held] = {w}
         /\ Hands' = [Hands EXCEPT ![worker[w].held] = {}]
<1> DEFINE k == worker[w].held
<1>1. k \in Jobs /\ worker \in [Workers -> WorkerState] /\ Holds(w, k)
  BY DEF OnTimeInv, TypeOK, Holds
<1>2. \A u \in Workers : Holds(u, k) => u = w
  BY <1>1 DEF OnTimeInv, OwnerHoldsLease
<1>3. Hands[k] = {w}
  BY <1>1, <1>2 DEF Hands, Holders
<1>4. \A u \in Workers, j \in Jobs : Holds(u, j)' <=> (u # w /\ Holds(u, j))
  BY <1>1 DEF Holds, Idle
<1>5. \A j \in Jobs : Holders(j)' = IF j = k THEN {} ELSE Holders(j)
  BY <1>1, <1>2, <1>4 DEF Holders, Holds
<1>6. Hands' = [j \in Jobs |-> Holders(j)']
  BY DEF Hands
<1> QED BY <1>3, <1>5, <1>6 DEF Hands

LEMMA LedgerStep ==
  ASSUME OnTimeInv, [Next]_vars
  PROVE  [Ledger!Next]_(Ledger!vars)
<1>1. /\ job \in [Jobs -> Row] /\ worker \in [Workers -> WorkerState] /\ TypeOK
      /\ \A w \in Workers : worker[w].pc # "idle" => worker[w].held \in Jobs
  BY DEF OnTimeInv, TypeOK
<1>3. ASSUME Verdicts' = Verdicts, Hands' = Hands
      PROVE  [Ledger!Next]_(Ledger!vars)
  BY <1>3 DEF Ledger!vars, Verdicts, Hands
<1>4. UNCHANGED worker => Hands' = Hands
  BY DEF Hands, Holders, Holds
<1>5. UNCHANGED job => Verdicts' = Verdicts
  BY DEF Verdicts
<1>6. CASE Tick
  <2>1. Verdicts' = Verdicts
    BY <1>1, <1>6, VerdictSame DEF Tick, Verdicts
  <2> QED BY <1>3, <1>4, <1>6, <2>1 DEF Tick
<1>7. ASSUME NEW k \in Jobs, Enqueue(k) PROVE Ledger!Next
  <2>1. Verdicts[k] = "absent" /\ Verdicts' = [Verdicts EXCEPT ![k] = "open"]
    BY <1>1, <1>7 DEF Enqueue, Verdicts, Verdict, Open, Row
  <2>2. Ledger!Submit(k)
    BY <1>4, <1>7, <2>1 DEF Enqueue, Ledger!Submit, Verdicts, Hands
  <2> QED BY <2>2 DEF Ledger!Next
<1>8. ASSUME NEW w \in Workers, NEW k \in Jobs, Claim(w, k) PROVE Ledger!Next
  <2>1. Verdicts' = Verdicts /\ Verdicts[k] = "open"
    <3>1. Open(Reclaimed(job[k])) /\ Open(job[k])
      BY <1>1, <1>8, ReclaimedTidy DEF OnTimeInv, Claim, Claimable
    <3>2. Verdict(Leased(Reclaimed(job[k]), w)) = "open" /\ Verdict(job[k]) = "open"
      BY <1>1, <3>1, ReclaimedType DEF Verdict, Leased, Open, Row
    <3> QED BY <1>1, <1>8, <3>2, VerdictSame DEF Claim, Verdicts
  <2>2. Hands[k] = {} /\ Hands' = [Hands EXCEPT ![k] = {w}]
    <3>1. \A u \in Workers : ~Holds(u, k)
      BY <1>8, ClaimNotHeld DEF Claim
    <3>2. \A u \in Workers, j \in Jobs : Holds(u, j)' <=> Holds(u, j) \/ (u = w /\ j = k)
      BY <1>1, <1>8 DEF Claim, Holds, Idle
    <3>3. \A j \in Jobs : Holders(j)' = IF j = k THEN {w} ELSE Holders(j)
      BY <3>1, <3>2 DEF Holders
    <3>4. Hands' = [j \in Jobs |-> Holders(j)']
      BY DEF Hands
    <3> QED BY <3>1, <3>3, <3>4 DEF Hands, Holders
  <2>3. Ledger!Take(w, k)
    BY <2>1, <2>2 DEF Ledger!Take, Verdicts, Hands
  <2> QED BY <2>3 DEF Ledger!Next
<1>9. ASSUME NEW w \in Workers, ClaimNothing(w) PROVE [Ledger!Next]_(Ledger!vars)
  <2>1. Verdicts' = Verdicts
    BY <1>1, <1>9, VerdictSame DEF ClaimNothing, Verdicts
  <2> QED BY <1>3, <1>4, <1>9, <2>1 DEF ClaimNothing
<1>10. ASSUME NEW w \in Workers, NEW error \in Failures \cup {None}, Dispatch(w, error)
       PROVE  [Ledger!Next]_(Ledger!vars)
  <2>1. Hands' = Hands
    BY <1>1, <1>10, HandsSame DEF Dispatch, WorkerState
  <2> QED BY <1>3, <1>5, <1>10, <2>1 DEF Dispatch
<1>11. ASSUME NEW w \in Workers, SettleLoad(w) PROVE [Ledger!Next]_(Ledger!vars)
  <2>1. Hands' = Hands
    BY <1>1, <1>11, HandsSame DEF SettleLoad, WorkerState
  <2> QED BY <1>3, <1>5, <1>11, <2>1 DEF SettleLoad
<1>12. ASSUME NEW w \in Workers, SettleFlush(w) PROVE Ledger!Next
  <2> DEFINE k == worker[w].held
  <2>1. /\ k \in Jobs /\ job[k] \in Row /\ Tidy(job[k])
        /\ job[k].status = "running" /\ job[k].lease # NoLease
        /\ worker[w].loaded = Snapshot(job[k])
    BY <1>1, <1>12, FlushIsCurrent DEF OnTimeInv
  <2>2. Hands[k] = {w} /\ Hands' = [Hands EXCEPT ![k] = {}]
    BY <1>12, HandsFreed DEF SettleFlush
  <2>3. job'[k].status \in {"succeeded", "failed", "pending"}
    <3>1. \/ job'[k] = Succeeded(job[k], Snapshot(job[k]))
          \/ job'[k] = FailedRow(job[k], Snapshot(job[k]), worker[w].outcome)
      BY <1>1, <1>12, <2>1 DEF SettleFlush
    <3> QED BY <2>1, <3>1, SettledTidy
  <2>4. Verdicts[k] = "open" /\ Verdicts' = [Verdicts EXCEPT ![k] = Verdict(job'[k])]
    BY <1>1, <1>12, <2>1 DEF SettleFlush, Verdicts, Verdict, Open
  <2>5. CASE job'[k].status = "pending"
    <3>1. Verdicts' = Verdicts
      BY <2>1, <2>4, <2>5 DEF Verdict, Open, Verdicts
    <3>2. Ledger!LetGo(w, k)
      BY <2>2, <3>1 DEF Ledger!LetGo, Verdicts, Hands
    <3> QED BY <2>1, <3>2 DEF Ledger!Next
  <2>6. CASE job'[k].status \in {"succeeded", "failed"}
    <3>1. Verdict(job'[k]) \in {"succeeded", "failed"}
      BY <2>6 DEF Verdict, Open
    <3>2. Ledger!Conclude(w, k, Verdict(job'[k]))
      BY <2>2, <2>4 DEF Ledger!Conclude, Verdicts, Hands
    <3> QED BY <2>1, <3>1, <3>2 DEF Ledger!Next
  <2> QED BY <2>3, <2>5, <2>6
<1>13. ASSUME NEW w \in Workers, Abandon(w) PROVE Ledger!Next
  <2>1. /\ Hands[worker[w].held] = {w}
        /\ Hands' = [Hands EXCEPT ![worker[w].held] = {}]
    BY <1>13, HandsFreed DEF Abandon
  <2>2. Ledger!LetGo(w, worker[w].held)
    BY <1>5, <1>13, <2>1 DEF Abandon, Ledger!LetGo, Verdicts, Hands
  <2> QED BY <1>1, <1>13, <2>2 DEF Abandon, Ledger!Next
<1>14. CASE UNCHANGED vars
  BY <1>3, <1>4, <1>5, <1>14 DEF vars
<1> QED BY <1>6, <1>7, <1>8, <1>9, <1>10, <1>11, <1>12, <1>13, <1>14 DEF Next

\* Leases, retries and crashes implement the ledger: one holder at a time,
\* and a verdict that stands once it is given.
THEOREM QueueImplementsLedger == ASSUME ~Overrun PROVE Spec => KeepsLedger
<1>1. Init => Ledger!Init
  BY DEF Init, Ledger!Init, Verdict, Open, Holders, Holds, NoRow, Idle
<1>2. OnTimeInv /\ [Next]_vars => [Ledger!Next]_(Ledger!vars)
  BY LedgerStep
<1> QED BY <1>1, <1>2, OnTimeInit, OnTimeNext, PTL DEF Spec, KeepsLedger, Ledger!Spec
=============================================================================
