----------------------------- MODULE JobLedger ------------------------------
(***************************************************************************)
(* What the job queue promises its clients (docs/architecture.md "Durable  *)
(* workflow state"), without leases, retries or rows: a job that is        *)
(* submitted stays open until a worker that has it in hand concludes it;   *)
(* at most one worker has it in hand; a conclusion is final.               *)
(***************************************************************************)
CONSTANTS Jobs, Workers

VARIABLES
    verdict,    \* of each job: "absent", "open", "succeeded" or "failed"
    holders     \* of each job: the workers that have it in hand

vars == <<verdict, holders>>

Init ==
    /\ verdict = [j \in Jobs |-> "absent"]
    /\ holders = [j \in Jobs |-> {}]

Submit(j) ==
    /\ verdict[j] = "absent"
    /\ verdict' = [verdict EXCEPT ![j] = "open"]
    /\ UNCHANGED holders

Take(w, j) ==
    /\ verdict[j] = "open"
    /\ holders[j] = {}
    /\ holders' = [holders EXCEPT ![j] = {w}]
    /\ UNCHANGED verdict

\* The holder lets go of an open job: it was lost, or it will be retried.
LetGo(w, j) ==
    /\ holders[j] = {w}
    /\ holders' = [holders EXCEPT ![j] = {}]
    /\ UNCHANGED verdict

Conclude(w, j, v) ==
    /\ holders[j] = {w}
    /\ verdict[j] = "open"
    /\ verdict' = [verdict EXCEPT ![j] = v]
    /\ holders' = [holders EXCEPT ![j] = {}]

Next ==
    \E j \in Jobs :
        \/ Submit(j)
        \/ \E w \in Workers :
             \/ Take(w, j)
             \/ LetGo(w, j)
             \/ \E v \in {"succeeded", "failed"} : Conclude(w, j, v)

Spec == Init /\ [][Next]_vars
=============================================================================
