---------------------------- MODULE JobLifecycle ----------------------------
(***************************************************************************)
(* What a falconeri job promises to the person who waits for it, after the *)
(* status tables of guide/src/job-lifecycle.md: which status a job and its *)
(* datums can take next, and what the final status of a job says.  Nothing *)
(* is said of pods, workers or babysitters.                                *)
(***************************************************************************)
EXTENDS Naturals

CONSTANTS Datums, MaxRuns

VARIABLES
    status,     \* the job's
    progress,   \* each datum's status
    attempts    \* how often each datum has been started

lifecycle == <<status, progress, attempts>>

Start ==
    /\ status = "running"
    /\ progress = [d \in Datums |-> "ready"]
    /\ attempts = [d \in Datums |-> 0]

MayRetry(d) == progress[d] = "error" /\ attempts[d] < MaxRuns

\* Every datum is done or has failed for good ...
Settled ==
    \A d \in Datums : \/ progress[d] = "done"
                      \/ progress[d] = "error" /\ ~MayRetry(d)

\* ... and then the datums decide the job's final status.
Close ==
    /\ status = "running"
    /\ Settled'
    /\ status' = IF \A d \in Datums : progress'[d] = "done" THEN "done" ELSE "error"

Begin(d) ==
    /\ progress[d] = "ready"
    /\ progress' = [progress EXCEPT ![d] = "running"]
    /\ attempts' = [attempts EXCEPT ![d] = @ + 1]
    /\ UNCHANGED status

\* The last datum to finish may close the job.
Finish(d) ==
    /\ progress[d] = "running"
    /\ \E s \in {"done", "error"} : progress' = [progress EXCEPT ![d] = s]
    /\ UNCHANGED attempts
    /\ Close \/ UNCHANGED status

Retry(d) ==
    /\ MayRetry(d)
    /\ progress' = [progress EXCEPT ![d] = "ready"]
    /\ UNCHANGED <<status, attempts>>

CloseLate ==
    /\ UNCHANGED <<progress, attempts>>
    /\ Close

\* Kubernetes gave the job up.
Fail ==
    /\ status = "running"
    /\ status' = "error"
    /\ UNCHANGED <<progress, attempts>>

Advance ==
    \/ \E d \in Datums : Begin(d) \/ Finish(d) \/ Retry(d)
    \/ CloseLate
    \/ Fail

Lifecycle == Start /\ [][Advance]_lifecycle
=============================================================================
