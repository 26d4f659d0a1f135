-------------------------------- MODULE Jobs --------------------------------
(***************************************************************************)
(* A pipeline run from the command line: `job run`, then `job wait`, and   *)
(* as long as the answer is "error" perhaps `job retry` and `job wait`     *)
(* again.  Every retry is a job of its own, with rows and a Kubernetes Job *)
(* of its own, while workers of the earlier job may still be at work.  The *)
(* user may retry any job that has failed, and more than once.             *)
(*                                                                         *)
(* The babysitters look after all jobs.  What one of them has read of      *)
(* failed datums it works off row by row, and other babysitters may have   *)
(* overtaken it.  Behind says what goes on behind the user's back, and is  *)
(* what Falconeri implements (PipelineJob).                                *)
(***************************************************************************)
EXTENDS Manifest, Statuses, Sequences, FiniteSets

CONSTANTS
    Work,      \* what the datums of the pipeline's input stand for
    Specs,     \* the pipeline specs the user may submit
    Babysitters,
    MaxJobs    \* bound: the user then retries no more

ASSUME SpecsAssumption == Specs \subseteq PipelineSpec

ASSUME WorkAssumption == IsFiniteSet(Work)

VARIABLES
    jobs,    \* the jobs rows, in the order of their creation
    datums,  \* the datums rows of each job: a function on part of Work
    k8s,     \* the Kubernetes Job of each job
    todo,    \* the rerunable datums each babysitter has read and not yet visited
    origin,  \* history: the job that each job retries, 0 for the first
    user     \* what the user's script is doing

tables == <<jobs, datums>>

users == <<origin, user>>

vars == <<tables, k8s, todo, users>>

-----------------------------------------------------------------------------

JobRow ==
    [status : Status, error_message : BOOLEAN, pipeline_spec : Specs]

DatumRow == [status : Status, attempted_run_count : Nat]

KubernetesJob ==
    [state : {"pending", "applied", "missing"},
     parallelism : Nat, backoffLimit : Nat, activeDeadlineSeconds : Nat]

JobIds == DOMAIN jobs

JobsTypeOK ==
    /\ jobs \in Seq(JobRow)
    /\ k8s \in Seq(KubernetesJob)
    /\ DOMAIN datums = JobIds /\ DOMAIN k8s = JobIds
    /\ \A j \in JobIds : /\ DOMAIN datums[j] \subseteq Work
                         /\ \A w \in DOMAIN datums[j] : datums[j][w] \in DatumRow
    /\ todo \in [Babysitters -> SUBSET (JobIds \X Work)]
    /\ DOMAIN origin = JobIds /\ \A j \in JobIds : origin[j] \in 0..(j - 1)
    /\ user \in {"start", "waiting", "refused", "finished"}

JobsInit ==
    /\ jobs = <<>>
    /\ datums = <<>>
    /\ k8s = <<>>
    /\ todo = [b \in Babysitters |-> {}]
    /\ origin = <<>>
    /\ user = "start"

-----------------------------------------------------------------------------
(* Starting jobs.                                                          *)

NewJob(stored) ==
    [status |-> "running", error_message |-> FALSE, pipeline_spec |-> stored]

NewDatums(work) == [w \in work |-> [status |-> "ready", attempted_run_count |-> 0]]

NewKubernetesJob(launched) ==
    [parallelism |-> launched.parallelism, backoffLimit |-> launched.backoffLimit,
     activeDeadlineSeconds |-> launched.activeDeadlineSeconds, state |-> "pending"]

\* One transaction inserts the job and its datums; the manifest is rendered
\* from launched, which for a retry is not the spec that is stored.
Insert(retried, stored, work, launched) ==
    /\ jobs' = Append(jobs, NewJob(stored))
    /\ datums' = Append(datums, NewDatums(work))
    /\ k8s' = Append(k8s, NewKubernetesJob(launched))
    /\ origin' = Append(origin, retried)
    /\ user' = "waiting"
    /\ UNCHANGED todo

RunJob ==
    /\ user = "start"
    /\ \E spec \in Specs :
         IF Accepted(spec)
         THEN Insert(0, spec, Work, JobParams(spec))
         ELSE user' = "refused" /\ UNCHANGED <<tables, k8s, todo, origin>>

\* Mutation: the wrong status.
UnfinishedDatums(j) == {w \in DOMAIN datums[j] : datums[j][w].status = "running"}

\* datums_with_status(Error).
ErrorDatums(j) == {w \in DOMAIN datums[j] : datums[j][w].status = "error"}

\* `job wait` has printed "error" for job j.
RetryJob(j) ==
    /\ user = "waiting"
    /\ Len(jobs) < MaxJobs
    /\ jobs[j].status = "error"
    /\ LET spec == jobs[j].pipeline_spec
       IN  Insert(j, spec, ErrorDatums(j),
                  JobParams(ForRetry(spec, Cardinality(ErrorDatums(j)))))

StopWaiting ==
    /\ user = "waiting"
    /\ HasFinished(jobs[Len(jobs)].status)
    /\ user' = "finished"
    /\ UNCHANGED <<tables, k8s, todo, origin>>

\* start_batch_job, which falconerid may fail at, or not live to try.
Apply(j) ==
    /\ k8s[j].state = "pending"
    /\ \E state \in {"applied", "missing"} : k8s' = [k8s EXCEPT ![j].state = state]
    /\ UNCHANGED <<tables, todo, users>>

-----------------------------------------------------------------------------
(* What happens within job j.                                              *)

IsRerunable(j, row) ==
    /\ row.status = "error"
    /\ row.attempted_run_count < MaximumAllowedRunCount(jobs[j].pipeline_spec)

Outcome(j, rows) ==
    IF \E w \in DOMAIN rows : \/ rows[w].status \in {"ready", "running"}
                              \/ IsRerunable(j, rows[w])
    THEN "running"
    ELSE IF \E w \in DOMAIN rows : rows[w].status = "error" THEN "error"
    ELSE "done"

UpdateStatusIfDone(j, rows) ==
    jobs' = IF jobs[j].status = "running"
            THEN [jobs EXCEPT ![j].status = Outcome(j, rows)]
            ELSE jobs

DatumBecomes(j, w, status) == datums' = [datums EXCEPT ![j][w].status = status]

\* Mutation: the count is of the runs that are left, from zero.
ReserveCountingDown(j, w) ==
    /\ k8s[j].state = "applied" /\ k8s[j].parallelism > 0
    /\ datums[j][w].status = "ready"
    /\ datums' = [datums EXCEPT ![j][w] =
                    [status |-> "running",
                     attempted_run_count |-> @.attempted_run_count - 1]]
    /\ UNCHANGED <<jobs, k8s, todo, users>>

\* A worker that has seen the job run, once, may reserve after its end.
ReserveDatum(j, w) ==
    /\ k8s[j].state = "applied" /\ k8s[j].parallelism > 0
    /\ datums[j][w].status = "ready"
    /\ datums' = [datums EXCEPT ![j][w] =
                    [status |-> "running",
                     attempted_run_count |-> @.attempted_run_count + 1]]
    /\ UNCHANGED <<jobs, k8s, todo, users>>

PatchDatum(j, w) ==
    /\ datums[j][w].status = "running"
    /\ \E status \in {"done", "error"} : DatumBecomes(j, w, status)
    /\ UpdateStatusIfDone(j, datums'[j])
    /\ UNCHANGED <<k8s, todo, users>>

MarkZombie(j, w) ==
    /\ datums[j][w].status = "running"
    /\ DatumBecomes(j, w, "error")
    /\ UNCHANGED <<jobs, k8s, todo, users>>

\* The babysitter finds the datums finished ...
CloseJob(j) ==
    /\ UpdateStatusIfDone(j, datums[j])
    /\ UNCHANGED <<datums, k8s, todo, users>>

\* Mutation: the listing is acted upon in the middle of the reruns.
FailJobAnyTime(b, j) ==
    /\ k8s[j].state # "pending"
    /\ jobs[j].status = "running" /\ Outcome(j, datums[j]) = "running"
    /\ jobs' = [jobs EXCEPT ![j].status = "error", ![j].error_message = TRUE]
    /\ UNCHANGED <<datums, k8s, todo, users>>

\* ... or the Kubernetes Job failed or vanished.  This comes first in a pass, so
\* babysitter b has nothing left to rerun, but another one may.
FailJob(b, j) ==
    /\ todo[b] = {}
    /\ k8s[j].state # "pending"
    /\ jobs[j].status = "running" /\ Outcome(j, datums[j]) = "running"
    /\ jobs' = [jobs EXCEPT ![j].status = "error", ![j].error_message = TRUE]
    /\ UNCHANGED <<datums, k8s, todo, users>>

JobStep(j) ==
    \/ Apply(j)
    \/ \E w \in DOMAIN datums[j] : \/ ReserveDatum(j, w)
                                   \/ PatchDatum(j, w)
                                   \/ MarkZombie(j, w)
    \/ CloseJob(j)
    \/ \E b \in Babysitters : FailJob(b, j)

-----------------------------------------------------------------------------
(* Reruns, in whatever job.                                                *)

\* Mutation: the list is not restricted to running jobs.
ReadAnyRerunable(b) ==
    /\ todo[b] = {}
    /\ todo' = [todo EXCEPT ![b] =
                  {t \in JobIds \X Work : /\ t[2] \in DOMAIN datums[t[1]]
                                         /\ IsRerunable(t[1], datums[t[1]][t[2]])}]
    /\ UNCHANGED <<tables, k8s, users>>

\* Datum::rerunable, the only look at the jobs.
ReadRerunable(b) ==
    /\ todo[b] = {}
    /\ todo' = [todo EXCEPT ![b] =
                  {t \in JobIds \X Work : /\ jobs[t[1]].status = "running"
                                         /\ t[2] \in DOMAIN datums[t[1]]
                                         /\ IsRerunable(t[1], datums[t[1]][t[2]])}]
    /\ UNCHANGED <<tables, k8s, users>>

\* The transaction for one datum of the list checks the datum again, and not
\* the job.
RerunDatum(b, j, w) ==
    /\ <<j, w>> \in todo[b]
    /\ todo' = [todo EXCEPT ![b] = @ \ {<<j, w>>}]
    /\ IF IsRerunable(j, datums[j][w])
       THEN DatumBecomes(j, w, "ready")
       ELSE UNCHANGED datums
    /\ UNCHANGED <<jobs, k8s, users>>

\* An error or a crash ends the pass.
AbandonPass(b) ==
    /\ todo' = [todo EXCEPT ![b] = {}]
    /\ UNCHANGED <<tables, k8s, users>>

BabysitterStep(b) ==
    \/ ReadRerunable(b)
    \/ \E t \in todo[b] : RerunDatum(b, t[1], t[2])
    \/ AbandonPass(b)

\* What workers, babysitters and cluster do.
Behind ==
    \/ \E j \in JobIds : JobStep(j)
    \/ \E b \in Babysitters : BabysitterStep(b)

\* The script is over; jobs without pods may remain as they are.
Over == user \in {"refused", "finished"} /\ UNCHANGED vars

JobsNext ==
    \/ RunJob
    \/ \E j \in JobIds : RetryJob(j)
    \/ StopWaiting
    \/ Behind
    \/ Over

JobsSpec == JobsInit /\ [][JobsNext]_vars

-----------------------------------------------------------------------------
(* Properties.                                                             *)

Done(j, w) == w \in DOMAIN datums[j] /\ datums[j][w].status = "done"

\* No failed job was retried twice, as by a user who repeats a `job retry` whose
\* answer was lost.
RetriedOnce == \A j, k \in JobIds : origin[j] = origin[k] => j = k

(***************************************************************************)
(* No work is done by two jobs, so no output is written twice: the UNIQUE  *)
(* constraint on output files, which is per job, would not notice          *)
(* (start_job.rs, retry_job, next to workers of the old job).  Holds with  *)
(* one babysitter, and for a user who retries no job twice.                *)
(***************************************************************************)
WorkIsDoneOnce ==
    RetriedOnce =>
        \A j, k \in JobIds, w \in Work : Done(j, w) /\ Done(k, w) => j = k

(***************************************************************************)
(* When the last job is done all the work is, in one job or another,       *)
(* unless Kubernetes ended one of them: then what was ready or running is  *)
(* not copied by retry_job, and no job knows of it any more.               *)
(***************************************************************************)
DoneMeansAllIsDone ==
    user = "finished" /\ jobs[Len(jobs)].status = "done" =>
        \/ \A w \in Work : \E j \in JobIds : Done(j, w)
        \/ \E j \in JobIds : jobs[j].error_message

(***************************************************************************)
(* A datum that a retry took over is never run again by the old job, whose *)
(* babysitter may have been about to rerun it (babysitter.rs,              *)
(* check_for_datums_which_can_be_rerun, which looks at the job only when   *)
(* it makes its list).  Holds with one babysitter.                         *)
(***************************************************************************)
RetriedDatumsStayFailed ==
    [][\A k \in JobIds : origin[k] # 0 =>
         \A w \in DOMAIN datums[k] : datums'[origin[k]][w].status = "error"]_vars

(***************************************************************************)
(* Whatever the parallelism, the default budget is the greater of four     *)
(* failed pods and twice parallelism_spec.constant                         *)
(* (guide/src/specification.md), as far as Kubernetes can count, and any   *)
(* budget is one that Kubernetes accepts.                                  *)
(***************************************************************************)
BudgetFitsThePool ==
    \A j \in JobIds :
        LET budget == k8s[j].backoffLimit
            twice == 2 * k8s[j].parallelism
        IN  /\ budget \in 1..I32Max
            /\ jobs[j].pipeline_spec.pod_failures = Unset =>
                 /\ budget >= 4
                 /\ budget >= twice \/ budget = I32Max
                 /\ budget <= twice \/ budget = 4

(***************************************************************************)
(* `A zero timeout would fail every job the moment it started, so treat it *)
(* as a mistake` (pipeline.rs:59): no accepted job has one.  Fails,        *)
(* because a timeout of less than a second is cut to zero afterwards.      *)
(***************************************************************************)
AcceptedJobsHaveTime == \A j \in JobIds : k8s[j].activeDeadlineSeconds > 0
=============================================================================
