----------------------------- MODULE Falconeri ------------------------------
(***************************************************************************)
(* One falconeri job from the commit of run_job to its end: PostgreSQL     *)
(* behind falconerid, the Kubernetes Job, a worker per pod, and the        *)
(* babysitters.                                                            *)
(***************************************************************************)
EXTENDS Worker, Babysitter

vars == <<store, cluster, worker, bucket, babysitter>>

Init ==
    /\ StoreInit
    /\ ClusterInit
    /\ WorkerInit
    /\ BabysitterInit

-----------------------------------------------------------------------------

WorkerActs == \E p \in Pods : WorkerStep(p) /\ UNCHANGED babysitter

BabysitterActs ==
    \E b \in Babysitters : BabysitterStep(b) /\ UNCHANGED <<worker, bucket>>

\* A worker is gone when its pod no longer executes.
PodDies(p) ==
    /\ PodFails(p)
    /\ Goes(p, Idle)
    /\ UNCHANGED <<store, bucket, babysitter>>

(***************************************************************************)
(* Timing assumptions: kubectl apply ends within 15 minutes of the commit, *)
(* and no babysitter holds a listing from before the apply for as long as  *)
(* that.  The age of a job is only looked at when the listing lacks it, so *)
(* under these assumptions it is enough that the time passes while the     *)
(* Kubernetes job is missing.                                              *)
(***************************************************************************)
QuarterHourPasses ==
    /\ k8s_job = "missing"
    /\ CutoffPasses
    /\ UNCHANGED <<store, worker, bucket, babysitter>>

ClusterActs ==
    /\ \/ ApplyJob
       \/ ApplyNever
       \/ \E p \in Pods : StartPod(p)
       \/ \E p \in Pods : PodIsLost(p)
       \/ JobCompletes
       \/ JobFails
       \/ JobIsDeleted
    /\ UNCHANGED <<store, worker, bucket, babysitter>>

\* Nothing is left to do for this job.
Ended ==
    /\ HasFinished(job.status)
    /\ \A p \in Pods : ~Executes(p)
    /\ \A b \in Babysitters : babysitter[b].at = "asleep"
    /\ UNCHANGED vars

Next ==
    \/ WorkerActs
    \/ BabysitterActs
    \/ \E p \in Pods : PodDies(p)
    \/ ClusterActs
    \/ QuarterHourPasses
    \/ Ended

Spec == Init /\ [][Next]_vars

TypeOK ==
    /\ StoreTypeOK
    /\ ClusterTypeOK
    /\ WorkerTypeOK
    /\ BabysitterTypeOK

-----------------------------------------------------------------------------
(* What a finished job says.                                               *)

(***************************************************************************)
(* A job is only done when every datum is, and stays so: no late zombie,   *)
(* rerun or report takes a datum of a done job back (job.rs,               *)
(* update_status_if_done; babysitter.rs, the checks under the locks).      *)
(***************************************************************************)
DoneJobIsComplete ==
    job.status = "done" => \A d \in Datums : datums[d].status = "done"

(***************************************************************************)
(* A job that fails without a message from Kubernetes failed because of    *)
(* its datums: none can run again, and at least one failed for good.  So   *)
(* the workers, which leave when the job has finished, abandon no work.    *)
(***************************************************************************)
FailedJobIsDecided ==
    job.status = "error" /\ ~job.error_message =>
        /\ \A d \in Datums : \/ datums[d].status = "done"
                             \/ datums[d].status = "error" /\ ~IsRerunable(datums[d])
        /\ \E d \in Datums : datums[d].status = "error"

(***************************************************************************)
(* A message in the job's row means that Kubernetes really ended the job:  *)
(* a job that is being applied, or that runs or has completed, is never    *)
(* taken for a vanished one (babysitter.rs, the 15 minute cutoff).         *)
(***************************************************************************)
JobFailureIsReal == job.error_message => k8s_job \in {"failed", "missing"}

(***************************************************************************)
(* A final status stays as it is, whoever arrives late: a report, a        *)
(* babysitter with an old listing, the second half of a zombie's repair.   *)
(***************************************************************************)
VerdictIsFinal == [][HasFinished(job.status) => UNCHANGED job]_vars

(***************************************************************************)
(* A worker exits with status 0, which lets Kubernetes wind the whole job  *)
(* down, only when the job has finished (the IMPORTANT comment in          *)
(* falconeri-worker/src/main.rs).                                          *)
(***************************************************************************)
WorkersLeaveTogether ==
    \/ HasFinished(job.status)
    \/ k8s_job # "complete" /\ \A p \in Pods : pods[p] # "succeeded"

-----------------------------------------------------------------------------
(* Who works on which datum.                                               *)

(***************************************************************************)
(* A pod is recorded as working on one datum at most, however many answers *)
(* to its reservations are lost (the unique index on running datums).      *)
(***************************************************************************)
OneDatumPerPod ==
    \A p \in Pods, d, e \in Datums :
        /\ datums[d].status = "running" /\ datums[d].pod_name = p
        /\ datums[e].status = "running" /\ datums[e].pod_name = p
        => d = e

(***************************************************************************)
(* A datum becomes done only by the report of the worker that did its      *)
(* current run: a worker whose datum was taken from it and given out again *)
(* cannot finish it (datum.rs, lock_and_verify_owner, which compares only  *)
(* the pod's name and the status).                                         *)
(***************************************************************************)
DoneByTheCurrentRun ==
    [][\A d \in Datums :
         datums[d].status # "done" /\ datums'[d].status = "done" =>
            \E p \in Pods : /\ worker[p].at = "patch_datum"
                            /\ worker[p].outcome = "done"
                            /\ worker[p].datum = d
                            /\ worker[p].run = datums[d].attempted_run_count]_vars

(***************************************************************************)
(* A running datum is only declared failed by the worker that runs it, or  *)
(* when its pod is not running any more (babysitter.rs, zombies).  Holds   *)
(* with one babysitter.                                                    *)
(***************************************************************************)
OnlyDeadPodsLoseDatums ==
    [][\A d \in Datums, p \in Pods :
         /\ datums[d].status = "running" /\ datums[d].pod_name = p
         /\ datums'[d].status = "error"
         => \/ pods[p] # "running"
            \/ /\ worker[p].at = "patch_datum"
               /\ worker[p].outcome = "error"
               /\ worker[p].datum = d]_vars

(***************************************************************************)
(* No datum is started more often than datum_tries allows; a datum_tries   *)
(* of 0 still allows the first run.                                        *)
(***************************************************************************)
RunsAreBounded ==
    \A d \in Datums :
        datums[d].attempted_run_count <= (IF MaxRuns = 0 THEN 1 ELSE MaxRuns)

(***************************************************************************)
(* A failed datum is only made ready again while its job runs: `datum      *)
(* retries stop because they only run while the Falconeri job remains      *)
(* Running` (guide/src/job-lifecycle.md:260).  The list of the babysitter  *)
(* is a join with the running jobs, the transaction that acts on it does   *)
(* not look at the job.  Fails with two babysitters, holds with one.       *)
(***************************************************************************)
OnlyRunningJobsRetry ==
    [][\A d \in Datums :
         datums[d].status = "error" /\ datums'[d].status = "ready" =>
            job.status = "running"]_vars

-----------------------------------------------------------------------------
(* Output files.                                                           *)

(***************************************************************************)
(* The output records of a datum that runs or is done were made by its     *)
(* current run: none is left over from an earlier run for the check of     *)
(* create_output_files to find.                                            *)
(***************************************************************************)
OutputsAreOfTheCurrentRun ==
    \A f \in output_files :
        LET row == datums[f.datum]
        IN  row.status \in {"ready", "running", "done"} =>
                row.status # "ready" /\ f.run = row.attempted_run_count

(***************************************************************************)
(* A done datum has a done record for every output.  Holds with one        *)
(* babysitter.                                                             *)
(***************************************************************************)
DoneDatumsKeepOutputs ==
    \A d \in Datums :
        datums[d].status = "done" =>
            {f.uri : f \in {g \in FilesOf(d) : g.status = "done"}} = OutputUris[d]

(***************************************************************************)
(* A record that says done names an object that was stored (sync_up of the *)
(* storage drivers).  Holds if no output is a link.                        *)
(***************************************************************************)
DoneFilesAreStored == \A f \in output_files : f.status = "done" => f.uri \in bucket

(***************************************************************************)
(* Two done datums have no output in common: the UNIQUE constraint detects *)
(* when one worker tries to clobber the output of another (the comment in  *)
(* the first migration).  Holds with one babysitter.                       *)
(***************************************************************************)
DoneDatumsShareNoOutput ==
    \A d, e \in Datums :
        d # e /\ datums[d].status = "done" /\ datums[e].status = "done" =>
            OutputUris[d] \cap OutputUris[e] = {}

(***************************************************************************)
(* The babysitter removes output records only of a datum that is, under    *)
(* the lock, still eligible for a rerun (babysitter.rs:189: `double-check  *)
(* that we're still eligible for a re-run`).  Fails with two babysitters.  *)
(***************************************************************************)
RerunsRemoveOnlyEligibleOutputs ==
    [][\A f \in output_files :
         ~IsRerunable(datums[f.datum]) =>
            \E g \in output_files' : g.uri = f.uri /\ g.datum = f.datum]_vars

-----------------------------------------------------------------------------
(* The abstract lifecycle.                                                 *)

JobAsSeenByItsUser ==
    INSTANCE JobLifecycle WITH
        status <- job.status,
        progress <- [d \in Datums |-> datums[d].status],
        attempts <- [d \in Datums |-> datums[d].attempted_run_count]

(***************************************************************************)
(* The statuses in the tables move as the status tables of the guide say.  *)
(***************************************************************************)
KeepsLifecycle == JobAsSeenByItsUser!Lifecycle

-----------------------------------------------------------------------------
(* Liveness.                                                               *)

(***************************************************************************)
(* run_babysitter retries all errors, for ever, so a pass may be abandoned *)
(* any number of times but not every time at the same point: a step that   *)
(* is reached again and again succeeds in the end.                         *)
(***************************************************************************)
BabysitterFairness ==
    \A b \in Babysitters :
        /\ SF_vars(FindRunningJob(b) /\ UNCHANGED <<worker, bucket>>)
        /\ SF_vars(GetJobInfos(b) /\ UNCHANGED <<worker, bucket>>)
        /\ SF_vars(CheckJob(b) /\ UNCHANGED <<worker, bucket>>)
        /\ SF_vars(ReadRunningDatums(b) /\ UNCHANGED <<worker, bucket>>)
        /\ SF_vars(FindZombies(b) /\ UNCHANGED <<worker, bucket>>)
        /\ SF_vars(FailZombie(b) /\ UNCHANGED <<worker, bucket>>)
        /\ SF_vars(CloseJob(b) /\ UNCHANGED <<worker, bucket>>)
        /\ SF_vars(ReadRerunable(b) /\ UNCHANGED <<worker, bucket>>)
        /\ SF_vars(Rerun(b) /\ UNCHANGED <<worker, bucket>>)

\* The babysitters alone make progress, whatever workers and cluster do.
RecoverySpec == Spec /\ BabysitterFairness

(***************************************************************************)
(* A datum whose pod is gone is taken from it, unless the job ends first.  *)
(***************************************************************************)
ZombiesAreReaped ==
    \A d \in Datums, p \in Pods :
        OwnedBy(d, p) /\ pods[p] # "running" ~>
            ~OwnedBy(d, p) \/ HasFinished(job.status)

(***************************************************************************)
(* A failed datum with tries left becomes ready again, unless the job ends *)
(* first.                                                                  *)
(***************************************************************************)
FailedDatumsAreRetried ==
    \A d \in Datums :
        IsRerunable(datums[d]) ~> ~IsRerunable(datums[d]) \/ HasFinished(job.status)

(***************************************************************************)
(* When no datum is left the job gets its final status, even if the        *)
(* process that finished the last datum died before it could do that.      *)
(***************************************************************************)
SettledJobIsClosed == Outcome(datums) # "running" ~> HasFinished(job.status)

(***************************************************************************)
(* The cluster's part: an apply ends one way or the other, a Job reaches   *)
(* its activeDeadlineSeconds, time passes.                                 *)
(***************************************************************************)
DeadlineFairness ==
    /\ WF_vars(ClusterActs /\ k8s_job = "pending")
    /\ WF_vars(ClusterActs /\ k8s_job = "active" /\ k8s_job' # "active")
    /\ WF_vars(QuarterHourPasses)

(***************************************************************************)
(* If so, every job gets a final status: `job wait` returns.               *)
(***************************************************************************)
JobEnds == DeadlineFairness => <>HasFinished(job.status)
=============================================================================
