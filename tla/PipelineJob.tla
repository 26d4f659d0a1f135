---------------------------- MODULE PipelineJob -----------------------------
(***************************************************************************)
(* The job of Falconeri as one of the jobs of Jobs, where its rows are     *)
(* what a retry copies and what the user waits for.  Jobs knows of the     *)
(* Kubernetes Job only whether it may have pods, and of a datum neither    *)
(* the pod nor the output files.                                           *)
(***************************************************************************)
EXTENDS Falconeri, Manifest, Sequences

CONSTANT
    Submitted  \* the pipeline spec that was stored with the job

ASSUME SubmittedAssumption ==
    /\ Submitted \in PipelineSpec
    /\ Accepted(Submitted) /\ Submitted.parallelism > 0
    /\ MaxRuns = MaximumAllowedRunCount(Submitted)

\* A Job that was applied counts as pending until its first pod.
KubernetesState ==
    IF \E p \in Pods : pods[p] # "none" THEN "applied"
    ELSE IF k8s_job \in {"failed", "missing"} THEN "missing"
    ELSE "pending"

JobRows ==
    <<[status |-> job.status, error_message |-> job.error_message,
       pipeline_spec |-> Submitted]>>

DatumRows ==
    <<[d \in Datums |-> [status |-> datums[d].status,
                        attempted_run_count |-> datums[d].attempted_run_count]]>>

KubernetesJobs ==
    <<[parallelism |-> Submitted.parallelism,
       backoffLimit |-> MaximumCountedPodFailures(Submitted),
       activeDeadlineSeconds |-> AsSecs(Submitted.job_timeout),
       state |-> KubernetesState]>>

\* What the babysitters have still to rerun.
RerunLists ==
    [b \in Babysitters |->
        IF babysitter[b].at = "rerun" THEN {1} \X babysitter[b].todo ELSE {}]

ThisJob ==
    INSTANCE Jobs WITH
        Work <- Datums, Specs <- {Submitted}, MaxJobs <- 1,
        jobs <- JobRows, datums <- DatumRows, k8s <- KubernetesJobs,
        todo <- RerunLists, origin <- <<0>>, user <- "waiting"

(***************************************************************************)
(* The job begins as run_job inserts it, and whatever workers, babysitters *)
(* and cluster do to it is what Jobs takes for granted of every job next   *)
(* to which a retry may run: no datum is reserved before the Job is        *)
(* applied, none fails or is retried but as PatchDatum, MarkZombie and     *)
(* RerunDatum say, and a datum is rerun from a list that was read while    *)
(* the job ran and that no failure of the Kubernetes Job has been recorded *)
(* since, unless by another babysitter (the order of the stages in         *)
(* babysitter.rs, check_running_jobs).                                     *)
(***************************************************************************)
BehavesAsInJobs ==
    /\ JobRows = <<ThisJob!NewJob(Submitted)>>
    /\ DatumRows = <<ThisJob!NewDatums(Datums)>>
    /\ KubernetesJobs = <<ThisJob!NewKubernetesJob(JobParams(Submitted))>>
    /\ RerunLists = [b \in Babysitters |-> {}]
    /\ [][ThisJob!Behind]_<<JobRows, DatumRows, KubernetesJobs, RerunLists>>
=============================================================================
