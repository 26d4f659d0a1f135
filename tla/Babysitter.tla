----------------------------- MODULE Babysitter -----------------------------
(***************************************************************************)
(* The babysitter tasks, one per falconerid process, any number of them    *)
(* side by side.  Each pass reads a list, asks kubectl, and only then acts *)
(* on the rows it read, one transaction per row: what it holds in between  *)
(* is a snapshot that other babysitters and the workers may have           *)
(* overtaken.                                                              *)
(***************************************************************************)
EXTENDS JobStore, Kubernetes

CONSTANT Babysitters

VARIABLE babysitter

(***************************************************************************)
(* at       where the pass of check_running_jobs is                        *)
(* job_info what get_all_job_infos said of the job                         *)
(* suspects the running datums read by active_with_status, with the        *)
(*          pod_name each had                                              *)
(* todo     the datums the loop has still to visit                         *)
(***************************************************************************)
Stages == {"asleep", "job_infos", "check_job", "running", "pods", "zombies",
           "close_job", "rerunable", "rerun"}

BabysitterState ==
    [at : Stages, job_info : {"absent", "failed", "healthy"},
     suspects : SUBSET (Datums \X (Pods \cup {None})), todo : SUBSET Datums]

Asleep == [at |-> "asleep", job_info |-> "healthy", suspects |-> {}, todo |-> {}]

BabysitterTypeOK == babysitter \in [Babysitters -> BabysitterState]

BabysitterInit == babysitter = [b \in Babysitters |-> Asleep]

-----------------------------------------------------------------------------

Becomes(b, state) == babysitter' = [babysitter EXCEPT ![b] = state]

\* The loop over todo goes on, or the pass goes on to its next stage.
Continue(b, stage, todo, next) ==
    Becomes(b, IF todo = {} THEN [Asleep EXCEPT !.at = next]
               ELSE [Asleep EXCEPT !.at = stage, !.todo = todo])

\* Job::find_by_status.  A pass that finds no running job has nothing to do:
\* its later queries join on running jobs as well.
FindRunningJob(b) ==
    /\ babysitter[b].at = "asleep"
    /\ job.status = "running"
    /\ Becomes(b, [Asleep EXCEPT !.at = "job_infos"])
    /\ UNCHANGED <<store, cluster>>

GetJobInfos(b) ==
    /\ babysitter[b].at = "job_infos"
    /\ Becomes(b, [Asleep EXCEPT !.at = "check_job", !.job_info = JobInfo])
    /\ UNCHANGED <<store, cluster>>

\* Mutation: a missing Kubernetes job is believed at any age of the job.
FailureWithoutCutoff(info) == info \in {"failed", "absent"}

\* Mutation: only a Failed condition counts, a vanished job does not.
FailureOnlyIfListed(info) == info = "failed"

\* Does a listing say that the job cannot be running any more?
IsFailure(info) == info = "failed" \/ (info = "absent" /\ past_cutoff)

\* Mutation: the listing decides, whatever the datums say under the lock.
MarkFailedBlindly(info) ==
    job' = IF IsFailure(info)
           THEN JobFailed
           ELSE JobIfDone(datums)

\* Mutation: a job whose datums are finished is not noticed.
OnlyFailJob(info) ==
    job' = IF job.status = "running" /\ IsFailure(info)
           THEN JobFailed
           ELSE job

\* Under the job's lock: finish it if its datums are finished, and only if
\* it still runs believe the listing.
FinishOrFailJob(info) ==
    job' = IF JobIfDone(datums).status = "running" /\ IsFailure(info)
           THEN JobFailed
           ELSE JobIfDone(datums)

CheckJob(b) ==
    /\ babysitter[b].at = "check_job"
    /\ FinishOrFailJob(babysitter[b].job_info)
    /\ Becomes(b, [Asleep EXCEPT !.at = "running"])
    /\ UNCHANGED <<datums, output_files, cluster>>

\* Datum::active_with_status(Running).
ActiveRunning ==
    {<<d, datums[d].pod_name>> :
        d \in {e \in Datums : datums[e].status = "running" /\ job.status = "running"}}

ReadRunningDatums(b) ==
    /\ babysitter[b].at = "running"
    /\ Becomes(b, [Asleep EXCEPT !.at = "pods", !.suspects = ActiveRunning])
    /\ UNCHANGED <<store, cluster>>

\* Mutation: only a datum without a pod_name is a zombie.
FindPodlessZombies(b) ==
    /\ babysitter[b].at = "pods"
    /\ Continue(b, "zombies",
                {s[1] : s \in {t \in babysitter[b].suspects : t[2] = None}},
                "rerunable")
    /\ UNCHANGED <<store, cluster>>

\* Datum::zombies keeps the datums whose pod is not listed as running.
FindZombies(b) ==
    /\ babysitter[b].at = "pods"
    /\ Continue(b, "zombies",
                {s[1] : s \in {t \in babysitter[b].suspects : t[2] \notin RunningPods}},
                "rerunable")
    /\ UNCHANGED <<store, cluster>>

\* The first of two transactions for a zombie ...
FailZombie(b) ==
    /\ babysitter[b].at = "zombies"
    /\ \E d \in babysitter[b].todo :
         /\ MarkZombie(d)
         /\ Becomes(b, [Asleep EXCEPT !.at = "close_job",
                                      !.todo = babysitter[b].todo \ {d}])
    /\ UNCHANGED cluster

\* ... and the second.
CloseJob(b) ==
    /\ babysitter[b].at = "close_job"
    /\ UpdateStatusIfDone
    /\ Continue(b, "zombies", babysitter[b].todo, "rerunable")
    /\ UNCHANGED cluster

\* Mutation: the run counts are compared the wrong way round.
ReadExhausted(b) ==
    /\ babysitter[b].at = "rerunable"
    /\ Continue(b, "rerun",
                {d \in Datums : /\ datums[d].status = "error"
                                /\ datums[d].attempted_run_count > MaxRuns
                                /\ job.status = "running"},
                "asleep")
    /\ UNCHANGED <<store, cluster>>

\* Mutation: the list is not restricted to running jobs.
ReadAnyRerunable(b) ==
    /\ babysitter[b].at = "rerunable"
    /\ Continue(b, "rerun", {d \in Datums : IsRerunable(datums[d])}, "asleep")
    /\ UNCHANGED <<store, cluster>>

\* Datum::rerunable.
ReadRerunable(b) ==
    /\ babysitter[b].at = "rerunable"
    /\ Continue(b, "rerun",
                {d \in Datums : IsRerunable(datums[d]) /\ job.status = "running"},
                "asleep")
    /\ UNCHANGED <<store, cluster>>

Rerun(b) ==
    /\ babysitter[b].at = "rerun"
    /\ \E d \in babysitter[b].todo :
         /\ RerunDatum(d)
         /\ Continue(b, "rerun", babysitter[b].todo \ {d}, "asleep")
    /\ UNCHANGED cluster

\* A query or kubectl fails, or falconerid crashes and is started again.
AbandonPass(b) ==
    /\ babysitter[b].at # "asleep"
    /\ Becomes(b, Asleep)
    /\ UNCHANGED <<store, cluster>>

BabysitterStep(b) ==
    \/ FindRunningJob(b)
    \/ GetJobInfos(b)
    \/ CheckJob(b)
    \/ ReadRunningDatums(b)
    \/ FindZombies(b)
    \/ FailZombie(b)
    \/ CloseJob(b)
    \/ ReadRerunable(b)
    \/ Rerun(b)
    \/ AbandonPass(b)
=============================================================================
