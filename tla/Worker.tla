------------------------------- MODULE Worker -------------------------------
(***************************************************************************)
(* falconeri-worker, one process in each pod: main, process_datum and      *)
(* upload_outputs.  A step of a worker is one request to falconerid, or    *)
(* one piece of local work between two requests.                           *)
(*                                                                         *)
(* Requests are retried.  A step that sends one applies what falconerid    *)
(* does and then either hands the worker the answer or loses it, in which  *)
(* case the worker is where it was and sends the request again.  A request *)
(* falconerid refuses has no effect and is retried as well, until          *)
(* WorkerGivesUp.                                                          *)
(***************************************************************************)
EXTENDS JobStore, Kubernetes

VARIABLES
    worker,  \* the worker of each pod
    bucket   \* the output URIs at which an object has been stored

(***************************************************************************)
(* at        the request the worker is sending, or its local work          *)
(* datum     the Datum that reserve_next_datum returned, and ...           *)
(* run       ... the attempted_run_count in it                             *)
(* file_runs the runs that inserted the rows create_output_files returned  *)
(* outcome   what the worker will report                                   *)
(***************************************************************************)
Places == {"job", "reserve", "process", "create", "upload", "patch_files",
           "patch_datum", "job_again"}

WorkerState ==
    [at : Places, datum : Datums \cup {None}, run : Nat,
     file_runs : SUBSET Nat, outcome : {"done", "error"}]

\* main has just started, or comes back to the head of its loop.
Idle == [at |-> "job", datum |-> None, run |-> 0, file_runs |-> {},
         outcome |-> "done"]

WorkerTypeOK ==
    /\ worker \in [Pods -> WorkerState]
    /\ bucket \in SUBSET Uris

WorkerInit ==
    /\ worker = [p \in Pods |-> Idle]
    /\ bucket = {}

-----------------------------------------------------------------------------

Goes(p, state) == worker' = [worker EXCEPT ![p] = state]

MovesTo(p, place) == worker' = [worker EXCEPT ![p].at = place]

\* The process ends, and its pod with it.
Exits(p, phase) ==
    /\ pods' = [pods EXCEPT ![p] = phase]
    /\ Goes(p, Idle)
    /\ UNCHANGED <<k8s_job, past_cutoff>>

\* Mutation: a worker that finds no datum exits.
LeaveWhenIdle(p) ==
    /\ worker[p].at = "reserve"
    /\ NothingToReserve(p)
    /\ pods' = [pods EXCEPT ![p] = "succeeded"]
    /\ Goes(p, Idle)
    /\ UNCHANGED <<store, k8s_job, past_cutoff, bucket>>

\* GET /jobs/{id}, before a reservation and after one that found nothing.
FetchJob(p) ==
    /\ worker[p].at \in {"job", "job_again"}
    /\ IF job.status # "running"
       THEN Exits(p, "succeeded")
       ELSE /\ MovesTo(p, IF worker[p].at = "job" THEN "reserve" ELSE "job")
            /\ UNCHANGED cluster
    /\ UNCHANGED <<store, bucket>>

ReserveDatum(p) ==
    /\ worker[p].at = "reserve"
    /\ \E d \in Datums :
         /\ ReserveNextDatum(p, d)
         /\ \/ Goes(p, [Idle EXCEPT !.at = "process", !.datum = d,
                                    !.run = datums'[d].attempted_run_count])
            \/ UNCHANGED worker
    /\ UNCHANGED <<cluster, bucket>>

FindNothing(p) ==
    /\ worker[p].at = "reserve"
    /\ NothingToReserve(p)
    /\ MovesTo(p, "job_again")
    /\ UNCHANGED <<store, cluster, bucket>>

\* Download the inputs and run the command.  Any failure becomes a report.
ProcessDatum(p) ==
    /\ worker[p].at = "process"
    /\ \/ MovesTo(p, "create")
       \/ Goes(p, [worker[p] EXCEPT !.at = "patch_datum", !.outcome = "error"])
    /\ UNCHANGED <<store, cluster, bucket>>

RunsOf(d, files) == {f.run : f \in {g \in files : g.datum = d}}

RegisterOutputs(p) ==
    /\ worker[p].at = "create"
    /\ CreateOutputFiles(p, worker[p].datum)
    /\ \/ Goes(p, [worker[p] EXCEPT
                     !.at = "upload",
                     !.file_runs = RunsOf(worker[p].datum, output_files')])
       \/ UNCHANGED worker
    /\ UNCHANGED <<cluster, bucket>>

\* The files that sync_up uploads: its WalkDir does not follow links, whereas
\* the is_file that chose the rows did.
Uploadable(d) == OutputUris[d] \ Links

\* Mutation: the result of sync_up is not looked at.
UploadUnchecked(p) ==
    /\ worker[p].at = "upload"
    /\ \E uris \in SUBSET Uploadable(worker[p].datum) : bucket' = bucket \cup uris
    /\ Goes(p, [worker[p] EXCEPT !.at = "patch_files", !.outcome = "done"])
    /\ UNCHANGED <<store, cluster>>

\* Mutation: the patch of the output files is forgotten.
UploadAndReport(p) ==
    /\ worker[p].at = "upload"
    /\ bucket' = bucket \cup Uploadable(worker[p].datum)
    /\ MovesTo(p, "patch_datum")
    /\ UNCHANGED <<store, cluster>>

\* sync_up stores all it finds, or fails with some of that stored.
UploadOutputs(p) ==
    /\ worker[p].at = "upload"
    /\ \/ /\ bucket' = bucket \cup Uploadable(worker[p].datum)
          /\ Goes(p, [worker[p] EXCEPT !.at = "patch_files", !.outcome = "done"])
       \/ /\ \E uris \in SUBSET Uploadable(worker[p].datum) :
               bucket' = bucket \cup uris
          /\ Goes(p, [worker[p] EXCEPT !.at = "patch_files", !.outcome = "error"])
    /\ UNCHANGED <<store, cluster>>

\* After the answer reset_work_dirs can still fail, which is an error too.
RecordOutputs(p) ==
    /\ worker[p].at = "patch_files"
    /\ PatchOutputFiles(p, worker[p].datum, worker[p].file_runs, worker[p].outcome)
    /\ \/ MovesTo(p, "patch_datum")
       \/ Goes(p, [worker[p] EXCEPT !.at = "patch_datum", !.outcome = "error"])
       \/ UNCHANGED worker
    /\ UNCHANGED <<cluster, bucket>>

ReportDatum(p) ==
    /\ worker[p].at = "patch_datum"
    /\ PatchDatum(p, worker[p].datum, worker[p].outcome)
    /\ Goes(p, Idle) \/ UNCHANGED worker
    /\ UNCHANGED <<cluster, bucket>>

(***************************************************************************)
(* The last retry of a request failed, or the storage client could not be  *)
(* made.  Inside process_datum that is an error to report, in main it ends *)
(* the process with status 1.                                              *)
(***************************************************************************)
WorkerGivesUp(p) ==
    /\ \/ /\ worker[p].at \in {"create", "upload", "patch_files"}
          /\ Goes(p, [worker[p] EXCEPT !.at = "patch_datum", !.outcome = "error"])
          /\ UNCHANGED cluster
       \/ /\ worker[p].at \in {"job", "reserve", "patch_datum", "job_again"}
          /\ Exits(p, "failed")
    /\ UNCHANGED <<store, bucket>>

WorkerStep(p) ==
    /\ Executes(p)
    /\ \/ FetchJob(p)
       \/ ReserveDatum(p)
       \/ FindNothing(p)
       \/ ProcessDatum(p)
       \/ RegisterOutputs(p)
       \/ UploadOutputs(p)
       \/ RecordOutputs(p)
       \/ ReportDatum(p)
       \/ WorkerGivesUp(p)
=============================================================================
