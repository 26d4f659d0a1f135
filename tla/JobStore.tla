------------------------------ MODULE JobStore ------------------------------
(***************************************************************************)
(* What falconeri keeps in PostgreSQL about one job, and the transactions  *)
(* falconerid runs on it.  Every operation takes the row lock it needs     *)
(* before it reads (SELECT ... FOR UPDATE), so each is one atomic action   *)
(* here; reads outside a transaction are left to the callers, which act on *)
(* them in a later step.                                                   *)
(***************************************************************************)
EXTENDS Entities

VARIABLES
    job,          \* the job's row in jobs
    datums,       \* its rows in datums
    output_files  \* its rows in output_files

store == <<job, datums, output_files>>

-----------------------------------------------------------------------------
(* Rows.  The output_files rows of a datum are inserted together, so the   *)
(* run that inserted them stands for their generated ids.                  *)

JobRow == [status : Status, error_message : BOOLEAN]

DatumRow ==
    [status : Status, pod_name : Pods \cup {None}, attempted_run_count : Nat]

OutputFileRow == [uri : Uris, datum : Datums, run : Nat, status : Status]

StoreTypeOK ==
    /\ job \in JobRow
    /\ datums \in [Datums -> DatumRow]
    /\ output_files \in SUBSET OutputFileRow

\* run_job's transaction has committed: the job runs, its datums are ready.
StoreInit ==
    /\ job = [status |-> "running", error_message |-> FALSE]
    /\ datums = [d \in Datums |-> [status |-> "ready",
                                   pod_name |-> None,
                                   attempted_run_count |-> 0]]
    /\ output_files = {}

-----------------------------------------------------------------------------
(* Conditions on rows.                                                     *)

\* Mutation: one attempt too many.
RerunableOffByOne(row) ==
    /\ row.status = "error"
    /\ row.attempted_run_count <= MaxRuns

IsRerunable(row) ==
    /\ row.status = "error"
    /\ row.attempted_run_count < MaxRuns

\* Mutation: the status is checked, the pod is not.
RunningAnywhere(d, p) == datums[d].status = "running"

\* lock_and_verify_owner, for the only status callers expect.
OwnedBy(d, p) ==
    /\ datums[d].status = "running"
    /\ datums[d].pod_name = p

FilesOf(d) == {f \in output_files : f.datum = d}

\* mark_as_done, mark_as_error, mark_as_eligible_for_rerun.
DatumMarked(d, status) == [datums EXCEPT ![d].status = status]

-----------------------------------------------------------------------------
(* Job::update_status_if_done, over the datum rows its caller's            *)
(* transaction sees.                                                       *)

\* Mutation: datums that wait for another run do not keep the job open.
OutcomeIgnoringRetries(rows) ==
    IF \E d \in Datums : rows[d].status \in {"ready", "running"} THEN "running"
    ELSE IF \E d \in Datums : rows[d].status \in {"error", "canceled"} THEN "error"
    ELSE "done"

Outcome(rows) ==
    IF \E d \in Datums : \/ rows[d].status \in {"ready", "running"}
                         \/ IsRerunable(rows[d])
    THEN "running"
    ELSE IF \E d \in Datums : rows[d].status \in {"error", "canceled"} THEN "error"
    ELSE "done"

\* Mutation: the status is not checked again under the lock.
JobRecomputed(rows) == [job EXCEPT !.status = Outcome(rows)]

JobIfDone(rows) ==
    IF job.status # "running" THEN job ELSE [job EXCEPT !.status = Outcome(rows)]

\* Job::mark_as_error, with the message of a Kubernetes failure.
JobFailed == [status |-> "error", error_message |-> TRUE]

UpdateStatusIfDone ==
    /\ job' = JobIfDone(datums)
    /\ UNCHANGED <<datums, output_files>>

-----------------------------------------------------------------------------
(* Requests of a worker.  A refused request changes nothing.               *)

\* Mutation: an earlier reservation is not looked for.
ReserveAnother(p, d) ==
    /\ datums[d].status = "ready"
    /\ datums' = [datums EXCEPT ![d] =
                    [status |-> "running", pod_name |-> p,
                     attempted_run_count |-> @.attempted_run_count + 1]]
    /\ UNCHANGED <<job, output_files>>

\* Mutation: node_name and pod_name, two strings, are swapped.
ReserveForNode(p, d) ==
    /\ \A e \in Datums : ~OwnedBy(e, p)
    /\ datums[d].status = "ready"
    /\ datums' = [datums EXCEPT ![d] =
                    [status |-> "running", pod_name |-> "node",
                     attempted_run_count |-> @.attempted_run_count + 1]]
    /\ UNCHANGED <<job, output_files>>

\* Job::reserve_next_datum answers pod p with datum d.
ReserveNextDatum(p, d) ==
    /\ \/ /\ OwnedBy(d, p)
          /\ UNCHANGED datums
       \/ /\ \A e \in Datums : ~OwnedBy(e, p)
          /\ datums[d].status = "ready"
          /\ datums' = [datums EXCEPT ![d] =
                          [status |-> "running", pod_name |-> p,
                           attempted_run_count |-> @.attempted_run_count + 1]]
    /\ UNCHANGED <<job, output_files>>

\* ... and this is when it answers that there is none.  SKIP LOCKED can make
\* it miss a ready datum that another transaction holds; the worker, which asks
\* again as long as the job runs, then only comes back later.
NothingToReserve(p) ==
    \A d \in Datums : ~OwnedBy(d, p) /\ datums[d].status # "ready"

\* PATCH /datums/{id}: the datum and, if it was the last one, the job.
PatchDatum(p, d, status) ==
    /\ OwnedBy(d, p)
    /\ datums' = DatumMarked(d, status)
    /\ job' = JobIfDone(datums')
    /\ UNCHANGED output_files

NewOutputFiles(d) ==
    {[uri |-> u, datum |-> d, run |-> datums[d].attempted_run_count,
      status |-> "running"] : u \in OutputUris[d]}

\* Mutation: no UNIQUE (job_id, uri), so two datums can claim one URI.
CreateOverOthers(p, d) ==
    /\ OwnedBy(d, p)
    /\ \/ /\ FilesOf(d) # {}
          /\ {f.uri : f \in FilesOf(d)} = OutputUris[d]
          /\ UNCHANGED output_files
       \/ /\ FilesOf(d) = {}
          /\ output_files' = output_files \cup NewOutputFiles(d)
    /\ UNCHANGED <<job, datums>>

\* POST /datums/{id}/output_files: the rows of an earlier, equal request are
\* the answer to this one; new rows must not take the URI of another row.
CreateOutputFiles(p, d) ==
    /\ OwnedBy(d, p)
    /\ \/ /\ FilesOf(d) # {}
          /\ {f.uri : f \in FilesOf(d)} = OutputUris[d]
          /\ UNCHANGED output_files
       \/ /\ FilesOf(d) = {}
          /\ \A f \in output_files : f.uri \notin OutputUris[d]
          /\ output_files' = output_files \cup NewOutputFiles(d)
    /\ UNCHANGED <<job, datums>>

\* PATCH /datums/{id}/output_files, for the rows of d inserted by these runs.
PatchOutputFiles(p, d, runs, status) ==
    /\ OwnedBy(d, p)
    /\ output_files' =
         {IF f.datum = d /\ f.run \in runs THEN [f EXCEPT !.status = status] ELSE f :
            f \in output_files}
    /\ UNCHANGED <<job, datums>>

-----------------------------------------------------------------------------
(* Transactions of the babysitter.                                         *)

\* Mutation: the status is not checked again under the lock.
MarkAnyAsZombie(d) ==
    /\ datums' = DatumMarked(d, "error")
    /\ UNCHANGED <<job, output_files>>

\* check_for_zombie_datums, its first transaction.
MarkZombie(d) ==
    /\ datums' = IF datums[d].status = "running"
                 THEN DatumMarked(d, "error")
                 ELSE datums
    /\ UNCHANGED <<job, output_files>>

\* Mutation: the records of the failed run are left in place.
RerunKeepingFiles(d) ==
    /\ datums' = IF IsRerunable(datums[d])
                 THEN DatumMarked(d, "ready")
                 ELSE datums
    /\ UNCHANGED <<job, output_files>>

\* check_for_datums_which_can_be_rerun: the output files go in either case.
RerunDatum(d) ==
    /\ datums' = IF IsRerunable(datums[d])
                 THEN DatumMarked(d, "ready")
                 ELSE datums
    /\ output_files' = output_files \ FilesOf(d)
    /\ UNCHANGED job
=============================================================================
