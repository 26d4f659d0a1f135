--------------------------- MODULE FalconeriProofs ---------------------------
(***************************************************************************)
(* Theorems about Falconeri, for any number of datums, pods and            *)
(* babysitters, any limit of runs, any assignment of output URIs and any   *)
(* set of faults.                                                          *)
(***************************************************************************)
EXTENDS Falconeri, TLAPS

-----------------------------------------------------------------------------
(* Types.                                                                  *)

(***************************************************************************)
(* update_status_if_done only ever finishes a job, as done or as failed.   *)
(***************************************************************************)
LEMMA OutcomeType ==
    ASSUME NEW rows
    PROVE  Outcome(rows) \in {"running", "done", "error"}
BY DEF Outcome

(***************************************************************************)
(* ... and its result is a row of jobs.                                    *)
(***************************************************************************)
LEMMA JobIfDoneType ==
    ASSUME StoreTypeOK, NEW rows
    PROVE  JobIfDone(rows) \in JobRow
BY OutcomeType DEF StoreTypeOK, JobIfDone, JobRow, Status

(***************************************************************************)
(* The transactions of falconerid keep the types of the tables.            *)
(***************************************************************************)
LEMMA TransactionsKeepTypes ==
    ASSUME StoreTypeOK, NEW p \in Pods, NEW d \in Datums,
           NEW status \in {"done", "error"}, NEW runs,
           \/ ReserveNextDatum(p, d)
           \/ PatchDatum(p, d, status)
           \/ CreateOutputFiles(p, d)
           \/ PatchOutputFiles(p, d, runs, status)
    PROVE  StoreTypeOK'
<1> USE DEF StoreTypeOK
<1>1. CASE ReserveNextDatum(p, d)
  BY <1>1 DEF ReserveNextDatum, DatumRow, Status
<1>2. CASE PatchDatum(p, d, status)
  BY <1>2, JobIfDoneType DEF PatchDatum, DatumMarked, DatumRow, Status
<1>3. CASE CreateOutputFiles(p, d)
  <2>1. NewOutputFiles(d) \in SUBSET OutputFileRow
    BY OutputUrisAssumption DEF NewOutputFiles, OutputFileRow, DatumRow, Status
  <2> QED
    BY <1>3, <2>1 DEF CreateOutputFiles
<1>4. CASE PatchOutputFiles(p, d, runs, status)
  <2>1. \A f \in OutputFileRow : [f EXCEPT !.status = status] \in OutputFileRow
    BY DEF OutputFileRow, Status
  <2> QED
    BY <1>4, <2>1 DEF PatchOutputFiles
<1> QED
  BY <1>1, <1>2, <1>3, <1>4

(***************************************************************************)
(* TypeOK alone is not inductive: a worker that reports a datum must hold  *)
(* one, or its request would touch a row that does not exist.              *)
(***************************************************************************)
Busy == {"process", "create", "upload", "patch_files", "patch_datum"}

BusyWorkersHoldDatums ==
    \A p \in Pods : worker[p].at \in Busy => worker[p].datum \in Datums

TypeInv == TypeOK /\ BusyWorkersHoldDatums

(***************************************************************************)
(* The states of a worker in which it holds a datum if it is busy.         *)
(***************************************************************************)
BusyOrIdle == {w \in WorkerState : w.at \in Busy => w.datum \in Datums}

(***************************************************************************)
(* The states a step of a worker can lead it to are well typed.            *)
(***************************************************************************)
LEMMA WorkerMoves ==
    ASSUME TypeInv, NEW p \in Pods
    PROVE  /\ worker[p] \in BusyOrIdle /\ Idle \in BusyOrIdle
           /\ \A place \in Places :
                (place \in Busy => worker[p].at \in Busy)
                   => [worker[p] EXCEPT !.at = place] \in BusyOrIdle
           /\ \A outcome \in {"done", "error"} :
                worker[p].at \in Busy =>
                   \A place \in Busy :
                      [worker[p] EXCEPT !.at = place, !.outcome = outcome] \in BusyOrIdle
<1> USE DEF TypeInv, TypeOK, WorkerTypeOK, BusyWorkersHoldDatums, BusyOrIdle,
            WorkerState, Places, Busy
<1>1. worker[p] \in BusyOrIdle
  OBVIOUS
<1>2. Idle \in BusyOrIdle
  BY DEF Idle
<1>3. ASSUME NEW place \in Places, place \in Busy => worker[p].at \in Busy
      PROVE  [worker[p] EXCEPT !.at = place] \in BusyOrIdle
  BY <1>1, <1>3
<1>4. ASSUME NEW outcome \in {"done", "error"}, worker[p].at \in Busy, NEW place \in Busy
      PROVE  [worker[p] EXCEPT !.at = place, !.outcome = outcome] \in BusyOrIdle
  BY <1>1, <1>4
<1> QED
  BY <1>1, <1>2, <1>3, <1>4

(***************************************************************************)
(* A worker that goes to a well typed state keeps the types of all.        *)
(***************************************************************************)
LEMMA WorkerGoes ==
    ASSUME TypeInv, NEW p \in Pods, NEW state \in BusyOrIdle, Goes(p, state),
           bucket' \in SUBSET Uris
    PROVE  WorkerTypeOK' /\ BusyWorkersHoldDatums'
BY DEF TypeInv, TypeOK, WorkerTypeOK, BusyWorkersHoldDatums, BusyOrIdle, Goes

(***************************************************************************)
(* A step of a worker keeps all types.                                     *)
(***************************************************************************)
LEMMA WorkersKeepTypes ==
    ASSUME TypeInv, NEW p \in Pods, WorkerStep(p), UNCHANGED babysitter
    PROVE  TypeInv'
<1> USE DEF TypeInv, TypeOK
<1> DEFINE Workers == WorkerTypeOK /\ BusyWorkersHoldDatums
<1>0. BabysitterTypeOK'
  BY DEF BabysitterTypeOK
<1>1. UNCHANGED store => StoreTypeOK'
  BY DEF store, StoreTypeOK
<1>2. UNCHANGED cluster => ClusterTypeOK'
  BY DEF cluster, ClusterTypeOK
<1>3. bucket \in SUBSET Uris
  BY DEF WorkerTypeOK
<1>4. UNCHANGED <<worker, bucket>> => Workers'
  BY DEF WorkerTypeOK, BusyWorkersHoldDatums
<1>5. ASSUME NEW place \in Places, MovesTo(p, place), UNCHANGED bucket,
             place \in Busy => worker[p].at \in Busy
      PROVE  Workers'
  <2>1. Goes(p, [worker[p] EXCEPT !.at = place])
    BY <1>5 DEF MovesTo, Goes, WorkerTypeOK
  <2>2. [worker[p] EXCEPT !.at = place] \in BusyOrIdle
    BY <1>5, WorkerMoves
  <2> QED
    BY <1>3, <1>5, <2>1, <2>2, WorkerGoes
<1>6. ASSUME NEW phase \in {"succeeded", "failed"}, Exits(p, phase), UNCHANGED bucket
      PROVE  ClusterTypeOK' /\ Workers'
  <2>1. Workers'
    BY <1>3, <1>6, WorkerMoves, WorkerGoes DEF Exits
  <2>2. ClusterTypeOK'
    BY <1>6 DEF Exits, ClusterTypeOK
  <2> QED
    BY <2>1, <2>2
<1>7. ASSUME NEW place \in Busy, NEW outcome \in {"done", "error"},
             worker[p].at \in Busy, bucket' \in SUBSET Uris,
             Goes(p, [worker[p] EXCEPT !.at = place, !.outcome = outcome])
      PROVE  Workers'
  BY <1>7, WorkerMoves, WorkerGoes
<1>8. worker[p].at \in Busy => worker[p].datum \in Datums
  BY DEF BusyWorkersHoldDatums
<1>a. CASE FetchJob(p)
  <2>1. CASE job.status # "running"
    BY <1>0, <1>1, <1>6, <1>a, <2>1 DEF FetchJob
  <2>2. CASE job.status = "running"
    BY <1>0, <1>1, <1>2, <1>5, <1>a, <2>2 DEF FetchJob, Places, Busy
  <2> QED
    BY <2>1, <2>2
<1>b. CASE ReserveDatum(p)
  <2> DEFINE reserved(d) == [Idle EXCEPT !.at = "process", !.datum = d,
                                         !.run = datums'[d].attempted_run_count]
  <2>1. PICK d \in Datums :
          /\ ReserveNextDatum(p, d)
          /\ Goes(p, reserved(d)) \/ UNCHANGED worker
    BY <1>b DEF ReserveDatum
  <2>2. StoreTypeOK'
    BY <2>1, TransactionsKeepTypes
  <2>3. reserved(d) \in BusyOrIdle
    BY <2>2 DEF Idle, BusyOrIdle, Busy, WorkerState, Places, StoreTypeOK, DatumRow
  <2>4. Workers'
    BY <1>3, <1>4, <1>b, <2>1, <2>3, WorkerGoes DEF ReserveDatum
  <2> QED
    BY <1>0, <1>2, <1>b, <2>2, <2>4 DEF ReserveDatum
<1>c. CASE FindNothing(p)
  BY <1>0, <1>1, <1>2, <1>5, <1>c DEF FindNothing, Places, Busy
<1>d. CASE ProcessDatum(p)
  BY <1>0, <1>1, <1>2, <1>3, <1>5, <1>7, <1>d DEF ProcessDatum, Places, Busy
<1>e. CASE RegisterOutputs(p)
  <2> DEFINE d == worker[p].datum
             registered == [worker[p] EXCEPT !.at = "upload",
                                             !.file_runs = RunsOf(d, output_files')]
  <2>1. StoreTypeOK'
    BY <1>8, <1>e, TransactionsKeepTypes DEF RegisterOutputs, Busy
  <2>2. RunsOf(d, output_files') \in SUBSET Nat
    BY <2>1 DEF RunsOf, StoreTypeOK, OutputFileRow
  <2>3. registered \in BusyOrIdle
    <3>1. worker[p] \in BusyOrIdle
      BY WorkerMoves
    <3>2. worker[p].at \in Busy
      BY <1>e DEF RegisterOutputs, Busy
    <3>3. \A runs \in SUBSET Nat :
            [worker[p] EXCEPT !.at = "upload", !.file_runs = runs] \in BusyOrIdle
      BY <3>1, <3>2 DEF BusyOrIdle, WorkerState, Busy, Places
    <3> QED
      BY <2>2, <3>3
  <2>4. Workers'
    BY <1>3, <1>4, <1>e, <2>3, WorkerGoes DEF RegisterOutputs
  <2> QED
    BY <1>0, <1>2, <1>e, <2>1, <2>4 DEF RegisterOutputs
<1>f. CASE UploadOutputs(p)
  <2>1. bucket' \in SUBSET Uris
    BY <1>3, <1>8, <1>f, OutputUrisAssumption DEF UploadOutputs, Uploadable, Busy
  <2>2. Workers'
    BY <1>7, <1>f, <2>1 DEF UploadOutputs, Busy
  <2> QED
    BY <1>0, <1>1, <1>2, <1>f, <2>2 DEF UploadOutputs
<1>g. CASE RecordOutputs(p)
  <2>1. worker[p].outcome \in {"done", "error"}
    BY DEF WorkerTypeOK, WorkerState
  <2>2. StoreTypeOK'
    BY <1>8, <1>g, <2>1, TransactionsKeepTypes DEF RecordOutputs, Busy
  <2>3. Workers'
    BY <1>3, <1>4, <1>5, <1>7, <1>g DEF RecordOutputs, Busy, Places
  <2> QED
    BY <1>0, <1>2, <1>g, <2>2, <2>3 DEF RecordOutputs
<1>h. CASE ReportDatum(p)
  <2>1. worker[p].outcome \in {"done", "error"}
    BY DEF WorkerTypeOK, WorkerState
  <2>2. StoreTypeOK'
    BY <1>8, <1>h, <2>1, TransactionsKeepTypes DEF ReportDatum, Busy
  <2>3. Workers'
    BY <1>3, <1>4, <1>h, WorkerMoves, WorkerGoes DEF ReportDatum
  <2> QED
    BY <1>0, <1>2, <1>h, <2>2, <2>3 DEF ReportDatum
<1>i. CASE WorkerGivesUp(p)
  <2>1. CASE UNCHANGED cluster
    BY <1>0, <1>1, <1>2, <1>3, <1>6, <1>7, <1>i, <2>1 DEF WorkerGivesUp, Busy
  <2>2. CASE Exits(p, "failed")
    BY <1>0, <1>1, <1>6, <1>i, <2>2 DEF WorkerGivesUp
  <2> QED
    BY <1>i, <2>1, <2>2 DEF WorkerGivesUp
<1> QED
  BY <1>a, <1>b, <1>c, <1>d, <1>e, <1>f, <1>g, <1>h, <1>i DEF WorkerStep

(***************************************************************************)
(* A step of a babysitter keeps all types.                                 *)
(***************************************************************************)
LEMMA BabysittersKeepTypes ==
    ASSUME TypeInv, NEW b \in Babysitters, BabysitterStep(b),
           UNCHANGED <<worker, bucket>>
    PROVE  TypeInv'
<1> USE DEF TypeInv, TypeOK
<1>1. UNCHANGED store => StoreTypeOK'
  BY DEF store, StoreTypeOK
<1>2. UNCHANGED cluster => ClusterTypeOK'
  BY DEF cluster, ClusterTypeOK
<1>3. WorkerTypeOK' /\ BusyWorkersHoldDatums'
  BY DEF WorkerTypeOK, BusyWorkersHoldDatums
<1>4. babysitter[b] \in BabysitterState /\ Asleep \in BabysitterState
  BY DEF BabysitterTypeOK, BabysitterState, Asleep, Stages
<1>5. ASSUME NEW state \in BabysitterState, Becomes(b, state)
      PROVE  BabysitterTypeOK'
  BY <1>5 DEF BabysitterTypeOK, Becomes
<1>6. \A stage \in Stages : [Asleep EXCEPT !.at = stage] \in BabysitterState
  BY <1>4 DEF BabysitterState
<1>7. \A stage \in Stages, todo \in SUBSET Datums :
        [Asleep EXCEPT !.at = stage, !.todo = todo] \in BabysitterState
  BY <1>4 DEF BabysitterState
<1>8. ASSUME NEW stage \in Stages, NEW next \in Stages, NEW todo \in SUBSET Datums,
             Continue(b, stage, todo, next)
      PROVE  BabysitterTypeOK'
  BY <1>5, <1>6, <1>7, <1>8 DEF Continue
<1>9. babysitter[b].todo \in SUBSET Datums
  BY <1>4 DEF BabysitterState
<1>a. CASE FindRunningJob(b)
  BY <1>1, <1>2, <1>3, <1>5, <1>6, <1>a DEF FindRunningJob, Stages
<1>b. CASE GetJobInfos(b)
  <2>1. [Asleep EXCEPT !.at = "check_job", !.job_info = JobInfo] \in BabysitterState
    BY <1>4 DEF BabysitterState, JobInfo, Stages
  <2> QED
    BY <1>1, <1>2, <1>3, <1>5, <1>b, <2>1 DEF GetJobInfos
<1>c. CASE CheckJob(b)
  <2>1. job' \in JobRow
    BY <1>c, JobIfDoneType DEF CheckJob, FinishOrFailJob, JobFailed, JobRow, Status
  <2>2. StoreTypeOK'
    BY <1>c, <2>1 DEF CheckJob, StoreTypeOK
  <2> QED
    BY <1>2, <1>3, <1>5, <1>6, <1>c, <2>2 DEF CheckJob, Stages
<1>d. CASE ReadRunningDatums(b)
  <2>1. ActiveRunning \in SUBSET (Datums \X (Pods \cup {None}))
    BY DEF ActiveRunning, StoreTypeOK, DatumRow
  <2>2. \A suspects \in SUBSET (Datums \X (Pods \cup {None})) :
          [Asleep EXCEPT !.at = "pods", !.suspects = suspects] \in BabysitterState
    BY <1>4 DEF BabysitterState, Stages
  <2> QED
    BY <1>1, <1>2, <1>3, <1>5, <1>d, <2>1, <2>2 DEF ReadRunningDatums
<1>e. CASE FindZombies(b)
  <2> DEFINE zombies == {s[1] : s \in {t \in babysitter[b].suspects :
                                          t[2] \notin RunningPods}}
  <2>1. zombies \in SUBSET Datums
    BY <1>4 DEF BabysitterState
  <2> QED
    BY <1>1, <1>2, <1>3, <1>8, <1>e, <2>1 DEF FindZombies, Stages
<1>f. CASE FailZombie(b)
  <2>1. PICK d \in babysitter[b].todo :
          /\ MarkZombie(d)
          /\ Becomes(b, [Asleep EXCEPT !.at = "close_job",
                                       !.todo = babysitter[b].todo \ {d}])
    BY <1>f DEF FailZombie
  <2>2. StoreTypeOK'
    BY <1>9, <2>1 DEF MarkZombie, DatumMarked, StoreTypeOK, DatumRow, Status
  <2>3. BabysitterTypeOK'
    BY <1>5, <1>7, <1>9, <2>1 DEF Stages
  <2> QED
    BY <1>2, <1>3, <1>f, <2>2, <2>3 DEF FailZombie
<1>g. CASE CloseJob(b)
  <2>1. StoreTypeOK'
    BY <1>g, JobIfDoneType DEF CloseJob, UpdateStatusIfDone, StoreTypeOK
  <2> QED
    BY <1>2, <1>3, <1>8, <1>9, <1>g, <2>1 DEF CloseJob, Stages
<1>h. CASE ReadRerunable(b)
  BY <1>1, <1>2, <1>3, <1>8, <1>h DEF ReadRerunable, Stages
<1>i. CASE Rerun(b)
  <2>1. PICK d \in babysitter[b].todo :
          /\ RerunDatum(d)
          /\ Continue(b, "rerun", babysitter[b].todo \ {d}, "asleep")
    BY <1>i DEF Rerun
  <2>2. StoreTypeOK'
    BY <1>9, <2>1 DEF RerunDatum, DatumMarked, StoreTypeOK, DatumRow, Status
  <2>3. BabysitterTypeOK'
    BY <1>8, <1>9, <2>1 DEF Stages
  <2> QED
    BY <1>2, <1>3, <1>i, <2>2, <2>3 DEF Rerun
<1>j. CASE AbandonPass(b)
  BY <1>1, <1>2, <1>3, <1>4, <1>5, <1>j DEF AbandonPass
<1> QED
  BY <1>a, <1>b, <1>c, <1>d, <1>e, <1>f, <1>g, <1>h, <1>i, <1>j DEF BabysitterStep

(***************************************************************************)
(* A step of the cluster keeps all types.                                  *)
(***************************************************************************)
LEMMA ClusterKeepsTypes ==
    ASSUME TypeInv,
           ClusterActs \/ QuarterHourPasses \/ \E p \in Pods : PodDies(p)
    PROVE  TypeInv'
<1> USE DEF TypeInv, TypeOK
<1>1. StoreTypeOK' /\ BabysitterTypeOK'
  BY DEF ClusterActs, QuarterHourPasses, PodDies, store, StoreTypeOK, BabysitterTypeOK
<1>2. CASE ClusterActs
  <2>1. ClusterTypeOK'
    BY <1>2 DEF ClusterActs, ClusterTypeOK, ApplyJob, ApplyNever, StartPod, PodIsLost,
                JobCompletes, JobFails, JobIsDeleted
  <2>2. WorkerTypeOK' /\ BusyWorkersHoldDatums'
    BY <1>2 DEF ClusterActs, WorkerTypeOK, BusyWorkersHoldDatums
  <2> QED
    BY <1>1, <2>1, <2>2
<1>3. CASE QuarterHourPasses
  <2>1. ClusterTypeOK'
    BY <1>3 DEF QuarterHourPasses, CutoffPasses, ClusterTypeOK
  <2>2. WorkerTypeOK' /\ BusyWorkersHoldDatums'
    BY <1>3 DEF QuarterHourPasses, WorkerTypeOK, BusyWorkersHoldDatums
  <2> QED
    BY <1>1, <2>1, <2>2
<1>4. ASSUME NEW p \in Pods, PodDies(p)
      PROVE  TypeInv'
  <2>1. ClusterTypeOK'
    BY <1>4 DEF PodDies, PodFails, ClusterTypeOK
  <2>2. bucket' \in SUBSET Uris
    BY <1>4 DEF PodDies, WorkerTypeOK
  <2>3. WorkerTypeOK' /\ BusyWorkersHoldDatums'
    BY <1>4, <2>2, WorkerMoves, WorkerGoes DEF PodDies
  <2> QED
    BY <1>1, <2>1, <2>3
<1> QED
  BY <1>2, <1>3, <1>4

(***************************************************************************)
(* Every reachable state is well typed, and a worker that asks falconerid  *)
(* for something in the name of a datum has reserved one.                  *)
(***************************************************************************)
THEOREM TypesAreKept == Spec => []TypeInv
<1>1. ASSUME Init
      PROVE  TypeInv
  <2>1. StoreTypeOK
    BY <1>1 DEF Init, StoreInit, StoreTypeOK, JobRow, DatumRow, Status
  <2>2. ClusterTypeOK
    BY <1>1 DEF Init, ClusterInit, ClusterTypeOK
  <2>3. WorkerTypeOK
    BY <1>1 DEF Init, WorkerInit, WorkerTypeOK, WorkerState, Places, Idle
  <2>4. BabysitterTypeOK
    BY <1>1 DEF Init, BabysitterInit, BabysitterTypeOK, BabysitterState, Stages, Asleep
  <2>5. BusyWorkersHoldDatums
    BY <1>1 DEF Init, WorkerInit, Idle, BusyWorkersHoldDatums, Busy
  <2> QED
    BY <2>1, <2>2, <2>3, <2>4, <2>5 DEF TypeInv, TypeOK
<1>2. ASSUME TypeInv, [Next]_vars
      PROVE  TypeInv'
  <2>1. CASE WorkerActs
    BY <1>2, <2>1, WorkersKeepTypes DEF WorkerActs
  <2>2. CASE BabysitterActs
    BY <1>2, <2>2, BabysittersKeepTypes DEF BabysitterActs
  <2>3. CASE ClusterActs \/ QuarterHourPasses \/ \E p \in Pods : PodDies(p)
    BY <1>2, <2>3, ClusterKeepsTypes
  <2>4. CASE UNCHANGED vars
    BY <1>2, <2>4 DEF TypeInv, TypeOK, vars, store, cluster, StoreTypeOK, ClusterTypeOK,
                      WorkerTypeOK, BabysitterTypeOK, BusyWorkersHoldDatums
  <2> QED
    BY <1>2, <2>1, <2>2, <2>3, <2>4 DEF Next, Ended
<1> QED
  BY <1>1, <1>2, PTL DEF Spec

(***************************************************************************)
(* The type invariant that the runs check.                                 *)
(***************************************************************************)
THEOREM TypeCorrect == Spec => []TypeOK
<1>1. TypeInv => TypeOK
  BY DEF TypeInv
<1> QED
  BY <1>1, TypesAreKept, PTL

-----------------------------------------------------------------------------
(* What a step does to the rows of jobs and datums.                        *)

(***************************************************************************)
(* However workers, babysitters and cluster interleave, the rows of jobs   *)
(* and datums only change by one of six transactions.                      *)
(***************************************************************************)
Transaction ==
    \/ \E p \in Pods, d \in Datums : ReserveNextDatum(p, d)
    \/ \E p \in Pods, d \in Datums, status \in {"done", "error"} :
          PatchDatum(p, d, status)
    \/ UpdateStatusIfDone
    \/ \E d \in Datums : MarkZombie(d)
    \/ \E d \in Datums : RerunDatum(d)
    \/ \E info \in {"absent", "failed", "healthy"} :
          FinishOrFailJob(info) /\ UNCHANGED datums

(***************************************************************************)
(* Every step is a transaction on these rows or leaves them alone.         *)
(***************************************************************************)
LEMMA StepsAreTransactions ==
    ASSUME TypeInv, [Next]_vars
    PROVE  Transaction \/ UNCHANGED <<job, datums>>
<1>1. CASE WorkerActs
  <2>1. PICK p \in Pods : WorkerStep(p)
    BY <1>1 DEF WorkerActs
  <2>2. CASE ReserveDatum(p)
    BY <2>2 DEF ReserveDatum, Transaction
  <2>3. CASE ReportDatum(p)
    <3>1. worker[p].datum \in Datums /\ worker[p].outcome \in {"done", "error"}
      BY <2>3 DEF ReportDatum, TypeInv, TypeOK, BusyWorkersHoldDatums, Busy,
                  WorkerTypeOK, WorkerState
    <3> QED
      BY <2>3, <3>1 DEF ReportDatum, Transaction
  <2>4. CASE RegisterOutputs(p) \/ RecordOutputs(p)
    BY <2>4 DEF RegisterOutputs, RecordOutputs, CreateOutputFiles, PatchOutputFiles
  <2>5. CASE \/ FetchJob(p) \/ FindNothing(p) \/ ProcessDatum(p)
             \/ UploadOutputs(p) \/ WorkerGivesUp(p)
    BY <2>5 DEF FetchJob, FindNothing, ProcessDatum, UploadOutputs, WorkerGivesUp, store
  <2> QED
    BY <2>1, <2>2, <2>3, <2>4, <2>5 DEF WorkerStep
<1>2. CASE BabysitterActs
  <2>1. PICK b \in Babysitters : BabysitterStep(b)
    BY <1>2 DEF BabysitterActs
  <2>2. babysitter[b] \in BabysitterState
    BY DEF TypeInv, TypeOK, BabysitterTypeOK
  <2>3. CASE CheckJob(b)
    BY <2>2, <2>3 DEF CheckJob, BabysitterState, Transaction
  <2>4. CASE FailZombie(b) \/ Rerun(b)
    BY <2>2, <2>4 DEF FailZombie, Rerun, BabysitterState, Transaction
  <2>5. CASE CloseJob(b)
    BY <2>5 DEF CloseJob, Transaction
  <2>6. CASE \/ FindRunningJob(b) \/ GetJobInfos(b) \/ ReadRunningDatums(b)
             \/ FindZombies(b) \/ ReadRerunable(b) \/ AbandonPass(b)
    BY <2>6 DEF FindRunningJob, GetJobInfos, ReadRunningDatums, FindZombies,
                ReadRerunable, AbandonPass, store
  <2> QED
    BY <2>1, <2>3, <2>4, <2>5, <2>6 DEF BabysitterStep
<1>3. CASE \/ ClusterActs \/ QuarterHourPasses \/ UNCHANGED vars
           \/ \E p \in Pods : PodDies(p)
  BY <1>3 DEF ClusterActs, QuarterHourPasses, PodDies, vars, store
<1> QED
  BY <1>1, <1>2, <1>3 DEF Next, Ended

-----------------------------------------------------------------------------
(* What a finished job says.                                               *)

(***************************************************************************)
(* A final status stays as it is: every transaction that writes the job    *)
(* looks at its status first, under the job's lock.                        *)
(***************************************************************************)
LEMMA TransactionsKeepVerdicts ==
    ASSUME TypeInv, Transaction, HasFinished(job.status)
    PROVE  UNCHANGED job
<1>1. JobIfDone(datums) = job /\ JobIfDone(datums') = job /\ job.status # "running"
  BY DEF JobIfDone, HasFinished
<1> QED
  BY <1>1 DEF Transaction, ReserveNextDatum, PatchDatum, UpdateStatusIfDone, MarkZombie,
              RerunDatum, FinishOrFailJob

(***************************************************************************)
(* Whoever arrives late, the final status of a job stays as it is.         *)
(***************************************************************************)
THEOREM VerdictsAreFinal == Spec => VerdictIsFinal
<1>1. ASSUME TypeInv, [Next]_vars
      PROVE  HasFinished(job.status) => UNCHANGED job
  BY <1>1, StepsAreTransactions, TransactionsKeepVerdicts
<1> QED
  BY <1>1, TypesAreKept, PTL DEF Spec, VerdictIsFinal

(***************************************************************************)
(* The strengthening: no code cancels anything, and a finished job has     *)
(* been decided by its datums or by Kubernetes.                            *)
(***************************************************************************)
NothingIsCanceled ==
    /\ job.status \in {"running", "done", "error"}
    /\ \A d \in Datums : datums[d].status # "canceled"

VerdictInv == NothingIsCanceled /\ DoneJobIsComplete /\ FailedJobIsDecided

(***************************************************************************)
(* The verdict that update_status_if_done finds in the datums is right.    *)
(***************************************************************************)
LEMMA OutcomeIsRight ==
    ASSUME StoreTypeOK, NEW rows \in [Datums -> DatumRow],
           \A d \in Datums : rows[d].status # "canceled"
    PROVE  /\ Outcome(rows) = "done" => \A d \in Datums : rows[d].status = "done"
           /\ Outcome(rows) = "error" =>
                /\ \A d \in Datums : \/ rows[d].status = "done"
                                     \/ rows[d].status = "error" /\ ~IsRerunable(rows[d])
                /\ \E d \in Datums : rows[d].status = "error"
BY DEF Outcome, DatumRow, Status

(***************************************************************************)
(* Each transaction keeps the verdict right: it closes a job only over     *)
(* settled datums, and only touches datums that keep a job open.           *)
(***************************************************************************)
LEMMA TransactionsKeepVerdictInv ==
    ASSUME TypeInv, TypeInv', VerdictInv, Transaction
    PROVE  VerdictInv'
<1> USE DEF VerdictInv, NothingIsCanceled, DoneJobIsComplete, FailedJobIsDecided
<1>1. /\ StoreTypeOK
      /\ job \in JobRow /\ job' \in JobRow
      /\ datums \in [Datums -> DatumRow] /\ datums' \in [Datums -> DatumRow]
  BY DEF TypeInv, TypeOK, StoreTypeOK
<1>2. ASSUME NEW rows \in [Datums -> DatumRow],
             \A d \in Datums : rows[d].status # "canceled",
             datums' = rows, job' = JobIfDone(rows), job.status = "running"
      PROVE  VerdictInv'
  <2>1. job'.status = Outcome(rows)
    BY <1>1, <1>2 DEF JobIfDone, JobRow
  <2> QED
    BY <1>1, <1>2, <2>1, OutcomeIsRight, OutcomeType
<1>3. job.status # "running" => JobIfDone(datums) = job
  BY DEF JobIfDone
<1>4. ASSUME NEW p \in Pods, NEW d \in Datums, ReserveNextDatum(p, d)
      PROVE  VerdictInv'
  BY <1>1, <1>4 DEF ReserveNextDatum, DatumRow, OwnedBy
<1>5. ASSUME NEW p \in Pods, NEW d \in Datums, NEW status \in {"done", "error"},
             PatchDatum(p, d, status)
      PROVE  VerdictInv'
  <2>1. \A e \in Datums : datums'[e].status # "canceled"
    BY <1>1, <1>5 DEF PatchDatum, DatumMarked, DatumRow
  <2>2. CASE job.status = "running"
    BY <1>1, <1>2, <1>5, <2>1, <2>2 DEF PatchDatum
  <2>3. CASE job.status # "running"
    BY <1>1, <1>5, <2>1, <2>3 DEF PatchDatum, DatumMarked, OwnedBy, JobIfDone, DatumRow
  <2> QED
    BY <2>2, <2>3
<1>6. CASE UpdateStatusIfDone
  BY <1>1, <1>2, <1>3, <1>6 DEF UpdateStatusIfDone
<1>7. ASSUME NEW d \in Datums, MarkZombie(d)
      PROVE  VerdictInv'
  BY <1>1, <1>7 DEF MarkZombie, DatumMarked, DatumRow
<1>8. ASSUME NEW d \in Datums, RerunDatum(d)
      PROVE  VerdictInv'
  BY <1>1, <1>8 DEF RerunDatum, DatumMarked, IsRerunable, DatumRow
<1>9. ASSUME NEW info, FinishOrFailJob(info), UNCHANGED datums
      PROVE  VerdictInv'
  <2>1. CASE job' = JobIfDone(datums)
    BY <1>1, <1>2, <1>3, <1>9, <2>1
  <2>2. CASE job' = JobFailed
    BY <1>9, <2>2 DEF JobFailed
  <2> QED
    BY <1>9, <2>1, <2>2 DEF FinishOrFailJob
<1> QED
  BY <1>4, <1>5, <1>6, <1>7, <1>8, <1>9 DEF Transaction

(***************************************************************************)
(* The strengthened invariant.                                             *)
(***************************************************************************)
THEOREM VerdictsHold == Spec => []VerdictInv
<1>1. Init => VerdictInv
  BY DEF Init, StoreInit, VerdictInv, NothingIsCanceled, DoneJobIsComplete,
         FailedJobIsDecided
<1>2. ASSUME TypeInv, TypeInv', VerdictInv, [Next]_vars
      PROVE  VerdictInv'
  <2>1. CASE UNCHANGED <<job, datums>>
    BY <1>2, <2>1 DEF VerdictInv, NothingIsCanceled, DoneJobIsComplete,
                      FailedJobIsDecided
  <2> QED
    BY <1>2, <2>1, StepsAreTransactions, TransactionsKeepVerdictInv
<1> QED
  BY <1>1, <1>2, TypesAreKept, PTL DEF Spec

(***************************************************************************)
(* A done job is complete: no datum of it can change its mind.             *)
(***************************************************************************)
THEOREM DoneJobsAreComplete == Spec => []DoneJobIsComplete
<1>1. VerdictInv => DoneJobIsComplete
  BY DEF VerdictInv
<1> QED
  BY <1>1, VerdictsHold, PTL

(***************************************************************************)
(* A job that failed because of its datums has none left to run.           *)
(***************************************************************************)
THEOREM FailedJobsAreDecided == Spec => []FailedJobIsDecided
<1>1. VerdictInv => FailedJobIsDecided
  BY DEF VerdictInv
<1> QED
  BY <1>1, VerdictsHold, PTL

-----------------------------------------------------------------------------
(* Who works on which datum.                                               *)

(***************************************************************************)
(* A pod holds one running datum at most: a reservation that finds one     *)
(* answers with it.                                                        *)
(***************************************************************************)
THEOREM PodsHoldOneDatum == Spec => []OneDatumPerPod
<1>1. Init => OneDatumPerPod
  BY DEF Init, StoreInit, OneDatumPerPod
<1>2. ASSUME TypeInv, OneDatumPerPod, [Next]_vars
      PROVE  OneDatumPerPod'
  <2> USE DEF OneDatumPerPod
  <2>1. datums \in [Datums -> DatumRow]
    BY <1>2 DEF TypeInv, TypeOK, StoreTypeOK
  <2>2. ASSUME NEW p \in Pods, NEW d \in Datums, ReserveNextDatum(p, d)
        PROVE  OneDatumPerPod'
    BY <1>2, <2>1, <2>2 DEF ReserveNextDatum, OwnedBy, DatumRow
  <2>3. ASSUME NEW p \in Pods, NEW d \in Datums, NEW status \in {"done", "error"},
               PatchDatum(p, d, status)
        PROVE  OneDatumPerPod'
    BY <1>2, <2>1, <2>3 DEF PatchDatum, DatumMarked, DatumRow
  <2>4. ASSUME NEW d \in Datums, MarkZombie(d) \/ RerunDatum(d)
        PROVE  OneDatumPerPod'
    BY <1>2, <2>1, <2>4 DEF MarkZombie, DatumMarked, RerunDatum, DatumRow
  <2>5. CASE UNCHANGED datums
    BY <1>2, <2>5
  <2> QED
    BY <1>2, <2>2, <2>3, <2>4, <2>5, StepsAreTransactions
    DEF Transaction, UpdateStatusIfDone
<1> QED
  BY <1>1, <1>2, TypesAreKept, PTL DEF Spec

(***************************************************************************)
(* The strengthening: a datum that waits for a run may still have one.     *)
(***************************************************************************)
ReadyDatumsMayRun ==
    \A d \in Datums :
        datums[d].status = "ready" =>
            \/ datums[d].attempted_run_count = 0
            \/ datums[d].attempted_run_count < MaxRuns

(***************************************************************************)
(* datum_tries bounds the runs of a datum, except that 0 allows one.       *)
(***************************************************************************)
THEOREM RunsStayBounded == Spec => []RunsAreBounded
<1> DEFINE Inv == ReadyDatumsMayRun /\ RunsAreBounded
<1> USE MaxRunsAssumption
<1>1. Init => Inv
  BY DEF Init, StoreInit, ReadyDatumsMayRun, RunsAreBounded
<1>2. ASSUME TypeInv, Inv, [Next]_vars
      PROVE  Inv'
  <2> USE DEF ReadyDatumsMayRun, RunsAreBounded
  <2>1. datums \in [Datums -> DatumRow]
    BY <1>2 DEF TypeInv, TypeOK, StoreTypeOK
  <2>2. ASSUME NEW p \in Pods, NEW d \in Datums, ReserveNextDatum(p, d)
        PROVE  Inv'
    BY <1>2, <2>1, <2>2 DEF ReserveNextDatum, DatumRow
  <2>3. ASSUME NEW p \in Pods, NEW d \in Datums, NEW status \in {"done", "error"},
               PatchDatum(p, d, status)
        PROVE  Inv'
    BY <1>2, <2>1, <2>3 DEF PatchDatum, DatumMarked, DatumRow
  <2>4. ASSUME NEW d \in Datums, MarkZombie(d)
        PROVE  Inv'
    BY <1>2, <2>1, <2>4 DEF MarkZombie, DatumMarked, DatumRow
  <2>5. ASSUME NEW d \in Datums, RerunDatum(d)
        PROVE  Inv'
    BY <1>2, <2>1, <2>5 DEF RerunDatum, DatumMarked, IsRerunable, DatumRow
  <2>6. CASE UNCHANGED datums
    BY <1>2, <2>6
  <2> QED
    BY <1>2, <2>2, <2>3, <2>4, <2>5, <2>6, StepsAreTransactions
    DEF Transaction, UpdateStatusIfDone
<1> QED
  BY <1>1, <1>2, TypesAreKept, PTL DEF Spec

(***************************************************************************)
(* The strengthening behind the ownership check: as long as a datum is     *)
(* recorded as running on a worker's pod, the run the worker knows is the  *)
(* datum's latest.                                                         *)
(***************************************************************************)
WorkersKnowTheirRun ==
    \A p \in Pods :
        worker[p].at \in Busy /\ OwnedBy(worker[p].datum, p) =>
            worker[p].run = datums[worker[p].datum].attempted_run_count

\* No datum gets an owner or another run ...
DatumsKeepOwners ==
    \A p \in Pods, d \in Datums :
        OwnedBy(d, p)' =>
            /\ OwnedBy(d, p)
            /\ datums'[d].attempted_run_count = datums[d].attempted_run_count

\* ... and no worker gets a datum or another run of it.
WorkersKeepDatums ==
    \A p \in Pods :
        worker'[p].at \in Busy =>
            /\ worker[p].at \in Busy
            /\ worker'[p].datum = worker[p].datum
            /\ worker'[p].run = worker[p].run

(***************************************************************************)
(* No datum gets an owner in a step that is not a reservation ...          *)
(***************************************************************************)
LEMMA OtherStepsKeepOwners ==
    ASSUME StoreTypeOK,
           \/ UNCHANGED datums
           \/ \E p \in Pods, d \in Datums, status \in {"done", "error"} :
                 PatchDatum(p, d, status)
           \/ \E d \in Datums : MarkZombie(d) \/ RerunDatum(d)
    PROVE  DatumsKeepOwners
<1> USE DEF DatumsKeepOwners, OwnedBy
<1>1. datums \in [Datums -> DatumRow]
  BY DEF StoreTypeOK
<1>2. CASE UNCHANGED datums
  BY <1>2
<1>3. ASSUME NEW p \in Pods, NEW d \in Datums, NEW status \in {"done", "error"},
             PatchDatum(p, d, status)
      PROVE  DatumsKeepOwners
  BY <1>1, <1>3 DEF PatchDatum, DatumMarked, DatumRow
<1>4. ASSUME NEW d \in Datums, MarkZombie(d) \/ RerunDatum(d)
      PROVE  DatumsKeepOwners
  BY <1>1, <1>4 DEF MarkZombie, DatumMarked, RerunDatum, DatumRow
<1> QED
  BY <1>2, <1>3, <1>4

(***************************************************************************)
(* ... and no worker gets a datum in one.                                  *)
(***************************************************************************)
LEMMA OtherStepsKeepWorkers ==
    ASSUME TypeInv, NEW p \in Pods,
           \/ FetchJob(p) \/ FindNothing(p) \/ ProcessDatum(p) \/ RegisterOutputs(p)
           \/ UploadOutputs(p) \/ RecordOutputs(p) \/ ReportDatum(p)
           \/ WorkerGivesUp(p) \/ PodDies(p)
    PROVE  WorkersKeepDatums
<1> USE DEF WorkersKeepDatums, Busy
<1>1. worker \in [Pods -> WorkerState] /\ worker[p] \in WorkerState
  BY DEF TypeInv, TypeOK, WorkerTypeOK
<1>2. ASSUME NEW state, Goes(p, state),
             state.at \in Busy => /\ worker[p].at \in Busy
                                  /\ state.datum = worker[p].datum
                                  /\ state.run = worker[p].run
      PROVE  WorkersKeepDatums
  BY <1>1, <1>2 DEF Goes
<1>3. UNCHANGED worker \/ Goes(p, Idle) => WorkersKeepDatums
  BY <1>2 DEF Idle
<1>4. ASSUME NEW place \in Places, place \in Busy => worker[p].at \in Busy,
             MovesTo(p, place)
      PROVE  WorkersKeepDatums
  <2>1. Goes(p, [worker[p] EXCEPT !.at = place])
    BY <1>1, <1>4 DEF MovesTo, Goes
  <2> QED
    BY <1>1, <1>2, <1>4, <2>1 DEF WorkerState
<1>5. ASSUME NEW place \in Places, NEW runs, NEW outcome \in {"done", "error"},
             place \in Busy => worker[p].at \in Busy,
             \/ Goes(p, [worker[p] EXCEPT !.at = place, !.outcome = outcome])
             \/ Goes(p, [worker[p] EXCEPT !.at = place, !.file_runs = runs])
      PROVE  WorkersKeepDatums
  <2>1. CASE Goes(p, [worker[p] EXCEPT !.at = place, !.outcome = outcome])
    BY <1>1, <1>2, <1>5, <2>1 DEF WorkerState
  <2>2. CASE Goes(p, [worker[p] EXCEPT !.at = place, !.file_runs = runs])
    BY <1>1, <1>2, <1>5, <2>2 DEF WorkerState
  <2> QED
    BY <1>5, <2>1, <2>2
<1>6. CASE FetchJob(p)
  BY <1>3, <1>4, <1>6 DEF FetchJob, Exits, Places
<1>7. CASE FindNothing(p)
  BY <1>4, <1>7 DEF FindNothing, Places
<1>8. CASE ProcessDatum(p)
  BY <1>4, <1>5, <1>8 DEF ProcessDatum, Places
<1>9. CASE RegisterOutputs(p)
  BY <1>3, <1>5, <1>9 DEF RegisterOutputs, Places
<1>10. CASE UploadOutputs(p)
  BY <1>5, <1>10 DEF UploadOutputs, Places
<1>11. CASE RecordOutputs(p)
  BY <1>3, <1>4, <1>5, <1>11 DEF RecordOutputs, Places
<1>12. CASE ReportDatum(p) \/ PodDies(p)
  BY <1>3, <1>12 DEF ReportDatum, PodDies
<1>13. CASE WorkerGivesUp(p)
  BY <1>3, <1>5, <1>13 DEF WorkerGivesUp, Exits, Places
<1> QED
  BY <1>6, <1>7, <1>8, <1>9, <1>10, <1>11, <1>12, <1>13

(***************************************************************************)
(* A reservation tells the worker the run it has started or found.         *)
(***************************************************************************)
LEMMA ReservationsTellTheRun ==
    ASSUME TypeInv, WorkersKnowTheirRun, NEW p \in Pods, ReserveDatum(p)
    PROVE  WorkersKnowTheirRun'
<1>1. PICK d \in Datums :
        /\ ReserveNextDatum(p, d)
        /\ \/ Goes(p, [Idle EXCEPT !.at = "process", !.datum = d,
                                   !.run = datums'[d].attempted_run_count])
           \/ UNCHANGED worker
  BY DEF ReserveDatum
<1>2. datums \in [Datums -> DatumRow] /\ worker \in [Pods -> WorkerState]
  BY DEF TypeInv, TypeOK, StoreTypeOK, WorkerTypeOK
<1>3. worker[p].at \notin Busy
  BY DEF ReserveDatum, Busy
<1>4. \A q \in Pods \ {p} : worker'[q] = worker[q]
  BY <1>1, <1>2 DEF Goes
<1>5. \A q \in Pods \ {p}, e \in Datums :
        OwnedBy(e, q)' => OwnedBy(e, q) /\ datums'[e] = datums[e]
  BY <1>1, <1>2 DEF ReserveNextDatum, OwnedBy, DatumRow
<1>6. worker'[p].at \in Busy =>
        /\ worker'[p].datum = d
        /\ worker'[p].run = datums'[d].attempted_run_count
  BY <1>1, <1>2, <1>3 DEF Goes, Idle
<1>7. ASSUME NEW q \in Pods \ {p}, worker'[q].at \in Busy, OwnedBy(worker[q].datum, q)'
      PROVE  worker'[q].run = datums'[worker'[q].datum].attempted_run_count
  <2>1. worker[q].datum \in Datums
    BY <1>4, <1>7 DEF TypeInv, BusyWorkersHoldDatums
  <2> QED
    BY <1>4, <1>5, <1>7, <2>1 DEF WorkersKnowTheirRun
<1> QED
  BY <1>4, <1>6, <1>7 DEF WorkersKnowTheirRun, OwnedBy

(***************************************************************************)
(* A babysitter only takes datums from workers or gives them free.         *)
(***************************************************************************)
LEMMA BabysittersFailOrFreeDatums ==
    ASSUME TypeInv, NEW b \in Babysitters, BabysitterStep(b)
    PROVE  UNCHANGED datums \/ \E d \in Datums : MarkZombie(d) \/ RerunDatum(d)
<1>1. babysitter[b] \in BabysitterState
  BY DEF TypeInv, TypeOK, BabysitterTypeOK
<1> QED
  BY <1>1 DEF BabysitterStep, BabysitterState, FindRunningJob, GetJobInfos, CheckJob,
     ReadRunningDatums, FindZombies, FailZombie, CloseJob, UpdateStatusIfDone,
     ReadRerunable, Rerun, AbandonPass, store

(***************************************************************************)
(* A worker that holds a running datum knows its latest run.               *)
(***************************************************************************)
THEOREM RunsAreKnown == Spec => []WorkersKnowTheirRun
<1>1. Init => WorkersKnowTheirRun
  BY DEF Init, WorkerInit, Idle, WorkersKnowTheirRun, Busy
<1>2. ASSUME TypeInv, WorkersKnowTheirRun, DatumsKeepOwners, WorkersKeepDatums
      PROVE  WorkersKnowTheirRun'
  BY <1>2 DEF WorkersKnowTheirRun, DatumsKeepOwners, WorkersKeepDatums, TypeInv,
              BusyWorkersHoldDatums
<1>3. ASSUME TypeInv, WorkersKnowTheirRun, [Next]_vars
      PROVE  WorkersKnowTheirRun'
  <2>1. UNCHANGED worker => WorkersKeepDatums
    BY DEF WorkersKeepDatums
  <2>2. StoreTypeOK
    BY <1>3 DEF TypeInv, TypeOK
  <2>3. ASSUME NEW p \in Pods, WorkerStep(p)
        PROVE  WorkersKnowTheirRun'
    <3>1. CASE ReserveDatum(p)
      BY <1>3, <3>1, ReservationsTellTheRun
    <3>2. CASE ~ReserveDatum(p)
      <4>1. WorkersKeepDatums
        BY <1>3, <2>3, <3>2, OtherStepsKeepWorkers DEF WorkerStep
      <4>2. CASE ReportDatum(p)
        <5>1. worker[p].datum \in Datums /\ worker[p].outcome \in {"done", "error"}
          BY <1>3, <4>2 DEF ReportDatum, TypeInv, TypeOK, BusyWorkersHoldDatums, Busy,
                            WorkerTypeOK, WorkerState
        <5> QED
          BY <1>2, <1>3, <2>2, <4>1, <4>2, <5>1, OtherStepsKeepOwners DEF ReportDatum
      <4>3. CASE ~ReportDatum(p)
        <5>1. UNCHANGED datums
          BY <2>3, <3>2, <4>3 DEF WorkerStep, FetchJob, FindNothing, ProcessDatum,
             RegisterOutputs, CreateOutputFiles, UploadOutputs, RecordOutputs,
             PatchOutputFiles, WorkerGivesUp, store
        <5> QED
          BY <1>2, <1>3, <2>2, <4>1, <5>1, OtherStepsKeepOwners
      <4> QED
        BY <4>2, <4>3
    <3> QED
      BY <3>1, <3>2
  <2>4. ASSUME NEW b \in Babysitters, BabysitterStep(b), UNCHANGED worker
        PROVE  WorkersKnowTheirRun'
    BY <1>2, <1>3, <2>1, <2>2, <2>4, BabysittersFailOrFreeDatums, OtherStepsKeepOwners
  <2>5. ASSUME NEW p \in Pods, PodDies(p)
        PROVE  WorkersKnowTheirRun'
    <3>1. WorkersKeepDatums
      BY <1>3, <2>5, OtherStepsKeepWorkers
    <3>2. UNCHANGED datums
      BY <2>5 DEF PodDies, store
    <3> QED
      BY <1>2, <1>3, <2>2, <3>1, <3>2, OtherStepsKeepOwners
  <2>6. CASE ClusterActs \/ QuarterHourPasses \/ UNCHANGED vars
    <3>1. UNCHANGED worker /\ UNCHANGED datums
      BY <2>6 DEF ClusterActs, QuarterHourPasses, vars, store
    <3> QED
      BY <1>2, <1>3, <2>1, <2>2, <3>1, OtherStepsKeepOwners
  <2> QED
    BY <1>3, <2>3, <2>4, <2>5, <2>6 DEF Next, WorkerActs, BabysitterActs, Ended
<1> QED
  BY <1>1, <1>3, TypesAreKept, PTL DEF Spec

(***************************************************************************)
(* Only the worker that did the current run of a datum can finish it: the  *)
(* name of the pod, checked by lock_and_verify_owner, identifies the run.  *)
(***************************************************************************)
THEOREM CurrentRunsFinish == Spec => DoneByTheCurrentRun
<1> DEFINE Fenced ==
        \A d \in Datums :
          datums[d].status # "done" /\ datums'[d].status = "done" =>
            \E p \in Pods : /\ worker[p].at = "patch_datum"
                            /\ worker[p].outcome = "done"
                            /\ worker[p].datum = d
                            /\ worker[p].run = datums[d].attempted_run_count
<1>1. ASSUME TypeInv, WorkersKnowTheirRun, [Next]_vars
      PROVE  Fenced
  <2>1. datums \in [Datums -> DatumRow]
    BY <1>1 DEF TypeInv, TypeOK, StoreTypeOK
  <2>2. CASE UNCHANGED datums
    BY <2>2
  <2>3. ASSUME NEW p \in Pods, ReportDatum(p)
        PROVE  Fenced
    BY <1>1, <2>1, <2>3 DEF ReportDatum, PatchDatum, DatumMarked, DatumRow, OwnedBy, Busy,
                            WorkersKnowTheirRun
  <2>4. ASSUME NEW p \in Pods, ReserveDatum(p)
        PROVE  Fenced
    BY <2>1, <2>4 DEF ReserveDatum, ReserveNextDatum, DatumRow
  <2>5. ASSUME NEW d \in Datums, MarkZombie(d) \/ RerunDatum(d)
        PROVE  Fenced
    BY <2>1, <2>5 DEF MarkZombie, DatumMarked, RerunDatum, DatumRow
  <2>6. CASE WorkerActs
    BY <2>2, <2>3, <2>4, <2>6 DEF WorkerActs, WorkerStep, FetchJob, FindNothing,
       ProcessDatum, RegisterOutputs, CreateOutputFiles, UploadOutputs, RecordOutputs,
       PatchOutputFiles, WorkerGivesUp, store
  <2>7. CASE BabysitterActs
    BY <1>1, <2>2, <2>5, <2>7, BabysittersFailOrFreeDatums DEF BabysitterActs
  <2>8. CASE \/ ClusterActs \/ QuarterHourPasses \/ UNCHANGED vars
             \/ \E p \in Pods : PodDies(p)
    BY <2>2, <2>8 DEF ClusterActs, QuarterHourPasses, PodDies, vars, store
  <2> QED
    BY <1>1, <2>6, <2>7, <2>8 DEF Next, Ended
<1> QED
  BY <1>1, TypesAreKept, RunsAreKnown, PTL DEF Spec, DoneByTheCurrentRun

-----------------------------------------------------------------------------
(* The abstract lifecycle.                                                 *)

(***************************************************************************)
(* The rows of jobs and datums implement JobLifecycle.                     *)
(***************************************************************************)
Progress == [d \in Datums |-> datums[d].status]
Attempts == [d \in Datums |-> datums[d].attempted_run_count]

(***************************************************************************)
(* A job that is finished by its datums is finished as Close says.         *)
(***************************************************************************)
LEMMA FinishedByDatums ==
    ASSUME TypeInv, TypeInv', VerdictInv',
           job.status = "running", job' = JobIfDone(datums')
    PROVE  UNCHANGED job.status \/ JobAsSeenByItsUser!Close
<1>1. /\ job \in JobRow /\ job'.status = Outcome(datums')
      /\ datums' \in [Datums -> DatumRow]
  BY DEF TypeInv, TypeOK, StoreTypeOK, JobIfDone, JobRow
<1>2. \A d \in Datums : datums'[d].status # "canceled"
  BY DEF VerdictInv, NothingIsCanceled
<1>3. CASE Outcome(datums') = "running"
  BY <1>1, <1>3
<1>4. CASE Outcome(datums') = "done"
  <2>1. \A d \in Datums : datums'[d].status = "done"
    BY <1>1, <1>2, <1>4, OutcomeIsRight DEF TypeInv, TypeOK
  <2> QED
    BY <1>1, <1>4, <2>1
    DEF JobAsSeenByItsUser!Close, JobAsSeenByItsUser!Settled
<1>5. CASE Outcome(datums') = "error"
  <2>1. /\ \A d \in Datums : \/ datums'[d].status = "done"
                             \/ datums'[d].status = "error" /\ ~IsRerunable(datums'[d])
        /\ \E d \in Datums : datums'[d].status = "error"
    BY <1>1, <1>2, <1>5, OutcomeIsRight DEF TypeInv, TypeOK
  <2> QED
    BY <1>1, <1>5, <2>1
    DEF JobAsSeenByItsUser!Close, JobAsSeenByItsUser!Settled,
        JobAsSeenByItsUser!MayRetry, IsRerunable
<1> QED
  BY <1>3, <1>4, <1>5, OutcomeType

(***************************************************************************)
(* Each transaction is a step of JobLifecycle or a stutter.                *)
(***************************************************************************)
LEMMA TransactionsAdvance ==
    ASSUME TypeInv, TypeInv', VerdictInv, VerdictInv', Transaction
    PROVE  [JobAsSeenByItsUser!Advance]_<<job.status, Progress, Attempts>>
<1> DEFINE Moves == [JobAsSeenByItsUser!Advance]_<<job.status, Progress, Attempts>>
<1>1. datums \in [Datums -> DatumRow] /\ datums' \in [Datums -> DatumRow]
  BY DEF TypeInv, TypeOK, StoreTypeOK
<1>2. UNCHANGED datums => UNCHANGED <<Progress, Attempts>>
  BY DEF Progress, Attempts
<1>3. ASSUME NEW p \in Pods, NEW d \in Datums, ReserveNextDatum(p, d)
      PROVE  Moves
  <2>1. CASE UNCHANGED datums
    BY <1>2, <1>3, <2>1 DEF ReserveNextDatum
  <2>2. CASE datums[d].status = "ready"
    <3>0. datums' = [datums EXCEPT
                       ![d] = [status |-> "running", pod_name |-> p,
                               attempted_run_count |-> @.attempted_run_count + 1]]
      BY <1>3, <2>2 DEF ReserveNextDatum, OwnedBy
    <3>1. /\ Progress' = [Progress EXCEPT ![d] = "running"]
          /\ Attempts' = [Attempts EXCEPT ![d] = @ + 1]
      BY <1>1, <3>0 DEF Progress, Attempts, DatumRow
    <3>2. JobAsSeenByItsUser!Begin(d)
      BY <1>3, <2>2, <3>1
      DEF JobAsSeenByItsUser!Begin, ReserveNextDatum, Progress, Attempts
    <3> QED
      BY <3>2 DEF JobAsSeenByItsUser!Advance
  <2> QED
    BY <1>3, <2>1, <2>2 DEF ReserveNextDatum
<1>4. ASSUME NEW d \in Datums, NEW status \in {"done", "error"},
             datums[d].status = "running",
             datums' = [datums EXCEPT ![d].status = status],
             UNCHANGED job \/ job' = JobIfDone(datums')
      PROVE  Moves
  <2>1. /\ Progress' = [Progress EXCEPT ![d] = status]
        /\ Attempts' = Attempts
    BY <1>1, <1>4 DEF Progress, Attempts, DatumRow
  <2>2. UNCHANGED job.status \/ JobAsSeenByItsUser!Close
    BY <1>4, FinishedByDatums DEF JobIfDone
  <2>3. JobAsSeenByItsUser!Finish(d)
    BY <1>4, <2>1, <2>2 DEF JobAsSeenByItsUser!Finish, Progress, Attempts
  <2> QED
    BY <2>3 DEF JobAsSeenByItsUser!Advance
<1>5. CASE UpdateStatusIfDone
  <2>1. UNCHANGED job.status \/ JobAsSeenByItsUser!Close
    BY <1>5, FinishedByDatums DEF UpdateStatusIfDone, JobIfDone
  <2> QED
    BY <1>2, <1>5, <2>1
    DEF UpdateStatusIfDone, JobAsSeenByItsUser!CloseLate, JobAsSeenByItsUser!Advance,
        Progress, Attempts
<1>6. ASSUME NEW d \in Datums, MarkZombie(d)
      PROVE  Moves
  BY <1>2, <1>4, <1>6 DEF MarkZombie, DatumMarked
<1>7. ASSUME NEW d \in Datums, RerunDatum(d)
      PROVE  Moves
  <2>1. CASE IsRerunable(datums[d])
    <3>1. Progress' = [Progress EXCEPT ![d] = "ready"] /\ Attempts' = Attempts
      BY <1>1, <1>7, <2>1 DEF RerunDatum, DatumMarked, Progress, Attempts, DatumRow
    <3>2. JobAsSeenByItsUser!Retry(d)
      BY <1>7, <2>1, <3>1 DEF JobAsSeenByItsUser!Retry, JobAsSeenByItsUser!MayRetry,
         RerunDatum, DatumMarked, IsRerunable, Progress, Attempts
    <3> QED
      BY <3>2 DEF JobAsSeenByItsUser!Advance
  <2>2. CASE ~IsRerunable(datums[d])
    BY <1>2, <1>7, <2>2 DEF RerunDatum
  <2> QED
    BY <2>1, <2>2
<1>8. ASSUME NEW info, FinishOrFailJob(info), UNCHANGED datums
      PROVE  Moves
  <2>1. CASE job' = JobIfDone(datums)
    <3>1. UNCHANGED job.status \/ JobAsSeenByItsUser!Close
      BY <1>8, <2>1, FinishedByDatums DEF JobIfDone
    <3> QED
      BY <1>2, <1>8, <3>1
      DEF JobAsSeenByItsUser!CloseLate, JobAsSeenByItsUser!Advance, Progress, Attempts
  <2>2. CASE /\ JobIfDone(datums).status = "running"
             /\ job' = JobFailed
    <3>1. job.status = "running"
      BY <2>2 DEF JobIfDone
    <3> QED
      BY <1>2, <1>8, <2>2, <3>1
      DEF JobFailed, JobAsSeenByItsUser!Fail, JobAsSeenByItsUser!Advance, Progress, Attempts
  <2> QED
    BY <1>8, <2>1, <2>2 DEF FinishOrFailJob
<1> QED
  BY <1>3, <1>4, <1>5, <1>6, <1>7, <1>8 DEF Transaction, PatchDatum, DatumMarked, OwnedBy

(***************************************************************************)
(* The statuses move as the guide's status tables say.                     *)
(***************************************************************************)
THEOREM LifecycleIsKept == Spec => KeepsLifecycle
<1>1. Init => JobAsSeenByItsUser!Start
  BY DEF Init, StoreInit, JobAsSeenByItsUser!Start
<1>2. ASSUME TypeInv, TypeInv', VerdictInv, VerdictInv', [Next]_vars
      PROVE  [JobAsSeenByItsUser!Advance]_JobAsSeenByItsUser!lifecycle
  <2>1. CASE Transaction
    BY <1>2, <2>1, TransactionsAdvance
    DEF JobAsSeenByItsUser!lifecycle, Progress, Attempts
  <2>2. CASE UNCHANGED <<job, datums>>
    BY <2>2 DEF JobAsSeenByItsUser!lifecycle
  <2> QED
    BY <1>2, <2>1, <2>2, StepsAreTransactions
<1>3. Spec => [](TypeInv /\ VerdictInv)
  BY TypesAreKept, VerdictsHold, PTL
<1> QED
  BY <1>1, <1>2, <1>3, PTL
  DEF Spec, KeepsLifecycle, JobAsSeenByItsUser!Lifecycle
=============================================================================
