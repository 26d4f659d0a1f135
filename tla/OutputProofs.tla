---------------------------- MODULE OutputProofs ----------------------------
(***************************************************************************)
(* Theorems about the records of output files and the objects they name.   *)
(***************************************************************************)
EXTENDS ClusterProofs

-----------------------------------------------------------------------------
(* What a step does to the rows of datums and output_files.                *)

(***************************************************************************)
(* The transactions on these two tables, as worker p sends them for the    *)
(* datum it holds, or as a babysitter makes them.                          *)
(***************************************************************************)
Sends(p, d, status) ==
    /\ worker[p].datum = d
    /\ \/ worker[p].at = "create" /\ CreateOutputFiles(p, d)
       \/ /\ worker[p].at = "patch_files" /\ worker[p].outcome = status
          /\ PatchOutputFiles(p, d, worker[p].file_runs, status)
       \/ /\ worker[p].at = "patch_datum" /\ worker[p].outcome = status
          /\ PatchDatum(p, d, status)

RowsChange ==
    \/ \E p \in Pods, d \in Datums : ReserveNextDatum(p, d)
    \/ \E p \in Pods, d \in Datums, status \in {"done", "error"} : Sends(p, d, status)
    \/ \E d \in Datums : MarkZombie(d)
    \/ \E d \in Datums : RerunDatum(d)

(***************************************************************************)
(* Every step is one of these or leaves the two tables alone.              *)
(***************************************************************************)
LEMMA StepsChangeRows ==
    ASSUME TypeInv, [Next]_vars
    PROVE  RowsChange \/ UNCHANGED <<datums, output_files>>
<1>1. ASSUME NEW p \in Pods, WorkerStep(p)
      PROVE  RowsChange \/ UNCHANGED <<datums, output_files>>
  <2>1. CASE ReserveDatum(p)
    BY <2>1 DEF ReserveDatum, RowsChange
  <2>2. CASE RegisterOutputs(p) \/ RecordOutputs(p) \/ ReportDatum(p)
    <3>1. worker[p].datum \in Datums /\ worker[p].outcome \in {"done", "error"}
      BY <2>2 DEF RegisterOutputs, RecordOutputs, ReportDatum, TypeInv, TypeOK,
         BusyWorkersHoldDatums, Busy, WorkerTypeOK, WorkerState
    <3>2. Sends(p, worker[p].datum, worker[p].outcome)
      BY <2>2 DEF RegisterOutputs, RecordOutputs, ReportDatum, Sends
    <3> QED
      BY <3>1, <3>2 DEF RowsChange
  <2>3. CASE \/ FetchJob(p) \/ FindNothing(p) \/ ProcessDatum(p)
             \/ UploadOutputs(p) \/ WorkerGivesUp(p)
    BY <2>3 DEF FetchJob, FindNothing, ProcessDatum, UploadOutputs, WorkerGivesUp, store
  <2> QED
    BY <1>1, <2>1, <2>2, <2>3 DEF WorkerStep
<1>2. ASSUME NEW b \in Babysitters, BabysitterStep(b)
      PROVE  RowsChange \/ UNCHANGED <<datums, output_files>>
  <2>1. babysitter[b] \in BabysitterState
    BY DEF TypeInv, TypeOK, BabysitterTypeOK
  <2>2. CASE FailZombie(b) \/ Rerun(b)
    BY <2>1, <2>2 DEF FailZombie, Rerun, BabysitterState, RowsChange
  <2>3. CASE ~FailZombie(b) /\ ~Rerun(b)
    BY <1>2, <2>3 DEF BabysitterStep, FindRunningJob, GetJobInfos, CheckJob,
       ReadRunningDatums, FindZombies, CloseJob, UpdateStatusIfDone, ReadRerunable,
       AbandonPass, store
  <2> QED
    BY <2>2, <2>3
<1>3. CASE \/ ClusterActs \/ QuarterHourPasses \/ UNCHANGED vars
           \/ \E p \in Pods : PodDies(p)
  BY <1>3 DEF ClusterActs, QuarterHourPasses, PodDies, vars, store
<1> QED
  BY <1>1, <1>2, <1>3 DEF Next, WorkerActs, BabysitterActs, Ended

-----------------------------------------------------------------------------
(* Whose records they are.                                                 *)

\* A record names an output of its datum, and no other datum has one for it.
OutputsAreClaimed ==
    \A f \in output_files :
        /\ f.uri \in OutputUris[f.datum]
        /\ \A g \in output_files : g.uri = f.uri => g.datum = f.datum

RecordsInv == OutputsAreClaimed /\ OutputsAreOfTheCurrentRun

(***************************************************************************)
(* A worker's requests about its outputs leave them claimed by one datum   *)
(* each, and of its current run.                                           *)
(***************************************************************************)
LEMMA RequestsKeepRecords ==
    ASSUME TypeInv, RecordsInv, NEW p \in Pods, NEW d \in Datums,
           NEW status \in {"done", "error"}, Sends(p, d, status)
    PROVE  RecordsInv'
<1> USE DEF RecordsInv, OutputsAreClaimed, OutputsAreOfTheCurrentRun
<1>1. /\ datums \in [Datums -> DatumRow]
      /\ output_files \subseteq OutputFileRow
  BY DEF TypeInv, TypeOK, StoreTypeOK
<1>2. CASE CreateOutputFiles(p, d)
  <2>1. CASE UNCHANGED output_files
    BY <1>2, <2>1 DEF CreateOutputFiles
  <2>2. CASE /\ FilesOf(d) = {} /\ \A f \in output_files : f.uri \notin OutputUris[d]
             /\ output_files' = output_files \cup NewOutputFiles(d)
    <3>1. \A f \in NewOutputFiles(d) :
            /\ f.uri \in OutputUris[d] /\ f.datum = d
            /\ f.run = datums[d].attempted_run_count
      BY DEF NewOutputFiles
    <3>2. UNCHANGED datums /\ datums[d].status = "running"
      BY <1>2 DEF CreateOutputFiles, OwnedBy
    <3>3. OutputsAreClaimed'
      BY <2>2, <3>1
    <3>4. OutputsAreOfTheCurrentRun'
      BY <2>2, <3>1, <3>2
    <3> QED
      BY <3>3, <3>4
  <2> QED
    BY <1>2, <2>1, <2>2 DEF CreateOutputFiles
<1>3. ASSUME NEW runs, PatchOutputFiles(p, d, runs, status)
      PROVE  RecordsInv'
  <2>1. \A f \in output_files' : \E g \in output_files :
          f.uri = g.uri /\ f.datum = g.datum /\ f.run = g.run
    BY <1>1, <1>3 DEF PatchOutputFiles, OutputFileRow
  <2>2. UNCHANGED datums
    BY <1>3 DEF PatchOutputFiles
  <2>3. OutputsAreClaimed'
    BY <2>1
  <2>4. OutputsAreOfTheCurrentRun'
    BY <2>1, <2>2
  <2> QED
    BY <2>3, <2>4
<1>4. CASE PatchDatum(p, d, status)
  BY <1>1, <1>4 DEF PatchDatum, OwnedBy, DatumMarked, DatumRow, OutputFileRow
<1> QED
  BY <1>2, <1>3, <1>4 DEF Sends

(***************************************************************************)
(* The records of a datum that runs or is done are of its current run: a   *)
(* rerun removes those of the run before.                                  *)
(***************************************************************************)
THEOREM RecordsAreKept == Spec => []RecordsInv
<1>1. Init => RecordsInv
  BY DEF Init, StoreInit, RecordsInv, OutputsAreClaimed, OutputsAreOfTheCurrentRun
<1>2. TypeInv /\ RecordsInv /\ [Next]_vars => RecordsInv'
  <2> SUFFICES ASSUME TypeInv, RecordsInv, [Next]_vars PROVE RecordsInv'
    OBVIOUS
  <2> USE DEF RecordsInv, OutputsAreClaimed, OutputsAreOfTheCurrentRun
  <2>1. /\ datums \in [Datums -> DatumRow]
        /\ output_files \subseteq OutputFileRow
    BY DEF TypeInv, TypeOK, StoreTypeOK
  <2>2. ASSUME NEW p \in Pods, NEW d \in Datums, ReserveNextDatum(p, d)
        PROVE  RecordsInv'
    BY <2>1, <2>2 DEF ReserveNextDatum, DatumRow, OutputFileRow
  <2>3. ASSUME NEW d \in Datums, MarkZombie(d)
        PROVE  RecordsInv'
    BY <2>1, <2>3 DEF MarkZombie, DatumMarked, DatumRow, OutputFileRow
  <2>4. ASSUME NEW d \in Datums, RerunDatum(d)
        PROVE  RecordsInv'
    BY <2>1, <2>4 DEF RerunDatum, DatumMarked, DatumRow, FilesOf, OutputFileRow
  <2>5. CASE UNCHANGED <<datums, output_files>>
    BY <2>5
  <2> QED
    BY <2>2, <2>3, <2>4, <2>5, StepsChangeRows, RequestsKeepRecords DEF RowsChange
<1> QED
  BY <1>1, <1>2, TypesAreKept, PTL DEF Spec

(***************************************************************************)
(* So create_output_files never finds the records of an earlier run.       *)
(***************************************************************************)
THEOREM RecordsAreOfTheCurrentRun == Spec => []OutputsAreOfTheCurrentRun
<1>1. RecordsInv => OutputsAreOfTheCurrentRun
  BY DEF RecordsInv
<1> QED
  BY <1>1, RecordsAreKept, PTL

-----------------------------------------------------------------------------
(* What has been stored.                                                   *)

\* A worker that is about to record success has uploaded everything.
SuccessIsUploaded ==
    \A p \in Pods :
        worker[p].at = "patch_files" /\ worker[p].outcome = "done" =>
            Uploadable(worker[p].datum) \subseteq bucket

(***************************************************************************)
(* A worker's step leaves the other workers where they are.                *)
(***************************************************************************)
LEMMA WorkersMoveAlone ==
    ASSUME TypeInv, NEW p \in Pods, WorkerStep(p) \/ PodDies(p)
    PROVE  \A q \in Pods \ {p} : worker'[q] = worker[q]
<1>1. worker \in [Pods -> WorkerState]
  BY DEF TypeInv, TypeOK, WorkerTypeOK
<1>2. CASE UNCHANGED worker \/ \E state : Goes(p, state)
  BY <1>1, <1>2 DEF Goes
<1>3. CASE \E place : MovesTo(p, place)
  BY <1>1, <1>3 DEF MovesTo
<1>4. WorkerStep(p) => \/ UNCHANGED worker
                       \/ \E state : Goes(p, state)
                       \/ \E place : MovesTo(p, place)
  BY DEF WorkerStep, FetchJob, ReserveDatum, FindNothing, ProcessDatum, RegisterOutputs,
         UploadOutputs, RecordOutputs, ReportDatum, WorkerGivesUp, Exits
<1> QED
  BY <1>2, <1>3, <1>4 DEF PodDies

(***************************************************************************)
(* Only a complete upload brings a worker to record success, and nothing   *)
(* is ever removed from the bucket.                                        *)
(***************************************************************************)
LEMMA UploadsComeFirst ==
    ASSUME TypeInv, [Next]_vars
    PROVE  /\ bucket \subseteq bucket'
           /\ \A p \in Pods :
                worker'[p].at = "patch_files" /\ worker'[p].outcome = "done" =>
                   \/ worker'[p] = worker[p]
                   \/ Uploadable(worker'[p].datum) \subseteq bucket'
<1>1. worker \in [Pods -> WorkerState]
  BY DEF TypeInv, TypeOK, WorkerTypeOK
<1>2. ASSUME NEW p \in Pods, WorkerStep(p)
      PROVE  /\ bucket \subseteq bucket'
             /\ worker'[p].at = "patch_files" /\ worker'[p].outcome = "done" =>
                  \/ worker'[p] = worker[p]
                  \/ Uploadable(worker'[p].datum) \subseteq bucket'
  <2>1. ASSUME NEW state, Goes(p, state)
        PROVE  worker'[p] = state
    BY <1>1, <2>1 DEF Goes
  <2>2. ASSUME NEW place, MovesTo(p, place)
        PROVE  worker'[p].at = place
    BY <1>1, <2>2 DEF MovesTo, WorkerState
  <2>3. CASE UploadOutputs(p)
    <3>1. CASE /\ bucket' = bucket \cup Uploadable(worker[p].datum)
               /\ Goes(p, [worker[p] EXCEPT !.at = "patch_files", !.outcome = "done"])
      BY <1>1, <2>1, <3>1 DEF WorkerState
    <3>2. CASE /\ bucket \subseteq bucket'
               /\ Goes(p, [worker[p] EXCEPT !.at = "patch_files", !.outcome = "error"])
      BY <1>1, <2>1, <3>2 DEF WorkerState
    <3> QED
      BY <2>3, <3>1, <3>2 DEF UploadOutputs
  <2>4. CASE ~UploadOutputs(p)
    <3>1. UNCHANGED bucket
      BY <1>2, <2>4 DEF WorkerStep, FetchJob, ReserveDatum, FindNothing, ProcessDatum,
         RegisterOutputs, RecordOutputs, ReportDatum, WorkerGivesUp
    <3>2. UNCHANGED worker \/ worker'[p].at # "patch_files"
      <4>1. CASE FetchJob(p) \/ FindNothing(p)
        BY <2>1, <2>2, <4>1 DEF FetchJob, FindNothing, Exits, Idle
      <4>2. CASE ReserveDatum(p)
        <5>1. PICK d \in Datums :
                \/ Goes(p, [Idle EXCEPT !.at = "process", !.datum = d,
                                       !.run = datums'[d].attempted_run_count])
                \/ UNCHANGED worker
          BY <4>2 DEF ReserveDatum
        <5> QED
          BY <2>1, <5>1 DEF Idle
      <4>3. CASE ReportDatum(p)
        BY <2>1, <4>3 DEF ReportDatum, Idle
      <4>4. ASSUME NEW outcome,
                   Goes(p, [worker[p] EXCEPT !.at = "patch_datum", !.outcome = outcome])
            PROVE  worker'[p].at = "patch_datum"
        BY <1>1, <2>1, <4>4 DEF WorkerState
      <4>5. CASE ProcessDatum(p) \/ RecordOutputs(p)
        BY <2>2, <4>4, <4>5 DEF ProcessDatum, RecordOutputs
      <4>6. CASE WorkerGivesUp(p)
        <5>1. CASE Goes(p, [worker[p] EXCEPT !.at = "patch_datum", !.outcome = "error"])
          BY <4>4, <5>1
        <5>2. CASE Exits(p, "failed")
          BY <2>1, <5>2 DEF Exits, Idle
        <5> QED
          BY <4>6, <5>1, <5>2 DEF WorkerGivesUp
      <4>7. CASE RegisterOutputs(p)
        <5>1. CASE UNCHANGED worker
          BY <5>1
        <5>2. CASE Goes(p, [worker[p] EXCEPT
                              !.at = "upload",
                              !.file_runs = RunsOf(worker[p].datum, output_files')])
          BY <1>1, <2>1, <5>2 DEF WorkerState
        <5> QED
          BY <4>7, <5>1, <5>2 DEF RegisterOutputs
      <4> QED
        BY <1>2, <2>4, <4>1, <4>2, <4>3, <4>5, <4>6, <4>7 DEF WorkerStep
    <3> QED
      BY <3>1, <3>2
  <2> QED
    BY <2>3, <2>4
<1>3. ASSUME NEW p \in Pods, PodDies(p)
      PROVE  UNCHANGED bucket /\ worker'[p].at = "job"
  BY <1>1, <1>3 DEF PodDies, Goes, Idle
<1>4. CASE BabysitterActs \/ ClusterActs \/ QuarterHourPasses \/ UNCHANGED vars
  BY <1>4 DEF BabysitterActs, ClusterActs, QuarterHourPasses, vars
<1> QED
  BY <1>2, <1>3, <1>4, WorkersMoveAlone DEF Next, WorkerActs, Ended

(***************************************************************************)
(* A record that says done names an object in the bucket, if no output is  *)
(* a link, which is_file accepts and sync_up skips.                        *)
(***************************************************************************)
THEOREM RecordsNameObjects == Links = {} => (Spec => []DoneFilesAreStored)
<1> SUFFICES ASSUME Links = {}
             PROVE  Spec => []DoneFilesAreStored
  OBVIOUS
<1> DEFINE Inv == SuccessIsUploaded /\ DoneFilesAreStored
<1>1. Init => Inv
  BY DEF Init, StoreInit, WorkerInit, Idle, SuccessIsUploaded, DoneFilesAreStored
<1>2. TypeInv /\ RecordsInv /\ Inv /\ [Next]_vars => Inv'
  <2> SUFFICES ASSUME TypeInv, RecordsInv, Inv, [Next]_vars PROVE Inv'
    OBVIOUS
  <2>1. SuccessIsUploaded'
    <3>1. ASSUME NEW p \in Pods, worker'[p].at = "patch_files", worker'[p].outcome = "done"
          PROVE  Uploadable(worker'[p].datum) \subseteq bucket'
      BY <3>1, UploadsComeFirst DEF SuccessIsUploaded
    <3> QED
      BY <3>1 DEF SuccessIsUploaded, Uploadable
  <2>2. bucket \subseteq bucket' /\ output_files \subseteq OutputFileRow
    BY UploadsComeFirst DEF TypeInv, TypeOK, StoreTypeOK
  <2>3. ASSUME output_files' \subseteq output_files
        PROVE  DoneFilesAreStored'
    BY <2>2, <2>3 DEF DoneFilesAreStored
  <2>4. ASSUME NEW p \in Pods, NEW d \in Datums, NEW status \in {"done", "error"},
               Sends(p, d, status)
        PROVE  DoneFilesAreStored'
    <3>1. CASE CreateOutputFiles(p, d)
      <4>1. \A f \in NewOutputFiles(d) : f.status = "running"
        BY DEF NewOutputFiles
      <4> QED
        BY <2>2, <3>1, <4>1 DEF CreateOutputFiles, DoneFilesAreStored
    <3>2. CASE /\ worker[p].at = "patch_files" /\ worker[p].outcome = status
               /\ PatchOutputFiles(p, d, worker[p].file_runs, status)
      <4>1. ASSUME NEW f \in output_files'
            PROVE  \E g \in output_files :
                     /\ f.uri = g.uri /\ f.datum = g.datum
                     /\ f = g \/ (f.status = status /\ g.datum = d)
        BY <2>2, <3>2, <4>1 DEF PatchOutputFiles, OutputFileRow
      <4>2. status = "done" => OutputUris[d] \subseteq bucket
        BY <2>4, <3>2 DEF SuccessIsUploaded, Uploadable, Sends
      <4>3. \A g \in output_files : g.uri \in OutputUris[g.datum]
        BY DEF RecordsInv, OutputsAreClaimed
      <4> QED
        BY <2>2, <4>1, <4>2, <4>3 DEF DoneFilesAreStored
    <3>3. CASE PatchDatum(p, d, status)
      BY <2>3, <3>3 DEF PatchDatum
    <3> QED
      BY <2>4, <3>1, <3>2, <3>3 DEF Sends
  <2>5. DoneFilesAreStored'
    BY <2>3, <2>4, StepsChangeRows
    DEF RowsChange, ReserveNextDatum, MarkZombie, RerunDatum
  <2> QED
    BY <2>1, <2>5
<1>3. Inv => DoneFilesAreStored
  OBVIOUS
<1> QED
  BY <1>1, <1>2, <1>3, TypesAreKept, RecordsAreKept, PTL DEF Spec

-----------------------------------------------------------------------------
(* Records last, as long as no other babysitter interferes.                *)

\* A record for every output of the datum, all by these runs, or all done.
Registered(d, runs) ==
    /\ {f.uri : f \in FilesOf(d)} = OutputUris[d]
    /\ \A f \in FilesOf(d) : f.run \in runs

Recorded(d) ==
    /\ {f.uri : f \in FilesOf(d)} = OutputUris[d]
    /\ \A f \in FilesOf(d) : f.status = "done"

\* As long as it owns its datum, a worker can rely on the answers it got.
WorkerReliesOn(p) ==
    OwnedBy(worker[p].datum, p) =>
        /\ worker[p].at \in {"upload", "patch_files"} =>
             Registered(worker[p].datum, worker[p].file_runs)
        /\ worker[p].at = "patch_datum" /\ worker[p].outcome = "done" =>
             Recorded(worker[p].datum)

RecordsLast ==
    /\ \A p \in Pods : WorkerReliesOn(p)
    /\ \A d \in Datums : datums[d].status = "done" => Recorded(d)

(***************************************************************************)
(* A worker's step touches no records but those of a datum it owns.        *)
(***************************************************************************)
LEMMA WorkersTouchTheirOwn ==
    ASSUME TypeInv, NEW p \in Pods, WorkerStep(p), NEW d \in Datums
    PROVE  \/ FilesOf(d)' = FilesOf(d)
           \/ /\ OwnedBy(d, p) /\ worker[p].datum = d
              /\ worker[p].at \in {"create", "patch_files"}
<1>1. output_files \subseteq OutputFileRow
  BY DEF TypeInv, TypeOK, StoreTypeOK
<1>2. CASE UNCHANGED output_files
  BY <1>2 DEF FilesOf
<1>3. CASE RegisterOutputs(p)
  <2>1. CreateOutputFiles(p, worker[p].datum) /\ worker[p].at = "create"
    BY <1>3 DEF RegisterOutputs
  <2>2. CASE worker[p].datum = d
    BY <2>1, <2>2 DEF CreateOutputFiles
  <2>3. CASE worker[p].datum # d
    <3>1. \A f \in NewOutputFiles(worker[p].datum) : f.datum # d
      BY <2>3 DEF NewOutputFiles
    <3> QED
      BY <2>1, <3>1 DEF CreateOutputFiles, FilesOf
  <2> QED
    BY <2>2, <2>3
<1>4. CASE RecordOutputs(p)
  <2> DEFINE e == worker[p].datum
             patched(f) == IF f.datum = e /\ f.run \in worker[p].file_runs
                           THEN [f EXCEPT !.status = worker[p].outcome] ELSE f
  <2>1. /\ worker[p].at = "patch_files" /\ OwnedBy(e, p)
        /\ output_files' = {patched(f) : f \in output_files}
    BY <1>4 DEF RecordOutputs, PatchOutputFiles
  <2>2. \A f \in output_files : patched(f).datum = f.datum
    BY <1>1 DEF OutputFileRow
  <2>3. CASE e # d
    <3>1. \A f \in output_files : f.datum = d => patched(f) = f
      BY <2>3
    <3> HIDE DEF patched
    <3> QED
      BY <2>1, <2>2, <3>1 DEF FilesOf
  <2> QED
    BY <2>1, <2>3
<1> QED
  BY <1>2, <1>3, <1>4 DEF WorkerStep, FetchJob, ReserveDatum, ReserveNextDatum, FindNothing,
     ProcessDatum, UploadOutputs, ReportDatum, PatchDatum, WorkerGivesUp, store

(***************************************************************************)
(* Nobody else touches records, but a babysitter those of a datum that can *)
(* be rerun.                                                               *)
(***************************************************************************)
LEMMA OthersTouchFailedDatums ==
    ASSUME TypeInv, ListsAreCurrent, [Next]_vars, ~WorkerActs, NEW d \in Datums
    PROVE  FilesOf(d)' = FilesOf(d) \/ IsRerunable(datums[d])
<1>1. CASE UNCHANGED output_files
  BY <1>1 DEF FilesOf
<1>2. ASSUME NEW b \in Babysitters, Rerun(b)
      PROVE  FilesOf(d)' = FilesOf(d) \/ IsRerunable(datums[d])
  <2>1. PICK e \in babysitter[b].todo : RerunDatum(e)
    BY <1>2 DEF Rerun
  <2>2. IsRerunable(datums[e])
    BY <1>2 DEF Rerun, ListsAreCurrent, IsCurrent
  <2> QED
    BY <2>1, <2>2 DEF RerunDatum, FilesOf
<1>3. CASE BabysitterActs
  BY <1>1, <1>2, <1>3 DEF BabysitterActs, BabysitterStep, FindRunningJob, GetJobInfos,
     CheckJob, ReadRunningDatums, FindZombies, FailZombie, MarkZombie, CloseJob,
     UpdateStatusIfDone, ReadRerunable, AbandonPass, store
<1> QED
  BY <1>1, <1>3 DEF Next, ClusterActs, QuarterHourPasses, PodDies, Ended, vars, store

(***************************************************************************)
(* A pod becomes the owner of a datum by a reservation of its worker.      *)
(***************************************************************************)
LEMMA OwnersReserve ==
    ASSUME TypeInv, [Next]_vars, NEW q \in Pods, NEW d \in Datums, OwnedBy(d, q)'
    PROVE  OwnedBy(d, q) \/ worker[q].at = "reserve"
<1>1. datums \in [Datums -> DatumRow]
  BY DEF TypeInv, TypeOK, StoreTypeOK
<1>2. CASE UNCHANGED datums
  BY <1>2 DEF OwnedBy
<1>3. ASSUME NEW p \in Pods, ReserveDatum(p)
      PROVE  OwnedBy(d, q) \/ worker[q].at = "reserve"
  BY <1>1, <1>3 DEF ReserveDatum, ReserveNextDatum, OwnedBy, DatumRow
<1>4. ASSUME NEW p \in Pods, ReportDatum(p)
      PROVE  OwnedBy(d, q)
  BY <1>1, <1>4 DEF ReportDatum, PatchDatum, DatumMarked, OwnedBy, DatumRow
<1>5. CASE WorkerActs
  BY <1>2, <1>3, <1>4, <1>5 DEF WorkerActs, WorkerStep, FetchJob, FindNothing,
     ProcessDatum, RegisterOutputs, CreateOutputFiles, UploadOutputs, RecordOutputs,
     PatchOutputFiles, WorkerGivesUp, store
<1>6. CASE BabysitterActs
  <2>1. UNCHANGED datums \/ \E e \in Datums : MarkZombie(e) \/ RerunDatum(e)
    BY <1>6, BabysittersFailOrFreeDatums DEF BabysitterActs
  <2> QED
    BY <1>1, <1>2, <2>1 DEF MarkZombie, RerunDatum, DatumMarked, OwnedBy, DatumRow
<1> QED
  BY <1>2, <1>5, <1>6 DEF Next, ClusterActs, QuarterHourPasses, PodDies, Ended, vars, store

(***************************************************************************)
(* Most steps take a worker to a place where it relies on no records.      *)
(***************************************************************************)
Careless(state) ==
    /\ state.at \notin {"upload", "patch_files"}
    /\ state.at = "patch_datum" => state.outcome = "error"

(***************************************************************************)
(* Whoever gives up, fails, leaves or has yet to register is careless.     *)
(***************************************************************************)
LEMMA CarelessWorkers ==
    ASSUME TypeInv, NEW p \in Pods,
           \/ FetchJob(p) \/ ReserveDatum(p) \/ FindNothing(p) \/ ProcessDatum(p)
           \/ WorkerGivesUp(p) \/ PodDies(p)
    PROVE  Careless(worker'[p])
<1>1. worker \in [Pods -> WorkerState]
  BY DEF TypeInv, TypeOK, WorkerTypeOK
<1>2. ASSUME NEW state, Goes(p, state), Careless(state)
      PROVE  Careless(worker'[p])
  BY <1>1, <1>2 DEF Goes
<1>3. ASSUME NEW place \in {"job", "reserve", "job_again", "create"}, MovesTo(p, place)
      PROVE  Careless(worker'[p])
  BY <1>1, <1>3 DEF MovesTo, WorkerState, Careless
<1>4. ASSUME Goes(p, [worker[p] EXCEPT !.at = "patch_datum", !.outcome = "error"])
      PROVE  Careless(worker'[p])
  <2>1. worker'[p] = [worker[p] EXCEPT !.at = "patch_datum", !.outcome = "error"]
    BY <1>1, <1>4 DEF Goes
  <2> QED
    BY <1>1, <2>1 DEF WorkerState, Careless
<1>5. Careless(Idle)
  BY DEF Careless, Idle
<1>6. CASE FetchJob(p) \/ FindNothing(p)
  BY <1>2, <1>3, <1>5, <1>6 DEF FetchJob, FindNothing, Exits
<1>7. CASE ReserveDatum(p)
  <2>1. PICK d \in Datums :
          \/ Goes(p, [Idle EXCEPT !.at = "process", !.datum = d,
                                  !.run = datums'[d].attempted_run_count])
          \/ UNCHANGED worker
    BY <1>7 DEF ReserveDatum
  <2>2. CASE UNCHANGED worker
    BY <1>7, <2>2 DEF ReserveDatum, Careless
  <2>3. CASE Goes(p, [Idle EXCEPT !.at = "process", !.datum = d,
                                  !.run = datums'[d].attempted_run_count])
    <3>1. worker'[p].at = "process"
      BY <1>1, <2>3 DEF Goes, Idle
    <3> QED
      BY <3>1 DEF Careless
  <2> QED
    BY <2>1, <2>2, <2>3
<1>8. CASE ProcessDatum(p)
  BY <1>3, <1>4, <1>8 DEF ProcessDatum
<1>9. CASE WorkerGivesUp(p)
  BY <1>2, <1>4, <1>5, <1>9 DEF WorkerGivesUp, Exits
<1>10. CASE PodDies(p)
  BY <1>2, <1>5, <1>10 DEF PodDies
<1> QED
  BY <1>6, <1>7, <1>8, <1>9, <1>10

(***************************************************************************)
(* The answers of create_output_files and patch_output_files are what the  *)
(* worker relies on afterwards.                                            *)
(***************************************************************************)
LEMMA WorkersRelyOnAnswers ==
    ASSUME TypeInv, NEW p \in Pods, WorkerStep(p), WorkerReliesOn(p)
    PROVE  WorkerReliesOn(p)'
<1>0. PICK d : d = worker[p].datum
  OBVIOUS
<1>1. /\ worker \in [Pods -> WorkerState] /\ worker[p] \in WorkerState
      /\ output_files \subseteq OutputFileRow /\ datums \in [Datums -> DatumRow]
  BY DEF TypeInv, TypeOK, WorkerTypeOK, StoreTypeOK
<1>2. ASSUME NEW state, Goes(p, state)
      PROVE  worker'[p] = state
  BY <1>1, <1>2 DEF Goes
<1>3. CASE Careless(worker'[p])
  BY <1>3 DEF Careless, WorkerReliesOn
<1>4. CASE RegisterOutputs(p)
  <2>1. CreateOutputFiles(p, d) /\ worker[p].at = "create"
    BY <1>0, <1>4 DEF RegisterOutputs
  <2>2. CASE UNCHANGED worker
    BY <2>1, <2>2 DEF WorkerReliesOn
  <2>3. CASE Goes(p, [worker[p] EXCEPT !.at = "upload",
                                       !.file_runs = RunsOf(d, output_files')])
    <3>1. /\ worker'[p].at = "upload" /\ worker'[p].datum = d
          /\ worker'[p].file_runs = RunsOf(d, output_files')
      BY <1>0, <1>1, <1>2, <2>3 DEF WorkerState
    <3>2. {f.uri : f \in FilesOf(d)'} = OutputUris[d]
      <4>1. CASE UNCHANGED output_files /\ {f.uri : f \in FilesOf(d)} = OutputUris[d]
        BY <4>1 DEF FilesOf
      <4>2. CASE FilesOf(d) = {} /\ output_files' = output_files \cup NewOutputFiles(d)
        <5>1. FilesOf(d)' = NewOutputFiles(d)
          BY <4>2 DEF FilesOf, NewOutputFiles
        <5>2. {f.uri : f \in NewOutputFiles(d)} = OutputUris[d]
          <6>1. \A f \in NewOutputFiles(d) : f.uri \in OutputUris[d]
            BY DEF NewOutputFiles
          <6>2. ASSUME NEW u \in OutputUris[d]
                PROVE  \E f \in NewOutputFiles(d) : f.uri = u
            <7> DEFINE f == [uri |-> u, datum |-> d, status |-> "running",
                             run |-> datums[d].attempted_run_count]
            <7>1. f \in NewOutputFiles(d)
              BY DEF NewOutputFiles
            <7> QED
              BY <7>1
          <6> QED
            BY <6>1, <6>2
        <5> QED
          BY <5>1, <5>2
      <4> QED
        BY <2>1, <4>1, <4>2 DEF CreateOutputFiles
    <3>3. \A f \in FilesOf(d)' : f.run \in RunsOf(d, output_files')
      BY DEF FilesOf, RunsOf
    <3> QED
      BY <3>1, <3>2, <3>3 DEF WorkerReliesOn, Registered, FilesOf
  <2> QED
    BY <1>0, <1>4, <2>2, <2>3 DEF RegisterOutputs
<1>5. CASE UploadOutputs(p)
  <2>1. PICK outcome \in {"done", "error"} :
          Goes(p, [worker[p] EXCEPT !.at = "patch_files", !.outcome = outcome])
    BY <1>5 DEF UploadOutputs
  <2>2. worker'[p] = [worker[p] EXCEPT !.at = "patch_files", !.outcome = outcome]
    BY <1>2, <2>1
  <2>3. /\ worker'[p].at = "patch_files" /\ worker'[p].datum = d
        /\ worker'[p].file_runs = worker[p].file_runs
    BY <1>0, <1>1, <2>2 DEF WorkerState
  <2>4. worker[p].at = "upload" /\ UNCHANGED <<datums, output_files>>
    BY <1>5 DEF UploadOutputs, store
  <2> QED
    BY <1>0, <2>3, <2>4 DEF WorkerReliesOn, OwnedBy, Registered, FilesOf
<1>6. CASE RecordOutputs(p)
  <2> DEFINE patched(f) == IF f.datum = d /\ f.run \in worker[p].file_runs
                           THEN [f EXCEPT !.status = worker[p].outcome] ELSE f
  <2>1. /\ worker[p].at = "patch_files" /\ OwnedBy(d, p)
        /\ output_files' = {patched(f) : f \in output_files}
    BY <1>0, <1>6 DEF RecordOutputs, PatchOutputFiles
  <2>2. Registered(d, worker[p].file_runs)
    BY <1>0, <2>1 DEF WorkerReliesOn
  <2>3. \A f \in output_files :
          /\ patched(f).datum = f.datum /\ patched(f).uri = f.uri
          /\ patched(f).run = f.run
          /\ f \in FilesOf(d) => patched(f).status = worker[p].outcome
    BY <1>1, <2>2 DEF OutputFileRow, Registered, FilesOf
  <2> HIDE DEF patched
  <2>4. FilesOf(d)' = {patched(f) : f \in FilesOf(d)}
    BY <2>1, <2>3 DEF FilesOf
  <2>5. FilesOf(d) \subseteq output_files
    BY DEF FilesOf
  <2>6. {f.uri : f \in FilesOf(d)'} = OutputUris[d]
    BY <2>2, <2>3, <2>4, <2>5 DEF Registered
  <2>7. \A f \in FilesOf(d)' : f.run \in worker[p].file_runs /\ f.status = worker[p].outcome
    BY <2>2, <2>3, <2>4, <2>5 DEF Registered
  <2>8. CASE UNCHANGED worker
    BY <1>0, <2>1, <2>6, <2>7, <2>8 DEF WorkerReliesOn, Registered, FilesOf
  <2>9. CASE MovesTo(p, "patch_datum")
    <3>1. /\ worker'[p].at = "patch_datum" /\ worker'[p].datum = d
          /\ worker'[p].outcome = worker[p].outcome
      BY <1>0, <1>1, <2>9 DEF MovesTo, WorkerState
    <3> QED
      BY <2>6, <2>7, <3>1 DEF WorkerReliesOn, Recorded, FilesOf
  <2>10. CASE Goes(p, [worker[p] EXCEPT !.at = "patch_datum", !.outcome = "error"])
    <3>1. worker'[p] = [worker[p] EXCEPT !.at = "patch_datum", !.outcome = "error"]
      BY <1>2, <2>10
    <3> QED
      BY <1>1, <1>3, <3>1 DEF WorkerState, Careless
  <2> QED
    BY <1>6, <2>8, <2>9, <2>10 DEF RecordOutputs
<1>7. CASE ReportDatum(p)
  <2>1. CASE UNCHANGED worker
    <3>1. d \in Datums
      BY <1>0, <1>7 DEF ReportDatum, TypeInv, BusyWorkersHoldDatums, Busy
    <3>2. datums'[d].status = worker[p].outcome
      BY <1>0, <1>1, <1>7, <3>1 DEF ReportDatum, PatchDatum, DatumMarked, DatumRow
    <3>3. worker[p].outcome # "running"
      BY <1>1 DEF WorkerState
    <3> QED
      BY <1>0, <2>1, <3>2, <3>3 DEF WorkerReliesOn, OwnedBy
  <2>2. CASE Goes(p, Idle)
    BY <1>2, <1>3, <2>2 DEF Idle, Careless
  <2> QED
    BY <1>7, <2>1, <2>2 DEF ReportDatum
<1> QED
  BY <1>3, <1>4, <1>5, <1>6, <1>7, CarelessWorkers DEF WorkerStep

(***************************************************************************)
(* A worker that does not move can go on relying on its answers.           *)
(***************************************************************************)
LEMMA OthersLeaveAnswers ==
    ASSUME TypeInv, [Next]_vars, NEW q \in Pods, worker'[q] = worker[q],
           WorkerReliesOn(q),
           \A d \in Datums : OwnedBy(d, q) => FilesOf(d)' = FilesOf(d)
    PROVE  WorkerReliesOn(q)'
<1>1. PICK d : d = worker[q].datum
  OBVIOUS
<1>2. SUFFICES ASSUME OwnedBy(d, q)',
                      worker[q].at \in {"upload", "patch_files", "patch_datum"}
               PROVE  WorkerReliesOn(q)'
  BY <1>1 DEF WorkerReliesOn
<1>3. d \in Datums
  BY <1>1, <1>2 DEF TypeInv, BusyWorkersHoldDatums, Busy
<1>4. OwnedBy(d, q)
  BY <1>2, <1>3, OwnersReserve
<1>5. FilesOf(d)' = FilesOf(d)
  BY <1>3, <1>4
<1> QED
  BY <1>1, <1>4, <1>5 DEF WorkerReliesOn, Registered, Recorded

(***************************************************************************)
(* A datum becomes done by the report of a worker that has recorded its    *)
(* outputs.                                                                *)
(***************************************************************************)
LEMMA ReportsComeLast ==
    ASSUME TypeInv, RecordsLast, [Next]_vars, NEW d \in Datums, datums'[d].status = "done"
    PROVE  Recorded(d) /\ (datums[d].status = "done" \/ FilesOf(d)' = FilesOf(d))
<1>1. datums \in [Datums -> DatumRow]
  BY DEF TypeInv, TypeOK, StoreTypeOK
<1>2. CASE datums[d].status = "done"
  BY <1>2 DEF RecordsLast
<1>3. CASE datums[d].status # "done"
  <2>1. ASSUME NEW p \in Pods, NEW e \in Datums, ReserveNextDatum(p, e)
        PROVE  FALSE
    BY <1>1, <1>3, <2>1 DEF ReserveNextDatum, DatumRow
  <2>2. ASSUME NEW e \in Datums, MarkZombie(e) \/ RerunDatum(e)
        PROVE  FALSE
    BY <1>1, <1>3, <2>2 DEF MarkZombie, RerunDatum, DatumMarked, DatumRow
  <2>3. PICK p \in Pods, e \in Datums, status \in {"done", "error"} : Sends(p, e, status)
    BY <1>3, <2>1, <2>2, StepsChangeRows DEF RowsChange
  <2>4. /\ worker[p].at = "patch_datum" /\ worker[p].outcome = status
        /\ worker[p].datum = e /\ PatchDatum(p, e, status)
    BY <1>3, <2>3 DEF Sends, CreateOutputFiles, PatchOutputFiles
  <2>5. e = d /\ status = "done" /\ OwnedBy(d, p)
    BY <1>1, <1>3, <2>4 DEF PatchDatum, DatumMarked, DatumRow
  <2>6. Recorded(d)
    BY <2>4, <2>5 DEF RecordsLast, WorkerReliesOn
  <2>7. FilesOf(d)' = FilesOf(d)
    BY <2>4 DEF PatchDatum, FilesOf
  <2> QED
    BY <2>6, <2>7
<1> QED
  BY <1>2, <1>3

(***************************************************************************)
(* What create_output_files and patch_output_files have recorded lasts     *)
(* until the datum is done and after.                                      *)
(***************************************************************************)
THEOREM RecordsAreLasting == SingleBabysitter => (Spec => []RecordsLast)
<1> SUFFICES ASSUME SingleBabysitter
             PROVE  Spec => []RecordsLast
  OBVIOUS
<1>1. Init => RecordsLast
  BY DEF Init, StoreInit, WorkerInit, Idle, RecordsLast, WorkerReliesOn
<1>2. TypeInv /\ ListsAreCurrent /\ RecordsLast /\ [Next]_vars => RecordsLast'
  <2> SUFFICES ASSUME TypeInv, ListsAreCurrent, RecordsLast, [Next]_vars
               PROVE  RecordsLast'
    OBVIOUS
  <2>1. \A p \in Pods : WorkerReliesOn(p)
    BY DEF RecordsLast
  <2>2. ASSUME NEW d \in Datums, datums'[d].status = "done",
               datums[d].status = "done" => FilesOf(d)' = FilesOf(d)
        PROVE  Recorded(d)'
    BY <2>2, ReportsComeLast DEF Recorded
  <2>3. ASSUME NEW p \in Pods, WorkerStep(p)
        PROVE  RecordsLast'
    <3>1. WorkerReliesOn(p)'
      BY <2>1, <2>3, WorkersRelyOnAnswers
    <3>2. ASSUME NEW q \in Pods \ {p}
          PROVE  WorkerReliesOn(q)'
      <4>1. \A d \in Datums : OwnedBy(d, q) => FilesOf(d)' = FilesOf(d)
        BY <2>3, <3>2, WorkersTouchTheirOwn DEF OwnedBy
      <4> QED
        BY <2>1, <2>3, <3>2, <4>1, WorkersMoveAlone, OthersLeaveAnswers
    <3>3. \A d \in Datums : datums[d].status = "done" => FilesOf(d)' = FilesOf(d)
      BY <2>3, WorkersTouchTheirOwn DEF OwnedBy
    <3> QED
      BY <2>2, <3>1, <3>2, <3>3 DEF RecordsLast
  <2>4. CASE ~WorkerActs
    <3>1. \A d \in Datums : IsRerunable(datums[d]) \/ FilesOf(d)' = FilesOf(d)
      BY <2>4, OthersTouchFailedDatums
    <3>2. \A d \in Datums : datums[d].status = "done" => FilesOf(d)' = FilesOf(d)
      BY <3>1 DEF IsRerunable
    <3>3. ASSUME NEW q \in Pods
          PROVE  WorkerReliesOn(q)'
      <4>1. CASE worker'[q] = worker[q]
        <5>1. \A d \in Datums : OwnedBy(d, q) => FilesOf(d)' = FilesOf(d)
          BY <3>1 DEF IsRerunable, OwnedBy
        <5> QED
          BY <2>1, <4>1, <5>1, OthersLeaveAnswers
      <4>2. CASE worker'[q] # worker[q]
        <5>1. PodDies(q)
          BY <2>4, <4>2, WorkersMoveAlone
          DEF Next, BabysitterActs, ClusterActs, QuarterHourPasses, Ended, vars
        <5>2. Careless(worker'[q])
          BY <5>1, CarelessWorkers
        <5> QED
          BY <5>2 DEF Careless, WorkerReliesOn
      <4> QED
        BY <4>1, <4>2
    <3> QED
      BY <2>2, <3>2, <3>3 DEF RecordsLast
  <2> QED
    BY <2>3, <2>4 DEF WorkerActs
<1> QED
  BY <1>1, <1>2, TypesAreKept, ListsStayCurrent, PTL DEF Spec

(***************************************************************************)
(* A done datum has a done record for every output.                        *)
(***************************************************************************)
THEOREM DoneDatumsAreRecorded == SingleBabysitter => (Spec => []DoneDatumsKeepOutputs)
<1> SUFFICES ASSUME SingleBabysitter
             PROVE  Spec => []DoneDatumsKeepOutputs
  OBVIOUS
<1>1. RecordsLast => DoneDatumsKeepOutputs
  <2> SUFFICES ASSUME RecordsLast, NEW d \in Datums, datums[d].status = "done"
               PROVE  {f.uri : f \in {g \in FilesOf(d) : g.status = "done"}} = OutputUris[d]
    BY DEF DoneDatumsKeepOutputs
  <2>1. Recorded(d)
    BY DEF RecordsLast
  <2>2. {g \in FilesOf(d) : g.status = "done"} = FilesOf(d)
    BY <2>1 DEF Recorded
  <2> QED
    BY <2>1, <2>2 DEF Recorded
<1> QED
  BY <1>1, RecordsAreLasting, PTL

(***************************************************************************)
(* No two done datums have an output in common: both would have a record   *)
(* of it, and a record is claimed by one.                                  *)
(***************************************************************************)
THEOREM DoneDatumsAreApart == SingleBabysitter => (Spec => []DoneDatumsShareNoOutput)
<1> SUFFICES ASSUME SingleBabysitter
             PROVE  Spec => []DoneDatumsShareNoOutput
  OBVIOUS
<1>1. RecordsLast /\ RecordsInv => DoneDatumsShareNoOutput
  <2> SUFFICES ASSUME RecordsLast, RecordsInv, NEW d \in Datums, NEW e \in Datums,
                      datums[d].status = "done", datums[e].status = "done",
                      NEW u \in OutputUris[d] \cap OutputUris[e]
               PROVE  d = e
    BY DEF DoneDatumsShareNoOutput
  <2>1. Recorded(d) /\ Recorded(e)
    BY DEF RecordsLast
  <2>2. PICK f \in FilesOf(d) : f.uri = u
    BY <2>1 DEF Recorded
  <2>3. PICK g \in FilesOf(e) : g.uri = u
    BY <2>1 DEF Recorded
  <2>4. f.datum = d /\ g.datum = e /\ f \in output_files /\ g \in output_files
    BY <2>2, <2>3 DEF FilesOf
  <2> QED
    BY <2>2, <2>3, <2>4 DEF RecordsInv, OutputsAreClaimed
<1> QED
  BY <1>1, RecordsAreLasting, RecordsAreKept, PTL
=============================================================================
