---------------------------- MODULE ClusterProofs ----------------------------
(***************************************************************************)
(* Theorems about what falconeri believes of the cluster: that a failure   *)
(* is real, that workers leave together, that a babysitter which has no    *)
(* competitor acts on lists that are still true, and that the job is one   *)
(* of those that Jobs speaks of, however many babysitters there are.       *)
(***************************************************************************)
EXTENDS FalconeriProofs, PipelineJob

-----------------------------------------------------------------------------
(* What a worker's step does to the rows.                                  *)

(***************************************************************************)
(* A worker takes a ready datum or finishes one that runs.                 *)
(***************************************************************************)
TakenOrFinished(d) ==
    \/ datums'[d] = datums[d]
    \/ /\ datums[d].status = "ready"
       /\ datums'[d].status = "running"
       /\ \E p \in Pods : datums'[d].pod_name = p /\ Executes(p)
    \/ /\ datums[d].status = "running"
       /\ datums'[d].status \in {"done", "error"}
       /\ datums'[d].pod_name = datums[d].pod_name

(***************************************************************************)
(* Workers leave every other datum alone, and close the job at most.       *)
(***************************************************************************)
LEMMA WorkersTakeOrFinish ==
    ASSUME TypeInv, NEW p \in Pods, WorkerStep(p)
    PROVE  /\ \A d \in Datums : TakenOrFinished(d)
           /\ UNCHANGED job \/ job' = JobIfDone(datums')
<1>1. datums \in [Datums -> DatumRow] /\ Executes(p)
  BY DEF TypeInv, TypeOK, StoreTypeOK, WorkerStep
<1>2. CASE ReserveDatum(p)
  <2>1. PICK e \in Datums : ReserveNextDatum(p, e)
    BY <1>2 DEF ReserveDatum
  <2> QED
    BY <1>1, <2>1 DEF ReserveNextDatum, TakenOrFinished, DatumRow
<1>3. CASE ReportDatum(p)
  <2>1. worker[p].datum \in Datums /\ worker[p].outcome \in {"done", "error"}
    BY <1>3 DEF ReportDatum, TypeInv, TypeOK, BusyWorkersHoldDatums, Busy, WorkerTypeOK,
                WorkerState
  <2> QED
    BY <1>1, <1>3, <2>1
    DEF ReportDatum, PatchDatum, OwnedBy, DatumMarked, TakenOrFinished, DatumRow
<1>4. CASE ~ReserveDatum(p) /\ ~ReportDatum(p)
  BY <1>4 DEF WorkerStep, FetchJob, FindNothing, ProcessDatum, RegisterOutputs,
     CreateOutputFiles, UploadOutputs, RecordOutputs, PatchOutputFiles, WorkerGivesUp,
     store, TakenOrFinished
<1> QED
  BY <1>2, <1>3, <1>4

(***************************************************************************)
(* What a step of a worker does to the pods: its own may end.              *)
(***************************************************************************)
LEMMA WorkersOnlyExit ==
    ASSUME NEW p \in Pods, WorkerStep(p)
    PROVE  \/ UNCHANGED pods
           \/ pods' = [pods EXCEPT ![p] = "failed"]
           \/ pods' = [pods EXCEPT ![p] = "succeeded"] /\ job.status # "running"
BY DEF WorkerStep, FetchJob, ReserveDatum, FindNothing, ProcessDatum, RegisterOutputs,
       UploadOutputs, RecordOutputs, ReportDatum, WorkerGivesUp, Exits, cluster

(***************************************************************************)
(* ... and no worker touches the Kubernetes Job.                           *)
(***************************************************************************)
LEMMA WorkersKeepTheJob ==
    ASSUME NEW p \in Pods, WorkerStep(p)
    PROVE  UNCHANGED <<k8s_job, past_cutoff>>
BY DEF WorkerStep, FetchJob, ReserveDatum, FindNothing, ProcessDatum, RegisterOutputs,
       UploadOutputs, RecordOutputs, ReportDatum, WorkerGivesUp, Exits, cluster

(***************************************************************************)
(* A babysitter only looks at the cluster.                                 *)
(***************************************************************************)
LEMMA BabysittersOnlyLook ==
    ASSUME NEW b \in Babysitters, BabysitterStep(b)
    PROVE  UNCHANGED cluster
BY DEF BabysitterStep, FindRunningJob, GetJobInfos, CheckJob, ReadRunningDatums,
       FindZombies, FailZombie, CloseJob, ReadRerunable, Rerun, AbandonPass

-----------------------------------------------------------------------------
(* Workers leave together.                                                 *)

(***************************************************************************)
(* No worker exits with status 0 before the job has finished, so           *)
(* Kubernetes does not complete the Job before either.                     *)
(***************************************************************************)
THEOREM WorkersLeaveOnlyTogether == Spec => []WorkersLeaveTogether
<1> DEFINE NobodyLeft == k8s_job # "complete" /\ \A p \in Pods : pods[p] # "succeeded"
<1>1. Init => WorkersLeaveTogether
  BY DEF Init, ClusterInit, WorkersLeaveTogether
<1>2. ASSUME TypeInv, VerdictInv, WorkersLeaveTogether, [Next]_vars
      PROVE  WorkersLeaveTogether'
  <2> USE DEF WorkersLeaveTogether
  <2>1. CASE HasFinished(job.status)
    <3>1. UNCHANGED job
      BY <1>2, <2>1, StepsAreTransactions, TransactionsKeepVerdicts
    <3> QED
      BY <2>1, <3>1
  <2>2. CASE ~HasFinished(job.status)
    <3>1. job.status = "running" /\ NobodyLeft
      BY <1>2, <2>2 DEF VerdictInv, NothingIsCanceled, HasFinished
    <3>2. pods \in [Pods -> {"none", "running", "lost", "succeeded", "failed"}]
      BY <1>2 DEF TypeInv, TypeOK, ClusterTypeOK
    <3>3. ASSUME NEW p \in Pods, WorkerStep(p)
          PROVE  NobodyLeft'
      BY <3>1, <3>2, <3>3, WorkersOnlyExit, WorkersKeepTheJob
    <3>4. CASE BabysitterActs
      BY <3>1, <3>4, BabysittersOnlyLook DEF BabysitterActs, cluster
    <3>5. CASE ClusterActs \/ QuarterHourPasses \/ \E p \in Pods : PodDies(p)
      BY <3>1, <3>2, <3>5 DEF ClusterActs, ApplyJob, ApplyNever, StartPod, PodIsLost,
         JobCompletes, JobFails, JobIsDeleted, QuarterHourPasses, CutoffPasses, PodDies,
         PodFails
    <3>6. CASE UNCHANGED vars
      BY <3>1, <3>6 DEF vars, cluster
    <3> QED
      BY <1>2, <3>3, <3>4, <3>5, <3>6 DEF Next, WorkerActs, Ended
  <2> QED
    BY <2>1, <2>2
<1> QED
  BY <1>1, <1>2, TypesAreKept, VerdictsHold, PTL DEF Spec

-----------------------------------------------------------------------------
(* A failure is real.                                                      *)

\* What a babysitter has been told of a failed Job, and the age of a job that
\* is not listed, stay true.
FailuresLast ==
    /\ past_cutoff => k8s_job = "missing"
    /\ \A b \in Babysitters :
         babysitter[b].job_info = "failed" => k8s_job \in {"failed", "missing"}

(***************************************************************************)
(* A Job that has failed or vanished does not come back.                   *)
(***************************************************************************)
LEMMA ClusterKeepsFailures ==
    ASSUME [Next]_vars
    PROVE  /\ k8s_job = "missing" => k8s_job' = "missing"
           /\ k8s_job \in {"failed", "missing"} => k8s_job' \in {"failed", "missing"}
           /\ past_cutoff' => past_cutoff \/ k8s_job = "missing"
<1>1. CASE WorkerActs
  BY <1>1, WorkersKeepTheJob DEF WorkerActs
<1>2. CASE BabysitterActs
  BY <1>2, BabysittersOnlyLook DEF BabysitterActs, cluster
<1>3. CASE ClusterActs
  BY <1>3 DEF ClusterActs, ApplyJob, ApplyNever, StartPod, PodIsLost, JobCompletes,
     JobFails, JobIsDeleted
<1>4. CASE QuarterHourPasses
  BY <1>4 DEF QuarterHourPasses, CutoffPasses
<1>5. CASE UNCHANGED vars \/ \E p \in Pods : PodDies(p)
  BY <1>5 DEF PodDies, PodFails, vars, cluster
<1> QED
  BY <1>1, <1>2, <1>3, <1>4, <1>5 DEF Next, Ended

(***************************************************************************)
(* What a pass has been told of the Job comes from one listing.            *)
(***************************************************************************)
LEMMA PassesForget ==
    ASSUME TypeInv, NEW b \in Babysitters, BabysitterStep(b), NEW c \in Babysitters
    PROVE  babysitter'[c].job_info \in {babysitter[c].job_info, "healthy", JobInfo}
<1>1. babysitter \in [Babysitters -> BabysitterState] /\ Asleep.job_info = "healthy"
  BY DEF TypeInv, TypeOK, BabysitterTypeOK, Asleep
<1>2. ASSUME NEW state, Becomes(b, state), state.job_info \in {"healthy", JobInfo}
      PROVE  babysitter'[c].job_info \in {babysitter[c].job_info, "healthy", JobInfo}
  BY <1>1, <1>2 DEF Becomes
<1>3. ASSUME NEW stage, NEW todo, NEW next, Continue(b, stage, todo, next)
      PROVE  babysitter'[c].job_info \in {babysitter[c].job_info, "healthy", JobInfo}
  BY <1>2, <1>3 DEF Continue, Asleep
<1>4. CASE \/ FindRunningJob(b) \/ GetJobInfos(b) \/ CheckJob(b) \/ ReadRunningDatums(b)
           \/ FailZombie(b) \/ AbandonPass(b)
  BY <1>2, <1>4 DEF FindRunningJob, GetJobInfos, CheckJob, ReadRunningDatums, FailZombie,
     AbandonPass, Asleep
<1>5. CASE FindZombies(b) \/ CloseJob(b) \/ ReadRerunable(b) \/ Rerun(b)
  BY <1>3, <1>5 DEF FindZombies, CloseJob, ReadRerunable, Rerun
<1> QED
  BY <1>4, <1>5 DEF BabysitterStep

(***************************************************************************)
(* A message in the job's row means that the Kubernetes Job has failed or  *)
(* is gone, not that it has yet to come.                                   *)
(***************************************************************************)
THEOREM FailuresAreReal == Spec => []JobFailureIsReal
<1> DEFINE Inv == FailuresLast /\ JobFailureIsReal
<1>1. Init => Inv
  BY DEF Init, StoreInit, ClusterInit, BabysitterInit, Asleep, FailuresLast,
         JobFailureIsReal
<1>2. ASSUME TypeInv, Inv, [Next]_vars
      PROVE  Inv'
  <2> USE DEF FailuresLast, JobFailureIsReal
  <2>1. job \in JobRow
    BY <1>2 DEF TypeInv, TypeOK, StoreTypeOK
  <2>2. \A rows : JobIfDone(rows).error_message = job.error_message
    BY <2>1 DEF JobIfDone, JobRow
  <2>3. \A b \in Babysitters :
          babysitter'[b].job_info = "failed" =>
             babysitter[b].job_info = "failed" \/ k8s_job = "failed"
    <3>1. CASE UNCHANGED babysitter
      BY <3>1
    <3>2. CASE BabysitterActs
      BY <1>2, <3>2, PassesForget DEF BabysitterActs, JobInfo
    <3> QED
      BY <1>2, <3>1, <3>2 DEF Next, WorkerActs, PodDies, ClusterActs, QuarterHourPasses,
                              Ended, vars
  <2>4. FailuresLast'
    BY <1>2, <2>3, ClusterKeepsFailures
  <2>5. job'.error_message => job.error_message \/ k8s_job \in {"failed", "missing"}
    <3>1. ASSUME NEW b \in Babysitters, CheckJob(b)
          PROVE  job'.error_message => job.error_message \/ k8s_job \in {"failed", "missing"}
      BY <1>2, <2>2, <3>1 DEF CheckJob, FinishOrFailJob, IsFailure
    <3>2. CASE UNCHANGED job \/ \E rows : job' = JobIfDone(rows)
      BY <2>2, <3>2
    <3>3. ASSUME NEW b \in Babysitters, BabysitterStep(b), ~CheckJob(b)
          PROVE  UNCHANGED job \/ \E rows : job' = JobIfDone(rows)
      BY <3>3 DEF BabysitterStep, FindRunningJob, GetJobInfos, ReadRunningDatums,
         FindZombies, FailZombie, MarkZombie, CloseJob, UpdateStatusIfDone, ReadRerunable,
         Rerun, RerunDatum, AbandonPass, store
    <3>4. CASE WorkerActs
      BY <1>2, <3>2, <3>4, WorkersTakeOrFinish DEF WorkerActs
    <3>5. CASE BabysitterActs
      BY <3>1, <3>2, <3>3, <3>5 DEF BabysitterActs
    <3>6. CASE \/ ClusterActs \/ QuarterHourPasses \/ UNCHANGED vars
               \/ \E p \in Pods : PodDies(p)
      BY <3>2, <3>6 DEF ClusterActs, QuarterHourPasses, PodDies, vars, store
    <3> QED
      BY <1>2, <3>4, <3>5, <3>6 DEF Next, Ended
  <2> QED
    BY <1>2, <2>4, <2>5, ClusterKeepsFailures
<1> QED
  BY <1>1, <1>2, TypesAreKept, PTL DEF Spec

-----------------------------------------------------------------------------
(* A babysitter without a competitor.                                      *)

\* One falconerid process, as development deploys it (deploy.rs, replicas).
SingleBabysitter == \A a, b \in Babysitters : a = b

\* A datum's pod is one that Kubernetes has started.
OwnersHaveStarted ==
    \A d \in Datums, p \in Pods : datums[d].pod_name = p => pods[p] # "none"

(***************************************************************************)
(* What a pass has read and not yet acted on is still true: suspects have  *)
(* not moved to another pod, zombies have no running pod, and what is to   *)
(* be rerun can be, in a job that runs.                                    *)
(***************************************************************************)
IsCurrent(pass) ==
    /\ pass.at = "pods" =>
         \A s \in pass.suspects :
            /\ datums[s[1]].status # "ready"
            /\ datums[s[1]].status = "running" => datums[s[1]].pod_name = s[2]
    /\ pass.at \in {"zombies", "close_job"} =>
         \A d \in pass.todo :
            /\ datums[d].status # "ready"
            /\ \A p \in Pods : OwnedBy(d, p) => pods[p] # "running"
    /\ pass.at = "rerun" =>
         \A d \in pass.todo : IsRerunable(datums[d]) /\ job.status = "running"

ListsAreCurrent ==
    OwnersHaveStarted /\ \A b \in Babysitters : IsCurrent(babysitter[b])

(***************************************************************************)
(* A pod is started once, and what has ended stays ended.                  *)
(***************************************************************************)
LEMMA PodsGoOn ==
    ASSUME TypeInv, [Next]_vars, NEW p \in Pods
    PROVE  /\ pods[p] # "none" => pods'[p] # "none"
           /\ pods[p] \notin {"none", "running"} => pods'[p] \notin {"none", "running"}
<1>1. pods \in [Pods -> {"none", "running", "lost", "succeeded", "failed"}]
  BY DEF TypeInv, TypeOK, ClusterTypeOK
<1>2. CASE WorkerActs
  BY <1>1, <1>2, WorkersOnlyExit DEF WorkerActs
<1>3. CASE BabysitterActs
  BY <1>1, <1>3, BabysittersOnlyLook DEF BabysitterActs, cluster
<1>4. CASE ClusterActs \/ QuarterHourPasses
  BY <1>1, <1>4 DEF ClusterActs, ApplyJob, ApplyNever, StartPod, PodIsLost, JobCompletes,
     JobFails, JobIsDeleted, QuarterHourPasses, CutoffPasses
<1>5. CASE UNCHANGED vars \/ \E q \in Pods : PodDies(q)
  BY <1>1, <1>5 DEF PodDies, PodFails, vars, cluster
<1> QED
  BY <1>2, <1>3, <1>4, <1>5 DEF Next, Ended

(***************************************************************************)
(* Only a worker, in a pod that runs, becomes the owner of a datum.        *)
(***************************************************************************)
LEMMA OwnersStayStarted ==
    ASSUME TypeInv, OwnersHaveStarted, [Next]_vars
    PROVE  OwnersHaveStarted'
<1> USE DEF OwnersHaveStarted
<1>1. datums \in [Datums -> DatumRow]
  BY DEF TypeInv, TypeOK, StoreTypeOK
<1>2. CASE UNCHANGED datums
  BY <1>2, PodsGoOn
<1>3. ASSUME NEW p \in Pods, WorkerStep(p)
      PROVE  OwnersHaveStarted'
  BY <1>3, PodsGoOn, WorkersTakeOrFinish DEF TakenOrFinished, Executes
<1>4. ASSUME NEW d \in Datums, MarkZombie(d) \/ RerunDatum(d)
      PROVE  OwnersHaveStarted'
  BY <1>1, <1>4, PodsGoOn DEF MarkZombie, RerunDatum, DatumMarked, DatumRow
<1>5. CASE BabysitterActs
  BY <1>2, <1>4, <1>5, BabysittersFailOrFreeDatums DEF BabysitterActs
<1>6. CASE \/ ClusterActs \/ QuarterHourPasses \/ UNCHANGED vars
           \/ \E p \in Pods : PodDies(p)
  BY <1>2, <1>6 DEF ClusterActs, QuarterHourPasses, PodDies, vars, store
<1> QED
  BY <1>3, <1>5, <1>6 DEF Next, WorkerActs, Ended

(***************************************************************************)
(* Workers and cluster leave the lists of a pass true: they make nothing   *)
(* ready, and end pods but start none again.                               *)
(***************************************************************************)
LEMMA OthersKeepListsCurrent ==
    ASSUME TypeInv, OwnersHaveStarted, [Next]_vars, NEW pass \in BabysitterState,
           IsCurrent(pass),
           UNCHANGED store \/ \E p \in Pods : WorkerStep(p)
    PROVE  IsCurrent(pass)'
<1>1. \A d \in Datums : TakenOrFinished(d)
  BY WorkersTakeOrFinish DEF TakenOrFinished, store
<1>2. datums \in [Datums -> DatumRow]
  BY DEF TypeInv, TypeOK, StoreTypeOK
<1>3. pass.todo \subseteq Datums /\ \A s \in pass.suspects : s[1] \in Datums
  BY DEF BabysitterState
<1>4. CASE pass.at = "pods"
  BY <1>1, <1>3, <1>4 DEF IsCurrent, TakenOrFinished
<1>5. CASE pass.at \in {"zombies", "close_job"}
  <2>1. ASSUME NEW d \in pass.todo
        PROVE  /\ datums'[d].status # "ready"
               /\ \A p \in Pods : OwnedBy(d, p)' => OwnedBy(d, p)
    BY <1>1, <1>3, <1>5, <2>1 DEF IsCurrent, TakenOrFinished, OwnedBy
  <2>2. ASSUME NEW d \in pass.todo, NEW p \in Pods, OwnedBy(d, p)
        PROVE  pods'[p] # "running"
    BY <1>3, <1>5, <2>2, PodsGoOn DEF IsCurrent, OwnersHaveStarted, OwnedBy
  <2> QED
    BY <1>5, <2>1, <2>2 DEF IsCurrent
<1>6. CASE pass.at = "rerun"
  <2>1. ASSUME NEW d \in pass.todo
        PROVE  IsRerunable(datums'[d]) /\ job'.status = "running"
    <3>1. IsRerunable(datums[d]) /\ job.status = "running"
      BY <1>6 DEF IsCurrent
    <3>2. IsRerunable(datums'[d])
      BY <1>1, <1>3, <3>1 DEF TakenOrFinished, IsRerunable
    <3>3. Outcome(datums') = "running"
      BY <1>3, <3>2 DEF Outcome
    <3>4. JobIfDone(datums').status = "running"
      BY <3>1, <3>3 DEF JobIfDone, TypeInv, TypeOK, StoreTypeOK, JobRow
    <3> QED
      BY <3>1, <3>2, <3>4, WorkersTakeOrFinish DEF store
  <2> QED
    BY <1>6, <2>1 DEF IsCurrent
<1> QED
  BY <1>4, <1>5, <1>6 DEF IsCurrent

(***************************************************************************)
(* A babysitter that works alone keeps its own lists true: what it changes *)
(* it strikes off.                                                         *)
(***************************************************************************)
LEMMA BabysitterKeepsItsLists ==
    ASSUME TypeInv, NEW b \in Babysitters, BabysitterStep(b), IsCurrent(babysitter[b])
    PROVE  IsCurrent(babysitter[b])'
<1>1. /\ datums \in [Datums -> DatumRow]
      /\ babysitter \in [Babysitters -> BabysitterState]
      /\ babysitter[b] \in BabysitterState
  BY DEF TypeInv, TypeOK, StoreTypeOK, BabysitterTypeOK
<1>2. UNCHANGED pods
  BY BabysittersOnlyLook DEF cluster
<1>3. /\ babysitter[b].todo \subseteq Datums
      /\ \A s \in babysitter[b].suspects : s[1] \in Datums
  BY <1>1 DEF BabysitterState
<1>4. ASSUME NEW state, Becomes(b, state)
      PROVE  babysitter'[b] = state
  BY <1>1, <1>4 DEF Becomes
<1>5. ASSUME NEW state, Becomes(b, state),
             state.at \notin {"pods", "zombies", "close_job", "rerun"}
      PROVE  IsCurrent(babysitter[b])'
  BY <1>4, <1>5 DEF IsCurrent
<1>6. ASSUME NEW stage, NEW todo, NEW next, Continue(b, stage, todo, next),
             next \notin {"pods", "zombies", "close_job", "rerun"}
      PROVE  \/ IsCurrent(babysitter[b])'
             \/ babysitter'[b].at = stage /\ babysitter'[b].todo = todo
  <2>1. CASE todo = {}
    BY <1>5, <1>6, <2>1 DEF Continue, Asleep
  <2>2. CASE todo # {}
    BY <1>4, <1>6, <2>2 DEF Continue, Asleep
  <2> QED
    BY <2>1, <2>2
<1>7. CASE \/ FindRunningJob(b) \/ GetJobInfos(b) \/ CheckJob(b) \/ AbandonPass(b)
  BY <1>5, <1>7 DEF FindRunningJob, GetJobInfos, CheckJob, AbandonPass, Asleep
<1>8. CASE ReadRunningDatums(b)
  <2>1. babysitter'[b].at = "pods" /\ babysitter'[b].suspects = ActiveRunning
    BY <1>4, <1>8 DEF ReadRunningDatums, Asleep
  <2>2. UNCHANGED datums
    BY <1>8 DEF ReadRunningDatums, store
  <2> QED
    BY <1>1, <2>1, <2>2 DEF IsCurrent, ActiveRunning
<1>9. CASE FindZombies(b)
  <2> DEFINE zombies == {s[1] : s \in {t \in babysitter[b].suspects : t[2] \notin RunningPods}}
  <2>1. \/ IsCurrent(babysitter[b])'
        \/ babysitter'[b].at = "zombies" /\ babysitter'[b].todo = zombies
    BY <1>6, <1>9 DEF FindZombies
  <2>2. UNCHANGED datums
    BY <1>9 DEF FindZombies, store
  <2>3. ASSUME NEW d \in zombies
        PROVE  datums[d].status # "ready" /\ \A p \in Pods : OwnedBy(d, p) => pods[p] # "running"
    BY <1>9 DEF FindZombies, IsCurrent, OwnedBy, RunningPods
  <2> QED
    BY <1>2, <2>1, <2>2, <2>3 DEF IsCurrent, OwnedBy
<1>10. CASE FailZombie(b)
  <2>1. PICK d \in babysitter[b].todo :
          MarkZombie(d) /\ Becomes(b, [Asleep EXCEPT !.at = "close_job",
                                         !.todo = babysitter[b].todo \ {d}])
    BY <1>10 DEF FailZombie
  <2>2. babysitter'[b].at = "close_job" /\ babysitter'[b].todo = babysitter[b].todo \ {d}
    BY <1>4, <2>1 DEF Asleep
  <2>3. \A e \in babysitter'[b].todo : datums'[e] = datums[e]
    BY <1>1, <1>3, <2>1, <2>2 DEF MarkZombie, DatumMarked
  <2>4. \A e \in babysitter'[b].todo :
          datums[e].status # "ready" /\ \A p \in Pods : OwnedBy(e, p) => pods[p] # "running"
    BY <1>10, <2>2 DEF FailZombie, IsCurrent
  <2> QED
    BY <1>2, <2>2, <2>3, <2>4 DEF IsCurrent, OwnedBy
<1>11. CASE CloseJob(b)
  <2>1. \/ IsCurrent(babysitter[b])'
        \/ babysitter'[b].at = "zombies" /\ babysitter'[b].todo = babysitter[b].todo
    BY <1>6, <1>11 DEF CloseJob
  <2>2. UNCHANGED datums
    BY <1>11 DEF CloseJob, UpdateStatusIfDone
  <2>3. \A d \in babysitter[b].todo :
          datums[d].status # "ready" /\ \A p \in Pods : OwnedBy(d, p) => pods[p] # "running"
    BY <1>11 DEF CloseJob, IsCurrent
  <2> QED
    BY <1>2, <2>1, <2>2, <2>3 DEF IsCurrent, OwnedBy
<1>12. CASE ReadRerunable(b)
  <2>1. \/ IsCurrent(babysitter[b])'
        \/ /\ babysitter'[b].at = "rerun"
           /\ babysitter'[b].todo =
                {d \in Datums : IsRerunable(datums[d]) /\ job.status = "running"}
    BY <1>6, <1>12 DEF ReadRerunable
  <2>2. UNCHANGED <<datums, job>>
    BY <1>12 DEF ReadRerunable, store
  <2> QED
    BY <2>1, <2>2 DEF IsCurrent, IsRerunable
<1>13. CASE Rerun(b)
  <2>1. PICK d \in babysitter[b].todo :
          RerunDatum(d) /\ Continue(b, "rerun", babysitter[b].todo \ {d}, "asleep")
    BY <1>13 DEF Rerun
  <2>2. \/ IsCurrent(babysitter[b])'
        \/ babysitter'[b].at = "rerun" /\ babysitter'[b].todo = babysitter[b].todo \ {d}
    BY <1>6, <2>1
  <2>3. \A e \in babysitter[b].todo \ {d} : datums'[e] = datums[e]
    BY <1>1, <1>3, <2>1 DEF RerunDatum, DatumMarked
  <2>4. \A e \in babysitter[b].todo : IsRerunable(datums[e]) /\ job'.status = "running"
    BY <1>13, <2>1 DEF Rerun, IsCurrent, RerunDatum
  <2>5. \A e \in babysitter[b].todo \ {d} : IsRerunable(datums'[e])
    BY <2>3, <2>4 DEF IsRerunable
  <2> QED
    BY <2>2, <2>4, <2>5 DEF IsCurrent
<1> QED
  BY <1>7, <1>8, <1>9, <1>10, <1>11, <1>12, <1>13 DEF BabysitterStep

(***************************************************************************)
(* The lists of a babysitter that works alone are never out of date.       *)
(***************************************************************************)
THEOREM ListsStayCurrent == SingleBabysitter => (Spec => []ListsAreCurrent)
<1> SUFFICES ASSUME SingleBabysitter
             PROVE  Spec => []ListsAreCurrent
  OBVIOUS
<1>1. Init => ListsAreCurrent
  <2> SUFFICES ASSUME Init PROVE ListsAreCurrent
    OBVIOUS
  <2>1. OwnersHaveStarted
    BY NoneAssumption DEF Init, StoreInit, OwnersHaveStarted
  <2>2. \A b \in Babysitters : IsCurrent(babysitter[b])
    BY DEF Init, BabysitterInit, Asleep, IsCurrent
  <2> QED
    BY <2>1, <2>2 DEF ListsAreCurrent
<1>2. TypeInv /\ ListsAreCurrent /\ [Next]_vars => ListsAreCurrent'
  <2> SUFFICES ASSUME TypeInv, ListsAreCurrent, [Next]_vars PROVE ListsAreCurrent'
    OBVIOUS
  <2>1. OwnersHaveStarted /\ OwnersHaveStarted'
    BY OwnersStayStarted DEF ListsAreCurrent
  <2>2. \A b \in Babysitters : babysitter[b] \in BabysitterState /\ IsCurrent(babysitter[b])
    BY DEF ListsAreCurrent, TypeInv, TypeOK, BabysitterTypeOK
  <2>3. ASSUME UNCHANGED babysitter, UNCHANGED store \/ \E p \in Pods : WorkerStep(p),
               NEW c \in Babysitters
        PROVE  IsCurrent(babysitter[c])'
    <3>1. \A pass \in BabysitterState : IsCurrent(pass) => IsCurrent(pass)'
      BY <2>1, <2>3, OthersKeepListsCurrent
    <3> DEFINE pass == babysitter[c]
    <3>2. IsCurrent(babysitter[c]) /\ babysitter[c] \in BabysitterState
      BY <2>2
    <3>3. babysitter'[c] = babysitter[c]
      BY <2>3
    <3> QED
      BY <3>1, <3>2, <3>3 DEF IsCurrent
  <2>4. CASE WorkerActs
    BY <2>1, <2>3, <2>4 DEF WorkerActs, ListsAreCurrent
  <2>5. CASE BabysitterActs
    <3>1. PICK b \in Babysitters : BabysitterStep(b)
      BY <2>5 DEF BabysitterActs
    <3>2. IsCurrent(babysitter[b])'
      BY <2>2, <3>1, BabysitterKeepsItsLists
    <3>3. \A c \in Babysitters : c = b
      BY DEF SingleBabysitter
    <3> QED
      BY <2>1, <3>2, <3>3 DEF ListsAreCurrent
  <2>6. CASE \/ ClusterActs \/ QuarterHourPasses \/ UNCHANGED vars
             \/ \E p \in Pods : PodDies(p)
    BY <2>1, <2>3, <2>6 DEF ClusterActs, QuarterHourPasses, PodDies, vars, ListsAreCurrent
  <2> QED
    BY <2>4, <2>5, <2>6 DEF Next, Ended
<1> QED
  BY <1>1, <1>2, TypesAreKept, PTL DEF Spec

(***************************************************************************)
(* What a list of failed datums is used for, the job still permits.        *)
(***************************************************************************)
LEMMA RerunsAreTimely ==
    ASSUME TypeInv, ListsAreCurrent, [Next]_vars, NEW d \in Datums,
           datums[d].status = "error", datums'[d].status = "ready"
    PROVE  job.status = "running"
<1>1. datums \in [Datums -> DatumRow]
  BY DEF TypeInv, TypeOK, StoreTypeOK
<1>2. CASE WorkerActs
  BY <1>2, WorkersTakeOrFinish DEF WorkerActs, TakenOrFinished
<1>3. ASSUME NEW b \in Babysitters, Rerun(b)
      PROVE  job.status = "running"
  BY <1>3 DEF Rerun, ListsAreCurrent, IsCurrent
<1>4. ASSUME NEW b \in Babysitters, FailZombie(b)
      PROVE  FALSE
  BY <1>1, <1>4 DEF FailZombie, MarkZombie, DatumMarked, DatumRow
<1>5. CASE BabysitterActs
  BY <1>3, <1>4, <1>5 DEF BabysitterActs, BabysitterStep, FindRunningJob,
     GetJobInfos, CheckJob, ReadRunningDatums, FindZombies, CloseJob, UpdateStatusIfDone,
     ReadRerunable, AbandonPass, store
<1>6. CASE \/ ClusterActs \/ QuarterHourPasses \/ UNCHANGED vars
           \/ \E p \in Pods : PodDies(p)
  BY <1>6 DEF ClusterActs, QuarterHourPasses, PodDies, vars, store
<1> QED
  BY <1>2, <1>5, <1>6 DEF Next, Ended

(***************************************************************************)
(* Failed datums become ready only while their job runs, if no other       *)
(* babysitter can close it in between.                                     *)
(***************************************************************************)
THEOREM RetriesStopWithTheJob == SingleBabysitter => (Spec => OnlyRunningJobsRetry)
<1>1. TypeInv /\ ListsAreCurrent /\ [Next]_vars =>
        \A d \in Datums :
          datums[d].status = "error" /\ datums'[d].status = "ready" =>
            job.status = "running"
  BY RerunsAreTimely
<1> QED
  BY <1>1, TypesAreKept, ListsStayCurrent, PTL DEF Spec, OnlyRunningJobsRetry

(***************************************************************************)
(* A datum is not taken from a pod that runs, if no other babysitter can   *)
(* have given it to that pod in between.                                   *)
(***************************************************************************)
THEOREM LivePodsKeepTheirDatums == SingleBabysitter => (Spec => OnlyDeadPodsLoseDatums)
<1> SUFFICES ASSUME SingleBabysitter
             PROVE  Spec => OnlyDeadPodsLoseDatums
  OBVIOUS
<1> DEFINE Justified ==
        \A d \in Datums, p \in Pods :
          /\ datums[d].status = "running" /\ datums[d].pod_name = p
          /\ datums'[d].status = "error"
          => \/ pods[p] # "running"
             \/ /\ worker[p].at = "patch_datum"
                /\ worker[p].outcome = "error"
                /\ worker[p].datum = d
<1>1. TypeInv /\ ListsAreCurrent /\ [Next]_vars => Justified
  <2> SUFFICES ASSUME TypeInv, ListsAreCurrent, [Next]_vars PROVE Justified
    OBVIOUS
  <2>1. datums \in [Datums -> DatumRow]
    BY DEF TypeInv, TypeOK, StoreTypeOK
  <2>2. CASE UNCHANGED datums
    BY <2>2
  <2>3. ASSUME NEW p \in Pods, ReportDatum(p)
        PROVE  Justified
    BY <2>1, <2>3 DEF ReportDatum, PatchDatum, OwnedBy, DatumMarked, DatumRow
  <2>4. ASSUME NEW p \in Pods, ReserveDatum(p)
        PROVE  Justified
    BY <2>1, <2>4 DEF ReserveDatum, ReserveNextDatum, DatumRow
  <2>5. CASE WorkerActs
    BY <2>2, <2>3, <2>4, <2>5 DEF WorkerActs, WorkerStep, FetchJob, FindNothing,
       ProcessDatum, RegisterOutputs, CreateOutputFiles, UploadOutputs, RecordOutputs,
       PatchOutputFiles, WorkerGivesUp, store
  <2>6. ASSUME NEW b \in Babysitters, FailZombie(b)
        PROVE  Justified
    <3>1. PICK e \in babysitter[b].todo : MarkZombie(e)
      BY <2>6 DEF FailZombie
    <3>2. \A p \in Pods : OwnedBy(e, p) => pods[p] # "running"
      BY <2>6 DEF FailZombie, ListsAreCurrent, IsCurrent
    <3> QED
      BY <2>1, <3>1, <3>2 DEF MarkZombie, DatumMarked, OwnedBy, DatumRow
  <2>7. ASSUME NEW b \in Babysitters, Rerun(b)
        PROVE  Justified
    BY <2>1, <2>7 DEF Rerun, RerunDatum, DatumMarked, DatumRow
  <2>8. CASE BabysitterActs
    BY <2>2, <2>6, <2>7, <2>8 DEF BabysitterActs, BabysitterStep, FindRunningJob,
       GetJobInfos, CheckJob, ReadRunningDatums, FindZombies, CloseJob, UpdateStatusIfDone,
       ReadRerunable, AbandonPass, store
  <2>9. CASE \/ ClusterActs \/ QuarterHourPasses \/ UNCHANGED vars
             \/ \E p \in Pods : PodDies(p)
    BY <2>2, <2>9 DEF ClusterActs, QuarterHourPasses, PodDies, vars, store
  <2> QED
    BY <2>5, <2>8, <2>9 DEF Next, Ended
<1> QED
  BY <1>1, TypesAreKept, ListsStayCurrent, PTL DEF Spec, OnlyDeadPodsLoseDatums

-----------------------------------------------------------------------------
(* The job is one of Jobs.                                                 *)

RowOf(row) == [status |-> row.status, attempted_run_count |-> row.attempted_run_count]

Rows(f) == [d \in Datums |-> RowOf(f[d])]

(***************************************************************************)
(* The only row of a table.                                                *)
(***************************************************************************)
LEMMA OnlyRow ==
    /\ \A x : <<x>>[1] = x
    /\ \A x, y : [<<x>> EXCEPT ![1] = y] = <<y>>
OBVIOUS

\* What the tables of Jobs have in this job.
LEMMA TablesHaveOneRow ==
    /\ DatumRows = <<Rows(datums)>> /\ DatumRows[1] = Rows(datums)
    /\ JobRows[1] = [status |-> job.status, error_message |-> job.error_message,
                     pipeline_spec |-> Submitted]
    /\ KubernetesJobs[1].state = KubernetesState
    /\ KubernetesJobs[1].parallelism = Submitted.parallelism
    /\ DOMAIN DatumRows[1] = Datums
    /\ ThisJob!JobIds = {1}
BY OnlyRow DEF ThisJob!JobIds, DatumRows, JobRows, KubernetesJobs, Rows, RowOf

(***************************************************************************)
(* Both modules decide a job's outcome alike.                              *)
(***************************************************************************)
LEMMA SameOutcome ==
    ASSUME NEW rows \in [Datums -> DatumRow], \A d \in Datums : rows[d].status # "canceled"
    PROVE  /\ \A d \in Datums : ThisJob!IsRerunable(1, Rows(rows)[d]) <=> IsRerunable(rows[d])
           /\ ThisJob!Outcome(1, Rows(rows)) = Outcome(rows)
<1>1. \A d \in Datums : /\ Rows(rows)[d].status = rows[d].status
                        /\ Rows(rows)[d].attempted_run_count = rows[d].attempted_run_count
  BY DEF Rows, RowOf
<1>2. ThisJob!MaximumAllowedRunCount(JobRows[1].pipeline_spec) = MaxRuns
  BY SubmittedAssumption, TablesHaveOneRow
  DEF ThisJob!MaximumAllowedRunCount, MaximumAllowedRunCount
<1>3. \A d \in Datums : ThisJob!IsRerunable(1, Rows(rows)[d]) <=> IsRerunable(rows[d])
  BY <1>1, <1>2 DEF ThisJob!IsRerunable, IsRerunable
<1>4. DOMAIN Rows(rows) = Datums
  BY DEF Rows
<1> QED
  BY <1>1, <1>3, <1>4 DEF ThisJob!Outcome, Outcome

(***************************************************************************)
(* The tables of Jobs after a step that changes one datum.                 *)
(***************************************************************************)
LEMMA OneDatumChanges ==
    ASSUME datums \in [Datums -> DatumRow], NEW d \in Datums, NEW status
    PROVE  /\ datums' = DatumMarked(d, status) =>
                DatumRows' = [DatumRows EXCEPT ![1][d].status = status]
           /\ \A p : datums' = [datums EXCEPT ![d] =
                           [status |-> status, pod_name |-> p,
                            attempted_run_count |-> @.attempted_run_count + 1]] =>
                DatumRows' = [DatumRows EXCEPT ![1][d] =
                                [status |-> status,
                                 attempted_run_count |-> @.attempted_run_count + 1]]
<1>1. DatumRows' = <<Rows(datums')>>
  BY DEF DatumRows, Rows, RowOf
<1>2. ASSUME datums' = DatumMarked(d, status)
      PROVE  DatumRows' = [DatumRows EXCEPT ![1][d].status = status]
  <2>1. Rows(datums') = [Rows(datums) EXCEPT ![d].status = status]
    BY <1>2 DEF Rows, RowOf, DatumMarked, DatumRow
  <2> DEFINE after == [Rows(datums) EXCEPT ![d].status = status]
  <2>2. [DatumRows EXCEPT ![1] = after] = <<after>>
    BY OnlyRow, TablesHaveOneRow
  <2> QED
    BY <1>1, <2>1, <2>2, TablesHaveOneRow
<1>3. ASSUME NEW p, datums' = [datums EXCEPT ![d] =
                           [status |-> status, pod_name |-> p,
                            attempted_run_count |-> @.attempted_run_count + 1]]
      PROVE  DatumRows' = [DatumRows EXCEPT ![1][d] =
                                [status |-> status,
                                 attempted_run_count |-> @.attempted_run_count + 1]]
  <2>1. Rows(datums') = [Rows(datums) EXCEPT ![d] =
                           [status |-> status,
                            attempted_run_count |-> @.attempted_run_count + 1]]
    BY <1>3 DEF Rows, RowOf, DatumRow
  <2> DEFINE after == [Rows(datums) EXCEPT
                         ![d] = [status |-> status,
                                 attempted_run_count |-> @.attempted_run_count + 1]]
  <2>2. [DatumRows EXCEPT ![1] = after] = <<after>>
    BY OnlyRow, TablesHaveOneRow
  <2> QED
    BY <1>1, <2>1, <2>2, TablesHaveOneRow
<1> QED
  BY <1>2, <1>3

(***************************************************************************)
(* A job that is closed if its datums are finished is closed as in Jobs.   *)
(***************************************************************************)
LEMMA ClosedAsInJobs ==
    ASSUME TypeInv, TypeInv', VerdictInv', job' = JobIfDone(datums')
    PROVE  ThisJob!UpdateStatusIfDone(1, DatumRows'[1])
<1>1. DatumRows'[1] = Rows(datums')
  BY OnlyRow DEF DatumRows, Rows, RowOf
<1>2. ThisJob!Outcome(1, Rows(datums')) = Outcome(datums')
  BY SameOutcome DEF TypeInv, TypeOK, StoreTypeOK, VerdictInv, NothingIsCanceled
<1>3. job \in JobRow
  BY DEF TypeInv, TypeOK, StoreTypeOK
<1>4. CASE job.status # "running"
  <2>1. UNCHANGED job
    BY <1>4 DEF JobIfDone
  <2> QED
    BY <1>4, <2>1, TablesHaveOneRow DEF ThisJob!UpdateStatusIfDone, JobRows
<1>5. CASE job.status = "running"
  <2>1. job'.status = Outcome(datums') /\ job'.error_message = job.error_message
    BY <1>3, <1>5 DEF JobIfDone, JobRow
  <2>2. JobRows' = <<[JobRows[1] EXCEPT !.status = Outcome(datums')]>>
    BY <2>1, TablesHaveOneRow DEF JobRows
  <2>3. JobRows' = [JobRows EXCEPT ![1].status = Outcome(datums')]
    BY <2>2, OnlyRow, TablesHaveOneRow DEF JobRows
  <2>4. ThisJob!Outcome(1, DatumRows'[1]) = Outcome(datums')
    BY <1>1, <1>2
  <2>5. JobRows[1].status = "running"
    BY <1>5, TablesHaveOneRow
  <2> QED
    BY <2>3, <2>4, <2>5 DEF ThisJob!UpdateStatusIfDone
<1> QED
  BY <1>4, <1>5

Moves == [ThisJob!Behind]_<<JobRows, DatumRows, KubernetesJobs, RerunLists>>

\* A job that is not closed is ended by a babysitter with nothing to rerun.
EndedBetweenReruns ==
    job' # job /\ job' # JobIfDone(datums') => \E b \in Babysitters : RerunLists[b] = {}

(***************************************************************************)
(* A transaction that reruns nothing, while the cluster stays as it is, is *)
(* a step of the job in Jobs: the pod that reserves a datum runs, and a    *)
(* job that is failed has no Job any more.                                 *)
(***************************************************************************)
LEMMA TransactionsAreJobSteps ==
    ASSUME TypeInv, TypeInv', VerdictInv, VerdictInv', JobFailureIsReal',
           Transaction, UNCHANGED KubernetesState, UNCHANGED RerunLists,
           EndedBetweenReruns,
           \A d \in Datums :
             /\ datums[d].status = "ready" /\ datums'[d].status = "running" =>
                  KubernetesState = "applied"
             /\ ~(datums[d].status = "error" /\ datums'[d].status = "ready")
    PROVE  Moves
<1>1. /\ datums \in [Datums -> DatumRow] /\ datums' \in [Datums -> DatumRow]
      /\ job \in JobRow
  BY DEF TypeInv, TypeOK, StoreTypeOK
<1>2. UNCHANGED KubernetesJobs
  BY DEF KubernetesJobs
<1>3. /\ UNCHANGED job => UNCHANGED JobRows
      /\ UNCHANGED datums => UNCHANGED DatumRows
  BY DEF JobRows, DatumRows
<1>4. \A d \in Datums : /\ DatumRows[1][d].status = datums[d].status
                        /\ ThisJob!IsRerunable(1, DatumRows[1][d]) <=> IsRerunable(datums[d])
  BY <1>1, SameOutcome, TablesHaveOneRow DEF Rows, RowOf, VerdictInv, NothingIsCanceled
<1>5. ASSUME NEW d \in Datums, ThisJob!ReserveDatum(1, d) \/ ThisJob!PatchDatum(1, d)
                               \/ ThisJob!MarkZombie(1, d)
      PROVE  Moves
  BY <1>5, TablesHaveOneRow DEF ThisJob!JobStep, ThisJob!Behind, Moves
<1>6. ASSUME NEW p \in Pods, NEW d \in Datums, ReserveNextDatum(p, d)
      PROVE  Moves
  <2>1. CASE UNCHANGED datums
    BY <1>2, <1>3, <1>6, <2>1 DEF ReserveNextDatum, Moves
  <2>2. CASE ~UNCHANGED datums
    <3>1. /\ datums[d].status = "ready" /\ UNCHANGED job
          /\ datums' = [datums EXCEPT ![d] =
                          [status |-> "running", pod_name |-> p,
                           attempted_run_count |-> @.attempted_run_count + 1]]
      BY <1>6, <2>2 DEF ReserveNextDatum
    <3>2. datums'[d].status = "running"
      BY <1>1, <3>1
    <3>3. KubernetesJobs[1].state = "applied" /\ KubernetesJobs[1].parallelism > 0
      BY <3>1, <3>2, TablesHaveOneRow, SubmittedAssumption
    <3>4. ThisJob!ReserveDatum(1, d)
      BY <1>1, <1>2, <1>3, <1>4, <3>1, <3>3, OneDatumChanges DEF ThisJob!ReserveDatum, ThisJob!users
    <3> QED
      BY <1>5, <3>4
  <2> QED
    BY <2>1, <2>2
<1>7. ASSUME NEW p \in Pods, NEW d \in Datums, NEW status \in {"done", "error"},
             PatchDatum(p, d, status)
      PROVE  Moves
  <2>1. DatumRows' = [DatumRows EXCEPT ![1][d].status = status]
    BY <1>1, <1>7, OneDatumChanges DEF PatchDatum
  <2>2. ThisJob!DatumBecomes(1, d, status)
    BY <2>1 DEF ThisJob!DatumBecomes
  <2>3. ThisJob!UpdateStatusIfDone(1, DatumRows'[1])
    BY <1>7, ClosedAsInJobs DEF PatchDatum
  <2>4. ThisJob!PatchDatum(1, d)
    BY <1>2, <1>4, <1>7, <2>2, <2>3 DEF PatchDatum, OwnedBy, ThisJob!PatchDatum, ThisJob!users
  <2> QED
    BY <1>5, <2>4
<1>8. ASSUME job' = JobIfDone(datums'), UNCHANGED datums
      PROVE  Moves
  <2>1. ThisJob!UpdateStatusIfDone(1, DatumRows[1])
    BY <1>3, <1>8, ClosedAsInJobs
  <2>2. ThisJob!CloseJob(1)
    BY <1>2, <1>3, <1>8, <2>1 DEF ThisJob!CloseJob, ThisJob!users
  <2> QED
    BY <2>2, TablesHaveOneRow DEF ThisJob!JobStep, ThisJob!Behind, Moves
<1>9. ASSUME NEW d \in Datums, MarkZombie(d)
      PROVE  Moves
  <2>1. CASE datums[d].status = "running"
    <3>1. ThisJob!MarkZombie(1, d)
      BY <1>1, <1>2, <1>3, <1>4, <1>9, <2>1, OneDatumChanges
      DEF MarkZombie, ThisJob!MarkZombie, ThisJob!DatumBecomes, ThisJob!users
    <3> QED
      BY <1>5, <3>1
  <2>2. CASE datums[d].status # "running"
    BY <1>2, <1>3, <1>9, <2>2 DEF MarkZombie, Moves
  <2> QED
    BY <2>1, <2>2
<1>10. ASSUME NEW d \in Datums, RerunDatum(d)
       PROVE  Moves
  <2>1. ~IsRerunable(datums[d])
    BY <1>1, <1>10 DEF RerunDatum, DatumMarked, IsRerunable, DatumRow
  <2> QED
    BY <1>2, <1>3, <1>10, <2>1 DEF RerunDatum, Moves
<1>11. ASSUME NEW info, FinishOrFailJob(info), UNCHANGED datums
       PROVE  Moves
  <2>1. CASE job' = JobIfDone(datums)
    BY <1>8, <1>11, <2>1
  <2>2. CASE JobIfDone(datums).status = "running" /\ job' = JobFailed
    <3>1. job.status = "running" /\ Outcome(datums) = "running"
      BY <1>1, <2>2 DEF JobIfDone, JobRow
    <3>2. ThisJob!Outcome(1, DatumRows[1]) = "running"
      BY <1>1, <3>1, SameOutcome, TablesHaveOneRow DEF VerdictInv, NothingIsCanceled
    <3>3. PICK failed : failed = [JobRows[1] EXCEPT !.status = "error"]
      OBVIOUS
    <3>4. PICK yes : yes = TRUE
      OBVIOUS
    <3>5. failed = [status |-> "error", error_message |-> job.error_message,
                    pipeline_spec |-> Submitted]
      BY <3>3, TablesHaveOneRow
    <3>6. [failed EXCEPT !.error_message = yes] =
            [status |-> "error", error_message |-> yes, pipeline_spec |-> Submitted]
      BY <3>5
    <3>7. JobRows' = [JobRows EXCEPT ![1].status = "error", ![1].error_message = TRUE]
      BY <2>2, <3>3, <3>4, <3>6, OnlyRow DEF JobRows, JobFailed
    <3>8. KubernetesJobs[1].state # "pending"
      BY <2>2, TablesHaveOneRow DEF JobFailureIsReal, JobFailed, KubernetesState
    <3>9. PICK b \in Babysitters : RerunLists[b] = {}
      <4>1. job' # job /\ job' # JobIfDone(datums')
        BY <1>1, <1>11, <2>2, <3>1 DEF JobFailed, JobIfDone, JobRow
      <4> QED
        BY <4>1 DEF EndedBetweenReruns
    <3>10. ThisJob!FailJob(b, 1)
      BY <1>2, <1>3, <1>11, <3>1, <3>2, <3>7, <3>8, <3>9, TablesHaveOneRow
      DEF ThisJob!FailJob, ThisJob!users
    <3> QED
      BY <3>9, <3>10, TablesHaveOneRow DEF ThisJob!JobStep, ThisJob!Behind, Moves
  <2> QED
    BY <1>11, <2>1, <2>2 DEF FinishOrFailJob
<1> QED
  BY <1>6, <1>7, <1>8, <1>9, <1>10, <1>11 DEF Transaction, UpdateStatusIfDone

(***************************************************************************)
(* What the cluster does for itself is that the Job is applied, or not.    *)
(***************************************************************************)
LEMMA ClusterStepsAreJobSteps ==
    ASSUME TypeInv, UNCHANGED store, ClusterActs \/ QuarterHourPasses,
           UNCHANGED RerunLists
    PROVE  Moves
<1>1. UNCHANGED JobRows /\ UNCHANGED DatumRows
  BY DEF store, JobRows, DatumRows
<1>2. pods \in [Pods -> {"none", "running", "lost", "succeeded", "failed"}]
  BY DEF TypeInv, TypeOK, ClusterTypeOK
<1>3. \/ UNCHANGED KubernetesState
      \/ KubernetesState = "pending" /\ KubernetesState' \in {"applied", "missing"}
  BY <1>2 DEF ClusterActs, QuarterHourPasses, CutoffPasses, ApplyJob, ApplyNever, StartPod,
     PodIsLost, JobCompletes, JobFails, JobIsDeleted, KubernetesState
<1>4. CASE UNCHANGED KubernetesState
  BY <1>1, <1>4 DEF KubernetesJobs, Moves
<1>5. CASE KubernetesState = "pending" /\ KubernetesState' \in {"applied", "missing"}
  <2>1. KubernetesJobs' = <<[KubernetesJobs[1] EXCEPT !.state = KubernetesState']>>
    BY OnlyRow DEF KubernetesJobs
  <2>2. KubernetesJobs' = [KubernetesJobs EXCEPT ![1].state = KubernetesState']
    BY <2>1, OnlyRow DEF KubernetesJobs
  <2>3. ThisJob!Apply(1)
    BY <1>1, <1>5, <2>2, TablesHaveOneRow DEF ThisJob!Apply, ThisJob!tables, ThisJob!users
  <2> QED
    BY <2>3, TablesHaveOneRow DEF ThisJob!JobStep, ThisJob!Behind, Moves
<1> QED
  BY <1>3, <1>4, <1>5

(***************************************************************************)
(* A worker reserves for a pod that has been started.                      *)
(***************************************************************************)
LEMMA ReservedByStartedPods ==
    ASSUME TypeInv, [Next]_vars, NEW d \in Datums,
           datums[d].status = "ready", datums'[d].status = "running"
    PROVE  KubernetesState = "applied"
<1>1. datums \in [Datums -> DatumRow]
  BY DEF TypeInv, TypeOK, StoreTypeOK
<1>2. CASE WorkerActs
  BY <1>2, WorkersTakeOrFinish DEF WorkerActs, TakenOrFinished, Executes, KubernetesState
<1>3. CASE BabysitterActs
  <2>1. UNCHANGED datums \/ \E e \in Datums : MarkZombie(e) \/ RerunDatum(e)
    BY <1>3, BabysittersFailOrFreeDatums DEF BabysitterActs
  <2> QED
    BY <1>1, <2>1 DEF MarkZombie, RerunDatum, DatumMarked, DatumRow
<1>4. CASE \/ ClusterActs \/ QuarterHourPasses \/ UNCHANGED vars
           \/ \E p \in Pods : PodDies(p)
  BY <1>4 DEF ClusterActs, QuarterHourPasses, PodDies, vars, store
<1> QED
  BY <1>2, <1>3, <1>4 DEF Next, Ended

(***************************************************************************)
(* Workers, babysitters and the end of a pod do not decide whether the Job *)
(* is applied.                                                             *)
(***************************************************************************)
LEMMA OnlyTheClusterApplies ==
    ASSUME TypeInv, WorkerActs \/ BabysitterActs \/ UNCHANGED vars \/ Ended
                    \/ \E p \in Pods : PodDies(p)
    PROVE  UNCHANGED KubernetesState
<1>1. pods \in [Pods -> {"none", "running", "lost", "succeeded", "failed"}]
  BY DEF TypeInv, TypeOK, ClusterTypeOK
<1>2. ASSUME NEW p \in Pods, Executes(p), UNCHANGED k8s_job,
             NEW state \in {"succeeded", "failed"},
             UNCHANGED pods \/ pods' = [pods EXCEPT ![p] = state]
      PROVE  UNCHANGED KubernetesState
  <2>1. pods[p] # "none" /\ pods'[p] # "none"
    BY <1>1, <1>2 DEF Executes
  <2> QED
    BY <2>1 DEF KubernetesState
<1>3. CASE WorkerActs
  <2>1. PICK p \in Pods : WorkerStep(p)
    BY <1>3 DEF WorkerActs
  <2>2. Executes(p)
    BY <2>1 DEF WorkerStep
  <2> QED
    BY <1>2, <2>1, <2>2, WorkersOnlyExit, WorkersKeepTheJob
<1>4. CASE \E p \in Pods : PodDies(p)
  BY <1>2, <1>4 DEF PodDies, PodFails
<1>5. CASE BabysitterActs \/ UNCHANGED vars \/ Ended
  BY <1>5, BabysittersOnlyLook DEF BabysitterActs, Ended, vars, cluster, KubernetesState
<1> QED
  BY <1>3, <1>4, <1>5

(***************************************************************************)
(* What a babysitter has to rerun after a step of its own.                 *)
(***************************************************************************)
LEMMA ListAfter ==
    ASSUME TypeInv, NEW b \in Babysitters, NEW state, Becomes(b, state)
    PROVE  RerunLists' = [RerunLists EXCEPT ![b] =
                            IF state.at = "rerun" THEN {1} \X state.todo ELSE {}]
<1>1. \A c \in Babysitters : babysitter'[c] = IF c = b THEN state ELSE babysitter[c]
  BY DEF Becomes, TypeInv, TypeOK, BabysitterTypeOK
<1> QED
  BY <1>1 DEF RerunLists

LEMMA ListAfterLoop ==
    ASSUME TypeInv, NEW b \in Babysitters, NEW list, Continue(b, "rerun", list, "asleep")
    PROVE  RerunLists' = [RerunLists EXCEPT ![b] = {1} \X list]
<1>1. CASE list = {}
  <2>1. Becomes(b, [Asleep EXCEPT !.at = "asleep"])
    BY <1>1 DEF Continue
  <2>2. [Asleep EXCEPT !.at = "asleep"].at # "rerun" /\ {1} \X list = {}
    BY <1>1 DEF Asleep
  <2> QED
    BY <2>1, <2>2, ListAfter
<1>2. CASE list # {}
  <2> DEFINE state == [Asleep EXCEPT !.at = "rerun", !.todo = list]
  <2>1. Becomes(b, state) /\ state.at = "rerun" /\ state.todo = list
    BY <1>2 DEF Continue, Asleep
  <2> HIDE DEF state
  <2> QED
    BY <2>1, ListAfter
<1> QED
  BY <1>1, <1>2

(***************************************************************************)
(* A babysitter's other steps have nothing to rerun before and after.      *)
(***************************************************************************)
LEMMA OtherStagesHaveNoList ==
    ASSUME TypeInv, NEW b \in Babysitters, BabysitterStep(b),
           ~ReadRerunable(b), ~Rerun(b), ~AbandonPass(b)
    PROVE  /\ UNCHANGED RerunLists /\ EndedBetweenReruns
           /\ \A d \in Datums :
                ~(datums[d].status = "error" /\ datums'[d].status = "ready")
<1>1. RerunLists[b] = {}
  BY DEF BabysitterStep, FindRunningJob, GetJobInfos, CheckJob, ReadRunningDatums,
     FindZombies, FailZombie, CloseJob, RerunLists
<1>2. ASSUME NEW state, Becomes(b, state), state.at # "rerun"
      PROVE  RerunLists' = [RerunLists EXCEPT ![b] = {}]
  BY <1>2, ListAfter
<1>3. RerunLists' = [RerunLists EXCEPT ![b] = {}]
  <2>1. ASSUME NEW stage, NEW list, NEW next, Continue(b, stage, list, next),
               stage # "rerun", next # "rerun"
        PROVE  RerunLists' = [RerunLists EXCEPT ![b] = {}]
    <3>1. CASE list = {}
      BY <1>2, <2>1, <3>1 DEF Continue, Asleep
    <3>2. CASE list # {}
      BY <1>2, <2>1, <3>2 DEF Continue, Asleep
    <3> QED
      BY <3>1, <3>2
  <2>2. CASE FindZombies(b) \/ CloseJob(b)
    BY <2>1, <2>2 DEF FindZombies, CloseJob
  <2>3. CASE FindRunningJob(b) \/ GetJobInfos(b) \/ CheckJob(b) \/ ReadRunningDatums(b)
    BY <1>2, <2>3 DEF FindRunningJob, GetJobInfos, CheckJob, ReadRunningDatums, Asleep
  <2>4. CASE FailZombie(b)
    BY <1>2, <2>4 DEF FailZombie, Asleep
  <2> QED
    BY <2>2, <2>3, <2>4 DEF BabysitterStep
<1>4. UNCHANGED RerunLists
  BY <1>1, <1>3 DEF RerunLists
<1>5. UNCHANGED job \/ job' = JobIfDone(datums') \/ CheckJob(b)
  BY DEF BabysitterStep, FindRunningJob, GetJobInfos, ReadRunningDatums, FindZombies,
     FailZombie, MarkZombie, CloseJob, UpdateStatusIfDone, store
<1>6. \A d \in Datums : ~(datums[d].status = "error" /\ datums'[d].status = "ready")
  <2>1. UNCHANGED datums \/ \E e \in babysitter[b].todo : MarkZombie(e)
    BY DEF BabysitterStep, FindRunningJob, GetJobInfos, CheckJob, ReadRunningDatums,
       FindZombies, FailZombie, CloseJob, UpdateStatusIfDone, store
  <2>2. datums \in [Datums -> DatumRow]
    BY DEF TypeInv, TypeOK, StoreTypeOK
  <2> QED
    BY <2>1, <2>2 DEF MarkZombie, DatumMarked, DatumRow
<1> QED
  BY <1>1, <1>4, <1>5, <1>6 DEF EndedBetweenReruns

(***************************************************************************)
(* The reruns of a pass are those of Jobs, whatever has become of the job  *)
(* since the list was read.                                                *)
(***************************************************************************)
LEMMA RerunsAreThoseOfJobs ==
    ASSUME TypeInv, VerdictInv, UNCHANGED KubernetesState, NEW b \in Babysitters,
           ReadRerunable(b) \/ Rerun(b) \/ AbandonPass(b)
    PROVE  Moves
<1>1. /\ datums \in [Datums -> DatumRow] /\ babysitter[b] \in BabysitterState
  BY DEF TypeInv, TypeOK, StoreTypeOK, BabysitterTypeOK
<1>2. UNCHANGED KubernetesJobs
  BY DEF KubernetesJobs
<1>3. /\ UNCHANGED job => UNCHANGED JobRows
      /\ UNCHANGED datums => UNCHANGED DatumRows
  BY DEF JobRows, DatumRows
<1>4. \A d \in Datums : ThisJob!IsRerunable(1, DatumRows[1][d]) <=> IsRerunable(datums[d])
  BY <1>1, SameOutcome, TablesHaveOneRow DEF VerdictInv, NothingIsCanceled
<1>5. ASSUME ThisJob!BabysitterStep(b)
      PROVE  Moves
  BY <1>5 DEF ThisJob!Behind, Moves
<1>6. CASE ReadRerunable(b)
  <2> DEFINE list == {d \in Datums : IsRerunable(datums[d]) /\ job.status = "running"}
  <2>1. RerunLists' = [RerunLists EXCEPT ![b] = {1} \X list] /\ RerunLists[b] = {}
    BY <1>6, ListAfterLoop DEF ReadRerunable, RerunLists
  <2>2. {1} \X list = {t \in ThisJob!JobIds \X Datums :
                         /\ JobRows[t[1]].status = "running"
                         /\ t[2] \in DOMAIN DatumRows[t[1]]
                         /\ ThisJob!IsRerunable(t[1], DatumRows[t[1]][t[2]])}
    BY <1>4, TablesHaveOneRow
  <2>3. UNCHANGED <<JobRows, DatumRows>>
    BY <1>3, <1>6 DEF ReadRerunable, store
  <2>4. ThisJob!ReadRerunable(b)
    BY <1>2, <2>1, <2>2, <2>3 DEF ThisJob!ReadRerunable, ThisJob!tables, ThisJob!users
  <2> QED
    BY <1>5, <2>4 DEF ThisJob!BabysitterStep
<1>7. CASE AbandonPass(b)
  <2>1. RerunLists' = [RerunLists EXCEPT ![b] = {}]
    BY <1>7, ListAfter DEF AbandonPass, Asleep
  <2>2. UNCHANGED <<JobRows, DatumRows>>
    BY <1>3, <1>7 DEF AbandonPass, store
  <2>3. ThisJob!AbandonPass(b)
    BY <1>2, <2>1, <2>2 DEF ThisJob!AbandonPass, ThisJob!tables, ThisJob!users
  <2> QED
    BY <1>5, <2>3 DEF ThisJob!BabysitterStep
<1>8. CASE Rerun(b)
  <2>1. PICK d \in babysitter[b].todo :
          /\ RerunDatum(d)
          /\ Continue(b, "rerun", babysitter[b].todo \ {d}, "asleep")
    BY <1>8 DEF Rerun
  <2>2. d \in Datums /\ RerunLists[b] = {1} \X babysitter[b].todo
    BY <1>1, <1>8 DEF Rerun, RerunLists, BabysitterState
  <2>3. RerunLists' = [RerunLists EXCEPT ![b] = @ \ {<<1, d>>}]
    <3>1. RerunLists' = [RerunLists EXCEPT ![b] = {1} \X (babysitter[b].todo \ {d})]
      BY <2>1, ListAfterLoop
    <3>2. {1} \X (babysitter[b].todo \ {d}) = RerunLists[b] \ {<<1, d>>}
      BY <2>2
    <3> QED
      BY <3>1, <3>2
  <2>4. UNCHANGED JobRows
    BY <1>3, <2>1 DEF RerunDatum
  <2>5. IF ThisJob!IsRerunable(1, DatumRows[1][d])
        THEN ThisJob!DatumBecomes(1, d, "ready")
        ELSE UNCHANGED DatumRows
    <3>1. CASE IsRerunable(datums[d])
      <4>1. DatumRows' = [DatumRows EXCEPT ![1][d].status = "ready"]
        BY <1>1, <2>1, <2>2, <3>1, OneDatumChanges DEF RerunDatum
      <4> QED
        BY <1>4, <2>2, <3>1, <4>1 DEF ThisJob!DatumBecomes
    <3>2. CASE ~IsRerunable(datums[d])
      BY <1>3, <1>4, <2>1, <2>2, <3>2 DEF RerunDatum
    <3> QED
      BY <3>1, <3>2
  <2>6. ThisJob!RerunDatum(b, 1, d) /\ <<1, d>> \in RerunLists[b]
    BY <1>2, <2>1, <2>2, <2>3, <2>4, <2>5 DEF ThisJob!RerunDatum, ThisJob!users
  <2>7. ThisJob!BabysitterStep(b)
    <3>1. PICK t \in RerunLists[b] : t = <<1, d>>
      BY <2>6
    <3>2. ThisJob!RerunDatum(b, t[1], t[2])
      BY <2>6, <3>1
    <3> QED
      BY <3>1, <3>2 DEF ThisJob!BabysitterStep
  <2> QED
    BY <1>5, <2>7
<1> QED
  BY <1>6, <1>7, <1>8

(***************************************************************************)
(* However many babysitters there are, a job behaves as Jobs says one of   *)
(* its jobs does: what is proved of a pipeline and its retries there holds *)
(* of the rows that workers and babysitters leave here.                    *)
(***************************************************************************)
THEOREM JobsAreImplemented == Spec => BehavesAsInJobs
<1>1. Init => /\ JobRows = <<ThisJob!NewJob(Submitted)>>
              /\ DatumRows = <<ThisJob!NewDatums(Datums)>>
              /\ KubernetesJobs = <<ThisJob!NewKubernetesJob(JobParams(Submitted))>>
              /\ RerunLists = [b \in Babysitters |-> {}]
  BY DEF Init, StoreInit, ClusterInit, BabysitterInit, Asleep, JobRows, ThisJob!NewJob,
         DatumRows, ThisJob!NewDatums, KubernetesJobs, ThisJob!NewKubernetesJob,
         JobParams, KubernetesState, RerunLists
<1>2. ASSUME TypeInv, TypeInv', VerdictInv, VerdictInv', JobFailureIsReal', [Next]_vars
      PROVE  Moves
  <2>1. ASSUME UNCHANGED babysitter
        PROVE  UNCHANGED RerunLists
    BY <2>1 DEF RerunLists
  <2>2. CASE ClusterActs \/ QuarterHourPasses
    BY <1>2, <2>1, <2>2, ClusterStepsAreJobSteps DEF ClusterActs, QuarterHourPasses
  <2>3. ASSUME UNCHANGED KubernetesState, UNCHANGED RerunLists, EndedBetweenReruns,
               \A d \in Datums :
                 ~(datums[d].status = "error" /\ datums'[d].status = "ready")
        PROVE  Moves
    <3>1. CASE Transaction
      BY <1>2, <2>3, <3>1, ReservedByStartedPods, TransactionsAreJobSteps
    <3>2. CASE UNCHANGED <<job, datums>>
      BY <2>3, <3>2 DEF JobRows, DatumRows, KubernetesJobs, Moves
    <3> QED
      BY <1>2, <3>1, <3>2, StepsAreTransactions
  <2>4. CASE WorkerActs
    <3>1. PICK p \in Pods : WorkerStep(p)
      BY <2>4 DEF WorkerActs
    <3>2. UNCHANGED RerunLists /\ UNCHANGED KubernetesState
      BY <1>2, <2>1, <2>4, OnlyTheClusterApplies DEF WorkerActs
    <3>3. /\ \A d \in Datums : TakenOrFinished(d)
          /\ UNCHANGED job \/ job' = JobIfDone(datums')
      BY <1>2, <3>1, WorkersTakeOrFinish
    <3> QED
      BY <2>3, <3>2, <3>3 DEF EndedBetweenReruns, TakenOrFinished
  <2>5. CASE BabysitterActs
    <3>1. PICK b \in Babysitters : BabysitterStep(b)
      BY <2>5 DEF BabysitterActs
    <3>2. UNCHANGED KubernetesState
      BY <1>2, <2>5, OnlyTheClusterApplies
    <3>3. CASE ReadRerunable(b) \/ Rerun(b) \/ AbandonPass(b)
      BY <1>2, <3>2, <3>3, RerunsAreThoseOfJobs
    <3>4. CASE ~ReadRerunable(b) /\ ~Rerun(b) /\ ~AbandonPass(b)
      BY <1>2, <2>3, <3>1, <3>2, <3>4, OtherStagesHaveNoList
    <3> QED
      BY <3>3, <3>4
  <2>6. CASE UNCHANGED vars \/ Ended \/ \E p \in Pods : PodDies(p)
    <3>1. UNCHANGED KubernetesState
      BY <1>2, <2>6, OnlyTheClusterApplies
    <3>2. UNCHANGED <<job, datums, babysitter>>
      BY <2>6 DEF Ended, PodDies, vars, store
    <3> QED
      BY <2>1, <2>3, <3>1, <3>2 DEF EndedBetweenReruns
  <2> QED
    BY <1>2, <2>2, <2>4, <2>5, <2>6 DEF Next
<1>3. Spec => []VerdictInv /\ []JobFailureIsReal /\ []TypeInv
  BY TypesAreKept, VerdictsHold, FailuresAreReal, PTL
<1> QED
  BY <1>1, <1>2, <1>3, PTL DEF Spec, BehavesAsInJobs, Moves
=============================================================================
