------------------------------- MODULE JobsProofs -------------------------------
(***************************************************************************)
(* Theorems about Jobs, for any work, any specs, any widths of the         *)
(* integers and any number of retries; that retries share no work, for one *)
(* babysitter.                                                             *)
(***************************************************************************)
EXTENDS Jobs, TLAPS, SequenceTheorems, FiniteSetTheorems

-----------------------------------------------------------------------------
(* The inductive invariant.                                                *)

Rows == UNION {[work -> DatumRow] : work \in SUBSET Work}

Typed ==
    /\ jobs \in Seq(JobRow) /\ datums \in Seq(Rows) /\ k8s \in Seq(KubernetesJob)
    /\ Len(datums) = Len(jobs) /\ Len(k8s) = Len(jobs)
    /\ todo \in [Babysitters -> SUBSET ((1..Len(jobs)) \X Work)]
    /\ origin \in Seq(Nat) /\ Len(origin) = Len(jobs)
    /\ \A j \in 1..Len(jobs) : origin[j] \in 0..(j - 1)
    /\ user \in {"start", "waiting", "refused", "finished"}
    /\ user \in {"waiting", "finished"} => Len(jobs) > 0
    /\ user = "start" => Len(jobs) = 0

Admitted ==
    \A j \in 1..Len(jobs) :
        LET spec == jobs[j].pipeline_spec
            params == k8s[j]
        IN  /\ Accepted(spec)
            /\ params.parallelism <= spec.parallelism
            /\ params.backoffLimit = MaximumCountedPodFailures(
                                       [spec EXCEPT !.parallelism = params.parallelism])

(***************************************************************************)
(* What the end of a job says of its datums.                               *)
(***************************************************************************)
Ended ==
    \A j \in 1..Len(jobs) : \A w \in DOMAIN datums[j] :
        /\ datums[j][w].status # "canceled"
        /\ jobs[j].status = "done" => datums[j][w].status = "done"
        /\ jobs[j].status = "error" /\ ~jobs[j].error_message =>
             /\ datums[j][w].status \in {"done", "error"}
             /\ ~IsRerunable(j, datums[j][w])

(***************************************************************************)
(* Work is done, or every job has it, or some job was cut short.           *)
(***************************************************************************)
Kept ==
    \A w \in Work :
        \/ \E j \in 1..Len(jobs) : Done(j, w)
        \/ \E j \in 1..Len(jobs) : jobs[j].error_message
        \/ \A j \in 1..Len(jobs) : w \in DOMAIN datums[j]

JobsInv == Typed /\ Admitted /\ Ended /\ Kept

-----------------------------------------------------------------------------
(* What a step within a job changes.                                       *)

\* A job, its datums and its Kubernetes Job have one index.
LEMMA Indices ==
    ASSUME Typed
    PROVE  /\ JobIds = 1..Len(jobs) /\ Len(jobs) \in Nat
           /\ \A j \in 1..Len(jobs) :
                /\ jobs[j] \in JobRow /\ k8s[j] \in KubernetesJob
                /\ datums[j] \in Rows
                /\ DOMAIN datums[j] \subseteq Work
                /\ datums[j] \in [DOMAIN datums[j] -> DatumRow]
<1>1. /\ DOMAIN jobs = 1..Len(jobs) /\ Len(jobs) \in Nat
      /\ \A j \in 1..Len(jobs) : /\ jobs[j] \in JobRow /\ k8s[j] \in KubernetesJob
                                 /\ datums[j] \in Rows
  BY LenProperties, ElementOfSeq DEF Typed
<1>2. \A r \in Rows : DOMAIN r \subseteq Work /\ r \in [DOMAIN r -> DatumRow]
  BY DEF Rows
<1> QED
  BY <1>1, <1>2 DEF JobIds

\* What becomes of a row: one step of its lifecycle, or none.
RowStep(j, old, new) ==
    \/ new = old
    \/ old.status \in {"ready", "running"} /\ new.status \in {"running", "done", "error"}
    \/ IsRerunable(j, old) /\ new.status = "ready"

\* What becomes of the job's row.
Verdict(j) ==
    \/ jobs'[j] = jobs[j]
    \/ /\ jobs[j].status = "running"
       /\ jobs'[j].pipeline_spec = jobs[j].pipeline_spec
       /\ \/ /\ jobs'[j].error_message = jobs[j].error_message
             /\ jobs'[j].status = Outcome(j, datums'[j])
          \/ jobs'[j].error_message /\ jobs'[j].status = "error"

Within(j) ==
    /\ Typed' /\ Len(jobs') = Len(jobs) /\ origin' = origin
    /\ \A i \in 1..Len(jobs) :
         /\ i # j => jobs'[i] = jobs[i] /\ datums'[i] = datums[i]
         /\ DOMAIN datums'[i] = DOMAIN datums[i]
         /\ k8s'[i].parallelism = k8s[i].parallelism
         /\ k8s'[i].backoffLimit = k8s[i].backoffLimit
    /\ \A w \in DOMAIN datums[j] : RowStep(j, datums[j][w], datums'[j][w])
    /\ Verdict(j)

\* A job that is decided has no datum left to run, and a done one none that failed.
LEMMA OutcomeIs ==
    ASSUME NEW j, NEW rows
    PROVE  /\ Outcome(j, rows) \in {"running", "error", "done"}
           /\ Outcome(j, rows) # "running" =>
                \A w \in DOMAIN rows : /\ rows[w].status \notin {"ready", "running"}
                                       /\ ~IsRerunable(j, rows[w])
           /\ Outcome(j, rows) = "done" =>
                \A w \in DOMAIN rows : rows[w].status # "error"
BY DEF Outcome

\* The rows of job j, one of them changed.
LEMMA RowChanges ==
    ASSUME Typed, NEW j \in 1..Len(jobs), NEW w \in DOMAIN datums[j], NEW row \in DatumRow,
           datums' = [datums EXCEPT ![j] = [datums[j] EXCEPT ![w] = row]]
    PROVE  /\ datums' \in Seq(Rows) /\ Len(datums') = Len(datums)
           /\ \A i \in 1..Len(jobs) : /\ DOMAIN datums'[i] = DOMAIN datums[i]
                                      /\ i # j => datums'[i] = datums[i]
           /\ \A v \in DOMAIN datums[j] :
                datums'[j][v] = IF v = w THEN row ELSE datums[j][v]
<1> DEFINE rows == [datums[j] EXCEPT ![w] = row]
<1>1. /\ DOMAIN datums[j] \subseteq Work /\ datums[j] \in [DOMAIN datums[j] -> DatumRow]
  BY Indices
<1>2. rows \in [DOMAIN datums[j] -> DatumRow] /\ DOMAIN rows = DOMAIN datums[j]
  BY <1>1
<1>3. rows \in Rows
  BY <1>1, <1>2 DEF Rows
<1>4. \A v \in DOMAIN datums[j] : rows[v] = IF v = w THEN row ELSE datums[j][v]
  BY <1>1
<1> HIDE DEF rows
<1>5. datums \in Seq(Rows) /\ j \in 1..Len(datums)
  BY DEF Typed
<1>6. /\ datums' \in Seq(Rows) /\ Len(datums') = Len(datums)
      /\ \A i \in 1..Len(datums) : datums'[i] = IF i = j THEN rows ELSE datums[i]
  BY <1>3, <1>5, ExceptSeq DEF rows
<1> QED
  BY <1>2, <1>4, <1>6 DEF Typed

\* The job's row is changed.
LEMMA JobChanges ==
    ASSUME Typed, NEW j \in 1..Len(jobs), NEW row \in JobRow,
           jobs' = [jobs EXCEPT ![j] = row]
    PROVE  /\ jobs' \in Seq(JobRow) /\ Len(jobs') = Len(jobs)
           /\ \A i \in 1..Len(jobs) : jobs'[i] = IF i = j THEN row ELSE jobs[i]
BY ExceptSeq DEF Typed

\* update_status_if_done changes one running job, and only if it is decided.
LEMMA UpdateIsAVerdict ==
    ASSUME Typed, NEW j \in 1..Len(jobs), UpdateStatusIfDone(j, datums'[j])
    PROVE  /\ jobs' \in Seq(JobRow) /\ Len(jobs') = Len(jobs) /\ Verdict(j)
           /\ \A i \in 1..Len(jobs) : i # j => jobs'[i] = jobs[i]
<1>1. CASE jobs[j].status = "running"
  <2> DEFINE row == [jobs[j] EXCEPT !.status = Outcome(j, datums'[j])]
  <2>1. jobs[j] \in JobRow /\ Outcome(j, datums'[j]) \in Status
    BY Indices, OutcomeIs DEF Status
  <2>2. /\ row \in JobRow /\ row.status = Outcome(j, datums'[j])
        /\ row.error_message = jobs[j].error_message
        /\ row.pipeline_spec = jobs[j].pipeline_spec
    BY <2>1 DEF JobRow
  <2>3. jobs' = [jobs EXCEPT ![j] = row]
    BY <1>1 DEF UpdateStatusIfDone
  <2> HIDE DEF row
  <2>4. /\ jobs' \in Seq(JobRow) /\ Len(jobs') = Len(jobs)
        /\ \A i \in 1..Len(jobs) : jobs'[i] = IF i = j THEN row ELSE jobs[i]
    BY <2>2, <2>3, JobChanges
  <2> QED
    BY <1>1, <2>2, <2>4 DEF Verdict
<1>2. CASE jobs[j].status # "running"
  BY <1>2 DEF UpdateStatusIfDone, Verdict, Typed
<1> QED
  BY <1>1, <1>2

\* One row of job j is changed, and perhaps the job's row with it.
LEMMA RowStepIsWithin ==
    ASSUME Typed, NEW j \in 1..Len(jobs), NEW w \in DOMAIN datums[j], NEW row \in DatumRow,
           datums' = [datums EXCEPT ![j] = [datums[j] EXCEPT ![w] = row]],
           RowStep(j, datums[j][w], row), UNCHANGED <<k8s, users>>,
           todo' \in [Babysitters -> SUBSET ((1..Len(jobs)) \X Work)],
           UNCHANGED jobs \/ UpdateStatusIfDone(j, datums'[j])
    PROVE  Within(j)
<1>1. /\ jobs \in Seq(JobRow) /\ Len(datums) = Len(jobs) /\ Len(k8s) = Len(jobs)
  BY DEF Typed
<1>2. /\ datums' \in Seq(Rows) /\ Len(datums') = Len(datums)
      /\ \A i \in 1..Len(jobs) : /\ DOMAIN datums'[i] = DOMAIN datums[i]
                                 /\ i # j => datums'[i] = datums[i]
      /\ \A v \in DOMAIN datums[j] :
           datums'[j][v] = IF v = w THEN row ELSE datums[j][v]
  BY RowChanges
<1>3. /\ jobs' \in Seq(JobRow) /\ Len(jobs') = Len(jobs) /\ Verdict(j)
      /\ \A i \in 1..Len(jobs) : i # j => jobs'[i] = jobs[i]
  BY <1>1, UpdateIsAVerdict DEF Verdict
<1>4. \A v \in DOMAIN datums[j] : RowStep(j, datums[j][v], datums'[j][v])
  BY <1>2 DEF RowStep
<1> QED
  BY <1>1, <1>2, <1>3, <1>4 DEF Within, Typed, users

\* The status of one row is changed.
LEMMA StatusStepIsWithin ==
    ASSUME Typed, NEW j \in 1..Len(jobs), NEW w \in DOMAIN datums[j],
           NEW status \in {"ready", "done", "error"},
           DatumBecomes(j, w, status), UNCHANGED <<k8s, users>>,
           todo' \in [Babysitters -> SUBSET ((1..Len(jobs)) \X Work)],
           UNCHANGED jobs \/ UpdateStatusIfDone(j, datums'[j]),
           \/ datums[j][w].status = "running" /\ status # "ready"
           \/ IsRerunable(j, datums[j][w]) /\ status = "ready"
    PROVE  Within(j)
<1> DEFINE row == [datums[j][w] EXCEPT !.status = status]
<1>1. datums[j][w] \in DatumRow /\ status \in Status
  BY Indices DEF Status
<1>2. /\ row \in DatumRow /\ row.status = status
      /\ datums' = [datums EXCEPT ![j] = [datums[j] EXCEPT ![w] = row]]
  BY <1>1 DEF DatumRow, DatumBecomes
<1> HIDE DEF row
<1>3. RowStep(j, datums[j][w], row)
  BY <1>2 DEF RowStep
<1> QED
  BY <1>2, <1>3, RowStepIsWithin

\* A step of a job leaves the other jobs alone.
LEMMA JobStepsAreWithin ==
    ASSUME Typed, NEW j \in 1..Len(jobs), JobStep(j)
    PROVE  Within(j)
<1>1. /\ jobs \in Seq(JobRow) /\ datums \in Seq(Rows) /\ k8s \in Seq(KubernetesJob)
      /\ Len(datums) = Len(jobs) /\ Len(k8s) = Len(jobs) /\ Len(jobs) \in Nat
      /\ jobs[j] \in JobRow /\ k8s[j] \in KubernetesJob
      /\ datums[j] \in [DOMAIN datums[j] -> DatumRow]
  BY Indices DEF Typed
<1>2. CASE Apply(j)
  <2>1. PICK state \in {"applied", "missing"} :
          k8s' = [k8s EXCEPT ![j] = [k8s[j] EXCEPT !.state = state]]
    BY <1>2 DEF Apply
  <2> DEFINE new == [k8s[j] EXCEPT !.state = state]
  <2>2. /\ new \in KubernetesJob /\ new.parallelism = k8s[j].parallelism
        /\ new.backoffLimit = k8s[j].backoffLimit
    BY <1>1 DEF KubernetesJob
  <2> HIDE DEF new
  <2>3. /\ k8s' \in Seq(KubernetesJob) /\ Len(k8s') = Len(k8s)
        /\ \A i \in 1..Len(k8s) : k8s'[i] = IF i = j THEN new ELSE k8s[i]
    BY <1>1, <2>1, <2>2, ExceptSeq DEF new
  <2> QED
    BY <1>1, <1>2, <2>2, <2>3 DEF Apply, tables, users, Within, Typed, RowStep, Verdict
<1>3. ASSUME NEW w \in DOMAIN datums[j], ReserveDatum(j, w)
      PROVE  Within(j)
  <2> DEFINE row == [status |-> "running",
                     attempted_run_count |-> datums[j][w].attempted_run_count + 1]
  <2>1. datums[j][w].attempted_run_count \in Nat
    BY <1>1 DEF DatumRow
  <2>2. row \in DatumRow /\ row.status = "running"
    BY <2>1 DEF DatumRow, Status
  <2>3. datums' = [datums EXCEPT ![j] = [datums[j] EXCEPT ![w] = row]]
    BY <1>3 DEF ReserveDatum
  <2> HIDE DEF row
  <2>4. RowStep(j, datums[j][w], row)
    BY <1>3, <2>2 DEF ReserveDatum, RowStep
  <2>5. /\ UNCHANGED jobs /\ UNCHANGED <<k8s, users>>
        /\ todo' \in [Babysitters -> SUBSET ((1..Len(jobs)) \X Work)]
    BY <1>3 DEF Typed, ReserveDatum
  <2> QED
    BY <2>2, <2>3, <2>4, <2>5, RowStepIsWithin
<1>4. ASSUME NEW w \in DOMAIN datums[j], PatchDatum(j, w)
      PROVE  Within(j)
  <2>1. /\ datums[j][w].status = "running" /\ UNCHANGED <<k8s, users>>
        /\ UpdateStatusIfDone(j, datums'[j])
        /\ todo' \in [Babysitters -> SUBSET ((1..Len(jobs)) \X Work)]
    BY <1>4 DEF PatchDatum, Typed
  <2>2. PICK status \in {"done", "error"} : DatumBecomes(j, w, status)
    BY <1>4 DEF PatchDatum
  <2> QED
    BY <2>1, <2>2, StatusStepIsWithin
<1>5. ASSUME NEW w \in DOMAIN datums[j], MarkZombie(j, w)
      PROVE  Within(j)
  <2>1. todo' \in [Babysitters -> SUBSET ((1..Len(jobs)) \X Work)]
    BY <1>5 DEF MarkZombie, Typed
  <2> QED
    BY <1>5, <2>1, StatusStepIsWithin DEF MarkZombie
<1>6. CASE CloseJob(j)
  <2>1. UNCHANGED <<datums, k8s, todo, users>> /\ UpdateStatusIfDone(j, datums'[j])
    BY <1>6 DEF CloseJob
  <2>2. /\ jobs' \in Seq(JobRow) /\ Len(jobs') = Len(jobs) /\ Verdict(j)
        /\ \A i \in 1..Len(jobs) : i # j => jobs'[i] = jobs[i]
    BY <2>1, UpdateIsAVerdict
  <2> QED
    BY <1>1, <2>1, <2>2 DEF users, Within, Typed, RowStep
<1>7. ASSUME NEW b \in Babysitters, FailJob(b, j)
      PROVE  Within(j)
  <2> DEFINE row == [jobs[j] EXCEPT !.status = "error", !.error_message = TRUE]
  <2>1. /\ row \in JobRow /\ row.status = "error" /\ row.error_message
        /\ row.pipeline_spec = jobs[j].pipeline_spec
    BY <1>1 DEF JobRow, Status
  <2>2. jobs' = [jobs EXCEPT ![j] = row]
    BY <1>7 DEF FailJob
  <2> HIDE DEF row
  <2>3. /\ jobs' \in Seq(JobRow) /\ Len(jobs') = Len(jobs)
        /\ \A i \in 1..Len(jobs) : jobs'[i] = IF i = j THEN row ELSE jobs[i]
    BY <2>1, <2>2, JobChanges
  <2>4. jobs[j].status = "running" /\ UNCHANGED <<datums, k8s, todo, users>>
    BY <1>7 DEF FailJob
  <2> QED
    BY <1>1, <2>1, <2>3, <2>4 DEF users, Within, Typed, RowStep, Verdict
<1> QED
  BY <1>2, <1>3, <1>4, <1>5, <1>6, <1>7 DEF JobStep

\* A babysitter reopens a row of one job, or changes nothing but its list.
LEMMA BabysitterStepsAreWithin ==
    ASSUME Typed, NEW b \in Babysitters, BabysitterStep(b)
    PROVE  \/ \E j \in 1..Len(jobs) : Within(j)
           \/ UNCHANGED <<tables, k8s, users>> /\ Typed'
<1> DEFINE Lists == SUBSET ((1..Len(jobs)) \X Work)
<1>1. todo \in [Babysitters -> Lists] /\ JobIds = 1..Len(jobs)
  BY Indices DEF Typed
<1> HIDE DEF Lists
<1>2. ASSUME NEW list \in Lists, todo' = [todo EXCEPT ![b] = list],
             UNCHANGED <<tables, k8s, users>>
      PROVE  Typed'
  <2>1. todo' \in [Babysitters -> Lists]
    BY <1>1, <1>2
  <2> QED
    BY <1>2, <2>1 DEF Typed, tables, users, Lists
<1>3. CASE ReadRerunable(b)
  BY <1>1, <1>2, <1>3 DEF ReadRerunable, Lists
<1>4. CASE AbandonPass(b)
  BY <1>2, <1>4 DEF AbandonPass, Lists
<1>5. ASSUME NEW t \in todo[b], RerunDatum(b, t[1], t[2])
      PROVE  \/ \E j \in 1..Len(jobs) : Within(j)
             \/ UNCHANGED <<tables, k8s, users>> /\ Typed'
  <2> DEFINE j == t[1]
             w == t[2]
             list == todo[b] \ {<<j, w>>}
  <2>1. j \in 1..Len(jobs) /\ todo[b] \in Lists /\ list \in Lists
    BY <1>1 DEF Lists
  <2>2. /\ todo' = [todo EXCEPT ![b] = list] /\ todo' \in [Babysitters -> Lists]
        /\ UNCHANGED <<jobs, k8s, users>>
    BY <1>1, <1>5, <2>1 DEF RerunDatum
  <2> HIDE DEF j, w, list
  <2>3. CASE ~IsRerunable(j, datums[j][w])
    BY <1>2, <1>5, <2>1, <2>2, <2>3 DEF RerunDatum, tables, j, w
  <2>4. CASE IsRerunable(j, datums[j][w]) /\ w \in DOMAIN datums[j]
    <3>1. DatumBecomes(j, w, "ready")
      BY <1>5, <2>4 DEF RerunDatum, j, w
    <3> QED
      BY <2>1, <2>2, <2>4, <3>1, StatusStepIsWithin DEF Lists
  <2>5. CASE w \notin DOMAIN datums[j]
    <3>1. datums[j] = [datums[j] EXCEPT ![w].status = "ready"]
      BY <2>1, <2>5, Indices
    <3>2. datums \in Seq(Rows) /\ Len(datums) = Len(jobs)
      BY DEF Typed
    <3>3. UNCHANGED datums
      BY <1>5, <2>1, <3>1, <3>2 DEF RerunDatum, DatumBecomes, j, w
    <3> QED
      BY <1>2, <2>1, <2>2, <3>3 DEF tables
  <2> QED
    BY <2>3, <2>4, <2>5
<1> QED
  BY <1>3, <1>4, <1>5 DEF BabysitterStep

(***************************************************************************)
(* ... and it keeps the invariant.                                         *)
(***************************************************************************)
LEMMA WithinKeeps ==
    ASSUME JobsInv, NEW j \in 1..Len(jobs), Within(j)
    PROVE  JobsInv'
<1>1. /\ JobIds = 1..Len(jobs) /\ JobIds' = 1..Len(jobs) /\ Len(jobs') = Len(jobs)
      /\ Len(jobs) \in Nat
  <2>1. JobIds' = 1..Len(jobs')
    BY LenProperties DEF Within, Typed, JobIds
  <2> QED
    BY <2>1, Indices DEF Within, JobsInv
<1>2. \A i \in 1..Len(jobs) :
        /\ jobs'[i].pipeline_spec = jobs[i].pipeline_spec
        /\ jobs[i].status = "error" => jobs'[i].status = "error"
        /\ jobs[i].error_message => jobs'[i].error_message
  BY DEF Within, Verdict
<1>3. \A i \in 1..Len(jobs) : \A w \in DOMAIN datums[i] :
        RowStep(i, datums[i][w], datums'[i][w])
  BY DEF Within, RowStep
<1>4. Admitted'
  BY <1>1, <1>2 DEF Within, JobsInv, Admitted
<1>5. Ended'
  <2> SUFFICES ASSUME NEW i \in 1..Len(jobs), NEW w \in DOMAIN datums[i]
               PROVE  /\ datums'[i][w].status # "canceled"
                      /\ jobs'[i].status = "done" => datums'[i][w].status = "done"
                      /\ jobs'[i].status = "error" /\ ~jobs'[i].error_message =>
                           /\ datums'[i][w].status \in {"done", "error"}
                           /\ ~IsRerunable(i, datums[i][w])'
    BY <1>1 DEF Ended, Within
  <2>1. /\ datums[i][w].status # "canceled"
        /\ jobs[i].status = "done" => datums[i][w].status = "done"
        /\ jobs[i].status = "error" /\ ~jobs[i].error_message =>
             /\ datums[i][w].status \in {"done", "error"}
             /\ ~IsRerunable(i, datums[i][w])
    BY DEF JobsInv, Ended
  <2>0. IsRerunable(i, datums[i][w])' <=> IsRerunable(i, datums'[i][w])
    BY <1>2 DEF IsRerunable
  <2>2. datums'[i][w].status # "canceled" /\ datums'[i][w] \in DatumRow
    <3>1. datums'[i][w].status # "canceled"
      BY <1>3, <2>1 DEF RowStep
    <3>2. datums'[i] \in Rows /\ w \in DOMAIN datums'[i]
      BY <1>1, ElementOfSeq DEF Within, Typed
    <3> QED
      BY <3>1, <3>2 DEF Rows
  <2>3. CASE jobs'[i] = jobs[i]
    <3>1. /\ RowStep(i, datums[i][w], datums'[i][w])
          /\ IsRerunable(i, datums[i][w]) => datums[i][w].status = "error"
      BY <1>3 DEF IsRerunable
    <3> QED
      BY <2>0, <2>1, <2>2, <2>3, <3>1 DEF RowStep
  <2>4. CASE jobs'[i] # jobs[i]
    <3>1. i = j /\ Verdict(j)
      BY <2>4 DEF Within
    <3>2. CASE jobs'[j].error_message /\ jobs'[j].status = "error"
      BY <2>2, <3>1, <3>2
    <3>3. CASE jobs'[j].status = Outcome(j, datums'[j])
      <4>1. w \in DOMAIN datums'[j]
        BY <3>1 DEF Within
      <4>2. datums'[i][w].status \in Status
        BY <2>2 DEF DatumRow
      <4> QED
        BY <2>0, <2>2, <3>1, <3>3, <4>1, <4>2, OutcomeIs DEF Status
    <3> QED
      BY <2>4, <3>1, <3>2, <3>3 DEF Verdict
  <2> QED
    BY <2>3, <2>4
<1>6. Kept'
  <2> SUFFICES ASSUME NEW w \in Work
               PROVE  \/ \E i \in 1..Len(jobs) : Done(i, w)'
                      \/ \E i \in 1..Len(jobs) : jobs'[i].error_message
                      \/ \A i \in 1..Len(jobs) : w \in DOMAIN datums'[i]
    BY <1>1 DEF Kept
  <2>1. \A i \in 1..Len(jobs) : Done(i, w) => Done(i, w)'
    BY <1>3 DEF Done, Within, RowStep, IsRerunable
  <2> QED
    BY <1>2, <2>1 DEF Within, JobsInv, Kept
<1> QED
  BY <1>4, <1>5, <1>6 DEF Within, JobsInv

-----------------------------------------------------------------------------
(* A new job.                                                              *)

(***************************************************************************)
(* The rows of a new job come last, and the others are left alone.         *)
(***************************************************************************)
LEMMA Inserted ==
    ASSUME Typed, NEW retried \in 0..Len(jobs), NEW stored \in Specs, NEW work \in SUBSET Work,
           NEW launched \in [parallelism : Nat, backoffLimit : Nat,
                             activeDeadlineSeconds : Nat],
           Insert(retried, stored, work, launched)
    PROVE  LET n == Len(jobs) + 1
           IN  /\ Typed' /\ Len(jobs') = n /\ n \in 1..n
               /\ 1..n = 1..Len(jobs) \cup {n}
               /\ \A i \in 1..Len(jobs) : /\ jobs'[i] = jobs[i] /\ datums'[i] = datums[i]
                                          /\ k8s'[i] = k8s[i] /\ i # n
                                          /\ origin'[i] = origin[i]
               /\ origin'[n] = retried /\ todo' = todo
               /\ jobs'[n].status = "running" /\ jobs'[n].pipeline_spec = stored
               /\ ~jobs'[n].error_message
               /\ DOMAIN datums'[n] = work
               /\ \A w \in work : datums'[n][w].status = "ready"
               /\ k8s'[n].parallelism = launched.parallelism
               /\ k8s'[n].backoffLimit = launched.backoffLimit
<1> DEFINE job == NewJob(stored)
           rows == NewDatums(work)
           applied == NewKubernetesJob(launched)
<1>1. /\ job \in JobRow /\ job.status = "running" /\ job.pipeline_spec = stored
      /\ ~job.error_message
  BY DEF NewJob, JobRow, Status
<1>2. /\ rows \in Rows /\ DOMAIN rows = work
      /\ \A w \in work : rows[w].status = "ready"
  <2>1. [status |-> "ready", attempted_run_count |-> 0] \in DatumRow
    BY DEF DatumRow, Status
  <2>2. rows \in [work -> DatumRow] /\ \A w \in work : rows[w].status = "ready"
    BY <2>1 DEF NewDatums
  <2> QED
    BY <2>2 DEF Rows
<1>3. /\ applied \in KubernetesJob /\ applied.parallelism = launched.parallelism
      /\ applied.backoffLimit = launched.backoffLimit
  BY DEF NewKubernetesJob, KubernetesJob
<1>4. /\ jobs' = Append(jobs, job) /\ datums' = Append(datums, rows)
      /\ k8s' = Append(k8s, applied) /\ user' = "waiting"
      /\ origin' = Append(origin, retried) /\ todo' = todo
  BY DEF Insert
<1> HIDE DEF job, rows, applied
<1>5. /\ jobs \in Seq(JobRow) /\ datums \in Seq(Rows) /\ k8s \in Seq(KubernetesJob)
      /\ Len(datums) = Len(jobs) /\ Len(k8s) = Len(jobs) /\ Len(jobs) \in Nat
      /\ origin \in Seq(Nat) /\ Len(origin) = Len(jobs) /\ retried \in Nat
  BY Indices DEF Typed
<1>6. /\ jobs' \in Seq(JobRow) /\ Len(jobs') = Len(jobs) + 1 /\ jobs'[Len(jobs) + 1] = job
      /\ \A i \in 1..Len(jobs) : jobs'[i] = jobs[i]
  BY <1>1, <1>4, <1>5, AppendProperties
<1>7. /\ datums' \in Seq(Rows) /\ Len(datums') = Len(jobs) + 1
      /\ datums'[Len(jobs) + 1] = rows
      /\ \A i \in 1..Len(jobs) : datums'[i] = datums[i]
  BY <1>2, <1>4, <1>5, AppendProperties
<1>8. /\ k8s' \in Seq(KubernetesJob) /\ Len(k8s') = Len(jobs) + 1
      /\ k8s'[Len(jobs) + 1] = applied
      /\ \A i \in 1..Len(jobs) : k8s'[i] = k8s[i]
  BY <1>3, <1>4, <1>5, AppendProperties
<1>9. /\ origin' \in Seq(Nat) /\ Len(origin') = Len(jobs) + 1
      /\ origin'[Len(jobs) + 1] = retried
      /\ \A i \in 1..Len(jobs) : origin'[i] = origin[i]
  BY <1>4, <1>5, AppendProperties
<1>10. /\ Len(jobs) + 1 \in 1..(Len(jobs) + 1) /\ Len(jobs) + 1 > 0
      /\ 1..(Len(jobs) + 1) = 1..Len(jobs) \cup {Len(jobs) + 1}
      /\ \A i \in 1..Len(jobs) : i # Len(jobs) + 1
  BY <1>5
<1>11. ASSUME NEW i \in 1..(Len(jobs) + 1)
       PROVE  origin'[i] \in 0..(i - 1)
  <2>1. CASE i \in 1..Len(jobs)
    BY <1>9, <2>1 DEF Typed
  <2>2. CASE i = Len(jobs) + 1
    BY <1>5, <1>9, <2>2
  <2> QED
    BY <1>10, <2>1, <2>2
<1>12. todo' \in [Babysitters -> SUBSET ((1..(Len(jobs) + 1)) \X Work)]
  <2> DEFINE old == SUBSET ((1..Len(jobs)) \X Work)
             new == SUBSET ((1..(Len(jobs) + 1)) \X Work)
  <2>1. old \subseteq new
    BY <1>10
  <2>2. todo' \in [Babysitters -> old]
    BY <1>4 DEF Typed
  <2> HIDE DEF old, new
  <2>3. todo' \in [Babysitters -> new]
    BY <2>1, <2>2
  <2> QED
    BY <2>3 DEF new
<1> QED
  BY <1>1, <1>2, <1>3, <1>4, <1>6, <1>7, <1>8, <1>9, <1>10, <1>11, <1>12 DEF Typed

(***************************************************************************)
(* What the manifest asks for.                                             *)
(***************************************************************************)
LEMMA Budgets ==
    ASSUME NEW spec \in PipelineSpec, Accepted(spec)
    PROVE  /\ MaximumCountedPodFailures(spec) \in 1..I32Max
           /\ spec.pod_failures = Unset =>
                LET budget == MaximumCountedPodFailures(spec)
                    twice == 2 * spec.parallelism
                IN  /\ budget >= 4
                    /\ budget >= twice \/ budget = I32Max
                    /\ budget <= twice \/ budget = 4
<1>1. /\ spec.parallelism \in 0..U32Max
      /\ spec.pod_failures \in (0..U32Max) \cup {Unset}
      /\ I32Max \in Nat /\ 4 <= I32Max /\ U32Max \in Nat /\ I32Max <= U32Max
  BY WidthsAssumption DEF PipelineSpec, MINIMUM_DEFAULT
<1>2. CASE spec.pod_failures = Unset
  <2>1. MaximumCountedPodFailures(spec) =
          Clamp(SaturatingMul(spec.parallelism, 2), 4, I32Max)
    BY <1>2 DEF MaximumCountedPodFailures, DefaultForParallelism, DEFAULT_PER_WORKER,
                MINIMUM_DEFAULT
  <2> DEFINE n == SaturatingMul(spec.parallelism, 2)
  <2>2. /\ n \in Nat
        /\ n = 2 * spec.parallelism \/ (n < 2 * spec.parallelism /\ n >= I32Max)
    BY <1>1 DEF SaturatingMul, Smaller
  <2> HIDE DEF n
  <2> QED
    BY <1>1, <2>1, <2>2 DEF Clamp, n
<1>3. CASE spec.pod_failures # Unset
  BY <1>3 DEF Accepted, IsBudget, MaximumCountedPodFailures
<1> QED
  BY <1>2, <1>3

\* The numbers of a manifest are natural numbers.
LEMMA Params ==
    ASSUME NEW spec \in PipelineSpec, Accepted(spec)
    PROVE  JobParams(spec) \in [parallelism : Nat, backoffLimit : Nat,
                                activeDeadlineSeconds : Nat]
<1>1. MaximumCountedPodFailures(spec) \in Nat
  <2>1. MaximumCountedPodFailures(spec) \in 1..I32Max
    BY Budgets
  <2> QED
    BY <2>1, WidthsAssumption
<1>2. spec.parallelism \in Nat
  BY WidthsAssumption DEF PipelineSpec
<1>3. AsSecs(spec.job_timeout) \in Nat
  <2>1. spec.job_timeout \in Nat
    BY DEF PipelineSpec
  <2> QED
    BY <2>1 DEF AsSecs
<1> QED
  BY <1>1, <1>2, <1>3 DEF JobParams

(***************************************************************************)
(* `job run` starts the first job, with all the work.                      *)
(***************************************************************************)
LEMMA RunJobKeeps ==
    ASSUME JobsInv, RunJob
    PROVE  JobsInv'
<1>1. PICK spec \in Specs : IF Accepted(spec)
                            THEN Insert(0, spec, Work, JobParams(spec))
                            ELSE user' = "refused" /\ UNCHANGED <<tables, k8s, todo, origin>>
  BY DEF RunJob
<1>2. /\ spec \in PipelineSpec /\ Typed /\ Len(jobs) = 0 /\ 1..Len(jobs) = {}
  BY SpecsAssumption DEF JobsInv, Typed, RunJob
<1>3. CASE ~Accepted(spec)
  <2>1. UNCHANGED <<jobs, datums, k8s, todo, origin>> /\ user' = "refused"
    BY <1>1, <1>3 DEF tables
  <2>2. Typed'
    BY <1>2, <2>1 DEF Typed
  <2>3. 1..Len(jobs') = {}
    BY <1>2, <2>1
  <2> QED
    BY <2>2, <2>3 DEF JobsInv, Admitted, Ended, Kept
<1>4. CASE Accepted(spec)
  <2> DEFINE launched == JobParams(spec)
  <2>1. /\ launched \in [parallelism : Nat, backoffLimit : Nat, activeDeadlineSeconds : Nat]
        /\ launched.parallelism = spec.parallelism
        /\ launched.backoffLimit = MaximumCountedPodFailures(spec)
    BY <1>2, <1>4, Params DEF JobParams
  <2> HIDE DEF launched
  <2>2. Insert(0, spec, Work, launched)
    BY <1>1, <1>4 DEF launched
  <2>3. /\ Typed' /\ Len(jobs') = 1 /\ 1..Len(jobs') = {1}
        /\ jobs'[1].status = "running" /\ jobs'[1].pipeline_spec = spec
        /\ DOMAIN datums'[1] = Work
        /\ \A w \in Work : datums'[1][w].status = "ready"
        /\ k8s'[1].parallelism = launched.parallelism
        /\ k8s'[1].backoffLimit = launched.backoffLimit
    <3> DEFINE n == Len(jobs) + 1
    <3>1. n = 1 /\ 1..1 = {1}
      BY <1>2
    <3>2. /\ Typed' /\ Len(jobs') = n
          /\ jobs'[n].status = "running" /\ jobs'[n].pipeline_spec = spec
          /\ DOMAIN datums'[n] = Work
          /\ \A w \in Work : datums'[n][w].status = "ready"
          /\ k8s'[n].parallelism = launched.parallelism
          /\ k8s'[n].backoffLimit = launched.backoffLimit
      <4>1. Typed /\ Work \in SUBSET Work /\ 0 \in 0..Len(jobs)
        BY <1>2
      <4> QED
        BY <2>1, <2>2, <4>1, Inserted
    <3> QED
      BY <3>1, <3>2
  <2>4. Admitted'
    <3>1. spec.parallelism \in Nat
      BY <1>2, WidthsAssumption DEF PipelineSpec
    <3>2. [spec EXCEPT !.parallelism = launched.parallelism] = spec
      BY <1>2, <2>1 DEF PipelineSpec
    <3>3. launched.parallelism <= spec.parallelism
      BY <2>1, <3>1
    <3> QED
      BY <1>4, <2>1, <2>3, <3>2, <3>3 DEF Admitted
  <2>5. Ended' /\ Kept'
    BY <2>3 DEF Ended, Kept
  <2> QED
    BY <2>3, <2>4, <2>5 DEF JobsInv
<1> QED
  BY <1>3, <1>4

(***************************************************************************)
(* `job retry` takes the failed datums of a job that has ended, and leaves *)
(* what there is alone.                                                    *)
(***************************************************************************)
Retried(j) ==
    /\ todo' = todo /\ Len(jobs') = Len(jobs) + 1
    /\ \A i \in 1..Len(jobs) : /\ jobs'[i] = jobs[i] /\ datums'[i] = datums[i]
                               /\ origin'[i] = origin[i]
    /\ jobs[j].status = "error"
    /\ origin'[Len(jobs) + 1] = j
    /\ DOMAIN datums'[Len(jobs) + 1] = ErrorDatums(j)

LEMMA RetryJobKeeps ==
    ASSUME JobsInv, NEW j \in 1..Len(jobs), RetryJob(j)
    PROVE  JobsInv' /\ Retried(j)
<1> DEFINE spec == jobs[j].pipeline_spec
           failed == Cardinality(ErrorDatums(j))
           retried == ForRetry(spec, failed)
           launched == JobParams(retried)
           n == Len(jobs) + 1
<1>1. /\ j \in 0..Len(jobs) /\ Len(jobs) \in Nat /\ jobs[j].status = "error"
      /\ Insert(j, spec, ErrorDatums(j), launched)
  BY Indices DEF RetryJob, JobsInv
<1>2. /\ spec \in Specs /\ spec \in PipelineSpec /\ Accepted(spec)
      /\ DOMAIN datums[j] \subseteq Work
  BY <1>1, Indices, SpecsAssumption DEF JobsInv, Admitted, JobRow
<1>3. ErrorDatums(j) \in SUBSET Work /\ failed \in Nat
  BY <1>2, WorkAssumption, FS_Subset, FS_CardinalityType DEF ErrorDatums
<1>4. /\ retried \in PipelineSpec /\ Accepted(retried)
      /\ retried.parallelism <= spec.parallelism
      /\ retried = [spec EXCEPT !.parallelism = retried.parallelism]
  <2> DEFINE width == Smaller(spec.parallelism, failed)
             Tries == (0..U32Max) \cup {Unset}
             Widths == 0..U32Max
  <2>1. width \in Widths /\ width <= spec.parallelism
    BY <1>2, <1>3, WidthsAssumption DEF Smaller, PipelineSpec
  <2>2. PipelineSpec = [parallelism : Widths, datum_tries : Tries, pod_failures : Tries,
                        job_timeout : Nat]
    BY DEF PipelineSpec
  <2>3. retried = [spec EXCEPT !.parallelism = width]
    BY DEF ForRetry
  <2> HIDE DEF width, Tries, Widths, retried
  <2>4. /\ retried \in PipelineSpec /\ retried.parallelism = width
        /\ retried.pod_failures = spec.pod_failures
        /\ retried.job_timeout = spec.job_timeout
        /\ retried.datum_tries = spec.datum_tries
    BY <1>2, <2>1, <2>2, <2>3
  <2> QED
    BY <1>2, <2>1, <2>3, <2>4 DEF Accepted
<1>5. /\ launched \in [parallelism : Nat, backoffLimit : Nat, activeDeadlineSeconds : Nat]
      /\ launched.parallelism = retried.parallelism
      /\ launched.backoffLimit = MaximumCountedPodFailures(retried)
  BY <1>4, Params DEF JobParams
<1> HIDE DEF launched, retried, failed
<1>6. /\ Typed' /\ Len(jobs') = n /\ n \in 1..n
      /\ 1..n = 1..Len(jobs) \cup {n}
      /\ \A i \in 1..Len(jobs) : /\ jobs'[i] = jobs[i] /\ datums'[i] = datums[i]
                                 /\ k8s'[i] = k8s[i] /\ i # n
                                 /\ origin'[i] = origin[i]
      /\ origin'[n] = j /\ todo' = todo
      /\ jobs'[n].status = "running" /\ jobs'[n].pipeline_spec = spec
      /\ ~jobs'[n].error_message
      /\ DOMAIN datums'[n] = ErrorDatums(j)
      /\ \A w \in ErrorDatums(j) : datums'[n][w].status = "ready"
      /\ k8s'[n].parallelism = launched.parallelism
      /\ k8s'[n].backoffLimit = launched.backoffLimit
  <2>1. Typed
    BY DEF JobsInv
  <2> HIDE DEF spec
  <2> QED
    BY <1>1, <1>2, <1>3, <1>5, <2>1, Inserted
<1>7. Admitted'
  <2>1. [spec EXCEPT !.parallelism = launched.parallelism] = retried
    BY <1>4, <1>5
  <2> QED
    <3>1. /\ Len(jobs') = n /\ 1..n = 1..Len(jobs) \cup {n}
          /\ \A i \in 1..Len(jobs) : jobs'[i] = jobs[i] /\ k8s'[i] = k8s[i]
          /\ jobs'[n].pipeline_spec = spec
          /\ k8s'[n].parallelism = launched.parallelism
          /\ k8s'[n].backoffLimit = launched.backoffLimit
      BY <1>6
    <3>2. Admitted
      BY DEF JobsInv
    <3> HIDE DEF n, spec
    <3> QED
      BY <1>2, <1>4, <1>5, <2>1, <3>1, <3>2 DEF Admitted
<1>8. Ended'
  BY <1>6 DEF JobsInv, Ended, IsRerunable
<1>9. Kept'
  <2> SUFFICES ASSUME NEW w \in Work
               PROVE  \/ \E i \in 1..n : Done(i, w)'
                      \/ \E i \in 1..n : jobs'[i].error_message
                      \/ \A i \in 1..n : w \in DOMAIN datums'[i]
    BY <1>6 DEF Kept
  <2>1. \A i \in 1..Len(jobs) : Done(i, w) => Done(i, w)'
    BY <1>6 DEF Done
  <2>2. \/ \E i \in 1..Len(jobs) : Done(i, w)
        \/ \E i \in 1..Len(jobs) : jobs[i].error_message
        \/ \A i \in 1..Len(jobs) : w \in DOMAIN datums[i]
    BY DEF JobsInv, Kept
  <2>3. CASE (\A i \in 1..Len(jobs) : w \in DOMAIN datums[i]) /\ ~jobs[j].error_message
    <3>1. datums[j][w].status \in {"done", "error"}
      BY <1>1, <2>3 DEF JobsInv, Ended
    <3> QED
      BY <1>1, <1>6, <2>1, <2>3, <3>1 DEF Done, ErrorDatums
  <2> QED
    BY <1>1, <1>6, <2>1, <2>2, <2>3
<1> QED
  BY <1>1, <1>6, <1>7, <1>8, <1>9 DEF JobsInv, Retried

-----------------------------------------------------------------------------
(* The theorems.                                                           *)

\* Each step keeps the invariant, the jobs there are and what their datums stand for.
LEMMA JobsSteps ==
    ASSUME JobsInv, [JobsNext]_vars
    PROVE  /\ JobsInv'
           /\ \A i \in 1..Len(jobs) : /\ i \in 1..Len(jobs')
                                      /\ DOMAIN datums'[i] = DOMAIN datums[i]
                                      /\ origin'[i] = origin[i]
<1>1. Typed /\ JobIds = 1..Len(jobs) /\ Len(jobs) \in Nat
  BY Indices DEF JobsInv
<1>2. CASE UNCHANGED <<jobs, datums, k8s, origin>> /\ Typed'
  BY <1>1, <1>2 DEF JobsInv, Admitted, Ended, Kept, Done, JobIds, IsRerunable
<1>3. CASE RunJob
  <2>1. 1..Len(jobs) = {}
    BY <1>3 DEF RunJob, JobsInv, Typed
  <2> QED
    BY <1>3, <2>1, RunJobKeeps
<1>4. ASSUME NEW j \in JobIds, RetryJob(j)
      PROVE  /\ JobsInv'
             /\ \A i \in 1..Len(jobs) : /\ i \in 1..Len(jobs')
                                        /\ DOMAIN datums'[i] = DOMAIN datums[i]
                                        /\ origin'[i] = origin[i]
  <2>1. JobsInv' /\ Retried(j)
    BY <1>1, <1>4, RetryJobKeeps
  <2> QED
    BY <1>1, <2>1 DEF Retried
<1>5. CASE StopWaiting
  <2>1. /\ UNCHANGED <<jobs, datums, k8s, todo, origin>>
        /\ user = "waiting" /\ user' = "finished"
    BY <1>5 DEF StopWaiting, tables
  <2> QED
    BY <1>1, <1>2, <2>1 DEF Typed
<1>6. CASE Behind
  <2>1. \/ \E j \in 1..Len(jobs) : Within(j)
        \/ UNCHANGED <<tables, k8s, users>> /\ Typed'
    BY <1>1, <1>6, JobStepsAreWithin, BabysitterStepsAreWithin DEF Behind
  <2>2. ASSUME NEW j \in 1..Len(jobs), Within(j)
        PROVE  /\ JobsInv'
               /\ \A i \in 1..Len(jobs) : /\ i \in 1..Len(jobs')
                                          /\ DOMAIN datums'[i] = DOMAIN datums[i]
                                          /\ origin'[i] = origin[i]
    BY <2>2, WithinKeeps DEF Within
  <2> QED
    BY <1>2, <2>1, <2>2 DEF tables, users
<1>7. CASE UNCHANGED vars
  BY <1>1, <1>2, <1>7 DEF vars, tables, users, Typed
<1> QED
  BY <1>3, <1>4, <1>5, <1>6, <1>7 DEF JobsNext, Over

\* The invariant holds in every state.
LEMMA JobsInvariant == JobsSpec => []JobsInv
<1>1. JobsInit => JobsInv
  <2> SUFFICES ASSUME JobsInit PROVE JobsInv
    OBVIOUS
  <2>1. /\ Typed /\ Len(jobs) = 0 /\ 1..Len(jobs) = {}
    BY EmptySeq DEF JobsInit, Typed
  <2> QED
    BY <2>1 DEF JobsInv, Admitted, Ended, Kept
<1>2. JobsInv /\ [JobsNext]_vars => JobsInv'
  BY JobsSteps
<1> QED
  BY <1>1, <1>2, PTL DEF JobsSpec

(***************************************************************************)
(* The tables keep their types, and every number fits its type.            *)
(***************************************************************************)
THEOREM JobsTypes == JobsSpec => []JobsTypeOK
<1>1. JobsInv => JobsTypeOK
  <2> SUFFICES ASSUME JobsInv PROVE JobsTypeOK
    OBVIOUS
  <2>1. /\ DOMAIN datums = 1..Len(jobs) /\ DOMAIN k8s = 1..Len(jobs)
        /\ DOMAIN origin = 1..Len(jobs)
    BY LenProperties DEF JobsInv, Typed
  <2> QED
    BY <2>1, Indices DEF JobsInv, Typed, JobsTypeOK
<1> QED
  BY <1>1, JobsInvariant, PTL

(***************************************************************************)
(* Work is lost only where Kubernetes ended a job.                         *)
(***************************************************************************)
THEOREM NoWorkIsForgotten == JobsSpec => []DoneMeansAllIsDone
<1>1. JobsInv => DoneMeansAllIsDone
  <2> SUFFICES ASSUME JobsInv, user = "finished", jobs[Len(jobs)].status = "done",
                      NEW w \in Work, \A i \in JobIds : ~jobs[i].error_message
               PROVE  \E i \in JobIds : Done(i, w)
    BY DEF DoneMeansAllIsDone
  <2>1. JobIds = 1..Len(jobs) /\ Len(jobs) \in 1..Len(jobs)
    BY Indices DEF JobsInv, Typed
  <2>2. CASE w \in DOMAIN datums[Len(jobs)]
    BY <2>1, <2>2 DEF JobsInv, Ended, Done
  <2> QED
    BY <2>1, <2>2 DEF JobsInv, Kept
<1> QED
  BY <1>1, JobsInvariant, PTL

(***************************************************************************)
(* The budget of failed pods fits the pool and Kubernetes' integers,       *)
(* whatever their widths (pipeline.rs, default_for_parallelism).           *)
(***************************************************************************)
THEOREM BudgetsFit == JobsSpec => []BudgetFitsThePool
<1>1. JobsInv => BudgetFitsThePool
  <2> SUFFICES ASSUME JobsInv, NEW j \in 1..Len(jobs)
               PROVE  LET budget == k8s[j].backoffLimit
                          twice == 2 * k8s[j].parallelism
                      IN  /\ budget \in 1..I32Max
                          /\ jobs[j].pipeline_spec.pod_failures = Unset =>
                               /\ budget >= 4
                               /\ budget >= twice \/ budget = I32Max
                               /\ budget <= twice \/ budget = 4
    BY Indices DEF BudgetFitsThePool, JobsInv
  <2> DEFINE spec == jobs[j].pipeline_spec
             launched == [spec EXCEPT !.parallelism = k8s[j].parallelism]
  <2>1. /\ spec \in PipelineSpec /\ k8s[j].parallelism \in Nat
    BY Indices, SpecsAssumption DEF JobsInv, JobRow, KubernetesJob
  <2>2. /\ Accepted(spec) /\ k8s[j].parallelism <= spec.parallelism
        /\ k8s[j].backoffLimit = MaximumCountedPodFailures(launched)
    BY DEF JobsInv, Admitted
  <2> DEFINE Tries == (0..U32Max) \cup {Unset}
             Widths == 0..U32Max
  <2>3. PipelineSpec = [parallelism : Widths, datum_tries : Tries, pod_failures : Tries,
                        job_timeout : Nat]
    BY DEF PipelineSpec
  <2>4. k8s[j].parallelism \in Widths
    BY <2>1, <2>2, WidthsAssumption DEF PipelineSpec
  <2> HIDE DEF Tries, Widths
  <2>5. /\ launched \in PipelineSpec /\ launched.parallelism = k8s[j].parallelism
        /\ launched.pod_failures = spec.pod_failures
        /\ launched.job_timeout = spec.job_timeout
        /\ launched.datum_tries = spec.datum_tries
    BY <2>1, <2>3, <2>4
  <2>6. Accepted(launched)
    BY <2>2, <2>5 DEF Accepted
  <2> HIDE DEF launched
  <2> QED
    BY <2>2, <2>5, <2>6, Budgets
<1> QED
  BY <1>1, JobsInvariant, PTL

-----------------------------------------------------------------------------
(* One babysitter.                                                         *)

SingleBabysitter == \A b, c \in Babysitters : b = c

(***************************************************************************)
(* Nobody ends a job between the reading of a list and its last row.       *)
(***************************************************************************)
ListsAreCurrent ==
    \A b \in Babysitters : \A t \in todo[b] :
        /\ jobs[t[1]].status = "running"
        /\ t[2] \in DOMAIN datums[t[1]]
        /\ IsRerunable(t[1], datums[t[1]][t[2]])

\* Job i has ended, and all that job k has to do failed there.
Takes(k, i) ==
    /\ jobs[i].status = "error"
    /\ DOMAIN datums[k] \subseteq DOMAIN datums[i]
    /\ \A w \in DOMAIN datums[k] : datums[i][w].status = "error"

Taken == \A k \in 1..Len(jobs) : origin[k] # 0 => Takes(k, origin[k])

(***************************************************************************)
(* A user who retries no job twice retries the last one each time, and a   *)
(* job takes over from all that were before.                               *)
(***************************************************************************)
Chain ==
    (\A j, k \in 1..Len(jobs) : origin[j] = origin[k] => j = k) =>
        \A k \in 1..Len(jobs) : /\ origin[k] = k - 1
                                /\ \A i \in 1..(k - 1) : Takes(k, i)

SingleInv == JobsInv /\ ListsAreCurrent /\ Taken /\ Chain

\* Workers, zombie checks and verdicts have nothing to do with a failed datum,
\* and only the cluster ends a job that may rerun one.
LEMMA JobStepsSpareFailures ==
    ASSUME Typed, NEW j \in 1..Len(jobs), JobStep(j),
           NEW w \in DOMAIN datums[j], datums[j][w].status = "error"
    PROVE  /\ datums'[j][w] = datums[j][w]
           /\ jobs[j].status = "running" /\ IsRerunable(j, datums[j][w]) =>
                jobs'[j].status = "running" \/ \E b \in Babysitters : FailJob(b, j)
<1>1. /\ j \in DOMAIN datums /\ datums \in Seq(Rows) /\ j \in DOMAIN jobs
      /\ jobs \in Seq(JobRow)
  BY LenProperties DEF Typed
<1>2. ASSUME NEW v \in DOMAIN datums[j], v # w, NEW row,
             datums' = [datums EXCEPT ![j] = [datums[j] EXCEPT ![v] = row]]
      PROVE  datums'[j][w] = datums[j][w]
  BY <1>1, <1>2
<1>3. datums'[j][w] = datums[j][w]
  <2>1. ASSUME NEW v \in DOMAIN datums[j],
               ReserveDatum(j, v) \/ PatchDatum(j, v) \/ MarkZombie(j, v)
        PROVE  datums'[j][w] = datums[j][w]
    <3>1. v # w
      BY <2>1 DEF ReserveDatum, PatchDatum, MarkZombie
    <3>2. CASE ReserveDatum(j, v)
      BY <1>2, <3>1, <3>2 DEF ReserveDatum
    <3>3. CASE PatchDatum(j, v) \/ MarkZombie(j, v)
      <4>1. PICK status : DatumBecomes(j, v, status)
        BY <3>3 DEF PatchDatum, MarkZombie
      <4> QED
        BY <1>2, <3>1, <4>1 DEF DatumBecomes
    <3> QED
      BY <2>1, <3>2, <3>3
  <2>2. Apply(j) \/ CloseJob(j) \/ (\E b \in Babysitters : FailJob(b, j)) => UNCHANGED datums
    BY DEF Apply, CloseJob, FailJob, tables
  <2> QED
    BY <2>1, <2>2 DEF JobStep
<1>4. ASSUME UpdateStatusIfDone(j, datums'[j]), jobs[j].status = "running",
             IsRerunable(j, datums[j][w]), w \in DOMAIN datums'[j]
      PROVE  jobs'[j].status = "running"
  <2>1. Outcome(j, datums'[j]) = "running"
    BY <1>3, <1>4 DEF Outcome
  <2>2. jobs' = [jobs EXCEPT ![j] = [jobs[j] EXCEPT !.status = "running"]]
    BY <1>4, <2>1 DEF UpdateStatusIfDone
  <2>3. jobs[j] \in JobRow
    BY Indices
  <2> QED
    BY <1>1, <2>2, <2>3 DEF JobRow
<1>5. \/ UNCHANGED jobs \/ UpdateStatusIfDone(j, datums'[j])
      \/ \E b \in Babysitters : FailJob(b, j)
  BY DEF JobStep, Apply, ReserveDatum, PatchDatum, MarkZombie, CloseJob, tables
<1>6. w \in DOMAIN datums'[j]
  BY JobStepsAreWithin DEF Within
<1> QED
  BY <1>3, <1>4, <1>5, <1>6

\* A rerun is of a datum on a list.
LEMMA BabysitterStepsSpareEndedJobs ==
    ASSUME SingleInv, NEW b \in Babysitters, BabysitterStep(b),
           NEW j \in 1..Len(jobs), jobs[j].status = "error"
    PROVE  jobs'[j] = jobs[j] /\ datums'[j] = datums[j]
<1>1. CASE ReadRerunable(b) \/ AbandonPass(b)
  BY <1>1 DEF ReadRerunable, AbandonPass, tables
<1>2. ASSUME NEW t \in todo[b], RerunDatum(b, t[1], t[2])
      PROVE  jobs'[j] = jobs[j] /\ datums'[j] = datums[j]
  <2>1. t[1] # j /\ jobs' = jobs
    BY <1>2 DEF SingleInv, ListsAreCurrent, RerunDatum
  <2>2. \/ datums' = datums
        \/ datums' = [datums EXCEPT ![t[1]] = [datums[t[1]] EXCEPT ![t[2]] =
                         [datums[t[1]][t[2]] EXCEPT !.status = "ready"]]]
    BY <1>2 DEF RerunDatum, DatumBecomes
  <2>3. j \in DOMAIN datums
    BY LenProperties DEF SingleInv, JobsInv, Typed
  <2> QED
    BY <2>1, <2>2, <2>3
<1> QED
  BY <1>1, <1>2 DEF BabysitterStep

\* What was taken over from an ended job stays as it is.
LEMMA TakenStays ==
    ASSUME SingleInv, Behind,
           NEW k \in 1..Len(jobs), NEW i \in 1..Len(jobs), Takes(k, i)
    PROVE  Takes(k, i)'
<1>1. /\ Typed /\ JobIds = 1..Len(jobs)
      /\ DOMAIN datums'[k] = DOMAIN datums[k] /\ DOMAIN datums'[i] = DOMAIN datums[i]
  <2>1. /\ JobsInv /\ Typed /\ JobsNext
        /\ k \in 1..Len(jobs) /\ i \in 1..Len(jobs)
    BY DEF SingleInv, JobsInv, JobsNext
  <2> QED
    BY <2>1, Indices, JobsSteps
<1>2. ASSUME NEW w \in DOMAIN datums[i], datums[i][w].status = "error"
      PROVE  jobs'[i].status = "error" /\ datums'[i][w].status = "error"
  <2>1. ASSUME NEW j \in 1..Len(jobs), JobStep(j)
        PROVE  jobs'[i].status = "error" /\ datums'[i][w].status = "error"
    <3>1. Within(j)
      BY <1>1, <2>1, JobStepsAreWithin
    <3>2. jobs'[i].status = "error"
      BY <3>1 DEF Within, Verdict, Takes
    <3>3. CASE i = j
      BY <1>1, <1>2, <2>1, <3>2, <3>3, JobStepsSpareFailures
    <3>4. CASE i # j
      BY <1>2, <3>1, <3>2, <3>4 DEF Within
    <3> QED
      BY <3>3, <3>4
  <2>2. ASSUME NEW b \in Babysitters, BabysitterStep(b)
        PROVE  jobs'[i].status = "error" /\ datums'[i][w].status = "error"
    BY <1>2, <2>2, BabysitterStepsSpareEndedJobs DEF Takes
  <2> QED
    BY <1>1, <2>1, <2>2 DEF Behind
<1>3. jobs'[i].status = "error"
  <2>1. ASSUME NEW j \in 1..Len(jobs), JobStep(j)
        PROVE  jobs'[i].status = "error"
    <3>1. Within(j)
      BY <1>1, <2>1, JobStepsAreWithin
    <3> QED
      BY <3>1 DEF Within, Verdict, Takes
  <2>2. ASSUME NEW b \in Babysitters, BabysitterStep(b)
        PROVE  jobs'[i].status = "error"
    BY <2>2, BabysitterStepsSpareEndedJobs DEF Takes
  <2> QED
    BY <1>1, <2>1, <2>2 DEF Behind
<1> QED
  BY <1>1, <1>2, <1>3 DEF Takes

\* With one babysitter the lists stay current.
LEMMA ListsStayCurrent ==
    ASSUME SingleInv, SingleBabysitter, Behind
    PROVE  ListsAreCurrent'
<1>1. /\ Typed /\ Typed' /\ JobIds = 1..Len(jobs)
      /\ \A i \in 1..Len(jobs) : DOMAIN datums'[i] = DOMAIN datums[i]
  <2>1. JobsInv /\ Typed /\ JobsNext
    BY DEF SingleInv, JobsInv, JobsNext
  <2> QED
    BY <2>1, Indices, JobsSteps DEF JobsInv
<1>2. \A b \in Babysitters : \A t \in todo[b] :
        t[1] \in 1..Len(jobs) /\ t = <<t[1], t[2]>>
  BY <1>1 DEF Typed
<1> DEFINE Current(t) == /\ jobs[t[1]].status = "running"
                         /\ t[2] \in DOMAIN datums[t[1]]
                         /\ IsRerunable(t[1], datums[t[1]][t[2]])
           Stays(t) == /\ jobs'[t[1]].status = "running"
                       /\ t[2] \in DOMAIN datums'[t[1]]
                       /\ IsRerunable(t[1], datums[t[1]][t[2]])'
<1>3. \A b \in Babysitters : \A t \in todo[b] : Current(t)
  BY DEF SingleInv, ListsAreCurrent
<1>4. (\A b \in Babysitters : \A t \in todo'[b] : Stays(t)) => ListsAreCurrent'
  BY DEF ListsAreCurrent
<1>5. ASSUME NEW j \in 1..Len(jobs), JobStep(j), NEW b \in Babysitters, NEW t \in todo'[b]
      PROVE  Stays(t)
  <2>1. Within(j) /\ todo' = todo
    BY <1>1, <1>5, JobStepsAreWithin
       DEF JobStep, Apply, ReserveDatum, PatchDatum, MarkZombie, CloseJob, FailJob
  <2>2. Current(t) /\ t[1] \in 1..Len(jobs) /\ t \in todo[b]
    BY <1>2, <1>3, <2>1
  <2> DEFINE i == t[1]
             w == t[2]
  <2>3. CASE i # j
    <3>1. jobs'[i] = jobs[i] /\ datums'[i] = datums[i]
      BY <2>1, <2>2, <2>3 DEF Within
    <3> QED
      BY <2>2, <3>1 DEF IsRerunable
  <2>4. CASE i = j
    <3>1. datums[j][w].status = "error"
      BY <2>2, <2>4 DEF IsRerunable
    <3>2. \A c \in Babysitters : ~FailJob(c, j)
      BY <2>2 DEF SingleBabysitter, FailJob
    <3>3. datums'[j][w] = datums[j][w] /\ jobs'[j].status = "running"
      BY <1>1, <1>5, <2>2, <2>4, <3>1, <3>2, JobStepsSpareFailures
    <3>4. jobs'[j].pipeline_spec = jobs[j].pipeline_spec
      BY <2>1 DEF Within, Verdict
    <3> QED
      BY <1>1, <2>2, <2>4, <3>3, <3>4 DEF IsRerunable
  <2> QED
    BY <2>3, <2>4
<1>6. ASSUME NEW c \in Babysitters, BabysitterStep(c),
             NEW b \in Babysitters, NEW t \in todo'[b]
      PROVE  Stays(t)
  <2>1. b = c /\ todo \in [Babysitters -> SUBSET ((1..Len(jobs)) \X Work)]
    BY DEF SingleBabysitter, SingleInv, JobsInv, Typed
  <2>2. CASE ReadRerunable(c)
    <3>1. /\ jobs' = jobs /\ datums' = datums
          /\ todo'[c] = {u \in JobIds \X Work : /\ jobs[u[1]].status = "running"
                                               /\ u[2] \in DOMAIN datums[u[1]]
                                               /\ IsRerunable(u[1], datums[u[1]][u[2]])}
      BY <2>1, <2>2 DEF ReadRerunable, tables
    <3> QED
      BY <1>6, <2>1, <3>1 DEF IsRerunable
  <2>3. CASE AbandonPass(c)
    <3>1. todo'[c] = {}
      BY <2>1, <2>3 DEF AbandonPass
    <3> QED
      BY <1>6, <2>1, <3>1
  <2>4. ASSUME NEW u \in todo[c], RerunDatum(c, u[1], u[2])
        PROVE  Stays(t)
    <3>1. jobs' = jobs /\ todo'[c] = todo[c] \ {<<u[1], u[2]>>}
      BY <2>1, <2>4 DEF RerunDatum
    <3>2. /\ t \in todo[c] /\ t[1] \in 1..Len(jobs) /\ Current(t)
          /\ t[1] # u[1] \/ t[2] # u[2]
      BY <1>2, <1>3, <1>6, <2>1, <3>1
    <3>3. u[1] \in DOMAIN datums /\ t[1] \in DOMAIN datums
      BY <1>1, <1>2, <3>2, LenProperties DEF Typed
    <3>4. \/ datums' = datums
          \/ datums' = [datums EXCEPT ![u[1]] = [datums[u[1]] EXCEPT ![u[2]] =
                           [datums[u[1]][u[2]] EXCEPT !.status = "ready"]]]
      BY <2>4 DEF RerunDatum, DatumBecomes
    <3>5. datums'[t[1]][t[2]] = datums[t[1]][t[2]]
      BY <3>2, <3>3, <3>4
    <3> QED
      BY <1>1, <3>1, <3>2, <3>5 DEF IsRerunable
  <2> QED
    BY <1>6, <2>2, <2>3, <2>4 DEF BabysitterStep
<1> QED
  BY <1>1, <1>4, <1>5, <1>6 DEF Behind

\* With one babysitter, and whatever the user retries, the invariant is kept.
LEMMA SingleSteps ==
    ASSUME SingleInv, SingleBabysitter, [JobsNext]_vars
    PROVE  SingleInv'
<1>1. /\ JobsInv /\ JobsInv' /\ Typed /\ Typed' /\ JobIds = 1..Len(jobs) /\ Len(jobs) \in Nat
      /\ \A i \in 1..Len(jobs) : /\ i \in 1..Len(jobs')
                                 /\ DOMAIN datums'[i] = DOMAIN datums[i]
  BY Indices, JobsSteps DEF SingleInv, JobsInv
<1>2. \A b \in Babysitters : \A t \in todo[b] : t[1] \in 1..Len(jobs)
  BY <1>1 DEF Typed
<1>3. ASSUME UNCHANGED <<jobs, datums, todo, origin>>
      PROVE  SingleInv'
  BY <1>1, <1>3 DEF SingleInv, ListsAreCurrent, Taken, Chain, Takes, IsRerunable
<1>4. CASE RunJob
  <2>1. Len(jobs) = 0 /\ todo' = todo
    BY <1>1, <1>4 DEF RunJob, Insert, Typed
  <2>2. \/ jobs' = jobs
        \/ \E row : jobs' = Append(jobs, row)
    BY <1>4 DEF RunJob, Insert, tables
  <2>3. Len(jobs') \in Nat /\ Len(jobs') <= 1
    BY <1>1, <2>1, <2>2, LenProperties DEF Typed
  <2>4. ListsAreCurrent'
    BY <1>2, <2>1 DEF ListsAreCurrent
  <2>5. \A k \in 1..Len(jobs') : k = 1 /\ origin'[k] = 0 /\ 1..(k - 1) = {}
    BY <1>1, <2>3 DEF Typed
  <2>6. Taken' /\ Chain'
    BY <2>5 DEF Taken, Chain
  <2> QED
    BY <1>1, <2>4, <2>6 DEF SingleInv
<1>5. ASSUME NEW j \in JobIds, RetryJob(j)
      PROVE  SingleInv'
  <2>0. PICK n \in Nat : n = Len(jobs) + 1
    BY <1>1
  <2>1. Retried(j) /\ j \in 1..Len(jobs) /\ 1..Len(jobs') = 1..Len(jobs) \cup {n}
    <3>1. Retried(j)
      BY <1>1, <1>5, RetryJobKeeps
    <3> QED
      BY <1>1, <2>0, <3>1 DEF Retried
  <2>2. ListsAreCurrent'
    BY <1>2, <2>1 DEF SingleInv, ListsAreCurrent, Retried, IsRerunable
  <2>3. \A k, i \in 1..Len(jobs) : Takes(k, i) => Takes(k, i)'
    BY <2>1 DEF Takes, Retried
  <2>4. Takes(n, j)'
    <3>1. /\ jobs'[j].status = "error" /\ datums'[j] = datums[j]
          /\ DOMAIN datums'[n] = ErrorDatums(j)
      BY <2>0, <2>1 DEF Retried
    <3> QED
      BY <3>1 DEF Takes, ErrorDatums
  <2>5. Taken'
    <3> SUFFICES ASSUME NEW k \in 1..Len(jobs'), origin'[k] # 0
                 PROVE  Takes(k, origin[k])'
      BY DEF Taken
    <3>1. CASE k = n
      <4>1. origin'[k] = j
        BY <2>0, <2>1, <3>1 DEF Retried
      <4> QED
        BY <2>4, <3>1, <4>1 DEF Takes
    <3>2. CASE k \in 1..Len(jobs)
      <4>1. origin'[k] = origin[k]
        BY <2>1, <3>2 DEF Retried
      <4>2. origin[k] \in 0..(k - 1) /\ origin[k] # 0
        BY <1>1, <3>2, <4>1 DEF Typed
      <4>3. PICK i \in 1..Len(jobs) : i = origin[k]
        BY <1>1, <3>2, <4>2
      <4>4. Takes(k, i)
        BY <3>2, <4>2, <4>3 DEF SingleInv, Taken
      <4>5. Takes(k, i)'
        BY <2>3, <3>2, <4>4
      <4> QED
        BY <4>1, <4>3, <4>5 DEF Takes
    <3> QED
      BY <2>1, <3>1, <3>2
  <2>6. Chain'
    <3> SUFFICES ASSUME \A i, k \in 1..Len(jobs') : origin'[i] = origin'[k] => i = k,
                        NEW k \in 1..Len(jobs')
                 PROVE  /\ origin'[k] = k - 1
                        /\ \A i \in 1..(k - 1) : Takes(k, i)'
      BY DEF Chain
    <3>1. \A i \in 1..Len(jobs) : /\ origin[i] = i - 1 /\ origin'[i] = i - 1
                                 /\ \A h \in 1..(i - 1) : Takes(i, h)
      BY <2>1 DEF SingleInv, Chain, Retried
    <3>2. CASE k \in 1..Len(jobs)
      <4>1. \A i \in 1..(k - 1) : i \in 1..Len(jobs)
        BY <1>1, <3>2
      <4> QED
        BY <2>3, <3>1, <3>2, <4>1
    <3>3. CASE k = n
      <4>1. j = Len(jobs)
        <5>1. ASSUME j # Len(jobs) PROVE FALSE
          <6>1. j + 1 \in 1..Len(jobs) /\ j + 1 # n
            BY <1>1, <2>0, <2>1, <5>1
          <6>2. origin'[j + 1] = j /\ origin'[n] = j
            BY <2>0, <2>1, <3>1, <6>1 DEF Retried
          <6> QED
            BY <2>1, <6>1, <6>2
        <5> QED
          BY <5>1
      <4>2. origin'[n] = n - 1
        BY <1>1, <2>0, <2>1, <4>1 DEF Retried
      <4>3. ASSUME NEW i \in 1..(n - 1)
            PROVE  Takes(n, i)'
        <5>1. i \in 1..Len(jobs) /\ (i = j \/ i \in 1..(j - 1))
          BY <1>1, <2>0, <4>1
        <5>2. CASE i = j
          BY <2>4, <5>2 DEF Takes
        <5>3. CASE i \in 1..(j - 1)
          <6>1. Takes(j, i)
            BY <2>1, <3>1, <5>3
          <6>2. Takes(j, i)'
            BY <2>1, <2>3, <5>1, <6>1
          <6> QED
            BY <2>4, <6>2 DEF Takes
        <5> QED
          BY <5>1, <5>2, <5>3
      <4> QED
        BY <3>3, <4>2, <4>3 DEF Takes
    <3> QED
      BY <2>1, <3>2, <3>3
  <2> QED
    BY <1>1, <2>2, <2>5, <2>6 DEF SingleInv
<1>6. CASE StopWaiting \/ UNCHANGED vars
  BY <1>3, <1>6 DEF StopWaiting, vars, tables, users
<1>7. CASE Behind
  <2>1. origin' = origin /\ Len(jobs') = Len(jobs)
    <3>1. \/ \E j \in 1..Len(jobs) : Within(j)
          \/ UNCHANGED <<tables, k8s, users>>
      BY <1>1, <1>7, JobStepsAreWithin, BabysitterStepsAreWithin DEF Behind
    <3> QED
      BY <3>1 DEF Within, tables, users
  <2>2. ListsAreCurrent'
    BY <1>7, ListsStayCurrent
  <2>3. \A k, i \in 1..Len(jobs) : Takes(k, i) => Takes(k, i)'
    BY <1>7, TakenStays
  <2>4. Taken'
    <3> SUFFICES ASSUME NEW k \in 1..Len(jobs), origin[k] # 0
                 PROVE  Takes(k, origin[k])'
      BY <2>1 DEF Taken
    <3>1. PICK i \in 1..Len(jobs) : i = origin[k]
      <4>1. origin[k] \in 0..(k - 1)
        BY <1>1 DEF Typed
      <4> QED
        BY <1>1, <4>1
    <3>2. Takes(k, i)
      BY <3>1 DEF SingleInv, Taken
    <3>3. Takes(k, i)'
      BY <2>3, <3>2
    <3> QED
      BY <2>1, <3>1, <3>3 DEF Takes
  <2>5. Chain'
    <3> SUFFICES ASSUME \A i, k \in 1..Len(jobs) : origin[i] = origin[k] => i = k,
                        NEW k \in 1..Len(jobs)
                 PROVE  /\ origin[k] = k - 1
                        /\ \A i \in 1..(k - 1) : Takes(k, i)'
      BY <2>1 DEF Chain
    <3>1. origin[k] = k - 1 /\ \A i \in 1..(k - 1) : Takes(k, i)
      BY DEF SingleInv, Chain
    <3>2. \A i \in 1..(k - 1) : i \in 1..Len(jobs)
      BY <1>1
    <3> QED
      BY <2>3, <3>1, <3>2
  <2> QED
    BY <1>1, <2>2, <2>4, <2>5 DEF SingleInv
<1> QED
  BY <1>4, <1>5, <1>6, <1>7 DEF JobsNext, Over

LEMMA SingleInvariant ==
    ASSUME SingleBabysitter
    PROVE  JobsSpec => []SingleInv
<1>1. JobsInit => ListsAreCurrent /\ Taken /\ Chain
  <2> SUFFICES ASSUME JobsInit PROVE ListsAreCurrent /\ Taken /\ Chain
    OBVIOUS
  <2>1. 1..Len(jobs) = {} /\ \A b \in Babysitters : todo[b] = {}
    BY EmptySeq DEF JobsInit
  <2> QED
    BY <2>1 DEF ListsAreCurrent, Taken, Chain
<1>2. SingleInv /\ [JobsNext]_vars => SingleInv'
  BY SingleSteps
<1>3. JobsSpec => []JobsInv
  BY JobsInvariant
<1>4. JobsInit /\ JobsInv => SingleInv
  BY <1>1 DEF SingleInv
<1> QED
  BY <1>2, <1>3, <1>4, PTL DEF JobsSpec

(***************************************************************************)
(* With one babysitter, no work is done by two jobs, however long the      *)
(* chain of retries (start_job.rs, retry_job), provided that no job is     *)
(* retried twice.                                                          *)
(***************************************************************************)
THEOREM NoWorkTwice == SingleBabysitter => (JobsSpec => []WorkIsDoneOnce)
<1> SUFFICES ASSUME SingleBabysitter
             PROVE  JobsSpec => []WorkIsDoneOnce
  OBVIOUS
<1>1. SingleInv => WorkIsDoneOnce
  <2> SUFFICES ASSUME SingleInv, RetriedOnce,
                      NEW j \in 1..Len(jobs), NEW k \in 1..Len(jobs),
                      NEW w \in Work, Done(j, w), Done(k, w), j # k
               PROVE  FALSE
    BY Indices DEF WorkIsDoneOnce, SingleInv, JobsInv
  <2>1. (j < k \/ k < j) /\ JobIds = 1..Len(jobs)
    BY Indices DEF SingleInv, JobsInv
  <2>2. \A i \in 1..Len(jobs) : \A h \in 1..(i - 1) : Takes(i, h)
    BY <2>1 DEF SingleInv, Chain, RetriedOnce
  <2>3. j \in 1..(k - 1) \/ k \in 1..(j - 1)
    BY <2>1
  <2> QED
    BY <2>2, <2>3 DEF Takes, Done
<1> QED
  BY <1>1, SingleInvariant, PTL

(***************************************************************************)
(* With one babysitter, a datum that another job took over keeps the       *)
(* status error, whatever else the user retries.                           *)
(***************************************************************************)
THEOREM RetriedDatumsAreLeftAlone ==
    SingleBabysitter => (JobsSpec => RetriedDatumsStayFailed)
<1> SUFFICES ASSUME SingleBabysitter
             PROVE  JobsSpec => RetriedDatumsStayFailed
  OBVIOUS
<1>1. ASSUME SingleInv, [JobsNext]_vars
      PROVE  \A k \in JobIds : origin[k] # 0 =>
               \A w \in DOMAIN datums[k] : datums'[origin[k]][w].status = "error"
  <2> SUFFICES ASSUME NEW k \in 1..Len(jobs), origin[k] # 0, NEW w \in DOMAIN datums[k]
               PROVE  datums'[origin[k]][w].status = "error"
    BY <1>1, Indices DEF SingleInv, JobsInv
  <2>1. SingleInv'
    BY <1>1, SingleSteps
  <2>2. /\ k \in 1..Len(jobs') /\ DOMAIN datums'[k] = DOMAIN datums[k]
        /\ origin'[k] = origin[k]
    BY <1>1, JobsSteps DEF SingleInv
  <2> QED
    BY <2>1, <2>2 DEF SingleInv, Taken, Takes
<1> QED
  BY <1>1, SingleInvariant, PTL DEF JobsSpec, RetriedDatumsStayFailed

=============================================================================
