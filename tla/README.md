# falconeri in TLA+

falconeri runs batch jobs on Kubernetes: a job is cut into *datums*, worker pods
reserve them one at a time from `falconerid`, run a command on each, upload what
it wrote and report. PostgreSQL holds the truth, and a *babysitter* in every
`falconerid` process repairs what crashes, lost pods and failed runs leave behind.

This directory models that protocol, the database transactions it is built from,
the jobs a user starts and retries, and the proxy of the command line. TLC checks
it on small instances, and TLAPS proves its safety properties for every value of
the constants.

## The system

| Component | Source | State | Operations |
|---|---|---|---|
| Job store | `falconeri_common/src/models/`, `schema.rs`, `migrations/` | rows of `jobs`, `datums`, `input_files`, `output_files` | reserve, verify owner, mark done / error / ready, close the job |
| Worker requests | `falconerid/src/main.rs` | none beyond the store | `GET job`, `reserve_next_datum`, `PATCH datum`, `POST` / `PATCH output_files` |
| Babysitter | `falconerid/src/babysitter.rs` | what a pass has read and not yet acted on | finished and vanished jobs, zombies, reruns, every 2 minutes |
| Worker | `falconeri-worker/src/main.rs` | the datum in hand, its output records, the outcome | the loop of `main`, `process_datum`, `upload_outputs` |
| REST client | `rest_api.rs`, `connect_via.rs` | none | requests, retried for about 14 minutes |
| Cluster | `kubernetes.rs`, `job_manifest.yml.hbs` | the Kubernetes Job and its pods | apply, listing of jobs and pods |
| Starting and retrying | `start_job.rs` | none beyond the store | `run_job`, `retry_job` |
| Input algebra | `inputs.rs` | none | `input_to_datums`: atoms, crosses and unions become datums |
| Storage | `storage/{mod,s3,gs}.rs` | the output bucket | `list`, `sync_down`, `sync_up` |
| Pipeline spec | `pipeline.rs` | none | parsing, the failure budget, the job timeout |
| Job commands | `falconeri/src/cmd/job/` | none | run, wait, retry; list and describe |
| Proxy | `falconeri/src/cmd/proxy.rs` | each forward's backoff, its `kubectl` | reconnect, shut down |
| Deployment | `falconeri/src/cmd/deploy.rs` | none | sets the number of `falconerid` processes |

They interact in five ways. Workers send HTTP requests to `falconerid`, which
turns each into one or two transactions. Babysitters read the store and the
cluster in turn and write back one transaction per row. `falconerid` applies a
manifest, after its own commit. Kubernetes starts, kills and lists pods, knowing
nothing of the store. And a user's script starts a job, waits for it, and starts
a second job with what failed in the first.

What is hard in it:

* **stale reads.** A pass reads a list of rows, calls `kubectl`, and then acts on
  the rows one at a time. Production runs two `falconerid` replicas, so two such
  passes race each other as well as the workers;
* **transactions side by side.** Under READ COMMITTED a statement sees the commits
  of others; what orders two reports, or two reservations of one pod, are row
  locks and a unique index;
* **zombies.** A pod that Kubernetes has given up may still run. Its requests are
  fenced by `lock_and_verify_owner`, which compares pod name and status;
* **lost answers.** Every request is retried, so each must be idempotent or refuse;
* **crashes between steps.** Between `run_job`'s commit and the apply, between the
  two transactions of a zombie, between upload and report;
* **exit codes.** A worker that exits with 0 tells Kubernetes to wind down the rest;
* **deciding that the job is over**, exactly once, and not while work remains;
* **two jobs for one piece of work**, once a job is retried;
* **a signal at any moment** of the proxy's sleeping, starting and waiting.

What makes each component correct, in the names used below:

* job store: `DoneJobIsComplete`, `FailedJobIsDecided`, `VerdictIsFinal`,
  `OneDatumPerPod`, `RunsAreBounded`, the lifecycle `KeepsLifecycle`; and for its
  transactions `TransactionsAreAtomic`, `SettledJobIsBeingClosed`,
  `PodsRunOneDatum`, `NobodyWaitsInACircle`;
* worker and its requests: `WorkersLeaveTogether`, `DoneByTheCurrentRun`,
  `OutputsAreOfTheCurrentRun`, `DoneDatumsKeepOutputs`, `DoneFilesAreStored`,
  `DoneDatumsShareNoOutput`;
* babysitter: `OnlyDeadPodsLoseDatums`, `BehavesAsInJobs`, `JobFailureIsReal`,
  `RerunsRemoveOnlyEligibleOutputs`, `OnlyRunningJobsRetry`, `ZombiesAreReaped`,
  `FailedDatumsAreRetried`, `SettledJobIsClosed`, `JobEnds`;
* jobs and their specs: `WorkIsDoneOnce`, `DoneMeansAllIsDone`,
  `RetriedDatumsStayFailed`, `BudgetFitsThePool`, `AcceptedJobsHaveTime`;
* input algebra and downloads: `CrossIsEveryChoice`, `CrossDistributesOverUnion`,
  `RefusedWithItsAtoms`, `SlashIsOptional`, `DownloadsMirrorTheRepo`,
  `DownloadsDoNotCollide`;
* proxy: `ShutdownIsPrompt`, `NoKubectlIsLeft`, `ForwardsAreKeptUp`, `ShutdownEnds`.

Of these the code does not keep `SlashIsOptional` and `AcceptedJobsHaveTime`. With
the two babysitters of production it does not keep
`RerunsRemoveOnlyEligibleOutputs`, `OnlyDeadPodsLoseDatums` and
`OnlyRunningJobsRetry` either, nor what depends on them: `DoneDatumsKeepOutputs`,
`DoneDatumsShareNoOutput`, `WorkIsDoneOnce` and `RetriedDatumsStayFailed` need a
single babysitter. `WorkIsDoneOnce` also needs a user who retries no job twice,
`DoneFilesAreStored` outputs that are no links, and `DownloadsMirrorTheRepo` a
repository without directory markers.

`PROJECT.json` lists every component with what is left out of it, and every
hazard with its line and the properties that cover it.

## Modules

```
Statuses -- Entities -- JobStore ----+-- Worker ------+
                 \                   |                +-- Falconeri -- MCFalconeri
                  ---- Kubernetes ---+-- Babysitter --+      |    \
                                                             |     FalconeriProofs
                                              JobLifecycle (INSTANCE)     |
                                                                    ClusterProofs
            JobStore --- Sessions --- SessionsProofs                      |
                |            \------- MCSessions                    OutputProofs
           Transactions (INSTANCE)

Statuses, Manifest --- Jobs --- JobsProofs          Proxy --- ProxyProofs
                         | \---- MCJobs                 \---- MCProxy
                    (INSTANCE)
                         |
Falconeri, Manifest --- PipelineJob --- MCPipelineJob, ClusterProofs

Inputs -------- MCInputs
      \-------- InputsProofs
Recursion ----/
```

| Module | What it models |
|---|---|
| `Statuses`, `Entities` | the enum `Status`; the constants of one job with their assumptions |
| `JobStore` | variables `job`, `datums`, `output_files`; one operator per transaction, used by the actions of `Worker` and `Babysitter` |
| `Kubernetes` | variables `k8s_job`, `pods`, `past_cutoff`; what the cluster does and what the two listings answer |
| `Worker` | variables `worker` (one process per pod) and `bucket`; one action per request or piece of local work |
| `Babysitter` | variable `babysitter`; one action per query, listing or transaction of a pass |
| `Falconeri` | the composition, and its properties |
| `JobLifecycle` | an abstract specification: what job and datum statuses may do, after the tables of `guide/src/job-lifecycle.md` |
| `Sessions` | the transactions of `JobStore` one SQL statement at a time, with row locks, in any number of database sessions |
| `Transactions` | what `Sessions` implements: the same transactions, each at once |
| `Manifest` | the numbers of a pipeline spec: what is refused, the defaults, what the manifest says |
| `Jobs` | `job run`, `job wait`, `job retry`: a sequence of jobs, each with its rows, its Kubernetes Job and its workers |
| `PipelineJob` | the job of `Falconeri` seen as one of the jobs of `Jobs` |
| `Inputs` | `input_to_datums` with all its helpers, `list` and `sync_down` |
| `Proxy` | `falconeri proxy`: forwards, backoff, shutdown, second by second |
| `MC*` | constants for TLC |
| `*Proofs` | theorems and proofs |
| `Recursion` | lemmas on induction, recursion and lists of lists, for `InputsProofs` |

Operators marked *Mutation* in a module are used by no specification: each is a
wrong version of the definition below it, which the property it is meant for
tells from the right one.

### How state and actions correspond to the code

*One job.* `Falconeri` and `Sessions` follow one job from the commit of `run_job`
(`StoreInit`) to its end. Rows of other jobs are never touched by the operations
they model; what ties jobs together is in `Jobs`.

*Transactions.* In `Falconeri` each transaction is one step. That this is right is
what `Sessions` shows. What happens *outside* a transaction is never one step:
`Datum::zombies` reads the datums (`ReadRunningDatums`) and then asks for the pods
(`FindZombies`), and the transactions come later still (`FailZombie`, `CloseJob`,
once per datum). A babysitter carries what it read in its own state (`suspects`,
`todo`, `job_info`).

*Rows.* `datums[d]` keeps `status`, `pod_name` and `attempted_run_count`;
`job` keeps `status` and whether there is an `error_message`. An `output_files`
row keeps `uri`, `datum`, `status`, and `run`: rows have generated ids, the rows
of a datum are inserted together by one request, so the run that inserted them
identifies them. The code has no such column; only the id comparison of
`PatchOutputFiles` uses it, and properties.

*Requests.* A step of a worker applies what `falconerid` does and then either
gives the worker the answer or loses it, and the worker sends the request again.
A refused request has no effect; the worker sends it again until `WorkerGivesUp`.
So a transaction may be applied any number of times. Copies of one request that
are under way together are in `Sessions`.

*Pods.* Every pod the Job ever starts is a member of `Pods`, so a replacement is
a new name. `lost` is a pod that Kubernetes no longer lists as running while its
process goes on. `PodDies` is the end of pod and process together.

*Constants of a job.* `OutputUris[d]` is what the command of datum `d` writes, the
same on every run. `Links` are outputs that are symbolic links. `Faults` selects
which faults the cluster may commit, so that a run can say which it needs.

*Sessions.* A session is a connection of some `falconerid` process. Its request
follows a script of statements; a step is one statement. A statement sees what is
committed when it begins and what its own transaction wrote (`Visible`). A row is
locked from the `SELECT ... FOR UPDATE` that gave it to the commit or rollback, so
the row a session holds is also the lock; `SKIP LOCKED` passes such rows over; an
`UPDATE` that makes a pod run a datum waits at the unique index for whoever has
written a row with that pod. An `UPDATE` itself is part of the step that locks its
row, since nobody can see it before the commit. A zombie is two transactions. Any
session may be cut at any point before its commit, and any request may come at any
time: sessions do not know whether a worker would send it.

*The refinement of Sessions.* A transaction that counts the datums is right about
them at the count. By the time of its commit others may have committed a rerun or a
zombie, and the decision about the job would no longer be the one `Transactions`
makes. So such a transaction takes effect when it counts: the rows of
`Transactions` are the committed ones, overridden by the rows of the session that
has counted and will commit. Whether it will is a prophecy (`fate`) that the count
makes: a session fated to commit is not cut, one fated to roll back is.

*Jobs.* A datum of a job is a function on part of `Work`, what the datums of the
first job stand for; `retry_job` copies the failed ones. The user runs one
pipeline, and whenever a job has failed may retry it, or one before it, or the same
one again, as after a lost answer; `origin` remembers which. What happens behind
the user's back is `Behind`: workers, cluster and babysitters. A babysitter lists
the rerunable datums of running jobs (`ReadRerunable`) and works the list off row by
row; the transaction for a row looks at the datum and not at the job
(`RerunDatum`), so a list may outlive the job, if another babysitter records the
failure of the Kubernetes Job in between (`FailJob`, with which a pass begins).
`PipelineJob` maps the state of `Falconeri` to that of one such job, and
`BehavesAsInJobs` says that workers, babysitters and cluster do nothing else. The
Kubernetes Job keeps the numbers of its manifest. `retry_job` stores the old spec
and launches with a smaller parallelism, so the two are separate.

*Numbers* (`Manifest`). `parallelism`, `datum_tries` and the failure policy are
`u32`, what Kubernetes accepts is an `i32`, and both widths are constants.
`job_timeout` is in milliseconds, since only what `as_secs` drops matters.

*Proxy.* `main`, one task per forward and its `kubectl`, with the receiver of the
broadcast in the task's state: a receiver gets what is sent while it exists.
The constants are those of the code. A `Tick` is a second; it comes when every
task sleeps or waits for its `kubectl`, so a task that can proceed does so within
the second.

*Input clauses* (`Inputs`). `run_job` expands the clause before it stores anything,
so `Inputs` stands beside the protocol: its `Expand` applies `InputToDatums` to a
clause and to the objects that exist. A path is a sequence of names; the empty name
at its end is a slash there, so `<<"">>` is the base itself with its slash.
An object whose key ends with a slash is a directory marker. The store gives every
object by its location, which has no slash at its end (`Location`), hence the
filter of `list` (`s3.rs:169`, `gs.rs:143`), which looks for one, lets every marker
pass; `uri_to_local_path` then refuses the location of a base, which does not begin
with the base and its slash (`inputs.rs:221`). The third refusal (`inputs.rs:227`) is
for a URI that ends with a slash, as no location does. `unlistable` are the bases for
which `for_uri` or `list` fails, and `slash` says whether the user ended a URI with
one.
Rust's recursions are recursive functions: `InputToDatums` and `AtomsOf` on the
set `Clauses` of clauses a user can write, `CrossOf` on the inputs of a cross. A
clause is read from a JSON document and nested to some depth, which is the
constant `Depth`; nothing but the proofs uses it. The properties compare the
functions with definitions by quantifiers, sets and counting.

## Runs

| Run | Instance | Shows |
|---|---|---|
| `OneBabysitter` | 2 datums that write one and the same output, 2 pods, 1 babysitter, 2 runs each; pods fail or are cut off, workers give up, the Job fails | eleven safety properties of workers, babysitter and outputs |
| `TwoBabysitters` | 1 datum, 2 pods, 2 babysitters, 2 runs; pods fail, the Job fails or is deleted | the verdict is right and final; refinement of `JobLifecycle`; all this is what `Jobs` takes a job to do |
| `Recovery` | 1 datum, 2 pods, 1 babysitter, 2 runs; the apply never comes, pods fail, the Job fails or is deleted | zombies are reaped, failed datums retried, a settled job closed; every job ends |
| `Sessions` | 2 sessions, 2 datums, 2 pods, 2 runs; all requests, cut anywhere | transactions are atomic, the last report closes the job, no deadlock |
| `Jobs` | 2 pieces of work, up to 3 jobs, 1 babysitter, any retry of any failed job; u32 up to 11 and i32 up to 5, every parallelism and every policy, the edges of `datum_tries` and the timeout | retries neither repeat nor forget work; budgets fit |
| `Proxy` | 2 forwards, the code's own seconds | forwards are kept up, the shutdown is prompt and leaves nothing |
| `Inputs` | 2 repositories of 0 to 4 objects: a file, one in a subdirectory, the markers of both directories; either may be unlistable; 2 repo names; all clauses of up to 2 atoms and the nested ones of 3 | what a clause expands to, when it is refused, what is downloaded |
| `StaleRerun`, `StaleZombie`, `StaleRetry` | 1 datum, 2 pods, 2 babysitters | three races of babysitters, see Findings |
| `MissingSlash` | 1 repository, single atoms | an atom that is refused for its spelling, see Findings |
| `SubSecondTimeout` | 1 piece of work, 1 job; timeouts of 0, 0.5 and 1.5 seconds | an accepted job without time, see Findings |

*Why the bounds are enough.* `attempted_run_count` is bounded by the code
(`RunsAreBounded`), times and backoffs are by the proxy; the only bound of the
model's own is `MaxJobs`, in the guard of `RetryJob`. No run has a state
constraint, so each explores its whole state space.

Two datums let one finish while another still runs, waits or fails; two pods let
a datum move from one to the other while the first still sends requests; two
babysitters are what production deploys; two runs allow a first failure and a last
one, `StaleZombie` needs a third. In `OneBabysitter` the two datums share their
only output, so that both the unique constraint and the order of records, uploads
and reports are put to the test. One datum in `TwoBabysitters` loses no race
between babysitters, which act on one datum at a time; what two datums share is
the job row, and there the proofs, which hold for any number, take over: the half
of `DoneJobIsComplete` that says *every* datum is `DoneJobsAreComplete`. `Recovery`
has one datum because a pass works off its lists in any order and each datum is
owed the same; its pods die and are not cut off, because a babysitter sees no
difference. Two sessions are what every race of `Sessions` needs (its two
mutants without a lock fail with two), and a circle of two is the smallest; for
more there are the proofs. With integers of 11 and 5, twice a parallelism passes
both widths, and 4, the least default, is below both. A third job is a retry of a
retry; reruns need a spec with two tries, and the widths of the pool are tried with
jobs of one. `TwoBabysitters` adds to `Falconeri` the spec of its job, which nothing
but the mapping to `Jobs` reads. Three atoms are the least that nest a clause or reach the
recursion of a cross twice; repositories of any number of objects from none to four
give factors of each of these lengths, and the same atom may occur twice. Symmetry is used in safety runs
only.

*Timing assumptions* (`QuarterHourPasses`): `kubectl apply` ends within 15
minutes of the commit, and no babysitter holds a listing from before the apply
for 15 minutes. `JobFailureIsReal` depends on them, nothing else does.

*Deadlock* is checked everywhere but in `Proxy`, where the program exits. `Ended`
is the only stuttering step of `Falconeri`: the job has finished, no process of a
pod executes and the babysitters are asleep. `Over` is that of `Jobs`: the user's
script has ended.

### Fairness

`RecoverySpec` asks strong fairness of each step of a babysitter's pass and
nothing of workers or cluster. `run_babysitter` loops for ever, retries all
errors, and aborts the process on a panic, so that it is restarted; a pass may
be abandoned at any point any number of times, but a step that is reached again
and again succeeds in the end. Weak fairness would not do, because an abandoned
pass disables the step for a while. Under it `ZombiesAreReaped`,
`FailedDatumsAreRetried` and `SettledJobIsClosed` hold whatever the cluster does.
`JobEnds` is an implication: *if* an apply ends one way or the other, a Job ends
(the manifest always has an `activeDeadlineSeconds`) and time passes
(`DeadlineFairness`), the job gets its final status. Workers need no fairness at
all: it does even if none of them ever answers.

`ProxySpec` asks weak fairness of each task's own steps, of the main task's and of
`Tick`: the runtime polls what is ready, and time passes. It asks none of
`kubectl`, which may run for ever or fail at once every time, and none of the
signal, which may never come.

The other specifications state no fairness, and are used for safety only.

## Findings

* **A stale rerun deletes the outputs of the next run** (`StaleRerun`,
  `babysitter.rs:224`). The babysitter checks again under the lock that the datum
  is eligible, but deletes its output records either way. With two replicas the
  second deletes what the next run registered; the worker's patch then updates
  no row, and the datum can end `done` with no record of its outputs. With one
  babysitter `DoneDatumsKeepOutputs` holds.
* **A stale zombie fails a healthy run** (`StaleZombie`, `babysitter.rs:152`). The
  check under the lock looks at the status only, not at the pod that was missing.
  The datum loses a run; its worker is refused. With one babysitter
  `OnlyDeadPodsLoseDatums` holds.
* **A stale rerun outlives its job** (`StaleRetry`, `babysitter.rs:199`).
  `job-lifecycle.md:260` says that after a failure of the Kubernetes Job "datum
  retries stop because they only run while the Falconeri job remains `Running`". The
  list is of running jobs, the transaction that acts on it does not look at the job.
  With two replicas one may make a datum ready after the other has recorded the
  failure. A worker that still runs takes it, and if the user has retried the job by
  then, both jobs may do its work: `WorkIsDoneOnce` and `RetriedDatumsStayFailed`
  hold with one babysitter.
* **A URI is normalised and not used** (`MissingSlash`, `inputs.rs:152`).
  `inputs.rs:124` says "Normalize our URI to always include a slash", and does so
  for the glob `/`; for `/*` the URI goes to `uri_to_local_path` as it was written,
  and a job whose atom lacks the slash is refused, unless there is nothing to list.
* **A timeout of less than a second is a deadline of zero** (`SubSecondTimeout`,
  `start_job.rs:182`). `pipeline.rs:59` refuses a zero timeout because it "would
  fail every job the moment it started", but compares the whole duration; the
  manifest gets `as_secs`, which drops the fraction.

### Smaller remarks

*Babysitter and store.* The diagram at `job-lifecycle.md:115` lists pods before it
reads the running datums, whereas `Datum::zombies` reads datums first, which is the
safe order (a datum reserved in between would look like a zombie).
A reservation does not look at the job either, so that even with one babysitter
a datum that was made ready while the job ran can be handed out after
Kubernetes ended it, to a worker that still runs. The comment at `job.rs:298`
calls the lock in `update_status_if_done` unnecessary "for this routine by itself";
under READ COMMITTED it is what makes one of two last reports see the other
(without it `SettledJobIsBeingClosed` fails). A job without datums is settled
from the start and closed by the first check of a babysitter.

*Jobs.* `retry_job` copies datums with status `error` only, so those that were
ready or running when Kubernetes ended the job are in no later job, and a retry of
a job that failed before any datum did is a job without datums or pods that soon
says `done`: the exception in `DoneMeansAllIsDone`. Nothing recognises a repeated
`job run` or `job retry` whose first answer was lost, and output records are
`UNIQUE` per job, so both jobs would do the work: in `Jobs` the user may retry a job
twice, and `WorkIsDoneOnce` speaks of users who do not. If the connection of a `job run`
breaks, the request may be dropped between commit and apply; a babysitter then
closes the job after its cutoff. A parallelism above `i32::MAX` is refused by
Kubernetes only, after the commit.

*REST.* `plans/REST_CONVENTIONS.md:131` wants zombies to fail fast on a 403; the
client retries every error, for about 14 minutes.

*Inputs.* The glob `/*` descends into subdirectories: `pipeline.rs:243` promises a
datum for each top-level file or subdirectory, and `storage/mod.rs:97` a listing of
what is immediately present, but the drivers list recursively (`s3.rs:161`,
`gs.rs:135`) and every object of a subdirectory becomes a datum of its own. Nothing is
lost by it: `DownloadsMirrorTheRepo` holds. The filter of `list` that should leave a
directory marker out never does (above): a marker of the base makes every `/*`
atom of it refused, and a marker below it becomes a datum whose download asks for
an object that does not exist, as does the download of the whole repository.
`Cross([])` has no datums, as `plans/INPUT_ALGEBRA_EXTENSIONS.md:288` accepts;
`list` of a URI that is a file returns nothing, although `storage/mod.rs:97` has it
return the file.

*Outputs.* A linked output is recorded and not stored: `upload_outputs` chooses records
with `Path::is_file` (`main.rs:299`), which follows links, `sync_up` uploads with
`WalkDir` (`s3.rs:242`, `gs.rs:216`), which does not, although
`storage/mod.rs:114` has the contents "exactly represented". With a URI in `Links`,
`OneBabysitter.cfg` refutes `DoneFilesAreStored`. `sync_up` also drops errors of its
directory walk (`filter_map(|e| e.ok())`).

*Proxy.* "The backoff is for repeated failures" (`proxy.rs:35`), but a `kubectl`
that was up for hours and then exits with an error leaves it as it is, so it never
falls again once it has grown; and a reset one is doubled before the next attempt.

## Proofs

Everything is proved for all values of the constants that satisfy the named
assumptions of the modules: a null that is no pod and no row (`NoneAssumption`,
`NoRowAssumption`), `OutputUris` and `Links` of the right type, `MaxRuns` a natural
number, `Faults` among those known; for jobs, `i32::MAX` between 4 and `u32::MAX`,
specs of the right type, finitely many pieces of work; for the
job of `PipelineJob`, a spec that `run_job` accepts and whose `datum_tries` is `MaxRuns`;
for input clauses, what is said below. The sets of datums, pods,
babysitters, sessions and forwards are any sets, finite or not.

### `FalconeriProofs`: the store

| Theorem | States | Inductive invariant |
|---|---|---|
| `TypeCorrect` | `[]TypeOK` | `TypeInv`: with `BusyWorkersHoldDatums`, a worker past its reservation holds a datum |
| `VerdictsAreFinal` | `VerdictIsFinal` | `TypeInv` |
| `DoneJobsAreComplete` | `[]DoneJobIsComplete` | `VerdictInv` |
| `FailedJobsAreDecided` | `[]FailedJobIsDecided` | `VerdictInv` |
| `PodsHoldOneDatum` | `[]OneDatumPerPod` | itself, over `TypeInv` |
| `RunsStayBounded` | `[]RunsAreBounded` | with `ReadyDatumsMayRun`: a ready datum has a run left, or none behind it |
| `RunsAreKnown` | `[]WorkersKnowTheirRun` | itself, over `TypeInv` |
| `CurrentRunsFinish` | `DoneByTheCurrentRun` | `WorkersKnowTheirRun` |
| `LifecycleIsKept` | `KeepsLifecycle` | `VerdictInv`, step by step to `JobLifecycle!Advance` |

The argument has one pivot. Whatever an actor does to the store is one of six
transactions (`StepsAreTransactions`), so the invariants of the store are proved
once per transaction and not once per action. `VerdictInv` joins both verdicts
and `NothingIsCanceled`: neither verdict is inductive alone, since a done job
stays complete only because its datums are not ready, running or rerunable, and
it is the `rerunable` count of `Outcome` that makes a failed job's datums stay.
`CurrentRunsFinish` rests on the fact that pod names are not reused and a pod
holds its datum without interruption: `OtherStepsKeepOwners` shows that only a
reservation makes an owner, so a worker whose datum was taken never passes the
ownership check again unless it reserved anew, and then it knows the new run.

### `ClusterProofs`: the store and the cluster

| Theorem | States | Inductive invariant |
|---|---|---|
| `WorkersLeaveOnlyTogether` | `[]WorkersLeaveTogether` | itself, over `VerdictInv`: a finished job stays finished |
| `FailuresAreReal` | `[]JobFailureIsReal` | with `FailuresLast`: what a pass was told of a failed Job, and the age of one not listed, stay true |
| `JobsAreImplemented` | `BehavesAsInJobs` | `VerdictInv`, `JobFailureIsReal`, and that an owner's pod has been started |
| `ListsStayCurrent` | `[]ListsAreCurrent`, one babysitter | itself: an owner's pod has been started, and `IsCurrent` of each pass |
| `RetriesStopWithTheJob` | `OnlyRunningJobsRetry`, one babysitter | `ListsAreCurrent` |
| `LivePodsKeepTheirDatums` | `OnlyDeadPodsLoseDatums`, one babysitter | `ListsAreCurrent` |

`FailuresAreReal` is where the timing assumptions enter. The last three assume
`SingleBabysitter`, as `deploy.rs` sets it up for development
(`falconerid_replicas: 1`); production has two, and there `StaleZombie` refutes
`OnlyDeadPodsLoseDatums` and `StaleRetry` refutes `OnlyRunningJobsRetry`. The reason they hold is in `IsCurrent`: a suspect is not
given to another pod between the two reads, because only a rerun of the babysitter itself could make
its datum ready; a zombie found by a listing has a pod that never runs again; and
a datum to be rerun stays failed in a job that cannot end while it can be rerun,
since nobody but this babysitter could record a failure from Kubernetes.

`JobsAreImplemented` ties the two halves of the project together. `Jobs` lets a job
do whatever `Behind` allows, and proves what survives any sequence of
retries; here every step of `Falconeri` is shown to be such a step, or a stutter,
under the mapping of `PipelineJob`. Each of the six transactions is one of the row
steps of `Jobs` followed by the same verdict (`TransactionsAreJobSteps`), with two
obligations that are not about the store: only a started pod reserves
(`ReservedByStartedPods`), and a list of reruns is made and worked off as in `Jobs`
(`RerunsAreThoseOfJobs`), stale or not.

### `OutputProofs`: outputs

| Theorem | States | Inductive invariant |
|---|---|---|
| `RecordsAreOfTheCurrentRun` | `[]OutputsAreOfTheCurrentRun` | `RecordsInv`: with `OutputsAreClaimed`, a URI has records of one datum, whose output it is |
| `RecordsNameObjects` | `[]DoneFilesAreStored`, if `Links = {}` | with `SuccessIsUploaded`: who is about to record success has uploaded everything |
| `RecordsAreLasting` | `[]RecordsLast`, one babysitter | itself: a worker that owns its datum can rely on the answers it got, and a done datum has its records |
| `DoneDatumsAreRecorded` | `[]DoneDatumsKeepOutputs`, one babysitter | `RecordsLast` |
| `DoneDatumsAreApart` | `[]DoneDatumsShareNoOutput`, one babysitter | `RecordsLast`, `OutputsAreClaimed` |

That records are of the current run needs no assumption on babysitters, because
the stale deletion only removes records. That they last does: `StaleRerun` is the
counterexample for two. With one, `ListsAreCurrent` says that what is rerun is a
failed datum, so the deletion never meets the records of a worker that owns its
datum (`OthersTouchFailedDatums`), and other workers touch only their own
(`WorkersTouchTheirOwn`).

### `SessionsProofs`: the transactions

| Theorem | States | Inductive invariant |
|---|---|---|
| `SessionsTypes` | `[]SessionsTypeOK` | `SessionsInv` |
| `ReservationsAreExclusive` | `[]PodsRunOneDatum` | `SessionsInv` |
| `LocksAreTakenInOrder` | `[]NobodyWaitsInACircle` | `SessionsInv` |
| `ReportsCloseTheJob` | `[]SettledJobIsBeingClosed`, if `Datums # {}` | with `CountsHold` |
| `SessionsAreAtomic` | `TransactionsAreAtomic` | `SessionsInv` and the mapping `Truth` |

`SessionsInv` has three parts. `Shapes` says what a session's state is at each place
of its script; `Locks`, that a row is held by one session; `PodsMayRunOneDatum`, that
no two rows, committed or about to be, say that the same pod runs them, which is
what the wait at the unique index gives. No circle (`WaitingIsOrdered`): sessions
that wait for a datum hold nothing; one that waits at the index holds a ready row,
for which only the former wait; one that waits for the job may be waited for by
both, and waits for a session that waits for nobody. `CountsHold`: a count that found work left stays right until its commit,
because whoever could finish that work must count itself, and waits for the job's
lock; only the first transaction of a zombie can, and it owes a count. A job
without datums is settled from the start, hence the hypothesis. For atomicity,
`TruthHolds` turns the `CHOOSE`s of the mapping into the rows of the one session
that will commit; `StatementsAreTransactions` then maps the count that is fated to
commit, and every commit without a count, to a transaction, and every other step
to a stutter.

### `JobsProofs`: retries and budgets

| Theorem | States | Inductive invariant |
|---|---|---|
| `JobsTypes` | `[]JobsTypeOK` | `JobsInv` |
| `NoWorkIsForgotten` | `[]DoneMeansAllIsDone` | `JobsInv` (`Kept`, `Ended`) |
| `BudgetsFit` | `[]BudgetFitsThePool` | `JobsInv` (`Admitted`) |
| `NoWorkTwice` | `[]WorkIsDoneOnce`, one babysitter | `SingleInv` (`Chain`) |
| `RetriedDatumsAreLeftAlone` | `RetriedDatumsStayFailed`, one babysitter | `SingleInv` (`Taken`) |

`JobsInv` is `Typed /\ Admitted /\ Ended /\ Kept`, and holds with any number of
babysitters: a job's end says what its datums are (`Ended`); work is done, or every
job has it, or some job was cut short (`Kept`). A datum that is done stays so, which
is all that this needs. The budgets are arithmetic over any two widths.

`SingleInv` adds what one babysitter gives: what it has listed it can still rerun, in
a job that still runs (`ListsAreCurrent`), because the only step that could end the
job under it, `FailJob`, is its own and comes before the list. So nothing reopens a
failed datum of a failed job: what a job took over stays failed in the job it
retries (`Taken`), and, if no job is retried twice, the jobs form a chain and a datum
of one has failed in all before it (`Chain`). With a second babysitter
`ListsAreCurrent` is what breaks, and `StaleRetry` is the behaviour.

### `ProxyProofs`

| Theorem | States | Inductive invariant |
|---|---|---|
| `ProxyTypes` | `[]ProxyTypeOK` | `ProxyInv` |
| `OneKubectlPerForward` | `[]NoKubectlIsLeft` | `ProxyInv`, the conjunction of the two |
| `ShutdownWaitsForNoSleep` | `[]ShutdownIsPrompt` | `PromptInv`, over the type |

The type allows two processes of a forward, and it is the position of the task that
rules the second one out. `PromptInv` says that a task that has not returned after
the signal has the message in its receiver: tasks are born before `main` listens,
the broadcast reaches all of them, and a task takes the message only to return. So
each of them can proceed, wherever it is, and no second passes
(`NoTickWhileStopping`).

### `InputsProofs` and `Recursion`: the input algebra

| Theorem | States | Rests on |
|---|---|---|
| `ClausesExpand` | what `InputToDatums` is, for every clause | recursion over `Depth` |
| `RefusalsAreExplained` | `[]RefusedWithItsAtoms` | induction over clauses, and what a listing has (`RefusedAtoms`) |
| `CrossesAreComplete` | `[]CrossIsEveryChoice` | induction over the inputs of a cross |
| `CrossesDistribute` | `[]CrossDistributesOverUnion` | the families of the two lists |
| `RepositoriesAreMirrored` | `[]DownloadsMirrorTheRepo` | a listing without markers has each object once (`Listing`) |
| `DownloadsStayApart` | `[]DownloadsDoNotCollide` | induction over clauses |

They hold for clauses of every size and nesting and for repositories of every size,
under two assumptions: names are strings, none in a path is empty but the last, and a
bucket holds finitely many objects (`NamesAssumption`), and a clause is made of clauses nested less deep
(`ClausesAssumption`), as whatever a parser returns is.

The library's induction theorems take an operator as a parameter, which the provers
cannot instantiate. `Recursion` therefore states induction and recursion once for
sets and functions: a claim is the *set* of clauses it holds of, and if some clause
is missing there is a missing one of least depth (`DepthInduction`); a recursive
function exists because it does up to every depth, and those agree as far as they go
(`DepthRecursion`). With the second, `ClausesExpand` turns the `CHOOSE` behind
`InputToDatums` into the equation of the code, and nothing else looks behind it.

Counting goes by *families*: `Lists(list, family)` says that a bijection takes the
family's indices to the places of the list. Concatenation, `FlattenSeq` and the two
loops of a cross are each given a family (`ListsAppended`, `FlattenLists`,
`PairsLists`), families can be reindexed (`ListsReindexed`), and two lists of one
family have the same length and the same copies of each datum (`ListsCounted`). A
cross is then indexed by the choices of one datum of each input, by induction over
its inputs (`CrossListsChoices`), and the two sides of the distributive law by
`<<l, <<i, j>>>>` and `<<i, <<l, j>>>>`. That downloads do not collide needs that each
file of a datum is a file of an atom of the clause (`FilesComeFromAtoms`), and that a
place below `/pfs` determines repository and path (`PlacesAreUnambiguous`).

The inductive invariant of the state machine itself is small (`ExpansionInv`):
nothing changes the clause, the objects or what can be listed.

### Only model-checked

* Liveness: `ZombiesAreReaped`, `FailedDatumsAreRetried`, `SettledJobIsClosed`,
  `JobEnds`, `ForwardsAreKeptUp`, `ShutdownEnds`. The prover knows nothing of
  fairness, which is defined by what is enabled.
* The properties of the runs that expect a violation, which are false. Two of them
  are theorems under a hypothesis that the run drops: `OnlyDeadPodsLoseDatums` and
  `OnlyRunningJobsRetry`, with one babysitter.

Every safety property of a passing run is a theorem, `DoneFilesAreStored` without
links and those named above for one babysitter.

## Not modelled

* **The contents of objects.** The upload is not fenced (`main.rs:325`): a worker that
  lost its datum may overwrite what the next run stored. What that does depends
  on what two runs of the user's command write, which is not in this code.
* **The output-file requests as sessions.** They are atomic steps in `Falconeri`.
  Besides the datum they own they lock keys of the rows they refer to, and entries
  of the unique index; two datums that write overlapping sets of URIs in different
  orders may deadlock, PostgreSQL then aborts one, and its client sends it again.
* **Delayed originals in `Falconeri`.** There a request is applied when the worker
  sends it, any number of times; one that is still under way when its worker has
  gone on is in `Sessions` only, which knows no outputs and no jobs' ends.
* **The spelling of bases.** A base is written as the store would write it. One with a
  doubled slash, or with characters that the store escapes, begins no location, so
  that `/*` is refused at `inputs.rs:221` and a whole repository is downloaded to
  longer paths.
* **Several jobs in one pass.** A pass of `Falconeri` looks at one job. An error for one job ends
  the pass for all; that a pass may be abandoned at any point is in the model.
* **How Kubernetes counts** failed pods against `backoffLimit`, and `parallelism`
  within one job: both only remove behaviours of `Falconeri`.
* **The number of retries and their timing**; a worker gives up whenever it likes.
* **Database connections** (pools, migrations) and **deployment**: plain I/O and
  templates, without state of their own. A broken connection is `Cut` in `Sessions`
  and an abandoned pass or a lost request elsewhere.
* **Read-only commands and endpoints**, authentication, strings of a spec that pass
  through unchanged, rows of `input_files`, which follow their datum.
* **A signal before the proxy's handlers are installed**, which ends the process.

## Plan

Done: all modules and theorems above. What would come next, in this order:

1. `CREATE output_files` in `Sessions`, with the unique index on URIs, key locks and
   the deadlock PostgreSQL breaks.
2. `Jobs` as an abstraction of several instances of `Falconeri` side by side, with a
   babysitter's pass over all of them; `PipelineJob` does it for one.
   A second babysitter in `Jobs`, with what retries still promise then.
3. Versions of objects in the bucket, to say which run's upload survives.
