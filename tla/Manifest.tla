------------------------------ MODULE Manifest ------------------------------
(***************************************************************************)
(* The numbers of a pipeline spec, and what becomes of them in the         *)
(* manifest of the Kubernetes Job.                                         *)
(***************************************************************************)
EXTENDS Integers

CONSTANTS
    U32Max,  \* u32::MAX
    I32Max,  \* i32::MAX, the largest backoffLimit that Kubernetes accepts
    Unset    \* Option::None

DEFAULT_PER_WORKER == 2

MINIMUM_DEFAULT == 4

ASSUME WidthsAssumption ==
    /\ I32Max \in Nat /\ MINIMUM_DEFAULT <= I32Max
    /\ U32Max \in Nat /\ I32Max <= U32Max

ASSUME UnsetAssumption == Unset \notin Int

(***************************************************************************)
(* parallelism   parallelism_spec.constant                                 *)
(* datum_tries   Option<u32>                                               *)
(* pod_failures  worker_failure_policy.maximum_counted_pod_failures, or    *)
(*               Unset if there is no policy                               *)
(* job_timeout   in milliseconds                                           *)
(***************************************************************************)
PipelineSpec ==
    [parallelism : 0..U32Max, datum_tries : (0..U32Max) \cup {Unset},
     pod_failures : (0..U32Max) \cup {Unset}, job_timeout : Nat]

-----------------------------------------------------------------------------
(* What is refused, when the spec is parsed or by run_job.                 *)

\* MaximumCountedPodFailures::try_from.
IsBudget(n) == n \in 1..I32Max

Accepted(spec) ==
    /\ spec.pod_failures = Unset \/ IsBudget(spec.pod_failures)
    /\ spec.job_timeout # 0
    /\ spec.datum_tries = Unset \/ spec.datum_tries <= I32Max

-----------------------------------------------------------------------------
(* The failure budget.                                                     *)

Smaller(m, n) == IF m <= n THEN m ELSE n

Clamp(n, low, high) == IF n < low THEN low ELSE IF n > high THEN high ELSE n

\* Mutation: a multiplication that wraps around.
WrappingMul(m, n) == (m * n) % (U32Max + 1)

SaturatingMul(m, n) == Smaller(m * n, U32Max)

DefaultForParallelism(constant) ==
    Clamp(SaturatingMul(constant, DEFAULT_PER_WORKER), MINIMUM_DEFAULT, I32Max)

MaximumCountedPodFailures(spec) ==
    IF spec.pod_failures = Unset
    THEN DefaultForParallelism(spec.parallelism)
    ELSE spec.pod_failures

-----------------------------------------------------------------------------

MaximumAllowedRunCount(spec) == IF spec.datum_tries = Unset THEN 1 ELSE spec.datum_tries

\* Duration::as_secs drops the fraction.
AsSecs(milliseconds) == milliseconds \div 1000

JobParams(spec) ==
    [parallelism |-> spec.parallelism,
     backoffLimit |-> MaximumCountedPodFailures(spec),
     activeDeadlineSeconds |-> AsSecs(spec.job_timeout)]

\* The spec retry_job starts its job with.
ForRetry(spec, failed) == [spec EXCEPT !.parallelism = Smaller(@, failed)]
=============================================================================
