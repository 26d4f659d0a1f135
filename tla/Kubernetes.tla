----------------------------- MODULE Kubernetes -----------------------------
(***************************************************************************)
(* The batch Job that Kubernetes runs for a falconeri job, and its pods,   *)
(* as far as src/ depends on them: the manifest of job_manifest.yml.hbs    *)
(* and what `kubectl get jobs` and `kubectl get pods` list.                *)
(*                                                                         *)
(* restartPolicy is Never, so a pod's container runs once; a failed pod is *)
(* replaced by another member of Pods.  parallelism and backoffLimit only  *)
(* remove behaviours (fewer pods at once, a failure that comes at a        *)
(* certain count) and are not counted.                                     *)
(***************************************************************************)
EXTENDS Entities

CONSTANT
    Faults  \* which of AllFaults the cluster may commit

AllFaults == {"apply", "pod", "partition", "job", "delete"}

ASSUME FaultsAssumption == Faults \subseteq AllFaults

VARIABLES
    k8s_job,     \* pending: not yet applied; missing: not listed (any more)
    pods,        \* lost: Kubernetes gave the pod up, its process still runs
    past_cutoff  \* jobs.created_at is more than 15 minutes ago

cluster == <<k8s_job, pods, past_cutoff>>

ClusterTypeOK ==
    /\ k8s_job \in {"pending", "active", "complete", "failed", "missing"}
    /\ pods \in [Pods -> {"none", "running", "lost", "succeeded", "failed"}]
    /\ past_cutoff \in BOOLEAN

ClusterInit ==
    /\ k8s_job = "pending"
    /\ pods = [p \in Pods |-> "none"]
    /\ past_cutoff = FALSE

-----------------------------------------------------------------------------
(* What src/ asks the cluster.                                             *)

\* Mutation: `kubectl get pods` answers with part of the list.
TruncatedListing == {p \in Pods : pods[p] = "running"} \ {CHOOSE p \in Pods : TRUE}

\* get_running_pod_names: only pods in phase Running.
RunningPods == {p \in Pods : pods[p] = "running"}

\* get_all_job_infos: is our job listed, and with a Failed condition?
JobInfo ==
    IF k8s_job \in {"pending", "missing"} THEN "absent"
    ELSE IF k8s_job = "failed" THEN "failed"
    ELSE "healthy"

\* The pod's process executes, wherever Kubernetes thinks it is.
Executes(p) == pods[p] \in {"running", "lost"}

-----------------------------------------------------------------------------
(* What the cluster does.                                                  *)

\* start_batch_job's kubectl apply.
ApplyJob ==
    /\ k8s_job = "pending"
    /\ k8s_job' = "active"
    /\ UNCHANGED <<pods, past_cutoff>>

\* falconerid crashes between its commit and the apply, or the apply fails.
ApplyNever ==
    /\ "apply" \in Faults
    /\ k8s_job = "pending"
    /\ k8s_job' = "missing"
    /\ UNCHANGED <<pods, past_cutoff>>

\* No pod is started once one has succeeded.
StartPod(p) ==
    /\ k8s_job = "active"
    /\ pods[p] = "none"
    /\ \A q \in Pods : pods[q] # "succeeded"
    /\ pods' = [pods EXCEPT ![p] = "running"]
    /\ UNCHANGED <<k8s_job, past_cutoff>>

\* Out of memory, eviction, a node that stops, or the job's own end.
PodFails(p) ==
    /\ "pod" \in Faults
    /\ Executes(p)
    /\ pods' = [pods EXCEPT ![p] = "failed"]
    /\ UNCHANGED <<k8s_job, past_cutoff>>

\* The node is cut off: the pod is not listed again, its process runs on.
PodIsLost(p) ==
    /\ "partition" \in Faults
    /\ pods[p] = "running"
    /\ pods' = [pods EXCEPT ![p] = "lost"]
    /\ UNCHANGED <<k8s_job, past_cutoff>>

JobCompletes ==
    /\ k8s_job = "active"
    /\ \E p \in Pods : pods[p] = "succeeded"
    /\ \A p \in Pods : pods[p] # "running"
    /\ k8s_job' = "complete"
    /\ UNCHANGED <<pods, past_cutoff>>

\* activeDeadlineSeconds or backoffLimit.  Running pods are then stopped.
JobFails ==
    /\ "job" \in Faults
    /\ k8s_job = "active"
    /\ k8s_job' = "failed"
    /\ UNCHANGED <<pods, past_cutoff>>

\* ttlSecondsAfterFinished, or somebody's kubectl delete.
JobIsDeleted ==
    /\ "delete" \in Faults
    /\ k8s_job \in {"active", "complete", "failed"}
    /\ k8s_job' = "missing"
    /\ UNCHANGED <<pods, past_cutoff>>

CutoffPasses ==
    /\ ~past_cutoff
    /\ past_cutoff' = TRUE
    /\ UNCHANGED <<k8s_job, pods>>
=============================================================================
