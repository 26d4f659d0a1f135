---------------------------- MODULE Transactions ----------------------------
(***************************************************************************)
(* The job's rows as Worker and Babysitter see them: every request and     *)
(* every repair is one atomic transaction of JobStore.  Sessions, where    *)
(* the statements of the transactions interleave, implements this.         *)
(***************************************************************************)
EXTENDS JobStore

\* The babysitter's check of a job; failure: Kubernetes gave the job up.
FinishOrFail(failure) ==
    /\ job' = IF failure /\ JobIfDone(datums).status = "running"
              THEN JobFailed
              ELSE JobIfDone(datums)
    /\ UNCHANGED <<datums, output_files>>

Transaction ==
    \/ \E p \in Pods, d \in Datums :
         \/ ReserveNextDatum(p, d)
         \/ \E status \in {"done", "error"} : PatchDatum(p, d, status)
    \/ \E d \in Datums : MarkZombie(d) \/ RerunDatum(d)
    \/ \E failure \in BOOLEAN : FinishOrFail(failure)

OneAtATime == StoreInit /\ [][Transaction]_store
=============================================================================
