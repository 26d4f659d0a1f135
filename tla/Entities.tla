------------------------------ MODULE Entities ------------------------------
(***************************************************************************)
(* The things a falconeri job is made of.                                  *)
(***************************************************************************)
EXTENDS Naturals, Statuses

CONSTANTS
    Datums,      \* the datums of the job: one unit of work each
    Pods,        \* every pod Kubernetes ever starts for the job
    None,        \* SQL NULL
    Uris,        \* the URIs an output file can have
    OutputUris,  \* the URIs each datum's command writes below egress_uri
    Links,       \* the URIs whose file in /pfs/out is a symbolic link
    MaxRuns      \* maximum_allowed_run_count, from datum_tries

ASSUME NoneAssumption == None \notin Pods

ASSUME OutputUrisAssumption == OutputUris \in [Datums -> SUBSET Uris]

ASSUME LinksAssumption == Links \subseteq Uris

\* datum_tries is a u32 and start_job.rs only casts it to an i32: 0 is legal.
ASSUME MaxRunsAssumption == MaxRuns \in Nat
=============================================================================
