------------------------------ MODULE Statuses ------------------------------
(***************************************************************************)
(* enum Status, which jobs, datums and output files carry.  No code sets   *)
(* Canceled, but every match on a status has a branch for it.              *)
(***************************************************************************)

Status == {"ready", "running", "done", "error", "canceled"}

HasFinished(status) == status \in {"done", "error", "canceled"}
=============================================================================
