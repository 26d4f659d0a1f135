------------------------------ MODULE Sessions ------------------------------
(***************************************************************************)
(* The transactions of JobStore one SQL statement at a time.  A session is *)
(* a connection of some falconerid process; any number work on the rows    *)
(* of one job side by side, under READ COMMITTED: a statement sees what    *)
(* was committed when it began, and what its own transaction wrote.        *)
(*                                                                         *)
(* job and datums hold the committed rows.  A session holds the lock of a  *)
(* row from the SELECT ... FOR UPDATE that gave it the row to its commit   *)
(* or rollback, so that the row it holds is also the lock.                 *)
(***************************************************************************)
EXTENDS JobStore, Sequences

CONSTANT SessionIds

ASSUME NoRowAssumption == None \notin DatumRow \cup JobRow

VARIABLES
    session,     \* what each session is doing
    interrupted  \* history: some zombie's second transaction never came

sessions == <<store, session, interrupted>>

-----------------------------------------------------------------------------
(* What a request makes its session do.                                    *)

\* Mutation: the repair of a zombie as one transaction, the job's lock first.
ScriptZombieJobFirst(kind) ==
    CASE kind = "reserve" -> <<"lookup", "select", "assign", "commit">>
      [] kind = "patch"   -> <<"lock_datum", "lock_job", "count", "commit">>
      [] kind = "zombie"  -> <<"lock_job", "lock_datum", "count", "commit">>
      [] kind = "check"   -> <<"lock_job", "count", "commit">>
      [] kind = "rerun"   -> <<"lock_datum", "commit">>
      [] kind = "none"    -> <<"idle">>

\* The statements of each kind of request; a zombie takes two transactions.
Script(kind) ==
    CASE kind = "reserve" -> <<"lookup", "select", "assign", "commit">>
      [] kind = "patch"   -> <<"lock_datum", "lock_job", "count", "commit">>
      [] kind = "zombie"  -> <<"lock_datum", "commit", "lock_job", "count", "commit">>
      [] kind = "check"   -> <<"lock_job", "count", "commit">>
      [] kind = "rerun"   -> <<"lock_datum", "commit">>
      [] kind = "none"    -> <<"idle">>

(***************************************************************************)
(* pod, datum  whom the request is about                                   *)
(* report      what it says: of a datum, or of the Kubernetes job          *)
(* step        the place in the script                                     *)
(* row         the locked row of datum as this transaction leaves it       *)
(* verdict     the locked row of the job, likewise                         *)
(* fate        prophecy, made by the count: will the transaction commit?   *)
(***************************************************************************)
SessionState ==
    [kind : {"none", "reserve", "patch", "zombie", "check", "rerun"},
     pod : Pods \cup {None}, datum : Datums \cup {None},
     report : {"done", "error", "failed", "healthy"}, step : 1..5,
     row : DatumRow \cup {None}, verdict : JobRow \cup {None},
     fate : {"open", "commit", "rollback"}]

Closed == [kind |-> "none", pod |-> None, datum |-> None, report |-> "healthy",
           step |-> 1, row |-> None, verdict |-> None, fate |-> "open"]

SessionsTypeOK ==
    /\ StoreTypeOK
    /\ session \in [SessionIds -> SessionState]
    /\ interrupted \in BOOLEAN

SessionsInit ==
    /\ StoreInit
    /\ session = [s \in SessionIds |-> Closed]
    /\ interrupted = FALSE

-----------------------------------------------------------------------------
(* Locks.                                                                  *)

At(s, statement) == Script(session[s].kind)[session[s].step] = statement

HoldsDatum(s, d) == session[s].row # None /\ session[s].datum = d

HoldsJob(s) == session[s].verdict # None

RunsIn(row, p) == row.status = "running" /\ row.pod_name = p

\* Has t written, and not committed, a version of a datum's row that the
\* unique index must wait for before it lets p run another datum?
IndexWaitsFor(p, t) ==
    /\ session[t].row # None
    /\ \/ RunsIn(session[t].row, p)
       \/ RunsIn(datums[session[t].datum], p)

WaitsFor(s) ==
    {t \in SessionIds \ {s} :
        \/ At(s, "lock_datum") /\ HoldsDatum(t, session[s].datum)
        \/ At(s, "lock_job") /\ HoldsJob(t)
        \/ At(s, "assign") /\ IndexWaitsFor(session[s].pod, t)}

-----------------------------------------------------------------------------
(* Statements.                                                             *)

Becomes(s, state) == session' = [session EXCEPT ![s] = state]

Proceeds(s, state) == Becomes(s, [state EXCEPT !.step = @ + 1])

\* The answer is given, or the transaction rolled back.
Closes(s) == Becomes(s, Closed)

(***************************************************************************)
(* What workers and babysitters may ask for.  They act on what they read   *)
(* earlier, so a request can find any rows.                                *)
(***************************************************************************)
Asked(s) ==
    \/ \E p \in Pods : Becomes(s, [Closed EXCEPT !.kind = "reserve", !.pod = p])
    \/ \E p \in Pods, d \in Datums, status \in {"done", "error"} :
         Becomes(s, [Closed EXCEPT !.kind = "patch", !.pod = p, !.datum = d,
                                   !.report = status])
    \/ \E kind \in {"zombie", "rerun"}, d \in Datums :
         Becomes(s, [Closed EXCEPT !.kind = kind, !.datum = d])
    \/ \E info \in {"failed", "healthy"} :
         Becomes(s, [Closed EXCEPT !.kind = "check", !.report = info])

Begin(s) ==
    /\ At(s, "idle")
    /\ Asked(s)
    /\ UNCHANGED <<store, interrupted>>

\* find_already_reserved_datum, outside any transaction.
LookUp(s) ==
    /\ At(s, "lookup")
    /\ IF \E d \in Datums : OwnedBy(d, session[s].pod)
       THEN Closes(s)
       ELSE Proceeds(s, session[s])
    /\ UNCHANGED <<store, interrupted>>

\* SELECT ... FOR UPDATE SKIP LOCKED LIMIT 1.
Select(s) ==
    /\ At(s, "select")
    /\ LET free == {d \in Datums : /\ datums[d].status = "ready"
                                   /\ \A t \in SessionIds : ~HoldsDatum(t, d)}
       IN  \/ \E d \in free :
                Proceeds(s, [session[s] EXCEPT !.datum = d, !.row = datums[d]])
           \/ free = {} /\ Closes(s)
    /\ UNCHANGED <<store, interrupted>>

\* Mutation: no unique index on running datums.
AssignUnchecked(s) ==
    /\ At(s, "assign")
    /\ Proceeds(s, [session[s] EXCEPT
                      !.row = [status |-> "running", pod_name |-> session[s].pod,
                               attempted_run_count |-> @.attempted_run_count + 1]])
    /\ UNCHANGED <<store, interrupted>>

\* Mutation: the request's node and pod are mixed up, and the node has no row.
AssignForNode(s) ==
    /\ At(s, "assign")
    /\ Proceeds(s, [session[s] EXCEPT
                      !.row = [status |-> "running", pod_name |-> "node",
                               attempted_run_count |-> @.attempted_run_count + 1]])
    /\ UNCHANGED <<store, interrupted>>

\* The UPDATE, refused by the index one_running_datum_per_pod_name if the pod
\* runs another datum.
Assign(s) ==
    /\ At(s, "assign")
    /\ WaitsFor(s) = {}
    /\ IF \E d \in Datums : OwnedBy(d, session[s].pod)
       THEN Closes(s)
       ELSE Proceeds(s, [session[s] EXCEPT
                           !.row = [status |-> "running", pod_name |-> session[s].pod,
                                    attempted_run_count |-> @.attempted_run_count + 1]])
    /\ UNCHANGED <<store, interrupted>>

\* The datum's row, once locked and updated by the request of session s.
Updated(s) ==
    LET row == datums[session[s].datum]
    IN  CASE session[s].kind = "patch" -> [row EXCEPT !.status = session[s].report]
          [] session[s].kind = "zombie" /\ row.status = "running" ->
               [row EXCEPT !.status = "error"]
          [] session[s].kind = "rerun" /\ IsRerunable(row) ->
               [row EXCEPT !.status = "ready"]
          [] OTHER -> row

\* Mutation: the row is read without FOR UPDATE.
ReadDatum(s) ==
    /\ At(s, "lock_datum")
    /\ IF session[s].kind = "patch" /\ ~OwnedBy(session[s].datum, session[s].pod)
       THEN Closes(s)
       ELSE Proceeds(s, [session[s] EXCEPT !.row = Updated(s)])
    /\ UNCHANGED <<store, interrupted>>

\* Nobody sees an UPDATE before the commit: it is part of this step.
LockDatum(s) ==
    /\ At(s, "lock_datum")
    /\ WaitsFor(s) = {}
    /\ IF session[s].kind = "patch" /\ ~OwnedBy(session[s].datum, session[s].pod)
       THEN Closes(s)
       ELSE Proceeds(s, [session[s] EXCEPT !.row = Updated(s)])
    /\ UNCHANGED <<store, interrupted>>

\* Mutation: the job is read without FOR UPDATE.
ReadJob(s) ==
    /\ At(s, "lock_job")
    /\ Proceeds(s, [session[s] EXCEPT !.verdict = job])
    /\ UNCHANGED <<store, interrupted>>

LockJob(s) ==
    /\ At(s, "lock_job")
    /\ WaitsFor(s) = {}
    /\ Proceeds(s, [session[s] EXCEPT !.verdict = job])
    /\ UNCHANGED <<store, interrupted>>

\* What the count of datum_status_counts sees.
Visible(s) ==
    IF session[s].row = None THEN datums
    ELSE [datums EXCEPT ![session[s].datum] = session[s].row]

\* The job's row after the count, and after mark_as_error if that follows.
Counted(s) ==
    LET locked == session[s].verdict
        counted == IF locked.status # "running" THEN locked
                   ELSE [locked EXCEPT !.status = Outcome(Visible(s))]
    IN  IF session[s].report = "failed" /\ counted.status = "running"
        THEN JobFailed
        ELSE counted

Count(s) ==
    /\ At(s, "count")
    /\ \E fate \in {"commit", "rollback"} :
         Proceeds(s, [session[s] EXCEPT !.verdict = Counted(s), !.fate = fate])
    /\ UNCHANGED <<store, interrupted>>

Commit(s) ==
    /\ At(s, "commit")
    /\ session[s].fate # "rollback"
    /\ datums' = Visible(s)
    /\ job' = IF session[s].verdict = None THEN job ELSE session[s].verdict
    /\ IF session[s].step = Len(Script(session[s].kind))
       THEN Closes(s)
       ELSE Proceeds(s, [session[s] EXCEPT !.row = None])
    /\ UNCHANGED <<output_files, interrupted>>

\* The datum of a zombie is committed, the look at its job is to come.
OwesACount(s) == session[s].kind = "zombie" /\ session[s].step > 2

\* The connection breaks or falconerid dies: PostgreSQL rolls back.
Cut(s) ==
    /\ session[s].kind # "none"
    /\ session[s].fate # "commit"
    /\ interrupted' = (interrupted \/ OwesACount(s))
    /\ Closes(s)
    /\ UNCHANGED store

SessionStep(s) ==
    \/ Begin(s)
    \/ LookUp(s)
    \/ Select(s)
    \/ Assign(s)
    \/ LockDatum(s)
    \/ LockJob(s)
    \/ Count(s)
    \/ Commit(s)
    \/ Cut(s)

SessionsNext == \E s \in SessionIds : SessionStep(s)

SessionsSpec == SessionsInit /\ [][SessionsNext]_sessions

-----------------------------------------------------------------------------
(* Properties.                                                             *)

(***************************************************************************)
(* A transaction that counts takes effect when it counts: if it commits,   *)
(* its rows are the truth from then on.                                    *)
(***************************************************************************)
WillCommit(s) == session[s].fate = "commit"

TrueDatums ==
    [d \in Datums |->
        IF \E s \in SessionIds : WillCommit(s) /\ HoldsDatum(s, d)
        THEN session[CHOOSE s \in SessionIds : WillCommit(s) /\ HoldsDatum(s, d)].row
        ELSE datums[d]]

TrueJob ==
    IF \E s \in SessionIds : WillCommit(s)
    THEN session[CHOOSE s \in SessionIds : WillCommit(s)].verdict
    ELSE job

AtomicStore == INSTANCE Transactions WITH job <- TrueJob, datums <- TrueDatums

(***************************************************************************)
(* However the statements of two transactions interleave, the rows change  *)
(* as if every transaction happened at once: each report counts the other  *)
(* datums as they are, no lock is missing (job.rs, update_status_if_done;  *)
(* datum.rs, lock_and_verify_owner).                                       *)
(***************************************************************************)
TransactionsAreAtomic == AtomicStore!OneAtATime

(***************************************************************************)
(* The report that settles the last datum closes the job, also when two    *)
(* arrive together; only the repair of a zombie, whose first transaction   *)
(* does not look at the job, can leave a settled job open, and then until  *)
(* its second transaction, or for a babysitter if that never comes.        *)
(***************************************************************************)
SettledJobIsBeingClosed ==
    job.status = "running" /\ Outcome(datums) # "running" =>
        \/ interrupted
        \/ \E s \in SessionIds : OwesACount(s)

(***************************************************************************)
(* Two requests of one pod, a reservation and its retry that overtook it,  *)
(* never both reserve: the second waits for the first and is refused.      *)
(***************************************************************************)
PodsRunOneDatum ==
    \A p \in Pods, d, e \in Datums : OwnedBy(d, p) /\ OwnedBy(e, p) => d = e

(***************************************************************************)
(* Sessions never wait for each other in a circle, so PostgreSQL has no    *)
(* deadlock to break: datums are locked before the job by all of them.     *)
(***************************************************************************)
NobodyWaitsInACircle ==
    \A circle \in (SUBSET SessionIds) \ {{}} :
        \E s \in circle : WaitsFor(s) \cap circle = {}
=============================================================================
