---------------------------- MODULE SessionsProofs ----------------------------
(***************************************************************************)
(* Theorems about Sessions, for any number of datums, pods and sessions    *)
(* and any limit of runs.                                                  *)
(***************************************************************************)
EXTENDS Sessions, TLAPS

-----------------------------------------------------------------------------
(* The inductive invariant.                                                *)

(***************************************************************************)
(* What a session holds follows from its request and how far it has come.  *)
(* A row it has locked is still the committed one, or follows from it.     *)
(***************************************************************************)
ReserveShape(s) ==
    LET x == session[s]
    IN  /\ x.pod \in Pods /\ x.step \in 1..4 /\ x.verdict = None /\ x.fate = "open"
        /\ x.step < 3 => x.row = None
        /\ x.step > 2 => x.datum \in Datums /\ datums[x.datum].status = "ready"
        /\ x.step = 3 => x.row = datums[x.datum]
        /\ x.step = 4 => x.row = [status |-> "running", pod_name |-> x.pod,
                                  attempted_run_count |->
                                     datums[x.datum].attempted_run_count + 1]

\* Once past the locks the verdict is the committed one, until it is counted.
JudgesFrom(s, first) ==
    LET x == session[s]
    IN  /\ x.step < first => x.verdict = None
        /\ x.step = first => x.verdict = job
        /\ x.step > first => x.verdict \in JobRow
        /\ x.step <= first <=> x.fate = "open"

PatchShape(s) ==
    LET x == session[s]
    IN  /\ x.pod \in Pods /\ x.datum \in Datums /\ x.step \in 1..4
        /\ x.report \in {"done", "error"}
        /\ x.step = 1 => x.row = None
        /\ x.step > 1 => x.row = Updated(s) /\ OwnedBy(x.datum, x.pod)
        /\ JudgesFrom(s, 3)

ZombieShape(s) ==
    LET x == session[s]
    IN  /\ x.datum \in Datums /\ x.step \in 1..5 /\ x.report = "healthy"
        /\ x.step = 2 => x.row = Updated(s)
        /\ x.step # 2 => x.row = None
        /\ JudgesFrom(s, 4)

CheckShape(s) ==
    LET x == session[s]
    IN  /\ x.step \in 1..3 /\ x.row = None /\ x.report \in {"failed", "healthy"}
        /\ JudgesFrom(s, 2)

RerunShape(s) ==
    LET x == session[s]
    IN  /\ x.datum \in Datums /\ x.step \in 1..2 /\ x.verdict = None /\ x.fate = "open"
        /\ x.step = 2 => x.row = Updated(s)
        /\ x.step = 1 => x.row = None

Shape(s) ==
    /\ session[s].kind = "none" => session[s] = Closed
    /\ session[s].kind = "reserve" => ReserveShape(s)
    /\ session[s].kind = "patch" => PatchShape(s)
    /\ session[s].kind = "zombie" => ZombieShape(s)
    /\ session[s].kind = "check" => CheckShape(s)
    /\ session[s].kind = "rerun" => RerunShape(s)

Shapes ==
    /\ SessionsTypeOK
    /\ output_files = {}
    /\ \A s \in SessionIds : Shape(s)

(***************************************************************************)
(* A row is locked by one session.                                         *)
(***************************************************************************)
Locks ==
    \A s, t \in SessionIds :
        /\ \A d \in Datums : HoldsDatum(s, d) /\ HoldsDatum(t, d) => s = t
        /\ HoldsJob(s) /\ HoldsJob(t) => s = t

(***************************************************************************)
(* Committed or not, no two rows say that a pod runs them.                 *)
(***************************************************************************)
MayRun(d, p) ==
    \/ OwnedBy(d, p)
    \/ \E s \in SessionIds : HoldsDatum(s, d) /\ RunsIn(session[s].row, p)

PodsMayRunOneDatum ==
    \A p \in Pods, d, e \in Datums : MayRun(d, p) /\ MayRun(e, p) => d = e

(***************************************************************************)
(* A count that found work left is right until it is committed, or another *)
(* session will count again.                                               *)
(***************************************************************************)
Excused(s) == interrupted \/ \E t \in SessionIds \ {s} : OwesACount(t)

CountsHold ==
    \A s \in SessionIds :
        WillCommit(s) /\ session[s].verdict.status = "running" =>
            Outcome(Visible(s)) = "running" \/ Excused(s)

SessionsInv == Shapes /\ Locks /\ PodsMayRunOneDatum
-----------------------------------------------------------------------------
(* Where a session is.                                                     *)

(***************************************************************************)
(* The place in the script tells the statement.                            *)
(***************************************************************************)
LEMMA Places ==
    ASSUME NEW s \in SessionIds, Shapes
    PROVE  LET x == session[s]
           IN  /\ At(s, "idle") <=> x.kind = "none"
               /\ At(s, "lookup") <=> x.kind = "reserve" /\ x.step = 1
               /\ At(s, "select") <=> x.kind = "reserve" /\ x.step = 2
               /\ At(s, "assign") <=> x.kind = "reserve" /\ x.step = 3
               /\ At(s, "lock_datum") <=>
                    x.kind \in {"patch", "zombie", "rerun"} /\ x.step = 1
               /\ At(s, "lock_job") <=> \/ x.kind = "patch" /\ x.step = 2
                                        \/ x.kind = "zombie" /\ x.step = 3
                                        \/ x.kind = "check" /\ x.step = 1
               /\ At(s, "count") <=> \/ x.kind = "patch" /\ x.step = 3
                                     \/ x.kind = "zombie" /\ x.step = 4
                                     \/ x.kind = "check" /\ x.step = 2
               /\ At(s, "commit") <=> \/ x.kind = "reserve" /\ x.step = 4
                                      \/ x.kind = "patch" /\ x.step = 4
                                      \/ x.kind = "zombie" /\ x.step \in {2, 5}
                                      \/ x.kind = "check" /\ x.step = 3
                                      \/ x.kind = "rerun" /\ x.step = 2
<1> DEFINE x == session[s]
<1> USE DEF Shapes, Shape, At, Script
<1>1. CASE x.kind = "none"
  BY <1>1 DEF Closed
<1>2. CASE x.kind = "reserve"
  <2>1. x.step \in 1..4
    BY <1>2 DEF ReserveShape
  <2> QED
    BY <1>2, <2>1
<1>3. CASE x.kind = "patch"
  <2>1. x.step \in 1..4
    BY <1>3 DEF PatchShape
  <2> QED
    BY <1>3, <2>1
<1>4. CASE x.kind = "zombie"
  <2>1. x.step \in 1..5
    BY <1>4 DEF ZombieShape
  <2> QED
    BY <1>4, <2>1
<1>5. CASE x.kind = "check"
  <2>1. x.step \in 1..3
    BY <1>5 DEF CheckShape
  <2> QED
    BY <1>5, <2>1
<1>6. CASE x.kind = "rerun"
  <2>1. x.step \in 1..2
    BY <1>6 DEF RerunShape
  <2> QED
    BY <1>6, <2>1
<1>7. x.kind \in {"none", "reserve", "patch", "zombie", "check", "rerun"}
  BY DEF SessionsTypeOK, SessionState
<1> QED
  BY <1>1, <1>2, <1>3, <1>4, <1>5, <1>6, <1>7

(***************************************************************************)
(* Where a script ends.                                                    *)
(***************************************************************************)
LEMMA Ends ==
    ASSUME NEW s \in SessionIds, Shapes
    PROVE  LET x == session[s]
           IN  x.step = Len(Script(x.kind)) <=>
                 \/ x.kind = "none"
                 \/ x.kind \in {"reserve", "patch"} /\ x.step = 4
                 \/ x.kind = "zombie" /\ x.step = 5
                 \/ x.kind = "check" /\ x.step = 3
                 \/ x.kind = "rerun" /\ x.step = 2
<1> DEFINE x == session[s]
<1>1. x.kind \in {"none", "reserve", "patch", "zombie", "check", "rerun"}
  BY DEF Shapes, SessionsTypeOK, SessionState
<1>2. x.kind = "none" => x.step = 1
  BY DEF Shapes, Shape, Closed
<1> QED
  BY <1>1, <1>2 DEF Script

(***************************************************************************)
(* The row that a request's UPDATE leaves.                                 *)
(***************************************************************************)
LEMMA UpdatedType ==
    ASSUME NEW s \in SessionIds, Shapes, session[s].datum \in Datums
    PROVE  Updated(s) \in DatumRow
<1> DEFINE row == datums[session[s].datum]
<1>1. row \in DatumRow
  BY DEF Shapes, SessionsTypeOK, StoreTypeOK
<1>2. session[s].kind = "patch" => session[s].report \in Status
  BY DEF Shapes, Shape, PatchShape, Status
<1>3. \A status \in Status : [row EXCEPT !.status = status] \in DatumRow
  BY <1>1 DEF DatumRow
<1> QED
  BY <1>1, <1>2, <1>3 DEF Updated, Status

(***************************************************************************)
(* Who holds the row of a datum.                                           *)
(***************************************************************************)
LEMMA HeldRows ==
    ASSUME NEW s \in SessionIds, Shapes
    PROVE  LET x == session[s]
           IN  /\ x.row # None <=> \/ x.kind = "reserve" /\ x.step > 2
                                   \/ x.kind = "patch" /\ x.step > 1
                                   \/ x.kind = "zombie" /\ x.step = 2
                                   \/ x.kind = "rerun" /\ x.step = 2
               /\ x.row # None => x.datum \in Datums /\ x.row \in DatumRow
<1> DEFINE x == session[s]
<1> USE DEF Shapes, Shape
<1>0. /\ datums \in [Datums -> DatumRow]
      /\ None \notin DatumRow
      /\ x.datum \in Datums => Updated(s) \in DatumRow
      /\ x.kind \in {"none", "reserve", "patch", "zombie", "check", "rerun"}
  BY UpdatedType, NoRowAssumption DEF SessionsTypeOK, StoreTypeOK, SessionState
<1>1. CASE x.kind = "none"
  BY <1>1 DEF Closed
<1>2. CASE x.kind = "reserve"
  <2>1. ASSUME x.step = 4
        PROVE  x.row \in DatumRow
    <3>1. ReserveShape(s)
      BY <1>2
    <3>2. datums[x.datum] \in DatumRow
      BY <1>0, <2>1, <3>1 DEF ReserveShape
    <3>3. datums[x.datum].attempted_run_count + 1 \in Nat
      BY <3>2 DEF DatumRow
    <3>4. x.pod \in Pods /\ x.row = [status |-> "running", pod_name |-> x.pod,
             attempted_run_count |-> datums[x.datum].attempted_run_count + 1]
      BY <2>1, <3>1 DEF ReserveShape
    <3> QED
      BY <3>3, <3>4 DEF DatumRow, Status
  <2>2. ReserveShape(s)
    BY <1>2
  <2>3. /\ x.step \in 1..4
        /\ x.step < 3 => x.row = None
        /\ x.step > 2 => x.datum \in Datums
        /\ x.step = 3 => x.row = datums[x.datum]
    BY <2>2 DEF ReserveShape
  <2> QED
    BY <1>0, <1>2, <2>1, <2>3
<1>3. CASE x.kind = "patch"
  BY <1>0, <1>3 DEF PatchShape
<1>4. CASE x.kind = "zombie"
  BY <1>0, <1>4 DEF ZombieShape
<1>5. CASE x.kind = "check"
  BY <1>5 DEF CheckShape
<1>6. CASE x.kind = "rerun"
  BY <1>0, <1>6 DEF RerunShape
<1> QED
  BY <1>0, <1>1, <1>2, <1>3, <1>4, <1>5, <1>6

(***************************************************************************)
(* Who holds the row of the job.                                           *)
(***************************************************************************)
LEMMA HeldJob ==
    ASSUME NEW s \in SessionIds, Shapes
    PROVE  LET x == session[s]
           IN  /\ x.verdict # None <=> \/ x.kind = "patch" /\ x.step > 2
                                       \/ x.kind = "zombie" /\ x.step > 3
                                       \/ x.kind = "check" /\ x.step > 1
               /\ x.verdict # None => x.verdict \in JobRow
               /\ x.fate # "open" <=> \/ x.kind = "patch" /\ x.step = 4
                                      \/ x.kind = "zombie" /\ x.step = 5
                                      \/ x.kind = "check" /\ x.step = 3
<1> DEFINE x == session[s]
<1> USE DEF Shapes, Shape
<1>0. /\ job \in JobRow
      /\ None \notin JobRow
      /\ x.kind \in {"none", "reserve", "patch", "zombie", "check", "rerun"}
      /\ x.fate \in {"open", "commit", "rollback"}
      /\ x.step \in Nat
  BY NoRowAssumption DEF SessionsTypeOK, StoreTypeOK, SessionState
<1>1. CASE x.kind = "none"
  BY <1>1 DEF Closed
<1>2. CASE x.kind = "reserve"
  BY <1>2 DEF ReserveShape
<1>3. CASE x.kind = "patch"
  BY <1>0, <1>3 DEF PatchShape, JudgesFrom
<1>4. CASE x.kind = "zombie"
  BY <1>0, <1>4 DEF ZombieShape, JudgesFrom
<1>5. CASE x.kind = "check"
  BY <1>0, <1>5 DEF CheckShape, JudgesFrom
<1>6. CASE x.kind = "rerun"
  BY <1>6 DEF RerunShape
<1> QED
  BY <1>0, <1>1, <1>2, <1>3, <1>4, <1>5, <1>6

(***************************************************************************)
(* A step of one session leaves the state of the others alone.             *)
(***************************************************************************)
LEMMA Moves ==
    ASSUME Shapes, NEW s \in SessionIds, NEW y, Becomes(s, y)
    PROVE  /\ session'[s] = y
           /\ \A t \in SessionIds \ {s} : session'[t] = session[t]
           /\ y \in SessionState => session' \in [SessionIds -> SessionState]
BY DEF Shapes, SessionsTypeOK, Becomes

(***************************************************************************)
(* ... and what they hold, as long as their rows are left alone.           *)
(***************************************************************************)
LEMMA OthersKeepShape ==
    ASSUME Shapes, NEW t \in SessionIds, session'[t] = session[t],
           session[t].row # None =>
              datums'[session[t].datum] = datums[session[t].datum],
           session[t].verdict # None => job' = job
    PROVE  Shape(t)'
<1> DEFINE x == session[t]
<1> USE DEF Shapes, Shape
<1>1. Updated(t)' = Updated(t) \/ x.row = None
  BY DEF Updated
<1>2. ASSUME NEW first \in {2, 3, 4}, JudgesFrom(t, first),
             x.step \in 1..5, x.step = first => x.verdict # None
      PROVE  JudgesFrom(t, first)'
  BY <1>2 DEF JudgesFrom
<1>3. CASE x.kind = "none"
  <2>1. session'[t] = Closed
    BY <1>3
  <2> QED
    BY <2>1 DEF Closed
<1>4. CASE x.kind = "reserve"
  <2>1. ReserveShape(t)
    BY <1>4
  <2>2. x.step > 2 => x.row # None
    BY <1>4, HeldRows
  <2>3. ReserveShape(t)'
    BY <2>1, <2>2 DEF ReserveShape
  <2> QED
    BY <1>4, <2>3
<1>5. CASE x.kind = "patch"
  <2>1. JudgesFrom(t, 3)'
    BY <1>2, <1>5, HeldJob DEF PatchShape
  <2>2. x.step > 1 => Updated(t)' = Updated(t) /\ OwnedBy(x.datum, x.pod)'
    BY <1>1, <1>5, HeldRows DEF PatchShape, OwnedBy
  <2> QED
    BY <1>5, <2>1, <2>2 DEF PatchShape
<1>6. CASE x.kind = "zombie"
  <2>1. JudgesFrom(t, 4)'
    BY <1>2, <1>6, HeldJob DEF ZombieShape
  <2>2. x.step = 2 => Updated(t)' = Updated(t)
    BY <1>1, <1>6, HeldRows
  <2> QED
    BY <1>6, <2>1, <2>2 DEF ZombieShape
<1>7. CASE x.kind = "check"
  BY <1>2, <1>7, HeldJob DEF CheckShape
<1>8. CASE x.kind = "rerun"
  BY <1>1, <1>8, HeldRows DEF RerunShape
<1> QED
  BY <1>3, <1>4, <1>5, <1>6, <1>7, <1>8 DEF SessionsTypeOK, SessionState

-----------------------------------------------------------------------------
(* Every statement keeps the shapes.                                       *)

(***************************************************************************)
(* The state of a session after a statement is well typed.                 *)
(***************************************************************************)
LEMMA Writes ==
    ASSUME NEW x \in SessionState
    PROVE  /\ x.step < 5 => [x EXCEPT !.step = @ + 1] \in SessionState
           /\ \A row \in DatumRow \cup {None} : [x EXCEPT !.row = row] \in SessionState
           /\ \A d \in Datums, row \in DatumRow :
                [x EXCEPT !.datum = d, !.row = row] \in SessionState
           /\ \A verdict \in JobRow : [x EXCEPT !.verdict = verdict] \in SessionState
           /\ \A verdict \in JobRow, fate \in {"commit", "rollback"} :
                [x EXCEPT !.verdict = verdict, !.fate = fate] \in SessionState
<1> DEFINE Kinds == {"none", "reserve", "patch", "zombie", "check", "rerun"}
           PodsOrNone == Pods \cup {None}
           DatumsOrNone == Datums \cup {None}
           Reports == {"done", "error", "failed", "healthy"}
           Steps == 1..5
           Rows == DatumRow \cup {None}
           Verdicts == JobRow \cup {None}
           Fates == {"open", "commit", "rollback"}
<1>1. SessionState =
        [kind : Kinds, pod : PodsOrNone, datum : DatumsOrNone, report : Reports,
         step : Steps, row : Rows, verdict : Verdicts, fate : Fates]
  BY DEF SessionState
<1>2. /\ x.step \in Steps /\ x.step < 5 => x.step + 1 \in Steps
      /\ DatumRow \subseteq Rows /\ Datums \subseteq DatumsOrNone
      /\ JobRow \subseteq Verdicts /\ {"commit", "rollback"} \subseteq Fates
  BY <1>1
<1> HIDE DEF Kinds, PodsOrNone, DatumsOrNone, Reports, Steps, Rows, Verdicts, Fates
<1>3. x.step < 5 => [x EXCEPT !.step = @ + 1] \in SessionState
  BY <1>1, <1>2
<1>4. \A row \in Rows : [x EXCEPT !.row = row] \in SessionState
  BY <1>1
<1>5. \A d \in DatumsOrNone, row \in Rows :
        [x EXCEPT !.datum = d, !.row = row] \in SessionState
  BY <1>1
<1>6. \A verdict \in Verdicts : [x EXCEPT !.verdict = verdict] \in SessionState
  BY <1>1
<1>7. \A verdict \in Verdicts, fate \in Fates :
        [x EXCEPT !.verdict = verdict, !.fate = fate] \in SessionState
  BY <1>1
<1> QED
  BY <1>2, <1>3, <1>4, <1>5, <1>6, <1>7 DEF Rows

(***************************************************************************)
(* A statement that changes no committed row needs a look at its own       *)
(* session only.                                                           *)
(***************************************************************************)
LEMMA Alone ==
    ASSUME Shapes, NEW s \in SessionIds, NEW y \in SessionState, Becomes(s, y),
           UNCHANGED store, interrupted' \in BOOLEAN, Shape(s)'
    PROVE  Shapes'
<1>1. UNCHANGED <<job, datums, output_files>>
  BY DEF store
<1>2. \A t \in SessionIds \ {s} : Shape(t)'
  BY <1>1, Moves, OthersKeepShape
<1>3. session' \in [SessionIds -> SessionState]
  BY Moves
<1> QED
  BY <1>1, <1>2, <1>3 DEF Shapes, SessionsTypeOK, StoreTypeOK

(***************************************************************************)
(* A session may end at any time without changing a row.                   *)
(***************************************************************************)
LEMMA ClosingKeepsShapes ==
    ASSUME Shapes, NEW s \in SessionIds, Closes(s),
           UNCHANGED store, interrupted' \in BOOLEAN
    PROVE  Shapes'
<1>1. Closed \in SessionState
  BY DEF Closed, SessionState
<1>2. session'[s] = Closed
  BY Moves DEF Closes
<1>3. Shape(s)'
  BY <1>2 DEF Shape, Closed
<1> QED
  BY <1>1, <1>3, Alone DEF Closes

(***************************************************************************)
(* A new request holds nothing.                                            *)
(***************************************************************************)
LEMMA BeginKeepsShapes ==
    ASSUME Shapes, NEW s \in SessionIds, Begin(s)
    PROVE  Shapes'
<1> DEFINE Asks(y) ==
             /\ y \in SessionState
             /\ y.step = 1 /\ y.row = None /\ y.verdict = None /\ y.fate = "open"
             /\ \/ y.kind = "reserve" /\ y.pod \in Pods
                \/ /\ y.kind = "patch" /\ y.pod \in Pods /\ y.datum \in Datums
                   /\ y.report \in {"done", "error"}
                \/ /\ y.kind \in {"zombie", "rerun"} /\ y.datum \in Datums
                   /\ y.report = "healthy"
                \/ y.kind = "check" /\ y.report \in {"failed", "healthy"}
<1>1. Closed \in SessionState
  BY DEF Closed, SessionState
<1>2. \E y : Becomes(s, y) /\ Asks(y)
  <2>1. ASSUME NEW p \in Pods
        PROVE  Asks([Closed EXCEPT !.kind = "reserve", !.pod = p])
    BY <1>1 DEF Closed, SessionState
  <2>2. ASSUME NEW p \in Pods, NEW d \in Datums, NEW status \in {"done", "error"}
        PROVE  Asks([Closed EXCEPT !.kind = "patch", !.pod = p, !.datum = d,
                                   !.report = status])
    BY <1>1 DEF Closed, SessionState
  <2>3. ASSUME NEW kind \in {"zombie", "rerun"}, NEW d \in Datums
        PROVE  Asks([Closed EXCEPT !.kind = kind, !.datum = d])
    BY <1>1 DEF Closed, SessionState
  <2>4. ASSUME NEW info \in {"failed", "healthy"}
        PROVE  Asks([Closed EXCEPT !.kind = "check", !.report = info])
    BY <1>1 DEF Closed, SessionState
  <2> HIDE DEF Asks
  <2>5. Asked(s)
    BY DEF Begin
  <2> QED
    BY <2>1, <2>2, <2>3, <2>4, <2>5, Zenon DEF Asked
<1>3. PICK y : Becomes(s, y) /\ Asks(y)
  BY <1>2
<1>4. session'[s] = y
  BY <1>3, Moves
<1>5. Shape(s)'
  BY <1>3, <1>4 DEF Shape, ReserveShape, PatchShape, ZombieShape, CheckShape,
                    RerunShape, JudgesFrom
<1> QED
  BY <1>3, <1>5, Alone DEF Begin, Shapes, SessionsTypeOK

(***************************************************************************)
(* The three statements of a reservation.                                  *)
(***************************************************************************)
LEMMA ReservingKeepsShapes ==
    ASSUME Shapes, NEW s \in SessionIds, LookUp(s) \/ Select(s) \/ Assign(s)
    PROVE  Shapes'
<1> DEFINE x == session[s]
<1>0. /\ UNCHANGED store /\ interrupted' \in BOOLEAN
      /\ x \in SessionState /\ datums \in [Datums -> DatumRow]
  BY DEF LookUp, Select, Assign, Shapes, SessionsTypeOK, StoreTypeOK
<1>1. x.kind = "reserve" /\ x.step \in 1..3 /\ ReserveShape(s)
  <2>1. At(s, "lookup") \/ At(s, "select") \/ At(s, "assign")
    BY DEF LookUp, Select, Assign
  <2>2. x.kind = "reserve" /\ x.step \in 1..3
    BY <2>1, Places
  <2> QED
    BY <2>2 DEF Shapes, Shape
<1>2. CASE Closes(s)
  BY <1>0, <1>2, ClosingKeepsShapes
<1>3. ASSUME NEW y, y \in SessionState, Becomes(s, y), y.kind = "reserve",
             ReserveShape(s)'
      PROVE  Shapes'
  <2>1. session'[s] = y
    BY <1>3, Moves
  <2>2. Shape(s)'
    BY <1>3, <2>1 DEF Shape
  <2> QED
    BY <1>0, <1>3, <2>2, Alone
<1>4. CASE LookUp(s) /\ ~Closes(s)
  <2> DEFINE y == [x EXCEPT !.step = @ + 1]
  <2>1. x.step = 1 /\ Becomes(s, y)
    BY <1>4, Places DEF LookUp, Proceeds
  <2>2. y \in SessionState /\ y.kind = "reserve"
    <3>1. x.step < 5
      BY <2>1
    <3>2. y \in SessionState
      BY <1>0, <3>1, Writes
    <3>3. y.kind = x.kind
      BY <1>0 DEF SessionState
    <3> QED
      BY <1>1, <3>2, <3>3
  <2>3. session'[s] = y
    BY <2>1, Moves
  <2>4. ReserveShape(s)'
    BY <1>0, <1>1, <2>1, <2>3 DEF ReserveShape, SessionState
  <2> QED
    BY <1>3, <2>1, <2>2, <2>4
<1>5. CASE Select(s) /\ ~Closes(s)
  <2>1. PICK d \in Datums :
          /\ datums[d].status = "ready"
          /\ Proceeds(s, [x EXCEPT !.datum = d, !.row = datums[d]])
    BY <1>5 DEF Select
  <2> DEFINE z == [x EXCEPT !.datum = d, !.row = datums[d]]
             y == [z EXCEPT !.step = @ + 1]
  <2>2. x.step = 2 /\ Becomes(s, y)
    BY <1>5, <2>1, Places DEF Select, Proceeds
  <2>3. z \in SessionState
    BY <1>0, <2>1, Writes
  <2>4. y.step = 3 /\ y.kind = "reserve" /\ y.pod = x.pod /\ y.datum = d
        /\ y.row = datums[d] /\ y.verdict = x.verdict /\ y.fate = x.fate
    BY <1>0, <1>1, <2>2 DEF SessionState
  <2>5. y \in SessionState
    <3>1. z.step < 5
      BY <1>0, <2>2 DEF SessionState
    <3> QED
      BY <2>3, <3>1, Writes
  <2>6. session'[s] = y /\ UNCHANGED datums
    BY <1>0, <2>2, Moves DEF store
  <2> HIDE DEF y
  <2>7. ReserveShape(s)'
    BY <1>1, <2>1, <2>4, <2>6 DEF ReserveShape
  <2> QED
    BY <1>3, <2>2, <2>4, <2>5, <2>7
<1>6. CASE Assign(s) /\ ~Closes(s)
  <2> DEFINE row == [status |-> "running", pod_name |-> x.pod,
                     attempted_run_count |-> x.row.attempted_run_count + 1]
             z == [x EXCEPT !.row = row]
             y == [z EXCEPT !.step = @ + 1]
  <2>1. x.step = 3 /\ Becomes(s, y)
    BY <1>0, <1>6, Places DEF Assign, Proceeds, SessionState
  <2>2. /\ x.datum \in Datums /\ x.pod \in Pods
        /\ datums[x.datum].status = "ready"
        /\ x.row = datums[x.datum]
    BY <1>1, <2>1 DEF ReserveShape
  <2>3. row \in DatumRow
    <3>1. x.row \in DatumRow
      BY <1>0, <2>2
    <3>2. x.row.attempted_run_count + 1 \in Nat
      BY <3>1 DEF DatumRow
    <3> QED
      BY <2>2, <3>2 DEF DatumRow, Status
  <2>4. z \in SessionState
    BY <1>0, <2>3, Writes
  <2>5. y.step = 4 /\ y.kind = "reserve" /\ y.pod = x.pod /\ y.datum = x.datum
        /\ y.row = row /\ y.verdict = x.verdict /\ y.fate = x.fate
    BY <1>0, <1>1, <2>1 DEF SessionState
  <2>6. y \in SessionState
    <3>1. z.step < 5
      BY <1>0, <2>1 DEF SessionState
    <3> QED
      BY <2>4, <3>1, Writes
  <2>7. session'[s] = y /\ UNCHANGED datums
    BY <1>0, <2>1, Moves DEF store
  <2> HIDE DEF y
  <2>8. ReserveShape(s)'
    BY <1>1, <2>2, <2>5, <2>7 DEF ReserveShape
  <2> QED
    BY <1>3, <2>1, <2>5, <2>6, <2>8
<1> QED
  BY <1>2, <1>4, <1>5, <1>6

(***************************************************************************)
(* What a session is after a statement that goes well.                     *)
(***************************************************************************)
LEMMA Proceeding ==
    ASSUME Shapes, NEW s \in SessionIds, NEW z \in SessionState, z.step < 5,
           Proceeds(s, z)
    PROVE  LET y == session'[s]
           IN  /\ y \in SessionState /\ Becomes(s, y)
               /\ y.kind = z.kind /\ y.pod = z.pod /\ y.datum = z.datum
               /\ y.report = z.report /\ y.step = z.step + 1
               /\ y.row = z.row /\ y.verdict = z.verdict /\ y.fate = z.fate
<1> DEFINE y == [z EXCEPT !.step = @ + 1]
<1>1. Becomes(s, y)
  BY DEF Proceeds
<1>2. session'[s] = y
  BY <1>1, Moves
<1>3. y \in SessionState
  BY Writes
<1>4. /\ y.kind = z.kind /\ y.pod = z.pod /\ y.datum = z.datum
      /\ y.report = z.report /\ y.step = z.step + 1
      /\ y.row = z.row /\ y.verdict = z.verdict /\ y.fate = z.fate
  BY DEF SessionState
<1> QED
  BY <1>1, <1>2, <1>3, <1>4

(***************************************************************************)
(* The row is read, or read and updated, under its lock.                   *)
(***************************************************************************)
LEMMA LockDatumKeepsShapes ==
    ASSUME Shapes, NEW s \in SessionIds, LockDatum(s)
    PROVE  Shapes'
<1> DEFINE x == session[s]
           z == [x EXCEPT !.row = Updated(s)]
           y == session'[s]
<1>1. /\ UNCHANGED store /\ UNCHANGED datums /\ interrupted' \in BOOLEAN
      /\ x \in SessionState
  BY DEF LockDatum, Shapes, SessionsTypeOK, StoreTypeOK, store
<1>2. x.kind \in {"patch", "zombie", "rerun"} /\ x.step = 1
  BY Places DEF LockDatum
<1>3. CASE Closes(s)
  BY <1>1, <1>3, ClosingKeepsShapes
<1>4. CASE ~Closes(s)
  <2>1. /\ Proceeds(s, z)
        /\ x.kind = "patch" => OwnedBy(x.datum, x.pod)
    BY <1>4 DEF LockDatum
  <2>2. Updated(s) \in DatumRow
    <3>1. x.datum \in Datums
      BY <1>2 DEF Shapes, Shape, PatchShape, ZombieShape, RerunShape
    <3> QED
      BY <3>1, UpdatedType
  <2>3. z \in SessionState
    BY <1>1, <2>2, Writes
  <2>4. z.kind = x.kind /\ z.pod = x.pod /\ z.datum = x.datum /\ z.step = 1
        /\ z.report = x.report /\ z.row = Updated(s) /\ z.verdict = x.verdict
        /\ z.fate = x.fate
    BY <1>1, <1>2 DEF SessionState
  <2> HIDE DEF z
  <2>5. /\ y \in SessionState /\ Becomes(s, y)
        /\ y.kind = x.kind /\ y.pod = x.pod /\ y.datum = x.datum
        /\ y.report = x.report /\ y.step = 2
        /\ y.row = Updated(s) /\ y.verdict = x.verdict /\ y.fate = x.fate
    BY <2>1, <2>3, <2>4, Proceeding
  <2>6. Updated(s)' = Updated(s)
    BY <1>1, <2>5 DEF Updated
  <2>7. Shape(s)'
    <3>1. CASE x.kind = "patch"
      <4>1. PatchShape(s)
        BY <3>1 DEF Shapes, Shape
      <4>2. OwnedBy(x.datum, x.pod)' = OwnedBy(x.datum, x.pod)
        BY <1>1, <2>5 DEF OwnedBy
      <4>3. PatchShape(s)'
        BY <1>2, <2>1, <2>5, <2>6, <3>1, <4>1, <4>2 DEF PatchShape, JudgesFrom
      <4> QED
        BY <2>5, <3>1, <4>3 DEF Shape
    <3>2. CASE x.kind = "zombie"
      <4>1. ZombieShape(s)
        BY <3>2 DEF Shapes, Shape
      <4>2. ZombieShape(s)'
        BY <1>2, <2>5, <2>6, <4>1 DEF ZombieShape, JudgesFrom
      <4> QED
        BY <2>5, <3>2, <4>2 DEF Shape
    <3>3. CASE x.kind = "rerun"
      <4>1. RerunShape(s)
        BY <3>3 DEF Shapes, Shape
      <4>2. RerunShape(s)'
        BY <1>2, <2>5, <2>6, <4>1 DEF RerunShape
      <4> QED
        BY <2>5, <3>3, <4>2 DEF Shape
    <3> QED
      BY <1>2, <3>1, <3>2, <3>3
  <2> QED
    BY <1>1, <2>5, <2>7, Alone
<1> QED
  BY <1>3, <1>4

(***************************************************************************)
(* The job's row is read under its lock.                                   *)
(***************************************************************************)
LEMMA LockJobKeepsShapes ==
    ASSUME Shapes, NEW s \in SessionIds, LockJob(s)
    PROVE  Shapes'
<1> DEFINE x == session[s]
           z == [x EXCEPT !.verdict = job]
           y == session'[s]
<1>1. /\ UNCHANGED store /\ UNCHANGED <<job, datums>> /\ interrupted' \in BOOLEAN
      /\ x \in SessionState /\ job \in JobRow
  BY DEF LockJob, Shapes, SessionsTypeOK, StoreTypeOK, store
<1>2. \/ x.kind = "patch" /\ x.step = 2
      \/ x.kind = "zombie" /\ x.step = 3
      \/ x.kind = "check" /\ x.step = 1
  BY Places DEF LockJob
<1>3. Proceeds(s, z)
  BY DEF LockJob
<1>4. z \in SessionState
  BY <1>1, Writes
<1>5. z.kind = x.kind /\ z.pod = x.pod /\ z.datum = x.datum /\ z.step = x.step
      /\ z.report = x.report /\ z.row = x.row /\ z.verdict = job /\ z.fate = x.fate
  BY <1>1 DEF SessionState
<1> HIDE DEF z
<1>6. /\ y \in SessionState /\ Becomes(s, y)
      /\ y.kind = x.kind /\ y.pod = x.pod /\ y.datum = x.datum
      /\ y.report = x.report /\ y.step = x.step + 1
      /\ y.row = x.row /\ y.verdict = job /\ y.fate = x.fate
  BY <1>2, <1>3, <1>4, <1>5, Proceeding
<1>7. Updated(s)' = Updated(s)
  BY <1>1, <1>6 DEF Updated
<1>8. Shape(s)'
  <2>1. CASE x.kind = "patch"
    <3>1. PatchShape(s)
      BY <2>1 DEF Shapes, Shape
    <3>2. OwnedBy(x.datum, x.pod)' = OwnedBy(x.datum, x.pod)
      BY <1>1, <1>6 DEF OwnedBy
    <3>3. PatchShape(s)'
      BY <1>1, <1>2, <1>6, <1>7, <2>1, <3>1, <3>2 DEF PatchShape, JudgesFrom
    <3> QED
      BY <1>6, <2>1, <3>3 DEF Shape
  <2>2. CASE x.kind = "zombie"
    <3>1. ZombieShape(s)
      BY <2>2 DEF Shapes, Shape
    <3>2. ZombieShape(s)'
      BY <1>1, <1>2, <1>6, <1>7, <2>2, <3>1 DEF ZombieShape, JudgesFrom
    <3> QED
      BY <1>6, <2>2, <3>2 DEF Shape
  <2>3. CASE x.kind = "check"
    <3>1. CheckShape(s)
      BY <2>3 DEF Shapes, Shape
    <3>2. CheckShape(s)'
      BY <1>1, <1>2, <1>6, <2>3, <3>1 DEF CheckShape, JudgesFrom
    <3> QED
      BY <1>6, <2>3, <3>2 DEF Shape
  <2> QED
    BY <1>2, <2>1, <2>2, <2>3
<1> QED
  BY <1>1, <1>6, <1>8, Alone

(***************************************************************************)
(* The job's row after a count.                                            *)
(***************************************************************************)
LEMMA CountedType ==
    ASSUME NEW s \in SessionIds, session[s].verdict \in JobRow
    PROVE  Counted(s) \in JobRow
<1> DEFINE locked == session[s].verdict
<1>1. Outcome(Visible(s)) \in Status
  BY DEF Outcome, Status
<1>2. [locked EXCEPT !.status = Outcome(Visible(s))] \in JobRow
  BY <1>1 DEF JobRow
<1>3. JobFailed \in JobRow
  BY DEF JobFailed, JobRow, Status
<1> QED
  BY <1>2, <1>3 DEF Counted

(***************************************************************************)
(* The datums are counted and the job's row is updated.                    *)
(***************************************************************************)
LEMMA CountKeepsShapes ==
    ASSUME Shapes, NEW s \in SessionIds, Count(s)
    PROVE  Shapes'
<1> DEFINE x == session[s]
           y == session'[s]
<1>1. /\ UNCHANGED store /\ UNCHANGED datums /\ interrupted' \in BOOLEAN
      /\ x \in SessionState
  BY DEF Count, Shapes, SessionsTypeOK, StoreTypeOK, store
<1>2. \/ x.kind = "patch" /\ x.step = 3
      \/ x.kind = "zombie" /\ x.step = 4
      \/ x.kind = "check" /\ x.step = 2
  BY Places DEF Count
<1>3. PICK fate \in {"commit", "rollback"} :
        Proceeds(s, [x EXCEPT !.verdict = Counted(s), !.fate = fate])
  BY DEF Count
<1> DEFINE z == [x EXCEPT !.verdict = Counted(s), !.fate = fate]
<1>4. Counted(s) \in JobRow
  BY <1>2, HeldJob, CountedType
<1>5. z \in SessionState
  BY <1>1, <1>4, Writes
<1>6. z.kind = x.kind /\ z.pod = x.pod /\ z.datum = x.datum /\ z.step = x.step
      /\ z.report = x.report /\ z.row = x.row /\ z.verdict = Counted(s) /\ z.fate = fate
  BY <1>1 DEF SessionState
<1>7. Proceeds(s, z)
  BY <1>3
<1> HIDE DEF z
<1>8. /\ y \in SessionState /\ Becomes(s, y)
      /\ y.kind = x.kind /\ y.pod = x.pod /\ y.datum = x.datum
      /\ y.report = x.report /\ y.step = x.step + 1
      /\ y.row = x.row /\ y.verdict \in JobRow /\ y.fate \in {"commit", "rollback"}
  BY <1>2, <1>4, <1>5, <1>6, <1>7, Proceeding
<1>9. Updated(s)' = Updated(s)
  BY <1>1, <1>8 DEF Updated
<1>10. Shape(s)'
  <2>1. CASE x.kind = "patch"
    <3>1. PatchShape(s)
      BY <2>1 DEF Shapes, Shape
    <3>2. OwnedBy(x.datum, x.pod)' = OwnedBy(x.datum, x.pod)
      BY <1>1, <1>8 DEF OwnedBy
    <3>3. PatchShape(s)'
      BY <1>2, <1>8, <1>9, <2>1, <3>1, <3>2 DEF PatchShape, JudgesFrom
    <3> QED
      BY <1>8, <2>1, <3>3 DEF Shape
  <2>2. CASE x.kind = "zombie"
    <3>1. ZombieShape(s)
      BY <2>2 DEF Shapes, Shape
    <3>2. ZombieShape(s)'
      BY <1>2, <1>8, <1>9, <2>2, <3>1 DEF ZombieShape, JudgesFrom
    <3> QED
      BY <1>8, <2>2, <3>2 DEF Shape
  <2>3. CASE x.kind = "check"
    <3>1. CheckShape(s)
      BY <2>3 DEF Shapes, Shape
    <3>2. CheckShape(s)'
      BY <1>2, <1>8, <2>3, <3>1 DEF CheckShape, JudgesFrom
    <3> QED
      BY <1>8, <2>3, <3>2 DEF Shape
  <2> QED
    BY <1>2, <2>1, <2>2, <2>3
<1> QED
  BY <1>1, <1>8, <1>10, Alone

(***************************************************************************)
(* What a commit makes of the rows.                                        *)
(***************************************************************************)
LEMMA VisibleRows ==
    ASSUME Shapes, NEW s \in SessionIds
    PROVE  /\ Visible(s) \in [Datums -> DatumRow]
           /\ \A d \in Datums :
                Visible(s)[d] = IF HoldsDatum(s, d) THEN session[s].row ELSE datums[d]
<1>1. datums \in [Datums -> DatumRow]
  BY DEF Shapes, SessionsTypeOK, StoreTypeOK
<1> QED
  BY <1>1, HeldRows DEF Visible, HoldsDatum

(***************************************************************************)
(* A commit leaves the rows alone that others have locked.                 *)
(***************************************************************************)
LEMMA CommitKeepsShapes ==
    ASSUME Shapes, Locks, NEW s \in SessionIds, Commit(s)
    PROVE  Shapes'
<1> DEFINE x == session[s]
           y == session'[s]
<1>1. /\ x \in SessionState /\ job \in JobRow
      /\ output_files' = {} /\ interrupted' \in BOOLEAN
      /\ datums' = Visible(s)
      /\ job' = IF x.verdict = None THEN job ELSE x.verdict
  BY DEF Commit, Shapes, SessionsTypeOK, StoreTypeOK
<1>2. \/ x.kind \in {"reserve", "patch"} /\ x.step = 4
      \/ x.kind = "zombie" /\ x.step \in {2, 5}
      \/ x.kind = "check" /\ x.step = 3
      \/ x.kind = "rerun" /\ x.step = 2
  BY Places DEF Commit
<1>3. job' \in JobRow
  BY <1>1, HeldJob
<1>4. \E w \in SessionState : Becomes(s, w) /\ Shape(s)'
  <2>1. CASE Closes(s)
    <3>1. Closed \in SessionState
      BY DEF Closed, SessionState
    <3>2. y = Closed
      BY <2>1, Moves DEF Closes
    <3>3. Shape(s)'
      BY <3>2 DEF Shape, Closed
    <3> QED
      BY <2>1, <3>1, <3>3 DEF Closes
  <2>2. CASE ~Closes(s)
    <3> DEFINE z == [x EXCEPT !.row = None]
    <3>1. x.kind = "zombie" /\ x.step = 2
      BY <1>2, <2>2, Ends DEF Commit
    <3>2. Proceeds(s, z)
      BY <2>2 DEF Commit
    <3>3. z \in SessionState
      BY <1>1, Writes
    <3>4. z.kind = x.kind /\ z.pod = x.pod /\ z.datum = x.datum /\ z.step = x.step
          /\ z.report = x.report /\ z.row = None /\ z.verdict = x.verdict
          /\ z.fate = x.fate
      BY <1>1 DEF SessionState
    <3> HIDE DEF z
    <3>5. /\ y \in SessionState /\ Becomes(s, y)
          /\ y.kind = x.kind /\ y.datum = x.datum /\ y.report = x.report
          /\ y.step = 3 /\ y.row = None /\ y.verdict = x.verdict /\ y.fate = x.fate
      BY <3>1, <3>2, <3>3, <3>4, Proceeding
    <3>6. ZombieShape(s)
      BY <3>1 DEF Shapes, Shape
    <3>7. ZombieShape(s)'
      BY <3>1, <3>5, <3>6 DEF ZombieShape, JudgesFrom
    <3> QED
      BY <3>1, <3>5, <3>7 DEF Shape
  <2> QED
    BY <2>1, <2>2
<1>5. ASSUME NEW t \in SessionIds \ {s}
      PROVE  Shape(t)'
  <2>1. session'[t] = session[t]
    BY <1>4, Moves
  <2>2. session[t].row # None => datums'[session[t].datum] = datums[session[t].datum]
    <3>1. SUFFICES ASSUME session[t].row # None
                   PROVE  datums'[session[t].datum] = datums[session[t].datum]
      OBVIOUS
    <3>2. session[t].datum \in Datums
      BY <3>1, HeldRows
    <3>3. ~HoldsDatum(s, session[t].datum)
      BY <3>1, <3>2 DEF Locks, HoldsDatum
    <3> QED
      BY <1>1, <3>2, <3>3, VisibleRows
  <2>3. session[t].verdict # None => job' = job
    BY <1>1 DEF Locks, HoldsJob
  <2> QED
    BY <2>1, <2>2, <2>3, OthersKeepShape
<1>6. datums' \in [Datums -> DatumRow]
  BY <1>1, VisibleRows
<1>7. session' \in [SessionIds -> SessionState]
  BY <1>4, Moves
<1>8. StoreTypeOK'
  BY <1>1, <1>3, <1>6 DEF StoreTypeOK
<1> QED
  BY <1>1, <1>4, <1>5, <1>7, <1>8 DEF Shapes, SessionsTypeOK

(***************************************************************************)
(* The shapes hold at the start, and no step of a session breaks them.     *)
(***************************************************************************)
LEMMA ShapesInit == SessionsInit => Shapes
<1> SUFFICES ASSUME SessionsInit PROVE Shapes
  OBVIOUS
<1>1. StoreTypeOK /\ output_files = {}
  BY DEF SessionsInit, StoreInit, StoreTypeOK, JobRow, DatumRow, Status
<1>2. Closed \in SessionState
  BY DEF Closed, SessionState
<1>3. \A s \in SessionIds : session[s] = Closed
  BY DEF SessionsInit
<1>4. \A s \in SessionIds : Shape(s)
  BY <1>3 DEF Shape, Closed
<1> QED
  BY <1>1, <1>2, <1>4 DEF Shapes, SessionsTypeOK, SessionsInit

\* No statement, commit or cut breaks Shapes.
LEMMA ShapesStep ==
    ASSUME Shapes, Locks, NEW s \in SessionIds, SessionStep(s)
    PROVE  Shapes'
<1>1. CASE Cut(s)
  BY <1>1, ClosingKeepsShapes DEF Cut, Shapes, SessionsTypeOK
<1> QED
  BY <1>1, BeginKeepsShapes, ReservingKeepsShapes, LockDatumKeepsShapes,
     LockJobKeepsShapes, CountKeepsShapes, CommitKeepsShapes DEF SessionStep

-----------------------------------------------------------------------------
(* Locks.                                                                  *)

(***************************************************************************)
(* A session gets the lock of a row only when nobody else has it, and what *)
(* it makes of the row it holds depends on the request.                    *)
(***************************************************************************)
LEMMA RowMoves ==
    ASSUME Shapes, NEW s \in SessionIds, SessionStep(s)
    PROVE  LET x == session[s]
               y == session'[s]
           IN  /\ \A t \in SessionIds \ {s} : session'[t] = session[t]
               /\ \/ y.row = None
                  \/ y.row = x.row /\ y.datum = x.datum
                  \/ Select(s) /\ y.row = datums[y.datum] /\ y.datum \in Datums
                  \/ /\ Assign(s) /\ WaitsFor(s) = {} /\ y.datum = x.datum
                     /\ y.row.status = "running" /\ y.row.pod_name = x.pod
                     /\ \A d \in Datums : ~OwnedBy(d, x.pod)
                  \/ LockDatum(s) /\ y.row = Updated(s) /\ y.datum = x.datum
               /\ \/ y.verdict = None
                  \/ x.verdict # None
                  \/ LockJob(s)
               /\ \/ UNCHANGED datums
                  \/ Commit(s) /\ datums' = Visible(s) /\ y.row = None
<1> DEFINE x == session[s]
           y == session'[s]
           Others == \A t \in SessionIds \ {s} : session'[t] = session[t]
<1>1. x \in SessionState /\ x.step < 6
  BY DEF Shapes, SessionsTypeOK, SessionState
<1>2. ASSUME NEW w, Becomes(s, w)
      PROVE  y = w /\ Others
  BY <1>2, Moves
<1>3. CASE Closes(s)
  <2>1. y = Closed /\ Others
    BY <1>2, <1>3 DEF Closes
  <2>2. y.row = None /\ y.verdict = None
    BY <2>1 DEF Closed
  <2>3. \/ UNCHANGED datums
        \/ Commit(s) /\ datums' = Visible(s)
    BY DEF SessionStep, Begin, LookUp, Select, Assign, LockDatum, LockJob, Count,
           Commit, Cut, store
  <2> QED
    BY <2>1, <2>2, <2>3
<1>4. CASE ~Closes(s)
  <2>1. CASE Begin(s)
    <3>1. UNCHANGED datums
      BY <2>1 DEF Begin, store
    <3>2. \E w : Becomes(s, w) /\ w.row = None /\ w.verdict = None
      <4>1. Asked(s)
        BY <2>1 DEF Begin
      <4>2. ASSUME NEW w, \/ \E p \in Pods : w = [Closed EXCEPT !.kind = "reserve", !.pod = p]
                          \/ \E p \in Pods, d \in Datums, status \in {"done", "error"} :
                               w = [Closed EXCEPT !.kind = "patch", !.pod = p, !.datum = d,
                                                  !.report = status]
                          \/ \E kind \in {"zombie", "rerun"}, d \in Datums :
                               w = [Closed EXCEPT !.kind = kind, !.datum = d]
                          \/ \E info \in {"failed", "healthy"} :
                               w = [Closed EXCEPT !.kind = "check", !.report = info]
            PROVE  w.row = None /\ w.verdict = None
        BY <4>2 DEF Closed
      <4> QED
        BY <4>1, <4>2, Zenon DEF Asked
    <3> QED
      BY <1>2, <3>1, <3>2
  <2>2. CASE LookUp(s)
    <3>1. Becomes(s, [x EXCEPT !.step = @ + 1]) /\ UNCHANGED datums
      BY <1>4, <2>2 DEF LookUp, Proceeds, store
    <3>2. y = [x EXCEPT !.step = @ + 1] /\ Others
      BY <1>2, <3>1
    <3>3. y.row = x.row /\ y.datum = x.datum /\ y.verdict = x.verdict
      BY <1>1, <3>2 DEF SessionState
    <3> QED
      BY <3>1, <3>2, <3>3
  <2>3. CASE Select(s)
    <3>1. /\ UNCHANGED datums
          /\ \E d \in Datums : Proceeds(s, [x EXCEPT !.datum = d, !.row = datums[d]])
      BY <1>4, <2>3 DEF Select, store
    <3>2. PICK d \in Datums :
            Becomes(s, [[x EXCEPT !.datum = d, !.row = datums[d]] EXCEPT !.step = @ + 1])
      BY <3>1 DEF Proceeds
    <3>3. y = [[x EXCEPT !.datum = d, !.row = datums[d]] EXCEPT !.step = @ + 1] /\ Others
      BY <1>2, <3>2
    <3>4. y.row = datums[y.datum] /\ y.datum = d /\ y.verdict = x.verdict
      BY <1>1, <3>3 DEF SessionState
    <3> QED
      BY <2>3, <3>1, <3>3, <3>4
  <2>4. CASE Assign(s)
    <3> DEFINE row == [status |-> "running", pod_name |-> x.pod,
                       attempted_run_count |-> x.row.attempted_run_count + 1]
    <3>1. /\ UNCHANGED datums /\ WaitsFor(s) = {}
          /\ \A d \in Datums : ~OwnedBy(d, x.pod)
          /\ Becomes(s, [[x EXCEPT !.row = row] EXCEPT !.step = @ + 1])
      BY <1>1, <1>4, <2>4 DEF Assign, Proceeds, store, SessionState
    <3>2. row.status = "running" /\ row.pod_name = x.pod
      OBVIOUS
    <3> HIDE DEF row
    <3>3. y = [[x EXCEPT !.row = row] EXCEPT !.step = @ + 1] /\ Others
      BY <1>2, <3>1
    <3>4. y.row = row /\ y.datum = x.datum /\ y.verdict = x.verdict
      BY <1>1, <3>3 DEF SessionState
    <3> QED
      BY <2>4, <3>1, <3>2, <3>3, <3>4
  <2>5. CASE LockDatum(s)
    <3>1. /\ UNCHANGED datums
          /\ Becomes(s, [[x EXCEPT !.row = Updated(s)] EXCEPT !.step = @ + 1])
      BY <1>4, <2>5 DEF LockDatum, Proceeds, store
    <3>2. y = [[x EXCEPT !.row = Updated(s)] EXCEPT !.step = @ + 1] /\ Others
      BY <1>2, <3>1
    <3>3. y.row = Updated(s) /\ y.datum = x.datum /\ y.verdict = x.verdict
      BY <1>1, <3>2 DEF SessionState
    <3> QED
      BY <2>5, <3>1, <3>2, <3>3
  <2>6. CASE LockJob(s)
    <3>1. /\ UNCHANGED datums
          /\ Becomes(s, [[x EXCEPT !.verdict = job] EXCEPT !.step = @ + 1])
      BY <2>6 DEF LockJob, Proceeds, store
    <3>2. y = [[x EXCEPT !.verdict = job] EXCEPT !.step = @ + 1] /\ Others
      BY <1>2, <3>1
    <3>3. y.row = x.row /\ y.datum = x.datum
      BY <1>1, <3>2 DEF SessionState
    <3> QED
      BY <2>6, <3>1, <3>2, <3>3
  <2>7. CASE Count(s)
    <3>1. /\ UNCHANGED datums
          /\ \E fate \in {"commit", "rollback"} :
               Becomes(s, [[x EXCEPT !.verdict = Counted(s), !.fate = fate]
                             EXCEPT !.step = @ + 1])
      BY <2>7 DEF Count, Proceeds, store
    <3>2. PICK fate \in {"commit", "rollback"} :
            /\ y = [[x EXCEPT !.verdict = Counted(s), !.fate = fate] EXCEPT !.step = @ + 1]
            /\ Others
      BY <1>2, <3>1
    <3>3. y.row = x.row /\ y.datum = x.datum
      BY <1>1, <3>2 DEF SessionState
    <3>4. x.verdict # None
      BY <2>7, Places, HeldJob DEF Count
    <3> QED
      BY <3>1, <3>2, <3>3, <3>4
  <2>8. CASE Commit(s)
    <3>1. Becomes(s, [[x EXCEPT !.row = None] EXCEPT !.step = @ + 1])
      BY <1>4, <2>8 DEF Commit, Proceeds
    <3>2. y = [[x EXCEPT !.row = None] EXCEPT !.step = @ + 1] /\ Others
      BY <1>2, <3>1
    <3>3. y.row = None /\ y.verdict = x.verdict
      BY <1>1, <3>2 DEF SessionState
    <3> QED
      BY <2>8, <3>2, <3>3 DEF Commit
  <2> QED
    BY <1>4, <2>1, <2>2, <2>3, <2>4, <2>5, <2>6, <2>7, <2>8 DEF SessionStep, Cut
<1> QED
  BY <1>3, <1>4

(***************************************************************************)
(* No row is locked twice.                                                 *)
(***************************************************************************)
LEMMA LocksStep ==
    ASSUME Shapes, Locks, NEW s \in SessionIds, SessionStep(s)
    PROVE  Locks'
<1> DEFINE x == session[s]
           y == session'[s]
<1>1. \A t \in SessionIds \ {s} : session'[t] = session[t]
  BY RowMoves
<1>2. ASSUME NEW d \in Datums, HoldsDatum(s, d)', NEW t \in SessionIds \ {s}
      PROVE  ~HoldsDatum(t, d)
  <2>1. y.row # None /\ y.datum = d
    BY <1>2 DEF HoldsDatum
  <2>2. CASE y.row = x.row /\ y.datum = x.datum
    BY <1>2, <2>1, <2>2 DEF Locks, HoldsDatum
  <2>3. CASE Select(s)
    <3>1. \E e \in Datums : /\ \A u \in SessionIds : ~HoldsDatum(u, e)
                            /\ Proceeds(s, [x EXCEPT !.datum = e, !.row = datums[e]])
      <4>1. ~Closes(s)
        <5>1. SUFFICES ASSUME Closes(s) PROVE FALSE
          OBVIOUS
        <5>2. y = Closed
          BY <5>1, Moves DEF Closes
        <5> QED
          BY <2>1, <5>2 DEF Closed
      <4> QED
        BY <2>3, <4>1 DEF Select
    <3>2. PICK e \in Datums : /\ \A u \in SessionIds : ~HoldsDatum(u, e)
                              /\ Proceeds(s, [x EXCEPT !.datum = e, !.row = datums[e]])
      BY <3>1
    <3>3. Becomes(s, [[x EXCEPT !.datum = e, !.row = datums[e]] EXCEPT !.step = @ + 1])
      BY <3>2 DEF Proceeds
    <3>4. y = [[x EXCEPT !.datum = e, !.row = datums[e]] EXCEPT !.step = @ + 1]
      BY <3>3, Moves
    <3>5. x \in SessionState
      BY DEF Shapes, SessionsTypeOK
    <3>6. y.datum = e
      BY <3>4, <3>5 DEF SessionState
    <3> QED
      BY <2>1, <3>2, <3>6
  <2>4. CASE Assign(s) /\ y.datum = x.datum
    <3>1. x.row # None
      BY <2>4, Places, HeldRows DEF Assign
    <3> QED
      BY <1>2, <2>1, <2>4, <3>1 DEF Locks, HoldsDatum
  <2>5. CASE LockDatum(s) /\ y.datum = x.datum
    BY <2>1, <2>5 DEF LockDatum, WaitsFor
  <2> QED
    BY <2>1, <2>2, <2>3, <2>4, <2>5, RowMoves
<1>3. ASSUME HoldsJob(s)', NEW t \in SessionIds \ {s}
      PROVE  ~HoldsJob(t)
  <2>1. x.verdict # None \/ LockJob(s)
    BY <1>3, RowMoves DEF HoldsJob
  <2>2. CASE x.verdict # None
    BY <2>2 DEF Locks, HoldsJob
  <2>3. CASE LockJob(s)
    BY <2>3 DEF LockJob, WaitsFor
  <2> QED
    BY <2>1, <2>2, <2>3
<1>4. ASSUME NEW t \in SessionIds \ {s}, NEW d \in Datums
      PROVE  HoldsDatum(t, d)' <=> HoldsDatum(t, d)
  BY <1>1, <1>4 DEF HoldsDatum
<1>5. ASSUME NEW t \in SessionIds \ {s}
      PROVE  HoldsJob(t)' <=> HoldsJob(t)
  BY <1>1, <1>5 DEF HoldsJob
<1>6. ASSUME NEW t \in SessionIds, NEW u \in SessionIds, NEW d \in Datums,
             HoldsDatum(t, d)', HoldsDatum(u, d)'
      PROVE  t = u
  BY <1>2, <1>4, <1>6 DEF Locks
<1>7. ASSUME NEW t \in SessionIds, NEW u \in SessionIds, HoldsJob(t)', HoldsJob(u)'
      PROVE  t = u
  BY <1>3, <1>5, <1>7 DEF Locks
<1> QED
  BY <1>6, <1>7 DEF Locks

(***************************************************************************)
(* No row comes to say that a second datum runs in a pod.                  *)
(***************************************************************************)
LEMMA PodsMayRunOneDatumStep ==
    ASSUME Shapes, PodsMayRunOneDatum, NEW s \in SessionIds, SessionStep(s)
    PROVE  PodsMayRunOneDatum'
<1> DEFINE x == session[s]
           y == session'[s]
<1>1. ASSUME NEW d \in Datums, NEW p \in Pods, OwnedBy(d, p)'
      PROVE  MayRun(d, p)
  <2>1. CASE UNCHANGED datums
    BY <1>1, <2>1 DEF OwnedBy, MayRun
  <2>2. CASE datums' = Visible(s)
    BY <1>1, <2>2, VisibleRows DEF OwnedBy, MayRun, RunsIn
  <2> QED
    BY <2>1, <2>2, RowMoves
<1>2. ASSUME NEW t \in SessionIds \ {s}, NEW d \in Datums, NEW p \in Pods,
             HoldsDatum(t, d)', RunsIn(session'[t].row, p)
      PROVE  MayRun(d, p)
  BY <1>2, RowMoves DEF MayRun, HoldsDatum
<1>3. ASSUME NEW d \in Datums, NEW p \in Pods,
             HoldsDatum(s, d)', RunsIn(y.row, p)
      PROVE  \/ MayRun(d, p)
             \/ d = x.datum /\ \A e \in Datums : ~MayRun(e, p)
  <2>1. y.row # None /\ y.datum = d
    BY <1>3 DEF HoldsDatum
  <2>2. CASE y.row = x.row /\ y.datum = x.datum
    BY <1>3, <2>1, <2>2 DEF MayRun, HoldsDatum
  <2>3. CASE Select(s) /\ y.row = datums[y.datum]
    BY <1>3, <2>1, <2>3 DEF MayRun, RunsIn, OwnedBy
  <2>4. CASE /\ Assign(s) /\ WaitsFor(s) = {} /\ y.datum = x.datum
             /\ y.row.pod_name = x.pod
             /\ \A e \in Datums : ~OwnedBy(e, x.pod)
    <3>1. p = x.pod
      BY <1>3, <2>4 DEF RunsIn
    <3>2. x.kind = "reserve" /\ x.step = 3 /\ At(s, "assign")
      BY <2>4, Places DEF Assign
    <3>3. x.row = datums[x.datum] /\ datums[x.datum].status = "ready"
      <4>1. ReserveShape(s)
        BY <3>2 DEF Shapes, Shape
      <4> QED
        BY <3>2, <4>1 DEF ReserveShape
    <3>4. ~RunsIn(x.row, p)
      BY <3>3 DEF RunsIn
    <3>5. \A t \in SessionIds \ {s} : session[t].row # None => ~RunsIn(session[t].row, p)
      BY <2>4, <3>1, <3>2 DEF WaitsFor, IndexWaitsFor
    <3>6. \A e \in Datums : ~MayRun(e, p)
      BY <2>4, <3>1, <3>4, <3>5 DEF MayRun, HoldsDatum
    <3> QED
      BY <2>1, <2>4, <3>6
  <2>5. CASE LockDatum(s) /\ y.row = Updated(s) /\ y.datum = x.datum
    <3>1. /\ x.kind \in {"patch", "zombie", "rerun"}
          /\ x.kind = "patch" => x.report \in {"done", "error"}
      BY <2>5, Places DEF LockDatum, Shapes, Shape, PatchShape
    <3>2. datums[x.datum] \in DatumRow
      BY <2>1, <2>5 DEF Shapes, SessionsTypeOK, StoreTypeOK
    <3>3. RunsIn(y.row, p) => y.row = datums[x.datum]
      BY <2>5, <3>1, <3>2 DEF Updated, RunsIn, DatumRow
    <3> QED
      BY <1>3, <2>1, <2>5, <3>3 DEF MayRun, RunsIn, OwnedBy
  <2> QED
    BY <2>1, <2>2, <2>3, <2>4, <2>5, RowMoves
<1>4. ASSUME NEW d \in Datums, NEW p \in Pods, MayRun(d, p)'
      PROVE  \/ MayRun(d, p)
             \/ d = x.datum /\ \A e \in Datums : ~MayRun(e, p)
  <2>1. CASE OwnedBy(d, p)'
    BY <1>1, <2>1
  <2>2. CASE \E t \in SessionIds : HoldsDatum(t, d)' /\ RunsIn(session'[t].row, p)
    BY <1>2, <1>3, <2>2
  <2> QED
    BY <1>4, <2>1, <2>2 DEF MayRun, RunsIn
<1> QED
  BY <1>4 DEF PodsMayRunOneDatum

-----------------------------------------------------------------------------
(* The theorems.                                                           *)

\* The invariant holds in every state.
LEMMA SessionsInvariant == SessionsSpec => []SessionsInv
<1>1. SessionsInit => SessionsInv
  <2> SUFFICES ASSUME SessionsInit PROVE SessionsInv
    OBVIOUS
  <2>1. Shapes
    BY ShapesInit
  <2>2. \A s \in SessionIds : session[s].row = None /\ session[s].verdict = None
    BY DEF SessionsInit, Closed
  <2>3. \A d \in Datums : datums[d].status = "ready"
    BY DEF SessionsInit, StoreInit
  <2>4. Locks
    BY <2>2 DEF Locks, HoldsDatum, HoldsJob
  <2>5. PodsMayRunOneDatum
    BY <2>2, <2>3 DEF PodsMayRunOneDatum, MayRun, OwnedBy, HoldsDatum
  <2> QED
    BY <2>1, <2>4, <2>5 DEF SessionsInv
<1>2. SessionsInv /\ [SessionsNext]_sessions => SessionsInv'
  <2> SUFFICES ASSUME SessionsInv, [SessionsNext]_sessions PROVE SessionsInv'
    OBVIOUS
  <2> USE DEF SessionsInv
  <2>1. CASE SessionsNext
    <3>1. PICK s \in SessionIds : SessionStep(s)
      BY <2>1 DEF SessionsNext
    <3> QED
      BY <3>1, ShapesStep, LocksStep, PodsMayRunOneDatumStep
  <2>2. CASE UNCHANGED sessions
    <3>1. UNCHANGED <<job, datums, output_files, session, interrupted>>
      BY <2>2 DEF sessions, store
    <3>2. Locks' /\ PodsMayRunOneDatum'
      BY <3>1 DEF Locks, HoldsDatum, HoldsJob, PodsMayRunOneDatum, MayRun, OwnedBy, RunsIn
    <3>3. \A s \in SessionIds : Shape(s)'
      BY <3>1, OthersKeepShape
    <3> QED
      BY <3>1, <3>2, <3>3 DEF Shapes, SessionsTypeOK, StoreTypeOK
  <2> QED
    BY <2>1, <2>2
<1> QED
  BY <1>1, <1>2, PTL DEF SessionsSpec

(***************************************************************************)
(* The rows and the sessions keep their types.                             *)
(***************************************************************************)
THEOREM SessionsTypes == SessionsSpec => []SessionsTypeOK
<1>1. SessionsInv => SessionsTypeOK
  BY DEF SessionsInv, Shapes
<1> QED
  BY <1>1, SessionsInvariant, PTL

(***************************************************************************)
(* However many sessions reserve for a pod at once, they give it one datum *)
(* (job.rs, reserve_next_datum, and the index it relies on).               *)
(***************************************************************************)
THEOREM ReservationsAreExclusive == SessionsSpec => []PodsRunOneDatum
<1>1. SessionsInv => PodsRunOneDatum
  BY DEF SessionsInv, PodsMayRunOneDatum, MayRun, PodsRunOneDatum
<1> QED
  BY <1>1, SessionsInvariant, PTL

(***************************************************************************)
(* PostgreSQL finds no deadlock among the transactions: the statements     *)
(* that wait have an order, and each waits for later ones only.            *)
(***************************************************************************)
LEMMA WaitingIsOrdered ==
    ASSUME Shapes, NEW s \in SessionIds, NEW t \in WaitsFor(s)
    PROVE  \/ At(s, "lock_datum") /\ ~At(t, "lock_datum")
           \/ At(s, "assign") /\ ~At(t, "lock_datum") /\ ~At(t, "assign")
           \/ /\ At(s, "lock_job")
              /\ ~At(t, "lock_datum") /\ ~At(t, "assign") /\ ~At(t, "lock_job")
<1> DEFINE x == session[t]
<1>1. t \in SessionIds
  BY DEF WaitsFor
<1>2. At(t, "lock_datum") => x.row = None /\ x.verdict = None
  <2>1. SUFFICES ASSUME At(t, "lock_datum")
                 PROVE  x.row = None /\ x.verdict = None
    OBVIOUS
  <2>2. x.kind \in {"patch", "zombie", "rerun"} /\ x.step = 1
    BY <1>1, <2>1, Places
  <2> QED
    BY <1>1, <2>2, HeldRows, HeldJob
<1>3. At(t, "assign") => /\ x.verdict = None /\ x.row = datums[x.datum]
                         /\ datums[x.datum].status = "ready"
  <2>1. SUFFICES ASSUME At(t, "assign")
                 PROVE  /\ x.verdict = None /\ x.row = datums[x.datum]
                        /\ datums[x.datum].status = "ready"
    OBVIOUS
  <2>2. x.kind = "reserve" /\ x.step = 3
    BY <1>1, <2>1, Places
  <2>3. ReserveShape(t)
    BY <1>1, <2>2 DEF Shapes, Shape
  <2> QED
    BY <2>2, <2>3 DEF ReserveShape
<1>4. At(t, "lock_job") => x.verdict = None
  <2>1. SUFFICES ASSUME At(t, "lock_job") PROVE x.verdict = None
    OBVIOUS
  <2>2. \/ x.kind = "patch" /\ x.step = 2
        \/ x.kind = "zombie" /\ x.step = 3
        \/ x.kind = "check" /\ x.step = 1
    BY <1>1, <2>1, Places
  <2> QED
    BY <1>1, <2>2, HeldJob
<1>5. CASE At(s, "lock_datum") /\ HoldsDatum(t, session[s].datum)
  BY <1>2, <1>5 DEF HoldsDatum
<1>6. CASE At(s, "assign") /\ IndexWaitsFor(session[s].pod, t)
  BY <1>2, <1>3, <1>6 DEF IndexWaitsFor, RunsIn
<1>7. CASE At(s, "lock_job") /\ HoldsJob(t)
  BY <1>2, <1>3, <1>4, <1>7 DEF HoldsJob
<1> QED
  BY <1>5, <1>6, <1>7 DEF WaitsFor

(***************************************************************************)
(* NobodyWaitsInACircle: sessions never wait for each other in a circle,   *)
(* so PostgreSQL has no deadlock between these transactions to break.      *)
(***************************************************************************)
THEOREM LocksAreTakenInOrder == SessionsSpec => []NobodyWaitsInACircle
<1>1. SessionsInv => NobodyWaitsInACircle
  <2> SUFFICES ASSUME Shapes,
                      NEW circle \in SUBSET SessionIds, circle # {}
               PROVE  \E s \in circle : WaitsFor(s) \cap circle = {}
    BY DEF SessionsInv, NobodyWaitsInACircle
  <2>1. CASE \E s \in circle : WaitsFor(s) = {}
    BY <2>1
  <2>2. CASE \A s \in circle : WaitsFor(s) # {}
    <3>1. \A s \in circle :
            At(s, "lock_datum") \/ At(s, "assign") \/ At(s, "lock_job")
      BY <2>2, WaitingIsOrdered
    <3>2. CASE \E s \in circle : At(s, "lock_job")
      <4>1. PICK s \in circle : At(s, "lock_job")
        BY <3>2
      <4>2. ~At(s, "lock_datum") /\ ~At(s, "assign")
        BY <4>1 DEF At
      <4> QED
        BY <3>1, <4>1, <4>2, WaitingIsOrdered
    <3>3. CASE \E s \in circle : At(s, "assign")
      <4>1. PICK s \in circle : At(s, "assign")
        BY <3>3
      <4>2. ~At(s, "lock_datum") /\ ~At(s, "lock_job")
        BY <4>1 DEF At
      <4> QED
        BY <3>1, <3>2, <4>1, <4>2, WaitingIsOrdered
    <3>4. CASE \A s \in circle : At(s, "lock_datum")
      <4>1. \A s \in circle : ~At(s, "assign") /\ ~At(s, "lock_job")
        BY <3>4 DEF At
      <4> QED
        BY <3>4, <4>1, WaitingIsOrdered
    <3> QED
      BY <3>1, <3>2, <3>3, <3>4
  <2> QED
    BY <2>1, <2>2
<1> QED
  BY <1>1, SessionsInvariant, PTL

-----------------------------------------------------------------------------
(* The job is closed when its last datum is settled.                       *)

(***************************************************************************)
(* A datum that is ready or running keeps the job open.                    *)
(***************************************************************************)
LEMMA WorkLeft ==
    ASSUME NEW rows, NEW d \in Datums, rows[d].status \in {"ready", "running"}
    PROVE  Outcome(rows) = "running"
BY DEF Outcome

(***************************************************************************)
(* The commits there are.                                                  *)
(***************************************************************************)
LEMMA Commits ==
    ASSUME Shapes, NEW s \in SessionIds, Commit(s)
    PROVE  LET x == session[s]
           IN  \/ WillCommit(s) /\ HoldsJob(s) /\ job' = x.verdict
               \/ /\ ~HoldsJob(s) /\ UNCHANGED job
                  /\ HoldsDatum(s, x.datum) /\ x.datum \in Datums
                  /\ datums'[x.datum].status \in {"ready", "running"}
               \/ ~HoldsJob(s) /\ UNCHANGED job /\ OwesACount(s)'
               \/ ~HoldsJob(s) /\ UNCHANGED <<job, datums>> /\ ~OwesACount(s)
<1> DEFINE x == session[s]
<1>1. /\ x.fate # "rollback" /\ datums' = Visible(s)
      /\ job' = IF x.verdict = None THEN job ELSE x.verdict
      /\ x.fate \in {"open", "commit", "rollback"}
      /\ datums \in [Datums -> DatumRow] /\ x \in SessionState
  BY DEF Commit, Shapes, SessionsTypeOK, StoreTypeOK, SessionState
<1>2. CASE x.verdict # None
  <2>1. x.fate = "commit"
    BY <1>1, <1>2, Places, HeldJob DEF Commit
  <2> QED
    BY <1>1, <1>2, <2>1 DEF WillCommit, HoldsJob
<1>3. CASE x.verdict = None
  <2>1. \/ x.kind = "reserve" /\ x.step = 4
        \/ x.kind = "zombie" /\ x.step = 2
        \/ x.kind = "rerun" /\ x.step = 2
    BY <1>3, Places, HeldJob DEF Commit
  <2>2. ~HoldsJob(s) /\ UNCHANGED job
    BY <1>1, <1>3 DEF HoldsJob
  <2>3. x.row # None /\ x.datum \in Datums /\ HoldsDatum(s, x.datum)
    BY <2>1, HeldRows DEF HoldsDatum
  <2>4. datums'[x.datum] = x.row
    BY <1>1, <2>3, VisibleRows
  <2>5. CASE x.kind = "reserve"
    <3>1. ReserveShape(s)
      BY <2>5 DEF Shapes, Shape
    <3>2. x.row.status = "running"
      BY <2>1, <2>5, <3>1 DEF ReserveShape
    <3> QED
      BY <2>2, <2>3, <2>4, <3>2
  <2>6. CASE x.kind = "zombie"
    <3>1. x.step = 2 /\ x.step # Len(Script(x.kind))
      BY <2>1, <2>6, Ends
    <3>2. Becomes(s, [[x EXCEPT !.row = None] EXCEPT !.step = @ + 1])
      BY <3>1 DEF Commit, Proceeds
    <3>3. session'[s] = [[x EXCEPT !.row = None] EXCEPT !.step = @ + 1]
      BY <3>2, Moves
    <3>4. session'[s].kind = "zombie" /\ session'[s].step = 3
      BY <1>1, <2>6, <3>1, <3>3 DEF SessionState
    <3> QED
      BY <2>2, <3>4 DEF OwesACount
  <2>7. CASE x.kind = "rerun"
    <3>1. RerunShape(s)
      BY <2>7 DEF Shapes, Shape
    <3>2. x.row = Updated(s)
      BY <2>1, <2>7, <3>1 DEF RerunShape
    <3>3. datums[x.datum] \in DatumRow
      BY <1>1, <2>3
    <3>4. CASE IsRerunable(datums[x.datum])
      <4>1. x.row = [datums[x.datum] EXCEPT !.status = "ready"]
        BY <2>7, <3>2, <3>4 DEF Updated
      <4>2. x.row.status = "ready"
        BY <3>3, <4>1 DEF DatumRow
      <4> QED
        BY <2>2, <2>3, <2>4, <4>2
    <3>5. CASE ~IsRerunable(datums[x.datum])
      <4>1. x.row = datums[x.datum]
        BY <2>7, <3>2, <3>5 DEF Updated
      <4>2. Visible(s) = datums
        BY <1>1, <2>3, <4>1 DEF Visible
      <4> QED
        BY <1>1, <2>2, <2>7, <4>2 DEF OwesACount
    <3> QED
      BY <3>4, <3>5
  <2> QED
    BY <2>1, <2>5, <2>6, <2>7
<1> QED
  BY <1>2, <1>3

(***************************************************************************)
(* A count that is owed is made, or its session was cut off.               *)
(***************************************************************************)
LEMMA OwedCounts ==
    ASSUME Shapes, NEW s \in SessionIds, SessionStep(s)
    PROVE  /\ interrupted => interrupted'
           /\ \A t \in SessionIds :
                OwesACount(t) => \/ OwesACount(t)' \/ interrupted'
                                 \/ t = s /\ Commit(s) /\ HoldsJob(s)
<1> DEFINE x == session[s]
<1>1. interrupted => interrupted'
  BY DEF SessionStep, Begin, LookUp, Select, Assign, LockDatum, LockJob, Count,
         Commit, Cut
<1>2. ASSUME NEW t \in SessionIds \ {s}, OwesACount(t)
      PROVE  OwesACount(t)'
  BY <1>2, RowMoves DEF OwesACount
<1>3. ASSUME OwesACount(s)
      PROVE  OwesACount(s)' \/ interrupted' \/ (Commit(s) /\ HoldsJob(s))
  <2>1. x.kind = "zombie" /\ x.step > 2 /\ x \in SessionState /\ ZombieShape(s)
    BY <1>3 DEF OwesACount, Shapes, Shape, SessionsTypeOK
  <2>2. x.step \in 3..5
    BY <2>1 DEF SessionState
  <2>3. CASE LockJob(s)
    <3>1. Becomes(s, [[x EXCEPT !.verdict = job] EXCEPT !.step = @ + 1])
      BY <2>3 DEF LockJob, Proceeds
    <3>2. session'[s] = [[x EXCEPT !.verdict = job] EXCEPT !.step = @ + 1]
      BY <3>1, Moves
    <3>3. session'[s].kind = "zombie" /\ session'[s].step = x.step + 1
      BY <2>1, <3>2 DEF SessionState
    <3> QED
      BY <2>2, <3>3 DEF OwesACount
  <2>4. CASE Count(s)
    <3>1. \E fate \in {"commit", "rollback"} :
            Becomes(s, [[x EXCEPT !.verdict = Counted(s), !.fate = fate]
                          EXCEPT !.step = @ + 1])
      BY <2>4 DEF Count, Proceeds
    <3>2. PICK fate \in {"commit", "rollback"} :
            session'[s] = [[x EXCEPT !.verdict = Counted(s), !.fate = fate]
                             EXCEPT !.step = @ + 1]
      BY <3>1, Moves
    <3>3. session'[s].kind = "zombie" /\ session'[s].step = x.step + 1
      BY <2>1, <3>2 DEF SessionState
    <3> QED
      BY <2>2, <3>3 DEF OwesACount
  <2>5. CASE Commit(s)
    <3>1. x.step = 5
      BY <2>1, <2>2, <2>5, Places DEF Commit
    <3>2. x.verdict # None
      BY <2>1, <3>1, HeldJob
    <3> QED
      BY <2>5, <3>2 DEF HoldsJob
  <2>6. CASE Cut(s)
    BY <1>3, <2>6 DEF Cut
  <2>7. /\ ~At(s, "idle") /\ ~At(s, "lookup") /\ ~At(s, "select")
        /\ ~At(s, "assign") /\ ~At(s, "lock_datum")
    BY <2>1, <2>2, Places
  <2> QED
    BY <2>3, <2>4, <2>5, <2>6, <2>7
    DEF SessionStep, Begin, LookUp, Select, Assign, LockDatum
<1> QED
  BY <1>1, <1>2, <1>3

(***************************************************************************)
(* The fate of a transaction is sealed by its count only.                  *)
(***************************************************************************)
LEMMA OnlyCountsSealFates ==
    ASSUME Shapes, NEW s \in SessionIds, SessionStep(s), ~Count(s)
    PROVE  session'[s].fate = "open"
<1> DEFINE x == session[s]
<1>1. x \in SessionState
  BY DEF Shapes, SessionsTypeOK
<1>2. ASSUME NEW z \in SessionState, Becomes(s, [z EXCEPT !.step = @ + 1]), z.fate = "open"
      PROVE  session'[s].fate = "open"
  <2>1. session'[s] = [z EXCEPT !.step = @ + 1]
    BY <1>2, Moves
  <2> QED
    BY <1>2, <2>1 DEF SessionState
<1>3. CASE Closes(s)
  <2>1. session'[s] = Closed
    BY <1>3, Moves DEF Closes
  <2> QED
    BY <2>1 DEF Closed
<1>4. CASE Begin(s)
  <2>1. Asked(s)
    BY <1>4 DEF Begin
  <2>2. \E w : Becomes(s, w) /\ w.fate = "open"
    <3>1. ASSUME NEW p \in Pods
          PROVE  [Closed EXCEPT !.kind = "reserve", !.pod = p].fate = "open"
      BY DEF Closed
    <3>2. ASSUME NEW p \in Pods, NEW d \in Datums, NEW status \in {"done", "error"}
          PROVE  [Closed EXCEPT !.kind = "patch", !.pod = p, !.datum = d,
                                !.report = status].fate = "open"
      BY DEF Closed
    <3>3. ASSUME NEW kind \in {"zombie", "rerun"}, NEW d \in Datums
          PROVE  [Closed EXCEPT !.kind = kind, !.datum = d].fate = "open"
      BY DEF Closed
    <3>4. ASSUME NEW info \in {"failed", "healthy"}
          PROVE  [Closed EXCEPT !.kind = "check", !.report = info].fate = "open"
      BY DEF Closed
    <3> QED
      BY <2>1, <3>1, <3>2, <3>3, <3>4, Zenon DEF Asked
  <2> QED
    BY <2>2, Moves
<1>5. CASE (LookUp(s) \/ Select(s) \/ Assign(s) \/ LockDatum(s) \/ LockJob(s)) /\ ~Closes(s)
  <2>1. x.fate = "open"
    <3>1. \/ At(s, "lookup") \/ At(s, "select") \/ At(s, "assign")
          \/ At(s, "lock_datum") \/ At(s, "lock_job")
      BY <1>5 DEF LookUp, Select, Assign, LockDatum, LockJob
    <3>2. ~ \/ x.kind = "patch" /\ x.step = 4
            \/ x.kind = "zombie" /\ x.step = 5
            \/ x.kind = "check" /\ x.step = 3
      BY <3>1, Places
    <3> QED
      BY <3>2, HeldJob
  <2>2. \E z \in SessionState : z.fate = "open" /\ Proceeds(s, z)
    <3>1. CASE LookUp(s)
      BY <1>1, <1>5, <2>1, <3>1 DEF LookUp
    <3>2. CASE Select(s)
      <4>1. PICK d \in Datums : Proceeds(s, [x EXCEPT !.datum = d, !.row = datums[d]])
        BY <1>5, <3>2 DEF Select
      <4>2. datums[d] \in DatumRow
        BY DEF Shapes, SessionsTypeOK, StoreTypeOK
      <4>3. [x EXCEPT !.datum = d, !.row = datums[d]] \in SessionState
        BY <1>1, <4>2, Writes
      <4>4. [x EXCEPT !.datum = d, !.row = datums[d]].fate = "open"
        BY <1>1, <2>1 DEF SessionState
      <4> QED
        BY <4>1, <4>3, <4>4
    <3>3. CASE Assign(s)
      <4> DEFINE row == [status |-> "running", pod_name |-> x.pod,
                         attempted_run_count |-> x.row.attempted_run_count + 1]
                 z == [x EXCEPT !.row = row]
      <4>1. x.row \in DatumRow /\ x.pod \in Pods
        <5>1. x.kind = "reserve" /\ x.step = 3
          BY <3>3, Places DEF Assign
        <5>2. ReserveShape(s)
          BY <5>1 DEF Shapes, Shape
        <5> QED
          BY <5>1, <5>2, HeldRows DEF ReserveShape
      <4>2. row \in DatumRow
        <5>1. x.row.attempted_run_count + 1 \in Nat
          BY <4>1 DEF DatumRow
        <5> QED
          BY <4>1, <5>1 DEF DatumRow, Status
      <4>3. Proceeds(s, z)
        BY <1>1, <1>5, <3>3 DEF Assign, SessionState
      <4>4. z \in SessionState /\ z.fate = "open"
        <5>1. z \in SessionState
          BY <1>1, <4>2, Writes
        <5>2. z.fate = "open"
          BY <1>1, <2>1 DEF SessionState
        <5> QED
          BY <5>1, <5>2
      <4> QED
        BY <4>3, <4>4
    <3>4. CASE LockDatum(s)
      <4>1. Proceeds(s, [x EXCEPT !.row = Updated(s)])
        BY <1>5, <3>4 DEF LockDatum
      <4>2. Updated(s) \in DatumRow
        <5>1. x.kind \in {"patch", "zombie", "rerun"}
          BY <3>4, Places DEF LockDatum
        <5>2. x.datum \in Datums
          BY <5>1 DEF Shapes, Shape, PatchShape, ZombieShape, RerunShape
        <5> QED
          BY <5>2, UpdatedType
      <4>3. [x EXCEPT !.row = Updated(s)] \in SessionState
        BY <1>1, <4>2, Writes
      <4>4. [x EXCEPT !.row = Updated(s)].fate = "open"
        BY <1>1, <2>1 DEF SessionState
      <4> QED
        BY <4>1, <4>3, <4>4
    <3>5. CASE LockJob(s)
      <4>1. [x EXCEPT !.verdict = job] \in SessionState
        BY <1>1, Writes DEF Shapes, SessionsTypeOK, StoreTypeOK
      <4>2. [x EXCEPT !.verdict = job].fate = "open"
        BY <1>1, <2>1 DEF SessionState
      <4> QED
        BY <3>5, <4>1, <4>2 DEF LockJob
    <3> QED
      BY <1>5, <3>1, <3>2, <3>3, <3>4, <3>5
  <2> QED
    BY <1>2, <2>2 DEF Proceeds
<1>6. CASE Commit(s) /\ ~Closes(s)
  <2>1. Proceeds(s, [x EXCEPT !.row = None]) /\ x.step # Len(Script(x.kind))
    BY <1>6 DEF Commit
  <2>2. x.fate = "open"
    <3>1. x.kind = "zombie" /\ x.step = 2
      BY <1>6, <2>1, Places, Ends DEF Commit
    <3> QED
      BY <3>1, HeldJob
  <2>3. [x EXCEPT !.row = None] \in SessionState
    BY <1>1, Writes
  <2>4. [x EXCEPT !.row = None].fate = "open"
    BY <1>1, <2>2 DEF SessionState
  <2> QED
    BY <1>2, <2>1, <2>3, <2>4 DEF Proceeds
<1> QED
  BY <1>3, <1>4, <1>5, <1>6 DEF SessionStep, Cut

(***************************************************************************)
(* A count stays right until it is committed: others may only give the job *)
(* more work, or settle a datum and count later.                           *)
(***************************************************************************)
LEMMA CountsHoldStep ==
    ASSUME Shapes, Locks, CountsHold, NEW s \in SessionIds, SessionStep(s)
    PROVE  CountsHold'
<1> SUFFICES ASSUME NEW r \in SessionIds, WillCommit(r)',
                    session'[r].verdict.status = "running"
             PROVE  Outcome(Visible(r)') = "running" \/ Excused(r)'
  BY DEF CountsHold, WillCommit, Visible, Outcome
<1>1. \A t \in SessionIds \ {s} : session'[t] = session[t]
  BY RowMoves
<1>2. CASE r = s
  <2> DEFINE x == session[s]
  <2>1. x \in SessionState
    BY DEF Shapes, SessionsTypeOK
  <2>2. CASE Count(s)
    <3>1. /\ UNCHANGED datums
          /\ \E fate \in {"commit", "rollback"} :
               Becomes(s, [[x EXCEPT !.verdict = Counted(s), !.fate = fate]
                             EXCEPT !.step = @ + 1])
      BY <2>2 DEF Count, Proceeds, store
    <3>2. PICK fate \in {"commit", "rollback"} :
            session'[s] = [[x EXCEPT !.verdict = Counted(s), !.fate = fate]
                             EXCEPT !.step = @ + 1]
      BY <3>1, Moves
    <3>3. /\ session'[s].row = x.row /\ session'[s].datum = x.datum
          /\ session'[s].verdict = Counted(s)
      BY <2>1, <3>2 DEF SessionState
    <3>4. Visible(s)' = Visible(s)
      BY <3>1, <3>3 DEF Visible
    <3>5. Counted(s).status = "running"
      BY <1>2, <3>3
    <3>6. x.verdict \in JobRow
      BY <2>2, Places, HeldJob DEF Count
    <3>7. Outcome(Visible(s)) = "running"
      BY <3>5, <3>6 DEF Counted, JobFailed, JobRow
    <3> QED
      BY <1>2, <3>4, <3>7
  <2>3. CASE ~Count(s)
    BY <1>2, <2>3, OnlyCountsSealFates DEF WillCommit
  <2> QED
    BY <2>2, <2>3
<1>3. CASE r # s
  <2>1. /\ session'[r] = session[r] /\ WillCommit(r)
        /\ session[r].verdict.status = "running"
    BY <1>1, <1>3 DEF WillCommit
  <2>2. Outcome(Visible(r)) = "running" \/ Excused(r)
    BY <2>1 DEF CountsHold
  <2>3. HoldsJob(r) /\ ~HoldsJob(s)
    <3>1. HoldsJob(r)
      BY <2>1, HeldJob DEF WillCommit, HoldsJob
    <3> QED
      BY <1>3, <3>1 DEF Locks
  <2>4. CASE Excused(r)
    BY <2>3, <2>4, OwedCounts DEF Excused
  <2>5. CASE UNCHANGED datums /\ Outcome(Visible(r)) = "running"
    <3>1. Visible(r)' = Visible(r)
      BY <2>1, <2>5 DEF Visible
    <3> QED
      BY <2>5, <3>1
  <2>6. CASE Commit(s) /\ Outcome(Visible(r)) = "running"
    <3>1. CASE OwesACount(s)'
      BY <1>3, <3>1 DEF Excused
    <3>2. CASE /\ HoldsDatum(s, session[s].datum) /\ session[s].datum \in Datums
               /\ datums'[session[s].datum].status \in {"ready", "running"}
      <4> DEFINE d == session[s].datum
      <4>1. ~HoldsDatum(r, d)
        BY <1>3, <3>2 DEF Locks
      <4>2. Visible(r)'[d] = datums'[d]
        <5>1. datums' \in [Datums -> DatumRow]
          BY ShapesStep DEF Shapes, SessionsTypeOK, StoreTypeOK
        <5>2. session[r].row # None => session[r].datum # d
          BY <4>1 DEF HoldsDatum
        <5> QED
          BY <2>1, <3>2, <5>1, <5>2 DEF Visible
      <4> QED
        BY <3>2, <4>2, WorkLeft
    <3>3. CASE UNCHANGED datums
      BY <2>5, <2>6, <3>3
    <3> QED
      BY <2>3, <2>6, <3>1, <3>2, <3>3, Commits
  <2> QED
    BY <2>2, <2>4, <2>5, <2>6, RowMoves
<1> QED
  BY <1>2, <1>3

(***************************************************************************)
(* A settled job is closed, or about to be.                                *)
(***************************************************************************)
LEMMA SettledJobStep ==
    ASSUME Shapes, Locks, CountsHold, SettledJobIsBeingClosed,
           NEW s \in SessionIds, SessionStep(s)
    PROVE  SettledJobIsBeingClosed'
<1> DEFINE Owed == interrupted \/ \E t \in SessionIds : OwesACount(t)
<1> SUFFICES ASSUME job'.status = "running", Outcome(datums)' # "running"
             PROVE  Owed'
  BY DEF SettledJobIsBeingClosed
<1>1. ASSUME UNCHANGED <<job, datums>>, ~(Commit(s) /\ HoldsJob(s))
      PROVE  Owed'
  <2>1. Owed
    BY <1>1 DEF SettledJobIsBeingClosed
  <2> QED
    BY <1>1, <2>1, OwedCounts
<1>2. CASE Commit(s)
  <2>1. CASE WillCommit(s) /\ HoldsJob(s) /\ job' = session[s].verdict
    <3>1. datums' = Visible(s)
      BY <1>2 DEF Commit
    <3>2. Excused(s)
      BY <2>1, <3>1 DEF CountsHold
    <3>3. \A t \in SessionIds \ {s} : OwesACount(t) => OwesACount(t)' \/ interrupted'
      BY OwedCounts
    <3> QED
      BY <3>2, <3>3, OwedCounts DEF Excused
  <2>2. CASE session[s].datum \in Datums
             /\ datums'[session[s].datum].status \in {"ready", "running"}
    BY <2>2, WorkLeft
  <2>3. CASE OwesACount(s)'
    BY <2>3
  <2>4. CASE ~HoldsJob(s) /\ UNCHANGED <<job, datums>>
    BY <1>1, <2>4
  <2> QED
    BY <1>2, <2>1, <2>2, <2>3, <2>4, Commits
<1>3. CASE ~Commit(s)
  <2>1. UNCHANGED <<job, datums>>
    BY <1>3 DEF SessionStep, Begin, LookUp, Select, Assign, LockDatum, LockJob, Count,
                Cut, store
  <2> QED
    BY <1>1, <1>3, <2>1
<1> QED
  BY <1>2, <1>3

(***************************************************************************)
(* A job with datums is closed by the report that settles the last of them *)
(* or, after the repair of a zombie, by the count the repair still owes,   *)
(* unless its session was cut off (job.rs, update_status_if_done).         *)
(***************************************************************************)
THEOREM ReportsCloseTheJob ==
    Datums # {} => (SessionsSpec => []SettledJobIsBeingClosed)
<1> SUFFICES ASSUME Datums # {}
             PROVE  SessionsSpec => []SettledJobIsBeingClosed
  OBVIOUS
<1> DEFINE Inv == SettledJobIsBeingClosed /\ CountsHold
<1>1. SessionsInit => Inv
  <2> SUFFICES ASSUME SessionsInit PROVE Inv
    OBVIOUS
  <2>1. PICK d \in Datums : TRUE
    OBVIOUS
  <2>2. datums[d].status = "ready"
    BY <2>1 DEF SessionsInit, StoreInit
  <2>3. \A s \in SessionIds : ~WillCommit(s)
    BY DEF SessionsInit, Closed, WillCommit
  <2> QED
    BY <2>2, <2>3, WorkLeft DEF SettledJobIsBeingClosed, CountsHold
<1>2. SessionsInv /\ Inv /\ [SessionsNext]_sessions => Inv'
  <2> SUFFICES ASSUME SessionsInv, Inv, [SessionsNext]_sessions PROVE Inv'
    OBVIOUS
  <2>1. CASE SessionsNext
    <3>1. PICK s \in SessionIds : SessionStep(s)
      BY <2>1 DEF SessionsNext
    <3> QED
      BY <3>1, SettledJobStep, CountsHoldStep DEF SessionsInv
  <2>2. CASE UNCHANGED sessions
    BY <2>2 DEF sessions, store, SettledJobIsBeingClosed, OwesACount, Outcome, IsRerunable,
                CountsHold, WillCommit, Visible, Excused
  <2> QED
    BY <2>1, <2>2
<1>3. Inv => SettledJobIsBeingClosed
  OBVIOUS
<1> QED
  BY <1>1, <1>2, <1>3, SessionsInvariant, PTL DEF SessionsSpec

-----------------------------------------------------------------------------
(* Transactions are atomic.                                                *)

(***************************************************************************)
(* The rows as they will be once the transaction that has counted, if      *)
(* there is one that will commit, has committed.                           *)
(***************************************************************************)
Truth ==
    /\ \A s \in SessionIds :
         WillCommit(s) => TrueJob = session[s].verdict /\ TrueDatums = Visible(s)
    /\ (\A s \in SessionIds : ~WillCommit(s)) => TrueJob = job /\ TrueDatums = datums

\* The mapping is what the session that will commit has written.
LEMMA TruthHolds == Shapes /\ Locks => Truth
<1> SUFFICES ASSUME Shapes, Locks PROVE Truth
  OBVIOUS
<1>1. \A s \in SessionIds : WillCommit(s) => HoldsJob(s)
  BY HeldJob DEF WillCommit, HoldsJob
<1>2. datums \in [Datums -> DatumRow]
  BY DEF Shapes, SessionsTypeOK, StoreTypeOK
<1>3. ASSUME NEW s \in SessionIds, WillCommit(s)
      PROVE  TrueJob = session[s].verdict /\ TrueDatums = Visible(s)
  <2>1. \A t \in SessionIds : WillCommit(t) <=> t = s
    BY <1>1, <1>3 DEF Locks
  <2>2. TrueJob = session[s].verdict
    BY <2>1 DEF TrueJob
  <2>3. \A d \in Datums :
          TrueDatums[d] = IF HoldsDatum(s, d) THEN session[s].row ELSE datums[d]
    BY <2>1 DEF TrueDatums
  <2>4. TrueDatums = [d \in Datums |-> Visible(s)[d]]
    BY <2>3, VisibleRows DEF TrueDatums
  <2>5. Visible(s) = [d \in Datums |-> Visible(s)[d]]
    BY VisibleRows
  <2> QED
    BY <2>2, <2>4, <2>5
<1>4. ASSUME \A s \in SessionIds : ~WillCommit(s)
      PROVE  TrueJob = job /\ TrueDatums = datums
  BY <1>2, <1>4 DEF TrueJob, TrueDatums
<1> QED
  BY <1>3, <1>4 DEF Truth

(***************************************************************************)
(* A transaction that does not count takes effect when it commits.         *)
(***************************************************************************)
LEMMA BlindCommits ==
    ASSUME Shapes, Locks, Shapes', Truth, Truth',
           NEW s \in SessionIds, Commit(s), ~HoldsJob(s)
    PROVE  LET x == session[s]
           IN  /\ x.datum \in Datums /\ HoldsDatum(s, x.datum)
               /\ TrueDatums[x.datum] = datums[x.datum]
               /\ TrueDatums' = [TrueDatums EXCEPT ![x.datum] = x.row]
               /\ UNCHANGED TrueJob
               /\ \A e \in Datums :
                    \/ TrueDatums[e] = datums[e]
                    \/ \E t \in SessionIds :
                         HoldsDatum(t, e) /\ TrueDatums[e] = session[t].row
               /\ TrueDatums \in [Datums -> DatumRow]
<1> DEFINE x == session[s]
           d == x.datum
<1>1. /\ datums' = Visible(s) /\ UNCHANGED job
      /\ datums \in [Datums -> DatumRow] /\ datums' \in [Datums -> DatumRow]
  BY Commits DEF Commit, Shapes, SessionsTypeOK, StoreTypeOK, HoldsJob
<1>2. x.row # None /\ d \in Datums
  <2>1. x.verdict = None
    BY DEF HoldsJob
  <2>2. \/ x.kind = "reserve" /\ x.step = 4
        \/ x.kind = "zombie" /\ x.step = 2
        \/ x.kind = "rerun" /\ x.step = 2
    BY <2>1, Places, HeldJob DEF Commit
  <2> QED
    BY <2>2, HeldRows
<1>3. datums' = [datums EXCEPT ![d] = x.row]
  BY <1>1, <1>2 DEF Visible
<1>4. SessionStep(s) /\ ~Count(s)
  BY DEF SessionStep, Commit, Count, At
<1>5. ~WillCommit(s) /\ ~WillCommit(s)'
  BY <1>4, OnlyCountsSealFates, HeldJob DEF WillCommit, HoldsJob
<1>6. \A t \in SessionIds \ {s} : session'[t] = session[t]
  BY <1>4, RowMoves
<1>7. CASE \E r \in SessionIds : WillCommit(r)
  <2>1. PICK r \in SessionIds \ {s} : WillCommit(r)
    BY <1>5, <1>7
  <2>2. WillCommit(r)' /\ session'[r] = session[r]
    BY <1>6, <2>1 DEF WillCommit
  <2>3. /\ TrueJob = session[r].verdict /\ TrueJob' = session[r].verdict
        /\ TrueDatums = Visible(r) /\ TrueDatums' = Visible(r)'
    BY <2>1, <2>2 DEF Truth
  <2>4. ~HoldsDatum(r, d)
    BY <1>2, <2>1 DEF Locks, HoldsDatum
  <2>5. Visible(r)' = IF session[r].row = None THEN datums'
                      ELSE [datums' EXCEPT ![session[r].datum] = session[r].row]
    BY <2>2 DEF Visible
  <2>6. TrueDatums' = [TrueDatums EXCEPT ![d] = x.row]
    <3>1. CASE session[r].row = None
      BY <1>3, <2>3, <2>5, <3>1 DEF Visible
    <3>2. CASE session[r].row # None
      <4>1. session[r].datum # d
        BY <2>4, <3>2 DEF HoldsDatum
      <4>2. TrueDatums' = [[datums EXCEPT ![d] = x.row]
                             EXCEPT ![session[r].datum] = session[r].row]
        BY <1>3, <2>3, <2>5, <3>2
      <4>3. TrueDatums = [datums EXCEPT ![session[r].datum] = session[r].row]
        BY <2>3, <3>2 DEF Visible
      <4> QED
        BY <1>1, <4>1, <4>2, <4>3
    <3> QED
      BY <3>1, <3>2
  <2>7. /\ TrueDatums \in [Datums -> DatumRow]
        /\ \A e \in Datums :
             TrueDatums[e] = IF HoldsDatum(r, e) THEN session[r].row ELSE datums[e]
    BY <2>3, VisibleRows
  <2> QED
    BY <1>2, <2>3, <2>4, <2>6, <2>7 DEF HoldsDatum
<1>8. CASE \A r \in SessionIds : ~WillCommit(r)
  <2>1. \A r \in SessionIds : ~WillCommit(r)'
    BY <1>5, <1>6, <1>8 DEF WillCommit
  <2>2. TrueJob = job /\ TrueDatums = datums /\ TrueJob' = job' /\ TrueDatums' = datums'
    BY <1>8, <2>1 DEF Truth
  <2> QED
    BY <1>1, <1>2, <1>3, <2>2 DEF HoldsDatum
<1> QED
  BY <1>7, <1>8

(***************************************************************************)
(* Each statement is a transaction of Transactions or a stutter.           *)
(***************************************************************************)
LEMMA StatementsAreTransactions ==
    ASSUME Shapes, Locks, PodsMayRunOneDatum, Shapes', Truth, Truth',
           NEW s \in SessionIds, SessionStep(s)
    PROVE  AtomicStore!Transaction \/ UNCHANGED <<TrueJob, TrueDatums, output_files>>
<1> DEFINE x == session[s]
           d == x.datum
<1>1. /\ output_files = {} /\ output_files' = {}
      /\ datums \in [Datums -> DatumRow] /\ job \in JobRow /\ x \in SessionState
  BY DEF Shapes, SessionsTypeOK, StoreTypeOK
<1>2. \A t \in SessionIds \ {s} : session'[t] = session[t]
  BY RowMoves
<1>3. \A t \in SessionIds : WillCommit(t) => HoldsJob(t)
  BY HeldJob DEF WillCommit, HoldsJob
<1>4. CASE Commit(s) /\ HoldsJob(s)
  <2>1. WillCommit(s) /\ job' = x.verdict /\ datums' = Visible(s)
    BY <1>4, Commits DEF Commit
  <2>2. ~Count(s)
    BY <1>4 DEF Commit, Count, At
  <2>3. \A t \in SessionIds : ~WillCommit(t)'
    BY <1>2, <1>3, <1>4, <2>2, OnlyCountsSealFates DEF WillCommit, Locks
  <2> QED
    BY <1>1, <2>1, <2>3 DEF Truth
<1>5. CASE Commit(s) /\ ~HoldsJob(s)
  <2>1. /\ d \in Datums /\ HoldsDatum(s, d)
        /\ TrueDatums[d] = datums[d]
        /\ TrueDatums' = [TrueDatums EXCEPT ![d] = x.row]
        /\ UNCHANGED TrueJob
        /\ \A e \in Datums :
             \/ TrueDatums[e] = datums[e]
             \/ \E t \in SessionIds : HoldsDatum(t, e) /\ TrueDatums[e] = session[t].row
        /\ TrueDatums \in [Datums -> DatumRow]
    BY <1>5, TruthHolds, BlindCommits
  <2>2. \/ x.kind = "reserve" /\ x.step = 4 /\ ReserveShape(s)
        \/ x.kind = "zombie" /\ x.step = 2 /\ ZombieShape(s)
        \/ x.kind = "rerun" /\ x.step = 2 /\ RerunShape(s)
    <3>1. \/ x.kind = "reserve" /\ x.step = 4
          \/ x.kind = "zombie" /\ x.step = 2
          \/ x.kind = "rerun" /\ x.step = 2
      BY <1>5, Places, HeldJob DEF Commit, HoldsJob
    <3> QED
      BY <3>1 DEF Shapes, Shape
  <2>3. CASE x.kind = "reserve"
    <3>1. /\ x.pod \in Pods /\ datums[d].status = "ready"
          /\ x.row = [status |-> "running", pod_name |-> x.pod,
                      attempted_run_count |-> datums[d].attempted_run_count + 1]
      BY <2>2, <2>3 DEF ReserveShape
    <3>2. MayRun(d, x.pod)
      BY <2>1, <3>1 DEF MayRun, RunsIn
    <3>3. \A e \in Datums : ~AtomicStore!OwnedBy(e, x.pod)
      <4>1. SUFFICES ASSUME NEW e \in Datums, AtomicStore!OwnedBy(e, x.pod)
                     PROVE  FALSE
        OBVIOUS
      <4>2. RunsIn(TrueDatums[e], x.pod)
        BY <4>1 DEF AtomicStore!OwnedBy, RunsIn
      <4>3. MayRun(e, x.pod)
        BY <2>1, <4>2 DEF MayRun, OwnedBy, RunsIn
      <4>4. e = d
        BY <2>1, <3>1, <3>2, <4>3 DEF PodsMayRunOneDatum
      <4> QED
        BY <2>1, <3>1, <4>2, <4>4 DEF RunsIn
    <3>4. AtomicStore!ReserveNextDatum(x.pod, d)
      BY <1>1, <2>1, <3>1, <3>3 DEF AtomicStore!ReserveNextDatum
    <3> QED
      BY <2>1, <3>1, <3>4 DEF AtomicStore!Transaction
  <2>4. CASE x.kind = "zombie"
    <3>1. x.row = IF TrueDatums[d].status = "running"
                  THEN [TrueDatums[d] EXCEPT !.status = "error"]
                  ELSE TrueDatums[d]
      BY <2>1, <2>2, <2>4 DEF ZombieShape, Updated
    <3>2. AtomicStore!MarkZombie(d)
      BY <1>1, <2>1, <3>1 DEF AtomicStore!MarkZombie, AtomicStore!DatumMarked
    <3> QED
      BY <2>1, <3>2 DEF AtomicStore!Transaction
  <2>5. CASE x.kind = "rerun"
    <3>1. x.row = IF IsRerunable(TrueDatums[d])
                  THEN [TrueDatums[d] EXCEPT !.status = "ready"]
                  ELSE TrueDatums[d]
      BY <2>1, <2>2, <2>5 DEF RerunShape, Updated
    <3>2. AtomicStore!RerunDatum(d)
      BY <1>1, <2>1, <3>1
      DEF AtomicStore!RerunDatum, AtomicStore!DatumMarked, AtomicStore!IsRerunable,
          AtomicStore!FilesOf, IsRerunable
    <3> QED
      BY <2>1, <3>2 DEF AtomicStore!Transaction
  <2> QED
    BY <2>2, <2>3, <2>4, <2>5
<1>6. CASE Count(s)
  <2>1. /\ UNCHANGED <<job, datums>>
        /\ \E fate \in {"commit", "rollback"} :
             Becomes(s, [[x EXCEPT !.verdict = Counted(s), !.fate = fate]
                           EXCEPT !.step = @ + 1])
    BY <1>6 DEF Count, Proceeds, store
  <2>2. PICK fate \in {"commit", "rollback"} :
          session'[s] = [[x EXCEPT !.verdict = Counted(s), !.fate = fate]
                           EXCEPT !.step = @ + 1]
    BY <2>1, Moves
  <2>3. /\ session'[s].row = x.row /\ session'[s].datum = d
        /\ session'[s].verdict = Counted(s) /\ session'[s].fate = fate
    BY <1>1, <2>2 DEF SessionState
  <2>4. \/ x.kind = "patch" /\ x.step = 3 /\ PatchShape(s)
        \/ x.kind = "zombie" /\ x.step = 4 /\ ZombieShape(s)
        \/ x.kind = "check" /\ x.step = 2 /\ CheckShape(s)
    <3>1. \/ x.kind = "patch" /\ x.step = 3
          \/ x.kind = "zombie" /\ x.step = 4
          \/ x.kind = "check" /\ x.step = 2
      BY <1>6, Places DEF Count
    <3> QED
      BY <3>1 DEF Shapes, Shape
  <2>5. x.verdict = job /\ x.fate = "open" /\ x.verdict # None
    BY <2>4, HeldJob DEF PatchShape, ZombieShape, CheckShape, JudgesFrom
  <2>6. \A t \in SessionIds : ~WillCommit(t)
    BY <1>3, <2>5 DEF Locks, HoldsJob, WillCommit
  <2>7. TrueJob = job /\ TrueDatums = datums
    BY <2>6 DEF Truth
  <2>8. CASE fate = "rollback"
    <3>1. \A t \in SessionIds : ~WillCommit(t)'
      BY <1>2, <2>3, <2>6, <2>8 DEF WillCommit
    <3> QED
      BY <1>1, <2>1, <2>7, <3>1 DEF Truth
  <2>9. CASE fate = "commit"
    <3>1. WillCommit(s)'
      BY <2>3, <2>9 DEF WillCommit
    <3>2. TrueJob' = Counted(s) /\ TrueDatums' = Visible(s)
      BY <2>1, <2>3, <3>1 DEF Truth, Visible
    <3>3. Counted(s) = LET counted == IF TrueJob.status # "running" THEN TrueJob
                                      ELSE [TrueJob EXCEPT !.status = Outcome(TrueDatums')]
                       IN  IF x.report = "failed" /\ counted.status = "running"
                           THEN JobFailed
                           ELSE counted
      BY <2>5, <2>7, <3>2 DEF Counted
    <3>4. Outcome(TrueDatums') = AtomicStore!Outcome(TrueDatums')
      BY DEF Outcome, AtomicStore!Outcome, IsRerunable, AtomicStore!IsRerunable
    <3>5. CASE x.kind = "patch"
      <4>1. /\ x.pod \in Pods /\ d \in Datums /\ x.report \in {"done", "error"}
            /\ x.row = Updated(s) /\ OwnedBy(d, x.pod) /\ x.row # None
        BY <2>4, <3>5, HeldRows DEF PatchShape
      <4>2. TrueDatums' = [TrueDatums EXCEPT ![d].status = x.report]
        BY <2>7, <3>2, <3>5, <4>1 DEF Visible, Updated
      <4>3. TrueJob' = IF TrueJob.status # "running" THEN TrueJob
                       ELSE [TrueJob EXCEPT !.status = AtomicStore!Outcome(TrueDatums')]
        BY <3>2, <3>3, <3>4, <4>1
      <4>4. AtomicStore!PatchDatum(x.pod, d, x.report)
        BY <1>1, <2>7, <4>1, <4>2, <4>3
        DEF AtomicStore!PatchDatum, AtomicStore!OwnedBy, AtomicStore!DatumMarked,
            AtomicStore!JobIfDone, OwnedBy
      <4> QED
        BY <4>1, <4>4 DEF AtomicStore!Transaction
    <3>6. CASE x.kind \in {"zombie", "check"}
      <4>1. x.row = None
        BY <2>4, <3>6 DEF ZombieShape, CheckShape
      <4>2. TrueDatums' = TrueDatums
        BY <2>7, <3>2, <4>1 DEF Visible
      <4>3. AtomicStore!FinishOrFail(x.report = "failed")
        BY <1>1, <3>2, <3>3, <3>4, <4>2
        DEF AtomicStore!FinishOrFail, AtomicStore!JobIfDone, AtomicStore!JobFailed, JobFailed
      <4>4. (x.report = "failed") \in BOOLEAN
        OBVIOUS
      <4> QED
        BY <4>3, <4>4 DEF AtomicStore!Transaction
    <3> QED
      BY <2>4, <3>5, <3>6
  <2> QED
    BY <2>8, <2>9
<1>7. CASE ~Commit(s) /\ ~Count(s)
  <2>1. UNCHANGED <<job, datums>>
    BY <1>7 DEF SessionStep, Begin, LookUp, Select, Assign, LockDatum, LockJob, Cut, store
  <2>2. ~WillCommit(s) /\ ~WillCommit(s)'
    <3>1. ~WillCommit(s)'
      BY <1>7, OnlyCountsSealFates DEF WillCommit
    <3>2. CASE Cut(s)
      BY <3>1, <3>2 DEF Cut, WillCommit
    <3>3. CASE ~Cut(s)
      <4>1. ~At(s, "commit")
        BY <1>7, <3>3
        DEF SessionStep, Begin, LookUp, Select, Assign, LockDatum, LockJob, At
      <4> QED
        BY <3>1, <4>1, Places, HeldJob DEF WillCommit
    <3> QED
      BY <3>2, <3>3
  <2>3. CASE \E r \in SessionIds : WillCommit(r)
    <3>1. PICK r \in SessionIds \ {s} : WillCommit(r)
      BY <2>2, <2>3
    <3>2. WillCommit(r)' /\ session'[r] = session[r]
      BY <1>2, <3>1 DEF WillCommit
    <3>3. Visible(r)' = Visible(r)
      BY <2>1, <3>2 DEF Visible
    <3> QED
      BY <1>1, <3>1, <3>2, <3>3 DEF Truth
  <2>4. CASE \A r \in SessionIds : ~WillCommit(r)
    <3>1. \A r \in SessionIds : ~WillCommit(r)'
      BY <1>2, <2>2, <2>4 DEF WillCommit
    <3> QED
      BY <1>1, <2>1, <2>4, <3>1 DEF Truth
  <2> QED
    BY <2>3, <2>4
<1> QED
  BY <1>4, <1>5, <1>6, <1>7

(***************************************************************************)
(* Sessions implements Transactions: however the statements interleave,    *)
(* the rows change as if each transaction happened at once.                *)
(***************************************************************************)
THEOREM SessionsAreAtomic == SessionsSpec => TransactionsAreAtomic
<1>1. SessionsInit => AtomicStore!StoreInit
  <2> SUFFICES ASSUME SessionsInit PROVE AtomicStore!StoreInit
    OBVIOUS
  <2>1. \A s \in SessionIds : ~WillCommit(s)
    BY DEF SessionsInit, Closed, WillCommit
  <2>2. Shapes /\ StoreInit
    BY ShapesInit DEF SessionsInit
  <2>3. TrueJob = job /\ TrueDatums = datums
    BY <2>1, <2>2 DEF TrueJob, TrueDatums, Shapes, SessionsTypeOK, StoreTypeOK
  <2> QED
    BY <2>2, <2>3 DEF StoreInit, AtomicStore!StoreInit
<1>2. ASSUME SessionsInv, SessionsInv', Truth, Truth', [SessionsNext]_sessions
      PROVE  [AtomicStore!Transaction]_AtomicStore!store
  <2>1. CASE SessionsNext
    <3>1. PICK s \in SessionIds : SessionStep(s)
      BY <2>1 DEF SessionsNext
    <3> QED
      BY <1>2, <3>1, StatementsAreTransactions DEF SessionsInv, AtomicStore!store
  <2>2. CASE UNCHANGED sessions
    <3>1. UNCHANGED <<job, datums, output_files, session>>
      BY <2>2 DEF sessions, store
    <3>2. UNCHANGED <<TrueJob, TrueDatums>>
      BY <3>1 DEF TrueJob, TrueDatums, WillCommit, HoldsDatum
    <3> QED
      BY <3>1, <3>2 DEF AtomicStore!store
  <2> QED
    BY <1>2, <2>1, <2>2
<1>3. SessionsInv => Truth
  BY TruthHolds DEF SessionsInv
<1> QED
  BY <1>1, <1>2, <1>3, SessionsInvariant, PTL
  DEF SessionsSpec, TransactionsAreAtomic, AtomicStore!OneAtATime

=============================================================================
