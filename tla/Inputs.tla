------------------------------- MODULE Inputs -------------------------------
(***************************************************************************)
(* How run_job turns the "input" clause of a pipeline specification into   *)
(* datums (falconerid/src/inputs.rs), and what a worker then downloads for *)
(* each of them (sync_down of the storage drivers).                        *)
(*                                                                         *)
(* A repository is a base URI and the objects below it.  Paths below a     *)
(* base are sequences of names, and a path whose last name is empty ends   *)
(* with a slash: such an object is a directory marker, and <<"">> is the   *)
(* base with its slash.  An input file is a place in a bucket and the      *)
(* place below /pfs where its contents go.                                 *)
(***************************************************************************)
EXTENDS Naturals, FiniteSets, SequencesExt

CONSTANTS
    Repos,   \* the names a user gives to repositories
    Bases,   \* base URIs, without their trailing slash, as the store spells them
    Paths,   \* the paths an object can have below a base
    Clauses, \* the input clauses a user can write
    Depth    \* how deep a clause is nested

VARIABLES
    objects,     \* the objects below each base
    unlistable,  \* the bases of which for_uri or list fails
    input,       \* the clause of this job
    stage,       \* requested, or expanded by run_job
    result       \* what input_to_datums returned

vars == <<objects, unlistable, input, stage, result>>

\* An atom's slash says whether the user ended its URI with one.
Atom(repo, base, slash, glob) ==
    [kind |-> "atom", repo |-> repo, base |-> base, slash |-> slash, glob |-> glob]
Cross(inputs) == [kind |-> "cross", of |-> inputs]
Union(inputs) == [kind |-> "union", of |-> inputs]

AtomClauses ==
    [kind : {"atom"}, repo : Repos, base : Bases, slash : BOOLEAN, glob : {"/", "/*"}]

\* A bucket holds finitely many objects, each at a place below its base.  A key
\* with an empty name in it, other than the last, makes list fail.
ASSUME NamesAssumption ==
    /\ Repos \subseteq STRING
    /\ Paths \subseteq Seq(STRING) \ {<<>>}
    /\ \A path \in Paths : \A i \in 1..(Len(path) - 1) : path[i] # ""
    /\ IsFiniteSet(Paths)

\* A clause is read from a JSON document: what it is made of is nested less deep.
ASSUME ClausesAssumption ==
    /\ Depth \in [Clauses -> Nat]
    /\ \A clause \in Clauses :
          \/ clause \in AtomClauses
          \/ /\ clause \in [kind : {"cross", "union"}, of : Seq(Clauses)]
             /\ \A i \in DOMAIN clause.of : Depth[clause.of[i]] < Depth[clause]

Expanded(datums) == [ok |-> TRUE, datums |-> datums]
Refused == [ok |-> FALSE, datums |-> <<>>]

-----------------------------------------------------------------------------

IsMarker(path) == Last(path) = ""

\* What the store calls an object: Path has no slash at its end.
Location(path) == IF IsMarker(path) THEN Front(path) ELSE path

\* CloudStorage::list: every object below the base, in an order of its own.
\* Markers as well, since what is left out ends with a slash, as no location does.
List(base) ==
    LET keys == SetToSeq(objects[base])
    IN  [i \in DOMAIN keys |-> Location(keys[i])]

\* Mutation: only the last name is kept.
FileNameOnly(repo, path) == <<repo, path[Len(path)]>>

\* Mutation: the repository's name is left out.
WithoutRepo(repo, path) == path

\* uri_to_local_path, once its preconditions hold: the base ends with a slash, and
\* the URI is in it, as a marker of the base itself is not.  It does not end with
\* one itself, because no location does.
HasLocalPath(atom, path) == atom.slash /\ path # <<>>

LocalPath(repo, path) == <<repo>> \o path

WholeRepo(atom) ==
    [uri |-> [base |-> atom.base, path |-> <<"">>], local_path |-> <<atom.repo>>]

Entry(atom, path) ==
    [uri |-> [base |-> atom.base, path |-> path],
     local_path |-> LocalPath(atom.repo, path)]

\* Either glob needs the listing; the base is normalised for "/" only.
AtomToDatums(atom) ==
    LET entries == List(atom.base)
    IN  IF atom.base \in unlistable THEN Refused
        ELSE IF atom.glob = "/" THEN Expanded(<< <<WholeRepo(atom)>> >>)
        ELSE IF \E i \in DOMAIN entries : ~HasLocalPath(atom, entries[i]) THEN Refused
        ELSE Expanded([i \in DOMAIN entries |-> <<Entry(atom, entries[i])>>])

\* Mutation: the lists are paired off instead of multiplied.
PairedOff(left, right) ==
    [k \in 1..(IF Len(left) < Len(right) THEN Len(left) ELSE Len(right)) |->
        left[k] \o right[k]]

\* The two loops of cross_to_datums_helper.
Pairs(left, right) ==
    FlattenSeq([l \in DOMAIN left |-> [r \in DOMAIN right |-> left[l] \o right[r]]])

\* Mutation: a child that fails is skipped.
UnionOfTheGood(parts) ==
    Expanded(FlattenSeq([i \in DOMAIN parts |-> parts[i].datums]))

UnionOf(parts) ==
    IF \E i \in DOMAIN parts : ~parts[i].ok THEN Refused
    ELSE Expanded(FlattenSeq([i \in DOMAIN parts |-> parts[i].datums]))

\* Both inputs of a cross have to expand.
CrossOfTwo(left, right) ==
    IF left.ok /\ right.ok THEN Expanded(Pairs(left.datums, right.datums)) ELSE Refused

\* Mutation: the recursion ends at the empty product, which has no datums.
CrossFromNothing(parts) ==
    LET upTo[n \in 0..Len(parts)] ==
            IF n = 0 THEN Expanded(<<>>) ELSE CrossOfTwo(upTo[n - 1], parts[n])
    IN  upTo[Len(parts)]

CrossOf(parts) ==
    LET upTo[n \in 1..Len(parts)] ==
            IF n = 1 THEN parts[1] ELSE CrossOfTwo(upTo[n - 1], parts[n])
    IN  IF Len(parts) = 0 THEN Expanded(<<>>) ELSE upTo[Len(parts)]

InputToDatums[clause \in Clauses] ==
    IF clause.kind = "atom" THEN AtomToDatums(clause)
    ELSE LET parts == [i \in DOMAIN clause.of |-> InputToDatums[clause.of[i]]]
         IN  IF clause.kind = "cross" THEN CrossOf(parts) ELSE UnionOf(parts)

\* What sync_down fetches for one input file, and where it puts it.  What it asks
\* for under the location of a marker is not there, and the datum fails.
SyncDown(file) ==
    LET whole == file.uri.path = <<"">>
        found == {path \in objects[file.uri.base] :
                    IF whole THEN ~IsMarker(path) ELSE path = file.uri.path}
    IN  {[object |-> [base |-> file.uri.base, path |-> path],
          at |-> IF whole THEN file.local_path \o path ELSE file.local_path] : path \in found}

Downloads(datum) == UNION {SyncDown(datum[i]) : i \in DOMAIN datum}

-----------------------------------------------------------------------------

Init ==
    /\ objects \in [Bases -> SUBSET Paths]
    /\ unlistable \in SUBSET Bases
    /\ input \in Clauses
    /\ stage = "requested"
    /\ result = Refused

Expand ==
    /\ stage = "requested"
    /\ stage' = "expanded"
    /\ result' = InputToDatums[input]
    /\ UNCHANGED <<objects, unlistable, input>>

Ended == stage = "expanded" /\ UNCHANGED vars

Next == Expand \/ Ended

Spec == Init /\ [][Next]_vars

-----------------------------------------------------------------------------
(* Properties of an expansion.                                             *)

HasExpanded == stage = "expanded" /\ result.ok

AtomsOf[clause \in Clauses] ==
    IF clause.kind = "atom" THEN <<clause>>
    ELSE FlattenSeq([i \in DOMAIN clause.of |-> AtomsOf[clause.of[i]]])

\* How often a datum occurs in a list of datums.
Copies(datum, list) == Cardinality({k \in DOMAIN list : list[k] = datum})

(***************************************************************************)
(* A cross of at least one input has `every possible combination`          *)
(* (pipeline.rs, Input::Cross): as many copies of a datum as there are     *)
(* ways to choose one datum of each input that make it up.                 *)
(***************************************************************************)
CrossIsEveryChoice ==
    HasExpanded /\ input.kind = "cross" /\ input.of # <<>> =>
        LET parts == [i \in DOMAIN input.of |-> InputToDatums[input.of[i]].datums]
            choices == {c \in [DOMAIN parts -> UNION {DOMAIN parts[i] : i \in DOMAIN parts}] :
                            \A i \in DOMAIN parts : c[i] \in DOMAIN parts[i]}
            made(c) == FlattenSeq([i \in DOMAIN parts |-> parts[i][c[i]]])
        IN  /\ Len(result.datums) = Cardinality(choices)
            /\ \A datum \in ToSet(result.datums) :
                  Copies(datum, result.datums) =
                      Cardinality({c \in choices : made(c) = datum})

(***************************************************************************)
(* Cross distributes over union, up to the order of the datums (law P4 of  *)
(* plans/INPUT_ALGEBRA_EXTENSIONS.md).                                     *)
(***************************************************************************)
CrossDistributesOverUnion ==
    stage = "expanded" /\ input.kind = "cross" /\ Len(input.of) = 2 /\ input.of[2].kind = "union" =>
        LET terms == input.of[2].of
            \* What the union of the crosses with each term expands to.
            sum == UnionOf([i \in DOMAIN terms |->
                       CrossOf(<<InputToDatums[input.of[1]], InputToDatums[terms[i]]>>)])
        IN  /\ terms # <<>> => result.ok = sum.ok
            /\ \A datum \in ToSet(result.datums) \cup ToSet(sum.datums) :
                  result.ok => Copies(datum, result.datums) = Copies(datum, sum.datums)

(***************************************************************************)
(* An expansion is all or nothing, however deep a refused atom is nested:  *)
(* one that cannot be listed, or a "/*" atom that lacks the slash and has  *)
(* something to list, or whose base has a marker of its own.               *)
(***************************************************************************)
RefusedWithItsAtoms ==
    stage = "expanded" =>
        (~result.ok <=>
            \E i \in DOMAIN AtomsOf[input] :
                LET atom == AtomsOf[input][i]
                IN  \/ atom.base \in unlistable
                    \/ /\ atom.glob = "/*"
                       /\ \/ ~atom.slash /\ objects[atom.base] # {}
                          \/ <<"">> \in objects[atom.base])

(***************************************************************************)
(* `Normalize our URI to always include a slash, because repositories must *)
(* currently be directories` (inputs.rs:124): an atom means the same with  *)
(* and without it.  Fails, because list and uri_to_local_path are given    *)
(* the URI as it was written.                                              *)
(***************************************************************************)
SlashIsOptional ==
    stage = "expanded" /\ input.kind = "atom" =>
        result = AtomToDatums([input EXCEPT !.slash = TRUE])

(***************************************************************************)
(* The workers download every object of a repository without directory     *)
(* markers, each for exactly one datum, to the place below /pfs/repo that  *)
(* it has below the base.                                                  *)
(***************************************************************************)
DownloadsMirrorTheRepo ==
    HasExpanded /\ input.kind = "atom" /\ (\A path \in objects[input.base] : ~IsMarker(path)) =>
        /\ UNION {Downloads(datum) : datum \in ToSet(result.datums)} =
             {[object |-> [base |-> input.base, path |-> path],
               at |-> <<input.repo>> \o path] : path \in objects[input.base]}
        /\ \A i, j \in DOMAIN result.datums :
              i # j => Downloads(result.datums[i]) \cap Downloads(result.datums[j]) = {}

(***************************************************************************)
(* If no two atoms share a repo name, no download of a datum overwrites    *)
(* another one (compare the clobber hazard of                              *)
(* plans/INPUT_ALGEBRA_EXTENSIONS.md).                                     *)
(***************************************************************************)
DownloadsDoNotCollide ==
    HasExpanded /\ IsInjective([i \in DOMAIN AtomsOf[input] |-> AtomsOf[input][i].repo]) =>
        \A datum \in ToSet(result.datums) :
            \A x, y \in Downloads(datum) : x.at = y.at => x.object = y.object
=============================================================================
