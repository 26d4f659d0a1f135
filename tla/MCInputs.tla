------------------------------ MODULE MCInputs ------------------------------
EXTENDS Inputs

\* Files at the top of a repository and below, and markers of both directories.
FilesAndMarkers == {<<"x">>, <<"d", "x">>, <<"d", "">>, <<"">>}

Atoms == {Atom(r, b, s, g) : r \in Repos, b \in Bases, s \in BOOLEAN, g \in {"/", "/*"}}

\* Atoms to be nested: they have the slash, and one name does for all.
Nested == {Atom("r", b, TRUE, g) : b \in Bases, g \in {"/", "/*"}}

Flats == {<<>>} \cup {<<a>> : a \in Atoms} \cup (Atoms \X Atoms)

EveryClause ==
    Atoms
    \cup {Cross(f) : f \in Flats} \cup {Union(f) : f \in Flats}
    \cup {Cross(<<a, b, c>>) : a, b, c \in Nested}
    \cup {Cross(<<a, Union(<<b, c>>)>>) : a, b, c \in Nested}
    \cup {Union(<<a, Cross(<<b, c>>)>>) : a, b, c \in Nested}
    \cup {Cross(<<a, Union(<<>>)>>) : a \in Nested}

\* TLC evaluates what a constant stands for at each use, and EveryClause once.
AllClauses == EveryClause

DepthOfAtoms == [atom \in Atoms |-> 0]

DepthOf[clause \in EveryClause] ==
    IF clause.kind = "atom" THEN 0
    ELSE 1 + Max({0} \cup {DepthOf[clause.of[i]] : i \in DOMAIN clause.of})
=============================================================================
