---------------------------- MODULE InputsProofs ----------------------------
(***************************************************************************)
(* Proofs of the properties of Inputs, for clauses of every size and every *)
(* nesting and for repositories of every size.  Each is by induction over  *)
(* the depth of a clause, and over the inputs of a cross within.           *)
(***************************************************************************)
EXTENDS Inputs, Recursion

\* No prover knows that a literal is a string.
Names == STRING \cup {""}

File == [uri : [base : Bases, path : Seq(Names)], local_path : Seq(STRING)]

Datums == Seq(Seq(File))

Expansion == [ok : BOOLEAN, datums : Datums]

ListsObjects == objects \in [Bases -> SUBSET Paths]

(***************************************************************************)
(* A clause is an atom, or a cross or a union of clauses less deep.        *)
(***************************************************************************)
LEMMA ClauseKinds ==
    ASSUME NEW clause \in Clauses
    PROVE  \/ clause.kind = "atom" /\ clause \in AtomClauses
           \/ /\ clause.kind \in {"cross", "union"}
              /\ clause.of \in Seq(Clauses)
              /\ \A i \in 1..Len(clause.of) : Depth[clause.of[i]] < Depth[clause]
  BY ClausesAssumption DEF AtomClauses

(***************************************************************************)
(* What holds of a clause when it holds of the clauses it is made of holds *)
(* of every clause.                                                        *)
(***************************************************************************)
LEMMA ClauseInduction ==
    ASSUME NEW S,
           \A clause \in Clauses : clause \in AtomClauses => clause \in S,
           \A clause \in Clauses :
              /\ clause.kind \in {"cross", "union"}
              /\ clause.of \in Seq(Clauses)
              /\ \A i \in 1..Len(clause.of) : clause.of[i] \in S
              => clause \in S
    PROVE  Clauses \subseteq S
<1>1. ASSUME NEW clause \in Clauses,
             \A c \in Clauses : Depth[c] < Depth[clause] => c \in S
      PROVE  clause \in S
  <2>1. CASE clause.kind = "atom" /\ clause \in AtomClauses
    BY <2>1
  <2>2. CASE /\ clause.kind \in {"cross", "union"}
             /\ clause.of \in Seq(Clauses)
             /\ \A i \in 1..Len(clause.of) : Depth[clause.of[i]] < Depth[clause]
    <3>1. \A i \in 1..Len(clause.of) : clause.of[i] \in Clauses
      BY <2>2
    <3>2. \A i \in 1..Len(clause.of) : clause.of[i] \in S
      BY <1>1, <2>2, <3>1
    <3> QED BY <2>2, <3>2
  <2> QED BY <2>1, <2>2, ClauseKinds
<1> QED BY <1>1, ClausesAssumption, DepthInduction

-----------------------------------------------------------------------------
(* What the operators return.                                              *)

\* What the store can call an object: nothing ends with a slash.
Locations == {path \in Seq(STRING) : path # <<>> => path[Len(path)] # ""}

\* A list of one.
LEMMA Singletons ==
    ASSUME NEW T, NEW e \in T
    PROVE  /\ <<e>> \in Seq(T) /\ Len(<<e>>) = 1 /\ <<e>>[1] = e /\ <<e>> # <<>>
           /\ \A s \in Seq(T) : Len(s) = 1 /\ s[1] = e => s = <<e>>
<1> DEFINE one == <<e>>
<1>1. one \in Seq(T) /\ Len(one) = 1 /\ one[1] = e /\ one # <<>>
  OBVIOUS
<1> HIDE DEF one
<1>2. ASSUME NEW s \in Seq(T), Len(s) = 1, s[1] = e PROVE s = one
  BY <1>1, <1>2, SeqEqual
<1> QED BY <1>1, <1>2 DEF one

\* The base with its slash is the location of nothing.
LEMMA BaseIsNoLocation == <<"">> \in Seq(Names) /\ <<"">> \notin Locations
<1> DEFINE empty == ""
           slash == <<empty>>
<1>1. empty \in Names
  BY DEF Names
<1> HIDE DEF empty
<1>2. slash \in Seq(Names) /\ Len(slash) = 1 /\ slash[1] = empty /\ slash # <<>>
  BY <1>1, Singletons
<1> HIDE DEF slash
<1>3. slash \notin Locations
  BY <1>2 DEF Locations, empty
<1> QED BY <1>2, <1>3 DEF slash, empty

\* The location of a file is its path; only a marker of the base itself has none.
LEMMA LocationOf ==
    ASSUME NEW path \in Paths
    PROVE  /\ Location(path) \in Locations
           /\ ~IsMarker(path) => Location(path) = path
           /\ Location(path) = <<>> <=> path = <<"">>
<1> DEFINE empty == ""
           slash == <<empty>>
           N == Len(path)
           named == \A k \in 1..(N - 1) : path[k] # empty
           nonEmpty == path[N] # empty
<1>1. path \in Seq(STRING) /\ path # <<>>
  BY NamesAssumption
<1>2. N \in Nat /\ N # 0
  BY <1>1, EmptySeq
<1>3. named
  BY NamesAssumption
<1>4. empty \in Names /\ path \in Seq(Names)
  BY <1>1, SeqMonotonic DEF Names
<1>5. IsMarker(path) <=> ~nonEmpty
  BY DEF IsMarker, Last
<1> HIDE DEF empty
<1>6. /\ slash \in Seq(Names) /\ Len(slash) = 1 /\ slash[1] = empty
      /\ \A s \in Seq(Names) : Len(s) = 1 /\ s[1] = empty => s = slash
  BY <1>4, Singletons
<1>7. ASSUME NEW p \in Seq(STRING), p # <<>> => p[Len(p)] # empty PROVE p \in Locations
  BY <1>7 DEF Locations, empty
<1> HIDE DEF slash, N
<1>8. CASE IsMarker(path)
  <2> DEFINE n == N - 1
             front == Front(path)
  <2>1. n \in Nat /\ n <= N /\ N = n + 1 /\ front = SubSeq(path, 1, n)
    BY <1>2 DEF Front, N
  <2>2. front \in Seq(STRING) /\ Len(front) = n /\ \A k \in 1..n : front[k] = path[k]
    <3>1. \A k \in 1..n : path[k] \in STRING
      <4>1. \A k \in 1..N : path[k] \in STRING
        BY <1>1, ElementOfSeq DEF N
      <4> QED BY <2>1, <4>1
    <3> HIDE DEF n, front
    <3>2. /\ SubSeq(path, 1, n) \in Seq(STRING)
          /\ Len(SubSeq(path, 1, n)) = IF 1 <= n THEN n - 1 + 1 ELSE 0
          /\ \A k \in 1..(n - 1 + 1) : SubSeq(path, 1, n)[k] = path[1 + k - 1]
      BY <2>1, <3>1, SubSeqProperties
    <3> QED BY <2>1, <3>2
  <2>3. path[N] = empty
    BY <1>5, <1>8
  <2>4. \A k \in 1..n : path[k] # empty
    BY <1>3
  <2> HIDE DEF front, n
  <2>5. front # <<>> => front[Len(front)] # empty
    <3>1. front # <<>> => n # 0
      BY <2>2, EmptySeq
    <3> QED BY <2>1, <2>2, <2>4, <3>1
  <2>6. front = <<>> <=> n = 0
    BY <2>2, EmptySeq
  <2>7. n = 0 <=> path = slash
    BY <1>4, <1>6, <2>1, <2>3 DEF N
  <2>8. front \in Locations
    BY <1>7, <2>2, <2>5
  <2>9. Location(path) = front
    BY <1>8 DEF Location, front
  <2> QED BY <1>8, <2>6, <2>7, <2>8, <2>9 DEF slash, empty
<1>9. CASE ~IsMarker(path)
  <2>1. nonEmpty
    BY <1>5, <1>9
  <2>2. path # slash
    BY <1>6, <2>1 DEF N
  <2>3. path \in Locations
    BY <1>1, <1>7, <2>1 DEF N
  <2>4. Location(path) = path
    BY <1>9 DEF Location
  <2> QED BY <1>1, <2>2, <2>3, <2>4 DEF slash, empty
<1> QED BY <1>8, <1>9

(***************************************************************************)
(* A listing has the location of each object below the base, and, if there *)
(* are no markers, each once.                                              *)
(***************************************************************************)
LEMMA Listing ==
    ASSUME ListsObjects, NEW base \in Bases
    PROVE  /\ List(base) \in Seq(Locations)
           /\ \A path \in objects[base] :
                 \E i \in 1..Len(List(base)) : List(base)[i] = Location(path)
           /\ \A i \in 1..Len(List(base)) :
                 \E path \in objects[base] : List(base)[i] = Location(path)
           /\ (\A path \in objects[base] : ~IsMarker(path)) =>
                 \A i, j \in 1..Len(List(base)) : List(base)[i] = List(base)[j] => i = j
           /\ List(base) = <<>> <=> objects[base] = {}
<1>1. objects[base] \subseteq Paths
  BY DEF ListsObjects
<1>2. IsFiniteSet(objects[base])
  BY <1>1, NamesAssumption, FS_Subset
<1> DEFINE keys == SetToSeq(objects[base])
           N == Len(keys)
           location(i) == Location(keys[i])
           list == [i \in 1..N |-> location(i)]
<1>3. /\ keys \in Seq(objects[base])
      /\ \A i, j \in DOMAIN keys : keys[i] = keys[j] => i = j
      /\ \A x \in objects[base] : \E i \in DOMAIN keys : keys[i] = x
  BY <1>2, SetToSeqLists
<1>4. list = List(base)
  <2> HIDE DEF location
  <2>1. DOMAIN keys = 1..N
    <3> HIDE DEF keys
    <3> QED BY <1>3
  <2> QED BY <2>1 DEF List, location
<1> HIDE DEF keys
<1>5. DOMAIN keys = 1..N /\ N \in Nat /\ \A i \in 1..N : keys[i] \in objects[base]
  BY <1>3
<1>6. \A i \in 1..N : location(i) \in Locations
  <2>1. ASSUME NEW i \in 1..N PROVE location(i) \in Locations
    <3>1. keys[i] \in Paths
      BY <1>1, <1>5
    <3> QED BY <3>1, LocationOf
  <2> QED BY <2>1
<1> HIDE DEF N
<1>7. keys = <<>> <=> N = 0
  BY <1>3 DEF N
<1>8. objects[base] = {} <=> N = 0
  BY <1>3, <1>5
<1>9. list \in Seq(Locations) /\ Len(list) = N /\ \A i \in 1..N : list[i] = location(i)
  <2> HIDE DEF location
  <2> QED BY <1>5, <1>6
<1>10. ASSUME \A path \in objects[base] : ~IsMarker(path)
       PROVE  \A i, j \in 1..N : location(i) = location(j) => i = j
  <2>1. \A i \in 1..N : location(i) = keys[i]
    <3>1. ASSUME NEW i \in 1..N PROVE location(i) = keys[i]
      <4>1. keys[i] \in Paths /\ ~IsMarker(keys[i])
        BY <1>1, <1>5, <1>10
      <4> QED BY <4>1, LocationOf
    <3> QED BY <3>1
  <2> HIDE DEF location
  <2> QED BY <1>3, <1>5, <2>1
<1>11. \A path \in objects[base] : \E i \in 1..N : location(i) = Location(path)
  BY <1>3, <1>5
<1>12. \A i \in 1..N : \E path \in objects[base] : location(i) = Location(path)
  BY <1>5
<1> HIDE DEF location, list
<1>13. list = <<>> <=> N = 0
  BY <1>9
<1> QED BY <1>4, <1>8, <1>9, <1>10, <1>11, <1>12, <1>13

\* An atom expands to a list of datums, or is refused.
LEMMA AtomExpands ==
    ASSUME ListsObjects, NEW atom \in AtomClauses
    PROVE  AtomToDatums(atom) \in Expansion
<1> DEFINE entries == List(atom.base)
<1>1. atom.base \in Bases /\ atom.repo \in STRING
  BY NamesAssumption DEF AtomClauses
<1>2. entries \in Seq(Locations)
  BY <1>1, Listing
<1>3. WholeRepo(atom) \in File
  <2>1. <<"">> \in Seq(Names) /\ <<atom.repo>> \in Seq(STRING)
    BY <1>1, Singletons, BaseIsNoLocation
  <2> QED BY <1>1, <2>1 DEF WholeRepo, File
<1>4. \A path \in Locations : Entry(atom, path) \in File
  <2>1. ASSUME NEW path \in Seq(STRING) PROVE <<atom.repo>> \o path \in Seq(STRING)
    BY <1>1
  <2>2. Locations \subseteq Seq(STRING)
    BY DEF Locations
  <2>3. Locations \subseteq Seq(Names)
    BY <2>2, SeqMonotonic DEF Names
  <2> QED BY <1>1, <2>1, <2>2, <2>3 DEF Entry, LocalPath, File
<1> HIDE DEF entries
<1>5. [i \in DOMAIN entries |-> <<Entry(atom, entries[i])>>] \in Datums
  <2> DEFINE N == Len(entries)
             datum(i) == <<Entry(atom, entries[i])>>
  <2>1. N \in Nat /\ DOMAIN entries = 1..N
    BY <1>2
  <2>2. \A i \in 1..N : datum(i) \in Seq(File)
    BY <1>2, <1>4, <2>1
  <2> HIDE DEF N, datum
  <2>3. [i \in 1..N |-> datum(i)] \in Seq(Seq(File))
    BY <2>1, <2>2
  <2> QED BY <2>1, <2>3 DEF datum, Datums
<1>6. << <<WholeRepo(atom)>> >> \in Datums /\ <<>> \in Datums
  BY <1>3 DEF Datums
<1> QED BY <1>5, <1>6 DEF AtomToDatums, Expanded, Refused, Expansion, entries

(***************************************************************************)
(* A cross of two lists has one element for each element of each.          *)
(***************************************************************************)
LEMMA PairsLists ==
    ASSUME NEW T, NEW left \in Seq(Seq(T)), NEW right \in Seq(Seq(T))
    PROVE  /\ Pairs(left, right) \in Seq(Seq(T))
           /\ Lists(Pairs(left, right),
                    [at \in (1..Len(left)) \X (1..Len(right)) |->
                        left[at[1]] \o right[at[2]]])
<1> DEFINE M == Len(left)
           N == Len(right)
           row(l) == [r \in DOMAIN right |-> left[l] \o right[r]]
           rows == [l \in DOMAIN left |-> row(l)]
           elements == [at \in Places(rows) |-> rows[at[1]][at[2]]]
           products == [at \in (1..M) \X (1..N) |-> left[at[1]] \o right[at[2]]]
<1>1. M \in Nat /\ N \in Nat /\ DOMAIN left = 1..M /\ DOMAIN right = 1..N
  OBVIOUS
<1>2. ASSUME NEW l \in 1..M
      PROVE  row(l) \in Seq(Seq(T)) /\ Len(row(l)) = N
  <2>1. \A r \in 1..N : left[l] \o right[r] \in Seq(T)
    BY <1>1
  <2> HIDE DEF N
  <2>2. [r \in 1..N |-> left[l] \o right[r]] \in Seq(Seq(T))
    BY <1>1, <2>1
  <2> QED BY <1>1, <2>2
<1>3. rows \in Seq(Seq(Seq(T))) /\ Len(rows) = M
  <2> HIDE DEF row, M
  <2> QED BY <1>1, <1>2
<1>4. \A l \in 1..M : rows[l] = row(l)
  BY <1>1
<1>5. Places(rows) = (1..M) \X (1..N)
  <2>1. Len(rows) = M /\ N \in Nat /\ \A l \in 1..M : Len(rows[l]) = N
    <3> HIDE DEF row, rows, M, N
    <3> QED BY <1>1, <1>2, <1>3, <1>4
  <2> HIDE DEF row, rows, M, N
  <2>2. ASSUME NEW at \in Places(rows) PROVE at \in (1..M) \X (1..N)
    <3>1. at \in (1..M) \X Nat /\ at[1] \in 1..M /\ at[2] \in 1..Len(rows[at[1]])
      BY <2>1 DEF Places
    <3>2. at[2] \in 1..N
      BY <2>1, <3>1
    <3> QED BY <3>1, <3>2
  <2>3. ASSUME NEW l \in 1..M, NEW r \in 1..N PROVE <<l, r>> \in Places(rows)
    <3>1. r \in Nat /\ r \in 1..Len(rows[l])
      BY <2>1
    <3> QED BY <2>1, <3>1 DEF Places
  <2> QED BY <2>2, <2>3
<1>6. elements = products
  <2>1. ASSUME NEW l \in 1..M, NEW r \in 1..N PROVE rows[l][r] = left[l] \o right[r]
    BY <1>1, <1>4
  <2> HIDE DEF rows, M, N
  <2> QED BY <1>5, <2>1
<1>7. FlattenSeq(rows) \in Seq(Seq(T)) /\ Lists(FlattenSeq(rows), elements)
  <2> HIDE DEF rows
  <2> QED BY <1>3, FlattenLists
<1>8. FlattenSeq(rows) = Pairs(left, right)
  BY DEF Pairs
<1> HIDE DEF elements, products, rows
<1>9. Pairs(left, right) \in Seq(Seq(T)) /\ Lists(Pairs(left, right), products)
  BY <1>6, <1>7, <1>8
<1> QED BY <1>9 DEF products, M, N

\* So does a cross of two inputs that do.
LEMMA CrossOfTwoExpands ==
    ASSUME NEW left \in Expansion, NEW right \in Expansion
    PROVE  CrossOfTwo(left, right) \in Expansion
<1>1. left.datums \in Datums /\ right.datums \in Datums
  BY DEF Expansion
<1>2. Pairs(left.datums, right.datums) \in Datums /\ <<>> \in Datums
  <2>1. \A l, r \in Seq(Seq(File)) : Pairs(l, r) \in Seq(Seq(File))
    BY PairsLists
  <2> QED BY <1>1, <2>1 DEF Datums
<1> QED BY <1>2 DEF CrossOfTwo, Expanded, Refused, Expansion

(***************************************************************************)
(* A cross multiplies with one input after the other.                      *)
(***************************************************************************)
LEMMA CrossSteps ==
    ASSUME NEW parts \in Seq(Expansion), parts # <<>>
    PROVE  \E upTo \in [1..Len(parts) -> Expansion] :
              /\ upTo[1] = parts[1]
              /\ \A n \in 1..Len(parts) :
                    n # 1 => upTo[n] = CrossOfTwo(upTo[n - 1], parts[n])
              /\ CrossOf(parts) = upTo[Len(parts)]
<1> DEFINE N == Len(parts)
           Equation(f) == f = [n \in 1..N |->
                   IF n = 1 THEN parts[1] ELSE CrossOfTwo(f[n - 1], parts[n])]
           upTo == CHOOSE f : Equation(f)
           G == [n \in 1..N |-> [e \in Expansion |-> CrossOfTwo(e, parts[n])]]
<1>1. N \in Nat /\ N # 0 /\ \A n \in 1..N : parts[n] \in Expansion
  OBVIOUS
<1>2. CrossOf(parts) = upTo[N]
  BY <1>1 DEF CrossOf
<1> HIDE DEF N
<1>3. IsPrefixRecursion(N, Expansion, parts[1], G)
  <2>1. \A n \in 1..N : G[n] \in [Expansion -> Expansion]
    BY <1>1, CrossOfTwoExpands
  <2>2. G \in [1..N -> [Expansion -> Expansion]]
    BY <2>1
  <2> HIDE DEF G
  <2> QED BY <1>1, <2>2 DEF IsPrefixRecursion
<1>4. PICK f \in [1..N -> Expansion] :
         \A n \in 1..N : f[n] = IF n = 1 THEN parts[1] ELSE G[n][f[n - 1]]
  <2> HIDE DEF G
  <2> QED BY <1>3, PrefixRecursion
<1>5. ASSUME NEW n \in 1..N
      PROVE  f[n] = IF n = 1 THEN parts[1] ELSE CrossOfTwo(f[n - 1], parts[n])
  <2>1. n # 1 => n - 1 \in 1..N
    BY <1>1
  <2>2. n # 1 => f[n - 1] \in Expansion
    BY <2>1
  <2> QED BY <1>4, <2>2
<1>6. Equation(f)
  BY <1>4, <1>5
<1>7. Equation(upTo)
  <2> HIDE DEF Equation
  <2> QED BY <1>6
<1> HIDE DEF upTo
<1>8. upTo[1] = parts[1]
  BY <1>1, <1>7
<1>9. \A n \in 1..N : n # 1 => upTo[n] = CrossOfTwo(upTo[n - 1], parts[n])
  BY <1>7
<1>10. DOMAIN upTo = 1..N /\ upTo = [n \in 1..N |-> upTo[n]]
  BY <1>7
<1>11. \A n \in 1..N : upTo[n] \in Expansion
  <2> DEFINE S == {n \in 1..N : upTo[n] \in Expansion}
  <2>1. 1 \in S
    BY <1>1, <1>8
  <2>2. ASSUME NEW n \in 1..N, n \in S, n + 1 <= N PROVE n + 1 \in S
    <3>1. n + 1 \in 1..N /\ n + 1 # 1 /\ (n + 1) - 1 = n
      BY <1>1, <2>2
    <3>2. upTo[n + 1] = CrossOfTwo(upTo[n], parts[n + 1])
      BY <1>9, <3>1
    <3>3. upTo[n] \in Expansion /\ parts[n + 1] \in Expansion
      BY <1>1, <2>2, <3>1
    <3>4. upTo[n + 1] \in Expansion
      BY <3>2, <3>3, CrossOfTwoExpands
    <3> QED BY <3>1, <3>4
  <2>3. 1..N \subseteq S
    <3> HIDE DEF S
    <3> QED BY <1>1, <2>1, <2>2, PrefixInduction
  <2> QED BY <2>3
<1>12. upTo \in [1..N -> Expansion]
  <2> HIDE DEF Equation
  <2> QED BY <1>10, <1>11
<1> HIDE DEF Equation
<1> QED BY <1>2, <1>8, <1>9, <1>12 DEF N

\* So does a cross of any number of inputs that do.
LEMMA CrossExpands ==
    ASSUME NEW parts \in Seq(Expansion)
    PROVE  CrossOf(parts) \in Expansion
<1>1. CASE parts = <<>>
  BY <1>1 DEF CrossOf, Expanded, Expansion, Datums
<1>2. CASE parts # <<>>
  <2>1. Len(parts) \in 1..Len(parts)
    BY <1>2
  <2> QED BY <1>2, <2>1, CrossSteps
<1> QED BY <1>1, <1>2

(***************************************************************************)
(* A union has what its inputs have.                                       *)
(***************************************************************************)
LEMMA UnionLists ==
    ASSUME NEW parts \in Seq(Expansion)
    PROVE  /\ UnionOf(parts) \in Expansion
           /\ UnionOf(parts).ok <=> \A i \in 1..Len(parts) : parts[i].ok
           /\ UnionOf(parts).ok =>
                 UnionOf(parts).datums = FlattenSeq([i \in 1..Len(parts) |-> parts[i].datums])
           /\ [i \in 1..Len(parts) |-> parts[i].datums] \in Seq(Datums)
<1> DEFINE lists == [i \in 1..Len(parts) |-> parts[i].datums]
<1>1. Len(parts) \in Nat /\ DOMAIN parts = 1..Len(parts)
  OBVIOUS
<1>2. \A i \in 1..Len(parts) : parts[i].datums \in Datums /\ parts[i].ok \in BOOLEAN
  <2>1. \A i \in 1..Len(parts) : parts[i] \in Expansion
    OBVIOUS
  <2> QED BY <2>1 DEF Expansion
<1>3. lists \in Seq(Datums)
  <2> DEFINE N == Len(parts)
             list(i) == parts[i].datums
  <2>1. N \in Nat /\ \A i \in 1..N : list(i) \in Datums
    BY <1>2
  <2> HIDE DEF N, list
  <2>2. [i \in 1..N |-> list(i)] \in Seq(Datums)
    BY <2>1
  <2> QED BY <2>2 DEF N, list
<1>4. FlattenSeq(lists) \in Datums /\ <<>> \in Datums
  <2> HIDE DEF lists
  <2>1. \A s \in Seq(Seq(Seq(File))) : FlattenSeq(s) \in Seq(Seq(File))
    BY FlattenLists
  <2> QED BY <1>3, <2>1 DEF Datums
<1>5. UnionOf(parts) =
         IF \E i \in 1..Len(parts) : ~parts[i].ok THEN Refused ELSE Expanded(FlattenSeq(lists))
  BY <1>1 DEF UnionOf
<1> HIDE DEF lists
<1>6. UnionOf(parts) \in Expansion
  BY <1>4, <1>5 DEF Expanded, Refused, Expansion
<1>7. UnionOf(parts).ok <=> \A i \in 1..Len(parts) : parts[i].ok
  BY <1>5 DEF Expanded, Refused
<1>8. UnionOf(parts).ok => UnionOf(parts).datums = FlattenSeq(lists)
  BY <1>5 DEF Expanded, Refused
<1> QED BY <1>3, <1>6, <1>7, <1>8 DEF lists
-----------------------------------------------------------------------------
(* The two recursive functions.                                            *)

\* What the clauses that a clause is made of are mapped to.
Parts(clause, f) == [i \in 1..Len(clause.of) |-> f[clause.of[i]]]

MapsParts(clause, f, V) ==
    clause.of \in Seq(Clauses) /\ \A i \in 1..Len(clause.of) : f[clause.of[i]] \in V

\* The parts of a cross or a union are in the order of its inputs.
LEMMA PartsAreSequences ==
    ASSUME NEW V, NEW f, NEW clause, MapsParts(clause, f, V)
    PROVE  /\ Parts(clause, f) \in Seq(V)
           /\ Len(Parts(clause, f)) = Len(clause.of)
           /\ \A i \in 1..Len(clause.of) : Parts(clause, f)[i] = f[clause.of[i]]
           /\ Parts(clause, f) = [i \in DOMAIN clause.of |-> f[clause.of[i]]]
<1> DEFINE N == Len(clause.of)
           part(i) == f[clause.of[i]]
<1>1. N \in Nat /\ DOMAIN clause.of = 1..N /\ \A i \in 1..N : part(i) \in V
  BY DEF MapsParts
<1>2. Parts(clause, f) = [i \in 1..N |-> part(i)]
  BY DEF Parts
<1>3. Parts(clause, f) = [i \in DOMAIN clause.of |-> f[clause.of[i]]]
  BY <1>1, <1>2
<1> HIDE DEF N, part
<1>4. /\ Parts(clause, f) \in Seq(V)
      /\ Len(Parts(clause, f)) = N
      /\ \A i \in 1..N : Parts(clause, f)[i] = part(i)
  BY <1>1, <1>2
<1> QED BY <1>3, <1>4 DEF N, part

\* The body of InputToDatums.
ExpansionOf(clause, f) ==
    IF clause.kind = "atom" THEN AtomToDatums(clause)
    ELSE IF clause.kind = "cross" THEN CrossOf(Parts(clause, f)) ELSE UnionOf(Parts(clause, f))

\* A clause expands if the clauses do that lie less deep.
LEMMA ExpansionOfExpands ==
    ASSUME ListsObjects, NEW clause \in Clauses, NEW f,
           \A c \in Clauses : Depth[c] < Depth[clause] => f[c] \in Expansion
    PROVE  ExpansionOf(clause, f) \in Expansion
<1>1. CASE clause.kind = "atom" /\ clause \in AtomClauses
  BY <1>1, AtomExpands DEF ExpansionOf
<1>2. CASE /\ clause.kind \in {"cross", "union"}
           /\ clause.of \in Seq(Clauses)
           /\ \A i \in 1..Len(clause.of) : Depth[clause.of[i]] < Depth[clause]
  <2>1. \A i \in 1..Len(clause.of) : clause.of[i] \in Clauses
    BY <1>2
  <2>2. Parts(clause, f) \in Seq(Expansion)
    BY <1>2, <2>1, PartsAreSequences DEF MapsParts
  <2> QED BY <1>2, <2>2, CrossExpands, UnionLists DEF ExpansionOf
<1> QED BY <1>1, <1>2, ClauseKinds

(***************************************************************************)
(* Whatever its nesting, the expansion of a clause is that of its kind,    *)
(* applied to what the clauses expand to that it is made of: the recursion *)
(* of input_to_datums (inputs.rs) has a result, a list of datums or a      *)
(* refusal, for every clause.                                              *)
(***************************************************************************)
THEOREM ClausesExpand ==
    ASSUME ListsObjects
    PROVE  /\ InputToDatums \in [Clauses -> Expansion]
           /\ \A clause \in Clauses :
                 InputToDatums[clause] = ExpansionOf(clause, InputToDatums)
<1> DEFINE Equation(f) == f = [clause \in Clauses |->
                IF clause.kind = "atom" THEN AtomToDatums(clause)
                ELSE LET parts == [i \in DOMAIN clause.of |-> f[clause.of[i]]]
                     IN  IF clause.kind = "cross" THEN CrossOf(parts) ELSE UnionOf(parts)]
           G == [clause \in Clauses |-> [f \in [Clauses -> Expansion] |->
                    ExpansionOf(clause, f)]]
<1>1. ASSUME NEW clause \in Clauses, NEW f, clause.kind # "atom"
      PROVE  Parts(clause, f) = [i \in DOMAIN clause.of |-> f[clause.of[i]]]
  <2>1. clause.of \in Seq(Clauses)
    BY <1>1, ClauseKinds
  <2>2. DOMAIN clause.of = 1..Len(clause.of)
    BY <2>1
  <2> QED BY <2>2 DEF Parts
<1>2. ASSUME NEW f, DOMAIN f = Clauses
      PROVE  Equation(f) <=> f = [clause \in Clauses |-> ExpansionOf(clause, f)]
  <2>1. ASSUME NEW clause \in Clauses
        PROVE  ExpansionOf(clause, f) =
                   IF clause.kind = "atom" THEN AtomToDatums(clause)
                   ELSE LET parts == [i \in DOMAIN clause.of |-> f[clause.of[i]]]
                        IN  IF clause.kind = "cross" THEN CrossOf(parts) ELSE UnionOf(parts)
    BY <1>1 DEF ExpansionOf
  <2> QED BY <2>1, Zenon
<1>3. IsRecursion(Clauses, Expansion, Depth, G)
  <2>1. Expansion # {}
    <3>1. Refused \in Expansion
      BY DEF Refused, Expansion, Datums
    <3> QED BY <3>1
  <2>2. ASSUME NEW clause \in Clauses, NEW f \in [Clauses -> Expansion]
        PROVE  G[clause][f] = ExpansionOf(clause, f) /\ G[clause][f] \in Expansion
    <3>1. ExpansionOf(clause, f) \in Expansion
      BY ExpansionOfExpands
    <3> QED BY <3>1
  <2>3. G \in [Clauses -> [[Clauses -> Expansion] -> Expansion]]
    BY <2>2
  <2>4. ASSUME NEW clause \in Clauses,
               NEW f \in [Clauses -> Expansion], NEW g \in [Clauses -> Expansion],
               \A c \in Clauses : Depth[c] < Depth[clause] => f[c] = g[c]
        PROVE  ExpansionOf(clause, f) = ExpansionOf(clause, g)
    <3>1. CASE clause.kind = "atom"
      BY <3>1 DEF ExpansionOf
    <3>2. CASE clause.kind # "atom"
      <4>1. /\ clause.of \in Seq(Clauses)
            /\ \A i \in 1..Len(clause.of) : Depth[clause.of[i]] < Depth[clause]
        BY <3>2, ClauseKinds
      <4>2. \A i \in 1..Len(clause.of) : clause.of[i] \in Clauses
        BY <4>1
      <4>3. \A i \in 1..Len(clause.of) : f[clause.of[i]] = g[clause.of[i]]
        BY <2>4, <4>1, <4>2
      <4>4. Parts(clause, f) = Parts(clause, g)
        BY <4>3 DEF Parts
      <4> QED BY <3>2, <4>4 DEF ExpansionOf
    <3> QED BY <3>1, <3>2
  <2> HIDE DEF G
  <2>5. \A clause \in Clauses : \A f, g \in [Clauses -> Expansion] :
           (\A c \in Clauses : Depth[c] < Depth[clause] => f[c] = g[c])
              => G[clause][f] = G[clause][g]
    BY <2>2, <2>4
  <2> QED BY <2>1, <2>3, <2>5, ClausesAssumption DEF IsRecursion
<1>4. PICK f \in [Clauses -> Expansion] : \A clause \in Clauses : f[clause] = G[clause][f]
  <2> HIDE DEF G
  <2> QED BY <1>3, DepthRecursion
<1>5. Equation(f)
  <2>1. f = [clause \in Clauses |-> ExpansionOf(clause, f)]
    BY <1>4
  <2> HIDE DEF Equation
  <2> QED BY <1>2, <2>1
<1>6. InputToDatums = CHOOSE g : Equation(g)
  BY DEF InputToDatums
<1>7. Equation(InputToDatums)
  <2> HIDE DEF Equation
  <2> QED BY <1>5, <1>6
<1>8. InputToDatums = [clause \in Clauses |-> ExpansionOf(clause, InputToDatums)]
  <2>1. DOMAIN InputToDatums = Clauses
    BY <1>7
  <2> HIDE DEF Equation
  <2> QED BY <1>2, <1>7, <2>1
<1> HIDE DEF Equation
<1>9. \A clause \in Clauses : InputToDatums[clause] = ExpansionOf(clause, InputToDatums)
  BY <1>8
<1>10. Clauses \subseteq {clause \in Clauses : InputToDatums[clause] \in Expansion}
  <2> DEFINE S == {clause \in Clauses : InputToDatums[clause] \in Expansion}
  <2>1. ASSUME NEW clause \in Clauses,
               \A c \in Clauses : Depth[c] < Depth[clause] => c \in S
        PROVE  clause \in S
    BY <1>9, <2>1, ExpansionOfExpands
  <2> HIDE DEF S
  <2>2. Clauses \subseteq S
    BY <2>1, ClausesAssumption, DepthInduction
  <2> QED BY <2>2 DEF S
<1>11. InputToDatums \in [Clauses -> Expansion]
  BY <1>8, <1>10
<1> QED BY <1>9, <1>11

AtomLists == Seq(AtomClauses)

\* The body of AtomsOf.
AtomsIn(clause, f) ==
    IF clause.kind = "atom" THEN <<clause>> ELSE FlattenSeq(Parts(clause, f))

\* The atoms of a clause are atoms if those of the clauses less deep are.
LEMMA AtomsInAreAtoms ==
    ASSUME NEW clause \in Clauses, NEW f,
           \A c \in Clauses : Depth[c] < Depth[clause] => f[c] \in AtomLists
    PROVE  AtomsIn(clause, f) \in AtomLists
<1>1. CASE clause.kind = "atom" /\ clause \in AtomClauses
  BY <1>1 DEF AtomsIn, AtomLists
<1>2. CASE /\ clause.kind \in {"cross", "union"}
           /\ clause.of \in Seq(Clauses)
           /\ \A i \in 1..Len(clause.of) : Depth[clause.of[i]] < Depth[clause]
  <2>1. \A i \in 1..Len(clause.of) : clause.of[i] \in Clauses
    BY <1>2
  <2>2. Parts(clause, f) \in Seq(AtomLists)
    BY <1>2, <2>1, PartsAreSequences DEF MapsParts
  <2>3. FlattenSeq(Parts(clause, f)) \in AtomLists
    BY <2>2, FlattenLists DEF AtomLists
  <2> QED BY <1>2, <2>3 DEF AtomsIn
<1> QED BY <1>1, <1>2, ClauseKinds

(***************************************************************************)
(* The atoms of a clause are those of the clauses it is made of.           *)
(***************************************************************************)
LEMMA AtomsEquation ==
    /\ AtomsOf \in [Clauses -> AtomLists]
    /\ \A clause \in Clauses : AtomsOf[clause] = AtomsIn(clause, AtomsOf)
<1> DEFINE Equation(f) == f = [clause \in Clauses |->
                IF clause.kind = "atom" THEN <<clause>>
                ELSE FlattenSeq([i \in DOMAIN clause.of |-> f[clause.of[i]]])]
           G == [clause \in Clauses |-> [f \in [Clauses -> AtomLists] |->
                    AtomsIn(clause, f)]]
<1>1. ASSUME NEW clause \in Clauses, NEW f, clause.kind # "atom"
      PROVE  Parts(clause, f) = [i \in DOMAIN clause.of |-> f[clause.of[i]]]
  <2>1. clause.of \in Seq(Clauses)
    BY <1>1, ClauseKinds
  <2>2. DOMAIN clause.of = 1..Len(clause.of)
    BY <2>1
  <2> QED BY <2>2 DEF Parts
<1>2. ASSUME NEW f, DOMAIN f = Clauses
      PROVE  Equation(f) <=> f = [clause \in Clauses |-> AtomsIn(clause, f)]
  <2>1. ASSUME NEW clause \in Clauses
        PROVE  AtomsIn(clause, f) =
                   IF clause.kind = "atom" THEN <<clause>>
                   ELSE FlattenSeq([i \in DOMAIN clause.of |-> f[clause.of[i]]])
    BY <1>1 DEF AtomsIn
  <2> QED BY <2>1, Zenon
<1>3. IsRecursion(Clauses, AtomLists, Depth, G)
  <2>1. AtomLists # {}
    <3>1. <<>> \in AtomLists
      BY DEF AtomLists
    <3> QED BY <3>1
  <2>2. ASSUME NEW clause \in Clauses, NEW f \in [Clauses -> AtomLists]
        PROVE  G[clause][f] = AtomsIn(clause, f) /\ G[clause][f] \in AtomLists
    <3>1. AtomsIn(clause, f) \in AtomLists
      BY AtomsInAreAtoms
    <3> QED BY <3>1
  <2>3. G \in [Clauses -> [[Clauses -> AtomLists] -> AtomLists]]
    BY <2>2
  <2>4. ASSUME NEW clause \in Clauses,
               NEW f \in [Clauses -> AtomLists], NEW g \in [Clauses -> AtomLists],
               \A c \in Clauses : Depth[c] < Depth[clause] => f[c] = g[c]
        PROVE  AtomsIn(clause, f) = AtomsIn(clause, g)
    <3>1. CASE clause.kind = "atom"
      BY <3>1 DEF AtomsIn
    <3>2. CASE clause.kind # "atom"
      <4>1. /\ clause.of \in Seq(Clauses)
            /\ \A i \in 1..Len(clause.of) : Depth[clause.of[i]] < Depth[clause]
        BY <3>2, ClauseKinds
      <4>2. \A i \in 1..Len(clause.of) : clause.of[i] \in Clauses
        BY <4>1
      <4>3. \A i \in 1..Len(clause.of) : f[clause.of[i]] = g[clause.of[i]]
        BY <2>4, <4>1, <4>2
      <4>4. Parts(clause, f) = Parts(clause, g)
        BY <4>3 DEF Parts
      <4> QED BY <3>2, <4>4 DEF AtomsIn
    <3> QED BY <3>1, <3>2
  <2> HIDE DEF G
  <2>5. \A clause \in Clauses : \A f, g \in [Clauses -> AtomLists] :
           (\A c \in Clauses : Depth[c] < Depth[clause] => f[c] = g[c])
              => G[clause][f] = G[clause][g]
    BY <2>2, <2>4
  <2> QED BY <2>1, <2>3, <2>5, ClausesAssumption DEF IsRecursion
<1>4. PICK f \in [Clauses -> AtomLists] : \A clause \in Clauses : f[clause] = G[clause][f]
  <2> HIDE DEF G
  <2> QED BY <1>3, DepthRecursion
<1>5. Equation(f)
  <2>1. f = [clause \in Clauses |-> AtomsIn(clause, f)]
    BY <1>4
  <2> HIDE DEF Equation
  <2> QED BY <1>2, <2>1
<1>6. AtomsOf = CHOOSE g : Equation(g)
  BY DEF AtomsOf
<1>7. Equation(AtomsOf)
  <2> HIDE DEF Equation
  <2> QED BY <1>5, <1>6
<1>8. AtomsOf = [clause \in Clauses |-> AtomsIn(clause, AtomsOf)]
  <2>1. DOMAIN AtomsOf = Clauses
    BY <1>7
  <2> HIDE DEF Equation
  <2> QED BY <1>2, <1>7, <2>1
<1> HIDE DEF Equation
<1>9. \A clause \in Clauses : AtomsOf[clause] = AtomsIn(clause, AtomsOf)
  BY <1>8
<1>10. Clauses \subseteq {clause \in Clauses : AtomsOf[clause] \in AtomLists}
  <2> DEFINE S == {clause \in Clauses : AtomsOf[clause] \in AtomLists}
  <2>1. ASSUME NEW clause \in Clauses,
               \A c \in Clauses : Depth[c] < Depth[clause] => c \in S
        PROVE  clause \in S
    BY <1>9, <2>1, AtomsInAreAtoms
  <2> HIDE DEF S
  <2>2. Clauses \subseteq S
    BY <2>1, ClausesAssumption, DepthInduction
  <2> QED BY <2>2 DEF S
<1>11. AtomsOf \in [Clauses -> AtomLists]
  BY <1>8, <1>10
<1> QED BY <1>9, <1>11

(***************************************************************************)
(* A cross or a union: what its parts are.                                 *)
(***************************************************************************)
LEMMA Composition ==
    ASSUME ListsObjects, NEW clause \in Clauses,
           clause.kind \in {"cross", "union"}, clause.of \in Seq(Clauses)
    PROVE  /\ Parts(clause, InputToDatums) \in Seq(Expansion)
           /\ Len(Parts(clause, InputToDatums)) = Len(clause.of)
           /\ \A i \in 1..Len(clause.of) :
                 Parts(clause, InputToDatums)[i] = InputToDatums[clause.of[i]]
           /\ InputToDatums[clause] =
                 IF clause.kind = "cross" THEN CrossOf(Parts(clause, InputToDatums))
                 ELSE UnionOf(Parts(clause, InputToDatums))
           /\ Parts(clause, AtomsOf) \in Seq(AtomLists)
           /\ Len(Parts(clause, AtomsOf)) = Len(clause.of)
           /\ \A i \in 1..Len(clause.of) : Parts(clause, AtomsOf)[i] = AtomsOf[clause.of[i]]
           /\ AtomsOf[clause] = FlattenSeq(Parts(clause, AtomsOf))
<1>1. clause.kind # "atom"
  OBVIOUS
<1>2. \A i \in 1..Len(clause.of) : clause.of[i] \in Clauses
  OBVIOUS
<1>3. \A c \in Clauses : InputToDatums[c] \in Expansion /\ AtomsOf[c] \in AtomLists
  BY ClausesExpand, AtomsEquation
<1>4. InputToDatums[clause] = ExpansionOf(clause, InputToDatums)
  BY ClausesExpand
<1>5. AtomsOf[clause] = AtomsIn(clause, AtomsOf)
  BY AtomsEquation
<1>6. /\ Parts(clause, InputToDatums) \in Seq(Expansion)
      /\ Len(Parts(clause, InputToDatums)) = Len(clause.of)
      /\ \A i \in 1..Len(clause.of) :
            Parts(clause, InputToDatums)[i] = InputToDatums[clause.of[i]]
  <2>1. MapsParts(clause, InputToDatums, Expansion)
    BY <1>2, <1>3 DEF MapsParts
  <2> QED BY <2>1, PartsAreSequences
<1>7. /\ Parts(clause, AtomsOf) \in Seq(AtomLists)
      /\ Len(Parts(clause, AtomsOf)) = Len(clause.of)
      /\ \A i \in 1..Len(clause.of) : Parts(clause, AtomsOf)[i] = AtomsOf[clause.of[i]]
  <2>1. MapsParts(clause, AtomsOf, AtomLists)
    BY <1>2, <1>3 DEF MapsParts
  <2> QED BY <2>1, PartsAreSequences
<1>8. InputToDatums[clause] =
         IF clause.kind = "cross" THEN CrossOf(Parts(clause, InputToDatums))
         ELSE UnionOf(Parts(clause, InputToDatums))
  BY <1>1, <1>4 DEF ExpansionOf
<1>9. AtomsOf[clause] = FlattenSeq(Parts(clause, AtomsOf))
  BY <1>1, <1>5 DEF AtomsIn
<1> QED BY <1>6, <1>7, <1>8, <1>9

\* An atom expands by itself and is its only atom.
LEMMA AtomsAlone ==
    ASSUME ListsObjects, NEW clause \in Clauses, clause \in AtomClauses
    PROVE  InputToDatums[clause] = AtomToDatums(clause) /\ AtomsOf[clause] = <<clause>>
<1>1. clause.kind = "atom"
  BY DEF AtomClauses
<1>2. InputToDatums[clause] = ExpansionOf(clause, InputToDatums)
  BY ClausesExpand
<1>3. AtomsOf[clause] = AtomsIn(clause, AtomsOf)
  BY AtomsEquation
<1> QED BY <1>1, <1>2, <1>3 DEF ExpansionOf, AtomsIn

(***************************************************************************)
(* A cross expands if all its inputs do, as a union.                       *)
(***************************************************************************)
LEMMA CrossSucceeds ==
    ASSUME NEW parts \in Seq(Expansion)
    PROVE  CrossOf(parts).ok <=> \A i \in 1..Len(parts) : parts[i].ok
<1>1. CASE parts = <<>>
  <2>1. CrossOf(parts) = Expanded(<<>>) /\ 1..Len(parts) = {}
    BY <1>1 DEF CrossOf
  <2> QED BY <2>1 DEF Expanded
<1>2. CASE parts # <<>>
  <2> DEFINE N == Len(parts)
  <2>1. N \in Nat /\ N # 0 /\ \A n \in 1..N : parts[n] \in Expansion
    BY <1>2
  <2>2. PICK upTo \in [1..N -> Expansion] :
              /\ upTo[1] = parts[1]
              /\ \A n \in 1..N : n # 1 => upTo[n] = CrossOfTwo(upTo[n - 1], parts[n])
              /\ CrossOf(parts) = upTo[N]
    BY <1>2, CrossSteps
  <2> HIDE DEF N
  <2>3. \A l, r \in Expansion : CrossOfTwo(l, r).ok <=> l.ok /\ r.ok
    BY DEF CrossOfTwo, Expanded, Refused, Expansion
  <2> DEFINE S == {n \in 1..N : upTo[n].ok <=> \A i \in 1..n : parts[i].ok}
  <2>4. 1 \in S
    <3>1. 1 \in 1..N /\ 1..1 = {1}
      BY <2>1
    <3> QED BY <2>2, <3>1
  <2>5. ASSUME NEW n \in 1..N, n \in S, n + 1 <= N PROVE n + 1 \in S
    <3>1. n + 1 \in 1..N /\ n + 1 # 1 /\ (n + 1) - 1 = n /\ 1..(n + 1) = (1..n) \cup {n + 1}
      BY <2>1, <2>5
    <3>2. upTo[n + 1] = CrossOfTwo(upTo[n], parts[n + 1])
      BY <2>2, <3>1
    <3>3. upTo[n + 1].ok <=> upTo[n].ok /\ parts[n + 1].ok
      BY <2>1, <2>3, <3>1, <3>2
    <3>4. upTo[n + 1].ok <=> \A i \in 1..(n + 1) : parts[i].ok
      BY <2>5, <3>1, <3>3
    <3> QED BY <3>1, <3>4
  <2>6. 1..N \subseteq S
    <3> HIDE DEF S
    <3> QED BY <2>1, <2>4, <2>5, PrefixInduction
  <2>7. N \in S
    BY <2>1, <2>6
  <2> QED BY <2>2, <2>7 DEF N
<1> QED BY <1>1, <1>2

-----------------------------------------------------------------------------
(* When an expansion is refused.                                           *)

IsRefused(atom) ==
    \/ atom.base \in unlistable
    \/ /\ atom.glob = "/*"
       /\ \/ ~atom.slash /\ objects[atom.base] # {}
          \/ <<"">> \in objects[atom.base]

(***************************************************************************)
(* An atom is refused if its base cannot be listed, or if there is an      *)
(* entry that has no place below /pfs.                                     *)
(***************************************************************************)
LEMMA RefusedAtoms ==
    ASSUME ListsObjects, NEW atom \in AtomClauses
    PROVE  ~AtomToDatums(atom).ok <=> IsRefused(atom)
<1> DEFINE entries == List(atom.base)
           refusing == \E i \in DOMAIN entries : ~HasLocalPath(atom, entries[i])
<1>1. atom.base \in Bases /\ atom.glob \in {"/", "/*"} /\ atom.slash \in BOOLEAN
  BY DEF AtomClauses
<1>2. /\ entries \in Seq(Locations)
      /\ \A path \in objects[atom.base] : \E i \in 1..Len(entries) : entries[i] = Location(path)
      /\ \A i \in 1..Len(entries) : \E path \in objects[atom.base] : entries[i] = Location(path)
      /\ entries = <<>> <=> objects[atom.base] = {}
  BY <1>1, Listing
<1>3. objects[atom.base] \subseteq Paths
  BY <1>1 DEF ListsObjects
<1> HIDE DEF entries
<1>4. DOMAIN entries = 1..Len(entries)
  BY <1>2
<1>5. \A path \in objects[atom.base] : Location(path) = <<>> <=> path = <<"">>
  BY <1>3, LocationOf
<1>6. (\E i \in DOMAIN entries : entries[i] = <<>>) <=> <<"">> \in objects[atom.base]
  BY <1>2, <1>4, <1>5
<1>7. (\E i \in DOMAIN entries : TRUE) <=> objects[atom.base] # {}
  BY <1>2, <1>4
<1>8. refusing <=> \/ ~atom.slash /\ objects[atom.base] # {}
                   \/ <<"">> \in objects[atom.base]
  BY <1>6, <1>7 DEF HasLocalPath
<1>9. ~AtomToDatums(atom).ok <=>
         \/ atom.base \in unlistable
         \/ atom.glob # "/" /\ refusing
  BY DEF AtomToDatums, Expanded, Refused, entries
<1> HIDE DEF refusing
<1> QED BY <1>1, <1>8, <1>9 DEF IsRefused

(***************************************************************************)
(* An expansion is refused for one of its atoms, and for each of them.     *)
(***************************************************************************)
LEMMA RefusalIsAnAtoms ==
    ASSUME ListsObjects, NEW clause \in Clauses
    PROVE  ~InputToDatums[clause].ok <=>
              \E i \in 1..Len(AtomsOf[clause]) : IsRefused(AtomsOf[clause][i])
<1> DEFINE Refusing(c) == \E i \in 1..Len(AtomsOf[c]) : IsRefused(AtomsOf[c][i])
           S == {c \in Clauses : ~InputToDatums[c].ok <=> Refusing(c)}
<1>1. ASSUME NEW c \in Clauses, c \in AtomClauses PROVE c \in S
  <2>1. InputToDatums[c] = AtomToDatums(c) /\ AtomsOf[c] = <<c>>
    BY <1>1, AtomsAlone
  <2>2. ~AtomToDatums(c).ok <=> IsRefused(c)
    BY <1>1, RefusedAtoms
  <2>3. Refusing(c) <=> IsRefused(c)
    BY <2>1
  <2> QED BY <2>1, <2>2, <2>3
<1>2. ASSUME NEW c \in Clauses, c.kind \in {"cross", "union"}, c.of \in Seq(Clauses),
             \A i \in 1..Len(c.of) : c.of[i] \in S
      PROVE  c \in S
  <2> DEFINE parts == Parts(c, InputToDatums)
             atoms == Parts(c, AtomsOf)
  <2>1. /\ parts \in Seq(Expansion) /\ Len(parts) = Len(c.of)
        /\ \A i \in 1..Len(c.of) : parts[i] = InputToDatums[c.of[i]]
        /\ InputToDatums[c] = IF c.kind = "cross" THEN CrossOf(parts) ELSE UnionOf(parts)
        /\ atoms \in Seq(AtomLists) /\ Len(atoms) = Len(c.of)
        /\ \A i \in 1..Len(c.of) : atoms[i] = AtomsOf[c.of[i]]
        /\ AtomsOf[c] = FlattenSeq(atoms)
    BY <1>2, Composition
  <2> HIDE DEF parts, atoms
  <2>2. InputToDatums[c].ok <=> \A i \in 1..Len(parts) : parts[i].ok
    BY <2>1, CrossSucceeds, UnionLists
  <2>3. Refusing(c) <=> \E i \in 1..Len(c.of) : Refusing(c.of[i])
    <3>1. HasElements(FlattenSeq(atoms), atoms)
      BY <2>1, FlattenElements DEF AtomLists
    <3>2. ASSUME Refusing(c) PROVE \E i \in 1..Len(c.of) : Refusing(c.of[i])
      <4>1. PICK k \in 1..Len(FlattenSeq(atoms)) : IsRefused(FlattenSeq(atoms)[k])
        BY <2>1, <3>2
      <4>2. PICK i \in 1..Len(atoms) :
                 \E j \in 1..Len(atoms[i]) : FlattenSeq(atoms)[k] = atoms[i][j]
        BY <3>1 DEF HasElements
      <4> QED BY <2>1, <4>1, <4>2
    <3>3. ASSUME NEW i \in 1..Len(c.of), Refusing(c.of[i]) PROVE Refusing(c)
      <4>1. PICK j \in 1..Len(atoms[i]) : IsRefused(atoms[i][j])
        BY <2>1, <3>3
      <4>2. PICK k \in 1..Len(FlattenSeq(atoms)) : FlattenSeq(atoms)[k] = atoms[i][j]
        BY <2>1, <3>1 DEF HasElements
      <4> QED BY <2>1, <4>1, <4>2
    <3> QED BY <3>2, <3>3
  <2>4. \A i \in 1..Len(c.of) : ~InputToDatums[c.of[i]].ok <=> Refusing(c.of[i])
    BY <1>2
  <2> HIDE DEF Refusing
  <2>5. ~InputToDatums[c].ok <=> Refusing(c)
    BY <2>1, <2>2, <2>3, <2>4
  <2> QED BY <2>5
<1>3. Clauses \subseteq S
  <2> HIDE DEF S
  <2> QED BY <1>1, <1>2, ClauseInduction
<1> QED BY <1>3
-----------------------------------------------------------------------------
(* The invariant.                                                          *)

ExpansionInv ==
    /\ ListsObjects
    /\ input \in Clauses
    /\ stage = "expanded" => result = InputToDatums[input]

(***************************************************************************)
(* What run_job has expanded is what input_to_datums returns for its       *)
(* input: nothing lists the repositories again.                            *)
(***************************************************************************)
LEMMA ExpansionInvariant == Spec => []ExpansionInv
<1>1. Init => ExpansionInv
  BY DEF Init, ExpansionInv, ListsObjects
<1>2. ExpansionInv /\ [Next]_vars => ExpansionInv'
  <2> SUFFICES ASSUME ExpansionInv, [Next]_vars PROVE ExpansionInv'
    OBVIOUS
  <2>1. objects' = objects /\ unlistable' = unlistable /\ input' = input
    BY DEF Next, Expand, Ended, vars
  <2>2. InputToDatums' = InputToDatums
    BY <2>1 DEF InputToDatums, AtomToDatums, List
  <2>3. CASE Expand
    BY <2>1, <2>2, <2>3 DEF Expand, ExpansionInv, ListsObjects
  <2>4. CASE UNCHANGED vars
    BY <2>1, <2>2, <2>4 DEF vars, ExpansionInv, ListsObjects
  <2> QED BY <2>3, <2>4 DEF Next, Ended
<1> QED BY <1>1, <1>2, PTL DEF Spec

(***************************************************************************)
(* RefusedWithItsAtoms: an expansion is all or nothing.  It is refused for *)
(* one atom that cannot be listed, or is a "/*" that lacks its slash or    *)
(* has a marker for its base, and for nothing else.                        *)
(***************************************************************************)
THEOREM RefusalsAreExplained == Spec => []RefusedWithItsAtoms
<1>1. ExpansionInv => RefusedWithItsAtoms
  <2> SUFFICES ASSUME ExpansionInv, stage = "expanded"
               PROVE  ~result.ok <=> \E i \in DOMAIN AtomsOf[input] : IsRefused(AtomsOf[input][i])
    BY DEF RefusedWithItsAtoms, IsRefused
  <2>1. ListsObjects /\ input \in Clauses /\ result = InputToDatums[input]
    BY DEF ExpansionInv
  <2>2. DOMAIN AtomsOf[input] = 1..Len(AtomsOf[input])
    BY <2>1, AtomsEquation DEF AtomLists
  <2> QED BY <2>1, <2>2, RefusalIsAnAtoms
<1> QED BY <1>1, ExpansionInvariant, PTL
-----------------------------------------------------------------------------
(* What the workers download.                                              *)

\* An object of an atom's repository at its place below /pfs.
Copied(atom, path) ==
    [object |-> [base |-> atom.base, path |-> path], at |-> <<atom.repo>> \o path]

FilesIn(base) == {path \in objects[base] : ~IsMarker(path)}

\* A worker downloads the files of a whole repository, or the object at a location.
LEMMA SyncDownOfAtoms ==
    ASSUME NEW atom
    PROVE  /\ SyncDown(WholeRepo(atom)) = {Copied(atom, path) : path \in FilesIn(atom.base)}
           /\ \A path \in Locations :
                 SyncDown(Entry(atom, path)) =
                     IF path \in objects[atom.base] THEN {Copied(atom, path)} ELSE {}
<1>1. SyncDown(WholeRepo(atom)) = {Copied(atom, path) : path \in FilesIn(atom.base)}
  BY DEF SyncDown, WholeRepo, Copied, FilesIn
<1>2. ASSUME NEW path \in Locations
      PROVE  SyncDown(Entry(atom, path)) =
                 IF path \in objects[atom.base] THEN {Copied(atom, path)} ELSE {}
  <2>1. path # <<"">>
    BY BaseIsNoLocation
  <2> QED BY <2>1 DEF SyncDown, Entry, LocalPath, Copied
<1> QED BY <1>1, <1>2

\* The downloads of a datum of one file are that file's.
LEMMA DownloadsOfOne == \A file : Downloads(<<file>>) = SyncDown(file)
<1> TAKE file
<1>1. DOMAIN <<file>> = {1} /\ <<file>>[1] = file
  OBVIOUS
<1> QED BY <1>1 DEF Downloads

(***************************************************************************)
(* DownloadsMirrorTheRepo: the datums of an atom share the objects of its  *)
(* repository out among them, each with the place it has below the base.   *)
(***************************************************************************)
THEOREM RepositoriesAreMirrored == Spec => []DownloadsMirrorTheRepo
<1>1. ExpansionInv => DownloadsMirrorTheRepo
  <2> SUFFICES ASSUME ExpansionInv, HasExpanded, input.kind = "atom",
                      \A path \in objects[input.base] : ~IsMarker(path)
               PROVE  /\ UNION {Downloads(datum) : datum \in ToSet(result.datums)} =
                           {Copied(input, path) : path \in objects[input.base]}
                      /\ \A i, j \in DOMAIN result.datums :
                            i # j => Downloads(result.datums[i]) \cap Downloads(result.datums[j]) = {}
    BY DEF DownloadsMirrorTheRepo, Copied
  <2> DEFINE entries == List(input.base)
             datums == result.datums
  <2>1. ListsObjects /\ input \in Clauses /\ result = InputToDatums[input] /\ result.ok
    BY DEF ExpansionInv, HasExpanded
  <2>2. input \in AtomClauses
    BY <2>1, ClauseKinds
  <2>3. input.base \in Bases
    BY <2>2 DEF AtomClauses
  <2>4. result = AtomToDatums(input) /\ result.ok
    BY <2>1, <2>2, AtomsAlone
  <2>7. FilesIn(input.base) = objects[input.base]
    BY DEF FilesIn
  <2>8. \A path \in objects[input.base] : path \in Paths /\ Location(path) = path
    BY <2>1, <2>3, LocationOf DEF ListsObjects
  <2>5. CASE input.glob = "/"
    <3>1. datums = << <<WholeRepo(input)>> >>
      BY <2>4, <2>5 DEF AtomToDatums, Expanded, Refused
    <3>2. DOMAIN datums = {1} /\ datums[1] = <<WholeRepo(input)>>
      BY <3>1
    <3>3. Downloads(datums[1]) = {Copied(input, path) : path \in objects[input.base]}
      BY <2>7, <3>2, DownloadsOfOne, SyncDownOfAtoms
    <3> QED BY <3>2, <3>3 DEF ToSet
  <2>6. CASE input.glob # "/"
    <3>1. datums = [i \in DOMAIN entries |-> <<Entry(input, entries[i])>>]
      BY <2>4, <2>6 DEF AtomToDatums, Expanded, Refused
    <3>2. /\ entries \in Seq(Locations)
          /\ DOMAIN entries = 1..Len(entries)
          /\ \A path \in objects[input.base] : \E i \in 1..Len(entries) : entries[i] = path
          /\ \A i \in 1..Len(entries) : entries[i] \in objects[input.base]
          /\ \A i, j \in 1..Len(entries) : entries[i] = entries[j] => i = j
      <4>1. /\ entries \in Seq(Locations)
            /\ \A path \in objects[input.base] :
                  \E i \in 1..Len(entries) : entries[i] = Location(path)
            /\ \A i \in 1..Len(entries) :
                  \E path \in objects[input.base] : entries[i] = Location(path)
            /\ \A i, j \in 1..Len(entries) : entries[i] = entries[j] => i = j
        BY <2>1, <2>3, Listing
      <4> HIDE DEF entries
      <4> QED BY <2>8, <4>1
    <3> HIDE DEF entries
    <3>3. ASSUME NEW i \in DOMAIN datums
          PROVE  i \in 1..Len(entries) /\ Downloads(datums[i]) = {Copied(input, entries[i])}
      <4>1. i \in 1..Len(entries) /\ datums[i] = <<Entry(input, entries[i])>>
        BY <3>1, <3>2
      <4>2. entries[i] \in Locations /\ entries[i] \in objects[input.base]
        BY <3>2, <4>1
      <4> QED BY <4>1, <4>2, DownloadsOfOne, SyncDownOfAtoms
    <3>4. UNION {Downloads(datum) : datum \in ToSet(datums)} =
             UNION {Downloads(datums[i]) : i \in DOMAIN datums}
      BY DEF ToSet
    <3>5. DOMAIN datums = 1..Len(entries)
      BY <3>1, <3>2
    <3> HIDE DEF datums
    <3>6. UNION {Downloads(datums[i]) : i \in DOMAIN datums} =
             {Copied(input, path) : path \in objects[input.base]}
      BY <3>2, <3>3, <3>5
    <3>7. ASSUME NEW i \in DOMAIN datums, NEW j \in DOMAIN datums, i # j
          PROVE  Downloads(datums[i]) \cap Downloads(datums[j]) = {}
      <4>1. entries[i] # entries[j]
        BY <3>2, <3>5, <3>7
      <4>2. Copied(input, entries[i]) # Copied(input, entries[j])
        BY <4>1 DEF Copied
      <4> QED BY <3>3, <4>2
    <3> QED BY <3>4, <3>6, <3>7 DEF datums
  <2> QED BY <2>5, <2>6
<1> QED BY <1>1, ExpansionInvariant, PTL
-----------------------------------------------------------------------------
(* Where the files of a datum come from.                                   *)

FilesOf(atom) == {WholeRepo(atom)} \cup {Entry(atom, path) : path \in Locations}

\* The files of the datums are files of these atoms.
MadeOf(datums, atoms) ==
    \A k \in 1..Len(datums) : \A l \in 1..Len(datums[k]) :
       \E atom \in atoms : datums[k][l] \in FilesOf(atom)

AtomsUnder(clause) == {AtomsOf[clause][i] : i \in 1..Len(AtomsOf[clause])}

\* The datums of a product have files of both factors only.
LEMMA PairsMadeOf ==
    ASSUME NEW left \in Datums, NEW right \in Datums, NEW atoms,
           MadeOf(left, atoms), MadeOf(right, atoms)
    PROVE  MadeOf(Pairs(left, right), atoms)
<1> DEFINE pairs == Pairs(left, right)
           family == [at \in (1..Len(left)) \X (1..Len(right)) |-> left[at[1]] \o right[at[2]]]
<1>1. pairs \in Seq(Seq(File)) /\ Lists(pairs, family)
  BY PairsLists DEF Datums
<1>2. \A k \in DOMAIN pairs : \E x \in DOMAIN family : pairs[k] = family[x]
  <2> HIDE DEF pairs, family
  <2> QED BY <1>1, ListsCounted
<1>3. ASSUME NEW k \in 1..Len(pairs), NEW m \in 1..Len(pairs[k])
      PROVE  \E atom \in atoms : pairs[k][m] \in FilesOf(atom)
  <2>1. k \in DOMAIN pairs
    BY <1>1
  <2>2. PICK l \in 1..Len(left), r \in 1..Len(right) : pairs[k] = left[l] \o right[r]
    BY <1>2, <2>1
  <2> DEFINE a == left[l]
             b == right[r]
  <2>3. a \in Seq(File) /\ b \in Seq(File)
    BY DEF Datums
  <2> HIDE DEF pairs, a, b
  <2>4. m \in 1..Len(a \o b) /\ pairs[k] = a \o b
    BY <1>3, <2>2 DEF a, b
  <2>5. \/ \E i \in 1..Len(a) : (a \o b)[m] = a[i]
        \/ \E i \in 1..Len(b) : (a \o b)[m] = b[i]
    BY <2>3, <2>4, AppendedElements
  <2> QED BY <2>4, <2>5 DEF MadeOf, a, b
<1> QED BY <1>3 DEF MadeOf

\* The datums of a cross have files of its inputs only.
LEMMA CrossMadeOf ==
    ASSUME NEW parts \in Seq(Expansion), NEW atoms,
           \A i \in 1..Len(parts) : MadeOf(parts[i].datums, atoms)
    PROVE  MadeOf(CrossOf(parts).datums, atoms)
<1> DEFINE N == Len(parts)
<1>1. CASE parts = <<>>
  <2>1. CrossOf(parts).datums = <<>>
    BY <1>1 DEF CrossOf, Expanded
  <2> QED BY <2>1 DEF MadeOf
<1>2. CASE parts # <<>>
  <2>1. N \in Nat /\ N # 0 /\ \A n \in 1..N : parts[n] \in Expansion
    BY <1>2
  <2>2. PICK upTo \in [1..N -> Expansion] :
              /\ upTo[1] = parts[1]
              /\ \A n \in 1..N : n # 1 => upTo[n] = CrossOfTwo(upTo[n - 1], parts[n])
              /\ CrossOf(parts) = upTo[N]
    BY <1>2, CrossSteps
  <2> DEFINE S == {n \in 1..N : MadeOf(upTo[n].datums, atoms)}
  <2>3. 1 \in S
    BY <2>1, <2>2
  <2>4. ASSUME NEW n \in 1..N, n \in S, n + 1 <= N PROVE n + 1 \in S
    <3>1. n + 1 \in 1..N /\ n + 1 # 1 /\ (n + 1) - 1 = n
      BY <2>1, <2>4
    <3>2. upTo[n + 1] = CrossOfTwo(upTo[n], parts[n + 1])
      BY <2>2, <3>1
    <3>3. upTo[n].datums \in Datums /\ parts[n + 1].datums \in Datums
      <4>1. upTo[n] \in Expansion /\ parts[n + 1] \in Expansion
        BY <2>1, <3>1
      <4> QED BY <4>1 DEF Expansion
    <3>4. MadeOf(upTo[n].datums, atoms) /\ MadeOf(parts[n + 1].datums, atoms)
      BY <2>4, <3>1
    <3>5. MadeOf(Pairs(upTo[n].datums, parts[n + 1].datums), atoms)
      BY <3>3, <3>4, PairsMadeOf
    <3>6. MadeOf(<<>>, atoms)
      BY DEF MadeOf
    <3>7. MadeOf(upTo[n + 1].datums, atoms)
      BY <3>2, <3>5, <3>6 DEF CrossOfTwo, Expanded, Refused
    <3> QED BY <3>1, <3>7
  <2> HIDE DEF N
  <2>5. 1..N \subseteq S
    <3> HIDE DEF S
    <3> QED BY <2>1, <2>3, <2>4, PrefixInduction
  <2>6. N \in S
    BY <2>1, <2>5
  <2> QED BY <2>2, <2>6
<1> QED BY <1>1, <1>2

\* The datums of a union have files of its inputs only.
LEMMA UnionMadeOf ==
    ASSUME NEW parts \in Seq(Expansion), NEW atoms,
           \A i \in 1..Len(parts) : MadeOf(parts[i].datums, atoms)
    PROVE  MadeOf(UnionOf(parts).datums, atoms)
<1> DEFINE lists == [i \in 1..Len(parts) |-> parts[i].datums]
<1>1. lists \in Seq(Seq(Seq(File)))
  BY UnionLists DEF Datums
<1>2. UnionOf(parts).datums = FlattenSeq(lists) \/ UnionOf(parts).datums = <<>>
  <2>1. UnionOf(parts).ok => UnionOf(parts).datums = FlattenSeq(lists)
    BY UnionLists
  <2>2. ~UnionOf(parts).ok => UnionOf(parts).datums = <<>>
    BY DEF UnionOf, Refused, Expanded
  <2> QED BY <2>1, <2>2
<1>3. Len(lists) = Len(parts) /\ \A i \in 1..Len(parts) : lists[i] = parts[i].datums
  OBVIOUS
<1> HIDE DEF lists
<1>4. HasElements(FlattenSeq(lists), lists)
  BY <1>1, FlattenElements
<1>5. MadeOf(FlattenSeq(lists), atoms)
  <2>1. ASSUME NEW k \in 1..Len(FlattenSeq(lists)),
               NEW l \in 1..Len(FlattenSeq(lists)[k])
        PROVE  \E atom \in atoms : FlattenSeq(lists)[k][l] \in FilesOf(atom)
    <3>1. PICK i \in 1..Len(lists) :
             \E j \in 1..Len(lists[i]) : FlattenSeq(lists)[k] = lists[i][j]
      BY <1>4 DEF HasElements
    <3>2. MadeOf(lists[i], atoms)
      BY <1>3
    <3> QED BY <3>1, <3>2 DEF MadeOf
  <2> QED BY <2>1 DEF MadeOf
<1>6. MadeOf(<<>>, atoms)
  BY DEF MadeOf
<1> QED BY <1>2, <1>5, <1>6

(***************************************************************************)
(* Each input file of a datum is a file of an atom of the clause.          *)
(***************************************************************************)
LEMMA FilesComeFromAtoms ==
    ASSUME ListsObjects, NEW clause \in Clauses
    PROVE  MadeOf(InputToDatums[clause].datums, AtomsUnder(clause))
<1> DEFINE S == {c \in Clauses : MadeOf(InputToDatums[c].datums, AtomsUnder(c))}
<1>1. ASSUME NEW c \in Clauses, c \in AtomClauses PROVE c \in S
  <2>1. InputToDatums[c] = AtomToDatums(c) /\ AtomsOf[c] = <<c>>
    BY <1>1, AtomsAlone
  <2>2. c \in AtomsUnder(c)
    BY <2>1 DEF AtomsUnder
  <2>3. c.base \in Bases
    BY <1>1 DEF AtomClauses
  <2> DEFINE entries == List(c.base)
  <2>4. entries \in Seq(Locations)
    BY <2>3, Listing
  <2> HIDE DEF entries
  <2>5. MadeOf(<< <<WholeRepo(c)>> >>, AtomsUnder(c))
    BY <2>2 DEF MadeOf, FilesOf
  <2>6. MadeOf([i \in DOMAIN entries |-> <<Entry(c, entries[i])>>], AtomsUnder(c))
    <3> DEFINE list == [i \in 1..Len(entries) |-> <<Entry(c, entries[i])>>]
    <3>1. \A i \in 1..Len(entries) : Entry(c, entries[i]) \in FilesOf(c)
      BY <2>4 DEF FilesOf
    <3>2. \A i \in 1..Len(entries) : Len(list[i]) = 1 /\ list[i][1] = Entry(c, entries[i])
      OBVIOUS
    <3>3. Len(list) = Len(entries)
      BY <2>4
    <3> HIDE DEF list
    <3>4. MadeOf(list, AtomsUnder(c))
      BY <2>2, <3>1, <3>2, <3>3 DEF MadeOf
    <3>5. DOMAIN entries = 1..Len(entries)
      BY <2>4
    <3> QED BY <3>4, <3>5 DEF list
  <2>7. MadeOf(<<>>, AtomsUnder(c))
    BY DEF MadeOf
  <2> QED BY <2>1, <2>5, <2>6, <2>7 DEF AtomToDatums, Expanded, Refused, entries
<1>2. ASSUME NEW c \in Clauses, c.kind \in {"cross", "union"}, c.of \in Seq(Clauses),
             \A i \in 1..Len(c.of) : c.of[i] \in S
      PROVE  c \in S
  <2> DEFINE parts == Parts(c, InputToDatums)
             atoms == Parts(c, AtomsOf)
  <2>1. /\ parts \in Seq(Expansion) /\ Len(parts) = Len(c.of)
        /\ \A i \in 1..Len(c.of) : parts[i] = InputToDatums[c.of[i]]
        /\ InputToDatums[c] = IF c.kind = "cross" THEN CrossOf(parts) ELSE UnionOf(parts)
        /\ atoms \in Seq(AtomLists) /\ Len(atoms) = Len(c.of)
        /\ \A i \in 1..Len(c.of) : atoms[i] = AtomsOf[c.of[i]]
        /\ AtomsOf[c] = FlattenSeq(atoms)
    BY <1>2, Composition
  <2> HIDE DEF parts, atoms
  <2>2. HasElements(FlattenSeq(atoms), atoms)
    BY <2>1, FlattenElements DEF AtomLists
  <2>3. ASSUME NEW i \in 1..Len(c.of) PROVE AtomsUnder(c.of[i]) \subseteq AtomsUnder(c)
    <3>1. ASSUME NEW j \in 1..Len(atoms[i]) PROVE atoms[i][j] \in AtomsUnder(c)
      <4>1. PICK k \in 1..Len(FlattenSeq(atoms)) : FlattenSeq(atoms)[k] = atoms[i][j]
        BY <2>1, <2>2 DEF HasElements
      <4> QED BY <2>1, <4>1 DEF AtomsUnder
    <3>2. AtomsUnder(c.of[i]) = {atoms[i][j] : j \in 1..Len(atoms[i])}
      BY <2>1 DEF AtomsUnder
    <3> QED BY <3>1, <3>2
  <2>4. ASSUME NEW i \in 1..Len(parts) PROVE MadeOf(parts[i].datums, AtomsUnder(c))
    <3>1. MadeOf(parts[i].datums, AtomsUnder(c.of[i]))
      BY <1>2, <2>1
    <3> QED BY <2>1, <2>3, <3>1 DEF MadeOf
  <2>5. MadeOf(InputToDatums[c].datums, AtomsUnder(c))
    BY <2>1, <2>4, CrossMadeOf, UnionMadeOf
  <2> QED BY <2>5
<1>3. Clauses \subseteq S
  <2> HIDE DEF S
  <2> QED BY <1>1, <1>2, ClauseInduction
<1> QED BY <1>3

(***************************************************************************)
(* What a worker downloads for a datum are objects of atoms of the clause. *)
(***************************************************************************)
LEMMA DownloadsComeFromAtoms ==
    ASSUME ListsObjects, NEW atom \in AtomClauses, NEW file \in FilesOf(atom),
           NEW x \in SyncDown(file)
    PROVE  \E path \in Paths : x = Copied(atom, path)
<1>1. atom.base \in Bases
  BY DEF AtomClauses
<1>2. objects[atom.base] \subseteq Paths
  BY <1>1 DEF ListsObjects
<1>3. CASE file = WholeRepo(atom)
  <2>1. PICK path \in objects[atom.base] : x = Copied(atom, path)
    BY <1>3, SyncDownOfAtoms DEF FilesIn
  <2> QED BY <1>2, <2>1
<1>4. CASE \E path \in Locations : file = Entry(atom, path)
  <2>1. PICK path \in Locations : file = Entry(atom, path)
    BY <1>4
  <2>2. path \in objects[atom.base] /\ x = Copied(atom, path)
    BY <2>1, SyncDownOfAtoms
  <2> QED BY <1>2, <2>2
<1> QED BY <1>3, <1>4 DEF FilesOf

(***************************************************************************)
(* A place below /pfs says which repository and which object it is from.   *)
(***************************************************************************)
LEMMA PlacesAreUnambiguous ==
    ASSUME NEW r, NEW s, NEW p \in Seq(STRING), NEW q \in Seq(STRING),
           r \in STRING, s \in STRING, <<r>> \o p = <<s>> \o q
    PROVE  r = s /\ p = q
<1> DEFINE a == <<r>> \o p
           b == <<s>> \o q
<1>1. /\ Len(p) \in Nat /\ Len(q) \in Nat
      /\ Len(a) = Len(p) + 1 /\ Len(b) = Len(q) + 1
      /\ a[1] = r /\ b[1] = s
      /\ \A i \in 1..Len(p) : a[i + 1] = p[i]
      /\ \A i \in 1..Len(q) : b[i + 1] = q[i]
  OBVIOUS
<1>2. a = b
  OBVIOUS
<1> HIDE DEF a, b
<1>3. Len(p) = Len(q) /\ r = s
  <2>1. Len(a) = Len(b) /\ a[1] = b[1]
    BY <1>2
  <2> QED BY <1>1, <2>1
<1>4. \A i \in 1..Len(p) : p[i] = q[i]
  BY <1>1, <1>2, <1>3
<1>5. p = q
  BY <1>3, <1>4, SeqEqual
<1> QED BY <1>3, <1>5

(***************************************************************************)
(* DownloadsDoNotCollide: no download of a datum overwrites another one,   *)
(* if no two atoms of the job's input share the name of a repository.      *)
(***************************************************************************)
THEOREM DownloadsStayApart == Spec => []DownloadsDoNotCollide
<1>1. ExpansionInv => DownloadsDoNotCollide
  <2> DEFINE atoms == AtomsOf[input]
  <2> SUFFICES ASSUME ExpansionInv, HasExpanded,
                      IsInjective([i \in DOMAIN atoms |-> atoms[i].repo]),
                      NEW datum \in ToSet(result.datums),
                      NEW x \in Downloads(datum), NEW y \in Downloads(datum), x.at = y.at
               PROVE  x.object = y.object
    BY DEF DownloadsDoNotCollide
  <2>1. /\ ListsObjects /\ input \in Clauses
        /\ result = InputToDatums[input] /\ result \in Expansion
    BY ClausesExpand DEF ExpansionInv, HasExpanded
  <2>2. atoms \in AtomLists
    BY <2>1, AtomsEquation
  <2>3. /\ DOMAIN atoms = 1..Len(atoms)
        /\ \A i \in 1..Len(atoms) : atoms[i] \in AtomClauses
    BY <2>2 DEF AtomLists
  <2>4. \A i, j \in 1..Len(atoms) : atoms[i].repo = atoms[j].repo => i = j
    <3> HIDE DEF atoms
    <3> QED BY <2>3 DEF IsInjective
  <2>5. MadeOf(result.datums, AtomsUnder(input))
    BY <2>1, FilesComeFromAtoms
  <2>6. PICK k \in 1..Len(result.datums) : datum = result.datums[k]
    <3>1. DOMAIN result.datums = 1..Len(result.datums)
      BY <2>1 DEF Expansion, Datums
    <3> QED BY <3>1 DEF ToSet
  <2>7. datum \in Seq(File)
    BY <2>1, <2>6 DEF Expansion, Datums
  <2>8. ASSUME NEW z \in Downloads(datum)
        PROVE  \E i \in 1..Len(atoms) : \E path \in Paths : z = Copied(atoms[i], path)
    <3>1. PICK l \in 1..Len(datum) : z \in SyncDown(datum[l])
      BY <2>7 DEF Downloads
    <3>2. PICK atom \in AtomsUnder(input) : datum[l] \in FilesOf(atom)
      BY <2>5, <2>6, <3>1 DEF MadeOf
    <3>3. PICK i \in 1..Len(atoms) : atom = atoms[i]
      BY <3>2 DEF AtomsUnder
    <3>4. atom \in AtomClauses
      BY <2>3, <3>3
    <3>5. \E path \in Paths : z = Copied(atom, path)
      BY <2>1, <3>1, <3>2, <3>4, DownloadsComeFromAtoms
    <3> QED BY <3>3, <3>5
  <2>9. PICK i \in 1..Len(atoms) : \E path \in Paths : x = Copied(atoms[i], path)
    BY <2>8
  <2>10. PICK j \in 1..Len(atoms) : \E path \in Paths : y = Copied(atoms[j], path)
    BY <2>8
  <2>11. PICK p \in Paths : x = Copied(atoms[i], p)
    BY <2>9
  <2>12. PICK q \in Paths : y = Copied(atoms[j], q)
    BY <2>10
  <2>13. p \in Seq(STRING) /\ q \in Seq(STRING)
    BY NamesAssumption
  <2>14. atoms[i].repo \in STRING /\ atoms[j].repo \in STRING
    BY <2>3, NamesAssumption DEF AtomClauses
  <2>15. <<atoms[i].repo>> \o p = <<atoms[j].repo>> \o q
    BY <2>11, <2>12 DEF Copied
  <2> HIDE DEF atoms
  <2>16. atoms[i].repo = atoms[j].repo /\ p = q
    <3> DEFINE r == atoms[i].repo
               s == atoms[j].repo
    <3>1. r \in STRING /\ s \in STRING /\ <<r>> \o p = <<s>> \o q
      BY <2>14, <2>15
    <3> HIDE DEF r, s
    <3>2. r = s /\ p = q
      BY <2>13, <3>1, PlacesAreUnambiguous
    <3> QED BY <3>2 DEF r, s
  <2>17. i = j
    BY <2>4, <2>16
  <2> QED BY <2>11, <2>12, <2>16, <2>17 DEF Copied
<1> QED BY <1>1, ExpansionInvariant, PTL
-----------------------------------------------------------------------------
(* What a cross has.                                                       *)

\* Pairs lists the products of what its two lists are lists of.
LEMMA PairsOfFamilies ==
    ASSUME NEW left \in Datums, NEW right \in Datums, NEW a, NEW b,
           Lists(left, a), Lists(right, b)
    PROVE  Lists(Pairs(left, right), Products(a, b))
<1>1. DOMAIN left = 1..Len(left) /\ DOMAIN right = 1..Len(right)
  BY DEF Datums
<1>2. Products(left, right) =
         [at \in (1..Len(left)) \X (1..Len(right)) |-> left[at[1]] \o right[at[2]]]
  BY <1>1 DEF Products
<1>3. Lists(Pairs(left, right), Products(left, right))
  <2>1. left \in Seq(Seq(File)) /\ right \in Seq(Seq(File))
    BY DEF Datums
  <2>2. Lists(Pairs(left, right),
              [at \in (1..Len(left)) \X (1..Len(right)) |-> left[at[1]] \o right[at[2]]])
    BY <2>1, PairsLists
  <2> QED BY <1>2, <2>2
<1> QED BY <1>3, ListsProducts

\* One datum of each of the first lists.
ChoicesOf(lists, n) == {c \in [1..n -> Nat] : \A i \in 1..n : c[i] \in 1..Len(lists[i])}
Chosen(lists, c, n) == [i \in 1..n |-> lists[i][c[i]]]
EveryChoice(lists, n) == [c \in ChoicesOf(lists, n) |-> FlattenSeq(Chosen(lists, c, n))]

\* What a choice picks is a list of datums.
LEMMA ChosenDatums ==
    ASSUME NEW lists \in Seq(Datums), NEW n \in Nat, n <= Len(lists), NEW c \in ChoicesOf(lists, n)
    PROVE  Chosen(lists, c, n) \in Seq(Seq(File)) /\ Len(Chosen(lists, c, n)) = n
<1>1. ASSUME NEW i \in 1..n PROVE lists[i][c[i]] \in Seq(File)
  <2>1. i \in 1..Len(lists)
    OBVIOUS
  <2>2. lists[i] \in Seq(Seq(File))
    BY <2>1 DEF Datums
  <2>3. c[i] \in 1..Len(lists[i])
    BY DEF ChoicesOf
  <2> QED BY <2>2, <2>3
<1> DEFINE datum(i) == lists[i][c[i]]
<1>2. \A i \in 1..n : datum(i) \in Seq(File)
  BY <1>1
<1> HIDE DEF datum
<1>3. [i \in 1..n |-> datum(i)] \in Seq(Seq(File)) /\ Len([i \in 1..n |-> datum(i)]) = n
  BY <1>2
<1> QED BY <1>3 DEF Chosen, datum

(***************************************************************************)
(* A choice of one more datum makes a datum with its files at the end.     *)
(***************************************************************************)
LEMMA OneMoreChoice ==
    ASSUME NEW lists \in Seq(Datums), NEW n \in Nat, n + 1 <= Len(lists),
           NEW c \in ChoicesOf(lists, n + 1), NEW d \in ChoicesOf(lists, n),
           \A i \in 1..n : c[i] = d[i]
    PROVE  EveryChoice(lists, n + 1)[c] =
               EveryChoice(lists, n)[d] \o lists[n + 1][c[n + 1]]
<1> DEFINE s == Chosen(lists, d, n)
           t == Chosen(lists, c, n + 1)
<1>1. /\ s \in Seq(Seq(File)) /\ Len(s) = n
      /\ t \in Seq(Seq(File)) /\ Len(t) = n + 1
  BY ChosenDatums
<1>2. \A i \in 1..n : t[i] = s[i]
  BY DEF Chosen
<1>3. t[n + 1] = lists[n + 1][c[n + 1]]
  BY DEF Chosen
<1> HIDE DEF s, t
<1>4. FlattenSeq(t) = FlattenSeq(s) \o t[n + 1]
  <2>1. HasOneMore(t, s)
    BY <1>1, <1>2 DEF HasOneMore
  <2>2. FlattenSeq(t) = FlattenSeq(s) \o t[Len(t)]
    BY <1>1, <2>1, FlattenOneMore
  <2> QED BY <1>1, <2>2
<1> QED BY <1>3, <1>4 DEF EveryChoice, s, t

\* The choices of one datum of the first list are that list.
LEMMA FirstChoice ==
    ASSUME NEW lists \in Seq(Datums), lists # <<>>
    PROVE  Lists(lists[1], EveryChoice(lists, 1))
<1> DEFINE C == ChoicesOf(lists, 1)
           L == 1..Len(lists[1])
           p == [c \in C |-> c[1]]
           new == EveryChoice(lists, 1)
<1>1. 1 \in 1..Len(lists) /\ 1 <= Len(lists) /\ lists[1] \in Seq(Seq(File))
  BY DEF Datums
<1>2. DOMAIN lists[1] = L
  BY <1>1
<1>3. \A c \in C : c \in [1..1 -> Nat] /\ c[1] \in L
  BY DEF ChoicesOf
<1>4. p \in [C -> L] /\ \A c \in C : p[c] = c[1]
  BY <1>3
<1>5. ASSUME NEW c \in C, NEW d \in C, p[c] = p[d] PROVE c = d
  BY <1>3, <1>4, <1>5
<1>6. ASSUME NEW l \in L PROVE \E c \in C : p[c] = l
  <2>1. [i \in 1..1 |-> l] \in C
    BY DEF ChoicesOf
  <2>2. p[[i \in 1..1 |-> l]] = l
    BY <2>1
  <2> QED BY <2>1, <2>2
<1>7. ASSUME NEW c \in C PROVE lists[1][p[c]] = new[c]
  <2> DEFINE s == Chosen(lists, c, 1)
  <2>1. s \in Seq(Seq(File)) /\ Len(s) = 1
    BY <1>1, ChosenDatums
  <2>2. s[1] = lists[1][c[1]]
    BY DEF Chosen
  <2>3. s[1] \in Seq(File)
    BY <2>1
  <2>4. new[c] = FlattenSeq(s)
    BY DEF EveryChoice
  <2> HIDE DEF s, new, p
  <2>5. PICK F \in [0..Len(s) -> Seq(File)] :
              /\ F[0] = <<>>
              /\ \A n \in 1..Len(s) : F[n] = F[n - 1] \o s[n]
              /\ FlattenSeq(s) = F[Len(s)]
    BY <2>1, FlattenSteps
  <2>6. F[1] = F[0] \o s[1]
    <3>1. 1 \in 1..Len(s) /\ 1 - 1 = 0
      BY <2>1
    <3>2. F[1] = F[1 - 1] \o s[1]
      BY <2>5, <3>1
    <3> QED BY <3>1, <3>2
  <2>7. FlattenSeq(s) = s[1]
    BY <2>1, <2>3, <2>5, <2>6, ConcatEmptySeq
  <2> QED BY <1>4, <2>2, <2>4, <2>7
<1>8. DOMAIN new = C
  BY DEF EveryChoice
<1> HIDE DEF C, L, p, new
<1>9. p \in Bijection(C, L)
  BY <1>4, <1>5, <1>6 DEF Bijection, Injection, Surjection, IsInjective
<1>10. Lists(lists[1], new)
  BY <1>2, <1>7, <1>8, <1>9 DEF Lists
<1> QED BY <1>10 DEF new

\* Pairs with the next list turns the choices so far into those of one more.
LEMMA NextChoice ==
    ASSUME NEW lists \in Seq(Datums), NEW n \in Nat, n + 1 <= Len(lists),
           NEW left \in Datums, Lists(left, EveryChoice(lists, n))
    PROVE  Lists(Pairs(left, lists[n + 1]), EveryChoice(lists, n + 1))
<1> DEFINE right == lists[n + 1]
           old == Products(EveryChoice(lists, n), right)
           new == EveryChoice(lists, n + 1)
           C == ChoicesOf(lists, n)
           D == ChoicesOf(lists, n + 1)
           R == 1..Len(right)
           fewer(c) == [i \in 1..n |-> c[i]]
           q == [c \in D |-> <<fewer(c), c[n + 1]>>]
<1>1. n + 1 \in 1..Len(lists)
  OBVIOUS
<1>2. right \in Datums /\ right \in Seq(Seq(File)) /\ DOMAIN right = R
  BY <1>1 DEF Datums
<1>3. Lists(Pairs(left, right), old)
  <2>1. Lists(right, right)
    BY <1>2, ListsItself
  <2> HIDE DEF right
  <2> QED BY <1>2, <2>1, PairsOfFamilies
<1>4. /\ DOMAIN old = C \X R /\ DOMAIN new = D
      /\ \A x \in C \X R : old[x] = EveryChoice(lists, n)[x[1]] \o right[x[2]]
  <2>1. DOMAIN EveryChoice(lists, n) = C /\ DOMAIN new = D
    BY DEF EveryChoice
  <2> QED BY <1>2, <2>1 DEF Products
<1>5. ASSUME NEW c \in D
      PROVE  /\ c \in [1..(n + 1) -> Nat] /\ c[n + 1] \in R /\ fewer(c) \in C
             /\ \A i \in 1..n : fewer(c)[i] = c[i]
  BY DEF ChoicesOf
<1>6. ASSUME NEW d \in C, NEW r \in R PROVE \E c \in D : fewer(c) = d /\ c[n + 1] = r
  <2> DEFINE c == [i \in 1..(n + 1) |-> IF i = n + 1 THEN r ELSE d[i]]
  <2>1. d \in [1..n -> Nat] /\ \A i \in 1..n : d[i] \in 1..Len(lists[i])
    BY DEF ChoicesOf
  <2>2. \A i \in 1..n : i \in 1..(n + 1) /\ i # n + 1
    OBVIOUS
  <2>3. \A i \in 1..(n + 1) : i \in 1..n \/ i = n + 1
    OBVIOUS
  <2>4. c[n + 1] = r /\ \A i \in 1..n : c[i] = d[i]
    BY <2>2
  <2>5. c \in D
    <3>1. r \in Nat /\ r \in 1..Len(lists[n + 1])
      OBVIOUS
    <3>2. \A i \in 1..n : c[i] \in Nat /\ c[i] \in 1..Len(lists[i])
      BY <2>1, <2>4
    <3>3. c = [i \in 1..(n + 1) |-> c[i]]
      OBVIOUS
    <3> HIDE DEF c
    <3>4. \A i \in 1..(n + 1) : c[i] \in Nat /\ c[i] \in 1..Len(lists[i])
      BY <2>3, <2>4, <3>1, <3>2
    <3>5. c \in [1..(n + 1) -> Nat]
      BY <3>3, <3>4
    <3> QED BY <3>4, <3>5 DEF ChoicesOf
  <2>6. fewer(c) = d
    BY <2>1, <2>4
  <2> QED BY <2>4, <2>5, <2>6
<1>7. ASSUME NEW c \in D, NEW d \in D, fewer(c) = fewer(d), c[n + 1] = d[n + 1] PROVE c = d
  <2>1. \A i \in 1..n : c[i] = d[i]
    BY <1>5, <1>7
  <2>2. \A i \in 1..(n + 1) : i \in 1..n \/ i = n + 1
    OBVIOUS
  <2>3. \A i \in 1..(n + 1) : c[i] = d[i]
    BY <1>7, <2>1, <2>2
  <2>4. c \in [1..(n + 1) -> Nat] /\ d \in [1..(n + 1) -> Nat]
    BY <1>5
  <2> HIDE DEF q, fewer, D, C, R, old, new, right
  <2> QED BY <2>3, <2>4
<1>8. \A c \in D : q[c] = <<fewer(c), c[n + 1]>>
  OBVIOUS
<1>9. ASSUME NEW c \in D PROVE new[c] = old[q[c]]
  <2>1. new[c] = EveryChoice(lists, n)[fewer(c)] \o right[c[n + 1]]
    <3> DEFINE d == fewer(c)
    <3>1. d \in C /\ \A i \in 1..n : c[i] = d[i]
      BY <1>5
    <3> HIDE DEF d
    <3>2. new[c] = EveryChoice(lists, n)[d] \o right[c[n + 1]]
      BY <3>1, OneMoreChoice
    <3> QED BY <3>2 DEF d
  <2>2. q[c] \in C \X R /\ q[c][1] = fewer(c) /\ q[c][2] = c[n + 1]
    BY <1>5
  <2> HIDE DEF q, fewer, C, R, old, new, right
  <2> QED BY <1>4, <2>1, <2>2
<1>10. q = [c \in D |-> q[c]]
  OBVIOUS
<1> HIDE DEF q, fewer, C, D, R, old, new, right
<1>11. q \in [D -> C \X R]
  <2>1. ASSUME NEW c \in D PROVE q[c] \in C \X R
    <3>1. fewer(c) \in C /\ c[n + 1] \in R /\ q[c] = <<fewer(c), c[n + 1]>>
      BY <1>5, <1>8
    <3> QED BY <3>1
  <2> QED BY <1>10, <2>1
<1>12. \A c, d \in D : q[c] = q[d] => c = d
  BY <1>7, <1>8
<1>13. ASSUME NEW x \in C \X R PROVE \E c \in D : q[c] = x
  <2>1. PICK c \in D : fewer(c) = x[1] /\ c[n + 1] = x[2]
    BY <1>6
  <2>2. q[c] = x
    BY <1>8, <2>1
  <2> QED BY <2>2
<1>14. q \in Bijection(D, C \X R)
  BY <1>11, <1>12, <1>13 DEF Bijection, Injection, Surjection, IsInjective
<1>15. Lists(Pairs(left, right), new)
  BY <1>3, <1>4, <1>9, <1>14, ListsReindexed
<1> QED BY <1>15 DEF right, new

(***************************************************************************)
(* A cross has a datum for every choice of a datum of each of its inputs.  *)
(***************************************************************************)
LEMMA CrossListsChoices ==
    ASSUME NEW parts \in Seq(Expansion), parts # <<>>, CrossOf(parts).ok
    PROVE  /\ CrossOf(parts).datums \in Datums
           /\ Lists(CrossOf(parts).datums,
                    EveryChoice([i \in 1..Len(parts) |-> parts[i].datums], Len(parts)))
<1> DEFINE N == Len(parts)
           lists == [i \in 1..N |-> parts[i].datums]
<1>1. N \in Nat /\ N # 0 /\ \A n \in 1..N : parts[n] \in Expansion
  OBVIOUS
<1>2. PICK upTo \in [1..N -> Expansion] :
            /\ upTo[1] = parts[1]
            /\ \A n \in 1..N : n # 1 => upTo[n] = CrossOfTwo(upTo[n - 1], parts[n])
            /\ CrossOf(parts) = upTo[N]
  BY CrossSteps
<1>3. lists \in Seq(Datums) /\ Len(lists) = N /\ \A n \in 1..N : lists[n] = parts[n].datums
  <2>1. lists \in Seq(Datums)
    BY UnionLists
  <2> QED BY <1>1, <2>1
<1> HIDE DEF N, lists
<1> DEFINE S == {n \in 1..N : upTo[n].ok => Lists(upTo[n].datums, EveryChoice(lists, n))}
<1>4. 1 \in S
  <2>1. 1 \in 1..N /\ lists # <<>>
    BY <1>1, <1>3
  <2>2. Lists(lists[1], EveryChoice(lists, 1))
    BY <1>3, <2>1, FirstChoice
  <2> QED BY <1>2, <1>3, <2>1, <2>2
<1>5. ASSUME NEW n \in 1..N, n \in S, n + 1 <= N PROVE n + 1 \in S
  <2> SUFFICES ASSUME upTo[n + 1].ok
               PROVE  Lists(upTo[n + 1].datums, EveryChoice(lists, n + 1))
    BY <1>1, <1>5
  <2>1. n + 1 \in 1..N /\ n + 1 # 1 /\ (n + 1) - 1 = n /\ n \in Nat /\ n + 1 <= Len(lists)
    BY <1>1, <1>3, <1>5
  <2>2. upTo[n + 1] = CrossOfTwo(upTo[n], parts[n + 1])
    BY <1>2, <2>1
  <2>3. /\ upTo[n].ok
        /\ upTo[n + 1].datums = Pairs(upTo[n].datums, lists[n + 1])
    BY <1>3, <2>1, <2>2 DEF CrossOfTwo, Expanded, Refused
  <2>4. upTo[n].datums \in Datums
    BY <2>1 DEF Expansion
  <2>5. Lists(upTo[n].datums, EveryChoice(lists, n))
    BY <1>5, <2>3
  <2>6. Lists(Pairs(upTo[n].datums, lists[n + 1]), EveryChoice(lists, n + 1))
    BY <1>3, <2>1, <2>4, <2>5, NextChoice
  <2> QED BY <2>3, <2>6
<1>6. 1..N \subseteq S
  <2> HIDE DEF S
  <2> QED BY <1>1, <1>4, <1>5, PrefixInduction
<1>7. N \in 1..N
  BY <1>1
<1>8. Lists(upTo[N].datums, EveryChoice(lists, N))
  BY <1>2, <1>6, <1>7
<1>9. upTo[N].datums \in Datums
  BY <1>7 DEF Expansion
<1> QED BY <1>2, <1>8, <1>9 DEF N, lists

(***************************************************************************)
(* CrossIsEveryChoice: a cross has every possible combination of the       *)
(* datums of its inputs, each as often as it can be chosen.                *)
(***************************************************************************)
THEOREM CrossesAreComplete == Spec => []CrossIsEveryChoice
<1>1. ExpansionInv => CrossIsEveryChoice
  <2> DEFINE lists == [i \in DOMAIN input.of |-> InputToDatums[input.of[i]].datums]
             choices == {c \in [DOMAIN lists -> UNION {DOMAIN lists[i] : i \in DOMAIN lists}] :
                             \A i \in DOMAIN lists : c[i] \in DOMAIN lists[i]}
             made(c) == FlattenSeq([i \in DOMAIN lists |-> lists[i][c[i]]])
             family == EveryChoice(lists, Len(lists))
  <2> SUFFICES ASSUME ExpansionInv, HasExpanded, input.kind = "cross", input.of # <<>>
               PROVE  /\ Len(result.datums) = Cardinality(choices)
                      /\ \A datum \in ToSet(result.datums) :
                            Copies(datum, result.datums) =
                                Cardinality({c \in choices : made(c) = datum})
    BY DEF CrossIsEveryChoice
  <2> DEFINE parts == Parts(input, InputToDatums)
             N == Len(parts)
  <2>1. ListsObjects /\ input \in Clauses /\ result = InputToDatums[input] /\ result.ok
    BY DEF ExpansionInv, HasExpanded
  <2>2. input.of \in Seq(Clauses)
    BY <2>1, ClauseKinds
  <2>3. /\ parts \in Seq(Expansion) /\ N = Len(input.of)
        /\ \A i \in 1..N : parts[i] = InputToDatums[input.of[i]]
        /\ result = CrossOf(parts)
    BY <2>1, <2>2, Composition
  <2> HIDE DEF parts
  <2>4. parts # <<>>
    BY <2>2, <2>3
  <2>5. N \in Nat /\ DOMAIN input.of = 1..N
    BY <2>2, <2>3
  <2>6. lists = [i \in 1..N |-> parts[i].datums]
    BY <2>3, <2>5
  <2>7. lists \in Seq(Datums) /\ Len(lists) = N /\ DOMAIN lists = 1..N
    <3>1. [i \in 1..N |-> parts[i].datums] \in Seq(Datums)
      BY <2>3, UnionLists
    <3>2. Len([i \in 1..N |-> parts[i].datums]) = N /\ DOMAIN [i \in 1..N |-> parts[i].datums] = 1..N
      BY <2>5
    <3> QED BY <2>6, <3>1, <3>2
  <2>8. result.datums \in Datums /\ Lists(result.datums, family)
    <3>1. CrossOf(parts).ok
      BY <2>1, <2>3
    <3>2. /\ CrossOf(parts).datums \in Datums
          /\ Lists(CrossOf(parts).datums, EveryChoice([i \in 1..N |-> parts[i].datums], N))
      BY <2>3, <2>4, <3>1, CrossListsChoices
    <3> QED BY <2>3, <2>6, <2>7, <3>2
  <2> HIDE DEF lists, N
  <2>9. choices = ChoicesOf(lists, Len(lists))
    <3>1. \A i \in 1..N : DOMAIN lists[i] = 1..Len(lists[i])
      BY <2>7 DEF Datums
    <3>2. ASSUME NEW c \in choices PROVE c \in ChoicesOf(lists, Len(lists))
      <4>1. \A i \in 1..N : c[i] \in 1..Len(lists[i])
        BY <2>7, <3>1
      <4>2. DOMAIN c = 1..N /\ c = [i \in 1..N |-> c[i]]
        BY <2>7
      <4>3. c \in [1..N -> Nat]
        <5> HIDE DEF choices
        <5>1. \A i \in 1..N : c[i] \in Nat
          BY <4>1
        <5> QED BY <4>2, <5>1
      <4> QED BY <2>7, <4>1, <4>3 DEF ChoicesOf
    <3>3. ASSUME NEW c \in ChoicesOf(lists, Len(lists)) PROVE c \in choices
      BY <2>7, <3>1 DEF ChoicesOf
    <3> HIDE DEF choices
    <3> QED BY <3>2, <3>3
  <2>10. \A c : made(c) = FlattenSeq(Chosen(lists, c, Len(lists)))
    BY <2>7 DEF Chosen
  <2> HIDE DEF choices, made
  <2>11. DOMAIN family = choices /\ \A c \in choices : family[c] = made(c)
    BY <2>9, <2>10 DEF EveryChoice
  <2> HIDE DEF family
  <2>12. /\ Cardinality(DOMAIN family) = Len(result.datums)
         /\ \A v : Occurrences(v, result.datums) = Occurrences(v, family)
    <3> DEFINE list == result.datums
    <3>1. list \in Seq(Seq(File)) /\ Lists(list, family)
      BY <2>8 DEF Datums
    <3> HIDE DEF list
    <3>2. /\ Cardinality(DOMAIN family) = Len(list)
          /\ \A v : Occurrences(v, list) = Occurrences(v, family)
      BY <3>1, ListsCounted
    <3> QED BY <3>2 DEF list
  <2>13. \A v : {c \in DOMAIN family : family[c] = v} = {c \in choices : made(c) = v}
    BY <2>11
  <2>14. \A v : Copies(v, result.datums) = Cardinality({c \in choices : made(c) = v})
    BY <2>12, <2>13 DEF Copies, Occurrences
  <2> QED BY <2>11, <2>12, <2>14
<1> QED BY <1>1, ExpansionInvariant, PTL
-----------------------------------------------------------------------------
(* A cross with a union.                                                   *)

Elements(lists) == [at \in Places(lists) |-> lists[at[1]][at[2]]]

(***************************************************************************)
(* The products with the elements of some lists are the products with each *)
(* of the lists, gathered.                                                 *)
(***************************************************************************)
LEMMA ProductsGathered ==
    ASSUME NEW left \in Datums, NEW lists \in Seq(Datums), NEW list,
           Lists(list, Gathered([i \in 1..Len(lists) |-> Products(left, lists[i])], Len(lists)))
    PROVE  Lists(list, Products(left, Elements(lists)))
<1> DEFINE M == Len(left)
           N == Len(lists)
           L(i) == 1..Len(lists[i])
           products == [i \in 1..N |-> Products(left, lists[i])]
           old == Gathered(products, N)
           new == Products(left, Elements(lists))
           X == DOMAIN new
           Y == DOMAIN old
           q == [x \in X |-> <<x[2][1], <<x[1], x[2][2]>> >>]
<1>1. /\ DOMAIN left = 1..M
      /\ \A i \in 1..N : DOMAIN lists[i] = L(i)
  <2>1. \A i \in 1..N : lists[i] \in Datums
    OBVIOUS
  <2> QED BY <2>1 DEF Datums
<1>2. \A at : at \in Places(lists) <=> \E i \in 1..N : \E j \in L(i) : at = <<i, j>>
  BY DEF Places
<1>3. DOMAIN Elements(lists) = Places(lists)
  BY DEF Elements
<1>4. \A i \in 1..N : \A j \in L(i) : Elements(lists)[<<i, j>>] = lists[i][j]
  BY <1>2 DEF Elements
<1>5. X = (1..M) \X Places(lists)
  BY <1>1, <1>3 DEF Products
<1>6. \A x : x \in X <=>
         \E l \in 1..M : \E i \in 1..N : \E j \in L(i) : x = <<l, <<i, j>> >>
  <2> HIDE DEF X
  <2>1. \A x : x \in X <=> \E l \in 1..M : \E at \in Places(lists) : x = <<l, at>>
    BY <1>5
  <2> HIDE DEF M, N, L
  <2> QED BY <1>2, <2>1
<1>7. ASSUME NEW i \in 1..N
      PROVE  /\ DOMAIN products[i] = (1..M) \X L(i)
             /\ \A l \in 1..M : \A j \in L(i) : products[i][<<l, j>>] = left[l] \o lists[i][j]
  <2>1. products[i] = Products(left, lists[i])
    OBVIOUS
  <2>2. DOMAIN lists[i] = L(i)
    BY <1>1
  <2> HIDE DEF products, M, L
  <2> QED BY <1>1, <2>1, <2>2 DEF Products
<1>8. Y = UNION {{i} \X (DOMAIN products[i]) : i \in 1..N}
  <2> HIDE DEF products
  <2> QED BY DEF Gathered
<1>9. \A y : y \in Y <=>
         \E i \in 1..N : \E l \in 1..M : \E j \in L(i) : y = <<i, <<l, j>> >>
  <2> HIDE DEF Y, products
  <2>1. \A y : y \in Y <=> \E i \in 1..N : \E z \in DOMAIN products[i] : y = <<i, z>>
    BY <1>8
  <2>2. ASSUME NEW i \in 1..N
        PROVE  \A z : z \in DOMAIN products[i] <=> \E l \in 1..M : \E j \in L(i) : z = <<l, j>>
    <3>1. DOMAIN products[i] = (1..M) \X L(i)
      BY <1>7
    <3> HIDE DEF M, N, L
    <3> QED BY <3>1
  <2> HIDE DEF M, N, L
  <2> QED BY <2>1, <2>2
<1>10. ASSUME NEW i \in 1..N, NEW l \in 1..M, NEW j \in L(i)
       PROVE  /\ q[<<l, <<i, j>> >>] = <<i, <<l, j>> >>
              /\ new[<<l, <<i, j>> >>] = left[l] \o lists[i][j]
              /\ old[<<i, <<l, j>> >>] = left[l] \o lists[i][j]
  <2>1. <<l, <<i, j>> >> \in X
    BY <1>6
  <2>2. <<i, <<l, j>> >> \in Y
    BY <1>9
  <2>3. q[<<l, <<i, j>> >>] = <<i, <<l, j>> >>
    <3> HIDE DEF X
    <3> QED BY <2>1
  <2>4. new[<<l, <<i, j>> >>] = left[l] \o Elements(lists)[<<i, j>>]
    BY <1>5, <2>1 DEF Products
  <2>5. old[<<i, <<l, j>> >>] = products[i][<<l, j>>]
    <3> HIDE DEF products
    <3> QED BY <1>8, <2>2 DEF Gathered
  <2> HIDE DEF q, new, old, products
  <2> QED BY <1>4, <1>7, <2>3, <2>4, <2>5
<1>11. q = [x \in X |-> q[x]] /\ Lists(list, old)
  OBVIOUS
<1> HIDE DEF M, N, L, products, old, new, X, Y, q
<1>12. ASSUME NEW x \in X PROVE q[x] \in Y /\ new[x] = old[q[x]]
  <2>1. PICK l \in 1..M : \E i \in 1..N : \E j \in L(i) : x = <<l, <<i, j>> >>
    BY <1>6
  <2>2. PICK i \in 1..N : \E j \in L(i) : x = <<l, <<i, j>> >>
    BY <2>1
  <2>3. PICK j \in L(i) : x = <<l, <<i, j>> >>
    BY <2>2
  <2>4. /\ q[<<l, <<i, j>> >>] = <<i, <<l, j>> >>
        /\ new[<<l, <<i, j>> >>] = old[<<i, <<l, j>> >>]
    BY <1>10
  <2>5. <<i, <<l, j>> >> \in Y
    BY <1>9
  <2> QED BY <2>3, <2>4, <2>5
<1>13. ASSUME NEW x \in X, NEW y \in X, q[x] = q[y] PROVE x = y
  <2>1. PICK l \in 1..M : \E i \in 1..N : \E j \in L(i) : x = <<l, <<i, j>> >>
    BY <1>6
  <2>2. PICK i \in 1..N : \E j \in L(i) : x = <<l, <<i, j>> >>
    BY <2>1
  <2>3. PICK j \in L(i) : x = <<l, <<i, j>> >>
    BY <2>2
  <2>4. PICK m \in 1..M : \E k \in 1..N : \E n \in L(k) : y = <<m, <<k, n>> >>
    BY <1>6
  <2>5. PICK k \in 1..N : \E n \in L(k) : y = <<m, <<k, n>> >>
    BY <2>4
  <2>6. PICK n \in L(k) : y = <<m, <<k, n>> >>
    BY <2>5
  <2>7. <<i, <<l, j>> >> = <<k, <<m, n>> >>
    <3>1. q[<<l, <<i, j>> >>] = <<i, <<l, j>> >>
      BY <1>10
    <3>2. q[<<m, <<k, n>> >>] = <<k, <<m, n>> >>
      BY <1>10
    <3> QED BY <1>13, <2>3, <2>6, <3>1, <3>2
  <2>8. i = k /\ l = m /\ j = n
    BY <2>7
  <2> QED BY <2>3, <2>6, <2>8
<1>14. ASSUME NEW y \in Y PROVE \E x \in X : q[x] = y
  <2>1. PICK i \in 1..N : \E l \in 1..M : \E j \in L(i) : y = <<i, <<l, j>> >>
    BY <1>9
  <2>2. PICK l \in 1..M : \E j \in L(i) : y = <<i, <<l, j>> >>
    BY <2>1
  <2>3. PICK j \in L(i) : y = <<i, <<l, j>> >>
    BY <2>2
  <2>4. <<l, <<i, j>> >> \in X /\ q[<<l, <<i, j>> >>] = y
    BY <1>6, <1>10, <2>3
  <2> QED BY <2>4
<1>15. q \in [X -> Y]
  <2>1. \A x \in X : q[x] \in Y
    BY <1>12
  <2> QED BY <1>11, <2>1
<1>16. q \in Bijection(X, Y)
  BY <1>13, <1>14, <1>15 DEF Bijection, Injection, Surjection, IsInjective
<1>17. Lists(list, new)
  <2>1. DOMAIN new = X /\ DOMAIN old = Y
    BY DEF X, Y
  <2>2. \A x \in X : new[x] = old[q[x]]
    BY <1>12
  <2> QED BY <1>11, <1>16, <2>1, <2>2, ListsReindexed
<1> QED BY <1>17 DEF new

\* A cross of two inputs is one multiplication.
LEMMA CrossOfPair ==
    ASSUME NEW left \in Expansion, NEW right \in Expansion,
           NEW parts \in Seq(Expansion), Len(parts) = 2, parts[1] = left, parts[2] = right
    PROVE  CrossOf(parts) = CrossOfTwo(left, right)
<1>1. parts # <<>>
  OBVIOUS
<1>2. PICK upTo \in [1..Len(parts) -> Expansion] :
            /\ upTo[1] = parts[1]
            /\ \A n \in 1..Len(parts) : n # 1 => upTo[n] = CrossOfTwo(upTo[n - 1], parts[n])
            /\ CrossOf(parts) = upTo[Len(parts)]
  BY <1>1, CrossSteps
<1>3. 2 \in 1..Len(parts) /\ 2 # 1 /\ 2 - 1 = 1
  OBVIOUS
<1>4. upTo[2] = CrossOfTwo(upTo[2 - 1], parts[2])
  BY <1>2, <1>3
<1> QED BY <1>2, <1>3, <1>4

\* The cross with each of some inputs.
CrossWithEach(left, parts) == [i \in 1..Len(parts) |-> CrossOfTwo(left, parts[i])]

\* The crosses with each of some inputs expand.
LEMMA CrossesAreExpansions ==
    ASSUME NEW left \in Expansion, NEW parts \in Seq(Expansion)
    PROVE  /\ CrossWithEach(left, parts) \in Seq(Expansion)
           /\ Len(CrossWithEach(left, parts)) = Len(parts)
           /\ \A i \in 1..Len(parts) : CrossWithEach(left, parts)[i] = CrossOfTwo(left, parts[i])
<1> DEFINE N == Len(parts)
           cross(i) == CrossOfTwo(left, parts[i])
<1>1. N \in Nat /\ \A i \in 1..N : cross(i) \in Expansion
  BY CrossOfTwoExpands
<1>2. CrossWithEach(left, parts) = [i \in 1..N |-> cross(i)]
  BY DEF CrossWithEach
<1> HIDE DEF N, cross
<1>3. /\ CrossWithEach(left, parts) \in Seq(Expansion)
      /\ Len(CrossWithEach(left, parts)) = N
      /\ \A i \in 1..N : CrossWithEach(left, parts)[i] = cross(i)
  BY <1>1, <1>2
<1> QED BY <1>3 DEF N, cross

(***************************************************************************)
(* A cross with a union has what the union of the crosses has.             *)
(***************************************************************************)
LEMMA CrossWithUnion ==
    ASSUME NEW left \in Expansion, NEW parts \in Seq(Expansion)
    PROVE  LET product == CrossOfTwo(left, UnionOf(parts))
               sum == UnionOf(CrossWithEach(left, parts))
           IN  /\ parts # <<>> => product.ok = sum.ok
               /\ product.ok => \A v : Occurrences(v, product.datums) = Occurrences(v, sum.datums)
<1> DEFINE N == Len(parts)
           union == UnionOf(parts)
           crosses == CrossWithEach(left, parts)
           product == CrossOfTwo(left, union)
           sum == UnionOf(crosses)
           lists == [i \in 1..N |-> parts[i].datums]
           rows == [i \in 1..N |-> crosses[i].datums]
           products == [i \in 1..N |-> Products(left.datums, lists[i])]
<1>1. N \in Nat /\ \A i \in 1..N : parts[i] \in Expansion
  OBVIOUS
<1>2. /\ crosses \in Seq(Expansion) /\ Len(crosses) = N
      /\ \A i \in 1..N : crosses[i] = CrossOfTwo(left, parts[i])
  BY CrossesAreExpansions
<1>3. /\ union \in Expansion
      /\ union.ok <=> \A i \in 1..N : parts[i].ok
      /\ union.ok => union.datums = FlattenSeq(lists)
      /\ lists \in Seq(Datums)
  BY UnionLists
<1>4. /\ sum \in Expansion
      /\ sum.ok <=> \A i \in 1..N : crosses[i].ok
      /\ sum.ok => sum.datums = FlattenSeq(rows)
      /\ rows \in Seq(Datums)
  <2> HIDE DEF crosses, N
  <2>1. /\ UnionOf(crosses) \in Expansion
        /\ UnionOf(crosses).ok <=> \A i \in 1..Len(crosses) : crosses[i].ok
        /\ UnionOf(crosses).ok =>
              UnionOf(crosses).datums = FlattenSeq([i \in 1..Len(crosses) |-> crosses[i].datums])
        /\ [i \in 1..Len(crosses) |-> crosses[i].datums] \in Seq(Datums)
    BY <1>2, UnionLists
  <2> QED BY <1>2, <2>1
<1>5. \A l, r \in Expansion :
         /\ CrossOfTwo(l, r).ok <=> l.ok /\ r.ok
         /\ l.ok /\ r.ok => CrossOfTwo(l, r).datums = Pairs(l.datums, r.datums)
         /\ CrossOfTwo(l, r).ok \in BOOLEAN /\ l.ok \in BOOLEAN /\ r.ok \in BOOLEAN
  BY DEF CrossOfTwo, Expanded, Refused, Expansion
<1> HIDE DEF union, crosses, sum
<1>6. product.ok <=> left.ok /\ \A i \in 1..N : parts[i].ok
  BY <1>3, <1>5
<1>7. sum.ok <=> \A i \in 1..N : left.ok /\ parts[i].ok
  <2>1. \A i \in 1..N : crosses[i].ok <=> left.ok /\ parts[i].ok
    BY <1>1, <1>2, <1>5
  <2> QED BY <1>4, <2>1
<1>8. parts # <<>> => product.ok = sum.ok
  <2>1. parts # <<>> => 1 \in 1..N
    OBVIOUS
  <2>2. product.ok \in BOOLEAN /\ sum.ok \in BOOLEAN
    <3>1. product \in Expansion
      BY <1>3, CrossOfTwoExpands
    <3> QED BY <1>4, <3>1 DEF Expansion
  <2> HIDE DEF product, N
  <2> QED BY <1>6, <1>7, <2>1, <2>2
<1>9. ASSUME product.ok
      PROVE  \A v : Occurrences(v, product.datums) = Occurrences(v, sum.datums)
  <2>1. left.ok /\ union.ok /\ sum.ok /\ \A i \in 1..N : parts[i].ok
    BY <1>3, <1>6, <1>7, <1>9
  <2>2. left.datums \in Datums
    BY DEF Expansion
  <2>3. product.datums = Pairs(left.datums, FlattenSeq(lists))
    BY <1>3, <1>5, <2>1
  <2>4. Len(lists) = N /\ \A i \in 1..N : lists[i] = parts[i].datums /\ lists[i] \in Datums
    <3>1. \A i \in 1..N : parts[i].datums \in Datums
      BY <1>1 DEF Expansion
    <3> QED BY <1>1, <3>1
  <2>5. Len(rows) = N /\ \A i \in 1..N : rows[i] = Pairs(left.datums, lists[i])
    <3>1. \A i \in 1..N : crosses[i].datums = Pairs(left.datums, parts[i].datums)
      BY <1>1, <1>2, <1>5, <2>1
    <3> HIDE DEF lists
    <3> QED BY <1>1, <2>4, <3>1
  <2> HIDE DEF lists, rows, product, N
  <2>6. FlattenSeq(lists) \in Datums /\ Lists(FlattenSeq(lists), Elements(lists))
    BY <1>3, FlattenLists DEF Elements, Datums
  <2>7. Lists(product.datums, Products(left.datums, Elements(lists)))
    <3>1. Lists(left.datums, left.datums)
      BY <2>2, ListsItself DEF Datums
    <3> QED BY <2>2, <2>3, <2>6, <3>1, PairsOfFamilies
  <2>8. Lists(sum.datums, Products(left.datums, Elements(lists)))
    <3>1. ASSUME NEW i \in 1..N PROVE Lists(rows[i], products[i])
      <4>1. lists[i] \in Datums
        BY <2>4
      <4>2. Lists(left.datums, left.datums) /\ Lists(lists[i], lists[i])
        BY <2>2, <4>1, ListsItself DEF Datums
      <4>3. Lists(Pairs(left.datums, lists[i]), Products(left.datums, lists[i]))
        BY <2>2, <4>1, <4>2, PairsOfFamilies
      <4> QED BY <2>5, <4>3
    <3> HIDE DEF products
    <3>2. EachLists(rows, products)
      BY <2>5, <3>1 DEF EachLists
    <3>3. Lists(FlattenSeq(rows), Gathered(products, N))
      <4>1. rows \in Seq(Seq(Seq(File)))
        BY <1>4 DEF Datums
      <4> QED BY <2>5, <3>2, <4>1, FlattenFamilies
    <3>4. Lists(FlattenSeq(rows),
                Gathered([i \in 1..Len(lists) |-> Products(left.datums, lists[i])], Len(lists)))
      BY <2>4, <3>3 DEF products
    <3>5. Lists(FlattenSeq(rows), Products(left.datums, Elements(lists)))
      BY <1>3, <2>2, <3>4, ProductsGathered
    <3> QED BY <1>4, <2>1, <3>5
  <2>9. product.datums \in Seq(Seq(File)) /\ sum.datums \in Seq(Seq(File))
    <3>1. product \in Expansion
      BY <1>3, CrossOfTwoExpands DEF product
    <3> QED BY <1>4, <3>1 DEF Expansion, Datums
  <2> DEFINE family == Products(left.datums, Elements(lists))
             a == product.datums
             b == sum.datums
  <2>10. a \in Seq(Seq(File)) /\ b \in Seq(Seq(File)) /\ Lists(a, family) /\ Lists(b, family)
    BY <2>7, <2>8, <2>9
  <2> HIDE DEF family, a, b
  <2>11. \A v : Occurrences(v, a) = Occurrences(v, family)
    BY <2>10, ListsCounted
  <2>12. \A v : Occurrences(v, b) = Occurrences(v, family)
    BY <2>10, ListsCounted
  <2> QED BY <2>11, <2>12 DEF a, b
<1> QED BY <1>8, <1>9 DEF union, crosses, sum

(***************************************************************************)
(* CrossDistributesOverUnion: law P4 of the input algebra, up to the order *)
(* of the datums.                                                          *)
(***************************************************************************)
THEOREM CrossesDistribute == Spec => []CrossDistributesOverUnion
<1>1. ExpansionInv => CrossDistributesOverUnion
  <2> DEFINE terms == input.of[2].of
             left == InputToDatums[input.of[1]]
             parts == Parts(input, InputToDatums)
             termParts == Parts(input.of[2], InputToDatums)
             sum == UnionOf([i \in DOMAIN terms |->
                        CrossOf(<<InputToDatums[input.of[1]], InputToDatums[terms[i]]>>)])
  <2> SUFFICES ASSUME ExpansionInv, stage = "expanded",
                      input.kind = "cross", Len(input.of) = 2, input.of[2].kind = "union"
               PROVE  /\ terms # <<>> => result.ok = sum.ok
                      /\ \A datum : result.ok => Copies(datum, result.datums) = Copies(datum, sum.datums)
    BY DEF CrossDistributesOverUnion
  <2>1. ListsObjects /\ input \in Clauses /\ result = InputToDatums[input]
    BY DEF ExpansionInv
  <2>2. input.of \in Seq(Clauses) /\ input.of[1] \in Clauses /\ input.of[2] \in Clauses
    <3>1. input.of \in Seq(Clauses)
      BY <2>1, ClauseKinds
    <3>2. 1 \in 1..Len(input.of) /\ 2 \in 1..Len(input.of)
      OBVIOUS
    <3> QED BY <3>1, <3>2
  <2>3. terms \in Seq(Clauses) /\ DOMAIN terms = 1..Len(terms)
    <3>1. terms \in Seq(Clauses)
      BY <2>2, ClauseKinds
    <3> QED BY <3>1
  <2>4. /\ termParts \in Seq(Expansion) /\ Len(termParts) = Len(terms)
        /\ \A i \in 1..Len(terms) : termParts[i] = InputToDatums[terms[i]]
        /\ InputToDatums[input.of[2]] = UnionOf(termParts)
    BY <2>1, <2>2, <2>3, Composition
  <2>5. /\ parts \in Seq(Expansion) /\ Len(parts) = 2
        /\ parts[1] = left /\ parts[2] = UnionOf(termParts)
        /\ result = CrossOf(parts)
    <3>1. /\ parts \in Seq(Expansion) /\ Len(parts) = Len(input.of)
          /\ \A i \in 1..Len(input.of) : parts[i] = InputToDatums[input.of[i]]
          /\ result = CrossOf(parts)
      BY <2>1, <2>2, Composition
    <3>2. 1 \in 1..Len(input.of) /\ 2 \in 1..Len(input.of)
      OBVIOUS
    <3> QED BY <2>4, <3>1, <3>2
  <2>6. left \in Expansion /\ UnionOf(termParts) \in Expansion
    BY <2>1, <2>2, <2>4, ClausesExpand, UnionLists
  <2> HIDE DEF parts, termParts
  <2>7. result = CrossOfTwo(left, UnionOf(termParts))
    <3> HIDE DEF left
    <3> QED BY <2>5, <2>6, CrossOfPair
  <2>8. ASSUME NEW i \in 1..Len(terms)
        PROVE  CrossOf(<<left, InputToDatums[terms[i]]>>) = CrossOfTwo(left, termParts[i])
    <3> DEFINE right == termParts[i]
               pair == <<left, right>>
    <3>1. right \in Expansion
      BY <2>4
    <3>2. pair \in Seq(Expansion) /\ Len(pair) = 2 /\ pair[1] = left /\ pair[2] = right
      BY <2>6, <3>1
    <3>3. pair = <<left, InputToDatums[terms[i]]>>
      BY <2>4
    <3> HIDE DEF left, right, pair
    <3>4. CrossOf(pair) = CrossOfTwo(left, right)
      BY <2>6, <3>1, <3>2, CrossOfPair
    <3> QED BY <3>3, <3>4 DEF right
  <2>9. sum = UnionOf(CrossWithEach(left, termParts))
    <3>1. [i \in DOMAIN terms |-> CrossOf(<<left, InputToDatums[terms[i]]>>)] =
             [i \in 1..Len(termParts) |-> CrossOfTwo(left, termParts[i])]
      <4> HIDE DEF left, terms
      <4> QED BY <2>3, <2>4, <2>8
    <3> QED BY <3>1 DEF CrossWithEach
  <2> HIDE DEF left, sum
  <2>10. /\ termParts # <<>> => result.ok = sum.ok
         /\ result.ok => \A v : Occurrences(v, result.datums) = Occurrences(v, sum.datums)
    <3>1. LET product == CrossOfTwo(left, UnionOf(termParts))
              total == UnionOf(CrossWithEach(left, termParts))
          IN  /\ termParts # <<>> => product.ok = total.ok
              /\ product.ok => \A v : Occurrences(v, product.datums) = Occurrences(v, total.datums)
      BY <2>4, <2>6, CrossWithUnion
    <3> QED BY <2>7, <2>9, <3>1
  <2>11. terms # <<>> => termParts # <<>>
    <3> HIDE DEF terms
    <3> QED BY <2>3, <2>4
  <2>12. \A v, list : Copies(v, list) = Occurrences(v, list)
    BY DEF Copies, Occurrences
  <2> HIDE DEF terms
  <2> QED BY <2>10, <2>11, <2>12
<1> QED BY <1>1, ExpansionInvariant, PTL
=============================================================================
