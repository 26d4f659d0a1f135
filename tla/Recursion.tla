----------------------------- MODULE Recursion -----------------------------
(***************************************************************************)
(* What the proofs about the input algebra need of data of every size and  *)
(* every nesting: induction and recursion over a depth, the places of a    *)
(* list of lists in the list FlattenSeq makes of it, and what SetToSeq     *)
(* lists.  The depth takes the place of the library's induction theorems,  *)
(* whose operator parameters the provers cannot instantiate: an argument   *)
(* is by a least depth at which a claim, given as a set, fails.            *)
(***************************************************************************)
EXTENDS Integers, SequencesExt, TLAPS, SequenceTheorems, FunctionTheorems,
    FiniteSetTheorems

Less == {pair \in Nat \X Nat : pair[1] < pair[2]}

(***************************************************************************)
(* A set of numbers that is not empty has a least element.                 *)
(***************************************************************************)
LEMMA LeastNumber ==
    ASSUME NEW S, S \subseteq Nat, S # {}
    PROVE  \E n \in S : \A m \in S : n <= m
<1>1. IsWellFoundedOn(Less, Nat)
  BY NatLessThanWellFounded DEF OpToRel, Less
<1>2. PICK n \in S : \A m \in S : <<m, n>> \notin Less
  BY <1>1, WFMin
<1>3. ASSUME NEW m \in S PROVE n <= m
  <2>1. m \in Nat /\ n \in Nat
    OBVIOUS
  <2>2. ~(m < n)
    BY <1>2, <2>1 DEF Less
  <2> QED BY <2>1, <2>2
<1> QED BY <1>3

(***************************************************************************)
(* Induction over a depth: a set that has whatever is made of its members  *)
(* has everything.                                                         *)
(***************************************************************************)
LEMMA DepthInduction ==
    ASSUME NEW C, NEW D \in [C -> Nat], NEW S,
           \A c \in C : (\A d \in C : D[d] < D[c] => d \in S) => c \in S
    PROVE  C \subseteq S
<1> SUFFICES ASSUME NEW bad \in C, bad \notin S PROVE FALSE
  OBVIOUS
<1> DEFINE depths == {D[c] : c \in {c \in C : c \notin S}}
<1>1. depths \subseteq Nat /\ depths # {}
  OBVIOUS
<1>2. PICK n \in depths : \A m \in depths : n <= m
  BY <1>1, LeastNumber
<1>3. PICK c \in C : c \notin S /\ n = D[c]
  OBVIOUS
<1>4. ASSUME NEW d \in C, D[d] < D[c] PROVE d \in S
  <2>1. D[d] \in Nat /\ D[c] \in Nat
    OBVIOUS
  <2>2. d \notin S => D[d] \in depths
    OBVIOUS
  <2> HIDE DEF depths
  <2>3. d \notin S => D[c] <= D[d]
    BY <1>2, <1>3, <2>2
  <2> QED BY <1>4, <2>1, <2>3
<1> QED BY <1>3, <1>4

(***************************************************************************)
(* Induction over the natural numbers.                                     *)
(***************************************************************************)
LEMMA NumberInduction ==
    ASSUME NEW S, 0 \in S, \A n \in Nat : n \in S => n + 1 \in S
    PROVE  Nat \subseteq S
<1> DEFINE D == [n \in Nat |-> n]
<1>1. ASSUME NEW n \in Nat, \A m \in Nat : D[m] < D[n] => m \in S
      PROVE  n \in S
  <2>1. CASE n = 0
    BY <2>1
  <2>2. CASE n # 0
    <3>1. n - 1 \in Nat /\ D[n - 1] < D[n]
      BY <2>2
    <3> QED BY <1>1, <3>1
  <2> QED BY <2>1, <2>2
<1>2. D \in [Nat -> Nat]
  OBVIOUS
<1> HIDE DEF D
<1> QED BY <1>1, <1>2, DepthInduction

\* Induction over the first N numbers.
LEMMA PrefixInduction ==
    ASSUME NEW N \in Nat, NEW S, N # 0 => 1 \in S,
           \A n \in 1..N : n \in S /\ n + 1 <= N => n + 1 \in S
    PROVE  1..N \subseteq S
<1> DEFINE T == {n \in Nat : n + 1 <= N => n + 1 \in S}
<1>1. 0 \in T
  OBVIOUS
<1>2. ASSUME NEW n \in Nat, n \in T PROVE n + 1 \in T
  BY <1>2
<1>3. Nat \subseteq T
  <2> HIDE DEF T
  <2> QED BY <1>1, <1>2, NumberInduction
<1>4. ASSUME NEW n \in 1..N PROVE n \in S
  <2>1. n - 1 \in Nat
    OBVIOUS
  <2> QED BY <1>3, <2>1
<1> QED BY <1>4
-----------------------------------------------------------------------------

\* G gives each value, from values of which those that lie less deep matter.
IsRecursion(C, V, D, G) ==
    /\ V # {}
    /\ D \in [C -> Nat]
    /\ G \in [C -> [[C -> V] -> V]]
    /\ \A c \in C : \A f, g \in [C -> V] :
          (\A d \in C : D[d] < D[c] => f[d] = g[d]) => G[c][f] = G[c][g]

(***************************************************************************)
(* Recursion over a depth: if each value is a function of the values that  *)
(* lie less deep, there is a function with these values.  The function is  *)
(* put together from functions that have them up to some depth, and these  *)
(* agree as far as they go.                                                *)
(***************************************************************************)
LEMMA DepthRecursion ==
    ASSUME NEW C, NEW V, NEW D, NEW G, IsRecursion(C, V, D, G)
    PROVE  \E f \in [C -> V] : \A c \in C : f[c] = G[c][f]
<1>a. /\ V # {}
      /\ D \in [C -> Nat]
      /\ G \in [C -> [[C -> V] -> V]]
      /\ \A c \in C : \A f, g \in [C -> V] :
            (\A d \in C : D[d] < D[c] => f[d] = g[d]) => G[c][f] = G[c][g]
  BY DEF IsRecursion
<1> USE <1>a
<1> DEFINE UpTo(m, f) == \A c \in C : D[c] < m => f[c] = G[c][f]
           Solutions(m) == {f \in [C -> V] : UpTo(m, f)}
<1>1. \A m \in Nat : \E f \in [C -> V] : UpTo(m, f)
  <2> DEFINE S == {m \in Nat : \E f \in [C -> V] : UpTo(m, f)}
  <2>1. 0 \in S
    <3>1. PICK v \in V : TRUE
      OBVIOUS
    <3>2. [c \in C |-> v] \in [C -> V] /\ UpTo(0, [c \in C |-> v])
      OBVIOUS
    <3> QED BY <3>2
  <2>2. ASSUME NEW m \in Nat, m \in S PROVE m + 1 \in S
    <3>1. PICK f \in [C -> V] : UpTo(m, f)
      BY <2>2
    <3> DEFINE g == [c \in C |-> G[c][f]]
    <3>2. g \in [C -> V]
      OBVIOUS
    <3>3. ASSUME NEW c \in C, D[c] < m + 1 PROVE g[c] = G[c][g]
      <4>1. \A d \in C : D[d] < D[c] => f[d] = g[d]
        BY <3>1, <3>3
      <4>2. G[c][f] = G[c][g]
        <5> HIDE DEF g
        <5> QED BY <3>2, <4>1
      <4> QED BY <4>2
    <3>4. UpTo(m + 1, g)
      BY <3>3
    <3> HIDE DEF g
    <3> QED BY <3>2, <3>4
  <2> HIDE DEF S
  <2>3. Nat \subseteq S
    BY <2>1, <2>2, NumberInduction
  <2> QED BY <2>3 DEF S
<1>2. ASSUME NEW m \in Nat, NEW k \in Nat,
             NEW f \in Solutions(m), NEW g \in Solutions(k)
      PROVE  \A c \in C : D[c] < m /\ D[c] < k => f[c] = g[c]
  <2> DEFINE S == {c \in C : D[c] < m /\ D[c] < k => f[c] = g[c]}
  <2>1. ASSUME NEW c \in C, \A d \in C : D[d] < D[c] => d \in S
        PROVE  c \in S
    <3> SUFFICES ASSUME D[c] < m, D[c] < k PROVE f[c] = g[c]
      OBVIOUS
    <3>1. ASSUME NEW d \in C, D[d] < D[c] PROVE f[d] = g[d]
      <4>1. D[d] \in Nat /\ D[c] \in Nat
        OBVIOUS
      <4>2. D[d] < m /\ D[d] < k
        BY <3>1, <4>1
      <4> QED BY <2>1, <3>1, <4>2
    <3>2. G[c][f] = G[c][g]
      BY <3>1
    <3> QED BY <1>2, <3>2
  <2> HIDE DEF S
  <2>2. C \subseteq S
    BY <2>1, DepthInduction
  <2> QED BY <2>2 DEF S
<1> DEFINE good == [c \in C |-> CHOOSE f \in [C -> V] : UpTo(D[c] + 1, f)]
           whole == [c \in C |-> good[c][c]]
<1>3. ASSUME NEW c \in C PROVE good[c] \in [C -> V] /\ UpTo(D[c] + 1, good[c])
  <2>1. \E f \in [C -> V] : UpTo(D[c] + 1, f)
    BY <1>1
  <2> HIDE DEF UpTo
  <2> QED BY <2>1
<1>4. whole \in [C -> V]
  <2> HIDE DEF good
  <2> QED BY <1>3
<1>5. ASSUME NEW c \in C PROVE whole[c] = G[c][whole]
  <2>1. ASSUME NEW d \in C, D[d] < D[c] PROVE good[c][d] = whole[d]
    <3>1. D[c] \in Nat /\ D[d] \in Nat
      OBVIOUS
    <3>2. D[c] + 1 \in Nat /\ D[d] + 1 \in Nat /\ D[d] < D[c] + 1 /\ D[d] < D[d] + 1
      BY <2>1, <3>1
    <3>3. good[c][d] = good[d][d]
      <4> DEFINE m == D[c] + 1
                 k == D[d] + 1
                 f == good[c]
                 g == good[d]
      <4>1. f \in Solutions(m) /\ g \in Solutions(k)
        <5> HIDE DEF UpTo
        <5> QED BY <1>3
      <4>2. m \in Nat /\ k \in Nat /\ D[d] < m /\ D[d] < k
        BY <3>2
      <4> HIDE DEF m, k, f, g, Solutions
      <4>3. f[d] = g[d]
        BY <1>2, <4>1, <4>2
      <4> QED BY <4>3 DEF f, g
    <3> HIDE DEF good
    <3> QED BY <3>3
  <2>2. D[c] < D[c] + 1
    OBVIOUS
  <2> HIDE DEF good
  <2>3. good[c][c] = G[c][good[c]]
    BY <1>3, <2>2
  <2>4. G[c][good[c]] = G[c][whole]
    <3> HIDE DEF whole
    <3> QED BY <1>3, <1>4, <2>1
  <2> QED BY <2>3, <2>4
<1> HIDE DEF whole
<1> QED BY <1>4, <1>5

\* G gives each value but the first from the one before it.
IsPrefixRecursion(N, V, first, G) ==
    N \in Nat /\ first \in V /\ G \in [1..N -> [V -> V]]

(***************************************************************************)
(* Recursion over the first numbers.                                       *)
(***************************************************************************)
LEMMA PrefixRecursion ==
    ASSUME NEW N, NEW V, NEW first, NEW G, IsPrefixRecursion(N, V, first, G)
    PROVE  \E f \in [1..N -> V] :
              \A n \in 1..N : f[n] = IF n = 1 THEN first ELSE G[n][f[n - 1]]
<1>a. N \in Nat /\ first \in V /\ G \in [1..N -> [V -> V]]
  BY DEF IsPrefixRecursion
<1> DEFINE D == [n \in 1..N |-> n]
           H == [n \in 1..N |-> [f \in [1..N -> V] |->
                    IF n = 1 THEN first ELSE G[n][f[n - 1]]]]
<1>1. D \in [1..N -> Nat] /\ \A n \in 1..N : D[n] = n
  BY <1>a
<1>2. ASSUME NEW n \in 1..N, NEW f \in [1..N -> V]
      PROVE  /\ H[n][f] = (IF n = 1 THEN first ELSE G[n][f[n - 1]])
             /\ H[n][f] \in V
             /\ n # 1 => n - 1 \in 1..N
  BY <1>a
<1>3. H \in [1..N -> [[1..N -> V] -> V]]
  BY <1>2
<1> HIDE DEF D, H
<1>4. ASSUME NEW n \in 1..N, NEW f \in [1..N -> V], NEW g \in [1..N -> V],
             \A d \in 1..N : D[d] < D[n] => f[d] = g[d]
      PROVE  H[n][f] = H[n][g]
  <2>1. n # 1 => f[n - 1] = g[n - 1]
    BY <1>1, <1>2, <1>4
  <2> QED BY <1>a, <1>2, <2>1
<1>5. PICK f \in [1..N -> V] : \A n \in 1..N : f[n] = H[n][f]
  <2>1. \A n \in 1..N : \A f, g \in [1..N -> V] :
           (\A d \in 1..N : D[d] < D[n] => f[d] = g[d]) => H[n][f] = H[n][g]
    BY <1>4
  <2>2. V # {}
    BY <1>a
  <2>3. IsRecursion(1..N, V, D, H)
    BY <1>1, <1>3, <2>1, <2>2 DEF IsRecursion
  <2> DEFINE C == 1..N
  <2> HIDE DEF C
  <2>4. \E f \in [C -> V] : \A n \in C : f[n] = H[n][f]
    <3>1. IsRecursion(C, V, D, H)
      BY <2>3 DEF C
    <3> QED BY <3>1, DepthRecursion
  <2> QED BY <2>4 DEF C
<1>6. \A n \in 1..N : f[n] = (IF n = 1 THEN first ELSE G[n][f[n - 1]])
  BY <1>2, <1>5
<1> QED BY <1>6

-----------------------------------------------------------------------------

(***************************************************************************)
(* FlattenSeq appends one list after the other.                            *)
(***************************************************************************)
LEMMA FlattenSteps ==
    ASSUME NEW T, NEW seqs \in Seq(Seq(T))
    PROVE  \E F \in [0..Len(seqs) -> Seq(T)] :
              /\ F[0] = <<>>
              /\ \A n \in 1..Len(seqs) : F[n] = F[n - 1] \o seqs[n]
              /\ FlattenSeq(seqs) = F[Len(seqs)]
<1> DEFINE N == Len(seqs)
           Equation(f) == f = [i \in 1..N |->
                             IF i = 1 THEN seqs[i] ELSE f[i - 1] \o seqs[i]]
           flatten == CHOOSE f : Equation(f)
           F == [n \in 0..N |-> IF n = 0 THEN <<>> ELSE flatten[n]]
<1>1. N \in Nat /\ \A n \in 1..N : seqs[n] \in Seq(T)
  OBVIOUS
<1>2. FlattenSeq(seqs) = IF N = 0 THEN seqs ELSE flatten[N]
  BY DEF FlattenSeq
<1> HIDE DEF N
<1>3. CASE N = 0
  <2>1. F \in [0..N -> Seq(T)] /\ F[0] = <<>> /\ 1..N = {}
    BY <1>3
  <2>2. FlattenSeq(seqs) = F[N]
    BY <1>2, <1>3 DEF N
  <2> HIDE DEF F
  <2> QED BY <2>1, <2>2 DEF N
<1>4. CASE N # 0
  <2> DEFINE G == [n \in 1..N |-> [s \in Seq(T) |-> s \o seqs[n]]]
  <2>1. IsPrefixRecursion(N, Seq(T), seqs[1], G)
    BY <1>1, <1>4 DEF IsPrefixRecursion
  <2>2. PICK f \in [1..N -> Seq(T)] :
           \A n \in 1..N : f[n] = IF n = 1 THEN seqs[1] ELSE G[n][f[n - 1]]
    <3> DEFINE V == Seq(T)
               first == seqs[1]
    <3>1. IsPrefixRecursion(N, V, first, G)
      BY <2>1
    <3> HIDE DEF G, V, first
    <3>2. \E f \in [1..N -> V] :
             \A n \in 1..N : f[n] = IF n = 1 THEN first ELSE G[n][f[n - 1]]
      BY <3>1, PrefixRecursion
    <3> QED BY <3>2 DEF V, first
  <2>3. ASSUME NEW n \in 1..N
        PROVE  f[n] = IF n = 1 THEN seqs[n] ELSE f[n - 1] \o seqs[n]
    <3>1. n # 1 => n - 1 \in 1..N /\ f[n - 1] \in Seq(T)
      <4>1. n # 1 => n - 1 \in 1..N
        BY <1>1
      <4> QED BY <4>1
    <3> QED BY <2>2, <3>1
  <2>4. Equation(f)
    BY <2>2, <2>3
  <2>5. Equation(flatten)
    <3> HIDE DEF Equation
    <3> QED BY <2>4
  <2> HIDE DEF flatten
  <2>6. \A n \in 1..N : flatten[n] \in Seq(T)
    <3> DEFINE S == {n \in 1..N : flatten[n] \in Seq(T)}
    <3>1. 1 \in S
      BY <1>1, <1>4, <2>5
    <3>2. ASSUME NEW n \in 1..N, n \in S, n + 1 <= N PROVE n + 1 \in S
      <4>1. n + 1 \in 1..N /\ n + 1 # 1 /\ (n + 1) - 1 = n
        BY <1>1, <3>2
      <4>2. flatten[n + 1] = flatten[n] \o seqs[n + 1]
        BY <2>5, <4>1
      <4>3. flatten[n] \in Seq(T) /\ seqs[n + 1] \in Seq(T)
        BY <1>1, <3>2, <4>1
      <4>4. flatten[n + 1] \in Seq(T)
        BY <4>2, <4>3
      <4> QED BY <4>1, <4>4
    <3>3. 1..N \subseteq S
      <4> HIDE DEF S
      <4> QED BY <1>1, <3>1, <3>2, PrefixInduction
    <3> QED BY <3>3
  <2>7. F \in [0..N -> Seq(T)] /\ F[0] = <<>> /\ F[N] = flatten[N]
    BY <1>1, <1>4, <2>6
  <2>8. ASSUME NEW n \in 1..N PROVE F[n] = F[n - 1] \o seqs[n]
    <3>1. CASE n = 1
      BY <1>1, <2>5, <3>1, ConcatEmptySeq
    <3>2. CASE n # 1
      <4>1. n - 1 \in 1..N /\ n - 1 \in 0..N /\ n - 1 # 0 /\ n # 0 /\ n \in 0..N
        BY <1>1, <3>2
      <4>2. flatten[n] = flatten[n - 1] \o seqs[n]
        BY <2>5, <3>2
      <4> QED BY <4>1, <4>2
    <3> QED BY <3>1, <3>2
  <2>9. FlattenSeq(seqs) = F[N]
    BY <1>2, <1>4, <2>7
  <2> HIDE DEF F
  <2> QED BY <2>7, <2>8, <2>9 DEF N
<1> QED BY <1>3, <1>4
-----------------------------------------------------------------------------

(***************************************************************************)
(* What two lists have, one after the other.                               *)
(***************************************************************************)
LEMMA AppendedElements ==
    ASSUME NEW T, NEW s \in Seq(T), NEW t \in Seq(T), NEW m \in 1..Len(s \o t)
    PROVE  \/ \E i \in 1..Len(s) : (s \o t)[m] = s[i]
           \/ \E i \in 1..Len(t) : (s \o t)[m] = t[i]
<1>1. Len(s) \in Nat /\ Len(t) \in Nat /\ m \in 1..(Len(s) + Len(t))
  OBVIOUS
<1>2. CASE m <= Len(s)
  <2>1. m \in 1..Len(s) /\ (s \o t)[m] = s[m]
    BY <1>1, <1>2
  <2> QED BY <2>1
<1>3. CASE m > Len(s)
  <2>1. m - Len(s) \in 1..Len(t) /\ (s \o t)[m] = t[m - Len(s)]
    BY <1>1, <1>3
  <2> QED BY <2>1
<1> QED BY <1>1, <1>2, <1>3

\* The list has what the family has, each as often, in an order of its own.
Lists(list, family) ==
    \E p \in Bijection(DOMAIN family, DOMAIN list) :
       \A x \in DOMAIN family : list[p[x]] = family[x]

(***************************************************************************)
(* The indices of a family do not matter.                                  *)
(***************************************************************************)
LEMMA ListsReindexed ==
    ASSUME NEW list, NEW old, Lists(list, old), NEW new,
           NEW q \in Bijection(DOMAIN new, DOMAIN old),
           \A y \in DOMAIN new : new[y] = old[q[y]]
    PROVE  Lists(list, new)
<1> DEFINE A == DOMAIN old
           B == DOMAIN new
           L == DOMAIN list
<1>1. PICK p \in Bijection(A, L) : \A x \in A : list[p[x]] = old[x]
  BY DEF Lists
<1> DEFINE r == [y \in B |-> p[q[y]]]
<1> HIDE DEF A, B, L
<1>2. /\ p \in [A -> L]
      /\ \A a, b \in A : p[a] = p[b] => a = b
      /\ \A l \in L : \E a \in A : p[a] = l
  BY <1>1 DEF Bijection, Injection, Surjection, IsInjective
<1>3. /\ q \in [B -> A]
      /\ \A a, b \in B : q[a] = q[b] => a = b
      /\ \A a \in A : \E b \in B : q[b] = a
  BY DEF Bijection, Injection, Surjection, IsInjective, A, B
<1>4. r \in [B -> L] /\ \A y \in B : r[y] = p[q[y]]
  BY <1>2, <1>3
<1> HIDE DEF r
<1>5. \A a, b \in B : r[a] = r[b] => a = b
  BY <1>2, <1>3, <1>4
<1>6. \A l \in L : \E b \in B : r[b] = l
  BY <1>2, <1>3, <1>4
<1>7. r \in Bijection(B, L)
  BY <1>4, <1>5, <1>6 DEF Bijection, Injection, Surjection, IsInjective
<1>8. \A y \in B : list[r[y]] = new[y]
  BY <1>1, <1>3, <1>4 DEF B
<1> QED BY <1>7, <1>8 DEF Lists, B, L

\* One family is made of two others.
Joins(both, a, b) ==
    /\ DOMAIN a \cap DOMAIN b = {}
    /\ DOMAIN both = DOMAIN a \cup DOMAIN b
    /\ \A x \in DOMAIN a : both[x] = a[x]
    /\ \A x \in DOMAIN b : both[x] = b[x]

(***************************************************************************)
(* Two lists, one after the other, have what their families have.          *)
(***************************************************************************)
LEMMA ListsAppended ==
    ASSUME NEW T, NEW s \in Seq(T), NEW t \in Seq(T),
           NEW a, NEW b, NEW both, Lists(s, a), Lists(t, b), Joins(both, a, b)
    PROVE  Lists(s \o t, both)
<1> DEFINE A == DOMAIN a
           B == DOMAIN b
           M == Len(s)
           N == Len(t)
<1>1. /\ M \in Nat /\ N \in Nat
      /\ DOMAIN s = 1..M /\ DOMAIN t = 1..N /\ DOMAIN (s \o t) = 1..(M + N)
      /\ \A k \in 1..M : (s \o t)[k] = s[k]
      /\ \A k \in 1..N : (s \o t)[M + k] = t[k]
  OBVIOUS
<1>2. PICK p \in Bijection(A, 1..M) : \A x \in A : s[p[x]] = a[x]
  BY <1>1 DEF Lists
<1>3. PICK q \in Bijection(B, 1..N) : \A x \in B : t[q[x]] = b[x]
  BY <1>1 DEF Lists
<1> DEFINE r == [x \in A \cup B |-> IF x \in A THEN p[x] ELSE M + q[x]]
<1> HIDE DEF A, B, M, N
<1>4. /\ p \in [A -> 1..M]
      /\ \A x, y \in A : p[x] = p[y] => x = y
      /\ \A k \in 1..M : \E x \in A : p[x] = k
  BY DEF Bijection, Injection, Surjection, IsInjective
<1>5. /\ q \in [B -> 1..N]
      /\ \A x, y \in B : q[x] = q[y] => x = y
      /\ \A k \in 1..N : \E x \in B : q[x] = k
  BY DEF Bijection, Injection, Surjection, IsInjective
<1>6. A \cap B = {}
  BY DEF A, B, Joins
<1>7. \A x \in A : r[x] = p[x] /\ r[x] \in 1..M
  BY <1>4
<1>8. \A x \in B : r[x] = M + q[x] /\ q[x] \in 1..N
  BY <1>5, <1>6
<1>9. r \in [A \cup B -> 1..(M + N)]
  <2>1. \A x \in A \cup B : r[x] \in 1..(M + N)
    BY <1>1, <1>7, <1>8
  <2> QED BY <2>1
<1> HIDE DEF r
<1>10. \A x, y \in A \cup B : r[x] = r[y] => x = y
  BY <1>1, <1>4, <1>5, <1>7, <1>8
<1>11. ASSUME NEW k \in 1..(M + N) PROVE \E x \in A \cup B : r[x] = k
  <2>1. CASE k <= M
    <3>1. k \in 1..M
      BY <1>1, <2>1
    <3> QED BY <1>4, <1>7, <3>1
  <2>2. CASE k > M
    <3>1. k - M \in 1..N /\ M + (k - M) = k
      BY <1>1, <2>2
    <3> QED BY <1>5, <1>8, <3>1
  <2> QED BY <1>1, <2>1, <2>2
<1>12. r \in Bijection(A \cup B, 1..(M + N))
  BY <1>9, <1>10, <1>11 DEF Bijection, Injection, Surjection, IsInjective
<1>13. ASSUME NEW x \in A \cup B PROVE (s \o t)[r[x]] = both[x]
  <2>1. CASE x \in A
    BY <1>1, <1>2, <1>7, <2>1 DEF A, Joins
  <2>2. CASE x \in B
    BY <1>1, <1>3, <1>8, <2>2 DEF B, Joins
  <2> QED BY <2>1, <2>2
<1>14. DOMAIN both = A \cup B
  BY DEF A, B, Joins
<1> QED BY <1>1, <1>12, <1>13, <1>14 DEF Lists

\* How often a list or a family has a value.
Occurrences(v, family) == Cardinality({x \in DOMAIN family : family[x] = v})

(***************************************************************************)
(* A list is as long as its family is large, and has as many copies of a   *)
(* value as the family.                                                    *)
(***************************************************************************)
LEMMA ListsCounted ==
    ASSUME NEW T, NEW list \in Seq(T), NEW family, Lists(list, family)
    PROVE  /\ Cardinality(DOMAIN family) = Len(list)
           /\ \A v : Occurrences(v, list) = Occurrences(v, family)
           /\ \A x \in DOMAIN family : \E k \in DOMAIN list : list[k] = family[x]
           /\ \A k \in DOMAIN list : \E x \in DOMAIN family : list[k] = family[x]
<1> DEFINE A == DOMAIN family
           N == Len(list)
<1>1. N \in Nat /\ DOMAIN list = 1..N
  OBVIOUS
<1>2. PICK p \in Bijection(A, 1..N) : \A x \in A : list[p[x]] = family[x]
  BY <1>1 DEF Lists
<1> HIDE DEF A, N
<1>3. /\ p \in [A -> 1..N]
      /\ \A x, y \in A : p[x] = p[y] => x = y
      /\ \A k \in 1..N : \E x \in A : p[x] = k
  BY DEF Bijection, Injection, Surjection, IsInjective
<1>4. IsFiniteSet(1..N) /\ Cardinality(1..N) = N
  BY <1>1, FS_Interval
<1>5. Cardinality(A) = N
  <2>1. ExistsBijection(1..N, A)
    BY <1>2, Fun_ExistsBijSymmetric DEF ExistsBijection
  <2> QED BY <1>1, <2>1, FS_CountingElements
<1>6. ASSUME NEW v
      PROVE  Cardinality({k \in 1..N : list[k] = v}) = Cardinality({x \in A : family[x] = v})
  <2> DEFINE K == {k \in 1..N : list[k] = v}
             X == {x \in A : family[x] = v}
             q == [x \in X |-> p[x]]
  <2>1. q \in [X -> K]
    BY <1>2, <1>3
  <2>2. \A x \in X : q[x] = p[x] /\ x \in A
    OBVIOUS
  <2>3. ASSUME NEW k \in K PROVE \E x \in X : p[x] = k
    BY <1>2, <1>3
  <2>4. K \subseteq 1..N
    OBVIOUS
  <2> HIDE DEF q, K, X
  <2>5. q \in Bijection(X, K)
    BY <1>3, <2>1, <2>2, <2>3 DEF Bijection, Injection, Surjection, IsInjective
  <2>6. ExistsBijection(K, X)
    BY <2>5, Fun_ExistsBijSymmetric DEF ExistsBijection
  <2>7. IsFiniteSet(K)
    BY <1>4, <2>4, FS_Subset
  <2>8. Cardinality(K) = Cardinality(X)
    BY <2>6, <2>7, FS_Bijection
  <2> QED BY <2>8 DEF K, X
<1>7. ASSUME NEW x \in A PROVE \E k \in 1..N : list[k] = family[x]
  BY <1>2, <1>3
<1>8. ASSUME NEW k \in 1..N PROVE \E x \in A : list[k] = family[x]
  BY <1>2, <1>3
<1>9. \A v : Occurrences(v, list) = Occurrences(v, family)
  BY <1>1, <1>6 DEF Occurrences, A
<1> QED BY <1>1, <1>5, <1>7, <1>8, <1>9 DEF A, N

\* The place of an element in a list of lists.
Places(seqs) == {at \in (1..Len(seqs)) \X Nat : at[2] \in 1..Len(seqs[at[1]])}

(***************************************************************************)
(* FlattenSeq of a list of lists has what the lists have.                  *)
(***************************************************************************)
LEMMA FlattenLists ==
    ASSUME NEW T, NEW seqs \in Seq(Seq(T))
    PROVE  /\ FlattenSeq(seqs) \in Seq(T)
           /\ Lists(FlattenSeq(seqs), [at \in Places(seqs) |-> seqs[at[1]][at[2]]])
<1> DEFINE N == Len(seqs)
           UpTo(n) == {at \in Places(seqs) : at[1] <= n}
           Family(n) == [at \in UpTo(n) |-> seqs[at[1]][at[2]]]
<1>1. N \in Nat /\ \A n \in 1..N : seqs[n] \in Seq(T)
  OBVIOUS
<1>2. PICK F \in [0..N -> Seq(T)] :
              /\ F[0] = <<>>
              /\ \A n \in 1..N : F[n] = F[n - 1] \o seqs[n]
              /\ FlattenSeq(seqs) = F[N]
  BY FlattenSteps
<1> DEFINE S == {n \in Nat : n <= N => Lists(F[n], Family(n))}
<1>3. 0 \in S
  <2>1. Family(0) \in [{} -> {}]
    BY DEF Places
  <2>2. Family(0) \in Bijection({}, {})
    BY <2>1 DEF Bijection, Injection, Surjection, IsInjective
  <2>3. DOMAIN F[0] = {} /\ DOMAIN Family(0) = {}
    BY <1>2, <2>1
  <2>4. Lists(F[0], Family(0))
    <3> HIDE DEF Family
    <3> QED BY <2>2, <2>3 DEF Lists
  <2> QED BY <2>4
<1>4. ASSUME NEW n \in Nat, n + 1 <= N, Lists(F[n], Family(n))
      PROVE  Lists(F[n + 1], Family(n + 1))
  <2> DEFINE m == n + 1
             Here == {m} \X (1..Len(seqs[m]))
             b == [at \in Here |-> seqs[m][at[2]]]
             p == [at \in Here |-> at[2]]
  <2>1. m \in 1..N /\ n \in 0..N /\ m - 1 = n
    BY <1>1, <1>4
  <2>2. Lists(F[n], Family(n))
    BY <1>4
  <2>3. F[m] = F[n] \o seqs[m] /\ F[n] \in Seq(T) /\ seqs[m] \in Seq(T)
    BY <1>1, <1>2, <2>1
  <2>4. Lists(seqs[m], b)
    <3>1. DOMAIN b = Here /\ DOMAIN seqs[m] = 1..Len(seqs[m])
      BY <2>3
    <3>2. p \in [Here -> 1..Len(seqs[m])] /\ \A at \in Here : p[at] = at[2]
      OBVIOUS
    <3>3. ASSUME NEW x \in Here, NEW y \in Here, p[x] = p[y] PROVE x = y
      <4>1. x = <<m, x[2]>> /\ y = <<m, y[2]>>
        OBVIOUS
      <4> QED BY <3>3, <4>1
    <3>4. ASSUME NEW k \in 1..Len(seqs[m]) PROVE \E x \in Here : p[x] = k
      <4>1. <<m, k>> \in Here /\ p[<<m, k>>] = k
        OBVIOUS
      <4> QED BY <4>1
    <3>5. \A at \in Here : seqs[m][p[at]] = b[at]
      OBVIOUS
    <3> HIDE DEF p, b, Here
    <3>6. p \in Bijection(Here, 1..Len(seqs[m]))
      BY <3>2, <3>3, <3>4 DEF Bijection, Injection, Surjection, IsInjective
    <3> QED BY <3>1, <3>5, <3>6 DEF Lists
  <2>5. UpTo(m) = UpTo(n) \cup Here /\ UpTo(n) \cap Here = {}
    BY <1>1, <2>1, <2>3 DEF Places
  <2>6. \A at \in Here : seqs[at[1]][at[2]] = b[at]
    OBVIOUS
  <2>7. DOMAIN b = Here
    OBVIOUS
  <2> HIDE DEF b, Here, UpTo
  <2>8. Joins(Family(m), Family(n), b)
    BY <2>5, <2>6, <2>7 DEF Joins
  <2> HIDE DEF Family, m
  <2>9. Lists(F[n] \o seqs[m], Family(m))
    BY <2>2, <2>3, <2>4, <2>8, ListsAppended
  <2> QED BY <2>3, <2>9 DEF m
<1>5. Nat \subseteq S
  <2>1. ASSUME NEW n \in Nat, n \in S PROVE n + 1 \in S
    <3>1. n + 1 <= N => Lists(F[n], Family(n))
      BY <1>1, <2>1
    <3>2. n + 1 <= N => Lists(F[n + 1], Family(n + 1))
      BY <1>4, <3>1
    <3> HIDE DEF Family, N
    <3> QED BY <3>2
  <2> HIDE DEF S
  <2> QED BY <1>3, <2>1, NumberInduction
<1>6. Lists(FlattenSeq(seqs), Family(N))
  BY <1>1, <1>2, <1>5
<1>7. UpTo(N) = Places(seqs)
  BY <1>1 DEF Places
<1>8. FlattenSeq(seqs) \in Seq(T)
  BY <1>1, <1>2
<1> QED BY <1>6, <1>7, <1>8

\* The list has the elements of the lists.
HasElements(list, seqs) ==
    /\ \A k \in 1..Len(list) :
          \E i \in 1..Len(seqs) : \E j \in 1..Len(seqs[i]) : list[k] = seqs[i][j]
    /\ \A i \in 1..Len(seqs) : \A j \in 1..Len(seqs[i]) :
          \E k \in 1..Len(list) : list[k] = seqs[i][j]

\* FlattenSeq has every element of the lists, and no other.
LEMMA FlattenElements ==
    ASSUME NEW T, NEW seqs \in Seq(Seq(T))
    PROVE  HasElements(FlattenSeq(seqs), seqs)
<1> DEFINE list == FlattenSeq(seqs)
           family == [at \in Places(seqs) |-> seqs[at[1]][at[2]]]
<1>1. list \in Seq(T) /\ Lists(list, family)
  BY FlattenLists
<1> HIDE DEF list
<1>2. DOMAIN list = 1..Len(list)
  BY <1>1
<1>3. /\ \A x \in DOMAIN family : \E k \in DOMAIN list : list[k] = family[x]
      /\ \A k \in DOMAIN list : \E x \in DOMAIN family : list[k] = family[x]
  <2> HIDE DEF family
  <2> QED BY <1>1, ListsCounted
<1>4. ASSUME NEW k \in 1..Len(list)
      PROVE  \E i \in 1..Len(seqs) : \E j \in 1..Len(seqs[i]) : list[k] = seqs[i][j]
  <2>1. PICK at \in Places(seqs) : list[k] = seqs[at[1]][at[2]]
    BY <1>2, <1>3
  <2>2. at[1] \in 1..Len(seqs) /\ at[2] \in 1..Len(seqs[at[1]])
    BY DEF Places
  <2> QED BY <2>1, <2>2
<1>5. ASSUME NEW i \in 1..Len(seqs), NEW j \in 1..Len(seqs[i])
      PROVE  \E k \in 1..Len(list) : list[k] = seqs[i][j]
  <2>1. <<i, j>> \in Places(seqs) /\ family[<<i, j>>] = seqs[i][j]
    BY DEF Places
  <2> HIDE DEF family
  <2>2. DOMAIN family = Places(seqs)
    BY DEF family
  <2> QED BY <1>2, <1>3, <2>1, <2>2
<1> QED BY <1>4, <1>5 DEF list, HasElements

(***************************************************************************)
(* SetToSeq lists each element of a finite set once.                       *)
(***************************************************************************)
LEMMA SetToSeqLists ==
    ASSUME NEW S, IsFiniteSet(S)
    PROVE  /\ SetToSeq(S) \in Seq(S)
           /\ \A i, j \in DOMAIN SetToSeq(S) : SetToSeq(S)[i] = SetToSeq(S)[j] => i = j
           /\ \A x \in S : \E i \in DOMAIN SetToSeq(S) : SetToSeq(S)[i] = x
<1> DEFINE N == Cardinality(S)
           list == SetToSeq(S)
<1>1. N \in Nat /\ ExistsBijection(1..N, S)
  BY FS_CardinalityType
<1> HIDE DEF N
<1>2. PICK f \in [1..N -> S] : IsInjective(f)
  BY <1>1 DEF ExistsBijection, Bijection, Injection
<1>3. list = CHOOSE g \in [1..N -> S] : IsInjective(g)
  BY DEF SetToSeq, N
<1> HIDE DEF list
<1>4. list \in [1..N -> S] /\ IsInjective(list)
  <2> DEFINE P(g) == g \in [1..N -> S] /\ IsInjective(g)
  <2>1. P(f)
    BY <1>2
  <2>2. list = CHOOSE g : P(g)
    BY <1>3
  <2> HIDE DEF P
  <2>3. P(list)
    BY <2>1, <2>2
  <2> QED BY <2>3 DEF P
<1>5. list \in Injection(1..N, S) /\ DOMAIN list = 1..N
  BY <1>4 DEF Injection
<1>6. list \in Surjection(1..N, S)
  <2>1. Cardinality(1..N) = Cardinality(S)
    BY <1>1, FS_Interval DEF N
  <2> QED BY <1>5, <2>1, FS_Injection
<1>7. list \in Seq(S)
  BY <1>1, <1>4
<1> QED BY <1>4, <1>5, <1>6, <1>7 DEF IsInjective, Surjection, list
-----------------------------------------------------------------------------

\* A list has what it has.
LEMMA ListsItself ==
    ASSUME NEW T, NEW list \in Seq(T)
    PROVE  Lists(list, list)
<1> DEFINE L == DOMAIN list
           p == [k \in L |-> k]
<1>1. p \in Bijection(L, L)
  BY DEF Bijection, Injection, Surjection, IsInjective
<1>2. \A k \in L : list[p[k]] = list[k]
  OBVIOUS
<1> HIDE DEF p
<1> QED BY <1>1, <1>2 DEF Lists

\* The elements of one family, each with each of another one after it.
Products(a, b) == [x \in (DOMAIN a) \X (DOMAIN b) |-> a[x[1]] \o b[x[2]]]

(***************************************************************************)
(* A product of lists is a product of their families.                      *)
(***************************************************************************)
LEMMA ListsProducts ==
    ASSUME NEW s, NEW t, NEW a, NEW b, NEW both,
           Lists(s, a), Lists(t, b), Lists(both, Products(s, t))
    PROVE  Lists(both, Products(a, b))
<1> DEFINE A == DOMAIN a
           B == DOMAIN b
           M == DOMAIN s
           N == DOMAIN t
<1>1. PICK p \in Bijection(A, M) : \A x \in A : s[p[x]] = a[x]
  BY DEF Lists
<1>2. PICK q \in Bijection(B, N) : \A x \in B : t[q[x]] = b[x]
  BY DEF Lists
<1> DEFINE r == [x \in A \X B |-> <<p[x[1]], q[x[2]]>>]
           old == Products(s, t)
           new == Products(a, b)
<1>3. DOMAIN new = A \X B /\ DOMAIN old = M \X N
  BY DEF Products
<1>4. /\ \A x \in A \X B : new[x] = a[x[1]] \o b[x[2]]
      /\ \A x \in M \X N : old[x] = s[x[1]] \o t[x[2]]
  BY DEF Products
<1>5. Lists(both, old)
  OBVIOUS
<1> HIDE DEF A, B, M, N, old, new
<1>6. /\ p \in [A -> M]
      /\ \A x, y \in A : p[x] = p[y] => x = y
      /\ \A k \in M : \E x \in A : p[x] = k
  BY DEF Bijection, Injection, Surjection, IsInjective
<1>7. /\ q \in [B -> N]
      /\ \A x, y \in B : q[x] = q[y] => x = y
      /\ \A k \in N : \E x \in B : q[x] = k
  BY DEF Bijection, Injection, Surjection, IsInjective
<1>8. r \in [A \X B -> M \X N]
  BY <1>6, <1>7
<1>9. \A x \in A \X B : r[x] = <<p[x[1]], q[x[2]]>> /\ r[x] \in M \X N
  BY <1>6, <1>7
<1> HIDE DEF r
<1>10. ASSUME NEW x \in A \X B, NEW y \in A \X B, r[x] = r[y] PROVE x = y
  <2>1. p[x[1]] = p[y[1]] /\ q[x[2]] = q[y[2]]
    BY <1>9, <1>10
  <2>2. x[1] = y[1] /\ x[2] = y[2]
    BY <1>6, <1>7, <2>1
  <2> QED BY <2>2
<1>11. ASSUME NEW k \in M \X N PROVE \E x \in A \X B : r[x] = k
  <2>1. PICK x \in A : p[x] = k[1]
    BY <1>6
  <2>2. PICK y \in B : q[y] = k[2]
    BY <1>7
  <2>3. <<x, y>> \in A \X B /\ r[<<x, y>>] = k
    BY <1>9, <2>1, <2>2
  <2> QED BY <2>3
<1>12. r \in Bijection(A \X B, M \X N)
  BY <1>8, <1>10, <1>11 DEF Bijection, Injection, Surjection, IsInjective
<1>13. ASSUME NEW x \in A \X B PROVE new[x] = old[r[x]]
  <2>1. x[1] \in A /\ x[2] \in B
    OBVIOUS
  <2>2. a[x[1]] = s[p[x[1]]] /\ b[x[2]] = t[q[x[2]]]
    BY <1>1, <1>2, <2>1
  <2>3. old[r[x]] = s[r[x][1]] \o t[r[x][2]] /\ new[x] = a[x[1]] \o b[x[2]]
    BY <1>4, <1>9
  <2>4. r[x][1] = p[x[1]] /\ r[x][2] = q[x[2]]
    BY <1>9
  <2> QED BY <2>2, <2>3, <2>4
<1>14. Lists(both, new)
  BY <1>3, <1>5, <1>12, <1>13, ListsReindexed
<1> QED BY <1>14 DEF new

\* One list has one element more than another one.
HasOneMore(longer, list) ==
    Len(longer) = Len(list) + 1 /\ \A i \in 1..Len(list) : longer[i] = list[i]

(***************************************************************************)
(* The last list comes last in what FlattenSeq returns.                    *)
(***************************************************************************)
LEMMA FlattenOneMore ==
    ASSUME NEW T, NEW s \in Seq(Seq(T)), NEW t \in Seq(Seq(T)), HasOneMore(t, s)
    PROVE  FlattenSeq(t) = FlattenSeq(s) \o t[Len(t)]
<1> DEFINE N == Len(s)
<1>1. N \in Nat /\ Len(t) = N + 1 /\ \A i \in 1..N : t[i] = s[i]
  <2>1. N \in Nat
    OBVIOUS
  <2> QED BY <2>1 DEF HasOneMore
<1>2. PICK F \in [0..N -> Seq(T)] :
              /\ F[0] = <<>>
              /\ \A n \in 1..N : F[n] = F[n - 1] \o s[n]
              /\ FlattenSeq(s) = F[N]
  BY FlattenSteps
<1>3. PICK G \in [0..Len(t) -> Seq(T)] :
              /\ G[0] = <<>>
              /\ \A n \in 1..Len(t) : G[n] = G[n - 1] \o t[n]
              /\ FlattenSeq(t) = G[Len(t)]
  BY FlattenSteps
<1> HIDE DEF N
<1> DEFINE S == {n \in Nat : n <= N => G[n] = F[n]}
<1>4. 0 \in S
  BY <1>2, <1>3
<1>5. ASSUME NEW n \in Nat, n \in S PROVE n + 1 \in S
  <2> SUFFICES ASSUME n + 1 <= N PROVE G[n + 1] = F[n + 1]
    OBVIOUS
  <2>1. n + 1 \in 1..N /\ n + 1 \in 1..Len(t) /\ (n + 1) - 1 = n
    BY <1>1
  <2>2. G[n] = F[n]
    BY <1>1, <1>5, <2>1
  <2>3. G[n + 1] = G[n] \o t[n + 1] /\ F[n + 1] = F[n] \o s[n + 1]
    BY <1>2, <1>3, <2>1
  <2> QED BY <1>1, <2>1, <2>2, <2>3
<1>6. Nat \subseteq S
  <2> HIDE DEF S
  <2> QED BY <1>4, <1>5, NumberInduction
<1>7. G[N] = F[N]
  BY <1>1, <1>6
<1>8. Len(t) \in 1..Len(t) /\ Len(t) - 1 = N
  BY <1>1
<1>9. G[Len(t)] = G[N] \o t[Len(t)]
  BY <1>3, <1>8
<1> QED BY <1>2, <1>3, <1>7, <1>9

\* What the families have, each index with its family's number.
Gathered(families, N) ==
    [x \in UNION {{i} \X (DOMAIN families[i]) : i \in 1..N} |-> families[x[1]][x[2]]]

EachLists(seqs, families) == \A i \in 1..Len(seqs) : Lists(seqs[i], families[i])

(***************************************************************************)
(* FlattenSeq of a list of lists has what their families have.             *)
(***************************************************************************)
LEMMA FlattenFamilies ==
    ASSUME NEW T, NEW seqs \in Seq(Seq(T)), NEW families, EachLists(seqs, families)
    PROVE  Lists(FlattenSeq(seqs), Gathered(families, Len(seqs)))
<1> DEFINE N == Len(seqs)
           I(i) == DOMAIN families[i]
           L(i) == 1..Len(seqs[i])
           X == UNION {{i} \X I(i) : i \in 1..N}
           P(i, p) == /\ p \in Bijection(I(i), L(i))
                      /\ \A x \in I(i) : seqs[i][p[x]] = families[i][x]
           old == [at \in Places(seqs) |-> seqs[at[1]][at[2]]]
           new == Gathered(families, N)
<1>1. \A i \in 1..N : seqs[i] \in Seq(T) /\ DOMAIN seqs[i] = L(i)
  OBVIOUS
<1>2. ASSUME NEW i \in 1..N PROVE \E p : P(i, p)
  BY <1>1 DEF Lists, EachLists
<1> DEFINE pick == [i \in 1..N |-> CHOOSE p : P(i, p)]
<1>3. ASSUME NEW i \in 1..N PROVE P(i, pick[i])
  <2>1. pick[i] = CHOOSE p : P(i, p)
    OBVIOUS
  <2> HIDE DEF P
  <2> QED BY <1>2, <2>1
<1> HIDE DEF pick
<1> DEFINE q == [x \in X |-> <<x[1], pick[x[1]][x[2]]>>]
<1>4. \A x : x \in X <=> \E i \in 1..N : \E y \in I(i) : x = <<i, y>>
  OBVIOUS
<1>5. \A at : at \in Places(seqs) <=> \E i \in 1..N : \E j \in L(i) : at = <<i, j>>
  BY DEF Places
<1>6. ASSUME NEW i \in 1..N
      PROVE  /\ pick[i] \in [I(i) -> L(i)]
             /\ \A x, y \in I(i) : pick[i][x] = pick[i][y] => x = y
             /\ \A k \in L(i) : \E x \in I(i) : pick[i][x] = k
             /\ \A x \in I(i) : seqs[i][pick[i][x]] = families[i][x]
  BY <1>3 DEF Bijection, Injection, Surjection, IsInjective
<1>7. ASSUME NEW i \in 1..N, NEW y \in I(i)
      PROVE  <<i, y>> \in X /\ q[<<i, y>>] = <<i, pick[i][y]>>
  OBVIOUS
<1>8. DOMAIN new = X /\ DOMAIN old = Places(seqs)
  BY DEF Gathered
<1>9. \A i \in 1..N : \A y \in I(i) : new[<<i, y>>] = families[i][y]
  BY <1>7 DEF Gathered
<1>10. \A i \in 1..N : \A j \in L(i) : old[<<i, j>>] = seqs[i][j]
  BY <1>5
<1>11. Lists(FlattenSeq(seqs), old)
  BY FlattenLists
<1>12. q = [x \in X |-> q[x]]
  OBVIOUS
<1> DEFINE Y == Places(seqs)
<1> HIDE DEF q, X, I, L, N, P, old, new, Y
<1>13. \A x \in X : q[x] \in Y
  BY <1>4, <1>5, <1>6, <1>7 DEF Y
<1>14. q \in [X -> Y]
  BY <1>12, <1>13
<1>15. ASSUME NEW x \in X, NEW y \in X, q[x] = q[y] PROVE x = y
  <2>1. PICK i \in 1..N : \E u \in I(i) : x = <<i, u>>
    BY <1>4
  <2>2. PICK u \in I(i) : x = <<i, u>>
    BY <2>1
  <2>3. PICK j \in 1..N : \E v \in I(j) : y = <<j, v>>
    BY <1>4
  <2>4. PICK v \in I(j) : y = <<j, v>>
    BY <2>3
  <2>5. <<i, pick[i][u]>> = <<j, pick[j][v]>>
    BY <1>7, <1>15, <2>2, <2>4
  <2>6. i = j /\ pick[i][u] = pick[i][v]
    BY <2>5
  <2>7. u = v
    BY <1>6, <2>6
  <2> QED BY <2>2, <2>4, <2>6, <2>7
<1>16. ASSUME NEW at \in Y PROVE \E x \in X : q[x] = at
  <2>1. PICK i \in 1..N : \E j \in L(i) : at = <<i, j>>
    BY <1>5 DEF Y
  <2>2. PICK j \in L(i) : at = <<i, j>>
    BY <2>1
  <2>3. PICK u \in I(i) : pick[i][u] = j
    BY <1>6
  <2>4. <<i, u>> \in X /\ q[<<i, u>>] = at
    BY <1>7, <2>2, <2>3
  <2> QED BY <2>4
<1>17. q \in Bijection(X, Y)
  BY <1>14, <1>15, <1>16 DEF Bijection, Injection, Surjection, IsInjective
<1>18. ASSUME NEW x \in X PROVE new[x] = old[q[x]]
  <2>1. PICK i \in 1..N : \E u \in I(i) : x = <<i, u>>
    BY <1>4
  <2>2. PICK u \in I(i) : x = <<i, u>>
    BY <2>1
  <2>3. new[x] = families[i][u] /\ q[x] = <<i, pick[i][u]>> /\ pick[i][u] \in L(i)
    BY <1>6, <1>7, <1>9, <2>2
  <2>4. old[q[x]] = seqs[i][pick[i][u]]
    BY <1>10, <2>3
  <2> QED BY <1>6, <2>3, <2>4
<1>19. DOMAIN new = X /\ DOMAIN old = Y
  BY <1>8 DEF Y
<1>20. Lists(FlattenSeq(seqs), new)
  BY <1>11, <1>17, <1>18, <1>19, ListsReindexed
<1> QED BY <1>20 DEF new, N
=============================================================================
