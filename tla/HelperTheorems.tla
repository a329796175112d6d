--------------------------- MODULE HelperTheorems ---------------------------
(***************************************************************************)
(* Facts about the operators the models of the simulation are built on:    *)
(* the search in an array (get_idx) and the set of threads whose control   *)
(* is at one of a set of labels.                                           *)
(***************************************************************************)
EXTENDS Helper, FiniteSetTheorems, WellFoundedInduction, TLAPS

\* A nonempty set of naturals has a least element.
LEMMA LeastElement ==
    ASSUME NEW S \in SUBSET Nat, S # {}
    PROVE  \E i \in S : \A j \in S : i <= j
<1> DEFINE R == OpToRel(<, Nat)
<1>1. IsWellFoundedOn(R, Nat)
  BY NatLessThanWellFounded
<1>2. PICK i \in S : \A j \in S : <<j, i>> \notin R
  <2> HIDE DEF R
  <2> QED
    BY <1>1, WFMin
<1>3. \A j \in S : ~(j < i)
  BY <1>2 DEF OpToRel
<1> QED
  BY <1>3

\* get_idx (helper.h) returns the index of an occurrence when there is one;
\* nothing before that index matches, and -1 means that nothing matches.
THEOREM GetIdxCorrect ==
    ASSUME NEW n \in Nat, NEW arr, NEW elem
    PROVE  LET i == get_idx(arr, n, elem)
           IN  \/ /\ i \in 0 .. n - 1
                  /\ arr[i] = elem
                  /\ \A j \in 0 .. i - 1 : arr[j] # elem
               \/ /\ i = -1
                  /\ \A j \in 0 .. n - 1 : arr[j] # elem
<1> DEFINE found == IndicesOf(arr, n, elem)
           i == get_idx(arr, n, elem)
<1>1. found \in SUBSET Nat /\ \A j : j \in found <=> j \in 0 .. n - 1 /\ arr[j] = elem
  BY DEF IndicesOf
<1>2. CASE found = {}
  <2>1. i = -1
    BY <1>2 DEF get_idx
  <2> QED
    BY <1>1, <1>2, <2>1
<1>3. CASE found # {}
  <2>1. i = CHOOSE k \in found : \A j \in found : k <= j
    BY <1>3 DEF get_idx
  <2>2. \E k \in found : \A j \in found : k <= j
    BY <1>1, <1>3, LeastElement
  <2> HIDE DEF i, found
  <2>3. i \in found /\ \A j \in found : i <= j
    BY <2>1, <2>2
  <2>4. i \in 0 .. n - 1 /\ arr[i] = elem
    BY <1>1, <2>3
  <2>5. \A j \in 0 .. i - 1 : arr[j] # elem
    BY <1>1, <2>3, <2>4
  <2> QED
    BY <2>4, <2>5 DEF i
<1> QED
  BY <1>2, <1>3

-----------------------------------------------------------------------------

\* From f to g, thread p alone goes to another label.
Moved(S, f, g, p, to) == \A q \in S : g[q] = IF q = p THEN to ELSE f[q]

\* When one thread moves, the number of threads at the labels of L grows by
\* one, shrinks by one, or stays.
LEMMA OneThreadMoves ==
    ASSUME NEW S, IsFiniteSet(S), NEW f, NEW g, NEW p \in S, NEW to, NEW L,
           Moved(S, f, g, p, to)
    PROVE  /\ IsFiniteSet(ThreadsAt(S, f, L))
           /\ Cardinality(ThreadsAt(S, f, L)) \in Nat
           /\ f[p] \notin L /\ to \in L =>
                Cardinality(ThreadsAt(S, g, L)) = Cardinality(ThreadsAt(S, f, L)) + 1
           /\ f[p] \in L /\ to \notin L =>
                Cardinality(ThreadsAt(S, g, L)) = Cardinality(ThreadsAt(S, f, L)) - 1
           /\ (f[p] \in L <=> to \in L) =>
                Cardinality(ThreadsAt(S, g, L)) = Cardinality(ThreadsAt(S, f, L))
<1> DEFINE A == ThreadsAt(S, f, L)
           B == ThreadsAt(S, g, L)
<1>1. B = (IF to \in L THEN A \cup {p} ELSE A \ {p})
  BY DEF ThreadsAt, Moved
<1>2. A \in SUBSET S /\ (p \in A <=> f[p] \in L)
  BY DEF ThreadsAt
<1> HIDE DEF A, B
<1>3. IsFiniteSet(A)
  BY <1>2, FS_Subset
<1>4. Cardinality(A) \in Nat
  BY <1>3, FS_CardinalityType
<1>5. f[p] \notin L /\ to \in L => Cardinality(B) = Cardinality(A) + 1
  BY <1>1, <1>2, <1>3, FS_AddElement
<1>6. f[p] \in L /\ to \notin L => Cardinality(B) = Cardinality(A) - 1
  BY <1>1, <1>2, <1>3, FS_RemoveElement
<1>7. ASSUME f[p] \in L <=> to \in L
      PROVE  Cardinality(B) = Cardinality(A)
  <2>1. B = A
    BY <1>1, <1>2, <1>7
  <2> QED
    BY <2>1
<1> QED
  BY <1>3, <1>4, <1>5, <1>6, <1>7 DEF A, B

\* A set of threads is finite, and empty exactly when it has no member.
LEMMA ThreadSetsFinite ==
    ASSUME NEW S, IsFiniteSet(S), NEW f, NEW L
    PROVE  /\ IsFiniteSet(ThreadsAt(S, f, L))
           /\ Cardinality(ThreadsAt(S, f, L)) \in Nat
           /\ Cardinality(ThreadsAt(S, f, L)) = 0 <=> \A t \in S : f[t] \notin L
<1> DEFINE A == ThreadsAt(S, f, L)
<1>1. A \in SUBSET S /\ (A = {} <=> \A t \in S : f[t] \notin L)
  BY DEF ThreadsAt
<1> HIDE DEF A
<1>2. IsFiniteSet(A)
  BY <1>1, FS_Subset
<1> QED
  BY <1>1, <1>2, FS_CardinalityType, FS_EmptySet DEF A
=============================================================================
