---------------------------- MODULE MailboxOrder ----------------------------
(***************************************************************************)
(* Lemmas on the lists of Mailbox: what ORDER BY ... LIMIT n leaves out    *)
(* (First), and what sorting two queries' results together gives (Sorted). *)
(* They hold for lists of any length.                                      *)
(***************************************************************************)
EXTENDS Mailbox, TLAPS, FiniteSetTheorems, SequenceTheorems, WellFoundedInduction

\* Places are well ordered: a set of them that is not empty has a first one.
LEMMA LeastExists ==
  ASSUME NEW S \in SUBSET Nat, S # {}
  PROVE  \E x \in S : \A y \in S : x <= y
<1>1. IsWellFoundedOn(OpToRel(<, Nat), Nat)
  BY NatLessThanWellFounded, Zenon
<1>2. PICK x \in S : \A y \in S : ~(<<y, x>> \in OpToRel(<, Nat))
  BY <1>1, WFMin, Zenon
<1>3. ASSUME NEW y \in S PROVE x <= y
  <2>1. ~(<<y, x>> \in OpToRel(<, Nat))
    BY <1>2
  <2>2. ~(y < x)
    BY <2>1 DEF OpToRel
  <2> QED BY <2>2
<1> QED BY <1>3

\* Min gives it.
LEMMA MinIsFirst ==
  ASSUME NEW S \in SUBSET Nat, S # {}
  PROVE  Min(S) \in S /\ \A y \in S : Min(S) <= y
BY LeastExists DEF Min

\* A finite set of places has a last one: the one with the fewest after it.
LEMMA GreatestExists ==
  ASSUME NEW S \in SUBSET Nat, IsFiniteSet(S), S # {}
  PROVE  \E x \in S : \A y \in S : y <= x
<1> DEFINE After(x) == {y \in S : y > x}
           Counts   == {Cardinality(After(x)) : x \in S}
<1>1. \A x \in S : IsFiniteSet(After(x)) /\ Cardinality(After(x)) \in Nat
  <2> SUFFICES ASSUME NEW x \in S
               PROVE  IsFiniteSet(After(x)) /\ Cardinality(After(x)) \in Nat
    OBVIOUS
  <2>1. After(x) \in SUBSET S
    OBVIOUS
  <2> QED BY <2>1, FS_Subset, FS_CardinalityType
<1>2. Counts \in SUBSET Nat /\ Counts # {}
  BY <1>1
<1>3. PICK n \in Counts : \A m \in Counts : n <= m
  BY <1>2, LeastExists
<1>4. PICK x \in S : n = Cardinality(After(x))
  OBVIOUS
<1>5. SUFFICES ASSUME NEW y \in S, ~(y <= x) PROVE FALSE
  OBVIOUS
<1>6. After(y) \in SUBSET After(x) /\ After(y) # After(x)
  <2>1. y \in After(x) /\ y \notin After(y)
    BY <1>5
  <2>2. ASSUME NEW e \in After(y) PROVE e \in After(x)
    BY <1>5, <2>2
  <2> QED BY <2>1, <2>2
<1>7. Cardinality(After(y)) <= Cardinality(After(x)) /\ Cardinality(After(y)) # Cardinality(After(x))
  BY <1>1, <1>6, FS_Subset
<1>8. n <= Cardinality(After(y))
  BY <1>3
<1> HIDE DEF After
<1> QED BY <1>1, <1>4, <1>7, <1>8

-----------------------------------------------------------------------------
(* Counting up to a place *)

Count(A, x) == Cardinality({y \in A : y <= x})

LEMMA CountGrows ==
  ASSUME NEW A \in SUBSET Nat, IsFiniteSet(A), NEW x \in Nat, NEW z \in Nat, x <= z
  PROVE  /\ Count(A, x) \in Nat /\ Count(A, z) \in Nat
         /\ Count(A, x) <= Count(A, z)
         /\ Count(A, x) <= Cardinality(A)
         /\ x < z /\ z \in A => Count(A, x) < Count(A, z)
         /\ (\A a \in A : a <= x) => Count(A, x) = Cardinality(A)
<1> DEFINE X == {y \in A : y <= x}
           Z == {y \in A : y <= z}
<1>1. X \in SUBSET A /\ Z \in SUBSET A /\ X \in SUBSET Z
  <2>1. ASSUME NEW e \in X PROVE e \in Z
    BY <2>1
  <2> QED BY <2>1
<1>2. /\ IsFiniteSet(X) /\ IsFiniteSet(Z)
      /\ Cardinality(X) \in Nat /\ Cardinality(Z) \in Nat /\ Cardinality(A) \in Nat
      /\ Cardinality(X) <= Cardinality(Z) /\ Cardinality(X) <= Cardinality(A)
      /\ Cardinality(X) = Cardinality(Z) => X = Z
  BY <1>1, FS_Subset, FS_CardinalityType
<1>3. ASSUME x < z, z \in A PROVE X # Z
  BY <1>3
<1>4. ASSUME \A a \in A : a <= x PROVE X = A
  BY <1>4
<1>5. Cardinality(X) # Cardinality(Z) => Cardinality(X) < Cardinality(Z)
  BY <1>2
<1>6. Count(A, x) = Cardinality(X) /\ Count(A, z) = Cardinality(Z)
  BY DEF Count
<1> HIDE DEF X, Z
<1> QED BY <1>2, <1>3, <1>4, <1>5, <1>6

\* From the last place before x to x the count grows by one at most, and not at all
\* if x is not in the set.
LEMMA CountStep ==
  ASSUME NEW A \in SUBSET Nat, IsFiniteSet(A), NEW x \in Nat, NEW y \in Nat, y < x,
         \A a \in A : a < x => a <= y
  PROVE  /\ Count(A, x) <= Count(A, y) + 1
         /\ x \notin A => Count(A, x) = Count(A, y)
<1> DEFINE X == {a \in A : a <= x}
           Y == {a \in A : a <= y}
<1>1. X \in SUBSET (Y \cup {x}) /\ (x \notin A => X = Y)
  <2>1. ASSUME NEW e \in X PROVE e \in Y \cup {x}
    BY <2>1
  <2>2. ASSUME NEW e \in Y PROVE e \in X
    BY <2>2
  <2>3. x \notin A => x \notin X
    OBVIOUS
  <2> HIDE DEF X, Y
  <2> QED BY <2>1, <2>2, <2>3
<1>2. IsFiniteSet(Y) /\ Cardinality(Y) \in Nat
  <2>1. Y \in SUBSET A
    OBVIOUS
  <2> QED BY <2>1, FS_Subset, FS_CardinalityType
<1>3. IsFiniteSet(Y \cup {x}) /\ Cardinality(Y \cup {x}) <= Cardinality(Y) + 1
  <2>1. IsFiniteSet(Y \cup {x}) /\ Cardinality(Y \cup {x})
          = IF x \in Y THEN Cardinality(Y) ELSE Cardinality(Y) + 1
    BY <1>2, FS_AddElement, Zenon
  <2> QED BY <1>2, <2>1
<1>4. Cardinality(X) <= Cardinality(Y \cup {x}) /\ Cardinality(X) \in Nat
      /\ Cardinality(Y \cup {x}) \in Nat
  BY <1>1, <1>3, FS_Subset, FS_CardinalityType
<1>5. Count(A, x) = Cardinality(X) /\ Count(A, y) = Cardinality(Y)
  BY DEF Count
<1> HIDE DEF X, Y
<1> QED BY <1>1, <1>2, <1>3, <1>4, <1>5

\* Where nothing comes before x the count is one at most, and none if x is not there.
LEMMA CountFirst ==
  ASSUME NEW A \in SUBSET Nat, NEW x \in Nat, \A a \in A : x <= a
  PROVE  /\ Count(A, x) <= 1 /\ Count(A, x) \in Nat
         /\ x \notin A => Count(A, x) = 0
<1> DEFINE X == {a \in A : a <= x}
<1>1. \A e \in X : e = x /\ e \in A
  OBVIOUS
<1>2. (x \notin A => X = {}) /\ (X = {} \/ X = {x})
  <2> HIDE DEF X
  <2> QED BY <1>1
<1>3. Cardinality({}) = 0 /\ Cardinality({x}) = 1
  BY FS_EmptySet, FS_Singleton
<1>4. Count(A, x) = Cardinality(X)
  BY DEF Count
<1> HIDE DEF X
<1> QED BY <1>2, <1>3, <1>4
-----------------------------------------------------------------------------
(* Sorted *)

LEMMA UpToIsCount == \A A, B, x : UpTo(A, B, x) = Count(A, x) + Count(B, x)
BY DEF UpTo, Count

LEMMA UpToTyped ==
  ASSUME NEW A \in SUBSET Nat, NEW B \in SUBSET Nat, IsFiniteSet(A), IsFiniteSet(B),
         NEW x \in Nat
  PROVE  /\ UpTo(A, B, x) \in Nat
         /\ Count(A, x) \in Nat /\ Count(B, x) \in Nat
<1>1. Count(A, x) \in Nat /\ Count(B, x) \in Nat
  BY CountGrows
<1> QED BY <1>1, UpToIsCount

\* Every position holds the first item up to which there are that many.
LEMMA SortedItem ==
  ASSUME NEW A \in SUBSET Nat, NEW B \in SUBSET Nat, IsFiniteSet(A), IsFiniteSet(B),
         NEW i \in 1 .. Cardinality(A) + Cardinality(B)
  PROVE  /\ Sorted(A, B)[i] \in A \cup B
         /\ i <= UpTo(A, B, Sorted(A, B)[i])
         /\ \A y \in A \cup B : i <= UpTo(A, B, y) => Sorted(A, B)[i] <= y
<1> DEFINE Enough == {x \in A \cup B : i <= UpTo(A, B, x)}
<1>1. Sorted(A, B)[i] = Min(Enough)
  BY DEF Sorted
<1>2. IsFiniteSet(A \cup B) /\ A \cup B \in SUBSET Nat
  BY FS_Union
<1>3. Cardinality(A) \in Nat /\ Cardinality(B) \in Nat
  BY FS_CardinalityType
<1>4. A \cup B # {}
  <2>1. ASSUME A \cup B = {} PROVE Cardinality(A) = 0 /\ Cardinality(B) = 0
    <3>1. A = {} /\ B = {}
      BY <2>1
    <3> QED BY <3>1, FS_EmptySet
  <2> QED BY <1>3, <2>1
<1>5. PICK x \in A \cup B : \A y \in A \cup B : y <= x
  BY <1>2, <1>4, GreatestExists
<1>6. UpTo(A, B, x) = Cardinality(A) + Cardinality(B)
  BY <1>5, CountGrows, UpToIsCount
<1>7. Enough # {} /\ Enough \in SUBSET Nat
  <2>1. x \in Enough
    BY <1>3, <1>5, <1>6
  <2> QED BY <1>2, <2>1
<1>8. Min(Enough) \in Enough /\ \A y \in Enough : Min(Enough) <= y
  BY <1>7, MinIsFirst
<1> QED BY <1>1, <1>8

\* The sorted list has as many items as both lists together, and is one.
LEMMA SortedIsSeq ==
  ASSUME NEW A \in SUBSET Nat, NEW B \in SUBSET Nat, IsFiniteSet(A), IsFiniteSet(B)
  PROVE  /\ Sorted(A, B) \in Seq(A \cup B)
         /\ Len(Sorted(A, B)) = Cardinality(A) + Cardinality(B)
         /\ Len(Sorted(A, B)) \in Nat
         /\ DOMAIN Sorted(A, B) = 1 .. Len(Sorted(A, B))
<1> DEFINE n == Cardinality(A) + Cardinality(B)
<1>1. n \in Nat
  BY FS_CardinalityType
<1>2. \A i \in 1 .. n : Sorted(A, B)[i] \in A \cup B
  BY SortedItem
<1>3. Sorted(A, B) \in [1 .. n -> A \cup B]
  <2>1. Sorted(A, B) = [i \in 1 .. n |-> Sorted(A, B)[i]]
    BY DEF Sorted
  <2> QED BY <1>2, <2>1
<1> HIDE DEF n
<1>4. Sorted(A, B) \in Seq(A \cup B) /\ Len(Sorted(A, B)) = n
  BY <1>1, <1>3
<1> QED BY <1>1, <1>3, <1>4 DEF n

\* Nothing is left out of it.
LEMMA SortedHasAll ==
  ASSUME NEW A \in SUBSET Nat, NEW B \in SUBSET Nat, IsFiniteSet(A), IsFiniteSet(B),
         NEW x \in A \cup B
  PROVE  \E i \in 1 .. Len(Sorted(A, B)) : Sorted(A, B)[i] = x
<1> DEFINE i == UpTo(A, B, x)
<1>1. i \in 1 .. Cardinality(A) + Cardinality(B)
  <2>1. /\ Count(A, x) \in Nat /\ Count(B, x) \in Nat
        /\ Count(A, x) <= Cardinality(A) /\ Count(B, x) <= Cardinality(B)
    BY CountGrows
  <2>2. ASSUME NEW S \in SUBSET Nat, IsFiniteSet(S), x \in S PROVE 1 <= Count(S, x)
    <3> DEFINE X == {y \in S : y <= x}
    <3>1. X # {} /\ X \in SUBSET S
      BY <2>2
    <3>2. IsFiniteSet(X)
      BY <2>2, <3>1, FS_Subset
    <3>3. Cardinality(X) \in Nat /\ Cardinality(X) # 0
      BY <3>1, <3>2, FS_CardinalityType, FS_EmptySet
    <3> QED BY <3>3 DEF Count
  <2>3. Cardinality(A) \in Nat /\ Cardinality(B) \in Nat
    BY FS_CardinalityType
  <2>4. 1 <= Count(A, x) \/ 1 <= Count(B, x)
    BY <2>2
  <2> QED BY <2>1, <2>3, <2>4, UpToIsCount
<1>2. /\ Sorted(A, B)[i] \in A \cup B
      /\ i <= UpTo(A, B, Sorted(A, B)[i])
      /\ Sorted(A, B)[i] <= x
  BY <1>1, SortedItem
<1>3. ~(Sorted(A, B)[i] < x)
  <2> SUFFICES ASSUME NEW y \in A \cup B, y < x PROVE ~(UpTo(A, B, x) <= UpTo(A, B, y))
    BY <1>2
  <2>1. /\ Count(A, y) \in Nat /\ Count(A, x) \in Nat
        /\ Count(B, y) \in Nat /\ Count(B, x) \in Nat
        /\ Count(A, y) <= Count(A, x) /\ Count(B, y) <= Count(B, x)
        /\ Count(A, y) < Count(A, x) \/ Count(B, y) < Count(B, x)
    BY CountGrows
  <2> QED BY <2>1, UpToIsCount
<1>4. Sorted(A, B)[i] = x
  <2>1. Sorted(A, B)[i] \in Nat /\ x \in Nat
    BY <1>2
  <2> HIDE DEF i
  <2> QED BY <1>2, <1>3, <2>1
<1> QED BY <1>1, <1>4, SortedIsSeq

\* It never goes back, and stands still only on an item of both lists.
LEMMA SortedAscends ==
  ASSUME NEW A \in SUBSET Nat, NEW B \in SUBSET Nat, IsFiniteSet(A), IsFiniteSet(B),
         NEW i \in 1 .. Len(Sorted(A, B)), NEW j \in 1 .. Len(Sorted(A, B)), i < j
  PROVE  \/ Sorted(A, B)[i] < Sorted(A, B)[j]
         \/ Sorted(A, B)[i] = Sorted(A, B)[j] /\ Sorted(A, B)[i] \in A \cap B
<1> DEFINE x == Sorted(A, B)[i]
<1>1. i \in 1 .. Cardinality(A) + Cardinality(B) /\ j \in 1 .. Cardinality(A) + Cardinality(B)
  BY SortedIsSeq
<1>2. \A y \in A \cup B : y \in Nat /\ UpTo(A, B, y) \in Nat
  BY UpToTyped
<1>3. /\ x \in A \cup B /\ Sorted(A, B)[j] \in A \cup B
      /\ \A y \in A \cup B : i <= UpTo(A, B, y) => x <= y
      /\ j <= UpTo(A, B, Sorted(A, B)[j])
  BY <1>1, SortedItem
<1>4. x \in Nat /\ Sorted(A, B)[j] \in Nat /\ x <= Sorted(A, B)[j]
  <2>1. i \in Nat /\ j \in Nat
    BY SortedIsSeq
  <2>3. UpTo(A, B, Sorted(A, B)[j]) \in Nat
    BY <1>2, <1>3
  <2>2. i <= UpTo(A, B, Sorted(A, B)[j])
    BY <1>3, <2>1, <2>3
  <2> QED BY <1>2, <1>3, <2>2
<1>5. SUFFICES ASSUME x = Sorted(A, B)[j] PROVE x \in A \cap B
  BY <1>4
<1> HIDE DEF x
<1>6. UpTo(A, B, x) >= i + 1
  <2>1. UpTo(A, B, x) \in Nat /\ i \in Nat /\ j \in Nat
    BY <1>2, <1>3, SortedIsSeq
  <2> QED BY <1>3, <1>5, <2>1
<1>7. CASE \E y \in A \cup B : y < x
  <2> DEFINE Before == {y \in A \cup B : y < x}
  <2>1. Before \in SUBSET (A \cup B) /\ Before # {} /\ IsFiniteSet(A \cup B)
    BY <1>7, FS_Union
  <2>2. IsFiniteSet(Before) /\ Before \in SUBSET Nat
    BY <2>1, FS_Subset
  <2>3. PICK y \in Before : \A z \in Before : z <= y
    BY <2>1, <2>2, GreatestExists
  <2>4. /\ Count(A, x) <= Count(A, y) + 1 /\ Count(B, x) <= Count(B, y) + 1
        /\ x \notin A => Count(A, x) = Count(A, y)
        /\ x \notin B => Count(B, x) = Count(B, y)
    BY <1>3, <2>3, CountStep
  <2>5. y \in A \cup B /\ y < x /\ UpTo(A, B, y) < i
    BY <1>1, <1>2, <1>3, <2>3
  <2>6. /\ Count(A, x) \in Nat /\ Count(B, x) \in Nat
        /\ Count(A, y) \in Nat /\ Count(B, y) \in Nat
    BY <1>2, <1>3, <2>5, UpToTyped
  <2> QED BY <1>1, <1>6, <2>4, <2>5, <2>6, UpToIsCount
<1>8. CASE \A y \in A \cup B : ~(y < x)
  <2>1. \A y \in A \cup B : x <= y
    BY <1>3, <1>8
  <2>2. /\ Count(A, x) <= 1 /\ Count(B, x) <= 1
        /\ Count(A, x) \in Nat /\ Count(B, x) \in Nat
        /\ x \notin A => Count(A, x) = 0
        /\ x \notin B => Count(B, x) = 0
    BY <1>3, <2>1, CountFirst
  <2> QED BY <1>1, <1>6, <2>2, UpToIsCount
<1> QED BY <1>7, <1>8

\* Its first items are no later than those of either list.
LEMMA SortedIsTight ==
  ASSUME NEW A \in SUBSET Nat, NEW B \in SUBSET Nat, IsFiniteSet(A), IsFiniteSet(B),
         NEW S, S = A \/ S = B, NEW i \in 1 .. Cardinality(S)
  PROVE  \E y \in S : Sorted(A, B)[i] <= y
<1>1. /\ Cardinality(A) \in Nat /\ Cardinality(B) \in Nat
      /\ S \in SUBSET Nat /\ IsFiniteSet(S)
  BY FS_CardinalityType
<1>2. S # {}
  BY <1>1, FS_EmptySet
<1>3. PICK y \in S : \A z \in S : z <= y
  BY <1>1, <1>2, GreatestExists
<1>4. Count(S, y) = Cardinality(S)
  BY <1>1, <1>3, CountGrows
<1>5. Count(A, y) \in Nat /\ Count(B, y) \in Nat
  BY <1>1, <1>3, CountGrows
<1>6. i <= UpTo(A, B, y) /\ i \in 1 .. Cardinality(A) + Cardinality(B)
  BY <1>1, <1>4, <1>5, UpToIsCount
<1> QED BY <1>3, <1>6, SortedItem
-----------------------------------------------------------------------------
(* First *)

\* What a query leaves out comes after all of the n items it returns.
LEMMA FirstIsFirst ==
  ASSUME NEW S \in SUBSET Nat, IsFiniteSet(S), NEW n \in Nat
  PROVE  /\ First(n, S) \in SUBSET S
         /\ IsFiniteSet(First(n, S))
         /\ \A x \in S \ First(n, S) :
              n <= Cardinality(First(n, S)) /\ \A y \in First(n, S) : y < x
<1> DEFINE Before(x) == {y \in S : y < x}
           F == First(n, S)
<1>1. F \in SUBSET S /\ \A x \in S : x \in F <=> Cardinality(Before(x)) < n
  BY DEF First
<1> HIDE DEF F
<1>2. IsFiniteSet(F) /\ Cardinality(F) \in Nat
  BY <1>1, FS_Subset, FS_CardinalityType
<1>3. \A x \in S : Before(x) \in SUBSET S /\ IsFiniteSet(Before(x)) /\ Cardinality(Before(x)) \in Nat
  <2> SUFFICES ASSUME NEW x \in S
               PROVE  /\ Before(x) \in SUBSET S
                      /\ IsFiniteSet(Before(x)) /\ Cardinality(Before(x)) \in Nat
    OBVIOUS
  <2>1. Before(x) \in SUBSET S
    OBVIOUS
  <2> QED BY <2>1, FS_Subset, FS_CardinalityType
<1>4. ASSUME NEW x \in S \ F, NEW y \in F PROVE y < x
  <2>1. SUFFICES ASSUME x < y PROVE FALSE
    BY <1>1, <1>4
  <2>2. Before(x) \in SUBSET Before(y)
    <3>1. ASSUME NEW e \in Before(x) PROVE e \in Before(y)
      BY <1>1, <2>1, <3>1
    <3> QED BY <3>1
  <2>3. Cardinality(Before(x)) <= Cardinality(Before(y))
    BY <1>1, <1>3, <2>2, FS_Subset
  <2>4. Cardinality(Before(y)) < n /\ ~(Cardinality(Before(x)) < n)
    BY <1>1
  <2>5. Cardinality(Before(x)) \in Nat /\ Cardinality(Before(y)) \in Nat
    BY <1>1, <1>3
  <2> HIDE DEF Before
  <2> QED BY <2>3, <2>4, <2>5
<1>5. ASSUME S \ F # {} PROVE n <= Cardinality(F)
  <2>1. S \ F \in SUBSET Nat
    OBVIOUS
  <2>2. PICK x \in S \ F : \A y \in S \ F : x <= y
    BY <1>5, <2>1, LeastExists
  <2>3. Before(x) \in SUBSET F
    <3>1. ASSUME NEW e \in Before(x) PROVE e \in F
      BY <2>2, <3>1
    <3> QED BY <3>1
  <2>4. Cardinality(Before(x)) <= Cardinality(F)
    BY <1>2, <2>3, FS_Subset
  <2>5. ~(Cardinality(Before(x)) < n) /\ Cardinality(Before(x)) \in Nat
    BY <1>1, <1>3
  <2> HIDE DEF Before
  <2> QED BY <1>2, <2>4, <2>5
<1> QED BY <1>1, <1>2, <1>4, <1>5 DEF F

\* A query that may return as many items as there are returns them all.
LEMMA FewAreAll ==
  ASSUME NEW S \in SUBSET Nat, IsFiniteSet(S), NEW n \in Nat, Cardinality(S) <= n
  PROVE  First(n, S) = S
<1> DEFINE F == First(n, S)
<1>1. F \in SUBSET S /\ IsFiniteSet(F) /\ (\A x \in S \ F : n <= Cardinality(F))
  BY FirstIsFirst
<1> HIDE DEF F
<1>2. /\ Cardinality(F) \in Nat /\ Cardinality(S) \in Nat /\ Cardinality(F) <= Cardinality(S)
      /\ Cardinality(F) = Cardinality(S) => F = S
  BY <1>1, FS_Subset, FS_CardinalityType
<1>3. CASE F # S
  <2>1. n <= Cardinality(F)
    BY <1>1, <1>3
  <2> QED BY <1>2, <1>3, <2>1
<1> QED BY <1>3 DEF F

-----------------------------------------------------------------------------
(* Pages *)

\* A list cut to n items is its first n.
LEMMA CutIsPrefix ==
  ASSUME NEW T, NEW seq \in Seq(T), NEW n \in Nat
  PROVE  /\ Cut(seq, n) \in Seq(T)
         /\ Len(Cut(seq, n)) = IF Len(seq) < n THEN Len(seq) ELSE n
         /\ \A i \in 1 .. Len(Cut(seq, n)) : i \in 1 .. Len(seq) /\ Cut(seq, n)[i] = seq[i]
<1> DEFINE m == IF Len(seq) < n THEN Len(seq) ELSE n
<1>1. Len(seq) \in Nat /\ m \in Nat /\ m <= Len(seq)
  BY LenProperties
<1>2. \A i \in 1 .. m : seq[i] \in T
  BY <1>1, ElementOfSeq
<1>3. Cut(seq, n) = SubSeq(seq, 1, m)
  BY DEF Cut
<1> HIDE DEF m
<1>4. /\ SubSeq(seq, 1, m) \in Seq(T)
      /\ Len(SubSeq(seq, 1, m)) = IF 1 <= m THEN m - 1 + 1 ELSE 0
      /\ \A i \in 1 .. m - 1 + 1 : SubSeq(seq, 1, m)[i] = seq[1 + i - 1]
  BY <1>1, <1>2, SubSeqProperties
<1>5. Len(Cut(seq, n)) = m /\ \A i \in 1 .. m : Cut(seq, n)[i] = seq[i]
  BY <1>1, <1>3, <1>4
<1> QED BY <1>1, <1>3, <1>4, <1>5 DEF m

\* What two queries return, in order, cut to n items.
PageOf(page, A, B, n) ==
  /\ page \in Seq(A \cup B)
  /\ Len(page) <= n
  /\ \A i, j \in 1 .. Len(page) : i < j =>
       page[i] < page[j] \/ (page[i] = page[j] /\ page[i] \in A \cap B)
  \* what is left out comes after a full page
  /\ \A x \in A \cup B : x \notin Range(page) =>
       Len(page) = n /\ \A i \in 1 .. n : page[i] < x
  \* a query that returned n items has made the page full and passed its last item
  /\ \A S \in {A, B} : n <= Cardinality(S) =>
       Len(page) = n /\ \E y \in S : \A i \in 1 .. n : page[i] <= y

\* A page with room for all that two queries without a common item return has all
\* of it.
LEMMA RoomyPage ==
  ASSUME NEW A \in SUBSET Nat, NEW B \in SUBSET Nat, IsFiniteSet(A), IsFiniteSet(B),
         A \cap B = {}, NEW n \in Nat \ {0}, Cardinality(A \cup B) <= n,
         NEW page, PageOf(page, A, B, n)
  PROVE  Range(page) = A \cup B
<1>1. Range(page) \subseteq A \cup B
  BY RangeOfSeq DEF PageOf
<1>2. SUFFICES ASSUME NEW x \in A \cup B, x \notin Range(page) PROVE FALSE
  BY <1>1
<1>3. /\ Len(page) = n /\ \A i \in 1 .. n : page[i] < x
      /\ \A i, j \in 1 .. n : i < j => page[i] < page[j]
      /\ \A i \in 1 .. n : page[i] \in A \cup B
  BY <1>2, ElementOfSeq DEF PageOf
<1> DEFINE f == [i \in 1 .. n + 1 |-> IF i <= n THEN page[i] ELSE x]
<1>4. \A i, j \in 1 .. n + 1 : i < j => f[i] < f[j]
  <2> SUFFICES ASSUME NEW i \in 1 .. n + 1, NEW j \in 1 .. n + 1, i < j PROVE f[i] < f[j]
    OBVIOUS
  <2>1. i \in 1 .. n /\ f[i] = page[i]
    OBVIOUS
  <2>2. CASE j <= n
    <3>1. j \in 1 .. n /\ f[j] = page[j]
      BY <2>2
    <3> QED BY <1>3, <2>1, <3>1
  <2>3. CASE j = n + 1
    <3>1. f[j] = x
      BY <2>3
    <3> QED BY <1>3, <2>1, <3>1
  <2> QED BY <2>2, <2>3
<1>5. \A i \in 1 .. n + 1 : f[i] \in A \cup B /\ f[i] \in Nat
  <2> SUFFICES ASSUME NEW i \in 1 .. n + 1 PROVE f[i] \in A \cup B
    OBVIOUS
  <2> QED BY <1>3
<1>6. f \in Injection(1 .. n + 1, A \cup B)
  <2>1. f \in [1 .. n + 1 -> A \cup B]
    BY <1>5
  <2>2. ASSUME NEW i \in 1 .. n + 1, NEW j \in 1 .. n + 1, f[i] = f[j] PROVE i = j
    <3>1. f[i] \in Nat /\ f[j] \in Nat
      BY <1>5
    <3>2. ~(i < j) /\ ~(j < i)
      BY <1>4, <2>2, <3>1
    <3> QED BY <3>2
  <2> HIDE DEF f
  <2> QED BY <2>1, <2>2 DEF Injection, IsInjective
<1>7. IsFiniteSet(A \cup B) /\ Cardinality(A \cup B) \in Nat
  BY FS_Union, FS_CardinalityType
<1>8. Cardinality(1 .. n + 1) <= Cardinality(A \cup B)
  BY <1>6, <1>7, FS_Injection
<1>9. Cardinality(1 .. n + 1) = n + 1
  BY FS_Interval
<1> QED BY <1>7, <1>8, <1>9

LEMMA SortedRange ==
  ASSUME NEW A \in SUBSET Nat, NEW B \in SUBSET Nat, IsFiniteSet(A), IsFiniteSet(B)
  PROVE  Range(Sorted(A, B)) = A \cup B
<1>1. Range(Sorted(A, B)) = {Sorted(A, B)[i] : i \in 1 .. Len(Sorted(A, B))}
  BY SortedIsSeq DEF Range
<1>2. \A i \in 1 .. Len(Sorted(A, B)) : Sorted(A, B)[i] \in A \cup B
  BY SortedIsSeq, ElementOfSeq
<1>3. \A x \in A \cup B : \E i \in 1 .. Len(Sorted(A, B)) : Sorted(A, B)[i] = x
  BY SortedHasAll
<1> QED BY <1>1, <1>2, <1>3

LEMMA CutSortedIsPage ==
  ASSUME NEW A \in SUBSET Nat, NEW B \in SUBSET Nat, IsFiniteSet(A), IsFiniteSet(B),
         NEW n \in Nat \ {0}
  PROVE  PageOf(Cut(Sorted(A, B), n), A, B, n)
<1> DEFINE s == Sorted(A, B)
           p == Cut(s, n)
<1>1. /\ s \in Seq(A \cup B) /\ Len(s) \in Nat /\ Len(s) = Cardinality(A) + Cardinality(B)
      /\ Cardinality(A) \in Nat /\ Cardinality(B) \in Nat
  BY SortedIsSeq, FS_CardinalityType
<1>2. /\ p \in Seq(A \cup B)
      /\ Len(p) = IF Len(s) < n THEN Len(s) ELSE n
      /\ \A i \in 1 .. Len(p) : i \in 1 .. Len(s) /\ p[i] = s[i]
  BY <1>1, CutIsPrefix
<1>3. \A i, j \in 1 .. Len(s) : i < j => s[i] < s[j] \/ (s[i] = s[j] /\ s[i] \in A \cap B)
  BY SortedAscends
<1>4. \A i \in 1 .. Len(s) : s[i] \in Nat
  BY <1>1, ElementOfSeq
<1> HIDE DEF s, p
<1>5. Len(p) \in Nat /\ Len(p) <= n /\ DOMAIN p = 1 .. Len(p)
  BY <1>1, <1>2, LenProperties
<1>6. ASSUME NEW i \in 1 .. Len(p), NEW j \in 1 .. Len(p), i < j
      PROVE  p[i] < p[j] \/ (p[i] = p[j] /\ p[i] \in A \cap B)
  BY <1>2, <1>3, <1>6
<1>7. ASSUME NEW x \in A \cup B, x \notin Range(p)
      PROVE  Len(p) = n /\ \A i \in 1 .. n : p[i] < x
  <2>1. PICK j \in 1 .. Len(s) : s[j] = x
    BY SortedHasAll DEF s
  <2>2. ~(j <= Len(p))
    BY <1>1, <1>2, <1>5, <1>7, <2>1 DEF Range
  <2>3. Len(p) = n
    BY <1>1, <1>2, <2>1, <2>2
  <2>4. ASSUME NEW i \in 1 .. n PROVE p[i] < x
    <3>1. p[i] = s[i] /\ i < j /\ i \in 1 .. Len(s) /\ p[i] # x
      BY <1>1, <1>2, <1>5, <1>7, <2>2, <2>3 DEF Range
    <3> QED BY <1>3, <2>1, <3>1
  <2> QED BY <2>3, <2>4
<1>8. ASSUME NEW S \in {A, B}, n <= Cardinality(S)
      PROVE  Len(p) = n /\ \E y \in S : \A i \in 1 .. n : p[i] <= y
  <2>1. Len(p) = n
    BY <1>1, <1>2, <1>8
  <2>2. n \in 1 .. Cardinality(S)
    BY <1>1, <1>8
  <2>3. PICK y \in S : s[n] <= y
    BY <2>2, SortedIsTight DEF s
  <2>4. ASSUME NEW i \in 1 .. n PROVE p[i] <= y
    <3>1. p[i] = s[i] /\ i \in 1 .. Len(s) /\ n \in 1 .. Len(s)
      BY <1>2, <1>5, <2>1
    <3>2. s[i] <= s[n] /\ s[i] \in Nat /\ s[n] \in Nat
      BY <1>3, <1>4, <3>1
    <3> QED BY <2>3, <3>1, <3>2
  <2> QED BY <2>1, <2>4
<1> QED BY <1>2, <1>5, <1>6, <1>7, <1>8 DEF PageOf, s, p
=============================================================================
