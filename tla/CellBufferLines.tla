---------------------------- MODULE CellBufferLines ----------------------------
(***************************************************************************)
(* The line starts of CellBuffer are those of its text, for texts of any   *)
(* length and however many edits, undos and loads: in CellBuffer.cxx they  *)
(* are never computed from the whole text but patched at each insertion    *)
(* and deletion, which may split a CR LF or join a CR to an LF.            *)
(*                                                                         *)
(* The argument is about a Partitioning that Covers a set of starts: the   *)
(* operations of Partitioning add, move and remove starts, and the lemmas  *)
(* follow BasicInsertString and BasicDeleteChars through them.             *)
(***************************************************************************)
EXTENDS CellBufferProofs, FiniteSetTheorems

-----------------------------------------------------------------------------
(* Finite sets of numbers in order. *)

\* An ascending enumeration of a set counts its elements.
LEMMA AscendingCounts ==
    ASSUME NEW S, NEW n \in Nat, NEW f \in [1..n -> S],
           \A i \in 1..n : f[i] \in Int,
           \A i, j \in 1..n : i < j => f[i] < f[j],
           \A k \in S : \E i \in 1..n : f[i] = k
    PROVE  IsFiniteSet(S) /\ Cardinality(S) = n
  <1>1. \A i, j \in 1..n : f[i] = f[j] => i = j
    <2> SUFFICES ASSUME NEW i \in 1..n, NEW j \in 1..n, i < j, f[i] = f[j]
                 PROVE  FALSE
      OBVIOUS
    <2>1. f[i] < f[j]
      OBVIOUS
    <2> QED
      BY <2>1
  <1>2. f \in Bijection(1..n, S)
    BY <1>1 DEF Bijection, Injection, Surjection, IsInjective
  <1>3. ExistsBijection(1..n, S)
    BY <1>2 DEF ExistsBijection
  <1>4. Cardinality(S) = n
    BY <1>3, FS_CountingElements
  <1>5. IsFiniteSet(S)
    BY <1>3, FS_NatBijection
  <1> QED
    BY <1>4, <1>5

\* A set of numbers up to n can be enumerated in ascending order.
LEMMA AscendingExists ==
    ASSUME NEW n \in Nat, NEW S \in SUBSET (1..n)
    PROVE  \E m \in Nat : \E f \in [1..m -> S] :
             /\ \A i, j \in 1..m : i < j => f[i] < f[j]
             /\ \A k \in S : \E i \in 1..m : f[i] = k
  <1> DEFINE Has(x, T) == \E m \in Nat : \E f \in [1..m -> T] :
                            /\ \A i, j \in 1..m : i < j => f[i] < f[j]
                            /\ \A k \in T : \E i \in 1..m : f[i] = k
             Wrong == {x \in Nat : \E T \in SUBSET (1..x) : ~Has(x, T)}
  <1>1. ASSUME Wrong # {}
        PROVE  FALSE
    <2>1. PICK x \in Wrong : \A y \in Wrong : x <= y
      <3>1. Wrong \subseteq Nat
        OBVIOUS
      <3> HIDE DEF Wrong
      <3> QED
        BY <1>1, <3>1, LeastExists
    <2>2. PICK T \in SUBSET (1..x) : ~Has(x, T)
      OBVIOUS
    <2>3. CASE x = 0
      <3>1. T = {} /\ 0 \in Nat
        BY <2>3
      <3>2. \A i \in 1..0 : FALSE
        OBVIOUS
      <3> DEFINE f == [i \in 1..0 |-> i]
      <3>3. f \in [1..0 -> T]
        BY <3>2
      <3> HIDE DEF f
      <3>4. Has(x, T)
        BY <3>1, <3>2, <3>3
      <3> QED
        BY <2>2, <3>4
    <2>4. CASE x > 0
      <3> DEFINE U == T \ {x}
      <3>1. x - 1 \in Nat /\ U \in SUBSET (1..(x - 1)) /\ ~(x <= x - 1) /\ x \in Nat
        BY <2>4
      <3>2. x - 1 \notin Wrong
        BY <2>1, <3>1
      <3>3. Has(x - 1, U)
        <4> HIDE DEF Has, U
        <4> QED
          BY <3>1, <3>2
      <3>4. CASE x \notin T
        <4>1. U = T
          BY <3>4
        <4> QED
          BY <2>2, <3>3, <4>1
      <3>5. CASE x \in T
        <4>1. PICK m \in Nat : \E f \in [1..m -> U] :
                /\ \A i, j \in 1..m : i < j => f[i] < f[j]
                /\ \A k \in U : \E i \in 1..m : f[i] = k
          BY <3>3
        <4>2. PICK f \in [1..m -> U] :
                /\ \A i, j \in 1..m : i < j => f[i] < f[j]
                /\ \A k \in U : \E i \in 1..m : f[i] = k
          BY <4>1
        <4> DEFINE g == [i \in 1..(m + 1) |-> IF i = m + 1 THEN x ELSE f[i]]
        <4>3. \A i \in 1..(m + 1) : i # m + 1 => i \in 1..m
          OBVIOUS
        <4>4. g \in [1..(m + 1) -> T]
          BY <3>5, <4>3
        <4>5. ASSUME NEW i \in 1..(m + 1), NEW j \in 1..(m + 1), i < j
              PROVE  g[i] < g[j]
          <5>1. i \in 1..m /\ g[i] = f[i] /\ f[i] \in U
            BY <4>3, <4>5
          <5>2. CASE j = m + 1
            <6>1. f[i] \in 1..(x - 1)
              BY <3>1, <5>1
            <6>2. g[j] = x
              BY <5>2
            <6> HIDE DEF g, U
            <6> QED
              BY <3>1, <5>1, <6>1, <6>2
          <5>3. CASE j # m + 1
            BY <4>2, <4>3, <4>5, <5>1, <5>3
          <5> QED
            BY <5>2, <5>3
        <4>6. ASSUME NEW k \in T
              PROVE  \E i \in 1..(m + 1) : g[i] = k
          <5>1. CASE k = x
            <6>1. m + 1 \in 1..(m + 1) /\ g[m + 1] = x
              OBVIOUS
            <6> QED
              BY <5>1, <6>1
          <5>2. CASE k # x
            <6>1. PICK i \in 1..m : f[i] = k
              BY <4>2, <5>2
            <6>2. i \in 1..(m + 1) /\ i # m + 1
              OBVIOUS
            <6> QED
              BY <6>1, <6>2
          <5> QED
            BY <5>1, <5>2
        <4> HIDE DEF g
        <4>7. m + 1 \in Nat
          OBVIOUS
        <4>8. Has(x, T)
          BY <4>4, <4>5, <4>6, <4>7
        <4> QED
          BY <2>2, <4>8
      <3> QED
        BY <3>4, <3>5
    <2> QED
      BY <2>3, <2>4
  <1>2. n \notin Wrong
    BY <1>1
  <1> QED
    BY <1>2

\* SortedAscending enumerates a finite set in ascending order.
LEMMA Sorted ==
    ASSUME NEW n \in Nat, NEW S \in SUBSET (1..n)
    PROVE  /\ Cardinality(S) \in Nat
           /\ SortedAscending(S) \in Seq(S)
           /\ Len(SortedAscending(S)) = Cardinality(S)
           /\ \A i \in 1..Cardinality(S) : SortedAscending(S)[i] \in S
           /\ \A i, j \in 1..Cardinality(S) :
                i < j => SortedAscending(S)[i] < SortedAscending(S)[j]
           /\ \A k \in S : \E i \in 1..Cardinality(S) : SortedAscending(S)[i] = k
  <1> DEFINE m == Cardinality(S)
             Ascending(f) == \A i, j \in 1..m : i < j => f[i] < f[j]
             f == SortedAscending(S)
  <1>0. \A k \in S : k \in Int
    OBVIOUS
  <1>1. m \in Nat /\ IsFiniteSet(S) /\ \E g \in [1..m -> S] : Ascending(g)
    <2>1. PICK l \in Nat : \E g \in [1..l -> S] :
            /\ \A i, j \in 1..l : i < j => g[i] < g[j]
            /\ \A k \in S : \E i \in 1..l : g[i] = k
      BY AscendingExists
    <2>2. PICK g \in [1..l -> S] :
            /\ \A i, j \in 1..l : i < j => g[i] < g[j]
            /\ \A k \in S : \E i \in 1..l : g[i] = k
      BY <2>1
    <2>3. \A i \in 1..l : g[i] \in Int
      BY <1>0, <2>2
    <2>4. IsFiniteSet(S) /\ m = l
      BY <2>2, <2>3, AscendingCounts
    <2> HIDE DEF m
    <2> QED
      BY <2>2, <2>4
  <1>2. f = CHOOSE g \in [1..m -> S] : Ascending(g)
    BY DEF SortedAscending
  <1> HIDE DEF f, Ascending
  <1>3. f \in [1..m -> S] /\ Ascending(f)
    BY <1>1, <1>2, Zenon
  <1>4. \A i \in 1..m : f[i] \in S /\ f[i] \in Int
    BY <1>0, <1>3
  <1>5. \A i, j \in 1..m : i < j => f[i] < f[j]
    BY <1>3 DEF Ascending
  <1>6. f \in Seq(S) /\ Len(f) = m
    <2>1. f \in Seq(S)
      BY <1>1, <1>3, SeqDef
    <2>2. Len(f) \in Nat /\ 1..Len(f) = 1..m
      BY <1>3, <2>1, LenProperties
    <2> HIDE DEF m
    <2> QED
      BY <1>1, <2>1, <2>2
  <1>7. \A k \in S : \E i \in 1..m : f[i] = k
    <2>1. \A i, j \in 1..m : f[i] = f[j] => i = j
      <3> SUFFICES ASSUME NEW i \in 1..m, NEW j \in 1..m, i < j, f[i] = f[j]
                   PROVE  FALSE
        BY <1>1
      <3>1. f[i] < f[j]
        BY <1>5
      <3> QED
        BY <1>4, <3>1
    <2> HIDE DEF m
    <2>2. f \in Injection(1..m, S)
      BY <1>3, <2>1 DEF Injection, IsInjective
    <2>3. Cardinality(1..m) = m
      <3>1. 1 \in Int /\ m \in Int /\ m - 1 + 1 = m
        BY <1>1
      <3> QED
        BY <1>1, <3>1, FS_Interval
    <2>4. f \in Surjection(1..m, S)
      BY <1>1, <2>2, <2>3, FS_Injection DEF m
    <2> QED
      BY <2>4 DEF Surjection
  <1> HIDE DEF m
  <1> QED
    BY <1>1, <1>4, <1>5, <1>6, <1>7 DEF f, m

-----------------------------------------------------------------------------
(* Removing partitions. *)

\* What removing partitions one by one does, in one.
LEMMA RemovePartitionsRemoves ==
    ASSUME NEW P, WellFormed(P), NEW q \in Nat, q > 0, NEW g \in Nat, q + g <= P.last,
           P.stepPartition <= q
    PROVE  LET R == RemovePartitions(P, q, g)
           IN  /\ WellFormed(R)
               /\ R.last = P.last - g
               /\ R.stepPartition <= q
               /\ \A i \in 0..R.last : At(R, i) = IF i < q THEN At(P, i) ELSE At(P, i + g)
  <1> DEFINE Removed(f, n) == IF n = 0 THEN P ELSE RemovePartition(f[n - 1], q)
             Step(f, m) == [n \in 0..m |-> Removed(f, n)]
             removed == CHOOSE f : f = Step(f, g)
             Right(R, n) ==
               /\ WellFormed(R)
               /\ R.last = P.last - n
               /\ R.stepPartition <= q
               /\ \A i \in 0..R.last : At(R, i) = IF i < q THEN At(P, i) ELSE At(P, i + n)
  <1>0. P.last \in Nat /\ \A i \in 0..P.last : At(P, i) \in Int
    BY Positions
  <1>1. RemovePartitions(P, q, g) = removed[g]
    BY DEF RemovePartitions
  <1>2. \A m \in Nat : \E f : f = Step(f, m)
    <2> DEFINE Wrong == {m \in Nat : ~\E f : f = Step(f, m)}
    <2>1. ASSUME Wrong # {}
          PROVE  FALSE
      <3>1. PICK m \in Wrong : \A n \in Wrong : m <= n
        <4>1. Wrong \subseteq Nat
          OBVIOUS
        <4> HIDE DEF Wrong
        <4> QED
          BY <2>1, <4>1, LeastExists
      <3>2. m \in Nat /\ \A f : f # Step(f, m)
        OBVIOUS
      <3>3. CASE m = 0
        <4> DEFINE f == [n \in 0..0 |-> P]
        <4>1. f = Step(f, m)
          BY <3>3
        <4> QED
          BY <3>2, <4>1
      <3>4. CASE m > 0
        <4>1. m - 1 \in Nat /\ ~(m <= m - 1)
          BY <3>2, <3>4
        <4>2. m - 1 \notin Wrong
          BY <3>1, <4>1
        <4>3. PICK f : f = Step(f, m - 1)
          BY <4>1, <4>2
        <4> DEFINE h == [n \in 0..m |-> Removed(f, n)]
        <4>4. ASSUME NEW n \in 0..m
              PROVE  Removed(h, n) = Removed(f, n)
          <5>1. CASE n = 0
            BY <5>1
          <5>2. CASE n # 0
            <6>1. n - 1 \in 0..(m - 1) /\ n - 1 \in 0..m
              BY <3>2, <5>2
            <6>2. h[n - 1] = Removed(f, n - 1)
              BY <6>1
            <6>3. f[n - 1] = Removed(f, n - 1)
              <7> HIDE DEF Removed, h
              <7> QED
                BY <4>3, <6>1
            <6> HIDE DEF h
            <6> QED
              BY <5>2, <6>2, <6>3
          <5> QED
            BY <5>1, <5>2
        <4>5. h = Step(h, m)
          <5> HIDE DEF Removed
          <5>1. h = [n \in 0..m |-> Removed(f, n)]
            OBVIOUS
          <5> HIDE DEF h
          <5> QED
            BY <4>4, <5>1
        <4> QED
          BY <3>2, <4>5
      <3> QED
        BY <3>2, <3>3, <3>4
    <2> QED
      BY <2>1
  <1>3. removed = Step(removed, g)
    <2>1. \E f : f = Step(f, g)
      BY <1>2
    <2> HIDE DEF Step
    <2> QED
      BY <2>1, Zenon
  <1> HIDE DEF removed
  <1>4. \A n \in 0..g : removed[n] = IF n = 0 THEN P ELSE RemovePartition(removed[n - 1], q)
    BY <1>3
  <1> HIDE DEF Step, Removed
  <1> DEFINE Wrong == {n \in 0..g : ~Right(removed[n], n)}
  <1>5. ASSUME Wrong # {}
        PROVE  FALSE
    <2>1. PICK n \in Wrong : \A m \in Wrong : n <= m
      <3>1. Wrong \subseteq Nat
        OBVIOUS
      <3> HIDE DEF Wrong
      <3> QED
        BY <1>5, <3>1, LeastExists
    <2>2. n \in 0..g /\ ~Right(removed[n], n)
      OBVIOUS
    <2>3. CASE n = 0
      <3>1. removed[n] = P
        BY <1>4, <2>3
      <3>2. \A i \in 0..P.last : i + 0 = i
        BY <1>0
      <3>3. Right(P, 0)
        BY <1>0, <3>2
      <3> QED
        BY <2>2, <2>3, <3>1, <3>3
    <2>4. CASE n > 0
      <3> DEFINE Q == removed[n - 1]
                 R == RemovePartition(Q, q)
      <3>1. n - 1 \in 0..g /\ ~(n <= n - 1)
        BY <2>2, <2>4
      <3>2. Right(Q, n - 1)
        <4>1. n - 1 \notin Wrong
          BY <2>1, <3>1
        <4> HIDE DEF Right
        <4> QED
          BY <3>1, <4>1
      <3>3. removed[n] = R
        BY <1>4, <2>2, <2>4
      <3> HIDE DEF Q
      <3>4. /\ WellFormed(Q) /\ Q.last = P.last - (n - 1) /\ Q.stepPartition <= q
            /\ \A i \in 0..Q.last : At(Q, i) = IF i < q THEN At(P, i) ELSE At(P, i + (n - 1))
        BY <3>2
      <3>5. q \in 1..(Q.last - 1) /\ Q.stepPartition <= q + 1
        <4>1. Q.stepPartition \in Nat
          BY <3>4 DEF WellFormed
        <4> QED
          BY <1>0, <2>2, <3>4, <4>1
      <3>6. /\ WellFormed(R) /\ R.last = Q.last - 1
            /\ \A i \in 0..R.last : At(R, i) = IF i < q THEN At(Q, i) ELSE At(Q, i + 1)
        BY <3>4, <3>5, RemovePartitionRemoves
      <3>7. R.stepPartition <= q
        BY <3>4, <3>5, RemovePartitionStep
      <3> HIDE DEF R
      <3>8. R.last = P.last - n
        BY <1>0, <2>2, <3>4, <3>6
      <3>9. ASSUME NEW i \in 0..R.last
            PROVE  At(R, i) = IF i < q THEN At(P, i) ELSE At(P, i + n)
        <4>1. i \in 0..Q.last /\ i + 1 \in 0..Q.last /\ i + 1 + (n - 1) = i + n
          BY <1>0, <2>2, <3>4, <3>6
        <4>2. CASE i < q
          BY <3>4, <3>6, <4>1, <4>2
        <4>3. CASE ~(i < q)
          <5>1. ~(i + 1 < q)
            BY <4>3
          <5>2. At(R, i) = At(Q, i + 1)
            BY <3>6, <4>3
          <5>3. At(Q, i + 1) = At(P, i + 1 + (n - 1))
            BY <3>4, <4>1, <5>1
          <5> QED
            BY <4>1, <4>3, <5>2, <5>3
        <4> QED
          BY <4>2, <4>3
      <3> QED
        BY <2>2, <3>3, <3>6, <3>7, <3>8, <3>9
    <2> QED
      BY <2>2, <2>3, <2>4
  <1>6. Right(removed[g], g)
    <2>1. g \in 0..g /\ g \notin Wrong
      BY <1>5
    <2> HIDE DEF Right
    <2> QED
      BY <2>1
  <1> QED
    BY <1>1, <1>6

\* The starts from partition q on, up to x, are those of the next g partitions.
LEMMA StartsUpTo ==
    ASSUME NEW P, NEW S, NEW length, Covers(P, S, length),
           NEW q \in 0..P.last, NEW x \in Int
    PROVE  \E g \in Nat : /\ q + g <= P.last
                          /\ \A i \in q..(q + g - 1) : At(P, i) <= x
                          /\ \A i \in (q + g)..(P.last - 1) : x < At(P, i)
  <1>0. /\ P.last \in Nat /\ P.last > 0
        /\ \A i \in 0..P.last : At(P, i) \in Int
        /\ \A i, j \in 0..(P.last - 1) : i < j => At(P, i) < At(P, j)
    BY Positions DEF Covers
  <1> DEFINE T == {e \in q..P.last : e = P.last \/ x < At(P, e)}
  <1>1. P.last \in T /\ T \subseteq Nat
    BY <1>0
  <1>2. PICK e \in T : \A d \in T : e <= d
    <2> HIDE DEF T
    <2> QED
      BY <1>1, LeastExists
  <1>3. e - q \in Nat /\ q + (e - q) = e /\ e <= P.last
    BY <1>0, <1>1
  <1>4. ASSUME NEW i \in q..(e - 1)
        PROVE  At(P, i) <= x
    <2>1. i \in q..P.last /\ i \in 0..P.last /\ ~(e <= i) /\ i # P.last
      BY <1>0, <1>3
    <2>2. i \notin T
      BY <1>2, <2>1
    <2> QED
      BY <1>0, <2>1, <2>2
  <1>5. ASSUME NEW i \in e..(P.last - 1)
        PROVE  x < At(P, i)
    <2>1. e # P.last /\ e \in 0..(P.last - 1) /\ i \in 0..(P.last - 1) /\ x < At(P, e)
      BY <1>0, <1>3
    <2>2. e = i \/ At(P, e) < At(P, i)
      BY <1>0, <2>1
    <2> QED
      BY <1>0, <2>1, <2>2
  <1> HIDE DEF T
  <1>6. \A i \in q..(q + (e - q) - 1) : At(P, i) <= x
    BY <1>3, <1>4
  <1>7. \A i \in (q + (e - q))..(P.last - 1) : x < At(P, i)
    BY <1>3, <1>5
  <1> QED
    BY <1>3, <1>6, <1>7

\* There are as many starts in a stretch of the text as partitions in a row.
LEMMA StartsCounted ==
    ASSUME NEW P, NEW S, NEW length, Covers(P, S, length),
           NEW q \in 0..P.last, NEW g \in Nat, q + g <= P.last,
           NEW G, \A k : k \in G <=> k \in S /\ \E i \in q..(q + g - 1) : At(P, i) = k
    PROVE  IsFiniteSet(G) /\ Cardinality(G) = g
  <1>0. /\ P.last \in Nat /\ P.last > 0
        /\ \A i \in 0..P.last : At(P, i) \in Int
        /\ \A i, j \in 0..(P.last - 1) : i < j => At(P, i) < At(P, j)
        /\ \A i \in 0..(P.last - 1) : At(P, i) \in S
    BY Positions DEF Covers
  <1> DEFINE f == [j \in 1..g |-> At(P, q + j - 1)]
  <1>1. \A j \in 1..g : q + j - 1 \in q..(q + g - 1) /\ q + j - 1 \in 0..(P.last - 1)
                        /\ q + j - 1 \in 0..P.last
    BY <1>0
  <1>2. \A j \in 1..g : f[j] = At(P, q + j - 1)
    OBVIOUS
  <1>3. f \in [1..g -> G]
    BY <1>0, <1>1
  <1>4. \A j \in 1..g : f[j] \in Int
    BY <1>0, <1>1
  <1> HIDE DEF f
  <1>5. ASSUME NEW i \in 1..g, NEW j \in 1..g, i < j
        PROVE  f[i] < f[j]
    <2>1. q + i - 1 < q + j - 1
      BY <1>5
    <2> QED
      BY <1>0, <1>1, <1>2, <2>1
  <1>6. ASSUME NEW k \in G
        PROVE  \E j \in 1..g : f[j] = k
    <2>1. PICK i \in q..(q + g - 1) : At(P, i) = k
      OBVIOUS
    <2>2. i - q + 1 \in 1..g /\ q + (i - q + 1) - 1 = i
      OBVIOUS
    <2> QED
      BY <1>2, <2>1, <2>2
  <1> QED
    BY <1>3, <1>4, <1>5, <1>6, AscendingCounts

\* The partitions that begin after p and up to p + n are the g from q on.
Within(P, q, g, p, n) ==
    /\ q \in 1..P.last /\ g \in Nat /\ q + g <= P.last /\ p \in Int /\ n \in Nat
    /\ \A i \in 0..(q - 1) : At(P, i) <= p
    /\ \A i \in q..(q + g - 1) : p < At(P, i) /\ At(P, i) <= p + n
    /\ \A i \in (q + g)..(P.last - 1) : p + n < At(P, i)

\* R has the partitions of P without g from q on, the later ones n less.
Without(P, R, q, g, n) ==
    /\ WellFormed(R)
    /\ R.last = P.last - g
    /\ \A i \in 0..R.last : At(R, i) = IF i < q THEN At(P, i) ELSE At(P, i + g) - n

\* When the partitions of a stretch are gone and those after it are moved, the
\* starts are the ones before and, moved, the ones after.
LEMMA ShrunkCovers ==
    ASSUME NEW P, NEW S, NEW length \in Int, Covers(P, S, length),
           NEW q \in Nat, NEW g \in Nat, NEW p \in Int, NEW n \in Nat,
           Within(P, q, g, p, n),
           NEW R, Without(P, R, q, g, n)
    PROVE  Covers(R, {k \in S : k <= p} \cup {k - n : k \in {m \in S : m > p + n}}, length - n)
  <1> DEFINE T == {k \in S : k <= p} \cup {k - n : k \in {m \in S : m > p + n}}
  <1>0. /\ P.last \in Nat /\ P.last > 0 /\ R.last \in Nat /\ R.last > 0
        /\ \A i \in 0..P.last : At(P, i) \in Int
        /\ \A i, j \in 0..(P.last - 1) : i < j => At(P, i) < At(P, j)
        /\ \A i \in 0..(P.last - 1) : At(P, i) \in S
        /\ \A k \in S : \E i \in 0..(P.last - 1) : At(P, i) = k
        /\ At(P, P.last) = length
        /\ q \in 1..P.last /\ g \in Nat /\ q + g <= P.last /\ p \in Int /\ n \in Nat
        /\ \A i \in 0..(q - 1) : At(P, i) <= p
        /\ \A i \in q..(q + g - 1) : p < At(P, i) /\ At(P, i) <= p + n
        /\ \A i \in (q + g)..(P.last - 1) : p + n < At(P, i)
        /\ WellFormed(R) /\ R.last = P.last - g
        /\ \A i \in 0..R.last : At(R, i) = IF i < q THEN At(P, i) ELSE At(P, i + g) - n
    BY Positions DEF Covers, Within, Without
  <1>1. ASSUME NEW i \in 0..(R.last - 1), i < q
        PROVE  /\ i \in 0..(P.last - 1) /\ i \in 0..P.last
               /\ At(R, i) = At(P, i) /\ At(P, i) <= p /\ At(P, i) \in S /\ At(P, i) \in Int
    <2>1. i \in 0..(P.last - 1) /\ i \in 0..P.last /\ i \in 0..(q - 1) /\ i \in 0..R.last
      BY <1>0, <1>1
    <2> QED
      BY <1>0, <1>1, <2>1
  <1>2. ASSUME NEW i \in 0..(R.last - 1), ~(i < q)
        PROVE  /\ i + g \in 0..(P.last - 1)
               /\ At(R, i) = At(P, i + g) - n /\ p + n < At(P, i + g)
               /\ At(P, i + g) \in S /\ At(P, i + g) \in Int
    <2>1. i + g \in 0..(P.last - 1) /\ i + g \in 0..P.last /\ i + g \in (q + g)..(P.last - 1)
          /\ i \in 0..R.last
      BY <1>0, <1>2
    <2> QED
      BY <1>0, <1>2, <2>1
  <1>3. ASSUME NEW i \in 0..(R.last - 1)
        PROVE  At(R, i) \in T
    <2>1. CASE i < q
      BY <1>1, <2>1
    <2>2. CASE ~(i < q)
      BY <1>2, <2>2
    <2> QED
      BY <2>1, <2>2
  <1>4. ASSUME NEW k \in T
        PROVE  \E i \in 0..(R.last - 1) : At(R, i) = k
    <2>1. CASE k \in S /\ k <= p
      <3>1. PICK i \in 0..(P.last - 1) : At(P, i) = k
        BY <1>0, <2>1
      <3>2. i < q
        <4> SUFFICES ASSUME i >= q
                     PROVE  FALSE
          BY <1>0
        <4>1. p < At(P, i) /\ At(P, i) \in Int
          <5>1. CASE i \in q..(q + g - 1)
            BY <1>0, <5>1
          <5>2. CASE i \in (q + g)..(P.last - 1)
            <6>1. p + n < At(P, i) /\ At(P, i) \in Int
              BY <1>0, <5>2
            <6> QED
              BY <6>1
          <5> QED
            BY <1>0, <5>1, <5>2
        <4> QED
          BY <2>1, <3>1, <4>1
      <3>3. i \in 0..(R.last - 1)
        BY <1>0, <3>2
      <3> QED
        BY <1>1, <3>1, <3>2, <3>3
    <2>2. CASE \E m \in S : m > p + n /\ k = m - n
      <3>1. PICK m \in S : m > p + n /\ k = m - n
        BY <2>2
      <3>2. PICK i \in 0..(P.last - 1) : At(P, i) = m
        BY <1>0
      <3>3. i >= q + g
        <4>0. At(P, i) \in Int
          BY <1>0
        <4>1. i \notin 0..(q - 1)
          <5> SUFFICES ASSUME i \in 0..(q - 1)
                       PROVE  FALSE
            OBVIOUS
          <5>1. At(P, i) <= p
            BY <1>0
          <5> QED
            BY <3>1, <3>2, <4>0, <5>1
        <4>2. i \notin q..(q + g - 1)
          <5> SUFFICES ASSUME i \in q..(q + g - 1)
                       PROVE  FALSE
            OBVIOUS
          <5>1. At(P, i) <= p + n
            BY <1>0
          <5> QED
            BY <3>1, <3>2, <4>0, <5>1
        <4> QED
          BY <1>0, <4>1, <4>2
      <3>4. i - g \in 0..(R.last - 1) /\ ~(i - g < q) /\ (i - g) + g = i
        BY <1>0, <3>3
      <3>5. At(R, i - g) = At(P, (i - g) + g) - n
        BY <1>2, <3>4
      <3> QED
        BY <3>1, <3>2, <3>4, <3>5
    <2> QED
      BY <2>1, <2>2
  <1>5. ASSUME NEW i \in 0..(R.last - 1), NEW j \in 0..(R.last - 1), i < j
        PROVE  At(R, i) < At(R, j)
    <2>1. CASE j < q
      BY <1>0, <1>1, <1>5, <2>1
    <2>2. CASE i < q /\ ~(j < q)
      <3>1. At(R, i) = At(P, i) /\ At(P, i) <= p /\ At(P, i) \in Int
        BY <1>1, <2>2
      <3>2. At(R, j) = At(P, j + g) - n /\ p + n < At(P, j + g) /\ At(P, j + g) \in Int
        BY <1>2, <2>2
      <3> QED
        BY <3>1, <3>2
    <2>3. CASE ~(i < q)
      <3>1. i + g < j + g /\ ~(j < q)
        BY <1>5, <2>3
      <3>2. /\ i + g \in 0..(P.last - 1) /\ At(R, i) = At(P, i + g) - n /\ At(P, i + g) \in Int
            /\ j + g \in 0..(P.last - 1) /\ At(R, j) = At(P, j + g) - n /\ At(P, j + g) \in Int
        BY <1>2, <2>3, <3>1
      <3>3. At(P, i + g) < At(P, j + g)
        BY <1>0, <3>1, <3>2
      <3> QED
        BY <3>2, <3>3
    <2> QED
      BY <2>1, <2>2, <2>3
  <1>6. At(R, R.last) = length - n
    <2>1. R.last \in 0..R.last /\ ~(R.last < q) /\ R.last + g = P.last
      BY <1>0
    <2> QED
      BY <1>0, <2>1
  <1> HIDE DEF T
  <1> QED
    BY <1>0, <1>3, <1>4, <1>5, <1>6 DEF Covers, T

-----------------------------------------------------------------------------
(* Lines and texts. *)

\* A line of t ends before offset k.
EndsLine(t, k) ==
    /\ k \in 1..Len(t)
    /\ t[k] = LF \/ (t[k] = CR /\ (k = Len(t) \/ t[k + 1] # LF))

LineStarts(t) == {0} \cup LineEndsIn(t, 0)

\* P has the lines of t.
Lines(P, t) == Covers(P, LineStarts(t), Len(t))

\* The offsets after line ends, and the starts of lines.
LEMMA LineStartsAre ==
    ASSUME NEW t \in Str
    PROVE  /\ Len(t) \in Nat
           /\ LineStarts(t) \subseteq 0..Len(t)
           /\ \A k : k \in LineStarts(t) <=> k = 0 \/ EndsLine(t, k)
           /\ \A k, first \in Nat : k \in LineEndsIn(t, first) <=> first < k /\ EndsLine(t, k)
           /\ \A first \in Nat : LineEndsIn(t, first) \in SUBSET (1..Len(t))
  <1>1. Len(t) \in Nat
    BY LenProperties DEF Str
  <1> QED
    BY <1>1 DEF LineStarts, LineEndsIn, EndsLine

\* The characters around a position.
LEMMA ValuesAround ==
    ASSUME NEW t \in Str, NEW p \in 0..Len(t)
    PROVE  /\ ValueAt(t, p - 1) = CR <=> p > 0 /\ t[p] = CR
           /\ ValueAt(t, p) = LF <=> p < Len(t) /\ t[p + 1] = LF
  <1>1. Len(t) \in Nat /\ CR # 0 /\ LF # 0
    BY LenProperties, CellBufferAssumption DEF Str, CellBufferAssumption
  <1>2. p - 1 + 1 = p
    OBVIOUS
  <1> QED
    BY <1>1, <1>2 DEF ValueAt

\* A position is in the last line that begins at it or before.
LEMMA LineFound ==
    ASSUME NEW P, NEW t \in Str, Lines(P, t), NEW p \in 0..Len(t)
    PROVE  LET l == PartitionFromPosition(P, p)
           IN  /\ l \in 0..(P.last - 1)
               /\ At(P, l) <= p
               /\ \A j \in (l + 1)..(P.last - 1) : p < At(P, j)
               /\ \A i \in 0..l : At(P, i) <= p
               /\ At(P, 0) = 0
               /\ p \in LineStarts(t) => At(P, l) = p
  <1> DEFINE l == PartitionFromPosition(P, p)
  <1>0. /\ WellFormed(P) /\ P.last \in Nat /\ P.last > 0
        /\ \A i \in 0..P.last : At(P, i) \in Int
        /\ \A i, j \in 0..(P.last - 1) : i < j => At(P, i) < At(P, j)
        /\ \A i \in 0..(P.last - 1) : At(P, i) \in LineStarts(t)
        /\ \A k \in LineStarts(t) : \E i \in 0..(P.last - 1) : At(P, i) = k
        /\ At(P, P.last) = Len(t)
    BY Positions DEF Lines, Covers
  <1>1. Len(t) \in Nat /\ LineStarts(t) \subseteq 0..Len(t) /\ 0 \in LineStarts(t)
    BY LineStartsAre DEF LineStarts
  <1>2. \A i \in 0..(P.last - 1) : At(P, i) \in 0..Len(t)
    BY <1>0, <1>1
  <1>3. Ascends(P)
    <2> SUFFICES ASSUME NEW i \in 0..P.last, NEW j \in 0..P.last, i <= j
                 PROVE  At(P, i) <= At(P, j)
      BY DEF Ascends
    <2>1. CASE i = j
      BY <1>0, <2>1
    <2>2. CASE i < j /\ j < P.last
      <3>1. i \in 0..(P.last - 1) /\ j \in 0..(P.last - 1)
        BY <1>0, <2>2
      <3> QED
        BY <1>0, <2>2, <3>1
    <2>3. CASE i < j /\ j = P.last
      <3>1. i \in 0..(P.last - 1)
        BY <1>0, <2>3
      <3> QED
        BY <1>0, <1>2, <2>3, <3>1
    <2> QED
      BY <1>0, <2>1, <2>2, <2>3
  <1>4. At(P, 0) = 0
    <2>1. PICK i \in 0..(P.last - 1) : At(P, i) = 0
      BY <1>0, <1>1
    <2>2. 0 \in 0..(P.last - 1)
      BY <1>0
    <2>3. i = 0 \/ At(P, 0) < At(P, i)
      BY <1>0, <2>2
    <2> QED
      BY <1>2, <2>1, <2>2, <2>3
  <1>5. /\ l \in 0..(P.last - 1) /\ At(P, l) <= p
        /\ \A j \in (l + 1)..(P.last - 1) : p < At(P, j)
    <2>1. p \in Nat /\ p <= At(P, P.last)
      BY <1>0, <1>1
    <2> QED
      BY <1>0, <1>3, <1>4, <2>1, PartitionFound
  <1> HIDE DEF l
  <1>6. \A i \in 0..l : At(P, i) <= p
    <2> SUFFICES ASSUME NEW i \in 0..l
                 PROVE  At(P, i) <= p
      OBVIOUS
    <2>1. i \in 0..P.last /\ l \in 0..P.last /\ i <= l
      BY <1>0, <1>5
    <2>2. At(P, i) <= At(P, l)
      BY <1>3, <2>1 DEF Ascends
    <2> QED
      BY <1>0, <1>5, <2>1, <2>2
  <1>7. ASSUME p \in LineStarts(t)
        PROVE  At(P, l) = p
    <2>1. PICK i \in 0..(P.last - 1) : At(P, i) = p
      BY <1>0, <1>7
    <2>2. ~(i > l)
      <3> SUFFICES ASSUME i > l
                   PROVE  FALSE
        OBVIOUS
      <3>1. i \in (l + 1)..(P.last - 1)
        BY <1>5
      <3> QED
        BY <1>5, <2>1, <3>1
    <2>3. i = l \/ At(P, i) < At(P, l)
      BY <1>0, <1>5, <2>2
    <2> QED
      BY <1>2, <1>5, <2>1, <2>3
  <1> QED
    BY <1>4, <1>5, <1>6, <1>7 DEF l

\* Where the lines of a text with an insertion end.
LEMMA InsertedEnds ==
    ASSUME NEW t \in Str, NEW s \in Str, Len(s) > 0, NEW p \in 0..Len(t), NEW k \in Nat
    PROVE  EndsLine(Inserted(t, p, s), k) <=>
             \/ k < p /\ EndsLine(t, k)
             \/ k = p /\ p > 0 /\ (t[p] = LF \/ (t[p] = CR /\ s[1] # LF))
             \/ p < k /\ k < p + Len(s) /\ EndsLine(s, k - p)
             \/ /\ k = p + Len(s)
                /\ \/ s[Len(s)] = LF
                   \/ s[Len(s)] = CR /\ ~(p < Len(t) /\ t[p + 1] = LF)
             \/ p + Len(s) < k /\ EndsLine(t, k - Len(s))
  <1> DEFINE u == Inserted(t, p, s)
             n == Len(t)
             m == Len(s)
  <1>0. n \in Nat /\ m \in Nat /\ m > 0
    BY LenProperties DEF Str
  <1>1. /\ Len(u) = n + m
        /\ \A i \in 1..n + m : u[i] = IF i <= p THEN t[i]
                                      ELSE IF i <= p + m THEN s[i - p] ELSE t[i - m]
    BY InsertedAt
  <1>2. LF # CR
    BY CellBufferAssumption DEF CellBufferAssumption
  <1> HIDE DEF u
  <1>3. CASE k < p
    <2>1. CASE k = 0
      BY <1>0, <1>1, <1>3, <2>1 DEF EndsLine, u
    <2>2. CASE k > 0
      <3>1. /\ k \in 1..n + m /\ k + 1 \in 1..n + m /\ k <= p /\ k + 1 <= p
            /\ k # n /\ k # n + m /\ k \in 1..n
        BY <1>0, <1>3, <2>2
      <3>2. u[k] = t[k] /\ u[k + 1] = t[k + 1]
        BY <1>1, <3>1
      <3>3. EndsLine(u, k) <=> EndsLine(t, k)
        BY <1>1, <3>1, <3>2 DEF EndsLine
      <3> QED
        BY <1>0, <1>3, <3>3 DEF u
    <2> QED
      BY <2>1, <2>2
  <1>4. CASE k = p
    <2>1. CASE p = 0
      BY <1>0, <1>1, <1>4, <2>1 DEF EndsLine, u
    <2>2. CASE p > 0
      <3>1. /\ k \in 1..n + m /\ k + 1 \in 1..n + m /\ k <= p /\ ~(k + 1 <= p) /\ k + 1 <= p + m
            /\ k # n + m /\ k + 1 - p = 1
        BY <1>0, <1>4, <2>2
      <3>2. u[k] = t[p] /\ u[k + 1] = s[1]
        BY <1>1, <1>4, <3>1
      <3>3. EndsLine(u, k) <=> (t[p] = LF \/ (t[p] = CR /\ s[1] # LF))
        BY <1>1, <3>1, <3>2 DEF EndsLine
      <3> QED
        BY <1>0, <1>4, <2>2, <3>3 DEF u
    <2> QED
      BY <2>1, <2>2
  <1>5. CASE p < k /\ k < p + m
    <2>1. /\ k \in 1..n + m /\ k + 1 \in 1..n + m /\ ~(k <= p) /\ k <= p + m
          /\ ~(k + 1 <= p) /\ k + 1 <= p + m /\ k # n + m
          /\ k - p \in 1..m /\ k - p # m /\ k + 1 - p = k - p + 1
      BY <1>0, <1>5
    <2>2. u[k] = s[k - p] /\ u[k + 1] = s[k - p + 1]
      BY <1>1, <2>1
    <2>3. EndsLine(u, k) <=> EndsLine(s, k - p)
      BY <1>1, <2>1, <2>2 DEF EndsLine
    <2> QED
      BY <1>0, <1>5, <2>3 DEF u
  <1>6. CASE k = p + m
    <2>1. /\ k \in 1..n + m /\ ~(k <= p) /\ k <= p + m /\ k - p = m
      BY <1>0, <1>6
    <2>2. u[k] = s[m]
      BY <1>1, <2>1
    <2>3. k = n + m <=> ~(p < n)
      BY <1>0, <1>6
    <2>4. ASSUME p < n
          PROVE  u[k + 1] = t[p + 1]
      <3>1. k + 1 \in 1..n + m /\ ~(k + 1 <= p) /\ ~(k + 1 <= p + m) /\ k + 1 - m = p + 1
        BY <1>0, <1>6, <2>4
      <3> QED
        BY <1>1, <3>1
    <2>5. EndsLine(u, k) <=> (s[m] = LF \/ (s[m] = CR /\ ~(p < n /\ t[p + 1] = LF)))
      BY <1>1, <2>1, <2>2, <2>3, <2>4 DEF EndsLine
    <2> QED
      BY <1>0, <1>6, <2>5 DEF u
  <1>7. CASE k > p + m
    <2>1. CASE k > n + m
      <3>1. ~(k - m \in 1..n) /\ ~(k \in 1..n + m)
        BY <1>0, <2>1
      <3> QED
        BY <1>0, <1>1, <1>7, <3>1 DEF EndsLine, u
    <2>2. CASE k <= n + m
      <3>1. /\ k \in 1..n + m /\ ~(k <= p) /\ ~(k <= p + m) /\ k - m \in 1..n
            /\ (k = n + m <=> k - m = n)
        BY <1>0, <1>7, <2>2
      <3>2. u[k] = t[k - m]
        BY <1>1, <3>1
      <3>3. ASSUME k # n + m
            PROVE  u[k + 1] = t[k - m + 1]
        <4>1. k + 1 \in 1..n + m /\ ~(k + 1 <= p) /\ ~(k + 1 <= p + m) /\ k + 1 - m = k - m + 1
          BY <1>0, <1>7, <2>2, <3>3
        <4> QED
          BY <1>1, <4>1
      <3>4. EndsLine(u, k) <=> EndsLine(t, k - m)
        BY <1>1, <3>1, <3>2, <3>3 DEF EndsLine
      <3> QED
        BY <1>0, <1>7, <3>4 DEF u
    <2> QED
      BY <1>0, <2>1, <2>2
  <1> QED
    BY <1>0, <1>3, <1>4, <1>5, <1>6, <1>7

\* Where the lines of a text with a deletion end.
LEMMA DeletedEnds ==
    ASSUME NEW t \in Str, NEW n \in Nat, n > 0, NEW p \in 0..Len(t), p + n <= Len(t), NEW k \in Nat
    PROVE  EndsLine(Deleted(t, p, n), k) <=>
             \/ k < p /\ EndsLine(t, k)
             \/ /\ k = p /\ p > 0
                /\ t[p] = LF \/ (t[p] = CR /\ ~(p + n < Len(t) /\ t[p + n + 1] = LF))
             \/ p < k /\ EndsLine(t, k + n)
  <1> DEFINE u == Deleted(t, p, n)
             m == Len(t)
  <1>0. m \in Nat /\ LF # CR
    BY LenProperties, CellBufferAssumption DEF Str, CellBufferAssumption
  <1>1. /\ Len(u) = m - n
        /\ \A i \in 1..m - n : u[i] = IF i <= p THEN t[i] ELSE t[i + n]
    BY DeletedAt
  <1> HIDE DEF u
  <1>2. CASE k < p
    <2>1. CASE k = 0
      BY <1>0, <1>1, <1>2, <2>1 DEF EndsLine, u
    <2>2. CASE k > 0
      <3>1. /\ k \in 1..m - n /\ k + 1 \in 1..m - n /\ k <= p /\ k + 1 <= p
            /\ k # m /\ k # m - n /\ k \in 1..m
        BY <1>0, <1>2, <2>2
      <3>2. u[k] = t[k] /\ u[k + 1] = t[k + 1]
        BY <1>1, <3>1
      <3>3. EndsLine(u, k) <=> EndsLine(t, k)
        BY <1>1, <3>1, <3>2 DEF EndsLine
      <3> QED
        BY <1>0, <1>2, <3>3 DEF u
    <2> QED
      BY <2>1, <2>2
  <1>3. CASE k = p
    <2>1. CASE p = 0
      BY <1>0, <1>1, <1>3, <2>1 DEF EndsLine, u
    <2>2. CASE p > 0
      <3>1. k \in 1..m - n /\ k <= p /\ (k = m - n <=> ~(p + n < m))
        BY <1>0, <1>3, <2>2
      <3>2. u[k] = t[p]
        BY <1>1, <1>3, <3>1
      <3>3. ASSUME p + n < m
            PROVE  u[k + 1] = t[p + n + 1]
        <4>1. k + 1 \in 1..m - n /\ ~(k + 1 <= p) /\ k + 1 + n = p + n + 1
          BY <1>0, <1>3, <3>3
        <4> QED
          BY <1>1, <4>1
      <3>4. EndsLine(u, k) <=> (t[p] = LF \/ (t[p] = CR /\ ~(p + n < m /\ t[p + n + 1] = LF)))
        BY <1>1, <3>1, <3>2, <3>3 DEF EndsLine
      <3> QED
        BY <1>0, <1>3, <2>2, <3>4 DEF u
    <2> QED
      BY <2>1, <2>2
  <1>4. CASE k > p
    <2>1. CASE k > m - n
      <3>1. ~(k \in 1..m - n) /\ ~(k + n \in 1..m)
        BY <1>0, <2>1
      <3> QED
        BY <1>0, <1>1, <1>4, <3>1 DEF EndsLine, u
    <2>2. CASE k <= m - n
      <3>1. /\ k \in 1..m - n /\ ~(k <= p) /\ k + n \in 1..m /\ (k = m - n <=> k + n = m)
        BY <1>0, <1>4, <2>2
      <3>2. u[k] = t[k + n]
        BY <1>1, <3>1
      <3>3. ASSUME k # m - n
            PROVE  u[k + 1] = t[k + n + 1]
        <4>1. k + 1 \in 1..m - n /\ ~(k + 1 <= p) /\ k + 1 + n = k + n + 1
          BY <1>0, <1>4, <2>2, <3>3
        <4> QED
          BY <1>1, <4>1
      <3>4. EndsLine(u, k) <=> EndsLine(t, k + n)
        BY <1>1, <3>1, <3>2, <3>3 DEF EndsLine
      <3> QED
        BY <1>0, <1>4, <3>4 DEF u
    <2> QED
      BY <1>0, <2>1, <2>2
  <1> QED
    BY <1>0, <1>2, <1>3, <1>4

-----------------------------------------------------------------------------
(* Lines after an insertion. *)

\* A CR ends before offset p, an LF begins there.
AfterCR(t, p) == p > 0 /\ t[p] = CR
BeforeLF(t, p) == p < Len(t) /\ t[p + 1] = LF

\* The starts of t with m characters more at p.
Moved(t, p, m) ==
    {k \in LineStarts(t) : k <= p} \cup {k + m : k \in {j \in LineStarts(t) : j > p}}

\* The partitions before q begin before limit or there, those from q on after m.
Apart(P, q, limit, m) ==
    /\ q \in 1..P.last
    /\ P.stepPartition <= q
    /\ \A i \in 0..(q - 1) : At(P, i) <= limit
    /\ \A i \in q..(P.last - 1) : m < At(P, i)

\* Text inserted in line l: the lines after it are moved.
LEMMA LinesMoved ==
    ASSUME NEW P, NEW t \in Str, Lines(P, t), NEW p \in 0..Len(t), NEW m \in Nat, m > 0
    PROVE  LET l == PartitionFromPosition(P, p)
               Q == InsertText(P, l, m)
           IN  /\ Covers(Q, Moved(t, p, m), Len(t) + m)
               /\ Apart(Q, l + 1, p, p + m)
               /\ Q.last = P.last
               /\ Q.stepPartition = l
               /\ l \in 0..(P.last - 1)
               /\ p \in LineStarts(t) => At(Q, l) = p
               /\ p \notin LineStarts(t) => \A i \in 0..l : At(Q, i) < p
  <1> DEFINE l == PartitionFromPosition(P, p)
             Q == InsertText(P, l, m)
             S == LineStarts(t)
  <1>0. /\ WellFormed(P) /\ P.last \in Nat /\ P.last > 0
        /\ \A i \in 0..P.last : At(P, i) \in Int
        /\ \A i, j \in 0..(P.last - 1) : i < j => At(P, i) < At(P, j)
        /\ \A i \in 0..(P.last - 1) : At(P, i) \in S
        /\ \A k \in S : \E i \in 0..(P.last - 1) : At(P, i) = k
        /\ Covers(P, S, Len(t)) /\ Len(t) \in Nat
    BY Positions, LineStartsAre DEF Lines, Covers
  <1>1. /\ l \in 0..(P.last - 1)
        /\ At(P, l) <= p
        /\ \A j \in (l + 1)..(P.last - 1) : p < At(P, j)
        /\ \A i \in 0..l : At(P, i) <= p
        /\ p \in S => At(P, l) = p
    BY LineFound
  <1> HIDE DEF l
  <1>2. /\ WellFormed(Q) /\ Q.last = P.last
        /\ \A i \in 0..P.last : At(Q, i) = At(P, i) + (IF i > l THEN m ELSE 0)
    <2>1. l \in 0..P.last /\ m \in Int
      BY <1>0, <1>1
    <2> QED
      BY <1>0, <2>1, InsertTextShifts
  <1>3. Q.stepPartition = l
    BY <1>0, <1>1, InsertTextStep
  <1>4. Covers(Q, {k \in S : k <= At(P, l)} \cup {k + m : k \in {j \in S : j > At(P, l)}},
               Len(t) + m)
    <2> HIDE DEF S
    <2> QED
      BY <1>0, <1>1, InsertTextCovers
  <1>5. ASSUME NEW k \in S
        PROVE  k \in Int /\ (k <= At(P, l) <=> k <= p) /\ (k > At(P, l) <=> k > p)
    <2>1. PICK i \in 0..(P.last - 1) : At(P, i) = k
      BY <1>0
    <2>2. CASE i <= l
      <3>1. i \in 0..l /\ l \in 0..(P.last - 1)
        BY <1>0, <1>1, <2>2
      <3>2. At(P, i) <= p /\ (i = l \/ At(P, i) < At(P, l)) /\ At(P, i) \in Int /\ At(P, l) \in Int
        BY <1>0, <1>1, <2>2, <3>1
      <3> QED
        BY <2>1, <3>2
    <2>3. CASE ~(i <= l)
      <3>1. i \in (l + 1)..(P.last - 1) /\ l < i
        BY <1>0, <1>1, <2>3
      <3>2. p < At(P, i) /\ At(P, l) < At(P, i) /\ At(P, i) \in Int /\ At(P, l) \in Int
        BY <1>0, <1>1, <3>1
      <3> QED
        BY <2>1, <3>2
    <2> QED
      BY <2>2, <2>3
  <1>6. Covers(Q, Moved(t, p, m), Len(t) + m)
    <2>1. {k \in S : k <= At(P, l)} = {k \in S : k <= p}
      BY <1>5
    <2>2. {j \in S : j > At(P, l)} = {j \in S : j > p}
      BY <1>5
    <2>3. Moved(t, p, m) = {k \in S : k <= p} \cup {k + m : k \in {j \in S : j > p}}
      BY DEF Moved
    <2> HIDE DEF Q, S
    <2> QED
      BY <1>4, <2>1, <2>2, <2>3
  <1> HIDE DEF Q, S
  <1>7. ASSUME NEW i \in 0..l
        PROVE  At(Q, i) = At(P, i) /\ At(Q, i) \in Int
    <2>1. i \in 0..P.last /\ ~(i > l)
      BY <1>0, <1>1
    <2>2. At(Q, i) = At(P, i) + 0 /\ At(P, i) \in Int
      BY <1>0, <1>2, <2>1
    <2> QED
      BY <2>2
  <1>8. Apart(Q, l + 1, p, p + m)
    <2>1. l + 1 \in 1..Q.last /\ Q.stepPartition <= l + 1 /\ l + 1 - 1 = l
      BY <1>0, <1>1, <1>2, <1>3
    <2>3. ASSUME NEW i \in (l + 1)..(Q.last - 1)
          PROVE  p + m < At(Q, i)
      <3>1. i \in (l + 1)..(P.last - 1) /\ i \in 0..P.last /\ i > l
        BY <1>0, <1>1, <1>2
      <3>2. p < At(P, i) /\ At(P, i) \in Int /\ At(Q, i) = At(P, i) + m /\ p \in Int
        BY <1>0, <1>1, <1>2, <3>1
      <3> QED
        BY <3>2
    <2>2. PICK q : q = l + 1
      OBVIOUS
    <2>4. q \in 1..Q.last /\ Q.stepPartition <= q /\ q - 1 = l
      BY <1>0, <1>1, <2>1, <2>2
    <2>5. ASSUME NEW i \in 0..(q - 1)
          PROVE  At(Q, i) <= p
      <3>1. i \in 0..l
        BY <2>4
      <3>2. At(Q, i) = At(P, i) /\ At(P, i) <= p
        BY <1>1, <1>7, <3>1
      <3> QED
        BY <3>2
    <2>6. \A i \in q..(Q.last - 1) : p + m < At(Q, i)
      BY <2>2, <2>3
    <2>7. Apart(Q, q, p, p + m)
      BY <2>4, <2>5, <2>6 DEF Apart
    <2> QED
      BY <2>2, <2>7
  <1>9. ASSUME p \in S
        PROVE  At(Q, l) = p
    BY <1>1, <1>7, <1>9
  <1>10. ASSUME p \notin S, NEW i \in 0..l
         PROVE  At(Q, i) < p
    <2>1. At(P, i) \in S /\ At(P, i) <= p /\ At(P, i) \in Int
      BY <1>0, <1>1
    <2> QED
      BY <1>7, <1>10, <2>1
  <1> QED
    BY <1>1, <1>2, <1>3, <1>6, <1>8, <1>9, <1>10 DEF l, Q, S

\* An insertion between the CR and the LF of a line end: the CR becomes one of
\* its own, and so a line is inserted.
LEMMA LineSplit ==
    ASSUME NEW P, NEW S, NEW length, Covers(P, S, length), NEW p \in Nat, NEW after \in Nat,
           p <= after, NEW l \in 0..(P.last - 1), NEW q, q = l + 1, P.stepPartition = l,
           Apart(P, q, p, after),
           \A i \in 0..l : At(P, i) < p
    PROVE  LET Q == InsertPartition(P, q, p)
           IN  /\ Covers(Q, S \cup {p}, length)
               /\ Apart(Q, l + 2, p, after)
               /\ At(Q, q) = p
  <1> DEFINE f == [i \in 1..1 |-> p]
             Q == InsertPartitions(P, l + 1, f, 1)
  <1>0. WellFormed(P) /\ P.last \in Nat /\ P.last > 0 /\ \A i \in 0..P.last : At(P, i) \in Int
    BY Positions DEF Covers
  <1>1. /\ f \in [1..1 -> Int] /\ l + 1 \in 1..P.last /\ l + 1 - 1 = l
        /\ \A i \in 1..1 : i = 1 /\ f[i] = p
    BY <1>0
  <1>2. InsertPartition(P, l + 1, p) = Q
    BY DEF InsertPartition
  <1> HIDE DEF f
  <1>3. S \cup {f[j] : j \in 1..1} = S \cup {p}
    BY <1>1
  <1>4. Covers(Q, S \cup {p}, length)
    <2>1. \A i, j \in 1..1 : i < j => f[i] < f[j]
      BY <1>1
    <2>2. \A i \in 0..(l + 1 - 1), j \in 1..1 : At(P, i) < f[j]
      BY <1>1
    <2>3. \A i \in (l + 1)..(P.last - 1), j \in 1..1 : f[j] < At(P, i)
      <3> SUFFICES ASSUME NEW i \in (l + 1)..(P.last - 1)
                   PROVE  p < At(P, i)
        BY <1>1
      <3>1. after < At(P, i) /\ i \in 0..P.last
        BY <1>0 DEF Apart
      <3> QED
        BY <1>0, <3>1
    <2> DEFINE n == 1
    <2>4. q \in 1..P.last /\ n \in Nat /\ f \in [1..n -> Int]
      BY <1>1
    <2>5. \A i \in 0..(q - 1), j \in 1..n : At(P, i) < f[j]
      BY <2>2
    <2> HIDE DEF Q, n
    <2>6. Covers(InsertPartitions(P, q, f, n), S \cup {f[j] : j \in 1..n}, length)
      BY <2>1, <2>3, <2>4, <2>5, InsertPartitionsCovers DEF n
    <2> QED
      BY <1>3, <2>6 DEF Q, n
  <1>5. /\ Q.last = P.last + 1
        /\ \A i \in 0..Q.last : At(Q, i) = IF i < l + 1 THEN At(P, i)
                                           ELSE IF i < l + 1 + 1 THEN f[i - (l + 1) + 1]
                                           ELSE At(P, i - 1)
    <2> DEFINE n == 1
               R == InsertPartitions(P, q, f, n)
    <2>1. q \in 1..P.last /\ n \in Nat /\ f \in [1..n -> Int]
      BY <1>1
    <2> HIDE DEF Q, n
    <2>2. /\ R.last = P.last + n
          /\ \A i \in 0..R.last : At(R, i) = IF i < q THEN At(P, i)
                                             ELSE IF i < q + n THEN f[i - q + 1]
                                             ELSE At(P, i - n)
      BY <1>0, <2>1, InsertPartitionsInserts
    <2>3. R = Q
      BY DEF Q, n
    <2> HIDE DEF R
    <2> QED
      BY <2>2, <2>3 DEF n
  <1>6. Q.stepPartition = l + 1 + 1
    <2>1. P.stepPartition <= l + 1 /\ 1 \in Nat
      OBVIOUS
    <2> HIDE DEF Q
    <2> QED
      BY <1>0, <1>1, <2>1, InsertPartitionsStep DEF Q
  <1> HIDE DEF Q
  <1>7. At(Q, l + 1) = p
    <2>1. l + 1 \in 0..Q.last /\ ~(l + 1 < l + 1) /\ l + 1 < l + 1 + 1 /\ l + 1 - (l + 1) + 1 = 1
      BY <1>0, <1>5
    <2> QED
      BY <1>1, <1>5, <2>1
  <1>8. ASSUME NEW i \in 0..(l + 2 - 1)
        PROVE  At(Q, i) <= p
    <2>1. CASE i = l + 1
      BY <1>7, <2>1
    <2>2. CASE i # l + 1
      <3>1. i \in 0..l /\ i < l + 1 /\ i \in 0..Q.last /\ i \in 0..P.last
        BY <1>0, <1>5, <2>2
      <3>2. At(Q, i) = At(P, i) /\ At(P, i) < p /\ At(P, i) \in Int
        BY <1>0, <1>5, <3>1
      <3> QED
        BY <3>2
    <2> QED
      BY <2>1, <2>2
  <1>9. ASSUME NEW i \in (l + 2)..(Q.last - 1)
        PROVE  after < At(Q, i)
    <2>1. /\ i \in 0..Q.last /\ ~(i < l + 1) /\ ~(i < l + 1 + 1) /\ i - 1 \in (l + 1)..(P.last - 1)
      BY <1>0, <1>5
    <2>2. At(Q, i) = At(P, i - 1)
      BY <1>5, <2>1
    <2> QED
      BY <2>1, <2>2 DEF Apart
  <1>10. Apart(Q, l + 2, p, after)
    <2>1. l + 2 \in 1..Q.last /\ Q.stepPartition <= l + 2
      BY <1>0, <1>5, <1>6
    <2> QED
      BY <1>8, <1>9, <2>1 DEF Apart
  <1> QED
    BY <1>2, <1>4, <1>7, <1>10

\* A line end before the insertion that its first character completes: the line
\* begins a character later.
LEMMA LinePatched ==
    ASSUME NEW P, NEW S, NEW length, Covers(P, S, length), NEW p \in Nat, NEW after \in Nat,
           p < after, NEW q, Apart(P, q, p, after), At(P, q - 1) = p
    PROVE  LET Q == SetPartitionStartPosition(P, q - 1, p + 1)
           IN  /\ Covers(Q, (S \ {p}) \cup {p + 1}, length)
               /\ Apart(Q, q, p + 1, after)
  <1> DEFINE Q == SetPartitionStartPosition(P, q - 1, p + 1)
             r == q - 1
  <1>0. /\ WellFormed(P) /\ P.last \in Nat /\ P.last > 0
        /\ \A i \in 0..P.last : At(P, i) \in Int /\ P.stepPartition \in Nat
    BY Positions DEF Covers, WellFormed
  <1>1. /\ q \in 1..P.last /\ P.stepPartition <= q
        /\ \A i \in 0..(q - 1) : At(P, i) <= p
        /\ \A i \in q..(P.last - 1) : after < At(P, i)
    BY DEF Apart
  <1>2. /\ r \in 0..(P.last - 1) /\ r + 1 = q /\ r + 1 >= P.stepPartition /\ p + 1 \in Int
    BY <1>0, <1>1
  <1>3. \A i \in 0..(r - 1) : At(P, i) < p + 1
    <2> SUFFICES ASSUME NEW i \in 0..(r - 1)
                 PROVE  At(P, i) < p + 1
      OBVIOUS
    <2>1. i \in 0..(q - 1) /\ i \in 0..P.last
      BY <1>0, <1>1
    <2>2. At(P, i) <= p /\ At(P, i) \in Int
      BY <1>0, <1>1, <2>1
    <2> QED
      BY <2>2
  <1>4. \A i \in (r + 1)..(P.last - 1) : p + 1 < At(P, i)
    <2> SUFFICES ASSUME NEW i \in (r + 1)..(P.last - 1)
                 PROVE  p + 1 < At(P, i)
      OBVIOUS
    <2>1. i \in q..(P.last - 1) /\ i \in 0..P.last
      BY <1>0, <1>1
    <2>2. after < At(P, i) /\ At(P, i) \in Int
      BY <1>0, <1>1, <2>1
    <2> QED
      BY <2>2
  <1>5. Covers(Q, (S \ {p}) \cup {p + 1}, length)
    <2> HIDE DEF r
    <2>1. Covers(SetPartitionStartPosition(P, r, p + 1), (S \ {At(P, r)}) \cup {p + 1}, length)
      BY <1>2, <1>3, <1>4, SetPartitionCovers
    <2> QED
      BY <2>1 DEF r
  <1>6. /\ Q.last = P.last
        /\ \A i \in 0..P.last : At(Q, i) = IF i = r THEN p + 1 ELSE At(P, i)
        /\ Q.stepPartition <= r + 1
    <2> HIDE DEF r
    <2>1. /\ SetPartitionStartPosition(P, r, p + 1).last = P.last
          /\ \A i \in 0..P.last :
               At(SetPartitionStartPosition(P, r, p + 1), i) = IF i = r THEN p + 1 ELSE At(P, i)
      BY <1>0, <1>2, SetPartitionStartPositionSets
    <2>2. SetPartitionStartPosition(P, r, p + 1).stepPartition <= r + 1
      BY <1>0, <1>2, SetPartitionStep
    <2> QED
      BY <2>1, <2>2 DEF r
  <1> HIDE DEF Q
  <1>7. ASSUME NEW i \in 0..(q - 1)
        PROVE  At(Q, i) <= p + 1
    <2>1. i \in 0..P.last
      BY <1>0, <1>1
    <2>2. At(P, i) <= p /\ At(P, i) \in Int
      BY <1>0, <1>1, <2>1
    <2> QED
      BY <1>6, <2>1, <2>2
  <1>8. ASSUME NEW i \in q..(Q.last - 1)
        PROVE  after < At(Q, i)
    <2>1. i \in 0..P.last /\ i # r /\ i \in q..(P.last - 1)
      BY <1>0, <1>1, <1>6
    <2> QED
      BY <1>1, <1>6, <2>1
  <1> QED
    BY <1>1, <1>2, <1>5, <1>6, <1>7, <1>8 DEF Apart, Q

\* The partitions that begin at the offsets E after p are inserted.
Filled(P, q, p, E) ==
    LET new == SortedAscending(E)
        positions == [i \in 1..Len(new) |-> p + new[i]]
    IN  IF new = <<>> THEN P ELSE InsertPartitions(P, q, positions, Len(new))

\* The offsets E after p, m of them at most, are between the partitions before q
\* and those from q on.
Between(P, q, p, E, m) ==
    /\ p \in Nat /\ m \in Nat /\ E \in SUBSET (1..m) /\ q \in 1..P.last
    /\ \A i \in 0..(q - 1), k \in E : At(P, i) < p + k
    /\ \A i \in q..(P.last - 1) : p + m < At(P, i)

\* What the inserted lines make of the starts.
LEMMA LinesFilled ==
    ASSUME NEW P, NEW S, NEW length, Covers(P, S, length),
           NEW q, NEW p, NEW E, NEW m, Between(P, q, p, E, m)
    PROVE  LET Q == Filled(P, q, p, E)
               n == Len(SortedAscending(E))
           IN  /\ Covers(Q, S \cup {p + k : k \in E}, length)
               /\ m \in E => /\ q + n - 1 \in 1..(Q.last - 1)
                             /\ At(Q, q + n - 1) = p + m
  <1> DEFINE new == SortedAscending(E)
             n == Len(new)
             f == [i \in 1..n |-> p + new[i]]
             Q == Filled(P, q, p, E)
  <1>0. /\ WellFormed(P) /\ P.last \in Nat /\ P.last > 0
        /\ \A i \in 0..P.last : At(P, i) \in Int
    BY Positions DEF Covers
  <1>1. /\ p \in Nat /\ m \in Nat /\ E \in SUBSET (1..m) /\ q \in 1..P.last
        /\ \A i \in 0..(q - 1), k \in E : At(P, i) < p + k
        /\ \A i \in q..(P.last - 1) : p + m < At(P, i)
        /\ \A k \in E : k \in Int /\ 0 < k /\ k <= m
    BY DEF Between
  <1>2. /\ n \in Nat /\ new \in Seq(E)
        /\ \A i \in 1..n : new[i] \in E
        /\ \A i, j \in 1..n : i < j => new[i] < new[j]
        /\ \A k \in E : \E i \in 1..n : new[i] = k
    <2> DEFINE c == Cardinality(E)
    <2>1. /\ c \in Nat /\ new \in Seq(E) /\ n = c
          /\ \A i \in 1..c : new[i] \in E
          /\ \A i, j \in 1..c : i < j => new[i] < new[j]
          /\ \A k \in E : \E i \in 1..c : new[i] = k
      BY <1>1, Sorted
    <2> HIDE DEF c, new, n
    <2> QED
      BY <2>1
  <1>3. Q = IF new = <<>> THEN P ELSE InsertPartitions(P, q, f, n)
    BY DEF Filled
  <1> HIDE DEF new, Q
  <1>4. new = <<>> <=> n = 0
    <2>1. new = <<>> => Len(new) = 0
      OBVIOUS
    <2>2. Len(new) = 0 => new = <<>>
      BY <1>2, EmptySeq
    <2> QED
      BY <1>2, <2>1, <2>2
  <1> HIDE DEF n
  <1>5. \A i \in 1..n : new[i] \in Int /\ new[i] <= m /\ f[i] = p + new[i]
    BY <1>1, <1>2
  <1>6. f \in [1..n -> Int]
    BY <1>1, <1>5
  <1>7. {p + k : k \in E} = {f[j] : j \in 1..n}
    <2>1. ASSUME NEW k \in E
          PROVE  \E j \in 1..n : f[j] = p + k
      BY <1>2, <1>5
    <2>2. ASSUME NEW j \in 1..n
          PROVE  \E k \in E : f[j] = p + k
      BY <1>2, <1>5
    <2> HIDE DEF f
    <2> QED
      BY <2>1, <2>2
  <1> HIDE DEF f
  <1>8. CASE n = 0
    <2>1. Q = P /\ E = {}
      BY <1>2, <1>3, <1>4, <1>8
    <2>2. S \cup {p + k : k \in E} = S
      BY <2>1
    <2> QED
      BY <2>1, <2>2 DEF Q
  <1>9. CASE n # 0
    <2> DEFINE R == InsertPartitions(P, q, f, n)
    <2>1. Q = R
      BY <1>3, <1>4, <1>9
    <2>2. \A i, j \in 1..n : i < j => f[i] < f[j]
      <3> SUFFICES ASSUME NEW i \in 1..n, NEW j \in 1..n, i < j
                   PROVE  f[i] < f[j]
        OBVIOUS
      <3>1. new[i] < new[j]
        BY <1>2
      <3> QED
        BY <1>1, <1>5, <3>1
    <2>3. \A i \in 0..(q - 1), j \in 1..n : At(P, i) < f[j]
      BY <1>1, <1>2, <1>5
    <2>4. \A i \in q..(P.last - 1), j \in 1..n : f[j] < At(P, i)
      <3> SUFFICES ASSUME NEW i \in q..(P.last - 1), NEW j \in 1..n
                   PROVE  f[j] < At(P, i)
        OBVIOUS
      <3>1. p + m < At(P, i) /\ At(P, i) \in Int
        BY <1>0, <1>1
      <3> QED
        BY <1>1, <1>5, <3>1
    <2> HIDE DEF R
    <2>5. Covers(R, S \cup {f[j] : j \in 1..n}, length)
      BY <1>1, <1>2, <1>6, <2>2, <2>3, <2>4, InsertPartitionsCovers DEF R
    <2>6. /\ R.last = P.last + n
          /\ \A i \in 0..R.last : At(R, i) = IF i < q THEN At(P, i)
                                             ELSE IF i < q + n THEN f[i - q + 1]
                                             ELSE At(P, i - n)
      BY <1>0, <1>1, <1>2, <1>6, InsertPartitionsInserts, SMTT(30) DEF R
    <2>7. ASSUME m \in E
          PROVE  q + n - 1 \in 1..(R.last - 1) /\ At(R, q + n - 1) = p + m
      <3>1. PICK i \in 1..n : new[i] = m
        BY <1>2, <2>7
      <3>2. i = n
        <4> SUFFICES ASSUME i < n
                     PROVE  FALSE
          BY <1>2
        <4>1. n \in 1..n /\ new[n] \in Int /\ new[n] <= m
          BY <1>2, <1>5, <1>9
        <4>2. new[i] < new[n]
          BY <1>2, <4>1
        <4> QED
          BY <1>1, <3>1, <4>1, <4>2
      <3>3. PICK x : x = q + n - 1
        OBVIOUS
      <3>4. /\ x \in 1..(R.last - 1) /\ x \in 0..R.last
            /\ ~(x < q) /\ x < q + n /\ x - q + 1 = n
        BY <1>0, <1>1, <1>2, <1>9, <2>6, <3>3
      <3>5. At(R, x) = IF x < q THEN At(P, x)
                       ELSE IF x < q + n THEN f[x - q + 1] ELSE At(P, x - n)
        BY <2>6, <3>4, Zenon
      <3>6. At(R, x) = f[n]
        BY <3>4, <3>5, Zenon
      <3> QED
        BY <1>5, <3>1, <3>2, <3>3, <3>4, <3>6
    <2>8. Covers(Q, S \cup {p + k : k \in E}, length)
      BY <1>7, <2>1, <2>5
    <2> QED
      BY <2>1, <2>7, <2>8 DEF Q, n, new
  <1> QED
    BY <1>8, <1>9

\* The starts when m characters are inserted into t at p, before those in the
\* insertion: a CR before it is a line end whatever follows.
Parted(t, p, m) ==
    Moved(t, p, m) \cup (IF AfterCR(t, p) /\ BeforeLF(t, p) THEN {p} ELSE {})

\* The lines are moved, and the one that ends before the insertion is there.
LEMMA LinesParted ==
    ASSUME NEW P, NEW t \in Str, Lines(P, t), NEW p \in 0..Len(t), NEW m \in Nat, m > 0
    PROVE  LET l == PartitionFromPosition(P, p)
               moved == InsertText(P, l, m)
               splits == AfterCR(t, p) /\ BeforeLF(t, p)
               Q == IF splits THEN InsertPartition(moved, l + 1, p) ELSE moved
               q == IF splits THEN l + 2 ELSE l + 1
           IN  /\ Covers(Q, Parted(t, p, m), Len(t) + m)
               /\ Apart(Q, q, p, p + m)
               /\ AfterCR(t, p) => At(Q, q - 1) = p
  <1> DEFINE l == PartitionFromPosition(P, p)
             moved == InsertText(P, l, m)
             splits == AfterCR(t, p) /\ BeforeLF(t, p)
             Q == IF splits THEN InsertPartition(moved, l + 1, p) ELSE moved
             q == IF splits THEN l + 2 ELSE l + 1
  <1>1. /\ Covers(moved, Moved(t, p, m), Len(t) + m)
        /\ Apart(moved, l + 1, p, p + m)
        /\ moved.last = P.last /\ moved.stepPartition = l
        /\ l \in 0..(P.last - 1)
        /\ p \in LineStarts(t) => At(moved, l) = p
        /\ p \notin LineStarts(t) => \A i \in 0..l : At(moved, i) < p
    BY LinesMoved
  <1>2. Len(t) \in Nat /\ p \in Nat /\ CR # LF /\ P.last \in Nat
    <2>1. WellFormed(P)
      BY DEF Lines, Covers
    <2> QED
      BY <2>1, Positions, LineStartsAre, CellBufferAssumption DEF CellBufferAssumption
  <1> HIDE DEF l, moved
  <1>3. p \in LineStarts(t) <=> p = 0 \/ EndsLine(t, p)
    BY LineStartsAre
  <1>4. CASE splits
    <2>1. p \notin LineStarts(t)
      BY <1>2, <1>3, <1>4 DEF AfterCR, BeforeLF, EndsLine
    <2>2. \A i \in 0..l : At(moved, i) < p
      BY <1>1, <2>1
    <2>3. /\ Covers(InsertPartition(moved, l + 1, p), Moved(t, p, m) \cup {p}, Len(t) + m)
          /\ Apart(InsertPartition(moved, l + 1, p), l + 2, p, p + m)
          /\ At(InsertPartition(moved, l + 1, p), l + 1) = p
      <3>1. l \in 0..(moved.last - 1) /\ moved.stepPartition = l
        BY <1>1
      <3>2. PICK after : after = p + m
        OBVIOUS
      <3>3. PICK r : r = l + 1
        OBVIOUS
      <3> DEFINE R == InsertPartition(moved, r, p)
      <3>4. after \in Nat /\ p \in Nat /\ p <= after /\ Apart(moved, r, p, after)
        BY <1>1, <1>2, <3>2, <3>3
      <3>5. Covers(moved, Moved(t, p, m), Len(t) + m)
        BY <1>1
      <3> HIDE DEF Q, q, splits
      <3>6. Covers(R, Moved(t, p, m) \cup {p}, Len(t) + m) /\ Apart(R, l + 2, p, after) /\ At(R, r) = p
        BY <2>2, <3>1, <3>3, <3>4, <3>5, LineSplit, SMTT(60)
      <3> QED
        BY <3>2, <3>3, <3>6
    <2>4. Q = InsertPartition(moved, l + 1, p) /\ q = l + 2 /\ Parted(t, p, m) = Moved(t, p, m) \cup {p}
      BY <1>4 DEF Parted
    <2>5. q - 1 = l + 1
      BY <1>1, <2>4
    <2> HIDE DEF Q, q, splits
    <2>6. /\ Covers(Q, Parted(t, p, m), Len(t) + m)
          /\ Apart(Q, q, p, p + m)
          /\ At(Q, q - 1) = p
      BY <2>3, <2>4, <2>5, Zenon
    <2> QED
      BY <2>6 DEF Q, q, splits, moved, l
  <1>5. CASE ~splits
    <2>1. Q = moved /\ q = l + 1 /\ Parted(t, p, m) = Moved(t, p, m)
      BY <1>5 DEF Parted
    <2>2. ASSUME AfterCR(t, p)
          PROVE  At(moved, l) = p
      <3>1. ~BeforeLF(t, p)
        BY <1>5, <2>2
      <3>2. p \in 1..Len(t) /\ t[p] = CR /\ (p = Len(t) \/ t[p + 1] # LF)
        <4> HIDE DEF Q, q, splits
        <4> QED
          BY <1>2, <2>2, <3>1 DEF AfterCR, BeforeLF
      <3>3. EndsLine(t, p)
        BY <3>2 DEF EndsLine
      <3> QED
        BY <1>1, <1>3, <3>3
    <2>3. l + 1 - 1 = l
      BY <1>1
    <2> HIDE DEF Q, q
    <2>4. /\ Covers(Q, Parted(t, p, m), Len(t) + m)
          /\ Apart(Q, q, p, p + m)
          /\ AfterCR(t, p) => At(Q, q - 1) = p
      BY <1>1, <2>1, <2>2, <2>3
    <2> QED
      BY <2>4 DEF Q, q, moved, l
  <1> QED
    BY <1>4, <1>5

\* Which the starts are that an insertion of s leaves outside it.
LEMMA PartedAre ==
    ASSUME NEW t \in Str, NEW p \in 0..Len(t), NEW m \in Nat, m > 0
    PROVE  /\ Parted(t, p, m) \subseteq Nat
           /\ \A k \in Nat : k \in Parted(t, p, m) <=>
                \/ k = 0
                \/ k < p /\ EndsLine(t, k)
                \/ k = p /\ p > 0 /\ (t[p] = LF \/ t[p] = CR)
                \/ p + m < k /\ EndsLine(t, k - m)
  <1> DEFINE S == LineStarts(t)
             T == {k + m : k \in {j \in S : j > p}}
  <1>1. /\ Len(t) \in Nat /\ p \in Nat /\ CR # LF
        /\ S \subseteq Nat
        /\ \A k : k \in S <=> k = 0 \/ EndsLine(t, k)
    BY LineStartsAre, CellBufferAssumption DEF CellBufferAssumption
  <1> HIDE DEF S
  <1>2. Parted(t, p, m) = {k \in S : k <= p} \cup T
                          \cup (IF AfterCR(t, p) /\ BeforeLF(t, p) THEN {p} ELSE {})
    BY DEF Parted, Moved, S
  <1>3. T \subseteq Nat
    BY <1>1
  <1>4. ASSUME NEW k \in Nat
        PROVE  k \in T <=> p + m < k /\ EndsLine(t, k - m)
    <2>1. ASSUME k \in T
          PROVE  p + m < k /\ EndsLine(t, k - m)
      <3>1. PICK j \in S : j > p /\ k = j + m
        BY <2>1
      <3>2. j \in Nat /\ k - m = j /\ j # 0
        BY <1>1, <3>1
      <3> QED
        BY <1>1, <3>1, <3>2
    <2>2. ASSUME p + m < k, EndsLine(t, k - m)
          PROVE  k \in T
      <3>1. k - m \in S /\ k - m > p /\ (k - m) + m = k
        BY <1>1, <2>2
      <3> QED
        BY <3>1
    <2> QED
      BY <2>1, <2>2
  <1> HIDE DEF T
  <1>5. EndsLine(t, p) \/ (AfterCR(t, p) /\ BeforeLF(t, p))
        <=> p > 0 /\ (t[p] = LF \/ t[p] = CR)
    BY <1>1 DEF EndsLine, AfterCR, BeforeLF
  <1>6. ASSUME NEW k \in Nat
        PROVE  k \in Parted(t, p, m) <=>
                 \/ k = 0
                 \/ k < p /\ EndsLine(t, k)
                 \/ k = p /\ p > 0 /\ (t[p] = LF \/ t[p] = CR)
                 \/ p + m < k /\ EndsLine(t, k - m)
    <2>1. k \in Parted(t, p, m) <=>
            \/ k <= p /\ (k = 0 \/ EndsLine(t, k))
            \/ k \in T
            \/ k = p /\ AfterCR(t, p) /\ BeforeLF(t, p)
      BY <1>1, <1>2
    <2>2. CASE k < p
      BY <1>1, <1>4, <2>1, <2>2
    <2>3. CASE k = p
      <3>1. k \in Parted(t, p, m) <=> k = 0 \/ (p > 0 /\ (t[p] = LF \/ t[p] = CR))
        BY <1>1, <1>4, <1>5, <2>1, <2>3
      <3> QED
        BY <1>1, <2>3, <3>1
    <2>4. CASE k > p
      BY <1>1, <1>4, <2>1, <2>4
    <2> QED
      BY <1>1, <2>2, <2>3, <2>4
  <1>7. Parted(t, p, m) \subseteq Nat
    BY <1>1, <1>2, <1>3
  <1> QED
    BY <1>6, <1>7

\* The line starts after an insertion are those of the text.
LEMMA InsertedLines ==
    ASSUME NEW t \in Str, Lines(starts, t), NEW s \in Str, Len(s) > 0, NEW p \in 0..Len(t)
    PROVE  Lines(InsertedStarts(t, p, s), Inserted(t, p, s))
  <1> DEFINE L == Len(s)
             length == Len(t) + L
             l == PartitionFromPosition(starts, p)
             moved == InsertText(starts, l, L)
             splits == AfterCR(t, p) /\ BeforeLF(t, p)
             split == IF splits THEN InsertPartition(moved, l + 1, p) ELSE moved
             q == IF splits THEN l + 2 ELSE l + 1
             completes == AfterCR(t, p) /\ s[1] = LF
             patched == IF completes THEN SetPartitionStartPosition(split, q - 1, p + 1)
                        ELSE split
             first == IF completes THEN 1 ELSE 0
             E == LineEndsIn(s, first)
             new == SortedAscending(E)
             filled == Filled(patched, q, p, E)
             joins == BeforeLF(t, p) /\ s[L] = CR
             final == IF joins THEN RemovePartition(filled, q + Len(new) - 1) ELSE filled
             S2 == Parted(t, p, L)
             S3 == IF completes THEN (S2 \ {p}) \cup {p + 1} ELSE S2
             S4 == S3 \cup {p + k : k \in E}
             S5 == IF joins THEN S4 \ {p + L} ELSE S4
  <1>1. /\ Len(t) \in Nat /\ p \in Nat /\ L \in Nat /\ L > 0 /\ length \in Nat /\ CR # LF
        /\ p < p + L /\ p + L \in Nat
    BY LineStartsAre, CellBufferAssumption DEF CellBufferAssumption
  <1>2. InsertedStarts(t, p, s) = final
    <2>1. /\ ValueAt(t, p - 1) = CR <=> AfterCR(t, p)
          /\ ValueAt(t, p) = LF <=> BeforeLF(t, p)
      BY ValuesAround DEF AfterCR, BeforeLF
    <2> QED
      BY <2>1 DEF InsertedStarts, Filled
  <1>3. /\ Covers(split, S2, length)
        /\ Apart(split, q, p, p + L)
        /\ AfterCR(t, p) => At(split, q - 1) = p
    BY <1>1, LinesParted
  <1> HIDE DEF split, q, S2, E, length
  <1>4. Covers(patched, S3, length) /\ Apart(patched, q, p + first, p + L)
    <2>1. CASE completes
      <3>1. At(split, q - 1) = p
        BY <1>3, <2>1
      <3>2. /\ Covers(SetPartitionStartPosition(split, q - 1, p + 1), (S2 \ {p}) \cup {p + 1}, length)
            /\ Apart(SetPartitionStartPosition(split, q - 1, p + 1), q, p + 1, p + L)
        BY <1>1, <1>3, <3>1, LinePatched
      <3> QED
        BY <2>1, <3>2
    <2>2. CASE ~completes
      <3>1. p + first = p
        BY <1>1, <2>2
      <3> QED
        BY <1>3, <2>2, <3>1
    <2> QED
      BY <2>1, <2>2
  <1>5. first \in Nat
    OBVIOUS
  <1> HIDE DEF patched, S3
  <1>6. /\ Covers(filled, S4, length)
        /\ L \in E => /\ q + Len(new) - 1 \in 1..(filled.last - 1)
                      /\ At(filled, q + Len(new) - 1) = p + L
    <2>1. /\ WellFormed(patched) /\ q \in 1..patched.last
          /\ \A i \in 0..(q - 1) : At(patched, i) <= p + first
          /\ \A i \in q..(patched.last - 1) : p + L < At(patched, i)
      BY <1>4 DEF Apart, Covers
    <2>2. E \in SUBSET (1..L) /\ \A k \in E : k \in Nat /\ first < k
      BY <1>5, LineStartsAre DEF E, LineEndsIn
    <2>3. ASSUME NEW i \in 0..(q - 1), NEW k \in E
          PROVE  At(patched, i) < p + k
      <3>1. i \in 0..patched.last /\ patched.last \in Nat
        BY <2>1, Positions
      <3>2. At(patched, i) \in Int /\ At(patched, i) <= p + first
        BY <2>1, <3>1, Positions
      <3> HIDE DEF first
      <3> QED
        BY <1>1, <1>5, <2>2, <3>2
    <2>4. p \in Nat /\ L \in Nat
      BY <1>1
    <2>6. Covers(patched, S3, length)
      BY <1>4
    <2>7. \A i \in 0..(q - 1), k \in E : At(patched, i) < p + k
      BY <2>3
    <2>8. Between(patched, q, p, E, L)
      BY <2>1, <2>2, <2>4, <2>7 DEF Between
    <2> HIDE DEF L, E, l, moved, splits, completes, first, joins, final, S4, S5, filled
    <2>5. LET n == Len(SortedAscending(E))
          IN  /\ Covers(Filled(patched, q, p, E), S3 \cup {p + k : k \in E}, length)
              /\ L \in E => /\ q + n - 1 \in 1..(Filled(patched, q, p, E).last - 1)
                            /\ At(Filled(patched, q, p, E), q + n - 1) = p + L
      BY <2>6, <2>8, LinesFilled
    <2> QED
      BY <2>5 DEF S4, L, filled, new
  <1>7. \A k \in Nat : k \in E <=> first < k /\ EndsLine(s, k)
    BY <1>5, LineStartsAre DEF E
  <1> HIDE DEF filled, new, S4
  <1>8. Covers(final, S5, length)
    <2>1. CASE joins
      <3>1. first < L
        BY <1>1, <2>1
      <3>2. L \in E
        <4>1. EndsLine(s, L)
          BY <1>1, <2>1 DEF EndsLine
        <4> QED
          BY <1>1, <1>7, <3>1, <4>1
      <3>3. Covers(RemovePartition(filled, q + Len(new) - 1), S4 \ {p + L}, length)
        BY <1>6, <3>2, RemovePartitionCovers
      <3> QED
        BY <2>1, <3>3
    <2>2. CASE ~joins
      BY <1>6, <2>2
    <2> QED
      BY <2>1, <2>2
  <1> HIDE DEF final
  <1>9. /\ S2 \subseteq Nat
        /\ \A k \in Nat : k \in S2 <=>
             \/ k = 0
             \/ k < p /\ EndsLine(t, k)
             \/ k = p /\ p > 0 /\ (t[p] = LF \/ t[p] = CR)
             \/ p + L < k /\ EndsLine(t, k - L)
    BY <1>1, PartedAre DEF S2
  <1>10. ASSUME NEW k \in Nat
         PROVE  /\ S4 \subseteq Nat
                /\ k \in S4 <=>
                     \/ k = 0
                     \/ k < p /\ EndsLine(t, k)
                     \/ k = p /\ p > 0 /\ (t[p] = LF \/ (t[p] = CR /\ s[1] # LF))
                     \/ p < k /\ EndsLine(s, k - p)
                     \/ p + L < k /\ EndsLine(t, k - L)
    <2>1. E \subseteq Nat
      BY <1>5, LineStartsAre DEF E
    <2>2. k \in S4 <=> k \in S3 \/ (p < k /\ first < k - p /\ EndsLine(s, k - p))
      <3>1. k \in S4 <=> k \in S3 \/ \E j \in E : k = p + j
        BY DEF S4
      <3>2. ASSUME NEW j \in E, k = p + j
            PROVE  p < k /\ first < k - p /\ EndsLine(s, k - p)
        <4>1. j \in Nat /\ k - p = j
          BY <1>1, <2>1, <3>2
        <4>2. first < j /\ EndsLine(s, j)
          BY <1>7, <4>1
        <4> QED
          BY <1>1, <1>5, <3>2, <4>1, <4>2
      <3>3. ASSUME p < k, first < k - p, EndsLine(s, k - p)
            PROVE  \E j \in E : k = p + j
        <4>1. k - p \in Nat /\ k = p + (k - p)
          BY <1>1, <3>3
        <4>2. k - p \in E
          BY <1>7, <3>3, <4>1
        <4> QED
          BY <4>1, <4>2
      <3> QED
        BY <3>1, <3>2, <3>3
    <2>3. S3 \subseteq Nat /\ S4 \subseteq Nat
      <3>1. S3 \subseteq Nat
        BY <1>1, <1>9 DEF S3
      <3>2. {p + j : j \in E} \subseteq Nat
        BY <1>1, <2>1
      <3> QED
        BY <3>1, <3>2 DEF S4
    <2>4. CASE completes
      <3>1. EndsLine(s, 1) /\ first = 1 /\ p > 0 /\ t[p] = CR /\ s[1] = LF
        BY <1>1, <2>4 DEF EndsLine, AfterCR
      <3>2. k \in S3 <=> (k \in S2 /\ k # p) \/ k = p + 1
        BY <2>4 DEF S3
      <3>3. CASE k = p + 1
        <4>1. k - p = 1 /\ p < k
          BY <1>1, <3>3
        <4> QED
          BY <2>2, <2>3, <3>1, <3>2, <3>3, <4>1
      <3>4. CASE k = p
        <4>1. k # p + 1 /\ ~(p < k) /\ k # 0 /\ ~(k < p) /\ ~(p + L < k)
          BY <1>1, <3>1, <3>4
        <4> QED
          BY <1>1, <2>2, <2>3, <3>1, <3>2, <4>1
      <3>5. CASE k # p /\ k # p + 1
        <4>1. p < k /\ first < k - p <=> p < k
          BY <1>1, <3>1, <3>5
        <4> QED
          BY <1>9, <2>2, <2>3, <3>2, <3>5, <4>1
      <3> QED
        BY <3>3, <3>4, <3>5
    <2>5. CASE ~completes
      <3>1. first = 0 /\ S3 = S2
        BY <2>5 DEF S3
      <3>2. p < k /\ first < k - p <=> p < k
        BY <1>1, <3>1
      <3>3. p > 0 /\ t[p] = CR => s[1] # LF
        BY <2>5 DEF AfterCR
      <3> QED
        BY <1>9, <2>2, <2>3, <3>1, <3>2, <3>3
    <2> QED
      BY <2>4, <2>5
  <1>11. ASSUME NEW k \in Nat
         PROVE  k \in S5 <=> k \in LineStarts(Inserted(t, p, s))
    <2>1. k \in LineStarts(Inserted(t, p, s)) <=> k = 0 \/ EndsLine(Inserted(t, p, s), k)
      BY InsertedAt, LineStartsAre
    <2>2. EndsLine(Inserted(t, p, s), k) <=>
            \/ k < p /\ EndsLine(t, k)
            \/ k = p /\ p > 0 /\ (t[p] = LF \/ (t[p] = CR /\ s[1] # LF))
            \/ p < k /\ k < p + L /\ EndsLine(s, k - p)
            \/ k = p + L /\ (s[L] = LF \/ (s[L] = CR /\ ~BeforeLF(t, p)))
            \/ p + L < k /\ EndsLine(t, k - L)
      <3> HIDE DEF joins, completes, first, splits, l, moved
      <3> QED
        BY InsertedEnds, Zenon DEF BeforeLF
    <2>3. k \in S5 <=> k \in S4 /\ ~(joins /\ k = p + L)
      OBVIOUS
    <2>4. EndsLine(s, L) <=> s[L] = LF \/ s[L] = CR
      BY <1>1 DEF EndsLine
    <2>5. CASE k < p + L
      <3>1. ~(k = p + L) /\ ~(p + L < k)
        BY <1>1, <2>5
      <3> QED
        BY <1>10, <2>1, <2>2, <2>3, <2>5, <3>1
    <2>6. CASE k = p + L
      <3>1. k - p = L /\ p < k /\ k # 0 /\ ~(k < p) /\ k # p /\ ~(p + L < k)
        BY <1>1, <2>6
      <3>2. k \in S4 <=> s[L] = LF \/ s[L] = CR
        BY <1>10, <2>4, <3>1
      <3>3. EndsLine(Inserted(t, p, s), k) <=> s[L] = LF \/ (s[L] = CR /\ ~BeforeLF(t, p))
        <4> HIDE DEF L
        <4> QED
          BY <2>2, <2>6, <3>1
      <3> HIDE DEF L, S4, S5
      <3> QED
        BY <1>1, <2>1, <2>3, <2>6, <3>1, <3>2, <3>3
    <2>7. CASE p + L < k
      <3>1. ~EndsLine(s, k - p)
        <4>1. ~(k - p \in 1..L)
          BY <1>1, <2>7
        <4> QED
          BY <4>1 DEF EndsLine
      <3>2. p < k /\ ~(k < p) /\ k # p /\ k # p + L /\ ~(k < p + L)
        BY <1>1, <2>7
      <3> QED
        BY <1>10, <2>1, <2>2, <2>3, <2>7, <3>1, <3>2
    <2> QED
      BY <1>1, <2>5, <2>6, <2>7
  <1>12. S5 = LineStarts(Inserted(t, p, s))
    <2>1. LineStarts(Inserted(t, p, s)) \subseteq Nat
      BY InsertedAt, LineStartsAre
    <2>2. S5 \subseteq Nat
      <3>1. 0 \in Nat
        OBVIOUS
      <3> QED
        BY <1>10, <3>1
    <2> HIDE DEF S5
    <2> QED
      BY <1>11, <2>1, <2>2
  <1>13. length = Len(Inserted(t, p, s))
    BY InsertedAt DEF length
  <1> HIDE DEF S5
  <1> QED
    BY <1>2, <1>8, <1>12, <1>13 DEF Lines

-----------------------------------------------------------------------------
(* Lines after a deletion. *)

\* The starts of t when an LF at p, the second half of a line end, is no line
\* end any more and the CR before it is one.
Loosened(t, p) ==
    IF AfterCR(t, p) /\ BeforeLF(t, p)
    THEN (LineStarts(t) \ {p + 1}) \cup {p} ELSE LineStarts(t)

\* Q has the partitions of P, those from q on n less.
Shrunk(P, Q, q, n) ==
    /\ WellFormed(Q)
    /\ Q.last = P.last
    /\ Q.stepPartition <= q
    /\ \A i \in 0..P.last : At(Q, i) = IF i < q THEN At(P, i) ELSE At(P, i) - n

\* The partitions from q on are those that begin after p.
Divided(P, q, p) ==
    /\ q \in 1..P.last
    /\ \A i \in 0..(q - 1) : At(P, i) <= p
    /\ \A i \in q..(P.last - 1) : p < At(P, i)

\* Before any start is removed, the starts are those of a partitioning of the
\* text, the later ones less what is deleted.
LEMMA LinesLoosened ==
    ASSUME NEW P, NEW t \in Str, Lines(P, t), NEW p \in 0..Len(t), NEW n \in Nat
    PROVE  LET l == PartitionFromPosition(P, p)
               moved == InsertText(P, l, -n)
               splits == AfterCR(t, p) /\ BeforeLF(t, p)
               Q == IF splits THEN SetPartitionStartPosition(moved, l + 1, p) ELSE moved
               q == IF splits THEN l + 2 ELSE l + 1
           IN  \E R : /\ Covers(R, Loosened(t, p), Len(t))
                      /\ Shrunk(R, Q, q, n)
                      /\ Divided(R, q, p)
                      /\ AfterCR(t, p) => q > 1 /\ At(R, q - 1) = p
  <1> DEFINE l == PartitionFromPosition(P, p)
             moved == InsertText(P, l, -n)
             same == InsertText(P, l, 0)
             splits == AfterCR(t, p) /\ BeforeLF(t, p)
             Q == IF splits THEN SetPartitionStartPosition(moved, l + 1, p) ELSE moved
             q == IF splits THEN l + 2 ELSE l + 1
             R == IF splits THEN SetPartitionStartPosition(same, l + 1, p) ELSE same
             S == LineStarts(t)
             Done(r, Q1, R1) == /\ Covers(R1, Loosened(t, p), Len(t))
                                /\ Shrunk(R1, Q1, r, n)
                                /\ Divided(R1, r, p)
                                /\ AfterCR(t, p) => r > 1 /\ At(R1, r - 1) = p
  <1>0. /\ WellFormed(P) /\ P.last \in Nat /\ P.last > 0
        /\ \A i \in 0..P.last : At(P, i) \in Int
        /\ \A i, j \in 0..(P.last - 1) : i < j => At(P, i) < At(P, j)
        /\ \A i \in 0..(P.last - 1) : At(P, i) \in S
        /\ \A k \in S : \E i \in 0..(P.last - 1) : At(P, i) = k
        /\ Covers(P, S, Len(t))
    BY Positions DEF Lines, Covers
  <1>1. /\ l \in 0..(P.last - 1)
        /\ \A j \in (l + 1)..(P.last - 1) : p < At(P, j)
        /\ \A i \in 0..l : At(P, i) <= p
        /\ At(P, 0) = 0
        /\ p \in S => At(P, l) = p
    BY LineFound
  <1>2. /\ Len(t) \in Nat /\ p \in Nat /\ CR # LF
        /\ S \subseteq 0..Len(t)
        /\ \A k : k \in S <=> k = 0 \/ EndsLine(t, k)
    BY LineStartsAre, CellBufferAssumption DEF CellBufferAssumption
  <1> HIDE DEF l, S
  <1>3. ASSUME NEW d \in Int
        PROVE  /\ WellFormed(InsertText(P, l, d)) /\ InsertText(P, l, d).last = P.last
               /\ InsertText(P, l, d).stepPartition = l
               /\ \A i \in 0..P.last : At(InsertText(P, l, d), i) = At(P, i) + (IF i > l THEN d ELSE 0)
    <2>1. l \in 0..P.last
      BY <1>0, <1>1
    <2>2. InsertText(P, l, d).stepPartition = l
      BY <1>0, <1>1, InsertTextStep
    <2> HIDE DEF Q, R, moved, same
    <2> QED
      BY <1>0, <2>1, <2>2, InsertTextShifts
  <1>4. /\ WellFormed(moved) /\ moved.last = P.last /\ moved.stepPartition = l
        /\ \A i \in 0..P.last : At(moved, i) = IF i > l THEN At(P, i) - n ELSE At(P, i)
    <2>1. -n \in Int
      OBVIOUS
    <2>2. ASSUME NEW i \in 0..P.last
          PROVE  At(moved, i) = IF i > l THEN At(P, i) - n ELSE At(P, i)
      <3>1. At(moved, i) = At(P, i) + (IF i > l THEN -n ELSE 0)
        BY <1>3, <2>1
      <3>2. At(P, i) \in Int
        BY <1>0
      <3> HIDE DEF moved
      <3> QED
        BY <3>1, <3>2
    <2> QED
      BY <1>3, <2>1, <2>2
  <1>5. /\ WellFormed(same) /\ same.last = P.last /\ same.stepPartition = l
        /\ \A i \in 0..P.last : At(same, i) = At(P, i) + (IF i > l THEN 0 ELSE 0)
    BY <1>3
  <1> HIDE DEF moved, same
  <1>6. \A i \in 0..P.last : At(same, i) = At(P, i)
    BY <1>0, <1>5
  <1>7. Covers(same, S, Len(t))
    <2>1. same.last - 1 = P.last - 1 /\ P.last \in 0..P.last
          /\ \A i \in 0..(P.last - 1) : i \in 0..P.last
      BY <1>0, <1>5
    <2> QED
      BY <1>0, <1>5, <1>6, <2>1 DEF Covers
  <1>8. ASSUME ~splits
        PROVE  Done(l + 1, moved, same)
    <2> HIDE DEF Q, q, R
    <2>1. Loosened(t, p) = S
      BY <1>8 DEF Loosened, S
    <2>0. PICK r : r = l + 1
      OBVIOUS
    <2>2. r \in 1..P.last /\ r - 1 = l
      BY <1>0, <1>1, <2>0
    <2>3. Shrunk(same, moved, r, n)
      <3>1. ASSUME NEW i \in 0..same.last
            PROVE  At(moved, i) = IF i < r THEN At(same, i) ELSE At(same, i) - n
        <4>1. i \in 0..P.last /\ (i < r <=> ~(i > l))
          BY <1>1, <1>5, <2>0
        <4>2. At(same, i) = At(P, i)
          BY <1>6, <4>1
        <4>3. At(moved, i) = IF i > l THEN At(P, i) - n ELSE At(P, i)
          BY <1>4, <4>1
        <4> QED
          BY <4>1, <4>2, <4>3
      <3>2. moved.stepPartition <= r
        BY <1>1, <1>4, <2>0
      <3> QED
        BY <1>4, <1>5, <3>1, <3>2 DEF Shrunk
    <2>4. Divided(same, r, p)
      <3>1. ASSUME NEW i \in 0..(r - 1)
            PROVE  At(same, i) <= p
        <4>1. i \in 0..l /\ i \in 0..P.last
          BY <1>0, <1>1, <2>2
        <4> QED
          BY <1>1, <1>6, <4>1
      <3>2. ASSUME NEW i \in r..(same.last - 1)
            PROVE  p < At(same, i)
        <4>1. i \in (l + 1)..(P.last - 1) /\ i \in 0..P.last
          BY <1>0, <1>1, <1>5, <2>0
        <4> QED
          BY <1>1, <1>6, <4>1
      <3> QED
        BY <1>5, <2>2, <3>1, <3>2 DEF Divided
    <2>5. ASSUME AfterCR(t, p)
          PROVE  r > 1 /\ At(same, r - 1) = p
      <3>1. ~BeforeLF(t, p)
        BY <1>8, <2>5
      <3>2. p \in 1..Len(t) /\ t[p] = CR /\ (p = Len(t) \/ t[p + 1] # LF)
        <4> HIDE DEF Done, splits
        <4> QED
          BY <1>2, <2>5, <3>1 DEF AfterCR, BeforeLF
      <3>3. EndsLine(t, p)
        BY <3>2 DEF EndsLine
      <3>4. At(P, l) = p
        BY <1>1, <1>2, <3>3
      <3>5. l # 0
        BY <1>1, <3>2, <3>4
      <3>6. l \in 0..P.last /\ r > 1
        BY <1>0, <1>1, <2>0, <3>5
      <3> QED
        BY <1>6, <2>2, <3>4, <3>6
    <2>6. Done(r, moved, same)
      BY <1>7, <2>1, <2>3, <2>4, <2>5
    <2> HIDE DEF Done
    <2> QED
      BY <2>0, <2>6
  <1>9. ASSUME splits
        PROVE  Done(l + 2, SetPartitionStartPosition(moved, l + 1, p),
                    SetPartitionStartPosition(same, l + 1, p))
    <2>0. PICK r : r = l + 1
      OBVIOUS
    <2>1. p > 0 /\ p < Len(t) /\ t[p] = CR /\ t[p + 1] = LF
      BY <1>9 DEF AfterCR, BeforeLF
    <2>2. p \notin S /\ p + 1 \in S
      <3>1. ~EndsLine(t, p) /\ p # 0
        BY <1>2, <2>1 DEF EndsLine
      <3>2. EndsLine(t, p + 1)
        BY <1>2, <2>1 DEF EndsLine
      <3> QED
        BY <1>2, <3>1, <3>2
    <2>3. r \in 0..(P.last - 1) /\ At(P, r) = p + 1
      <3>1. PICK i \in 0..(P.last - 1) : At(P, i) = p + 1
        BY <1>0, <2>2
      <3>2. ~(i \in 0..l)
        <4> SUFFICES ASSUME i \in 0..l
                     PROVE  FALSE
          OBVIOUS
        <4>1. At(P, i) <= p
          BY <1>1
        <4> QED
          BY <1>2, <3>1, <4>1
      <3>3. r \in 0..(P.last - 1) /\ r \in (l + 1)..(P.last - 1) /\ r \in 0..P.last /\ r <= i
        BY <1>0, <1>1, <2>0, <3>2
      <3>4. p < At(P, r) /\ At(P, r) \in Int
        BY <1>0, <1>1, <3>3
      <3>5. i = r
        <4> SUFFICES ASSUME r < i
                     PROVE  FALSE
          BY <3>3
        <4>1. At(P, r) < At(P, i)
          BY <1>0, <3>3
        <4> QED
          BY <1>2, <3>1, <3>4, <4>1
      <3> QED
        BY <3>1, <3>3, <3>5
    <2>4. PICK e : e = l + 2
      OBVIOUS
    <2>5. /\ r \in Nat /\ e = r + 1 /\ e - 1 = r /\ e \in 1..P.last /\ e > 1 /\ r - 1 = l
          /\ l \in 0..(P.last - 1) /\ r \in 0..P.last
      BY <1>0, <1>1, <2>0, <2>3, <2>4
    <2> DEFINE A == SetPartitionStartPosition(moved, r, p)
               B == SetPartitionStartPosition(same, r, p)
    <2> HIDE DEF A, B, Done, splits, Q, R, q
    <2>6. /\ WellFormed(A) /\ A.last = P.last /\ A.stepPartition <= e
          /\ \A i \in 0..P.last : At(A, i) = IF i = r THEN p ELSE At(moved, i)
      <3>1. r \in 0..(moved.last - 1) /\ r + 1 >= moved.stepPartition /\ p \in Int
        BY <1>2, <1>4, <2>3, <2>5
      <3>2. A.stepPartition <= r + 1
        BY <1>4, <3>1, SetPartitionStep DEF A
      <3>3. WellFormed(A) /\ A.last = moved.last
            /\ \A i \in 0..moved.last : At(A, i) = IF i = r THEN p ELSE At(moved, i)
        BY <1>4, <3>1, SetPartitionStartPositionSets DEF A
      <3> QED
        BY <1>4, <2>5, <3>2, <3>3
    <2>7. /\ WellFormed(B) /\ B.last = P.last
          /\ \A i \in 0..P.last : At(B, i) = IF i = r THEN p ELSE At(same, i)
          /\ r \in 0..(same.last - 1) /\ r + 1 >= same.stepPartition
      <3>1. r \in 0..(same.last - 1) /\ r + 1 >= same.stepPartition /\ p \in Int
        BY <1>2, <1>5, <2>3, <2>5
      <3>2. WellFormed(B) /\ B.last = same.last
            /\ \A i \in 0..same.last : At(B, i) = IF i = r THEN p ELSE At(same, i)
        BY <1>5, <3>1, SetPartitionStartPositionSets DEF B
      <3> QED
        BY <1>5, <3>1, <3>2
    <2>8. Covers(B, Loosened(t, p), Len(t))
      <3>1. \A i \in 0..(r - 1) : At(same, i) < p
        <4> SUFFICES ASSUME NEW i \in 0..(r - 1)
                     PROVE  At(same, i) < p
          OBVIOUS
        <4>1. i \in 0..l /\ i \in 0..P.last /\ i \in 0..(P.last - 1)
          BY <1>0, <1>1, <2>5
        <4>2. At(P, i) <= p /\ At(P, i) \in S /\ At(P, i) \in Int /\ At(same, i) = At(P, i)
          BY <1>0, <1>1, <1>6, <4>1
        <4> QED
          BY <1>2, <2>2, <4>2
      <3>2. \A i \in (r + 1)..(same.last - 1) : p < At(same, i)
        <4> SUFFICES ASSUME NEW i \in (r + 1)..(same.last - 1)
                     PROVE  p < At(same, i)
          OBVIOUS
        <4>1. i \in (l + 1)..(P.last - 1) /\ i \in 0..P.last
          BY <1>0, <1>1, <1>5, <2>0
        <4> QED
          BY <1>1, <1>6, <4>1
      <3>3. At(same, r) = p + 1 /\ p \in Int
        BY <1>2, <1>6, <2>3, <2>5
      <3>4. Covers(SetPartitionStartPosition(same, r, p), (S \ {At(same, r)}) \cup {p}, Len(t))
        BY <1>7, <2>7, <3>1, <3>2, <3>3, SetPartitionCovers
      <3>5. Loosened(t, p) = (S \ {p + 1}) \cup {p}
        BY <1>9 DEF Loosened, S, splits
      <3> QED
        BY <3>3, <3>4, <3>5 DEF B
    <2>9. ASSUME NEW i \in 0..P.last
          PROVE  /\ At(A, i) = IF i < e THEN At(B, i) ELSE At(B, i) - n
                 /\ i \in 0..(e - 1) => At(B, i) <= p
                 /\ i \in e..(B.last - 1) => p < At(B, i)
      <3>1. At(P, i) \in Int /\ At(same, i) = At(P, i)
        BY <1>0, <1>6
      <3>2. At(moved, i) = IF i > l THEN At(P, i) - n ELSE At(P, i)
        BY <1>4
      <3>3. At(A, i) = (IF i = r THEN p ELSE At(moved, i)) /\ At(B, i) = IF i = r THEN p ELSE At(same, i)
        BY <2>6, <2>7
      <3>4. CASE i = r
        <4>1. i < e /\ i \notin e..(B.last - 1)
          BY <2>5, <3>4
        <4> QED
          BY <1>2, <3>3, <3>4, <4>1
      <3>5. CASE i < r
        <4>1. i # r /\ i < e /\ ~(i > l) /\ i \notin e..(B.last - 1) /\ i \in 0..l
          BY <2>0, <2>5, <3>5
        <4>2. At(P, i) <= p
          BY <1>1, <4>1
        <4> QED
          BY <3>1, <3>2, <3>3, <4>1, <4>2
      <3>6. CASE i > r
        <4>1. i # r /\ ~(i < e) /\ i > l /\ i \notin 0..(e - 1)
          BY <2>0, <2>5, <3>6
        <4>2. i \in e..(B.last - 1) => i \in (l + 1)..(P.last - 1)
          BY <2>0, <2>5, <2>7
        <4>3. i \in e..(B.last - 1) => p < At(P, i)
          BY <1>1, <4>2
        <4> QED
          BY <3>1, <3>2, <3>3, <4>1, <4>3
      <3> QED
        BY <2>5, <3>4, <3>5, <3>6
    <2>10. Shrunk(B, A, e, n)
      BY <2>6, <2>7, <2>9 DEF Shrunk
    <2>11. Divided(B, e, p)
      <3>1. ASSUME NEW i \in 0..(e - 1)
            PROVE  At(B, i) <= p
        <4>1. i \in 0..P.last
          BY <1>0, <2>5
        <4> QED
          BY <2>9, <4>1
      <3>2. ASSUME NEW i \in e..(B.last - 1)
            PROVE  p < At(B, i)
        <4>1. i \in 0..P.last
          BY <1>0, <2>5, <2>7
        <4> QED
          BY <2>9, <4>1
      <3> QED
        BY <2>5, <2>7, <3>1, <3>2 DEF Divided
    <2>12. At(B, e - 1) = p
      BY <2>5, <2>7
    <2>13. Done(e, A, B)
      BY <2>5, <2>8, <2>10, <2>11, <2>12 DEF Done
    <2> QED
      BY <2>0, <2>4, <2>13 DEF A, B
  <1>10. Done(q, Q, R)
    <2> HIDE DEF Done
    <2> QED
      BY <1>8, <1>9
  <1> HIDE DEF Q, q, R
  <1>11. \E R1 : Done(q, Q, R1)
    BY <1>10
  <1> QED
    BY <1>11 DEF Q, q, l, moved

\* Which starts those are.
LEMMA LoosenedAre ==
    ASSUME NEW t \in Str, NEW p \in 0..Len(t)
    PROVE  /\ Loosened(t, p) \subseteq Nat
           /\ \A k \in Nat : k \in Loosened(t, p) <=>
                \/ k = 0
                \/ k < p /\ EndsLine(t, k)
                \/ k = p /\ p > 0 /\ (t[p] = LF \/ t[p] = CR)
                \/ p < k /\ EndsLine(t, k) /\ ~(AfterCR(t, p) /\ BeforeLF(t, p) /\ k = p + 1)
  <1>1. /\ Len(t) \in Nat /\ p \in Nat /\ CR # LF
        /\ LineStarts(t) \subseteq Nat
        /\ \A k : k \in LineStarts(t) <=> k = 0 \/ EndsLine(t, k)
    BY LineStartsAre, CellBufferAssumption DEF CellBufferAssumption
  <1>2. EndsLine(t, p) \/ (AfterCR(t, p) /\ BeforeLF(t, p))
        <=> p > 0 /\ (t[p] = LF \/ t[p] = CR)
    BY <1>1 DEF EndsLine, AfterCR, BeforeLF
  <1>3. Loosened(t, p) \subseteq Nat
    BY <1>1 DEF Loosened
  <1>4. ASSUME NEW k \in Nat
        PROVE  k \in Loosened(t, p) <=>
                 \/ k = 0
                 \/ k < p /\ EndsLine(t, k)
                 \/ k = p /\ p > 0 /\ (t[p] = LF \/ t[p] = CR)
                 \/ p < k /\ EndsLine(t, k) /\ ~(AfterCR(t, p) /\ BeforeLF(t, p) /\ k = p + 1)
    <2>1. k \in Loosened(t, p) <=>
            \/ k \in LineStarts(t) /\ ~(AfterCR(t, p) /\ BeforeLF(t, p) /\ k = p + 1)
            \/ AfterCR(t, p) /\ BeforeLF(t, p) /\ k = p
      <3>1. p # p + 1
        BY <1>1
      <3> QED
        BY <3>1 DEF Loosened
    <2>2. CASE k < p
      <3>1. k # p /\ k # p + 1 /\ ~(p < k)
        BY <1>1, <2>2
      <3> QED
        BY <1>1, <2>1, <2>2, <3>1
    <2>3. CASE k = p
      <3>1. k # p + 1 /\ ~(p < k) /\ ~(k < p)
        BY <1>1, <2>3
      <3>2. k \in Loosened(t, p) <=> k = 0 \/ (p > 0 /\ (t[p] = LF \/ t[p] = CR))
        BY <1>1, <1>2, <2>1, <2>3, <3>1
      <3> QED
        BY <2>3, <3>1, <3>2
    <2>4. CASE p < k
      <3>1. k # p /\ ~(k < p) /\ k # 0
        BY <1>1, <2>4
      <3> QED
        BY <1>1, <2>1, <2>4, <3>1
    <2> QED
      BY <1>1, <2>2, <2>3, <2>4
  <1> QED
    BY <1>3, <1>4

\* The starts in the deleted text are removed.
LEMMA LinesRemoved ==
    ASSUME NEW R, NEW S, NEW length \in Int, Covers(R, S, length), NEW Q, NEW q, NEW n \in Nat,
           Shrunk(R, Q, q, n), NEW p \in Nat, Divided(R, q, p),
           NEW G, \A k : k \in G <=> k \in S /\ p < k /\ k <= p + n
    PROVE  LET X == RemovePartitions(Q, q, Cardinality(G))
           IN  /\ Covers(X, {k \in S : k <= p} \cup {k - n : k \in {m \in S : m > p + n}}, length - n)
               /\ X.stepPartition <= q
               /\ Divided(X, q, p)
               /\ At(X, q - 1) = At(R, q - 1)
  <1> DEFINE T == {k \in S : k <= p} \cup {k - n : k \in {m \in S : m > p + n}}
             g == Cardinality(G)
             X == RemovePartitions(Q, q, g)
  <1>0. /\ R.last \in Nat /\ R.last > 0
        /\ \A i \in 0..R.last : At(R, i) \in Int
        /\ \A i, j \in 0..(R.last - 1) : i < j => At(R, i) < At(R, j)
        /\ \A i \in 0..(R.last - 1) : At(R, i) \in S
        /\ \A k \in S : \E i \in 0..(R.last - 1) : At(R, i) = k
    BY Positions DEF Covers
  <1>1. /\ WellFormed(Q) /\ Q.last = R.last /\ Q.stepPartition <= q
        /\ \A i \in 0..R.last : At(Q, i) = IF i < q THEN At(R, i) ELSE At(R, i) - n
    BY DEF Shrunk
  <1>2. /\ q \in 1..R.last /\ q \in 0..R.last /\ q \in Nat /\ q > 0
        /\ \A i \in 0..(q - 1) : At(R, i) <= p
        /\ \A i \in q..(R.last - 1) : p < At(R, i)
    BY <1>0 DEF Divided
  <1>3. PICK c \in Nat : /\ q + c <= R.last
                         /\ \A i \in q..(q + c - 1) : At(R, i) <= p + n
                         /\ \A i \in (q + c)..(R.last - 1) : p + n < At(R, i)
    <2>1. PICK x : x = p + n
      OBVIOUS
    <2>2. x \in Int
      BY <2>1
    <2>3. \E c \in Nat : /\ q + c <= R.last
                         /\ \A i \in q..(q + c - 1) : At(R, i) <= x
                         /\ \A i \in (q + c)..(R.last - 1) : x < At(R, i)
      BY <1>2, <2>2, StartsUpTo
    <2> QED
      BY <2>1, <2>3
  <1>4. ASSUME NEW k
        PROVE  k \in G <=> k \in S /\ \E i \in q..(q + c - 1) : At(R, i) = k
    <2>1. ASSUME k \in G
          PROVE  k \in S /\ \E i \in q..(q + c - 1) : At(R, i) = k
      <3>1. k \in S /\ p < k /\ k <= p + n
        BY <2>1
      <3>2. PICK i \in 0..(R.last - 1) : At(R, i) = k
        BY <1>0, <3>1
      <3>3. k \in Int
        BY <1>0, <3>2
      <3>4. i \notin 0..(q - 1)
        BY <1>2, <3>1, <3>2, <3>3
      <3>5. i \notin (q + c)..(R.last - 1)
        BY <1>3, <3>1, <3>2, <3>3
      <3>6. i \in q..(q + c - 1)
        BY <1>0, <1>2, <1>3, <3>4, <3>5
      <3> QED
        BY <3>1, <3>2, <3>6
    <2>2. ASSUME k \in S, NEW i \in q..(q + c - 1), At(R, i) = k
          PROVE  k \in G
      <3>1. i \in q..(R.last - 1)
        BY <1>0, <1>2, <1>3
      <3>2. p < k /\ k <= p + n
        BY <1>2, <1>3, <2>2, <3>1
      <3> QED
        BY <2>2, <3>2
    <2> QED
      BY <2>1, <2>2
  <1>5. g = c
    BY <1>2, <1>3, <1>4, StartsCounted
  <1> HIDE DEF g
  <1>6. /\ WellFormed(X)
        /\ X.last = R.last - c
        /\ X.stepPartition <= q
        /\ \A i \in 0..X.last : At(X, i) = IF i < q THEN At(Q, i) ELSE At(Q, i + c)
    BY <1>1, <1>2, <1>3, <1>5, RemovePartitionsRemoves
  <1> HIDE DEF X
  <1>7. ASSUME NEW i \in 0..X.last
        PROVE  At(X, i) = IF i < q THEN At(R, i) ELSE At(R, i + c) - n
    <2>1. i \in 0..R.last /\ i + c \in 0..R.last
      BY <1>0, <1>3, <1>6
    <2>2. CASE i < q
      BY <1>1, <1>6, <2>1, <2>2
    <2>3. CASE ~(i < q)
      <3>1. ~(i + c < q)
        BY <1>2, <1>3, <2>3
      <3>2. At(X, i) = At(Q, i + c)
        BY <1>6, <2>3
      <3>3. At(Q, i + c) = At(R, i + c) - n
        BY <1>1, <2>1, <3>1
      <3> QED
        BY <2>3, <3>2, <3>3
    <2> QED
      BY <2>2, <2>3
  <1>8. Covers(X, T, length - n)
    <2>1. \A i \in q..(q + c - 1) : p < At(R, i) /\ At(R, i) <= p + n
      <3>1. \A i \in q..(q + c - 1) : i \in q..(R.last - 1)
        BY <1>0, <1>2, <1>3
      <3> QED
        BY <1>2, <1>3, <3>1
    <2>2. /\ p \in Int /\ q \in 1..R.last /\ q + c <= R.last
          /\ \A i \in 0..(q - 1) : At(R, i) <= p
          /\ \A i \in (q + c)..(R.last - 1) : p + n < At(R, i)
      BY <1>2, <1>3
    <2>3. /\ WellFormed(X) /\ X.last = R.last - c
          /\ \A i \in 0..X.last : At(X, i) = IF i < q THEN At(R, i) ELSE At(R, i + c) - n
      BY <1>6, <1>7
    <2>4. Within(R, q, c, p, n) /\ Without(R, X, q, c, n)
      BY <2>1, <2>2, <2>3 DEF Within, Without
    <2> QED
      BY <1>2, <2>2, <2>4, ShrunkCovers
  <1>9. Divided(X, q, p)
    <2>1. q \in 1..X.last
      BY <1>0, <1>2, <1>3, <1>6
    <2>2. ASSUME NEW i \in 0..(q - 1)
          PROVE  At(X, i) <= p
      <3>1. i \in 0..X.last /\ i < q
        BY <1>0, <1>2, <1>3, <1>6, <2>1
      <3> QED
        BY <1>2, <1>7, <3>1
    <2>3. ASSUME NEW i \in q..(X.last - 1)
          PROVE  p < At(X, i)
      <3>1. i \in 0..X.last /\ ~(i < q) /\ i + c \in (q + c)..(R.last - 1) /\ i + c \in 0..R.last
        BY <1>0, <1>2, <1>3, <1>6
      <3>2. At(X, i) = At(R, i + c) - n /\ p + n < At(R, i + c) /\ At(R, i + c) \in Int
        BY <1>0, <1>3, <1>7, <3>1
      <3> QED
        BY <3>2
    <2> QED
      BY <2>1, <2>2, <2>3 DEF Divided
  <1>10. At(X, q - 1) = At(R, q - 1)
    <2>1. q - 1 \in 0..X.last /\ q - 1 < q
      BY <1>0, <1>2, <1>3, <1>6
    <2> QED
      BY <1>7, <2>1
  <1> HIDE DEF T
  <1> QED
    BY <1>6, <1>8, <1>9, <1>10 DEF X, g, T

\* A CR before a deletion and an LF after it become one line end.
LEMMA LinesJoined ==
    ASSUME NEW X, NEW T, NEW length, Covers(X, T, length), NEW q, NEW p \in Nat,
           X.stepPartition <= q, Divided(X, q, p), q > 1, At(X, q - 1) = p, p + 1 \in T
    PROVE  Covers(SetPartitionStartPosition(RemovePartition(X, q - 1), q - 1, p + 1), T \ {p}, length)
  <1>0. /\ WellFormed(X) /\ X.last \in Nat /\ X.last > 0 /\ X.stepPartition \in Nat
        /\ \A i \in 0..X.last : At(X, i) \in Int
        /\ \A i, j \in 0..(X.last - 1) : i < j => At(X, i) < At(X, j)
        /\ \A k \in T : \E i \in 0..(X.last - 1) : At(X, i) = k
    BY Positions DEF Covers, WellFormed
  <1>1. /\ q \in 1..X.last
        /\ \A i \in 0..(q - 1) : At(X, i) <= p
        /\ \A i \in q..(X.last - 1) : p < At(X, i)
    BY DEF Divided
  <1>2. PICK r : r = q - 1
    OBVIOUS
  <1>3. q \in 0..(X.last - 1) /\ At(X, q) = p + 1
    <2>1. PICK i \in 0..(X.last - 1) : At(X, i) = p + 1
      BY <1>0
    <2>2. i \notin 0..(q - 1)
      BY <1>1, <2>1
    <2>3. q \in 0..(X.last - 1) /\ q \in q..(X.last - 1) /\ q \in 0..X.last /\ q <= i
      BY <1>0, <1>1, <2>2
    <2>4. i = q
      <3> SUFFICES ASSUME q < i
                   PROVE  FALSE
        BY <2>3
      <3>1. At(X, q) < At(X, i) /\ p < At(X, q) /\ At(X, q) \in Int
        BY <1>0, <1>1, <2>3
      <3> QED
        BY <2>1, <3>1
    <2> QED
      BY <2>1, <2>3, <2>4
  <1>4. r \in Nat /\ r \in 1..(X.last - 1) /\ r + 1 = q /\ X.stepPartition <= r + 1 /\ At(X, r) = p
    BY <1>0, <1>1, <1>2, <1>3
  <1> DEFINE Y == RemovePartition(X, r)
  <1>5. /\ WellFormed(Y) /\ Y.last = X.last - 1
        /\ \A i \in 0..Y.last : At(Y, i) = IF i < r THEN At(X, i) ELSE At(X, i + 1)
    BY <1>0, <1>4, RemovePartitionRemoves
  <1>6. Y.stepPartition <= r
    BY <1>0, <1>4, RemovePartitionStep
  <1>7. Covers(Y, T \ {At(X, r)}, length)
    BY <1>4, RemovePartitionCovers
  <1> HIDE DEF Y
  <1>8. r \in 0..(Y.last - 1) /\ At(Y, r) = p + 1
    <2>1. r \in 0..(Y.last - 1) /\ r \in 0..Y.last /\ ~(r < r)
      BY <1>0, <1>3, <1>4, <1>5
    <2> QED
      BY <1>3, <1>4, <1>5, <2>1
  <1>9. \A i \in 0..(r - 1) : At(Y, i) < p + 1
    <2> SUFFICES ASSUME NEW i \in 0..(r - 1)
                 PROVE  At(Y, i) < p + 1
      OBVIOUS
    <2>1. i \in 0..Y.last /\ i < r /\ i \in 0..(q - 1) /\ i \in 0..X.last
      BY <1>0, <1>4, <1>5, <1>8
    <2>2. At(Y, i) = At(X, i) /\ At(X, i) <= p /\ At(X, i) \in Int
      BY <1>0, <1>1, <1>5, <2>1
    <2> QED
      BY <2>2
  <1>10. \A i \in (r + 1)..(Y.last - 1) : p + 1 < At(Y, i)
    <2> SUFFICES ASSUME NEW i \in (r + 1)..(Y.last - 1)
                 PROVE  p + 1 < At(Y, i)
      OBVIOUS
    <2>1. i \in 0..Y.last /\ ~(i < r) /\ i + 1 \in 0..(X.last - 1) /\ q < i + 1
      BY <1>0, <1>4, <1>5, <1>8
    <2>2. At(X, q) < At(X, i + 1) /\ At(Y, i) = At(X, i + 1)
      BY <1>0, <1>3, <1>5, <2>1
    <2> QED
      BY <1>3, <2>2
  <1>11. r + 1 >= Y.stepPartition /\ p + 1 \in Int
    <2>1. Y.stepPartition \in Nat
      BY <1>5 DEF WellFormed
    <2> QED
      BY <1>4, <1>6, <2>1
  <1>12. PICK z : z = p + 1
    OBVIOUS
  <1>13. Covers(SetPartitionStartPosition(Y, r, z), ((T \ {At(X, r)}) \ {At(Y, r)}) \cup {z}, length)
    BY <1>7, <1>8, <1>9, <1>10, <1>11, <1>12, SetPartitionCovers
  <1>14. ((T \ {At(X, r)}) \ {At(Y, r)}) \cup {z} = T \ {p}
    BY <1>4, <1>8, <1>12
  <1> QED
    BY <1>2, <1>12, <1>13, <1>14 DEF Y

\* The lines of an empty text.
LEMMA FreshLines ==
    ASSUME NEW t \in Str, Len(t) = 0
    PROVE  Lines(Fresh, t)
  <1>1. LineStarts(t) = {0}
    BY LineStartsAre
  <1>2. WellFormed(Fresh) /\ Fresh.last = 1 /\ At(Fresh, 0) = 0 /\ At(Fresh, 1) = 0
    BY DEF WellFormed, Fresh, At, PositionFromPartition
  <1>3. \A i \in 0..(Fresh.last - 1) : i = 0
    BY <1>2
  <1>4. 0 \in 0..(Fresh.last - 1)
    BY <1>2
  <1> QED
    BY <1>1, <1>2, <1>3, <1>4 DEF Lines, Covers

\* The line starts after a deletion are those of the text.
LEMMA DeletedLines ==
    ASSUME NEW t \in Str, Lines(starts, t), NEW n \in Nat, n > 0, NEW p \in 0..Len(t), p + n <= Len(t)
    PROVE  Lines(DeletedStarts(t, p, n), Deleted(t, p, n))
  <1> DEFINE length == Len(t)
             l == PartitionFromPosition(starts, p)
             moved == InsertText(starts, l, -n)
             splits == AfterCR(t, p) /\ BeforeLF(t, p)
             q == IF splits THEN l + 2 ELSE l + 1
             split == IF splits THEN SetPartitionStartPosition(moved, l + 1, p) ELSE moved
             G == LineEndsIn(t, IF splits THEN p + 1 ELSE p) \cap 1..(p + n)
             removed == RemovePartitions(split, q, Cardinality(G))
             joins == AfterCR(t, p) /\ BeforeLF(t, p + n)
             joined == SetPartitionStartPosition(RemovePartition(removed, q - 1), q - 1, p + 1)
             final == IF joins THEN joined ELSE removed
             u == Deleted(t, p, n)
             S == Loosened(t, p)
             T == {k \in S : k <= p} \cup {k - n : k \in {m \in S : m > p + n}}
  <1>1. /\ length \in Nat /\ p \in Nat /\ CR # LF /\ p + n \in 0..Len(t)
        /\ u \in Str /\ Len(u) = length - n
    <2>1. length \in Nat /\ CR # LF
      BY LineStartsAre, CellBufferAssumption DEF CellBufferAssumption
    <2>2. u \in Str /\ Len(u) = length - n
      BY DeletedAt
    <2> HIDE DEF u, final, removed, joins, joined
    <2> QED
      BY <2>1, <2>2
  <1>2. CASE p = 0 /\ n = length
    <2>1. DeletedStarts(t, p, n) = Fresh
      BY <1>2 DEF DeletedStarts
    <2>2. Len(u) = 0
      BY <1>1, <1>2
    <2> HIDE DEF u
    <2> QED
      BY <1>1, <2>1, <2>2, FreshLines DEF u
  <1>3. CASE ~(p = 0 /\ n = length)
    <2>1. DeletedStarts(t, p, n) = final
      <3>1. /\ ValueAt(t, p - 1) = CR <=> AfterCR(t, p)
            /\ ValueAt(t, p) = LF <=> BeforeLF(t, p)
        BY ValuesAround DEF AfterCR, BeforeLF
      <3>2. ValueAt(t, p + n) = LF <=> BeforeLF(t, p + n)
        BY <1>1, ValuesAround DEF BeforeLF
      <3> QED
        BY <1>3, <3>1, <3>2 DEF DeletedStarts
    <2>2. PICK R : /\ Covers(R, S, length)
                   /\ Shrunk(R, split, q, n)
                   /\ Divided(R, q, p)
                   /\ AfterCR(t, p) => q > 1 /\ At(R, q - 1) = p
      BY LinesLoosened
    <2> HIDE DEF split, q, l, moved, S
    <2>3. /\ S \subseteq Nat
          /\ \A k \in Nat : k \in S <=>
               \/ k = 0
               \/ k < p /\ EndsLine(t, k)
               \/ k = p /\ p > 0 /\ (t[p] = LF \/ t[p] = CR)
               \/ p < k /\ EndsLine(t, k) /\ ~(splits /\ k = p + 1)
      BY LoosenedAre DEF S
    <2>4. ASSUME NEW k
          PROVE  k \in G <=> k \in S /\ p < k /\ k <= p + n
      <3> DEFINE first == IF splits THEN p + 1 ELSE p
      <3>1. first \in Nat
        BY <1>1
      <3>2. G \subseteq Nat
        OBVIOUS
      <3>3. ASSUME NEW m \in Nat
            PROVE  m \in G <=> m \in S /\ p < m /\ m <= p + n
        <4>1. m \in G <=> first < m /\ EndsLine(t, m) /\ m <= p + n
          <5>1. m \in LineEndsIn(t, first) <=> first < m /\ EndsLine(t, m)
            BY <3>1, LineStartsAre
          <5>2. first < m /\ m <= p + n => m \in 1..(p + n)
            BY <1>1, <3>1
          <5>3. m \in 1..(p + n) => m <= p + n
            BY <1>1
          <5>4. m \in G <=> m \in LineEndsIn(t, first) /\ m \in 1..(p + n)
            OBVIOUS
          <5> HIDE DEF G, first
          <5> QED
            BY <5>1, <5>2, <5>3, <5>4
        <4>2. first < m <=> p < m /\ ~(splits /\ m = p + 1)
          BY <1>1
        <4>3. ASSUME p < m
              PROVE  m \in S <=> EndsLine(t, m) /\ ~(splits /\ m = p + 1)
          <5>1. m # 0 /\ ~(m < p) /\ m # p
            BY <1>1, <4>3
          <5> HIDE DEF splits, G
          <5> QED
            BY <2>3, <4>3, <5>1
        <4> HIDE DEF G, first, splits
        <4> QED
          BY <4>1, <4>2, <4>3
      <3> HIDE DEF G
      <3> QED
        BY <2>3, <3>2, <3>3
    <2>5. /\ Covers(removed, T, length - n)
          /\ removed.stepPartition <= q
          /\ Divided(removed, q, p)
          /\ At(removed, q - 1) = At(R, q - 1)
      <3>1. length \in Int /\ p \in Nat
        BY <1>1
      <3> HIDE DEF length, G
      <3> QED
        BY <2>2, <2>4, <3>1, LinesRemoved
    <2> HIDE DEF removed, T
    <2>6. /\ T \subseteq Nat
          /\ \A k \in Nat : k \in T <=>
               \/ k = 0
               \/ k < p /\ EndsLine(t, k)
               \/ k = p /\ p > 0 /\ (t[p] = LF \/ t[p] = CR)
               \/ p < k /\ EndsLine(t, k + n)
      <3>1. ASSUME NEW k
            PROVE  k \in T <=> (k \in S /\ k <= p) \/ \E m \in S : m > p + n /\ k = m - n
        BY DEF T
      <3>2. ASSUME NEW k \in Nat
            PROVE  (\E m \in S : m > p + n /\ k = m - n) <=> p < k /\ EndsLine(t, k + n)
        <4>1. k + n \in Nat /\ (k + n) - n = k /\ (k + n > p + n <=> p < k)
          BY <1>1
        <4>2. ASSUME NEW m \in S, m > p + n, k = m - n
              PROVE  m = k + n
          <5>1. m \in Nat
            BY <2>3
          <5> QED
            BY <4>2, <5>1
        <4>3. ASSUME p < k
              PROVE  k + n \in S <=> EndsLine(t, k + n)
          <5>1. k + n # 0 /\ ~(k + n < p) /\ k + n # p /\ p < k + n /\ k + n # p + 1
            BY <1>1, <4>3
          <5> HIDE DEF splits
          <5> QED
            BY <2>3, <4>1, <5>1
        <4> QED
          BY <4>1, <4>2, <4>3
      <3>3. ASSUME NEW k \in Nat
            PROVE  k \in S /\ k <= p <=>
                     \/ k = 0
                     \/ k < p /\ EndsLine(t, k)
                     \/ k = p /\ p > 0 /\ (t[p] = LF \/ t[p] = CR)
        <4>1. k <= p => ~(p < k)
          BY <1>1
        <4>2. k = 0 \/ k < p \/ k = p => k <= p
          BY <1>1
        <4> HIDE DEF splits
        <4> QED
          BY <2>3, <4>1, <4>2
      <3>4. T \subseteq Nat
        <4>1. ASSUME NEW m \in S, m > p + n
              PROVE  m - n \in Nat
          <5>1. m \in Nat
            BY <2>3
          <5> QED
            BY <1>1, <4>1, <5>1
        <4> QED
          BY <2>3, <3>1, <4>1, ZenonT(30)
      <3> QED
        BY <3>1, <3>2, <3>3, <3>4
    <2>7. Covers(final, IF joins THEN T \ {p} ELSE T, length - n)
      <3>1. CASE joins
        <4>1. p + 1 \in T
          <5>1. EndsLine(t, p + 1 + n)
            <6>1. p + n < Len(t) /\ t[p + n + 1] = LF
              BY <3>1 DEF BeforeLF
            <6>2. p + 1 + n = p + n + 1 /\ p + n + 1 \in 1..Len(t)
              BY <1>1, <6>1
            <6> QED
              BY <6>1, <6>2 DEF EndsLine
          <5>2. p + 1 \in Nat /\ p < p + 1
            BY <1>1
          <5> QED
            BY <2>6, <5>1, <5>2
        <4>2. q > 1 /\ At(removed, q - 1) = p
          BY <2>2, <2>5, <3>1
        <4>3. Covers(joined, T \ {p}, length - n)
          <5>1. p \in Nat
            BY <1>1
          <5> QED
            BY <2>5, <4>1, <4>2, <5>1, LinesJoined
        <4> QED
          BY <3>1, <4>3
      <3>2. CASE ~joins
        BY <2>5, <3>2
      <3> QED
        BY <3>1, <3>2
    <2>8. LineStarts(u) = IF joins THEN T \ {p} ELSE T
      <3> HIDE DEF u, joins, length, final, joined
      <3>1. LineStarts(u) \subseteq Nat
        BY <1>1, LineStartsAre
      <3>2. ASSUME NEW k \in Nat
            PROVE  k \in LineStarts(u) <=> k \in T /\ ~(joins /\ k = p)
        <4>1. k \in LineStarts(u) <=> k = 0 \/ EndsLine(u, k)
          BY <1>1, LineStartsAre
        <4>2. EndsLine(u, k) <=>
                \/ k < p /\ EndsLine(t, k)
                \/ k = p /\ p > 0 /\ (t[p] = LF \/ (t[p] = CR /\ ~BeforeLF(t, p + n)))
                \/ p < k /\ EndsLine(t, k + n)
          BY DeletedEnds, Zenon DEF u, BeforeLF
        <4>3. joins <=> p > 0 /\ t[p] = CR /\ BeforeLF(t, p + n)
          BY DEF joins, AfterCR
        <4>4. k = p /\ p > 0 => k # 0 /\ ~(k < p) /\ ~(p < k)
          BY <1>1
        <4> QED
          BY <1>1, <2>6, <4>1, <4>2, <4>3, <4>4
      <3> QED
        BY <2>6, <3>1, <3>2
    <2> QED
      BY <1>1, <2>1, <2>7, <2>8 DEF Lines
  <1> QED
    BY <1>2, <1>3

\* The line starts of a loaded text are those of the text.
LEMMA LoadedLines ==
    ASSUME NEW s \in Str
    PROVE  Lines(LoadedStarts(s), s)
  <1> DEFINE L == Len(s)
             E == LineEndsIn(s, 0)
             new == SortedAscending(E)
             moved == InsertText(Fresh, 0, L)
  <1>1. L \in Nat /\ (s = <<>> => L = 0) /\ (s # <<>> => L > 0)
    BY LenProperties, EmptySeq DEF Str
  <1>2. CASE s = <<>>
    BY <1>1, <1>2, FreshLines DEF LoadedStarts
  <1>3. CASE s # <<>>
    <2>1. /\ WellFormed(Fresh) /\ Fresh.last = 1
          /\ Covers(Fresh, {0}, 0)
      <3>1. WellFormed(Fresh) /\ Fresh.last = 1 /\ At(Fresh, 0) = 0 /\ At(Fresh, 1) = 0
        BY DEF WellFormed, Fresh, At, PositionFromPartition
      <3>2. 0 \in 0..(Fresh.last - 1) /\ \A i \in 0..(Fresh.last - 1) : i = 0
        BY <3>1
      <3> QED
        BY <3>1, <3>2 DEF Covers
    <2>2. /\ WellFormed(moved) /\ moved.last = 1
          /\ At(moved, 0) = 0
          /\ Covers(moved, {0}, L)
      <3>1. 0 \in 0..(Fresh.last - 1) /\ 0 \in 0..Fresh.last /\ ~(0 > 0)
        BY <2>1
      <3>2. At(Fresh, 0) = 0
        BY DEF Fresh, At, PositionFromPartition
      <3>3. /\ WellFormed(moved) /\ moved.last = Fresh.last
            /\ At(moved, 0) = At(Fresh, 0) + (IF 0 > 0 THEN L ELSE 0)
        BY <1>1, <2>1, <3>1, InsertTextShifts
      <3>4. Covers(moved, {k \in {0} : k <= At(Fresh, 0)}
                          \cup {k + L : k \in {m \in {0} : m > At(Fresh, 0)}}, 0 + L)
        BY <1>1, <2>1, <3>1, InsertTextCovers
      <3>5. {k \in {0} : k <= At(Fresh, 0)} = {0} /\ {m \in {0} : m > At(Fresh, 0)} = {} /\ 0 + L = L
        BY <1>1, <3>2
      <3>6. {k + L : k \in {}} = {}
        OBVIOUS
      <3> HIDE DEF moved, L
      <3>7. Covers(moved, {0} \cup {}, L)
        BY <3>4, <3>5, <3>6
      <3>8. {0} \cup {} = {0}
        OBVIOUS
      <3> QED
        BY <2>1, <3>2, <3>3, <3>7, <3>8
    <2>3. Between(moved, 1, 0, E, L)
      <3>1. E \in SUBSET (1..L) /\ \A k \in E : k \in Nat /\ 0 < k
        BY LineStartsAre DEF LineEndsIn
      <3> HIDE DEF moved, E, L
      <3> QED
        BY <1>1, <2>2, <3>1 DEF Between
    <2>4. LoadedStarts(s) = Filled(moved, 1, 0, E)
      <3>1. E \in SUBSET (1..L)
        BY LineStartsAre
      <3>2. new \in Seq(E) /\ \A i \in 1..Len(new) : new[i] \in E
        BY <1>1, <3>1, Sorted
      <3>3. [i \in 1..Len(new) |-> 0 + new[i]] = new
        <4>1. \A i \in 1..Len(new) : 0 + new[i] = new[i]
          <5>1. \A k \in E : k \in Int
            BY <3>1
          <5> HIDE DEF new, E
          <5> QED
            BY <3>2, <5>1
        <4>2. new \in [1..Len(new) -> E]
          BY <3>2, LenProperties
        <4>3. new = [i \in 1..Len(new) |-> new[i]]
          BY <4>2
        <4> HIDE DEF new
        <4> QED
          BY <4>1, <4>3
      <3> HIDE DEF moved
      <3> QED
        BY <1>3, <3>3 DEF LoadedStarts, Filled, moved
    <2>5. LineStarts(s) = {0} \cup {0 + k : k \in E}
      <3>1. \A k \in E : k \in Nat /\ 0 + k = k
        BY DEF LineEndsIn
      <3> QED
        BY <3>1 DEF LineStarts
    <2> HIDE DEF moved, E, L
    <2>6. Covers(Filled(moved, 1, 0, E), {0} \cup {0 + k : k \in E}, L)
      BY <2>2, <2>3, LinesFilled
    <2> QED
      BY <2>4, <2>5, <2>6 DEF Lines, L
  <1> QED
    BY <1>2, <1>3

-----------------------------------------------------------------------------
(* The invariant. *)

\* No action is empty: an edit inserts or deletes something.
NoneEmpty == \A i \in 1..Len(actions) : actions[i].lenData > 0

\* The remaining variables.  A composition has a text to insert.
Others ==
    /\ op.next \in Composed \cup {<<>>}
    /\ op.kind \in {"compose", "result", "insert"} => op.next \in Composed
    /\ undoSequenceDepth \in Nat
    /\ groupStart \in Nat \cup {None}
    /\ savedText \in Str
    /\ recoded \in BOOLEAN

LInv == Lines(starts, substance) /\ NoneEmpty /\ Others

\* A string that is inserted is not empty.
LEMMA StringsNotEmpty ==
    ASSUME NEW s \in Strings
    PROVE  s \in Str /\ Len(s) \in Nat /\ Len(s) > 0
  <1>1. s # <<>>
    BY CellBufferAssumption DEF CellBufferAssumption
  <1>2. s \in Str
    BY StringsAreTexts
  <1> QED
    BY <1>1, <1>2, LenProperties, EmptySeq DEF Str

\* Ending user operations leaves the lengths of the actions alone.
LEMMA ClosedNoneEmpty ==
    ASSUME Shape, NoneEmpty,
           actions' = actions \/ actions' = Closed(actions, currentAction)
    PROVE  NoneEmpty'
  <1>1. actions \in Seq(Action) /\ currentAction \in 0..Len(actions)
    BY DEF Shape
  <1>2. CASE actions' = actions
    BY <1>2 DEF NoneEmpty
  <1>3. CASE actions' = Closed(actions, currentAction)
    BY <1>1, <1>3, ClosedSame DEF NoneEmpty
  <1> QED
    BY <1>2, <1>3

\* A new action is not empty, and the ones before it stay as long as they were.
LEMMA AppendNoneEmpty ==
    ASSUME Shape, NoneEmpty, NEW kind \in {"insert", "remove"}, NEW p \in Nat,
           NEW data \in Str, Len(data) > 0, AppendAction(kind, p, data)
    PROVE  NoneEmpty'
  <1> DEFINE c == currentAction
             done == SubSeq(actions, 1, c)
             before == IF Coalesces(kind, p, Len(data)) THEN done ELSE Closed(done, c)
             new == [at |-> kind, position |-> p, lenData |-> Len(data), mayCoalesce |-> TRUE]
  <1>1. /\ actions \in Seq(Action) /\ c \in 0..Len(actions) /\ Len(actions) \in Nat
        /\ c \in Nat /\ Len(data) \in Nat
    BY LenProperties DEF Shape, Str
  <1>2. done \in Seq(Action) /\ Len(done) = c /\ \A i \in 1..c : done[i] = actions[i]
    BY <1>1, FirstPart
  <1>3. new \in Action /\ new.lenData = Len(data)
    BY <1>1 DEF Action
  <1>4. actions' = Append(before, new)
    BY DEF AppendAction
  <1> HIDE DEF done, new
  <1>5. before \in Seq(Action) /\ Len(before) = c /\ \A i \in 1..c : before[i].lenData > 0
    <2>1. \A i \in 1..c : done[i].lenData > 0
      BY <1>1, <1>2 DEF NoneEmpty
    <2>2. c \in 0..Len(done)
      BY <1>1, <1>2
    <2>3. /\ Closed(done, c) \in Seq(Action) /\ Len(Closed(done, c)) = Len(done)
          /\ \A i \in 1..Len(done) : Closed(done, c)[i].lenData = done[i].lenData
      BY <1>2, <2>2, ClosedSame
    <2> QED
      BY <1>2, <2>1, <2>3
  <1> HIDE DEF before
  <1>6. /\ Len(Append(before, new)) = c + 1 /\ Append(before, new)[c + 1] = new
        /\ \A i \in 1..c : Append(before, new)[i] = before[i]
    BY <1>3, <1>5, AppendProperties
  <1>7. \A i \in 1..c + 1 : i = c + 1 \/ i \in 1..c
    BY <1>1
  <1> QED
    BY <1>3, <1>4, <1>5, <1>6, <1>7 DEF NoneEmpty

\* An insertion by the user.
LEMMA InsertStringLines ==
    ASSUME Shape, LInv, NEW position \in 0..Len(substance), NEW s \in Strings,
           InsertString(position, s)
    PROVE  Lines(starts, substance)' /\ NoneEmpty'
  <1>1. substance \in Str /\ Len(substance) \in Nat
    BY SubstanceIsText
  <1>2. s \in Str /\ Len(s) \in Nat /\ Len(s) > 0
    BY StringsNotEmpty
  <1>3. /\ AppendAction("insert", position, s)
        /\ substance' = Inserted(substance, position, s)
        /\ starts' = InsertedStarts(substance, position, s)
    BY DEF InsertString, BasicInsertString
  <1>4. Lines(InsertedStarts(substance, position, s), Inserted(substance, position, s))
    BY <1>1, <1>2, InsertedLines DEF LInv
  <1>5. position \in Nat
    BY <1>1
  <1>6. NoneEmpty'
    BY <1>2, <1>3, <1>5, AppendNoneEmpty DEF LInv
  <1> QED
    BY <1>3, <1>4, <1>6

\* A deletion by the user.
LEMMA DeleteCharsLines ==
    ASSUME Shape, LInv, NEW position \in Nat, NEW length \in Nat, length > 0,
           position + length <= Len(substance), DeleteChars(position, length)
    PROVE  Lines(starts, substance)' /\ NoneEmpty'
  <1> DEFINE data == SubSeq(substance, position + 1, position + length)
  <1>1. substance \in Str /\ Len(substance) \in Nat
    BY SubstanceIsText
  <1>2. position \in 0..Len(substance)
    BY <1>1
  <1>3. data \in Str /\ Len(data) = length
    BY <1>1, <1>2, InsertDeleted
  <1>4. /\ AppendAction("remove", position, data)
        /\ substance' = Deleted(substance, position, length)
        /\ starts' = DeletedStarts(substance, position, length)
    BY DEF DeleteChars, BasicDeleteChars
  <1>5. Lines(DeletedStarts(substance, position, length), Deleted(substance, position, length))
    BY <1>1, <1>2, DeletedLines DEF LInv
  <1> HIDE DEF data
  <1>6. NoneEmpty'
    BY <1>3, <1>4, AppendNoneEmpty DEF LInv
  <1> QED
    BY <1>4, <1>5, <1>6

\* An undone insertion is in the text, and an undone deletion was somewhere in it.
LEMMA UndoLines ==
    ASSUME Shape, Stacked, Steps, Underway, LInv, PerformUndoStep
    PROVE  Lines(starts, substance)'
  <1> DEFINE c == currentAction
             a == actions[c]
  <1>1. c \in 1..Len(actions) /\ Len(actions) \in Nat
    BY LenProperties DEF PerformUndoStep, Shape, Underway
  <1>2. /\ a.at \in {"insert", "remove"} /\ a.position \in Nat /\ a.lenData \in Nat
        /\ Scrap(c) \in Str /\ Len(Scrap(c)) = a.lenData
        /\ scrapAt[c] \in Nat /\ scrapAt[c + 1] = scrapAt[c] + a.lenData
        /\ texts[c] \in Str
        /\ Leads(a, Scrap(c), texts[c], texts[c + 1])
    BY <1>1, StepFacts
  <1>3. a.lenData > 0
    BY <1>1 DEF LInv, NoneEmpty
  <1>4. substance = texts[c + 1] /\ scrapCurrent = scrapAt[c + 1]
    BY DEF Shape, Stacked
  <1>5. substance \in Str /\ Len(substance) \in Nat
    BY SubstanceIsText
  <1>6. CASE a.at = "insert"
    <2>1. a.position \in 0..Len(texts[c]) /\ substance = Inserted(texts[c], a.position, Scrap(c))
      BY <1>2, <1>4, <1>6, LenProperties DEF Leads, Str
    <2>2. Len(substance) = Len(texts[c]) + a.lenData
      <3> DEFINE t == texts[c]
      <3>1. t \in Str /\ Scrap(c) \in Str /\ a.position \in 0..Len(t)
        BY <1>2, <2>1
      <3> HIDE DEF t, a, c
      <3>2. Len(Inserted(t, a.position, Scrap(c))) = Len(t) + Len(Scrap(c))
        BY <3>1, InsertedAt
      <3> QED
        BY <1>2, <2>1, <3>2 DEF t
    <2>3. a.position \in 0..Len(substance) /\ a.position + a.lenData <= Len(substance)
      BY <1>2, <1>5, <2>1, <2>2, LenProperties DEF Str
    <2>4. /\ substance' = Deleted(substance, a.position, a.lenData)
          /\ starts' = DeletedStarts(substance, a.position, a.lenData)
      BY <1>6 DEF PerformUndoStep, BasicDeleteChars
    <2>5. Lines(DeletedStarts(substance, a.position, a.lenData),
                Deleted(substance, a.position, a.lenData))
      <3> HIDE DEF a
      <3> QED
        BY <1>2, <1>3, <1>5, <2>3, DeletedLines DEF LInv
    <2> QED
      BY <2>4, <2>5
  <1>7. CASE a.at = "remove"
    <2>1. UndoData = Scrap(c)
      <3>1. scrapCurrent - a.lenData = scrapAt[c]
        BY <1>2, <1>4
      <3> QED
        BY <3>1, <1>4 DEF UndoData, Scrap
    <2>2. a.position \in 0..Len(substance)
      BY <1>2, <1>4, <1>5, <1>7 DEF Leads
    <2>3. /\ substance' = Inserted(substance, a.position, Scrap(c))
          /\ starts' = InsertedStarts(substance, a.position, Scrap(c))
      BY <1>7, <2>1 DEF PerformUndoStep, BasicInsertString
    <2>4. Lines(InsertedStarts(substance, a.position, Scrap(c)),
                Inserted(substance, a.position, Scrap(c)))
      <3>1. Scrap(c) \in Str /\ Len(Scrap(c)) > 0
        BY <1>2, <1>3
      <3> HIDE DEF a
      <3> QED
        BY <1>5, <2>2, <3>1, InsertedLines DEF LInv
    <2> QED
      BY <2>3, <2>4
  <1> QED
    BY <1>2, <1>6, <1>7

\* A redone insertion has room in the text, and a redone deletion is in it.
LEMMA RedoLines ==
    ASSUME Shape, Stacked, Steps, Underway, LInv, PerformRedoStep
    PROVE  Lines(starts, substance)'
  <1> DEFINE n == currentAction + 1
             a == actions[n]
  <1>1. n \in 1..Len(actions) /\ Len(actions) \in Nat
    BY LenProperties DEF PerformRedoStep, Shape, Underway
  <1>2. /\ a.at \in {"insert", "remove"} /\ a.position \in Nat /\ a.lenData \in Nat
        /\ Scrap(n) \in Str /\ Len(Scrap(n)) = a.lenData
        /\ scrapAt[n] \in Nat /\ scrapAt[n + 1] = scrapAt[n] + a.lenData
        /\ texts[n + 1] \in Str
        /\ Leads(a, Scrap(n), texts[n], texts[n + 1])
    BY <1>1, StepFacts
  <1>3. a.lenData > 0
    BY <1>1 DEF LInv, NoneEmpty
  <1>4. substance = texts[n] /\ scrapCurrent = scrapAt[n]
    BY DEF Shape, Stacked
  <1>5. substance \in Str /\ Len(substance) \in Nat
    BY SubstanceIsText
  <1>6. CASE a.at = "remove"
    <2>1. /\ a.position \in 0..Len(texts[n + 1])
          /\ substance = Inserted(texts[n + 1], a.position, Scrap(n))
      BY <1>2, <1>4, <1>6, LenProperties DEF Leads, Str
    <2>2. Len(substance) = Len(texts[n + 1]) + a.lenData
      <3> DEFINE t == texts[n + 1]
      <3>1. t \in Str /\ Scrap(n) \in Str /\ a.position \in 0..Len(t)
        BY <1>2, <2>1
      <3> HIDE DEF t, a, n
      <3>2. Len(Inserted(t, a.position, Scrap(n))) = Len(t) + Len(Scrap(n))
        BY <3>1, InsertedAt
      <3> QED
        BY <1>2, <2>1, <3>2 DEF t
    <2>3. a.position \in 0..Len(substance) /\ a.position + a.lenData <= Len(substance)
      BY <1>2, <1>5, <2>1, <2>2, LenProperties DEF Str
    <2>4. /\ substance' = Deleted(substance, a.position, a.lenData)
          /\ starts' = DeletedStarts(substance, a.position, a.lenData)
      BY <1>6 DEF PerformRedoStep, BasicDeleteChars
    <2>5. Lines(DeletedStarts(substance, a.position, a.lenData),
                Deleted(substance, a.position, a.lenData))
      <3> HIDE DEF a
      <3> QED
        BY <1>2, <1>3, <1>5, <2>3, DeletedLines DEF LInv
    <2> QED
      BY <2>4, <2>5
  <1>7. CASE a.at = "insert"
    <2>1. RedoData = Scrap(n)
      BY <1>2, <1>4 DEF RedoData, Scrap
    <2>2. a.position \in 0..Len(substance)
      BY <1>2, <1>4, <1>5, <1>7 DEF Leads
    <2>3. /\ substance' = Inserted(substance, a.position, Scrap(n))
          /\ starts' = InsertedStarts(substance, a.position, Scrap(n))
      BY <1>7, <2>1 DEF PerformRedoStep, BasicInsertString
    <2>4. Lines(InsertedStarts(substance, a.position, Scrap(n)),
                Inserted(substance, a.position, Scrap(n)))
      <3>1. Scrap(n) \in Str /\ Len(Scrap(n)) > 0
        BY <1>2, <1>3
      <3> HIDE DEF a
      <3> QED
        BY <1>5, <2>2, <3>1, InsertedLines DEF LInv
    <2> QED
      BY <2>3, <2>4
  <1> QED
    BY <1>2, <1>6, <1>7

\* A step that changes neither text nor line starts, and at most ends user
\* operations.
LEMMA QuietKeeps ==
    ASSUME Shape, LInv, UNCHANGED <<substance, starts>>,
           actions' = actions \/ actions' = Closed(actions, currentAction), Others'
    PROVE  LInv'
  <1>1. NoneEmpty'
    BY ClosedNoneEmpty DEF LInv
  <1>2. Lines(starts, substance)'
    BY DEF LInv
  <1> QED
    BY <1>1, <1>2 DEF LInv

\* An operation begins, with a text only if it is a composition.
LEMMA StartsLines ==
    ASSUME Shape, LInv, NEW kind, NEW target, NEW next \in Composed \cup {<<>>},
           Starts(kind, target, next),
           kind \in {"compose", "result", "insert"} => next \in Composed
    PROVE  LInv'
  <1>1. /\ op'.kind = kind /\ op'.next = next
        /\ UNCHANGED <<substance, starts, actions, undoSequenceDepth, groupStart,
                       savedText, recoded>>
    BY DEF Starts, history, hist
  <1>2. Others'
    BY <1>1 DEF LInv, Others
  <1> QED
    BY <1>1, <1>2, QuietKeeps

\* Whatever is inserted, deleted, undone, redone or composed, the line starts
\* stay those of the text.
LEMMA StepKeepsLines ==
    ASSUME IInv, LInv, [Next]_vars
    PROVE  LInv'
  <1>0. /\ Shape /\ Stacked /\ Steps /\ Underway
        /\ Lines(starts, substance) /\ NoneEmpty /\ Others
    BY DEF IInv, LInv
  <1>t. /\ currentAction \in Nat /\ substance \in Str /\ Len(substance) \in Nat
        /\ savedText \in Str /\ <<>> \in Str
    BY <1>0, SubstanceIsText, LenProperties, StringsAreTexts DEF Shape, Others
  <1>n. NoOp.next = <<>> /\ NoOp.kind = "none"
    BY DEF NoOp
  <1>1. CASE Insert
    <2>1. PICK position \in 0..Len(substance), s \in Strings : InsertString(position, s)
      BY <1>1 DEF Insert
    <2>2. Lines(starts, substance)' /\ NoneEmpty'
      BY <1>0, <2>1, InsertStringLines
    <2>3. Others'
      BY <1>1, <1>0, <1>t, <2>1 DEF Insert, InsertString, AppendAction, Recorded, Others
    <2> QED
      BY <2>2, <2>3 DEF LInv
  <1>2. CASE Delete
    <2>1. PICK position \in 0..(Len(substance) - 1) :
            \E length \in 1..(Len(substance) - position) : DeleteChars(position, length)
      BY <1>2 DEF Delete
    <2>2. PICK length \in 1..(Len(substance) - position) : DeleteChars(position, length)
      BY <2>1
    <2>3. /\ position \in Nat /\ length \in Nat /\ length > 0
          /\ position + length <= Len(substance)
      BY <1>t
    <2>4. Lines(starts, substance)' /\ NoneEmpty'
      BY <1>0, <2>2, <2>3, DeleteCharsLines
    <2>5. Others'
      BY <1>2, <1>0, <1>t, <2>2 DEF Delete, DeleteChars, AppendAction, Recorded, Others
    <2> QED
      BY <2>4, <2>5 DEF LInv
  <1>3. CASE Begin
    <2>1. /\ UNCHANGED <<substance, starts, op, savedText, recoded>>
          /\ actions' = actions \/ actions' = Closed(actions, currentAction)
          /\ undoSequenceDepth' = undoSequenceDepth + 1
          /\ groupStart' = currentAction \/ groupStart' = groupStart
      BY <1>3 DEF Begin, BeginUndoAction
    <2>2. Others'
      BY <1>0, <1>t, <2>1 DEF Others
    <2> QED
      BY <1>0, <2>1, <2>2, QuietKeeps
  <1>4. CASE End
    <2>1. /\ UNCHANGED <<substance, starts, op, savedText, recoded>>
          /\ actions' = actions \/ actions' = Closed(actions, currentAction)
          /\ undoSequenceDepth > 0 /\ undoSequenceDepth' = undoSequenceDepth - 1
          /\ groupStart' = None \/ groupStart' = groupStart
      BY <1>4 DEF End, EndUndoAction
    <2>2. Others'
      BY <1>0, <1>t, <2>1 DEF Others
    <2> QED
      BY <1>0, <2>1, <2>2, QuietKeeps
  <1>5. CASE Undo
    BY <1>5, <1>0, StartsLines DEF Undo
  <1>6. CASE Redo
    BY <1>6, <1>0, StartsLines DEF Redo
  <1>7. CASE Composition
    <2> DEFINE base == IF TentativeActive /\ tentativePoint < currentAction
                       THEN tentativePoint ELSE currentAction
    <2>1. PICK kind \in {"compose", "result"}, s \in Composed :
            IF kind = "compose" \/ TentativeActive
            THEN Starts(kind, base, s)
            ELSE Starts("insert", base, s)
      BY <1>7 DEF Composition
    <2> HIDE DEF base
    <2>2. CASE kind = "compose" \/ TentativeActive
      BY <1>0, <2>1, <2>2, StartsLines
    <2>3. CASE ~(kind = "compose" \/ TentativeActive)
      BY <1>0, <2>1, <2>3, StartsLines
    <2> QED
      BY <2>2, <2>3
  <1>8. CASE EndComposition
    BY <1>8, <1>0, StartsLines DEF EndComposition
  <1>9. CASE PerformUndoStep
    <2>1. Lines(starts, substance)'
      BY <1>0, <1>9, UndoLines
    <2>2. UNCHANGED <<actions, op, undoSequenceDepth, groupStart, savedText, recoded>>
      BY <1>9 DEF PerformUndoStep, CompletedUndoStep, hist
    <2>3. NoneEmpty' /\ Others'
      BY <1>0, <2>2 DEF NoneEmpty, Others
    <2> QED
      BY <2>1, <2>3 DEF LInv
  <1>10. CASE PerformRedoStep
    <2>1. Lines(starts, substance)'
      BY <1>0, <1>10, RedoLines
    <2>2. UNCHANGED <<actions, op, undoSequenceDepth, groupStart, savedText, recoded>>
      BY <1>10 DEF PerformRedoStep, CompletedRedoStep, hist
    <2>3. NoneEmpty' /\ Others'
      BY <1>0, <2>2 DEF NoneEmpty, Others
    <2> QED
      BY <2>1, <2>3 DEF LInv
  <1>11. CASE EndUndoRedo
    <2>1. /\ UNCHANGED <<substance, starts, actions, undoSequenceDepth, groupStart,
                         savedText, recoded>>
          /\ op' = NoOp
      BY <1>11 DEF EndUndoRedo, history, hist
    <2>2. Others'
      BY <1>0, <1>n, <2>1 DEF Others
    <2> QED
      BY <1>0, <2>1, <2>2, QuietKeeps
  <1>12. CASE EndTentativeUndo
    <2>1. /\ UNCHANGED <<substance, starts, undoSequenceDepth, groupStart,
                         savedText, recoded>>
          /\ actions' = SubSeq(actions, 1, currentAction)
          /\ op.kind \in {"tentative", "compose", "result"}
          /\ op' = IF op.kind = "tentative" THEN NoOp
                   ELSE [op EXCEPT !.kind = IF @ = "result" THEN "insert" ELSE @,
                                   !.from = currentAction]
      BY <1>12 DEF EndTentativeUndo, TentativeCommit
    <2>2. /\ Len(actions') = currentAction
          /\ \A i \in 1..currentAction : actions'[i] = actions[i]
      <3>1. actions \in Seq(Action) /\ currentAction \in 0..Len(actions)
        BY <1>0 DEF Shape
      <3> QED
        BY <2>1, <3>1, FirstPart
    <2>3. NoneEmpty'
      <3>1. \A i \in 1..currentAction : i \in 1..Len(actions)
        BY <1>0, LenProperties DEF Shape
      <3> QED
        BY <1>0, <2>2, <3>1 DEF NoneEmpty
    <2>4. op' = NoOp \/ (op'.next = op.next /\ op.next \in Composed)
      <3>1. CASE op.kind = "tentative"
        BY <2>1, <3>1
      <3>2. CASE op.kind \in {"compose", "result"}
        <4>1. op.next \in Composed
          BY <1>0, <3>2 DEF Others
        <4> QED
          BY <1>0, <2>1, <3>2, <4>1 DEF Underway
      <3> QED
        BY <2>1, <3>1, <3>2
    <2>5. Others'
      BY <1>0, <1>n, <2>1, <2>4 DEF Others
    <2> QED
      BY <1>0, <2>1, <2>3, <2>5 DEF LInv
  <1>13. CASE TentativeStart
    <2>1. /\ UNCHANGED <<substance, starts, actions, undoSequenceDepth, groupStart,
                         savedText, recoded>>
          /\ op.kind = "compose" /\ op' = [op EXCEPT !.kind = "insert"]
      BY <1>13 DEF TentativeStart, hist
    <2>2. op'.next = op.next /\ op.next \in Composed
      BY <1>0, <2>1 DEF Underway, Others
    <2>3. Others'
      BY <1>0, <2>1, <2>2 DEF Others
    <2> QED
      BY <1>0, <2>1, <2>3, QuietKeeps
  <1>14. CASE InsertCharacter
    <2>1. PICK position \in 0..Len(substance) : InsertString(position, op.next)
      BY <1>14 DEF InsertCharacter
    <2>2. op' = NoOp /\ op.kind = "insert"
      BY <1>14 DEF InsertCharacter
    <2>3. op.next \in Strings
      BY <1>0, <2>2, CellBufferAssumption DEF Others, CellBufferAssumption
    <2>4. Lines(starts, substance)' /\ NoneEmpty'
      <3> DEFINE s == op.next
      <3>1. s \in Strings /\ InsertString(position, s)
        BY <2>1, <2>3
      <3> HIDE DEF s
      <3> QED
        BY <1>0, <3>1, InsertStringLines
    <2>5. Others'
      BY <1>0, <1>n, <1>t, <2>1, <2>2 DEF InsertString, AppendAction, Recorded, Others
    <2> QED
      BY <2>4, <2>5 DEF LInv
  <1>15. CASE SetSavePoint
    <2>1. /\ UNCHANGED <<substance, starts, actions, undoSequenceDepth, groupStart, op>>
          /\ savedText' = substance /\ recoded' = FALSE
      BY <1>15 DEF SetSavePoint
    <2>2. Others'
      BY <1>0, <1>t, <2>1 DEF Others
    <2> QED
      BY <1>0, <2>1, <2>2, QuietKeeps
  <1>16. CASE EditSetNewText
    <2>1. PICK s \in Strings \cup {<<>>} : Replaced(s) /\ savedText' = s
      BY <1>16 DEF EditSetNewText
    <2>2. EmptyHistory /\ recoded' = FALSE /\ op' = op
      BY <1>16 DEF EditSetNewText
    <2>3. s \in Str
      BY StringsAreTexts
    <2>4. Lines(starts, substance)'
      BY <2>1, <2>3, LoadedLines DEF Replaced
    <2>5. NoneEmpty'
      BY <2>2 DEF EmptyHistory, NoneEmpty
    <2>6. Others'
      BY <1>0, <2>1, <2>2, <2>3 DEF EmptyHistory, Replaced, Others
    <2> QED
      BY <2>4, <2>5, <2>6 DEF LInv
  <1>17. CASE EditConvertText
    <2>1. PICK s \in {substance} \cup Strings : Replaced(s)
      BY <1>17 DEF EditConvertText
    <2>2. EmptyHistory /\ recoded' = TRUE /\ savedText' = <<>> /\ op' = op
      BY <1>17 DEF EditConvertText
    <2>3. s \in Str
      BY <1>t, StringsAreTexts
    <2>4. Lines(starts, substance)'
      BY <2>1, <2>3, LoadedLines DEF Replaced
    <2>5. NoneEmpty'
      BY <2>2 DEF EmptyHistory, NoneEmpty
    <2>6. Others'
      BY <1>0, <1>t, <2>1, <2>2 DEF EmptyHistory, Replaced, Others
    <2> QED
      BY <2>4, <2>5, <2>6 DEF LInv
  <1>18. CASE UNCHANGED vars
    <2>1. UNCHANGED <<substance, starts, actions, undoSequenceDepth, groupStart, op,
                      savedText, recoded>>
      BY <1>18 DEF vars, history, hist
    <2>2. Others'
      BY <1>0, <2>1 DEF Others
    <2> QED
      BY <1>0, <2>1, <2>2, QuietKeeps
  <1> QED
    BY <1>1, <1>2, <1>3, <1>4, <1>5, <1>6, <1>7, <1>8, <1>9, <1>10, <1>11, <1>12, <1>13,
       <1>14, <1>15, <1>16, <1>17, <1>18 DEF Next

\* The empty text is one line.
LEMMA InitiallyLines == Init => LInv
  <1> SUFFICES ASSUME Init
               PROVE  LInv
    OBVIOUS
  <1>1. /\ actions = <<>> /\ undoSequenceDepth = 0 /\ substance = <<>> /\ starts = Fresh
        /\ op = NoOp /\ groupStart = None /\ savedText = <<>> /\ recoded = FALSE
    BY DEF Init, HistoryInit
  <1>2. <<>> \in Str /\ Len(<<>>) = 0
    BY StringsAreTexts
  <1>3. Lines(Fresh, <<>>)
    BY <1>2, FreshLines
  <1>4. NoneEmpty
    BY <1>1 DEF NoneEmpty
  <1>5. Others
    BY <1>1, <1>2 DEF Others, NoOp
  <1> QED
    BY <1>1, <1>3, <1>4, <1>5 DEF LInv

\* The line starts are those of the text throughout, no action is empty, and
\* what is composed is there to be inserted.
THEOREM LinesInductive == Spec => [](IInv /\ LInv)
  <1>1. Init => LInv
    BY InitiallyLines
  <1>2. IInv /\ LInv /\ [Next]_vars => LInv'
    BY StepKeepsLines
  <1>3. Spec => []IInv
    BY Inductive
  <1> QED
    BY <1>1, <1>2, <1>3, PTL DEF Spec

\* The control's line starts are exactly those of its text: there are as many,
\* at the same positions, and the last line ends where the text does.
THEOREM LinesAlwaysMatch == Spec => []LinesMatch
  <1>1. LInv => LinesMatch
    <2> SUFFICES ASSUME LInv
                 PROVE  LinesMatch
      OBVIOUS
    <2> DEFINE n == starts.last
               S == LineStarts(substance)
               f == [i \in 1..n |-> At(starts, i - 1)]
    <2>1. /\ n \in Nat /\ n > 0
          /\ \A i \in 0..n : At(starts, i) \in Int
          /\ \A i, j \in 0..(n - 1) : i < j => At(starts, i) < At(starts, j)
          /\ \A i \in 0..(n - 1) : At(starts, i) \in S
          /\ \A k \in S : \E i \in 0..(n - 1) : At(starts, i) = k
          /\ At(starts, n) = Len(substance)
      BY Positions DEF LInv, Lines, Covers
    <2> HIDE DEF n, S
    <2>2. \A i \in 1..n : i - 1 \in 0..(n - 1) /\ i - 1 \in 0..n /\ f[i] = At(starts, i - 1)
      BY <2>1
    <2>3. /\ f \in [1..n -> S] /\ \A i \in 1..n : f[i] \in Int
      BY <2>1, <2>2
    <2>4. \A i, j \in 1..n : i < j => f[i] < f[j]
      <3> SUFFICES ASSUME NEW i \in 1..n, NEW j \in 1..n, i < j
                   PROVE  f[i] < f[j]
        OBVIOUS
      <3>1. i - 1 \in 0..(n - 1) /\ j - 1 \in 0..(n - 1) /\ i - 1 < j - 1
        BY <2>1
      <3>2. At(starts, i - 1) < At(starts, j - 1)
        BY <2>1, <3>1
      <3> QED
        BY <3>2
    <2>5. \A k \in S : \E i \in 1..n : f[i] = k
      <3> SUFFICES ASSUME NEW k \in S
                   PROVE  \E i \in 1..n : f[i] = k
        OBVIOUS
      <3>1. PICK i \in 0..(n - 1) : At(starts, i) = k
        BY <2>1
      <3>2. PICK j : j = i + 1
        OBVIOUS
      <3>3. j \in 1..n /\ j - 1 = i
        BY <2>1, <3>2
      <3> QED
        BY <3>1, <3>3
    <2> HIDE DEF f
    <2>6. Cardinality(S) = n
      BY <2>1, <2>3, <2>4, <2>5, AscendingCounts
    <2>7. {At(starts, i) : i \in 0..(n - 1)} = S
      BY <2>1
    <2> QED
      BY <2>1, <2>6, <2>7 DEF LinesMatch, LineStarts, At, n, S
  <1> QED
    BY <1>1, LinesInductive, PTL

\* The control's state stays what its data structures hold.
THEOREM AlwaysTypeOK == Spec => []TypeOK
  <1>1. IInv /\ LInv => TypeOK
    <2> SUFFICES ASSUME IInv, LInv
                 PROVE  TypeOK
      OBVIOUS
    <2>1. Shape /\ Stacked /\ Underway /\ Others /\ WellFormed(starts)
      BY DEF IInv, LInv, Lines, Covers
    <2>2. substance \in Str
      BY <2>1, SubstanceIsText
    <2>3. scrapCurrent \in 0..Len(scraps)
      <3>1. currentAction + 1 \in 1..Len(actions) + 1 /\ Len(actions) \in Nat
        BY <2>1, LenProperties DEF Shape
      <3>2. scrapAt[currentAction + 1] \in Nat
        BY <2>1, <3>1, ElementOfSeq DEF Stacked
      <3>3. scrapAt[currentAction + 1] <= Len(scraps) /\ Len(scraps) \in Nat
        BY <2>1, <3>1, LenProperties DEF Stacked, Shape, Str
      <3> QED
        BY <2>1, <3>2, <3>3 DEF Stacked
    <2>4. op \in [kind: {"none", "undo", "redo", "tentative", "compose", "result", "insert"},
                  target: Nat, from: Nat, next: Composed \cup {<<>>}]
      BY <2>1 DEF Underway, Others
    <2> QED
      BY <2>1, <2>2, <2>3, <2>4 DEF TypeOK, Shape, Stacked, Others, Str
  <1> QED
    BY <1>1, LinesInductive, PTL
=============================================================================
