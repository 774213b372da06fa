--------------------------- MODULE CellBufferProofs ---------------------------
(***************************************************************************)
(* Undo and redo of CellBuffer give back the texts that were there, the    *)
(* save point means the saved text and the window knows whether the text   *)
(* is modified: for texts, insertions and histories of any length.         *)
(***************************************************************************)
EXTENDS CellBuffer, SequenceTheorems, WellFoundedInduction, TLAPS

-----------------------------------------------------------------------------
(* Partitionings.  The step is invisible: whatever its place and length, each  *)
(* operation of Partitioning does to the positions what it would do to a plain *)
(* array of them.  So a partitioning stands for an ordered set of starts, and  *)
(* its binary search finds the partition of a position.                        *)

\* Where partition i starts.
At(P, i) == PositionFromPartition(P, i)

\* Moving the step forward changes no position.
LEMMA ApplyStepKeeps ==
    ASSUME NEW P, WellFormed(P), NEW p \in Nat, p >= P.stepPartition
    PROVE  /\ WellFormed(ApplyStep(P, p))
           /\ ApplyStep(P, p).last = P.last
           /\ ApplyStep(P, p).stepPartition = IF p >= P.last THEN P.last ELSE p
           /\ \A i \in 0..P.last : At(ApplyStep(P, p), i) = At(P, i)
  BY SMTT(30) DEF WellFormed, ApplyStep, RangeAddDelta, At, PositionFromPartition

\* Moving the step backward changes no position either.
LEMMA BackStepKeeps ==
    ASSUME NEW P, WellFormed(P), NEW p \in 0..P.last, p <= P.stepPartition
    PROVE  /\ WellFormed(BackStep(P, p))
           /\ BackStep(P, p).last = P.last
           /\ BackStep(P, p).stepPartition = p
           /\ \A i \in 0..P.last : At(BackStep(P, p), i) = At(P, i)
  BY SMTT(30) DEF WellFormed, BackStep, RangeAddDelta, At, PositionFromPartition

\* Lengthening the step shifts the positions after it.
LEMMA LongerStepShifts ==
    ASSUME NEW Q, WellFormed(Q), NEW delta \in Int
    PROVE  /\ WellFormed(WithStep(Q, Q.stepPartition, Q.stepLength + delta))
           /\ \A i \in 0..Q.last :
                At(WithStep(Q, Q.stepPartition, Q.stepLength + delta), i) =
                At(Q, i) + (IF i > Q.stepPartition THEN delta ELSE 0)
  BY DEF WellFormed, WithStep, At, PositionFromPartition

\* Without a step, a new one shifts the positions after it.
LEMMA NewStepShifts ==
    ASSUME NEW Q, WellFormed(Q), NEW p \in 0..Q.last, NEW delta \in Int,
           Q.stepLength = 0
    PROVE  /\ WellFormed(WithStep(Q, p, delta))
           /\ \A i \in 0..Q.last :
                At(WithStep(Q, p, delta), i) =
                At(Q, i) + (IF i > p THEN delta ELSE 0)
  BY DEF WellFormed, WithStep, At, PositionFromPartition

\* Text of length delta inserted in partition p moves exactly the positions
\* after p, wherever the step was before.
THEOREM InsertTextShifts ==
    ASSUME NEW P, WellFormed(P), NEW p \in 0..P.last, NEW delta \in Int
    PROVE  /\ WellFormed(InsertText(P, p, delta))
           /\ InsertText(P, p, delta).last = P.last
           /\ \A i \in 0..P.last :
                At(InsertText(P, p, delta), i) =
                At(P, i) + (IF i > p THEN delta ELSE 0)
  <1> P.stepPartition \in Nat /\ P.last \in Nat /\ P.stepPartition <= P.last
    BY DEF WellFormed
  <1>0. ASSUME NEW Q, NEW q, NEW d
        PROVE  WithStep(Q, q, d).last = Q.last
    BY DEF WithStep
  <1>1. CASE P.stepLength = 0
    BY <1>1, <1>0, NewStepShifts DEF InsertText
  <1>2. CASE P.stepLength # 0 /\ p >= P.stepPartition
    <2> DEFINE Q == ApplyStep(P, p)
    <2>1. /\ WellFormed(Q) /\ Q.last = P.last
          /\ Q.stepPartition = p
          /\ \A i \in 0..P.last : At(Q, i) = At(P, i)
      <3> p \in Nat /\ (p >= P.last => p = P.last)  OBVIOUS
      <3> HIDE DEF Q
      <3> QED  BY <1>2, ApplyStepKeeps DEF Q
    <2>2. InsertText(P, p, delta) = WithStep(Q, Q.stepPartition, Q.stepLength + delta)
      BY <1>2 DEF InsertText
    <2> HIDE DEF Q
    <2>3. Q.stepLength \in Int
      BY <2>1 DEF WellFormed
    <2>4. /\ WellFormed(InsertText(P, p, delta))
          /\ \A i \in 0..Q.last :
               At(InsertText(P, p, delta), i) =
               At(Q, i) + (IF i > Q.stepPartition THEN delta ELSE 0)
      BY <2>1, <2>2, LongerStepShifts
    <2>5. InsertText(P, p, delta).last = Q.last
      BY <2>2 DEF WithStep
    <2> QED  BY <2>1, <2>4, <2>5
  <1>3. CASE /\ P.stepLength # 0 /\ p < P.stepPartition
             /\ p >= P.stepPartition - ((P.last + 1) \div 10)
    <2> DEFINE Q == BackStep(P, p)
    <2>1. /\ WellFormed(Q) /\ Q.last = P.last
          /\ Q.stepPartition = p
          /\ \A i \in 0..P.last : At(Q, i) = At(P, i)
      BY <1>3, BackStepKeeps
    <2>2. InsertText(P, p, delta) = WithStep(Q, Q.stepPartition, Q.stepLength + delta)
      BY <1>3 DEF InsertText
    <2> HIDE DEF Q
    <2>3. Q.stepLength \in Int
      BY <2>1 DEF WellFormed
    <2>4. /\ WellFormed(InsertText(P, p, delta))
          /\ \A i \in 0..Q.last :
               At(InsertText(P, p, delta), i) =
               At(Q, i) + (IF i > Q.stepPartition THEN delta ELSE 0)
      BY <2>1, <2>2, LongerStepShifts
    <2>5. InsertText(P, p, delta).last = Q.last
      BY <2>2 DEF WithStep
    <2> QED  BY <2>1, <2>4, <2>5
  <1>4. CASE /\ P.stepLength # 0 /\ p < P.stepPartition
             /\ ~(p >= P.stepPartition - ((P.last + 1) \div 10))
    <2> DEFINE Q == ApplyStep(P, P.last)
    <2>1. /\ WellFormed(Q) /\ Q.last = P.last
          /\ \A i \in 0..P.last : At(Q, i) = At(P, i)
      BY ApplyStepKeeps
    <2>2. Q.stepLength = 0
      BY DEF ApplyStep
    <2>3. InsertText(P, p, delta) = WithStep(Q, p, delta)
      BY <1>4 DEF InsertText
    <2> HIDE DEF Q
    <2> QED  BY <2>1, <2>2, <2>3, <1>0, NewStepShifts
  <1> QED  BY <1>1, <1>2, <1>3, <1>4

\* StepTo, the beginning of insertions and removals, changes no position and
\* brings the step to the partition at least.
LEMMA StepToKeeps ==
    ASSUME NEW P, WellFormed(P), NEW p \in 0..P.last
    PROVE  /\ WellFormed(StepTo(P, p))
           /\ StepTo(P, p).last = P.last
           /\ StepTo(P, p).stepPartition >= p
           /\ \A i \in 0..P.last : At(StepTo(P, p), i) = At(P, i)
  <1> P.stepPartition \in Nat /\ P.last \in Nat /\ P.stepPartition <= P.last
    BY DEF WellFormed
  <1>1. CASE P.stepPartition < p
    BY <1>1, ApplyStepKeeps DEF StepTo
  <1>2. CASE ~(P.stepPartition < p)
    BY <1>2 DEF StepTo
  <1> QED  BY <1>1, <1>2

\* New partitions keep the positions before them, have the positions given, and
\* push the old ones up.
THEOREM InsertPartitionsInserts ==
    ASSUME NEW P, WellFormed(P), NEW p \in 1..P.last, NEW count \in Nat,
           NEW positions \in [1..count -> Int]
    PROVE  LET R == InsertPartitions(P, p, positions, count)
           IN  /\ WellFormed(R)
               /\ R.last = P.last + count
               /\ \A i \in 0..R.last :
                    At(R, i) = IF i < p THEN At(P, i)
                               ELSE IF i < p + count THEN positions[i - p + 1]
                               ELSE At(P, i - count)
  <1> DEFINE Q == StepTo(P, p)
             R == InsertPartitions(P, p, positions, count)
  <1> P.last \in Nat  BY DEF WellFormed
  <1>1. /\ WellFormed(Q) /\ Q.last = P.last /\ Q.stepPartition >= p
        /\ \A i \in 0..P.last : At(Q, i) = At(P, i)
    BY StepToKeeps
  <1>2. R = [last |-> Q.last + count,
             body |-> [i \in 0..(Q.last + count) |->
                         IF i < p THEN Q.body[i]
                         ELSE IF i < p + count THEN positions[i - p + 1]
                         ELSE Q.body[i - count]],
             stepPartition |-> Q.stepPartition + count,
             stepLength |-> Q.stepLength]
    BY DEF InsertPartitions
  <1> HIDE DEF Q, R
  <1>3. WellFormed(R)
    <2> Q.body \in [0..Q.last -> Int] /\ Q.stepPartition \in 0..Q.last /\ Q.stepLength \in Int
      BY <1>1 DEF WellFormed
    <2>1. Q.last + count \in Nat \ {0} /\ Q.stepPartition + count \in 0..(Q.last + count)
      BY <1>1 DEF WellFormed
    <2>2. R.body \in [0..(Q.last + count) -> Int]
      <3>1. ASSUME NEW i \in 0..(Q.last + count)
            PROVE  (IF i < p THEN Q.body[i]
                    ELSE IF i < p + count THEN positions[i - p + 1]
                    ELSE Q.body[i - count]) \in Int
        <4>1. CASE i < p
          <5>1. i \in 0..Q.last  BY <1>1, <4>1
          <5> QED  BY <4>1, <5>1
        <4>2. CASE p <= i /\ i < p + count
          <5>1. i - p + 1 \in 1..count  BY <4>2
          <5> QED  BY <4>2, <5>1
        <4>3. CASE p + count <= i
          <5>1. i - count \in 0..Q.last  BY <1>1, <4>3
          <5>2. ~(i < p) /\ ~(i < p + count)  BY <4>3
          <5> QED  BY <5>1, <5>2
        <4> QED  BY <4>1, <4>2, <4>3
      <3> QED  BY <1>2, <3>1
    <2> QED  BY <1>2, <2>1, <2>2 DEF WellFormed
  <1>4. R.last = P.last + count
    BY <1>1, <1>2
  <1>5. ASSUME NEW i \in 0..R.last
        PROVE  At(R, i) = IF i < p THEN At(Q, i)
                          ELSE IF i < p + count THEN positions[i - p + 1]
                          ELSE At(Q, i - count)
    <2> i \in 0..(Q.last + count)  BY <1>1, <1>4
    <2>1. CASE i < p
      BY <1>1, <1>2, <2>1 DEF WellFormed, At, PositionFromPartition
    <2>2. CASE p <= i /\ i < p + count
      BY <1>1, <1>2, <2>2 DEF WellFormed, At, PositionFromPartition
    <2>3. CASE p + count <= i
      BY <1>1, <1>2, <2>3 DEF WellFormed, At, PositionFromPartition
    <2> QED  BY <2>1, <2>2, <2>3
  <1> QED  BY <1>1, <1>3, <1>4, <1>5 DEF R

\* Removing a partition joins it to the one before: its position goes, the
\* others stay.
THEOREM RemovePartitionRemoves ==
    ASSUME NEW P, WellFormed(P), NEW p \in 1..(P.last - 1)
    PROVE  LET R == RemovePartition(P, p)
           IN  /\ WellFormed(R)
               /\ R.last = P.last - 1
               /\ \A i \in 0..R.last :
                    At(R, i) = IF i < p THEN At(P, i) ELSE At(P, i + 1)
  <1> DEFINE Q == StepTo(P, p)
             R == RemovePartition(P, p)
  <1> P.last \in Nat /\ p \in 0..P.last  BY DEF WellFormed
  <1>1. /\ WellFormed(Q) /\ Q.last = P.last /\ Q.stepPartition >= p
        /\ \A i \in 0..P.last : At(Q, i) = At(P, i)
    BY StepToKeeps
  <1>2. R = [last |-> Q.last - 1,
             body |-> [i \in 0..(Q.last - 1) |->
                         IF i < p THEN Q.body[i] ELSE Q.body[i + 1]],
             stepPartition |-> Q.stepPartition - 1,
             stepLength |-> Q.stepLength]
    BY DEF RemovePartition
  <1> HIDE DEF Q, R
  <1>3. WellFormed(R)
    <2> Q.body \in [0..Q.last -> Int] /\ Q.stepPartition \in 0..Q.last /\ Q.stepLength \in Int
      BY <1>1 DEF WellFormed
    <2>1. Q.last - 1 \in Nat \ {0} /\ Q.stepPartition - 1 \in 0..(Q.last - 1)
      BY <1>1 DEF WellFormed
    <2>2. R.body \in [0..(Q.last - 1) -> Int]
      <3>1. ASSUME NEW i \in 0..(Q.last - 1)
            PROVE  (IF i < p THEN Q.body[i] ELSE Q.body[i + 1]) \in Int
        <4>1. i \in 0..Q.last /\ i + 1 \in 0..Q.last  BY <1>1, <2>1
        <4> QED  BY <4>1
      <3> QED  BY <1>2, <3>1
    <2> QED  BY <1>2, <2>1, <2>2 DEF WellFormed
  <1>4. R.last = P.last - 1
    BY <1>1, <1>2
  <1>5. ASSUME NEW i \in 0..R.last
        PROVE  At(R, i) = IF i < p THEN At(Q, i) ELSE At(Q, i + 1)
    BY <1>1, <1>2, <1>4 DEF WellFormed, At, PositionFromPartition
  <1> QED  BY <1>1, <1>3, <1>4, <1>5 DEF R

\* Setting the start of a partition changes that position and no other.
THEOREM SetPartitionStartPositionSets ==
    ASSUME NEW P, WellFormed(P), NEW p \in 0..(P.last - 1), NEW pos \in Int,
           p + 1 >= P.stepPartition
    PROVE  LET R == SetPartitionStartPosition(P, p, pos)
           IN  /\ WellFormed(R)
               /\ R.last = P.last
               /\ \A i \in 0..P.last : At(R, i) = IF i = p THEN pos ELSE At(P, i)
  <1> DEFINE Q == ApplyStep(P, p + 1)
             R == SetPartitionStartPosition(P, p, pos)
  <1> P.last \in Nat /\ p + 1 \in Nat  BY DEF WellFormed
  <1>1. /\ WellFormed(Q) /\ Q.last = P.last /\ Q.stepPartition >= p
        /\ \A i \in 0..P.last : At(Q, i) = At(P, i)
    <2> HIDE DEF Q
    <2> QED  BY ApplyStepKeeps DEF Q
  <1>2. R = [last |-> Q.last,
             body |-> [i \in 0..Q.last |-> IF i = p THEN pos ELSE Q.body[i]],
             stepPartition |-> Q.stepPartition, stepLength |-> Q.stepLength]
    BY <1>1 DEF SetPartitionStartPosition
  <1> HIDE DEF Q, R
  <1>3. WellFormed(R)
    <2> Q.body \in [0..Q.last -> Int]  BY <1>1 DEF WellFormed
    <2>1. R.body \in [0..Q.last -> Int]  BY <1>2
    <2> QED  BY <1>1, <1>2, <2>1 DEF WellFormed
  <1>4. R.last = P.last
    BY <1>1, <1>2
  <1>5. ASSUME NEW i \in 0..P.last
        PROVE  At(R, i) = IF i = p THEN pos ELSE At(Q, i)
    BY <1>1, <1>2, <1>4 DEF WellFormed, At, PositionFromPartition
  <1> QED  BY <1>1, <1>3, <1>4, <1>5 DEF R

-----------------------------------------------------------------------------
(* Least and greatest numbers: the form induction takes here. *)

\* Every set of numbers has a least one, if it has any.
LEMMA LeastExists ==
    ASSUME NEW T, T \subseteq Nat, T # {}
    PROVE  \E x \in T : \A y \in T : x <= y
  <1>1. \E x \in T : \A y \in T : ~(<<y, x>> \in OpToRel(<, Nat))
    BY NatLessThanWellFounded, WFMin, Zenon
  <1>2. PICK x \in T : \A y \in T : ~(<<y, x>> \in OpToRel(<, Nat))
    BY <1>1, Zenon
  <1>3. ASSUME NEW y \in T
        PROVE  x <= y
    <2>1. y \in Nat /\ x \in Nat
      OBVIOUS
    <2>2. ~(y < x)
      BY <2>1, <1>2, Zenon DEF OpToRel
    <2> QED
      BY <2>1, <2>2
  <1> QED
    BY <1>3

\* A bounded set of numbers has a greatest one.
LEMMA GreatestExists ==
    ASSUME NEW n \in Nat, NEW T, T \subseteq 0..n, T # {}
    PROVE  \E x \in T : \A y \in T : y <= x
  <1> DEFINE D == {d \in 0..n : n - d \in T}
  <1>1. PICK t \in T : TRUE
    OBVIOUS
  <1>2. n - t \in D
    <2>1. t \in 0..n
      OBVIOUS
    <2>2. n - t \in 0..n /\ n - (n - t) = t
      BY <2>1
    <2> QED
      BY <2>2
  <1>3. PICK d \in D : \A e \in D : d <= e
    <2>1. D \subseteq Nat /\ D # {}
      BY <1>2
    <2> HIDE DEF D
    <2> QED
      BY <2>1, LeastExists
  <1>4. ASSUME NEW y \in T
        PROVE  y <= n - d
    <2>1. y \in 0..n
      OBVIOUS
    <2>2. n - y \in 0..n /\ n - (n - y) = y
      BY <2>1
    <2>3. d <= n - y
      BY <2>2, <1>3
    <2> QED
      BY <2>1, <2>3
  <1> QED
    BY <1>4

-----------------------------------------------------------------------------
(* The binary search. *)

\* The last partition of the range lower..upper, lower at least, that does not
\* begin after pos.
Best(P, pos, lower, upper, k) ==
    /\ k \in lower..upper
    /\ k = lower \/ At(P, k) <= pos
    /\ \A j \in (k + 1)..upper : pos < At(P, j)

\* There is such a partition, and no other.
LEMMA BestExists ==
    ASSUME NEW P, WellFormed(P), NEW pos \in Int,
           NEW lower \in 0..P.last, NEW upper \in 0..P.last, lower <= upper
    PROVE  /\ \E k \in 0..P.last : Best(P, pos, lower, upper, k)
           /\ \A k, m \in 0..P.last : Best(P, pos, lower, upper, k)
                                      /\ Best(P, pos, lower, upper, m) => k = m
  <1> DEFINE T == {k \in lower..upper : k = lower \/ At(P, k) <= pos}
  <1>0. P.last \in Nat /\ \A j \in 0..P.last : At(P, j) \in Int
    BY DEF WellFormed, At, PositionFromPartition
  <1>1. T \subseteq 0..P.last /\ lower \in T
    BY <1>0
  <1>2. PICK k \in T : \A j \in T : j <= k
    <2> HIDE DEF T
    <2> QED
      BY <1>0, <1>1, GreatestExists
  <1>3. ASSUME NEW j \in (k + 1)..upper
        PROVE  pos < At(P, j)
    <2>1. j \notin T
      BY <1>0, <1>1, <1>2
    <2>2. j \in lower..upper /\ j \in 0..P.last
      BY <1>0, <1>1
    <2> QED
      BY <1>0, <2>1, <2>2
  <1>4. Best(P, pos, lower, upper, k)
    BY <1>1, <1>3 DEF Best
  <1>5. k \in 0..P.last
    BY <1>1
  <1>6. ASSUME NEW a \in 0..P.last, NEW b \in 0..P.last,
               Best(P, pos, lower, upper, a), Best(P, pos, lower, upper, b), a < b
        PROVE  FALSE
    <2>1. b \in (a + 1)..upper /\ b # lower /\ At(P, b) \in Int
      BY <1>0, <1>6 DEF Best
    <2>2. pos < At(P, b) /\ At(P, b) <= pos
      BY <1>6, <2>1 DEF Best
    <2> QED
      BY <2>1, <2>2
  <1>7. ASSUME NEW a \in 0..P.last, NEW b \in 0..P.last,
               Best(P, pos, lower, upper, a), Best(P, pos, lower, upper, b)
        PROVE  a = b
    <2>1. ~(a < b) /\ ~(b < a)
      BY <1>6, <1>7
    <2> QED
      BY <1>0, <2>1
  <1> QED
    BY <1>4, <1>5, <1>7

\* The positions of a partitioning never go back.
Ascends(P) == \A i, j \in 0..P.last : i <= j => At(P, i) <= At(P, j)

\* Halving the range keeps the partition looked for in it.
LEMMA BestHalves ==
    ASSUME NEW P, WellFormed(P), Ascends(P), NEW pos \in Int,
           NEW lower \in 0..P.last, NEW upper \in 0..P.last, lower < upper,
           NEW middle, middle = (upper + lower + 1) \div 2
    PROVE  /\ middle \in (lower + 1)..upper
           /\ pos < At(P, middle) =>
                \A k : Best(P, pos, lower, middle - 1, k) => Best(P, pos, lower, upper, k)
           /\ ~(pos < At(P, middle)) =>
                \A k : Best(P, pos, middle, upper, k) => Best(P, pos, lower, upper, k)
  <1>0. P.last \in Nat /\ \A j \in 0..P.last : At(P, j) \in Int
    BY DEF WellFormed, At, PositionFromPartition
  <1>1. middle \in (lower + 1)..upper
    OBVIOUS
  <1>2. ASSUME pos < At(P, middle), NEW k, Best(P, pos, lower, middle - 1, k)
        PROVE  Best(P, pos, lower, upper, k)
    <2>1. k \in lower..upper /\ (k = lower \/ At(P, k) <= pos)
      BY <1>0, <1>1, <1>2 DEF Best
    <2>2. ASSUME NEW j \in (k + 1)..upper
          PROVE  pos < At(P, j)
      <3>1. CASE j <= middle - 1
        BY <1>0, <1>1, <1>2, <2>1, <3>1 DEF Best
      <3>2. CASE j > middle - 1
        <4>1. j \in 0..P.last /\ middle \in 0..P.last /\ middle <= j
          BY <1>0, <1>1, <2>1, <3>2
        <4>2. At(P, middle) <= At(P, j)
          BY <4>1 DEF Ascends
        <4> QED
          BY <1>0, <1>2, <4>1, <4>2
      <3> QED
        BY <1>0, <1>1, <2>1, <3>1, <3>2
    <2> QED
      BY <2>1, <2>2 DEF Best
  <1>3. ASSUME ~(pos < At(P, middle)), NEW k, Best(P, pos, middle, upper, k)
        PROVE  Best(P, pos, lower, upper, k)
    <2>1. k \in lower..upper /\ \A j \in (k + 1)..upper : pos < At(P, j)
      BY <1>0, <1>1, <1>3 DEF Best
    <2>2. At(P, middle) <= pos
      BY <1>0, <1>1, <1>3
    <2>3. At(P, k) <= pos
      BY <1>3, <2>2 DEF Best
    <2> QED
      BY <2>1, <2>3 DEF Best
  <1> QED
    BY <1>1, <1>2, <1>3

\* The binary search finds the last partition that does not begin after pos.
THEOREM SearchFinds ==
    ASSUME NEW P, WellFormed(P), Ascends(P), NEW pos \in Int
    PROVE  Best(P, pos, 0, P.last, Search(P, pos))
  <1> DEFINE D == (0..P.last) \X (0..P.last)
             Half(f, range) ==
               IF range[1] >= range[2] THEN range[1]
               ELSE IF pos < PositionFromPartition(P, (range[2] + range[1] + 1) \div 2)
               THEN f[<<range[1], (range[2] + range[1] + 1) \div 2 - 1>>]
               ELSE f[<<(range[2] + range[1] + 1) \div 2, range[2]>>]
             Step(f) == [range \in D |-> Half(f, range)]
             search == CHOOSE f : f = Step(f)
             found == [range \in D |-> IF range[1] >= range[2] THEN range[1]
                         ELSE CHOOSE k \in 0..P.last : Best(P, pos, range[1], range[2], k)]
  <1>0. P.last \in Nat /\ 0 \in 0..P.last /\ P.last \in 0..P.last
    BY DEF WellFormed
  <1>1. Search(P, pos) = search[<<0, P.last>>]
    BY DEF Search
  <1> HIDE DEF search, Half
  <1>2. ASSUME NEW lower \in 0..P.last, NEW upper \in 0..P.last, lower <= upper
        PROVE  /\ found[<<lower, upper>>] \in 0..P.last
               /\ Best(P, pos, lower, upper, found[<<lower, upper>>])
    <2>1. CASE lower = upper
      <3>1. found[<<lower, upper>>] = lower
        BY <2>1
      <3>2. Best(P, pos, lower, upper, lower)
        BY <1>0, <2>1 DEF Best
      <3> QED
        BY <3>1, <3>2
    <2>2. CASE lower < upper
      <3>1. found[<<lower, upper>>] = CHOOSE k \in 0..P.last : Best(P, pos, lower, upper, k)
        BY <1>0, <2>2
      <3>2. \E k \in 0..P.last : Best(P, pos, lower, upper, k)
        BY <1>2, BestExists
      <3> QED
        BY <3>1, <3>2, Zenon
    <2> QED
      BY <1>0, <1>2, <2>1, <2>2
  <1>3. found = Step(found)
    <2>1. ASSUME NEW range \in D
          PROVE  found[range] = Half(found, range)
      <3> DEFINE lower == range[1]
                 upper == range[2]
                 middle == (upper + lower + 1) \div 2
      <3>1. range = <<lower, upper>> /\ lower \in 0..P.last /\ upper \in 0..P.last
        OBVIOUS
      <3>2. CASE lower >= upper
        BY <3>2 DEF Half
      <3>3. CASE lower < upper
        <4> HIDE DEF found
        <4>1. /\ middle \in (lower + 1)..upper
              /\ pos < At(P, middle) =>
                   \A k : Best(P, pos, lower, middle - 1, k) => Best(P, pos, lower, upper, k)
              /\ ~(pos < At(P, middle)) =>
                   \A k : Best(P, pos, middle, upper, k) => Best(P, pos, lower, upper, k)
          BY <3>1, <3>3, BestHalves
        <4>2. Half(found, range) = IF pos < At(P, middle) THEN found[<<lower, middle - 1>>]
                                   ELSE found[<<middle, upper>>]
          BY <1>0, <3>1, <3>3 DEF Half, At
        <4> HIDE DEF middle
        <4>3. /\ middle - 1 \in 0..P.last /\ lower <= middle - 1
              /\ middle \in 0..P.last /\ middle <= upper
          BY <1>0, <3>1, <4>1
        <4>4. Half(found, range) \in 0..P.last /\ Best(P, pos, lower, upper, Half(found, range))
          <5> HIDE DEF lower, upper
          <5>1. CASE pos < At(P, middle)
            <6>1. /\ found[<<lower, middle - 1>>] \in 0..P.last
                  /\ Best(P, pos, lower, middle - 1, found[<<lower, middle - 1>>])
              BY <1>2, <3>1, <4>3
            <6> QED
              BY <4>1, <4>2, <5>1, <6>1, Zenon
          <5>2. CASE ~(pos < At(P, middle))
            <6>1. /\ found[<<middle, upper>>] \in 0..P.last
                  /\ Best(P, pos, middle, upper, found[<<middle, upper>>])
              BY <1>2, <3>1, <4>3
            <6> QED
              BY <4>1, <4>2, <5>2, <6>1, Zenon
          <5> QED
            BY <5>1, <5>2
        <4>5. found[range] \in 0..P.last /\ Best(P, pos, lower, upper, found[range])
          <5>1. lower <= upper
            BY <3>1, <3>3
          <5> QED
            BY <1>2, <3>1, <5>1
        <4> QED
          <5>1. lower <= upper
            BY <3>1, <3>3
          <5> HIDE DEF lower, upper
          <5> QED
            BY <3>1, <4>4, <4>5, <5>1, BestExists
      <3> QED
        BY <3>1, <3>2, <3>3
    <2>2. found = [range \in D |-> found[range]]
      OBVIOUS
    <2> HIDE DEF found
    <2> QED
      BY <2>1, <2>2
  <1>4. search = Step(search)
    <2> HIDE DEF found, Step
    <2> QED
      BY <1>3, Zenon DEF search
  <1> HIDE DEF found
  <1> DEFINE Wrong == {n \in Nat : \E lower, upper \in 0..P.last :
                         /\ lower <= upper /\ upper - lower = n
                         /\ ~Best(P, pos, lower, upper, search[<<lower, upper>>])}
  <1>5. ASSUME Wrong # {}
        PROVE  FALSE
    <2>1. PICK n \in Wrong : \A m \in Wrong : n <= m
      <3>1. Wrong \subseteq Nat
        OBVIOUS
      <3> HIDE DEF Wrong
      <3> QED
        BY <1>5, <3>1, LeastExists
    <2>2. PICK lower \in 0..P.last, upper \in 0..P.last :
            /\ lower <= upper /\ upper - lower = n
            /\ ~Best(P, pos, lower, upper, search[<<lower, upper>>])
      OBVIOUS
    <2>3. search[<<lower, upper>>] = Half(search, <<lower, upper>>)
      BY <1>4
    <2>4. ASSUME NEW l \in 0..P.last, NEW u \in 0..P.last, l <= u, u - l < upper - lower
          PROVE  Best(P, pos, l, u, search[<<l, u>>])
      <3>1. u - l \in Nat /\ ~(n <= u - l)
        BY <1>0, <2>2, <2>4
      <3>2. u - l \notin Wrong
        BY <2>1, <3>1
      <3> QED
        BY <2>4, <3>1, <3>2
    <2> DEFINE middle == (upper + lower + 1) \div 2
    <2>5. CASE lower = upper
      <3>1. search[<<lower, upper>>] = lower
        BY <2>3, <2>5 DEF Half
      <3>2. Best(P, pos, lower, upper, lower)
        BY <1>0, <2>5 DEF Best
      <3> QED
        BY <2>2, <3>1, <3>2
    <2>6. CASE lower < upper
      <3>1. /\ middle \in (lower + 1)..upper
            /\ pos < At(P, middle) =>
                 \A k : Best(P, pos, lower, middle - 1, k) => Best(P, pos, lower, upper, k)
            /\ ~(pos < At(P, middle)) =>
                 \A k : Best(P, pos, middle, upper, k) => Best(P, pos, lower, upper, k)
        BY <2>6, BestHalves
      <3>2. search[<<lower, upper>>] = IF pos < At(P, middle) THEN search[<<lower, middle - 1>>]
                                       ELSE search[<<middle, upper>>]
        BY <1>0, <2>3, <2>6 DEF Half, At
      <3> HIDE DEF middle
      <3>3. /\ middle - 1 \in 0..P.last /\ lower <= middle - 1 /\ middle - 1 - lower < upper - lower
            /\ middle \in 0..P.last /\ middle <= upper /\ upper - middle < upper - lower
        BY <1>0, <3>1
      <3>4. CASE pos < At(P, middle)
        <4>1. Best(P, pos, lower, middle - 1, search[<<lower, middle - 1>>])
          BY <2>4, <3>3
        <4> QED
          BY <2>2, <3>1, <3>2, <3>4, <4>1, Zenon
      <3>5. CASE ~(pos < At(P, middle))
        <4>1. Best(P, pos, middle, upper, search[<<middle, upper>>])
          BY <2>4, <3>3
        <4> QED
          BY <2>2, <3>1, <3>2, <3>5, <4>1, Zenon
      <3> QED
        BY <3>4, <3>5
    <2> QED
      BY <1>0, <2>2, <2>5, <2>6
  <1>6. P.last - 0 \notin Wrong
    BY <1>5
  <1> QED
    BY <1>0, <1>1, <1>6, SMTT(30)

\* The positions and the number of partitions are integers.
LEMMA Positions ==
    ASSUME NEW P, WellFormed(P)
    PROVE  /\ P.last \in Nat /\ P.last > 0
           /\ \A i \in 0..P.last : At(P, i) \in Int
  BY DEF WellFormed, At, PositionFromPartition

\* The line a position is in begins at it or before, and is the last that does.
THEOREM PartitionFound ==
    ASSUME NEW P, WellFormed(P), Ascends(P), At(P, 0) = 0,
           NEW pos \in Nat, pos <= At(P, P.last)
    PROVE  LET p == PartitionFromPosition(P, pos)
           IN  /\ p \in 0..(P.last - 1)
               /\ At(P, p) <= pos
               /\ \A j \in (p + 1)..(P.last - 1) : pos < At(P, j)
  <1> DEFINE p == PartitionFromPosition(P, pos)
  <1>0. /\ P.last \in Nat \ {0} /\ P.last \in 0..P.last /\ P.last - 1 \in 0..P.last
        /\ \A j \in 0..P.last : At(P, j) \in Int
    BY Positions
  <1>1. CASE pos >= At(P, P.last)
    <2>1. p = P.last - 1
      BY <1>1 DEF PartitionFromPosition, At
    <2>2. At(P, P.last - 1) <= At(P, P.last)
      BY <1>0 DEF Ascends
    <2>3. At(P, P.last - 1) <= pos
      BY <1>0, <1>1, <2>2
    <2> HIDE DEF p
    <2> QED
      BY <1>0, <2>1, <2>3 DEF p
  <1>2. CASE ~(pos >= At(P, P.last))
    <2>1. p = Search(P, pos)
      BY <1>2 DEF PartitionFromPosition, At
    <2>2. Best(P, pos, 0, P.last, p)
      BY <2>1, SearchFinds
    <2> HIDE DEF p
    <2>3. p \in 0..P.last /\ At(P, p) <= pos /\ \A j \in (p + 1)..P.last : pos < At(P, j)
      BY <2>2 DEF Best
    <2>4. p # P.last
      BY <1>0, <1>2, <2>3
    <2> QED
      BY <1>0, <2>3, <2>4 DEF p
  <1> QED
    BY <1>1, <1>2

-----------------------------------------------------------------------------
(* Where the step stands. *)

\* Text inserted brings the step to its partition.
LEMMA InsertTextStep ==
    ASSUME NEW P, WellFormed(P), NEW p \in 0..(P.last - 1), NEW delta
    PROVE  InsertText(P, p, delta).stepPartition = p
  <1> P.stepPartition \in Nat /\ P.last \in Nat /\ P.stepPartition <= P.last /\ ~(p >= P.last)
    BY DEF WellFormed
  <1>1. ApplyStep(P, p).stepPartition = p
    BY DEF ApplyStep
  <1>2. BackStep(P, p).stepPartition = p
    BY DEF BackStep
  <1>3. \A Q, q, d : WithStep(Q, q, d).stepPartition = q
    BY DEF WithStep
  <1> QED
    BY <1>1, <1>2, <1>3 DEF InsertText

\* Partitions inserted leave the step after them.
LEMMA InsertPartitionsStep ==
    ASSUME NEW P, WellFormed(P), NEW p \in 1..P.last, P.stepPartition <= p,
           NEW count \in Nat, NEW positions
    PROVE  InsertPartitions(P, p, positions, count).stepPartition = p + count
  <1>1. StepTo(P, p).stepPartition = p
    BY DEF StepTo, ApplyStep, WellFormed
  <1> QED
    BY <1>1 DEF InsertPartitions

\* A partition removed leaves the step before it, unless it was further on.
LEMMA RemovePartitionStep ==
    ASSUME NEW P, WellFormed(P), NEW p \in 1..(P.last - 1), P.stepPartition <= p + 1
    PROVE  RemovePartition(P, p).stepPartition <= p
  <1>1. StepTo(P, p).stepPartition \in {p, p + 1}
    BY DEF StepTo, ApplyStep, WellFormed
  <1> QED
    BY <1>1 DEF RemovePartition

\* Setting a start brings the step to the next partition, or to the end.
LEMMA SetPartitionStep ==
    ASSUME NEW P, WellFormed(P), NEW p \in 0..(P.last - 1), NEW pos
    PROVE  SetPartitionStartPosition(P, p, pos).stepPartition <= p + 1
  <1>1. ApplyStep(P, p + 1).stepPartition <= p + 1 /\ ApplyStep(P, p + 1).last = P.last
    BY DEF ApplyStep, WellFormed
  <1> QED
    BY <1>1 DEF SetPartitionStartPosition

-----------------------------------------------------------------------------
(* A partitioning as a set of starts. *)

\* The partitions begin at the positions of S, in order, and end at length.
Covers(P, S, length) ==
    /\ WellFormed(P)
    /\ \A i, j \in 0..(P.last - 1) : i < j => At(P, i) < At(P, j)
    /\ \A i \in 0..(P.last - 1) : At(P, i) \in S
    /\ \A k \in S : \E i \in 0..(P.last - 1) : At(P, i) = k
    /\ At(P, P.last) = length

\* Text inserted in partition p moves the starts after p's.
LEMMA InsertTextCovers ==
    ASSUME NEW P, NEW S, NEW length \in Nat, Covers(P, S, length),
           NEW p \in 0..(P.last - 1), NEW delta \in Nat
    PROVE  Covers(InsertText(P, p, delta),
                  {k \in S : k <= At(P, p)} \cup {k + delta : k \in {m \in S : m > At(P, p)}},
                  length + delta)
  <1> DEFINE R == InsertText(P, p, delta)
             T == {k \in S : k <= At(P, p)} \cup {k + delta : k \in {m \in S : m > At(P, p)}}
  <1>0. /\ WellFormed(P) /\ P.last \in Nat /\ P.last > 0
        /\ \A i \in 0..P.last : At(P, i) \in Int
        /\ \A i, j \in 0..(P.last - 1) : i < j => At(P, i) < At(P, j)
        /\ \A i \in 0..(P.last - 1) : At(P, i) \in S
        /\ \A k \in S : \E i \in 0..(P.last - 1) : At(P, i) = k
        /\ At(P, P.last) = length
    BY Positions DEF Covers
  <1>1. /\ WellFormed(R) /\ R.last = P.last
        /\ \A i \in 0..P.last : At(R, i) = At(P, i) + (IF i > p THEN delta ELSE 0)
    BY <1>0, InsertTextShifts
  <1> HIDE DEF R
  <1>2. \A i \in 0..(P.last - 1) : (i > p <=> At(P, i) > At(P, p)) /\ At(P, i) \in Int
    BY <1>0
  <1>3. ASSUME NEW i \in 0..(P.last - 1)
        PROVE  At(R, i) \in T
    <2>1. CASE i > p
      <3>1. At(P, i) \in {m \in S : m > At(P, p)} /\ At(R, i) = At(P, i) + delta
        BY <1>0, <1>1, <1>2, <2>1
      <3> QED
        BY <3>1
    <2>2. CASE ~(i > p)
      <3>1. At(P, i) \in S /\ At(P, i) <= At(P, p) /\ At(R, i) = At(P, i)
        BY <1>0, <1>1, <1>2, <2>2
      <3> QED
        BY <3>1
    <2> QED
      BY <2>1, <2>2
  <1>4. ASSUME NEW k \in T
        PROVE  \E i \in 0..(P.last - 1) : At(R, i) = k
    <2>1. CASE k \in S /\ k <= At(P, p)
      <3>1. PICK i \in 0..(P.last - 1) : At(P, i) = k
        BY <1>0, <2>1
      <3>2. ~(i > p)
        BY <1>0, <1>2, <2>1, <3>1
      <3> QED
        BY <1>0, <1>1, <3>1, <3>2
    <2>2. CASE \E m \in S : m > At(P, p) /\ k = m + delta
      <3>1. PICK m \in S : m > At(P, p) /\ k = m + delta
        BY <2>2
      <3>2. PICK i \in 0..(P.last - 1) : At(P, i) = m
        BY <1>0
      <3>3. i > p
        BY <1>2, <3>1, <3>2
      <3> QED
        BY <1>0, <1>1, <3>1, <3>2, <3>3
    <2> QED
      BY <2>1, <2>2
  <1>5. ASSUME NEW i \in 0..(P.last - 1), NEW j \in 0..(P.last - 1), i < j
        PROVE  At(R, i) < At(R, j)
    <2>1. At(P, i) < At(P, j) /\ At(P, i) \in Int /\ At(P, j) \in Int
      BY <1>0, <1>5
    <2>2. At(R, i) = At(P, i) + (IF i > p THEN delta ELSE 0)
      BY <1>0, <1>1
    <2>3. At(R, j) = At(P, j) + (IF j > p THEN delta ELSE 0)
      BY <1>0, <1>1
    <2> QED
      BY <1>5, <2>1, <2>2, <2>3
  <1>6. At(R, P.last) = length + delta
    BY <1>0, <1>1
  <1> HIDE DEF T
  <1> QED
    BY <1>1, <1>3, <1>4, <1>5, <1>6 DEF Covers, R, T

\* New partitions that begin between the partitions p-1 and p add their starts.
LEMMA InsertPartitionsCovers ==
    ASSUME NEW P, NEW S, NEW length, Covers(P, S, length),
           NEW p \in 1..P.last, NEW count \in Nat, NEW positions \in [1..count -> Int],
           \A i, j \in 1..count : i < j => positions[i] < positions[j],
           \A i \in 0..(p - 1), j \in 1..count : At(P, i) < positions[j],
           \A i \in p..(P.last - 1), j \in 1..count : positions[j] < At(P, i)
    PROVE  Covers(InsertPartitions(P, p, positions, count),
                  S \cup {positions[j] : j \in 1..count}, length)
  <1> DEFINE R == InsertPartitions(P, p, positions, count)
             T == S \cup {positions[j] : j \in 1..count}
             n == P.last + count
  <1>0. /\ WellFormed(P) /\ P.last \in Nat /\ P.last > 0
        /\ \A i \in 0..P.last : At(P, i) \in Int
        /\ \A i, j \in 0..(P.last - 1) : i < j => At(P, i) < At(P, j)
        /\ \A i \in 0..(P.last - 1) : At(P, i) \in S
        /\ \A k \in S : \E i \in 0..(P.last - 1) : At(P, i) = k
        /\ At(P, P.last) = length
    BY Positions DEF Covers
  <1>1. /\ WellFormed(R) /\ R.last = n
        /\ \A i \in 0..n : At(R, i) = IF i < p THEN At(P, i)
                                      ELSE IF i < p + count THEN positions[i - p + 1]
                                      ELSE At(P, i - count)
    BY <1>0, InsertPartitionsInserts
  <1> HIDE DEF R
  <1>a. ASSUME NEW i \in 0..(p - 1)
        PROVE  i \in 0..(n - 1) /\ At(R, i) = At(P, i)
    BY <1>0, <1>1
  <1>b. ASSUME NEW j \in 1..count
        PROVE  p + j - 1 \in 0..(n - 1) /\ At(R, p + j - 1) = positions[j]
    <2>1. p + j - 1 \in 0..(n - 1) /\ ~(p + j - 1 < p) /\ p + j - 1 < p + count
          /\ p + j - 1 - p + 1 = j
      BY <1>0
    <2> QED
      BY <1>0, <1>1, <2>1
  <1>c. ASSUME NEW i \in p..P.last
        PROVE  /\ i + count \in 0..n /\ At(R, i + count) = At(P, i)
               /\ i < P.last => i + count \in 0..(n - 1)
    <2>1. i + count \in 0..n /\ ~(i + count < p) /\ ~(i + count < p + count)
          /\ i + count - count = i
      BY <1>0
    <2> QED
      BY <1>0, <1>1, <2>1
  <1>d. \A i \in 0..(n - 1) : \/ i \in 0..(p - 1)
                              \/ \E j \in 1..count : i = p + j - 1
                              \/ \E m \in p..(P.last - 1) : i = m + count
    <2> SUFFICES ASSUME NEW i \in 0..(n - 1), ~(i < p)
                 PROVE  \/ \E j \in 1..count : i = p + j - 1
                        \/ \E m \in p..(P.last - 1) : i = m + count
      BY <1>0
    <2>1. CASE i < p + count
      <3>1. i - p + 1 \in 1..count /\ i = p + (i - p + 1) - 1
        BY <1>0, <2>1
      <3> QED
        BY <3>1
    <2>2. CASE ~(i < p + count)
      <3>1. i - count \in p..(P.last - 1) /\ i = (i - count) + count
        BY <1>0, <2>2
      <3> QED
        BY <3>1
    <2> QED
      BY <2>1, <2>2
  <1>2. ASSUME NEW i \in 0..(n - 1)
        PROVE  At(R, i) \in T
    <2>1. CASE i \in 0..(p - 1)
      BY <1>0, <1>a, <2>1
    <2>2. CASE \E j \in 1..count : i = p + j - 1
      BY <1>b, <2>2
    <2>3. CASE \E m \in p..(P.last - 1) : i = m + count
      <3>1. PICK m \in p..(P.last - 1) : i = m + count
        BY <2>3
      <3>2. m \in p..P.last /\ m \in 0..(P.last - 1)
        BY <1>0
      <3> QED
        BY <1>0, <1>c, <3>1, <3>2
    <2> QED
      BY <1>d, <2>1, <2>2, <2>3
  <1>3. ASSUME NEW k \in T
        PROVE  \E i \in 0..(n - 1) : At(R, i) = k
    <2>1. CASE k \in S
      <3>1. PICK i \in 0..(P.last - 1) : At(P, i) = k
        BY <1>0, <2>1
      <3>2. CASE i < p
        <4>1. i \in 0..(p - 1)
          BY <3>2
        <4> QED
          BY <1>a, <3>1, <4>1
      <3>3. CASE ~(i < p)
        <4>1. i \in p..P.last /\ i < P.last
          BY <1>0, <3>3
        <4> QED
          BY <1>c, <3>1, <4>1
      <3> QED
        BY <3>2, <3>3
    <2>2. CASE \E j \in 1..count : k = positions[j]
      BY <1>b, <2>2
    <2> QED
      BY <2>1, <2>2
  <1>4. ASSUME NEW i \in 0..(n - 1), NEW j \in 0..(n - 1), i < j
        PROVE  At(R, i) < At(R, j)
    <2>a. /\ \A x \in 0..(p - 1), y \in p..(P.last - 1) : At(P, x) < At(P, y)
          /\ \A x, y \in p..(P.last - 1) : x < y => At(P, x) < At(P, y)
          /\ \A x, y \in 0..(p - 1) : x < y => At(P, x) < At(P, y)
          /\ p..(P.last - 1) \subseteq p..P.last
      <3>1. /\ 0..(p - 1) \subseteq 0..(P.last - 1)
            /\ p..(P.last - 1) \subseteq 0..(P.last - 1)
            /\ \A x \in 0..(p - 1), y \in p..(P.last - 1) : x < y
            /\ p..(P.last - 1) \subseteq p..P.last
        BY <1>0
      <3> QED
        BY <1>0, <3>1
    <2>1. CASE i \in 0..(p - 1)
      <3>1. CASE j \in 0..(p - 1)
        BY <1>a, <1>4, <2>a, <2>1, <3>1
      <3>2. CASE \E y \in 1..count : j = p + y - 1
        BY <1>a, <1>b, <2>1, <3>2
      <3>3. CASE \E y \in p..(P.last - 1) : j = y + count
        BY <1>a, <1>c, <2>a, <2>1, <3>3
      <3> QED
        BY <1>d, <3>1, <3>2, <3>3
    <2>2. CASE \E x \in 1..count : i = p + x - 1
      <3>0. PICK x \in 1..count : i = p + x - 1
        BY <2>2
      <3>1. CASE j \in 0..(p - 1)
        BY <1>4, <3>0, <3>1
      <3>2. CASE \E y \in 1..count : j = p + y - 1
        <4>1. PICK y \in 1..count : j = p + y - 1
          BY <3>2
        <4>2. x < y
          BY <1>4, <3>0, <4>1
        <4> QED
          BY <1>b, <3>0, <4>1, <4>2
      <3>3. CASE \E y \in p..(P.last - 1) : j = y + count
        BY <1>b, <1>c, <2>a, <3>0, <3>3
      <3> QED
        BY <1>d, <3>1, <3>2, <3>3
    <2>3. CASE \E x \in p..(P.last - 1) : i = x + count
      <3>0. PICK x \in p..(P.last - 1) : i = x + count
        BY <2>3
      <3>1. PICK y \in p..(P.last - 1) : j = y + count
        <4>1. j - count \in p..(P.last - 1) /\ j = (j - count) + count
          BY <1>0, <1>4, <3>0
        <4> QED
          BY <4>1
      <3>2. x < y
        BY <1>0, <1>4, <3>0, <3>1
      <3> QED
        BY <1>c, <2>a, <3>0, <3>1, <3>2
    <2> QED
      BY <1>d, <2>1, <2>2, <2>3
  <1>5. At(R, n) = length
    <2>1. P.last \in p..P.last
      BY <1>0
    <2> QED
      BY <1>0, <1>c, <2>1
  <1> HIDE DEF T
  <1> QED
    BY <1>1, <1>2, <1>3, <1>4, <1>5 DEF Covers, R, T

\* A removed partition takes its start away.
LEMMA RemovePartitionCovers ==
    ASSUME NEW P, NEW S, NEW length, Covers(P, S, length), NEW p \in 1..(P.last - 1)
    PROVE  Covers(RemovePartition(P, p), S \ {At(P, p)}, length)
  <1> DEFINE R == RemovePartition(P, p)
             T == S \ {At(P, p)}
             n == P.last - 1
  <1>0. /\ WellFormed(P) /\ P.last \in Nat /\ P.last > 0 /\ n \in Nat
        /\ \A i \in 0..P.last : At(P, i) \in Int
        /\ \A i, j \in 0..n : i < j => At(P, i) < At(P, j)
        /\ \A i \in 0..n : At(P, i) \in S
        /\ \A k \in S : \E i \in 0..n : At(P, i) = k
        /\ At(P, P.last) = length
    BY Positions DEF Covers
  <1>1. /\ WellFormed(R) /\ R.last = n
        /\ \A i \in 0..n : At(R, i) = IF i < p THEN At(P, i) ELSE At(P, i + 1)
    BY <1>0, RemovePartitionRemoves
  <1> HIDE DEF R
  <1>2. ASSUME NEW i \in 0..(n - 1)
        PROVE  At(R, i) \in T
    <2>1. CASE i < p
      BY <1>0, <1>1, <2>1
    <2>2. CASE ~(i < p)
      <3>1. i \in 0..n /\ i + 1 \in 0..n /\ p \in 0..n /\ p < i + 1
        BY <1>0, <2>2
      <3> QED
        BY <1>0, <1>1, <2>2, <3>1
    <2> QED
      BY <2>1, <2>2
  <1>3. ASSUME NEW k \in T
        PROVE  \E i \in 0..(n - 1) : At(R, i) = k
    <2>1. PICK i \in 0..n : At(P, i) = k
      BY <1>0
    <2>2. CASE i < p
      <3>1. i \in 0..(n - 1) /\ i \in 0..n
        BY <1>0, <2>2
      <3> QED
        BY <1>1, <2>1, <2>2, <3>1
    <2>3. CASE i > p
      <3>1. i - 1 \in 0..(n - 1) /\ i - 1 \in 0..n /\ ~(i - 1 < p) /\ (i - 1) + 1 = i
        BY <1>0, <2>3
      <3> QED
        BY <1>1, <2>1, <3>1
    <2>4. i # p
      BY <2>1
    <2> QED
      BY <1>0, <2>2, <2>3, <2>4
  <1>4. ASSUME NEW i \in 0..(n - 1), NEW j \in 0..(n - 1), i < j
        PROVE  At(R, i) < At(R, j)
    <2>1. i \in 0..n /\ j \in 0..n /\ i + 1 \in 0..n /\ j + 1 \in 0..n /\ i + 1 < j + 1 /\ i < j + 1
      BY <1>0, <1>4
    <2>2. At(P, i) < At(P, j) /\ At(P, i) < At(P, j + 1) /\ At(P, i + 1) < At(P, j + 1)
      BY <1>0, <1>4, <2>1
    <2> QED
      BY <1>1, <1>4, <2>1, <2>2
  <1>5. At(R, n) = length
    <2>1. n \in 0..n /\ ~(n < p) /\ n + 1 = P.last
      BY <1>0
    <2> QED
      BY <1>0, <1>1, <2>1
  <1> HIDE DEF T
  <1> QED
    BY <1>1, <1>2, <1>3, <1>4, <1>5 DEF Covers, R, T

\* A start set between those of its neighbours takes the place of the old one.
LEMMA SetPartitionCovers ==
    ASSUME NEW P, NEW S, NEW length, Covers(P, S, length), NEW p \in 0..(P.last - 1),
           p + 1 >= P.stepPartition, NEW pos \in Int,
           \A i \in 0..(p - 1) : At(P, i) < pos,
           \A i \in (p + 1)..(P.last - 1) : pos < At(P, i)
    PROVE  Covers(SetPartitionStartPosition(P, p, pos), (S \ {At(P, p)}) \cup {pos}, length)
  <1> DEFINE R == SetPartitionStartPosition(P, p, pos)
             T == (S \ {At(P, p)}) \cup {pos}
             n == P.last - 1
  <1>0. /\ WellFormed(P) /\ P.last \in Nat /\ P.last > 0 /\ n \in Nat /\ 0..n \subseteq 0..P.last
        /\ \A i \in 0..P.last : At(P, i) \in Int
        /\ \A i, j \in 0..n : i < j => At(P, i) < At(P, j)
        /\ \A i \in 0..n : At(P, i) \in S
        /\ \A k \in S : \E i \in 0..n : At(P, i) = k
        /\ At(P, P.last) = length
    BY Positions DEF Covers
  <1>1. /\ WellFormed(R) /\ R.last = P.last
        /\ \A i \in 0..P.last : At(R, i) = IF i = p THEN pos ELSE At(P, i)
    BY <1>0, SetPartitionStartPositionSets
  <1> HIDE DEF R
  <1>2. ASSUME NEW i \in 0..n
        PROVE  At(R, i) \in T
    <2>1. CASE i = p
      BY <1>0, <1>1, <2>1
    <2>2. CASE i # p
      <3>1. At(P, i) # At(P, p)
        BY <1>0, <2>2
      <3> QED
        BY <1>0, <1>1, <2>2, <3>1
    <2> QED
      BY <2>1, <2>2
  <1>3. ASSUME NEW k \in T
        PROVE  \E i \in 0..n : At(R, i) = k
    <2>1. CASE k = pos
      BY <1>0, <1>1, <2>1
    <2>2. CASE k \in S /\ k # At(P, p)
      <3>1. PICK i \in 0..n : At(P, i) = k
        BY <1>0, <2>2
      <3> QED
        BY <1>0, <1>1, <2>2, <3>1
    <2> QED
      BY <2>1, <2>2
  <1>4. ASSUME NEW i \in 0..n, NEW j \in 0..n, i < j
        PROVE  At(R, i) < At(R, j)
    <2>1. CASE i # p /\ j # p
      BY <1>0, <1>1, <1>4, <2>1
    <2>2. CASE i = p
      <3>1. j \in (p + 1)..n /\ j # p
        BY <1>0, <1>4, <2>2
      <3> QED
        BY <1>0, <1>1, <2>2, <3>1
    <2>3. CASE j = p
      <3>1. i \in 0..(p - 1) /\ i # p
        BY <1>0, <1>4, <2>3
      <3> QED
        BY <1>0, <1>1, <2>3, <3>1
    <2> QED
      BY <2>1, <2>2, <2>3
  <1>5. At(R, P.last) = length
    <2>1. P.last \in 0..P.last /\ P.last # p
      BY <1>0
    <2> QED
      BY <1>0, <1>1, <2>1
  <1> HIDE DEF T
  <1> QED
    BY <1>1, <1>2, <1>3, <1>4, <1>5 DEF Covers, R, T

-----------------------------------------------------------------------------
(* Inserting and deleting. *)

Str == Seq(Char)

\* The part of a sequence from its m-th element on, up to its n-th.
LEMMA Cut ==
    ASSUME NEW S, NEW t \in Seq(S), NEW m \in Nat, NEW n \in m..Len(t)
    PROVE  /\ SubSeq(t, m + 1, n) \in Seq(S)
           /\ Len(SubSeq(t, m + 1, n)) = n - m
           /\ \A i \in 1..n - m : SubSeq(t, m + 1, n)[i] = t[m + i]
  <1>1. Len(t) \in Nat /\ n \in Nat
    BY LenProperties
  <1>2. \A i \in (m + 1)..n : t[i] \in S
    BY <1>1, ElementOfSeq
  <1>3. /\ SubSeq(t, m + 1, n) \in Seq(S)
        /\ Len(SubSeq(t, m + 1, n)) = IF m + 1 <= n THEN n - (m + 1) + 1 ELSE 0
        /\ \A i \in 1..n - (m + 1) + 1 : SubSeq(t, m + 1, n)[i] = t[m + 1 + i - 1]
    BY <1>1, <1>2, SubSeqProperties
  <1>4. \A i \in 1..n - m : m + 1 + i - 1 = m + i
    BY <1>1
  <1> QED
    BY <1>1, <1>3, <1>4

\* The first n elements of a sequence.
LEMMA FirstPart ==
    ASSUME NEW S, NEW t \in Seq(S), NEW n \in 0..Len(t)
    PROVE  /\ SubSeq(t, 1, n) \in Seq(S)
           /\ Len(SubSeq(t, 1, n)) = n
           /\ \A i \in 1..n : SubSeq(t, 1, n)[i] = t[i]
  <1>1. Len(t) \in Nat
    BY LenProperties
  <1>2. \A i \in 1..n : t[i] \in S
    BY <1>1, ElementOfSeq
  <1>3. /\ SubSeq(t, 1, n) \in Seq(S)
        /\ Len(SubSeq(t, 1, n)) = IF 1 <= n THEN n - 1 + 1 ELSE 0
        /\ \A i \in 1..n - 1 + 1 : SubSeq(t, 1, n)[i] = t[1 + i - 1]
    BY <1>1, <1>2, SubSeqProperties
  <1>4. \A i \in 1..n : 1 + i - 1 = i
    BY <1>1
  <1> QED
    BY <1>1, <1>3, <1>4

\* The characters of a text after an insertion.
LEMMA InsertedAt ==
    ASSUME NEW t \in Str, NEW s \in Str, NEW p \in 0..Len(t)
    PROVE  /\ Inserted(t, p, s) \in Str
           /\ Len(Inserted(t, p, s)) = Len(t) + Len(s)
           /\ \A i \in 1..Len(t) + Len(s) :
                Inserted(t, p, s)[i] = IF i <= p THEN t[i]
                                       ELSE IF i <= p + Len(s) THEN s[i - p] ELSE t[i - Len(s)]
  <1> DEFINE before == SubSeq(t, 1, p)
             after == SubSeq(t, p + 1, Len(t))
  <1>1. /\ before \in Str /\ Len(before) = p /\ \A i \in 1..p : before[i] = t[i]
        /\ after \in Str /\ Len(after) = Len(t) - p
        /\ \A i \in 1..Len(t) - p : after[i] = t[p + i]
    <2>1. Len(t) \in Nat /\ t \in Seq(Char)
      BY LenProperties DEF Str
    <2>2. /\ before \in Str /\ Len(before) = p
          /\ \A i \in 1..p : before[i] = t[i]
      BY <2>1, FirstPart DEF Str
    <2>3. /\ after \in Str /\ Len(after) = Len(t) - p
          /\ \A i \in 1..Len(t) - p : after[i] = t[p + i]
      BY <2>1, Cut DEF Str
    <2> QED
      BY <2>2, <2>3
  <1> HIDE DEF before, after
  <1>2. /\ before \o s \in Str /\ Len(before \o s) = p + Len(s)
        /\ \A i \in 1..p + Len(s) : (before \o s)[i] = IF i <= p THEN before[i] ELSE s[i - p]
    <2>1. before \in Seq(Char) /\ s \in Seq(Char)
      BY <1>1 DEF Str
    <2>2. /\ before \o s \in Seq(Char) /\ Len(before \o s) = Len(before) + Len(s)
          /\ \A i \in 1..Len(before) + Len(s) : (before \o s)[i] =
               IF i <= Len(before) THEN before[i] ELSE s[i - Len(before)]
      BY <2>1, ConcatProperties, Zenon
    <2> QED
      BY <1>1, <2>2 DEF Str
  <1>3. /\ (before \o s) \o after \in Str /\ Len((before \o s) \o after) = Len(t) + Len(s)
        /\ \A i \in 1..Len(t) + Len(s) : ((before \o s) \o after)[i] =
             IF i <= p + Len(s) THEN (before \o s)[i] ELSE after[i - (p + Len(s))]
    <2>1. Len(t) \in Nat /\ Len(s) \in Nat
      BY LenProperties DEF Str
    <2>2. Len(before \o s) + Len(after) = Len(t) + Len(s)
      BY <1>1, <1>2, <2>1
    <2>3. /\ (before \o s) \o after \in Str
          /\ Len((before \o s) \o after) = Len(before \o s) + Len(after)
          /\ \A i \in 1..Len(before \o s) + Len(after) : ((before \o s) \o after)[i] =
               IF i <= Len(before \o s) THEN (before \o s)[i] ELSE after[i - Len(before \o s)]
      <3>1. before \o s \in Seq(Char) /\ after \in Seq(Char)
        BY <1>1, <1>2 DEF Str
      <3> QED
        BY <3>1, ConcatProperties, Zenon DEF Str
    <2> QED
      BY <1>2, <2>2, <2>3
  <1>4. Inserted(t, p, s) = (before \o s) \o after
    BY DEF Inserted, before, after
  <1>5. Len(t) \in Nat /\ Len(s) \in Nat
    BY LenProperties DEF Str
  <1>6. ASSUME NEW i \in 1..Len(t) + Len(s)
        PROVE  Inserted(t, p, s)[i] = IF i <= p THEN t[i]
                 ELSE IF i <= p + Len(s) THEN s[i - p] ELSE t[i - Len(s)]
    <2>1. CASE i <= p + Len(s)
      BY <1>1, <1>2, <1>3, <1>4, <1>5, <2>1
    <2>2. CASE i > p + Len(s)
      <3>1. i - (p + Len(s)) \in 1..Len(t) - p /\ p + (i - (p + Len(s))) = i - Len(s)
        BY <1>5, <2>2
      <3>2. after[i - (p + Len(s))] = t[i - Len(s)]
        BY <1>1, <3>1
      <3> QED
        BY <1>3, <1>4, <1>5, <2>2, <3>2
    <2> QED
      BY <1>5, <2>1, <2>2
  <1> QED
    BY <1>3, <1>4, <1>6

\* The characters of a text after a deletion.
LEMMA DeletedAt ==
    ASSUME NEW t \in Str, NEW n \in Nat, NEW p \in 0..Len(t), p + n <= Len(t)
    PROVE  /\ Deleted(t, p, n) \in Str
           /\ Len(Deleted(t, p, n)) = Len(t) - n
           /\ \A i \in 1..Len(t) - n : Deleted(t, p, n)[i] = IF i <= p THEN t[i] ELSE t[i + n]
  <1> DEFINE before == SubSeq(t, 1, p)
             after == SubSeq(t, p + n + 1, Len(t))
  <1>1. /\ before \in Str /\ Len(before) = p /\ \A i \in 1..p : before[i] = t[i]
        /\ after \in Str /\ Len(after) = Len(t) - (p + n)
        /\ \A i \in 1..Len(t) - (p + n) : after[i] = t[p + n + i]
    <2>1. Len(t) \in Nat /\ t \in Seq(Char)
      BY LenProperties DEF Str
    <2>2. /\ before \in Str /\ Len(before) = p
          /\ \A i \in 1..p : before[i] = t[i]
      BY <2>1, FirstPart DEF Str
    <2>3. /\ after \in Str /\ Len(after) = Len(t) - (p + n)
          /\ \A i \in 1..Len(t) - (p + n) : after[i] = t[p + n + i]
      BY <2>1, Cut DEF Str
    <2> QED
      BY <2>2, <2>3
  <1> HIDE DEF before, after
  <1>2. /\ before \o after \in Str /\ Len(before \o after) = Len(t) - n
        /\ \A i \in 1..Len(t) - n : (before \o after)[i] =
             IF i <= p THEN before[i] ELSE after[i - p]
    <2>1. Len(t) \in Nat
      BY LenProperties DEF Str
    <2>2. Len(before) + Len(after) = Len(t) - n
      BY <1>1, <2>1
    <2>3. /\ before \o after \in Str
          /\ Len(before \o after) = Len(before) + Len(after)
          /\ \A i \in 1..Len(before) + Len(after) : (before \o after)[i] =
               IF i <= Len(before) THEN before[i] ELSE after[i - Len(before)]
      BY <1>1, ConcatProperties DEF Str
    <2> QED
      BY <1>1, <2>2, <2>3
  <1>3. Deleted(t, p, n) = before \o after
    BY DEF Deleted, before, after
  <1>4. Len(t) \in Nat
    BY LenProperties DEF Str
  <1>5. ASSUME NEW i \in 1..Len(t) - n
        PROVE  Deleted(t, p, n)[i] = IF i <= p THEN t[i] ELSE t[i + n]
    <2>1. CASE i <= p
      BY <1>1, <1>2, <1>3, <1>4, <2>1
    <2>2. CASE i > p
      <3>1. i - p \in 1..Len(t) - (p + n) /\ p + n + (i - p) = i + n
        BY <1>4, <2>2
      <3>2. after[i - p] = t[i + n]
        BY <1>1, <3>1
      <3> QED
        BY <1>2, <1>3, <1>4, <2>2, <3>2
    <2> QED
      BY <1>4, <2>1, <2>2
  <1> QED
    BY <1>2, <1>3, <1>5

\* Texts with the same characters are the same.
LEMMA SameText ==
    ASSUME NEW t \in Str, NEW u \in Str, Len(t) = Len(u), \A i \in 1..Len(t) : t[i] = u[i]
    PROVE  t = u
  BY SeqEqual DEF Str

\* Deleting takes an insertion back.
LEMMA DeleteInserted ==
    ASSUME NEW t \in Str, NEW s \in Str, NEW p \in 0..Len(t)
    PROVE  Deleted(Inserted(t, p, s), p, Len(s)) = t
  <1> DEFINE u == Inserted(t, p, s)
             d == Deleted(u, p, Len(s))
  <1>1. Len(t) \in Nat /\ Len(s) \in Nat
    BY LenProperties DEF Str
  <1>2. /\ u \in Str /\ Len(u) = Len(t) + Len(s)
        /\ \A i \in 1..Len(t) + Len(s) :
             u[i] = IF i <= p THEN t[i] ELSE IF i <= p + Len(s) THEN s[i - p] ELSE t[i - Len(s)]
    BY InsertedAt
  <1> HIDE DEF u
  <1>3. /\ d \in Str /\ Len(d) = Len(t)
        /\ \A i \in 1..Len(t) : d[i] = IF i <= p THEN u[i] ELSE u[i + Len(s)]
    <2>1. p \in 0..Len(u) /\ p + Len(s) <= Len(u) /\ Len(u) - Len(s) = Len(t)
      BY <1>1, <1>2
    <2>2. /\ d \in Str /\ Len(d) = Len(u) - Len(s)
          /\ \A i \in 1..Len(u) - Len(s) : d[i] = IF i <= p THEN u[i] ELSE u[i + Len(s)]
      <3>1. u \in Str /\ Len(s) \in Nat /\ p \in 0..Len(u) /\ p + Len(s) <= Len(u)
        BY <1>1, <1>2, <2>1
      <3> QED
        BY <3>1, DeletedAt
    <2> QED
      BY <2>1, <2>2
  <1> HIDE DEF d
  <1>4. ASSUME NEW i \in 1..Len(t)
        PROVE  d[i] = t[i]
    <2>1. CASE i <= p
      BY <1>1, <1>2, <1>3, <2>1
    <2>2. CASE i > p
      <3>1. /\ i + Len(s) \in 1..Len(t) + Len(s)
            /\ ~(i + Len(s) <= p + Len(s)) /\ ~(i + Len(s) <= p)
            /\ i + Len(s) - Len(s) = i
        BY <1>1, <2>2
      <3>2. u[i + Len(s)] = t[i]
        BY <1>2, <3>1
      <3> QED
        BY <1>1, <1>3, <2>2, <3>2
    <2> QED
      BY <1>1, <2>1, <2>2
  <1>5. d = t
    BY <1>3, <1>4, SameText
  <1> QED
    BY <1>5 DEF d, u

\* Inserting what was deleted takes the deletion back.
LEMMA InsertDeleted ==
    ASSUME NEW t \in Str, NEW n \in Nat, NEW p \in 0..Len(t), p + n <= Len(t)
    PROVE  /\ SubSeq(t, p + 1, p + n) \in Str /\ Len(SubSeq(t, p + 1, p + n)) = n
           /\ Inserted(Deleted(t, p, n), p, SubSeq(t, p + 1, p + n)) = t
  <1> DEFINE d == Deleted(t, p, n)
             s == SubSeq(t, p + 1, p + n)
             u == Inserted(d, p, s)
  <1>1. Len(t) \in Nat
    BY LenProperties DEF Str
  <1>2. s \in Str /\ Len(s) = n /\ \A i \in 1..n : s[i] = t[p + i]
    <2> DEFINE e == p + n
               c == SubSeq(t, p + 1, e)
    <2>1. e \in p..Len(t) /\ e - p = n /\ p \in Nat
      BY <1>1
    <2>2. c = s
      OBVIOUS
    <2> HIDE DEF e, s
    <2>3. c \in Str /\ Len(c) = e - p /\ \A i \in 1..e - p : c[i] = t[p + i]
      BY <2>1, Cut DEF Str
    <2> HIDE DEF c
    <2> QED
      BY <2>1, <2>2, <2>3
  <1>3. /\ d \in Str /\ Len(d) = Len(t) - n
        /\ \A i \in 1..Len(t) - n : d[i] = IF i <= p THEN t[i] ELSE t[i + n]
    BY DeletedAt
  <1> HIDE DEF d, s
  <1>4. /\ u \in Str /\ Len(u) = Len(t)
        /\ \A i \in 1..Len(t) :
             u[i] = IF i <= p THEN d[i] ELSE IF i <= p + n THEN s[i - p] ELSE d[i - n]
    <2>1. p \in 0..Len(d) /\ Len(d) + Len(s) = Len(t)
      BY <1>1, <1>2, <1>3
    <2>2. /\ u \in Str /\ Len(u) = Len(d) + Len(s)
          /\ \A i \in 1..Len(d) + Len(s) :
               u[i] = IF i <= p THEN d[i]
                      ELSE IF i <= p + Len(s) THEN s[i - p] ELSE d[i - Len(s)]
      <3>1. d \in Str /\ s \in Str /\ p \in 0..Len(d)
        BY <1>2, <1>3, <2>1
      <3> QED
        BY <3>1, InsertedAt
    <2>3. ASSUME NEW i \in 1..Len(t)
          PROVE  u[i] = IF i <= p THEN d[i] ELSE IF i <= p + n THEN s[i - p] ELSE d[i - n]
      BY <1>2, <2>1, <2>2
    <2> QED
      BY <2>1, <2>2, <2>3
  <1> HIDE DEF u
  <1>5. ASSUME NEW i \in 1..Len(t)
        PROVE  u[i] = t[i]
    <2>1. CASE i <= p
      <3>1. u[i] = d[i]
        BY <1>4, <2>1
      <3>2. i \in 1..Len(t) - n
        BY <1>1, <2>1
      <3> QED
        BY <1>3, <2>1, <3>1, <3>2
    <2>2. CASE i > p /\ i <= p + n
      <3>1. i - p \in 1..n /\ p + (i - p) = i
        BY <1>1, <2>2
      <3> QED
        BY <1>1, <1>2, <1>4, <2>2, <3>1
    <2>3. CASE i > p + n
      <3>1. i - n \in 1..Len(t) - n /\ ~(i - n <= p) /\ i - n + n = i
        BY <1>1, <2>3
      <3> QED
        BY <1>1, <1>3, <1>4, <2>3, <3>1
    <2> QED
      BY <1>1, <2>1, <2>2, <2>3
  <1>6. u = t
    BY <1>4, <1>5, SameText
  <1> QED
    BY <1>2, <1>6 DEF u, d, s

\* The last of the scraps is the one put there last, and the others stay.
LEMMA ScrapPushed ==
    ASSUME NEW s \in Str, NEW n \in 0..Len(s), NEW data \in Str
    PROVE  LET t == SubSeq(s, 1, n) \o data
           IN  /\ t \in Str /\ Len(t) = n + Len(data)
               /\ SubSeq(t, n + 1, n + Len(data)) = data
               /\ \A i, j \in 0..n : SubSeq(t, i + 1, j) = SubSeq(s, i + 1, j)
  <1> DEFINE h == SubSeq(s, 1, n)
             t == h \o data
  <1>1. Len(s) \in Nat /\ Len(data) \in Nat
    BY LenProperties DEF Str
  <1>2. h \in Str /\ Len(h) = n /\ \A i \in 1..n : h[i] = s[i]
    BY FirstPart DEF Str
  <1> HIDE DEF h
  <1>3. /\ t \in Str /\ Len(t) = n + Len(data)
        /\ \A i \in 1..n : t[i] = s[i]
        /\ \A i \in 1..Len(data) : t[n + i] = data[i]
    <2>1. /\ t \in Str /\ Len(t) = Len(h) + Len(data)
          /\ \A i \in 1..Len(h) + Len(data) : t[i] = IF i <= Len(h) THEN h[i] ELSE data[i - Len(h)]
      BY <1>2, ConcatProperties DEF Str
    <2>2. ASSUME NEW i \in 1..Len(data)
          PROVE  t[n + i] = data[i]
      <3>1. n + i \in 1..n + Len(data) /\ ~(n + i <= n) /\ n + i - n = i
        BY <1>1
      <3> QED
        BY <1>2, <2>1, <3>1
    <2>3. ASSUME NEW i \in 1..n
          PROVE  t[i] = s[i]
      BY <1>1, <1>2, <2>1
    <2> QED
      BY <1>2, <2>1, <2>2, <2>3
  <1> HIDE DEF t
  <1> DEFINE e == n + Len(data)
             c == SubSeq(t, n + 1, e)
  <1>4. c = data
    <2>1. e \in n..Len(t) /\ e - n = Len(data) /\ n \in Nat
      BY <1>1, <1>3
    <2> HIDE DEF e
    <2>2. c \in Str /\ Len(c) = e - n /\ \A i \in 1..e - n : c[i] = t[n + i]
      BY <1>3, <2>1, Cut DEF Str
    <2> HIDE DEF c
    <2>3. \A i \in 1..Len(data) : c[i] = data[i]
      BY <1>3, <2>1, <2>2
    <2> QED
      BY <2>1, <2>2, <2>3, SameText
  <1>5. ASSUME NEW i \in 0..n, NEW j \in 0..n
        PROVE  SubSeq(t, i + 1, j) = SubSeq(s, i + 1, j)
    <2>1. CASE j < i
      BY <2>1, <1>1, SubSeqEmpty
    <2>2. CASE i <= j
      <3>1. /\ SubSeq(t, i + 1, j) \in Str /\ Len(SubSeq(t, i + 1, j)) = j - i
            /\ \A k \in 1..j - i : SubSeq(t, i + 1, j)[k] = t[i + k]
        <4>1. i \in Nat /\ j \in i..Len(t)
          BY <1>1, <1>3, <2>2
        <4> QED
          BY <1>3, <4>1, Cut DEF Str
      <3>2. /\ SubSeq(s, i + 1, j) \in Str /\ Len(SubSeq(s, i + 1, j)) = j - i
            /\ \A k \in 1..j - i : SubSeq(s, i + 1, j)[k] = s[i + k]
        <4>1. i \in Nat /\ j \in i..Len(s)
          BY <1>1, <2>2
        <4> QED
          BY <4>1, Cut DEF Str
      <3>3. \A k \in 1..j - i : t[i + k] = s[i + k]
        BY <1>1, <1>3, <2>2
      <3> QED
        BY <3>1, <3>2, <3>3, SameText
    <2> QED
      BY <1>1, <2>1, <2>2
  <1> QED
    BY <1>3, <1>4, <1>5 DEF t, h, c, e

\* Undo leads back, to the end of the user operation before.
LEMMA UndoTargetBefore ==
    ASSUME NEW c \in Nat, currentAction = c, c > 0
    PROVE  /\ UndoTarget \in 0..(c - 1)
           /\ UndoTarget = 0 \/ Ends(UndoTarget)
           /\ \A i \in (UndoTarget + 1)..(c - 1) : ~Ends(i)
  <1> DEFINE T == {b \in 0..(c - 1) : b = 0 \/ Ends(b)}
  <1>1. c - 1 \in Nat /\ 0 \in T /\ T \subseteq 0..(c - 1)
    OBVIOUS
  <1>2. PICK b \in T : \A i \in T : i <= b
    <2> HIDE DEF T
    <2> QED
      BY <1>1, GreatestExists
  <1>3. \A i \in (b + 1)..(c - 1) : ~Ends(i)
    <2> SUFFICES ASSUME NEW i \in (b + 1)..(c - 1), Ends(i)
                 PROVE  FALSE
      OBVIOUS
    <2>1. i \in T
      OBVIOUS
    <2> QED
      BY <1>2, <2>1
  <1>4. \E x \in 0..(c - 1) : (x = 0 \/ Ends(x)) /\ \A i \in (x + 1)..(c - 1) : ~Ends(i)
    BY <1>3
  <1> HIDE DEF T
  <1> QED
    BY <1>4 DEF UndoTarget

\* Redo leads on, to the end of the user operation after.
LEMMA RedoTargetAfter ==
    ASSUME NEW c \in Nat, NEW n \in Nat, currentAction = c, Len(actions) = n, c < n
    PROVE  /\ RedoTarget \in (c + 1)..n
           /\ RedoTarget = n \/ Ends(RedoTarget)
           /\ \A i \in (c + 1)..(RedoTarget - 1) : ~Ends(i)
  <1> DEFINE T == {b \in (c + 1)..n : b = n \/ Ends(b)}
  <1>1. n \in T /\ T \subseteq Nat
    OBVIOUS
  <1>2. PICK b \in T : \A i \in T : b <= i
    <2> HIDE DEF T
    <2> QED
      BY <1>1, LeastExists
  <1>3. \A i \in (c + 1)..(b - 1) : ~Ends(i)
    <2> SUFFICES ASSUME NEW i \in (c + 1)..(b - 1), Ends(i)
                 PROVE  FALSE
      OBVIOUS
    <2>1. i \in T
      OBVIOUS
    <2> QED
      BY <1>2, <2>1
  <1>4. \E x \in (c + 1)..n : (x = n \/ Ends(x)) /\ \A i \in (c + 1)..(x - 1) : ~Ends(i)
    BY <1>3
  <1> HIDE DEF T
  <1> QED
    BY <1>4 DEF RedoTarget

-----------------------------------------------------------------------------
(* The invariant. *)

\* What is where in the histories: the control's own and the recorded one.
Shape ==
    /\ actions \in Seq(Action)
    /\ currentAction \in 0..Len(actions)
    /\ savePoint \in Nat \cup {None}
    /\ tentativePoint \in Nat \cup {None}
    /\ scraps \in Str
    /\ bModified \in BOOLEAN
    /\ texts \in Seq(Str)
    /\ Len(texts) = Len(actions) + 1
    /\ substance = texts[currentAction + 1]

\* The scraps of the actions stand in a row on the scrap stack.
Stacked ==
    /\ scrapAt \in Seq(Nat)
    /\ Len(scrapAt) = Len(actions) + 1
    /\ scrapCurrent = scrapAt[currentAction + 1]
    /\ \A i \in 1..Len(actions) + 1 : scrapAt[i] <= Len(scraps)
    /\ \A i, j \in 1..Len(actions) + 1 : i <= j => scrapAt[i] <= scrapAt[j]

\* An action with its scrap leads from the text before to the text after.
Leads(action, data, before, after) ==
    /\ action.lenData = Len(data)
    /\ action.at = "insert" => /\ action.position <= Len(before)
                               /\ after = Inserted(before, action.position, data)
    /\ action.at = "remove" => /\ action.position <= Len(after)
                               /\ before = Inserted(after, action.position, data)

Scrap(i) == SubSeq(scraps, scrapAt[i] + 1, scrapAt[i + 1])

Steps ==
    \A i \in 1..Len(actions) : Leads(actions[i], Scrap(i), texts[i], texts[i + 1])

\* The operation in progress leads to a place in the history.  A composition
\* that begins, and the insertion of its text, stand where they began.
Underway ==
    /\ op \in [kind: {"none", "undo", "redo", "tentative", "compose", "result", "insert"},
               target: Nat, from: Nat, next: Str]
    /\ op.kind = "none" => op = NoOp
    /\ op.kind = "redo" => op.target <= Len(actions)
    /\ op.kind = "insert" => op.from = currentAction
    /\ op.kind = "compose" /\ ~TentativeActive =>
         op.from = currentAction /\ op.target = currentAction

\* What the window believes, while it still stands where the operation began.
Believed == ~recoded => bModified = ~(savePoint = at)

IInv == Shape /\ Stacked /\ Steps /\ SavePointMeansSaved /\ Underway /\ Believed

-----------------------------------------------------------------------------
(* Edits. *)

\* The texts inserted are texts.
LEMMA StringsAreTexts ==
    /\ Strings \subseteq Str
    /\ <<>> \in Str
  <1>1. ASSUME NEW s \in Strings
        PROVE  s \in Str
    <2>1. s \in Seq(Nat \ {0})
      BY CellBufferAssumption DEF CellBufferAssumption
    <2>2. Len(s) \in Nat /\ s \in [1..Len(s) -> Nat \ {0}] /\ DOMAIN s = 1..Len(s)
      BY <2>1, LenProperties
    <2>3. \A i \in DOMAIN s : s[i] \in Char
      BY DEF Char
    <2>4. s \in [1..Len(s) -> Char]
      BY <2>2, <2>3
    <2> QED
      BY <2>2, <2>4, SeqDef DEF Str
  <1> QED
    BY <1>1, EmptySeq DEF Str

\* Ending the user operation changes nothing else of an action.
LEMMA ClosedSame ==
    ASSUME NEW list \in Seq(Action), NEW index \in 0..Len(list)
    PROVE  /\ Closed(list, index) \in Seq(Action)
           /\ Len(Closed(list, index)) = Len(list)
           /\ \A i \in 1..Len(list) : /\ Closed(list, index)[i].at = list[i].at
                                      /\ Closed(list, index)[i].position = list[i].position
                                      /\ Closed(list, index)[i].lenData = list[i].lenData
  <1>0. Len(list) \in Nat
    BY LenProperties
  <1>1. CASE index = 0
    BY <1>1 DEF Closed
  <1>2. CASE index # 0
    <2> DEFINE e == [list[index] EXCEPT !.mayCoalesce = FALSE]
    <2>1. index \in 1..Len(list) /\ list[index] \in Action
      BY <1>0, <1>2, ElementOfSeq
    <2>2. /\ e \in Action /\ e.at = list[index].at
          /\ e.position = list[index].position /\ e.lenData = list[index].lenData
      BY <2>1 DEF Action
    <2>3. Closed(list, index) = [list EXCEPT ![index] = e]
      BY <1>2, <2>1 DEF Closed
    <2> HIDE DEF e
    <2>4. /\ [list EXCEPT ![index] = e] \in Seq(Action)
          /\ Len([list EXCEPT ![index] = e]) = Len(list)
          /\ \A i \in 1..Len(list) :
               [list EXCEPT ![index] = e][i] = IF i = index THEN e ELSE list[i]
      BY <2>1, <2>2, ExceptSeq
    <2> QED
      BY <2>2, <2>3, <2>4
  <1> QED
    BY <1>1, <1>2

\* What Leads says of an action it says of one with the same data.
LEMMA SameLeads ==
    ASSUME NEW a, NEW b, NEW data, NEW t, NEW u, Leads(a, data, t, u),
           b.at = a.at, b.position = a.position, b.lenData = a.lenData
    PROVE  Leads(b, data, t, u)
  BY DEF Leads

\* An edit adds one text and one action that leads to it, and cuts the rest.
LEMMA EditKeeps ==
    ASSUME Shape, Stacked, Steps, SavePointMeansSaved,
           NEW kind \in {"insert", "remove"}, NEW p \in Nat, NEW data \in Str,
           NEW text \in Str,
           AppendAction(kind, p, data), substance' = text, Recorded(text),
           bModified' \in BOOLEAN,
           kind = "insert" => p <= Len(substance) /\ text = Inserted(substance, p, data),
           kind = "remove" => p <= Len(text) /\ substance = Inserted(text, p, data)
    PROVE  /\ Shape' /\ Stacked' /\ Steps' /\ SavePointMeansSaved'
           /\ currentAction' = currentAction + 1
           /\ savePoint' = IF currentAction < savePoint THEN None ELSE savePoint
           /\ UNCHANGED <<tentativePoint, recoded>>
  <1> DEFINE c == currentAction
             done == SubSeq(actions, 1, c)
             before == IF Coalesces(kind, p, Len(data)) THEN done ELSE Closed(done, c)
             new == [at |-> kind, position |-> p, lenData |-> Len(data), mayCoalesce |-> TRUE]
  <1>1. /\ c \in Nat /\ Len(actions) \in Nat /\ c <= Len(actions) /\ Len(data) \in Nat
        /\ actions \in Seq(Action) /\ savePoint \in Nat \cup {None}
        /\ tentativePoint \in Nat \cup {None}
    BY LenProperties DEF Shape, Str
  <1>2. new \in Action
    BY <1>1 DEF Action
  <1>3. /\ before \in Seq(Action) /\ Len(before) = c
        /\ \A i \in 1..c : /\ before[i].at = actions[i].at
                           /\ before[i].position = actions[i].position
                           /\ before[i].lenData = actions[i].lenData
    <2>1. /\ done \in Seq(Action) /\ Len(done) = c /\ \A i \in 1..c : done[i] = actions[i]
      BY <1>1, FirstPart
    <2> HIDE DEF done
    <2>2. /\ Closed(done, c) \in Seq(Action) /\ Len(Closed(done, c)) = c
          /\ \A i \in 1..c : /\ Closed(done, c)[i].at = done[i].at
                             /\ Closed(done, c)[i].position = done[i].position
                             /\ Closed(done, c)[i].lenData = done[i].lenData
      <3>1. c \in 0..Len(done)
        BY <1>1, <2>1
      <3> QED
        BY <2>1, <3>1, ClosedSame
    <2>3. CASE Coalesces(kind, p, Len(data))
      BY <2>1, <2>3
    <2>4. CASE ~Coalesces(kind, p, Len(data))
      BY <2>1, <2>2, <2>4
    <2> QED
      BY <2>3, <2>4
  <1>4. /\ actions' = Append(before, new)
        /\ currentAction' = c + 1
        /\ savePoint' = IF c < savePoint THEN None ELSE savePoint
        /\ scraps' = SubSeq(scraps, 1, scrapCurrent) \o data
        /\ scrapCurrent' = scrapCurrent + Len(data)
        /\ UNCHANGED tentativePoint
    BY DEF AppendAction
  <1>5. /\ texts' = Append(SubSeq(texts, 1, c + 1), text)
        /\ scrapAt' = Append(SubSeq(scrapAt, 1, c + 1), scrapCurrent')
        /\ savedText' = IF savePoint' = None THEN <<>> ELSE savedText
        /\ UNCHANGED recoded
    BY DEF Recorded
  <1> HIDE DEF before, done
  <1>6. /\ actions' \in Seq(Action) /\ Len(actions') = c + 1 /\ actions'[c + 1] = new
        /\ \A i \in 1..c : actions'[i] = before[i]
    <2> HIDE DEF new
    <2> QED
      BY <1>2, <1>3, <1>4, AppendProperties
  <1>7. /\ texts' \in Seq(Str) /\ Len(texts') = c + 2 /\ texts'[c + 2] = text
        /\ \A i \in 1..c + 1 : texts'[i] = texts[i]
    <2> DEFINE h == SubSeq(texts, 1, c + 1)
    <2>1. texts \in Seq(Str) /\ c + 1 \in 0..Len(texts)
      BY <1>1 DEF Shape
    <2>2. h \in Seq(Str) /\ Len(h) = c + 1 /\ \A i \in 1..c + 1 : h[i] = texts[i]
      BY <2>1, FirstPart
    <2> HIDE DEF h
    <2>3. /\ Append(h, text) \in Seq(Str) /\ Len(Append(h, text)) = Len(h) + 1
          /\ \A i \in 1..Len(h) : Append(h, text)[i] = h[i]
          /\ Append(h, text)[Len(h) + 1] = text
      BY <2>2, AppendProperties
    <2>4. c + 1 + 1 = c + 2
      BY <1>1
    <2>5. texts' = Append(h, text)
      BY <1>5 DEF h
    <2> QED
      BY <2>2, <2>3, <2>4, <2>5
  <1>8. /\ scrapCurrent \in Nat /\ scrapCurrent <= Len(scraps) /\ Len(scraps) \in Nat
        /\ scrapCurrent = scrapAt[c + 1]
        /\ scrapAt \in Seq(Nat) /\ Len(scrapAt) = Len(actions) + 1
        /\ \A i \in 1..Len(actions) + 1 : scrapAt[i] \in Nat
    <2>1. scrapAt \in Seq(Nat) /\ Len(scrapAt) = Len(actions) + 1 /\ scrapCurrent = scrapAt[c + 1]
      BY DEF Stacked
    <2>2. \A i \in 1..Len(actions) + 1 : scrapAt[i] \in Nat
      BY <2>1, ElementOfSeq
    <2>3. c + 1 \in 1..Len(actions) + 1
      BY <1>1
    <2>4. Len(scraps) \in Nat
      BY LenProperties DEF Shape, Str
    <2> QED
      BY <2>1, <2>2, <2>3, <2>4 DEF Stacked
  <1>9. /\ scrapAt' \in Seq(Nat) /\ Len(scrapAt') = c + 2
        /\ scrapAt'[c + 2] = scrapCurrent + Len(data)
        /\ \A i \in 1..c + 1 : scrapAt'[i] = scrapAt[i]
    <2> DEFINE h == SubSeq(scrapAt, 1, c + 1)
               e == scrapCurrent + Len(data)
    <2>1. c + 1 \in 0..Len(scrapAt) /\ e \in Nat
      BY <1>1, <1>8
    <2>2. h \in Seq(Nat) /\ Len(h) = c + 1 /\ \A i \in 1..c + 1 : h[i] = scrapAt[i]
      BY <1>8, <2>1, FirstPart
    <2>3. scrapAt' = Append(h, e)
      BY <1>4, <1>5
    <2> HIDE DEF h, e
    <2>4. /\ Append(h, e) \in Seq(Nat) /\ Len(Append(h, e)) = Len(h) + 1
          /\ \A i \in 1..Len(h) : Append(h, e)[i] = h[i]
          /\ Append(h, e)[Len(h) + 1] = e
      BY <2>1, <2>2, AppendProperties
    <2>5. c + 1 + 1 = c + 2
      BY <1>1
    <2>6. Len(scrapAt') = c + 2 /\ scrapAt'[c + 2] = e /\ scrapAt' \in Seq(Nat)
      BY <2>2, <2>3, <2>4, <2>5
    <2>7. \A i \in 1..c + 1 : scrapAt'[i] = scrapAt[i]
      BY <2>2, <2>3, <2>4
    <2> QED
      BY <2>6, <2>7 DEF e
  <1>10. /\ scraps' \in Str /\ Len(scraps') = scrapCurrent + Len(data)
         /\ SubSeq(scraps', scrapCurrent + 1, scrapCurrent + Len(data)) = data
         /\ \A i, j \in 0..scrapCurrent : SubSeq(scraps', i + 1, j) = SubSeq(scraps, i + 1, j)
    <2>1. scrapCurrent \in 0..Len(scraps) /\ scraps \in Str
      BY <1>8 DEF Shape
    <2> QED
      BY <1>4, <2>1, ScrapPushed
  <1> HIDE DEF new
  <1>11. Shape'
    <2>1. savePoint' \in Nat \cup {None} /\ tentativePoint' \in Nat \cup {None}
      BY <1>1, <1>4
    <2>2. currentAction' \in 0..Len(actions') /\ Len(texts') = Len(actions') + 1
      BY <1>1, <1>4, <1>6, <1>7
    <2>3. substance' = texts'[currentAction' + 1]
      <3>1. currentAction' + 1 = c + 2
        BY <1>1, <1>4
      <3> QED
        BY <3>1, <1>7
    <2> QED
      BY <1>6, <1>7, <1>10, <2>1, <2>2, <2>3 DEF Shape
  <1>12. Stacked'
    <2>1. currentAction' + 1 = c + 2 /\ Len(actions') + 1 = c + 2
      BY <1>1, <1>4, <1>6
    <2>2. ASSUME NEW i \in 1..c + 2
          PROVE  scrapAt'[i] <= Len(scraps')
      <3>1. CASE i = c + 2
        BY <3>1, <1>1, <1>8, <1>9, <1>10
      <3>2. CASE i \in 1..c + 1
        <4>0. i \in 1..Len(actions) + 1 /\ c + 1 \in 1..Len(actions) + 1 /\ i <= c + 1
          BY <3>2, <1>1
        <4>1. scrapAt[i] \in Nat /\ scrapAt[i] <= scrapAt[c + 1]
          BY <4>0, <1>8 DEF Stacked
        <4>2. scrapAt'[i] = scrapAt[i]
          BY <3>2, <1>9
        <4>3. scrapAt[i] <= scrapCurrent + Len(data)
          <5>1. scrapAt[i] \in Nat /\ scrapAt[i] <= scrapCurrent
            BY <4>1, <1>8
          <5>2. scrapCurrent \in Nat /\ Len(data) \in Nat
            BY <1>1, <1>8
          <5> QED
            BY <5>1, <5>2
        <4> QED
          BY <4>2, <4>3, <1>10
      <3> QED
        BY <1>1, <3>1, <3>2
    <2>3. ASSUME NEW i \in 1..c + 2, NEW j \in 1..c + 2, i <= j
          PROVE  scrapAt'[i] <= scrapAt'[j]
      <3>1. CASE j = c + 2
        BY <3>1, <2>2, <1>9, <1>10
      <3>2. CASE j \in 1..c + 1
        <4>1. i \in 1..c + 1 /\ i \in 1..Len(actions) + 1 /\ j \in 1..Len(actions) + 1
          BY <3>2, <2>3, <1>1
        <4>2. scrapAt[i] <= scrapAt[j]
          BY <4>1, <2>3 DEF Stacked
        <4> QED
          BY <3>2, <4>1, <4>2, <1>9
      <3> QED
        BY <1>1, <3>1, <3>2
    <2> QED
      BY <1>4, <1>9, <2>1, <2>2, <2>3 DEF Stacked
  <1>13. Steps'
    <2>1. ASSUME NEW i \in 1..c + 1
          PROVE  Leads(actions'[i], Scrap(i)', texts'[i], texts'[i + 1])
      <3>1. CASE i = c + 1
        <4>1. i + 1 = c + 2
          BY <3>1, <1>1
        <4>2. Scrap(i)' = SubSeq(scraps', scrapAt'[i] + 1, scrapAt'[i + 1])
          BY DEF Scrap
        <4>3. scrapAt'[i] = scrapCurrent /\ scrapAt'[i + 1] = scrapCurrent + Len(data)
          BY <3>1, <4>1, <1>1, <1>8, <1>9
        <4>4. Scrap(i)' = data
          BY <4>2, <4>3, <1>10
        <4>5. texts'[i] = substance /\ texts'[i + 1] = text
          BY <3>1, <4>1, <1>1, <1>7 DEF Shape
        <4>6. Leads(new, data, substance, text)
          BY DEF Leads, new
        <4> QED
          BY <3>1, <4>4, <4>5, <4>6, <1>6
      <3>2. CASE i \in 1..c
        <4>1. /\ i \in 1..Len(actions) /\ i \in 1..c + 1 /\ i + 1 \in 1..c + 1
              /\ i \in 1..Len(actions) + 1 /\ i + 1 \in 1..Len(actions) + 1
              /\ c + 1 \in 1..Len(actions) + 1 /\ i <= c + 1 /\ i + 1 <= c + 1
          BY <3>2, <1>1
        <4>2. scrapAt[i] \in 0..scrapCurrent /\ scrapAt[i + 1] \in 0..scrapCurrent
          <5>1. scrapAt[i] <= scrapAt[c + 1] /\ scrapAt[i + 1] <= scrapAt[c + 1]
            BY <4>1 DEF Stacked
          <5>2. scrapAt[i] \in Nat /\ scrapAt[i + 1] \in Nat
            BY <4>1, <1>8
          <5> QED
            BY <5>1, <5>2, <1>8
        <4>3. Scrap(i)' = SubSeq(scraps', scrapAt[i] + 1, scrapAt[i + 1])
          BY <4>1, <1>9 DEF Scrap
        <4>4. Scrap(i)' = Scrap(i)
          BY <4>2, <4>3, <1>10 DEF Scrap
        <4>5. Leads(actions[i], Scrap(i), texts[i], texts[i + 1])
          BY <4>1 DEF Steps
        <4>6. Leads(actions'[i], Scrap(i), texts[i], texts[i + 1])
          BY <3>2, <4>5, <1>3, <1>6, SameLeads
        <4> QED
          BY <4>1, <4>4, <4>6, <1>7
      <3> QED
        BY <1>1, <3>1, <3>2
    <2> QED
      BY <2>1, <1>6 DEF Steps
  <1>14. SavePointMeansSaved'
    <2> SUFFICES ASSUME savePoint' \in 0..Len(actions'), ~recoded'
                 PROVE  texts'[savePoint' + 1] = savedText'
      BY DEF SavePointMeansSaved
    <2>1. savePoint' = savePoint /\ savePoint \in 0..c /\ savedText' = savedText
      BY <1>1, <1>4, <1>5, <1>6 DEF None
    <2>2. savePoint \in 0..Len(actions) /\ savePoint + 1 \in 1..c + 1
      BY <1>1, <2>1
    <2>3. texts[savePoint + 1] = savedText
      BY <1>5, <2>2 DEF SavePointMeansSaved
    <2> QED
      BY <2>1, <2>2, <2>3, <1>7
  <1> QED
    BY <1>4, <1>5, <1>11, <1>12, <1>13, <1>14

\* The text shown is a text.
LEMMA SubstanceIsText ==
    ASSUME Shape
    PROVE  substance \in Str /\ Len(substance) \in Nat
  <1>1. currentAction + 1 \in 1..Len(texts) /\ texts \in Seq(Str)
    BY LenProperties DEF Shape
  <1>2. substance \in Str
    BY <1>1, ElementOfSeq DEF Shape
  <1> QED
    BY <1>2, LenProperties DEF Str

\* After an edit no operation is in progress, and the window is told that the
\* text is modified.
LEMMA EditDone ==
    ASSUME IInv, at = currentAction, op' = NoOp,
           NEW kind \in {"insert", "remove"}, NEW p \in Nat, NEW data \in Str,
           NEW text \in Str,
           AppendAction(kind, p, data), substance' = text, Recorded(text),
           bModified' = (IsSavePoint \/ bModified),
           kind = "insert" => p <= Len(substance) /\ text = Inserted(substance, p, data),
           kind = "remove" => p <= Len(text) /\ substance = Inserted(text, p, data)
    PROVE  IInv'
  <1>1. bModified \in BOOLEAN /\ currentAction \in Nat /\ savePoint \in Nat \cup {None}
    BY LenProperties DEF IInv, Shape
  <1>2. bModified' \in BOOLEAN
    BY <1>1
  <1>3. /\ Shape' /\ Stacked' /\ Steps' /\ SavePointMeansSaved'
        /\ currentAction' = currentAction + 1
        /\ savePoint' = IF currentAction < savePoint THEN None ELSE savePoint
        /\ recoded' = recoded
    <2>1. Shape /\ Stacked /\ Steps /\ SavePointMeansSaved
      BY DEF IInv
    <2> QED
      BY <1>2, <2>1, EditKeeps
  <1>4. Underway'
    BY StringsAreTexts DEF Underway, NoOp
  <1>5. Believed'
    <2> SUFFICES ASSUME ~recoded
                 PROVE  bModified' = ~(savePoint' = at')
      BY <1>3 DEF Believed
    <2>1. bModified = ~(savePoint = currentAction)
      BY DEF IInv, Believed
    <2>2. bModified' = TRUE
      BY <2>1, <1>1 DEF IsSavePoint
    <2>3. savePoint' # currentAction'
      BY <1>1, <1>3 DEF None
    <2>4. at' = currentAction'
      BY DEF at, Idle
    <2> QED
      BY <2>2, <2>3, <2>4
  <1> QED
    BY <1>3, <1>4, <1>5 DEF IInv

\* InsertString, when no operation on the history stands elsewhere.
LEMMA InsertStringKeeps ==
    ASSUME IInv, at = currentAction, op' = NoOp,
           NEW position \in 0..Len(substance), NEW s \in Str, InsertString(position, s)
    PROVE  IInv'
  <1>1. substance \in Str /\ Len(substance) \in Nat
    BY SubstanceIsText DEF IInv
  <1>2. Inserted(substance, position, s) \in Str
    BY <1>1, InsertedAt
  <1>3. /\ AppendAction("insert", position, s)
        /\ substance' = Inserted(substance, position, s)
        /\ bModified' = (IsSavePoint \/ bModified)
        /\ Recorded(Inserted(substance, position, s))
    BY DEF InsertString, BasicInsertString
  <1>4. position \in Nat /\ position <= Len(substance)
    BY <1>1
  <1> QED
    BY <1>2, <1>3, <1>4, EditDone

\* DeleteChars: the text deleted leads back.
LEMMA DeleteCharsKeeps ==
    ASSUME IInv, at = currentAction, op' = NoOp,
           NEW position \in Nat, NEW length \in Nat, position + length <= Len(substance),
           DeleteChars(position, length)
    PROVE  IInv'
  <1> DEFINE data == SubSeq(substance, position + 1, position + length)
             text == Deleted(substance, position, length)
  <1>1. substance \in Str /\ Len(substance) \in Nat
    BY SubstanceIsText DEF IInv
  <1>2. position \in 0..Len(substance)
    BY <1>1
  <1>3. data \in Str /\ Inserted(text, position, data) = substance
    BY <1>1, <1>2, InsertDeleted
  <1>4. text \in Str /\ position <= Len(text)
    <2>1. text \in Str /\ Len(text) = Len(substance) - length
      BY <1>1, <1>2, DeletedAt
    <2> QED
      BY <1>1, <2>1
  <1>5. /\ AppendAction("remove", position, data)
        /\ substance' = text
        /\ bModified' = (IsSavePoint \/ bModified)
        /\ Recorded(text)
    BY DEF DeleteChars, BasicDeleteChars
  <1> HIDE DEF data, text
  <1> QED
    BY <1>3, <1>4, <1>5, EditDone

-----------------------------------------------------------------------------
(* Undo and redo. *)

\* What is known of an action and of its scrap.
LEMMA StepFacts ==
    ASSUME Shape, Stacked, Steps, NEW i \in 1..Len(actions)
    PROVE  /\ actions[i].at \in {"insert", "remove"}
           /\ actions[i].position \in Nat /\ actions[i].lenData \in Nat
           /\ Scrap(i) \in Str /\ Len(Scrap(i)) = actions[i].lenData
           /\ scrapAt[i] \in Nat /\ scrapAt[i + 1] = scrapAt[i] + actions[i].lenData
           /\ scrapAt[i + 1] <= Len(scraps) /\ Len(scraps) \in Nat
           /\ texts[i] \in Str /\ texts[i + 1] \in Str
           /\ Leads(actions[i], Scrap(i), texts[i], texts[i + 1])
  <1>1. Len(actions) \in Nat /\ Len(scraps) \in Nat
    BY LenProperties DEF Shape, Str
  <1>2. i \in 1..Len(actions) + 1 /\ i + 1 \in 1..Len(actions) + 1 /\ i <= i + 1
    BY <1>1
  <1>3. actions[i] \in Action
    BY ElementOfSeq DEF Shape
  <1>4. scrapAt[i] \in Nat /\ scrapAt[i + 1] \in Nat
    BY <1>2, ElementOfSeq DEF Stacked
  <1>5. texts[i] \in Str /\ texts[i + 1] \in Str
    BY <1>2, ElementOfSeq DEF Shape
  <1>6. scrapAt[i + 1] \in scrapAt[i]..Len(scraps)
    BY <1>1, <1>2, <1>4 DEF Stacked
  <1>7. Scrap(i) \in Str /\ Len(Scrap(i)) = scrapAt[i + 1] - scrapAt[i]
    <2> DEFINE m == scrapAt[i]
               n == scrapAt[i + 1]
    <2>1. scraps \in Seq(Char) /\ m \in Nat /\ n \in m..Len(scraps)
      BY <1>4, <1>6 DEF Shape, Str
    <2>2. Scrap(i) = SubSeq(scraps, m + 1, n)
      BY DEF Scrap
    <2> HIDE DEF m, n
    <2>3. SubSeq(scraps, m + 1, n) \in Seq(Char) /\ Len(SubSeq(scraps, m + 1, n)) = n - m
      BY <2>1, Cut
    <2> QED
      BY <2>2, <2>3 DEF Str, m, n
  <1>8. Leads(actions[i], Scrap(i), texts[i], texts[i + 1])
    BY DEF Steps
  <1>9. actions[i].lenData = Len(Scrap(i))
    BY <1>8 DEF Leads
  <1> QED
    BY <1>1, <1>3, <1>4, <1>5, <1>6, <1>7, <1>8, <1>9 DEF Action

\* A step through the histories leaves them as they are.
LEMMA MovedKeeps ==
    ASSUME Shape, Stacked, Steps, SavePointMeansSaved,
           UNCHANGED <<actions, savePoint, tentativePoint, scraps, bModified, hist>>,
           currentAction' \in 0..Len(actions),
           substance' = texts[currentAction' + 1],
           scrapCurrent' = scrapAt[currentAction' + 1]
    PROVE  Shape' /\ Stacked' /\ Steps' /\ SavePointMeansSaved'
  <1>1. UNCHANGED <<texts, scrapAt, savedText, recoded>>
    BY DEF hist
  <1>2. Shape'
    BY <1>1 DEF Shape
  <1>3. Stacked'
    BY <1>1 DEF Stacked
  <1>4. Steps'
    BY <1>1 DEF Steps, Scrap
  <1>5. SavePointMeansSaved'
    BY <1>1 DEF SavePointMeansSaved
  <1> QED
    BY <1>2, <1>3, <1>4, <1>5

\* An undone action gives back the text before it.
LEMMA PerformUndoStepKeeps ==
    ASSUME IInv, PerformUndoStep
    PROVE  IInv'
  <1> DEFINE c == currentAction
             a == actions[c]
  <1>0. Shape /\ Stacked /\ Steps /\ SavePointMeansSaved /\ Underway /\ Believed
    BY DEF IInv
  <1>1. /\ c \in 1..Len(actions) /\ Len(actions) \in Nat
        /\ op.kind \in {"undo", "tentative", "compose", "result"} /\ op.target \in Nat
        /\ c > op.target
    BY <1>0, LenProperties DEF PerformUndoStep, Shape, Underway
  <1>2. /\ a.at \in {"insert", "remove"} /\ a.position \in Nat /\ a.lenData \in Nat
        /\ Scrap(c) \in Str /\ Len(Scrap(c)) = a.lenData
        /\ scrapAt[c] \in Nat /\ scrapAt[c + 1] = scrapAt[c] + a.lenData
        /\ scrapAt[c + 1] <= Len(scraps)
        /\ texts[c] \in Str /\ texts[c + 1] \in Str
        /\ Leads(a, Scrap(c), texts[c], texts[c + 1])
    BY <1>0, <1>1, StepFacts
  <1>3. /\ UNCHANGED <<actions, savePoint, tentativePoint, scraps, bModified, op, hist>>
        /\ currentAction' = c - 1
        /\ scrapCurrent' = IF scrapCurrent >= a.lenData THEN scrapCurrent - a.lenData
                           ELSE scrapCurrent
        /\ a.at = "insert" => substance' = Deleted(substance, a.position, a.lenData)
        /\ a.at # "insert" => substance' = Inserted(substance, a.position, UndoData)
    BY DEF PerformUndoStep, CompletedUndoStep, BasicDeleteChars, BasicInsertString
  <1>4. scrapCurrent = scrapAt[c + 1] /\ substance = texts[c + 1]
    BY <1>0 DEF Shape, Stacked
  <1>5. scrapCurrent' = scrapAt[c]
    BY <1>2, <1>3, <1>4
  <1>6. UndoData = Scrap(c)
    <2>1. scrapCurrent - a.lenData = scrapAt[c]
      BY <1>2, <1>4
    <2> QED
      BY <2>1, <1>4 DEF UndoData, Scrap
  <1>7. substance' = texts[c]
    <2>1. CASE a.at = "insert"
      <3>1. a.position \in 0..Len(texts[c]) /\ texts[c + 1] = Inserted(texts[c], a.position, Scrap(c))
        BY <1>2, <2>1, LenProperties DEF Leads, Str
      <3>2. Deleted(Inserted(texts[c], a.position, Scrap(c)), a.position, Len(Scrap(c))) = texts[c]
        BY <3>1, <1>2, DeleteInserted
      <3> QED
        BY <2>1, <3>1, <3>2, <1>2, <1>3, <1>4
    <2>2. CASE a.at = "remove"
      <3>1. texts[c] = Inserted(texts[c + 1], a.position, Scrap(c))
        BY <1>2, <2>2 DEF Leads
      <3> QED
        BY <2>2, <3>1, <1>3, <1>4, <1>6
    <2> QED
      BY <1>2, <2>1, <2>2
  <1>8. currentAction' \in 0..Len(actions) /\ currentAction' + 1 = c
    BY <1>1, <1>3
  <1> HIDE DEF a
  <1>9. Shape' /\ Stacked' /\ Steps' /\ SavePointMeansSaved'
    BY <1>0, <1>3, <1>5, <1>7, <1>8, MovedKeeps
  <1>10. Underway'
    <2>1. op.kind # "compose" \/ TentativeActive
      BY <1>0, <1>1 DEF Underway
    <2> QED
      BY <1>0, <1>1, <1>3, <2>1 DEF Underway, TentativeActive
  <1>11. Believed'
    <2>1. op # NoOp
      BY <1>1 DEF NoOp
    <2>2. at' = at /\ recoded' = recoded
      BY <1>3, <2>1 DEF at, Idle, hist
    <2> QED
      BY <1>0, <1>3, <2>2 DEF Believed
  <1> QED
    BY <1>9, <1>10, <1>11 DEF IInv

\* A redone action gives back the text after it.
LEMMA PerformRedoStepKeeps ==
    ASSUME IInv, PerformRedoStep
    PROVE  IInv'
  <1> DEFINE c == currentAction
             n == c + 1
             a == actions[n]
  <1>0. Shape /\ Stacked /\ Steps /\ SavePointMeansSaved /\ Underway /\ Believed
    BY DEF IInv
  <1>1. /\ c \in Nat /\ n \in 1..Len(actions) /\ Len(actions) \in Nat
        /\ op.kind = "redo" /\ op.target \in Nat /\ op.target <= Len(actions)
        /\ c < op.target
    BY <1>0, LenProperties DEF PerformRedoStep, Shape, Underway
  <1>2. /\ a.at \in {"insert", "remove"} /\ a.position \in Nat /\ a.lenData \in Nat
        /\ Scrap(n) \in Str /\ Len(Scrap(n)) = a.lenData
        /\ scrapAt[n] \in Nat /\ scrapAt[n + 1] = scrapAt[n] + a.lenData
        /\ scrapAt[n + 1] <= Len(scraps)
        /\ texts[n] \in Str /\ texts[n + 1] \in Str
        /\ Leads(a, Scrap(n), texts[n], texts[n + 1])
    BY <1>0, <1>1, StepFacts
  <1>3. /\ UNCHANGED <<actions, savePoint, tentativePoint, scraps, bModified, op, hist>>
        /\ currentAction' = n
        /\ scrapCurrent' = IF scrapCurrent + a.lenData <= Len(scraps)
                           THEN scrapCurrent + a.lenData ELSE scrapCurrent
        /\ a.at = "insert" => substance' = Inserted(substance, a.position, RedoData)
        /\ a.at # "insert" => substance' = Deleted(substance, a.position, a.lenData)
    BY DEF PerformRedoStep, CompletedRedoStep, BasicDeleteChars, BasicInsertString
  <1>4. scrapCurrent = scrapAt[n] /\ substance = texts[n]
    BY <1>0 DEF Shape, Stacked
  <1>5. scrapCurrent' = scrapAt[n + 1]
    BY <1>2, <1>3, <1>4
  <1>6. RedoData = Scrap(n)
    BY <1>2, <1>4 DEF RedoData, Scrap
  <1>7. substance' = texts[n + 1]
    <2>1. CASE a.at = "remove"
      <3>1. /\ a.position \in 0..Len(texts[n + 1])
            /\ texts[n] = Inserted(texts[n + 1], a.position, Scrap(n))
        BY <1>2, <2>1, LenProperties DEF Leads, Str
      <3>2. Deleted(Inserted(texts[n + 1], a.position, Scrap(n)), a.position, Len(Scrap(n)))
              = texts[n + 1]
        BY <3>1, <1>2, DeleteInserted
      <3> QED
        BY <2>1, <3>1, <3>2, <1>2, <1>3, <1>4
    <2>2. CASE a.at = "insert"
      <3>1. texts[n + 1] = Inserted(texts[n], a.position, Scrap(n))
        BY <1>2, <2>2 DEF Leads
      <3> QED
        BY <2>2, <3>1, <1>3, <1>4, <1>6
    <2> QED
      BY <1>2, <2>1, <2>2
  <1>8. currentAction' \in 0..Len(actions)
    BY <1>1, <1>3
  <1> HIDE DEF a, n
  <1>9. Shape' /\ Stacked' /\ Steps' /\ SavePointMeansSaved'
    BY <1>0, <1>3, <1>5, <1>7, <1>8, MovedKeeps
  <1>10. Underway'
    BY <1>0, <1>1, <1>3 DEF Underway
  <1>11. Believed'
    <2>1. op # NoOp
      BY <1>1 DEF NoOp
    <2>2. at' = at /\ recoded' = recoded
      BY <1>3, <2>1 DEF at, Idle, hist
    <2> QED
      BY <1>0, <1>3, <2>2 DEF Believed
  <1> QED
    BY <1>9, <1>10, <1>11 DEF IInv

\* The end of undo or redo: the window learns where it stands.
LEMMA NotifiedBelieves ==
    ASSUME Believed, Notified, bModified \in BOOLEAN, ~(op = NoOp),
           UNCHANGED <<savePoint, recoded>>, at' = currentAction
    PROVE  Believed' /\ bModified' \in BOOLEAN
  <1>1. at = op.from
    BY DEF at, Idle
  <1>2. CASE (savePoint = op.from) # (savePoint = currentAction)
    <2>1. bModified' = ~(savePoint = currentAction)
      BY <1>2 DEF Notified, IsSavePoint
    <2> QED
      BY <2>1 DEF Believed
  <1>3. CASE (savePoint = op.from) = (savePoint = currentAction)
    <2>1. bModified' = bModified
      BY <1>3 DEF Notified, IsSavePoint
    <2> QED
      BY <1>1, <1>3, <2>1 DEF Believed
  <1> QED
    BY <1>2, <1>3

\* EndUndoRedo changes the window's flag alone.
LEMMA EndUndoRedoKeeps ==
    ASSUME IInv, EndUndoRedo
    PROVE  IInv'
  <1>0. Shape /\ Stacked /\ Steps /\ SavePointMeansSaved /\ Underway /\ Believed
    BY DEF IInv
  <1>1. /\ UNCHANGED <<actions, currentAction, savePoint, tentativePoint, scraps,
                       scrapCurrent, substance, texts, scrapAt, savedText, recoded>>
        /\ Notified /\ op' = NoOp /\ op.kind \in {"undo", "redo"}
    BY DEF EndUndoRedo, history, hist
  <1>2. op # NoOp
    BY <1>1 DEF NoOp
  <1>3. at' = currentAction
    BY <1>1 DEF at, Idle
  <1>4. Believed' /\ bModified' \in BOOLEAN
    <2>1. bModified \in BOOLEAN
      BY <1>0 DEF Shape
    <2> QED
      BY <1>0, <1>1, <1>2, <1>3, <2>1, NotifiedBelieves
  <1>5. Shape'
    BY <1>0, <1>1, <1>4 DEF Shape
  <1>6. Stacked'
    BY <1>0, <1>1 DEF Stacked
  <1>7. Steps'
    BY <1>0, <1>1 DEF Steps, Scrap
  <1>8. SavePointMeansSaved'
    BY <1>0, <1>1 DEF SavePointMeansSaved
  <1>9. Underway'
    BY <1>1, StringsAreTexts DEF Underway, NoOp
  <1> QED
    BY <1>4, <1>5, <1>6, <1>7, <1>8, <1>9 DEF IInv

\* The end of TentativeUndo cuts the histories where they stand.
LEMMA EndTentativeUndoKeeps ==
    ASSUME IInv, EndTentativeUndo
    PROVE  IInv'
  <1> DEFINE c == currentAction
  <1>0. Shape /\ Stacked /\ Steps /\ SavePointMeansSaved /\ Underway /\ Believed
    BY DEF IInv
  <1>1. /\ op.kind \in {"tentative", "compose", "result"} /\ c = op.target
        /\ Notified
        /\ tentativePoint' = None
        /\ actions' = SubSeq(actions, 1, c)
        /\ texts' = SubSeq(texts, 1, c + 1)
        /\ scrapAt' = SubSeq(scrapAt, 1, c + 1)
        /\ UNCHANGED <<currentAction, savePoint, scraps, scrapCurrent, substance,
                       savedText, recoded>>
        /\ op' = IF op.kind = "tentative" THEN NoOp
                 ELSE [op EXCEPT !.kind = IF @ = "result" THEN "insert" ELSE @,
                                 !.from = currentAction]
    BY DEF EndTentativeUndo, TentativeCommit
  <1>2. c \in Nat /\ Len(actions) \in Nat /\ c <= Len(actions)
    BY <1>0, LenProperties DEF Shape
  <1>3. actions' \in Seq(Action) /\ Len(actions') = c /\ \A i \in 1..c : actions'[i] = actions[i]
    <2>1. actions \in Seq(Action) /\ c \in 0..Len(actions)
      BY <1>0, <1>2 DEF Shape
    <2> QED
      BY <1>1, <2>1, FirstPart
  <1>4. /\ texts' \in Seq(Str) /\ Len(texts') = c + 1
        /\ \A i \in 1..c + 1 : texts'[i] = texts[i]
    <2>1. texts \in Seq(Str) /\ c + 1 \in 0..Len(texts)
      BY <1>0, <1>2 DEF Shape
    <2> QED
      BY <1>1, <2>1, FirstPart
  <1>5. /\ scrapAt' \in Seq(Nat) /\ Len(scrapAt') = c + 1
        /\ \A i \in 1..c + 1 : scrapAt'[i] = scrapAt[i]
    <2>1. scrapAt \in Seq(Nat) /\ c + 1 \in 0..Len(scrapAt)
      BY <1>0, <1>2 DEF Stacked
    <2> QED
      BY <1>1, <2>1, FirstPart
  <1>6. op # NoOp
    BY <1>1 DEF NoOp
  <1>7. op' = NoOp \/ op'.from = c
    BY <1>0, <1>1, <1>6 DEF Underway
  <1>8. at' = currentAction
    BY <1>1, <1>7 DEF at, Idle
  <1>9. Believed' /\ bModified' \in BOOLEAN
    <2>1. bModified \in BOOLEAN
      BY <1>0 DEF Shape
    <2> QED
      BY <1>0, <1>1, <1>6, <1>8, <2>1, NotifiedBelieves
  <1>10. Shape'
    <2>1. substance' = texts'[currentAction' + 1]
      <3>1. c + 1 \in 1..c + 1
        BY <1>2
      <3> QED
        BY <1>0, <1>1, <1>4, <3>1 DEF Shape
    <2>2. currentAction' \in 0..Len(actions') /\ Len(texts') = Len(actions') + 1
      BY <1>1, <1>2, <1>3, <1>4
    <2>3. /\ savePoint' \in Nat \cup {None} /\ tentativePoint' \in Nat \cup {None}
          /\ scraps' \in Str
      BY <1>0, <1>1 DEF Shape
    <2> QED
      BY <1>3, <1>4, <1>9, <2>1, <2>2, <2>3 DEF Shape
  <1>11. Stacked'
    <2>1. c + 1 \in 1..c + 1 /\ \A i \in 1..c + 1 : i \in 1..Len(actions) + 1
      BY <1>2
    <2>2. \A i \in 1..c + 1 : scrapAt'[i] <= Len(scraps')
      BY <1>0, <1>1, <1>5, <2>1 DEF Stacked
    <2>3. \A i, j \in 1..c + 1 : i <= j => scrapAt'[i] <= scrapAt'[j]
      BY <1>0, <1>5, <2>1 DEF Stacked
    <2>4. scrapCurrent' = scrapAt'[currentAction' + 1]
      BY <1>0, <1>1, <1>5, <2>1 DEF Stacked
    <2> QED
      BY <1>3, <1>5, <2>2, <2>3, <2>4 DEF Stacked
  <1>12. Steps'
    <2>1. ASSUME NEW i \in 1..c
          PROVE  Leads(actions'[i], Scrap(i)', texts'[i], texts'[i + 1])
      <3>1. i \in 1..Len(actions) /\ i \in 1..c + 1 /\ i + 1 \in 1..c + 1
        BY <1>2
      <3>2. Scrap(i)' = Scrap(i)
        BY <3>1, <1>1, <1>5 DEF Scrap
      <3>3. Leads(actions[i], Scrap(i), texts[i], texts[i + 1])
        BY <1>0, <3>1 DEF Steps
      <3> QED
        BY <1>3, <1>4, <3>1, <3>2, <3>3
    <2> QED
      BY <1>3, <2>1 DEF Steps
  <1>13. SavePointMeansSaved'
    <2> SUFFICES ASSUME savePoint \in 0..c, ~recoded
                 PROVE  texts'[savePoint + 1] = savedText
      BY <1>1, <1>3 DEF SavePointMeansSaved
    <2>1. savePoint \in 0..Len(actions) /\ savePoint + 1 \in 1..c + 1
      BY <1>2
    <2> QED
      BY <1>0, <1>4, <2>1 DEF SavePointMeansSaved
  <1>14. Underway'
    <2>1. CASE op.kind = "tentative"
      BY <1>1, <2>1, StringsAreTexts DEF Underway, NoOp
    <2>2. CASE op.kind \in {"compose", "result"}
      <3>1. /\ op'.kind \in {"insert", "compose"} /\ op'.from = c
            /\ op'.target = op.target /\ op'.next = op.next
            /\ op' \in [kind: {"none", "undo", "redo", "tentative", "compose", "result", "insert"},
                       target: Nat, from: Nat, next: Str]
        <4>1. op' = [op EXCEPT !.kind = IF @ = "result" THEN "insert" ELSE @,
                               !.from = currentAction]
          BY <1>1, <2>2
        <4> QED
          BY <1>0, <1>2, <2>2, <4>1 DEF Underway
      <3> QED
        BY <1>0, <1>1, <3>1 DEF Underway
    <2> QED
      BY <1>1, <2>1, <2>2
  <1> QED
    BY <1>9, <1>10, <1>11, <1>12, <1>13, <1>14 DEF IInv

-----------------------------------------------------------------------------
(* The other operations. *)

\* Ending or beginning a compound operation closes the action before it.
LEMMA GroupKeeps ==
    ASSUME IInv,
           actions' = actions \/ actions' = Closed(actions, currentAction),
           UNCHANGED <<currentAction, savePoint, tentativePoint, scraps, scrapCurrent,
                       substance, bModified, op, texts, scrapAt, savedText, recoded>>
    PROVE  IInv'
  <1>0. Shape /\ Stacked /\ Steps /\ SavePointMeansSaved /\ Underway /\ Believed
    BY DEF IInv
  <1>1. /\ actions' \in Seq(Action) /\ Len(actions') = Len(actions)
        /\ \A i \in 1..Len(actions) : /\ actions'[i].at = actions[i].at
                                      /\ actions'[i].position = actions[i].position
                                      /\ actions'[i].lenData = actions[i].lenData
    <2>1. actions \in Seq(Action) /\ currentAction \in 0..Len(actions)
      BY <1>0 DEF Shape
    <2>2. CASE actions' = actions
      BY <2>1, <2>2
    <2>3. CASE actions' = Closed(actions, currentAction)
      BY <2>1, <2>3, ClosedSame
    <2> QED
      BY <2>2, <2>3
  <1>2. Shape'
    BY <1>0, <1>1 DEF Shape
  <1>3. Stacked'
    BY <1>0, <1>1 DEF Stacked
  <1>4. Steps'
    <2>1. ASSUME NEW i \in 1..Len(actions)
          PROVE  Leads(actions'[i], Scrap(i)', texts'[i], texts'[i + 1])
      <3>1. Leads(actions[i], Scrap(i), texts[i], texts[i + 1])
        BY <1>0 DEF Steps
      <3>2. Scrap(i)' = Scrap(i)
        BY DEF Scrap
      <3>3. Leads(actions'[i], Scrap(i), texts[i], texts[i + 1])
        BY <3>1, <1>1, SameLeads
      <3> QED
        BY <3>2, <3>3
    <2> QED
      BY <1>1, <2>1 DEF Steps
  <1>5. SavePointMeansSaved'
    BY <1>0, <1>1 DEF SavePointMeansSaved
  <1>6. Underway'
    BY <1>0, <1>1 DEF Underway, TentativeActive
  <1>7. Believed'
    BY <1>0 DEF Believed, at, Idle
  <1> QED
    BY <1>2, <1>3, <1>4, <1>5, <1>6, <1>7 DEF IInv

\* A new text and an emptied history.
LEMMA ReplacedKeeps ==
    ASSUME NEW s \in Str, Replaced(s), EmptyHistory, op = NoOp, op' = NoOp,
           bModified' \in BOOLEAN,
           recoded' \/ (~bModified' /\ savedText' = s)
    PROVE  IInv'
  <1>1. /\ actions' = <<>> /\ currentAction' = 0 /\ savePoint' = 0 /\ tentativePoint' = None
        /\ scraps' = <<>> /\ scrapCurrent' = 0 /\ texts' = <<s>> /\ scrapAt' = <<0>>
        /\ substance' = s
    BY DEF Replaced, EmptyHistory
  <1>2. Len(actions') = 0 /\ actions' \in Seq(Action) /\ scraps' \in Str /\ Len(scraps') = 0
    BY <1>1, EmptySeq DEF Str
  <1>3. texts' \in Seq(Str) /\ Len(texts') = 1 /\ texts'[1] = s
    BY <1>1
  <1>4. scrapAt' \in Seq(Nat) /\ Len(scrapAt') = 1 /\ scrapAt'[1] = 0
    BY <1>1
  <1>5. Shape'
    BY <1>1, <1>2, <1>3 DEF Shape
  <1>6. Stacked'
    BY <1>1, <1>2, <1>4 DEF Stacked
  <1>7. Steps'
    BY <1>2 DEF Steps
  <1>8. SavePointMeansSaved'
    BY <1>1, <1>2, <1>3 DEF SavePointMeansSaved
  <1>9. Underway'
    BY StringsAreTexts DEF Underway, NoOp
  <1>10. Believed'
    BY <1>1 DEF Believed, at, Idle
  <1> QED
    BY <1>5, <1>6, <1>7, <1>8, <1>9, <1>10 DEF IInv

\* An operation begins: nothing has moved yet.
LEMMA StartsKeeps ==
    ASSUME IInv, Idle,
           NEW kind \in {"undo", "redo", "tentative", "compose", "result", "insert"},
           NEW target \in Nat, NEW next \in Str, Starts(kind, target, next),
           kind = "redo" => target <= Len(actions),
           kind = "compose" /\ ~TentativeActive => target = currentAction
    PROVE  IInv'
  <1>0. Shape /\ Stacked /\ Steps /\ SavePointMeansSaved /\ Underway /\ Believed
    BY DEF IInv
  <1>1. /\ op' = [kind |-> kind, target |-> target, from |-> currentAction, next |-> next]
        /\ UNCHANGED <<actions, currentAction, savePoint, tentativePoint, scraps,
                       scrapCurrent, substance, bModified, texts, scrapAt, savedText, recoded>>
    BY DEF Starts, history, hist
  <1>2. currentAction \in Nat
    BY <1>0, LenProperties DEF Shape
  <1>3. /\ op'.kind = kind /\ op'.target = target /\ op'.from = currentAction /\ op'.next = next
        /\ op' \in [kind: {"none", "undo", "redo", "tentative", "compose", "result", "insert"},
                    target: Nat, from: Nat, next: Str]
    BY <1>1, <1>2
  <1>4. Shape' /\ Stacked'
    BY <1>0, <1>1 DEF Shape, Stacked
  <1>5. Steps'
    BY <1>0, <1>1 DEF Steps, Scrap
  <1>6. SavePointMeansSaved'
    BY <1>0, <1>1 DEF SavePointMeansSaved
  <1>7. Underway'
    BY <1>1, <1>3 DEF Underway, TentativeActive
  <1>8. Believed'
    <2>1. at' = currentAction /\ at = currentAction
      BY <1>1, <1>3 DEF at, Idle
    <2> QED
      BY <1>0, <1>1, <2>1 DEF Believed
  <1> QED
    BY <1>4, <1>5, <1>6, <1>7, <1>8 DEF IInv

-----------------------------------------------------------------------------
(* The theorems. *)

\* The empty text stands alone in its history.
LEMMA Initially == Init => IInv
  <1> SUFFICES ASSUME Init
               PROVE  IInv
    OBVIOUS
  <1>1. /\ actions = <<>> /\ currentAction = 0 /\ savePoint = 0 /\ tentativePoint = None
        /\ scraps = <<>> /\ scrapCurrent = 0 /\ substance = <<>>
        /\ scrapAt = <<0>> /\ op = NoOp /\ bModified = FALSE /\ savedText = <<>>
    BY DEF Init, HistoryInit
  <1>2. Len(actions) = 0 /\ actions \in Seq(Action) /\ scraps \in Str /\ Len(scraps) = 0
    BY <1>1, EmptySeq DEF Str
  <1>3. texts \in Seq(Str) /\ Len(texts) = 1 /\ texts[1] = <<>>
    BY StringsAreTexts DEF Init
  <1>4. scrapAt \in Seq(Nat) /\ Len(scrapAt) = 1 /\ scrapAt[1] = 0
    BY <1>1
  <1>5. Shape
    <2>1. currentAction + 1 = 1 /\ substance = texts[1]
      BY <1>1, <1>3
    <2>2. /\ currentAction \in 0..Len(actions) /\ Len(texts) = Len(actions) + 1
      BY <1>1, <1>2, <1>3
    <2>3. savePoint \in Nat \cup {None} /\ tentativePoint \in Nat \cup {None}
      BY <1>1
    <2>4. bModified \in BOOLEAN
      BY <1>1
    <2> QED
      BY <1>2, <1>3, <2>1, <2>2, <2>3, <2>4 DEF Shape
  <1>6. Stacked
    BY <1>1, <1>2, <1>4 DEF Stacked
  <1>7. Steps
    BY <1>2 DEF Steps
  <1>8. SavePointMeansSaved
    BY <1>1, <1>2, <1>3 DEF SavePointMeansSaved
  <1>9. Underway
    BY <1>1, StringsAreTexts DEF Underway, NoOp
  <1>10. Believed
    BY <1>1 DEF Believed, at, Idle
  <1> QED
    BY <1>5, <1>6, <1>7, <1>8, <1>9, <1>10 DEF IInv

\* No step leaves the invariant.
LEMMA StepKeeps ==
    ASSUME IInv, [Next]_vars
    PROVE  IInv'
  <1>0. Shape /\ Stacked /\ Steps /\ SavePointMeansSaved /\ Underway /\ Believed
    BY DEF IInv
  <1>t. /\ currentAction \in Nat /\ Len(actions) \in Nat /\ currentAction <= Len(actions)
        /\ substance \in Str /\ Len(substance) \in Nat
        /\ tentativePoint \in Nat \cup {None}
    BY <1>0, SubstanceIsText, LenProperties DEF Shape
  <1>1. CASE Insert
    <2>1. PICK position \in 0..Len(substance), s \in Strings : InsertString(position, s)
      BY <1>1 DEF Insert
    <2>2. op' = NoOp /\ at = currentAction
      BY <1>1 DEF Insert, Idle, at
    <2> QED
      BY <2>1, <2>2, StringsAreTexts, InsertStringKeeps
  <1>2. CASE Delete
    <2>1. PICK position \in 0..(Len(substance) - 1) :
            \E length \in 1..(Len(substance) - position) : DeleteChars(position, length)
      BY <1>2 DEF Delete
    <2>2. PICK length \in 1..(Len(substance) - position) : DeleteChars(position, length)
      BY <2>1
    <2>3. position \in Nat /\ length \in Nat /\ position + length <= Len(substance)
      BY <1>t
    <2>4. op' = NoOp /\ at = currentAction
      BY <1>2 DEF Delete, Idle, at
    <2> QED
      BY <2>2, <2>3, <2>4, DeleteCharsKeeps
  <1>3. CASE Begin
    BY <1>3, GroupKeeps DEF Begin, BeginUndoAction
  <1>4. CASE End
    BY <1>4, GroupKeeps DEF End, EndUndoAction
  <1>5. CASE Undo
    <2>1. Idle /\ Starts("undo", UndoTarget, <<>>) /\ currentAction > 0
      BY <1>5 DEF Undo, CanUndo
    <2>2. UndoTarget \in Nat
      BY <2>1, <1>t, UndoTargetBefore
    <2> QED
      BY <2>1, <2>2, StringsAreTexts, StartsKeeps
  <1>6. CASE Redo
    <2>1. Idle /\ Starts("redo", RedoTarget, <<>>) /\ currentAction < Len(actions)
      BY <1>6, <1>t DEF Redo, CanRedo
    <2>2. RedoTarget \in Nat /\ RedoTarget <= Len(actions)
      BY <2>1, <1>t, RedoTargetAfter
    <2> QED
      BY <2>1, <2>2, StringsAreTexts, StartsKeeps
  <1>7. CASE Composition
    <2> DEFINE base == IF TentativeActive /\ tentativePoint < currentAction
                       THEN tentativePoint ELSE currentAction
    <2>1. PICK kind \in {"compose", "result"}, s \in Composed :
            IF kind = "compose" \/ TentativeActive
            THEN Starts(kind, base, s)
            ELSE Starts("insert", base, s)
      BY <1>7 DEF Composition
    <2>2. base \in Nat /\ (~TentativeActive => base = currentAction)
      BY <1>t DEF TentativeActive, None
    <2>3. s \in Str
      BY StringsAreTexts, CellBufferAssumption DEF CellBufferAssumption
    <2>4. Idle
      BY <1>7 DEF Composition
    <2> HIDE DEF base
    <2>5. CASE kind = "compose" \/ TentativeActive
      BY <2>1, <2>2, <2>3, <2>4, <2>5, StartsKeeps
    <2>6. CASE ~(kind = "compose" \/ TentativeActive)
      BY <2>1, <2>2, <2>3, <2>4, <2>6, StartsKeeps
    <2> QED
      BY <2>5, <2>6
  <1>8. CASE EndComposition
    <2> DEFINE target == IF tentativePoint < currentAction THEN tentativePoint
                         ELSE currentAction
    <2>1. Idle /\ TentativeActive /\ Starts("tentative", target, <<>>)
      BY <1>8 DEF EndComposition
    <2>2. target \in Nat
      BY <1>t, <2>1 DEF TentativeActive, None
    <2> HIDE DEF target
    <2> QED
      BY <2>1, <2>2, StringsAreTexts, StartsKeeps
  <1>9. CASE PerformUndoStep
    BY <1>9, PerformUndoStepKeeps
  <1>10. CASE PerformRedoStep
    BY <1>10, PerformRedoStepKeeps
  <1>11. CASE EndUndoRedo
    BY <1>11, EndUndoRedoKeeps
  <1>12. CASE EndTentativeUndo
    BY <1>12, EndTentativeUndoKeeps
  <1>13. CASE TentativeStart
    <2>1. /\ op.kind = "compose" /\ ~TentativeActive
          /\ tentativePoint' = currentAction
          /\ op' = [op EXCEPT !.kind = "insert"]
          /\ UNCHANGED <<actions, currentAction, savePoint, scraps, scrapCurrent,
                         substance, bModified, texts, scrapAt, savedText, recoded>>
      BY <1>13 DEF TentativeStart, hist
    <2>2. /\ op'.kind = "insert" /\ op'.from = op.from /\ op.from = currentAction
          /\ op' \in [kind: {"none", "undo", "redo", "tentative", "compose", "result", "insert"},
                      target: Nat, from: Nat, next: Str]
      BY <2>1, <1>0 DEF Underway
    <2>3. Shape' /\ Stacked'
      BY <1>0, <1>t, <2>1 DEF Shape, Stacked
    <2>4. Steps'
      BY <1>0, <2>1 DEF Steps, Scrap
    <2>5. SavePointMeansSaved'
      BY <1>0, <2>1 DEF SavePointMeansSaved
    <2>6. Underway'
      BY <2>1, <2>2 DEF Underway
    <2>7. Believed'
      <3>1. op # NoOp /\ op' # NoOp
        BY <2>1, <2>2 DEF NoOp
      <3>2. at' = at
        BY <3>1, <2>2 DEF at, Idle
      <3> QED
        BY <1>0, <2>1, <3>2 DEF Believed
    <2> QED
      BY <2>3, <2>4, <2>5, <2>6, <2>7 DEF IInv
  <1>14. CASE InsertCharacter
    <2>1. PICK position \in 0..Len(substance) : InsertString(position, op.next)
      BY <1>14 DEF InsertCharacter
    <2>2. op' = NoOp /\ op.kind = "insert"
      BY <1>14 DEF InsertCharacter
    <2>3. at = currentAction /\ op.next \in Str
      BY <1>0, <2>2 DEF Underway, at, Idle
    <2> QED
      BY <2>1, <2>2, <2>3, InsertStringKeeps
  <1>15. CASE SetSavePoint
    <2>1. /\ op = NoOp /\ op' = NoOp /\ savePoint' = currentAction /\ bModified' = FALSE
          /\ savedText' = substance
          /\ UNCHANGED <<actions, currentAction, tentativePoint, scraps, scrapCurrent,
                         substance, texts, scrapAt>>
      BY <1>15 DEF SetSavePoint, Idle
    <2>2. Shape' /\ Stacked'
      BY <1>0, <1>t, <2>1 DEF Shape, Stacked
    <2>3. Steps'
      BY <1>0, <2>1 DEF Steps, Scrap
    <2>4. SavePointMeansSaved'
      BY <1>0, <2>1 DEF SavePointMeansSaved, Shape
    <2>5. Underway'
      BY <2>1, StringsAreTexts DEF Underway, NoOp
    <2>6. Believed'
      BY <2>1 DEF Believed, at, Idle
    <2> QED
      BY <2>2, <2>3, <2>4, <2>5, <2>6 DEF IInv
  <1>16. CASE EditSetNewText
    <2>1. PICK s \in Strings \cup {<<>>} : Replaced(s) /\ savedText' = s
      BY <1>16 DEF EditSetNewText
    <2>2. op = NoOp /\ op' = NoOp /\ EmptyHistory /\ bModified' = FALSE
      BY <1>16 DEF EditSetNewText, Idle
    <2>3. s \in Str
      BY StringsAreTexts
    <2> QED
      BY <2>1, <2>2, <2>3, ReplacedKeeps
  <1>17. CASE EditConvertText
    <2>1. PICK s \in {substance} \cup Strings : Replaced(s)
      BY <1>17 DEF EditConvertText
    <2>2. op = NoOp /\ op' = NoOp /\ EmptyHistory /\ bModified' = bModified /\ recoded' = TRUE
      BY <1>17 DEF EditConvertText, Idle
    <2>3. s \in Str /\ bModified \in BOOLEAN
      BY <1>0, <1>t, StringsAreTexts DEF Shape
    <2> QED
      BY <2>1, <2>2, <2>3, ReplacedKeeps
  <1>18. CASE UNCHANGED vars
    <2>1. UNCHANGED <<actions, currentAction, savePoint, tentativePoint, scraps,
                      scrapCurrent, substance, bModified, op, texts, scrapAt, savedText,
                      recoded>>
      BY <1>18 DEF vars, history, hist
    <2> QED
      BY <2>1, GroupKeeps
  <1> QED
    BY <1>1, <1>2, <1>3, <1>4, <1>5, <1>6, <1>7, <1>8, <1>9, <1>10, <1>11, <1>12, <1>13,
       <1>14, <1>15, <1>16, <1>17, <1>18 DEF Next

\* The invariant holds throughout: the texts and scraps in the histories stay
\* where the actions look for them, through every edit, undo, redo,
\* composition and load.
THEOREM Inductive == Spec => []IInv
  <1>1. Init => IInv
    BY Initially
  <1>2. IInv /\ [Next]_vars => IInv'
    BY StepKeeps
  <1> QED
    BY <1>1, <1>2, PTL DEF Spec

\* Undo and redo give back exactly the texts that were there: every action of
\* the history leads with its scrap from one recorded text to the next.
THEOREM HistoryAlwaysReplays == Spec => []HistoryReplays
  <1>1. IInv => HistoryReplays
    <2> SUFFICES ASSUME IInv
                 PROVE  HistoryReplays
      OBVIOUS
    <2>0. Shape /\ Stacked /\ Steps
      BY DEF IInv
    <2>1. ASSUME NEW i \in 1..Len(actions)
          PROVE  /\ Len(Scrap(i)) = actions[i].lenData
                 /\ actions[i].at = "insert" =>
                      texts[i + 1] = Inserted(texts[i], actions[i].position, Scrap(i))
                 /\ actions[i].at = "remove" =>
                      texts[i] = Inserted(texts[i + 1], actions[i].position, Scrap(i))
      BY <2>0 DEF Steps, Leads
    <2> QED
      BY <2>0, <2>1 DEF HistoryReplays, Shape, Stacked, Scrap
  <1> QED
    BY <1>1, Inductive, PTL

\* A save point that can be reached is the text that was saved.
THEOREM SavePointAlwaysMeansSaved == Spec => []SavePointMeansSaved
  <1>1. IInv => SavePointMeansSaved
    BY DEF IInv
  <1> QED
    BY <1>1, Inductive, PTL

\* When nothing is in progress, the window's flag is the opposite of the
\* control's save point, whatever notifications it got.
THEOREM ModifiedAlwaysTracked == Spec => []ModifiedTracked
  <1>1. IInv => ModifiedTracked
    BY DEF IInv, Believed, ModifiedTracked, IsSavePoint, at
  <1> QED
    BY <1>1, Inductive, PTL
=============================================================================
