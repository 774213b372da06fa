----------------------------- MODULE Partitioning -----------------------------
(***************************************************************************)
(* Scintilla's Partitioning (src/scintilla/src/Partitioning.h): an         *)
(* ascending sequence of positions that divides a text into partitions,    *)
(* here lines.  So that typing does not touch every later element, a shift *)
(* is kept as a step: the elements after stepPartition are stepLength      *)
(* less than the positions they stand for, until some call moves the step. *)
(*                                                                         *)
(* A partitioning is a record; last is the index of the last element, that *)
(* is Partitions(), and body has the elements 0..last.                     *)
(***************************************************************************)
EXTENDS Integers

WellFormed(P) ==
    P \in [last : Nat \ {0}, body : [0..P.last -> Int],
           stepPartition : 0..P.last, stepLength : Int]

\* A new or emptied partitioning: one empty partition.
Fresh == [last |-> 1, body |-> [i \in 0..1 |-> 0],
          stepPartition |-> 0, stepLength |-> 0]

PositionFromPartition(P, partition) ==
    IF partition \in 0..P.last
    THEN P.body[partition] + (IF partition > P.stepPartition
                              THEN P.stepLength ELSE 0)
    ELSE 0

\* RangeAddDelta over the elements first..end-1.
RangeAddDelta(P, first, end, delta) ==
    [i \in 0..P.last |-> P.body[i] + (IF first <= i /\ i < end THEN delta ELSE 0)]

\* Move the step forward, and away when it reaches the end.
ApplyStep(P, partitionUpTo) ==
    LET atEnd == partitionUpTo >= P.last
    IN  [last |-> P.last,
         body |-> RangeAddDelta(P, P.stepPartition + 1, partitionUpTo + 1, P.stepLength),
         stepPartition |-> IF atEnd THEN P.last ELSE partitionUpTo,
         stepLength |-> IF atEnd THEN 0 ELSE P.stepLength]

\* Move the step backward.
BackStep(P, partitionDownTo) ==
    [last |-> P.last,
     body |-> RangeAddDelta(P, partitionDownTo + 1, P.stepPartition + 1, -P.stepLength),
     stepPartition |-> partitionDownTo,
     stepLength |-> P.stepLength]

\* The same elements with another step.
WithStep(P, partition, length) ==
    [last |-> P.last, body |-> P.body,
     stepPartition |-> partition, stepLength |-> length]

\* The call of ApplyStep that the insertions and removals begin with.
StepTo(P, partition) ==
    IF P.stepPartition < partition THEN ApplyStep(P, partition) ELSE P

\* positions is a function on 1..count; InsertPartition is count = 1.
InsertPartitions(P, partition, positions, count) ==
    LET Q == StepTo(P, partition)
    IN  [last |-> Q.last + count,
         body |-> [i \in 0..(Q.last + count) |->
                     IF i < partition THEN Q.body[i]
                     ELSE IF i < partition + count THEN positions[i - partition + 1]
                     ELSE Q.body[i - count]],
         stepPartition |-> Q.stepPartition + count,
         stepLength |-> Q.stepLength]

InsertPartition(P, partition, pos) ==
    InsertPartitions(P, partition, [i \in 1..1 |-> pos], 1)

SetPartitionStartPosition(P, partition, pos) ==
    LET Q == ApplyStep(P, partition + 1)
    IN  IF partition \notin 0..Q.last THEN Q
        ELSE [last |-> Q.last,
              body |-> [i \in 0..Q.last |-> IF i = partition THEN pos ELSE Q.body[i]],
              stepPartition |-> Q.stepPartition, stepLength |-> Q.stepLength]

\* Mutant: the pending step is overwritten by the new one.
InsertTextDropsStep(P, partitionInsert, delta) == WithStep(P, partitionInsert, delta)

\* Point the partitions after partitionInsert further along in the text.
InsertText(P, partitionInsert, delta) ==
    LET forward == ApplyStep(P, partitionInsert)
        back == BackStep(P, partitionInsert)
    IN  IF P.stepLength = 0
        THEN WithStep(P, partitionInsert, delta)
        ELSE IF partitionInsert >= P.stepPartition
        THEN WithStep(forward, forward.stepPartition, forward.stepLength + delta)
        ELSE IF partitionInsert >= P.stepPartition - ((P.last + 1) \div 10)
        THEN WithStep(back, back.stepPartition, back.stepLength + delta)
        ELSE WithStep(ApplyStep(P, P.last), partitionInsert, delta)

RemovePartition(P, partition) ==
    LET Q == StepTo(P, partition)
    IN  [last |-> Q.last - 1,
         body |-> [i \in 0..(Q.last - 1) |->
                     IF i < partition THEN Q.body[i] ELSE Q.body[i + 1]],
         stepPartition |-> Q.stepPartition - 1,
         stepLength |-> Q.stepLength]

\* The binary search, of the range <<lower, upper>>.
Search(P, pos) ==
    LET search[range \in (0..P.last) \X (0..P.last)] ==
          LET lower == range[1]
              upper == range[2]
              middle == (upper + lower + 1) \div 2
          IN  IF lower >= upper THEN lower
              ELSE IF pos < PositionFromPartition(P, middle)
              THEN search[<<lower, middle - 1>>]
              ELSE search[<<middle, upper>>]
    IN  search[<<0, P.last>>]

PartitionFromPosition(P, pos) ==
    IF pos >= PositionFromPartition(P, P.last) THEN P.last - 1 ELSE Search(P, pos)
=============================================================================
