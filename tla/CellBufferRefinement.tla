------------------------ MODULE CellBufferRefinement -------------------------
(***************************************************************************)
(* CellBuffer implements TextHistory: its actions, scraps and steps make   *)
(* the row of marked texts that the window relies on, for texts and        *)
(* histories of any length.                                                *)
(***************************************************************************)
EXTENDS CellBufferProofs

abstract == <<ShownText, texts, at, Marks, ReachableSave, tentativePoint, groupStart>>

\* Within a compound operation nothing else runs, it began at a mark, and no
\* mark has been set since, not even the save point.
Grouped ==
    /\ undoSequenceDepth \in Nat
    /\ undoSequenceDepth = 0 => groupStart = None
    /\ undoSequenceDepth > 0 =>
        /\ op = NoOp
        /\ groupStart \in 0..currentAction
        /\ groupStart > 0 => Ends(groupStart)
        /\ currentAction > groupStart => savePoint <= groupStart
        /\ \A i \in (groupStart + 1)..currentAction : ~Ends(i)

\* The window stands at a mark.
AtMark == at \in Marks

\* An undo or redo leads to the next mark, a tentative undo to where the
\* composition began.
Aimed ==
    /\ op.kind = "undo" => /\ op.target \in Marks /\ op.target < op.from
                           /\ \A m \in Marks : ~(op.target < m /\ m < op.from)
    /\ op.kind = "redo" => /\ op.target \in Marks /\ op.from < op.target
                           /\ \A m \in Marks : ~(op.from < m /\ m < op.target)
    /\ op.kind \in {"tentative", "compose", "result"} /\ TentativeActive =>
         op.target = IF tentativePoint < op.from THEN tentativePoint ELSE op.from

RInv == IInv /\ Grouped /\ AtMark /\ Aimed

-----------------------------------------------------------------------------

\* What is shown is the text at the window's place in the history.
LEMMA Shown ==
    ASSUME IInv
    PROVE  ShownText = texts[at + 1]
  BY DEF IInv, Shape, ShownText

\* The marks of the history and where the window stands are places in it.
LEMMA MarkFacts ==
    ASSUME RInv
    PROVE  /\ currentAction \in Nat /\ Len(actions) \in Nat /\ currentAction <= Len(actions)
           /\ Marks \subseteq 0..Len(actions) /\ at \in 0..Len(actions)
           /\ savePoint \in Nat \cup {None} /\ tentativePoint \in Nat \cup {None}
           /\ groupStart \in Nat \cup {None}
  <1>1. currentAction \in Nat /\ Len(actions) \in Nat /\ currentAction <= Len(actions)
    BY LenProperties DEF RInv, IInv, Shape
  <1>2. Marks \subseteq 0..Len(actions)
    BY <1>1 DEF Marks
  <1>3. at \in 0..Len(actions)
    BY <1>2 DEF RInv, AtMark
  <1>4. groupStart \in Nat \cup {None}
    BY <1>1 DEF RInv, Grouped
  <1> QED
    BY <1>1, <1>2, <1>3, <1>4 DEF RInv, IInv, Shape

\* A step that leaves the row of texts and the window's place alone shows nothing.
LEMMA Stutters ==
    ASSUME IInv, IInv', at' = at,
           UNCHANGED <<texts, actions, savePoint, tentativePoint, groupStart>>
    PROVE  UNCHANGED abstract
  <1>1. ShownText' = ShownText
    <2>1. ShownText' = texts'[at' + 1] /\ ShownText = texts[at + 1]
      BY DEF IInv, Shape, ShownText
    <2> QED
      BY <2>1
  <1>2. Marks' = Marks
    BY DEF Marks, Ends
  <1>3. ReachableSave' = ReachableSave
    BY DEF ReachableSave
  <1> QED
    BY <1>1, <1>2, <1>3 DEF abstract

-----------------------------------------------------------------------------
(* Edits. *)

\* The actions after an edit: the last one before it ends a user operation
\* unless the edit joins it.
LEMMA EditedActions ==
    ASSUME Shape, NEW kind \in {"insert", "remove"}, NEW p \in Nat, NEW data \in Str,
           AppendAction(kind, p, data)
    PROVE  LET c == currentAction
               joined == Coalesces(kind, p, Len(data))
           IN  /\ Len(actions') = c + 1
               /\ joined => c >= 1 /\ ~Ends(c)
               /\ actions'[c + 1].mayCoalesce
               /\ \A i \in 1..c - 1 : actions'[i] = actions[i]
               /\ c >= 1 => (actions'[c].mayCoalesce <=> joined)
  <1> DEFINE c == currentAction
             done == SubSeq(actions, 1, c)
             joined == Coalesces(kind, p, Len(data))
             before == IF joined THEN done ELSE Closed(done, c)
             new == [at |-> kind, position |-> p, lenData |-> Len(data), mayCoalesce |-> TRUE]
  <1>1. /\ c \in Nat /\ Len(actions) \in Nat /\ c <= Len(actions) /\ Len(data) \in Nat
        /\ actions \in Seq(Action)
    BY LenProperties DEF Shape, Str
  <1>2. new \in Action /\ new.mayCoalesce
    BY <1>1 DEF Action
  <1>3. done \in Seq(Action) /\ Len(done) = c /\ \A i \in 1..c : done[i] = actions[i]
    BY <1>1, FirstPart
  <1>4. joined => c >= 1 /\ ~Ends(c) /\ actions[c].mayCoalesce
    BY DEF Coalesces, Ends
  <1>5. actions' = Append(before, new)
    BY DEF AppendAction
  <1> HIDE DEF done, joined, new
  <1>6. /\ before \in Seq(Action) /\ Len(before) = c
        /\ \A i \in 1..c - 1 : before[i] = actions[i]
        /\ c >= 1 => (before[c].mayCoalesce <=> joined)
    <2>1. CASE joined
      <3>1. before = done
        BY <2>1
      <3>2. c \in 1..c /\ \A i \in 1..c - 1 : i \in 1..c
        BY <1>1, <1>4, <2>1
      <3> QED
        BY <1>3, <1>4, <2>1, <3>1, <3>2
    <2>2. CASE ~joined /\ c = 0
      <3>1. before = done
        BY <2>2 DEF Closed
      <3> HIDE DEF before
      <3>2. ~(c >= 1) /\ \A i \in 1..c - 1 : FALSE
        BY <1>1, <2>2
      <3> QED
        BY <1>3, <3>1, <3>2
    <2>3. CASE ~joined /\ c # 0
      <3> DEFINE e == [done[c] EXCEPT !.mayCoalesce = FALSE]
      <3>1. c \in 1..Len(done) /\ done[c] \in Action
        BY <1>1, <1>3, <2>3, ElementOfSeq
      <3>2. e \in Action /\ ~e.mayCoalesce
        BY <3>1 DEF Action
      <3>3. before = [done EXCEPT ![c] = e]
        BY <2>3, <3>1 DEF Closed
      <3> HIDE DEF e
      <3>4. /\ [done EXCEPT ![c] = e] \in Seq(Action)
            /\ Len([done EXCEPT ![c] = e]) = Len(done)
            /\ \A i \in 1..Len(done) : [done EXCEPT ![c] = e][i] = IF i = c THEN e ELSE done[i]
        BY <1>3, <3>1, <3>2, ExceptSeq
      <3>5. c \in 1..c /\ \A i \in 1..c - 1 : i \in 1..c /\ i # c
        BY <1>1, <2>3
      <3> HIDE DEF before
      <3>6. before \in Seq(Action) /\ Len(before) = c
        BY <1>3, <3>3, <3>4
      <3>7. before[c] = e
        BY <1>3, <3>3, <3>4, <3>5
      <3>8. \A i \in 1..c - 1 : before[i] = actions[i]
        BY <1>3, <3>3, <3>4, <3>5
      <3> QED
        BY <2>3, <3>2, <3>6, <3>7, <3>8
    <2> QED
      BY <2>1, <2>2, <2>3
  <1> HIDE DEF before
  <1>7. /\ Len(actions') = c + 1 /\ actions'[c + 1] = new
        /\ \A i \in 1..c : actions'[i] = before[i]
    BY <1>2, <1>5, <1>6, AppendProperties
  <1>8. \A i \in 1..c - 1 : i \in 1..c
    BY <1>1
  <1>9. \A i \in 1..c - 1 : actions'[i] = actions[i]
    BY <1>6, <1>7, <1>8
  <1>10. c >= 1 => (actions'[c].mayCoalesce <=> joined)
    BY <1>1, <1>6, <1>7
  <1> QED
    BY <1>2, <1>4, <1>7, <1>9, <1>10 DEF joined

\* The marks after an edit: the one before it goes if the edit joins it.
LEMMA EditedMarks ==
    ASSUME RInv, at = currentAction,
           NEW kind \in {"insert", "remove"}, NEW p \in Nat, NEW data \in Str,
           AppendAction(kind, p, data)
    PROVE  LET c == currentAction
               joined == Coalesces(kind, p, Len(data))
           IN  Marks' = (IF joined THEN {m \in Marks : m < c} ELSE {m \in Marks : m <= c})
                          \cup {c + 1}
  <1> DEFINE c == currentAction
             joined == Coalesces(kind, p, Len(data))
             kept == IF joined THEN {m \in Marks : m < c} ELSE {m \in Marks : m <= c}
  <1>1. c \in Nat /\ Len(actions) \in Nat /\ c <= Len(actions) /\ Marks \subseteq 0..Len(actions)
    BY MarkFacts
  <1>2. c \in Marks
    BY DEF RInv, AtMark
  <1>3. /\ Len(actions') = c + 1
        /\ joined => c >= 1 /\ ~Ends(c)
        /\ \A i \in 1..c - 1 : actions'[i] = actions[i]
        /\ c >= 1 => (actions'[c].mayCoalesce <=> joined)
    <2>1. Shape
      BY DEF RInv, IInv
    <2> QED
      BY <2>1, EditedActions
  <1> HIDE DEF joined
  <1>4. Marks' = {0, c + 1} \cup {b \in 1..c + 1 : ~actions'[b].mayCoalesce}
    BY <1>3 DEF Marks, Ends
  <1>5. \A m : m \in Marks <=> m \in {0, Len(actions)} \/ (m \in 1..Len(actions) /\ Ends(m))
    BY DEF Marks
  <1>6. ASSUME NEW m \in 0..c - 1
        PROVE  m \in Marks' <=> m \in kept
    <2>1. m # c /\ m < c /\ m <= c /\ m # c + 1 /\ m # Len(actions)
      BY <1>1
    <2>2. m \in kept <=> m \in Marks
      BY <2>1
    <2>3. CASE m = 0
      BY <1>4, <1>5, <2>2, <2>3
    <2>4. CASE m # 0
      <3>1. m \in 1..c - 1 /\ m \in 1..c + 1 /\ m \in 1..Len(actions)
        BY <1>1, <2>4
      <3>2. m \in Marks' <=> Ends(m)
        BY <1>3, <1>4, <2>1, <2>4, <3>1 DEF Ends
      <3>3. m \in Marks <=> Ends(m)
        BY <1>5, <2>1, <2>4, <3>1
      <3> QED
        BY <2>2, <3>2, <3>3
    <2> QED
      BY <2>3, <2>4
  <1>7. c \in Marks' <=> c \in kept
    <2>1. c \in kept <=> ~joined
      BY <1>1, <1>2
    <2>2. CASE c = 0
      <3>1. ~joined
        BY <1>3, <2>2
      <3> QED
        BY <1>4, <2>1, <2>2, <3>1
    <2>3. CASE c # 0
      <3>1. c >= 1 /\ c \in 1..c + 1 /\ c # c + 1
        BY <1>1, <2>3
      <3>2. c \in Marks' <=> ~joined
        BY <1>3, <1>4, <2>3, <3>1
      <3> QED
        BY <2>1, <3>2
    <2> QED
      BY <2>2, <2>3
  <1>8. kept \subseteq 0..c /\ Marks' \subseteq 0..c + 1 /\ c + 1 \in Marks'
    <2>1. ASSUME NEW m \in kept
          PROVE  m \in 0..c
      <3>1. m \in Marks /\ (m < c \/ m <= c)
        OBVIOUS
      <3>2. m \in 0..Len(actions)
        BY <1>1, <3>1
      <3> QED
        BY <1>1, <3>1, <3>2
    <2>2. Marks' \subseteq 0..c + 1 /\ c + 1 \in Marks'
      BY <1>1, <1>4
    <2> QED
      BY <2>1, <2>2
  <1>9. \A m \in 0..c + 1 : m \in Marks' <=> m \in kept \cup {c + 1}
    <2> HIDE DEF kept
    <2> SUFFICES ASSUME NEW m \in 0..c + 1
                 PROVE  m \in Marks' <=> m \in kept \cup {c + 1}
      OBVIOUS
    <2>1. m \in 0..c - 1 \/ m = c \/ m = c + 1
      BY <1>1
    <2>2. c # c + 1 /\ \A i \in 0..c - 1 : i # c + 1
      BY <1>1
    <2> QED
      BY <1>6, <1>7, <1>8, <2>1, <2>2
  <1>10. Marks' = kept \cup {c + 1}
    <2>1. kept \cup {c + 1} \subseteq 0..c + 1
      BY <1>1, <1>8
    <2> HIDE DEF kept
    <2> QED
      BY <1>8, <1>9, <2>1
  <1> QED
    BY <1>10 DEF kept, joined

\* An edit joins the user operation before it only where no mark must stay,
\* and within a compound operation always.
LEMMA Joining ==
    ASSUME RInv, NEW kind, NEW p, NEW n
    PROVE  /\ Coalesces(kind, p, n) =>
                /\ currentAction >= 1
                /\ currentAction # savePoint
                /\ currentAction # groupStart
                /\ groupStart = None => currentAction # tentativePoint
           /\ groupStart # None /\ groupStart < currentAction => Coalesces(kind, p, n)
  <1>1. currentAction \in Nat /\ Len(actions) \in Nat /\ currentAction <= Len(actions)
        /\ savePoint \in Nat \cup {None} /\ groupStart \in Nat \cup {None}
    BY MarkFacts
  <1>2. Grouped /\ undoSequenceDepth \in Nat
    BY DEF RInv, Grouped
  <1>3. CASE undoSequenceDepth = 0
    <2>1. groupStart = None
      BY <1>2, <1>3 DEF Grouped
    <2>2. currentAction # None
      BY <1>1 DEF None
    <2> QED
      BY <1>1, <1>3, <2>1, <2>2 DEF Coalesces
  <1>4. CASE undoSequenceDepth > 0
    <2>1. /\ groupStart \in 0..currentAction
          /\ groupStart > 0 => Ends(groupStart)
          /\ currentAction > groupStart => savePoint <= groupStart
          /\ \A i \in (groupStart + 1)..currentAction : ~Ends(i)
      BY <1>2, <1>4 DEF Grouped
    <2>2. groupStart # None
      BY <2>1, <1>1 DEF None
    <2>3. ASSUME Coalesces(kind, p, n)
          PROVE  currentAction >= 1 /\ currentAction # groupStart /\ currentAction # savePoint
      <3>1. currentAction >= 1 /\ ~Ends(currentAction)
        BY <2>3 DEF Coalesces, Ends
      <3>2. currentAction # groupStart
        BY <2>1, <3>1, <1>1
      <3> QED
        BY <1>1, <2>1, <3>1, <3>2 DEF None
    <2>4. ASSUME groupStart < currentAction
          PROVE  Coalesces(kind, p, n)
      <3>1. currentAction \in (groupStart + 1)..currentAction /\ currentAction >= 1
        BY <1>1, <2>1, <2>4
      <3>2. ~Ends(currentAction)
        BY <2>1, <3>1
      <3> QED
        BY <1>2, <1>4, <3>1, <3>2 DEF Coalesces, Ends
    <2> QED
      BY <2>2, <2>3, <2>4
  <1> QED
    BY <1>2, <1>3, <1>4

\* Within a compound operation, an edit joins it, and ends nothing.
LEMMA EditKeepsGroup ==
    ASSUME RInv, op' = NoOp,
           NEW kind \in {"insert", "remove"}, NEW p \in Nat, NEW data \in Str,
           AppendAction(kind, p, data), UNCHANGED groupStart
    PROVE  Grouped'
  <1> DEFINE c == currentAction
             g == groupStart
             joined == Coalesces(kind, p, Len(data))
  <1>1. /\ c \in Nat /\ savePoint \in Nat \cup {None} /\ undoSequenceDepth \in Nat
        /\ undoSequenceDepth = 0 => g = None
    BY MarkFacts DEF RInv, Grouped
  <1>2. /\ currentAction' = c + 1 /\ groupStart' = g
        /\ undoSequenceDepth' = undoSequenceDepth
        /\ savePoint' = IF c < savePoint THEN None ELSE savePoint
    BY DEF AppendAction
  <1>3. /\ actions'[c + 1].mayCoalesce
        /\ \A i \in 1..c - 1 : actions'[i] = actions[i]
        /\ c >= 1 => (actions'[c].mayCoalesce <=> joined)
    <2>1. Shape
      BY DEF RInv, IInv
    <2> QED
      BY <2>1, EditedActions
  <1>4. ASSUME undoSequenceDepth > 0
        PROVE  /\ g \in 0..c + 1
               /\ g > 0 => ~actions'[g].mayCoalesce
               /\ c + 1 > g => savePoint' <= g
               /\ \A i \in (g + 1)..(c + 1) : actions'[i].mayCoalesce
    <2>1. /\ g \in 0..c
          /\ g > 0 => Ends(g)
          /\ c > g => savePoint <= g
          /\ \A i \in (g + 1)..c : ~Ends(i)
      BY <1>4 DEF RInv, Grouped
    <2>2. g # None
      BY <2>1, <1>1 DEF None
    <2>3. /\ joined => c # g
          /\ g < c => joined
      BY <2>2, Joining
    <2> HIDE DEF joined
    <2>4. g > 0 => ~actions'[g].mayCoalesce
      <3>1. CASE g = c
        BY <1>1, <1>3, <2>3, <3>1
      <3>2. CASE 0 < g /\ g < c
        <4>1. g \in 1..c - 1
          BY <1>1, <2>1, <3>2
        <4> QED
          BY <1>3, <2>1, <3>2, <4>1 DEF Ends
      <3> QED
        BY <1>1, <2>1, <3>1, <3>2
    <2>5. c + 1 > g => savePoint' <= g
      BY <1>1, <1>2, <2>1 DEF None
    <2>6. ASSUME NEW i \in (g + 1)..(c + 1)
          PROVE  actions'[i].mayCoalesce
      <3>1. CASE i = c + 1
        BY <1>3, <3>1
      <3>2. CASE i = c
        <4>1. c >= 1 /\ joined
          BY <1>1, <2>1, <2>3, <3>2
        <4> QED
          BY <1>3, <3>2, <4>1
      <3>3. CASE i < c
        <4>1. i \in 1..c - 1 /\ i \in (g + 1)..c
          BY <1>1, <2>1, <3>3
        <4> QED
          BY <1>3, <2>1, <4>1 DEF Ends
      <3> QED
        BY <1>1, <2>1, <3>1, <3>2, <3>3
    <2> QED
      BY <1>1, <2>1, <2>4, <2>5, <2>6
  <1> QED
    BY <1>1, <1>2, <1>4 DEF Grouped, Ends

\* An edit appends a text to the row.
LEMMA EditSimulates ==
    ASSUME RInv, IInv', at = currentAction, op' = NoOp,
           NEW kind \in {"insert", "remove"}, NEW p \in Nat, NEW data \in Str,
           AppendAction(kind, p, data), Recorded(substance')
    PROVE  RInv' /\ Promised!Edit
  <1> DEFINE c == currentAction
             joined == Coalesces(kind, p, Len(data))
             kept == IF joined THEN {m \in Marks : m < at} ELSE {m \in Marks : m <= at}
  <1>1. /\ c \in Nat /\ Len(actions) \in Nat /\ c <= Len(actions)
        /\ savePoint \in Nat \cup {None} /\ groupStart \in Nat \cup {None}
    BY MarkFacts
  <1>2. /\ currentAction' = c + 1
        /\ savePoint' = IF c < savePoint THEN None ELSE savePoint
        /\ tentativePoint' = tentativePoint
        /\ texts' = Append(SubSeq(texts, 1, c + 1), substance')
        /\ groupStart' = groupStart
    BY DEF AppendAction, Recorded
  <1>3. at' = c + 1 /\ ShownText' = substance'
    <2>1. at' = currentAction'
      BY DEF at, Idle
    <2> QED
      BY <2>1, <1>2 DEF ShownText
  <1>4. Marks' = kept \cup {at + 1}
    BY EditedMarks
  <1>5. Len(actions') = c + 1
    <2>1. Shape
      BY DEF RInv, IInv
    <2> QED
      BY <2>1, EditedActions
  <1>6. /\ joined => /\ c >= 1 /\ c # savePoint /\ c # groupStart
                     /\ groupStart = None => c # tentativePoint
        /\ groupStart # None /\ groupStart < c => joined
    BY Joining
  <1>7. c \in Marks
    BY DEF RInv, AtMark
  <1>8. ShownText' \in Seq(Char)
    <2>1. Shape'
      BY DEF IInv
    <2>2. currentAction' + 1 \in 1..Len(texts') /\ texts' \in Seq(Str)
      BY <2>1, <1>1, <1>2, <1>5 DEF Shape
    <2>3. substance' \in Str
      BY <2>1, <2>2, ElementOfSeq DEF Shape
    <2> QED
      BY <1>3, <2>3 DEF Str
  <1>9. ReachableSave' = IF ReachableSave > at THEN None ELSE ReachableSave
    BY <1>1, <1>2, <1>5 DEF ReachableSave, None
  <1>10. kept \in {{m \in Marks : m <= at}, {m \in Marks : m < at}}
    OBVIOUS
  <1>11. /\ at \in {0, ReachableSave, groupStart} => at \in kept
         /\ groupStart # None /\ groupStart < at => at \notin kept
         /\ groupStart = None /\ at = tentativePoint => at \in kept
    <2> HIDE DEF joined
    <2>1. at \in kept <=> ~joined
      BY <1>1, <1>7
    <2>2. at = ReachableSave => c = savePoint
      BY <1>1 DEF ReachableSave, None
    <2> HIDE DEF kept
    <2> QED
      BY <1>1, <1>6, <2>1, <2>2
  <1> HIDE DEF kept
  <1>12. Promised!Edit
    <2>1. /\ texts' = Append(SubSeq(texts, 1, at + 1), ShownText')
          /\ at' = at + 1
          /\ UNCHANGED <<tentativePoint, groupStart>>
      BY <1>2, <1>3
    <2>2. \E k \in {{m \in Marks : m <= at}, {m \in Marks : m < at}} :
            /\ Marks' = k \cup {at + 1}
            /\ at \in {0, ReachableSave, groupStart} => at \in k
            /\ groupStart # None /\ groupStart < at => at \notin k
            /\ groupStart = None /\ at = tentativePoint => at \in k
      BY <1>4, <1>10, <1>11
    <2> QED
      BY <1>8, <1>9, <2>1, <2>2, Zenon DEF Promised!Edit
  <1>13. Grouped'
    BY <1>2, EditKeepsGroup
  <1>14. AtMark'
    BY <1>3, <1>4 DEF AtMark
  <1>15. Aimed'
    BY DEF Aimed, NoOp
  <1> QED
    BY <1>12, <1>13, <1>14, <1>15 DEF RInv

-----------------------------------------------------------------------------
(* Undo, redo and input composition. *)

\* While an operation on the history runs, no compound operation is open.
LEMMA NoGroup ==
    ASSUME RInv, op # NoOp \/ undoSequenceDepth = 0
    PROVE  undoSequenceDepth = 0 /\ groupStart = None
  BY DEF RInv, Grouped

\* The beginning of an operation shows nothing yet.
LEMMA StartsStutters ==
    ASSUME RInv, IInv', Idle, undoSequenceDepth = 0,
           NEW kind, NEW target, NEW next, Starts(kind, target, next),
           kind = "undo" => /\ target \in Marks /\ target < currentAction
                            /\ \A m \in Marks : ~(target < m /\ m < currentAction),
           kind = "redo" => /\ target \in Marks /\ currentAction < target
                            /\ \A m \in Marks : ~(currentAction < m /\ m < target),
           kind \in {"tentative", "compose", "result"} /\ TentativeActive =>
             target = IF tentativePoint < currentAction THEN tentativePoint ELSE currentAction
    PROVE  RInv' /\ UNCHANGED abstract
  <1>1. /\ op'.kind = kind /\ op'.target = target /\ op'.from = currentAction
        /\ UNCHANGED <<actions, currentAction, undoSequenceDepth, savePoint, tentativePoint,
                       texts, groupStart>>
    BY DEF Starts, history, hist
  <1>2. at' = at /\ at = currentAction
    BY <1>1 DEF at, Idle
  <1>3. UNCHANGED abstract
    <2>1. IInv
      BY DEF RInv
    <2> QED
      BY <1>1, <1>2, <2>1, Stutters
  <1>4. Marks' = Marks
    BY <1>3 DEF abstract
  <1>5. Grouped'
    BY <1>1, NoGroup DEF Grouped
  <1>6. AtMark'
    BY <1>2, <1>4 DEF RInv, AtMark
  <1>7. Aimed'
    BY <1>1, <1>4 DEF Aimed, TentativeActive
  <1> QED
    BY <1>3, <1>5, <1>6, <1>7 DEF RInv

\* A step through the history shows nothing until the last.
LEMMA MovedStutters ==
    ASSUME RInv, IInv', op # NoOp,
           UNCHANGED <<actions, undoSequenceDepth, savePoint, tentativePoint, op,
                       texts, groupStart>>
    PROVE  RInv' /\ UNCHANGED abstract
  <1>1. at' = at
    BY DEF at, Idle
  <1>2. UNCHANGED abstract
    <2>1. IInv
      BY DEF RInv
    <2> QED
      BY <1>1, <2>1, Stutters
  <1>3. Marks' = Marks
    BY <1>2 DEF abstract
  <1>4. Grouped'
    BY NoGroup DEF Grouped
  <1>5. AtMark'
    BY <1>1, <1>3 DEF RInv, AtMark
  <1>6. Aimed'
    BY <1>3 DEF RInv, Aimed, TentativeActive
  <1> QED
    BY <1>2, <1>4, <1>5, <1>6 DEF RInv

\* Undo leads to the mark before.
LEMMA UndoStutters ==
    ASSUME RInv, IInv', Undo
    PROVE  RInv' /\ UNCHANGED abstract
  <1> DEFINE c == currentAction
             b == UndoTarget
  <1>1. /\ c \in Nat /\ c > 0 /\ Len(actions) \in Nat /\ c <= Len(actions)
        /\ Marks \subseteq 0..Len(actions)
    BY MarkFacts DEF Undo, CanUndo
  <1>2. b \in 0..(c - 1) /\ (b = 0 \/ Ends(b)) /\ \A i \in (b + 1)..(c - 1) : ~Ends(i)
    BY <1>1, UndoTargetBefore
  <1>3. Idle /\ undoSequenceDepth = 0 /\ Starts("undo", b, <<>>)
    BY DEF Undo
  <1> HIDE DEF b
  <1>4. b \in Marks /\ b < c
    BY <1>1, <1>2 DEF Marks
  <1>5. ASSUME NEW m \in Marks, b < m, m < c
        PROVE  FALSE
    <2>1. m \in 0..Len(actions)
      BY <1>1
    <2>2. m \in (b + 1)..(c - 1) /\ m # 0 /\ m # Len(actions)
      BY <1>1, <1>2, <1>5, <2>1
    <2>3. Ends(m)
      BY <2>2 DEF Marks
    <2> QED
      BY <1>2, <2>2, <2>3
  <1> QED
    BY <1>3, <1>4, <1>5, StartsStutters

\* Redo leads to the mark after.
LEMMA RedoStutters ==
    ASSUME RInv, IInv', Redo
    PROVE  RInv' /\ UNCHANGED abstract
  <1> DEFINE c == currentAction
             n == Len(actions)
             b == RedoTarget
  <1>1. c \in Nat /\ n \in Nat /\ c < n /\ Marks \subseteq 0..n
    BY MarkFacts DEF Redo, CanRedo
  <1>2. b \in (c + 1)..n /\ (b = n \/ Ends(b)) /\ \A i \in (c + 1)..(b - 1) : ~Ends(i)
    BY <1>1, RedoTargetAfter
  <1>3. Idle /\ undoSequenceDepth = 0 /\ Starts("redo", b, <<>>)
    BY DEF Redo
  <1> HIDE DEF b
  <1>4. b \in Marks /\ c < b
    BY <1>1, <1>2 DEF Marks
  <1>5. ASSUME NEW m \in Marks, c < m, m < b
        PROVE  FALSE
    <2>1. m \in 0..n
      BY <1>1
    <2>2. m \in (c + 1)..(b - 1) /\ m # 0 /\ m # n
      BY <1>1, <1>2, <1>5, <2>1
    <2>3. Ends(m)
      BY <2>2 DEF Marks
    <2> QED
      BY <1>2, <2>2, <2>3
  <1> QED
    BY <1>3, <1>4, <1>5, StartsStutters

\* At the end of undo or redo the window stands at the next mark.
LEMMA EndUndoRedoSimulates ==
    ASSUME RInv, IInv', EndUndoRedo
    PROVE  RInv' /\ (Promised!Undo \/ Promised!Redo)
  <1>1. /\ UNCHANGED <<actions, currentAction, undoSequenceDepth, savePoint, tentativePoint,
                       texts, groupStart>>
        /\ op' = NoOp /\ op.kind \in {"undo", "redo"} /\ currentAction = op.target
    BY DEF EndUndoRedo, history, hist
  <1>2. op # NoOp /\ at = op.from /\ at' = op.target
    BY <1>1 DEF NoOp, at, Idle
  <1>3. groupStart = None /\ undoSequenceDepth = 0
    BY <1>2, NoGroup
  <1>4. Marks' = Marks /\ ReachableSave' = ReachableSave
    BY <1>1 DEF Marks, Ends, ReachableSave
  <1>5. ShownText' = texts[at' + 1]
    <2>1. ShownText' = texts'[at' + 1]
      BY DEF IInv, Shape, ShownText
    <2> QED
      BY <1>1, <2>1
  <1>6. Promised!Undo \/ Promised!Redo
    <2>1. CASE op.kind = "undo"
      <3>1. /\ at' \in Marks /\ at' < at
            /\ \A m \in Marks : ~(at' < m /\ m < at)
        BY <1>2, <2>1 DEF RInv, Aimed
      <3> QED
        BY <1>1, <1>3, <1>4, <1>5, <3>1, Zenon DEF Promised!Undo
    <2>2. CASE op.kind = "redo"
      <3>1. /\ at' \in Marks /\ at < at'
            /\ \A m \in Marks : ~(at < m /\ m < at')
        BY <1>2, <2>2 DEF RInv, Aimed
      <3> QED
        BY <1>1, <1>3, <1>4, <1>5, <3>1, Zenon DEF Promised!Redo
    <2> QED
      BY <1>1, <2>1, <2>2
  <1>7. Grouped'
    BY <1>1, <1>3 DEF Grouped
  <1>8. AtMark'
    BY <1>1, <1>2, <1>4 DEF RInv, Aimed, AtMark
  <1>9. Aimed'
    BY <1>1 DEF Aimed, NoOp
  <1> QED
    BY <1>6, <1>7, <1>8, <1>9 DEF RInv

\* The end of a tentative undo takes the composition back and cuts the row.
LEMMA EndTentativeUndoSimulates ==
    ASSUME RInv, IInv', EndTentativeUndo
    PROVE  RInv' /\ Promised!Cancel
  <1> DEFINE c == currentAction
  <1>1. /\ op.kind \in {"tentative", "compose", "result"} /\ TentativeActive /\ c = op.target
        /\ tentativePoint' = None
        /\ actions' = SubSeq(actions, 1, c)
        /\ texts' = SubSeq(texts, 1, c + 1)
        /\ UNCHANGED <<currentAction, undoSequenceDepth, savePoint, substance, groupStart>>
        /\ op' = IF op.kind = "tentative" THEN NoOp
                 ELSE [op EXCEPT !.kind = IF @ = "result" THEN "insert" ELSE @,
                                 !.from = currentAction]
    BY DEF EndTentativeUndo, TentativeCommit
  <1>2. /\ c \in Nat /\ Len(actions) \in Nat /\ c <= Len(actions)
        /\ Marks \subseteq 0..Len(actions) /\ at \in 0..Len(actions)
        /\ savePoint \in Nat \cup {None} /\ tentativePoint \in Nat \cup {None}
    BY MarkFacts
  <1>3. op # NoOp /\ at = op.from
    BY <1>1 DEF NoOp, at, Idle
  <1>4. groupStart = None /\ undoSequenceDepth = 0
    BY <1>3, NoGroup
  <1>5. c = IF tentativePoint < at THEN tentativePoint ELSE at
    BY <1>1, <1>3 DEF RInv, Aimed
  <1>6. op'.kind \in {"none", "compose", "insert"} /\ at' = c
    <2>1. CASE op.kind = "tentative"
      BY <1>1, <2>1 DEF at, Idle, NoOp
    <2>2. CASE op.kind \in {"compose", "result"}
      <3>1. op' = [op EXCEPT !.kind = IF @ = "result" THEN "insert" ELSE @,
                             !.from = currentAction]
        BY <1>1, <2>2
      <3>2. op'.kind \in {"compose", "insert"} /\ op'.from = c
        BY <2>2, <3>1 DEF RInv, IInv, Underway
      <3> QED
        BY <1>1, <3>2 DEF at, Idle, NoOp
    <2> QED
      BY <1>1, <2>1, <2>2
  <1>7. Len(actions') = c /\ \A i \in 1..c : actions'[i] = actions[i]
    <2>1. actions \in Seq(Action) /\ c \in 0..Len(actions)
      BY <1>2 DEF RInv, IInv, Shape
    <2> QED
      BY <1>1, <2>1, FirstPart
  <1>8. Marks' = {m \in Marks : m < at'} \cup {at'}
    <2>1. Marks' = {0, c} \cup {b \in 1..c : ~actions'[b].mayCoalesce}
      BY <1>7 DEF Marks, Ends
    <2>2. ASSUME NEW m \in 0..c
          PROVE  m \in Marks' <=> m \in {m1 \in Marks : m1 < c} \cup {c}
      <3>1. CASE m \in {0, c}
        <4>1. 0 \in Marks
          BY DEF Marks
        <4> QED
          BY <1>2, <2>1, <3>1, <4>1
      <3>2. CASE m \notin {0, c}
        <4>1. m \in 1..c /\ m < c /\ m \in 1..Len(actions) /\ m # Len(actions) /\ m # 0
          BY <1>2, <3>2
        <4>2. m \in Marks' <=> Ends(m)
          BY <1>7, <2>1, <3>2, <4>1 DEF Ends
        <4>3. m \in Marks <=> Ends(m)
          BY <4>1 DEF Marks
        <4> QED
          BY <3>2, <4>1, <4>2, <4>3
      <3> QED
        BY <3>1, <3>2
    <2>3. Marks' \subseteq 0..c
      BY <1>2, <2>1
    <2>4. ASSUME NEW m \in {m1 \in Marks : m1 < c} \cup {c}
          PROVE  m \in 0..c
      <3>1. m = c \/ (m \in Marks /\ m < c)
        OBVIOUS
      <3>2. m = c \/ (m \in 0..Len(actions) /\ m < c)
        BY <1>2, <3>1
      <3> QED
        BY <1>2, <3>2
    <2>5. Marks' = {m1 \in Marks : m1 < c} \cup {c}
      BY <2>2, <2>3, <2>4
    <2> QED
      BY <1>6, <2>5
  <1>9. ReachableSave' = IF ReachableSave > at' THEN None ELSE ReachableSave
    BY <1>1, <1>2, <1>6, <1>7 DEF ReachableSave, None
  <1>10. ShownText' = texts[at' + 1]
    <2>1. ShownText' = substance /\ substance = texts[c + 1]
      BY <1>1, <1>6 DEF ShownText, RInv, IInv, Shape
    <2> QED
      BY <1>6, <2>1
  <1>11. Promised!Cancel
    <2>1. tentativePoint # None
      BY <1>1, <1>2 DEF TentativeActive, None
    <2>2. /\ texts' = SubSeq(texts, 1, at' + 1)
          /\ at' = IF tentativePoint < at THEN tentativePoint ELSE at
      BY <1>1, <1>5, <1>6
    <2> QED
      BY <1>1, <1>8, <1>9, <1>10, <2>1, <2>2, Zenon DEF Promised!Cancel
  <1>12. Grouped'
    BY <1>1, <1>4 DEF Grouped
  <1>13. AtMark'
    BY <1>8 DEF AtMark
  <1>14. Aimed'
    BY <1>1, <1>6 DEF Aimed, TentativeActive, None
  <1> QED
    BY <1>11, <1>12, <1>13, <1>14 DEF RInv

\* A composition begins where the window stands.
LEMMA TentativeStartSimulates ==
    ASSUME RInv, IInv', TentativeStart
    PROVE  RInv' /\ Promised!Compose
  <1>1. /\ op.kind = "compose" /\ ~TentativeActive
        /\ tentativePoint' = currentAction
        /\ op' = [op EXCEPT !.kind = "insert"]
        /\ UNCHANGED <<actions, currentAction, undoSequenceDepth, savePoint, substance,
                       texts, groupStart>>
    BY DEF TentativeStart, hist
  <1>2. /\ op'.kind = "insert" /\ op'.from = op.from /\ op.from = currentAction
    BY <1>1 DEF RInv, IInv, Underway
  <1>3. at = currentAction /\ at' = currentAction
    BY <1>1, <1>2 DEF at, Idle, NoOp
  <1>4. /\ Marks' = Marks /\ ReachableSave' = ReachableSave /\ ShownText' = ShownText
    BY <1>1, <1>3 DEF Marks, Ends, ReachableSave, ShownText
  <1>5. tentativePoint = None
    BY <1>1, MarkFacts DEF TentativeActive, None
  <1>6. Promised!Compose
    BY <1>1, <1>3, <1>4, <1>5 DEF Promised!Compose
  <1>7. Grouped'
    <2>1. op # NoOp
      BY <1>1 DEF NoOp
    <2> QED
      BY <1>1, <2>1, NoGroup DEF Grouped
  <1>8. AtMark'
    BY <1>3, <1>4 DEF RInv, AtMark
  <1>9. Aimed'
    BY <1>2 DEF Aimed
  <1> QED
    BY <1>6, <1>7, <1>8, <1>9 DEF RInv

-----------------------------------------------------------------------------
(* The other operations. *)

\* The save point moves to where the window stands.
LEMMA SetSavePointSimulates ==
    ASSUME RInv, IInv', SetSavePoint
    PROVE  RInv' /\ Promised!Save
  <1>1. /\ op = NoOp /\ op' = NoOp /\ undoSequenceDepth = 0 /\ savePoint' = currentAction
        /\ UNCHANGED <<actions, currentAction, undoSequenceDepth, tentativePoint, substance,
                       texts, groupStart>>
    BY DEF SetSavePoint, Idle
  <1>2. at = currentAction /\ at' = currentAction
    BY <1>1 DEF at, Idle
  <1>3. currentAction \in Nat /\ Len(actions) \in Nat /\ currentAction <= Len(actions)
    BY MarkFacts
  <1>4. /\ Marks' = Marks /\ ReachableSave' = at /\ ShownText' = ShownText
    BY <1>1, <1>2, <1>3 DEF Marks, Ends, ReachableSave, ShownText
  <1>5. groupStart = None
    BY <1>1, NoGroup
  <1>6. Promised!Save
    BY <1>1, <1>2, <1>4, <1>5 DEF Promised!Save
  <1>7. Grouped'
    BY <1>1, <1>5 DEF Grouped
  <1>8. AtMark'
    BY <1>2, <1>4 DEF RInv, AtMark
  <1>9. Aimed'
    BY <1>1 DEF Aimed, NoOp
  <1> QED
    BY <1>6, <1>7, <1>8, <1>9 DEF RInv

\* A loaded text stands alone in the row.
LEMMA ReplacedSimulates ==
    ASSUME RInv, IInv', NEW s \in Str, Replaced(s), EmptyHistory,
           undoSequenceDepth = 0, op' = NoOp
    PROVE  RInv' /\ Promised!Load
  <1>1. /\ actions' = <<>> /\ currentAction' = 0 /\ undoSequenceDepth' = 0 /\ savePoint' = 0
        /\ tentativePoint' = None /\ texts' = <<s>> /\ substance' = s /\ groupStart' = None
    BY DEF Replaced, EmptyHistory
  <1>2. at' = 0
    BY <1>1 DEF at, Idle
  <1>3. Len(actions') = 0
    BY <1>1
  <1>4. /\ Marks' = {0} /\ ReachableSave' = 0 /\ ShownText' = s
    <2>1. Marks' = {0}
      BY <1>3 DEF Marks
    <2> QED
      BY <1>1, <1>2, <1>3, <2>1 DEF ReachableSave, ShownText
  <1>5. groupStart = None
    BY NoGroup
  <1>6. Promised!Load
    BY <1>1, <1>2, <1>4, <1>5 DEF Promised!Load, Str
  <1>7. Grouped'
    BY <1>1 DEF Grouped
  <1>8. AtMark'
    BY <1>2, <1>4 DEF AtMark
  <1>9. Aimed'
    BY DEF Aimed, NoOp
  <1> QED
    BY <1>6, <1>7, <1>8, <1>9 DEF RInv

\* What the marks and their ends become when the last action is closed.
LEMMA ClosedMarks ==
    ASSUME RInv, actions' = Closed(actions, currentAction)
    PROVE  /\ Len(actions') = Len(actions)
           /\ Marks' = Marks \cup {currentAction}
           /\ currentAction > 0 => ~actions'[currentAction].mayCoalesce
  <1> DEFINE c == currentAction
             n == Len(actions)
  <1>1. c \in Nat /\ n \in Nat /\ c <= n /\ actions \in Seq(Action)
    BY MarkFacts DEF RInv, IInv, Shape
  <1>2. CASE c = 0
    <2>1. actions' = actions
      BY <1>2 DEF Closed
    <2>2. Marks' = Marks /\ 0 \in Marks
      BY <2>1 DEF Marks, Ends
    <2> QED
      BY <1>2, <2>1, <2>2
  <1>3. CASE c # 0
    <2> DEFINE e == [actions[c] EXCEPT !.mayCoalesce = FALSE]
    <2>1. c \in 1..n /\ actions[c] \in Action
      BY <1>1, <1>3, ElementOfSeq
    <2>2. e \in Action /\ ~e.mayCoalesce
      BY <2>1 DEF Action
    <2>3. actions' = [actions EXCEPT ![c] = e]
      BY <1>3, <2>1 DEF Closed
    <2> HIDE DEF e
    <2>4. /\ Len([actions EXCEPT ![c] = e]) = n
          /\ \A i \in 1..n : [actions EXCEPT ![c] = e][i] = IF i = c THEN e ELSE actions[i]
      BY <1>1, <2>1, <2>2, ExceptSeq
    <2>5. /\ Len(actions') = n /\ actions'[c] = e
          /\ \A i \in 1..n : i # c => actions'[i] = actions[i]
      BY <2>1, <2>3, <2>4
    <2>6. Marks' = {0, n} \cup {b \in 1..n : ~actions'[b].mayCoalesce}
      BY <2>5 DEF Marks, Ends
    <2>7. \A m : m \in Marks <=> m \in {0, n} \/ (m \in 1..n /\ ~actions[m].mayCoalesce)
      BY DEF Marks, Ends
    <2>8. \A m : m \in Marks' <=> m \in Marks \/ m = c
      BY <2>1, <2>2, <2>5, <2>6, <2>7
    <2> QED
      BY <2>2, <2>5, <2>8
  <1> QED
    BY <1>2, <1>3

\* The beginning of a compound operation is a mark; one within another is none.
LEMMA BeginSimulates ==
    ASSUME RInv, IInv', Begin
    PROVE  RInv' /\ (Promised!Open \/ UNCHANGED abstract)
  <1>1. /\ op = NoOp /\ op' = NoOp
        /\ actions' = IF undoSequenceDepth = 0 THEN Closed(actions, currentAction) ELSE actions
        /\ undoSequenceDepth' = undoSequenceDepth + 1
        /\ groupStart' = IF undoSequenceDepth = 0 THEN currentAction ELSE groupStart
        /\ UNCHANGED <<currentAction, savePoint, tentativePoint, substance, texts>>
    BY DEF Begin, BeginUndoAction, Idle
  <1>2. at = currentAction /\ at' = currentAction
    BY <1>1 DEF at, Idle
  <1>3. undoSequenceDepth \in Nat /\ currentAction \in Nat
    BY MarkFacts DEF RInv, Grouped
  <1>4. Aimed'
    BY <1>1 DEF Aimed, NoOp
  <1>5. CASE undoSequenceDepth = 0
    <2>1. /\ Len(actions') = Len(actions) /\ Marks' = Marks \cup {currentAction}
          /\ currentAction > 0 => ~actions'[currentAction].mayCoalesce
      BY <1>1, <1>5, ClosedMarks
    <2>2. ReachableSave' = ReachableSave /\ ShownText' = ShownText
      BY <1>1, <1>2, <2>1 DEF ReachableSave, ShownText
    <2>3. groupStart = None
      BY <1>5, NoGroup
    <2>4. Promised!Open
      BY <1>1, <1>2, <1>5, <2>1, <2>2, <2>3 DEF Promised!Open
    <2>5. AtMark'
      BY <1>2, <2>1 DEF AtMark
    <2>6. Grouped'
      <3>1. undoSequenceDepth' = 1 /\ groupStart' = currentAction
        BY <1>1, <1>5
      <3>2. /\ currentAction \in 0..currentAction
            /\ ~(currentAction > currentAction)
            /\ (currentAction + 1)..currentAction = {}
        BY <1>3
      <3> QED
        BY <1>1, <2>1, <3>1, <3>2 DEF Grouped, Ends
    <2> QED
      BY <1>4, <2>4, <2>5, <2>6 DEF RInv
  <1>6. CASE undoSequenceDepth > 0
    <2>1. actions' = actions /\ groupStart' = groupStart /\ undoSequenceDepth' > 0
      BY <1>1, <1>3, <1>6
    <2>2. UNCHANGED abstract
      <3>1. IInv
        BY DEF RInv
      <3> QED
        BY <1>1, <1>2, <2>1, <3>1, Stutters
    <2>3. AtMark'
      BY <1>2, <2>2 DEF abstract, RInv, AtMark
    <2>4. Grouped'
      BY <1>1, <1>3, <1>6, <2>1 DEF RInv, Grouped, Ends
    <2> QED
      BY <1>4, <2>2, <2>3, <2>4 DEF RInv
  <1> QED
    BY <1>3, <1>5, <1>6

\* So is the end of a compound operation.
LEMMA EndSimulates ==
    ASSUME RInv, IInv', End
    PROVE  RInv' /\ (Promised!Close \/ UNCHANGED abstract)
  <1>1. /\ op = NoOp /\ op' = NoOp /\ undoSequenceDepth > 0
        /\ actions' = IF undoSequenceDepth = 1 THEN Closed(actions, currentAction) ELSE actions
        /\ undoSequenceDepth' = undoSequenceDepth - 1
        /\ groupStart' = IF undoSequenceDepth = 1 THEN None ELSE groupStart
        /\ UNCHANGED <<currentAction, savePoint, tentativePoint, substance, texts>>
    BY DEF End, EndUndoAction, Idle
  <1>2. at = currentAction /\ at' = currentAction
    BY <1>1 DEF at, Idle
  <1>3. undoSequenceDepth \in Nat /\ currentAction \in Nat /\ groupStart \in 0..currentAction
    BY <1>1, MarkFacts DEF RInv, Grouped
  <1>4. Aimed'
    BY <1>1 DEF Aimed, NoOp
  <1>5. CASE undoSequenceDepth = 1
    <2>1. Len(actions') = Len(actions) /\ Marks' = Marks \cup {currentAction}
      BY <1>1, <1>5, ClosedMarks
    <2>2. ReachableSave' = ReachableSave /\ ShownText' = ShownText
      BY <1>1, <1>2, <2>1 DEF ReachableSave, ShownText
    <2>3. groupStart # None
      BY <1>3 DEF None
    <2>4. Promised!Close
      BY <1>1, <1>2, <1>5, <2>1, <2>2, <2>3 DEF Promised!Close
    <2>5. AtMark'
      BY <1>2, <2>1 DEF AtMark
    <2>6. Grouped'
      BY <1>1, <1>5 DEF Grouped
    <2> QED
      BY <1>4, <2>4, <2>5, <2>6 DEF RInv
  <1>6. CASE undoSequenceDepth > 1
    <2>1. actions' = actions /\ groupStart' = groupStart /\ undoSequenceDepth' > 0
      BY <1>1, <1>3, <1>6
    <2>2. UNCHANGED abstract
      <3>1. IInv
        BY DEF RInv
      <3> QED
        BY <1>1, <1>2, <2>1, <3>1, Stutters
    <2>3. AtMark'
      BY <1>2, <2>2 DEF abstract, RInv, AtMark
    <2>4. Grouped'
      BY <1>1, <1>3, <1>6, <2>1 DEF RInv, Grouped, Ends
    <2> QED
      BY <1>4, <2>2, <2>3, <2>4 DEF RInv
  <1> QED
    BY <1>1, <1>3, <1>5, <1>6

-----------------------------------------------------------------------------
(* The refinement. *)

\* The empty text stands alone in the row.
LEMMA InitSimulates == Init => RInv /\ Promised!Init
  <1> SUFFICES ASSUME Init
               PROVE  RInv /\ Promised!Init
    OBVIOUS
  <1>1. /\ actions = <<>> /\ currentAction = 0 /\ undoSequenceDepth = 0 /\ savePoint = 0
        /\ tentativePoint = None /\ texts = <<<<>>>> /\ substance = <<>>
        /\ groupStart = None /\ op = NoOp
    BY DEF Init, HistoryInit
  <1>2. at = 0 /\ Len(actions) = 0
    BY <1>1 DEF at, Idle
  <1>3. Marks = {0}
    BY <1>2 DEF Marks
  <1>4. ReachableSave = 0 /\ ShownText = <<>>
    BY <1>1, <1>2 DEF ReachableSave, ShownText
  <1>5. <<>> \in Seq(Char)
    BY EmptySeq
  <1>6. Promised!Init
    BY <1>1, <1>2, <1>3, <1>4, <1>5 DEF Promised!Init
  <1>7. Grouped /\ AtMark /\ Aimed
    BY <1>1, <1>2, <1>3 DEF Grouped, AtMark, Aimed, NoOp
  <1> QED
    BY <1>6, <1>7, Initially DEF RInv

\* Every step of the control is a step of the row of texts, or shows nothing.
LEMMA StepSimulates ==
    ASSUME RInv, [Next]_vars
    PROVE  RInv' /\ (Promised!Next \/ UNCHANGED abstract)
  <1>0. IInv /\ IInv'
    BY StepKeeps DEF RInv
  <1>s. /\ Shape /\ Underway
        /\ substance \in Str /\ Len(substance) \in Nat
    BY <1>0, SubstanceIsText DEF IInv
  <1>1. CASE Insert
    <2>1. PICK position \in 0..Len(substance), s \in Strings : InsertString(position, s)
      BY <1>1 DEF Insert
    <2>2. op' = NoOp /\ at = currentAction
      BY <1>1 DEF Insert, Idle, at
    <2>3. AppendAction("insert", position, s) /\ Recorded(substance')
      BY <2>1 DEF InsertString
    <2>4. position \in Nat /\ s \in Str
      BY <1>s, StringsAreTexts
    <2> QED
      BY <1>0, <2>2, <2>3, <2>4, EditSimulates DEF Promised!Next
  <1>2. CASE Delete
    <2>1. PICK position \in 0..(Len(substance) - 1) :
            \E length \in 1..(Len(substance) - position) : DeleteChars(position, length)
      BY <1>2 DEF Delete
    <2>2. PICK length \in 1..(Len(substance) - position) : DeleteChars(position, length)
      BY <2>1
    <2>3. op' = NoOp /\ at = currentAction
      BY <1>2 DEF Delete, Idle, at
    <2> DEFINE data == SubSeq(substance, position + 1, position + length)
    <2>4. AppendAction("remove", position, data) /\ Recorded(substance')
      BY <2>2 DEF DeleteChars
    <2>5. position \in Nat /\ data \in Str
      <3>1. /\ length \in Nat /\ position \in Nat /\ position \in 0..Len(substance)
            /\ position + length <= Len(substance)
        BY <1>s
      <3>2. data \in Str
        BY <1>s, <3>1, InsertDeleted, Zenon
      <3> QED
        BY <3>1, <3>2
    <2> HIDE DEF data
    <2> QED
      BY <1>0, <2>3, <2>4, <2>5, EditSimulates DEF Promised!Next
  <1>3. CASE Begin
    BY <1>0, <1>3, BeginSimulates DEF Promised!Next
  <1>4. CASE End
    BY <1>0, <1>4, EndSimulates DEF Promised!Next
  <1>5. CASE Undo
    BY <1>0, <1>5, UndoStutters
  <1>6. CASE Redo
    BY <1>0, <1>6, RedoStutters
  <1>7. CASE Composition
    <2> DEFINE base == IF TentativeActive /\ tentativePoint < currentAction
                       THEN tentativePoint ELSE currentAction
    <2>1. PICK kind \in {"compose", "result"}, s \in Composed :
            IF kind = "compose" \/ TentativeActive
            THEN Starts(kind, base, s)
            ELSE Starts("insert", base, s)
      BY <1>7 DEF Composition
    <2>2. Idle /\ undoSequenceDepth = 0
      BY <1>7 DEF Composition
    <2>3. TentativeActive =>
            base = IF tentativePoint < currentAction THEN tentativePoint ELSE currentAction
      OBVIOUS
    <2> HIDE DEF base
    <2>4. CASE kind = "compose" \/ TentativeActive
      BY <1>0, <2>1, <2>2, <2>3, <2>4, StartsStutters
    <2>5. CASE ~(kind = "compose" \/ TentativeActive)
      BY <1>0, <2>1, <2>2, <2>5, StartsStutters
    <2> QED
      BY <2>4, <2>5
  <1>8. CASE EndComposition
    <2> DEFINE target == IF tentativePoint < currentAction THEN tentativePoint
                         ELSE currentAction
    <2>1. /\ Idle /\ undoSequenceDepth = 0
          /\ Starts("tentative", target, <<>>)
      BY <1>8 DEF EndComposition
    <2> QED
      BY <1>0, <2>1, StartsStutters
  <1>9. CASE PerformUndoStep
    <2>1. op # NoOp
      BY <1>9 DEF PerformUndoStep, NoOp
    <2>2. UNCHANGED <<actions, undoSequenceDepth, savePoint, tentativePoint, op,
                      texts, groupStart>>
      BY <1>9 DEF PerformUndoStep, CompletedUndoStep, hist
    <2> QED
      BY <1>0, <2>1, <2>2, MovedStutters
  <1>10. CASE PerformRedoStep
    <2>1. op # NoOp
      BY <1>10 DEF PerformRedoStep, NoOp
    <2>2. UNCHANGED <<actions, undoSequenceDepth, savePoint, tentativePoint, op,
                      texts, groupStart>>
      BY <1>10 DEF PerformRedoStep, CompletedRedoStep, hist
    <2> QED
      BY <1>0, <2>1, <2>2, MovedStutters
  <1>11. CASE EndUndoRedo
    BY <1>0, <1>11, EndUndoRedoSimulates DEF Promised!Next
  <1>12. CASE EndTentativeUndo
    BY <1>0, <1>12, EndTentativeUndoSimulates DEF Promised!Next
  <1>13. CASE TentativeStart
    BY <1>0, <1>13, TentativeStartSimulates DEF Promised!Next
  <1>14. CASE InsertCharacter
    <2>1. PICK position \in 0..Len(substance) : InsertString(position, op.next)
      BY <1>14 DEF InsertCharacter
    <2>2. op' = NoOp /\ op.kind = "insert"
      BY <1>14 DEF InsertCharacter
    <2>3. at = currentAction /\ op.next \in Str
      BY <1>s, <2>2 DEF Underway, at, Idle
    <2>4. AppendAction("insert", position, op.next) /\ Recorded(substance')
      BY <2>1 DEF InsertString
    <2>5. position \in Nat
      BY <1>s
    <2> QED
      BY <1>0, <2>2, <2>3, <2>4, <2>5, EditSimulates DEF Promised!Next
  <1>15. CASE SetSavePoint
    BY <1>0, <1>15, SetSavePointSimulates DEF Promised!Next
  <1>16. CASE EditSetNewText
    <2>1. PICK s \in Strings \cup {<<>>} : Replaced(s)
      BY <1>16 DEF EditSetNewText
    <2>2. op' = NoOp /\ undoSequenceDepth = 0 /\ EmptyHistory
      BY <1>16 DEF EditSetNewText, Idle
    <2>3. s \in Str
      BY StringsAreTexts
    <2> QED
      BY <1>0, <2>1, <2>2, <2>3, ReplacedSimulates DEF Promised!Next
  <1>17. CASE EditConvertText
    <2>1. PICK s \in {substance} \cup Strings : Replaced(s)
      BY <1>17 DEF EditConvertText
    <2>2. op' = NoOp /\ undoSequenceDepth = 0 /\ EmptyHistory
      BY <1>17 DEF EditConvertText, Idle
    <2>3. s \in Str
      BY <1>s, StringsAreTexts
    <2> QED
      BY <1>0, <2>1, <2>2, <2>3, ReplacedSimulates DEF Promised!Next
  <1>18. CASE UNCHANGED vars
    <2>1. UNCHANGED <<actions, currentAction, undoSequenceDepth, savePoint, tentativePoint,
                      op, texts, groupStart>>
      BY <1>18 DEF vars, history, hist
    <2>2. at' = at
      BY <2>1 DEF at, Idle
    <2>3. UNCHANGED abstract
      BY <1>0, <2>1, <2>2, Stutters
    <2>4. Marks' = Marks
      BY <2>3 DEF abstract
    <2>5. Grouped' /\ AtMark'
      BY <2>1, <2>2, <2>4 DEF RInv, Grouped, AtMark, Ends
    <2>6. Aimed'
      BY <2>1, <2>4 DEF RInv, Aimed, TentativeActive
    <2> QED
      BY <1>0, <2>3, <2>5, <2>6 DEF RInv
  <1> QED
    BY <1>1, <1>2, <1>3, <1>4, <1>5, <1>6, <1>7, <1>8, <1>9, <1>10, <1>11, <1>12, <1>13,
       <1>14, <1>15, <1>16, <1>17, <1>18 DEF Next

\* CellBuffer implements TextHistory: the window sees a row of texts in which
\* undo, redo and compositions lead from mark to mark through exactly the texts
\* that were there, whatever the actions, scraps and steps underneath.
THEOREM Implements == Spec => KeepsTextHistory
  <1>1. Init => RInv /\ Promised!Init
    BY InitSimulates
  <1>2. RInv /\ [Next]_vars =>
          RInv' /\ [Promised!Next]_<<ShownText, texts, at, Marks, ReachableSave,
                                     tentativePoint, groupStart>>
    BY StepSimulates DEF abstract
  <1> QED
    BY <1>1, <1>2, PTL DEF Spec, KeepsTextHistory, Promised!Spec
=============================================================================
