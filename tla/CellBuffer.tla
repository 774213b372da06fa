------------------------------ MODULE CellBuffer ------------------------------
(***************************************************************************)
(* The text of the editor control: Scintilla's CellBuffer and the part of  *)
(* its Document that changes it (src/scintilla/src/CellBuffer.cxx and      *)
(* Document.cxx), composed with UndoHistory and with a Partitioning of     *)
(* line starts, as src/src/TE.c and Edit.c use them through messages.      *)
(*                                                                         *)
(* Edits, undo and redo report to the window whether the text is at the    *)
(* save point: bModified is what the window makes of these reports.        *)
(* Undo and redo are one step per action of the history, because the       *)
(* control notifies the window between the steps; op says which of them    *)
(* runs, and like enteredModification it shuts every other change out.     *)
(***************************************************************************)
EXTENDS UndoHistory, Partitioning, FiniteSets

CONSTANTS
    CR, LF,         \* the two line end characters
    Strings,        \* the strings inserted, and loaded
    Composed,       \* the strings an input method composes
    MaxLength,      \* bound on the text
    MaxActions,     \* bound on the history, together with the text it began with
    MaxDepth        \* bound on nested BeginUndoAction

Char == UNION {{s[i] : i \in DOMAIN s} : s \in Strings}

ASSUME CellBufferAssumption ==
    /\ CR \in Nat \ {0} /\ LF \in Nat \ {0} /\ CR # LF
    /\ Composed \subseteq Strings
    /\ \A s \in Strings : s \in Seq(Nat \ {0}) /\ s # <<>>
    /\ MaxLength \in Nat /\ MaxActions \in Nat /\ MaxDepth \in Nat

VARIABLES
    substance,      \* the text
    starts,         \* the line starts
    bModified,      \* src/src/TE.c's flag, set by the notifications alone
    op,             \* the operation on the history in progress
    texts,          \* history: the text at each index of the history
    scrapAt,        \* history: the scrap position at each index
    groupStart,     \* history: where the open compound operation began
    savedText,      \* history: the text at the save point
    recoded         \* history: EditConvertText emptied the undo history since

hist == <<texts, scrapAt, groupStart, savedText, recoded>>
vars == <<history, substance, starts, bModified, op, hist>>

NoOp == [kind |-> "none", target |-> 0, from |-> 0, next |-> <<>>]

TypeOK ==
    /\ actions \in Seq(Action)
    /\ currentAction \in 0..Len(actions)
    /\ undoSequenceDepth \in Nat
    /\ savePoint \in Nat \cup {None}
    /\ tentativePoint \in Nat \cup {None}
    /\ scraps \in Seq(Char)
    /\ scrapCurrent \in 0..Len(scraps)
    /\ substance \in Seq(Char)
    /\ WellFormed(starts)
    /\ bModified \in BOOLEAN
    /\ op \in [kind: {"none", "undo", "redo", "tentative", "compose", "result", "insert"},
               target: Nat, from: Nat, next: Composed \cup {<<>>}]
    /\ texts \in Seq(Seq(Char))
    /\ scrapAt \in Seq(Nat)
    /\ groupStart \in Nat \cup {None}
    /\ savedText \in Seq(Char)
    /\ recoded \in BOOLEAN

(***************************************************************************)
(* The text and its lines.  Positions count from 0; outside the text the   *)
(* control reads 0.                                                        *)
(***************************************************************************)

ValueAt(text, position) ==
    IF position \in 0..(Len(text) - 1) THEN text[position + 1] ELSE 0

Inserted(text, position, s) ==
    SubSeq(text, 1, position) \o s \o SubSeq(text, position + 1, Len(text))

Deleted(text, position, length) ==
    SubSeq(text, 1, position) \o SubSeq(text, position + length + 1, Len(text))

\* The offsets in s after its line ends; first is the offset of the first
\* character looked at.  CR LF is one line end.
LineEndsIn(s, first) ==
    {k \in (first + 1)..Len(s) :
        s[k] = LF \/ (s[k] = CR /\ (k = Len(s) \/ s[k + 1] # LF))}

\* The elements of a finite set of numbers in order.
SortedAscending(S) ==
    CHOOSE f \in [1..Cardinality(S) -> S] :
        \A i, j \in 1..Cardinality(S) : i < j => f[i] < f[j]

\* Mutant: a CR at the end of the insertion is not joined to the LF after it.
InsertedStartsNoJoin(text, position, s) ==
    LET chPrev == ValueAt(text, position - 1)
        line == PartitionFromPosition(starts, position)
        moved == InsertText(starts, line, Len(s))
        splitsCRLF == chPrev = CR /\ ValueAt(text, position) = LF
        lineInsert == IF splitsCRLF THEN line + 2 ELSE line + 1
        split == IF splitsCRLF THEN InsertPartition(moved, line + 1, position) ELSE moved
        completes == chPrev = CR /\ s[1] = LF
        patched == IF completes
                   THEN SetPartitionStartPosition(split, lineInsert - 1, position + 1)
                   ELSE split
        new == SortedAscending(LineEndsIn(s, IF completes THEN 1 ELSE 0))
    IN  IF new = <<>> THEN patched
        ELSE InsertPartitions(patched, lineInsert,
                              [i \in 1..Len(new) |-> position + new[i]], Len(new))

\* The line starts after s was inserted into text.
InsertedStarts(text, position, s) ==
    LET chPrev == ValueAt(text, position - 1)
        chAfter == ValueAt(text, position)
        line == PartitionFromPosition(starts, position)
        moved == InsertText(starts, line, Len(s))
        splitsCRLF == chPrev = CR /\ chAfter = LF
        lineInsert == IF splitsCRLF THEN line + 2 ELSE line + 1
        split == IF splitsCRLF THEN InsertPartition(moved, line + 1, position) ELSE moved
        \* A line end before the insertion that its first character completes.
        completes == chPrev = CR /\ s[1] = LF
        patched == IF completes
                   THEN SetPartitionStartPosition(split, lineInsert - 1, position + 1)
                   ELSE split
        new == SortedAscending(LineEndsIn(s, IF completes THEN 1 ELSE 0))
        positions == [i \in 1..Len(new) |-> position + new[i]]
        filled == IF new = <<>> THEN patched
                  ELSE InsertPartitions(patched, lineInsert, positions, Len(new))
        joinsCRLF == chAfter = LF /\ s[Len(s)] = CR
    IN  IF joinsCRLF THEN RemovePartition(filled, lineInsert + Len(new) - 1) ELSE filled

\* Removing a partition count times.
RemovePartitions(P, partition, count) ==
    LET removed[n \in 0..count] ==
          IF n = 0 THEN P ELSE RemovePartition(removed[n - 1], partition)
    IN  removed[count]

\* The line starts before length characters of text are deleted.
DeletedStarts(text, position, length) ==
    LET chBefore == ValueAt(text, position - 1)
        line == PartitionFromPosition(starts, position)
        moved == InsertText(starts, line, -length)
        \* The line end before the deletion loses its LF and stays a line end.
        splitsCRLF == chBefore = CR /\ ValueAt(text, position) = LF
        lineRemove == IF splitsCRLF THEN line + 2 ELSE line + 1
        split == IF splitsCRLF THEN SetPartitionStartPosition(moved, line + 1, position)
                 ELSE moved
        gone == LineEndsIn(text, IF splitsCRLF THEN position + 1 ELSE position)
                  \cap 1..(position + length)
        removed == RemovePartitions(split, lineRemove, Cardinality(gone))
        joinsCRLF == chBefore = CR /\ ValueAt(text, position + length) = LF
    IN  IF position = 0 /\ length = Len(text) THEN Fresh
        ELSE IF joinsCRLF
        THEN SetPartitionStartPosition(RemovePartition(removed, lineRemove - 1),
                                       lineRemove - 1, position + 1)
        ELSE removed

BasicInsertString(position, s) ==
    /\ substance' = Inserted(substance, position, s)
    /\ starts' = InsertedStarts(substance, position, s)

BasicDeleteChars(position, length) ==
    /\ substance' = Deleted(substance, position, length)
    /\ starts' = DeletedStarts(substance, position, length)

(***************************************************************************)
(* Edits                                                                   *)
(***************************************************************************)

Init ==
    /\ HistoryInit
    /\ substance = <<>>
    /\ starts = Fresh
    /\ bModified = FALSE
    /\ op = NoOp
    /\ texts = <<<<>>>>
    /\ scrapAt = <<0>>
    /\ groupStart = None
    /\ savedText = <<>>
    /\ recoded = FALSE

Idle == op = NoOp
IsSavePoint == savePoint = currentAction

\* The bound on the history: the longer its first text, the fewer actions.
HasRoom(index) == index + Len(texts[1]) < MaxActions

\* The history variables after an edit that made text.
Recorded(text) ==
    /\ texts' = Append(SubSeq(texts, 1, currentAction + 1), text)
    /\ scrapAt' = Append(SubSeq(scrapAt, 1, currentAction + 1), scrapCurrent')
    /\ savedText' = IF savePoint' = None THEN <<>> ELSE savedText
    /\ UNCHANGED <<groupStart, recoded>>

\* Document::InsertString with CellBuffer::InsertString.
InsertString(position, s) ==
    /\ HasRoom(currentAction)
    /\ Len(substance) + Len(s) <= MaxLength
    /\ AppendAction("insert", position, s)
    /\ BasicInsertString(position, s)
    /\ bModified' = (IsSavePoint \/ bModified)
    /\ Recorded(substance')

\* Document::DeleteChars with CellBuffer::DeleteChars.
DeleteChars(position, length) ==
    /\ HasRoom(currentAction)
    /\ AppendAction("remove", position, SubSeq(substance, position + 1, position + length))
    /\ BasicDeleteChars(position, length)
    /\ bModified' = (IsSavePoint \/ bModified)
    /\ Recorded(substance')

Insert ==
    /\ Idle
    /\ \E position \in 0..Len(substance), s \in Strings : InsertString(position, s)
    /\ UNCHANGED op

Delete ==
    /\ Idle
    /\ \E position \in 0..(Len(substance) - 1) :
         \E length \in 1..(Len(substance) - position) : DeleteChars(position, length)
    /\ UNCHANGED op

\* SCI_BEGINUNDOACTION, UndoGroup.  Compound operations are made of edits
\* alone: no command undoes, saves or takes input inside one.
Begin ==
    /\ Idle
    /\ undoSequenceDepth < MaxDepth
    /\ BeginUndoAction
    /\ groupStart' = IF undoSequenceDepth = 0 THEN currentAction ELSE groupStart
    /\ UNCHANGED <<substance, starts, bModified, op, texts, scrapAt,
                   savedText, recoded>>

End ==
    /\ Idle
    /\ undoSequenceDepth > 0
    /\ EndUndoAction
    /\ groupStart' = IF undoSequenceDepth = 1 THEN None ELSE groupStart
    /\ UNCHANGED <<substance, starts, bModified, op, texts, scrapAt,
                   savedText, recoded>>

(***************************************************************************)
(* Undo, redo and input composition                                        *)
(***************************************************************************)

Starts(kind, target, next) ==
    /\ op' = [kind |-> kind, target |-> target, from |-> currentAction, next |-> next]
    /\ UNCHANGED <<history, substance, starts, bModified, hist>>

Undo ==
    /\ Idle /\ undoSequenceDepth = 0
    /\ CanUndo
    /\ Starts("undo", UndoTarget, <<>>)

Redo ==
    /\ Idle /\ undoSequenceDepth = 0
    /\ CanRedo
    /\ Starts("redo", RedoTarget, <<>>)

\* ScintillaWin::HandleCompositionInline: a composition in progress is undone,
\* then its result, or its new state s as another one, is inserted.
Composition ==
    /\ Idle /\ undoSequenceDepth = 0
    /\ \E kind \in {"compose", "result"}, s \in Composed :
         LET base == IF TentativeActive /\ tentativePoint < currentAction
                     THEN tentativePoint ELSE currentAction
         IN  /\ HasRoom(base)
             /\ Len(texts[base + 1]) + Len(s) <= MaxLength
             /\ IF kind = "compose" \/ TentativeActive
                THEN Starts(kind, base, s)
                ELSE Starts("insert", base, s)

\* ScintillaWin::ImeEndComposition.
EndComposition ==
    /\ Idle /\ undoSequenceDepth = 0
    /\ TentativeActive
    /\ Starts("tentative", IF tentativePoint < currentAction THEN tentativePoint
                           ELSE currentAction, <<>>)

\* CellBuffer::PerformUndoStep.  The steps of a composition are none when the
\* user has undone beyond its beginning already.
PerformUndoStep ==
    /\ op.kind \in {"undo", "tentative", "compose", "result"}
    /\ currentAction > op.target
    /\ LET step == actions[currentAction]
       IN  IF step.at = "insert"
           THEN BasicDeleteChars(step.position, step.lenData)
           ELSE BasicInsertString(step.position, UndoData)
    /\ CompletedUndoStep
    /\ UNCHANGED <<bModified, op, hist>>

\* CellBuffer::PerformRedoStep.
PerformRedoStep ==
    /\ op.kind = "redo"
    /\ currentAction < op.target
    /\ LET step == actions[currentAction + 1]
       IN  IF step.at = "insert"
           THEN BasicInsertString(step.position, RedoData)
           ELSE BasicDeleteChars(step.position, step.lenData)
    /\ CompletedRedoStep
    /\ UNCHANGED <<bModified, op, hist>>

\* Mutant: only the arrival at the save point is reported.
NotifiedOfArrival ==
    bModified' = IF IsSavePoint THEN FALSE ELSE bModified

\* The end of Undo, Redo and TentativeUndo: the window learns of the save
\* point if passing over it changed anything.
Notified ==
    bModified' = IF (savePoint = op.from) # IsSavePoint THEN ~IsSavePoint ELSE bModified

EndUndoRedo ==
    /\ \/ op.kind = "undo" /\ currentAction = op.target
       \/ op.kind = "redo" /\ currentAction = op.target
    /\ Notified
    /\ op' = NoOp
    /\ UNCHANGED <<history, substance, starts, hist>>

\* The end of TentativeUndo, which drops the undone actions.
EndTentativeUndo ==
    /\ op.kind \in {"tentative", "compose", "result"}
    /\ TentativeActive
    /\ currentAction = op.target
    /\ Notified
    /\ TentativeCommit
    /\ texts' = SubSeq(texts, 1, currentAction + 1)
    /\ scrapAt' = SubSeq(scrapAt, 1, currentAction + 1)
    /\ op' = IF op.kind = "tentative" THEN NoOp
             ELSE [op EXCEPT !.kind = IF @ = "result" THEN "insert" ELSE @,
                             !.from = currentAction]
    /\ UNCHANGED <<substance, starts, groupStart, savedText, recoded>>

TentativeStart ==
    /\ op.kind = "compose"
    /\ ~TentativeActive
    /\ tentativePoint' = currentAction
    /\ op' = [op EXCEPT !.kind = "insert"]
    /\ UNCHANGED <<actions, currentAction, undoSequenceDepth, savePoint, scraps,
                   scrapCurrent, substance, starts, bModified, hist>>

\* InsertCharacter, with the composition's text.
InsertCharacter ==
    /\ op.kind = "insert"
    /\ \E position \in 0..Len(substance) : InsertString(position, op.next)
    /\ op' = NoOp

(***************************************************************************)
(* Saving and loading                                                      *)
(***************************************************************************)

\* SCI_SETSAVEPOINT: Document::SetSavePoint notifies the window every time.
SetSavePoint ==
    /\ Idle /\ undoSequenceDepth = 0
    /\ savePoint' = currentAction
    /\ bModified' = FALSE
    /\ savedText' = substance
    /\ recoded' = FALSE
    /\ UNCHANGED <<actions, currentAction, undoSequenceDepth, tentativePoint, scraps,
                   scrapCurrent, substance, starts, op, texts, scrapAt,
                   groupStart>>

\* The line starts of a text inserted into the emptied buffer.
LoadedStarts(s) ==
    IF s = <<>> THEN Fresh
    ELSE LET new == SortedAscending(LineEndsIn(s, 0))
             moved == InsertText(Fresh, 0, Len(s))
         IN  IF new = <<>> THEN moved
             ELSE InsertPartitions(moved, 1, new, Len(new))

\* Replacing the text while no undo actions are collected, between two calls of
\* SCI_EMPTYUNDOBUFFER.
Replaced(s) ==
    /\ substance' = s
    /\ starts' = LoadedStarts(s)
    /\ texts' = <<s>>
    /\ scrapAt' = <<0>>
    /\ groupStart' = None

\* EditSetNewText.
EditSetNewText ==
    /\ Idle /\ undoSequenceDepth = 0
    /\ \E s \in Strings \cup {<<>>} : Replaced(s) /\ savedText' = s
    /\ EmptyHistory
    /\ bModified' = FALSE
    /\ recoded' = FALSE
    /\ UNCHANGED op

\* EditConvertText, which does not set the save point: the text in another
\* encoding is the same text or another.  A read-only control keeps its text
\* and loses its undo history all the same.
EditConvertText ==
    /\ Idle /\ undoSequenceDepth = 0
    /\ \E s \in {substance} \cup Strings :
         /\ substance = <<>> => s = substance
         /\ Replaced(s)
    /\ EmptyHistory
    /\ savedText' = <<>>
    /\ recoded' = TRUE
    /\ UNCHANGED <<bModified, op>>

Next ==
    \/ Insert \/ Delete \/ Begin \/ End
    \/ Undo \/ Redo \/ Composition \/ EndComposition
    \/ PerformUndoStep \/ PerformRedoStep \/ EndUndoRedo
    \/ EndTentativeUndo \/ TentativeStart \/ InsertCharacter
    \/ SetSavePoint \/ EditSetNewText \/ EditConvertText

Spec == Init /\ [][Next]_vars

(***************************************************************************)
(* Properties                                                              *)
(***************************************************************************)

\* At every index of the history, done or undone, the action and its scrap
\* lead from the text before to the text after: undo and redo give back exactly
\* the texts that were there, however the scrap stack was cut and moved.
HistoryReplays ==
    /\ Len(texts) = Len(actions) + 1
    /\ substance = texts[currentAction + 1]
    /\ scrapCurrent = scrapAt[currentAction + 1]
    /\ \A i \in 1..Len(actions) :
         LET data == SubSeq(scraps, scrapAt[i] + 1, scrapAt[i + 1])
             position == actions[i].position
         IN  /\ Len(data) = actions[i].lenData
             /\ actions[i].at = "insert" => texts[i + 1] = Inserted(texts[i], position, data)
             /\ actions[i].at = "remove" => texts[i] = Inserted(texts[i + 1], position, data)

\* Wherever the history stands, if its save point can be reached then reaching
\* it gives the text that was saved.
SavePointMeansSaved ==
    savePoint \in 0..Len(actions) /\ ~recoded => texts[savePoint + 1] = savedText

\* What the window believes from the notifications is what the control says.
ModifiedTracked ==
    Idle /\ ~recoded => bModified = ~IsSavePoint

\* The line starts are those of the text, after edits that split a CR LF or
\* join a CR to an LF and wherever the lazy step stands.
LinesMatch ==
    LET S == {0} \cup LineEndsIn(substance, 0)
    IN  /\ starts.last = Cardinality(S)
        /\ {PositionFromPartition(starts, i) : i \in 0..(starts.last - 1)} = S
        /\ PositionFromPartition(starts, starts.last) = Len(substance)

(***************************************************************************)
(* The window sees the control as a history of texts.  While an operation  *)
(* on the history runs, it still stands where that operation began.        *)
(***************************************************************************)

at == IF Idle THEN currentAction ELSE op.from
ShownText == IF at = currentAction THEN substance ELSE texts[at + 1]
Marks == {0, Len(actions)} \cup {b \in 1..Len(actions) : Ends(b)}
ReachableSave == IF savePoint > Len(actions) THEN None ELSE savePoint

Promised == INSTANCE TextHistory WITH
    Text <- Seq(Char), None <- None,
    text <- ShownText, past <- texts, at <- at, marks <- Marks,
    saved <- ReachableSave, composing <- tentativePoint, group <- groupStart

\* Undo, redo and compositions lead from mark to mark through exactly the texts
\* that were there, a save point can always be undone to, and no undo ends
\* within a compound operation.
KeepsTextHistory == Promised!Spec
=============================================================================
