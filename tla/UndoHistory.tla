------------------------------ MODULE UndoHistory ------------------------------
(***************************************************************************)
(* Scintilla's undo history (src/scintilla/src/UndoHistory.cxx): the list  *)
(* of actions, the scrap stack that holds their texts, the save point and  *)
(* the tentative point.  The module defines what each call does to this    *)
(* state; CellBuffer makes the calls.                                      *)
(*                                                                         *)
(* An index i of the code's vector is i + 1 here, so actions[currentAction]*)
(* is the previous action, and an index into the history (currentAction,   *)
(* savePoint, tentativePoint) is the number of actions before it; None     *)
(* stands for the code's -1.  Left out: container actions and the detach   *)
(* point, which only programs use that the editor is not.                  *)
(***************************************************************************)
EXTENDS Integers, Sequences

VARIABLES
    actions,            \* the actions, done and undone
    currentAction,      \* how many of them are done
    undoSequenceDepth,  \* nesting of BeginUndoAction
    savePoint,
    tentativePoint,     \* where an input composition began
    scraps,             \* the scrap stack: the texts of the actions, in a row
    scrapCurrent        \* its current position

history == <<actions, currentAction, undoSequenceDepth, savePoint,
             tentativePoint, scraps, scrapCurrent>>

None == -1

Action == [at: {"insert", "remove"}, position: Nat, lenData: Nat,
           mayCoalesce: BOOLEAN]

HistoryInit ==
    /\ actions = <<>>
    /\ currentAction = 0
    /\ undoSequenceDepth = 0
    /\ savePoint = 0
    /\ tentativePoint = None
    /\ scraps = <<>>
    /\ scrapCurrent = 0

\* mayCoalesce of the previous action becomes FALSE: a user operation ends here.
Closed(list, index) ==
    IF index = 0 THEN list ELSE [list EXCEPT ![index].mayCoalesce = FALSE]

\* Mutant: the save point does not end a run of typing.
CoalescesOverSavePoint(at, position, lengthData) ==
    /\ currentAction >= 1
    /\ LET target == actions[currentAction]
       IN  /\ target.mayCoalesce
           /\ undoSequenceDepth = 0 =>
                /\ currentAction # tentativePoint
                /\ at = target.at
                /\ at = "insert" => position = target.position + target.lenData
                /\ at = "remove" =>
                     /\ lengthData \in {1, 2}
                     /\ target.position \in {position, position + lengthData}

\* Whether an action joins the user operation of the previous one.
Coalesces(at, position, lengthData) ==
    /\ currentAction >= 1
    /\ LET target == actions[currentAction]
       IN  /\ target.mayCoalesce
           /\ undoSequenceDepth = 0 =>
                /\ currentAction \notin {savePoint, tentativePoint}
                /\ at = target.at
                /\ at = "insert" => position = target.position + target.lenData
                /\ at = "remove" =>
                     /\ lengthData \in {1, 2}
                     /\ target.position \in {position, position + lengthData}

\* Mutant: the save point survives the actions that led to it.
AppendActionKeepsSavePoint(at, position, data) ==
    LET done == SubSeq(actions, 1, currentAction)
        before == IF Coalesces(at, position, Len(data)) THEN done
                  ELSE Closed(done, currentAction)
    IN  /\ actions' = Append(before, [at |-> at, position |-> position,
                                      lenData |-> Len(data), mayCoalesce |-> TRUE])
        /\ currentAction' = currentAction + 1
        /\ scraps' = SubSeq(scraps, 1, scrapCurrent) \o data
        /\ scrapCurrent' = scrapCurrent + Len(data)
        /\ UNCHANGED <<savePoint, undoSequenceDepth, tentativePoint>>

\* The undone actions are dropped, and the save point with them.
AppendAction(at, position, data) ==
    LET done == SubSeq(actions, 1, currentAction)
        before == IF Coalesces(at, position, Len(data)) THEN done
                  ELSE Closed(done, currentAction)
    IN  /\ actions' = Append(before, [at |-> at, position |-> position,
                                      lenData |-> Len(data), mayCoalesce |-> TRUE])
        /\ currentAction' = currentAction + 1
        /\ savePoint' = IF currentAction < savePoint THEN None ELSE savePoint
        /\ scraps' = SubSeq(scraps, 1, scrapCurrent) \o data
        /\ scrapCurrent' = scrapCurrent + Len(data)
        /\ UNCHANGED <<undoSequenceDepth, tentativePoint>>

BeginUndoAction ==
    /\ actions' = IF undoSequenceDepth = 0 THEN Closed(actions, currentAction)
                  ELSE actions
    /\ undoSequenceDepth' = undoSequenceDepth + 1
    /\ UNCHANGED <<currentAction, savePoint, tentativePoint, scraps, scrapCurrent>>

EndUndoAction ==
    /\ actions' = IF undoSequenceDepth = 1 THEN Closed(actions, currentAction)
                  ELSE actions
    /\ undoSequenceDepth' = undoSequenceDepth - 1
    /\ UNCHANGED <<currentAction, savePoint, tentativePoint, scraps, scrapCurrent>>

\* Mutant: the position in the scrap stack survives the stack.
EmptyHistoryKeepsCurrent ==
    /\ actions' = <<>>
    /\ currentAction' = 0
    /\ undoSequenceDepth' = 0
    /\ savePoint' = 0
    /\ tentativePoint' = None
    /\ scraps' = <<>>
    /\ UNCHANGED scrapCurrent

\* What DeleteUndoHistory leaves.  SetUndoCollection has dropped the sequence.
EmptyHistory ==
    /\ actions' = <<>>
    /\ currentAction' = 0
    /\ undoSequenceDepth' = 0
    /\ savePoint' = 0
    /\ tentativePoint' = None
    /\ scraps' = <<>>
    /\ scrapCurrent' = 0

TentativeActive == tentativePoint >= 0

\* The undone actions are dropped; their scraps stay until the next Push.
TentativeCommit ==
    /\ tentativePoint' = None
    /\ actions' = SubSeq(actions, 1, currentAction)
    /\ UNCHANGED <<currentAction, undoSequenceDepth, savePoint, scraps, scrapCurrent>>

CanUndo == currentAction > 0
CanRedo == Len(actions) > currentAction

\* A user operation ends after action index.
Ends(index) == ~actions[index].mayCoalesce

\* Where StartUndo's steps lead to: the end of the operation before.
UndoTarget ==
    CHOOSE b \in 0..(currentAction - 1) :
        /\ b = 0 \/ Ends(b)
        /\ \A i \in (b + 1)..(currentAction - 1) : ~Ends(i)

\* Where StartRedo's steps lead to; the last action may still coalesce.
RedoTarget ==
    CHOOSE b \in (currentAction + 1)..Len(actions) :
        /\ b = Len(actions) \/ Ends(b)
        /\ \A i \in (currentAction + 1)..(b - 1) : ~Ends(i)

\* The texts of the step to undo and of the step to redo.
UndoData == SubSeq(scraps, scrapCurrent - actions[currentAction].lenData + 1, scrapCurrent)
RedoData == SubSeq(scraps, scrapCurrent + 1,
                   scrapCurrent + actions[currentAction + 1].lenData)

CompletedUndoStep ==
    LET length == actions[currentAction].lenData
    IN  /\ scrapCurrent' = IF scrapCurrent >= length THEN scrapCurrent - length
                           ELSE scrapCurrent
        /\ currentAction' = currentAction - 1
        /\ UNCHANGED <<actions, undoSequenceDepth, savePoint, tentativePoint, scraps>>

\* Mutant: a redone step leaves the scrap stack where it was.
CompletedRedoStepStays ==
    /\ currentAction' = currentAction + 1
    /\ UNCHANGED <<actions, undoSequenceDepth, savePoint, tentativePoint, scraps,
                   scrapCurrent>>

CompletedRedoStep ==
    LET length == actions[currentAction + 1].lenData
    IN  /\ scrapCurrent' = IF scrapCurrent + length <= Len(scraps)
                           THEN scrapCurrent + length ELSE scrapCurrent
        /\ currentAction' = currentAction + 1
        /\ UNCHANGED <<actions, undoSequenceDepth, savePoint, tentativePoint, scraps>>

=============================================================================
