----------------------------- MODULE TextHistory ------------------------------
(***************************************************************************)
(* What the editor control promises about undo and redo, whatever its      *)
(* actions, scraps and steps: the texts since the last load stand in a     *)
(* row, each edit appends one, and undo and redo jump between the marked   *)
(* ones, the ends of user operations.  A save point is always marked, and  *)
(* nothing between the two ends of a compound operation is.  CellBuffer    *)
(* implements it.                                                          *)
(***************************************************************************)
EXTENDS Integers, Sequences

CONSTANT Text, None

VARIABLES
    text,       \* the text shown
    past,       \* the texts, past[1] the one loaded
    at,         \* the number of edits done
    marks,      \* the ends of user operations
    saved,      \* the edits of the saved text, or None
    composing,  \* the edits before the input composition, or None
    group       \* the edits before the open compound operation, or None

Init ==
    /\ text \in Text
    /\ past = <<text>>
    /\ at = 0
    /\ marks = {0}
    /\ saved = 0
    /\ composing = None
    /\ group = None

\* A new text; the undone ones are gone.  It may continue the user operation
\* before it, but not over a save point or the beginning of anything, and it
\* must within a compound operation.
Edit ==
    /\ text' \in Text
    /\ past' = Append(SubSeq(past, 1, at + 1), text')
    /\ at' = at + 1
    /\ \E kept \in {{m \in marks : m <= at}, {m \in marks : m < at}} :
         /\ marks' = kept \cup {at + 1}
         /\ at \in {0, saved, group} => at \in kept
         /\ group # None /\ group < at => at \notin kept
         /\ group = None /\ at = composing => at \in kept
    /\ saved' = IF saved > at THEN None ELSE saved
    /\ UNCHANGED <<composing, group>>

\* To the end of the user operation before, or after.
Undo ==
    /\ group = None
    /\ at' \in marks /\ at' < at
    /\ \A m \in marks : ~(at' < m /\ m < at)
    /\ text' = past[at' + 1]
    /\ UNCHANGED <<past, marks, saved, composing, group>>

Redo ==
    /\ group = None
    /\ at' \in marks /\ at < at'
    /\ \A m \in marks : ~(at < m /\ m < at')
    /\ text' = past[at' + 1]
    /\ UNCHANGED <<past, marks, saved, composing, group>>

Save ==
    /\ group = None
    /\ saved' = at
    /\ UNCHANGED <<text, past, at, marks, composing, group>>

Open ==
    /\ group = None
    /\ group' = at
    /\ marks' = marks \cup {at}
    /\ UNCHANGED <<text, past, at, saved, composing>>

Close ==
    /\ group # None
    /\ group' = None
    /\ marks' = marks \cup {at}
    /\ UNCHANGED <<text, past, at, saved, composing>>

Compose ==
    /\ composing = None
    /\ composing' = at
    /\ UNCHANGED <<text, past, at, marks, saved, group>>

\* The composition is taken back, and cannot be redone.
Cancel ==
    /\ composing # None
    /\ composing' = None
    /\ at' = IF composing < at THEN composing ELSE at
    /\ text' = past[at' + 1]
    /\ past' = SubSeq(past, 1, at' + 1)
    /\ marks' = {m \in marks : m < at'} \cup {at'}
    /\ saved' = IF saved > at' THEN None ELSE saved
    /\ UNCHANGED group

Load ==
    /\ group = None
    /\ text' \in Text
    /\ past' = <<text'>>
    /\ at' = 0
    /\ marks' = {0}
    /\ saved' = 0
    /\ composing' = None
    /\ UNCHANGED group

Next ==
    \/ Edit \/ Undo \/ Redo \/ Save \/ Open \/ Close \/ Compose \/ Cancel \/ Load

Spec == Init /\ [][Next]_<<text, past, at, marks, saved, composing, group>>
=============================================================================
