------------------------------- MODULE TextLines -------------------------------
(***************************************************************************)
(* The editor control as the commands of src/src/Edit.c see it through     *)
(* messages: a text, its lines, and a selection that moves with every      *)
(* change (src/scintilla/src/Document.cxx, Selection.cxx, Editor.cxx).     *)
(* Positions and lines are counted from 0, characters are their codes.     *)
(***************************************************************************)
EXTENDS Integers, Sequences, FiniteSets, FiniteSetsExt

CONSTANT TabWidth

ASSUME TabWidthAssumption == TabWidth \in Nat \ {0}

TAB == 9
LF == 10
CR == 13
SP == 32

IsBlank(c) == c \in {SP, TAB}
IsEnd(c) == c \in {CR, LF}

\* What the loops over 1..n of the commands make of init.
Scan(Step(_, _), init, n) ==
    LET f[i \in 0..n] == IF i = 0 THEN init ELSE Step(f[i - 1], i)
    IN  f[n]

-----------------------------------------------------------------------------
(* Text and lines. *)

TextRange(t, from, to) == SubSeq(t, from + 1, to)

Replaced(t, from, to, string) ==
    TextRange(t, 0, from) \o string \o TextRange(t, to, Len(t))

\* A line end is before position p: CR LF, or one of them alone.
EndsLine(t, p) ==
    /\ p > 0
    /\ IsEnd(t[p])
    /\ ~(t[p] = CR /\ p < Len(t) /\ t[p + 1] = LF)

\* No position of a selection is between CR and LF.
Valid(t, p) ==
    /\ p \in 0..Len(t)
    /\ ~(p \in 1..Len(t) - 1 /\ t[p] = CR /\ t[p + 1] = LF)

\* Of a position its line, of a text its lines, of a line its first position.
LineFromPosition(t, p) == Cardinality({q \in 1..p : EndsLine(t, q)})

LineCount(t) == LineFromPosition(t, Len(t)) + 1

PositionFromLine(t, line) ==
    IF line < LineCount(t)
    THEN CHOOSE p \in 0..Len(t) : (p = 0 \/ EndsLine(t, p)) /\ LineFromPosition(t, p) = line
    ELSE Len(t)

\* Mutant: a line end is one character.
LineEndPositionBeforeLF(t, line) ==
    IF line >= LineCount(t) - 1 THEN Len(t) ELSE PositionFromLine(t, line + 1) - 1
LineEndPosition(t, line) ==
    LET next == PositionFromLine(t, line + 1)
    IN  IF line >= LineCount(t) - 1 THEN Len(t)
        ELSE IF next > 1 /\ t[next] = LF /\ t[next - 1] = CR THEN next - 2
        ELSE next - 1

GetLine(t, line) ==
    TextRange(t, PositionFromLine(t, line), PositionFromLine(t, line + 1))

LineIndentPosition(t, line) ==
    LET from == PositionFromLine(t, line)
    IN  CHOOSE p \in from..Len(t) :
            /\ \A q \in from + 1..p : IsBlank(t[q])
            /\ p = Len(t) \/ ~IsBlank(t[p + 1])

\* The line end itself has no width.
NextColumn(column, c) ==
    CASE c = TAB  -> (column \div TabWidth + 1) * TabWidth
      [] IsEnd(c) -> column
      [] OTHER    -> column + 1

GetColumn(t, p) ==
    LET from == PositionFromLine(t, LineFromPosition(t, p))
    IN  Scan(LAMBDA column, i : NextColumn(column, t[from + i]), 0, p - from)

\* The position of a column, before a tab that reaches past it.
FindColumn(t, line, column) ==
    LET from == PositionFromLine(t, line)
    IN  Max({p \in from..LineEndPosition(t, line) : GetColumn(t, p) <= column})

-----------------------------------------------------------------------------
(* The editor: [text, anchor, caret]. *)

SelectionStart(e) == Min({e.anchor, e.caret})
SelectionEnd(e) == Max({e.anchor, e.caret})
HasSelection(e) == e.anchor # e.caret

SetSel(t, anchor, caret) == [text |-> t, anchor |-> anchor, caret |-> caret]

\* A position after an insertion; the start of a selection moves with it.
AfterInsertion(p, at, n, starts) ==
    IF p > at \/ (p = at /\ starts) THEN p + n ELSE p

\* Mutant: the selection does not follow a deletion.
AfterDeletionStays(p, from, to) == p
AfterDeletion(p, from, to) ==
    IF p > to THEN p - (to - from) ELSE IF p > from THEN from ELSE p

InsertAt(e, at, string) ==
    SetSel(Replaced(e.text, at, at, string),
           AfterInsertion(e.anchor, at, Len(string), e.anchor < e.caret),
           AfterInsertion(e.caret, at, Len(string), e.caret < e.anchor))

DeleteRange(e, from, to) ==
    SetSel(Replaced(e.text, from, to, <<>>),
           AfterDeletion(e.anchor, from, to), AfterDeletion(e.caret, from, to))

ReplaceTarget(e, from, to, string) ==
    InsertAt(DeleteRange(e, from, to), from, string)

\* SCI_INSERTTEXT leaves only a caret.
InsertText(e, at, string) ==
    LET caret == IF e.caret > at THEN e.caret + Len(string) ELSE e.caret
    IN  SetSel(Replaced(e.text, at, at, string), caret, caret)

\* A selection over from..to with the caret where it was.
SelectLike(e, t, from, to) ==
    IF e.caret < e.anchor THEN SetSel(t, to, from) ELSE SetSel(t, from, to)

\* Mutant: the lines take their line ends along.
LineTransposeWithEnds(t, line) ==
    TextRange(t, 0, PositionFromLine(t, line - 1)) \o GetLine(t, line) \o GetLine(t, line - 1)
    \o TextRange(t, PositionFromLine(t, line + 1), Len(t))

\* SCI_LINETRANSPOSE at a line > 0: it changes places with the one before.
LineTranspose(t, line) ==
    LET previous == PositionFromLine(t, line - 1)
        current == PositionFromLine(t, line)
        previousEnd == LineEndPosition(t, line - 1)
        currentEnd == LineEndPosition(t, line)
    IN  TextRange(t, 0, previous) \o TextRange(t, current, currentEnd)
        \o TextRange(t, previousEnd, current) \o TextRange(t, previous, previousEnd)
        \o TextRange(t, currentEnd, Len(t))
=============================================================================
