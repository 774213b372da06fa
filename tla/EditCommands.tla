----------------------------- MODULE EditCommands -----------------------------
(***************************************************************************)
(* The line and block commands of src/src/Edit.c and its Replace All, as   *)
(* the menu of src/src/TE.c runs them on the editor.                       *)
(*                                                                         *)
(* A command is an operator from the editor before it to the editor after  *)
(* it: it runs to its end before the window handles another message.       *)
(* Replace All alone is one step per replacement, because its loop is      *)
(* bounded by nothing but the search it repeats.                           *)
(*                                                                         *)
(* Rectangular selections are left out (the commands refuse them, or pad   *)
(* and sort by column), and so are characters of more than one byte.       *)
(***************************************************************************)
EXTENDS TextLines

CONSTANTS
    Texts,          \* texts of the files, as sequences of lines
    EOLModes,       \* the line ends: sequences of CR and LF
    Comment,        \* what Toggle Line Comments inserts
    Open, Close,    \* what Modify Lines and Enclose Selection insert
    Columns,        \* columns to wrap at
    Searches,       \* what Replace All looks for
    Replacements,   \* and what it puts there
    Prompt, Caret,  \* the characters > and ^
    MaxCommands,    \* bound on the commands run on one text
    MaxLength       \* bound on the texts that a Replace All makes

Patterns == {"^", "$", "^$", "[ \\t]+$"}

\* Strings without line ends, of characters that are not 0.
Plain == Seq(Nat \ {0, CR, LF})

ASSUME EditCommandsAssumption ==
    /\ EOLModes \subseteq {<<CR, LF>>, <<LF>>, <<CR>>}
    /\ \A lines \in Texts : lines \in Seq(Plain)
    /\ Comment \in Plain /\ Len(Comment) \in 1..31    \* tchBuf holds no more
    /\ Open \in Plain /\ Close \in Plain
    /\ Columns \subseteq Nat \ {0}
    /\ \A what \in Searches :
        \/ what.regexp = TRUE /\ what.pattern \in Patterns
        \/ what.regexp = FALSE /\ what.find \in Plain /\ what.find # <<>>
    /\ \A with \in Replacements : with \in Plain

VARIABLES
    editor,         \* the editor: [text, anchor, caret]
    eolMode,        \* SCI_GETEOLMODE
    search,         \* Replace All in progress
    commands        \* how many commands have run on the text

vars == <<editor, eolMode, search, commands>>

-----------------------------------------------------------------------------
(* Helpers of the commands. *)

\* A loop over the lines first..last, each step a change of the editor.
OverLines(Change(_, _), e, first, last) ==
    Scan(LAMBDA x, i : Change(x, first + i - 1), e, last - first + 1)

FirstLine(e) == LineFromPosition(e.text, SelectionStart(e))
LastLine(e) == LineFromPosition(e.text, SelectionEnd(e))

\* The last selected line, unless the selection only ends at its start.
LastSelectedLine(e) ==
    IF SelectionEnd(e) <= PositionFromLine(e.text, LastLine(e)) /\ FirstLine(e) < LastLine(e)
    THEN LastLine(e) - 1
    ELSE LastLine(e)

\* Where the commands on blanks begin: the start of the first selected line.
BlockStart(e) == PositionFromLine(e.text, FirstLine(e))
Block(e) == TextRange(e.text, BlockStart(e), SelectionEnd(e))

\* They put new text in place of the block and select it.
ReplaceBlock(e, string) ==
    SelectLike(e, Replaced(e.text, BlockStart(e), SelectionEnd(e), string),
               BlockStart(e), BlockStart(e) + Len(string))

\* Without a selection, StripFirst and the like take the whole text.
Whole(e) == IF HasSelection(e) THEN e ELSE SetSel(e.text, 0, Len(e.text))

\* Mutant: after the last character there is a blank.
CharAfterUnended(t, i) == IF i < Len(t) THEN t[i + 1] ELSE SP

\* The next character of the block, 0 after the last.
CharAfter(t, i) == IF i < Len(t) THEN t[i + 1] ELSE 0

Blanks(n) == [i \in 1..n |-> SP]

-----------------------------------------------------------------------------
(* Tabs and blanks. *)

\* Mutant: the column before a tab is not looked at.
ToTabStopFromStart(column) == TabWidth
ToTabStop(column) == TabWidth - (column % TabWidth)

TabToSpaces(t, onlyIndent, x, i) ==
    IF t[i] = TAB /\ (x.lineStart \/ ~onlyIndent)
    THEN [x EXCEPT !.out = @ \o Blanks(ToTabStop(x.column)), !.column = 0, !.modified = TRUE]
    ELSE [x EXCEPT !.out = Append(@, t[i]),
                   !.column = IF IsEnd(t[i]) THEN 0 ELSE @ + 1,
                   !.lineStart = IsEnd(t[i]) \/ (@ /\ t[i] = SP)]

TabsToSpaces(e, onlyIndent) ==
    LET t == Block(e)
        conv == Scan(LAMBDA x, i : TabToSpaces(t, onlyIndent, x, i),
                     [out |-> <<>>, column |-> 0, lineStart |-> TRUE, modified |-> FALSE], Len(t))
    IN  IF HasSelection(e) /\ conv.modified THEN ReplaceBlock(e, conv.out) ELSE e

\* space holds the blanks since the last tab stop.
SpaceToTab(t, onlyIndent, x, i) ==
    LET space == Append(x.space, t[i])
        stop == Len(space) = ToTabStop(x.column) \/ t[i] = TAB
        blank == IF Len(space) > 1 \/ IsBlank(CharAfter(t, i)) THEN TAB ELSE t[i]
    IN  IF ~(IsBlank(t[i]) /\ (x.lineStart \/ ~onlyIndent))
        THEN [x EXCEPT !.out = Append(@ \o x.space, t[i]),
                       !.column = IF IsEnd(t[i]) THEN 0 ELSE @ + Len(x.space) + 1,
                       !.space = <<>>,
                       !.lineStart = IsEnd(t[i])]
        ELSE IF stop
        THEN [x EXCEPT !.out = Append(@, blank), !.column = 0, !.space = <<>>,
                       !.modified = @ \/ t[i] # blank]
        ELSE [x EXCEPT !.space = space]

SpacesToTabs(e, onlyIndent) ==
    LET t == Block(e)
        conv == Scan(LAMBDA x, i : SpaceToTab(t, onlyIndent, x, i),
                     [out |-> <<>>, space |-> <<>>, column |-> 0, lineStart |-> TRUE,
                      modified |-> FALSE], Len(t))
        out == conv.out \o conv.space
    IN  IF HasSelection(e) /\ (conv.modified \/ Len(out) # Len(t)) THEN ReplaceBlock(e, out) ELSE e

\* Only the blanks before a line end, or before the end of a text that ends a
\* line, are dropped altogether, and those at the start of a line.
CompressSpace(t, x, i) ==
    IF ~IsBlank(t[i])
    THEN [x EXCEPT !.out = Append(@, t[i]), !.lineStart = IsEnd(t[i])]
    ELSE IF IsBlank(CharAfter(t, i)) \/ x.lineStart \/ IsEnd(CharAfter(t, i))
    THEN [x EXCEPT !.modified = TRUE]
    ELSE [x EXCEPT !.out = Append(@, SP), !.modified = @ \/ t[i] = TAB]

CompressSpaces(e) ==
    LET from == IF HasSelection(e) THEN SelectionStart(e) ELSE 0
        to == IF HasSelection(e) THEN SelectionEnd(e) ELSE Len(e.text)
        t == TextRange(e.text, from, to)
        conv == Scan(LAMBDA x, i : CompressSpace(t, x, i),
                     [out |-> <<>>, modified |-> FALSE,
                      lineStart |-> from = PositionFromLine(e.text, LineFromPosition(e.text, from))],
                     Len(t))
        lineEnd == to = LineEndPosition(e.text, LineFromPosition(e.text, to))
        trimmed == lineEnd /\ conv.out # <<>> /\ conv.out[Len(conv.out)] = SP
        out == IF trimmed THEN SubSeq(conv.out, 1, Len(conv.out) - 1) ELSE conv.out
    IN  IF ~conv.modified /\ ~trimmed THEN e
        ELSE IF HasSelection(e)
        THEN SelectLike(e, Replaced(e.text, from, to, out), from, from + Len(out))
        ELSE ReplaceTarget(e, from, to, out)

-----------------------------------------------------------------------------
(* Lines. *)

MoveUp(e) ==
    LET t == e.text
        first == FirstLine(e)
        source == first - 1
        dest == IF SelectionEnd(e) <= PositionFromLine(t, LastLine(e)) THEN LastLine(e) - 1
                ELSE LastLine(e)
        cut == Replaced(t, PositionFromLine(t, source), PositionFromLine(t, first), <<>>)
        at == PositionFromLine(cut, dest)
        put == Replaced(cut, at, at, GetLine(t, source))
        \* What was the last line has no line end: it gets one, the new last line gives its own up.
        joined == Replaced(put, at, at, eolMode)
        moved == IF dest = LineCount(put) - 1
                 THEN TextRange(joined, 0, LineEndPosition(joined, dest))
                 ELSE put
        transposed == LineTranspose(t, first)
        shift == PositionFromLine(t, first) - PositionFromLine(transposed, source)
    IN  IF first = 0 THEN e
        ELSE IF first = LastLine(e)
        THEN SetSel(transposed, e.anchor - shift, e.caret - shift)
        ELSE SelectLike(e, moved, PositionFromLine(moved, source), PositionFromLine(moved, dest))

MoveDown(e) ==
    LET t == e.text
        first == FirstLine(e)
        last == LastLine(e)
        source == IF SelectionEnd(e) <= PositionFromLine(t, last) /\ first # last THEN last
                  ELSE last + 1
        isLast == source = LineCount(t) - 1
        bothEmpty == \A line \in {source - 1, source} :
            LineEndPosition(t, line) = PositionFromLine(t, line)
        \* The last line is given a line end, and the new last line loses its own.
        ended == IF isLast THEN t \o eolMode ELSE t
        cut == Replaced(ended, PositionFromLine(ended, source), PositionFromLine(ended, source + 1), <<>>)
        at == PositionFromLine(cut, first)
        put == Replaced(cut, at, at, GetLine(ended, source))
        moved == IF isLast THEN TextRange(put, 0, LineEndPosition(put, LineCount(put) - 2)) ELSE put
        transposed == LineTranspose(t, source)
        shift == PositionFromLine(transposed, source) - PositionFromLine(t, first)
    IN  IF source >= LineCount(t) THEN e
        ELSE IF first = last THEN SetSel(transposed, e.anchor + shift, e.caret + shift)
        ELSE IF isLast /\ bothEmpty THEN e
        ELSE SelectLike(e, moved, PositionFromLine(moved, first + 1),
                        PositionFromLine(moved, source + 1))

\* Both strings may be empty; a block of lines is selected again in full.
ModifyLine(open, close, e, line) ==
    LET from == PositionFromLine(e.text, line)
        before == ReplaceTarget(e, from, from, open)
        end == LineEndPosition(before.text, line)
    IN  ReplaceTarget(before, end, end, close)

ModifyLines(e, open, close) ==
    LET done == OverLines(LAMBDA x, line : ModifyLine(open, close, x, line), e,
                          FirstLine(e), LastSelectedLine(e))
    IN  IF ~HasSelection(e) THEN done
        ELSE SelectLike(done, done.text, PositionFromLine(done.text, FirstLine(e)),
                        PositionFromLine(done.text, LastSelectedLine(e) + 1))

EncloseSelection(e, open, close) ==
    LET from == SelectionStart(e) + Len(open)
        to == SelectionEnd(e) + Len(open)
        opened == ReplaceTarget(e, SelectionStart(e), SelectionStart(e), open)
        done == ReplaceTarget(opened, to, to, close)
    IN  IF HasSelection(e) THEN SelectLike(done, done.text, from, to)
        ELSE SetSel(done.text, from, from)

EmptyButForBlanks(t, line) == LineIndentPosition(t, line) = LineEndPosition(t, line)

\* Where comments are put: the smallest indentation of the selected lines.
IndentColumns(e) ==
    {GetColumn(e.text, LineIndentPosition(e.text, line)) :
        line \in {l \in FirstLine(e)..LastSelectedLine(e) : ~EmptyButForBlanks(e.text, l)}}
\* Mutant: the widest indentation is taken.
CommentColumnOfWidest(e) == Max({0} \cup IndentColumns(e))
CommentColumn(e) == Min({1024} \cup IndentColumns(e))

Caseless(string) ==
    [i \in DOMAIN string |-> IF string[i] \in 65..90 THEN string[i] + 32 ELSE string[i]]

Commented(t, p) ==
    /\ p + Len(Comment) <= Len(t)
    /\ Caseless(TextRange(t, p, p + Len(Comment))) = Caseless(Comment)

\* The first line that is not empty decides between adding and removing.  What would
\* reach past the end of the text is neither read, so that tchBuf still compares as
\* it did before, nor deleted.
ToggleComment(column, x, line) ==
    LET t == x.e.text
        indent == LineIndentPosition(t, line)
        end == indent + Len(Comment)
        compares == IF end <= Len(t) THEN Commented(t, indent) ELSE x.compares
        action == IF compares THEN "remove" ELSE "insert"
        removed == IF end <= Len(t) THEN ReplaceTarget(x.e, indent, end, <<>>) ELSE x.e
        inserted == InsertText(x.e, FindColumn(t, line, column), Comment)
    IN  IF EmptyButForBlanks(t, line) THEN x
        ELSE IF x.action \notin {"none", action} THEN [x EXCEPT !.compares = compares]
        ELSE [e |-> IF compares THEN removed ELSE inserted,
              action |-> action, compares |-> compares]

\* compares: tchBuf, which nobody initializes, happens to hold the comment.
ToggleLineComments(e, insertAtStart, compares) ==
    LET first == FirstLine(e)
        last == LastSelectedLine(e)
        column == IF insertAtStart THEN 0 ELSE CommentColumn(e)
        done == OverLines(LAMBDA x, line : ToggleComment(column, x, line),
                          [e |-> e, action |-> "none", compares |-> compares], first, last).e
        from == PositionFromLine(done.text, first)
        to == PositionFromLine(done.text, last + 1)
    IN  IF HasSelection(e) THEN SelectLike(e, done.text, from, to) ELSE done

EndColumn(t, line) == GetColumn(t, LineEndPosition(t, line))

PadLine(widest, e, line) ==
    LET end == LineEndPosition(e.text, line)
    IN  ReplaceTarget(e, end, end, Blanks(widest - EndColumn(e.text, line)))

PadWithSpaces(e) ==
    LET oneLine == FirstLine(e) = LastLine(e)
        first == IF oneLine THEN 0 ELSE FirstLine(e)
        last == IF oneLine THEN LineCount(e.text) - 1 ELSE LastSelectedLine(e)
        widest == Max({EndColumn(e.text, line) : line \in first..last})
        done == OverLines(LAMBDA x, line : PadLine(widest, x, line), e, first, last)
        to == IF last = LastLine(e) THEN LineEndPosition(done.text, last)
              ELSE PositionFromLine(done.text, last + 1)
        \* Looked up in the padded text, at the positions of the selection before.
        stillOneLine == LineFromPosition(done.text, SelectionStart(e))
                        = LineFromPosition(done.text, SelectionEnd(e))
    IN  IF stillOneLine THEN done
        ELSE SelectLike(done, done.text, PositionFromLine(done.text, first), to)

-----------------------------------------------------------------------------
(* Characters at the ends of lines, and empty lines. *)

StripFirstOf(e, line) ==
    LET p == PositionFromLine(e.text, line)
    IN  IF LineEndPosition(e.text, line) > p THEN DeleteRange(e, p, p + 1) ELSE e

StripFirstCharacter(e) ==
    LET w == Whole(e)
        t == e.text
        first == IF SelectionStart(w) > BlockStart(w) THEN FirstLine(w) + 1 ELSE FirstLine(w)
        last == IF SelectionEnd(w) <= PositionFromLine(t, LastLine(w)) THEN LastLine(w) - 1
                ELSE LastLine(w)
    IN  OverLines(StripFirstOf, e, first, last)

StripLastOf(e, line) ==
    LET end == LineEndPosition(e.text, line)
    IN  IF end > PositionFromLine(e.text, line) THEN DeleteRange(e, end - 1, end) ELSE e

StripLastCharacter(e) ==
    LET w == Whole(e)
        t == e.text
        first == IF SelectionStart(w) >= LineEndPosition(t, FirstLine(w)) THEN FirstLine(w) + 1
                 ELSE FirstLine(w)
        last == IF SelectionEnd(w) < LineEndPosition(t, LastLine(w)) THEN LastLine(w) - 1
                ELSE LastLine(w)
    IN  OverLines(StripLastOf, e, first, last)

\* Mutant: one blank only.
BlanksBeforeOne(t, line, end) ==
    IF end > PositionFromLine(t, line) /\ IsBlank(t[end]) THEN end - 1 ELSE end

\* Where the blanks before position end of a line begin.
BlanksBefore(t, line, end) ==
    CHOOSE p \in PositionFromLine(t, line)..end :
        /\ \A q \in p + 1..end : IsBlank(t[q])
        /\ p = PositionFromLine(t, line) \/ ~IsBlank(t[p])

\* Without a selection; with one, it is a Replace All (see StripSelection).
StripBlanksOf(e, line) ==
    LET end == LineEndPosition(e.text, line)
    IN  DeleteRange(e, BlanksBefore(e.text, line, end), end)

StripTrailingBlanks(e) == OverLines(StripBlanksOf, e, 0, LineCount(e.text) - 1)

\* A round of the loop: the empty lines from x.line on go, but for one if they are merged.
RemoveBlanks(merge, x) ==
    LET t == x.e.text
        Empty(line) == PositionFromLine(t, line) = LineEndPosition(t, line)
        empty == Max({n \in 0..x.last - x.line + 1 :
                         \A line \in x.line..x.line + n - 1 : Empty(line)})
        gone == IF merge THEN empty - 1 ELSE empty
    IN  IF x.line > x.last THEN x
        ELSE IF empty = 0 \/ gone = 0 THEN [x EXCEPT !.line = @ + empty + 1]
        ELSE [e |-> DeleteRange(x.e, PositionFromLine(t, x.line), PositionFromLine(t, x.line + gone)),
              line |-> IF merge THEN x.line + 1 ELSE x.line,
              last |-> x.last - gone]

RemoveBlankLines(e, merge) ==
    LET w == Whole(e)
        t == e.text
        first == IF SelectionStart(w) > BlockStart(w) THEN FirstLine(w) + 1 ELSE FirstLine(w)
        last == IF /\ SelectionEnd(w) <= PositionFromLine(t, LastLine(w))
                   /\ LastLine(w) # LineCount(t) - 1
                THEN LastLine(w) - 1
                ELSE LastLine(w)
    IN  Scan(LAMBDA x, i : RemoveBlanks(merge, x), [e |-> e, line |-> first, last |-> last],
             LineCount(t)).e

-----------------------------------------------------------------------------
(* Wrapping and joining lines. *)

WordLength(t, i) ==
    LET ends == {j \in i + 1..Len(t) : IsBlank(t[j]) \/ IsEnd(t[j])}
    IN  (IF ends = {} THEN Len(t) ELSE Min(ends) - 1) - i

\* Mutant: the blank before the word is not counted.
NoRoomForgetsBlank(length, word, column) == length + word > column
NoRoom(length, word, column) == length + word + 1 > column

WrapAt(t, column, x, i) ==
    LET word == WordLength(t, i)
    IN  IF ~IsBlank(t[i])
        THEN [x EXCEPT !.out = Append(@, t[i]), !.length = IF IsEnd(t[i]) THEN 0 ELSE @ + 1]
        ELSE IF IsBlank(CharAfter(t, i)) THEN [x EXCEPT !.modified = TRUE]
        ELSE IF word = 0 THEN x
        ELSE IF NoRoom(x.length, word, column)
        THEN [out |-> x.out \o eolMode, length |-> 0, modified |-> TRUE]
        ELSE IF x.length > 0 THEN [x EXCEPT !.out = Append(@, SP), !.length = @ + 1]
        ELSE x

WrapToColumn(e, column) ==
    LET t == Block(e)
        conv == Scan(LAMBDA x, i : WrapAt(t, column, x, i),
                     [out |-> <<>>, length |-> 0, modified |-> FALSE], Len(t))
    IN  IF HasSelection(e) /\ conv.modified THEN ReplaceBlock(e, conv.out) ELSE e

\* One line end becomes a blank, several become an empty line; at the end of the
\* block they are dropped.
JoinAt(t, x, i) ==
    LET one == IF t[i] = CR /\ CharAfter(t, i) = LF THEN i + 1 ELSE i
        all == Max({j \in one..Len(t) : \A k \in one + 1..j : IsEnd(t[k])})
    IN  IF i <= x.done THEN x
        ELSE IF ~IsEnd(t[i]) THEN [x EXCEPT !.out = Append(@, t[i])]
        ELSE IF all = one /\ one < Len(t)
        THEN [out |-> Append(x.out, SP), done |-> one, modified |-> TRUE]
        ELSE [out |-> CASE all = Len(t) -> x.out
                        [] x.out = <<>> -> eolMode
                        [] OTHER        -> x.out \o eolMode \o eolMode,
              done |-> all,
              modified |-> x.modified \/ all > one]

JoinLinesEx(e) ==
    LET t == Block(e)
        join == Scan(LAMBDA x, i : JoinAt(t, x, i), [out |-> <<>>, done |-> 0, modified |-> FALSE],
                     Len(t))
    IN  IF HasSelection(e) /\ join.modified THEN ReplaceBlock(e, join.out) ELSE e

\* SCI_LINESJOIN on the selection, then the above.  An end of CR LF goes in one piece.
JoinLine(line, x) ==
    LET p == LineEndPosition(x.e.text, line)
        next == PositionFromLine(x.e.text, line + 1)
        gap == IF p > 0 /\ x.e.text[p] = SP THEN <<>> ELSE <<SP>>
    IN  IF p >= x.end THEN x
        ELSE [e |-> ReplaceTarget(x.e, p, next, gap), end |-> x.end - (next - p) + Len(gap)]

JoinLines(e) ==
    JoinLinesEx(Scan(LAMBDA x, i : JoinLine(FirstLine(e), x), [e |-> e, end |-> SelectionEnd(e)],
                     LineCount(e.text)).e)

-----------------------------------------------------------------------------
(* Saving: EditSaveFile strips blanks, and completes the bare ">" of .cps files. *)

CompletePrompt(e, line) ==
    LET p == LineIndentPosition(e.text, line)
        end == LineEndPosition(e.text, line)
    IN  IF p + 1 = end /\ e.text[end] = Prompt THEN ReplaceTarget(e, end, end, <<SP>>) ELSE e

BeautifyCPS(e) == OverLines(CompletePrompt, e, 0, LineCount(e.text) - 1)

Filtered(e, bAutoStripBlanks, cps) ==
    LET stripped == IF bAutoStripBlanks THEN StripTrailingBlanks(e) ELSE e
    IN  IF cps THEN BeautifyCPS(stripped) ELSE stripped

-----------------------------------------------------------------------------
(* Find and replace. *)

\* Where a match of what from position p ends.
MatchEnds(t, what, p) ==
    LET line == LineFromPosition(t, p)
        end == LineEndPosition(t, line)
    IN  IF ~what.regexp
        THEN {q \in {p + Len(what.find)} : q <= Len(t) /\ TextRange(t, p, q) = what.find}
        ELSE CASE what.pattern = "^"  -> {q \in {p} : p = PositionFromLine(t, line)}
               [] what.pattern = "$"  -> {q \in {p} : p = end}
               [] what.pattern = "^$" -> {q \in {p} : p = end /\ p = PositionFromLine(t, line)}
               [] OTHER               -> {q \in {end} : p < end /\ BlanksBefore(t, line, end) <= p}

\* SCI_FINDTEXT from a position to the end of the text: the first match or none.
FindText(t, what, from) ==
    LET at == {p \in from..Len(t) : Valid(t, p) /\ MatchEnds(t, what, p) # {}}
    IN  IF at = {} THEN {}
        ELSE {[start |-> Min(at), end |-> Min(MatchEnds(t, what, Min(at)))]}

\* szFind2[0] == '^', whatever kind of search it is.
RegexStartOfLine(what) ==
    IF what.regexp THEN what.pattern \in {"^", "^$"} ELSE what.find[1] = Caret
RegexStartOrEndOfLine(what) == what.regexp /\ what.pattern \in {"^", "$", "^$"}

PositionAfter(t, p) == IF p >= Len(t) THEN Len(t) ELSE IF Valid(t, p + 1) THEN p + 1 ELSE p + 2

\* Mutant: the search goes on where the match ended before it was replaced.
NextStartOfOldText(t, match, what, n) == IF match.end = match.start THEN match.end + 1 ELSE match.end
\* Mutant: an empty match is not stepped over.
NextStartAfterNothing(t, match, what, n) == match.start + n

\* Where the search goes on after a match has been replaced.
NextStart(t, match, what, n) ==
    LET after == match.start + n
        past == IF match.start = match.end /\ ~(RegexStartOrEndOfLine(what) /\ n > 0)
                THEN PositionAfter(t, after) ELSE after
        line == LineFromPosition(t, past)
    IN  IF RegexStartOfLine(what) /\ past = PositionFromLine(t, line)
        THEN PositionFromLine(t, line + 1) ELSE past

NoSearch == [active |-> FALSE]

\* EditReplaceAll and EditReplaceAllInSelection up to their loop.
ReplaceAll(what, with, inSelection) ==
    /\ ~search.active
    /\ commands < MaxCommands
    /\ commands' = commands + 1
    /\ search' = [active |-> TRUE, what |-> what, with |-> with, inSelection |-> inSelection,
                  from |-> IF inSelection THEN SelectionStart(editor) ELSE 0,
                  done |-> FALSE, count |-> 0, targetEnd |-> 0, origin |-> editor]
    /\ UNCHANGED <<editor, eolMode>>

Matches ==
    IF search.done THEN {}
    ELSE {m \in FindText(editor.text, search.what, search.from) :
             search.inSelection =>
                 m.start >= SelectionStart(editor) /\ m.end <= SelectionEnd(editor)}

ReplaceNext ==
    /\ search.active
    /\ Len(editor.text) <= MaxLength
    /\ \E match \in Matches :
        LET done == ReplaceTarget(editor, match.start, match.end, search.with)
            after == match.start + Len(search.with)
            next == NextStart(done.text, match, search.what, Len(search.with))
        IN  /\ editor' = done
            /\ search' = [search EXCEPT
                   !.from = next, !.count = @ + 1, !.targetEnd = after,
                   !.done = \/ after = Len(done.text)
                            \/ RegexStartOfLine(search.what) /\ next = Len(done.text)]
    /\ UNCHANGED <<eolMode, commands>>

\* The selection is made to reach the last replacement.
EndReplaceAll ==
    /\ search.active
    /\ Matches = {}
    /\ editor' = IF search.inSelection /\ search.count > 0
                    /\ SelectionEnd(editor) < search.targetEnd
                 THEN IF editor.anchor > editor.caret
                      THEN [editor EXCEPT !.anchor = search.targetEnd]
                      ELSE [editor EXCEPT !.caret = search.targetEnd]
                 ELSE editor
    /\ search' = NoSearch
    /\ UNCHANGED <<eolMode, commands>>

-----------------------------------------------------------------------------
(* The editor and its commands. *)

JoinTo(lines, eol, t, i) == IF i = 1 THEN lines[1] ELSE t \o eol \o lines[i]

Joined(lines, eol) == Scan(LAMBDA t, i : JoinTo(lines, eol, t, i), <<>>, Len(lines))

Opened(lines, eol) == SetSel(Joined(lines, eol), 0, 0)

Init ==
    /\ eolMode \in EOLModes
    /\ \E lines \in Texts : editor = Opened(lines, eolMode)
    /\ search = NoSearch
    /\ commands = 0

\* Another file; also what is left to do at the bounds.  A Replace All with a text
\* grown past MaxLength stands for one that goes on: the program is ended and started.
OpenFile ==
    /\ IF search.active THEN Len(editor.text) > MaxLength ELSE commands = MaxCommands
    /\ \E lines \in Texts : editor' = Opened(lines, eolMode)
    /\ search' = NoSearch
    /\ commands' = 0
    /\ UNCHANGED eolMode

Select ==
    /\ ~search.active
    /\ commands < MaxCommands
    /\ \E anchor, caret \in 0..Len(editor.text) :
        /\ Valid(editor.text, anchor) /\ Valid(editor.text, caret)
        /\ editor' = SetSel(editor.text, anchor, caret)
    /\ UNCHANGED <<eolMode, search, commands>>

\* A command has run.
Ran(e) ==
    /\ ~search.active
    /\ commands < MaxCommands
    /\ commands' = commands + 1
    /\ editor' = e
    /\ UNCHANGED <<eolMode, search>>

MoveLineUp == Ran(MoveUp(editor))
MoveLineDown == Ran(MoveDown(editor))
ConvertTabs == \E onlyIndent \in BOOLEAN : Ran(TabsToSpaces(editor, onlyIndent))
ConvertSpaces == \E onlyIndent \in BOOLEAN : Ran(SpacesToTabs(editor, onlyIndent))
Compress == Ran(CompressSpaces(editor))
Modify == \E open \in {<<>>, Open}, close \in {<<>>, Close} : Ran(ModifyLines(editor, open, close))
Enclose == Ran(EncloseSelection(editor, Open, Close))
ToggleComments(insertAtStart) ==
    \E compares \in BOOLEAN : Ran(ToggleLineComments(editor, insertAtStart, compares))
Pad == Ran(PadWithSpaces(editor))
StripFirst == Ran(StripFirstCharacter(editor))
StripLast == Ran(StripLastCharacter(editor))
Trim == ~HasSelection(editor) /\ Ran(StripTrailingBlanks(editor))
RemoveBlank(merge) == Ran(RemoveBlankLines(editor, merge))
Wrap(column) == Ran(WrapToColumn(editor, column))
Join == Ran(JoinLines(editor))
JoinEx == Ran(JoinLinesEx(editor))
Filter(strip, cps) == Ran(Filtered(editor, strip, cps))

BlanksAtEnds == [regexp |-> TRUE, pattern |-> "[ \\t]+$"]

\* Trim with a selection.
TrimSelection ==
    /\ HasSelection(editor)
    /\ ReplaceAll(BlanksAtEnds, <<>>, TRUE)

Next ==
    \/ Select
    \/ MoveLineUp \/ MoveLineDown
    \/ ConvertTabs \/ ConvertSpaces \/ Compress
    \/ Modify \/ Enclose \/ Pad
    \/ \E atStart \in BOOLEAN : ToggleComments(atStart)
    \/ StripFirst \/ StripLast \/ Trim \/ TrimSelection
    \/ \E merge \in BOOLEAN : RemoveBlank(merge)
    \/ \E column \in Columns : Wrap(column)
    \/ Join \/ JoinEx
    \/ \E strip, cps \in BOOLEAN : Filter(strip, cps)
    \/ \E what \in Searches, with \in Replacements, inSelection \in BOOLEAN :
        ReplaceAll(what, with, inSelection)
    \/ ReplaceNext \/ EndReplaceAll \/ OpenFile

Spec == Init /\ [][Next]_vars

-----------------------------------------------------------------------------
(* Properties. *)

\* The selection stays inside the text and never falls between CR and LF.
TypeOK ==
    /\ editor.text \in Seq(Nat \ {0})
    /\ Valid(editor.text, editor.anchor) /\ Valid(editor.text, editor.caret)
    /\ eolMode \in EOLModes
    /\ search.active \in BOOLEAN

\* Commands that move, add, join or remove lines leave every line end of the text
\* in the form the file has.
LineEndsUniform ==
    LET t == editor.text
    IN  \A p \in 1..Len(t) : EndsLine(t, p) => TextRange(t, Max({p - Len(eolMode), 0}), p) = eolMode

\* The characters that are not blank, each with whether it continues a word.
Words(t) ==
    LET White(i) == i = 0 \/ IsBlank(t[i]) \/ IsEnd(t[i])
    IN  [i \in DOMAIN SelectSeq([j \in 1..Len(t) |-> j], LAMBDA j : ~White(j)) |->
            LET j == SelectSeq([k \in 1..Len(t) |-> k], LAMBDA k : ~White(k))[i]
            IN  <<t[j], White(j - 1)>>]

EndsIn(Kind(_), e) == HasSelection(e) /\ Kind(e.text[SelectionEnd(e)])

\* What reformats text keeps its words: nothing is lost and no two words become one.
\* Not so where the block to wrap ends with a blank, or the one to join with a line
\* end: these are dropped, and the last word of the block is joined to what follows.
WordsKept ==
    [][(\/ ConvertTabs \/ ConvertSpaces \/ Compress \/ Pad \/ Trim \/ Join
        \/ \E merge \in BOOLEAN : RemoveBlank(merge)
        \/ (\E column \in Columns : Wrap(column)) /\ ~EndsIn(IsBlank, editor)
        \/ JoinEx /\ ~EndsIn(IsEnd, editor))
       => Words(editor'.text) = Words(editor.text)]_vars

\* A place for every character that is not blank: its line and its column.
Places(t) ==
    {<<LineFromPosition(t, p), GetColumn(t, p), t[p + 1]>> :
        p \in {q \in 0..Len(t) - 1 : ~IsBlank(t[q + 1]) /\ ~IsEnd(t[q + 1])}}

\* Turning tabs into blanks, blanks into tabs, and padding move nothing that can be seen.
ColumnsKept ==
    [][ConvertTabs \/ ConvertSpaces \/ Pad => Places(editor'.text) = Places(editor.text)]_vars

\* Moving lines down takes back moving them up, and the other way round, at the last
\* line without a line end as well.  Not so for a block that now ends with an empty
\* last line, which no selection can reach into.
MovesInvert ==
    LET up == MoveUp(editor)
        down == MoveDown(editor)
        Ends(e) == FirstLine(e) < LastLine(e) /\ EndsLine(e.text, SelectionEnd(e))
                   /\ SelectionEnd(e) = Len(e.text)
    IN  /\ up.text # editor.text /\ ~Ends(up) => MoveDown(up).text = editor.text
        /\ down.text # editor.text /\ ~Ends(down) => MoveUp(down).text = editor.text

\* Toggling the comments of lines of which none is one twice leaves them as they were,
\* whatever the buffer holds the second time.  Not so where it happens to hold the comment
\* the first time: a last line too short to be read then counts as a comment.
CommentsToggleBack ==
    (\A line \in FirstLine(editor)..LastSelectedLine(editor) :
        ~Commented(editor.text, LineIndentPosition(editor.text, line))) =>
    \A atStart \in BOOLEAN :
        LET once == ToggleLineComments(editor, atStart, FALSE)
        IN  \A compares \in BOOLEAN :
                ToggleLineComments(once, atStart, compares).text = editor.text

\* What only cleans up a text has nothing left to do on its own result.
Settled ==
    /\ ~HasSelection(editor) =>
        /\ LET e == CompressSpaces(editor) IN CompressSpaces(e).text = e.text
        /\ LET e == StripTrailingBlanks(editor) IN StripTrailingBlanks(e).text = e.text
        /\ \A merge \in BOOLEAN :
            LET e == RemoveBlankLines(editor, merge) IN RemoveBlankLines(e, merge).text = e.text
        /\ \A strip, cps \in BOOLEAN :
            LET e == Filtered(editor, strip, cps) IN cps => Filtered(e, FALSE, cps).text = e.text
    /\ \A column \in Columns :
        LET e == WrapToColumn(editor, column) IN WrapToColumn(e, column).text = e.text
    /\ \A onlyIndent \in BOOLEAN :
        /\ LET e == TabsToSpaces(editor, onlyIndent) IN TabsToSpaces(e, onlyIndent).text = e.text
        /\ LET e == SpacesToTabs(editor, onlyIndent) IN SpacesToTabs(e, onlyIndent).text = e.text

\* Replacing every occurrence of a string from left to right, and dropping the blanks
\* at the ends of lines, as they are meant.
Substituted(t, find, with) ==
    LET n == Len(t)
        From[i \in 1..n + 1] ==
            IF i > n THEN <<>>
            ELSE IF i + Len(find) - 1 <= n /\ SubSeq(t, i, i + Len(find) - 1) = find
            THEN with \o From[i + Len(find)]
            ELSE <<t[i]>> \o From[i + 1]
    IN  From[1]

\* Replace All of a string replaces every occurrence in the text, or in the selection,
\* once: what it puts there is not searched again, and nothing outside changes.  A string
\* that begins with ^ is left out: the loop takes it for a regular expression.
ReplacesEveryOne ==
    [][EndReplaceAll /\ ~search.what.regexp /\ search.what.find[1] # Caret
       => LET was == search.origin
              from == IF search.inSelection THEN SelectionStart(was) ELSE 0
              to == IF search.inSelection THEN SelectionEnd(was) ELSE Len(was.text)
          IN  editor.text = Replaced(was.text, from, to,
                  Substituted(TextRange(was.text, from, to), search.what.find, search.with))]_vars

\* The places that the search has still ahead of it.
Ahead ==
    IF search.done THEN {}
    ELSE {p \in search.from..Len(editor.text) :
             Valid(editor.text, p) /\ MatchEnds(editor.text, search.what, p) # {}}

\* "$" is replaced by a text, which is put before the line end.
PutsBeforeLineEnds ==
    search.what.regexp /\ search.what.pattern = "$" /\ search.with # <<>>

\* Every replacement leaves Replace All fewer places to come to, so that it ends.
\* Not so for "$" and a text: the search finds the same line end again.
ReplacingAdvances ==
    [][ReplaceNext /\ ~PutsBeforeLineEnds => Cardinality(Ahead') < Cardinality(Ahead)]_vars

\* "Fixed bug with regular expression search causing infinite loop" (TE.txt:305): every
\* replacement leaves Replace All fewer places to come to, so that it ends.
ReplacingEnds ==
    [][ReplaceNext => Cardinality(Ahead') < Cardinality(Ahead)]_vars

\* No line that Wrap makes of the block is longer than the column, but for one word
\* alone and for blanks at its ends.
WrapFits ==
    \A column \in Columns :
        LET e == WrapToColumn(editor, column)
            t == Block(e)
        IN  e.text # editor.text =>
            \A line \in 0..LineCount(t) - 1 :
                LET end == LineEndPosition(t, line)
                    l == TextRange(t, LineIndentPosition(t, line), BlanksBefore(t, line, end))
                IN  Len(l) <= column \/ \A i \in DOMAIN l : ~IsBlank(l[i])
=============================================================================
