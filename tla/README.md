# Verification of te.xteditor

TLA+ models of te.xteditor (a Notepad2 descendant for Windows, `src/src/`), the TLC
runs that check them on small instances and the TLAPS proofs that hold for every
instance. Line numbers refer to the files under `src/src/` unless another path is
given; `src/TE.c` at the top of the repository is an old copy the project file
does not compile.

## The system

| Component | Source | State it keeps | Operations |
|---|---|---|---|
| Document | `TE.c` FileLoad 7192, FileIO 7140, FileSave 7497, xfilesave 2322, MsgCommand, MainWndProc; `Edit.c` EditSaveFile 1259, EditSetNewText 276 | `szCurFile`, `bModified`, `bReadOnly`, Scintilla's text, save point and read-only flag, the files on disk | new, open, drop, recent, favourites, revert, save, save as, save copy, read-only, run a tool, close, exit, session end, Shift+Esc, F2 |
| Directory lists | `Dlapi.c`; Open With and Favourites in `Dialogs.c` | two events, the list's items and icons, the shell folder | fill, start and stop the icon thread, destroy |
| Recent lists | `Helpers.c` MRU_ 1568–1794 | a list per instance, a section of the INI file shared by all instances | load, add, delete, delete from store, empty, merge and save |
| Preview | `WebView2Helper.cpp`, `MarkdownPreview.c`, `TE.c` TogglePreview | initialised/ready flags, pending HTML, three mode flags, the windows shown, the menu | initialise (two asynchronous callbacks), navigate, toggle, refresh, context menu, clean up |
| Shutdown | `TE.c` 1140–1208 | `bShutdownOK`, settings, lists | WM_ENDSESSION, WM_DESTROY |
| Text, lines and undo | Scintilla's `CellBuffer.cxx`, `UndoHistory.cxx`, `Partitioning.h`, parts of `Document.cxx` and `ScintillaWin.cxx` | the text, the line starts, the actions and their scrap stack, the save point, the tentative point | insert, delete, group, undo, redo, input composition, save point, empty the history |
| Encodings, line ends | `Edit.c` EditLoadFile 923, EditSaveFile; `TE.c` `bSaveWithBOM` | `iEncoding`, `iOriginalEncoding`, `iEOLMode` | detect, convert, write |
| Editing commands | `Edit.c` 1389–4600, 5053– | the text | sort, move, indent, wrap, strip, compress, tabs, CPS beautifier |
| Find and replace | `Edit.c` 4615–5800 | search options, modeless dialog | find, replace, replace all |
| Settings, command line | `TE.c` 5464–6900 | globals, INI file | load, save, parse |
| Schemes, printing, HTML clipboard | `Styles.c`, `Print.cpp`, `HtmlClipboard.cpp` | tables, device state | presentation only |
| The rest of Scintilla, Lexilla, cmark-gfm, WebView2 SDK | vendored directories | — | libraries |

**How they interact.** One thread runs the main window. Commands and window
messages call FileLoad and FileSave directly; these show message boxes and file
dialogs, each of which runs a *nested message loop*. In such a loop other
programs change the disk, timers and posted messages arrive and the *modeless*
Find/Replace dialog goes on editing the text (`Edit.c` 5035). Scintilla tells
the window of the save point by notifications (`TE.c` 5324–5336), which are the
only thing that sets `bModified`. FileLoad and FileSave add to the recent list;
WM_DESTROY merges it into the INI file, which other instances of the program
read and write too. The directory dialogs start a second thread, which shares
two events with the first and sends it messages. WebView2 answers by callbacks
from the message loop, nested loops included, and a key pressed inside it is
posted back to the window as the toggle command. The editing commands change the
text through messages to Scintilla, which records an undo action and patches its
line starts at each change.

**What is hard.** The prompts inside FileLoad, FileSave and the handlers around
them; state read before a prompt and used after it (`bReadOnly`); results that
are ignored (xfilesave, Shift+Esc); writes that fail half-way; changes by other
programs; two threads that wait for each other; a thread that was created and
has not run; read-modify-write of the INI file by several processes; lists at
their capacity; late callbacks; commands posted behind a message box; line starts
that are patched instead of recomputed, under a lazily applied shift; a history
that is cut, coalesced and moved through while a save point stands in it; loops
over text that look one character past a block. `PROJECT.json` lists these hazards line by line
with the properties that cover them.

**What makes each part correct.** *Document*: modified text is not lost without
the user's consent, and "not modified" means stored. *Icon thread*: waiting for
it ends, and every listing gets its icons. *Recent lists*: bounded, free of
duplicates, merged rather than overwritten. *Preview*: windows and
menu follow the mode, a ready preview shows what it was asked for, there is one
web view, and creating it ends. *Shutdown*: settings are saved (not
modelled), lists merged once and the web view closed with them. *Text, lines and undo*: undo and redo give back
the texts that were there, the save point means the saved text, the window knows
of it, and the line starts are those of the text. *Editing commands*: words,
columns and line ends survive, inverse commands are inverse. *Replace All*: each
occurrence once, and it ends. *Encodings* (not modelled): saving and loading give
the text back.

## Modules

| Module | Contents |
|---|---|
| `Document` | the document's life: state, actions, properties |
| `MCDocument` | its small instance (two files, three texts, four command lines) |
| `DocumentProofs` | its inductive invariant and theorems |
| `IconThread` | the icon thread of a directory list; checked directly, its constants are numbers |
| `IconThreadProofs` | its theorems |
| `MruStore` | a recent list shared by several instances |
| `MCMruStore` | its small instance |
| `MruStoreProofs` | its theorems |
| `Partitioning` | Scintilla's lazily shifted line starts, as operators on records |
| `UndoHistory` | the undo actions, their scrap stack, save point and tentative point |
| `CellBuffer` | text, line starts and history composed; edits, undo, redo, input composition, saving, loading |
| `TextHistory` | the abstract specification: a row of texts with marks to jump between |
| `MCCellBuffer` | CellBuffer's small instance |
| `CellBufferProofs` | what each call of Partitioning does to the positions; CellBuffer's inductive invariant and theorems |
| `CellBufferLines` | the proof that its line starts are those of its text |
| `CellBufferRefinement` | the proof that CellBuffer implements TextHistory |
| `WebViewPreview` | the preview, its web view and the end of the program; checked directly |
| `WebViewPreviewProofs` | its inductive invariant and theorems |
| `TextLines` | the editor control as the commands see it: lines, columns, a selection that moves with changes |
| `EditCommands` | the line and block commands, the filters of a save and Replace All |
| `MCEditCommands` | its small instance |
| `EditCommandsProofs` | its inductive invariant and theorems |

### Document

The state is the disk (`files`, `readOnlyAttr`, `backup`), the control (`text`,
`savedText`, `savePoint`, `sciReadOnly`), the globals under their own names, the
command line (`opts`) and where the program is: `pc` names the prompt that is
up, and `call` is the activation of FileSave that waits for it, with its four
arguments, its result and the handler it returns to (`then`).

A handler without a prompt is one action. A handler with prompts is cut exactly
there: `FileSave` runs from its entry to the first prompt, `AnswerSave`,
`AnswerReadOnly` and `AnswerSaveFileDlg` from an answer to the next prompt or to
the return, and `SaveReturns` runs what the caller does with the result.
Between these, `ReplaceBehindPrompt` (the modeless dialog) and `ExternalChange`
(other programs) may act. `FileIO` is one action with four outcomes: the write
is skipped because `bReadOnly` is set, the file cannot be opened, it is
truncated and the write fails, or it succeeds.

Texts are abstract: `Tidy` stands for what EditSaveFile does to the buffer
before it writes (line ends, trailing blanks, CPS), `Stamp` for
CpsUpdateChangedMarker. Both may change the text or leave it, so both the
notification of leaving the save point and its absence occur. `Blank` are the
texts the "empty new file" test accepts. `astray` is history: it records each
event after which the code cannot know that the file still is what it shows
(a skipped write, a damaging failure, Save Copy over the own file, a change
by another program), or that the text changed behind a dialog that came after
the question. Properties use it to say under which conditions they hold.

Left out: the comparison `iEncoding == iOriginalEncoding` in FileSave's early
return (no encoding is modelled yet; a changed encoding only makes it ask more),
the recent list's own test before IDM_FILE_RECENT, the .f2c file of xfilesave,
window titles and status texts. `FileRecent` stands for favourites too, and
`FileRunTool` for every command that saves before it starts a program.

### IconThread

Each call of the kernel is a step of its own: setting, resetting and testing an
event, creating a thread, and each list view message, which blocks its sender
until the dialog's thread answers it (`Answer`), in its idle loop or in the
PeekMessage loop of DirList_TerminateIconThread. In that loop the user's next
command may be dispatched too: `stack` holds the nested activations, each with
what it is to do when the thread has stopped. A created thread starts
to run at any later time (`Begin`). After DirList_Destroy the data is gone:
whatever a surviving thread does then is out of the model (`Orphan`), and
`ThreadStopped` says that this should not happen.

### MruStore

`store` is the section of the INI file and `list[i]` an instance's list; the
loops of MRU_DeleteFileFromStore and MRU_MergeSave run on `base`, a copy, one
entry per step, between the step that reads the section and the step that
replaces it. A write may fail, which the code does not notice. An instance
may end at any moment without saving (`Quit`): xfilesave's exit(0), a crash, the
end of a process that frees an entry twice, or an end without an INI file, where
the merge is skipped (`TE.c` 1174).

MRU_Delete frees the last slot of a full list and keeps its pointer. Such a slot is
marked `Freed`; since whoever allocates next may be given its memory, it *reads* as
any item, one that is listed too (`Reads`, `Found`), and freeing it again may free
another entry of the list, which is then `Freed` as well (`AfterFree`). `storeMisread`,
`listMisread` and `baseMisread` are history: what was read through such a pointer has
got into a section, or has been found in place of the entry it equals. The last of
these is the exception of `NoDuplicates`: there the code does list a file twice.

The two spellings of a file that MRU_AddFile compares are one item. MRU_Add and
MRU_AddFile are the same operation then, and the lists of search and replace strings
are instances without RemoveItem. The three lists of one process are separate
instances of the model: memory that one of them frees is not handed out to another.

### Partitioning, UndoHistory, CellBuffer, TextHistory

`Partitioning` is a record `[last, body, stepPartition, stepLength]` and one
operator per method; the elements after `stepPartition` are `stepLength` short of
what they stand for. `UndoHistory` holds the state of that class; an index i of
its vector is i + 1. `CellBuffer` composes both. `InsertedStarts` and
`DeletedStarts` are BasicInsertString and BasicDeleteChars: the patches at a CR LF
that is split or joined, one new line start per line end inserted, one removed per
line end deleted. An edit appends an action, changes the text and notifies the
window in one step, because nothing runs between these. Undo, redo and a tentative
undo are one step per action, because the control notifies the window between
them; `op` says which one runs, and as `enteredModification` does it shuts every
other change out. `Composition` is ScintillaWin's inline input method: take back
the provisional text, insert the next one. `bModified` is the window's flag, and
what sets it is only what the notifications report.

`texts`, `scrapAt`, `groupStart`, `savedText` and `recoded` are history
variables: the text and the scrap position at each index of the undo history, the
text at the save point. `TextHistory` is what the window relies on: texts in a
row, marks at the ends of user operations, jumps from mark to mark, a save point
that is always a mark, nothing marked inside a compound operation. `CellBuffer`
implements it (`KeepsTextHistory`): while an undo or redo runs, the abstract state
still stands where it began.

Left out: container actions, the detach point, styles and markers; `readOnly`
(Document has it); UTF-8 line ends. A tentative point may stay behind when the
user undoes beyond it: the code leaves it too. EditConvertText empties the history
without setting the save point, so a text recoded since its last save is outside
`SavePointMeansSaved` and `ModifiedTracked` (`recoded`).

### WebViewPreview

The flags carry their own names. `ready` is g_webviewReady with a web view to go with
it. `environments` and `controllers` count the creations in flight, whose callbacks
(`EnvironmentCompleted`, `ControllerCompleted`) may succeed or fail, or bring a
controller whose get_CoreWebView2 failed, which is reported to nobody (298); they may
come in any message loop, before or after the window is destroyed. `posted` counts the
toggle commands in the message queue; `loops` is the stack of message boxes and menus,
each with what the code does after it. `Shutdown` is what the block of WM_DESTROY and
WM_ENDSESSION that `bShutdownOK` guards does to the preview; the recent lists that it
merges are `MruStore`'s, and SaveSettings is not modelled. `astray` records what the
code makes no provision for, and the properties name it where they need it:

- *typeChanged*: opening a file of another type during a preview leaves the pane
  of the old type beside the editor;
- *toggledBehindBox*: toggles posted while the RTF failure box is up leave the
  editor hidden with `bPreviewMode` FALSE;
- *creationFailed*: `g_webviewInitialized` is already set, so a failed creation is
  never retried;
- *noWebView*: the same, and no box says so;
- *callbacksOrphaned*: CleanupWebView2 has run while callbacks were still to come.
  When the session end is then refused by another program (WM_ENDSESSION ignores
  wParam) the program goes on, and they and the next preview make two web views.

A refused session end without such callbacks is no exception: the next preview makes a
new web view, and the properties hold of it. `WindowsFollowMode` alone then promises
no pane, as an open preview is left blank.

Also visible in the model and not called wrong by any document: Refresh renders an
HTML file as Markdown; two quick Esc or F12 toggle back into the preview; each
failed initialisation leaves its host window; a dismissed menu leaves
`g_selectedText`; the RTF preview shows the file on disk, not the text. Left out:
the conversions, the exports, resizing, the settings of the web view, the boxes that
the failed callbacks show.

### TextLines and EditCommands

A command is an operator from an editor `[text, anchor, caret]` to an editor,
because it runs to its end before the window handles another message; Replace All
is one step per replacement, because nothing bounds its loop but the search it
repeats. `TextLines` says what a change does to the selection and what a line and
a column are: the control keeps the line starts of its text (`CellBufferLines`), so
the line of a position is the number of line ends up to it. The round of each loop
is an operator of its own (`TabToSpaces`, `WrapAt`, `StripFirstOf`), run by `Scan`
and `OverLines`. The filters of EditSaveFile are `Filtered`, the concrete form of
what `Document` calls `Tidy`.

What the properties had to be stated around, as the code behaves so:

- Replace All of the regular expression `$` by a text that is not empty finds the
  same line end for ever and grows the text (`Edit.c` 5383–5394; `src/TE.txt`:305
  lists an endless loop of this kind as fixed): the exception of
  `ReplacingAdvances`, and what `ReplacingEnds` is violated by;
- a literal search that begins with `^` is treated as one for the start of a line
  (`Edit.c` 5336): the exception of `ReplacesEveryOne`;
- Wrap drops the blanks at the end of its block and joins the last word to what
  follows, Join Paragraphs drops the line end there: the exceptions of
  `WordsKept`;
- a block moved down that then ends with an empty last line cannot be selected
  again: the exception of `MovesInvert`;
- Toggle Line Comments asks for as many characters as the comment has, and Scintilla
  leaves the buffer alone when that would reach past the end of the text
  (`Edit.c` 3235, `CellBuffer.cxx` 363): a last line shorter than the comment is taken
  for what the buffer held before, from an earlier line or by chance (`compares`).
  Nothing is deleted then, but the line may be passed over: the exception of
  `CommentsToggleBack`. Letters are compared without regard to case. The buffer of 31
  characters is an assumption on `Comment`: the program's own comments have at most
  four (`TE.c` 3656–3687);
- EditMoveDown appends the missing line end before it begins its undo group; Pad
  looks up old positions in the new text; EditSortLines cannot be reached
  (`TE.c` 3418–3429).

The texts opened have line ends of one form, and what is inserted, searched for or
put in its place has none and no character 0: the dialogs' one-line fields give no
others. A search or replacement whose `\r` and `\n` are transformed into line ends
is left out, as a file with line ends of several forms is.

Left out: EditAlignText, the numbering of EditModifyLines, indentation, case and
URL conversions, rectangular selections, characters of more than one byte,
EditFindNext, EditFindPrev, the single EditReplace.

## Runs

| Run | Checks | States, time |
|---|---|---|
| `document` | `TypeOK`, `CleanMeansStored`, `SavePointTracked`, `NoSilentLoss` | 1.4 million, 1 min |
| `document_save_to_different_file` | `SaveToDifferentFile` is violated | short |
| `document_revert_keeps_file` | `RevertKeepsFile` is violated | short |
| `icon_thread` | `TypeOK`, `TerminationPending`, `CommandsEnd`, `AllIcons` | 143 thousand, 15 s |
| `icon_thread_stopped` | `ThreadStopped` is violated | short |
| `mru_store` | `TypeOK`, `NoDuplicates`, `MergedInOrder` | 2.7 million, 2 min |
| `mru_merged_on_save` | `MergedOnSave` is violated | short |
| `mru_removal_shortens` | `RemovalShortens` is violated | short |
| `cell_buffer` | `TypeOK`, `HistoryReplays`, `SavePointMeansSaved`, `ModifiedTracked`, `LinesMatch`, `KeepsTextHistory` | 1.4 million, 70 s |
| `preview` | `TypeOK`, `WindowsFollowMode`, `PreviewShowsText`, `OneWebView`, `CreationEnds`, `FindSearches` | 391 thousand, 35 s |
| `text_commands` | `TypeOK`, `LineEndsUniform`, `MovesInvert`, `CommentsToggleBack`, `Settled`, `WrapFits`, `WordsKept`, `ColumnsKept`, `ReplacesEveryOne`, `ReplacingAdvances` | 128 thousand, 2 min |
| `text_commands_replacing_ends` | `ReplacingEnds` is violated | short |

**What the passing runs show.** A document not marked as modified is what its
file holds, unless one of the events in `astray` came between them. `bModified`
is the opposite of Scintilla's save point until a write has been skipped. No
step drops modified text unless the user answered No, the document is blank and
untitled, /IN or F2 forces the end, or the text was typed behind a file dialog
that came after the question; those exceptions are the code's, and two of the
violated properties below are about them. F2 is the plainest: xfilesave (2333) ignores
FileSave's result and calls exit(0), although its save may fail or be refused at the
read-only question. Waiting for the icon thread ends and
listings are completed even when commands nest and threads start late. Recent
lists stay bounded and merge in the right order, and they are free of duplicates but
where an entry was read through a freed pointer.

The incremental line starts are always those of the text, with CR LF split and
joined in every way and the lazy shift anywhere. However edits, groups, saves,
compositions, undo and redo follow each other, each index of the history keeps its
text, the save point is reached with the text that was saved, no typing is
coalesced over it, and the window is told. The preview's windows and menu follow
its mode and its page is the one asked for, whatever callbacks, posted toggles and
boxes come in between, and also after a session end that was refused; there is one
web view; a creation that was started ends, in a view, in a failure reported or in a
controller without a view; Find chosen in the preview searches. The editing commands keep words, columns and uniform line ends,
have nothing left to do on their own result, and take each other back; Replace All
treats each occurrence once and ends, but for `$` replaced by a text.

**What the violated ones show.**

- *SaveToDifferentFile.* Open a read-only file, edit, save, answer Yes to "Save
  to a different file?", choose a name: FileIO (7172) sees `bReadOnly` still set,
  writes nothing and returns TRUE. FileSave adopts the name and clears
  `bModified`. The text is nowhere on disk and closing does not ask.
- *RevertKeepsFile.* Revert calls FileLoad with `bDontSave` FALSE (2520). Under
  /IN or /I- FileSave does not ask, so the changes that "will be lost" are
  written to the file, and then loaded.
- *ThreadStopped.* hTerminatedThread is reset by the thread (Dlapi.c 410), not by
  its creator (151 is commented out): until a created thread has run it
  counts as terminated.
- *MergedOnSave.* Two instances closing at the same time both read the section;
  the second to write erases what the first added.
- *RemovalShortens.* MRU_Delete of the last slot of a full list frees the entry
  and keeps the pointer (Helpers.c 1652).
- *ReplacingEnds.* Replace All of `$` by a text puts it before the line end and goes on
  behind it (Edit.c 5393), where `$` matches the same line end. `DollarComesAgain`
  proves that this is so after each of its replacements, for every text.

**Bounds.** `Document`: two files are enough for "the document's own" and
"another" in every role (target, external change, current name); three
texts separate empty, rewritten by a save and unchanged by it; the four command
lines are the plain one with F2, /IR, /I- and /IN with F2. No counter is
bounded: the state space is finite. `IconThread`: three threads let an
outliving thread meet two later ones, two items distinguish the first from the
last, depth 2 has one command inside another's wait; `ShowDirectory` is
disabled when no thread is left to create. `MruStore`: two instances, three
items and capacity 2 make lists that are full, overflow and are merged with
entries they do not have. A freed entry before the item it is taken for
(`MayMisread`) needs capacity 3 in an instance's own list, and is reached there by a
run with one instance that is not kept; for capacity 2 it is reached in no list, so
that this part of `NoDuplicates` rests on its theorem. Symmetry is used for file names, instances and items, in
runs of safety properties only. `CellBuffer`: insertions of a letter, an LF and a
CR LF (deletion makes the lone CR) into texts of up to three characters and up to
three actions, the length of the loaded text included, give every split and join of
a line end, a cut history, a coalesced run and a save point before, in and after
each; one level of groups, as the code tells depth 0, 1 and more apart only to
nest. `WebViewPreview`: two texts tell a stale page from a fresh one, two posted
toggles are a double key press, two nested loops put a box over a menu or a box.
`EditCommands`: one command on every text of one line of up to three characters,
two lines of four kinds, three empty or single-letter lines and a few more for what
the searches, the comment of two characters and the prompt of .cps need, with every selection
and both kinds of line end; tabs are two columns wide, Replace All may grow a text
to twelve characters. Deadlock is not checked where the system may
stop: a closed document, a destroyed dialog, an ended program.

**Fairness.** `Document` and `MruStore` have none and claim no liveness: users
need not answer. `IconThread` assumes weak fairness of the dialog's thread and of
each icon thread, because the system's scheduler runs every thread that can run;
the user's commands (`ShowDirectory`, `CloseDialog`) are not fair. `CommandsEnd`
needs nothing more. `AllIcons` speaks of a list left alone for good.
`WebViewPreview` assumes weak fairness of the two callbacks and of dispatching a
posted toggle: WebView2 answers every request, with a result or a failure, and
every state of the program, boxes and menus included, runs a message loop that
delivers what is queued. The user's actions are not fair. `CellBuffer` and
`EditCommands` claim no liveness; that Replace All ends is the measure of
`ReplacingAdvances`, which is also proved.

Every property of a passing run is killed by a mutant listed in `PROJECT.json`;
the mutants stand in the modules before the definitions they replace.

## Proofs

Checked by TLAPS from the constants' assumptions alone (`DocumentAssumption`,
`IconThreadAssumption`, `MruAssumption`, `CellBufferAssumption`,
`PreviewAssumption`, `TabWidthAssumption`, `EditCommandsAssumption`).

**DocumentProofs.** `IInv` strengthens the properties by what they lean on:
`Calls` (what a suspended FileSave remembers of its caller: a copy is saved for no
caller, a revert or a drop has a target, F2 works on a named document), `Tracked`
(`SavePointTracked`, and at the save point the text is the one saved there),
`Backed` (the *save point's* text is what the file holds: unlike
`CleanMeansStored` it survives edits, so it is inductive) and `Guarded` (when
FileSave has returned TRUE to a handler about to drop the text, the text is
unmodified, given up by a No, or blank).
`Guarded` is what makes `NoSilentLoss` provable: at the step that drops the text
the question lies several steps back, so the invariant must carry its answer
there through edits from the modeless dialog and changes by other programs.
`Inductive` proves Spec => []IInv, action by action; `TypeCorrect`,
`SavePointAlwaysTracked`, `CleanAlwaysStored` and `NothingLostSilently` follow.

**IconThreadProofs.** `IInv` is `TypeOK`, `Within` (a thread that asks for an
item is within the count it took) and `TerminationPending`. The last one is the
argument of the waiting loop: only a thread's first step resets the event, and
that thread is alive until it has set it.

**MruStoreProofs.** That no item is listed twice (`Once`) is kept by `MRU_Add`
(`AddKeeps`: by cases on the slot its search stops at, `AddCases`, and on which pointer
the second free of an entry leaves behind, `FreedKeeps`) and by `MRU_Delete`
(`DeleteKeeps`) for every list, as long as no freed entry is found in place of the item
behind it. `IInv` adds that a merge reads only entries its list has (`Bounded`) and that
its copy of the section has no freed entry before the merge puts one there
(`MergesUnfreed`). `NothingListedTwice` and `MruTypeCorrect` follow for any number of
instances, any items and any capacity, whatever freed entries read as.
`MergesInOrder` needs a loop invariant across the steps of a merge, between which
other instances act: `MergedSoFar` says that the copy is the entries merged so far in
front of the section, as long as no one else has written it. `MergeGoesOn` is its
step: MRU_Add of the entry before them moves that entry to the front if the section
has it, and else inserts it there and drops the last one of a full list. It compares
the two lists element by element (`MergedAt`, `OthersDropped`).

**CellBufferProofs.** First what each call of Partitioning does to the *positions*, for any number of lines
and wherever the step stands: inserted text shifts exactly the positions after
it, inserted and removed line starts renumber the later ones and move none. The
lemmas `ApplyStepKeeps`, `BackStepKeeps` and `StepToKeeps` say that moving the step
changes no position. SetPartitionStartPosition is proved for a partition whose
successor is not before the step, which is how CellBuffer calls it: its loop writes
the element without undoing the step. `SearchFinds` is the binary search of
PartitionFromPosition, a recursive function on a pair of bounds: it is shown to be
right by the shortest range on which it would not be. `PartitionFound` says what a
caller gets: a line that begins at the position or before it, and the last such line.

Then the history. The lemmas on `Inserted` and `Deleted` say that each takes the
other back. `IInv` has `Shape` and `Stacked` (texts and scrap positions stand beside
the actions, the positions ascend and stay within the stack), `Steps` (each action
leads with its scrap from one text to the next), `Underway` (an operation in
progress leads to a place in the history: this is where the CHOOSE of `UndoTarget`
and `RedoTarget` is shown to find one, by the least number of a set) and `Believed`
(the window's flag is right for the place where the operation *began*, which makes
`ModifiedTracked` inductive through the steps of an undo). `EditKeeps` is the step
that matters: the cut and the new action leave every earlier scrap and text where
it was. `HistoryAlwaysReplays`, `SavePointAlwaysMeansSaved` and
`ModifiedAlwaysTracked` hold for every text, string and length; the bounds of the
model appear in no proof.

**CellBufferLines.** `Lines(P, t)` says that the line starts P *cover* the line ends
of the text t: they ascend strictly from 0, they are 0 and the ends of t, and the last
partition ends with the text. From this `LinesMatch` follows. `InsertedLines`
and `DeletedLines` follow BasicInsertString and BasicDeleteChars step by step: the
starts behind the place move with the text (`Moved`), a CR LF that is split gets a
start and one that is joined loses or moves one, each line end inserted gets a start
in order, each line end deleted loses its own. The loops are recursive
functions; each is shown to exist and to keep what its next step needs by the least
count at which it would not. The invariant `LInv` adds to `Lines` that no action of
the history is empty (undo and redo call the patches with something to insert or
delete) and what a composition in progress needs. `LinesInductive`,
`LinesAlwaysMatch` and `AlwaysTypeOK` hold for texts, insertions and deletions of any
length, and wherever the lazy step stands.

**CellBufferRefinement.** `Implements` is Spec => `KeepsTextHistory`: `InitSimulates`,
and `StepSimulates` case by case, each action an abstract one or a stutter. The
mapping reads the abstract marks off the actions (`Marks`: where coalescing ends),
and `RInv` adds to `IInv` what makes it work: `Grouped` (within a compound operation
every action after the first coalesces, and the save point is not inside), `AtMark`
(the window always stands at a mark) and `Aimed` (an undo or redo runs to the next
mark, with none between). `EditedMarks` is the heart of it: an edit takes the mark
before it away exactly if `Coalesces` says so, and `Joining` shows that this never
happens at the save point, at a group's or composition's beginning, and always
inside a group.

**WebViewPreviewProofs.** `IInv` adds to the invariants of the run what they lean
on: `ModeOfType` (the RTF mode is on just for RTF files), `MenuKept` (the menu is shown
or kept for later), `EditBehindBox` (the editor is still there behind RTF's box) and
`PendingIsText` (what the web view is to show waits for it until it is ready). It is
proved action by action for any number of nested loops, posted commands and texts.

**EditCommandsProofs.** `Good(mode, t)` says of a text that each of its line ends has
the form of the file, `Valid` of a place that it splits none. The lemmas on cutting
and joining (`RangeGood`, `ConcatGood`, `ReplacedIs`) say that parts of a good text
between valid places, put together, are good, and where the valid places of the result
are. The lemmas on lines say that what the commands ask for is valid: where a
line starts and ends, its indentation, the place of a column, before and behind a
change (`PositionIs`, `LineEndIs`, `FindColumnIs`, `DeleteRangeGood`). Each loop has a lemma that every round
keeps what its next round needs; `Scan` takes the round as an operator, which no lemma
can take, so each loop has one of its own, by the least count at which it would fail.
Moving lines is the hardest: `TransposeIs`, `OneLine`, `TwoLines` and `LineEndStays`
follow the places of three lines through an exchange in which the last line gives its
missing end to another. With a lemma per command, `EditInv` is inductive: the editor is
in order, and so is the one Replace All began with and the stretch it has left.
`SelectionStaysValid` and `LineEndsStayUniform` follow.

`ReplacingComesToItsEnd` shows the measure of Replace All to decrease. `MatchEnds` is
cast in terms of the characters behind a place alone (`Fits`), so it says the same of
the text behind a replacement as of the same text before it (`ShiftFits`). The places
ahead afterwards are thus mapped one to one into those ahead before, and the place of
the match itself is not among them (`PlacesFrom`, `NextStartBehind`, `FewerPlaces`):
this is where the empty and anchored matches, which the code steps over by
PositionAfter, have their cases. `$` replaced by a text is left out of it, and
`DollarComesAgain` shows the opposite for it: the place where the search goes on is a
match again (`SameEndAgain`).

`WrappingFits` follows one round of WordWrap after the other: `Fitting` says that every
line so far is within the column or has no blank in it, `HasRoom` that the counter is at
least as long as the line begun and that the word that comes fits behind it, unless the
line is that word alone. What is written is the block afterwards (`ReplacedBlock`); the
blanks at both ends of its lines do not count.

`ReplacingReplacesAll` shows that when Replace All of a string ends, the text is the one
of `Substituted`, which goes from left to right by recursion. The invariant is
`ReplacingInv`: some `n` characters of the range have become `put`, the rest is as it
was, the search goes on in front of it, and what `Substituted` makes of the range begins
with `put` and goes on with what it makes of the rest (`Halfway`). It is inductive
relative to `EditInv`: the next match is the first place of the rest at which the string
stands (`FindsFirst`, `HalfwayStands`), before it the characters stay (`StaysUntil`), and
one more replacement behind the first is one of a longer part (`SpliceAgain`). In a
selection the bounds that the loop tests move with every replacement: the end of the
selection stays in front of the end of the rest (`TargetSelection`). A recursive function
is used only by its equation, from one place to the next, with a least counterexample
(`Descending`) in place of induction.

**Only model-checked:** the liveness properties `CommandsEnd`, `AllIcons`,
`CreationEnds` and `FindSearches`, because the prover has no rule for fairness; and
of `text_commands` `MovesInvert`, `CommentsToggleBack`, `Settled`, `WordsKept` and
`ColumnsKept`. These say what two commands in a row do, or what a loop makes of a text
in terms of SelectSeq or of `GetColumn`: they need a correspondence between the rounds
of two loops, or induction over data.

## Plan

1. `Document`, `IconThread`, `MruStore` with their proofs — done.
2. `WebViewPreview`, with the end of the program, and its proofs — done.
3. `Partitioning`, `UndoHistory`, `CellBuffer` against `TextHistory`, and their
   proofs and the proof of the refinement — done.
4. `TextLines`, `EditCommands`: line and block commands, save filters, Replace All —
   done but for what the section above leaves out.
5. `DocumentSpec`, an abstract document (a text, a stored text, consent to lose
   it), and `Document` shown to implement it under the conditions `astray` names.
6. `EncodingRoundTrip`: BOM detection and conversion as functions, save and load
   composed; with it `bSaveWithBOM` surviving from the previous document
   (`TE.c` 7268).
7. `Settings`: load, save, merge and the INI file's search order.
8. Re-entrant FileSave (a stack of activations) for boxes owned by the Find dialog;
   FileMRUIconThread; the numbering of version backups up to 999.

## Not modelled

Encodings, settings and the command line are planned (6, 7): they are conversions
and tables, and what they contribute to saving appears in `Document` as constants
(`opts`) and abstract texts. MRU_Enum's read one past its array (`Helpers.c` 1697)
changes no state. FileMRUIconThread has IconThread's protocol without nested fills.
Schemes, printing and the HTML clipboard keep no protocol state of the editor's own.
Of Scintilla, drawing, styles, markers, the gap buffer and several carets are left
out; Lexilla, cmark-gfm and the WebView2 headers are libraries the editor uses as
functions of the text. These vendored directories hold most of the repository's
lines.
