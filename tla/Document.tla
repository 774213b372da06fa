------------------------------- MODULE Document -------------------------------
(***************************************************************************)
(* The life of the one document a te.xteditor window holds: src/src/TE.c's *)
(* FileLoad, FileIO and FileSave, the commands and window messages that    *)
(* call them, and EditSaveFile / EditSetNewText of src/src/Edit.c.         *)
(*                                                                         *)
(* Every message box or common dialog runs a nested message loop, during   *)
(* which other programs change the disk and the modeless Find/Replace      *)
(* dialog still edits the text.  A handler is therefore cut at its prompts:*)
(* pc names the prompt that is up and call is the FileSave activation      *)
(* (arguments, result, and the handler it returns to) suspended on it.     *)
(* Texts are abstract values; Tidy and Stamp stand for the rewriting a     *)
(* save does to the buffer before it writes it.                            *)
(***************************************************************************)
EXTENDS Naturals

CONSTANTS
    Path,           \* the file names a user opens or chooses
    NoFile,         \* szCurFile = "": the document is untitled
    Absent,         \* there is no file of that name
    Text,           \* the buffer contents told apart
    Empty,          \* the empty buffer
    Blank,          \* the contents that are only white space
    Damaged,        \* what a write that failed half-way leaves in a file
    Tidy,           \* EditSaveFile's line-end, trailing-blank and CPS clean-up
    Stamp,          \* CpsUpdateChangedMarker's new date
    ExternalText,   \* what other programs write into the files
    OptionSet       \* the command lines considered

Content == Text \cup {Damaged}

\* The command line switches /I- (bnomenu), /IN (bnoAsk), /IR (flagbreadonly)
\* and /O... (mitf2com: F2 hands the file back to the starting program).
Options == [bnomenu: BOOLEAN, bnoAsk: BOOLEAN, flagbreadonly: BOOLEAN,
            mitf2com: BOOLEAN]

ASSUME DocumentAssumption ==
    /\ NoFile \notin Path
    /\ Damaged \notin Text
    /\ Absent \notin Content
    /\ Blank \subseteq Text
    /\ Empty \in Blank
    /\ ExternalText \subseteq Text
    /\ Tidy \in [Content -> Content]
    /\ Stamp \in [Content -> Content]
    /\ OptionSet \subseteq Options

VARIABLES
    files,          \* what each file holds
    readOnlyAttr,   \* FILE_ATTRIBUTE_READONLY of each file
    backup,         \* the version copy xfilesave leaves, if any
    text,           \* the text in the Scintilla control
    savedText,      \* its text at the save point of the undo history
    savePoint,      \* Scintilla: the text is at the save point
    sciReadOnly,    \* SCI_GETREADONLY
    szCurFile,
    bModified,
    bReadOnly,
    opts,           \* the command line, fixed once the program runs
    pc,             \* the prompt that is up, "idle", "ret" or "closed"
    call,           \* the suspended FileSave and the handler that called it
    astray          \* history: how the file came to differ from the document

disk == <<files, readOnlyAttr, backup>>
control == <<text, savedText, savePoint, sciReadOnly>>
globals == <<szCurFile, bModified, bReadOnly>>
vars == <<disk, control, globals, opts, pc, call, astray>>

(***************************************************************************)
(* Activations of FileSave                                                 *)
(***************************************************************************)

\* The handler FileSave returns to: none (its result is not used), FileLoad
\* for a new, another, a dropped or the same file, the recent-files and
\* favorites commands, WM_CLOSE, WM_QUERYENDSESSION, Shift+Esc, or xfilesave (F2).
Handler == {"none", "new", "open", "drop", "revert", "recent", "close", "query",
            "shiftEsc", "exit"}

Call == [always: BOOLEAN, ask: BOOLEAN, as: BOOLEAN, copy: BOOLEAN,
         then: Handler, target: Path \cup {NoFile},
         ok: BOOLEAN, discard: BOOLEAN]

\* FileSave(always, ask, as, copy) called by handler h.  ok is its result;
\* discard records that the user answered No to "save changes?".
FileSaveCall(always, ask, as, copy, h) ==
    [always |-> always, ask |-> ask, as |-> as, copy |-> copy,
     then |-> h, target |-> NoFile, ok |-> FALSE, discard |-> FALSE]

NoCall == FileSaveCall(FALSE, FALSE, FALSE, FALSE, "none")

\* Prompts: the places where a message loop runs inside a handler.
Prompt == {"askSave", "askReadOnly", "saveDlg", "openDlg", "recentDlg",
           "askRevert"}

\* How the file may come to hold something else than a clean document shows:
\* FileIO skipped the write; the file was overwritten by a write that failed
\* half-way, by Save Copy or by another program; the text changed behind an
\* open dialog.
Reason == {"skipped", "overwritten", "late"}

TypeOK ==
    /\ files \in [Path -> Content \cup {Absent}]
    /\ readOnlyAttr \in [Path -> BOOLEAN]
    /\ backup \in Content \cup {Absent}
    /\ text \in Content
    /\ savedText \in Content
    /\ savePoint \in BOOLEAN
    /\ sciReadOnly \in BOOLEAN
    /\ szCurFile \in Path \cup {NoFile}
    /\ bModified \in BOOLEAN
    /\ bReadOnly \in BOOLEAN
    /\ opts \in Options
    /\ pc \in Prompt \cup {"start", "idle", "ret", "endSession", "closed"}
    /\ call \in Call
    /\ astray \subseteq Reason

Exists(p) == files[p] # Absent
ReadOnlyFile(p) == Exists(p) /\ readOnlyAttr[p]

Suspend(prompt, c) == pc' = prompt /\ call' = c
Return(c, ok) == pc' = "ret" /\ call' = [c EXCEPT !.ok = ok]
Finish(state) == pc' = state /\ call' = NoCall

\* Mutant of SetSavePoint: bModified is left to the notification of an edit.
SetSavePointKeepingFlag(t) ==
    /\ text' = t
    /\ savedText' = t
    /\ savePoint' = TRUE
    /\ UNCHANGED bModified

\* SCI_SETSAVEPOINT with t in the buffer; its notification clears bModified.
SetSavePoint(t) ==
    /\ text' = t
    /\ savedText' = t
    /\ savePoint' = TRUE
    /\ bModified' = FALSE

\* Scintilla notifies only when the save point is left, so an edit sets
\* bModified only if the text was at the save point.
Edited(t) ==
    /\ text' = t
    /\ savePoint' = FALSE
    /\ bModified' = (bModified \/ savePoint)
    /\ UNCHANGED <<savedText, sciReadOnly, szCurFile, bReadOnly>>

(***************************************************************************)
(* FileIO and EditSaveFile                                                 *)
(***************************************************************************)

\* The buffer as EditSaveFile rewrites it; a read-only control refuses.
Rewritten(t) == IF sciReadOnly THEN t ELSE Tidy[t]

\* The rewriting leaves the save point when it changes the text.
RewriteBuffer(t) ==
    /\ text' = t
    /\ savePoint' = (savePoint /\ t = text)
    /\ bModified' = (bModified \/ (savePoint /\ t # text))
    /\ UNCHANGED savedText

\* bReadOnly is set: FileIO writes nothing and still reports success.
SkipWrite(c, p) ==
    /\ Return(c, TRUE)
    /\ IF c.copy
       THEN UNCHANGED <<szCurFile, bModified, astray>>
       ELSE /\ szCurFile' = p
            /\ bModified' = FALSE
            /\ astray' = astray \cup {"skipped"}
    /\ bReadOnly' = TRUE
    /\ UNCHANGED <<files, control>>

\* CreateFile fails: always on a read-only file, and whenever the system says so.
OpenFails(c, p, t) ==
    /\ Return(c, FALSE)
    /\ text' = t
    /\ bReadOnly' = ReadOnlyFile(p)
    /\ UNCHANGED <<files, savedText, savePoint, sciReadOnly, szCurFile,
                   bModified, astray>>

\* The file is truncated, then WriteFile fails.
WriteFails(c, p, t) ==
    /\ ~ReadOnlyFile(p)
    /\ Return(c, FALSE)
    /\ files' = [files EXCEPT ![p] = Damaged]
    /\ RewriteBuffer(Rewritten(t))
    /\ bReadOnly' = FALSE
    /\ astray' = IF p = szCurFile THEN astray \cup {"overwritten"} ELSE astray
    /\ UNCHANGED <<sciReadOnly, szCurFile>>

\* Mutant of WriteSucceeds: the save point is set for a copy too.
CopySetsSavePoint(c, p, t) ==
    /\ ~ReadOnlyFile(p)
    /\ Return(c, TRUE)
    /\ files' = [files EXCEPT ![p] = Rewritten(t)]
    /\ bReadOnly' = FALSE
    /\ SetSavePoint(Rewritten(t))
    /\ szCurFile' = IF c.copy THEN szCurFile ELSE p
    /\ astray' = IF c.copy THEN astray ELSE {}
    /\ UNCHANGED sciReadOnly

\* The text is written.  A copy keeps the document's name, save point and
\* modified flag; any other save sets them.
WriteSucceeds(c, p, t) ==
    LET written == Rewritten(t)
    IN  /\ ~ReadOnlyFile(p)
        /\ Return(c, TRUE)
        /\ files' = [files EXCEPT ![p] = written]
        /\ bReadOnly' = FALSE
        /\ IF c.copy
           THEN /\ RewriteBuffer(written)
                /\ astray' = IF p = szCurFile THEN astray \cup {"overwritten"}
                                              ELSE astray
                /\ UNCHANGED szCurFile
           ELSE /\ SetSavePoint(written)
                /\ szCurFile' = p
                /\ astray' = {}
        /\ UNCHANGED sciReadOnly

\* FileIO(FALSE, p, ...) and the end of FileSave, with bReadOnly = ro and
\* t the text in the buffer.
FileIO(c, p, ro, t) ==
    /\ \/ ro /\ SkipWrite(c, p)
       \/ ~ro /\ OpenFails(c, p, t)
       \/ ~ro /\ WriteFails(c, p, t)
       \/ ~ro /\ WriteSucceeds(c, p, t)
    /\ UNCHANGED <<readOnlyAttr, backup, opts>>

(***************************************************************************)
(* FileSave, from its entry to each prompt and from each answer on         *)
(***************************************************************************)

IsEmptyNewFile == szCurFile = NoFile /\ text \in Blank

\* Mutant of NothingToSave: every untitled document counts as empty.
UntitledNeedsNoSave(c) == ~c.always /\ ~c.as /\ (~bModified \/ szCurFile = NoFile)

NothingToSave(c) == ~c.always /\ ~c.as /\ (~bModified \/ IsEmptyNewFile)

Asks(c) == c.ask /\ ~opts.bnomenu /\ ~opts.bnoAsk

\* A save under the current name, which looks at the read-only attribute.
Plain(c) == ~c.as /\ ~c.copy /\ szCurFile # NoFile

Stamped == IF bModified /\ ~sciReadOnly THEN Stamp[text] ELSE text

\* From the read-only test on.
SaveNow(c, ro) ==
    LET readOnly == IF Exists(szCurFile) THEN readOnlyAttr[szCurFile] ELSE ro
    IN  \/ /\ ~Plain(c)
           /\ Suspend("saveDlg", c)
           /\ bReadOnly' = ro
           /\ UNCHANGED <<disk, control, szCurFile, bModified, opts, astray>>
        \/ /\ Plain(c)
           /\ readOnly
           /\ Suspend("askReadOnly", c)
           /\ bReadOnly' = TRUE
           /\ UNCHANGED <<disk, control, szCurFile, bModified, opts, astray>>
        \/ /\ Plain(c)
           /\ ~readOnly
           /\ FileIO(c, szCurFile, FALSE, Stamped)

FileSave(c, ro) ==
    \/ /\ NothingToSave(c)
       /\ Return(c, TRUE)
       /\ bReadOnly' = ro
       /\ UNCHANGED <<disk, control, szCurFile, bModified, opts, astray>>
    \/ /\ ~NothingToSave(c)
       /\ Asks(c)
       /\ Suspend("askSave", c)
       /\ bReadOnly' = ro
       /\ UNCHANGED <<disk, control, szCurFile, bModified, opts, astray>>
    \/ /\ ~NothingToSave(c)
       /\ ~Asks(c)
       /\ SaveNow(c, ro)

\* A prompt refused: FileSave returns without having touched anything.
Refuse(ok) ==
    /\ Return([call EXCEPT !.discard = ok], ok)
    /\ UNCHANGED <<disk, control, globals, opts, astray>>

AnswerSave ==
    /\ pc = "askSave"
    /\ \/ SaveNow(call, bReadOnly)     \* Yes
       \/ Refuse(TRUE)                 \* No
       \/ Refuse(FALSE)                \* Cancel

\* "... is read only. Save to a different file?"
AnswerReadOnly ==
    /\ pc = "askReadOnly"
    /\ \/ /\ Suspend("saveDlg", [call EXCEPT !.as = TRUE])
          /\ UNCHANGED <<disk, control, globals, opts, astray>>
       \/ Refuse(FALSE)

AnswerSaveFileDlg ==
    /\ pc = "saveDlg"
    /\ \/ \E p \in Path : FileIO(call, p, bReadOnly, text)
       \/ Refuse(FALSE)

(***************************************************************************)
(* FileLoad, past its FileSave                                             *)
(***************************************************************************)

\* bNew: an untitled document.
NewDocument ==
    /\ SetSavePoint(Empty)
    /\ sciReadOnly' = FALSE
    /\ szCurFile' = NoFile
    /\ bReadOnly' = FALSE
    /\ astray' = {}
    /\ UNCHANGED <<disk, opts>>

\* A name no file has yet: an empty document of that name.
NewNamed(p) ==
    /\ ~Exists(p)
    /\ SetSavePoint(Empty)
    /\ sciReadOnly' = FALSE
    /\ szCurFile' = p
    /\ bReadOnly' = FALSE
    /\ astray' = {}
    /\ UNCHANGED <<disk, opts>>

\* Mutant of Loaded: the file is not looked for.
LoadedUnchecked(p) ==
    /\ SetSavePoint(files[p])
    /\ szCurFile' = p
    /\ bReadOnly' = (readOnlyAttr[p] \/ opts.flagbreadonly)
    /\ sciReadOnly' = bReadOnly'
    /\ astray' = {}
    /\ UNCHANGED <<disk, opts>>

Loaded(p) ==
    /\ Exists(p)
    /\ SetSavePoint(files[p])
    /\ szCurFile' = p
    /\ bReadOnly' = (readOnlyAttr[p] \/ opts.flagbreadonly)
    /\ sciReadOnly' = bReadOnly'
    /\ astray' = {}
    /\ UNCHANGED <<disk, opts>>

\* The file cannot be opened or read, or no file was chosen: the document,
\* with what was typed into it meanwhile, stays.
LoadFails ==
    /\ astray' = astray \ {"late"}
    /\ UNCHANGED <<disk, control, globals, opts>>

FileLoad(p, reload) ==
    \/ ~reload /\ NewNamed(p)
    \/ Loaded(p)
    \/ (reload \/ Exists(p)) /\ LoadFails

\* InitInstance: the document named on the command line, if any.  WinMain
\* then sets bReadOnly from the command line alone.
Startup ==
    /\ pc = "start"
    /\ Finish("idle")
    /\ \/ UNCHANGED <<disk, control, szCurFile, bModified, opts, astray>>
       \/ \E p \in Path :
             /\ ~Exists(p)
             /\ SetSavePoint(Empty)
             /\ szCurFile' = p
             /\ UNCHANGED <<disk, sciReadOnly, opts, astray>>
       \/ \E p \in Path :
             /\ Exists(p)
             /\ SetSavePoint(files[p])
             /\ szCurFile' = p
             /\ sciReadOnly' = (readOnlyAttr[p] \/ opts.flagbreadonly)
             /\ UNCHANGED <<disk, opts, astray>>
    /\ bReadOnly' = opts.flagbreadonly

\* FileLoad's and IDM_FILE_RECENT's own dialogs, after FileSave returned TRUE.
AnswerOpenFileDlg ==
    /\ pc \in {"openDlg", "recentDlg"}
    /\ Finish("idle")
    /\ \/ \E p \in Path : FileLoad(p, FALSE)
       \/ LoadFails         \* Cancel

(***************************************************************************)
(* Commands and window messages                                            *)
(***************************************************************************)

\* With a menu, WM_INITMENU comes before every menu command and every
\* accelerator of one, and MsgInitMenu sets bReadOnly.
MenuReadOnly == IF opts.bnomenu THEN bReadOnly ELSE opts.flagbreadonly

MenuCommand(always, ask, as, copy, h) ==
    /\ pc = "idle"
    /\ FileSave(FileSaveCall(always, ask, as, copy, h), MenuReadOnly)

OpenMenu ==
    /\ pc = "idle"
    /\ bReadOnly' = MenuReadOnly
    /\ UNCHANGED <<disk, control, szCurFile, bModified, opts, pc, call, astray>>

FileNew == MenuCommand(FALSE, TRUE, FALSE, FALSE, "new")
FileOpen == MenuCommand(FALSE, TRUE, FALSE, FALSE, "open")
FileRecent == MenuCommand(FALSE, TRUE, FALSE, FALSE, "recent")
FileSaveCmd == MenuCommand(TRUE, FALSE, FALSE, FALSE, "none")
FileSaveAs == MenuCommand(TRUE, FALSE, TRUE, FALSE, "none")
FileSaveCopy == MenuCommand(TRUE, FALSE, TRUE, TRUE, "none")
FileRunTool == MenuCommand(FALSE, TRUE, FALSE, FALSE, "none")

\* FileLoad of a file already named, by h; it is asked to save first.
SaveAndLoad(p, h, ro) ==
    FileSave([FileSaveCall(FALSE, TRUE, FALSE, FALSE, h) EXCEPT !.target = p], ro)

\* WM_DROPFILES: no menu is involved; for a directory the file is chosen first.
DropFile ==
    /\ pc = "idle"
    /\ \E p \in Path : SaveAndLoad(p, "drop", bReadOnly)

\* IDM_FILE_REVERT.
ReloadCurrent(ro) == SaveAndLoad(szCurFile, "revert", ro)

FileRevert ==
    /\ pc = "idle"
    /\ szCurFile # NoFile
    /\ \/ ~bModified /\ ReloadCurrent(MenuReadOnly)
       \/ /\ bModified
          /\ Suspend("askRevert", NoCall)
          /\ bReadOnly' = MenuReadOnly
          /\ UNCHANGED <<disk, control, szCurFile, bModified, opts, astray>>

AnswerRevert ==
    /\ pc = "askRevert"
    /\ \/ ReloadCurrent(bReadOnly)
       \/ Finish("idle") /\ UNCHANGED <<disk, control, globals, opts, astray>>

\* IDM_FILE_READONLY is in the menu only, and MsgInitMenu enables it only
\* without /IR, so it finds bReadOnly cleared and always sets the attribute.
FileReadOnly ==
    /\ pc = "idle"
    /\ ~opts.bnomenu /\ ~opts.flagbreadonly /\ szCurFile # NoFile
    /\ \/ /\ Exists(szCurFile)
          /\ readOnlyAttr' = [readOnlyAttr EXCEPT ![szCurFile] = ~MenuReadOnly]
       \/ UNCHANGED readOnlyAttr       \* SetFileAttributes fails
    /\ bReadOnly' = IF Exists(szCurFile) THEN readOnlyAttr'[szCurFile]
                                         ELSE MenuReadOnly
    /\ sciReadOnly' = bReadOnly'
    /\ UNCHANGED <<files, backup, text, savedText, savePoint, szCurFile,
                   bModified, opts, pc, call, astray>>

\* WM_CLOSE, with bReadOnly = ro.
CloseWindow(ro) ==
    \/ /\ opts.bnoAsk
       /\ Finish("closed")
       /\ bReadOnly' = ro
       /\ UNCHANGED <<disk, control, szCurFile, bModified, opts, astray>>
    \/ /\ ~opts.bnoAsk
       /\ FileSave(FileSaveCall(FALSE, TRUE, FALSE, FALSE, "close"), ro)

Close == pc = "idle" /\ CloseWindow(bReadOnly)

FileExit == pc = "idle" /\ CloseWindow(MenuReadOnly)

QueryEndSession ==
    /\ pc = "idle"
    /\ FileSave(FileSaveCall(FALSE, TRUE, FALSE, FALSE, "query"), bReadOnly)

\* WM_ENDSESSION, or the session goes on because another program refused.
\* While the system asks the other programs the user cannot reach the window.
EndSession ==
    /\ pc = "endSession"
    /\ Finish("closed") \/ Finish("idle")
    /\ UNCHANGED <<disk, control, globals, opts, astray>>

ShiftEsc ==
    /\ pc = "idle"
    /\ FileSave(FileSaveCall(TRUE, FALSE, FALSE, FALSE, "shiftEsc"), bReadOnly)

\* ID_FILE_RF2: xfilesave.
FileRestart ==
    /\ opts.mitf2com
    /\ szCurFile # NoFile
    /\ MenuCommand(TRUE, FALSE, FALSE, FALSE, "exit")

\* FileSave returns to its caller.
SaveReturns ==
    /\ pc = "ret"
    /\ CASE call.then = "shiftEsc" -> CloseWindow(bReadOnly)
         [] call.then = "exit" ->
               /\ Finish("closed")
               /\ backup' \in {Absent, files[szCurFile]}
               /\ UNCHANGED <<files, readOnlyAttr, control, globals, opts, astray>>
         [] call.then = "new" /\ call.ok -> Finish("idle") /\ NewDocument
         [] call.then \in {"drop", "revert"} /\ call.ok ->
               Finish("idle") /\ FileLoad(call.target, call.then = "revert")
         [] OTHER ->
               /\ UNCHANGED <<disk, control, globals, opts, astray>>
               /\ CASE call.ok /\ call.then = "open" -> Suspend("openDlg", call)
                    [] call.ok /\ call.then = "recent" -> Suspend("recentDlg", call)
                    [] call.ok /\ call.then = "close" -> Finish("closed")
                    [] call.ok /\ call.then = "query" -> Suspend("endSession", call)
                    [] OTHER -> Finish("idle")

(***************************************************************************)
(* The user's edits and the other programs                                 *)
(***************************************************************************)

Edit ==
    /\ pc = "idle"
    /\ ~sciReadOnly
    /\ \E t \in Text : Edited(t)
    /\ UNCHANGED <<disk, opts, pc, call, astray>>

\* Replace in the modeless Find/Replace dialog, which no prompt disables, nor
\* the warning of a failed save.
ReplaceBehindPrompt ==
    /\ pc \in Prompt \/ (pc = "ret" /\ ~call.ok)
    /\ ~sciReadOnly
    /\ \E t \in Text : Edited(t)
    /\ astray' = IF pc \in {"openDlg", "recentDlg"} THEN astray \cup {"late"}
                                                    ELSE astray
    /\ UNCHANGED <<disk, opts, pc, call>>

\* Undo or redo back to the save point.
UndoToSavePoint ==
    /\ pc = "idle"
    /\ ~sciReadOnly /\ ~savePoint
    /\ text' = savedText
    /\ savePoint' = TRUE
    /\ bModified' = FALSE
    /\ UNCHANGED <<disk, savedText, sciReadOnly, szCurFile, bReadOnly, opts, pc,
                   call, astray>>

\* Another program writes, deletes or re-protects a file.
ExternalChange ==
    /\ pc # "closed"
    /\ \E p \in Path, c \in ExternalText \cup {Absent}, r \in BOOLEAN :
          /\ c = Absent => ~r
          /\ files' = [files EXCEPT ![p] = c]
          /\ readOnlyAttr' = [readOnlyAttr EXCEPT ![p] = r]
          /\ astray' = IF p = szCurFile /\ c # files[p]
                       THEN astray \cup {"overwritten"} ELSE astray
    /\ UNCHANGED <<backup, control, globals, opts, pc, call>>

(***************************************************************************)
(* The specification                                                       *)
(***************************************************************************)

Init ==
    /\ files \in [Path -> ExternalText \cup {Absent}]
    /\ readOnlyAttr \in [Path -> BOOLEAN]
    /\ \A p \in Path : readOnlyAttr[p] => Exists(p)
    /\ backup = Absent
    /\ text = Empty /\ savedText = Empty /\ savePoint = TRUE
    /\ sciReadOnly = FALSE
    /\ szCurFile = NoFile
    /\ bModified = FALSE
    /\ bReadOnly = FALSE
    /\ opts \in OptionSet
    /\ pc = "start"
    /\ call = NoCall
    /\ astray = {}

Command ==
    \/ FileNew \/ FileOpen \/ FileRecent \/ DropFile \/ FileRevert
    \/ FileSaveCmd \/ FileSaveAs \/ FileSaveCopy \/ FileRunTool
    \/ FileReadOnly \/ OpenMenu
    \/ Close \/ FileExit \/ QueryEndSession \/ ShiftEsc \/ FileRestart

Answer ==
    \/ AnswerSave \/ AnswerReadOnly \/ AnswerSaveFileDlg
    \/ AnswerOpenFileDlg \/ AnswerRevert \/ EndSession

Next ==
    \/ Startup
    \/ Command
    \/ Answer
    \/ SaveReturns
    \/ Edit
    \/ ReplaceBehindPrompt
    \/ UndoToSavePoint
    \/ ExternalChange

Spec == Init /\ [][Next]_vars

(***************************************************************************)
(* Properties                                                              *)
(***************************************************************************)

\* A document not marked modified is what its file holds (or an empty one
\* under a name not yet used), unless one of the listed events has come
\* between them: the title bar's asterisk and the "save changes?" question
\* rest on this (FileSave's test of bModified).
CleanMeansStored ==
    ~bModified /\ astray \subseteq {"late"} =>
        IF szCurFile = NoFile
        THEN text = Empty
        ELSE IF Exists(szCurFile) THEN files[szCurFile] = text ELSE text = Empty

\* bModified follows Scintilla's save point, so that no edit is missed, as
\* long as no save was skipped: FileSave clears bModified by itself and an
\* edit sets it only through the notification of leaving the save point.
SavePointTracked ==
    "skipped" \notin astray => bModified = ~savePoint

\* The step drops the text in the window: the program ends, or another
\* document takes its place.
DropsText ==
    \/ pc # "closed" /\ pc' = "closed"
    \/ /\ pc \in {"ret", "openDlg", "recentDlg"}
       /\ pc' = "idle"
       /\ savePoint' /\ text' # text

\* Modified text is dropped only after the user answered No to "save
\* changes?", if it is a blank untitled document, under /IN or by F2's
\* forced exit, or if it was typed behind a file dialog that was already up.
NoSilentLoss ==
    [][DropsText => \/ ~bModified
                    \/ call.discard
                    \/ IsEmptyNewFile
                    \/ opts.bnoAsk /\ pc' = "closed"
                    \/ call.then = "exit"
                    \/ "late" \in astray]_vars

\* "... is read only. Save to a different file?" (TE.rc:1302): when the
\* document's own file proves read-only and the user chooses another one,
\* a save that reports success has written the text there.
SaveToDifferentFile ==
    [][/\ pc = "saveDlg" /\ pc' = "ret"
       /\ szCurFile # NoFile /\ ~opts.flagbreadonly /\ ~opts.bnomenu
       /\ ~call.copy /\ call'.ok
      => files'[szCurFile'] = text']_vars

\* "Revert file to last saved state? Your changes will be lost!" (TE.rc:1286):
\* a revert that asks no further question does not write the file.
RevertKeepsFile ==
    [][call'.then = "revert" /\ pc = "askRevert" => files' = files]_vars
=============================================================================
