---------------------------- MODULE DocumentProofs ----------------------------
(***************************************************************************)
(* Theorems about Document, for every set of files, every set of texts,    *)
(* every Tidy and Stamp and every command line: the document is well typed,*)
(* a document that is not marked modified is stored, and modified text is  *)
(* never dropped without one of the listed reasons.                        *)
(***************************************************************************)
EXTENDS Document, TLAPS

(***************************************************************************)
(* The inductive invariant                                                 *)
(***************************************************************************)

\* What a suspended FileSave remembers of its caller: a copy is saved for
\* nobody, a revert knows its file, and F2 works on a named document.
WellFormed(c) ==
    /\ c.copy => c.then = "none"
    /\ c.then \in {"drop", "revert"} => c.target \in Path
    /\ c.then = "exit" => szCurFile # NoFile

Calls == WellFormed(call) /\ (pc = "askRevert" => szCurFile # NoFile)

\* bModified, the save point and the text saved there agree.
Tracked ==
    /\ SavePointTracked
    /\ bModified => ~savePoint
    /\ savePoint => text = savedText

\* The text at the save point is what the file holds.
Backed ==
    astray \subseteq {"late"} =>
        IF szCurFile = NoFile
        THEN savedText = Empty
        ELSE IF Exists(szCurFile) THEN files[szCurFile] = savedText
                                  ELSE savedText = Empty

\* Nothing in the window is lost if its text is dropped now.
Settled == ~bModified \/ call.discard \/ IsEmptyNewFile

\* FileSave returned TRUE to a handler that is about to drop the text, or
\* that handler's own dialog is up, or the session ends.
Guarded ==
    /\ pc = "ret" /\ call.ok
       /\ call.then \in {"new", "open", "drop", "revert", "recent", "close", "query"}
       => Settled
    /\ pc \in {"openDlg", "recentDlg"} => Settled \/ "late" \in astray
    /\ pc = "endSession" => Settled

IInv == TypeOK /\ Calls /\ Tracked /\ Backed /\ Guarded

(***************************************************************************)
(* Types                                                                   *)
(***************************************************************************)

\* FileSave is always called with well-formed arguments.
LEMMA FileSaveCallType ==
    ASSUME NEW always \in BOOLEAN, NEW ask \in BOOLEAN, NEW as \in BOOLEAN,
           NEW copy \in BOOLEAN, NEW h \in Handler
    PROVE  FileSaveCall(always, ask, as, copy, h) \in Call
BY DEF FileSaveCall, Call

LEMMA NoCallType == NoCall \in Call
BY FileSaveCallType DEF NoCall, Handler

\* The rewriting a save does to the buffer yields a text again.
LEMMA RewriteType ==
    ASSUME TypeOK, NEW t \in Content
    PROVE  Rewritten(t) \in Content /\ Stamped \in Content
BY DocumentAssumption DEF TypeOK, Rewritten, Stamped

LEMMA FileIOType ==
    ASSUME TypeOK, NEW c \in Call, NEW p \in Path, NEW ro \in BOOLEAN,
           NEW t \in Content, FileIO(c, p, ro, t)
    PROVE  TypeOK'
<1>1. Rewritten(t) \in Content
  BY RewriteType
<1>2. UNCHANGED <<readOnlyAttr, backup, opts>>
  BY DEF FileIO
<1>3. CASE SkipWrite(c, p)
  BY <1>2, <1>3 DEF TypeOK, SkipWrite, Return, Call, control, Reason
<1>4. CASE OpenFails(c, p, t)
  BY <1>2, <1>4 DEF TypeOK, OpenFails, Return, Call, ReadOnlyFile, Exists
<1>5. CASE WriteFails(c, p, t)
  BY <1>1, <1>2, <1>5
  DEF TypeOK, WriteFails, Return, Call, RewriteBuffer, Reason, Content
<1>6. CASE WriteSucceeds(c, p, t)
  BY <1>1, <1>2, <1>6
  DEF TypeOK, WriteSucceeds, Return, Call, RewriteBuffer, SetSavePoint, Reason
<1>7. QED
  BY <1>3, <1>4, <1>5, <1>6 DEF FileIO

LEMMA SaveNowType ==
    ASSUME TypeOK, NEW c \in Call, NEW ro \in BOOLEAN, SaveNow(c, ro)
    PROVE  TypeOK'
<1>1. CASE Plain(c) /\ FileIO(c, szCurFile, FALSE, Stamped)
  <2>1. szCurFile \in Path /\ Stamped \in Content
    BY <1>1, RewriteType DEF TypeOK, Plain
  <2>2. QED
    BY <1>1, <2>1, FileIOType
<1>2. CASE /\ Suspend("saveDlg", c) /\ bReadOnly' = ro
           /\ UNCHANGED <<disk, control, szCurFile, bModified, opts, astray>>
  BY <1>2 DEF TypeOK, Suspend, Prompt, disk, control
<1>3. CASE /\ Suspend("askReadOnly", c) /\ bReadOnly' = TRUE
           /\ UNCHANGED <<disk, control, szCurFile, bModified, opts, astray>>
  BY <1>3 DEF TypeOK, Suspend, Prompt, disk, control
<1>4. QED
  BY <1>1, <1>2, <1>3 DEF SaveNow

LEMMA FileSaveType ==
    ASSUME TypeOK, NEW c \in Call, NEW ro \in BOOLEAN, FileSave(c, ro)
    PROVE  TypeOK'
<1>1. CASE /\ Return(c, TRUE) /\ bReadOnly' = ro
           /\ UNCHANGED <<disk, control, szCurFile, bModified, opts, astray>>
  BY <1>1 DEF TypeOK, Return, Call, disk, control
<1>2. CASE /\ Suspend("askSave", c) /\ bReadOnly' = ro
           /\ UNCHANGED <<disk, control, szCurFile, bModified, opts, astray>>
  BY <1>2 DEF TypeOK, Suspend, Prompt, disk, control
<1>3. CASE SaveNow(c, ro)
  BY <1>3, SaveNowType
<1>4. QED
  BY <1>1, <1>2, <1>3 DEF FileSave

LEMMA RefuseType ==
    ASSUME TypeOK, NEW ok \in BOOLEAN, Refuse(ok)
    PROVE  TypeOK'
BY DEF TypeOK, Refuse, Return, Call, disk, control, globals

\* The operators FileLoad ends in, once pc and call are well typed.
LEMMA FileLoadType ==
    ASSUME TypeOK, NEW p \in Path, NEW reload \in BOOLEAN,
           Finish("idle"), FileLoad(p, reload)
    PROVE  TypeOK'
<1>1. Empty \in Content
  BY DocumentAssumption DEF Content
<1>2. CASE NewNamed(p)
  BY <1>1, <1>2, NoCallType
  DEF TypeOK, Finish, NewNamed, SetSavePoint, disk
<1>3. CASE Loaded(p)
  BY <1>3, NoCallType
  DEF TypeOK, Finish, Loaded, SetSavePoint, Exists, Options, disk
<1>4. CASE LoadFails
  BY <1>4, NoCallType DEF TypeOK, Finish, LoadFails, disk, control, globals
<1>5. QED
  BY <1>2, <1>3, <1>4 DEF FileLoad

LEMMA CloseWindowType ==
    ASSUME TypeOK, NEW ro \in BOOLEAN, CloseWindow(ro)
    PROVE  TypeOK'
<1>1. CASE opts.bnoAsk
  BY <1>1, NoCallType DEF TypeOK, CloseWindow, Finish, disk, control
<1>2. CASE ~opts.bnoAsk
  <2>1. FileSaveCall(FALSE, TRUE, FALSE, FALSE, "close") \in Call
    BY FileSaveCallType DEF Handler
  <2>2. QED
    BY <1>2, <2>1, FileSaveType DEF CloseWindow
<1>3. QED
  BY <1>1, <1>2

\* A command of the menu or the keyboard that saves first.
LEMMA MenuCommandType ==
    ASSUME TypeOK, NEW always \in BOOLEAN, NEW ask \in BOOLEAN,
           NEW as \in BOOLEAN, NEW copy \in BOOLEAN, NEW h \in Handler,
           MenuCommand(always, ask, as, copy, h)
    PROVE  TypeOK'
<1>1. FileSaveCall(always, ask, as, copy, h) \in Call
  BY FileSaveCallType
<1>2. MenuReadOnly \in BOOLEAN
  BY DEF TypeOK, MenuReadOnly, Options
<1>3. QED
  BY <1>1, <1>2, FileSaveType DEF MenuCommand

\* FileLoad of a file already named, asked to save first.
LEMMA SaveAndLoadType ==
    ASSUME TypeOK, NEW p \in Path \cup {NoFile}, NEW ro \in BOOLEAN,
           NEW h \in Handler, SaveAndLoad(p, h, ro)
    PROVE  TypeOK'
<1>1. [FileSaveCall(FALSE, TRUE, FALSE, FALSE, h) EXCEPT !.target = p] \in Call
  BY DEF FileSaveCall, Call
<1>2. QED
  BY <1>1, FileSaveType DEF SaveAndLoad

LEMMA ReloadType ==
    ASSUME TypeOK, NEW ro \in BOOLEAN, ReloadCurrent(ro)
    PROVE  TypeOK'
BY SaveAndLoadType DEF ReloadCurrent, TypeOK, Handler

\* The commands keep every variable well typed.
LEMMA CommandType ==
    ASSUME TypeOK, Command
    PROVE  TypeOK'
<1> USE DEF Handler
<1>0. bReadOnly \in BOOLEAN /\ MenuReadOnly \in BOOLEAN
  BY DEF TypeOK, MenuReadOnly, Options
<1>1. CASE FileNew \/ FileOpen \/ FileRecent \/ FileRunTool
  BY <1>1, MenuCommandType DEF FileNew, FileOpen, FileRecent, FileRunTool
<1>2. CASE FileSaveCmd \/ FileSaveAs \/ FileSaveCopy \/ FileRestart
  BY <1>2, MenuCommandType DEF FileSaveCmd, FileSaveAs, FileSaveCopy, FileRestart
<1>3. CASE DropFile \/ QueryEndSession \/ ShiftEsc
  BY <1>0, <1>3, FileSaveType, FileSaveCallType, SaveAndLoadType
  DEF DropFile, QueryEndSession, ShiftEsc
<1>4. CASE FileRevert
  <2>1. CASE ReloadCurrent(MenuReadOnly)
    BY <1>0, <1>4, <2>1, ReloadType DEF FileRevert
  <2>2. CASE Suspend("askRevert", NoCall) /\ bReadOnly' = MenuReadOnly
             /\ UNCHANGED <<disk, control, szCurFile, bModified, opts, astray>>
    BY <1>0, <2>2, NoCallType DEF TypeOK, Suspend, Prompt, disk, control
  <2>3. QED
    BY <1>4, <2>1, <2>2 DEF FileRevert
<1>5. CASE FileReadOnly
  BY <1>0, <1>5 DEF TypeOK, FileReadOnly
<1>6. CASE OpenMenu
  BY <1>0, <1>6 DEF TypeOK, OpenMenu, disk, control
<1>7. CASE Close \/ FileExit
  BY <1>0, <1>7, CloseWindowType DEF Close, FileExit
<1>8. QED
  BY <1>1, <1>2, <1>3, <1>4, <1>5, <1>6, <1>7 DEF Command

\* So do the answers to the prompts.
LEMMA AnswerType ==
    ASSUME TypeOK, Answer
    PROVE  TypeOK'
<1>0. call \in Call /\ bReadOnly \in BOOLEAN /\ text \in Content
  BY DEF TypeOK
<1>1. CASE AnswerSave
  BY <1>0, <1>1, SaveNowType, RefuseType DEF AnswerSave
<1>2. CASE AnswerReadOnly
  <2>1. CASE Suspend("saveDlg", [call EXCEPT !.as = TRUE])
             /\ UNCHANGED <<disk, control, globals, opts, astray>>
    BY <1>0, <2>1
    DEF TypeOK, Suspend, Call, Prompt, disk, control, globals
  <2>2. QED
    BY <1>2, <2>1, RefuseType DEF AnswerReadOnly
<1>3. CASE AnswerSaveFileDlg
  BY <1>0, <1>3, FileIOType, RefuseType DEF AnswerSaveFileDlg
<1>4. CASE AnswerOpenFileDlg
  <2>1. CASE Finish("idle") /\ LoadFails
    BY <2>1, NoCallType DEF TypeOK, Finish, LoadFails, disk, control, globals
  <2>2. QED
    BY <1>4, <2>1, FileLoadType DEF AnswerOpenFileDlg
<1>5. CASE AnswerRevert
  <2>1. CASE Finish("idle") /\ UNCHANGED <<disk, control, globals, opts, astray>>
    BY <2>1, NoCallType DEF TypeOK, Finish, disk, control, globals
  <2>2. CASE ReloadCurrent(bReadOnly)
    BY <1>0, <2>2, ReloadType
  <2>3. QED
    BY <1>5, <2>1, <2>2 DEF AnswerRevert
<1>6. CASE EndSession
  BY <1>6, NoCallType DEF TypeOK, EndSession, Finish, disk, control, globals
<1>7. QED
  BY <1>1, <1>2, <1>3, <1>4, <1>5, <1>6 DEF Answer

\* The handler that FileSave returns to goes on.
LEMMA SaveReturnsType ==
    ASSUME TypeOK, Calls, SaveReturns
    PROVE  TypeOK'
<1>0. call \in Call /\ bReadOnly \in BOOLEAN /\ Empty \in Content
  BY DocumentAssumption DEF TypeOK, Content
<1>1. CASE CloseWindow(bReadOnly)
  BY <1>0, <1>1, CloseWindowType
<1>2. CASE /\ Finish("closed") /\ backup' \in {Absent, files[szCurFile]}
           /\ call.then = "exit"
           /\ UNCHANGED <<files, readOnlyAttr, control, globals, opts, astray>>
  <2>1. szCurFile \in Path
    BY <1>2 DEF TypeOK, Calls, WellFormed
  <2>2. QED
    BY <1>2, <2>1, NoCallType DEF TypeOK, Finish, control, globals
<1>3. CASE Finish("idle") /\ NewDocument
  BY <1>0, <1>3, NoCallType DEF TypeOK, Finish, NewDocument, SetSavePoint, disk
<1>4. CASE /\ Finish("idle") /\ FileLoad(call.target, call.then = "revert")
           /\ call.then \in {"drop", "revert"}
  BY <1>4, FileLoadType DEF Calls, WellFormed
<1>5. CASE
    /\ UNCHANGED <<disk, control, globals, opts, astray>>
    /\ \/ Suspend("openDlg", call) \/ Suspend("recentDlg", call)
       \/ Suspend("endSession", call) \/ Finish("closed") \/ Finish("idle")
  BY <1>0, <1>5, NoCallType
  DEF TypeOK, Suspend, Finish, Prompt, disk, control, globals
<1>6. QED
  BY <1>1, <1>2, <1>3, <1>4, <1>5 DEF SaveReturns

\* Every step keeps every variable well typed.
LEMMA TypeStep ==
    ASSUME TypeOK, Calls, [Next]_vars
    PROVE  TypeOK'
<1>0. Empty \in Content /\ Text \subseteq Content /\ ExternalText \subseteq Content
  BY DocumentAssumption DEF Content
<1>1. CASE Startup
  BY <1>0, <1>1, NoCallType
  DEF TypeOK, Startup, Finish, SetSavePoint, Exists, Options, disk, control
<1>2. CASE Command
  BY <1>2, CommandType
<1>3. CASE Answer
  BY <1>3, AnswerType
<1>4. CASE SaveReturns
  BY <1>4, SaveReturnsType
<1>5. CASE Edit
  BY <1>0, <1>5 DEF TypeOK, Edit, Edited, disk
<1>6. CASE ReplaceBehindPrompt
  BY <1>0, <1>6 DEF TypeOK, ReplaceBehindPrompt, Edited, Reason, disk
<1>7. CASE UndoToSavePoint
  BY <1>7 DEF TypeOK, UndoToSavePoint, disk
<1>8. CASE ExternalChange
  BY <1>0, <1>8 DEF TypeOK, ExternalChange, Reason, control, globals
<1>9. CASE UNCHANGED vars
  BY <1>9 DEF TypeOK, vars, disk, control, globals
<1>10. QED
  BY <1>1, <1>2, <1>3, <1>4, <1>5, <1>6, <1>7, <1>8, <1>9 DEF Next

(***************************************************************************)
(* Each operation keeps the inductive invariant                            *)
(***************************************************************************)

\* A save that reports success leaves no modified text unless it was a copy.
LEMMA FileIOInv ==
    ASSUME IInv, NEW c \in Call, WellFormed(c), NEW p \in Path,
           NEW ro \in BOOLEAN, NEW t \in Content, savePoint => t = text,
           FileIO(c, p, ro, t)
    PROVE  IInv'
<1>1. TypeOK'
  BY FileIOType DEF IInv
<1>2. UNCHANGED <<readOnlyAttr, backup, opts>> /\ p # NoFile
  BY DocumentAssumption DEF FileIO
<1>3. /\ pc' = "ret"
      /\ call'.then = c.then /\ call'.copy = c.copy /\ call'.target = c.target
  BY DEF FileIO, SkipWrite, OpenFails, WriteFails, WriteSucceeds, Return, Call
<1>4. szCurFile' \in {szCurFile, p}
  BY DEF FileIO, SkipWrite, OpenFails, WriteFails, WriteSucceeds
<1>5. Calls'
  BY <1>2, <1>3, <1>4 DEF Calls, WellFormed
<1>6. call'.ok => bModified' = FALSE \/ c.copy
  BY DEF FileIO, SkipWrite, OpenFails, WriteFails, WriteSucceeds, Return, Call,
         SetSavePoint
<1>7. Guarded'
  BY <1>3, <1>6 DEF Guarded, Settled, WellFormed
<1>8. CASE SkipWrite(c, p)
  <2>1. Tracked' /\ Backed'
    BY <1>8 DEF IInv, TypeOK, Tracked, SavePointTracked, Backed, Exists,
                SkipWrite, control
  <2>2. QED
    BY <1>1, <1>5, <1>7, <2>1 DEF IInv
<1>9. CASE OpenFails(c, p, t)
  <2>1. Tracked' /\ Backed'
    BY <1>9 DEF IInv, TypeOK, Tracked, SavePointTracked, Backed, Exists, OpenFails
  <2>2. QED
    BY <1>1, <1>5, <1>7, <2>1 DEF IInv
<1>10. CASE WriteFails(c, p, t)
  <2>1. Tracked'
    BY <1>10 DEF IInv, TypeOK, Tracked, SavePointTracked, WriteFails,
                 RewriteBuffer, Rewritten
  <2>2. Backed'
    BY <1>10 DEF IInv, TypeOK, Backed, Exists, WriteFails, RewriteBuffer
  <2>3. QED
    BY <1>1, <1>5, <1>7, <2>1, <2>2 DEF IInv
<1>11. CASE WriteSucceeds(c, p, t)
  <2>0. Rewritten(t) \in Content /\ Rewritten(t) # Absent
    BY RewriteType, DocumentAssumption DEF IInv
  <2>1. Tracked'
    BY <1>11 DEF IInv, TypeOK, Tracked, SavePointTracked, WriteSucceeds,
                 RewriteBuffer, SetSavePoint
  <2>2. Backed'
    <3>1. CASE c.copy
      <4>1. /\ files' = [files EXCEPT ![p] = Rewritten(t)]
            /\ astray' = IF p = szCurFile THEN astray \cup {"overwritten"} ELSE astray
            /\ szCurFile' = szCurFile /\ savedText' = savedText
        BY <1>11, <3>1 DEF WriteSucceeds, RewriteBuffer
      <4>2. files \in [Path -> Content \cup {Absent}]
            /\ szCurFile \in Path \cup {NoFile}
        BY DEF IInv, TypeOK
      <4>3. CASE p = szCurFile
        BY <4>1, <4>3 DEF Backed
      <4>4. CASE p # szCurFile
        <5>1. szCurFile # NoFile => files'[szCurFile] = files[szCurFile]
          BY <4>1, <4>2, <4>4
        <5>2. QED
          BY <4>1, <4>4, <5>1 DEF IInv, Backed, Exists
      <4>5. QED
        BY <4>3, <4>4
    <3>2. CASE ~c.copy
      BY <1>2, <1>11, <2>0, <3>2
      DEF IInv, TypeOK, Backed, Exists, WriteSucceeds, SetSavePoint
    <3>3. QED
      BY <3>1, <3>2
  <2>3. QED
    BY <1>1, <1>5, <1>7, <2>1, <2>2 DEF IInv
<1>12. QED
  BY <1>8, <1>9, <1>10, <1>11 DEF FileIO

\* A prompt put up by FileSave, or by revert, changes nothing else.
LEMMA SuspendInv ==
    ASSUME IInv, NEW c \in Call, WellFormed(c), NEW ro \in BOOLEAN,
           NEW prompt \in {"saveDlg", "askReadOnly", "askSave", "askRevert"},
           prompt = "askRevert" => szCurFile # NoFile,
           Suspend(prompt, c), bReadOnly' = ro,
           UNCHANGED <<disk, control, szCurFile, bModified, opts, astray>>
    PROVE  IInv'
<1>1. TypeOK'
  BY DEF IInv, TypeOK, Suspend, Prompt, disk, control
<1>2. Calls'
  BY DEF Suspend, Calls, WellFormed
<1>3. Tracked' /\ Backed'
  BY DEF IInv, Tracked, SavePointTracked, Backed, Exists, disk, control
<1>4. Guarded'
  BY DEF Suspend, Guarded
<1>5. QED
  BY <1>1, <1>2, <1>3, <1>4 DEF IInv

LEMMA SaveNowInv ==
    ASSUME IInv, NEW c \in Call, WellFormed(c), NEW ro \in BOOLEAN,
           SaveNow(c, ro)
    PROVE  IInv'
<1>1. CASE Plain(c) /\ FileIO(c, szCurFile, FALSE, Stamped)
  <2>1. szCurFile \in Path /\ Stamped \in Content
    BY <1>1, RewriteType DEF IInv, TypeOK, Plain
  <2>2. savePoint => Stamped = text
    BY DEF IInv, Tracked, Stamped
  <2>3. QED
    BY <1>1, <2>1, <2>2, FileIOInv
<1>2. CASE /\ Suspend("saveDlg", c) /\ bReadOnly' = ro
           /\ UNCHANGED <<disk, control, szCurFile, bModified, opts, astray>>
  BY <1>2, SuspendInv
<1>3. CASE /\ Suspend("askReadOnly", c) /\ bReadOnly' = TRUE
           /\ UNCHANGED <<disk, control, szCurFile, bModified, opts, astray>>
  BY <1>3, SuspendInv
<1>4. QED
  BY <1>1, <1>2, <1>3 DEF SaveNow

\* FileSave asked by a handler that drops the text returns TRUE at once only
\* if nothing is to be lost.
LEMMA FileSaveInv ==
    ASSUME IInv, NEW c \in Call, WellFormed(c), NEW ro \in BOOLEAN,
           FileSave(c, ro)
    PROVE  IInv'
<1>1. CASE /\ NothingToSave(c) /\ Return(c, TRUE) /\ bReadOnly' = ro
           /\ UNCHANGED <<disk, control, szCurFile, bModified, opts, astray>>
  <2>1. TypeOK'
    BY <1>1 DEF IInv, TypeOK, Return, Call, disk, control
  <2>2. Calls'
    BY <1>1 DEF Return, Call, Calls, WellFormed
  <2>3. Tracked' /\ Backed'
    BY <1>1 DEF IInv, Tracked, SavePointTracked, Backed, Exists, disk, control
  <2>4. Guarded'
    BY <1>1 DEF NothingToSave, IsEmptyNewFile, Guarded, Settled, Return, control
  <2>5. QED
    BY <2>1, <2>2, <2>3, <2>4 DEF IInv
<1>2. CASE /\ Suspend("askSave", c) /\ bReadOnly' = ro
           /\ UNCHANGED <<disk, control, szCurFile, bModified, opts, astray>>
  BY <1>2, SuspendInv
<1>3. CASE SaveNow(c, ro)
  BY <1>3, SaveNowInv
<1>4. QED
  BY <1>1, <1>2, <1>3 DEF FileSave

\* Cancel makes FileSave return FALSE; No is remembered in discard.
LEMMA RefuseInv ==
    ASSUME IInv, NEW ok \in BOOLEAN, Refuse(ok)
    PROVE  IInv'
<1>1. TypeOK'
  BY RefuseType DEF IInv
<1>2. /\ pc' = "ret" /\ call'.ok = ok /\ call'.discard = ok
      /\ call'.then = call.then /\ call'.copy = call.copy
      /\ call'.target = call.target
  BY DEF IInv, TypeOK, Refuse, Return, Call
<1>3. Calls'
  BY <1>2 DEF IInv, Calls, WellFormed, Refuse, globals
<1>4. Tracked' /\ Backed'
  BY DEF IInv, Tracked, SavePointTracked, Backed, Exists, Refuse, disk, control,
         globals
<1>5. Guarded'
  BY <1>2 DEF Guarded, Settled
<1>6. QED
  BY <1>1, <1>3, <1>4, <1>5 DEF IInv

\* Once the program is idle or has ended, no FileSave is suspended.
LEMMA FinishInv ==
    ASSUME IInv, NEW state \in {"idle", "closed"}, Finish(state), TypeOK',
           Tracked', Backed'
    PROVE  IInv'
<1>1. Calls' /\ Guarded'
  BY DEF Finish, Calls, WellFormed, Guarded, NoCall, FileSaveCall
<1>2. QED
  BY <1>1 DEF IInv

\* A load that fails leaves the document as it is.
LEMMA LoadFailsInv ==
    ASSUME IInv, Finish("idle"), LoadFails
    PROVE  IInv'
<1>1. TypeOK'
  BY NoCallType DEF IInv, TypeOK, Finish, LoadFails, disk, control, globals
<1>2. Tracked' /\ Backed'
  BY DEF IInv, Tracked, SavePointTracked, Backed, Exists, LoadFails, disk, control,
         globals
<1>3. QED
  BY <1>1, <1>2, FinishInv

LEMMA FileLoadInv ==
    ASSUME IInv, NEW p \in Path, NEW reload \in BOOLEAN,
           Finish("idle"), FileLoad(p, reload)
    PROVE  IInv'
<1>0. TypeOK' /\ p # NoFile
  BY FileLoadType, DocumentAssumption DEF IInv
<1>1. CASE NewNamed(p)
  <2>1. Tracked' /\ Backed'
    BY <1>1 DEF Tracked, SavePointTracked, Backed, Exists, NewNamed,
                SetSavePoint, disk
  <2>2. QED
    BY <1>0, <2>1, FinishInv
<1>2. CASE Loaded(p)
  <2>1. Tracked' /\ Backed'
    BY <1>0, <1>2 DEF Tracked, SavePointTracked, Backed, Exists, Loaded,
                      SetSavePoint, disk
  <2>2. QED
    BY <1>0, <2>1, FinishInv
<1>3. QED
  BY <1>1, <1>2, LoadFailsInv DEF FileLoad

LEMMA CloseWindowInv ==
    ASSUME IInv, NEW ro \in BOOLEAN, CloseWindow(ro)
    PROVE  IInv'
<1>1. CASE opts.bnoAsk
  <2>1. TypeOK' /\ Tracked' /\ Backed' /\ Finish("closed")
    BY <1>1, CloseWindowType
    DEF IInv, Tracked, SavePointTracked, Backed, Exists, CloseWindow, disk, control
  <2>2. QED
    BY <2>1, FinishInv
<1>2. CASE ~opts.bnoAsk
  <2>1. FileSaveCall(FALSE, TRUE, FALSE, FALSE, "close") \in Call
        /\ WellFormed(FileSaveCall(FALSE, TRUE, FALSE, FALSE, "close"))
    BY FileSaveCallType DEF Handler, WellFormed, FileSaveCall
  <2>2. QED
    BY <1>2, <2>1, FileSaveInv DEF CloseWindow
<1>3. QED
  BY <1>1, <1>2

\* Only Save Copy saves a copy, and no handler waits for it.
LEMMA MenuCommandInv ==
    ASSUME IInv, NEW always \in BOOLEAN, NEW ask \in BOOLEAN,
           NEW as \in BOOLEAN, NEW copy \in BOOLEAN, NEW h \in Handler,
           copy => h = "none", h \notin {"drop", "revert"},
           h = "exit" => szCurFile # NoFile,
           MenuCommand(always, ask, as, copy, h)
    PROVE  IInv'
<1>1. FileSaveCall(always, ask, as, copy, h) \in Call
      /\ WellFormed(FileSaveCall(always, ask, as, copy, h))
  BY FileSaveCallType DEF WellFormed, FileSaveCall
<1>2. MenuReadOnly \in BOOLEAN
  BY DEF IInv, TypeOK, MenuReadOnly, Options
<1>3. QED
  BY <1>1, <1>2, FileSaveInv DEF MenuCommand

LEMMA SaveAndLoadInv ==
    ASSUME IInv, NEW p \in Path, NEW ro \in BOOLEAN,
           NEW h \in {"drop", "revert"}, SaveAndLoad(p, h, ro)
    PROVE  IInv'
<1>1. [FileSaveCall(FALSE, TRUE, FALSE, FALSE, h) EXCEPT !.target = p] \in Call
      /\ WellFormed([FileSaveCall(FALSE, TRUE, FALSE, FALSE, h) EXCEPT !.target = p])
  BY DEF FileSaveCall, Call, Handler, WellFormed
<1>2. QED
  BY <1>1, FileSaveInv DEF SaveAndLoad

LEMMA ReloadInv ==
    ASSUME IInv, NEW ro \in BOOLEAN, szCurFile # NoFile, ReloadCurrent(ro)
    PROVE  IInv'
BY SaveAndLoadInv DEF ReloadCurrent, IInv, TypeOK

\* A step that leaves pc, call and the document alone.
LEMMA KeepDocumentInv ==
    ASSUME IInv, TypeOK', UNCHANGED <<files, text, savedText, savePoint, szCurFile,
                                      bModified, pc, call, astray>>
    PROVE  IInv'
BY DEF IInv, Calls, WellFormed, Tracked, SavePointTracked, Backed, Exists, Guarded,
       Settled, IsEmptyNewFile

\* The commands keep the invariant.
LEMMA CommandInv ==
    ASSUME IInv, Command
    PROVE  IInv'
<1> USE DEF Handler
<1>0. bReadOnly \in BOOLEAN /\ MenuReadOnly \in BOOLEAN /\ TypeOK'
  BY CommandType DEF IInv, TypeOK, MenuReadOnly, Options
<1>1. CASE FileNew \/ FileOpen \/ FileRecent \/ FileRunTool
  BY <1>1, MenuCommandInv DEF FileNew, FileOpen, FileRecent, FileRunTool
<1>2. CASE FileSaveCmd \/ FileSaveAs \/ FileSaveCopy \/ FileRestart
  BY <1>2, MenuCommandInv DEF FileSaveCmd, FileSaveAs, FileSaveCopy, FileRestart
<1>3. CASE DropFile \/ QueryEndSession \/ ShiftEsc
  <2>1. ASSUME NEW always \in BOOLEAN, NEW ask \in BOOLEAN,
               NEW h \in {"query", "shiftEsc"}
        PROVE  FileSaveCall(always, ask, FALSE, FALSE, h) \in Call
               /\ WellFormed(FileSaveCall(always, ask, FALSE, FALSE, h))
    BY FileSaveCallType DEF WellFormed, FileSaveCall
  <2>2. QED
    BY <1>0, <1>3, <2>1, FileSaveInv, SaveAndLoadInv
    DEF DropFile, QueryEndSession, ShiftEsc
<1>4. CASE FileRevert
  <2>1. CASE ReloadCurrent(MenuReadOnly)
    BY <1>0, <1>4, <2>1, ReloadInv DEF FileRevert
  <2>2. CASE Suspend("askRevert", NoCall) /\ bReadOnly' = MenuReadOnly
             /\ UNCHANGED <<disk, control, szCurFile, bModified, opts, astray>>
    <3>1. NoCall \in Call /\ WellFormed(NoCall)
      BY NoCallType DEF NoCall, FileSaveCall, WellFormed
    <3>2. QED
      BY <1>0, <1>4, <2>2, <3>1, SuspendInv DEF FileRevert
  <2>3. QED
    BY <1>4, <2>1, <2>2 DEF FileRevert
<1>5. CASE FileReadOnly
  BY <1>0, <1>5, KeepDocumentInv DEF FileReadOnly
<1>6. CASE OpenMenu
  BY <1>0, <1>6, KeepDocumentInv DEF OpenMenu, disk, control
<1>7. CASE Close \/ FileExit
  BY <1>0, <1>7, CloseWindowInv DEF Close, FileExit
<1>8. QED
  BY <1>1, <1>2, <1>3, <1>4, <1>5, <1>6, <1>7 DEF Command

\* The answers to the prompts keep the invariant.
LEMMA AnswerInv ==
    ASSUME IInv, Answer
    PROVE  IInv'
<1>0. /\ call \in Call /\ WellFormed(call) /\ bReadOnly \in BOOLEAN
      /\ text \in Content /\ TypeOK'
  BY AnswerType DEF IInv, TypeOK, Calls
<1>1. CASE AnswerSave
  BY <1>0, <1>1, SaveNowInv, RefuseInv DEF AnswerSave
<1>2. CASE AnswerReadOnly
  <2>1. CASE Suspend("saveDlg", [call EXCEPT !.as = TRUE])
             /\ UNCHANGED <<disk, control, globals, opts, astray>>
    <3>1. [call EXCEPT !.as = TRUE] \in Call
          /\ WellFormed([call EXCEPT !.as = TRUE])
      BY <1>0 DEF Call, WellFormed
    <3>2. QED
      BY <1>0, <2>1, <3>1, SuspendInv DEF globals
  <2>2. QED
    BY <1>2, <2>1, RefuseInv DEF AnswerReadOnly
<1>3. CASE AnswerSaveFileDlg
  BY <1>0, <1>3, FileIOInv, RefuseInv DEF AnswerSaveFileDlg
<1>4. CASE AnswerOpenFileDlg
  BY <1>4, FileLoadInv, LoadFailsInv DEF AnswerOpenFileDlg
<1>5. CASE AnswerRevert
  <2>1. CASE Finish("idle") /\ UNCHANGED <<disk, control, globals, opts, astray>>
    <3>1. Tracked' /\ Backed'
      BY <2>1 DEF IInv, Tracked, SavePointTracked, Backed, Exists, disk, control,
                  globals
    <3>2. QED
      BY <1>0, <2>1, <3>1, FinishInv
  <2>2. CASE ReloadCurrent(bReadOnly)
    BY <1>0, <1>5, <2>2, ReloadInv DEF AnswerRevert, IInv, Calls
  <2>3. QED
    BY <1>5, <2>1, <2>2 DEF AnswerRevert
<1>6. CASE EndSession
  <2>1. Tracked' /\ Backed'
    BY <1>6 DEF IInv, Tracked, SavePointTracked, Backed, Exists, EndSession, disk,
                control, globals
  <2>2. QED
    BY <1>0, <1>6, <2>1, FinishInv DEF EndSession
<1>7. QED
  BY <1>1, <1>2, <1>3, <1>4, <1>5, <1>6 DEF Answer

\* A handler that drops the text goes on only if nothing is lost by it.
LEMMA SaveReturnsInv ==
    ASSUME IInv, SaveReturns
    PROVE  IInv'
<1>0. TypeOK' /\ pc = "ret" /\ bReadOnly \in BOOLEAN
  BY SaveReturnsType DEF IInv, TypeOK, SaveReturns
<1>1. CASE CloseWindow(bReadOnly)
  BY <1>0, <1>1, CloseWindowInv
<1>2. CASE Finish("closed")
           /\ UNCHANGED <<files, readOnlyAttr, control, globals, opts, astray>>
  <2>1. Tracked' /\ Backed'
    BY <1>2 DEF IInv, Tracked, SavePointTracked, Backed, Exists, control, globals
  <2>2. QED
    BY <1>0, <1>2, <2>1, FinishInv
<1>3. CASE Finish("idle") /\ NewDocument
  <2>1. Tracked' /\ Backed'
    BY <1>3 DEF Tracked, SavePointTracked, Backed, NewDocument, SetSavePoint
  <2>2. QED
    BY <1>0, <1>3, <2>1, FinishInv
<1>4. CASE /\ Finish("idle") /\ FileLoad(call.target, call.then = "revert")
           /\ call.then \in {"drop", "revert"}
  BY <1>4, FileLoadInv DEF IInv, Calls, WellFormed
<1>5. CASE
    /\ UNCHANGED <<disk, control, globals, opts, astray>>
    /\ \/ Suspend("openDlg", call) /\ call.ok /\ call.then = "open"
       \/ Suspend("recentDlg", call) /\ call.ok /\ call.then = "recent"
       \/ Suspend("endSession", call) /\ call.ok /\ call.then = "query"
       \/ Finish("closed")
       \/ Finish("idle")
  <2>1. Tracked' /\ Backed'
    BY <1>5 DEF IInv, Tracked, SavePointTracked, Backed, Exists, disk, control,
                globals
  <2>2. CASE Finish("closed") \/ Finish("idle")
    BY <1>0, <2>1, <2>2, FinishInv
  <2>3. CASE \/ Suspend("openDlg", call) /\ call.ok /\ call.then = "open"
             \/ Suspend("recentDlg", call) /\ call.ok /\ call.then = "recent"
             \/ Suspend("endSession", call) /\ call.ok /\ call.then = "query"
    <3>1. Settled
      BY <1>0, <2>3 DEF IInv, Guarded
    <3>2. Settled'
      BY <1>5, <2>3, <3>1 DEF Settled, IsEmptyNewFile, Suspend, control, globals
    <3>3. Calls' /\ Guarded'
      BY <1>5, <2>3, <3>2 DEF IInv, Calls, WellFormed, Guarded, Suspend, globals
    <3>4. QED
      BY <1>0, <2>1, <3>3 DEF IInv
  <2>4. QED
    BY <1>5, <2>2, <2>3
<1>6. QED
  BY <1>1, <1>2, <1>3, <1>4, <1>5 DEF SaveReturns

\* The user's edits and the other programs keep the invariant.
LEMMA EnvironmentInv ==
    ASSUME IInv, Edit \/ ReplaceBehindPrompt \/ UndoToSavePoint \/ ExternalChange
    PROVE  IInv'
<1>0. TypeOK'
  BY TypeStep DEF IInv, Next
<1>1. CASE Edit
  <2>1. Tracked' /\ Backed'
    BY <1>1 DEF IInv, TypeOK, Tracked, SavePointTracked, Backed, Exists, Edit,
                Edited, disk
  <2>2. Calls' /\ Guarded'
    BY <1>1 DEF IInv, Calls, WellFormed, Guarded, Edit, Edited
  <2>3. QED
    BY <1>0, <2>1, <2>2 DEF IInv
<1>2. CASE ReplaceBehindPrompt
  <2>1. Tracked' /\ Backed'
    BY <1>2 DEF IInv, TypeOK, Tracked, SavePointTracked, Backed, Exists,
                ReplaceBehindPrompt, Edited, disk
  <2>2. Calls' /\ Guarded'
    BY <1>2 DEF IInv, Calls, WellFormed, Guarded, ReplaceBehindPrompt, Edited, Prompt
  <2>3. QED
    BY <1>0, <2>1, <2>2 DEF IInv
<1>3. CASE UndoToSavePoint
  <2>1. Tracked' /\ Backed'
    BY <1>3 DEF IInv, Tracked, SavePointTracked, Backed, Exists, UndoToSavePoint, disk
  <2>2. Calls' /\ Guarded'
    BY <1>3 DEF IInv, Calls, WellFormed, Guarded, UndoToSavePoint
  <2>3. QED
    BY <1>0, <2>1, <2>2 DEF IInv
<1>4. CASE ExternalChange
  <2>1. Tracked'
    BY <1>4 DEF IInv, Tracked, SavePointTracked, ExternalChange, control, globals
  <2>2. Backed'
    BY <1>4 DEF IInv, TypeOK, Backed, Exists, ExternalChange, control, globals
  <2>3. Calls' /\ Guarded'
    BY <1>4 DEF IInv, Calls, WellFormed, Guarded, Settled, IsEmptyNewFile,
                ExternalChange, control, globals
  <2>4. QED
    BY <1>0, <2>1, <2>2, <2>3 DEF IInv
<1>5. QED
  BY <1>1, <1>2, <1>3, <1>4

(***************************************************************************)
(* Theorems                                                                *)
(***************************************************************************)

\* The invariant holds at the start and every step keeps it.
LEMMA InvInit == Init => IInv
<1> SUFFICES ASSUME Init PROVE IInv
  OBVIOUS
<1>1. TypeOK
  BY NoCallType, DocumentAssumption DEF Init, TypeOK, Content
<1>2. Calls /\ Tracked /\ Backed /\ Guarded
  BY DEF Init, Calls, WellFormed, NoCall, FileSaveCall, Tracked, SavePointTracked,
         Backed, Guarded
<1>3. QED
  BY <1>1, <1>2 DEF IInv

LEMMA InvStep == IInv /\ [Next]_vars => IInv'
<1> SUFFICES ASSUME IInv, [Next]_vars PROVE IInv'
  OBVIOUS
<1>0. TypeOK'
  BY TypeStep DEF IInv
<1>1. CASE Startup
  <2>1. Finish("idle")
    BY <1>1 DEF Startup
  <2>2. ASSUME NEW p \in Path, UNCHANGED <<files, astray>>, szCurFile' = p,
               \/ SetSavePoint(Empty) /\ ~Exists(p)
               \/ SetSavePoint(files[p]) /\ Exists(p)
        PROVE  Tracked' /\ Backed'
    BY <2>2, DocumentAssumption
    DEF Tracked, SavePointTracked, Backed, Exists, SetSavePoint
  <2>3. Tracked' /\ Backed'
    <3>1. CASE UNCHANGED <<disk, control, szCurFile, bModified, opts, astray>>
      BY <3>1 DEF IInv, Tracked, SavePointTracked, Backed, Exists, disk, control
    <3>2. CASE \E p \in Path : /\ UNCHANGED <<files, astray>> /\ szCurFile' = p
                              /\ \/ SetSavePoint(Empty) /\ ~Exists(p)
                                 \/ SetSavePoint(files[p]) /\ Exists(p)
      BY <2>2, <3>2
    <3>3. QED
      BY <1>1, <3>1, <3>2 DEF Startup, disk
  <2>4. QED
    BY <1>0, <2>1, <2>3, FinishInv
<1>2. CASE Command
  BY <1>2, CommandInv
<1>3. CASE Answer
  BY <1>3, AnswerInv
<1>4. CASE SaveReturns
  BY <1>4, SaveReturnsInv
<1>5. CASE Edit \/ ReplaceBehindPrompt \/ UndoToSavePoint \/ ExternalChange
  BY <1>5, EnvironmentInv
<1>6. CASE UNCHANGED vars
  BY <1>0, <1>6, KeepDocumentInv DEF vars, disk, control, globals
<1>7. QED
  BY <1>1, <1>2, <1>3, <1>4, <1>5, <1>6 DEF Next

THEOREM Inductive == Spec => []IInv
BY InvInit, InvStep, PTL DEF Spec

\* Every variable keeps its type, in any number of files and texts.
THEOREM TypeCorrect == Spec => []TypeOK
<1>1. IInv => TypeOK
  BY DEF IInv
<1>2. QED
  BY <1>1, Inductive, PTL

\* bModified follows the save point unless FileIO skipped a write.
THEOREM SavePointAlwaysTracked == Spec => []SavePointTracked
<1>1. IInv => SavePointTracked
  BY DEF IInv, Tracked
<1>2. QED
  BY <1>1, Inductive, PTL

\* A document that is not marked modified is what its file holds, unless one
\* of the listed events came between them: by the save point, whose text is
\* the file's.
THEOREM CleanAlwaysStored == Spec => []CleanMeansStored
<1>1. IInv => CleanMeansStored
  BY DEF IInv, TypeOK, Tracked, SavePointTracked, Backed, CleanMeansStored
<1>2. QED
  BY <1>1, Inductive, PTL

(***************************************************************************)
(* Nothing is lost silently                                                *)
(***************************************************************************)

\* What NoSilentLoss asks of one step.
Excused ==
    \/ ~bModified
    \/ call.discard
    \/ IsEmptyNewFile
    \/ opts.bnoAsk /\ pc' = "closed"
    \/ call.then = "exit"
    \/ "late" \in astray

\* FileSave ends at a prompt or at its return.
LEMMA FileSaveStops ==
    ASSUME NEW c, NEW ro, FileSave(c, ro) \/ SaveNow(c, ro)
    PROVE  pc' \in {"ret", "askSave", "askReadOnly", "saveDlg"}
<1>1. ASSUME NEW p, NEW r, NEW t, FileIO(c, p, r, t)
      PROVE  pc' = "ret"
  BY <1>1 DEF FileIO, SkipWrite, OpenFails, WriteFails, WriteSucceeds, Return
<1>2. SaveNow(c, ro) => pc' \in {"ret", "askReadOnly", "saveDlg"}
  BY <1>1 DEF SaveNow, Suspend
<1>3. QED
  BY <1>2 DEF FileSave, Suspend, Return

\* The program ends only by /IN, by F2, by a settled close or by the end of
\* the session.
LEMMA CloseExcused ==
    ASSUME IInv, CloseWindow(bReadOnly) \/ CloseWindow(MenuReadOnly), pc' = "closed"
    PROVE  Excused
BY FileSaveStops DEF CloseWindow, Excused

\* No step drops modified text without one of the reasons NoSilentLoss lists.
LEMMA StepExcused ==
    ASSUME IInv, [Next]_vars, DropsText
    PROVE  Excused
<1>1. pc' \in {"idle", "closed"} /\ pc # pc'
  BY DEF DropsText
<1>2. CASE Startup
  BY <1>2 DEF Startup, DropsText, Finish
<1>3. CASE Command
  <2>1. CASE Close \/ FileExit
    BY <2>1, <1>1, CloseExcused, FileSaveStops
    DEF Close, FileExit, CloseWindow
  <2>2. QED
    BY <1>1, <1>3, <2>1, FileSaveStops
    DEF Command, FileNew, FileOpen, FileRecent, DropFile, FileRevert, FileSaveCmd,
        FileSaveAs, FileSaveCopy, FileRunTool, FileReadOnly, OpenMenu,
        QueryEndSession, ShiftEsc, FileRestart, MenuCommand, ReloadCurrent,
        SaveAndLoad, Suspend
<1>4. CASE Answer
  <2>1. CASE AnswerSave \/ AnswerReadOnly \/ AnswerSaveFileDlg
    <3>1. pc' \in {"ret", "askSave", "askReadOnly", "saveDlg"}
      BY <2>1, FileSaveStops
      DEF AnswerSave, AnswerReadOnly, AnswerSaveFileDlg, Refuse, Return, Suspend,
          FileIO, SkipWrite, OpenFails, WriteFails, WriteSucceeds
    <3>2. QED
      BY <1>1, <3>1
  <2>2. CASE AnswerOpenFileDlg \/ EndSession
    BY <2>2 DEF AnswerOpenFileDlg, EndSession, IInv, Guarded, Settled, Excused
  <2>3. CASE AnswerRevert
    BY <2>3, FileSaveStops
    DEF AnswerRevert, ReloadCurrent, SaveAndLoad, Finish, DropsText
  <2>4. QED
    BY <1>4, <2>1, <2>2, <2>3 DEF Answer
<1>5. CASE SaveReturns
  <2>0. pc = "ret"
    BY <1>5 DEF SaveReturns
  <2>1. CASE CloseWindow(bReadOnly)
    BY <1>1, <2>1, CloseExcused, FileSaveStops DEF CloseWindow, Finish
  <2>2. CASE call.then = "exit"
    BY <2>2 DEF Excused
  <2>3. CASE call.ok /\ call.then \in {"new", "drop", "revert", "close"}
    BY <2>0, <2>3 DEF IInv, Guarded, Settled, Excused
  <2>4. CASE UNCHANGED text /\ pc' # "closed"
    BY <2>4 DEF DropsText
  <2>5. QED
    BY <1>5, <2>1, <2>2, <2>3, <2>4
    DEF SaveReturns, Suspend, Finish, control
<1>6. CASE Edit \/ ReplaceBehindPrompt \/ UndoToSavePoint \/ ExternalChange
  BY <1>1, <1>6 DEF Edit, ReplaceBehindPrompt, UndoToSavePoint, ExternalChange
<1>7. CASE UNCHANGED vars
  BY <1>1, <1>7 DEF vars
<1>8. QED
  BY <1>2, <1>3, <1>4, <1>5, <1>6, <1>7 DEF Next

\* Modified text is dropped only after No to "save changes?", if the document
\* is blank and untitled, under /IN, by F2, or if it was typed behind a file
\* dialog: FileSave returned TRUE to every other handler that drops it.
THEOREM NothingLostSilently == Spec => NoSilentLoss
<1>1. IInv /\ [Next]_vars => [DropsText => Excused]_vars
  BY StepExcused
<1>2. QED
  BY <1>1, Inductive, PTL DEF Spec, NoSilentLoss, Excused
=============================================================================
