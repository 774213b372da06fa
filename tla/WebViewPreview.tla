---------------------------- MODULE WebViewPreview ----------------------------
(***************************************************************************)
(* The preview of the text as Markdown, HTML or RTF                        *)
(* (src/src/WebView2Helper.cpp, src/src/MarkdownPreview.c) and the end of  *)
(* the main window that cleans it up (src/src/TE.c, MainWndProc).          *)
(*                                                                         *)
(* Everything runs in the main thread, but not in order.  WebView2 is      *)
(* created by two asynchronous steps whose callbacks come from the message *)
(* loop; keys pressed inside it post the toggle command; message boxes and *)
(* the context menu run message loops of their own, in which callbacks,    *)
(* posted commands and further boxes arrive.  loops is the stack of these. *)
(***************************************************************************)
EXTENDS Naturals, Sequences, FiniteSets

CONSTANTS
    Texts,          \* the texts of the documents
    MaxPosted,      \* bound on posted toggle commands
    MaxLoops        \* bound on nested message loops

ASSUME PreviewAssumption ==
    Texts # {} /\ MaxPosted \in Nat \ {0} /\ MaxLoops \in Nat \ {0}

Types == {"rtf", "html", "other"}
Html == [text : Texts, as : {"html", "markdown"}]
NoHtml == [text |-> CHOOSE t \in Texts : TRUE, as |-> "none"]

VARIABLES
    fileType,           \* by the extension of szCurFile
    text,               \* the text in the editor
    bPreviewMode, bRtfPreviewMode, bHtmlPreviewMode,
    visible,            \* the windows shown in the main window
    menu,               \* the main window has its menu
    hSavedMenu,         \* the menu is kept for later
    hwndRtfPreview,     \* the RichEdit window exists
    hwndWebView,        \* the host window of the web view exists
    initialized,        \* g_webviewInitialized
    ready,              \* g_webviewReady; there is a web view
    environments,       \* environments being created
    controllers,        \* controllers being created
    pendingHtml,        \* what to show when ready
    shown,              \* what the web view shows
    selectedText,       \* g_selectedText is not empty
    posted,             \* toggle commands in the message queue
    loops               \* nested message loops, the innermost last

VARIABLES
    bShutdownOK,
    destroyed,          \* the main window is
    outdated,           \* history: the text is not the one that was rendered
    astray,             \* history: what the code does not provide for
    findChosen          \* history: Find was chosen for the selected text

modes == <<bPreviewMode, bRtfPreviewMode, bHtmlPreviewMode>>
windows == <<visible, menu, hSavedMenu, hwndRtfPreview>>
creation == <<hwndWebView, initialized, environments, controllers>>
content == <<ready, pendingHtml, shown>>
document == <<fileType, text, outdated>>
selection == <<selectedText, findChosen>>
ending == <<bShutdownOK, destroyed>>
vars == <<modes, windows, creation, content, document, selection, posted,
          loops, ending, astray>>

Deviations == {"typeChanged", "toggledBehindBox", "creationFailed", "noWebView",
               "callbacksOrphaned"}

TypeOK ==
    /\ fileType \in Types /\ text \in Texts
    /\ {bPreviewMode, bRtfPreviewMode, bHtmlPreviewMode} \subseteq BOOLEAN
    /\ visible \subseteq {"edit", "web", "rtf"}
    /\ {menu, hSavedMenu, hwndRtfPreview} \subseteq BOOLEAN
    /\ {hwndWebView, initialized, ready} \subseteq BOOLEAN
    /\ environments \in Nat /\ controllers \in Nat
    /\ pendingHtml \in Html \cup {NoHtml} /\ shown \in Html \cup {NoHtml}
    /\ selectedText \in BOOLEAN /\ findChosen \in BOOLEAN
    /\ posted \in 0..MaxPosted
    /\ loops \in Seq({"initBox", "notInitializedBox", "rtfBox", "menu"})
    /\ Len(loops) <= MaxLoops
    /\ {bShutdownOK, destroyed, outdated} \subseteq BOOLEAN
    /\ astray \subseteq Deviations

Init ==
    /\ fileType \in Types /\ text \in Texts
    /\ bPreviewMode = FALSE /\ bRtfPreviewMode = FALSE /\ bHtmlPreviewMode = FALSE
    /\ visible = {"edit"} /\ menu = TRUE /\ hSavedMenu = FALSE
    /\ hwndRtfPreview = FALSE /\ hwndWebView = FALSE
    /\ initialized = FALSE /\ ready = FALSE
    /\ environments = 0 /\ controllers = 0
    /\ pendingHtml = NoHtml /\ shown = NoHtml
    /\ selectedText = FALSE /\ findChosen = FALSE
    /\ posted = 0 /\ loops = <<>>
    /\ bShutdownOK = FALSE /\ destroyed = FALSE
    /\ outdated = FALSE /\ astray = {}

Innermost == loops[Len(loops)]
Push(loop) == Len(loops) < MaxLoops /\ loops' = Append(loops, loop)
Pop == loops' = SubSeq(loops, 1, Len(loops) - 1)

(***************************************************************************)
(* Content and windows                                                     *)
(***************************************************************************)

\* Mutant: what cannot be shown yet is not kept.
NavigateUnlessReady(html) ==
    /\ shown' = IF ready THEN html ELSE shown
    /\ UNCHANGED pendingHtml

\* WebView2NavigateToHtml
Navigate(html) ==
    IF ready THEN shown' = html /\ UNCHANGED pendingHtml
    ELSE pendingHtml' = html /\ UNCHANGED shown

\* UpdateHtmlPreview and UpdateMarkdownPreview, with a host window.
Update(as) == Navigate([text |-> text, as |-> as])

\* Mutant: the menu is not kept for the way back.
MenuIsDropped(preview) ==
    /\ menu' = IF preview THEN FALSE ELSE menu \/ hSavedMenu
    /\ hSavedMenu' = FALSE

\* The end of ToggleMarkdownPreview: no menu in preview mode.
MenuFollows(preview) ==
    IF preview THEN hSavedMenu' = menu /\ menu' = FALSE
    ELSE menu' = (menu \/ hSavedMenu) /\ hSavedMenu' = FALSE

(***************************************************************************)
(* ToggleMarkdownPreview                                                   *)
(***************************************************************************)

EnterRtf ==
    /\ bPreviewMode' = TRUE /\ bRtfPreviewMode' = TRUE /\ bHtmlPreviewMode' = FALSE
    /\ \/ \* CreateRtfPreview has or makes the window
          /\ hwndRtfPreview' = TRUE
          /\ visible' = {"rtf"}
          /\ MenuFollows(TRUE)
          /\ UNCHANGED loops
       \/ \* or a box says it could not; AnswerRtfBox goes on
          /\ ~hwndRtfPreview
          /\ Push("rtfBox")
          /\ UNCHANGED windows
    /\ UNCHANGED <<creation, content, outdated, selection>>

LeaveRtf ==
    /\ bPreviewMode' = FALSE /\ bRtfPreviewMode' = FALSE /\ bHtmlPreviewMode' = FALSE
    /\ visible' = (visible \ {"rtf"}) \cup {"edit"}
    /\ MenuFollows(FALSE)
    /\ UNCHANGED <<hwndRtfPreview, creation, content, outdated, selection, loops>>

\* InitWebView2 fails, with a box that no window owns.
InitFails ==
    /\ ~initialized
    /\ hwndWebView' \in BOOLEAN     \* no host window, or no environment
    /\ Push("initBox")
    /\ bRtfPreviewMode' = FALSE
    /\ UNCHANGED <<bPreviewMode, bHtmlPreviewMode, windows, initialized, environments,
                   controllers, content, outdated, selection>>

\* Mutant: every preview creates a web view until one is ready.
InitializeUntilReady ==
    IF ready THEN UNCHANGED creation
    ELSE /\ hwndWebView' = TRUE
         /\ initialized' = TRUE
         /\ environments' = IF environments < 2 THEN environments + 1 ELSE environments
         /\ UNCHANGED controllers

\* InitWebView2 succeeds, as far as it knows.
Initialize ==
    IF initialized THEN UNCHANGED creation
    ELSE /\ hwndWebView' = TRUE
         /\ initialized' = TRUE
         /\ environments' = environments + 1
         /\ UNCHANGED controllers

EnterWeb ==
    /\ Initialize
    /\ bPreviewMode' = TRUE /\ bRtfPreviewMode' = FALSE
    /\ bHtmlPreviewMode' = (fileType = "html")
    /\ Update(IF fileType = "html" THEN "html" ELSE "markdown")
    /\ outdated' = FALSE
    /\ visible' = {"web"}
    /\ MenuFollows(TRUE)
    /\ UNCHANGED <<hwndRtfPreview, ready, selection, loops>>

\* The selected text is searched for, once.
LeaveWeb ==
    /\ Initialize
    /\ bPreviewMode' = FALSE /\ bRtfPreviewMode' = FALSE /\ bHtmlPreviewMode' = FALSE
    /\ visible' = (visible \ {"web"}) \cup {"edit"}
    /\ MenuFollows(FALSE)
    /\ selectedText' = FALSE /\ findChosen' = FALSE
    /\ UNCHANGED <<hwndRtfPreview, content, outdated, loops>>

ToggleMarkdownPreview ==
    /\ \/ fileType = "rtf" /\ ~bPreviewMode /\ EnterRtf
       \/ fileType = "rtf" /\ bPreviewMode /\ LeaveRtf
       \/ fileType # "rtf" /\ InitFails
       \/ fileType # "rtf" /\ ~bPreviewMode /\ EnterWeb
       \/ fileType # "rtf" /\ bPreviewMode /\ LeaveWeb
    /\ astray' = IF \E i \in DOMAIN loops : loops[i] = "rtfBox"
                 THEN astray \cup {"toggledBehindBox"} ELSE astray
    /\ UNCHANGED <<fileType, text, ending>>

\* The command from a key, while the main loop runs.
ViewPreview ==
    /\ ~destroyed /\ loops = <<>>
    /\ ToggleMarkdownPreview
    /\ UNCHANGED posted

\* The command from the menu, in the loop of a box that nobody owns.
ViewPreviewFromMenu ==
    /\ ~destroyed /\ loops # <<>> /\ Innermost = "initBox" /\ menu
    /\ \A i \in DOMAIN loops : loops[i] = "initBox"
    /\ ToggleMarkdownPreview
    /\ UNCHANGED posted

\* The posted command arrives in any loop.
PostedToggle ==
    /\ ~destroyed /\ posted > 0
    /\ posted' = posted - 1
    /\ ToggleMarkdownPreview

\* InitWebView2's box is closed; the toggle reports the failure once more.
AnswerInitBox ==
    /\ loops # <<>> /\ Innermost = "initBox"
    /\ loops' = [loops EXCEPT ![Len(loops)] = "notInitializedBox"]
    /\ UNCHANGED <<modes, windows, creation, content, document, selection, posted,
                   ending, astray>>

AnswerNotInitializedBox ==
    /\ loops # <<>> /\ Innermost = "notInitializedBox"
    /\ Pop
    /\ UNCHANGED <<modes, windows, creation, content, document, selection, posted,
                   ending, astray>>

AnswerRtfBox ==
    /\ loops # <<>> /\ Innermost = "rtfBox"
    /\ Pop
    /\ bPreviewMode' = FALSE /\ bRtfPreviewMode' = FALSE
    /\ UNCHANGED <<bHtmlPreviewMode, windows, creation, content, document, selection,
                   posted, ending, astray>>

(***************************************************************************)
(* The web view: callbacks, keys and the context menu                      *)
(***************************************************************************)

\* Mutant: the callback comes once more than asked for.
EnvironmentCompletedOnceMore ==
    /\ environments' = environments - 1
    /\ environments >= 0
    /\ controllers < 2
    /\ controllers' = controllers + 1
    /\ UNCHANGED <<modes, windows, hwndWebView, initialized, content, document,
                   selection, posted, loops, ending, astray>>

\* Mutant: a failure is not reported.
EnvironmentCompletedSilently ==
    /\ environments > 0
    /\ environments' = environments - 1
    /\ controllers' \in {controllers} \cup (IF hwndWebView THEN {controllers + 1} ELSE {})
    /\ UNCHANGED <<modes, windows, hwndWebView, initialized, content, document,
                   selection, posted, loops, ending, astray>>

\* OnCreateEnvironmentCompleted.  The controller needs the host window.
EnvironmentCompleted ==
    /\ environments > 0
    /\ environments' = environments - 1
    /\ \/ /\ hwndWebView
          /\ controllers' = controllers + 1
          /\ UNCHANGED astray
       \/ /\ astray' = astray \cup {"creationFailed"}
          /\ UNCHANGED controllers
    /\ UNCHANGED <<modes, windows, hwndWebView, initialized, content, document,
                   selection, posted, loops, ending>>

\* OnCreateCoreWebView2ControllerCompleted: a new web view, which is empty
\* unless something was pending; or a failure; or a controller without a web view,
\* of which nobody learns.
ControllerCompleted ==
    /\ controllers > 0
    /\ controllers' = controllers - 1
    /\ \/ /\ ready' = TRUE
          /\ shown' = pendingHtml
          /\ pendingHtml' = NoHtml
          /\ UNCHANGED astray
       \/ /\ astray' = astray \cup {"creationFailed"}
          /\ UNCHANGED content
       \/ /\ ready' = FALSE
          /\ shown' = NoHtml
          /\ astray' = astray \cup {"noWebView"}
          /\ UNCHANGED pendingHtml
    /\ UNCHANGED <<modes, windows, hwndWebView, initialized, environments, document,
                   selection, posted, loops, ending>>

\* F12, Esc or Ctrl+Alt+P inside the web view.
AcceleratorKeyPressed ==
    /\ ~destroyed /\ ready /\ "web" \in visible
    /\ posted < MaxPosted
    /\ posted' = posted + 1
    /\ UNCHANGED <<modes, windows, creation, content, document, selection, loops,
                   ending, astray>>

\* A right click, with or without a selection, shows the menu.
ContextMenu ==
    /\ ~destroyed /\ ready /\ "web" \in visible
    /\ \A i \in DOMAIN loops : loops[i] # "menu"
    /\ Push("menu")
    /\ selectedText' \in BOOLEAN
    /\ findChosen' = FALSE
    /\ UNCHANGED <<modes, windows, creation, content, document, posted, ending, astray>>

MenuCloses ==
    /\ ~destroyed /\ loops # <<>> /\ Innermost = "menu"
    /\ Pop

\* Mutant: the toggle that is to search is not posted.
ChooseFindOnly ==
    /\ MenuCloses
    /\ findChosen' = selectedText
    /\ UNCHANGED <<modes, windows, creation, content, document, selectedText, posted,
                   ending, astray>>

\* IDM_PREVIEW_FIND, offered for a selection: the toggle will search for it.
ChooseFind ==
    /\ MenuCloses
    /\ posted < MaxPosted
    /\ posted' = posted + 1
    /\ findChosen' = selectedText
    /\ UNCHANGED <<modes, windows, creation, content, document, selectedText, ending, astray>>

\* IDM_PREVIEW_EXIT
ChooseExit ==
    /\ MenuCloses
    /\ posted < MaxPosted
    /\ posted' = posted + 1
    /\ selectedText' = FALSE /\ findChosen' = FALSE
    /\ UNCHANGED <<modes, windows, creation, content, document, ending, astray>>

\* IDM_PREVIEW_REFRESH, which renders HTML as Markdown, unless the host window is gone.
ChooseRefresh ==
    /\ MenuCloses
    /\ IF hwndWebView THEN Update("markdown") /\ outdated' = bHtmlPreviewMode
       ELSE UNCHANGED <<pendingHtml, shown, outdated>>
    /\ UNCHANGED <<modes, windows, creation, ready, fileType, text, selection, posted,
                   ending, astray>>

\* Nothing, IDM_PREVIEW_COPY or an export.  The selection stays.
ChooseOther ==
    /\ MenuCloses
    /\ UNCHANGED <<modes, windows, creation, content, document, selection, posted,
                   ending, astray>>

(***************************************************************************)
(* The rest of the program                                                 *)
(***************************************************************************)

\* A file is loaded, or saved under another name, in preview mode or not; the
\* preview does not learn of it.
LoadFile ==
    /\ ~destroyed /\ loops = <<>>
    /\ fileType' \in Types /\ text' \in Texts
    /\ outdated' = TRUE
    /\ astray' = IF (fileType' # fileType) /\ (bPreviewMode \/ posted > 0)
                 THEN astray \cup {"typeChanged"} ELSE astray
    /\ UNCHANGED <<modes, windows, creation, content, selection, posted, loops, ending>>

\* Typing, or Replace in its dialog.
Edit ==
    /\ ~destroyed /\ loops = <<>>
    /\ text' \in Texts \ {text}
    /\ outdated' = TRUE
    /\ UNCHANGED <<modes, windows, creation, content, fileType, selection, posted, loops,
                   ending, astray>>

\* CleanupWebView2.  What is pending or selected stays, and so do the callbacks.
CleanupWebView2 ==
    /\ ready' = FALSE /\ initialized' = FALSE /\ hwndWebView' = FALSE
    /\ visible' = visible \ {"web"}
    /\ shown' = NoHtml
    /\ astray' = IF environments + controllers > 0 THEN astray \cup {"callbacksOrphaned"}
                 ELSE astray
    /\ UNCHANGED <<menu, hSavedMenu, hwndRtfPreview, environments, controllers,
                   pendingHtml>>

\* What WM_DESTROY and WM_ENDSESSION do once.  The settings and the recent lists
\* that they save before are no part of this state.
Shutdown ==
    IF bShutdownOK THEN UNCHANGED <<windows, creation, content, bShutdownOK, astray>>
    ELSE CleanupWebView2 /\ bShutdownOK' = TRUE

WMDestroy ==
    /\ ~destroyed /\ loops = <<>>
    /\ Shutdown
    /\ destroyed' = TRUE
    /\ UNCHANGED <<modes, document, selection, posted, loops>>

\* The session ends; the system ends the process when the message is answered.
WMEndSession ==
    /\ ~destroyed
    /\ Shutdown
    /\ destroyed' = TRUE
    /\ UNCHANGED <<modes, document, selection, posted, loops>>

\* Another program has refused: wParam is FALSE, which nobody looks at.
WMEndSessionCancelled ==
    /\ ~destroyed
    /\ Shutdown
    /\ UNCHANGED <<modes, document, selection, posted, loops, destroyed>>

Next ==
    \/ ViewPreview \/ ViewPreviewFromMenu \/ PostedToggle
    \/ AnswerInitBox \/ AnswerNotInitializedBox \/ AnswerRtfBox
    \/ EnvironmentCompleted \/ ControllerCompleted
    \/ AcceleratorKeyPressed \/ ContextMenu
    \/ ChooseFind \/ ChooseExit \/ ChooseRefresh \/ ChooseOther
    \/ LoadFile \/ Edit
    \/ WMDestroy \/ WMEndSession \/ WMEndSessionCancelled

\* WebView2 answers every request, and a message in the queue is dispatched: every
\* state of the program runs a message loop.
Spec == Init /\ [][Next]_vars /\ WF_vars(EnvironmentCompleted)
             /\ WF_vars(ControllerCompleted) /\ WF_vars(PostedToggle)

(***************************************************************************)
(* Properties                                                              *)
(***************************************************************************)

TypeChanged == "typeChanged" \in astray
Orphaned == "callbacksOrphaned" \in astray

\* Whatever boxes and posted commands came in between, the editor and the menu
\* are there exactly when the program is not in preview mode; and as long as the
\* file keeps its type during a preview one pane is shown, the one that the
\* modes name.  The exception is RTF's box: the mode is already set behind it, and
\* taken back after it even if posted commands have changed it.
WindowsFollowMode ==
    (\A i \in DOMAIN loops : loops[i] # "rtfBox")
    /\ "toggledBehindBox" \notin astray =>
        /\ ("edit" \in visible) = ~bPreviewMode
        /\ menu = ~bPreviewMode
        /\ ~TypeChanged /\ ~bShutdownOK =>
             visible = IF ~bPreviewMode THEN {"edit"}
                       ELSE IF bRtfPreviewMode THEN {"rtf"} ELSE {"web"}

\* A preview that is ready shows the text as it was when it was asked for last,
\* whether the request or the callbacks came first, also when a session end that
\* others refused has closed the web view under it, unless callbacks of that web view
\* were still to come.
PreviewShowsText ==
    bPreviewMode /\ ~bRtfPreviewMode /\ ready /\ ~outdated /\ ~TypeChanged /\ ~Orphaned =>
        shown = [text |-> text, as |-> IF bHtmlPreviewMode THEN "html" ELSE "markdown"]

\* One web view exists or is being created once InitWebView2 has succeeded, none
\* before and never a second one; there is none only if a creation has failed or has
\* brought a controller without a web view, and nothing starts it again.  Closing it
\* at the end of a session, which others may refuse, makes room for another, unless
\* callbacks were still to come.
OneWebView ==
    ~Orphaned =>
        LET views == environments + controllers + (IF ready THEN 1 ELSE 0)
        IN  /\ views <= IF initialized THEN 1 ELSE 0
            /\ initialized /\ "creationFailed" \notin astray /\ "noWebView" \notin astray
               => views = 1

\* Once started, the creation of the web view ends: with a view that can show
\* the preview, with a failure that has been reported, or with a controller whose
\* get_CoreWebView2 failed, the one end that is not reported; unless the web view is
\* closed before.
CreationEnds ==
    initialized ~> \/ ready \/ ~initialized
                   \/ "creationFailed" \in astray \/ "noWebView" \in astray

\* Find in the preview's menu searches for the selected text, also when other
\* toggle commands are queued before it.
FindSearches ==
    findChosen ~> (~findChosen \/ TypeChanged \/ bShutdownOK)
=============================================================================
