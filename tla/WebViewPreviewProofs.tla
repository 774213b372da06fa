------------------------- MODULE WebViewPreviewProofs -------------------------
(***************************************************************************)
(* The safety properties of WebViewPreview, for any texts and any bounds   *)
(* on posted commands and nested message loops.                            *)
(***************************************************************************)
EXTENDS WebViewPreview, TLAPS

Failed == "creationFailed" \in astray \/ "noWebView" \in astray
Toggled == "toggledBehindBox" \in astray
RtfBox == \E i \in DOMAIN loops : loops[i] = "rtfBox"
Wanted == [text |-> text, as |-> IF bHtmlPreviewMode THEN "html" ELSE "markdown"]

-----------------------------------------------------------------------------
(* The parts of the inductive invariant that no run checks by name. *)

\* A preview is in the RTF pane just for RTF files.
ModeOfType == bPreviewMode /\ ~TypeChanged => bRtfPreviewMode = (fileType = "rtf")

\* The menu is shown or kept.
MenuKept == ~Toggled => menu \/ hSavedMenu

\* Behind RTF's box the editor is still there.
EditBehindBox ==
    RtfBox /\ ~Toggled =>
        /\ "edit" \in visible
        /\ menu
        /\ ~TypeChanged /\ ~bShutdownOK => visible = {"edit"}

\* Until the web view that is being created is ready, what it is to show waits for it.
PendingIsText ==
    /\ bPreviewMode /\ ~bRtfPreviewMode /\ initialized /\ ~ready
    /\ ~outdated /\ ~TypeChanged /\ ~Orphaned
    => pendingHtml = Wanted

IInv ==
    /\ TypeOK
    /\ OneWebView
    /\ ModeOfType /\ MenuKept /\ EditBehindBox /\ WindowsFollowMode
    /\ PendingIsText /\ PreviewShowsText

-----------------------------------------------------------------------------
(* Nested loops. *)

Loops == {"initBox", "notInitializedBox", "rtfBox", "menu"}

\* A new loop is an RTF box or leaves the boxes as they are.
LEMMA PushedLoop ==
    ASSUME TypeOK, MaxLoops \in Nat, NEW loop \in Loops, Push(loop)
    PROVE  /\ loops' \in Seq(Loops) /\ Len(loops') <= MaxLoops
           /\ RtfBox' <=> RtfBox \/ loop = "rtfBox"
  <1>1. loops \in Seq(Loops) /\ loops' = Append(loops, loop) /\ Len(loops) < MaxLoops
    BY DEF TypeOK, Loops, Push
  <1>2. /\ loops' \in Seq(Loops) /\ Len(loops') = Len(loops) + 1
        /\ loops'[Len(loops) + 1] = loop
        /\ \A i \in 1..Len(loops) : loops'[i] = loops[i]
    BY <1>1
  <1>3. DOMAIN loops = 1..Len(loops) /\ DOMAIN loops' = 1..Len(loops) + 1 /\ Len(loops) \in Nat
    BY <1>1, <1>2
  <1>4. RtfBox' <=> RtfBox \/ loop = "rtfBox"
    BY <1>2, <1>3 DEF RtfBox
  <1> QED
    BY <1>1, <1>2, <1>3, <1>4

\* A loop that ends takes its own box away and no other.
LEMMA PoppedLoop ==
    ASSUME TypeOK, MaxLoops \in Nat, loops # <<>>, Pop
    PROVE  /\ loops' \in Seq(Loops) /\ Len(loops') <= MaxLoops
           /\ RtfBox' => RtfBox
           /\ Innermost # "rtfBox" => (RtfBox' <=> RtfBox)
  <1> DEFINE n == Len(loops)
  <1>1. loops \in Seq(Loops) /\ loops' = SubSeq(loops, 1, n - 1) /\ n <= MaxLoops
    BY DEF TypeOK, Loops, Pop
  <1>2. n \in Nat \ {0} /\ DOMAIN loops = 1..n
    BY <1>1
  <1>3. /\ loops' \in Seq(Loops) /\ Len(loops') = n - 1 /\ DOMAIN loops' = 1..n - 1
        /\ \A i \in 1..n - 1 : loops'[i] = loops[i]
    BY <1>1, <1>2
  <1>4. RtfBox' => RtfBox
    BY <1>2, <1>3 DEF RtfBox
  <1>5. ASSUME loops[n] # "rtfBox", RtfBox PROVE RtfBox'
    BY <1>2, <1>3, <1>5 DEF RtfBox
  <1> QED
    BY <1>1, <1>2, <1>3, <1>4, <1>5 DEF Innermost

\* The first box of a failed creation is followed by the second.
LEMMA AnsweredBox ==
    ASSUME TypeOK, AnswerInitBox
    PROVE  /\ loops' \in Seq(Loops) /\ Len(loops') <= MaxLoops
           /\ RtfBox' <=> RtfBox
  <1> DEFINE n == Len(loops)
  <1>1. /\ loops \in Seq(Loops) /\ n <= MaxLoops /\ loops # <<>> /\ loops[n] = "initBox"
        /\ loops' = [loops EXCEPT ![n] = "notInitializedBox"]
    BY DEF TypeOK, Loops, AnswerInitBox, Innermost
  <1>2. n \in Nat \ {0} /\ DOMAIN loops = 1..n
    BY <1>1
  <1>3. /\ loops' \in Seq(Loops) /\ Len(loops') = n /\ DOMAIN loops' = 1..n
        /\ \A i \in 1..n : loops'[i] = IF i = n THEN "notInitializedBox" ELSE loops[i]
    BY <1>1, <1>2 DEF Loops
  <1>4. RtfBox' <=> RtfBox
    BY <1>1, <1>2, <1>3 DEF RtfBox
  <1> QED
    BY <1>1, <1>3, <1>4

-----------------------------------------------------------------------------
(* Types. *)

\* What is shown or kept for the web view is a document rendered by it.
LEMMA NavigateTypes ==
    ASSUME TypeOK, NEW html \in Html, Navigate(html)
    PROVE  pendingHtml' \in Html \cup {NoHtml} /\ shown' \in Html \cup {NoHtml}
  BY DEF TypeOK, Navigate

\* Every way through ToggleMarkdownPreview keeps the types.
LEMMA ToggleTypes ==
    ASSUME TypeOK, ToggleMarkdownPreview, posted' \in 0..MaxPosted
    PROVE  TypeOK'
  <1> USE PreviewAssumption
  <1> USE DEF modes, windows, creation, content, document, selection, ending
  <1>a. /\ fileType' \in Types /\ text' \in Texts /\ destroyed' \in BOOLEAN
        /\ bShutdownOK' \in BOOLEAN
        /\ astray' \subseteq Deviations
    BY DEF TypeOK, ToggleMarkdownPreview, Deviations
  <1>1. CASE EnterRtf
    <2>1. loops' \in Seq(Loops) /\ Len(loops') <= MaxLoops
      <3>1. CASE UNCHANGED loops
        BY <3>1 DEF TypeOK, Loops
      <3>2. CASE Push("rtfBox")
        BY <3>2, PushedLoop DEF Loops
      <3> QED
        BY <1>1, <3>1, <3>2 DEF EnterRtf
    <2> QED
      BY <1>a, <1>1, <2>1 DEF TypeOK, EnterRtf, MenuFollows, Loops
  <1>2. CASE LeaveRtf
    BY <1>a, <1>2 DEF TypeOK, LeaveRtf, MenuFollows
  <1>3. CASE InitFails
    <2>1. loops' \in Seq(Loops) /\ Len(loops') <= MaxLoops
      BY <1>3, PushedLoop DEF InitFails, Loops
    <2> QED
      BY <1>a, <1>3, <2>1 DEF TypeOK, InitFails, Loops
  <1>4. ASSUME Initialize PROVE hwndWebView' \in BOOLEAN /\ initialized' \in BOOLEAN
                                /\ environments' \in Nat /\ controllers' \in Nat
    <2>1. CASE initialized
      BY <1>4, <2>1 DEF TypeOK, Initialize
    <2>2. CASE ~initialized
      BY <1>4, <2>2 DEF TypeOK, Initialize
    <2> QED
      BY <2>1, <2>2
  <1>5. CASE EnterWeb
    <2>1. pendingHtml' \in Html \cup {NoHtml} /\ shown' \in Html \cup {NoHtml}
      BY <1>5, NavigateTypes DEF EnterWeb, Update, Html, TypeOK
    <2> QED
      BY <1>a, <1>4, <1>5, <2>1 DEF TypeOK, EnterWeb, MenuFollows
  <1>6. CASE LeaveWeb
    BY <1>a, <1>4, <1>6 DEF TypeOK, LeaveWeb, MenuFollows
  <1> QED
    BY <1>1, <1>2, <1>3, <1>5, <1>6 DEF ToggleMarkdownPreview

\* Shutting down keeps the types of what it changes.
LEMMA ShutdownTypes ==
    ASSUME TypeOK, Shutdown
    PROVE  /\ visible' \subseteq {"edit", "web", "rtf"}
           /\ {menu', hSavedMenu', hwndRtfPreview'} \subseteq BOOLEAN
           /\ {hwndWebView', initialized', ready'} \subseteq BOOLEAN
           /\ environments' \in Nat /\ controllers' \in Nat
           /\ pendingHtml' \in Html \cup {NoHtml} /\ shown' \in Html \cup {NoHtml}
           /\ bShutdownOK' \in BOOLEAN
           /\ astray' \subseteq Deviations
  <1> USE DEF TypeOK, windows, creation, content
  <1>1. CASE bShutdownOK
    BY <1>1 DEF Shutdown
  <1>2. CASE ~bShutdownOK
    <2>1. CleanupWebView2 /\ bShutdownOK'
      BY <1>2 DEF Shutdown
    <2>2. astray' \subseteq Deviations
      <3>1. "callbacksOrphaned" \in Deviations
        BY DEF Deviations
      <3>2. astray' = astray \/ astray' = astray \cup {"callbacksOrphaned"}
        BY <2>1 DEF CleanupWebView2
      <3> QED
        BY <3>1, <3>2
    <2> QED
      BY <2>1, <2>2 DEF CleanupWebView2
  <1> QED
    BY <1>1, <1>2

\* A creation without a web view is noted, and nothing else that is astray is forgotten.
LEMMA CallbackNotes ==
    ASSUME astray \subseteq Deviations, EnvironmentCompleted \/ ControllerCompleted
    PROVE  astray' \subseteq Deviations
  <1>1. \/ astray' = astray
        \/ \E x \in {"creationFailed", "noWebView"} : astray' = astray \cup {x}
    BY DEF EnvironmentCompleted, ControllerCompleted
  <1>2. "creationFailed" \in Deviations /\ "noWebView" \in Deviations
    BY DEF Deviations
  <1> QED
    BY <1>1, <1>2

\* Every step keeps the types.
LEMMA TypeStep ==
    ASSUME TypeOK, [Next]_vars
    PROVE  TypeOK'
  <1> USE PreviewAssumption
  <1> USE DEF modes, windows, creation, content, document, selection, ending
  <1>1. CASE ViewPreview \/ ViewPreviewFromMenu \/ PostedToggle
    <2>1. ToggleMarkdownPreview /\ posted' \in 0..MaxPosted
      BY <1>1 DEF TypeOK, ViewPreview, ViewPreviewFromMenu, PostedToggle
    <2> QED
      BY <2>1, ToggleTypes
  <1>2. CASE AnswerInitBox
    BY <1>2, AnsweredBox DEF TypeOK, AnswerInitBox, Loops
  <1>3. CASE AnswerNotInitializedBox \/ AnswerRtfBox
    <2>1. loops' \in Seq(Loops) /\ Len(loops') <= MaxLoops
      BY <1>3, PoppedLoop DEF AnswerNotInitializedBox, AnswerRtfBox
    <2> QED
      BY <1>3, <2>1 DEF TypeOK, AnswerNotInitializedBox, AnswerRtfBox, Loops
  <1>4. CASE EnvironmentCompleted
    <2>1. environments' \in Nat /\ controllers' \in Nat /\ astray' \subseteq Deviations
      <3>1. environments \in Nat /\ controllers \in Nat /\ astray \subseteq Deviations
        BY DEF TypeOK
      <3> QED
        BY <1>4, <3>1, CallbackNotes DEF EnvironmentCompleted
    <2> QED
      BY <1>4, <2>1, Zenon DEF TypeOK, EnvironmentCompleted
  <1>5. CASE ControllerCompleted
    <2>1. /\ controllers' \in Nat /\ astray' \subseteq Deviations
          /\ pendingHtml' \in Html \cup {NoHtml} /\ shown' \in Html \cup {NoHtml}
      <3>1. /\ controllers \in Nat /\ astray \subseteq Deviations
            /\ pendingHtml \in Html \cup {NoHtml} /\ shown \in Html \cup {NoHtml}
        BY DEF TypeOK
      <3>2. controllers' \in Nat
        BY <1>5, <3>1 DEF ControllerCompleted
      <3>3. \/ shown' = pendingHtml /\ pendingHtml' = NoHtml
            \/ shown' = shown /\ pendingHtml' = pendingHtml
            \/ shown' = NoHtml /\ pendingHtml' = pendingHtml
        BY <1>5 DEF ControllerCompleted
      <3> QED
        BY <1>5, <3>1, <3>2, <3>3, CallbackNotes
    <2>2. ready' \in BOOLEAN
      BY <1>5 DEF TypeOK, ControllerCompleted
    <2> QED
      BY <1>5, <2>1, <2>2, Zenon DEF TypeOK, ControllerCompleted
  <1>6. CASE AcceleratorKeyPressed
    BY <1>6 DEF TypeOK, AcceleratorKeyPressed
  <1>7. CASE ContextMenu
    <2>1. loops' \in Seq(Loops) /\ Len(loops') <= MaxLoops
      BY <1>7, PushedLoop DEF ContextMenu, Loops
    <2> QED
      BY <1>7, <2>1 DEF TypeOK, ContextMenu, Loops
  <1>8. CASE ChooseFind \/ ChooseExit \/ ChooseRefresh \/ ChooseOther
    <2>1. loops' \in Seq(Loops) /\ Len(loops') <= MaxLoops
      BY <1>8, PoppedLoop
      DEF ChooseFind, ChooseExit, ChooseRefresh, ChooseOther, MenuCloses
    <2>2. CASE ChooseFind
      BY <2>1, <2>2 DEF TypeOK, ChooseFind, Loops
    <2>3. CASE ChooseExit
      <3>1. posted' \in 0..MaxPosted
        BY <2>3 DEF TypeOK, ChooseExit
      <3> QED
        BY <2>1, <2>3, <3>1, Zenon DEF TypeOK, ChooseExit, Loops
    <2>4. CASE ChooseRefresh
      <3>1. /\ pendingHtml' \in Html \cup {NoHtml} /\ shown' \in Html \cup {NoHtml}
            /\ outdated' \in BOOLEAN
        <4>1. CASE hwndWebView
          BY <2>4, <4>1, NavigateTypes DEF ChooseRefresh, Update, Html, TypeOK
        <4>2. CASE ~hwndWebView
          BY <2>4, <4>2 DEF ChooseRefresh, TypeOK
        <4> QED
          BY <4>1, <4>2
      <3> QED
        BY <2>1, <2>4, <3>1 DEF TypeOK, ChooseRefresh, Loops
    <2>5. CASE ChooseOther
      BY <2>1, <2>5 DEF TypeOK, ChooseOther, Loops
    <2> QED
      BY <1>8, <2>2, <2>3, <2>4, <2>5
  <1>9. CASE LoadFile
    BY <1>9 DEF TypeOK, LoadFile, Deviations
  <1>10. CASE Edit
    BY <1>10 DEF TypeOK, Edit
  <1>11. CASE WMDestroy \/ WMEndSession \/ WMEndSessionCancelled
    BY <1>11, ShutdownTypes
    DEF TypeOK, WMDestroy, WMEndSession, WMEndSessionCancelled
  <1>12. CASE UNCHANGED vars
    BY <1>12 DEF TypeOK, vars
  <1> QED
    BY <1>1, <1>2, <1>3, <1>4, <1>5, <1>6, <1>7, <1>8, <1>9, <1>10, <1>11, <1>12 DEF Next

-----------------------------------------------------------------------------
(* What toggling leaves alone. *)

Toggle == ViewPreview \/ ViewPreviewFromMenu \/ PostedToggle

\* The document and the ending stay, and of what is astray only toggling behind
\* RTF's box is new.
LEMMA ToggleFrame ==
    ASSUME Toggle
    PROVE  /\ ToggleMarkdownPreview
           /\ UNCHANGED <<fileType, text, bShutdownOK, destroyed>>
           /\ (Failed' <=> Failed) /\ (TypeChanged' <=> TypeChanged)
           /\ (Orphaned' <=> Orphaned)
           /\ Toggled' <=> (Toggled \/ RtfBox)
  BY DEF Toggle, ViewPreview, ViewPreviewFromMenu, PostedToggle, ToggleMarkdownPreview,
         Failed, TypeChanged, Orphaned, Toggled, RtfBox, ending

\* It starts the creation of a web view only where none was started.
LEMMA ToggleCreation ==
    ASSUME Toggle
    PROVE  /\ UNCHANGED <<ready, controllers>>
           /\ \/ UNCHANGED <<initialized, environments>>
              \/ ~initialized /\ initialized' = TRUE /\ environments' = environments + 1
  <1> USE DEF creation, content
  <1>1. ASSUME Initialize
        PROVE  /\ controllers' = controllers
               /\ \/ UNCHANGED <<initialized, environments>>
                  \/ ~initialized /\ initialized' = TRUE /\ environments' = environments + 1
    BY <1>1 DEF Initialize
  <1>2. CASE EnterRtf
    BY <1>2 DEF EnterRtf
  <1>3. CASE LeaveRtf
    BY <1>3 DEF LeaveRtf
  <1>4. CASE InitFails
    BY <1>4 DEF InitFails
  <1>5. CASE EnterWeb
    BY <1>1, <1>5 DEF EnterWeb
  <1>6. CASE LeaveWeb
    BY <1>1, <1>6 DEF LeaveWeb
  <1> QED
    BY ToggleFrame, <1>2, <1>3, <1>4, <1>5, <1>6 DEF ToggleMarkdownPreview

-----------------------------------------------------------------------------
(* The creation of the web view. *)

\* No step makes a second web view or loses the one that is to come.
LEMMA OneWebViewStep ==
    ASSUME TypeOK, OneWebView, [Next]_vars
    PROVE  OneWebView'
  <1> USE DEF modes, windows, creation, content, document, selection, ending
  <1>a. environments \in Nat /\ controllers \in Nat /\ ready \in BOOLEAN /\ initialized \in BOOLEAN
    BY DEF TypeOK
  <1>1. CASE Toggle
    <2>1. /\ UNCHANGED <<ready, controllers>>
          /\ Failed' <=> Failed
          /\ Orphaned' <=> Orphaned
      BY <1>1, ToggleFrame, ToggleCreation
    <2>2. CASE UNCHANGED <<initialized, environments>>
      BY <2>1, <2>2 DEF OneWebView, Failed
    <2>3. CASE ~initialized /\ initialized' = TRUE /\ environments' = environments + 1
      BY <1>a, <2>1, <2>3 DEF OneWebView, Failed
    <2> QED
      BY <1>1, <2>2, <2>3, ToggleCreation
  <1>2. CASE EnvironmentCompleted
    <2>1. UNCHANGED <<bShutdownOK, initialized, ready>> /\ environments > 0
      BY <1>2 DEF EnvironmentCompleted
    <2>2. CASE environments' = environments - 1 /\ controllers' = controllers + 1 /\ UNCHANGED astray
      BY <1>a, <2>1, <2>2 DEF OneWebView, Orphaned
    <2>3. CASE environments' = environments - 1 /\ controllers' = controllers
               /\ Failed' /\ (Orphaned' <=> Orphaned)
      BY <1>a, <2>1, <2>3 DEF OneWebView, Failed
    <2> QED
      BY <1>2, <2>2, <2>3 DEF EnvironmentCompleted, Failed, Orphaned
  <1>3. CASE ControllerCompleted
    <2>1. UNCHANGED <<bShutdownOK, initialized, environments>> /\ controllers > 0
      BY <1>3 DEF ControllerCompleted
    <2>2. CASE controllers' = controllers - 1 /\ ready' = TRUE /\ UNCHANGED astray
      BY <1>a, <2>1, <2>2 DEF OneWebView, Orphaned
    <2>3. CASE /\ controllers' = controllers - 1 /\ ready' \in {ready, FALSE}
               /\ Failed' /\ (Orphaned' <=> Orphaned)
      BY <1>a, <2>1, <2>3 DEF OneWebView, Failed
    <2> QED
      BY <1>3, <2>2, <2>3 DEF ControllerCompleted, Failed, Orphaned
  <1>4. CASE WMDestroy \/ WMEndSession \/ WMEndSessionCancelled
    <2>1. Shutdown
      BY <1>4 DEF WMDestroy, WMEndSession, WMEndSessionCancelled
    <2>2. CASE bShutdownOK
      BY <2>1, <2>2 DEF Shutdown, OneWebView, Orphaned
    <2>3. CASE ~bShutdownOK
      <3>1. ~ready' /\ ~initialized' /\ UNCHANGED <<environments, controllers>>
        BY <2>1, <2>3 DEF Shutdown, CleanupWebView2
      <3>2. environments + controllers > 0 => Orphaned'
        BY <2>1, <2>3 DEF Shutdown, CleanupWebView2, Orphaned
      <3>3. environments + controllers > 0 \/ environments + controllers = 0
        BY <1>a
      <3> QED
        BY <1>a, <3>1, <3>2, <3>3 DEF OneWebView
    <2> QED
      BY <2>2, <2>3
  <1>5. CASE LoadFile
    BY <1>5 DEF LoadFile, OneWebView, Orphaned
  <1>6. CASE ChooseRefresh
    BY <1>6 DEF ChooseRefresh, OneWebView, Orphaned
  <1>7. CASE \/ AnswerInitBox \/ AnswerNotInitializedBox \/ AnswerRtfBox
             \/ AcceleratorKeyPressed \/ ContextMenu
             \/ ChooseFind \/ ChooseExit \/ ChooseOther
             \/ Edit \/ UNCHANGED vars
    <2>1. UNCHANGED <<bShutdownOK, initialized, ready, environments, controllers, astray>>
      BY <1>7 DEF AnswerInitBox, AnswerNotInitializedBox, AnswerRtfBox, AcceleratorKeyPressed,
                  ContextMenu, ChooseFind, ChooseExit, ChooseOther, Edit, vars
    <2> QED
      BY <2>1 DEF OneWebView, Orphaned
  <1> QED
    BY <1>1, <1>2, <1>3, <1>4, <1>5, <1>6, <1>7 DEF Next, Toggle

-----------------------------------------------------------------------------
(* Modes and windows. *)

\* The mode follows the type of the file as long as the type does not change
\* during a preview.
LEMMA ModeStep ==
    ASSUME TypeOK, ModeOfType, [Next]_vars
    PROVE  ModeOfType'
  <1> USE DEF modes, windows, creation, content, document, selection, ending
  <1>a. bPreviewMode \in BOOLEAN /\ bRtfPreviewMode \in BOOLEAN
    BY DEF TypeOK
  <1>1. CASE Toggle
    <2>1. ToggleMarkdownPreview /\ UNCHANGED fileType /\ (TypeChanged' <=> TypeChanged)
      BY <1>1, ToggleFrame
    <2>2. CASE fileType = "rtf" /\ EnterRtf
      BY <2>1, <2>2 DEF EnterRtf, ModeOfType
    <2>3. CASE LeaveRtf \/ LeaveWeb
      BY <2>3 DEF LeaveRtf, LeaveWeb, ModeOfType
    <2>4. CASE fileType # "rtf" /\ InitFails
      BY <2>1, <2>4 DEF InitFails, ModeOfType
    <2>5. CASE fileType # "rtf" /\ EnterWeb
      BY <2>1, <2>5 DEF EnterWeb, ModeOfType
    <2> QED
      BY <2>1, <2>2, <2>3, <2>4, <2>5 DEF ToggleMarkdownPreview
  <1>2. CASE AnswerRtfBox
    BY <1>2 DEF AnswerRtfBox, ModeOfType
  <1>3. CASE LoadFile
    <2>1. CASE fileType' = fileType \/ ~bPreviewMode
      BY <1>3, <2>1 DEF LoadFile, ModeOfType, TypeChanged
    <2>2. CASE fileType' # fileType /\ bPreviewMode
      BY <1>3, <2>2 DEF LoadFile, ModeOfType, TypeChanged
    <2> QED
      BY <2>1, <2>2, <1>a
  <1>4. CASE \/ EnvironmentCompleted \/ ControllerCompleted
             \/ WMDestroy \/ WMEndSession \/ WMEndSessionCancelled
    <2>1. UNCHANGED <<bPreviewMode, bRtfPreviewMode, fileType>> /\ (TypeChanged' <=> TypeChanged)
      BY <1>4 DEF EnvironmentCompleted, ControllerCompleted, WMDestroy, WMEndSession,
                  WMEndSessionCancelled, Shutdown, CleanupWebView2, TypeChanged
    <2> QED
      BY <2>1 DEF ModeOfType
  <1>5. CASE \/ AnswerInitBox \/ AnswerNotInitializedBox
             \/ AcceleratorKeyPressed \/ ContextMenu
             \/ ChooseFind \/ ChooseExit \/ ChooseRefresh \/ ChooseOther
             \/ Edit \/ UNCHANGED vars
    <2>1. UNCHANGED <<bPreviewMode, bRtfPreviewMode, fileType, astray>>
      BY <1>5 DEF AnswerInitBox, AnswerNotInitializedBox, AcceleratorKeyPressed, ContextMenu,
                  ChooseFind, ChooseExit, ChooseRefresh, ChooseOther, Edit, vars
    <2> QED
      BY <2>1 DEF ModeOfType, TypeChanged
  <1> QED
    BY <1>1, <1>2, <1>3, <1>4, <1>5 DEF Next, Toggle

Windowed == MenuKept /\ EditBehindBox /\ WindowsFollowMode

\* WindowsFollowMode speaks of RtfBox in its own words.
LEMMA NoBox ==
    (\A i \in DOMAIN loops : loops[i] # "rtfBox") <=> ~RtfBox
  BY DEF RtfBox

\* The same windows, mode and boxes, and no new excuse: nothing to show anew.
LEMMA SameWindows ==
    ASSUME Windowed, UNCHANGED <<visible, menu, hSavedMenu, bPreviewMode, bRtfPreviewMode>>,
           RtfBox' <=> RtfBox, Toggled' <=> Toggled, TypeChanged => TypeChanged',
           bShutdownOK => bShutdownOK'
    PROVE  Windowed'
  BY DEF Windowed, MenuKept, EditBehindBox, WindowsFollowMode, Toggled, RtfBox

\* Toggling exchanges the windows and the menu.
LEMMA WindowToggle ==
    ASSUME TypeOK, ModeOfType, Windowed, Toggle
    PROVE  Windowed'
  <1> USE PreviewAssumption
  <1> USE DEF windows
  <1>a. /\ ToggleMarkdownPreview
        /\ UNCHANGED <<bShutdownOK, fileType>> /\ (TypeChanged' <=> TypeChanged)
        /\ Toggled' <=> Toggled \/ RtfBox
    BY ToggleFrame
  <1>b. CASE Toggled'
    BY <1>b DEF Windowed, MenuKept, EditBehindBox, WindowsFollowMode, Toggled
  <1>c. CASE ~Toggled'
    <2>1. /\ ~Toggled /\ ~RtfBox
          /\ menu = ~bPreviewMode /\ ("edit" \in visible) = ~bPreviewMode
          /\ menu \/ hSavedMenu
          /\ ~TypeChanged /\ ~bShutdownOK =>
               visible = IF ~bPreviewMode THEN {"edit"}
                         ELSE IF bRtfPreviewMode THEN {"rtf"} ELSE {"web"}
      BY <1>a, <1>c, NoBox DEF Windowed, MenuKept, WindowsFollowMode, Toggled
    <2>2. CASE fileType = "rtf" /\ ~bPreviewMode /\ EnterRtf
      <3>1. CASE hwndRtfPreview' = TRUE /\ visible' = {"rtf"} /\ MenuFollows(TRUE) /\ UNCHANGED loops
        <4>1. menu
          BY <2>1, <2>2
        <4>2. /\ bPreviewMode' = TRUE /\ bRtfPreviewMode' = TRUE /\ UNCHANGED loops
              /\ menu' = FALSE /\ hSavedMenu' /\ visible' = {"rtf"}
          BY <2>2, <3>1, <4>1 DEF EnterRtf, MenuFollows
        <4>3. ~RtfBox'
          BY <2>1, <4>2 DEF RtfBox
        <4>4. /\ "edit" \notin visible' /\ bPreviewMode' /\ bRtfPreviewMode' /\ ~menu'
              /\ bPreviewMode' \in BOOLEAN /\ menu' \in BOOLEAN
          BY <4>2
        <4>5. ("edit" \in visible') = ~bPreviewMode' /\ menu' = ~bPreviewMode'
          BY <4>4
        <4>6. visible' = IF ~bPreviewMode' THEN {"edit"}
                         ELSE IF bRtfPreviewMode' THEN {"rtf"} ELSE {"web"}
          BY <4>2, <4>4
        <4>7. MenuKept' /\ EditBehindBox'
          BY <4>2, <4>3 DEF MenuKept, EditBehindBox
        <4>8. WindowsFollowMode'
          BY <4>5, <4>6 DEF WindowsFollowMode
        <4> QED
          BY <4>7, <4>8 DEF Windowed
      <3>2. CASE Push("rtfBox") /\ UNCHANGED windows
        <4>1. RtfBox'
          BY <3>2, PushedLoop DEF Loops
        <4> QED
          BY <1>a, <2>1, <2>2, <3>2, <4>1, NoBox
          DEF Windowed, MenuKept, EditBehindBox, WindowsFollowMode, RtfBox
      <3> QED
        BY <2>2, <3>1, <3>2 DEF EnterRtf
    <2>3. CASE fileType = "rtf" /\ bPreviewMode /\ LeaveRtf
      <3>1. bRtfPreviewMode \/ TypeChanged
        BY <2>3 DEF ModeOfType
      <3>2. menu' /\ "edit" \in visible' /\ ~bPreviewMode' /\ UNCHANGED loops
        BY <2>1, <2>3 DEF LeaveRtf, MenuFollows
      <3>3. ~TypeChanged /\ ~bShutdownOK => visible' = {"edit"}
        BY <2>1, <2>3, <3>1 DEF LeaveRtf
      <3> QED
        BY <1>a, <2>1, <3>2, <3>3
        DEF Windowed, MenuKept, EditBehindBox, WindowsFollowMode, RtfBox
    <2>4. CASE fileType # "rtf" /\ InitFails
      <3>1. RtfBox' <=> RtfBox
        BY <2>4, PushedLoop DEF InitFails, Loops
      <3>2. bPreviewMode /\ ~TypeChanged => ~bRtfPreviewMode
        BY <2>4 DEF ModeOfType
      <3>3. bRtfPreviewMode' = FALSE /\ UNCHANGED <<bPreviewMode, visible, menu, hSavedMenu>>
        BY <2>4 DEF InitFails
      <3>4. ~TypeChanged /\ ~bShutdownOK => visible = IF bPreviewMode THEN {"web"} ELSE {"edit"}
        BY <2>1, <3>2
      <3> QED
        BY <1>a, <2>1, <3>1, <3>3, <3>4, NoBox
        DEF Windowed, MenuKept, EditBehindBox, WindowsFollowMode, RtfBox
    <2>5. CASE fileType # "rtf" /\ ~bPreviewMode /\ EnterWeb
      <3>1. menu
        BY <2>1, <2>5
      <3>2. /\ bPreviewMode' = TRUE /\ bRtfPreviewMode' = FALSE /\ UNCHANGED loops
            /\ menu' = FALSE /\ hSavedMenu' /\ visible' = {"web"}
        BY <2>5, <3>1 DEF EnterWeb, MenuFollows
      <3>3. ~RtfBox'
        BY <2>1, <3>2 DEF RtfBox
      <3>4. /\ "edit" \notin visible' /\ bPreviewMode' /\ ~bRtfPreviewMode' /\ ~menu'
            /\ bPreviewMode' \in BOOLEAN /\ menu' \in BOOLEAN
        BY <3>2
      <3>5. ("edit" \in visible') = ~bPreviewMode' /\ menu' = ~bPreviewMode'
        BY <3>4
      <3>6. visible' = IF ~bPreviewMode' THEN {"edit"}
                       ELSE IF bRtfPreviewMode' THEN {"rtf"} ELSE {"web"}
        BY <3>2, <3>4
      <3>7. MenuKept' /\ EditBehindBox'
        BY <3>2, <3>3 DEF MenuKept, EditBehindBox
      <3>8. WindowsFollowMode'
        BY <3>5, <3>6 DEF WindowsFollowMode
      <3> QED
        BY <3>7, <3>8 DEF Windowed
    <2>6. CASE fileType # "rtf" /\ bPreviewMode /\ LeaveWeb
      <3>1. ~bRtfPreviewMode \/ TypeChanged
        BY <2>6 DEF ModeOfType
      <3>2. menu' /\ "edit" \in visible' /\ ~bPreviewMode' /\ UNCHANGED loops
        BY <2>1, <2>6 DEF LeaveWeb, MenuFollows
      <3>3. ~TypeChanged /\ ~bShutdownOK => visible' = {"edit"}
        BY <2>1, <2>6, <3>1 DEF LeaveWeb
      <3> QED
        BY <1>a, <2>1, <3>2, <3>3
        DEF Windowed, MenuKept, EditBehindBox, WindowsFollowMode, RtfBox
    <2> QED
      BY <1>a, <2>2, <2>3, <2>4, <2>5, <2>6 DEF ToggleMarkdownPreview
  <1> QED
    BY <1>b, <1>c

\* What else happens to windows: RTF's box is answered, and the end hides the web view.
LEMMA WindowStep ==
    ASSUME TypeOK, ModeOfType, Windowed, [Next]_vars
    PROVE  Windowed'
  <1> USE PreviewAssumption
  <1> USE DEF modes, windows, creation, content, document, selection, ending
  <1>1. CASE Toggle
    BY <1>1, WindowToggle
  <1>2. CASE AnswerInitBox
    BY <1>2, AnsweredBox, SameWindows DEF AnswerInitBox, Toggled, TypeChanged
  <1>3. CASE AnswerNotInitializedBox
    <2>1. RtfBox' <=> RtfBox
      BY <1>3, PoppedLoop DEF AnswerNotInitializedBox
    <2> QED
      BY <1>3, <2>1, SameWindows DEF AnswerNotInitializedBox, Toggled, TypeChanged
  <1>4. CASE AnswerRtfBox
    <2>1. /\ loops # <<>> /\ Innermost = "rtfBox" /\ Pop /\ ~bPreviewMode'
          /\ UNCHANGED <<visible, menu, hSavedMenu, bShutdownOK, astray>>
      BY <1>4 DEF AnswerRtfBox
    <2>2. RtfBox
      BY <2>1 DEF RtfBox, Innermost, TypeOK
    <2> QED
      BY <2>1, <2>2, NoBox
      DEF Windowed, MenuKept, EditBehindBox, WindowsFollowMode, Toggled, TypeChanged
  <1>5. CASE ContextMenu
    <2>1. RtfBox' <=> RtfBox
      BY <1>5, PushedLoop DEF ContextMenu, Loops
    <2> QED
      BY <1>5, <2>1, SameWindows DEF ContextMenu, Toggled, TypeChanged
  <1>6. CASE ChooseFind \/ ChooseExit \/ ChooseRefresh \/ ChooseOther
    <2>1. MenuCloses /\ UNCHANGED <<visible, menu, hSavedMenu, bPreviewMode, bRtfPreviewMode,
                                    bShutdownOK, astray>>
      BY <1>6 DEF ChooseFind, ChooseExit, ChooseRefresh, ChooseOther
    <2>2. RtfBox' <=> RtfBox
      BY <2>1, PoppedLoop DEF MenuCloses
    <2> QED
      BY <2>1, <2>2, SameWindows DEF Toggled, TypeChanged
  <1>7. CASE LoadFile \/ EnvironmentCompleted \/ ControllerCompleted
    <2>1. /\ UNCHANGED <<visible, menu, hSavedMenu, bPreviewMode, bRtfPreviewMode, loops, bShutdownOK>>
          /\ (Toggled' <=> Toggled) /\ (TypeChanged => TypeChanged')
      BY <1>7 DEF LoadFile, EnvironmentCompleted, ControllerCompleted, Toggled, TypeChanged
    <2> QED
      BY <2>1, SameWindows DEF RtfBox
  <1>8. CASE WMDestroy \/ WMEndSession \/ WMEndSessionCancelled
    <2>1. /\ Shutdown /\ UNCHANGED <<bPreviewMode, bRtfPreviewMode, loops>>
          /\ (Toggled' <=> Toggled) /\ (TypeChanged => TypeChanged')
      BY <1>8 DEF WMDestroy, WMEndSession, WMEndSessionCancelled, Shutdown, CleanupWebView2,
                  Toggled, TypeChanged
    <2>2. /\ bShutdownOK' /\ UNCHANGED <<menu, hSavedMenu>>
          /\ ("edit" \in visible') = ("edit" \in visible)
      BY <2>1 DEF Shutdown, CleanupWebView2
    <2> QED
      BY <2>1, <2>2 DEF Windowed, MenuKept, EditBehindBox, WindowsFollowMode, Toggled, RtfBox
  <1>9. CASE AcceleratorKeyPressed \/ Edit \/ UNCHANGED vars
    <2>1. UNCHANGED <<visible, menu, hSavedMenu, bPreviewMode, bRtfPreviewMode, loops,
                      bShutdownOK, astray>>
      BY <1>9 DEF AcceleratorKeyPressed, Edit, vars
    <2> QED
      BY <2>1, SameWindows DEF RtfBox, Toggled, TypeChanged
  <1> QED
    BY <1>1, <1>2, <1>3, <1>4, <1>5, <1>6, <1>7, <1>8, <1>9 DEF Next, Toggle

-----------------------------------------------------------------------------
(* Content. *)

Contented == PendingIsText /\ PreviewShowsText

\* Nothing that the preview shows or was asked to show changes, and no new excuse.
LEMMA SameContent ==
    ASSUME Contented, UNCHANGED <<bPreviewMode, bRtfPreviewMode, bHtmlPreviewMode, ready,
                                  initialized, pendingHtml, shown, text, outdated>>,
           TypeChanged => TypeChanged', Orphaned => Orphaned'
    PROVE  Contented'
  BY DEF Contented, PendingIsText, PreviewShowsText, Wanted

\* Entering a preview asks for the text in the form of the mode; whatever else
\* toggling does ends the preview, or leaves it as it is.
LEMMA ContentToggle ==
    ASSUME TypeOK, ModeOfType, Contented, Toggle
    PROVE  Contented'
  <1> USE DEF content
  <1>a. /\ ToggleMarkdownPreview
        /\ UNCHANGED <<fileType, text, ready>> /\ (TypeChanged' <=> TypeChanged)
        /\ (Orphaned' <=> Orphaned)
    BY ToggleFrame, ToggleCreation
  <1>1. CASE EnterRtf
    <2>1. bRtfPreviewMode'
      BY <1>1 DEF EnterRtf
    <2> QED
      BY <2>1 DEF Contented, PendingIsText, PreviewShowsText
  <1>2. CASE LeaveRtf \/ LeaveWeb
    <2>1. ~bPreviewMode'
      BY <1>2 DEF LeaveRtf, LeaveWeb
    <2> QED
      BY <2>1 DEF Contented, PendingIsText, PreviewShowsText
  <1>3. CASE fileType # "rtf" /\ InitFails
    <2>1. bPreviewMode /\ ~TypeChanged => ~bRtfPreviewMode
      BY <1>3 DEF ModeOfType
    <2>2. UNCHANGED <<bPreviewMode, bHtmlPreviewMode, initialized, pendingHtml, shown, outdated>>
      BY <1>3 DEF InitFails
    <2> QED
      BY <1>a, <2>1, <2>2 DEF Contented, PendingIsText, PreviewShowsText, Wanted
  <1>4. CASE EnterWeb
    <2>1. bHtmlPreviewMode' = (fileType = "html")
      BY <1>4 DEF EnterWeb
    <2>2. Navigate(Wanted')
      BY <1>a, <1>4, <2>1 DEF EnterWeb, Update, Wanted
    <2>3. IF ready' THEN shown' = Wanted' ELSE pendingHtml' = Wanted'
      BY <1>a, <2>2 DEF Navigate
    <2> QED
      BY <2>3 DEF Contented, PendingIsText, PreviewShowsText, Wanted
  <1> QED
    BY <1>a, <1>1, <1>2, <1>3, <1>4 DEF ToggleMarkdownPreview

\* Whether the request or the callbacks come first: the one web view there will be
\* is given what is pending.
LEMMA ContentStep ==
    ASSUME TypeOK, OneWebView, ModeOfType, Contented, [Next]_vars
    PROVE  Contented'
  <1> USE DEF modes, windows, creation, content, document, selection, ending
  <1>1. CASE Toggle
    BY <1>1, ContentToggle
  <1>2. CASE AnswerRtfBox
    <2>1. ~bPreviewMode'
      BY <1>2 DEF AnswerRtfBox
    <2> QED
      BY <2>1 DEF Contented, PendingIsText, PreviewShowsText
  <1>3. CASE EnvironmentCompleted
    BY <1>3, SameContent DEF EnvironmentCompleted, TypeChanged, Orphaned
  <1>4. CASE ControllerCompleted
    <2>1. /\ UNCHANGED <<bPreviewMode, bRtfPreviewMode, bHtmlPreviewMode, initialized, text, outdated>>
          /\ (TypeChanged' <=> TypeChanged) /\ (Orphaned' <=> Orphaned) /\ controllers > 0
      BY <1>4 DEF ControllerCompleted, TypeChanged, Orphaned
    <2>2. ~Orphaned => initialized /\ ~ready
      <3>1. environments \in Nat /\ controllers \in Nat
        BY DEF TypeOK
      <3> QED
        BY <2>1, <3>1 DEF OneWebView
    <2>3. CASE UNCHANGED content
      BY <2>1, <2>3, SameContent
    <2>4. CASE ready' = TRUE /\ shown' = pendingHtml
      BY <2>1, <2>2, <2>4 DEF Contented, PendingIsText, PreviewShowsText, Wanted
    <2>5. CASE ready' = FALSE /\ UNCHANGED pendingHtml
      BY <2>1, <2>2, <2>5 DEF Contented, PendingIsText, PreviewShowsText, Wanted
    <2> QED
      BY <1>4, <2>3, <2>4, <2>5 DEF ControllerCompleted
  <1>5. CASE ChooseRefresh
    <2>1. /\ UNCHANGED <<bPreviewMode, bRtfPreviewMode, bHtmlPreviewMode, text, ready, initialized>>
          /\ (TypeChanged' <=> TypeChanged) /\ (Orphaned' <=> Orphaned)
      BY <1>5 DEF ChooseRefresh, TypeChanged, Orphaned
    <2>2. CASE ~hwndWebView
      BY <1>5, <2>1, <2>2, SameContent DEF ChooseRefresh
    <2>3. CASE hwndWebView /\ bHtmlPreviewMode
      <3>1. outdated'
        BY <1>5, <2>3 DEF ChooseRefresh
      <3> QED
        BY <3>1 DEF Contented, PendingIsText, PreviewShowsText
    <2>4. CASE hwndWebView /\ ~bHtmlPreviewMode
      <3>1. Navigate([text |-> text, as |-> "markdown"])
        BY <1>5, <2>4 DEF ChooseRefresh, Update
      <3>2. IF ready' THEN shown' = Wanted' ELSE pendingHtml' = Wanted'
        BY <2>1, <2>4, <3>1 DEF Navigate, Wanted
      <3> QED
        BY <3>2 DEF Contented, PendingIsText, PreviewShowsText, Wanted
    <2> QED
      BY <2>2, <2>3, <2>4
  <1>6. CASE LoadFile \/ Edit
    <2>1. outdated'
      BY <1>6 DEF LoadFile, Edit
    <2> QED
      BY <2>1 DEF Contented, PendingIsText, PreviewShowsText
  <1>7. CASE WMDestroy \/ WMEndSession \/ WMEndSessionCancelled
    <2>1. Shutdown /\ UNCHANGED <<bPreviewMode, bRtfPreviewMode, bHtmlPreviewMode, text, outdated>>
      BY <1>7 DEF WMDestroy, WMEndSession, WMEndSessionCancelled
    <2>2. CASE bShutdownOK
      BY <2>1, <2>2, SameContent DEF Shutdown, TypeChanged, Orphaned
    <2>3. CASE ~bShutdownOK
      <3>1. ~ready' /\ ~initialized'
        BY <2>1, <2>3 DEF Shutdown, CleanupWebView2
      <3> QED
        BY <3>1 DEF Contented, PendingIsText, PreviewShowsText
    <2> QED
      BY <2>2, <2>3
  <1>8. CASE \/ AnswerInitBox \/ AnswerNotInitializedBox
             \/ AcceleratorKeyPressed \/ ContextMenu
             \/ ChooseFind \/ ChooseExit \/ ChooseOther
             \/ UNCHANGED vars
    <2>1. UNCHANGED <<bPreviewMode, bRtfPreviewMode, bHtmlPreviewMode, ready, initialized,
                      pendingHtml, shown, text, outdated, astray>>
      BY <1>8 DEF AnswerInitBox, AnswerNotInitializedBox, AcceleratorKeyPressed, ContextMenu,
                  ChooseFind, ChooseExit, ChooseOther, vars
    <2> QED
      BY <2>1, SameContent DEF TypeChanged, Orphaned
  <1> QED
    BY <1>1, <1>2, <1>3, <1>4, <1>5, <1>6, <1>7, <1>8 DEF Next, Toggle

-----------------------------------------------------------------------------
(* The theorems. *)

\* The invariant holds of every behavior: the program begins in edit mode, with
\* nothing created and nothing shown.
THEOREM Inductive == Spec => []IInv
  <1>1. Init => IInv
    <2> SUFFICES ASSUME Init PROVE IInv
      OBVIOUS
    <2>1. TypeOK
      <3>1. loops \in Seq({"initBox", "notInitializedBox", "rtfBox", "menu"}) /\ Len(loops) <= MaxLoops
        BY PreviewAssumption DEF Init
      <3>2. /\ environments \in Nat /\ controllers \in Nat /\ posted \in 0..MaxPosted
            /\ astray \subseteq Deviations /\ visible \subseteq {"edit", "web", "rtf"}
        BY PreviewAssumption DEF Init
      <3> QED
        BY <3>1, <3>2 DEF Init, TypeOK
    <2>2. OneWebView
      BY DEF Init, OneWebView
    <2>3. ModeOfType /\ PendingIsText /\ PreviewShowsText
      BY DEF Init, ModeOfType, PendingIsText, PreviewShowsText
    <2>4. MenuKept /\ EditBehindBox /\ WindowsFollowMode
      BY DEF Init, MenuKept, EditBehindBox, WindowsFollowMode, RtfBox
    <2> QED
      BY <2>1, <2>2, <2>3, <2>4 DEF IInv
  <1>2. IInv /\ [Next]_vars => IInv'
    BY TypeStep, OneWebViewStep, ModeStep, WindowStep, ContentStep
    DEF IInv, Windowed, Contented
  <1> QED
    BY <1>1, <1>2, PTL DEF Spec

\* Every state is well typed.
THEOREM PreviewTypeCorrect == Spec => []TypeOK
  <1>1. IInv => TypeOK
    BY DEF IInv
  <1> QED
    BY <1>1, Inductive, PTL

\* There is never a second web view, and none is lost but by a failure, unless
\* the web view was closed while its callbacks were still to come.
THEOREM NeverTwoWebViews == Spec => []OneWebView
  <1>1. IInv => OneWebView
    BY DEF IInv
  <1> QED
    BY <1>1, Inductive, PTL

\* Windows and menu are those of the mode.
THEOREM WindowsAlwaysFollow == Spec => []WindowsFollowMode
  <1>1. IInv => WindowsFollowMode
    BY DEF IInv
  <1> QED
    BY <1>1, Inductive, PTL

\* A ready preview shows the text it was asked for, after a session end that was
\* refused as before it.
THEOREM PreviewAlwaysShowsText == Spec => []PreviewShowsText
  <1>1. IInv => PreviewShowsText
    BY DEF IInv
  <1> QED
    BY <1>1, Inductive, PTL
=============================================================================
