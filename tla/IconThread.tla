------------------------------ MODULE IconThread ------------------------------
(***************************************************************************)
(* The background thread that fetches the icons of a directory listing:    *)
(* src/src/Dlapi.c's DirList_Fill, DirList_StartIconThread,                *)
(* DirList_TerminateIconThread, DirList_IconThread and DirList_Destroy, as *)
(* the Open With and Favorites dialogs of Dialogs.c call them.             *)
(*                                                                         *)
(* The dialog's thread and the icon threads share two manual-reset events. *)
(* A list view message an icon thread sends is answered only while the     *)
(* dialog's thread looks for messages: when it is idle, and in the loop of *)
(* DirList_TerminateIconThread, where it may also find the user's next     *)
(* command and so enter DirList_Fill again.  Each kernel call is a step.   *)
(***************************************************************************)
EXTENDS Naturals, Sequences, FiniteSets

CONSTANTS
    MaxThreads,     \* bound on the icon threads ever created
    MaxItems,       \* bound on the items of a directory
    MaxDepth        \* bound on the nesting of commands in message loops

ASSUME IconThreadAssumption ==
    MaxThreads \in Nat /\ MaxItems \in Nat /\ MaxDepth \in Nat \ {0}

VARIABLES
    hExitThread,        \* event: the icon thread should terminate
    hTerminatedThread,  \* event: the icon thread has terminated
    lpsf,               \* a shell folder is bound (DirList_Fill succeeded)
    items,              \* number of items in the list view
    icons,              \* the items whose icon has been set
    stack,              \* activations of the dialog's thread, innermost first
    thread,             \* the icon threads
    freed               \* DirList_Destroy has freed the shared data

events == <<hExitThread, hTerminatedThread>>
list == <<lpsf, items, icons>>
vars == <<events, list, stack, thread, freed>>

Thread == 1..MaxThreads

\* An icon thread: not created; created, not run yet; in a message to the list
\* view (count, fetch, store); at the loop's test; about to set the event.
ThreadState == [pc: {"none", "created", "count", "loop", "fetch", "store",
                     "last", "done"},
                iItem: 0..MaxItems, iMaxItem: 0..MaxItems]

\* What an activation is to do once the icon thread is stopped.
Frame == [op: {"fill", "start", "destroy"},
          at: {"signal", "wait", "pump", "clear", "mark", "act"}]

TypeOK ==
    /\ hExitThread \in BOOLEAN
    /\ hTerminatedThread \in BOOLEAN
    /\ lpsf \in BOOLEAN
    /\ items \in 0..MaxItems
    /\ icons \subseteq 1..MaxItems
    /\ stack \in Seq(Frame)
    /\ thread \in [Thread -> ThreadState]
    /\ freed \in BOOLEAN

Alive(t) == thread[t].pc \notin {"none", "done"}
Sending(t) == thread[t].pc \in {"count", "fetch", "store"}

(***************************************************************************)
(* The dialog's thread                                                     *)
(***************************************************************************)

Idle == stack = <<>> /\ ~freed
At(place) == stack # <<>> /\ Head(stack).at = place
Goto(place) == stack' = <<[Head(stack) EXCEPT !.at = place]>> \o Tail(stack)
Enter(op) == stack' = <<[op |-> op, at |-> "signal"]>> \o stack

Uncreated == {t \in Thread : thread[t].pc = "none"}

\* Opening the dialog, or choosing another directory: DirList_Fill, then
\* DirList_StartIconThread.  Bounds: each activation needs a thread to create.
ShowDirectory ==
    /\ Idle \/ (At("pump") /\ Head(stack).op # "destroy")
    /\ Len(stack) < MaxDepth
    /\ Len(stack) < Cardinality(Uncreated)
    /\ Enter("fill")
    /\ UNCHANGED <<events, list, thread, freed>>

CloseDialog ==
    /\ Idle
    /\ Enter("destroy")
    /\ UNCHANGED <<events, list, thread, freed>>

\* DirList_TerminateIconThread: SetEvent(hExitThread).
SignalExit ==
    /\ At("signal")
    /\ hExitThread' = TRUE
    /\ Goto("wait")
    /\ UNCHANGED <<hTerminatedThread, list, thread, freed>>

\* Mutant of TestTerminated: the wait without a message loop that is commented
\* out at Dlapi.c:173.
WaitTerminated ==
    /\ At("wait")
    /\ hTerminatedThread
    /\ Goto("clear")
    /\ UNCHANGED <<events, list, thread, freed>>

TestTerminated ==
    /\ At("wait")
    /\ Goto(IF hTerminatedThread THEN "clear" ELSE "pump")
    /\ UNCHANGED <<events, list, thread, freed>>

\* PeekMessage has delivered every message sent; the wait goes on.
LeavePump ==
    /\ At("pump")
    /\ \A t \in Thread : ~Sending(t)
    /\ Goto("wait")
    /\ UNCHANGED <<events, list, thread, freed>>

ClearExit ==
    /\ At("clear")
    /\ hExitThread' = FALSE
    /\ Goto("mark")
    /\ UNCHANGED <<hTerminatedThread, list, thread, freed>>

MarkTerminated ==
    /\ At("mark")
    /\ hTerminatedThread' = TRUE
    /\ Goto("act")
    /\ UNCHANGED <<hExitThread, list, thread, freed>>

\* The rest of DirList_Fill: the items are replaced, or, without a directory,
\* kept.  DirList_StartIconThread is called next.
ListItems ==
    /\ At("act") /\ Head(stack).op = "fill"
    /\ \/ UNCHANGED list
       \/ /\ icons' = {}
          /\ \/ lpsf' = TRUE /\ items' \in 0..MaxItems
             \/ lpsf' = FALSE /\ items' = 0
    /\ stack' = <<[op |-> "start", at |-> "signal"]>> \o Tail(stack)
    /\ UNCHANGED <<events, thread, freed>>

\* The rest of DirList_StartIconThread.
StartThread ==
    /\ At("act") /\ Head(stack).op = "start"
    /\ hExitThread' = FALSE
    /\ \E t \in Uncreated :
          /\ \A u \in Uncreated : t <= u
          /\ thread' = [thread EXCEPT ![t].pc = "created"]
    /\ stack' = Tail(stack)
    /\ UNCHANGED <<hTerminatedThread, list, freed>>

\* The rest of DirList_Destroy, and of the window's destruction.
FreeData ==
    /\ At("act") /\ Head(stack).op = "destroy"
    /\ freed' = TRUE
    /\ stack' = Tail(stack)
    /\ UNCHANGED <<events, list, thread>>

\* The list view answers the message icon thread t has sent.
Answer(t) ==
    LET th == thread[t]
        next == [th EXCEPT !.pc = "loop", !.iItem = th.iItem + 1]
    IN  /\ Idle \/ At("pump")
        /\ \/ /\ th.pc = "count"
              /\ thread' = [thread EXCEPT ![t].pc = "loop", ![t].iMaxItem = items]
              /\ UNCHANGED icons
           \/ /\ th.pc = "fetch"
              /\ thread' = [thread EXCEPT ![t] =
                               IF th.iItem < items
                               THEN [th EXCEPT !.pc = "store"] ELSE next]
              /\ UNCHANGED icons
           \/ /\ th.pc = "store"
              /\ thread' = [thread EXCEPT ![t] = next]
              /\ icons' = IF th.iItem < items THEN icons \cup {th.iItem + 1}
                                              ELSE icons
        /\ UNCHANGED <<events, lpsf, items, stack, freed>>

(***************************************************************************)
(* DirList_IconThread                                                      *)
(***************************************************************************)

ThreadGoto(t, place) ==
    /\ thread' = [thread EXCEPT ![t].pc = place]
    /\ UNCHANGED <<list, stack, freed>>

\* ResetEvent(hTerminatedThread); then nothing to do without a shell folder.
Begin(t) ==
    /\ thread[t].pc = "created" /\ ~freed
    /\ hTerminatedThread' = FALSE
    /\ ThreadGoto(t, IF lpsf THEN "count" ELSE "last")
    /\ UNCHANGED hExitThread

\* Mutants of Test: one item too few, one too many.
TestSkipsLast(t) ==
    /\ thread[t].pc = "loop" /\ ~freed
    /\ ThreadGoto(t, IF thread[t].iItem + 1 < thread[t].iMaxItem /\ ~hExitThread
                     THEN "fetch" ELSE "last")
    /\ UNCHANGED events

TestOvershoots(t) ==
    /\ thread[t].pc = "loop" /\ ~freed
    /\ ThreadGoto(t, IF thread[t].iItem <= thread[t].iMaxItem /\ ~hExitThread
                     THEN "fetch" ELSE "last")
    /\ UNCHANGED events

\* The loop goes on to the next item unless the thread is told to terminate.
Test(t) ==
    /\ thread[t].pc = "loop" /\ ~freed
    /\ ThreadGoto(t, IF thread[t].iItem < thread[t].iMaxItem /\ ~hExitThread
                     THEN "fetch" ELSE "last")
    /\ UNCHANGED events

\* Mutant of End: the thread returns without setting the event.
EndUnmarked(t) ==
    /\ thread[t].pc = "last" /\ ~freed
    /\ ThreadGoto(t, "done")
    /\ UNCHANGED events

End(t) ==
    /\ thread[t].pc = "last" /\ ~freed
    /\ hTerminatedThread' = TRUE
    /\ ThreadGoto(t, "done")
    /\ UNCHANGED hExitThread

\* The data is gone under a thread that was still alive: whatever it does, no
\* dialog is left to see it.
Orphan(t) ==
    /\ freed /\ Alive(t)
    /\ ThreadGoto(t, "done")
    /\ UNCHANGED events

(***************************************************************************)
(* The specification                                                       *)
(***************************************************************************)

\* DirList_Init.
Init ==
    /\ hExitThread = FALSE
    /\ hTerminatedThread = TRUE
    /\ lpsf = FALSE
    /\ items = 0
    /\ icons = {}
    /\ stack = <<>>
    /\ thread = [t \in Thread |-> [pc |-> "none", iItem |-> 0, iMaxItem |-> 0]]
    /\ freed = FALSE

DialogStep ==
    \/ SignalExit \/ TestTerminated \/ LeavePump \/ ClearExit \/ MarkTerminated
    \/ ListItems \/ StartThread \/ FreeData
    \/ \E t \in Thread : Answer(t)

ThreadStep(t) == Begin(t) \/ Test(t) \/ End(t) \/ Orphan(t)

Next ==
    \/ ShowDirectory
    \/ CloseDialog
    \/ DialogStep
    \/ \E t \in Thread : ThreadStep(t)

\* The system runs every thread that can run; the user need not do anything.
Fairness == WF_vars(DialogStep) /\ \A t \in Thread : WF_vars(ThreadStep(t))

Spec == Init /\ [][Next]_vars /\ Fairness

(***************************************************************************)
(* Properties                                                              *)
(***************************************************************************)

\* While hTerminatedThread is reset, a thread that will set it is running:
\* else DirList_TerminateIconThread would wait for ever.
TerminationPending ==
    ~hTerminatedThread /\ ~freed => \E t \in Thread : Alive(t)

\* Every command ends: DirList_TerminateIconThread's loop answers the very
\* messages the icon thread it waits for is blocked on.
CommandsEnd == (stack # <<>>) ~> (stack = <<>>)

\* A listing left alone gets all its icons: no thread is stopped by an exit
\* request meant for an earlier one.
AllIcons == <>[]Idle => <>[](lpsf => icons = 1..items)

\* "First of all terminate running icon thread" (Dlapi.c:232), "Flag is set
\* when Icon Thread has terminated" (Dlapi.c:36): once
\* DirList_TerminateIconThread is done, no icon thread is left.
ThreadStopped == At("act") => \A t \in Thread : ~Alive(t)
=============================================================================
