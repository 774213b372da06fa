--------------------------- MODULE IconThreadProofs ---------------------------
(***************************************************************************)
(* Theorems about IconThread, for any number of threads, items and nested  *)
(* commands: it is well typed, and DirList_TerminateIconThread never waits *)
(* for an event that no thread is left to set.                             *)
(***************************************************************************)
EXTENDS IconThread, TLAPS

\* A thread that asks for an item, or sets its icon, is within its count.
Within ==
    \A t \in Thread :
        thread[t].pc \in {"fetch", "store"} => thread[t].iItem < thread[t].iMaxItem

IInv == TypeOK /\ Within /\ TerminationPending

\* The steps of the dialog's thread on its stack keep the stack well typed.
LEMMA GotoType ==
    ASSUME stack \in Seq(Frame), stack # <<>>,
           NEW place \in {"signal", "wait", "pump", "clear", "mark", "act"}
    PROVE  /\ <<[Head(stack) EXCEPT !.at = place]>> \o Tail(stack) \in Seq(Frame)
           /\ <<[op |-> "start", at |-> "signal"]>> \o Tail(stack) \in Seq(Frame)
           /\ Tail(stack) \in Seq(Frame)
<1>1. Head(stack) \in Frame /\ Tail(stack) \in Seq(Frame)
  OBVIOUS
<1>2. [Head(stack) EXCEPT !.at = place] \in Frame
  BY <1>1 DEF Frame
<1>3. [op |-> "start", at |-> "signal"] \in Frame
  BY DEF Frame
<1>4. \A f \in Frame, s \in Seq(Frame) : <<f>> \o s \in Seq(Frame)
  OBVIOUS
<1>5. QED
  BY <1>1, <1>2, <1>3, <1>4

LEMMA EnterType ==
    ASSUME stack \in Seq(Frame), NEW op \in {"fill", "start", "destroy"}
    PROVE  <<[op |-> op, at |-> "signal"]>> \o stack \in Seq(Frame)
<1>1. [op |-> op, at |-> "signal"] \in Frame
  BY DEF Frame
<1>2. QED
  BY <1>1

\* A step that leaves the threads and hTerminatedThread alone, or sets the
\* event, keeps Within and TerminationPending.
LEMMA ThreadsKept ==
    ASSUME IInv, TypeOK', thread' = thread, freed' = freed \/ freed',
           hTerminatedThread' = hTerminatedThread \/ hTerminatedThread'
    PROVE  IInv'
<1>1. Within'
  BY DEF IInv, Within
<1>2. TerminationPending'
  BY DEF IInv, TypeOK, TerminationPending, Alive
<1>3. QED
  BY <1>1, <1>2 DEF IInv

\* The dialog's own steps, message answers apart.
LEMMA DialogInv ==
    ASSUME IInv,
           \/ ShowDirectory \/ CloseDialog \/ SignalExit \/ TestTerminated
           \/ LeavePump \/ ClearExit \/ MarkTerminated \/ ListItems \/ FreeData
    PROVE  IInv'
<1> USE IconThreadAssumption DEF events, list
<1>0. TypeOK
  BY DEF IInv
<1>1. CASE ShowDirectory \/ CloseDialog
  <2>1. TypeOK'
    BY <1>0, <1>1, EnterType DEF TypeOK, ShowDirectory, CloseDialog, Enter
  <2>2. QED
    BY <1>1, <2>1, ThreadsKept DEF ShowDirectory, CloseDialog
<1>2. CASE SignalExit \/ TestTerminated \/ LeavePump \/ ClearExit
  <2>1. TypeOK'
    BY <1>0, <1>2, GotoType
    DEF TypeOK, SignalExit, TestTerminated, LeavePump, ClearExit, Goto, At
  <2>2. QED
    BY <1>2, <2>1, ThreadsKept
    DEF SignalExit, TestTerminated, LeavePump, ClearExit
<1>3. CASE MarkTerminated
  <2>1. TypeOK'
    BY <1>0, <1>3, GotoType DEF TypeOK, MarkTerminated, Goto, At
  <2>2. QED
    BY <1>3, <2>1, ThreadsKept DEF MarkTerminated
<1>4. CASE ListItems
  <2>1. stack' \in Seq(Frame)
    BY <1>0, <1>4, GotoType DEF TypeOK, ListItems, At
  <2>2. items' \in 0..MaxItems /\ icons' \subseteq 1..MaxItems /\ lpsf' \in BOOLEAN
    <3>1. CASE UNCHANGED list
      BY <1>0, <3>1 DEF TypeOK
    <3>2. CASE /\ icons' = {}
               /\ \/ lpsf' = TRUE /\ items' \in 0..MaxItems
                  \/ lpsf' = FALSE /\ items' = 0
      <4>1. 0 \in 0..MaxItems
        OBVIOUS
      <4>2. lpsf' \in BOOLEAN /\ icons' \subseteq 1..MaxItems
        BY <3>2, Zenon
      <4>3. items' \in 0..MaxItems
        BY <3>2, <4>1, Zenon
      <4>4. QED
        BY <4>2, <4>3
    <3>3. QED
      BY <1>4, <3>1, <3>2 DEF ListItems
  <2>3. TypeOK'
    BY <1>0, <1>4, <2>1, <2>2 DEF TypeOK, ListItems
  <2>4. QED
    BY <1>4, <2>3, ThreadsKept DEF ListItems
<1>5. CASE FreeData
  <2>1. TypeOK'
    BY <1>0, <1>5, GotoType DEF TypeOK, FreeData, At
  <2>2. QED
    BY <1>5, <2>1, ThreadsKept DEF FreeData
<1>6. QED
  BY <1>1, <1>2, <1>3, <1>4, <1>5

\* A thread that is created or answered stays, or comes, alive.
LEMMA ThreadsServedInv ==
    ASSUME IInv, StartThread \/ \E t \in Thread : Answer(t)
    PROVE  IInv'
<1> USE IconThreadAssumption DEF events, list
<1>0. TypeOK /\ Within /\ TerminationPending
  BY DEF IInv
<1>1. CASE StartThread
  <2>1. PICK t \in Thread : /\ thread[t].pc = "none"
                            /\ thread' = [thread EXCEPT ![t].pc = "created"]
    BY <1>1 DEF StartThread, Uncreated
  <2>2. stack' \in Seq(Frame)
    BY <1>0, <1>1, GotoType DEF TypeOK, StartThread, At
  <2>3. thread' \in [Thread -> ThreadState]
    BY <1>0, <2>1 DEF TypeOK, ThreadState
  <2>4. TypeOK'
    BY <1>0, <1>1, <2>2, <2>3 DEF TypeOK, StartThread
  <2>5. Within'
    BY <1>0, <2>1 DEF TypeOK, Within, ThreadState
  <2>6. TerminationPending'
    BY <1>0, <1>1, <2>1
    DEF TypeOK, TerminationPending, Alive, StartThread, ThreadState
  <2>7. QED
    BY <2>4, <2>5, <2>6 DEF IInv
<1>2. ASSUME NEW t \in Thread, Answer(t)
      PROVE  IInv'
  <2>1. UNCHANGED <<events, lpsf, items, stack, freed>>
    BY <1>2 DEF Answer
  <2>2. thread[t] \in ThreadState /\ items \in 0..MaxItems
    BY <1>0 DEF TypeOK
  <2>3. PICK th \in ThreadState :
            /\ thread' = [thread EXCEPT ![t] = th]
            /\ th.pc \in {"loop", "store"}
            /\ th.pc = "store" => th.iItem < th.iMaxItem
    <3>1. CASE thread[t].pc = "count"
      <4>1. /\ [thread[t] EXCEPT !.pc = "loop", !.iMaxItem = items] \in ThreadState
            /\ thread' = [thread EXCEPT ![t] =
                             [thread[t] EXCEPT !.pc = "loop", !.iMaxItem = items]]
        BY <1>0, <1>2, <2>2, <3>1 DEF Answer, TypeOK, ThreadState
      <4>2. QED
        BY <2>2, <4>1 DEF ThreadState
    <3>2. CASE thread[t].pc \in {"fetch", "store"}
      <4>1. thread[t].iItem < thread[t].iMaxItem
        BY <1>0, <3>2 DEF Within
      <4>2. /\ [thread[t] EXCEPT !.pc = "loop", !.iItem = thread[t].iItem + 1]
               \in ThreadState
            /\ [thread[t] EXCEPT !.pc = "store"] \in ThreadState
        <5>1. thread[t].iItem \in 0..MaxItems /\ thread[t].iMaxItem \in 0..MaxItems
          BY <2>2 DEF ThreadState
        <5>2. thread[t].iItem + 1 \in 0..MaxItems
          BY <4>1, <5>1
        <5>3. QED
          BY <2>2, <5>2 DEF ThreadState
      <4>3. \/ thread' = [thread EXCEPT ![t] =
                   [thread[t] EXCEPT !.pc = "loop", !.iItem = thread[t].iItem + 1]]
            \/ thread' = [thread EXCEPT ![t] = [thread[t] EXCEPT !.pc = "store"]]
        BY <1>2, <3>2 DEF Answer
      <4>4. QED
        BY <2>2, <4>1, <4>2, <4>3 DEF ThreadState
    <3>3. QED
      BY <1>2, <3>1, <3>2 DEF Answer
  <2>4. icons' \subseteq 1..MaxItems
    <3>1. thread[t].iItem \in 0..MaxItems
      BY <2>2 DEF ThreadState
    <3>2. thread[t].iItem < items => thread[t].iItem + 1 \in 1..MaxItems
      BY <2>2, <3>1
    <3>3. \/ icons' = icons
          \/ /\ thread[t].iItem < items
             /\ icons' = icons \cup {thread[t].iItem + 1}
      BY <1>2 DEF Answer
    <3>4. QED
      BY <1>0, <3>2, <3>3 DEF TypeOK
  <2>5. TypeOK'
    BY <1>0, <2>1, <2>3, <2>4 DEF TypeOK
  <2>6. Within'
    BY <1>0, <2>3 DEF TypeOK, Within
  <2>7. TerminationPending'
    BY <1>0, <2>1, <2>3 DEF TypeOK, TerminationPending, Alive
  <2>8. QED
    BY <2>5, <2>6, <2>7 DEF IInv
<1>3. QED
  BY <1>1, <1>2

\* The steps of an icon thread: it is alive from its reset of the event to its
\* setting of it.
LEMMA ThreadStepInv ==
    ASSUME IInv, NEW t \in Thread, ThreadStep(t)
    PROVE  IInv'
<1> USE IconThreadAssumption DEF events, list
<1>0. TypeOK /\ Within /\ TerminationPending /\ thread[t] \in ThreadState
  BY DEF IInv, TypeOK
<1>1. PICK place \in {"count", "fetch", "last", "done"} : ThreadGoto(t, place)
  BY DEF ThreadStep, Begin, Test, End, Orphan
<1>2. place = "fetch" => thread[t].iItem < thread[t].iMaxItem
  BY <1>0, <1>1
  DEF ThreadStep, Begin, Test, End, Orphan, ThreadGoto, TypeOK, ThreadState
<1>3. TypeOK'
  BY <1>0, <1>1
  DEF TypeOK, ThreadState, ThreadGoto, ThreadStep, Begin, Test, End, Orphan
<1>4. Within'
  BY <1>0, <1>1, <1>2 DEF TypeOK, Within, ThreadGoto, ThreadState
<1>5. CASE place = "done"
  <2>1. hTerminatedThread' \/ freed'
    BY <1>0, <1>1, <1>5
    DEF ThreadStep, Begin, Test, End, Orphan, ThreadGoto, TypeOK, ThreadState
  <2>2. QED
    BY <1>3, <1>4, <2>1 DEF IInv, TerminationPending
<1>6. CASE place # "done"
  <2>1. Alive(t)'
    BY <1>0, <1>1, <1>6 DEF Alive, ThreadGoto, TypeOK, ThreadState
  <2>2. QED
    BY <1>3, <1>4, <2>1 DEF IInv, TerminationPending
<1>7. QED
  BY <1>5, <1>6

\* DirList_Init establishes the invariant and every step keeps it.
LEMMA InvInit == Init => IInv
<1> SUFFICES ASSUME Init PROVE IInv
  OBVIOUS
<1>1. 0 \in 0..MaxItems
  BY IconThreadAssumption
<1>2. [pc |-> "none", iItem |-> 0, iMaxItem |-> 0] \in ThreadState
  BY <1>1 DEF ThreadState
<1>3. thread \in [Thread -> ThreadState]
  BY <1>2 DEF Init
<1>4. TypeOK
  <2>1. icons \subseteq 1..MaxItems /\ items \in 0..MaxItems
    BY <1>1, Zenon DEF Init
  <2>2. stack \in Seq(Frame)
    BY DEF Init
  <2>3. QED
    BY <1>3, <2>1, <2>2, Zenon DEF Init, TypeOK
<1>5. Within /\ TerminationPending
  BY DEF Init, Within, TerminationPending
<1>6. QED
  BY <1>4, <1>5 DEF IInv

LEMMA InvStep == IInv /\ [Next]_vars => IInv'
<1> SUFFICES ASSUME IInv, [Next]_vars PROVE IInv'
  OBVIOUS
<1>1. CASE Next
  BY <1>1, DialogInv, ThreadsServedInv, ThreadStepInv DEF Next, DialogStep
<1>2. CASE UNCHANGED vars
  BY <1>2, ThreadsKept DEF vars, events, list, IInv, TypeOK
<1>3. QED
  BY <1>1, <1>2

THEOREM IconInductive == Spec => []IInv
BY InvInit, InvStep, PTL DEF Spec

\* Every variable keeps its type, item indices and the stack included.
THEOREM IconTypeCorrect == Spec => []TypeOK
<1>1. IInv => TypeOK
  BY DEF IInv
<1>2. QED
  BY <1>1, IconInductive, PTL

\* While hTerminatedThread is reset, some thread is left that will set it.
THEOREM TerminationAlwaysPending == Spec => []TerminationPending
<1>1. IInv => TerminationPending
  BY DEF IInv
<1>2. QED
  BY <1>1, IconInductive, PTL
=============================================================================
