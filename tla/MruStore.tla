------------------------------- MODULE MruStore -------------------------------
(***************************************************************************)
(* A most-recently-used list (recent files, search or replace strings) and *)
(* its section of the INI file, which all running instances of the program *)
(* share: the MRU_ functions of src/src/Helpers.c as WM_CREATE, FileLoad,  *)
(* FileSave, the Find dialog, the recent-files dialog and WM_DESTROY call  *)
(* them.                                                                   *)
(*                                                                         *)
(* Reading the section and writing it are steps of their own, between      *)
(* which another instance may read or write it too.                        *)
(***************************************************************************)
EXTENDS Naturals, Sequences

CONSTANTS
    Instance,   \* the instances of the program
    Item,       \* the file names or strings told apart
    Freed,      \* stands for a pointer to an entry that was freed
    Size        \* iSize, the capacity of a list

ASSUME MruAssumption ==
    /\ Freed \notin Item
    /\ Size \in Nat \ {0}

VARIABLES
    store,      \* the section of the INI file
    list,       \* each instance's list, most recent first
    base,       \* pmruBase or pmruStore: its working copy of the section
    pc,         \* "off", "open", or inside MRU_DeleteFileFromStore, MRU_MergeSave
    at,         \* entries of list that MRU_MergeSave has yet to add to base
    doomed,     \* the entry MRU_DeleteFileFromStore removes
    stale       \* history: the section was written after base was read

\* History: the section, a list, a copy may hold what was read from freed memory.
VARIABLES storeMisread, listMisread, baseMisread

misread == <<storeMisread, listMisread, baseMisread>>
vars == <<store, list, base, pc, at, doomed, stale, misread>>

Entry == Item \cup {Freed}

\* What an entry may be read as.  Whoever was given the memory of a freed one next
\* may have put any name there, another entry's too.
Reads(e) == IF e = Freed THEN Item ELSE {e}

Lists == {s \in Seq(Entry) : Len(s) <= Size}

TypeOK ==
    /\ store \in Seq(Item) /\ Len(store) <= Size
    /\ list \in [Instance -> Lists]
    /\ base \in [Instance -> Lists]
    /\ pc \in [Instance -> {"off", "open", "removing", "merging"}]
    /\ at \in [Instance -> 0..Size]
    /\ doomed \in [Instance -> Entry]
    /\ stale \in [Instance -> BOOLEAN]
    /\ storeMisread \in BOOLEAN
    /\ listMisread \in [Instance -> BOOLEAN]
    /\ baseMisread \in [Instance -> BOOLEAN]

(***************************************************************************)
(* Operations on a list.  The empty slots of pszItems follow the entries.  *)
(***************************************************************************)

Match(s, f) == {k \in 1..Len(s) : s[k] = f}

\* f comes first, and the entries before i move down one.
ToFront(s, f, i, n) ==
    [j \in 1..n |-> IF j = 1 THEN f ELSE IF j <= i THEN s[j - 1] ELSE s[j]]

\* LocalFree(e) in list s.  Memory that is freed again may be that of another entry
\* by now, whose pointer is then left as well.
AfterFree(s, e) ==
    {s} \cup IF e = Freed THEN {[s EXCEPT ![k] = Freed] : k \in 1..Len(s)} ELSE {}

\* The slots that the search for f may stop at: the first that holds f, or one before
\* it that was freed and reads as f.
Found(s, f) ==
    {k \in Match(s, f) \cup Match(s, Freed) : \A j \in Match(s, f) : k <= j}

LastSlot(s) == IF Len(s) < Size THEN Len(s) + 1 ELSE Size

\* Mutants of MRU_Add: an equal entry is not looked for; the shift is not
\* kept within the list.
AddUnmatched(s, f) == {ToFront(s, f, LastSlot(s), LastSlot(s))}

AddUnbounded(s, f) ==
    IF Match(s, f) = {} THEN {<<f>> \o s}
    ELSE {ToFront(s, f, k, Len(s)) : k \in Found(s, f)}

\* MRU_Add and MRU_AddFile: the first equal entry is freed and gives way, or else
\* the last slot does.
MRU_Add(s, f) ==
    (UNION {{ToFront(t, f, k, Len(s)) : t \in AfterFree(s, s[k])} : k \in Found(s, f)})
    \cup (IF Match(s, f) = {} THEN {ToFront(s, f, LastSlot(s), LastSlot(s))} ELSE {})

\* The search for f may stop at a freed entry although f is listed behind it.
MayMisread(s, f) == \E k \in Match(s, Freed), j \in Match(s, f) : k < j

\* MRU_Delete: the entries after k move up.  Nothing moves into the last slot
\* of a full list, which keeps pointing at the entry it has just freed.
MRU_Delete(s, k) ==
    AfterFree(IF k < Size
              THEN [j \in 1..(Len(s) - 1) |-> IF j < k THEN s[j] ELSE s[j + 1]]
              ELSE [s EXCEPT ![k] = Freed],
              s[k])

(***************************************************************************)
(* The instances                                                           *)
(***************************************************************************)

\* MRU_Save, which reads what freed entries now point at; a write of the INI file
\* that fails is not noticed.
Save(i, s, tainted) ==
    \/ /\ store' \in {t \in [1..Len(s) -> Item] : \A k \in 1..Len(s) : t[k] \in Reads(s[k])}
       /\ storeMisread' = (tainted \/ Match(s, Freed) # {})
       /\ stale' = [j \in Instance |-> j # i /\ (stale[j] \/
                                         pc[j] \in {"removing", "merging"})]
    \/ /\ stale' = [stale EXCEPT ![i] = FALSE]
       /\ UNCHANGED <<store, storeMisread>>

DropBase(i) ==
    /\ base' = [base EXCEPT ![i] = <<>>]
    /\ baseMisread' = [baseMisread EXCEPT ![i] = FALSE]
    /\ doomed' = [doomed EXCEPT ![i] = Freed]

End(i) ==
    /\ pc' = [pc EXCEPT ![i] = "off"]
    /\ list' = [list EXCEPT ![i] = <<>>]
    /\ listMisread' = [listMisread EXCEPT ![i] = FALSE]
    /\ DropBase(i)

\* MRU_Create and MRU_Load of a copy.
LoadBase(i) ==
    /\ base' = [base EXCEPT ![i] = store]
    /\ baseMisread' = [baseMisread EXCEPT ![i] = storeMisread]

\* WM_CREATE: MRU_Create and MRU_Load.
Start(i) ==
    /\ pc[i] = "off"
    /\ pc' = [pc EXCEPT ![i] = "open"]
    /\ list' = [list EXCEPT ![i] = store]
    /\ listMisread' = [listMisread EXCEPT ![i] = storeMisread]
    /\ UNCHANGED <<store, base, at, doomed, stale, storeMisread, baseMisread>>

\* A file opened or saved, a string searched for.
AddItem(i) ==
    /\ pc[i] = "open"
    /\ \E f \in Item :
          /\ \E s \in MRU_Add(list[i], f) : list' = [list EXCEPT ![i] = s]
          /\ listMisread' = [listMisread EXCEPT ![i] = @ \/ MayMisread(list[i], f)]
    /\ UNCHANGED <<store, base, pc, at, doomed, stale, storeMisread, baseMisread>>

\* The recent-files dialog finds entry k inaccessible and the user has it
\* removed: MRU_Delete, and MRU_DeleteFileFromStore up to its MRU_Load.
RemoveItem(i) ==
    /\ pc[i] = "open"
    /\ \E k \in 1..Len(list[i]) :
          /\ \E s \in MRU_Delete(list[i], k) : list' = [list EXCEPT ![i] = s]
          /\ \E f \in Reads(list[i][k]) : doomed' = [doomed EXCEPT ![i] = f]
    /\ LoadBase(i)
    /\ pc' = [pc EXCEPT ![i] = "removing"]
    /\ UNCHANGED <<store, at, stale, storeMisread, listMisread>>

\* The loop of MRU_DeleteFileFromStore.
RemoveFromBase(i) ==
    /\ pc[i] = "removing"
    /\ \E k \in Found(base[i], doomed[i]) :
          \E s \in MRU_Delete(base[i], k) : base' = [base EXCEPT ![i] = s]
    /\ UNCHANGED <<store, list, pc, at, doomed, stale, misread>>

SaveRemoval(i) ==
    /\ pc[i] = "removing"
    /\ Match(base[i], doomed[i]) = {}
    /\ Save(i, base[i], baseMisread[i])
    /\ DropBase(i)
    /\ pc' = [pc EXCEPT ![i] = "open"]
    /\ UNCHANGED <<list, at, listMisread>>

\* WM_DESTROY or WM_ENDSESSION without bSaveRecentFiles: MRU_Empty, MRU_Save.
CloseEmptying(i) ==
    /\ pc[i] = "open"
    /\ Save(i, <<>>, FALSE)
    /\ End(i)
    /\ UNCHANGED at

\* WM_DESTROY or WM_ENDSESSION: MRU_MergeSave up to its MRU_Load.
Close(i) ==
    /\ pc[i] = "open"
    /\ LoadBase(i)
    /\ at' = [at EXCEPT ![i] = Len(list[i])]
    /\ pc' = [pc EXCEPT ![i] = "merging"]
    /\ UNCHANGED <<store, list, doomed, stale, storeMisread, listMisread>>

\* Mutant of MergeItem: the loop runs from the most recent entry down.
MergeForward(i) ==
    /\ pc[i] = "merging" /\ at[i] > 0
    /\ \E f \in Reads(list[i][Len(list[i]) + 1 - at[i]]) :
          \E s \in MRU_Add(base[i], f) : base' = [base EXCEPT ![i] = s]
    /\ at' = [at EXCEPT ![i] = @ - 1]
    /\ UNCHANGED <<store, list, pc, doomed, stale, misread>>

\* The loop of MRU_MergeSave, from the oldest entry up.
MergeItem(i) ==
    /\ pc[i] = "merging" /\ at[i] > 0
    /\ \E f \in Reads(list[i][at[i]]) :
          \E s \in MRU_Add(base[i], f) : base' = [base EXCEPT ![i] = s]
    /\ at' = [at EXCEPT ![i] = @ - 1]
    /\ UNCHANGED <<store, list, pc, doomed, stale, misread>>

SaveMerged(i) ==
    /\ pc[i] = "merging" /\ at[i] = 0
    /\ Save(i, base[i], baseMisread[i])
    /\ End(i)
    /\ UNCHANGED at

\* exit(0) in xfilesave, an end without an INI file (TE.c 1174), or the process is
\* ended from outside or for freeing an entry twice.
Quit(i) ==
    /\ pc[i] # "off"
    /\ End(i)
    /\ at' = [at EXCEPT ![i] = 0]
    /\ stale' = [stale EXCEPT ![i] = FALSE]
    /\ UNCHANGED <<store, storeMisread>>

Init ==
    /\ store = <<>>
    /\ list = [i \in Instance |-> <<>>]
    /\ base = [i \in Instance |-> <<>>]
    /\ pc = [i \in Instance |-> "off"]
    /\ at = [i \in Instance |-> 0]
    /\ doomed = [i \in Instance |-> Freed]
    /\ stale = [i \in Instance |-> FALSE]
    /\ storeMisread = FALSE
    /\ listMisread = [i \in Instance |-> FALSE]
    /\ baseMisread = [i \in Instance |-> FALSE]

Step(i) ==
    \/ Start(i) \/ AddItem(i)
    \/ RemoveItem(i) \/ RemoveFromBase(i) \/ SaveRemoval(i)
    \/ CloseEmptying(i) \/ Close(i) \/ MergeItem(i) \/ SaveMerged(i)
    \/ Quit(i)

Next == \E i \in Instance : Step(i)

Spec == Init /\ [][Next]_vars

(***************************************************************************)
(* Properties                                                              *)
(***************************************************************************)

Once(s) == \A f \in Item : \A j, k \in Match(s, f) : j = k

\* No file or string is listed twice, in the INI file or in any instance, in
\* whatever way the instances merge their lists and remove entries (MRU_Add's
\* search for an equal entry).  Not so for what comes from freed memory: a section
\* written with a freed entry in it, what is loaded from such a section, and a list
\* in which a freed entry was found in place of the item behind it.  A freed entry
\* does no such harm where it is dropped unread, and the merge takes from a list that
\* holds an item twice only one.
NoDuplicates ==
    /\ ~storeMisread => Once(store)
    /\ \A i \in Instance : /\ ~listMisread[i] => Once(list[i])
                           /\ ~baseMisread[i] => Once(base[i])

\* The entries of other that own does not have, in order.
OthersOf(own, other) ==
    LET upTo[k \in 0..Len(other)] ==
          IF k = 0 THEN <<>>
          ELSE IF Match(own, other[k]) = {} THEN Append(upTo[k - 1], other[k])
          ELSE upTo[k - 1]
    IN  upTo[Len(other)]

\* What MRU_MergeSave is for: own entries first, then the others of the store,
\* as far as there is room.
Merged(own, other) ==
    LET all == own \o OthersOf(own, other)
    IN  SubSeq(all, 1, IF Len(all) < Size THEN Len(all) ELSE Size)

Sound(s) == Once(s) /\ Match(s, Freed) = {}

MergeSaved(i) ==
    pc[i] = "merging" /\ at[i] = 0 /\ pc'[i] = "off" /\ store' # store

\* An instance that closes leaves its own entries first in the INI file, then
\* those already there, unless another instance has written the file between
\* MRU_MergeSave's MRU_Load and its MRU_Save.
MergedInOrder ==
    [][\A i \in Instance :
          MergeSaved(i) /\ ~stale[i] /\ Sound(list[i]) /\ Sound(store)
          => store' = Merged(list[i], store)]_vars

\* "Recent files and search strings merged with existing items on save"
\* (TE.txt:179): an entry in the INI file is still there after the save if
\* there is room for it.
MergedOnSave ==
    [][\A i \in Instance :
          MergeSaved(i) /\ Sound(list[i]) /\ Sound(store)
             /\ Len(store) + Len(list[i]) <= Size
          => \A k \in 1..Len(store) : Match(store', store[k]) # {}]_vars

\* "Would you like to remove it from the list?" (TE.rc:1260): the list gets
\* shorter when the user says yes.
RemovalShortens ==
    [][\A i \in Instance :
          pc[i] = "open" /\ pc'[i] = "removing"
          => Len(list'[i]) < Len(list[i])]_vars
=============================================================================
