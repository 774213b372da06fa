---------------------------- MODULE MruStoreProofs ----------------------------
(***************************************************************************)
(* Theorems about MruStore, for any number of instances, any items and any *)
(* capacity: the lists and the section of the INI file stay within their   *)
(* capacity, no item is listed twice unless a freed entry was read, and an *)
(* instance that closes merges its list in front of the section it read.   *)
(***************************************************************************)
EXTENDS MruStore, WellFoundedInduction, SequenceTheorems, TLAPS

\* MRU_MergeSave reads only entries its list has.
Bounded ==
    \A i \in Instance : pc[i] = "merging" => at[i] <= Len(list[i])

\* MRU_MergeSave adds what it reads as new entries to a copy that holds such only.
MergesUnfreed ==
    \A i \in Instance : pc[i] = "merging" => Match(base[i], Freed) = {}

IInv == TypeOK /\ Bounded /\ MergesUnfreed /\ NoDuplicates

(***************************************************************************)
(* Lists                                                                   *)
(***************************************************************************)

LEMMA ListType ==
    ASSUME NEW s \in Lists
    PROVE  /\ s \in Seq(Entry)
           /\ Len(s) \in Nat /\ Len(s) <= Size
           /\ s \in [1..Len(s) -> Entry]
  BY DEF Lists

LEMMA MakeList ==
    ASSUME NEW n \in Nat, n <= Size, NEW s \in [1..n -> Entry]
    PROVE  s \in Lists /\ Len(s) = n
<1>1. s \in Seq(Entry)
  OBVIOUS
<1>2. Len(s) = n
  OBVIOUS
<1>3. QED
  BY <1>1, <1>2 DEF Lists

LEMMA EmptyList == <<>> \in Lists /\ Once(<<>>) /\ Match(<<>>, Freed) = {}
<1>1. <<>> \in Lists
  BY MruAssumption DEF Lists
<1>2. QED
  BY <1>1 DEF Once, Match

\* What MRU_Load takes from the section.
LEMMA ItemList ==
    ASSUME NEW s \in Seq(Item), Len(s) <= Size
    PROVE  s \in Lists /\ Match(s, Freed) = {}
<1>1. Len(s) \in Nat /\ \A k \in 1..Len(s) : s[k] \in Item
  BY LenProperties, ElementOfSeq
<1>2. s \in [1..Len(s) -> Entry]
  BY <1>1 DEF Entry
<1>3. s \in Lists
  BY <1>1, <1>2, MakeList
<1>4. QED
  BY <1>1, <1>3, MruAssumption DEF Match

\* The first of the entries equal to f.
LEMMA FirstMatch ==
    ASSUME NEW s \in Lists, NEW f, Match(s, f) # {}
    PROVE  LET i == CHOOSE i \in Match(s, f) : \A k \in Match(s, f) : i <= k
           IN  i \in Match(s, f) /\ \A k \in Match(s, f) : i <= k
<1>1. Match(s, f) \in SUBSET Nat
  BY ListType DEF Match
<1> DEFINE less == OpToRel(<, Nat)
<1>2. \A j, k \in Nat : <<j, k>> \in less <=> j < k
  BY DEF OpToRel
<1>3. IsWellFoundedOn(less, Nat)
  BY NatLessThanWellFounded
<1> HIDE DEF less
<1>4. \E m \in Match(s, f) : \A k \in Match(s, f) : ~(<<k, m>> \in less)
  BY <1>1, <1>3, WFMin
<1>5. \E m \in Match(s, f) : \A k \in Match(s, f) : m <= k
  <2>1. PICK m \in Match(s, f) : \A k \in Match(s, f) : ~(<<k, m>> \in less)
    BY <1>4
  <2>2. \A k \in Match(s, f) : k \in Nat /\ m \in Nat
    BY <1>1
  <2>3. \A k \in Match(s, f) : ~(k < m)
    BY <1>2, <2>1, <2>2
  <2>4. \A k \in Match(s, f) : m <= k
    BY <2>2, <2>3
  <2>5. QED
    BY <2>4
<1>6. QED
  BY <1>5

\* Freeing keeps the length, and what is not freed keeps its place.
LEMMA FreedKeeps ==
    ASSUME NEW s \in Lists, NEW e, NEW t \in AfterFree(s, e)
    PROVE  /\ t \in Lists /\ Len(t) = Len(s)
           /\ \A f \in Item : Match(t, f) \subseteq Match(s, f)
           /\ Once(s) => Once(t)
           /\ e # Freed => t = s
<1>1. Len(s) \in Nat /\ Len(s) <= Size /\ s \in [1..Len(s) -> Entry]
  BY ListType
<1>2. CASE t = s
  BY <1>2
<1>3. CASE t # s
  <2>1. PICK k \in 1..Len(s) : t = [s EXCEPT ![k] = Freed]
    BY <1>3 DEF AfterFree
  <2>2. e = Freed
    BY <1>3 DEF AfterFree
  <2>3. t \in [1..Len(s) -> Entry]
    BY <1>1, <2>1 DEF Entry
  <2>4. t \in Lists /\ Len(t) = Len(s)
    BY <1>1, <2>3, MakeList
  <2>5. \A f \in Item : Match(t, f) \subseteq Match(s, f)
    BY <1>1, <2>1, <2>4, MruAssumption DEF Match
  <2>6. QED
    BY <2>2, <2>4, <2>5 DEF Once
<1>4. QED
  BY <1>2, <1>3

\* An entry put first keeps the capacity; it lists nothing twice if the one that
\* gives way is the only one equal to it.
LEMMA ToFrontKeeps ==
    ASSUME NEW s \in Lists, NEW f \in Item, NEW n \in Nat, n <= Size, NEW i \in 1..n,
           n <= Len(s) + 1, i < n => n <= Len(s)
    PROVE  /\ ToFront(s, f, i, n) \in Lists
           /\ Once(s) /\ Match(s, f) \subseteq {i} => Once(ToFront(s, f, i, n))
           /\ Match(s, Freed) = {} => Match(ToFront(s, f, i, n), Freed) = {}
<1> DEFINE t == [j \in 1..n |-> IF j = 1 THEN f ELSE IF j <= i THEN s[j - 1] ELSE s[j]]
           from(x) == IF x <= i THEN x - 1 ELSE x
<1>1. Len(s) \in Nat /\ Len(s) <= Size /\ s \in [1..Len(s) -> Entry]
  BY ListType
<1>2. \A j \in 1..n : /\ j # 1 /\ j <= i => j - 1 \in 1..Len(s)
                      /\ ~(j <= i) => j \in 1..Len(s)
  BY <1>1
<1>3. t \in [1..n -> Entry]
  BY <1>1, <1>2 DEF Entry
<1>4. t \in Lists /\ Len(t) = n
  BY <1>3, MakeList
<1>5. ASSUME NEW x \in 1..n, x # 1
      PROVE  from(x) \in 1..Len(s) /\ t[x] = s[from(x)] /\ from(x) # i
  BY <1>1, <1>2, <1>5
<1>6. t[1] = f \/ n = 0
  OBVIOUS
<1> HIDE DEF t
<1>7. ASSUME Once(s), Match(s, f) \subseteq {i}
      PROVE  Once(t)
  <2> SUFFICES ASSUME NEW e \in Item, NEW j \in Match(t, e), NEW k \in Match(t, e),
                      j # k
               PROVE  FALSE
    BY DEF Once
  <2>1. j \in 1..n /\ k \in 1..n /\ t[j] = e /\ t[k] = e
    BY <1>4 DEF Match
  <2>2. \A x, y \in 1..Len(s) : s[x] = e /\ s[y] = e => x = y
    BY <1>7 DEF Once, Match
  <2>3. ASSUME NEW x \in 1..n, x # 1 PROVE t[x] # f
    <3>1. from(x) \in 1..Len(s) /\ t[x] = s[from(x)] /\ from(x) # i
      BY <1>5, <2>3
    <3>2. from(x) \notin Match(s, f)
      BY <1>7, <3>1
    <3>3. QED
      BY <3>1, <3>2 DEF Match
  <2>4. j # 1 /\ k # 1
    BY <1>6, <2>1, <2>3
  <2>5. from(j) = from(k)
    BY <1>5, <2>1, <2>2, <2>4
  <2>6. from(j) # i /\ from(k) # i
    BY <1>5, <2>1, <2>4
  <2>7. QED
    BY <2>1, <2>4, <2>5, <2>6
<1>8. ASSUME Match(s, Freed) = {}
      PROVE  Match(t, Freed) = {}
  <2>1. \A x \in 1..n : t[x] # Freed
    <3>1. ASSUME NEW x \in 1..n, x # 1 PROVE t[x] # Freed
      <4>1. from(x) \in 1..Len(s) /\ t[x] = s[from(x)]
        BY <1>5, <3>1
      <4>2. QED
        BY <1>8, <4>1 DEF Match
    <3>2. QED
      BY <1>6, <3>1, MruAssumption
  <2>2. QED
    BY <1>4, <2>1 DEF Match
<1>9. QED
  BY <1>4, <1>7, <1>8 DEF t, ToFront

\* The two ways of MRU_Add.
LEMMA AddCases ==
    ASSUME NEW s, NEW f, NEW t \in MRU_Add(s, f)
    PROVE  \/ \E k \in Found(s, f) : \E u \in AfterFree(s, s[k]) : t = ToFront(u, f, k, Len(s))
           \/ Match(s, f) = {} /\ t = ToFront(s, f, LastSlot(s), LastSlot(s))
<1> DEFINE over(k) == {ToFront(u, f, k, Len(s)) : u \in AfterFree(s, s[k])}
           known == UNION {over(k) : k \in Found(s, f)}
           new == {ToFront(s, f, LastSlot(s), LastSlot(s))}
<1>1. MRU_Add(s, f) = known \cup IF Match(s, f) = {} THEN new ELSE {}
  BY DEF MRU_Add
<1>2. \A k : t \in over(k) => \E u \in AfterFree(s, s[k]) : t = ToFront(u, f, k, Len(s))
  OBVIOUS
<1>3. t \in known => \E k \in Found(s, f) : t \in over(k)
  <2> HIDE DEF over
  <2>1. QED
    OBVIOUS
<1>4. t \in new => t = ToFront(s, f, LastSlot(s), LastSlot(s))
  OBVIOUS
<1> HIDE DEF over, known, new
<1>5. t \in known \/ (Match(s, f) = {} /\ t \in new)
  <2>1. CASE Match(s, f) = {}
    BY <1>1, <2>1
  <2>2. CASE Match(s, f) # {}
    BY <1>1, <2>2
  <2>3. QED
    BY <2>1, <2>2
<1>6. QED
  BY <1>2, <1>3, <1>4, <1>5

\* MRU_Add keeps the capacity.  It lists nothing twice unless it takes a freed
\* entry for the one it looks for, and it frees nothing twice in a list without.
LEMMA AddKeeps ==
    ASSUME NEW s \in Lists, NEW f \in Item, NEW t \in MRU_Add(s, f)
    PROVE  /\ t \in Lists
           /\ Once(s) /\ ~MayMisread(s, f) => Once(t)
           /\ Match(s, Freed) = {} => Match(t, Freed) = {}
<1>1. Len(s) \in Nat /\ Len(s) <= Size /\ s \in [1..Len(s) -> Entry]
  BY ListType
<1>2. CASE \E k \in Found(s, f) : \E u \in AfterFree(s, s[k]) : t = ToFront(u, f, k, Len(s))
  <2>0. PICK k \in Found(s, f) : \E u \in AfterFree(s, s[k]) : t = ToFront(u, f, k, Len(s))
    BY <1>2
  <2>1. PICK u \in AfterFree(s, s[k]) : t = ToFront(u, f, k, Len(s))
    BY <2>0
  <2>2. /\ k \in 1..Len(s) /\ (s[k] = f \/ s[k] = Freed)
        /\ \A j \in Match(s, f) : k <= j
    BY <2>1 DEF Found, Match
  <2>3. /\ u \in Lists /\ Len(u) = Len(s) /\ Match(u, f) \subseteq Match(s, f)
        /\ Once(s) => Once(u)
        /\ s[k] # Freed => u = s
    BY <2>1, FreedKeeps
  <2>4. /\ t \in Lists
        /\ Once(u) /\ Match(u, f) \subseteq {k} => Once(t)
        /\ Match(u, Freed) = {} => Match(t, Freed) = {}
    BY <1>1, <2>1, <2>2, <2>3, ToFrontKeeps
  <2>5. ASSUME Once(s), ~MayMisread(s, f) PROVE Match(s, f) \subseteq {k}
    <3> SUFFICES ASSUME NEW j \in Match(s, f) PROVE j = k
      OBVIOUS
    <3>1. j \in 1..Len(s) /\ s[j] = f /\ k <= j
      BY <2>2 DEF Match
    <3>2. CASE s[k] = Freed
      <4>1. k \in Match(s, Freed) /\ j # k
        BY <2>2, <3>1, <3>2, MruAssumption DEF Match
      <4>2. k < j
        BY <1>1, <2>2, <3>1, <4>1
      <4>3. QED
        BY <2>5, <4>1, <4>2 DEF MayMisread
    <3>3. CASE s[k] = f
      <4>1. k \in Match(s, f)
        BY <2>2, <3>3 DEF Match
      <4>2. QED
        BY <2>5, <4>1 DEF Once
    <3>4. QED
      BY <2>2, <3>2, <3>3
  <2>6. Match(s, Freed) = {} => s[k] # Freed
    BY <2>2 DEF Match
  <2>7. QED
    BY <2>3, <2>4, <2>5, <2>6
<1>3. CASE Match(s, f) = {} /\ t = ToFront(s, f, LastSlot(s), LastSlot(s))
  <2>1. LastSlot(s) \in 1..LastSlot(s) /\ LastSlot(s) <= Size /\ LastSlot(s) <= Len(s) + 1
    BY <1>1, MruAssumption DEF LastSlot
  <2>2. LastSlot(s) \in Nat
    BY <1>1, MruAssumption DEF LastSlot
  <2>3. QED
    BY <1>3, <2>1, <2>2, ToFrontKeeps
<1>4. QED
  BY <1>2, <1>3, AddCases

\* MRU_Delete keeps the capacity and lists nothing twice, even when the last
\* slot keeps an entry that was freed.
LEMMA DeleteKeeps ==
    ASSUME NEW s \in Lists, NEW k \in 1..Len(s), NEW t \in MRU_Delete(s, k)
    PROVE  t \in Lists /\ (Once(s) => Once(t))
<1>1. Len(s) \in Nat /\ Len(s) <= Size /\ s \in [1..Len(s) -> Entry]
  BY ListType
<1> DEFINE n == Len(s) - 1
           u == [j \in 1..n |-> IF j < k THEN s[j] ELSE s[j + 1]]
           v == [s EXCEPT ![k] = Freed]
<1>2. u \in Lists /\ (Once(s) => Once(u))
  <2>1. n \in Nat /\ n <= Size
    BY <1>1, MruAssumption
  <2>2. u \in [1..n -> Entry]
    BY <1>1
  <2>3. u \in Lists /\ Len(u) = n
    BY <2>1, <2>2, MakeList
  <2>4. ASSUME Once(s) PROVE Once(u)
    <3> SUFFICES ASSUME NEW e \in Item,
                        NEW x \in Match(u, e), NEW y \in Match(u, e), x # y
                 PROVE  FALSE
      BY DEF Once
    <3> DEFINE from(z) == IF z < k THEN z ELSE z + 1
    <3>1. x \in 1..n /\ y \in 1..n /\ u[x] = e /\ u[y] = e
      BY <2>3 DEF Match
    <3>2. \A z \in 1..n : from(z) \in 1..Len(s) /\ u[z] = s[from(z)]
      BY <1>1
    <3>3. from(x) # from(y)
      BY <1>1, <3>1
    <3>4. QED
      BY <2>4, <3>1, <3>2, <3>3 DEF Once, Match
  <2>5. QED
    BY <2>3, <2>4
<1>3. v \in Lists /\ (Once(s) => Once(v))
  <2>1. v \in [1..Len(s) -> Entry]
    BY <1>1 DEF Entry
  <2>2. v \in Lists /\ Len(v) = Len(s)
    BY <1>1, <2>1, MakeList
  <2>3. \A f \in Item : Match(v, f) \subseteq Match(s, f)
    BY <1>1, <2>2, MruAssumption DEF Match
  <2>4. QED
    BY <2>2, <2>3 DEF Once
<1>4. t \in AfterFree(u, s[k]) \/ t \in AfterFree(v, s[k])
  BY DEF MRU_Delete
<1> HIDE DEF u, v
<1>5. QED
  BY <1>2, <1>3, <1>4, FreedKeeps

(***************************************************************************)
(* The steps                                                               *)
(***************************************************************************)

\* The part of IInv about the variables that hold no list.
Control ==
    /\ pc \in [Instance -> {"off", "open", "removing", "merging"}]
    /\ at \in [Instance -> 0..Size]
    /\ doomed \in [Instance -> Entry]
    /\ stale \in [Instance -> BOOLEAN]
    /\ storeMisread \in BOOLEAN
    /\ listMisread \in [Instance -> BOOLEAN]
    /\ baseMisread \in [Instance -> BOOLEAN]

\* The section.
Section(t) == t \in Seq(Item) /\ Len(t) <= Size

LEMMA IInvSplit ==
    IInv <=> /\ Control /\ Bounded /\ MergesUnfreed
             /\ Section(store) /\ (~storeMisread => Once(store))
             /\ list \in [Instance -> Lists] /\ base \in [Instance -> Lists]
             /\ \A i \in Instance : /\ ~listMisread[i] => Once(list[i])
                                    /\ ~baseMisread[i] => Once(base[i])
  BY DEF IInv, TypeOK, Control, Bounded, NoDuplicates, Section

\* A step that changes the lists of one instance only, and what is known of them.
LEMMA ListsKept ==
    ASSUME IInv, NEW i \in Instance, NEW l \in Lists, NEW b \in Lists,
           list' = [list EXCEPT ![i] = l], base' = [base EXCEPT ![i] = b],
           Section(store'), ~storeMisread' => Once(store'),
           ~listMisread'[i] => Once(l), ~baseMisread'[i] => Once(b),
           pc'[i] = "merging" => Match(b, Freed) = {},
           \A j \in Instance : j # i =>
               /\ listMisread'[j] = listMisread[j] /\ baseMisread'[j] = baseMisread[j]
               /\ pc'[j] = pc[j],
           Control', Bounded'
    PROVE  IInv'
<1>1. /\ list \in [Instance -> Lists] /\ base \in [Instance -> Lists]
      /\ \A j \in Instance : /\ ~listMisread[j] => Once(list[j])
                             /\ ~baseMisread[j] => Once(base[j])
                             /\ pc[j] = "merging" => Match(base[j], Freed) = {}
  BY IInvSplit DEF MergesUnfreed
<1>2. list' \in [Instance -> Lists] /\ base' \in [Instance -> Lists]
  BY <1>1
<1>3. ASSUME NEW j \in Instance
      PROVE  /\ ~listMisread'[j] => Once(list'[j])
             /\ ~baseMisread'[j] => Once(base'[j])
             /\ pc'[j] = "merging" => Match(base'[j], Freed) = {}
  <2>1. CASE j = i
    <3>1. list'[j] = l /\ base'[j] = b
      BY <1>1, <2>1
    <3>2. QED
      BY <2>1, <3>1
  <2>2. CASE j # i
    <3>1. list'[j] = list[j] /\ base'[j] = base[j]
      BY <1>1, <2>2
    <3>2. QED
      BY <1>1, <2>2, <3>1
  <2>3. QED
    BY <2>1, <2>2
<1>4. MergesUnfreed'
  BY <1>3 DEF MergesUnfreed, Match
<1>5. NoDuplicates'
  BY <1>3 DEF NoDuplicates, Once, Match
<1>6. TypeOK'
  BY <1>2 DEF TypeOK, Control, Section
<1>7. QED
  BY <1>4, <1>5, <1>6 DEF IInv

\* MRU_Save writes items, and no item twice unless it read a freed entry.
LEMMA SaveKeeps ==
    ASSUME IInv, NEW i \in Instance, NEW s \in Lists, NEW tainted \in BOOLEAN,
           ~tainted => Once(s), Save(i, s, tainted)
    PROVE  /\ Section(store') /\ (~storeMisread' => Once(store'))
           /\ storeMisread' \in BOOLEAN /\ stale' \in [Instance -> BOOLEAN]
<1>1. /\ Section(store) /\ (~storeMisread => Once(store))
      /\ storeMisread \in BOOLEAN /\ stale \in [Instance -> BOOLEAN]
  BY IInvSplit DEF Control
<1>2. CASE /\ store' \in {t \in [1..Len(s) -> Item] : \A k \in 1..Len(s) : t[k] \in Reads(s[k])}
           /\ storeMisread' = (tainted \/ Match(s, Freed) # {})
           /\ stale' = [j \in Instance |-> j # i /\ (stale[j] \/
                                         pc[j] \in {"removing", "merging"})]
  <2>1. Len(s) \in Nat /\ Len(s) <= Size /\ s \in [1..Len(s) -> Entry]
    BY ListType
  <2>2. PICK t \in [1..Len(s) -> Item] :
          store' = t /\ \A k \in 1..Len(s) : t[k] \in Reads(s[k])
    BY <1>2
  <2>3. t \in Seq(Item) /\ Len(t) = Len(s)
    BY <2>1, <2>2
  <2>4. ~storeMisread' => Once(t)
    <3> SUFFICES ASSUME ~storeMisread' PROVE Once(t)
      OBVIOUS
    <3>1. Once(s) /\ Match(s, Freed) = {}
      BY <1>2
    <3>2. \A k \in 1..Len(s) : t[k] = s[k]
      BY <2>2, <3>1 DEF Reads, Match
    <3>3. QED
      BY <2>3, <3>1, <3>2 DEF Once, Match
  <2>5. stale' \in [Instance -> BOOLEAN] /\ storeMisread' \in BOOLEAN
    BY <1>1, <1>2
  <2>6. QED
    BY <2>1, <2>2, <2>3, <2>4, <2>5 DEF Section
<1>3. CASE stale' = [stale EXCEPT ![i] = FALSE] /\ UNCHANGED <<store, storeMisread>>
  BY <1>1, <1>3
<1>4. QED
  BY <1>2, <1>3 DEF Save

LEMMA StepInv == ASSUME IInv, NEW i \in Instance, Step(i) PROVE IInv'
<1>1. /\ Control /\ Bounded /\ MergesUnfreed
      /\ Section(store) /\ (~storeMisread => Once(store))
      /\ list \in [Instance -> Lists] /\ base \in [Instance -> Lists]
      /\ ~listMisread[i] => Once(list[i])
      /\ ~baseMisread[i] => Once(base[i])
  BY IInvSplit
<1>2. list = [list EXCEPT ![i] = list[i]] /\ base = [base EXCEPT ![i] = base[i]]
  BY <1>1
<1>3. Len(list[i]) \in 0..Size /\ list[i] \in Lists /\ base[i] \in Lists
  BY <1>1, ListType
<1>4. store \in Lists /\ Match(store, Freed) = {}
  BY <1>1, ItemList DEF Section
<1>5. CASE Start(i)
  <2>1. Control' /\ Bounded'
    BY <1>1, <1>5 DEF Start, Control, Bounded
  <2>2. /\ list' = [list EXCEPT ![i] = store] /\ UNCHANGED <<base, store, storeMisread, baseMisread>>
        /\ listMisread'[i] = storeMisread /\ pc'[i] = "open"
        /\ \A j \in Instance : j # i => listMisread'[j] = listMisread[j] /\ pc'[j] = pc[j]
    BY <1>1, <1>5 DEF Start, Control
  <2>3. QED
    BY <1>1, <1>2, <1>3, <1>4, <2>1, <2>2, ListsKept
<1>6. CASE AddItem(i)
  <2>1. PICK f \in Item :
            /\ \E s \in MRU_Add(list[i], f) : list' = [list EXCEPT ![i] = s]
            /\ listMisread' = [listMisread EXCEPT ![i] = @ \/ MayMisread(list[i], f)]
    BY <1>6 DEF AddItem
  <2>2. PICK s \in MRU_Add(list[i], f) : list' = [list EXCEPT ![i] = s]
    BY <2>1
  <2>3. s \in Lists /\ (Once(list[i]) /\ ~MayMisread(list[i], f) => Once(s))
    BY <1>3, AddKeeps
  <2>4. MayMisread(list[i], f) \in BOOLEAN
    BY DEF MayMisread
  <2> DEFINE may == MayMisread(list[i], f)
  <2> HIDE DEF may
  <2>5. /\ listMisread' = [listMisread EXCEPT ![i] = listMisread[i] \/ may] /\ may \in BOOLEAN
        /\ UNCHANGED <<store, base, pc, at, doomed, stale, storeMisread, baseMisread>>
    BY <1>6, <2>1, <2>4 DEF AddItem, may
  <2>6. listMisread \in [Instance -> BOOLEAN]
    BY <1>1 DEF Control
  <2>7. listMisread' \in [Instance -> BOOLEAN]
    BY <2>5, <2>6
  <2>8. Control' /\ Bounded'
    <3>1. pc[i] = "open"
      BY <1>6 DEF AddItem
    <3>2. Control'
      BY <1>1, <2>5, <2>7 DEF Control
    <3>3. Bounded'
      BY <1>1, <2>2, <2>5, <3>1 DEF Bounded
    <3>4. QED
      BY <3>2, <3>3
  <2>9. listMisread'[i] = (listMisread[i] \/ may)
    BY <2>5, <2>6
  <2>10. \A j \in Instance : j # i => listMisread'[j] = listMisread[j]
    BY <2>5, <2>6
  <2>11. ~listMisread'[i] => Once(s)
    BY <1>1, <2>3, <2>9 DEF may
  <2>12. pc[i] # "merging"
    BY <1>6 DEF AddItem
  <2>13. QED
    BY <1>1, <1>2, <1>3, <2>2, <2>3, <2>5, <2>8, <2>10, <2>11, <2>12, ListsKept
<1>7. CASE RemoveItem(i)
  <2>1. PICK k \in 1..Len(list[i]) :
            /\ \E s \in MRU_Delete(list[i], k) : list' = [list EXCEPT ![i] = s]
            /\ \E f \in Reads(list[i][k]) : doomed' = [doomed EXCEPT ![i] = f]
    BY <1>7 DEF RemoveItem
  <2>2. PICK s \in MRU_Delete(list[i], k) : list' = [list EXCEPT ![i] = s]
    BY <2>1
  <2>3. PICK f \in Reads(list[i][k]) : doomed' = [doomed EXCEPT ![i] = f]
    BY <2>1
  <2>4. s \in Lists /\ (Once(list[i]) => Once(s))
    BY <1>3, DeleteKeeps
  <2>5. f \in Entry
    <3>1. list[i][k] \in Entry
      BY <1>3, ListType
    <3>2. QED
      BY <3>1 DEF Reads, Entry
  <2>6. /\ base' = [base EXCEPT ![i] = store] /\ baseMisread' = [baseMisread EXCEPT ![i] = storeMisread]
        /\ pc' = [pc EXCEPT ![i] = "removing"]
        /\ UNCHANGED <<store, at, stale, storeMisread, listMisread>>
    BY <1>7 DEF RemoveItem, LoadBase
  <2>7. Control' /\ Bounded'
    BY <1>1, <2>2, <2>3, <2>5, <2>6 DEF Control, Bounded
  <2>8. /\ baseMisread'[i] = storeMisread /\ pc'[i] = "removing"
        /\ \A j \in Instance : j # i => baseMisread'[j] = baseMisread[j] /\ pc'[j] = pc[j]
    BY <1>1, <2>6 DEF Control
  <2>9. QED
    BY <1>1, <1>4, <2>2, <2>4, <2>6, <2>7, <2>8, ListsKept
<1>8. CASE RemoveFromBase(i)
  <2>1. PICK k \in Found(base[i], doomed[i]) :
            \E s \in MRU_Delete(base[i], k) : base' = [base EXCEPT ![i] = s]
    BY <1>8 DEF RemoveFromBase
  <2>2. PICK s \in MRU_Delete(base[i], k) : base' = [base EXCEPT ![i] = s]
    BY <2>1
  <2>3. s \in Lists /\ (Once(base[i]) => Once(s))
    BY <1>3, DeleteKeeps DEF Found, Match
  <2>4. UNCHANGED <<store, list, pc, at, doomed, stale, storeMisread, listMisread, baseMisread>>
        /\ pc[i] = "removing"
    BY <1>8 DEF RemoveFromBase, misread
  <2>5. Control' /\ Bounded'
    BY <1>1, <2>4 DEF Control, Bounded
  <2>6. QED
    BY <1>1, <1>2, <1>3, <2>2, <2>3, <2>4, <2>5, ListsKept
<1>9. CASE SaveRemoval(i)
  <2>1. baseMisread[i] \in BOOLEAN
    BY <1>1 DEF Control
  <2>2. /\ Section(store') /\ (~storeMisread' => Once(store'))
        /\ storeMisread' \in BOOLEAN /\ stale' \in [Instance -> BOOLEAN]
    BY <1>1, <1>3, <1>9, <2>1, SaveKeeps DEF SaveRemoval
  <2>3. /\ base' = [base EXCEPT ![i] = <<>>] /\ baseMisread' = [baseMisread EXCEPT ![i] = FALSE]
        /\ doomed' = [doomed EXCEPT ![i] = Freed] /\ pc' = [pc EXCEPT ![i] = "open"]
        /\ UNCHANGED <<list, at, listMisread>>
    BY <1>9 DEF SaveRemoval, DropBase
  <2>4. Control' /\ Bounded'
    BY <1>1, <2>2, <2>3 DEF Control, Bounded, Entry
  <2>5. \A j \in Instance : j # i => baseMisread'[j] = baseMisread[j] /\ pc'[j] = pc[j]
    BY <1>1, <2>3 DEF Control
  <2>6. QED
    BY <1>1, <1>2, <1>3, <2>2, <2>3, <2>4, <2>5, EmptyList, ListsKept
<1>10. ASSUME End(i), at'[i] \in 0..Size, \A j \in Instance : j # i => at'[j] = at[j],
              at' \in [Instance -> 0..Size],
              Section(store'), ~storeMisread' => Once(store'),
              storeMisread' \in BOOLEAN, stale' \in [Instance -> BOOLEAN]
       PROVE  IInv'
  <2>1. /\ pc' = [pc EXCEPT ![i] = "off"] /\ doomed' = [doomed EXCEPT ![i] = Freed]
        /\ list' = [list EXCEPT ![i] = <<>>] /\ base' = [base EXCEPT ![i] = <<>>]
        /\ listMisread' = [listMisread EXCEPT ![i] = FALSE]
        /\ baseMisread' = [baseMisread EXCEPT ![i] = FALSE]
    BY <1>10 DEF End, DropBase
  <2>2. Control' /\ Bounded'
    BY <1>1, <1>10, <2>1 DEF Control, Bounded, Entry
  <2>3. \A j \in Instance : j # i => /\ listMisread'[j] = listMisread[j]
                                     /\ baseMisread'[j] = baseMisread[j] /\ pc'[j] = pc[j]
    BY <1>1, <2>1 DEF Control
  <2>4. QED
    BY <1>1, <1>10, <2>1, <2>2, <2>3, EmptyList, ListsKept
<1>11. CASE CloseEmptying(i)
  <2>1. /\ Section(store') /\ (~storeMisread' => Once(store'))
        /\ storeMisread' \in BOOLEAN /\ stale' \in [Instance -> BOOLEAN]
    BY <1>11, EmptyList, SaveKeeps DEF CloseEmptying
  <2>2. QED
    BY <1>1, <1>10, <1>11, <2>1 DEF CloseEmptying, Control
<1>12. CASE Close(i)
  <2>1. /\ base' = [base EXCEPT ![i] = store] /\ baseMisread' = [baseMisread EXCEPT ![i] = storeMisread]
        /\ at' = [at EXCEPT ![i] = Len(list[i])] /\ pc' = [pc EXCEPT ![i] = "merging"]
        /\ UNCHANGED <<store, list, doomed, stale, storeMisread, listMisread>>
    BY <1>12 DEF Close, LoadBase
  <2>2. Control' /\ Bounded'
    BY <1>1, <1>3, <2>1 DEF Control, Bounded
  <2>3. /\ baseMisread'[i] = storeMisread
        /\ \A j \in Instance : j # i => baseMisread'[j] = baseMisread[j] /\ pc'[j] = pc[j]
    BY <1>1, <2>1 DEF Control
  <2>4. QED
    BY <1>1, <1>2, <1>3, <1>4, <2>1, <2>2, <2>3, ListsKept
<1>13. CASE MergeItem(i)
  <2>1. at[i] \in 1..Len(list[i])
    BY <1>1, <1>3, <1>13 DEF MergeItem, Control, Bounded
  <2>2. PICK f \in Reads(list[i][at[i]]) :
            \E s \in MRU_Add(base[i], f) : base' = [base EXCEPT ![i] = s]
    BY <1>13 DEF MergeItem
  <2>3. PICK s \in MRU_Add(base[i], f) : base' = [base EXCEPT ![i] = s]
    BY <2>2
  <2>4. f \in Item
    <3>1. list[i][at[i]] \in Entry
      BY <1>3, <2>1, ListType
    <3>2. QED
      BY <3>1 DEF Reads, Entry
  <2>5. pc[i] = "merging" /\ Match(base[i], Freed) = {}
    BY <1>1, <1>13 DEF MergeItem, MergesUnfreed
  <2>6. s \in Lists /\ (Once(base[i]) => Once(s)) /\ Match(s, Freed) = {}
    <3>1. ~MayMisread(base[i], f)
      BY <2>5 DEF MayMisread
    <3>2. QED
      BY <1>3, <2>4, <2>5, <3>1, AddKeeps
  <2>7. at' = [at EXCEPT ![i] = at[i] - 1]
        /\ UNCHANGED <<store, list, pc, doomed, stale, storeMisread, listMisread, baseMisread>>
    BY <1>13 DEF MergeItem, misread
  <2>8. Control' /\ Bounded'
    <3>1. at[i] - 1 \in 0..Size /\ at[i] - 1 <= Len(list[i])
      BY <1>3, <2>1, MruAssumption
    <3>2. Control'
      BY <1>1, <2>7, <3>1 DEF Control
    <3>3. Bounded'
      <4> SUFFICES ASSUME NEW j \in Instance, pc[j] = "merging"
                   PROVE  at'[j] <= Len(list[j])
        BY <2>7 DEF Bounded
      <4>1. CASE j = i
        BY <1>1, <2>7, <3>1, <4>1 DEF Control
      <4>2. CASE j # i
        BY <1>1, <2>7, <4>2 DEF Control, Bounded
      <4>3. QED
        BY <4>1, <4>2
    <3>4. QED
      BY <3>2, <3>3
  <2>9. QED
    BY <1>1, <1>2, <1>3, <2>3, <2>6, <2>7, <2>8, ListsKept
<1>14. CASE SaveMerged(i)
  <2>1. baseMisread[i] \in BOOLEAN
    BY <1>1 DEF Control
  <2>2. /\ Section(store') /\ (~storeMisread' => Once(store'))
        /\ storeMisread' \in BOOLEAN /\ stale' \in [Instance -> BOOLEAN]
    BY <1>1, <1>3, <1>14, <2>1, SaveKeeps DEF SaveMerged
  <2>3. QED
    BY <1>1, <1>10, <1>14, <2>2 DEF SaveMerged, Control
<1>15. CASE Quit(i)
  <2>1. /\ End(i) /\ at' = [at EXCEPT ![i] = 0] /\ stale' = [stale EXCEPT ![i] = FALSE]
        /\ UNCHANGED <<store, storeMisread>>
    BY <1>15 DEF Quit
  <2>2. /\ at' \in [Instance -> 0..Size] /\ at'[i] = 0
        /\ \A j \in Instance : j # i => at'[j] = at[j]
    BY <1>1, <2>1, MruAssumption DEF Control
  <2>3. storeMisread' \in BOOLEAN /\ stale' \in [Instance -> BOOLEAN] /\ 0 \in 0..Size
    BY <1>1, <2>1, MruAssumption DEF Control
  <2>4. QED
    BY <1>1, <1>10, <2>1, <2>2, <2>3
<1>16. QED
  BY <1>5, <1>6, <1>7, <1>8, <1>9, <1>11, <1>12, <1>13, <1>14, <1>15 DEF Step

LEMMA InitInv == Init => IInv
<1> SUFFICES ASSUME Init PROVE IInv
  OBVIOUS
<1>1. Section(store) /\ Once(store)
  <2>1. store = <<>> /\ <<>> \in Seq(Item) /\ Len(<<>>) = 0 /\ 0 <= Size
    BY MruAssumption DEF Init
  <2>2. QED
    BY <2>1, EmptyList DEF Section
<1>2. \A i \in Instance : Once(list[i]) /\ Once(base[i])
  BY EmptyList DEF Init
<1>3. list \in [Instance -> Lists] /\ base \in [Instance -> Lists]
  BY EmptyList DEF Init
<1>4. Control
  <2>1. Freed \in Entry /\ 0 \in 0..Size
    BY MruAssumption DEF Entry
  <2>2. QED
    BY <2>1 DEF Init, Control
<1>5. Bounded /\ MergesUnfreed
  BY DEF Init, Bounded, MergesUnfreed
<1>6. QED
  BY <1>1, <1>2, <1>3, <1>4, <1>5, IInvSplit

(***************************************************************************)
(* The theorems                                                            *)
(***************************************************************************)

\* IInv is an inductive invariant of every behaviour.
THEOREM MruInductive == Spec => []IInv
<1>1. IInv /\ [Next]_vars => IInv'
  <2> SUFFICES ASSUME IInv, [Next]_vars PROVE IInv'
    OBVIOUS
  <2>1. CASE Next
    BY <2>1, StepInv DEF Next
  <2>2. CASE UNCHANGED vars
    BY <2>2 DEF vars, misread, IInv, TypeOK, Bounded, MergesUnfreed, NoDuplicates
  <2>3. QED
    BY <2>1, <2>2
<1>2. QED
  BY <1>1, InitInv, PTL DEF Spec

\* The variables keep their types: above all no list, and not the section of
\* the INI file, ever exceeds the capacity the list was created with.
THEOREM MruTypeCorrect == Spec => []TypeOK
<1>1. IInv => TypeOK
  BY DEF IInv
<1>2. QED
  BY <1>1, MruInductive, PTL

\* No file or string is listed twice, however the instances interleave their merges
\* and removals, as long as no freed entry was read as one: a section that was not
\* written from a freed entry, a list in which none was found in place of the item
\* behind it.  A freed entry may read as any item, and freeing it again may free
\* another entry.
THEOREM NothingListedTwice == Spec => []NoDuplicates
<1>1. IInv => NoDuplicates
  BY DEF IInv
<1>2. QED
  BY <1>1, MruInductive, PTL

(***************************************************************************)
(* Merging                                                                 *)
(***************************************************************************)

\* A set of numbers has a least one.
LEMMA LeastOf ==
    ASSUME NEW S \in SUBSET Nat, S # {}
    PROVE  \E m \in S : \A k \in S : m <= k
<1> DEFINE less == OpToRel(<, Nat)
<1>1. \A j, k \in Nat : <<j, k>> \in less <=> j < k
  BY DEF OpToRel
<1>2. IsWellFoundedOn(less, Nat)
  BY NatLessThanWellFounded
<1> HIDE DEF less
<1>3. \E m \in S : \A k \in S : ~(<<k, m>> \in less)
  BY <1>2, WFMin
<1>4. PICK m \in S : \A k \in S : ~(<<k, m>> \in less)
  BY <1>3
<1>5. \A k \in S : m <= k
  <2>1. \A k \in S : k \in Nat /\ m \in Nat
    OBVIOUS
  <2>2. \A k \in S : ~(k < m)
    BY <1>1, <1>4, <2>1
  <2>3. QED
    BY <2>1, <2>2
<1>6. QED
  BY <1>5

\* u[k] is what OthersOf has taken after entry k of the other list.
Takes(u, own, other) ==
    /\ u[0] = <<>> /\ OthersOf(own, other) = u[Len(other)]
    /\ \A k \in 1..Len(other) :
         u[k] = IF Match(own, other[k]) = {} THEN Append(u[k - 1], other[k])
                ELSE u[k - 1]

\* OthersOf takes entry after entry.
LEMMA OthersUpTo ==
    ASSUME NEW own, NEW other \in Seq(Entry)
    PROVE  \E u : Takes(u, own, other)
<1> DEFINE Taken(f, k) == IF k = 0 THEN <<>>
                          ELSE IF Match(own, other[k]) = {} THEN Append(f[k - 1], other[k])
                          ELSE f[k - 1]
           Steps(f, n) == [k \in 0..n |-> Taken(f, k)]
           u == CHOOSE f : f = Steps(f, Len(other))
<1>1. Len(other) \in Nat
  BY LenProperties
<1>2. OthersOf(own, other) = u[Len(other)]
  BY DEF OthersOf
<1>3. \A n \in Nat : \E f : f = Steps(f, n)
  <2> DEFINE Wrong == {n \in Nat : ~\E f : f = Steps(f, n)}
  <2>1. ASSUME Wrong # {} PROVE FALSE
    <3>1. PICK n \in Wrong : \A m \in Wrong : n <= m
      <4>1. Wrong \in SUBSET Nat
        OBVIOUS
      <4> HIDE DEF Wrong
      <4>2. QED
        BY <2>1, <4>1, LeastOf
    <3>2. n \in Nat /\ \A f : f # Steps(f, n)
      OBVIOUS
    <3>3. CASE n = 0
      <4> DEFINE f == [k \in 0..0 |-> <<>>]
      <4>1. f = Steps(f, n)
        BY <3>3
      <4>2. QED
        BY <3>2, <4>1
    <3>4. CASE n > 0
      <4>1. n - 1 \in Nat /\ ~(n <= n - 1)
        BY <3>2, <3>4
      <4>2. n - 1 \notin Wrong
        BY <3>1, <4>1
      <4>3. PICK f : f = Steps(f, n - 1)
        BY <4>1, <4>2
      <4> DEFINE h == [k \in 0..n |-> Taken(f, k)]
      <4>4. ASSUME NEW k \in 0..n PROVE Taken(h, k) = Taken(f, k)
        <5>1. CASE k = 0
          BY <5>1
        <5>2. CASE k # 0
          <6>1. k - 1 \in 0..(n - 1) /\ k - 1 \in 0..n
            BY <3>2, <5>2
          <6>2. h[k - 1] = Taken(f, k - 1)
            BY <6>1
          <6>3. f[k - 1] = Taken(f, k - 1)
            <7> HIDE DEF Taken, h
            <7>1. QED
              BY <4>3, <6>1
          <6> HIDE DEF h
          <6>4. QED
            BY <5>2, <6>2, <6>3
        <5>3. QED
          BY <5>1, <5>2
      <4>5. h = Steps(h, n)
        <5> HIDE DEF Taken
        <5>1. h = [k \in 0..n |-> Taken(f, k)]
          OBVIOUS
        <5> HIDE DEF h
        <5>2. QED
          BY <4>4, <5>1
      <4>6. QED
        BY <3>2, <4>5
    <3>5. QED
      BY <3>2, <3>3, <3>4
  <2>2. QED
    BY <2>1
<1>4. u = Steps(u, Len(other))
  <2>1. \E f : f = Steps(f, Len(other))
    BY <1>1, <1>3
  <2> HIDE DEF Steps
  <2>2. QED
    BY <2>1, Zenon
<1> HIDE DEF u
<1>5. \A k \in 0..Len(other) : u[k] = Taken(u, k)
  <2> HIDE DEF Taken
  <2>1. QED
    BY <1>4
<1>6. u[0] = <<>>
  BY <1>1, <1>5
<1>7. \A k \in 1..Len(other) : k \in 0..Len(other) /\ k # 0
  BY <1>1
<1>8. \A k \in 1..Len(other) :
        u[k] = IF Match(own, other[k]) = {} THEN Append(u[k - 1], other[k]) ELSE u[k - 1]
  BY <1>5, <1>7
<1>9. QED
  BY <1>2, <1>6, <1>8 DEF Takes

\* o2 is o without e, which it has at most once.
Dropped(o, o2, e) ==
    \/ o2 = o /\ \A j \in 1..Len(o) : o[j] # e
    \/ \E q \in 1..Len(o) :
         /\ o[q] = e /\ \A j \in 1..Len(o) : o[j] = e => j = q
         /\ Len(o2) = Len(o) - 1
         /\ \A j \in 1..Len(o2) : o2[j] = IF j < q THEN o[j] ELSE o[j + 1]

\* Both lists go on by the same entry.
LEMMA DroppedGoesOn ==
    ASSUME NEW o \in Seq(Entry), NEW o2 \in Seq(Entry), NEW e, Dropped(o, o2, e),
           NEW x \in Entry, x # e
    PROVE  Dropped(Append(o, x), Append(o2, x), e)
<1> DEFINE p == Append(o, x)
           p2 == Append(o2, x)
<1>1. /\ Len(o) \in Nat /\ Len(p) = Len(o) + 1
      /\ \A j \in 1..Len(o) : p[j] = o[j]
      /\ p[Len(o) + 1] = x
  BY LenProperties, AppendProperties
<1>2. /\ Len(o2) \in Nat /\ Len(p2) = Len(o2) + 1
      /\ \A j \in 1..Len(o2) : p2[j] = o2[j]
      /\ p2[Len(o2) + 1] = x
  BY LenProperties, AppendProperties
<1> HIDE DEF p, p2
<1>3. CASE o2 = o /\ \A j \in 1..Len(o) : o[j] # e
  <2>1. p2 = p
    BY <1>3 DEF p, p2
  <2>2. \A j \in 1..Len(p) : p[j] # e
    BY <1>1, <1>3
  <2>3. QED
    BY <2>1, <2>2 DEF Dropped, p, p2
<1>4. CASE \E q \in 1..Len(o) :
             /\ o[q] = e /\ \A j \in 1..Len(o) : o[j] = e => j = q
             /\ Len(o2) = Len(o) - 1
             /\ \A j \in 1..Len(o2) : o2[j] = IF j < q THEN o[j] ELSE o[j + 1]
  <2>1. PICK q \in 1..Len(o) :
             /\ o[q] = e /\ \A j \in 1..Len(o) : o[j] = e => j = q
             /\ Len(o2) = Len(o) - 1
             /\ \A j \in 1..Len(o2) : o2[j] = IF j < q THEN o[j] ELSE o[j + 1]
    BY <1>4
  <2>2. q \in 1..Len(p) /\ p[q] = e /\ Len(p2) = Len(p) - 1
    BY <1>1, <1>2, <2>1
  <2>3. \A j \in 1..Len(p) : p[j] = e => j = q
    BY <1>1, <2>1
  <2>4. ASSUME NEW j \in 1..Len(p2)
        PROVE  p2[j] = IF j < q THEN p[j] ELSE p[j + 1]
    <3>1. CASE j = Len(p2)
      <4>1. j = Len(o2) + 1 /\ j + 1 = Len(o) + 1 /\ ~(j < q)
        BY <1>1, <1>2, <2>1, <3>1
      <4>2. QED
        BY <1>1, <1>2, <4>1
    <3>2. CASE j # Len(p2)
      <4>1. j \in 1..Len(o2) /\ j \in 1..Len(o) /\ j + 1 \in 1..Len(o)
        BY <1>1, <1>2, <2>1, <3>2
      <4>2. QED
        BY <1>1, <1>2, <2>1, <4>1
    <3>3. QED
      BY <3>1, <3>2
  <2>5. QED
    BY <2>2, <2>3, <2>4 DEF Dropped, p, p2
<1>5. QED
  BY <1>3, <1>4 DEF Dropped

\* An entry more of the own list is an entry less from the other.
LEMMA OthersDropped ==
    ASSUME NEW own \in Seq(Entry), NEW other \in Seq(Entry), NEW e \in Entry,
           Match(own, e) = {},
           \A j, k \in 1..Len(other) : other[j] = e /\ other[k] = e => j = k
    PROVE  /\ OthersOf(own, other) \in Seq(Entry)
           /\ OthersOf(<<e>> \o own, other) \in Seq(Entry)
           /\ Dropped(OthersOf(own, other), OthersOf(<<e>> \o own, other), e)
<1> DEFINE more == <<e>> \o own
<1>0. Len(other) \in Nat /\ \A k \in 1..Len(other) : other[k] \in Entry
  BY LenProperties, ElementOfSeq
<1>1. \A x : Match(more, x) = {} <=> x # e /\ Match(own, x) = {}
  <2>1. Len(own) \in Nat /\ <<e>> \in Seq(Entry) /\ Len(<<e>>) = 1 /\ <<e>>[1] = e
    BY LenProperties
  <2>2. /\ Len(more) = 1 + Len(own)
        /\ \A i \in 1..1 + Len(own) : more[i] = IF i <= 1 THEN <<e>>[i] ELSE own[i - 1]
    BY <2>1, ConcatProperties
  <2> HIDE DEF more
  <2>3. 1 \in 1..Len(more) /\ more[1] = e
    BY <2>1, <2>2
  <2>4. \A j \in 1..Len(own) : j + 1 \in 1..Len(more) /\ more[j + 1] = own[j]
    BY <2>1, <2>2
  <2>5. \A i \in 1..Len(more) : i = 1 \/ (i - 1 \in 1..Len(own) /\ more[i] = own[i - 1])
    BY <2>1, <2>2
  <2>6. ASSUME NEW x PROVE Match(more, x) = {} <=> x # e /\ Match(own, x) = {}
    <3>1. Match(more, x) = {} => x # e /\ Match(own, x) = {}
      BY <2>3, <2>4, SMTT(30) DEF Match
    <3>2. x # e /\ Match(own, x) = {} => Match(more, x) = {}
      BY <2>3, <2>5 DEF Match
    <3>3. QED
      BY <3>1, <3>2
  <2>7. QED
    BY <2>6
<1> HIDE DEF more
<1>2. PICK u : Takes(u, own, other)
  BY OthersUpTo
<1>3. PICK v : Takes(v, more, other)
  BY OthersUpTo
<1> DEFINE Right(k) == /\ u[k] \in Seq(Entry) /\ v[k] \in Seq(Entry)
                       /\ Dropped(u[k], v[k], e)
                       /\ \A j \in 1..Len(u[k]) : u[k][j] = e => \E m \in 1..k : other[m] = e
           Wrong == {k \in 0..Len(other) : ~Right(k)}
<1>4. ASSUME Wrong # {} PROVE FALSE
  <2>1. PICK k \in Wrong : \A m \in Wrong : k <= m
    <3>1. Wrong \in SUBSET Nat
      BY <1>0
    <3> HIDE DEF Wrong
    <3>2. QED
      BY <1>4, <3>1, LeastOf
  <2>2. k \in 0..Len(other) /\ ~Right(k)
    OBVIOUS
  <2>3. CASE k = 0
    <3>1. u[0] = <<>> /\ v[0] = <<>> /\ <<>> \in Seq(Entry) /\ Len(<<>>) = 0
      BY <1>2, <1>3, EmptySeq DEF Takes
    <3>2. \A j \in 1..Len(<<>>) : FALSE
      BY <3>1
    <3>3. QED
      BY <2>2, <2>3, <3>1, <3>2 DEF Dropped
  <2>4. CASE k # 0
    <3>1. PICK h : h = k - 1
      OBVIOUS
    <3>2. h \in 0..Len(other) /\ k \in 1..Len(other) /\ ~(k <= h) /\ h < k
      BY <1>0, <2>2, <2>4, <3>1
    <3>3. Right(h)
      <4>1. h \notin Wrong
        BY <2>1, <3>2
      <4>2. QED
        BY <3>2, <4>1
    <3> DEFINE x == other[k]
               o == u[h]
               o2 == v[h]
    <3>4. x \in Entry
      BY <1>0, <3>2
    <3>5. /\ u[k] = IF Match(own, x) = {} THEN Append(o, x) ELSE o
          /\ v[k] = IF Match(more, x) = {} THEN Append(o2, x) ELSE o2
      BY <1>2, <1>3, <3>1, <3>2 DEF Takes
    <3>6. /\ o \in Seq(Entry) /\ o2 \in Seq(Entry) /\ Dropped(o, o2, e)
          /\ \A j \in 1..Len(o) : o[j] = e => \E m \in 1..h : other[m] = e
      BY <3>3
    <3>7. Len(o) \in Nat
      BY <3>6, LenProperties
    <3>8. \A m \in 1..h : m \in 1..k /\ m # k /\ m \in 1..Len(other)
      BY <1>0, <3>1, <3>2
    <3>9. Match(more, x) = {} <=> x # e /\ Match(own, x) = {}
      BY <1>1
    <3>10. k \in 1..k
      BY <3>2
    <3> HIDE DEF o, o2, x, Wrong
    <3>11. /\ Append(o, x) \in Seq(Entry) /\ Append(o2, x) \in Seq(Entry)
           /\ Len(Append(o, x)) = Len(o) + 1 /\ Append(o, x)[Len(o) + 1] = x
           /\ \A j \in 1..Len(o) : Append(o, x)[j] = o[j]
      BY <3>4, <3>6, AppendProperties
    <3>12. CASE Match(own, x) # {}
      <4>1. u[k] = o /\ v[k] = o2
        BY <3>5, <3>9, <3>12
      <4>2. Right(k)
        BY <3>6, <3>8, <4>1
      <4>3. QED
        BY <2>2, <4>2
    <3>13. CASE Match(own, x) = {} /\ x = e
      <4>1. u[k] = Append(o, x) /\ v[k] = o2
        BY <3>5, <3>9, <3>13
      <4>2. \A j \in 1..Len(o) : o[j] # e
        <5> SUFFICES ASSUME NEW j \in 1..Len(o), o[j] = e PROVE FALSE
          OBVIOUS
        <5>1. PICK m \in 1..h : other[m] = e
          BY <3>6
        <5>2. QED
          BY <3>2, <3>8, <3>13, <5>1 DEF x
      <4>3. o2 = o
        BY <3>6, <4>2 DEF Dropped
      <4>4. Dropped(Append(o, x), o2, e)
        <5> DEFINE p == Append(o, x)
                   q == Len(o) + 1
        <5>1. q \in 1..Len(p) /\ p[q] = e /\ Len(o2) = Len(p) - 1
          BY <3>7, <3>11, <3>13, <4>3
        <5>2. \A j \in 1..Len(p) : p[j] = e => j = q
          BY <3>7, <3>11, <4>2
        <5>3. \A j \in 1..Len(o2) : j < q /\ o2[j] = p[j]
          BY <3>7, <3>11, <4>3
        <5> HIDE DEF p, q
        <5>4. Dropped(p, o2, e)
          BY <5>1, <5>2, <5>3 DEF Dropped
        <5>5. QED
          BY <5>4 DEF p
      <4>5. \E m \in 1..k : other[m] = e
        BY <3>10, <3>13 DEF x
      <4>6. Right(k)
        BY <3>6, <3>11, <4>1, <4>4, <4>5
      <4>7. QED
        BY <2>2, <4>6
    <3>14. CASE Match(own, x) = {} /\ x # e
      <4>1. u[k] = Append(o, x) /\ v[k] = Append(o2, x)
        BY <3>5, <3>9, <3>14
      <4>2. Dropped(Append(o, x), Append(o2, x), e)
        BY <3>4, <3>6, <3>14, DroppedGoesOn
      <4>3. ASSUME NEW j \in 1..Len(Append(o, x)), Append(o, x)[j] = e
            PROVE  \E m \in 1..k : other[m] = e
        <5>1. j \in 1..Len(o)
          BY <3>7, <3>11, <3>14, <4>3
        <5>2. QED
          BY <3>6, <3>8, <3>11, <4>3, <5>1
      <4>4. Right(k)
        BY <3>11, <4>1, <4>2, <4>3
      <4>5. QED
        BY <2>2, <4>4
    <3>15. QED
      BY <3>12, <3>13, <3>14
  <2>5. QED
    BY <2>3, <2>4
<1>5. Right(Len(other))
  <2>1. Len(other) \in 0..Len(other)
    BY <1>0
  <2>2. QED
    BY <1>4, <2>1
<1>6. QED
  BY <1>2, <1>3, <1>5 DEF more, Takes

\* An empty list lacks every entry.
LEMMA OthersAll ==
    ASSUME NEW other \in Seq(Entry)
    PROVE  OthersOf(<<>>, other) = other
<1>0. Len(other) \in Nat /\ \A k \in 1..Len(other) : other[k] \in Entry
  BY LenProperties, ElementOfSeq
<1>1. PICK u : Takes(u, <<>>, other)
  BY OthersUpTo
<1>2. \A x : Match(<<>>, x) = {}
  BY DEF Match
<1>3. /\ u[0] = <<>> /\ OthersOf(<<>>, other) = u[Len(other)]
      /\ \A k \in 1..Len(other) : u[k] = Append(u[k - 1], other[k])
  BY <1>1, <1>2 DEF Takes
<1> DEFINE Right(k) == /\ u[k] \in Seq(Entry) /\ Len(u[k]) = k
                       /\ \A j \in 1..k : u[k][j] = other[j]
           Wrong == {k \in 0..Len(other) : ~Right(k)}
<1>4. ASSUME Wrong # {} PROVE FALSE
  <2>1. PICK k \in Wrong : \A m \in Wrong : k <= m
    <3>1. Wrong \in SUBSET Nat
      BY <1>0
    <3> HIDE DEF Wrong
    <3>2. QED
      BY <1>4, <3>1, LeastOf
  <2>2. k \in 0..Len(other) /\ ~Right(k)
    OBVIOUS
  <2>3. CASE k = 0
    <3>1. u[0] \in Seq(Entry) /\ Len(u[0]) = 0
      BY <1>3, EmptySeq
    <3>2. QED
      BY <2>2, <2>3, <3>1
  <2>4. CASE k # 0
    <3>1. PICK h : h = k - 1
      OBVIOUS
    <3>2. h \in 0..Len(other) /\ k \in 1..Len(other) /\ ~(k <= h) /\ h + 1 = k
      BY <1>0, <2>2, <2>4, <3>1
    <3>3. Right(h)
      <4>1. h \notin Wrong
        BY <2>1, <3>2
      <4>2. QED
        BY <3>2, <4>1
    <3> DEFINE o == u[h]
               x == other[k]
    <3>4. u[k] = Append(o, x) /\ o \in Seq(Entry) /\ Len(o) = h /\ x \in Entry
          /\ \A j \in 1..h : o[j] = other[j]
      BY <1>0, <1>3, <3>1, <3>2, <3>3
    <3> HIDE DEF o, Wrong
    <3>5. /\ Append(o, x) \in Seq(Entry) /\ Len(Append(o, x)) = k
          /\ Append(o, x)[k] = x /\ \A j \in 1..h : Append(o, x)[j] = o[j]
      BY <3>2, <3>4, AppendProperties
    <3>6. \A j \in 1..k : j = k \/ j \in 1..h
      BY <3>2
    <3>7. Right(k)
      BY <3>4, <3>5, <3>6
    <3>8. QED
      BY <2>2, <3>7
  <2>5. QED
    BY <2>3, <2>4
<1>5. Right(Len(other))
  <2>1. Len(other) \in 0..Len(other)
    BY <1>0
  <2>2. QED
    BY <1>4, <2>1
<1>6. u[Len(other)] = other
  BY <1>5, SeqEqual
<1>7. QED
  BY <1>3, <1>6

\* The entries of a merged list.
LEMMA MergedAt ==
    ASSUME NEW own \in Seq(Entry), NEW other \in Seq(Entry),
           NEW o \in Seq(Entry), o = OthersOf(own, other),
           NEW n, n = Len(own) + Len(o)
    PROVE  LET t == Merged(own, other)
           IN  /\ t \in Seq(Entry)
               /\ Len(t) = IF n < Size THEN n ELSE Size
               /\ \A j \in 1..Len(t) : t[j] = IF j <= Len(own) THEN own[j]
                                              ELSE o[j - Len(own)]
<1> DEFINE all == own \o o
           m == IF n < Size THEN n ELSE Size
           t == SubSeq(all, 1, m)
<1>1. Len(own) \in Nat /\ Len(o) \in Nat /\ Size \in Nat
  BY LenProperties, MruAssumption
<1>2. /\ all \in Seq(Entry) /\ Len(all) = n
      /\ \A j \in 1..n : all[j] = IF j <= Len(own) THEN own[j] ELSE o[j - Len(own)]
  BY ConcatProperties
<1>3. Merged(own, other) = t
  BY <1>2 DEF Merged
<1> HIDE DEF all
<1>4. m \in Nat /\ m <= n /\ \A j \in 1..m : j \in 1..n /\ all[j] \in Entry
  <2>1. m \in Nat /\ m <= n
    BY <1>1
  <2>2. \A j \in 1..m : j \in 1..n
    BY <1>1
  <2>3. \A j \in 1..n : all[j] \in Entry
    BY <1>2, ElementOfSeq
  <2> HIDE DEF m
  <2>4. QED
    BY <2>1, <2>2, <2>3
<1> HIDE DEF m
<1>5. /\ t \in Seq(Entry)
      /\ Len(t) = IF 1 <= m THEN m - 1 + 1 ELSE 0
      /\ \A j \in 1..m - 1 + 1 : t[j] = all[1 + j - 1]
  <2>1. \A j \in 1..m : all[j] \in Entry
    BY <1>4
  <2>2. 1 \in Nat /\ m \in Nat
    BY <1>4
  <2>3. QED
    BY <2>1, <2>2, SubSeqProperties
<1>6. Len(t) = m /\ \A j \in 1..m : t[j] = all[j]
  <2>1. m - 1 + 1 = m /\ \A j \in 1..m : 1 + j - 1 = j
    BY <1>4
  <2>2. QED
    BY <1>4, <1>5, <2>1
<1>7. QED
  BY <1>2, <1>3, <1>4, <1>5, <1>6 DEF m

\* MRU_Add of a list without freed entries.
AddFirst(s, f) ==
    LET found == Match(s, f)
        i == IF found # {} THEN CHOOSE i \in found : \A k \in found : i <= k
                           ELSE LastSlot(s)
    IN  ToFront(s, f, i, IF found # {} THEN Len(s) ELSE LastSlot(s))

LEMMA AddsFirst ==
    ASSUME NEW s \in Lists, Match(s, Freed) = {}, NEW f, f # Freed,
           NEW t \in MRU_Add(s, f)
    PROVE  t = AddFirst(s, f)
<1>1. CASE Match(s, f) = {}
  <2>1. Found(s, f) = {}
    BY <1>1 DEF Found
  <2>2. t = ToFront(s, f, LastSlot(s), LastSlot(s))
    BY <2>1, AddCases
  <2>3. QED
    BY <1>1, <2>2 DEF AddFirst
<1>2. CASE Match(s, f) # {}
  <2> DEFINE i == CHOOSE i \in Match(s, f) : \A k \in Match(s, f) : i <= k
  <2>1. i \in Match(s, f) /\ \A k \in Match(s, f) : i <= k
    BY <1>2, FirstMatch
  <2> HIDE DEF i
  <2>2. PICK k \in Found(s, f) : \E u \in AfterFree(s, s[k]) : t = ToFront(u, f, k, Len(s))
    BY <1>2, AddCases
  <2>3. k = i
    <3>1. k \in Match(s, f) /\ k <= i /\ i <= k
      BY <2>1 DEF Found
    <3>2. k \in Nat /\ i \in Nat
      BY <2>1, <3>1, ListType DEF Match
    <3>3. QED
      BY <3>1, <3>2
  <2>4. s[k] = f
    BY <2>1, <2>3 DEF Match
  <2>5. t = ToFront(s, f, i, Len(s))
    BY <2>2, <2>3, <2>4, FreedKeeps
  <2>6. QED
    BY <1>2, <2>5 DEF AddFirst, i
<1>3. QED
  BY <1>1, <1>2

\* Adding an entry to a merged list merges a list that has the entry first.
LEMMA MergeGoesOn ==
    ASSUME NEW own \in Seq(Entry), Len(own) < Size, NEW other \in Seq(Entry),
           NEW e \in Entry, Match(own, e) = {},
           \A j, k \in 1..Len(other) : other[j] = e /\ other[k] = e => j = k
    PROVE  AddFirst(Merged(own, other), e) = Merged(<<e>> \o own, other)
<1> DEFINE more == <<e>> \o own
           o == OthersOf(own, other)
           o2 == OthersOf(more, other)
           t == Merged(own, other)
           z == Merged(more, other)
           a == Len(own)
           b == Len(o)
           b2 == Len(o2)
<1>1. o \in Seq(Entry) /\ o2 \in Seq(Entry) /\ Dropped(o, o2, e)
  BY OthersDropped
<1>2. /\ a \in Nat /\ b \in Nat /\ b2 \in Nat /\ Size \in Nat /\ Size > 0
      /\ a < Size
  BY <1>1, LenProperties, MruAssumption
<1>3. /\ more \in Seq(Entry) /\ Len(more) = a + 1
      /\ more[1] = e
      /\ \A j \in 1..a + 1 : j # 1 => more[j] = own[j - 1]
  <2>1. <<e>> \in Seq(Entry) /\ Len(<<e>>) = 1 /\ <<e>>[1] = e
    OBVIOUS
  <2>2. /\ more \in Seq(Entry) /\ Len(more) = 1 + a
        /\ \A j \in 1..1 + a : more[j] = IF j <= 1 THEN <<e>>[j] ELSE own[j - 1]
    BY <2>1, ConcatProperties
  <2>3. 1 + a = a + 1 /\ 1 \in 1..a + 1
    BY <1>2
  <2> HIDE DEF more
  <2>4. QED
    BY <2>1, <2>2, <2>3
<1> HIDE DEF o, o2, more
<1>4. /\ t \in Seq(Entry)
      /\ Len(t) = IF a + b < Size THEN a + b ELSE Size
      /\ \A j \in 1..Len(t) : t[j] = IF j <= a THEN own[j] ELSE o[j - a]
  <2>1. PICK n : n = a + b
    OBVIOUS
  <2>2. /\ t \in Seq(Entry)
        /\ Len(t) = IF n < Size THEN n ELSE Size
        /\ \A j \in 1..Len(t) : t[j] = IF j <= a THEN own[j] ELSE o[j - a]
    <3>1. o = OthersOf(own, other)
      BY DEF o
    <3>2. QED
      BY <1>1, <2>1, <3>1, MergedAt
  <2>3. QED
    BY <2>1, <2>2
<1>5. /\ z \in Seq(Entry)
      /\ Len(z) = IF a + 1 + b2 < Size THEN a + 1 + b2 ELSE Size
      /\ \A j \in 1..Len(z) : z[j] = IF j <= a + 1 THEN more[j] ELSE o2[j - (a + 1)]
  <2>1. PICK n : n = Len(more) + b2
    OBVIOUS
  <2>2. /\ z \in Seq(Entry)
        /\ Len(z) = IF n < Size THEN n ELSE Size
        /\ \A j \in 1..Len(z) : z[j] = IF j <= Len(more) THEN more[j] ELSE o2[j - Len(more)]
    <3>1. o2 = OthersOf(more, other)
      BY DEF o2
    <3>2. QED
      BY <1>1, <1>3, <2>1, <3>1, MergedAt
  <2>3. QED
    BY <1>3, <2>1, <2>2
<1>6. \A j \in 1..a : own[j] # e
  BY DEF Match
<1> HIDE DEF t, z, a, b, b2
<1> DEFINE found == Match(t, e)
           last == IF Len(t) < Size THEN Len(t) + 1 ELSE Size
           first == CHOOSE i \in found : \A k \in found : i <= k
           i == IF found # {} THEN first ELSE last
           n == IF found # {} THEN Len(t) ELSE last
           r == [j \in 1..n |-> IF j = 1 THEN e ELSE IF j <= i THEN t[j - 1] ELSE t[j]]
<1>7. AddFirst(t, e) = r
  BY DEF AddFirst, ToFront, LastSlot
<1>8. Len(t) \in Nat /\ t \in Lists
  BY <1>2, <1>4, LenProperties DEF Lists
<1>9. ASSUME n = Len(z),
             \A j \in 1..n : z[j] = IF j = 1 THEN e ELSE IF j <= i THEN t[j - 1] ELSE t[j]
      PROVE  r = z
  <2>1. z \in [1..Len(z) -> Entry]
    BY <1>5, LenProperties
  <2>2. z = [j \in 1..n |-> z[j]]
    BY <1>9, <2>1
  <2> HIDE DEF n, i
  <2>3. QED
    BY <1>9, <2>2
<1>10. CASE found = {}
  <2>1. i = last /\ n = last /\ last \in Nat /\ last <= Len(t) + 1 /\ last <= Size
    BY <1>2, <1>8, <1>10
  <2>2. \A j \in 1..Len(t) : t[j] # e
    BY <1>10 DEF Match
  <2> HIDE DEF found, i, n, first
  <2>3. CASE o2 = o
    <3>1. b2 = b /\ last = Len(z)
      BY <1>2, <1>4, <1>5, <2>3 DEF b, b2
    <3>2. ASSUME NEW j \in 1..last PROVE z[j] = IF j = 1 THEN e ELSE t[j - 1]
      <4>1. CASE j = 1
        BY <1>2, <1>3, <1>5, <3>1, <4>1
      <4>2. CASE j # 1
        <5>1. PICK h : h = j - 1
          OBVIOUS
        <5>2. h \in 1..Len(t) /\ j - (a + 1) = h - a /\ (j <= a + 1 <=> h <= a)
          BY <1>2, <1>8, <2>1, <4>2, <5>1
        <5>3. z[j] = IF j <= a + 1 THEN more[j] ELSE o2[j - (a + 1)]
          BY <1>5, <3>1
        <5>4. j <= a + 1 => more[j] = own[h]
          BY <1>2, <1>3, <4>2, <5>1
        <5>5. t[h] = IF h <= a THEN own[h] ELSE o[h - a]
          BY <1>4, <5>2
        <5>6. z[j] = t[h]
          BY <2>3, <5>2, <5>3, <5>4, <5>5
        <5>7. QED
          BY <4>2, <5>1, <5>6
      <4>3. QED
        BY <4>1, <4>2
    <3>3. \A j \in 1..n :
            z[j] = IF j = 1 THEN e ELSE IF j <= i THEN t[j - 1] ELSE t[j]
      BY <2>1, <3>2
    <3>4. n = Len(z)
      BY <2>1, <3>1
    <3> HIDE DEF r
    <3>5. QED
      BY <1>7, <1>9, <3>3, <3>4 DEF t, z, more
  <2>4. CASE o2 # o
    <3>1. PICK q \in 1..b : /\ o[q] = e /\ b2 = b - 1
                            /\ \A j \in 1..b2 : o2[j] = IF j < q THEN o[j] ELSE o[j + 1]
      BY <1>1, <2>4 DEF Dropped, b, b2
    <3>2. a + q > Size
      <4> SUFFICES ASSUME a + q <= Size PROVE FALSE
        BY <1>2
      <4>1. PICK h : h = a + q
        OBVIOUS
      <4>2. h \in 1..Len(t) /\ ~(h <= a) /\ h - a = q
        BY <1>2, <1>4, <4>1
      <4>3. QED
        BY <1>4, <2>2, <3>1, <4>2
    <3>3. Len(t) = Size /\ Len(z) = Size /\ last = Size
      BY <1>2, <1>4, <1>5, <3>1, <3>2
    <3>4. ASSUME NEW j \in 1..Size PROVE z[j] = IF j = 1 THEN e ELSE t[j - 1]
      <4>1. CASE j = 1
        BY <1>2, <1>3, <1>5, <3>3, <4>1
      <4>2. CASE j # 1
        <5>1. PICK h : h = j - 1
          OBVIOUS
        <5>2. h \in 1..Len(t) /\ j - (a + 1) = h - a /\ (j <= a + 1 <=> h <= a)
          BY <1>2, <3>3, <4>2, <5>1
        <5>3. z[j] = IF j <= a + 1 THEN more[j] ELSE o2[j - (a + 1)]
          BY <1>5, <3>3
        <5>4. j <= a + 1 => more[j] = own[h]
          BY <1>2, <1>3, <4>2, <5>1
        <5>5. t[h] = IF h <= a THEN own[h] ELSE o[h - a]
          BY <1>4, <5>2
        <5>6. ~(h <= a) => o2[h - a] = o[h - a]
          <6>1. ~(h <= a) => h - a \in 1..b2 /\ h - a < q
            BY <1>2, <3>1, <3>2, <3>3, <5>1, <5>2
          <6>2. QED
            BY <3>1, <6>1
        <5>7. z[j] = t[h]
          BY <5>2, <5>3, <5>4, <5>5, <5>6
        <5>8. QED
          BY <4>2, <5>1, <5>7
      <4>3. QED
        BY <4>1, <4>2
    <3>5. \A j \in 1..n :
            z[j] = IF j = 1 THEN e ELSE IF j <= i THEN t[j - 1] ELSE t[j]
      BY <2>1, <3>3, <3>4
    <3>6. n = Len(z)
      BY <2>1, <3>3
    <3> HIDE DEF r
    <3>7. QED
      BY <1>7, <1>9, <3>5, <3>6 DEF t, z, more
  <2>5. QED
    BY <2>3, <2>4
<1>11. CASE found # {}
  <2>1. i = first /\ n = Len(t) /\ i \in found
    BY <1>8, <1>11, FirstMatch
  <2>2. i \in 1..Len(t) /\ t[i] = e
    BY <2>1 DEF Match
  <2> HIDE DEF found, i, n, first
  <2>3. ~(i <= a) /\ o[i - a] = e /\ i - a \in 1..b
    <3>1. ~(i <= a)
      BY <1>2, <1>4, <1>6, <2>2
    <3>2. QED
      BY <1>2, <1>4, <2>2, <3>1
  <2>4. /\ b2 = b - 1
        /\ \A j \in 1..b2 : o2[j] = IF j < i - a THEN o[j] ELSE o[j + 1]
    <3>1. \E j \in 1..b : o[j] = e
      BY <2>3
    <3>2. PICK q \in 1..b : /\ \A j \in 1..b : o[j] = e => j = q
                            /\ b2 = b - 1
                            /\ \A j \in 1..b2 : o2[j] = IF j < q THEN o[j] ELSE o[j + 1]
      BY <1>1, <3>1 DEF Dropped, b, b2
    <3>3. i - a = q
      BY <2>3, <3>2
    <3>4. QED
      BY <3>2, <3>3
  <2>5. Len(z) = Len(t)
    BY <1>2, <1>4, <1>5, <2>4
  <2>6. ASSUME NEW j \in 1..Len(t)
        PROVE  z[j] = IF j = 1 THEN e ELSE IF j <= i THEN t[j - 1] ELSE t[j]
    <3>1. CASE j = 1
      BY <1>2, <1>3, <1>5, <2>5, <3>1
    <3>2. CASE j # 1 /\ j <= i
      <4>1. PICK h : h = j - 1
        OBVIOUS
      <4>2. h \in 1..Len(t) /\ j - (a + 1) = h - a /\ (j <= a + 1 <=> h <= a)
        BY <1>2, <1>8, <3>2, <4>1
      <4>3. z[j] = IF j <= a + 1 THEN more[j] ELSE o2[j - (a + 1)]
        BY <1>5, <2>5
      <4>4. j <= a + 1 => more[j] = own[h]
        BY <1>2, <1>3, <3>2, <4>1
      <4>5. t[h] = IF h <= a THEN own[h] ELSE o[h - a]
        BY <1>4, <4>2
      <4>6. ~(h <= a) => o2[h - a] = o[h - a]
        <5>1. ~(h <= a) => h - a \in 1..b2 /\ h - a < i - a
          BY <1>2, <1>8, <2>2, <2>3, <2>4, <3>2, <4>1, <4>2
        <5>2. QED
          BY <2>4, <5>1
      <4>7. z[j] = t[h]
        BY <4>2, <4>3, <4>4, <4>5, <4>6
      <4>8. QED
        BY <3>2, <4>1, <4>7
    <3>3. CASE j > i
      <4>1. PICK h : h = j - (a + 1)
        OBVIOUS
      <4>2. h + 1 = j - a /\ h \in 1..b2 /\ ~(h < i - a) /\ ~(j <= a + 1) /\ ~(j <= a)
        BY <1>2, <1>4, <2>2, <2>3, <2>4, <3>3, <4>1
      <4>3. z[j] = o2[h]
        BY <1>5, <2>5, <4>1, <4>2
      <4>4. o2[h] = o[j - a]
        BY <2>4, <4>2
      <4>5. t[j] = o[j - a]
        BY <1>4, <4>2
      <4>6. ~(j <= i) /\ j # 1
        BY <1>8, <2>2, <3>3
      <4>7. QED
        BY <4>3, <4>4, <4>5, <4>6
    <3>4. QED
      BY <1>8, <2>2, <3>1, <3>2, <3>3
  <2>7. QED
    BY <1>7, <1>9, <2>1, <2>5, <2>6 DEF t, z, more
<1>12. QED
  BY <1>10, <1>11 DEF t, z, more

\* While an instance merges, and no other has written the section since, its
\* copy is its entries from at on merged with the section.
MergedSoFar ==
    \A i \in Instance :
        pc[i] = "merging" /\ ~stale[i] /\ Sound(list[i]) /\ Sound(store) =>
        base[i] = Merged(SubSeq(list[i], at[i] + 1, Len(list[i])), store)

\* A step of an instance leaves the others alone; if it writes the section, what
\* they have read of it is stale.
LEMMA OthersAlone ==
    ASSUME IInv, NEW i \in Instance, Step(i), NEW j \in Instance, j # i
    PROVE  /\ pc'[j] = pc[j] /\ list'[j] = list[j] /\ base'[j] = base[j] /\ at'[j] = at[j]
           /\ pc[j] = "merging" /\ ~stale'[j] => ~stale[j] /\ store' = store
<1>1. /\ pc \in [Instance -> {"off", "open", "removing", "merging"}]
      /\ list \in [Instance -> Lists] /\ base \in [Instance -> Lists]
      /\ at \in [Instance -> 0..Size] /\ stale \in [Instance -> BOOLEAN]
  BY DEF IInv, TypeOK
<1>2. ASSUME NEW s, NEW tainted, Save(i, s, tainted)
      PROVE  pc[j] = "merging" /\ ~stale'[j] => ~stale[j] /\ store' = store
  BY <1>1, <1>2 DEF Save
<1>3. CASE Start(i)
  BY <1>1, <1>3 DEF Start
<1>4. CASE AddItem(i)
  <2>1. PICK s : list' = [list EXCEPT ![i] = s]
    BY <1>4 DEF AddItem
  <2>2. QED
    BY <1>1, <1>4, <2>1 DEF AddItem
<1>5. CASE RemoveItem(i)
  <2>1. PICK s : list' = [list EXCEPT ![i] = s]
    BY <1>5 DEF RemoveItem
  <2>2. QED
    BY <1>1, <1>5, <2>1 DEF RemoveItem, LoadBase
<1>6. CASE RemoveFromBase(i)
  <2>1. PICK s : base' = [base EXCEPT ![i] = s]
    BY <1>6 DEF RemoveFromBase
  <2>2. QED
    BY <1>1, <1>6, <2>1 DEF RemoveFromBase
<1>7. CASE SaveRemoval(i)
  BY <1>1, <1>2, <1>7 DEF SaveRemoval, DropBase
<1>8. CASE CloseEmptying(i)
  BY <1>1, <1>2, <1>8 DEF CloseEmptying, End, DropBase
<1>9. CASE Close(i)
  BY <1>1, <1>9 DEF Close, LoadBase
<1>10. CASE MergeItem(i)
  <2>1. PICK s : base' = [base EXCEPT ![i] = s]
    BY <1>10 DEF MergeItem
  <2>2. QED
    BY <1>1, <1>10, <2>1 DEF MergeItem
<1>11. CASE SaveMerged(i)
  BY <1>1, <1>2, <1>11 DEF SaveMerged, End, DropBase
<1>12. CASE Quit(i)
  BY <1>1, <1>12 DEF Quit, End, DropBase
<1>13. QED
  BY <1>3, <1>4, <1>5, <1>6, <1>7, <1>8, <1>9, <1>10, <1>11, <1>12 DEF Step

\* An entry alone in front of the rest.
LEMMA FromEntry ==
    ASSUME NEW s \in Seq(Entry), NEW k \in 1..Len(s)
    PROVE  LET rest == SubSeq(s, k + 1, Len(s))
           IN  /\ rest \in Seq(Entry) /\ Len(rest) = Len(s) - k
               /\ \A j \in 1..Len(rest) : rest[j] = s[k + j]
               /\ SubSeq(s, k, Len(s)) = <<s[k]>> \o rest
<1> DEFINE n == Len(s)
           rest == SubSeq(s, k + 1, n)
           whole == SubSeq(s, k, n)
           e == <<s[k]>>
<1>1. n \in Nat /\ k \in Nat /\ k >= 1 /\ k <= n /\ \A j \in 1..n : s[j] \in Entry
  BY LenProperties, ElementOfSeq
<1> HIDE DEF n
<1>2. rest \in Seq(Entry) /\ Len(rest) = n - k /\ \A j \in 1..n - k : rest[j] = s[k + j]
  <2>1. PICK m : m = k + 1
    OBVIOUS
  <2>2. m \in Nat /\ \A j \in m..n : s[j] \in Entry
    BY <1>1, <2>1
  <2>3. /\ SubSeq(s, m, n) \in Seq(Entry)
        /\ Len(SubSeq(s, m, n)) = IF m <= n THEN n - m + 1 ELSE 0
        /\ \A j \in 1..n - m + 1 : SubSeq(s, m, n)[j] = s[m + j - 1]
    BY <1>1, <2>2, SubSeqProperties
  <2>4. (IF m <= n THEN n - m + 1 ELSE 0) = n - k /\ n - m + 1 = n - k
    BY <1>1, <2>1
  <2>5. \A j \in 1..n - k : m + j - 1 = k + j
    BY <1>1, <2>1
  <2>6. QED
    BY <2>1, <2>3, <2>4, <2>5
<1>3. whole \in Seq(Entry) /\ Len(whole) = n - k + 1 /\ \A j \in 1..n - k + 1 : whole[j] = s[k + j - 1]
  <2>1. \A j \in k..n : s[j] \in Entry
    BY <1>1
  <2>2. QED
    BY <1>1, <2>1, SubSeqProperties
<1> HIDE DEF rest, whole
<1>4. /\ e \o rest \in Seq(Entry) /\ Len(e \o rest) = n - k + 1
      /\ \A j \in 1..n - k + 1 : (e \o rest)[j] = IF j <= 1 THEN s[k] ELSE rest[j - 1]
  <2>1. e \in Seq(Entry) /\ Len(e) = 1 /\ e[1] = s[k]
    BY <1>1
  <2> HIDE DEF e
  <2>2. /\ e \o rest \in Seq(Entry) /\ Len(e \o rest) = Len(e) + Len(rest)
        /\ \A j \in 1..Len(e) + Len(rest) :
             (e \o rest)[j] = IF j <= Len(e) THEN e[j] ELSE rest[j - Len(e)]
    BY <1>2, <2>1, ConcatProperties
  <2>3. Len(e) + Len(rest) = n - k + 1
    BY <1>1, <1>2, <2>1
  <2>4. ASSUME NEW j \in 1..n - k + 1
        PROVE  (e \o rest)[j] = IF j <= 1 THEN s[k] ELSE rest[j - 1]
    <3>1. j <= 1 => j = 1
      BY <1>1
    <3>2. QED
      BY <2>1, <2>2, <2>3, <3>1
  <2>5. QED
    BY <2>2, <2>3, <2>4
<1> HIDE DEF e
<1>5. ASSUME NEW j \in 1..n - k + 1
      PROVE  whole[j] = (e \o rest)[j]
  <2>1. CASE j = 1
    <3>1. whole[j] = s[k + j - 1] /\ k + j - 1 = k
      BY <1>1, <1>3, <2>1
    <3>2. QED
      BY <1>4, <2>1, <3>1
  <2>2. CASE j # 1
    <3>1. j - 1 \in 1..n - k /\ k + (j - 1) = k + j - 1 /\ ~(j <= 1)
      BY <1>1, <2>2
    <3>2. QED
      BY <1>2, <1>3, <1>4, <3>1
  <2>3. QED
    BY <2>1, <2>2
<1>6. whole = e \o rest
  BY <1>3, <1>4, <1>5, SeqEqual
<1>7. QED
  BY <1>2, <1>6 DEF whole, rest, e, n

\* Closing and merging an entry keep it.
LEMMA MergedStep ==
    ASSUME IInv, IInv', MergedSoFar, NEW i \in Instance, Step(i)
    PROVE  MergedSoFar'
<1>1. /\ pc \in [Instance -> {"off", "open", "removing", "merging"}]
      /\ list \in [Instance -> Lists] /\ base \in [Instance -> Lists]
      /\ at \in [Instance -> 0..Size] /\ stale \in [Instance -> BOOLEAN]
      /\ store \in Lists
  BY ItemList DEF IInv, TypeOK
<1>2. ASSUME NEW j \in Instance, j # i,
             pc'[j] = "merging", ~stale'[j], Sound(list'[j]), Sound(store')
      PROVE  base'[j] = Merged(SubSeq(list'[j], at'[j] + 1, Len(list'[j])), store')
  <2>1. /\ pc'[j] = pc[j] /\ list'[j] = list[j] /\ base'[j] = base[j] /\ at'[j] = at[j]
        /\ pc[j] = "merging" /\ ~stale'[j] => ~stale[j] /\ store' = store
    BY <1>2, OthersAlone
  <2>2. base[j] = Merged(SubSeq(list[j], at[j] + 1, Len(list[j])), store)
    BY <1>2, <2>1 DEF MergedSoFar
  <2>3. QED
    BY <1>2, <2>1, <2>2
<1>3. ASSUME pc'[i] = "merging", ~stale'[i], Sound(list'[i]), Sound(store')
      PROVE  base'[i] = Merged(SubSeq(list'[i], at'[i] + 1, Len(list'[i])), store')
  <2> DEFINE s == list[i]
  <2>0. s \in Seq(Entry) /\ Len(s) \in Nat /\ Len(s) <= Size /\ store \in Seq(Entry)
    BY <1>1, ListType
  <2>1. Close(i) \/ MergeItem(i)
    <3>1. CASE pc[i] # "merging"
      BY <1>1, <1>3, <3>1 DEF Step, Start, AddItem, RemoveItem, RemoveFromBase, SaveRemoval,
                              CloseEmptying, MergeItem, SaveMerged, Quit, End
    <3>2. CASE pc[i] = "merging"
      BY <1>1, <1>3, <3>2 DEF Step, Start, AddItem, RemoveItem, RemoveFromBase, SaveRemoval,
                              CloseEmptying, Close, SaveMerged, Quit, End
    <3>3. QED
      BY <3>1, <3>2
  <2>2. CASE Close(i)
    <3>1. base'[i] = store /\ store' = store /\ list' = list /\ at'[i] = Len(s)
      BY <1>1, <2>2 DEF Close, LoadBase
    <3>2. SubSeq(s, Len(s) + 1, Len(s)) = <<>>
      BY <2>0, SubSeqEmpty
    <3>3. Merged(<<>>, store) = store
      <4> DEFINE t == Merged(<<>>, store)
      <4>1. OthersOf(<<>>, store) = store
        BY <2>0, OthersAll
      <4>2. <<>> \in Seq(Entry) /\ Len(<<>>) = 0 /\ Len(store) \in Nat /\ Len(store) <= Size
        BY <1>1, ListType
      <4>3. PICK n : n = Len(<<>>) + Len(store)
        OBVIOUS
      <4>4. /\ t \in Seq(Entry)
            /\ Len(t) = IF n < Size THEN n ELSE Size
            /\ \A j \in 1..Len(t) : t[j] = IF j <= Len(<<>>) THEN <<>>[j] ELSE store[j - Len(<<>>)]
        BY <2>0, <4>1, <4>2, <4>3, MergedAt
      <4> HIDE DEF t
      <4>5. Len(t) = Len(store)
        BY <4>2, <4>3, <4>4, MruAssumption
      <4>6. \A j \in 1..Len(t) : t[j] = store[j]
        <5> SUFFICES ASSUME NEW j \in 1..Len(t) PROVE t[j] = store[j]
          OBVIOUS
        <5>1. ~(j <= Len(<<>>)) /\ j - Len(<<>>) = j
          BY <4>2, <4>5
        <5>2. QED
          BY <4>4, <5>1
      <4>7. QED
        BY <2>0, <4>4, <4>5, <4>6, SeqEqual DEF t
    <3>4. QED
      BY <3>1, <3>2, <3>3
  <2>3. CASE MergeItem(i)
    <3> DEFINE k == at[i]
               e == s[k]
               rest == SubSeq(s, k + 1, Len(s))
    <3>1. /\ pc[i] = "merging" /\ ~stale[i] /\ list' = list /\ store' = store
          /\ at'[i] = k - 1
      BY <1>1, <1>3, <2>3 DEF MergeItem
    <3>2. k \in 1..Len(s)
      BY <1>1, <2>3 DEF MergeItem, IInv, Bounded
    <3>3. base[i] = Merged(rest, store)
      BY <1>3, <3>1 DEF MergedSoFar
    <3>4. /\ rest \in Seq(Entry) /\ Len(rest) = Len(s) - k
          /\ \A j \in 1..Len(rest) : rest[j] = s[k + j]
          /\ SubSeq(s, k, Len(s)) = <<e>> \o rest
      BY <2>0, <3>2, FromEntry
    <3>5. e \in Item
      <4>1. e \in Entry
        BY <2>0, <3>2, ElementOfSeq
      <4>2. e # Freed
        BY <1>3, <3>1, <3>2 DEF Sound, Match
      <4>3. QED
        BY <4>1, <4>2 DEF Entry
    <3>13. base'[i] = AddFirst(base[i], e)
      <4>1. Match(base[i], Freed) = {} /\ base[i] \in Lists
        BY <1>1, <3>1 DEF IInv, MergesUnfreed
      <4>2. e # Freed /\ Reads(e) = {e}
        BY <3>5, MruAssumption DEF Reads
      <4>3. PICK f \in Reads(s[k]) : \E t \in MRU_Add(base[i], f) : base' = [base EXCEPT ![i] = t]
        BY <2>3 DEF MergeItem
      <4>4. f = e
        BY <4>2, <4>3
      <4>5. PICK t \in MRU_Add(base[i], e) : base' = [base EXCEPT ![i] = t]
        BY <4>3, <4>4
      <4>6. base'[i] = t
        BY <1>1, <4>5
      <4>7. QED
        BY <4>1, <4>2, <4>5, <4>6, AddsFirst
    <3> HIDE DEF rest
    <3>6. Match(rest, e) = {}
      <4> SUFFICES ASSUME NEW j \in 1..Len(rest), rest[j] = e PROVE FALSE
        BY DEF Match
      <4> DEFINE n == Len(s)
      <4>1. PICK h : h = k + j
        OBVIOUS
      <4>2. s[h] = e
        BY <3>4, <4>1
      <4>3. n \in Nat /\ k \in 1..n /\ j \in 1..n - k
        BY <2>0, <3>2, <3>4
      <4> HIDE DEF n, s, k
      <4>4. h \in 1..n /\ h # k
        BY <4>1, <4>3
      <4>5. h \in Match(s, e) /\ k \in Match(s, e)
        BY <4>2, <4>3, <4>4 DEF Match, n, e
      <4>6. QED
        BY <1>3, <3>1, <3>5, <4>4, <4>5 DEF Sound, Once, s
    <3>7. Len(rest) < Size
      BY <2>0, <3>2, <3>4, MruAssumption
    <3>8. \A j, m \in 1..Len(store) : store[j] = e /\ store[m] = e => j = m
      BY <1>3, <3>1, <3>5 DEF Sound, Once, Match
    <3>9. e \in Entry
      BY <3>5 DEF Entry
    <3> HIDE DEF e
    <3>10. AddFirst(Merged(rest, store), e) = Merged(<<e>> \o rest, store)
      BY <2>0, <3>4, <3>6, <3>7, <3>8, <3>9, MergeGoesOn
    <3>11. at'[i] + 1 = k
      BY <2>0, <3>1, <3>2
    <3>12. QED
      BY <3>1, <3>3, <3>4, <3>13, <3>10, <3>11
  <2>4. QED
    BY <2>1, <2>2, <2>3
<1>4. QED
  BY <1>2, <1>3 DEF MergedSoFar, Sound, Match

\* An instance that closes leaves its own entries first in the section, then
\* those already there, unless another instance wrote it in between: for any
\* number of instances and any capacity.
THEOREM MergesInOrder == Spec => MergedInOrder
<1>1. Init => MergedSoFar
  BY DEF Init, MergedSoFar
<1>2. IInv /\ IInv' /\ MergedSoFar /\ [Next]_vars => MergedSoFar'
  <2> SUFFICES ASSUME IInv, IInv', MergedSoFar, [Next]_vars PROVE MergedSoFar'
    OBVIOUS
  <2>1. CASE Next
    BY <2>1, MergedStep DEF Next
  <2>2. CASE UNCHANGED vars
    BY <2>2 DEF vars, MergedSoFar
  <2>3. QED
    BY <2>1, <2>2
<1>3. IInv /\ MergedSoFar /\ [Next]_vars =>
        [\A i \in Instance :
            MergeSaved(i) /\ ~stale[i] /\ Sound(list[i]) /\ Sound(store)
            => store' = Merged(list[i], store)]_vars
  <2> SUFFICES ASSUME IInv, MergedSoFar, Next,
                      NEW i \in Instance, MergeSaved(i), ~stale[i],
                      Sound(list[i]), Sound(store)
               PROVE  store' = Merged(list[i], store)
    BY DEF vars
  <2>1. PICK j \in Instance : Step(j)
    BY DEF Next
  <2>2. pc[i] = "merging" /\ at[i] = 0 /\ pc'[i] = "off" /\ store' # store
    BY DEF MergeSaved
  <2>3. j = i
    <3> SUFFICES ASSUME j # i PROVE FALSE
      OBVIOUS
    <3>1. pc'[i] = pc[i]
      BY <2>1, OthersAlone
    <3>2. QED
      BY <2>2, <3>1
  <2>4. store' = base[i]
    <3>1. SaveMerged(i)
      BY <2>1, <2>2, <2>3 DEF Step, Start, AddItem, RemoveItem, RemoveFromBase, SaveRemoval,
           CloseEmptying, Close, MergeItem, Quit, End
    <3>2. base[i] \in Lists /\ Match(base[i], Freed) = {}
      BY <2>2 DEF IInv, TypeOK, MergesUnfreed
    <3>3. Len(base[i]) \in Nat /\ base[i] \in [1..Len(base[i]) -> Entry]
      BY <3>2, ListType
    <3>4. PICK t \in [1..Len(base[i]) -> Item] :
            store' = t /\ \A k \in 1..Len(base[i]) : t[k] \in Reads(base[i][k])
      BY <2>2, <3>1 DEF SaveMerged, Save
    <3>5. \A k \in 1..Len(base[i]) : t[k] = base[i][k]
      BY <3>2, <3>4 DEF Reads, Match
    <3>6. t = base[i]
      BY <3>3, <3>4, <3>5
    <3>7. QED
      BY <3>4, <3>6
  <2>5. base[i] = Merged(SubSeq(list[i], 1, Len(list[i])), store)
    <3>1. base[i] = Merged(SubSeq(list[i], at[i] + 1, Len(list[i])), store)
      BY <2>2 DEF MergedSoFar
    <3>2. at[i] + 1 = 1
      BY <2>2
    <3>3. QED
      BY <3>1, <3>2
  <2>6. SubSeq(list[i], 1, Len(list[i])) = list[i]
    <3>1. list[i] \in Seq(Entry)
      BY ListType DEF IInv, TypeOK
    <3>2. QED
      BY <3>1, SubSeqFull
  <2>7. QED
    BY <2>4, <2>5, <2>6
<1>4. QED
  BY <1>1, <1>2, <1>3, MruInductive, PTL DEF Spec, MergedInOrder
=============================================================================
