-------------------------- MODULE EditCommandsProofs --------------------------
(***************************************************************************)
(* No command cuts a line end in two.  Whatever the texts, the selections  *)
(* and the widths, each of them puts together parts of the text that begin *)
(* and end at places that split no line end, blanks, line ends of the form *)
(* of the file, and strings without any: so the line ends keep one form    *)
(* and the selection stays where it may be.  Wrap makes no line longer     *)
(* than the column.  Replace All always has less to do after a replacement *)
(* than before it, and has replaced every occurrence when it ends.         *)
(***************************************************************************)
EXTENDS EditCommands, FiniteSetTheorems, FunctionTheorems, SequenceTheorems,
        WellFoundedInduction, TLAPS

-----------------------------------------------------------------------------
(* Loops. *)

\* A set of numbers has a least one.
LEMMA LeastOf ==
    ASSUME NEW S \in SUBSET Nat, S # {}
    PROVE  \E m \in S : \A k \in S : m <= k
<1> DEFINE less == OpToRel(<, Nat)
<1>1. \A j, k \in Nat : <<j, k>> \in less <=> j < k
  BY DEF OpToRel
<1>2. IsWellFoundedOn(less, Nat)
  BY NatLessThanWellFounded
<1> HIDE DEF less
<1>3. PICK m \in S : \A k \in S : ~(<<k, m>> \in less)
  BY <1>2, WFMin
<1>4. \A k \in S : m <= k
  <2>1. \A k \in S : k \in Nat /\ m \in Nat
    OBVIOUS
  <2>2. \A k \in S : ~(k < m)
    BY <1>1, <1>3, <2>1
  <2>3. QED
    BY <2>1, <2>2
<1>5. QED
  BY <1>4

\* What holds at first and is kept by every round holds after the last.
LEMMA LoopKeeps ==
    ASSUME NEW n \in Nat, NEW T, NEW f, f[0] \in T[0],
           \A i \in 1..n : f[i - 1] \in T[i - 1] => f[i] \in T[i]
    PROVE  \A i \in 0..n : f[i] \in T[i]
<1> DEFINE Wrong == {i \in 0..n : f[i] \notin T[i]}
<1>1. ASSUME Wrong # {} PROVE FALSE
  <2>1. PICK i \in Wrong : \A k \in Wrong : i <= k
    <3>1. Wrong \in SUBSET Nat
      OBVIOUS
    <3> HIDE DEF Wrong
    <3>2. QED
      BY <1>1, <3>1, LeastOf
  <2>2. i \in 0..n /\ f[i] \notin T[i]
    OBVIOUS
  <2>3. i # 0
    BY <2>2
  <2>4. i \in 1..n /\ i - 1 \in 0..n /\ ~(i <= i - 1)
    BY <2>2, <2>3
  <2>5. f[i - 1] \in T[i - 1]
    BY <2>1, <2>4
  <2>6. QED
    BY <2>2, <2>4, <2>5
<1>2. QED
  BY <1>1

\* The results of the rounds of a loop: it begins with init, and round i makes
\* g[i][x] of x.
Rounds(n, init, g, f) == [i \in 0..n |-> IF i = 0 THEN init ELSE g[i][f[i - 1]]]

\* A loop whose rounds lead from set to set has a result in the last of them.
LEMMA LoopRuns ==
    ASSUME NEW n \in Nat, NEW T, NEW g, NEW init, init \in T[0],
           \A i \in 1..n : \A x \in T[i - 1] : g[i][x] \in T[i]
    PROVE  \E f : f = Rounds(n, init, g, f) /\ \A i \in 0..n : f[i] \in T[i]
<1> DEFINE Round(f, i) == IF i = 0 THEN init ELSE g[i][f[i - 1]]
           Upto(f, m) == [i \in 0..m |-> Round(f, i)]
           Wrong == {m \in 0..n : ~\E f : f = Upto(f, m)}
<1>1. ASSUME Wrong # {} PROVE FALSE
  <2>1. PICK m \in Wrong : \A k \in Wrong : m <= k
    <3>1. Wrong \in SUBSET Nat
      OBVIOUS
    <3> HIDE DEF Wrong
    <3>2. QED
      BY <1>1, <3>1, LeastOf
  <2>2. m \in 0..n /\ \A f : f # Upto(f, m)
    OBVIOUS
  <2>3. CASE m = 0
    <3> DEFINE f == [i \in 0..0 |-> init]
    <3>1. f = Upto(f, m)
      BY <2>3
    <3>2. QED
      BY <2>2, <3>1
  <2>4. CASE m # 0
    <3>1. m - 1 \in 0..n /\ ~(m <= m - 1) /\ m \in Nat
      BY <2>2, <2>4
    <3>2. m - 1 \notin Wrong
      BY <2>1, <3>1
    <3>3. PICK f : f = Upto(f, m - 1)
      BY <3>1, <3>2
    <3> DEFINE h == [i \in 0..m |-> Round(f, i)]
    <3>4. ASSUME NEW i \in 0..m PROVE Round(h, i) = Round(f, i)
      <4>1. CASE i = 0
        BY <4>1
      <4>2. CASE i # 0
        <5>1. i - 1 \in 0..(m - 1) /\ i - 1 \in 0..m
          BY <3>1, <4>2
        <5>2. h[i - 1] = Round(f, i - 1)
          BY <5>1
        <5>3. f[i - 1] = Round(f, i - 1)
          <6> HIDE DEF Round, h
          <6>1. QED
            BY <3>3, <5>1
        <5> HIDE DEF h
        <5>4. QED
          BY <4>2, <5>2, <5>3
      <4>3. QED
        BY <4>1, <4>2
    <3>5. h = Upto(h, m)
      <4> HIDE DEF Round
      <4>1. h = [i \in 0..m |-> Round(f, i)]
        OBVIOUS
      <4> HIDE DEF h
      <4>2. QED
        BY <3>4, <4>1
    <3>6. QED
      BY <2>2, <3>5
  <2>5. QED
    BY <2>3, <2>4
<1>2. PICK f : f = Upto(f, n)
  <2>1. n \in 0..n
    OBVIOUS
  <2>2. QED
    BY <1>1, <2>1
<1>3. \A i \in 0..n : f[i] = Round(f, i)
  <2> HIDE DEF Round
  <2>1. QED
    BY <1>2
<1>4. f[0] \in T[0]
  BY <1>3
<1>5. \A i \in 1..n : f[i - 1] \in T[i - 1] => f[i] \in T[i]
  <2> SUFFICES ASSUME NEW i \in 1..n, f[i - 1] \in T[i - 1] PROVE f[i] \in T[i]
    OBVIOUS
  <2>1. i \in 0..n /\ i # 0
    OBVIOUS
  <2>2. f[i] = g[i][f[i - 1]]
    BY <1>3, <2>1
  <2>3. QED
    BY <2>2
<1>6. \A i \in 0..n : f[i] \in T[i]
  BY <1>4, <1>5, LoopKeeps
<1>7. f = Rounds(n, init, g, f)
  BY <1>2 DEF Rounds
<1>8. QED
  BY <1>6, <1>7

-----------------------------------------------------------------------------
(* Texts whose line ends all have one form. *)

\* Characters, and texts of them.
Char == Nat \ {0}
Text == Seq(Char)

\* Every CR is followed by an LF and every LF preceded by a CR.
Paired(t) ==
    \A p \in 1..Len(t) :
        /\ t[p] = LF => p > 1 /\ t[p - 1] = CR
        /\ t[p] = CR => p < Len(t) /\ t[p + 1] = LF

\* The character c is not in t.
Lacks(t, c) == \A p \in 1..Len(t) : t[p] # c

\* The text t has the line ends of mode.
Good(mode, t) ==
    /\ t \in Text
    /\ mode = <<CR, LF>> => Paired(t)
    /\ mode = <<LF>> => Lacks(t, CR)
    /\ mode = <<CR>> => Lacks(t, LF)

\* Three forms of line ends.
LEMMA Forms ==
    ASSUME NEW mode \in EOLModes
    PROVE  mode = <<CR, LF>> \/ mode = <<LF>> \/ mode = <<CR>>
  BY EditCommandsAssumption

\* The characters of a text.
LEMMA TextIs ==
    ASSUME NEW t \in Text
    PROVE  Len(t) \in Nat /\ \A i \in 1..Len(t) : t[i] \in Char
  BY LenProperties, ElementOfSeq DEF Text

\* The characters of a part of a text.
LEMMA RangeIs ==
    ASSUME NEW t \in Text, NEW p \in 0..Len(t), NEW q \in 0..Len(t), p <= q
    PROVE  LET r == TextRange(t, p, q)
           IN  /\ r \in Text /\ Len(r) = q - p
               /\ \A i \in 1..q - p : r[i] = t[p + i]
<1> DEFINE r == SubSeq(t, p + 1, q)
<1>1. Len(t) \in Nat /\ \A i \in 1..Len(t) : t[i] \in Char
  BY TextIs
<1>2. PICK m : m = p + 1
  OBVIOUS
<1>3. m \in Int /\ q \in Int /\ \A i \in m..q : t[i] \in Char
  BY <1>1, <1>2
<1>4. /\ SubSeq(t, m, q) \in Seq(Char)
      /\ Len(SubSeq(t, m, q)) = IF m <= q THEN q - m + 1 ELSE 0
      /\ \A i \in 1..q - m + 1 : SubSeq(t, m, q)[i] = t[m + i - 1]
  BY <1>3, SubSeqProperties
<1>5. (IF m <= q THEN q - m + 1 ELSE 0) = q - p /\ q - m + 1 = q - p
  BY <1>1, <1>2
<1>6. \A i \in 1..q - p : m + i - 1 = p + i
  BY <1>1, <1>2
<1>7. QED
  BY <1>2, <1>4, <1>5, <1>6 DEF TextRange, Text

\* The characters of two texts put together.
LEMMA ConcatIs ==
    ASSUME NEW a \in Text, NEW b \in Text
    PROVE  /\ a \o b \in Text /\ Len(a \o b) = Len(a) + Len(b)
           /\ \A i \in 1..Len(a) : (a \o b)[i] = a[i]
           /\ \A i \in 1..Len(b) : (a \o b)[Len(a) + i] = b[i]
<1>1. /\ a \o b \in Text /\ Len(a \o b) = Len(a) + Len(b)
      /\ \A i \in 1..Len(a) + Len(b) : (a \o b)[i] = IF i <= Len(a) THEN a[i] ELSE b[i - Len(a)]
  BY ConcatProperties DEF Text
<1>2. Len(a) \in Nat /\ Len(b) \in Nat
  BY TextIs
<1>3. ASSUME NEW i \in 1..Len(a) PROVE (a \o b)[i] = a[i]
  BY <1>1, <1>2
<1>4. ASSUME NEW i \in 1..Len(b) PROVE (a \o b)[Len(a) + i] = b[i]
  <2>1. PICK k : k = Len(a) + i
    OBVIOUS
  <2>2. k \in 1..Len(a) + Len(b) /\ ~(k <= Len(a)) /\ k - Len(a) = i
    BY <1>2, <2>1
  <2>3. QED
    BY <1>1, <2>1, <2>2
<1>5. QED
  BY <1>1, <1>3, <1>4

\* Texts with the same characters are the same.
LEMMA SameText ==
    ASSUME NEW a \in Text, NEW b \in Text, Len(a) = Len(b), \A i \in 1..Len(a) : a[i] = b[i]
    PROVE  a = b
  BY SeqEqual DEF Text

\* A part between two places that split no line end has the line ends of the text.
LEMMA RangeGood ==
    ASSUME NEW mode, NEW t, Good(mode, t), NEW p, NEW q, Valid(t, p), Valid(t, q), p <= q
    PROVE  LET r == TextRange(t, p, q)
           IN  /\ Good(mode, r) /\ Len(r) = q - p
               /\ \A i \in 1..q - p : r[i] = t[p + i]
<1> DEFINE r == TextRange(t, p, q)
           m == q - p
<1>1. t \in Text /\ p \in 0..Len(t) /\ q \in 0..Len(t)
  BY DEF Good, Valid
<1>2. Len(t) \in Nat
  BY <1>1, TextIs
<1>3. r \in Text /\ Len(r) = m /\ \A i \in 1..m : r[i] = t[p + i]
  BY <1>1, RangeIs
<1>4. m \in Nat /\ p \in Nat /\ \A i \in 1..m : p + i \in 1..Len(t)
  BY <1>1, <1>2
<1> HIDE DEF r
<1>5. ASSUME NEW c, Lacks(t, c) PROVE Lacks(r, c)
  BY <1>3, <1>4, <1>5 DEF Lacks
<1>6. ASSUME Paired(t) PROVE Paired(r)
  <2> SUFFICES ASSUME NEW i \in 1..m
               PROVE  /\ r[i] = LF => i > 1 /\ r[i - 1] = CR
                      /\ r[i] = CR => i < m /\ r[i + 1] = LF
    BY <1>3 DEF Paired
  <2>1. PICK k : k = p + i
    OBVIOUS
  <2>2. k \in 1..Len(t) /\ r[i] = t[k]
    BY <1>3, <1>4, <2>1
  <2>3. /\ t[k] = LF => k > 1 /\ t[k - 1] = CR
        /\ t[k] = CR => k < Len(t) /\ t[k + 1] = LF
    BY <1>6, <2>2 DEF Paired
  <2>4. ASSUME r[i] = LF PROVE i > 1 /\ r[i - 1] = CR
    <3>1. CASE i = 1
      <4>1. k = p + 1 /\ k - 1 = p /\ p \in 1..Len(t) - 1
        BY <1>1, <1>2, <1>4, <2>1, <2>2, <2>3, <2>4, <3>1
      <4>2. t[p] = CR /\ t[p + 1] = LF
        BY <2>2, <2>3, <2>4, <4>1
      <4>3. QED
        BY <4>1, <4>2 DEF Valid
    <3>2. CASE i # 1
      <4>1. i - 1 \in 1..m /\ p + (i - 1) = k - 1
        BY <1>4, <2>1, <3>2
      <4>2. r[i - 1] = t[k - 1]
        BY <1>3, <4>1
      <4>3. QED
        BY <2>2, <2>3, <2>4, <3>2, <4>2
    <3>3. QED
      BY <3>1, <3>2
  <2>5. ASSUME r[i] = CR PROVE i < m /\ r[i + 1] = LF
    <3>1. CASE i = m
      <4>1. k = q /\ q \in 1..Len(t) - 1
        BY <1>1, <1>2, <2>1, <2>2, <2>3, <2>5, <3>1
      <4>2. t[q] = CR /\ t[q + 1] = LF
        BY <2>2, <2>3, <2>5, <4>1
      <4>3. QED
        BY <4>1, <4>2 DEF Valid
    <3>2. CASE i # m
      <4>1. i + 1 \in 1..m /\ p + (i + 1) = k + 1 /\ i < m
        BY <1>4, <2>1, <3>2
      <4>2. r[i + 1] = t[k + 1]
        BY <1>3, <4>1
      <4>3. QED
        BY <2>2, <2>3, <2>5, <4>1, <4>2
    <3>3. QED
      BY <3>1, <3>2
  <2>6. QED
    BY <2>4, <2>5
<1>7. QED
  BY <1>3, <1>5, <1>6 DEF Good, r

\* Put together, two texts keep their line ends and the places that split none.
LEMMA ConcatGood ==
    ASSUME NEW mode \in EOLModes, NEW a, NEW b, Good(mode, a), Good(mode, b)
    PROVE  /\ Good(mode, a \o b)
           /\ \A p : Valid(a, p) => Valid(a \o b, p)
           /\ \A p : Valid(b, p) => Valid(a \o b, Len(a) + p)
<1> DEFINE t == a \o b
           m == Len(a)
           n == Len(b)
<1>1. a \in Text /\ b \in Text
  BY DEF Good
<1>2. /\ t \in Text /\ Len(t) = m + n
      /\ \A i \in 1..m : t[i] = a[i]
      /\ \A i \in 1..n : t[m + i] = b[i]
  BY <1>1, ConcatIs
<1>3. m \in Nat /\ n \in Nat
  BY <1>1, TextIs
<1>4. \A k \in 1..m + n : k \in 1..m \/ (k - m \in 1..n /\ m + (k - m) = k)
  BY <1>3
<1> HIDE DEF t, m, n
<1>5. ASSUME NEW c, Lacks(a, c), Lacks(b, c) PROVE Lacks(t, c)
  <2> SUFFICES ASSUME NEW k \in 1..m + n PROVE t[k] # c
    BY <1>2 DEF Lacks
  <2>1. CASE k \in 1..m
    BY <1>2, <1>5, <2>1 DEF Lacks, m
  <2>2. CASE k - m \in 1..n /\ m + (k - m) = k
    <3>1. t[k] = b[k - m]
      BY <1>2, <2>2
    <3>2. QED
      BY <1>5, <2>2, <3>1 DEF Lacks, n
  <2>3. QED
    BY <1>4, <2>1, <2>2
<1>6. ASSUME Paired(a), Paired(b) PROVE Paired(t)
  <2> SUFFICES ASSUME NEW k \in 1..m + n
               PROVE  /\ t[k] = LF => k > 1 /\ t[k - 1] = CR
                      /\ t[k] = CR => k < m + n /\ t[k + 1] = LF
    BY <1>2 DEF Paired
  <2>1. CASE k \in 1..m
    <3>1. t[k] = a[k]
      BY <1>2, <2>1
    <3>2. /\ a[k] = LF => k > 1 /\ a[k - 1] = CR
          /\ a[k] = CR => k < m /\ a[k + 1] = LF
      BY <1>6, <2>1 DEF Paired, m
    <3>3. /\ k > 1 => k - 1 \in 1..m
          /\ k < m => k + 1 \in 1..m /\ k < m + n
      BY <1>3, <2>1
    <3>4. QED
      BY <1>2, <3>1, <3>2, <3>3
  <2>2. CASE k - m \in 1..n /\ m + (k - m) = k
    <3>1. PICK j : j = k - m
      OBVIOUS
    <3>2. t[k] = b[j]
      BY <1>2, <2>2, <3>1
    <3>3. /\ b[j] = LF => j > 1 /\ b[j - 1] = CR
          /\ b[j] = CR => j < n /\ b[j + 1] = LF
      BY <1>6, <2>2, <3>1 DEF Paired, n
    <3>4. /\ j > 1 => j - 1 \in 1..n /\ m + (j - 1) = k - 1 /\ k > 1
          /\ j < n => j + 1 \in 1..n /\ m + (j + 1) = k + 1 /\ k < m + n
      BY <1>3, <2>2, <3>1
    <3>5. /\ j > 1 => t[k - 1] = b[j - 1]
          /\ j < n => t[k + 1] = b[j + 1]
      BY <1>2, <3>4
    <3>6. QED
      BY <3>2, <3>3, <3>4, <3>5
  <2>3. QED
    BY <1>4, <2>1, <2>2
<1>7. Good(mode, t)
  BY <1>2, <1>5, <1>6 DEF Good
<1>8. ASSUME NEW p, Valid(a, p) PROVE Valid(t, p)
  <2>1. p \in 0..m /\ p \in 0..m + n
    BY <1>3, <1>8 DEF Valid, m
  <2>2. ASSUME p \in 1..m + n - 1, t[p] = CR, t[p + 1] = LF PROVE FALSE
    <3>1. p \in 1..m
      BY <2>1, <2>2, <1>3
    <3>2. a[p] = CR
      BY <1>2, <2>2, <3>1
    <3>3. CASE p < m
      <4>1. p + 1 \in 1..m /\ p \in 1..m - 1
        BY <1>3, <3>1, <3>3
      <4>2. a[p + 1] = LF
        BY <1>2, <2>2, <4>1
      <4>3. QED
        BY <1>8, <3>2, <4>1, <4>2 DEF Valid, m
    <3>4. CASE p = m
      <4>1. 1 \in 1..n /\ p + 1 = m + 1
        BY <1>3, <2>2, <3>4
      <4>2. b[1] = LF
        BY <1>2, <2>2, <4>1
      <4>3. ~Paired(a) /\ ~Lacks(a, CR) /\ ~Lacks(b, LF)
        BY <3>1, <3>2, <3>4, <4>1, <4>2 DEF Paired, Lacks, m, n
      <4>4. QED
        BY <4>3, Forms DEF Good
    <3>5. QED
      BY <1>3, <3>1, <3>3, <3>4
  <2>3. ~(p \in 1..m + n - 1 /\ t[p] = CR /\ t[p + 1] = LF)
    BY <2>2
  <2>4. Len(t) = m + n
    BY <1>2
  <2>5. QED
    BY <1>3, <2>1, <2>3, <2>4 DEF Valid
<1>9. ASSUME NEW p, Valid(b, p) PROVE Valid(t, m + p)
  <2>1. p \in 0..n /\ m + p \in 0..m + n
    BY <1>3, <1>9 DEF Valid, n
  <2>2. PICK k : k = m + p
    OBVIOUS
  <2>3. ASSUME k \in 1..m + n - 1, t[k] = CR, t[k + 1] = LF PROVE FALSE
    <3>1. CASE p = 0
      <4>1. k = m /\ k \in 1..m /\ 1 \in 1..n
        BY <1>3, <2>2, <2>3, <3>1
      <4>2. a[m] = CR
        BY <1>2, <2>3, <4>1
      <4>3. b[1] = LF
        BY <1>2, <2>3, <4>1
      <4>4. ~Paired(a) /\ ~Lacks(a, CR) /\ ~Lacks(b, LF)
        BY <4>1, <4>2, <4>3 DEF Paired, Lacks, m, n
      <4>5. QED
        BY <4>4, Forms DEF Good
    <3>2. CASE p # 0
      <4>1. p \in 1..n /\ p + 1 \in 1..n /\ p \in 1..n - 1 /\ k + 1 = m + (p + 1)
        BY <1>3, <2>1, <2>2, <2>3, <3>2
      <4>2. b[p] = CR /\ b[p + 1] = LF
        BY <1>2, <2>2, <2>3, <4>1
      <4>3. QED
        BY <1>9, <4>1, <4>2 DEF Valid, n
    <3>3. QED
      BY <3>1, <3>2
  <2>4. ~(k \in 1..m + n - 1 /\ t[k] = CR /\ t[k + 1] = LF)
    BY <2>3
  <2>5. Len(t) = m + n
    BY <1>2
  <2>6. QED
    BY <1>3, <2>1, <2>2, <2>4, <2>5 DEF Valid
<1>10. QED
  BY <1>7, <1>8, <1>9 DEF t, m

\* A string without line ends fits any form, and every place of it splits none.
LEMMA PlainGood ==
    ASSUME NEW mode, NEW s \in Plain
    PROVE  /\ Good(mode, s)
           /\ \A i \in 1..Len(s) : ~IsEnd(s[i])
           /\ \A p \in 0..Len(s) : Valid(s, p)
<1>1. Len(s) \in Nat /\ \A i \in 1..Len(s) : s[i] \in Nat \ {0, CR, LF}
  BY LenProperties, ElementOfSeq DEF Plain
<1>2. s \in Text
  BY SeqMonotonic DEF Plain, Text, Char
<1>3. \A i \in 1..Len(s) : s[i] # CR /\ s[i] # LF
  BY <1>1
<1>4. QED
  BY <1>1, <1>2, <1>3 DEF Good, Paired, Lacks, Valid, IsEnd

\* A line end of the form has the form.
LEMMA ModeGood ==
    ASSUME NEW mode \in EOLModes
    PROVE  /\ Good(mode, mode) /\ Len(mode) \in 1..2 /\ IsEnd(mode[1]) /\ IsEnd(mode[Len(mode)])
           /\ Valid(mode, 0) /\ Valid(mode, Len(mode))
<1>1. CASE mode = <<CR, LF>>
  <2>1. mode \in Text /\ Len(mode) = 2 /\ mode[1] = CR /\ mode[2] = LF
    BY <1>1 DEF Text, Char, CR, LF
  <2>2. <<CR, LF>> # <<LF>> /\ <<CR, LF>> # <<CR>>
    OBVIOUS
  <2>3. Paired(mode)
    BY <2>1 DEF Paired, CR, LF
  <2>4. QED
    BY <1>1, <2>1, <2>2, <2>3 DEF Good, Valid, IsEnd
<1>2. CASE mode = <<LF>>
  <2>1. mode \in Text /\ Len(mode) = 1 /\ mode[1] = LF
    BY <1>2 DEF Text, Char, LF
  <2>2. <<LF>> # <<CR, LF>> /\ <<LF>> # <<CR>>
    BY DEF CR, LF
  <2>3. Lacks(mode, CR)
    BY <2>1 DEF Lacks, CR, LF
  <2>4. QED
    BY <1>2, <2>1, <2>2, <2>3 DEF Good, Valid, IsEnd
<1>3. CASE mode = <<CR>>
  <2>1. mode \in Text /\ Len(mode) = 1 /\ mode[1] = CR
    BY <1>3 DEF Text, Char, CR
  <2>2. <<CR>> # <<CR, LF>> /\ <<CR>> # <<LF>>
    BY DEF CR, LF
  <2>3. Lacks(mode, LF)
    BY <2>1 DEF Lacks, CR, LF
  <2>4. QED
    BY <1>3, <2>1, <2>2, <2>3 DEF Good, Valid, IsEnd
<1>4. QED
  BY <1>1, <1>2, <1>3, Forms

\* A place that splits no line end of a text splits none of a part of it.
LEMMA RangeValid ==
    ASSUME NEW t \in Text, NEW p, NEW q, NEW x, Valid(t, p), Valid(t, q), Valid(t, x),
           p <= x, x <= q
    PROVE  Valid(TextRange(t, p, q), x - p)
<1>1. p \in 0..Len(t) /\ q \in 0..Len(t) /\ x \in 0..Len(t) /\ Len(t) \in Nat
  BY TextIs DEF Valid
<1>2. p <= q
  BY <1>1
<1> DEFINE r == TextRange(t, p, q)
<1>3. Len(r) = q - p /\ \A i \in 1..q - p : r[i] = t[p + i]
  BY <1>1, <1>2, RangeIs
<1> HIDE DEF r
<1>4. PICK y : y = x - p
  OBVIOUS
<1>5. y \in 0..q - p
  BY <1>1, <1>4
<1>6. ASSUME y \in 1..q - p - 1, r[y] = CR, r[y + 1] = LF PROVE FALSE
  <2>1. y \in 1..q - p /\ y + 1 \in 1..q - p /\ p + y = x /\ p + (y + 1) = x + 1
    BY <1>1, <1>4, <1>6
  <2>2. t[x] = CR /\ t[x + 1] = LF
    BY <1>3, <1>6, <2>1
  <2>3. x \in 1..Len(t) - 1
    BY <1>1, <1>4, <1>6
  <2>4. QED
    BY <2>2, <2>3 DEF Valid
<1>7. QED
  BY <1>1, <1>3, <1>4, <1>5, <1>6 DEF Valid, r

\* The ends of a text split no line end.
LEMMA EndsValid ==
    ASSUME NEW t \in Text
    PROVE  Valid(t, 0) /\ Valid(t, Len(t))
<1>1. Len(t) \in Nat
  BY TextIs
<1>2. QED
  BY <1>1 DEF Valid

\* A replacement: its characters, its line ends and its places.
LEMMA ReplacedIs ==
    ASSUME NEW mode \in EOLModes, NEW t, Good(mode, t), NEW s, Good(mode, s),
           NEW from, NEW to, Valid(t, from), Valid(t, to), from <= to
    PROVE  LET r == Replaced(t, from, to, s)
           IN  /\ Good(mode, r) /\ Len(r) = Len(t) - (to - from) + Len(s)
               /\ \A i \in 1..from : r[i] = t[i]
               /\ \A i \in 1..Len(s) : r[from + i] = s[i]
               /\ \A i \in 1..Len(t) - to : r[from + Len(s) + i] = t[to + i]
               /\ \A p : Valid(t, p) /\ p <= from => Valid(r, p)
               /\ \A p : Valid(t, p) /\ p >= to => Valid(r, p - (to - from) + Len(s))
               /\ \A p : Valid(s, p) => Valid(r, from + p)
<1> DEFINE n == Len(t)
           A == TextRange(t, 0, from)
           B == TextRange(t, to, n)
           As == A \o s
           r == As \o B
<1>1. t \in Text /\ s \in Text /\ n \in Nat /\ Len(s) \in Nat /\ from \in 0..n /\ to \in 0..n
  BY TextIs DEF Good, Valid
<1>2. Valid(t, 0) /\ Valid(t, n)
  BY <1>1, EndsValid
<1>3. Good(mode, A) /\ Len(A) = from /\ \A i \in 1..from : A[i] = t[i]
  <2>1. /\ Good(mode, A) /\ Len(A) = from - 0
        /\ \A i \in 1..from - 0 : A[i] = t[0 + i]
    <3>1. 0 <= from
      BY <1>1
    <3>2. QED
      BY <1>2, <3>1, RangeGood
  <2> HIDE DEF A
  <2>2. from - 0 = from /\ \A i \in 1..from : 0 + i = i
    BY <1>1
  <2>3. QED
    BY <2>1, <2>2
<1>4. Good(mode, B) /\ Len(B) = n - to /\ \A i \in 1..n - to : B[i] = t[to + i]
  <2>1. to <= n
    BY <1>1
  <2>2. QED
    BY <1>2, <2>1, RangeGood
<1>5. ASSUME NEW p, Valid(t, p), p <= from PROVE Valid(A, p)
  <2>1. p \in 0..n /\ 0 <= p /\ p - 0 = p
    BY <1>1, <1>5 DEF Valid
  <2>2. Valid(A, p - 0)
    BY <1>1, <1>2, <1>5, <2>1, RangeValid
  <2>3. QED
    BY <2>1, <2>2
<1>6. ASSUME NEW p, Valid(t, p), p >= to PROVE Valid(B, p - to)
  <2>1. p \in 0..n /\ p <= n /\ to <= p
    BY <1>1, <1>6 DEF Valid
  <2>2. QED
    BY <1>1, <1>2, <1>6, <2>1, RangeValid
<1>7. A \in Text /\ B \in Text
  BY <1>3, <1>4 DEF Good
<1> HIDE DEF A, B
<1>8. /\ As \in Text /\ Len(As) = from + Len(s)
      /\ \A i \in 1..from : As[i] = A[i]
      /\ \A i \in 1..Len(s) : As[from + i] = s[i]
  BY <1>1, <1>3, <1>7, ConcatIs
<1>9. /\ Good(mode, As)
      /\ \A p : Valid(A, p) => Valid(As, p)
      /\ \A p : Valid(s, p) => Valid(As, from + p)
  BY <1>3, ConcatGood
<1> HIDE DEF As
<1>10. PICK k : k = from + Len(s)
  OBVIOUS
<1>11. /\ r \in Text /\ Len(r) = k + (n - to)
       /\ \A i \in 1..k : r[i] = As[i]
       /\ \A i \in 1..n - to : r[k + i] = B[i]
  <2>1. /\ r \in Text /\ Len(r) = Len(As) + Len(B)
        /\ \A i \in 1..Len(As) : r[i] = As[i]
        /\ \A i \in 1..Len(B) : r[Len(As) + i] = B[i]
    BY <1>7, <1>8, ConcatIs
  <2>2. Len(As) = k /\ Len(B) = n - to
    BY <1>4, <1>8, <1>10
  <2> HIDE DEF r
  <2>3. QED
    BY <2>1, <2>2
<1>12. /\ Good(mode, r)
       /\ \A p : Valid(As, p) => Valid(r, p)
       /\ \A p : Valid(B, p) => Valid(r, k + p)
  BY <1>4, <1>8, <1>9, <1>10, ConcatGood
<1> HIDE DEF r
<1>13. k \in Nat /\ from \in Nat /\ (\A i \in 1..from : i \in 1..k)
       /\ \A i \in 1..Len(s) : from + i \in 1..k
  BY <1>1, <1>10
<1>14. Len(r) = n - (to - from) + Len(s)
  BY <1>1, <1>10, <1>11
<1>15. \A i \in 1..from : r[i] = t[i]
  BY <1>3, <1>8, <1>11, <1>13
<1>16. \A i \in 1..Len(s) : r[from + i] = s[i]
  BY <1>8, <1>11, <1>13
<1>17. \A i \in 1..n - to : r[from + Len(s) + i] = t[to + i]
  BY <1>4, <1>10, <1>11
<1>18. \A p : Valid(t, p) /\ p <= from => Valid(r, p)
  BY <1>5, <1>9, <1>12
<1>19. ASSUME NEW p, Valid(t, p), p >= to PROVE Valid(r, p - (to - from) + Len(s))
  <2>1. Valid(r, k + (p - to))
    BY <1>6, <1>12, <1>19
  <2>2. k + (p - to) = p - (to - from) + Len(s)
    <3>1. p \in Nat
      BY <1>1, <1>19 DEF Valid
    <3>2. QED
      BY <1>1, <1>10, <3>1
  <2>3. QED
    BY <2>1, <2>2
<1>20. \A p : Valid(s, p) => Valid(r, from + p)
  BY <1>9, <1>12
<1>21. r = Replaced(t, from, to, s)
  BY DEF Replaced, r, As, A, B
<1>22. QED
  BY <1>12, <1>14, <1>15, <1>16, <1>17, <1>18, <1>19, <1>20, <1>21

-----------------------------------------------------------------------------
(* The editor. *)

\* The text has the line ends of mode, and the selection splits none of them.
Editors(mode) ==
    {e \in [text : Text, anchor : Nat, caret : Nat] :
        Good(mode, e.text) /\ Valid(e.text, e.anchor) /\ Valid(e.text, e.caret)}

\* A selection that splits no line end.
LEMMA SetSelGood ==
    ASSUME NEW mode, NEW t, Good(mode, t), NEW p, NEW q, Valid(t, p), Valid(t, q)
    PROVE  /\ SetSel(t, p, q) \in Editors(mode)
           /\ SetSel(t, p, q).text = t
           /\ SetSel(t, p, q).anchor = p /\ SetSel(t, p, q).caret = q
<1>1. t \in Text /\ p \in Nat /\ q \in Nat
  <2>1. t \in Text
    BY DEF Good
  <2>2. p \in 0..Len(t) /\ q \in 0..Len(t) /\ Len(t) \in Nat
    BY <2>1, TextIs DEF Valid
  <2>3. QED
    BY <2>1, <2>2
<1>2. QED
  BY <1>1 DEF SetSel, Editors

\* The two orders of a selection.
LEMMA SelectLikeGood ==
    ASSUME NEW mode, NEW e, NEW t, Good(mode, t), NEW p, NEW q, Valid(t, p), Valid(t, q)
    PROVE  SelectLike(e, t, p, q) \in Editors(mode) /\ SelectLike(e, t, p, q).text = t
  BY SetSelGood DEF SelectLike

\* What an editor is.
LEMMA EditorIs ==
    ASSUME NEW mode, NEW e \in Editors(mode)
    PROVE  /\ e.text \in Text /\ Good(mode, e.text) /\ Len(e.text) \in Nat
           /\ Valid(e.text, e.anchor) /\ Valid(e.text, e.caret)
           /\ e.anchor \in 0..Len(e.text) /\ e.caret \in 0..Len(e.text)
           /\ e.anchor \in Nat /\ e.caret \in Nat
  BY TextIs DEF Editors, Valid

\* Deleting a part of the text.
LEMMA DeleteRangeGood ==
    ASSUME NEW mode \in EOLModes, NEW e \in Editors(mode), NEW from, NEW to,
           Valid(e.text, from), Valid(e.text, to), from <= to
    PROVE  /\ DeleteRange(e, from, to) \in Editors(mode)
           /\ DeleteRange(e, from, to).text = Replaced(e.text, from, to, <<>>)
<1> DEFINE t == e.text
           r == Replaced(t, from, to, <<>>)
<1>1. /\ Good(mode, t) /\ t \in Text /\ Len(t) \in Nat
      /\ Valid(t, e.anchor) /\ Valid(t, e.caret)
  BY EditorIs
<1>2. from \in 0..Len(t) /\ to \in 0..Len(t)
  BY DEF Valid
<1>3. <<>> \in Plain /\ Len(<<>>) = 0
  BY DEF Plain
<1>4. Good(mode, <<>>)
  BY <1>3, PlainGood
<1> HIDE DEF t
<1>5. /\ Good(mode, r)
      /\ \A p : Valid(t, p) /\ p <= from => Valid(r, p)
      /\ \A p : Valid(t, p) /\ p >= to => Valid(r, p - (to - from) + Len(<<>>))
      /\ \A p : Valid(<<>>, p) => Valid(r, from + p)
  BY <1>1, <1>4, ReplacedIs DEF t
<1>6. Valid(r, from)
  BY <1>1, <1>2, <1>5 DEF t
<1> HIDE DEF r
<1>7. ASSUME NEW p, Valid(t, p) PROVE Valid(r, AfterDeletion(p, from, to))
  <2>1. p \in 0..Len(t)
    BY <1>7 DEF Valid
  <2>2. CASE p > to
    <3>1. p >= to /\ p - (to - from) + 0 = p - (to - from)
      BY <1>1, <1>2, <2>1, <2>2
    <3>2. Valid(r, p - (to - from) + 0)
      BY <1>3, <1>5, <1>7, <3>1
    <3>3. QED
      BY <2>2, <3>1, <3>2 DEF AfterDeletion
  <2>3. CASE ~(p > to) /\ p > from
    BY <1>6, <2>3 DEF AfterDeletion
  <2>4. CASE ~(p > to) /\ ~(p > from)
    <3>1. p <= from
      BY <1>1, <1>2, <2>1, <2>4
    <3>2. QED
      BY <1>5, <1>7, <2>4, <3>1 DEF AfterDeletion
  <2>5. QED
    BY <2>2, <2>3, <2>4
<1>8. QED
  BY <1>1, <1>5, <1>7, SetSelGood DEF DeleteRange, t, r

\* Inserting a string.
LEMMA InsertAtGood ==
    ASSUME NEW mode \in EOLModes, NEW e \in Editors(mode), NEW at, Valid(e.text, at),
           NEW s, Good(mode, s)
    PROVE  /\ InsertAt(e, at, s) \in Editors(mode)
           /\ InsertAt(e, at, s).text = Replaced(e.text, at, at, s)
           /\ InsertText(e, at, s) \in Editors(mode)
           /\ InsertText(e, at, s).text = Replaced(e.text, at, at, s)
<1> DEFINE t == e.text
           r == Replaced(t, at, at, s)
<1>1. /\ Good(mode, t) /\ t \in Text /\ Len(t) \in Nat
      /\ Valid(t, e.anchor) /\ Valid(t, e.caret)
  BY EditorIs
<1>2. at \in 0..Len(t) /\ Len(s) \in Nat
  BY TextIs DEF Valid, Good
<1> HIDE DEF t
<1>3. at <= at
  BY <1>1, <1>2
<1>4. /\ Good(mode, r)
      /\ \A p : Valid(t, p) /\ p <= at => Valid(r, p)
      /\ \A p : Valid(t, p) /\ p >= at => Valid(r, p - (at - at) + Len(s))
  BY <1>1, <1>3, ReplacedIs DEF t
<1> HIDE DEF r
<1>5. ASSUME NEW p, Valid(t, p)
      PROVE  /\ p > at => Valid(r, p + Len(s))
             /\ p = at => Valid(r, p + Len(s))
             /\ ~(p > at) => Valid(r, p)
  <2>1. p \in 0..Len(t)
    BY <1>5 DEF Valid
  <2>2. ASSUME p >= at PROVE Valid(r, p + Len(s))
    <3>1. p - (at - at) + Len(s) = p + Len(s)
      BY <1>1, <1>2, <2>1
    <3>2. QED
      BY <1>4, <1>5, <2>2, <3>1
  <2>3. /\ p > at => p >= at
        /\ p = at => p >= at
        /\ ~(p > at) => p <= at
    BY <1>1, <1>2, <2>1
  <2>4. QED
    BY <1>4, <1>5, <2>2, <2>3
<1>6. ASSUME NEW p, Valid(t, p), NEW starts
      PROVE  Valid(r, AfterInsertion(p, at, Len(s), starts))
  BY <1>5, <1>6 DEF AfterInsertion
<1>7. InsertAt(e, at, s) \in Editors(mode) /\ InsertAt(e, at, s).text = r
  BY <1>1, <1>4, <1>6, SetSelGood DEF InsertAt, t, r
<1>8. InsertText(e, at, s) \in Editors(mode) /\ InsertText(e, at, s).text = r
  BY <1>1, <1>4, <1>5, SetSelGood DEF InsertText, t, r
<1>9. QED
  BY <1>7, <1>8 DEF t, r

\* Putting a string in the place of a part of the text.
LEMMA ReplaceTargetGood ==
    ASSUME NEW mode \in EOLModes, NEW e \in Editors(mode), NEW from, NEW to,
           Valid(e.text, from), Valid(e.text, to), from <= to, NEW s, Good(mode, s)
    PROVE  /\ ReplaceTarget(e, from, to, s) \in Editors(mode)
           /\ ReplaceTarget(e, from, to, s).text =
                  Replaced(Replaced(e.text, from, to, <<>>), from, from, s)
           /\ Valid(ReplaceTarget(e, from, to, s).text, from + Len(s))
<1> DEFINE d == DeleteRange(e, from, to)
<1>1. d \in Editors(mode) /\ d.text = Replaced(e.text, from, to, <<>>)
  BY DeleteRangeGood
<1>2. Valid(d.text, from)
  <2>1. Good(mode, e.text) /\ Len(e.text) \in Nat
    BY EditorIs
  <2>2. <<>> \in Plain
    BY DEF Plain
  <2>3. Good(mode, <<>>)
    BY <2>2, PlainGood
  <2>4. from <= from
    BY <2>1 DEF Valid
  <2>5. QED
    BY <1>1, <2>1, <2>3, <2>4, ReplacedIs
<1> HIDE DEF d
<1>3. InsertAt(d, from, s) \in Editors(mode) /\ InsertAt(d, from, s).text = Replaced(d.text, from, from, s)
  BY <1>1, <1>2, InsertAtGood
<1>4. Valid(Replaced(d.text, from, from, s), from + Len(s))
  <2>1. Good(mode, d.text) /\ from <= from /\ s \in Text
    BY <1>1, <1>2, EditorIs DEF Valid, Good
  <2>2. Valid(s, Len(s))
    BY <2>1, EndsValid
  <2>3. QED
    BY <1>2, <2>1, <2>2, ReplacedIs
<1>5. QED
  BY <1>1, <1>3, <1>4 DEF ReplaceTarget, d

-----------------------------------------------------------------------------
(* Lines. *)

\* A line starts at p.
Starts(t, p) == p = 0 \/ EndsLine(t, p)

\* A line start splits no line end.
LEMMA StartValid ==
    ASSUME NEW t \in Text, NEW p \in 0..Len(t), Starts(t, p)
    PROVE  Valid(t, p)
<1>1. Len(t) \in Nat
  BY TextIs
<1>2. QED
  BY <1>1 DEF Starts, EndsLine, Valid

\* Counting line ends.
LEMMA LineFromIs ==
    ASSUME NEW t \in Text
    PROVE  /\ LineFromPosition(t, 0) = 0
           /\ \A p \in 0..Len(t) : LineFromPosition(t, p) \in Nat
           /\ \A p \in 1..Len(t) : LineFromPosition(t, p) =
                LineFromPosition(t, p - 1) + (IF EndsLine(t, p) THEN 1 ELSE 0)
           /\ \A p, q \in 0..Len(t) : p <= q => LineFromPosition(t, p) <= LineFromPosition(t, q)
<1> DEFINE E(p) == {q \in 1..p : EndsLine(t, q)}
<1>0. Len(t) \in Nat
  BY TextIs
<1>1. ASSUME NEW p \in 0..Len(t) PROVE IsFiniteSet(E(p)) /\ Cardinality(E(p)) \in Nat
  <2>1. IsFiniteSet(1..p)
    BY <1>0, FS_Interval
  <2>2. E(p) \subseteq 1..p
    OBVIOUS
  <2>3. QED
    BY <2>1, <2>2, FS_Subset, FS_CardinalityType
<1>2. E(0) = {}
  OBVIOUS
<1>3. ASSUME NEW p \in 1..Len(t)
      PROVE  Cardinality(E(p)) = Cardinality(E(p - 1)) + (IF EndsLine(t, p) THEN 1 ELSE 0)
  <2>1. p - 1 \in 0..Len(t) /\ p \notin 1..(p - 1) /\ 1..p = (1..(p - 1)) \cup {p}
    BY <1>0
  <2>2. CASE EndsLine(t, p)
    <3>1. E(p) = E(p - 1) \cup {p} /\ p \notin E(p - 1)
      BY <2>1, <2>2
    <3>2. Cardinality(E(p - 1) \cup {p}) = Cardinality(E(p - 1)) + 1
      BY <1>1, <2>1, <3>1, FS_AddElement
    <3>3. QED
      BY <2>2, <3>1, <3>2
  <2>3. CASE ~EndsLine(t, p)
    <3>1. E(p) = E(p - 1)
      BY <2>1, <2>3
    <3>2. Cardinality(E(p - 1)) \in Nat
      BY <1>1, <2>1
    <3> HIDE DEF E
    <3>3. QED
      BY <2>3, <3>1, <3>2
  <2>4. QED
    BY <2>2, <2>3
<1>4. ASSUME NEW p \in 0..Len(t), NEW q \in 0..Len(t), p <= q
      PROVE  Cardinality(E(p)) <= Cardinality(E(q))
  <2>1. E(p) \subseteq E(q)
    BY <1>0, <1>4
  <2>2. QED
    BY <1>1, <2>1, FS_Subset
<1>5. Cardinality({}) = 0
  BY FS_EmptySet
<1>6. QED
  BY <1>1, <1>2, <1>3, <1>4, <1>5 DEF LineFromPosition

\* A line end between two positions puts them in different lines.
LEMMA LineGoesOn ==
    ASSUME NEW t \in Text, NEW p \in 0..Len(t), NEW q \in 0..Len(t), p < q, EndsLine(t, q)
    PROVE  LineFromPosition(t, p) < LineFromPosition(t, q)
<1>1. Len(t) \in Nat
  BY TextIs
<1>2. q \in 1..Len(t) /\ q - 1 \in 0..Len(t) /\ p <= q - 1
  BY <1>1
<1>3. /\ LineFromPosition(t, p) <= LineFromPosition(t, q - 1)
      /\ LineFromPosition(t, q) = LineFromPosition(t, q - 1) + 1
      /\ LineFromPosition(t, p) \in Nat /\ LineFromPosition(t, q - 1) \in Nat
  BY <1>2, LineFromIs
<1>4. QED
  BY <1>3

\* Positions of one line have no line end between them.
LEMMA SameLine ==
    ASSUME NEW t \in Text, NEW p \in 0..Len(t), NEW q \in 0..Len(t),
           LineFromPosition(t, p) = LineFromPosition(t, q)
    PROVE  \A i \in p + 1..q : ~EndsLine(t, i)
<1>1. Len(t) \in Nat
  BY TextIs
<1>2. SUFFICES ASSUME NEW i \in p + 1..q, EndsLine(t, i) PROVE FALSE
  OBVIOUS
<1>3. i \in 0..Len(t) /\ p < i /\ i <= q
  BY <1>1
<1>4. LineFromPosition(t, p) < LineFromPosition(t, i)
  BY <1>2, <1>3, LineGoesOn
<1>5. /\ LineFromPosition(t, i) <= LineFromPosition(t, q)
      /\ LineFromPosition(t, i) \in Nat /\ LineFromPosition(t, p) \in Nat
  BY <1>3, LineFromIs
<1>6. QED
  BY <1>4, <1>5

\* Every line begins somewhere.
LEMMA LineBegins ==
    ASSUME NEW t \in Text, NEW line \in Nat, line < LineCount(t)
    PROVE  \E p \in 0..Len(t) : Starts(t, p) /\ LineFromPosition(t, p) = line
<1> DEFINE From == {p \in 0..Len(t) : LineFromPosition(t, p) >= line}
<1>1. /\ Len(t) \in Nat /\ LineFromPosition(t, 0) = 0
      /\ LineFromPosition(t, Len(t)) \in Nat
  BY TextIs, LineFromIs
<1>2. From \in SUBSET Nat
  OBVIOUS
<1>3. Len(t) \in From
  BY <1>1 DEF LineCount
<1>4. PICK p \in From : \A q \in From : p <= q
  <2> HIDE DEF From
  <2>1. QED
    BY <1>2, <1>3, LeastOf
<1>5. p \in 0..Len(t) /\ LineFromPosition(t, p) >= line /\ LineFromPosition(t, p) \in Nat
  BY LineFromIs
<1>6. CASE p = 0
  BY <1>1, <1>5, <1>6 DEF Starts
<1>7. CASE p # 0
  <2>1. p \in 1..Len(t) /\ p - 1 \in 0..Len(t) /\ ~(p <= p - 1)
    BY <1>1, <1>5, <1>7
  <2>2. p - 1 \notin From
    BY <1>4, <2>1
  <2>3. LineFromPosition(t, p - 1) \in Nat /\ ~(LineFromPosition(t, p - 1) >= line)
    BY <2>1, <2>2, LineFromIs
  <2>4. LineFromPosition(t, p) = LineFromPosition(t, p - 1) + (IF EndsLine(t, p) THEN 1 ELSE 0)
    BY <2>1, LineFromIs
  <2>5. EndsLine(t, p) /\ LineFromPosition(t, p) = line
    BY <1>5, <2>3, <2>4
  <2>6. QED
    BY <1>5, <2>5 DEF Starts
<1>8. QED
  BY <1>6, <1>7

\* Where a line begins.
LEMMA PositionIs ==
    ASSUME NEW t \in Text, NEW line \in Nat
    PROVE  LET p == PositionFromLine(t, line)
           IN  /\ p \in 0..Len(t) /\ Valid(t, p)
               /\ line < LineCount(t) => Starts(t, p) /\ LineFromPosition(t, p) = line
               /\ ~(line < LineCount(t)) => p = Len(t)
<1> DEFINE p == PositionFromLine(t, line)
           IsIt(q) == (q = 0 \/ EndsLine(t, q)) /\ LineFromPosition(t, q) = line
<1>1. Len(t) \in Nat /\ Valid(t, Len(t))
  BY TextIs, EndsValid
<1>2. CASE line < LineCount(t)
  <2>1. \E q \in 0..Len(t) : IsIt(q)
    BY <1>2, LineBegins DEF Starts
  <2>2. p = CHOOSE q \in 0..Len(t) : IsIt(q)
    BY <1>2 DEF PositionFromLine
  <2>3. p \in 0..Len(t) /\ IsIt(p)
    <3> HIDE DEF IsIt, p
    <3>1. QED
      BY <2>1, <2>2
  <2>4. Starts(t, p) /\ LineFromPosition(t, p) = line
    BY <2>3 DEF Starts
  <2>5. Valid(t, p)
    BY <2>3, <2>4, StartValid
  <2>6. QED
    BY <1>2, <2>3, <2>4, <2>5
<1>3. CASE ~(line < LineCount(t))
  <2>1. p = Len(t)
    BY <1>3 DEF PositionFromLine
  <2> HIDE DEF p
  <2>2. p \in 0..Len(t) /\ Valid(t, p)
    BY <1>1, <2>1
  <2>3. QED
    BY <1>3, <2>1, <2>2 DEF p
<1>4. QED
  BY <1>2, <1>3

\* The start of a line is the one position that starts it.
LEMMA PositionUnique ==
    ASSUME NEW t \in Text, NEW p \in 0..Len(t), Starts(t, p)
    PROVE  PositionFromLine(t, LineFromPosition(t, p)) = p
<1> DEFINE l == LineFromPosition(t, p)
           q == PositionFromLine(t, l)
<1>1. Len(t) \in Nat
  BY TextIs
<1>2. /\ l \in Nat /\ l <= LineFromPosition(t, Len(t)) /\ LineFromPosition(t, Len(t)) \in Nat
  BY <1>1, LineFromIs
<1>3. l < LineCount(t)
  BY <1>2 DEF LineCount
<1>4. q \in 0..Len(t) /\ Starts(t, q) /\ LineFromPosition(t, q) = l
  BY <1>2, <1>3, PositionIs
<1> HIDE DEF q
<1>5. ~(p < q)
  <2> SUFFICES ASSUME p < q PROVE FALSE
    OBVIOUS
  <2>1. EndsLine(t, q)
    BY <1>1, <1>4 DEF Starts
  <2>2. l < LineFromPosition(t, q)
    BY <1>4, <2>1, LineGoesOn
  <2>3. QED
    BY <1>2, <1>4, <2>2
<1>6. ~(q < p)
  <2> SUFFICES ASSUME q < p PROVE FALSE
    OBVIOUS
  <2>1. EndsLine(t, p)
    BY <1>1, <1>4 DEF Starts
  <2>2. LineFromPosition(t, q) < l
    BY <1>4, <2>1, LineGoesOn
  <2>3. QED
    BY <1>2, <1>4, <2>2
<1>7. QED
  BY <1>1, <1>4, <1>5, <1>6 DEF q

\* Lines begin in order.
LEMMA PositionsAscend ==
    ASSUME NEW t \in Text, NEW k \in Nat, NEW l \in Nat, k <= l
    PROVE  /\ PositionFromLine(t, k) <= PositionFromLine(t, l)
           /\ k < l /\ l < LineCount(t) => PositionFromLine(t, k) < PositionFromLine(t, l)
<1> DEFINE p == PositionFromLine(t, k)
           q == PositionFromLine(t, l)
<1>1. /\ Len(t) \in Nat /\ p \in 0..Len(t) /\ q \in 0..Len(t)
      /\ ~(l < LineCount(t)) => q = Len(t)
      /\ l < LineCount(t) => Starts(t, q) /\ LineFromPosition(t, q) = l
      /\ k < LineCount(t) => Starts(t, p) /\ LineFromPosition(t, p) = k
  BY TextIs, PositionIs
<1>2. LineCount(t) \in Nat
  BY <1>1, LineFromIs DEF LineCount
<1> HIDE DEF p, q
<1>3. CASE l < LineCount(t)
  <2>1. k < LineCount(t)
    BY <1>2, <1>3
  <2>2. k = l => p = q
    BY DEF p, q
  <2>3. ASSUME k < l PROVE p < q
    <3> SUFFICES ASSUME ~(p < q) PROVE FALSE
      OBVIOUS
    <3>1. q <= p
      BY <1>1
    <3>2. LineFromPosition(t, q) <= LineFromPosition(t, p)
      BY <1>1, <3>1, LineFromIs
    <3>3. QED
      BY <1>1, <1>3, <2>1, <2>3, <3>2
  <2>4. QED
    BY <1>1, <2>2, <2>3 DEF p, q
<1>4. CASE ~(l < LineCount(t))
  BY <1>1, <1>4 DEF p, q
<1>5. QED
  BY <1>3, <1>4

\* Where a line ends: nothing in it is a line end, and it splits none.
LEMMA LineEndIs ==
    ASSUME NEW t \in Text, NEW line \in Nat
    PROVE  LET p == PositionFromLine(t, line)
               next == PositionFromLine(t, line + 1)
               q == LineEndPosition(t, line)
           IN  /\ q \in 0..Len(t) /\ p <= q /\ q <= next /\ Valid(t, q)
               /\ \A i \in p + 1..q : ~IsEnd(t[i])
               /\ q < Len(t) => IsEnd(t[q + 1])
               /\ line + 1 < LineCount(t) => q < next
<1> DEFINE p == PositionFromLine(t, line)
           next == PositionFromLine(t, line + 1)
           q == LineEndPosition(t, line)
           n == Len(t)
<1>0. PICK l : l = line + 1
  OBVIOUS
<1>1. n \in Nat /\ l \in Nat /\ l > 0 /\ line <= l /\ Valid(t, n)
  BY <1>0, TextIs, EndsValid
<1>2. /\ p \in 0..n /\ Valid(t, p) /\ next \in 0..n /\ Valid(t, next)
      /\ line < LineCount(t) => Starts(t, p) /\ LineFromPosition(t, p) = line
      /\ ~(line < LineCount(t)) => p = n
      /\ l < LineCount(t) => Starts(t, next) /\ LineFromPosition(t, next) = l
      /\ ~(l < LineCount(t)) => next = n
      /\ p <= next
      /\ l < LineCount(t) => p < next
  BY <1>0, <1>1, PositionIs, PositionsAscend
<1>3. LineCount(t) \in Nat /\ LineFromPosition(t, 0) = 0 /\ LineFromPosition(t, n) = LineCount(t) - 1
  BY <1>1, LineFromIs DEF LineCount
<1>4. q = IF line >= LineCount(t) - 1 THEN n
          ELSE IF next > 1 /\ t[next] = LF /\ t[next - 1] = CR THEN next - 2
          ELSE next - 1
  BY DEF LineEndPosition
<1> HIDE DEF p, next, q, n
<1>5. CASE line >= LineCount(t) - 1
  <2>1. q = n /\ next = n
    BY <1>0, <1>1, <1>2, <1>3, <1>4, <1>5
  <2>2. ASSUME NEW i \in p + 1..n, IsEnd(t[i]) PROVE FALSE
    <3>1. i \in 1..n /\ p < i
      BY <1>1, <1>2
    <3>2. line < LineCount(t)
      BY <1>1, <1>2, <3>1
    <3>3. LineFromPosition(t, p) = LineFromPosition(t, n)
      BY <1>2, <1>3, <1>5, <3>2
    <3>4. \A j \in p + 1..n : ~EndsLine(t, j)
      BY <1>1, <1>2, <3>3, SameLine DEF n
    <3>5. t[i] = CR /\ i < n /\ t[i + 1] = LF
      BY <2>2, <3>1, <3>4 DEF EndsLine, n
    <3>6. i + 1 \in p + 1..n /\ i + 1 > 0
      BY <1>1, <1>2, <3>5
    <3>7. EndsLine(t, i + 1)
      BY <3>5, <3>6 DEF EndsLine, IsEnd, CR, LF
    <3>8. QED
      BY <3>4, <3>6, <3>7
  <2>3. QED
    BY <1>0, <1>1, <1>2, <1>3, <1>5, <2>1, <2>2 DEF p, next, q, n
<1>6. CASE ~(line >= LineCount(t) - 1)
  <2>1. /\ l < LineCount(t) /\ line < LineCount(t) /\ p < next /\ EndsLine(t, next)
        /\ next \in 1..n /\ LineFromPosition(t, next) = l /\ LineFromPosition(t, p) = line
    BY <1>0, <1>1, <1>2, <1>3, <1>6 DEF Starts
  <2>2. IsEnd(t[next]) /\ ~(t[next] = CR /\ next < n /\ t[next + 1] = LF)
    BY <2>1 DEF EndsLine, n
  <2>3. PICK m : m = next - 1
    OBVIOUS
  <2>4. m \in 0..n /\ p <= m /\ m < next /\ m + 1 = next
    BY <1>1, <1>2, <2>1, <2>3
  <2>5. LineFromPosition(t, m) = line
    <3>1. LineFromPosition(t, next) = LineFromPosition(t, m) + 1 /\ LineFromPosition(t, m) \in Nat
      BY <2>1, <2>3, <2>4, LineFromIs DEF n
    <3>2. QED
      BY <1>0, <2>1, <3>1
  <2>6. \A j \in p + 1..m : ~EndsLine(t, j)
    BY <1>2, <2>1, <2>4, <2>5, SameLine DEF n
  <2>7. \A j \in p + 1..m : IsEnd(t[j]) => t[j] = CR /\ t[next] = LF /\ j = m
    <3> SUFFICES ASSUME NEW j \in p + 1..m, IsEnd(t[j]) PROVE t[j] = CR /\ t[next] = LF /\ j = m
      OBVIOUS
    <3>1. j \in 1..n /\ j > 0
      BY <1>1, <1>2, <2>4
    <3>2. t[j] = CR /\ j < n /\ t[j + 1] = LF
      BY <2>6, <3>1 DEF EndsLine, n
    <3>3. CASE j = m
      BY <2>4, <3>2, <3>3
    <3>4. CASE j # m
      <4>1. j + 1 \in p + 1..m /\ j + 1 > 0
        BY <1>1, <1>2, <2>4, <3>4
      <4>2. EndsLine(t, j + 1)
        BY <3>2, <4>1 DEF EndsLine, IsEnd, CR, LF
      <4>3. QED
        BY <2>6, <4>1, <4>2
    <3>5. QED
      BY <3>3, <3>4
  <2>8. CASE next > 1 /\ t[next] = LF /\ t[next - 1] = CR
    <3>1. PICK k : k = m - 1
      OBVIOUS
    <3>2. q = k /\ t[m] = CR /\ t[m] # LF
      BY <1>1, <1>2, <1>4, <1>6, <2>3, <2>4, <2>8, <3>1 DEF CR, LF
    <3>3. p # m
      <4> SUFFICES ASSUME p = m PROVE FALSE
        OBVIOUS
      <4>1. p # 0 /\ EndsLine(t, p)
        BY <1>1, <1>2, <2>1, <2>4, <2>8 DEF Starts
      <4>2. ~(t[p] = CR /\ p < n /\ t[p + 1] = LF)
        BY <4>1 DEF EndsLine, n
      <4>3. QED
        BY <1>1, <2>1, <2>4, <2>8, <3>2, <4>2
    <3>4. k \in 0..n /\ p <= k /\ k < n /\ k + 1 = m /\ k < next
      BY <1>1, <1>2, <2>1, <2>4, <3>1, <3>3
    <3>5. Valid(t, k)
      BY <3>2, <3>4 DEF Valid, n
    <3>6. \A i \in p + 1..k : i \in p + 1..m /\ i # m
      BY <1>1, <1>2, <2>4, <3>4
    <3>7. \A i \in p + 1..k : ~IsEnd(t[i])
      BY <2>7, <3>6
    <3>8. IsEnd(t[k + 1])
      BY <3>2, <3>4 DEF IsEnd
    <3>9. k <= next
      BY <1>1, <2>1, <3>4
    <3>10. QED
      BY <3>2, <3>4, <3>5, <3>7, <3>8, <3>9 DEF p, next, q, n
  <2>9. CASE ~(next > 1 /\ t[next] = LF /\ t[next - 1] = CR)
    <3>1. q = m
      BY <1>4, <1>6, <2>3, <2>9
    <3>2. ~(m > 0 /\ t[next] = LF /\ t[m] = CR)
      BY <1>1, <2>1, <2>3, <2>4, <2>9
    <3>3. Valid(t, m)
      BY <1>1, <2>4, <3>2 DEF Valid, n
    <3>4. \A i \in p + 1..m : ~IsEnd(t[i])
      <4>1. \A i \in p + 1..m : i > 0
        BY <1>1, <1>2, <2>4
      <4>2. QED
        BY <2>7, <3>2, <4>1
    <3>5. IsEnd(t[m + 1]) /\ m <= next
      BY <1>1, <2>2, <2>4
    <3>6. QED
      BY <2>4, <3>1, <3>3, <3>4, <3>5 DEF p, next, q, n
  <2>10. QED
    BY <2>8, <2>9
<1>7. QED
  BY <1>5, <1>6

\* The lower and the higher of two positions.
LEMMA MinMaxIs ==
    ASSUME NEW a \in Nat, NEW b \in Nat
    PROVE  /\ Min({a, b}) = (IF a <= b THEN a ELSE b)
           /\ Max({a, b}) = (IF a <= b THEN b ELSE a)
<1>1. PICK m : m = IF a <= b THEN a ELSE b
  OBVIOUS
<1>2. m \in {a, b} /\ \A y \in {a, b} : m =< y
  BY <1>1
<1>3. Min({a, b}) \in {a, b} /\ \A y \in {a, b} : Min({a, b}) =< y
  BY <1>2, Zenon DEF Min
<1>4. PICK k : k = IF a <= b THEN b ELSE a
  OBVIOUS
<1>5. k \in {a, b} /\ \A y \in {a, b} : k >= y
  BY <1>4
<1>6. Max({a, b}) \in {a, b} /\ \A y \in {a, b} : Max({a, b}) >= y
  BY <1>5, Zenon DEF Max
<1>7. QED
  BY <1>3, <1>6

\* The least of some numbers.
LEMMA MinOf ==
    ASSUME NEW S \in SUBSET Nat, S # {}
    PROVE  Min(S) \in S /\ \A y \in S : Min(S) <= y
<1>1. \E m \in S : \A y \in S : m =< y
  BY LeastOf
<1>2. QED
  BY <1>1, Zenon DEF Min

\* The greatest of some numbers up to n.
LEMMA MaxOf ==
    ASSUME NEW n \in Nat, NEW S \in SUBSET (0..n), S # {}
    PROVE  Max(S) \in S /\ \A y \in S : Max(S) >= y
<1> DEFINE Above == {m \in 0..n : \A y \in S : m >= y}
<1>1. n \in Above /\ Above \in SUBSET Nat
  OBVIOUS
<1>2. PICK m \in Above : \A k \in Above : m <= k
  <2> HIDE DEF Above
  <2>1. QED
    BY <1>1, LeastOf
<1>3. m \in 0..n /\ \A y \in S : m >= y
  OBVIOUS
<1>4. m \in S
  <2> SUFFICES ASSUME m \notin S PROVE FALSE
    OBVIOUS
  <2>1. \A y \in S : y \in Nat /\ m > y
    BY <1>3
  <2>2. PICK y : y \in S
    OBVIOUS
  <2>3. m - 1 \in 0..n /\ ~(m <= m - 1) /\ \A z \in S : m - 1 >= z
    BY <1>3, <2>1, <2>2
  <2>4. m - 1 \in Above
    BY <2>3
  <2> HIDE DEF Above
  <2>5. QED
    BY <1>2, <2>3, <2>4
<1>5. \E x \in S : \A y \in S : x >= y
  BY <1>3, <1>4
<1>6. QED
  BY <1>5, Zenon DEF Max

\* The line of a position.
LEMMA LineOf ==
    ASSUME NEW t \in Text, NEW p \in 0..Len(t)
    PROVE  LET l == LineFromPosition(t, p)
           IN  /\ l \in Nat /\ l < LineCount(t) /\ PositionFromLine(t, l) <= p
               /\ Valid(t, p) => p <= LineEndPosition(t, l)
<1> DEFINE l == LineFromPosition(t, p)
           s == PositionFromLine(t, l)
           q == LineEndPosition(t, l)
<1>1. /\ Len(t) \in Nat /\ l \in Nat /\ l <= LineFromPosition(t, Len(t))
      /\ LineFromPosition(t, Len(t)) \in Nat /\ p <= Len(t)
  BY TextIs, LineFromIs
<1>2. l < LineCount(t) /\ LineCount(t) \in Nat
  BY <1>1 DEF LineCount
<1>3. s \in 0..Len(t) /\ Starts(t, s) /\ LineFromPosition(t, s) = l
  BY <1>1, <1>2, PositionIs
<1>4. s <= p
  <2> SUFFICES ASSUME p < s PROVE FALSE
    BY <1>1, <1>3
  <2>1. EndsLine(t, s)
    BY <1>1, <1>3 DEF Starts
  <2>2. LineFromPosition(t, p) < LineFromPosition(t, s)
    BY <1>1, <1>3, <2>1, LineGoesOn
  <2>3. QED
    BY <1>1, <1>3, <2>2
<1>5. ASSUME Valid(t, p) PROVE p <= q
  <2>1. PICK k : k = l + 1
    OBVIOUS
  <2>2. k \in Nat
    BY <1>1, <2>1
  <2> DEFINE next == PositionFromLine(t, k)
  <2>3. /\ next \in 0..Len(t)
        /\ k < LineCount(t) => Starts(t, next) /\ LineFromPosition(t, next) = k
        /\ ~(k < LineCount(t)) => next = Len(t)
    BY <2>2, PositionIs
  <2>4. q = IF l >= LineCount(t) - 1 THEN Len(t)
          ELSE IF next > 1 /\ t[next] = LF /\ t[next - 1] = CR THEN next - 2
          ELSE next - 1
    BY <2>1 DEF LineEndPosition
  <2>5. q \in 0..Len(t)
    BY <1>1, LineEndIs
  <2> HIDE DEF next, q, l
  <2>6. CASE l >= LineCount(t) - 1
    BY <1>1, <2>4, <2>6
  <2>7. CASE ~(l >= LineCount(t) - 1)
    <3>1. k < LineCount(t) /\ LineFromPosition(t, next) = k
      BY <1>1, <1>2, <2>1, <2>3, <2>7
    <3>2. p < next
      <4> SUFFICES ASSUME next <= p PROVE FALSE
        BY <1>1, <2>3
      <4>1. LineFromPosition(t, next) <= LineFromPosition(t, p)
        BY <2>3, LineFromIs
      <4>2. QED
        BY <1>1, <2>1, <3>1, <4>1 DEF l
    <3>3. CASE next > 1 /\ t[next] = LF /\ t[next - 1] = CR
      <4>1. next - 1 \in 1..Len(t) - 1 /\ (next - 1) + 1 = next
        BY <1>1, <2>3, <3>3
      <4>2. ~Valid(t, next - 1)
        BY <3>3, <4>1 DEF Valid
      <4>3. p # next - 1
        BY <1>5, <4>2
      <4>4. QED
        BY <1>1, <2>3, <2>4, <2>7, <3>2, <3>3, <4>3
    <3>4. CASE ~(next > 1 /\ t[next] = LF /\ t[next - 1] = CR)
      BY <1>1, <2>3, <2>4, <2>7, <3>2, <3>4
    <3>5. QED
      BY <3>3, <3>4
  <2>8. QED
    BY <2>6, <2>7
<1>6. QED
  BY <1>1, <1>2, <1>4, <1>5

\* Without a line end between them, two positions are in one line.
LEMMA SameLineBack ==
    ASSUME NEW t \in Text, NEW p \in 0..Len(t), NEW q \in 0..Len(t), p <= q,
           \A i \in p + 1..q : ~EndsLine(t, i)
    PROVE  LineFromPosition(t, p) = LineFromPosition(t, q)
<1>1. Len(t) \in Nat
  BY TextIs
<1>2. {i \in 1..p : EndsLine(t, i)} = {i \in 1..q : EndsLine(t, i)}
  <2>1. \A i \in 1..q : i \in 1..p \/ i \in p + 1..q
    BY <1>1
  <2>2. \A i \in 1..p : i \in 1..q
    BY <1>1
  <2>3. QED
    BY <2>1, <2>2
<1>3. QED
  BY <1>2 DEF LineFromPosition

\* A place of a line, from its start to its end.
InLine(t, line, p) == p \in PositionFromLine(t, line)..LineEndPosition(t, line)

\* It splits no line end, and is in that line.
LEMMA InLineIs ==
    ASSUME NEW t \in Text, NEW line \in Nat, NEW p, InLine(t, line, p)
    PROVE  /\ Valid(t, p) /\ p \in 0..Len(t)
           /\ line < LineCount(t) => LineFromPosition(t, p) = line
<1> DEFINE s == PositionFromLine(t, line)
           q == LineEndPosition(t, line)
<1>1. /\ Len(t) \in Nat /\ s \in 0..Len(t) /\ Valid(t, s)
      /\ line < LineCount(t) => LineFromPosition(t, s) = line
  BY TextIs, PositionIs
<1>2. q \in 0..Len(t) /\ \A i \in s + 1..q : ~IsEnd(t[i])
  BY LineEndIs
<1>3. p \in s..q
  BY DEF InLine
<1> HIDE DEF s, q
<1>4. p \in 0..Len(t) /\ s <= p
  BY <1>1, <1>2, <1>3
<1>5. p # s => p \in s + 1..q
  BY <1>1, <1>2, <1>3
<1>6. Valid(t, p)
  <2>1. CASE p = s
    BY <1>1, <2>1
  <2>2. CASE p # s
    <3>1. ~IsEnd(t[p])
      BY <1>2, <1>5, <2>2
    <3>2. QED
      BY <1>1, <1>4, <3>1 DEF Valid, IsEnd
  <2>3. QED
    BY <2>1, <2>2
<1>7. \A i \in s + 1..p : ~EndsLine(t, i)
  <2>1. \A i \in s + 1..p : i \in s + 1..q
    BY <1>1, <1>2, <1>3
  <2>2. QED
    BY <1>2, <2>1 DEF EndsLine
<1>8. LineFromPosition(t, s) = LineFromPosition(t, p)
  BY <1>1, <1>4, <1>7, SameLineBack
<1>9. QED
  BY <1>1, <1>4, <1>6, <1>8

\* The indentation of a line is in the line.
LEMMA IndentIs ==
    ASSUME NEW t \in Text, NEW line \in Nat
    PROVE  LET p == LineIndentPosition(t, line)
           IN  /\ InLine(t, line, p)
               /\ p < LineEndPosition(t, line) => ~IsBlank(t[p + 1]) /\ ~IsEnd(t[p + 1])
<1> DEFINE s == PositionFromLine(t, line)
           n == Len(t)
           IsIt(p) == (\A q \in s + 1..p : IsBlank(t[q])) /\ (p = n \/ ~IsBlank(t[p + 1]))
           p == LineIndentPosition(t, line)
           Stops == {k \in s..n : k = n \/ ~IsBlank(t[k + 1])}
<1>1. n \in Nat /\ s \in 0..n
  BY TextIs, PositionIs
<1> HIDE DEF s, n
<1>2. Stops \in SUBSET Nat /\ n \in Stops
  BY <1>1
<1>3. PICK k \in Stops : \A j \in Stops : k <= j
  <2> HIDE DEF Stops
  <2>1. QED
    BY <1>2, LeastOf
<1>4. \A q \in s + 1..k : IsBlank(t[q])
  <2> SUFFICES ASSUME NEW q \in s + 1..k, ~IsBlank(t[q]) PROVE FALSE
    OBVIOUS
  <2>1. k \in s..n
    OBVIOUS
  <2>2. q - 1 \in s..n /\ (q - 1) + 1 = q /\ ~(k <= q - 1)
    BY <1>1, <2>1
  <2>3. q - 1 \in Stops
    BY <2>2
  <2> HIDE DEF Stops
  <2>4. QED
    BY <1>3, <2>2, <2>3
<1>5. k \in s..n /\ IsIt(k)
  BY <1>4
<1>6. p = CHOOSE j \in s..n : IsIt(j)
  BY DEF LineIndentPosition, s, n
<1>7. p \in s..n /\ IsIt(p)
  <2> HIDE DEF p, IsIt
  <2>1. QED
    BY <1>5, <1>6
<1> DEFINE e == LineEndPosition(t, line)
<1>8. /\ e \in 0..n /\ s <= e /\ (e < n => IsEnd(t[e + 1]))
      /\ \A i \in s + 1..e : ~IsEnd(t[i])
  BY LineEndIs DEF s, n
<1> HIDE DEF p, e
<1>9. p <= e
  <2> SUFFICES ASSUME e < p PROVE FALSE
    BY <1>1, <1>7, <1>8
  <2>1. e < n /\ e + 1 \in s + 1..p
    BY <1>1, <1>7, <1>8
  <2>2. IsEnd(t[e + 1]) /\ IsBlank(t[e + 1])
    BY <1>7, <1>8, <2>1
  <2>3. QED
    BY <2>2 DEF IsEnd, IsBlank, CR, LF, SP, TAB
<1>10. InLine(t, line, p)
  BY <1>1, <1>7, <1>8, <1>9 DEF InLine, s, e
<1>11. ASSUME p < e PROVE ~IsBlank(t[p + 1]) /\ ~IsEnd(t[p + 1])
  <2>1. p # n /\ p + 1 \in s + 1..e
    BY <1>1, <1>7, <1>8, <1>11
  <2>2. QED
    BY <1>7, <1>8, <2>1
<1>12. QED
  BY <1>10, <1>11 DEF p, e

\* Where the blanks before a place of a line begin.
LEMMA BlanksBeforeIs ==
    ASSUME NEW t \in Text, NEW line \in Nat, NEW end, InLine(t, line, end)
    PROVE  LET p == BlanksBefore(t, line, end)
           IN  /\ InLine(t, line, p) /\ p <= end /\ \A q \in p + 1..end : IsBlank(t[q])
               /\ p = PositionFromLine(t, line) \/ ~IsBlank(t[p])
<1> DEFINE s == PositionFromLine(t, line)
           IsIt(p) == (\A q \in p + 1..end : IsBlank(t[q])) /\ (p = s \/ ~IsBlank(t[p]))
           p == BlanksBefore(t, line, end)
           Stops == {k \in s..end : \A q \in k + 1..end : IsBlank(t[q])}
           e == LineEndPosition(t, line)
<1>1. Len(t) \in Nat /\ s \in 0..Len(t) /\ e \in 0..Len(t)
  BY TextIs, PositionIs, LineEndIs
<1>2. end \in s..e
  BY DEF InLine
<1> HIDE DEF s, e
<1>3. Stops \in SUBSET Nat /\ end \in Stops
  BY <1>1, <1>2
<1>4. PICK k \in Stops : \A j \in Stops : k <= j
  <2> HIDE DEF Stops
  <2>1. QED
    BY <1>3, LeastOf
<1>5. k \in s..end /\ \A q \in k + 1..end : IsBlank(t[q])
  OBVIOUS
<1>6. k = s \/ ~IsBlank(t[k])
  <2> SUFFICES ASSUME k # s, IsBlank(t[k]) PROVE FALSE
    OBVIOUS
  <2>1. k - 1 \in s..end /\ ~(k <= k - 1) /\ \A q \in (k - 1) + 1..end : q = k \/ q \in k + 1..end
    BY <1>1, <1>2, <1>5
  <2>2. k - 1 \in Stops
    BY <1>5, <2>1
  <2> HIDE DEF Stops
  <2>3. QED
    BY <1>4, <2>1, <2>2
<1>7. p = CHOOSE j \in s..end : IsIt(j)
  BY DEF BlanksBefore, s
<1>8. p \in s..end /\ IsIt(p)
  <2>1. k \in s..end /\ IsIt(k)
    BY <1>5, <1>6
  <2> HIDE DEF p, IsIt, Stops
  <2>2. QED
    BY <1>7, <2>1
<1> HIDE DEF p
<1>9. p \in s..e /\ p <= end
  BY <1>1, <1>2, <1>8
<1>10. QED
  BY <1>8, <1>9 DEF InLine, s, e, p

-----------------------------------------------------------------------------
(* Columns. *)

\* A character moves the column on.
LEMMA NextColumnIs ==
    ASSUME NEW column \in Nat, NEW c
    PROVE  NextColumn(column, c) \in Nat
<1>1. (column \div TabWidth + 1) * TabWidth \in Nat
  <2>1. TabWidth \in Nat /\ TabWidth > 0
    BY TabWidthAssumption
  <2>2. column \div TabWidth \in Nat
    BY <2>1
  <2>3. PICK k \in Nat : k = column \div TabWidth + 1
    BY <2>2
  <2>4. k * TabWidth \in Nat
    BY <2>1
  <2>5. QED
    BY <2>3, <2>4
<1>2. QED
  BY <1>1 DEF NextColumn

\* A column is a number, and a line starts at column 0.
LEMMA GetColumnIs ==
    ASSUME NEW t \in Text, NEW p \in 0..Len(t)
    PROVE  GetColumn(t, p) \in Nat /\ (Starts(t, p) => GetColumn(t, p) = 0)
<1> DEFINE s == PositionFromLine(t, LineFromPosition(t, p))
           n == p - s
           Step(x, i) == NextColumn(x, t[s + i])
           G(f) == [i \in 0..n |-> IF i = 0 THEN 0 ELSE Step(f[i - 1], i)]
           h == CHOOSE f : f = G(f)
           T == [i \in 0..n |-> Nat]
           g == [i \in 1..n |-> [x \in Nat |-> Step(x, i)]]
<1>1. n \in Nat /\ (Starts(t, p) => n = 0)
  <2>1. Len(t) \in Nat /\ s <= p /\ LineFromPosition(t, p) \in Nat
    BY TextIs, LineOf
  <2>2. s \in 0..Len(t)
    BY <2>1, PositionIs
  <2>3. Starts(t, p) => s = p
    BY PositionUnique
  <2> HIDE DEF s
  <2>4. QED
    BY <2>1, <2>2, <2>3
<1>2. GetColumn(t, p) = h[n]
  BY DEF GetColumn, Scan
<1> HIDE DEF s, n
<1>3. \A i \in 1..n : \A x \in Nat : Step(x, i) \in Nat
  BY NextColumnIs
<1> HIDE DEF Step
<1>4. \E f : f = Rounds(n, 0, g, f) /\ \A i \in 0..n : f[i] \in T[i]
  <2>1. ASSUME NEW i \in 1..n, NEW x \in T[i - 1] PROVE g[i][x] \in T[i]
    <3>1. i \in 0..n /\ i - 1 \in 0..n
      BY <1>1
    <3>2. QED
      BY <1>3, <3>1
  <2>2. 0 \in T[0]
    BY <1>1
  <2> HIDE DEF T, g
  <2>3. QED
    BY <1>1, <2>1, <2>2, LoopRuns
<1>5. PICK f : f = Rounds(n, 0, g, f) /\ \A i \in 0..n : f[i] \in T[i]
  BY <1>4
<1>6. f = G(f)
  <2>1. \A i \in 0..n : i # 0 => i \in 1..n /\ i - 1 \in 0..n
    BY <1>1
  <2>2. \A i \in 0..n : f[i] \in Nat
    BY <1>5
  <2>3. \A i \in 0..n : i # 0 => g[i][f[i - 1]] = Step(f[i - 1], i)
    BY <2>1, <2>2
  <2> HIDE DEF g, T
  <2>4. QED
    BY <1>5, <2>3 DEF Rounds
<1>7. h = G(h)
  <2> HIDE DEF G
  <2>1. QED
    BY <1>6
<1> HIDE DEF h
<1>8. h[0] = 0 /\ \A i \in 1..n : h[i] = Step(h[i - 1], i)
  <2>1. \A i \in 1..n : i \in 0..n /\ i # 0
    BY <1>1
  <2>2. QED
    BY <1>1, <1>7, <2>1
<1>9. \A i \in 0..n : h[i] \in T[i]
  <2>1. \A i \in 1..n : i \in 0..n /\ i - 1 \in 0..n
    BY <1>1
  <2>2. h[0] \in T[0]
    BY <1>1, <1>8
  <2>3. ASSUME NEW i \in 1..n, h[i - 1] \in T[i - 1] PROVE h[i] \in T[i]
    BY <1>3, <1>8, <2>1, <2>3
  <2> HIDE DEF T
  <2>4. QED
    BY <1>1, <2>2, <2>3, LoopKeeps
<1>10. h[n] \in Nat
  BY <1>1, <1>9
<1>11. QED
  BY <1>1, <1>2, <1>8, <1>10

\* The position of a column is in the line.
LEMMA FindColumnIs ==
    ASSUME NEW t \in Text, NEW line \in Nat, line < LineCount(t), NEW column \in Nat
    PROVE  InLine(t, line, FindColumn(t, line, column))
<1> DEFINE s == PositionFromLine(t, line)
           e == LineEndPosition(t, line)
           S == {p \in s..e : GetColumn(t, p) <= column}
<1>1. /\ Len(t) \in Nat /\ s \in 0..Len(t) /\ Starts(t, s) /\ e \in 0..Len(t) /\ s <= e
  BY TextIs, PositionIs, LineEndIs
<1>2. GetColumn(t, s) = 0
  BY <1>1, GetColumnIs
<1>3. FindColumn(t, line, column) = Max(S)
  BY DEF FindColumn
<1> HIDE DEF s, e
<1>4. S \in SUBSET (0..Len(t)) /\ s \in S
  BY <1>1, <1>2
<1>5. Max(S) \in S
  <2> HIDE DEF S
  <2>1. QED
    BY <1>1, <1>4, MaxOf
<1>6. QED
  BY <1>3, <1>5 DEF InLine, s, e

-----------------------------------------------------------------------------
(* The selection and its lines. *)

\* The ends of the selection and its lines.
LEMMA SelectionIs ==
    ASSUME NEW mode, NEW e \in Editors(mode)
    PROVE  /\ SelectionStart(e) \in 0..Len(e.text) /\ SelectionEnd(e) \in 0..Len(e.text)
           /\ Valid(e.text, SelectionStart(e)) /\ Valid(e.text, SelectionEnd(e))
           /\ SelectionStart(e) <= SelectionEnd(e)
           /\ FirstLine(e) \in Nat /\ LastLine(e) \in Nat
           /\ FirstLine(e) <= LastLine(e) /\ LastLine(e) < LineCount(e.text)
           /\ FirstLine(e) < LineCount(e.text)
<1>1. /\ e.text \in Text /\ Len(e.text) \in Nat /\ e.anchor \in Nat /\ e.caret \in Nat
      /\ e.anchor \in 0..Len(e.text) /\ e.caret \in 0..Len(e.text)
      /\ Valid(e.text, e.anchor) /\ Valid(e.text, e.caret)
  BY EditorIs
<1>2. /\ SelectionStart(e) = (IF e.anchor <= e.caret THEN e.anchor ELSE e.caret)
      /\ SelectionEnd(e) = (IF e.anchor <= e.caret THEN e.caret ELSE e.anchor)
  BY <1>1, MinMaxIs DEF SelectionStart, SelectionEnd
<1>3. /\ SelectionStart(e) \in 0..Len(e.text) /\ SelectionEnd(e) \in 0..Len(e.text)
      /\ Valid(e.text, SelectionStart(e)) /\ Valid(e.text, SelectionEnd(e))
      /\ SelectionStart(e) <= SelectionEnd(e)
  BY <1>1, <1>2
<1>4. FirstLine(e) \in Nat /\ FirstLine(e) < LineCount(e.text)
  BY <1>1, <1>3, LineOf DEF FirstLine
<1>5. LastLine(e) \in Nat /\ LastLine(e) < LineCount(e.text)
  BY <1>1, <1>3, LineOf DEF LastLine
<1>6. FirstLine(e) <= LastLine(e)
  BY <1>1, <1>3, LineFromIs DEF FirstLine, LastLine
<1>7. QED
  BY <1>3, <1>4, <1>5, <1>6

\* The last line of a block is one of the lines of the selection.
LEMMA LastSelectedIs ==
    ASSUME NEW mode, NEW e \in Editors(mode)
    PROVE  /\ LastSelectedLine(e) \in Nat /\ FirstLine(e) <= LastSelectedLine(e)
           /\ LastSelectedLine(e) <= LastLine(e)
<1>1. FirstLine(e) \in Nat /\ LastLine(e) \in Nat /\ FirstLine(e) <= LastLine(e)
  BY SelectionIs
<1>2. QED
  BY <1>1 DEF LastSelectedLine

\* The block of the commands on blanks.
LEMMA BlockIs ==
    ASSUME NEW mode, NEW e \in Editors(mode)
    PROVE  /\ Valid(e.text, BlockStart(e)) /\ Valid(e.text, SelectionEnd(e))
           /\ BlockStart(e) <= SelectionEnd(e) /\ Good(mode, Block(e))
<1>1. /\ e.text \in Text /\ Len(e.text) \in Nat /\ Good(mode, e.text)
  BY EditorIs
<1>2. /\ SelectionStart(e) \in 0..Len(e.text) /\ SelectionEnd(e) \in 0..Len(e.text)
      /\ Valid(e.text, SelectionEnd(e)) /\ SelectionStart(e) <= SelectionEnd(e)
      /\ FirstLine(e) \in Nat
  BY SelectionIs
<1>3. BlockStart(e) <= SelectionStart(e)
  BY <1>1, <1>2, LineOf DEF BlockStart, FirstLine
<1>4. Valid(e.text, BlockStart(e)) /\ BlockStart(e) \in 0..Len(e.text)
  BY <1>1, <1>2, PositionIs DEF BlockStart
<1>5. BlockStart(e) <= SelectionEnd(e)
  BY <1>1, <1>2, <1>3, <1>4
<1>6. QED
  BY <1>1, <1>2, <1>4, <1>5, RangeGood DEF Block

\* New text in place of the block.
LEMMA ReplaceBlockGood ==
    ASSUME NEW mode \in EOLModes, NEW e \in Editors(mode), NEW s, Good(mode, s)
    PROVE  ReplaceBlock(e, s) \in Editors(mode)
<1>1. /\ Valid(e.text, BlockStart(e)) /\ Valid(e.text, SelectionEnd(e))
      /\ BlockStart(e) <= SelectionEnd(e)
  BY BlockIs
<1>2. e.text \in Text /\ Len(e.text) \in Nat /\ Good(mode, e.text) /\ s \in Text
  BY EditorIs DEF Good
<1>3. Valid(s, Len(s)) /\ BlockStart(e) <= BlockStart(e) /\ BlockStart(e) \in Nat
  BY <1>1, <1>2, EndsValid DEF Valid
<1> DEFINE r == Replaced(e.text, BlockStart(e), SelectionEnd(e), s)
<1>4. Good(mode, r) /\ Valid(r, BlockStart(e)) /\ Valid(r, BlockStart(e) + Len(s))
  BY <1>1, <1>2, <1>3, ReplacedIs
<1> HIDE DEF r
<1>5. SelectLike(e, r, BlockStart(e), BlockStart(e) + Len(s)) \in Editors(mode)
  BY <1>4, SelectLikeGood
<1>6. QED
  BY <1>5 DEF ReplaceBlock, r

-----------------------------------------------------------------------------
(* The loops of the commands: what every round keeps holds after the last.     *)
(* Scan has the round as an operator, which no lemma can take as a parameter:  *)
(* every loop has a lemma of its own, all with the proof of the first.         *)

\* The loop of TabsToSpaces.
TabsRounds(t, onlyIndent, init, n) ==
    Scan(LAMBDA x, i : TabToSpaces(t, onlyIndent, x, i), init, n)

\* Tabs into blanks.
LEMMA TabsLoop ==
    ASSUME NEW t, NEW onlyIndent, NEW n \in Nat, NEW T, NEW init, init \in T[0],
           \A i \in 1..n : \A x \in T[i - 1] : TabToSpaces(t, onlyIndent, x, i) \in T[i]
    PROVE  TabsRounds(t, onlyIndent, init, n) \in T[n]
<1> DEFINE g == [i \in 1..n |-> [x \in T[i - 1] |-> TabToSpaces(t, onlyIndent, x, i)]]
           G(f) == [i \in 0..n |-> IF i = 0 THEN init ELSE TabToSpaces(t, onlyIndent, f[i - 1], i)]
           h == CHOOSE f : f = G(f)
<1>1. \A i \in 1..n : i \in 0..n /\ i - 1 \in 0..n /\ i # 0
  OBVIOUS
<1>2. PICK f : f = Rounds(n, init, g, f) /\ \A i \in 0..n : f[i] \in T[i]
  <2>1. \A i \in 1..n : \A x \in T[i - 1] : g[i][x] \in T[i]
    OBVIOUS
  <2> HIDE DEF g
  <2>2. QED
    BY <2>1, LoopRuns
<1>3. f = G(f)
  <2>1. \A i \in 0..n : i # 0 => i \in 1..n /\ i - 1 \in 0..n
    OBVIOUS
  <2>2. \A i \in 0..n : i # 0 => g[i][f[i - 1]] = TabToSpaces(t, onlyIndent, f[i - 1], i)
    BY <1>2, <2>1
  <2> HIDE DEF g
  <2>3. QED
    BY <1>2, <2>2 DEF Rounds
<1>4. h = G(h)
  <2> HIDE DEF G
  <2>1. QED
    BY <1>3
<1> HIDE DEF h
<1>5. h[0] = init /\ \A i \in 1..n : h[i] = TabToSpaces(t, onlyIndent, h[i - 1], i)
  <2>1. 0 \in 0..n
    OBVIOUS
  <2>2. QED
    BY <1>1, <1>4, <2>1
<1>6. \A i \in 0..n : h[i] \in T[i]
  BY <1>5, LoopKeeps
<1>7. QED
  BY <1>6 DEF TabsRounds, Scan, h

\* The loop of SpacesToTabs.
SpacesRounds(t, onlyIndent, init, n) ==
    Scan(LAMBDA x, i : SpaceToTab(t, onlyIndent, x, i), init, n)

\* Blanks into tabs.
LEMMA SpacesLoop ==
    ASSUME NEW t, NEW onlyIndent, NEW n \in Nat, NEW T, NEW init, init \in T[0],
           \A i \in 1..n : \A x \in T[i - 1] : SpaceToTab(t, onlyIndent, x, i) \in T[i]
    PROVE  SpacesRounds(t, onlyIndent, init, n) \in T[n]
<1> DEFINE g == [i \in 1..n |-> [x \in T[i - 1] |-> SpaceToTab(t, onlyIndent, x, i)]]
           G(f) == [i \in 0..n |-> IF i = 0 THEN init ELSE SpaceToTab(t, onlyIndent, f[i - 1], i)]
           h == CHOOSE f : f = G(f)
<1>1. \A i \in 1..n : i \in 0..n /\ i - 1 \in 0..n /\ i # 0
  OBVIOUS
<1>2. PICK f : f = Rounds(n, init, g, f) /\ \A i \in 0..n : f[i] \in T[i]
  <2>1. \A i \in 1..n : \A x \in T[i - 1] : g[i][x] \in T[i]
    OBVIOUS
  <2> HIDE DEF g
  <2>2. QED
    BY <2>1, LoopRuns
<1>3. f = G(f)
  <2>1. \A i \in 0..n : i # 0 => i \in 1..n /\ i - 1 \in 0..n
    OBVIOUS
  <2>2. \A i \in 0..n : i # 0 => g[i][f[i - 1]] = SpaceToTab(t, onlyIndent, f[i - 1], i)
    BY <1>2, <2>1
  <2> HIDE DEF g
  <2>3. QED
    BY <1>2, <2>2 DEF Rounds
<1>4. h = G(h)
  <2> HIDE DEF G
  <2>1. QED
    BY <1>3
<1> HIDE DEF h
<1>5. h[0] = init /\ \A i \in 1..n : h[i] = SpaceToTab(t, onlyIndent, h[i - 1], i)
  <2>1. 0 \in 0..n
    OBVIOUS
  <2>2. QED
    BY <1>1, <1>4, <2>1
<1>6. \A i \in 0..n : h[i] \in T[i]
  BY <1>5, LoopKeeps
<1>7. QED
  BY <1>6 DEF SpacesRounds, Scan, h

\* The loop of CompressSpaces.
CompressRounds(t, init, n) ==
    Scan(LAMBDA x, i : CompressSpace(t, x, i), init, n)

\* Fewer blanks.
LEMMA CompressLoop ==
    ASSUME NEW t, NEW n \in Nat, NEW T, NEW init, init \in T[0],
           \A i \in 1..n : \A x \in T[i - 1] : CompressSpace(t, x, i) \in T[i]
    PROVE  CompressRounds(t, init, n) \in T[n]
<1> DEFINE g == [i \in 1..n |-> [x \in T[i - 1] |-> CompressSpace(t, x, i)]]
           G(f) == [i \in 0..n |-> IF i = 0 THEN init ELSE CompressSpace(t, f[i - 1], i)]
           h == CHOOSE f : f = G(f)
<1>1. \A i \in 1..n : i \in 0..n /\ i - 1 \in 0..n /\ i # 0
  OBVIOUS
<1>2. PICK f : f = Rounds(n, init, g, f) /\ \A i \in 0..n : f[i] \in T[i]
  <2>1. \A i \in 1..n : \A x \in T[i - 1] : g[i][x] \in T[i]
    OBVIOUS
  <2> HIDE DEF g
  <2>2. QED
    BY <2>1, LoopRuns
<1>3. f = G(f)
  <2>1. \A i \in 0..n : i # 0 => i \in 1..n /\ i - 1 \in 0..n
    OBVIOUS
  <2>2. \A i \in 0..n : i # 0 => g[i][f[i - 1]] = CompressSpace(t, f[i - 1], i)
    BY <1>2, <2>1
  <2> HIDE DEF g
  <2>3. QED
    BY <1>2, <2>2 DEF Rounds
<1>4. h = G(h)
  <2> HIDE DEF G
  <2>1. QED
    BY <1>3
<1> HIDE DEF h
<1>5. h[0] = init /\ \A i \in 1..n : h[i] = CompressSpace(t, h[i - 1], i)
  <2>1. 0 \in 0..n
    OBVIOUS
  <2>2. QED
    BY <1>1, <1>4, <2>1
<1>6. \A i \in 0..n : h[i] \in T[i]
  BY <1>5, LoopKeeps
<1>7. QED
  BY <1>6 DEF CompressRounds, Scan, h

\* The loop of WrapToColumn.
WrapRounds(t, column, init, n) ==
    Scan(LAMBDA x, i : WrapAt(t, column, x, i), init, n)

\* Wrapping.
LEMMA WrapLoop ==
    ASSUME NEW t, NEW column, NEW n \in Nat, NEW T, NEW init, init \in T[0],
           \A i \in 1..n : \A x \in T[i - 1] : WrapAt(t, column, x, i) \in T[i]
    PROVE  WrapRounds(t, column, init, n) \in T[n]
<1> DEFINE g == [i \in 1..n |-> [x \in T[i - 1] |-> WrapAt(t, column, x, i)]]
           G(f) == [i \in 0..n |-> IF i = 0 THEN init ELSE WrapAt(t, column, f[i - 1], i)]
           h == CHOOSE f : f = G(f)
<1>1. \A i \in 1..n : i \in 0..n /\ i - 1 \in 0..n /\ i # 0
  OBVIOUS
<1>2. PICK f : f = Rounds(n, init, g, f) /\ \A i \in 0..n : f[i] \in T[i]
  <2>1. \A i \in 1..n : \A x \in T[i - 1] : g[i][x] \in T[i]
    OBVIOUS
  <2> HIDE DEF g
  <2>2. QED
    BY <2>1, LoopRuns
<1>3. f = G(f)
  <2>1. \A i \in 0..n : i # 0 => i \in 1..n /\ i - 1 \in 0..n
    OBVIOUS
  <2>2. \A i \in 0..n : i # 0 => g[i][f[i - 1]] = WrapAt(t, column, f[i - 1], i)
    BY <1>2, <2>1
  <2> HIDE DEF g
  <2>3. QED
    BY <1>2, <2>2 DEF Rounds
<1>4. h = G(h)
  <2> HIDE DEF G
  <2>1. QED
    BY <1>3
<1> HIDE DEF h
<1>5. h[0] = init /\ \A i \in 1..n : h[i] = WrapAt(t, column, h[i - 1], i)
  <2>1. 0 \in 0..n
    OBVIOUS
  <2>2. QED
    BY <1>1, <1>4, <2>1
<1>6. \A i \in 0..n : h[i] \in T[i]
  BY <1>5, LoopKeeps
<1>7. QED
  BY <1>6 DEF WrapRounds, Scan, h

\* The loop of JoinLinesEx.
JoinExRounds(t, init, n) ==
    Scan(LAMBDA x, i : JoinAt(t, x, i), init, n)

\* Joining.
LEMMA JoinExLoop ==
    ASSUME NEW t, NEW n \in Nat, NEW T, NEW init, init \in T[0],
           \A i \in 1..n : \A x \in T[i - 1] : JoinAt(t, x, i) \in T[i]
    PROVE  JoinExRounds(t, init, n) \in T[n]
<1> DEFINE g == [i \in 1..n |-> [x \in T[i - 1] |-> JoinAt(t, x, i)]]
           G(f) == [i \in 0..n |-> IF i = 0 THEN init ELSE JoinAt(t, f[i - 1], i)]
           h == CHOOSE f : f = G(f)
<1>1. \A i \in 1..n : i \in 0..n /\ i - 1 \in 0..n /\ i # 0
  OBVIOUS
<1>2. PICK f : f = Rounds(n, init, g, f) /\ \A i \in 0..n : f[i] \in T[i]
  <2>1. \A i \in 1..n : \A x \in T[i - 1] : g[i][x] \in T[i]
    OBVIOUS
  <2> HIDE DEF g
  <2>2. QED
    BY <2>1, LoopRuns
<1>3. f = G(f)
  <2>1. \A i \in 0..n : i # 0 => i \in 1..n /\ i - 1 \in 0..n
    OBVIOUS
  <2>2. \A i \in 0..n : i # 0 => g[i][f[i - 1]] = JoinAt(t, f[i - 1], i)
    BY <1>2, <2>1
  <2> HIDE DEF g
  <2>3. QED
    BY <1>2, <2>2 DEF Rounds
<1>4. h = G(h)
  <2> HIDE DEF G
  <2>1. QED
    BY <1>3
<1> HIDE DEF h
<1>5. h[0] = init /\ \A i \in 1..n : h[i] = JoinAt(t, h[i - 1], i)
  <2>1. 0 \in 0..n
    OBVIOUS
  <2>2. QED
    BY <1>1, <1>4, <2>1
<1>6. \A i \in 0..n : h[i] \in T[i]
  BY <1>5, LoopKeeps
<1>7. QED
  BY <1>6 DEF JoinExRounds, Scan, h

\* The loop of JoinLines.
JoinRounds(line, init, n) ==
    Scan(LAMBDA x, i : JoinLine(line, x), init, n)

\* SCI_LINESJOIN.
LEMMA JoinLoop ==
    ASSUME NEW line, NEW n \in Nat, NEW T, NEW init, init \in T[0],
           \A i \in 1..n : \A x \in T[i - 1] : JoinLine(line, x) \in T[i]
    PROVE  JoinRounds(line, init, n) \in T[n]
<1> DEFINE g == [i \in 1..n |-> [x \in T[i - 1] |-> JoinLine(line, x)]]
           G(f) == [i \in 0..n |-> IF i = 0 THEN init ELSE JoinLine(line, f[i - 1])]
           h == CHOOSE f : f = G(f)
<1>1. \A i \in 1..n : i \in 0..n /\ i - 1 \in 0..n /\ i # 0
  OBVIOUS
<1>2. PICK f : f = Rounds(n, init, g, f) /\ \A i \in 0..n : f[i] \in T[i]
  <2>1. \A i \in 1..n : \A x \in T[i - 1] : g[i][x] \in T[i]
    OBVIOUS
  <2> HIDE DEF g
  <2>2. QED
    BY <2>1, LoopRuns
<1>3. f = G(f)
  <2>1. \A i \in 0..n : i # 0 => i \in 1..n /\ i - 1 \in 0..n
    OBVIOUS
  <2>2. \A i \in 0..n : i # 0 => g[i][f[i - 1]] = JoinLine(line, f[i - 1])
    BY <1>2, <2>1
  <2> HIDE DEF g
  <2>3. QED
    BY <1>2, <2>2 DEF Rounds
<1>4. h = G(h)
  <2> HIDE DEF G
  <2>1. QED
    BY <1>3
<1> HIDE DEF h
<1>5. h[0] = init /\ \A i \in 1..n : h[i] = JoinLine(line, h[i - 1])
  <2>1. 0 \in 0..n
    OBVIOUS
  <2>2. QED
    BY <1>1, <1>4, <2>1
<1>6. \A i \in 0..n : h[i] \in T[i]
  BY <1>5, LoopKeeps
<1>7. QED
  BY <1>6 DEF JoinRounds, Scan, h

\* The loop of RemoveBlankLines.
RemoveRounds(merge, init, n) ==
    Scan(LAMBDA x, i : RemoveBlanks(merge, x), init, n)

\* Empty lines.
LEMMA RemoveLoop ==
    ASSUME NEW merge, NEW n \in Nat, NEW T, NEW init, init \in T[0],
           \A i \in 1..n : \A x \in T[i - 1] : RemoveBlanks(merge, x) \in T[i]
    PROVE  RemoveRounds(merge, init, n) \in T[n]
<1> DEFINE g == [i \in 1..n |-> [x \in T[i - 1] |-> RemoveBlanks(merge, x)]]
           G(f) == [i \in 0..n |-> IF i = 0 THEN init ELSE RemoveBlanks(merge, f[i - 1])]
           h == CHOOSE f : f = G(f)
<1>1. \A i \in 1..n : i \in 0..n /\ i - 1 \in 0..n /\ i # 0
  OBVIOUS
<1>2. PICK f : f = Rounds(n, init, g, f) /\ \A i \in 0..n : f[i] \in T[i]
  <2>1. \A i \in 1..n : \A x \in T[i - 1] : g[i][x] \in T[i]
    OBVIOUS
  <2> HIDE DEF g
  <2>2. QED
    BY <2>1, LoopRuns
<1>3. f = G(f)
  <2>1. \A i \in 0..n : i # 0 => i \in 1..n /\ i - 1 \in 0..n
    OBVIOUS
  <2>2. \A i \in 0..n : i # 0 => g[i][f[i - 1]] = RemoveBlanks(merge, f[i - 1])
    BY <1>2, <2>1
  <2> HIDE DEF g
  <2>3. QED
    BY <1>2, <2>2 DEF Rounds
<1>4. h = G(h)
  <2> HIDE DEF G
  <2>1. QED
    BY <1>3
<1> HIDE DEF h
<1>5. h[0] = init /\ \A i \in 1..n : h[i] = RemoveBlanks(merge, h[i - 1])
  <2>1. 0 \in 0..n
    OBVIOUS
  <2>2. QED
    BY <1>1, <1>4, <2>1
<1>6. \A i \in 0..n : h[i] \in T[i]
  BY <1>5, LoopKeeps
<1>7. QED
  BY <1>6 DEF RemoveRounds, Scan, h

\* The loop of Joined.
JoinedRounds(lines, eol, init, n) ==
    Scan(LAMBDA t, i : JoinTo(lines, eol, t, i), init, n)

\* The lines of a file.
LEMMA JoinedLoop ==
    ASSUME NEW lines, NEW eol, NEW n \in Nat, NEW T, NEW init, init \in T[0],
           \A i \in 1..n : \A x \in T[i - 1] : JoinTo(lines, eol, x, i) \in T[i]
    PROVE  JoinedRounds(lines, eol, init, n) \in T[n]
<1> DEFINE g == [i \in 1..n |-> [x \in T[i - 1] |-> JoinTo(lines, eol, x, i)]]
           G(f) == [i \in 0..n |-> IF i = 0 THEN init ELSE JoinTo(lines, eol, f[i - 1], i)]
           h == CHOOSE f : f = G(f)
<1>1. \A i \in 1..n : i \in 0..n /\ i - 1 \in 0..n /\ i # 0
  OBVIOUS
<1>2. PICK f : f = Rounds(n, init, g, f) /\ \A i \in 0..n : f[i] \in T[i]
  <2>1. \A i \in 1..n : \A x \in T[i - 1] : g[i][x] \in T[i]
    OBVIOUS
  <2> HIDE DEF g
  <2>2. QED
    BY <2>1, LoopRuns
<1>3. f = G(f)
  <2>1. \A i \in 0..n : i # 0 => i \in 1..n /\ i - 1 \in 0..n
    OBVIOUS
  <2>2. \A i \in 0..n : i # 0 => g[i][f[i - 1]] = JoinTo(lines, eol, f[i - 1], i)
    BY <1>2, <2>1
  <2> HIDE DEF g
  <2>3. QED
    BY <1>2, <2>2 DEF Rounds
<1>4. h = G(h)
  <2> HIDE DEF G
  <2>1. QED
    BY <1>3
<1> HIDE DEF h
<1>5. h[0] = init /\ \A i \in 1..n : h[i] = JoinTo(lines, eol, h[i - 1], i)
  <2>1. 0 \in 0..n
    OBVIOUS
  <2>2. QED
    BY <1>1, <1>4, <2>1
<1>6. \A i \in 0..n : h[i] \in T[i]
  BY <1>5, LoopKeeps
<1>7. QED
  BY <1>6 DEF JoinedRounds, Scan, h

\* The loop of ModifyLines.
ModifyRounds(open, close, e, first, last) ==
    OverLines(LAMBDA x, line : ModifyLine(open, close, x, line), e, first, last)

\* Modify Lines.
LEMMA ModifyLoop ==
    ASSUME NEW open, NEW close, NEW S, NEW e \in S, NEW first \in Int, NEW last \in Int,
           last - first + 1 \in Nat,
           \A line \in first..last : \A x \in S : ModifyLine(open, close, x, line) \in S
    PROVE  ModifyRounds(open, close, e, first, last) \in S
<1> DEFINE n == last - first + 1
           g == [i \in 1..n |-> [x \in S |-> ModifyLine(open, close, x, first + i - 1)]]
           G(f) == [i \in 0..n |-> IF i = 0 THEN e ELSE ModifyLine(open, close, f[i - 1], first + i - 1)]
           h == CHOOSE f : f = G(f)
<1>1. \A i \in 1..n : i \in 0..n /\ i - 1 \in 0..n /\ i # 0 /\ first + i - 1 \in first..last
  OBVIOUS
<1>2. n \in Nat
  OBVIOUS
<1> HIDE DEF n
<1>3. \A i \in 1..n : \A x \in S : ModifyLine(open, close, x, first + i - 1) \in S
  BY <1>1
<1> DEFINE T == [i \in 0..n |-> S]
<1>4. \A i \in 0..n : T[i] = S
  OBVIOUS
<1> HIDE DEF T
<1>5. 0 \in 0..n /\ e \in T[0]
  BY <1>2, <1>4
<1>6. PICK f : f = Rounds(n, e, g, f) /\ \A i \in 0..n : f[i] \in T[i]
  <2>1. \A i \in 1..n : \A x \in T[i - 1] : g[i][x] \in T[i]
    BY <1>1, <1>3, <1>4
  <2> HIDE DEF g
  <2>2. QED
    BY <1>2, <1>5, <2>1, LoopRuns
<1>7. f = G(f)
  <2>1. \A i \in 0..n : i # 0 => i \in 1..n /\ i - 1 \in 0..n
    BY <1>2
  <2>2. \A i \in 0..n : i # 0 => g[i][f[i - 1]] = ModifyLine(open, close, f[i - 1], first + i - 1)
    BY <1>4, <1>6, <2>1
  <2> HIDE DEF g
  <2>3. QED
    BY <1>6, <2>2 DEF Rounds
<1>8. h = G(h)
  <2> HIDE DEF G
  <2>1. QED
    BY <1>7
<1> HIDE DEF h
<1>9. h[0] = e /\ \A i \in 1..n : h[i] = ModifyLine(open, close, h[i - 1], first + i - 1)
  BY <1>1, <1>5, <1>8
<1>10. \A i \in 0..n : h[i] \in T[i]
  <2>1. \A i \in 1..n : h[i - 1] \in T[i - 1] => h[i] \in T[i]
    BY <1>1, <1>3, <1>4, <1>9
  <2>2. QED
    BY <1>2, <1>4, <1>5, <1>9, <2>1, LoopKeeps
<1>11. h[n] \in S
  BY <1>2, <1>4, <1>10
<1>12. QED
  BY <1>11 DEF ModifyRounds, OverLines, Scan, h, n

\* The loop of ToggleLineComments.
ToggleRounds(column, e, first, last) ==
    OverLines(LAMBDA x, line : ToggleComment(column, x, line), e, first, last)

\* Toggle Line Comments.
LEMMA ToggleLoop ==
    ASSUME NEW column, NEW S, NEW e \in S, NEW first \in Int, NEW last \in Int,
           last - first + 1 \in Nat,
           \A line \in first..last : \A x \in S : ToggleComment(column, x, line) \in S
    PROVE  ToggleRounds(column, e, first, last) \in S
<1> DEFINE n == last - first + 1
           g == [i \in 1..n |-> [x \in S |-> ToggleComment(column, x, first + i - 1)]]
           G(f) == [i \in 0..n |-> IF i = 0 THEN e ELSE ToggleComment(column, f[i - 1], first + i - 1)]
           h == CHOOSE f : f = G(f)
<1>1. \A i \in 1..n : i \in 0..n /\ i - 1 \in 0..n /\ i # 0 /\ first + i - 1 \in first..last
  OBVIOUS
<1>2. n \in Nat
  OBVIOUS
<1> HIDE DEF n
<1>3. \A i \in 1..n : \A x \in S : ToggleComment(column, x, first + i - 1) \in S
  BY <1>1
<1> DEFINE T == [i \in 0..n |-> S]
<1>4. \A i \in 0..n : T[i] = S
  OBVIOUS
<1> HIDE DEF T
<1>5. 0 \in 0..n /\ e \in T[0]
  BY <1>2, <1>4
<1>6. PICK f : f = Rounds(n, e, g, f) /\ \A i \in 0..n : f[i] \in T[i]
  <2>1. \A i \in 1..n : \A x \in T[i - 1] : g[i][x] \in T[i]
    BY <1>1, <1>3, <1>4
  <2> HIDE DEF g
  <2>2. QED
    BY <1>2, <1>5, <2>1, LoopRuns
<1>7. f = G(f)
  <2>1. \A i \in 0..n : i # 0 => i \in 1..n /\ i - 1 \in 0..n
    BY <1>2
  <2>2. \A i \in 0..n : i # 0 => g[i][f[i - 1]] = ToggleComment(column, f[i - 1], first + i - 1)
    BY <1>4, <1>6, <2>1
  <2> HIDE DEF g
  <2>3. QED
    BY <1>6, <2>2 DEF Rounds
<1>8. h = G(h)
  <2> HIDE DEF G
  <2>1. QED
    BY <1>7
<1> HIDE DEF h
<1>9. h[0] = e /\ \A i \in 1..n : h[i] = ToggleComment(column, h[i - 1], first + i - 1)
  BY <1>1, <1>5, <1>8
<1>10. \A i \in 0..n : h[i] \in T[i]
  <2>1. \A i \in 1..n : h[i - 1] \in T[i - 1] => h[i] \in T[i]
    BY <1>1, <1>3, <1>4, <1>9
  <2>2. QED
    BY <1>2, <1>4, <1>5, <1>9, <2>1, LoopKeeps
<1>11. h[n] \in S
  BY <1>2, <1>4, <1>10
<1>12. QED
  BY <1>11 DEF ToggleRounds, OverLines, Scan, h, n

\* The loop of PadWithSpaces.
PadRounds(widest, e, first, last) ==
    OverLines(LAMBDA x, line : PadLine(widest, x, line), e, first, last)

\* Pad With Spaces.
LEMMA PadLoop ==
    ASSUME NEW widest, NEW S, NEW e \in S, NEW first \in Int, NEW last \in Int,
           last - first + 1 \in Nat,
           \A line \in first..last : \A x \in S : PadLine(widest, x, line) \in S
    PROVE  PadRounds(widest, e, first, last) \in S
<1> DEFINE n == last - first + 1
           g == [i \in 1..n |-> [x \in S |-> PadLine(widest, x, first + i - 1)]]
           G(f) == [i \in 0..n |-> IF i = 0 THEN e ELSE PadLine(widest, f[i - 1], first + i - 1)]
           h == CHOOSE f : f = G(f)
<1>1. \A i \in 1..n : i \in 0..n /\ i - 1 \in 0..n /\ i # 0 /\ first + i - 1 \in first..last
  OBVIOUS
<1>2. n \in Nat
  OBVIOUS
<1> HIDE DEF n
<1>3. \A i \in 1..n : \A x \in S : PadLine(widest, x, first + i - 1) \in S
  BY <1>1
<1> DEFINE T == [i \in 0..n |-> S]
<1>4. \A i \in 0..n : T[i] = S
  OBVIOUS
<1> HIDE DEF T
<1>5. 0 \in 0..n /\ e \in T[0]
  BY <1>2, <1>4
<1>6. PICK f : f = Rounds(n, e, g, f) /\ \A i \in 0..n : f[i] \in T[i]
  <2>1. \A i \in 1..n : \A x \in T[i - 1] : g[i][x] \in T[i]
    BY <1>1, <1>3, <1>4
  <2> HIDE DEF g
  <2>2. QED
    BY <1>2, <1>5, <2>1, LoopRuns
<1>7. f = G(f)
  <2>1. \A i \in 0..n : i # 0 => i \in 1..n /\ i - 1 \in 0..n
    BY <1>2
  <2>2. \A i \in 0..n : i # 0 => g[i][f[i - 1]] = PadLine(widest, f[i - 1], first + i - 1)
    BY <1>4, <1>6, <2>1
  <2> HIDE DEF g
  <2>3. QED
    BY <1>6, <2>2 DEF Rounds
<1>8. h = G(h)
  <2> HIDE DEF G
  <2>1. QED
    BY <1>7
<1> HIDE DEF h
<1>9. h[0] = e /\ \A i \in 1..n : h[i] = PadLine(widest, h[i - 1], first + i - 1)
  BY <1>1, <1>5, <1>8
<1>10. \A i \in 0..n : h[i] \in T[i]
  <2>1. \A i \in 1..n : h[i - 1] \in T[i - 1] => h[i] \in T[i]
    BY <1>1, <1>3, <1>4, <1>9
  <2>2. QED
    BY <1>2, <1>4, <1>5, <1>9, <2>1, LoopKeeps
<1>11. h[n] \in S
  BY <1>2, <1>4, <1>10
<1>12. QED
  BY <1>11 DEF PadRounds, OverLines, Scan, h, n

\* The loop of StripFirstCharacter.
StripFirstRounds(e, first, last) ==
    OverLines(StripFirstOf, e, first, last)

\* Strip First Character.
LEMMA StripFirstLoop ==
    ASSUME NEW S, NEW e \in S, NEW first \in Int, NEW last \in Int,
           last - first + 1 \in Nat,
           \A line \in first..last : \A x \in S : StripFirstOf(x, line) \in S
    PROVE  StripFirstRounds(e, first, last) \in S
<1> DEFINE n == last - first + 1
           g == [i \in 1..n |-> [x \in S |-> StripFirstOf(x, first + i - 1)]]
           G(f) == [i \in 0..n |-> IF i = 0 THEN e ELSE StripFirstOf(f[i - 1], first + i - 1)]
           h == CHOOSE f : f = G(f)
<1>1. \A i \in 1..n : i \in 0..n /\ i - 1 \in 0..n /\ i # 0 /\ first + i - 1 \in first..last
  OBVIOUS
<1>2. n \in Nat
  OBVIOUS
<1> HIDE DEF n
<1>3. \A i \in 1..n : \A x \in S : StripFirstOf(x, first + i - 1) \in S
  BY <1>1
<1> DEFINE T == [i \in 0..n |-> S]
<1>4. \A i \in 0..n : T[i] = S
  OBVIOUS
<1> HIDE DEF T
<1>5. 0 \in 0..n /\ e \in T[0]
  BY <1>2, <1>4
<1>6. PICK f : f = Rounds(n, e, g, f) /\ \A i \in 0..n : f[i] \in T[i]
  <2>1. \A i \in 1..n : \A x \in T[i - 1] : g[i][x] \in T[i]
    BY <1>1, <1>3, <1>4
  <2> HIDE DEF g
  <2>2. QED
    BY <1>2, <1>5, <2>1, LoopRuns
<1>7. f = G(f)
  <2>1. \A i \in 0..n : i # 0 => i \in 1..n /\ i - 1 \in 0..n
    BY <1>2
  <2>2. \A i \in 0..n : i # 0 => g[i][f[i - 1]] = StripFirstOf(f[i - 1], first + i - 1)
    BY <1>4, <1>6, <2>1
  <2> HIDE DEF g
  <2>3. QED
    BY <1>6, <2>2 DEF Rounds
<1>8. h = G(h)
  <2> HIDE DEF G
  <2>1. QED
    BY <1>7
<1> HIDE DEF h
<1>9. h[0] = e /\ \A i \in 1..n : h[i] = StripFirstOf(h[i - 1], first + i - 1)
  BY <1>1, <1>5, <1>8
<1>10. \A i \in 0..n : h[i] \in T[i]
  <2>1. \A i \in 1..n : h[i - 1] \in T[i - 1] => h[i] \in T[i]
    BY <1>1, <1>3, <1>4, <1>9
  <2>2. QED
    BY <1>2, <1>4, <1>5, <1>9, <2>1, LoopKeeps
<1>11. h[n] \in S
  BY <1>2, <1>4, <1>10
<1>12. QED
  BY <1>11 DEF StripFirstRounds, OverLines, Scan, h, n

\* The loop of StripLastCharacter.
StripLastRounds(e, first, last) ==
    OverLines(StripLastOf, e, first, last)

\* Strip Last Character.
LEMMA StripLastLoop ==
    ASSUME NEW S, NEW e \in S, NEW first \in Int, NEW last \in Int,
           last - first + 1 \in Nat,
           \A line \in first..last : \A x \in S : StripLastOf(x, line) \in S
    PROVE  StripLastRounds(e, first, last) \in S
<1> DEFINE n == last - first + 1
           g == [i \in 1..n |-> [x \in S |-> StripLastOf(x, first + i - 1)]]
           G(f) == [i \in 0..n |-> IF i = 0 THEN e ELSE StripLastOf(f[i - 1], first + i - 1)]
           h == CHOOSE f : f = G(f)
<1>1. \A i \in 1..n : i \in 0..n /\ i - 1 \in 0..n /\ i # 0 /\ first + i - 1 \in first..last
  OBVIOUS
<1>2. n \in Nat
  OBVIOUS
<1> HIDE DEF n
<1>3. \A i \in 1..n : \A x \in S : StripLastOf(x, first + i - 1) \in S
  BY <1>1
<1> DEFINE T == [i \in 0..n |-> S]
<1>4. \A i \in 0..n : T[i] = S
  OBVIOUS
<1> HIDE DEF T
<1>5. 0 \in 0..n /\ e \in T[0]
  BY <1>2, <1>4
<1>6. PICK f : f = Rounds(n, e, g, f) /\ \A i \in 0..n : f[i] \in T[i]
  <2>1. \A i \in 1..n : \A x \in T[i - 1] : g[i][x] \in T[i]
    BY <1>1, <1>3, <1>4
  <2> HIDE DEF g
  <2>2. QED
    BY <1>2, <1>5, <2>1, LoopRuns
<1>7. f = G(f)
  <2>1. \A i \in 0..n : i # 0 => i \in 1..n /\ i - 1 \in 0..n
    BY <1>2
  <2>2. \A i \in 0..n : i # 0 => g[i][f[i - 1]] = StripLastOf(f[i - 1], first + i - 1)
    BY <1>4, <1>6, <2>1
  <2> HIDE DEF g
  <2>3. QED
    BY <1>6, <2>2 DEF Rounds
<1>8. h = G(h)
  <2> HIDE DEF G
  <2>1. QED
    BY <1>7
<1> HIDE DEF h
<1>9. h[0] = e /\ \A i \in 1..n : h[i] = StripLastOf(h[i - 1], first + i - 1)
  BY <1>1, <1>5, <1>8
<1>10. \A i \in 0..n : h[i] \in T[i]
  <2>1. \A i \in 1..n : h[i - 1] \in T[i - 1] => h[i] \in T[i]
    BY <1>1, <1>3, <1>4, <1>9
  <2>2. QED
    BY <1>2, <1>4, <1>5, <1>9, <2>1, LoopKeeps
<1>11. h[n] \in S
  BY <1>2, <1>4, <1>10
<1>12. QED
  BY <1>11 DEF StripLastRounds, OverLines, Scan, h, n

\* The loop of StripTrailingBlanks.
StripBlanksRounds(e, first, last) ==
    OverLines(StripBlanksOf, e, first, last)

\* Strip Trailing Blanks.
LEMMA StripBlanksLoop ==
    ASSUME NEW S, NEW e \in S, NEW first \in Int, NEW last \in Int,
           last - first + 1 \in Nat,
           \A line \in first..last : \A x \in S : StripBlanksOf(x, line) \in S
    PROVE  StripBlanksRounds(e, first, last) \in S
<1> DEFINE n == last - first + 1
           g == [i \in 1..n |-> [x \in S |-> StripBlanksOf(x, first + i - 1)]]
           G(f) == [i \in 0..n |-> IF i = 0 THEN e ELSE StripBlanksOf(f[i - 1], first + i - 1)]
           h == CHOOSE f : f = G(f)
<1>1. \A i \in 1..n : i \in 0..n /\ i - 1 \in 0..n /\ i # 0 /\ first + i - 1 \in first..last
  OBVIOUS
<1>2. n \in Nat
  OBVIOUS
<1> HIDE DEF n
<1>3. \A i \in 1..n : \A x \in S : StripBlanksOf(x, first + i - 1) \in S
  BY <1>1
<1> DEFINE T == [i \in 0..n |-> S]
<1>4. \A i \in 0..n : T[i] = S
  OBVIOUS
<1> HIDE DEF T
<1>5. 0 \in 0..n /\ e \in T[0]
  BY <1>2, <1>4
<1>6. PICK f : f = Rounds(n, e, g, f) /\ \A i \in 0..n : f[i] \in T[i]
  <2>1. \A i \in 1..n : \A x \in T[i - 1] : g[i][x] \in T[i]
    BY <1>1, <1>3, <1>4
  <2> HIDE DEF g
  <2>2. QED
    BY <1>2, <1>5, <2>1, LoopRuns
<1>7. f = G(f)
  <2>1. \A i \in 0..n : i # 0 => i \in 1..n /\ i - 1 \in 0..n
    BY <1>2
  <2>2. \A i \in 0..n : i # 0 => g[i][f[i - 1]] = StripBlanksOf(f[i - 1], first + i - 1)
    BY <1>4, <1>6, <2>1
  <2> HIDE DEF g
  <2>3. QED
    BY <1>6, <2>2 DEF Rounds
<1>8. h = G(h)
  <2> HIDE DEF G
  <2>1. QED
    BY <1>7
<1> HIDE DEF h
<1>9. h[0] = e /\ \A i \in 1..n : h[i] = StripBlanksOf(h[i - 1], first + i - 1)
  BY <1>1, <1>5, <1>8
<1>10. \A i \in 0..n : h[i] \in T[i]
  <2>1. \A i \in 1..n : h[i - 1] \in T[i - 1] => h[i] \in T[i]
    BY <1>1, <1>3, <1>4, <1>9
  <2>2. QED
    BY <1>2, <1>4, <1>5, <1>9, <2>1, LoopKeeps
<1>11. h[n] \in S
  BY <1>2, <1>4, <1>10
<1>12. QED
  BY <1>11 DEF StripBlanksRounds, OverLines, Scan, h, n

\* The loop of BeautifyCPS.
PromptRounds(e, first, last) ==
    OverLines(CompletePrompt, e, first, last)

\* The prompts of .cps files.
LEMMA PromptLoop ==
    ASSUME NEW S, NEW e \in S, NEW first \in Int, NEW last \in Int,
           last - first + 1 \in Nat,
           \A line \in first..last : \A x \in S : CompletePrompt(x, line) \in S
    PROVE  PromptRounds(e, first, last) \in S
<1> DEFINE n == last - first + 1
           g == [i \in 1..n |-> [x \in S |-> CompletePrompt(x, first + i - 1)]]
           G(f) == [i \in 0..n |-> IF i = 0 THEN e ELSE CompletePrompt(f[i - 1], first + i - 1)]
           h == CHOOSE f : f = G(f)
<1>1. \A i \in 1..n : i \in 0..n /\ i - 1 \in 0..n /\ i # 0 /\ first + i - 1 \in first..last
  OBVIOUS
<1>2. n \in Nat
  OBVIOUS
<1> HIDE DEF n
<1>3. \A i \in 1..n : \A x \in S : CompletePrompt(x, first + i - 1) \in S
  BY <1>1
<1> DEFINE T == [i \in 0..n |-> S]
<1>4. \A i \in 0..n : T[i] = S
  OBVIOUS
<1> HIDE DEF T
<1>5. 0 \in 0..n /\ e \in T[0]
  BY <1>2, <1>4
<1>6. PICK f : f = Rounds(n, e, g, f) /\ \A i \in 0..n : f[i] \in T[i]
  <2>1. \A i \in 1..n : \A x \in T[i - 1] : g[i][x] \in T[i]
    BY <1>1, <1>3, <1>4
  <2> HIDE DEF g
  <2>2. QED
    BY <1>2, <1>5, <2>1, LoopRuns
<1>7. f = G(f)
  <2>1. \A i \in 0..n : i # 0 => i \in 1..n /\ i - 1 \in 0..n
    BY <1>2
  <2>2. \A i \in 0..n : i # 0 => g[i][f[i - 1]] = CompletePrompt(f[i - 1], first + i - 1)
    BY <1>4, <1>6, <2>1
  <2> HIDE DEF g
  <2>3. QED
    BY <1>6, <2>2 DEF Rounds
<1>8. h = G(h)
  <2> HIDE DEF G
  <2>1. QED
    BY <1>7
<1> HIDE DEF h
<1>9. h[0] = e /\ \A i \in 1..n : h[i] = CompletePrompt(h[i - 1], first + i - 1)
  BY <1>1, <1>5, <1>8
<1>10. \A i \in 0..n : h[i] \in T[i]
  <2>1. \A i \in 1..n : h[i - 1] \in T[i - 1] => h[i] \in T[i]
    BY <1>1, <1>3, <1>4, <1>9
  <2>2. QED
    BY <1>2, <1>4, <1>5, <1>9, <2>1, LoopKeeps
<1>11. h[n] \in S
  BY <1>2, <1>4, <1>10
<1>12. QED
  BY <1>11 DEF PromptRounds, OverLines, Scan, h, n

-----------------------------------------------------------------------------
(* Commands that write a text anew, character by character. *)

\* The line end that the CR before position i of a text has begun.
Pending(mode, t, i) ==
    IF mode = <<CR, LF>> /\ i \in 1..Len(t) /\ t[i] = CR THEN <<LF>> ELSE <<>>

\* What has been written of the text up to position i has its line ends.
Copied(mode, t, i, out) == out \in Text /\ Good(mode, out \o Pending(mode, t, i))

\* Appending is putting together.
LEMMA AppendIs ==
    ASSUME NEW s \in Text, NEW c \in Char
    PROVE  Append(s, c) = s \o <<c>> /\ Append(s, c) \in Text /\ <<c>> \in Text
  BY AppendIsConcat, AppendProperties DEF Text

\* The empty text.
LEMMA NothingIs ==
    ASSUME NEW mode
    PROVE  /\ Good(mode, <<>>) /\ <<>> \in Text /\ <<>> \in Plain
           /\ \A s \in Text : s \o <<>> = s
<1>1. <<>> \in Plain /\ <<>> \in Text
  BY DEF Plain, Text
<1>2. \A s \in Text : s \o <<>> = s
  BY ConcatEmptySeq DEF Text
<1>3. QED
  BY <1>1, <1>2, PlainGood

\* A character that is no line end fits any form.
LEMMA CharGood ==
    ASSUME NEW mode, NEW c \in Char, ~IsEnd(c)
    PROVE  Good(mode, <<c>>) /\ <<c>> \in Plain
<1>1. c \in Nat \ {0, CR, LF}
  BY DEF Char, IsEnd
<1>2. <<c>> \in Plain
  BY <1>1 DEF Plain
<1>3. QED
  BY <1>2, PlainGood

\* Before a character that is no line end, and at the end of the text, no line end is open.
LEMMA NothingPending ==
    ASSUME NEW mode \in EOLModes, NEW t, Good(mode, t)
    PROVE  /\ \A i \in 1..Len(t) : ~IsEnd(t[i]) =>
                Pending(mode, t, i - 1) = <<>> /\ Pending(mode, t, i) = <<>>
           /\ Pending(mode, t, Len(t)) = <<>> /\ Pending(mode, t, 0) = <<>>
<1>1. t \in Text /\ Len(t) \in Nat
  BY TextIs DEF Good
<1>2. ASSUME mode = <<CR, LF>>, NEW i \in 1..Len(t), t[i] = CR
      PROVE  i < Len(t) /\ IsEnd(t[i + 1])
  BY <1>2 DEF Good, Paired, IsEnd
<1>3. ASSUME NEW i \in 1..Len(t), ~IsEnd(t[i])
      PROVE  Pending(mode, t, i - 1) = <<>> /\ Pending(mode, t, i) = <<>>
  <2>1. t[i] # CR /\ (i - 1) + 1 = i
    BY <1>3 DEF IsEnd
  <2>2. ~(mode = <<CR, LF>> /\ i - 1 \in 1..Len(t) /\ t[i - 1] = CR)
    BY <1>2, <1>3, <2>1
  <2>3. QED
    BY <2>1, <2>2 DEF Pending
<1>4. ~(mode = <<CR, LF>> /\ Len(t) \in 1..Len(t) /\ t[Len(t)] = CR)
  BY <1>1, <1>2
<1>5. ~(0 \in 1..Len(t))
  OBVIOUS
<1>6. QED
  BY <1>3, <1>4, <1>5 DEF Pending

\* In place of a character that is no line end, any text may be written.
LEMMA CopyPlain ==
    ASSUME NEW mode \in EOLModes, NEW t, Good(mode, t), NEW i \in 1..Len(t), ~IsEnd(t[i]),
           NEW out, Copied(mode, t, i - 1, out), NEW s, Good(mode, s)
    PROVE  Good(mode, out) /\ Copied(mode, t, i, out) /\ Copied(mode, t, i, out \o s)
<1>1. Pending(mode, t, i - 1) = <<>> /\ Pending(mode, t, i) = <<>>
  BY NothingPending
<1>2. out \in Text /\ out \o <<>> = out
  BY NothingIs DEF Copied
<1>3. Good(mode, out)
  BY <1>1, <1>2 DEF Copied
<1>4. Good(mode, out \o s)
  BY <1>3, ConcatGood
<1>5. out \o s \in Text /\ (out \o s) \o <<>> = out \o s
  BY <1>4, NothingIs DEF Good
<1>6. QED
  BY <1>1, <1>2, <1>3, <1>4, <1>5 DEF Copied

\* A line end is written as it is.
LEMMA CopyEnd ==
    ASSUME NEW mode \in EOLModes, NEW t, Good(mode, t), NEW i \in 1..Len(t), IsEnd(t[i]),
           NEW out, Copied(mode, t, i - 1, out)
    PROVE  Copied(mode, t, i, Append(out, t[i]))
<1>1. t \in Text /\ out \in Text /\ Len(t) \in Nat /\ t[i] \in Char
  BY TextIs DEF Good, Copied
<1>2. Append(out, t[i]) = out \o <<t[i]>> /\ Append(out, t[i]) \in Text
  BY <1>1, AppendIs
<1>3. out \o <<>> = out /\ Append(out, t[i]) \o <<>> = Append(out, t[i])
  BY <1>1, <1>2, NothingIs
<1>4. t[i] = CR \/ t[i] = LF
  BY DEF IsEnd
<1>5. CASE mode = <<CR, LF>>
  <2>1. /\ t[i] = LF => i > 1 /\ t[i - 1] = CR
        /\ i > 1 /\ t[i - 1] = CR => t[i] = LF
    <3>1. Paired(t)
      BY <1>5 DEF Good
    <3>2. i > 1 => i - 1 \in 1..Len(t) /\ (i - 1) + 1 = i
      OBVIOUS
    <3>3. QED
      BY <3>1, <3>2 DEF Paired
  <2>2. CASE t[i] = LF
    <3>1. Pending(mode, t, i - 1) = <<LF>>
      <4>1. i - 1 \in 1..Len(t)
        BY <1>1, <2>1, <2>2
      <4>2. QED
        BY <1>5, <2>1, <2>2, <4>1 DEF Pending
    <3>2. Pending(mode, t, i) = <<>>
      BY <2>2 DEF Pending, CR, LF
    <3>3. QED
      BY <1>2, <1>3, <2>2, <3>1, <3>2 DEF Copied
  <2>3. CASE t[i] = CR
    <3>1. Pending(mode, t, i - 1) = <<>>
      <4>1. ~(i - 1 \in 1..Len(t) /\ t[i - 1] = CR)
        <5>1. i - 1 \in 1..Len(t) => i > 1
          OBVIOUS
        <5>2. QED
          BY <2>1, <2>3, <5>1 DEF CR, LF
      <4>2. QED
        BY <4>1 DEF Pending
    <3>2. Pending(mode, t, i) = <<LF>>
      BY <1>5, <2>3 DEF Pending
    <3>3. Good(mode, out)
      BY <1>3, <3>1 DEF Copied
    <3>4. Good(mode, out \o mode)
      BY <3>3, ModeGood, ConcatGood
    <3>5. (out \o <<CR>>) \o <<LF>> = out \o (<<CR>> \o <<LF>>)
      <4>1. <<CR>> \in Text /\ <<LF>> \in Text
        BY DEF Text, Char, CR, LF
      <4>2. QED
        BY <1>1, <4>1, ConcatAssociative DEF Text
    <3>6. <<CR>> \o <<LF>> = <<CR, LF>>
      <4> DEFINE a == <<CR>>
                 b == <<LF>>
                 c == <<CR, LF>>
                 ab == a \o b
      <4>1. /\ a \in Text /\ Len(a) = 1 /\ a[1] = CR
            /\ b \in Text /\ Len(b) = 1 /\ b[1] = LF
            /\ c \in Text /\ Len(c) = 2 /\ c[1] = CR /\ c[2] = LF
        BY DEF Text, Char, CR, LF
      <4> HIDE DEF a, b, c
      <4>2. /\ ab \in Text /\ Len(ab) = Len(a) + Len(b)
            /\ \A j \in 1..Len(a) : ab[j] = a[j]
            /\ \A j \in 1..Len(b) : ab[Len(a) + j] = b[j]
        BY <4>1, ConcatIs
      <4> HIDE DEF ab
      <4>3. Len(ab) = 2 /\ ab[1] = CR /\ ab[2] = LF
        BY <4>1, <4>2
      <4>4. \A j \in 1..2 : ab[j] = c[j]
        <5>1. \A j \in 1..2 : j = 1 \/ j = 2
          OBVIOUS
        <5>2. QED
          BY <4>1, <4>3, <5>1
      <4>5. ab = c
        BY <4>1, <4>2, <4>3, <4>4, SameText
      <4>6. QED
        BY <4>5 DEF ab, a, b, c
    <3>7. QED
      BY <1>2, <1>5, <2>3, <3>2, <3>4, <3>5, <3>6 DEF Copied
  <2>4. QED
    BY <1>4, <2>2, <2>3
<1>6. CASE mode # <<CR, LF>>
  <2>1. Pending(mode, t, i - 1) = <<>> /\ Pending(mode, t, i) = <<>>
    BY <1>6 DEF Pending
  <2>2. mode = <<t[i]>>
    BY <1>4, <1>6, Forms DEF Good, Lacks
  <2>3. Good(mode, out)
    BY <1>3, <2>1 DEF Copied
  <2>4. Good(mode, out \o mode)
    BY <2>3, ModeGood, ConcatGood
  <2>5. QED
    BY <1>2, <1>3, <2>1, <2>2, <2>4 DEF Copied
<1>7. QED
  BY <1>5, <1>6

\* A character is written as it is.
LEMMA CopyChar ==
    ASSUME NEW mode \in EOLModes, NEW t, Good(mode, t), NEW i \in 1..Len(t),
           NEW out, Copied(mode, t, i - 1, out)
    PROVE  Copied(mode, t, i, Append(out, t[i]))
<1>1. t[i] \in Char /\ out \in Text
  BY TextIs DEF Good, Copied
<1>2. CASE ~IsEnd(t[i])
  <2>1. Good(mode, <<t[i]>>) /\ Append(out, t[i]) = out \o <<t[i]>>
    BY <1>1, <1>2, CharGood, AppendIs
  <2>2. QED
    BY <1>2, <2>1, CopyPlain
<1>3. QED
  BY <1>2, CopyEnd

\* When all is written, the text is as it should be.
LEMMA CopyDone ==
    ASSUME NEW mode \in EOLModes, NEW t, Good(mode, t), NEW out
    PROVE  /\ Copied(mode, t, Len(t), out) => Good(mode, out)
           /\ Good(mode, out) => Copied(mode, t, 0, out)
<1>1. Pending(mode, t, Len(t)) = <<>> /\ Pending(mode, t, 0) = <<>>
  BY NothingPending
<1>2. out \in Text => out \o <<>> = out
  BY NothingIs
<1>3. QED
  BY <1>1, <1>2 DEF Copied, Good

\* Blanks.
LEMMA BlanksGood ==
    ASSUME NEW mode, NEW n \in Int
    PROVE  Blanks(n) \in Plain /\ Good(mode, Blanks(n))
<1>1. PICK k \in Nat : 1..n = 1..k
  <2>1. CASE n >= 0
    BY <2>1
  <2>2. CASE ~(n >= 0)
    <3>1. 1..n = 1..0
      BY <2>2
    <3>2. QED
      BY <3>1
  <2>3. QED
    BY <2>1, <2>2
<1>2. SP \in Nat \ {0, CR, LF}
  BY DEF SP, CR, LF
<1>3. [i \in 1..k |-> SP] \in Seq(Nat \ {0, CR, LF})
  BY <1>2, SeqDef
<1>4. Blanks(n) \in Plain
  BY <1>1, <1>3 DEF Blanks, Plain
<1>5. QED
  BY <1>4, PlainGood

\* The distance to the next tab stop is a number.
LEMMA ToTabStopIs ==
    ASSUME NEW column \in Nat
    PROVE  ToTabStop(column) \in Int
<1>1. TabWidth \in Nat /\ TabWidth > 0
  BY TabWidthAssumption
<1>2. column % TabWidth \in Int
  BY <1>1
<1>3. QED
  BY <1>1, <1>2 DEF ToTabStop

\* Tabs into blanks.
LEMMA TabsToSpacesGood ==
    ASSUME NEW mode \in EOLModes, NEW e \in Editors(mode), NEW onlyIndent \in BOOLEAN
    PROVE  TabsToSpaces(e, onlyIndent) \in Editors(mode)
<1> DEFINE t == Block(e)
           R == [out : Text, column : Nat, lineStart : BOOLEAN, modified : BOOLEAN]
           T == [i \in 0..Len(t) |-> {x \in R : Copied(mode, t, i, x.out)}]
           init == [out |-> <<>>, column |-> 0, lineStart |-> TRUE, modified |-> FALSE]
           conv == TabsRounds(t, onlyIndent, init, Len(t))
<1>1. Good(mode, t) /\ Len(t) \in Nat /\ \A i \in 1..Len(t) : t[i] \in Char
  BY BlockIs, TextIs DEF Good
<1> HIDE DEF t
<1>2. \A i \in 0..Len(t) : T[i] = {x \in R : Copied(mode, t, i, x.out)}
  OBVIOUS
<1> HIDE DEF T
<1>3. init \in T[0]
  <2>1. init \in R
    BY NothingIs
  <2>2. Copied(mode, t, 0, init.out)
    BY <1>1, NothingIs, CopyDone
  <2> HIDE DEF init
  <2>3. QED
    BY <1>1, <1>2, <2>1, <2>2
<1> HIDE DEF init
<1>4. ASSUME NEW i \in 1..Len(t), NEW x \in T[i - 1]
      PROVE  TabToSpaces(t, onlyIndent, x, i) \in T[i]
  <2>1. i - 1 \in 0..Len(t) /\ i \in 0..Len(t)
    BY <1>1
  <2>2. x \in R /\ Copied(mode, t, i - 1, x.out)
    BY <1>2, <2>1
  <2> DEFINE new == TabToSpaces(t, onlyIndent, x, i)
  <2>3. CASE t[i] = TAB /\ (x.lineStart \/ ~onlyIndent)
    <3> DEFINE s == Blanks(ToTabStop(x.column))
    <3>1. Good(mode, s)
      BY <2>2, ToTabStopIs, BlanksGood
    <3>2. ~IsEnd(t[i])
      BY <2>3 DEF IsEnd, TAB, CR, LF
    <3>3. Copied(mode, t, i, x.out \o s)
      BY <1>1, <2>2, <3>1, <3>2, CopyPlain
    <3> HIDE DEF s
    <3>4. x.out \o s \in Text
      BY <3>3 DEF Copied
    <3>5. new
          = [x EXCEPT !.out = x.out \o s, !.column = 0, !.modified = TRUE]
      BY <2>3 DEF TabToSpaces, s
    <3> HIDE DEF new
    <3>6. new \in R /\ new.out = x.out \o s
      BY <2>2, <3>4, <3>5
    <3>7. Copied(mode, t, i, new.out)
      BY <3>3, <3>6
    <3> HIDE DEF R
    <3>8. QED
      BY <1>2, <2>1, <3>6, <3>7 DEF new
  <2>4. CASE ~(t[i] = TAB /\ (x.lineStart \/ ~onlyIndent))
    <3>1. Copied(mode, t, i, Append(x.out, t[i]))
      BY <1>1, <2>2, CopyChar
    <3>2. Append(x.out, t[i]) \in Text
      BY <3>1 DEF Copied
    <3> DEFINE column == IF IsEnd(t[i]) THEN 0 ELSE x.column + 1
               lineStart == IsEnd(t[i]) \/ (x.lineStart /\ t[i] = SP)
    <3>3. column \in Nat /\ lineStart \in BOOLEAN
      <4>1. IsEnd(t[i]) \in BOOLEAN
        BY DEF IsEnd
      <4>2. QED
        BY <2>2, <4>1
    <3>4. new
          = [x EXCEPT !.out = Append(x.out, t[i]), !.column = column, !.lineStart = lineStart]
      BY <2>4 DEF TabToSpaces
    <3> HIDE DEF column, lineStart, new
    <3>5. new \in R /\ new.out = Append(x.out, t[i])
      BY <2>2, <3>2, <3>3, <3>4
    <3>6. QED
      BY <1>2, <2>1, <3>1, <3>5, ZenonT(30) DEF new
  <2>5. QED
    BY <2>3, <2>4
<1>5. conv \in T[Len(t)]
  BY <1>1, <1>3, <1>4, TabsLoop
<1> HIDE DEF conv
<1>6. Good(mode, conv.out)
  BY <1>1, <1>2, <1>5, CopyDone
<1>7. ReplaceBlock(e, conv.out) \in Editors(mode)
  BY <1>6, ReplaceBlockGood
<1>8. QED
  BY <1>7 DEF TabsToSpaces, TabsRounds, conv, init, t

\* Blanks into tabs.
LEMMA SpacesToTabsGood ==
    ASSUME NEW mode \in EOLModes, NEW e \in Editors(mode), NEW onlyIndent \in BOOLEAN
    PROVE  SpacesToTabs(e, onlyIndent) \in Editors(mode)
<1> DEFINE t == Block(e)
           R == [out : Text, space : Plain, column : Nat, lineStart : BOOLEAN, modified : BOOLEAN]
           Held(x, i) == x.space # <<>> => i \in 1..Len(t) /\ ~IsEnd(t[i])
           T == [i \in 0..Len(t) |-> {x \in R : Copied(mode, t, i, x.out) /\ Held(x, i)}]
           init == [out |-> <<>>, space |-> <<>>, column |-> 0, lineStart |-> TRUE, modified |-> FALSE]
           conv == SpacesRounds(t, onlyIndent, init, Len(t))
<1>1. Good(mode, t) /\ Len(t) \in Nat /\ \A i \in 1..Len(t) : t[i] \in Char
  BY BlockIs, TextIs DEF Good
<1> HIDE DEF t
<1>2. \A i \in 0..Len(t) : T[i] = {x \in R : Copied(mode, t, i, x.out) /\ Held(x, i)}
  OBVIOUS
<1> HIDE DEF T
<1>3. init \in T[0]
  <2>1. init \in R /\ init.space = <<>>
    BY NothingIs
  <2>2. Copied(mode, t, 0, init.out)
    BY <1>1, NothingIs, CopyDone
  <2> HIDE DEF init
  <2>3. QED
    BY <1>1, <1>2, <2>1, <2>2
<1> HIDE DEF init
<1>4. ASSUME NEW i \in 0..Len(t), NEW x \in T[i] PROVE Copied(mode, t, i, x.out \o x.space)
  <2>1. x \in R /\ Copied(mode, t, i, x.out) /\ Held(x, i)
    BY <1>2
  <2>2. CASE x.space = <<>>
    BY <2>1, <2>2, NothingIs
  <2>3. CASE x.space # <<>>
    <3>1. Pending(mode, t, i) = <<>>
      BY <1>1, <2>1, <2>3, NothingPending
    <3>2. Good(mode, x.out)
      BY <2>1, <3>1, NothingIs DEF Copied
    <3>3. Good(mode, x.out \o x.space)
      BY <2>1, <3>2, PlainGood, ConcatGood
    <3>4. x.out \o x.space \in Text
      BY <3>3 DEF Good
    <3>5. QED
      BY <3>1, <3>3, <3>4, NothingIs DEF Copied
  <2>4. QED
    BY <2>2, <2>3
<1>5. ASSUME NEW i \in 1..Len(t), NEW x \in T[i - 1]
      PROVE  SpaceToTab(t, onlyIndent, x, i) \in T[i]
  <2>1. i - 1 \in 0..Len(t) /\ i \in 0..Len(t)
    BY <1>1
  <2>2. x \in R /\ Copied(mode, t, i - 1, x.out) /\ Copied(mode, t, i - 1, x.out \o x.space)
    BY <1>2, <1>4, <2>1
  <2>3. x.space \in Plain /\ Len(x.space) \in Nat /\ x.space \in Seq(Nat \ {0, CR, LF})
    BY <2>2, LenProperties DEF Plain
  <2> DEFINE space == Append(x.space, t[i])
             stop == Len(space) = ToTabStop(x.column) \/ t[i] = TAB
             blank == IF Len(space) > 1 \/ IsBlank(CharAfter(t, i)) THEN TAB ELSE t[i]
             new == SpaceToTab(t, onlyIndent, x, i)
  <2>4. IsBlank(t[i]) => ~IsEnd(t[i]) /\ t[i] \in Nat \ {0, CR, LF}
    BY DEF IsBlank, IsEnd, SP, TAB, CR, LF
  <2>5. CASE ~(IsBlank(t[i]) /\ (x.lineStart \/ ~onlyIndent))
    <3> DEFINE out == Append(x.out \o x.space, t[i])
               column == IF IsEnd(t[i]) THEN 0 ELSE x.column + Len(x.space) + 1
               lineStart == IsEnd(t[i])
    <3>1. Copied(mode, t, i, out)
      BY <1>1, <2>2, CopyChar
    <3>2. out \in Text
      BY <3>1 DEF Copied
    <3>3. column \in Nat /\ lineStart \in BOOLEAN /\ <<>> \in Plain
      <4>1. x.column \in Nat /\ Len(x.space) \in Nat
        BY <2>2, <2>3
      <4>2. column \in Nat
        BY <4>1
      <4>3. lineStart \in BOOLEAN
        BY DEF IsEnd
      <4>4. QED
        BY <4>2, <4>3, NothingIs
    <3>4. new = [x EXCEPT !.out = out, !.column = column, !.space = <<>>, !.lineStart = lineStart]
      BY <2>5 DEF SpaceToTab
    <3> HIDE DEF out, column, lineStart, new
    <3>5. new \in R /\ new.out = out /\ new.space = <<>>
      BY <2>2, <3>2, <3>3, <3>4
    <3>6. QED
      BY <1>2, <2>1, <3>1, <3>5 DEF new
  <2>6. CASE IsBlank(t[i]) /\ (x.lineStart \/ ~onlyIndent) /\ stop
    <3> DEFINE out == Append(x.out, blank)
               modified == x.modified \/ t[i] # blank
    <3>1. blank \in Char /\ ~IsEnd(blank)
      BY <2>4, <2>6 DEF TAB, Char, IsEnd, CR, LF
    <3> HIDE DEF blank
    <3>2. x.out \in Text /\ out = x.out \o <<blank>> /\ Good(mode, <<blank>>)
      BY <2>2, <3>1, AppendIs, CharGood
    <3>3. Copied(mode, t, i, out)
      BY <1>1, <2>2, <2>4, <2>6, <3>2, CopyPlain
    <3>4. out \in Text /\ <<>> \in Plain /\ modified \in BOOLEAN
      BY <2>2, <3>3, NothingIs DEF Copied
    <3>5. new = [x EXCEPT !.out = out, !.column = 0, !.space = <<>>, !.modified = modified]
      BY <2>6 DEF SpaceToTab, blank
    <3> HIDE DEF out, new, modified
    <3>6. new \in R /\ new.out = out /\ new.space = <<>>
      BY <2>2, <3>4, <3>5
    <3>7. QED
      BY <1>2, <2>1, <3>3, <3>6 DEF new
  <2>7. CASE IsBlank(t[i]) /\ (x.lineStart \/ ~onlyIndent) /\ ~stop
    <3>1. space \in Plain
      BY <2>3, <2>4, <2>7, AppendProperties DEF Plain
    <3>2. Copied(mode, t, i, x.out)
      BY <1>1, <2>2, <2>4, <2>7, CopyPlain
    <3>3. new = [x EXCEPT !.space = space]
      BY <2>7 DEF SpaceToTab
    <3> HIDE DEF space, new
    <3>4. new \in R /\ new.out = x.out
      BY <2>2, <3>1, <3>3
    <3>5. Held(new, i)
      BY <2>4, <2>7
    <3>6. QED
      BY <1>2, <2>1, <3>2, <3>4, <3>5 DEF new
  <2>8. QED
    BY <2>5, <2>6, <2>7
<1>6. conv \in T[Len(t)]
  BY <1>1, <1>3, <1>5, SpacesLoop
<1> HIDE DEF conv
<1>7. Copied(mode, t, Len(t), conv.out \o conv.space)
  BY <1>1, <1>4, <1>6
<1>8. Good(mode, conv.out \o conv.space)
  BY <1>1, <1>7, CopyDone
<1>9. ReplaceBlock(e, conv.out \o conv.space) \in Editors(mode)
  BY <1>8, ReplaceBlockGood
<1>10. QED
  BY <1>9 DEF SpacesToTabs, SpacesRounds, conv, init, t

\* Fewer blanks.
LEMMA CompressSpacesGood ==
    ASSUME NEW mode \in EOLModes, NEW e \in Editors(mode)
    PROVE  CompressSpaces(e) \in Editors(mode)
<1> DEFINE from == IF HasSelection(e) THEN SelectionStart(e) ELSE 0
           to == IF HasSelection(e) THEN SelectionEnd(e) ELSE Len(e.text)
           t == TextRange(e.text, from, to)
           R == [out : Text, modified : BOOLEAN, lineStart : BOOLEAN]
           T == [i \in 0..Len(t) |-> {x \in R : Copied(mode, t, i, x.out)}]
           lineStart == from = PositionFromLine(e.text, LineFromPosition(e.text, from))
           init == [out |-> <<>>, modified |-> FALSE, lineStart |-> lineStart]
           conv == CompressRounds(t, init, Len(t))
           lineEnd == to = LineEndPosition(e.text, LineFromPosition(e.text, to))
           trimmed == lineEnd /\ conv.out # <<>> /\ conv.out[Len(conv.out)] = SP
           out == IF trimmed THEN SubSeq(conv.out, 1, Len(conv.out) - 1) ELSE conv.out
<1>1. e.text \in Text /\ Good(mode, e.text) /\ Len(e.text) \in Nat
  BY EditorIs
<1>2. Valid(e.text, from) /\ Valid(e.text, to) /\ from <= to
  <2>1. /\ Valid(e.text, SelectionStart(e)) /\ Valid(e.text, SelectionEnd(e))
        /\ SelectionStart(e) <= SelectionEnd(e)
    BY SelectionIs
  <2>2. Valid(e.text, 0) /\ Valid(e.text, Len(e.text)) /\ 0 <= Len(e.text)
    BY <1>1, EndsValid
  <2>3. QED
    BY <2>1, <2>2
<1> HIDE DEF from, to
<1>3. Good(mode, t) /\ Len(t) \in Nat /\ \A i \in 1..Len(t) : t[i] \in Char
  <2>1. Good(mode, t)
    BY <1>1, <1>2, RangeGood
  <2> HIDE DEF t
  <2>2. QED
    BY <2>1, TextIs DEF Good
<1> HIDE DEF t
<1>4. \A i \in 0..Len(t) : T[i] = {x \in R : Copied(mode, t, i, x.out)}
  OBVIOUS
<1> HIDE DEF T
<1>5. init \in T[0]
  <2>1. lineStart \in BOOLEAN
    OBVIOUS
  <2> HIDE DEF lineStart
  <2>2. init \in R
    BY <2>1, NothingIs
  <2>3. Copied(mode, t, 0, init.out)
    BY <1>3, NothingIs, CopyDone
  <2> HIDE DEF init
  <2>4. QED
    BY <1>3, <1>4, <2>2, <2>3
<1> HIDE DEF init
<1>6. ASSUME NEW i \in 1..Len(t), NEW x \in T[i - 1] PROVE CompressSpace(t, x, i) \in T[i]
  <2> DEFINE new == CompressSpace(t, x, i)
  <2>1. i - 1 \in 0..Len(t) /\ i \in 0..Len(t)
    BY <1>3
  <2>2. x \in R /\ Copied(mode, t, i - 1, x.out)
    BY <1>4, <2>1
  <2>3. CASE ~IsBlank(t[i])
    <3>1. Copied(mode, t, i, Append(x.out, t[i]))
      BY <1>3, <2>2, CopyChar
    <3>2. Append(x.out, t[i]) \in Text
      BY <3>1 DEF Copied
    <3> DEFINE b == IsEnd(t[i])
    <3>3. b \in BOOLEAN
      BY DEF IsEnd
    <3>4. new = [x EXCEPT !.out = Append(x.out, t[i]), !.lineStart = b]
      BY <2>3 DEF CompressSpace
    <3> HIDE DEF new, b
    <3>5. new \in R /\ new.out = Append(x.out, t[i])
      BY <2>2, <3>2, <3>3, <3>4
    <3>6. new \in T[i]
      BY <1>4, <2>1, <3>1, <3>5, ZenonT(30)
    <3>7. QED
      BY <3>6 DEF new
  <2>4. CASE IsBlank(t[i])
    <3>1. ~IsEnd(t[i])
      BY <2>4 DEF IsBlank, IsEnd, SP, TAB, CR, LF
    <3>2. SP \in Char /\ ~IsEnd(SP)
      BY DEF IsEnd, SP, Char, CR, LF
    <3>3. Append(x.out, SP) = x.out \o <<SP>> /\ Good(mode, <<SP>>)
      BY <2>2, <3>2, AppendIs, CharGood
    <3>4. Copied(mode, t, i, x.out) /\ Copied(mode, t, i, Append(x.out, SP))
      BY <1>3, <2>2, <3>1, <3>3, CopyPlain
    <3>5. Append(x.out, SP) \in Text
      BY <3>4 DEF Copied
    <3>6. PICK b \in BOOLEAN : b = (x.modified \/ t[i] = TAB)
      BY <2>2
    <3>7. \/ new = [x EXCEPT !.modified = TRUE]
          \/ new = [x EXCEPT !.out = Append(x.out, SP), !.modified = b]
      BY <2>4, <3>6 DEF CompressSpace
    <3> HIDE DEF new
    <3>8. new \in R /\ new.out \in {x.out, Append(x.out, SP)}
      BY <2>2, <3>5, <3>7
    <3>9. QED
      BY <1>4, <2>1, <3>4, <3>8, ZenonT(30) DEF new
  <2>5. QED
    BY <2>3, <2>4
<1>7. conv \in T[Len(t)]
  BY <1>3, <1>5, <1>6, CompressLoop
<1> HIDE DEF conv
<1>8. Good(mode, conv.out)
  BY <1>3, <1>4, <1>7, CopyDone
<1>9. Good(mode, out)
  <2>1. CASE trimmed
    <3> DEFINE o == conv.out
    <3>1. o \in Text /\ Len(o) \in Nat /\ o # <<>> /\ o[Len(o)] = SP
      BY <1>8, <2>1, TextIs DEF Good
    <3> HIDE DEF o
    <3>2. Len(o) # 0
      BY <3>1, EmptySeq DEF Text
    <3>3. PICK k : k = Len(o) - 1
      OBVIOUS
    <3>4. k \in 0..Len(o) /\ 0 <= k /\ k + 1 = Len(o)
      BY <3>1, <3>2, <3>3
    <3>5. Valid(o, 0) /\ Valid(o, k)
      BY <3>1, <3>4 DEF Valid, SP, LF
    <3>6. Good(mode, TextRange(o, 0, k))
      BY <1>8, <3>4, <3>5, RangeGood DEF o
    <3>7. TextRange(o, 0, k) = SubSeq(o, 1, Len(o) - 1)
      BY <3>3 DEF TextRange
    <3>8. QED
      BY <2>1, <3>6, <3>7 DEF o
  <2>2. CASE ~trimmed
    BY <1>8, <2>2
  <2>3. QED
    BY <2>1, <2>2
<1> HIDE DEF out, trimmed
<1> DEFINE r == Replaced(e.text, from, to, out)
<1>10. ReplaceTarget(e, from, to, out) \in Editors(mode)
  BY <1>1, <1>2, <1>9, ReplaceTargetGood
<1>11. SelectLike(e, r, from, from + Len(out)) \in Editors(mode)
  <2>1. out \in Text /\ Len(out) \in Nat
    BY <1>9, TextIs DEF Good
  <2>2. Valid(out, Len(out)) /\ from <= from
    BY <1>2, <2>1, EndsValid DEF Valid
  <2>3. Good(mode, r) /\ Valid(r, from) /\ Valid(r, from + Len(out))
    BY <1>1, <1>2, <1>9, <2>2, ReplacedIs
  <2> HIDE DEF r
  <2>4. QED
    BY <2>3, SelectLikeGood
<1> DEFINE done == IF ~conv.modified /\ ~trimmed THEN e
                   ELSE IF HasSelection(e) THEN SelectLike(e, r, from, from + Len(out))
                   ELSE ReplaceTarget(e, from, to, out)
<1>12. CompressSpaces(e) = done
  BY ZenonT(60) DEF CompressSpaces, CompressRounds, from, to, t, lineStart, init, conv, lineEnd, trimmed, out
<1>13. done \in Editors(mode)
  <2> HIDE DEF r
  <2>1. QED
    BY <1>10, <1>11
<1>14. QED
  BY <1>12, <1>13

\* Wrapping.
LEMMA WrapRoundsGood ==
    ASSUME eolMode \in EOLModes, NEW t, Good(eolMode, t), NEW column
    PROVE  LET init == [out |-> <<>>, length |-> 0, modified |-> FALSE]
           IN  Good(eolMode, WrapRounds(t, column, init, Len(t)).out)
<1> DEFINE R == [out : Text, length : Nat, modified : BOOLEAN]
           T == [i \in 0..Len(t) |-> {x \in R : Copied(eolMode, t, i, x.out)}]
           init == [out |-> <<>>, length |-> 0, modified |-> FALSE]
           conv == WrapRounds(t, column, init, Len(t))
<1>1. Good(eolMode, t) /\ Len(t) \in Nat /\ \A i \in 1..Len(t) : t[i] \in Char
  BY TextIs DEF Good
<1>2. \A i \in 0..Len(t) : T[i] = {x \in R : Copied(eolMode, t, i, x.out)}
  OBVIOUS
<1> HIDE DEF T
<1>3. init \in T[0]
  <2>1. init \in R
    BY NothingIs
  <2>2. Copied(eolMode, t, 0, init.out)
    BY <1>1, NothingIs, CopyDone
  <2> HIDE DEF init
  <2>3. QED
    BY <1>1, <1>2, <2>1, <2>2
<1> HIDE DEF init
<1>4. ASSUME NEW i \in 1..Len(t), NEW x \in T[i - 1] PROVE WrapAt(t, column, x, i) \in T[i]
  <2> DEFINE new == WrapAt(t, column, x, i)
  <2>1. i - 1 \in 0..Len(t) /\ i \in 0..Len(t)
    BY <1>1
  <2>2. x \in R /\ Copied(eolMode, t, i - 1, x.out)
    BY <1>2, <2>1
  <2>3. CASE ~IsBlank(t[i])
    <3>1. Copied(eolMode, t, i, Append(x.out, t[i]))
      BY <1>1, <2>2, CopyChar
    <3>2. Append(x.out, t[i]) \in Text
      BY <3>1 DEF Copied
    <3>3. PICK n \in Nat : n = IF IsEnd(t[i]) THEN 0 ELSE x.length + 1
      BY <2>2
    <3>4. new = [x EXCEPT !.out = Append(x.out, t[i]), !.length = n]
      BY <2>3, <3>3 DEF WrapAt
    <3> HIDE DEF new
    <3>5. new \in R /\ new.out = Append(x.out, t[i])
      BY <2>2, <3>2, <3>4
    <3>6. QED
      BY <1>2, <2>1, <3>1, <3>5, ZenonT(30) DEF new
  <2>4. CASE IsBlank(t[i])
    <3>1. ~IsEnd(t[i])
      BY <2>4 DEF IsBlank, IsEnd, SP, TAB, CR, LF
    <3>2. SP \in Char /\ ~IsEnd(SP)
      BY DEF IsEnd, SP, Char, CR, LF
    <3>3. Append(x.out, SP) = x.out \o <<SP>> /\ Good(eolMode, <<SP>>) /\ Good(eolMode, eolMode)
      BY <2>2, <3>2, AppendIs, CharGood, ModeGood
    <3>4. /\ Copied(eolMode, t, i, x.out) /\ Copied(eolMode, t, i, Append(x.out, SP))
          /\ Copied(eolMode, t, i, x.out \o eolMode)
      BY <1>1, <2>2, <3>1, <3>3, CopyPlain
    <3>5. Append(x.out, SP) \in Text /\ x.out \o eolMode \in Text
      BY <3>4 DEF Copied
    <3>6. PICK n \in Nat : n = x.length + 1
      BY <2>2
    <3>7. \/ new = [x EXCEPT !.modified = TRUE]
          \/ new = x
          \/ new = [out |-> x.out \o eolMode, length |-> 0, modified |-> TRUE]
          \/ new = [x EXCEPT !.out = Append(x.out, SP), !.length = n]
      BY <2>4, <3>6 DEF WrapAt
    <3> HIDE DEF new
    <3>8. ASSUME new = [out |-> x.out \o eolMode, length |-> 0, modified |-> TRUE]
          PROVE  new \in R /\ new.out = x.out \o eolMode
      BY <3>5, <3>8
    <3>9. ASSUME new = [x EXCEPT !.out = Append(x.out, SP), !.length = n]
          PROVE  new \in R /\ new.out = Append(x.out, SP)
      BY <2>2, <3>5, <3>9
    <3>10. ASSUME new = [x EXCEPT !.modified = TRUE]
           PROVE  new \in R /\ new.out = x.out
      BY <2>2, <3>10
    <3>11. new \in R /\ Copied(eolMode, t, i, new.out)
      BY <2>2, <3>4, <3>7, <3>8, <3>9, <3>10
    <3>12. QED
      BY <1>2, <2>1, <3>11 DEF new
  <2>5. QED
    BY <2>3, <2>4
<1>5. conv \in T[Len(t)]
  BY <1>1, <1>3, <1>4, WrapLoop
<1> HIDE DEF conv
<1>6. Good(eolMode, conv.out)
  BY <1>1, <1>2, <1>5, CopyDone
<1>7. QED
  BY <1>6 DEF conv, init

LEMMA WrapToColumnGood ==
    ASSUME eolMode \in EOLModes, NEW e \in Editors(eolMode), NEW column
    PROVE  WrapToColumn(e, column) \in Editors(eolMode)
<1> DEFINE t == Block(e)
           init == [out |-> <<>>, length |-> 0, modified |-> FALSE]
           conv == WrapRounds(t, column, init, Len(t))
<1>1. Good(eolMode, t)
  BY BlockIs
<1>2. Good(eolMode, conv.out)
  BY <1>1, WrapRoundsGood
<1> HIDE DEF conv
<1>3. ReplaceBlock(e, conv.out) \in Editors(eolMode)
  BY <1>2, ReplaceBlockGood
<1>4. QED
  BY <1>3 DEF WrapToColumn, WrapRounds, conv

\* The three places of a line: where it starts, where it ends, and the start of the next.
LEMMA LineIs ==
    ASSUME NEW t \in Text, NEW line \in Nat
    PROVE  LET p == PositionFromLine(t, line)
               q == LineEndPosition(t, line)
               next == PositionFromLine(t, line + 1)
           IN  /\ Valid(t, p) /\ Valid(t, q) /\ Valid(t, next)
               /\ p <= q /\ q <= next /\ p \in Nat /\ q \in Nat /\ next \in Nat
               /\ InLine(t, line, p) /\ InLine(t, line, q)
<1> DEFINE p == PositionFromLine(t, line)
           q == LineEndPosition(t, line)
           next == PositionFromLine(t, line + 1)
<1>1. PICK k : k = line + 1
  OBVIOUS
<1>2. k \in Nat /\ Len(t) \in Nat
  BY <1>1, TextIs
<1>3. Valid(t, PositionFromLine(t, k)) /\ PositionFromLine(t, k) \in 0..Len(t)
  BY <1>2, PositionIs
<1>4. Valid(t, next) /\ next \in 0..Len(t)
  BY <1>1, <1>3
<1>5. Valid(t, p) /\ p \in 0..Len(t)
  BY PositionIs
<1>6. q \in 0..Len(t) /\ p <= q /\ q <= next /\ Valid(t, q)
  BY LineEndIs
<1> HIDE DEF p, q, next
<1>7. p \in p..q /\ q \in p..q
  BY <1>2, <1>5, <1>6
<1>8. QED
  BY <1>2, <1>4, <1>5, <1>6, <1>7 DEF InLine, p, q, next

\* Joining lines.
LEMMA JoinLinesExGood ==
    ASSUME eolMode \in EOLModes, NEW e \in Editors(eolMode)
    PROVE  JoinLinesEx(e) \in Editors(eolMode)
<1> DEFINE t == Block(e)
           R == [out : {s \in Text : Good(eolMode, s)}, done : Nat, modified : BOOLEAN]
           T == [i \in 0..Len(t) |-> R]
           init == [out |-> <<>>, done |-> 0, modified |-> FALSE]
           join == JoinExRounds(t, init, Len(t))
<1>1. Good(eolMode, t) /\ Len(t) \in Nat /\ \A i \in 1..Len(t) : t[i] \in Char
  BY BlockIs, TextIs DEF Good
<1> HIDE DEF t
<1>2. \A i \in 0..Len(t) : T[i] = R
  OBVIOUS
<1> HIDE DEF T
<1>3. init \in T[0]
  <2>1. init \in R
    BY NothingIs
  <2> HIDE DEF init, R
  <2>2. QED
    BY <1>1, <1>2, <2>1
<1> HIDE DEF init
<1>4. ASSUME NEW i \in 1..Len(t), NEW x \in T[i - 1] PROVE JoinAt(t, x, i) \in T[i]
  <2> DEFINE new == JoinAt(t, x, i)
             one == IF t[i] = CR /\ CharAfter(t, i) = LF THEN i + 1 ELSE i
             upto == {j \in one..Len(t) : \A k \in one + 1..j : IsEnd(t[k])}
             all == Max(upto)
             put == CASE all = Len(t) -> x.out
                      [] x.out = <<>> -> eolMode
                      [] OTHER        -> x.out \o eolMode \o eolMode
  <2>1. i - 1 \in 0..Len(t) /\ i \in 0..Len(t)
    BY <1>1
  <2>2. x \in R /\ T[i] = R
    BY <1>2, <2>1
  <2>3. x.out \in Text /\ Good(eolMode, x.out) /\ x.done \in Nat /\ x.modified \in BOOLEAN
    BY <2>2
  <2>4. one \in 1..Len(t)
    <3>1. CharAfter(t, i) = LF => i < Len(t)
      BY DEF CharAfter, LF
    <3>2. QED
      BY <1>1, <3>1
  <2>5. all \in Nat
    <3> HIDE DEF one
    <3>1. upto \in SUBSET (0..Len(t)) /\ one \in upto
      BY <1>1, <2>4
    <3> HIDE DEF upto
    <3>2. all \in upto
      BY <1>1, <3>1, MaxOf
    <3> HIDE DEF all
    <3>3. all \in 0..Len(t)
      BY <3>1, <3>2
    <3>4. QED
      BY <1>1, <3>3
  <2>6. CASE i <= x.done
    BY <2>2, <2>6 DEF JoinAt
  <2>7. CASE ~(i <= x.done) /\ ~IsEnd(t[i])
    <3>1. Append(x.out, t[i]) = x.out \o <<t[i]>> /\ Good(eolMode, <<t[i]>>)
      BY <1>1, <2>3, <2>7, AppendIs, CharGood
    <3>2. Good(eolMode, Append(x.out, t[i])) /\ Append(x.out, t[i]) \in Text
      BY <2>3, <3>1, ConcatGood DEF Good
    <3>3. new = [x EXCEPT !.out = Append(x.out, t[i])]
      BY <2>7 DEF JoinAt
    <3> HIDE DEF new
    <3>4. new \in R
      BY <2>2, <3>2, <3>3
    <3>5. QED
      BY <2>2, <3>4 DEF new
  <2>8. CASE ~(i <= x.done) /\ IsEnd(t[i]) /\ all = one /\ one < Len(t)
    <3>1. SP \in Char /\ ~IsEnd(SP)
      BY DEF IsEnd, SP, Char, CR, LF
    <3>2. Append(x.out, SP) = x.out \o <<SP>> /\ Good(eolMode, <<SP>>)
      BY <2>3, <3>1, AppendIs, CharGood
    <3>3. Good(eolMode, Append(x.out, SP)) /\ Append(x.out, SP) \in Text
      BY <2>3, <3>2, ConcatGood DEF Good
    <3>4. new = [out |-> Append(x.out, SP), done |-> one, modified |-> TRUE] /\ one \in Nat
      BY <2>4, <2>8 DEF JoinAt
    <3> HIDE DEF new, one
    <3>5. new \in R
      BY <3>3, <3>4
    <3>6. QED
      BY <2>2, <3>5 DEF new
  <2>9. CASE ~(i <= x.done) /\ IsEnd(t[i]) /\ ~(all = one /\ one < Len(t))
    <3>1. Good(eolMode, eolMode)
      BY ModeGood
    <3>2. Good(eolMode, x.out \o eolMode)
      BY <2>3, <3>1, ConcatGood
    <3>3. Good(eolMode, (x.out \o eolMode) \o eolMode)
      BY <3>1, <3>2, ConcatGood
    <3>4. put \in {x.out, eolMode, x.out \o eolMode \o eolMode}
      OBVIOUS
    <3>5. Good(eolMode, put) /\ put \in Text
      BY <2>3, <3>1, <3>3, <3>4 DEF Good
    <3> DEFINE modified == x.modified \/ all > one
    <3>6. modified \in BOOLEAN
      BY <2>3
    <3>7. new = [out |-> put, done |-> all, modified |-> modified]
      BY <2>9 DEF JoinAt
    <3> HIDE DEF new, put, all, modified
    <3>8. new \in R
      BY <2>5, <3>5, <3>6, <3>7
    <3>9. QED
      BY <2>2, <3>8 DEF new
  <2>10. QED
    BY <2>6, <2>7, <2>8, <2>9
<1>5. join \in T[Len(t)]
  BY <1>1, <1>3, <1>4, JoinExLoop
<1> HIDE DEF join
<1>6. Good(eolMode, join.out)
  <2>1. Len(t) \in 0..Len(t)
    BY <1>1
  <2>2. join \in R
    BY <1>2, <1>5, <2>1
  <2>3. QED
    BY <2>2
<1>7. ReplaceBlock(e, join.out) \in Editors(eolMode)
  BY <1>6, ReplaceBlockGood
<1>8. QED
  BY <1>7 DEF JoinLinesEx, JoinExRounds, join, init, t

\* SCI_LINESJOIN and what follows it.
LEMMA JoinLinesGood ==
    ASSUME eolMode \in EOLModes, NEW e \in Editors(eolMode)
    PROVE  JoinLines(e) \in Editors(eolMode)
<1> DEFINE line == FirstLine(e)
           R == [e : Editors(eolMode), end : Int]
           n == LineCount(e.text)
           T == [i \in 0..n |-> R]
           init == [e |-> e, end |-> SelectionEnd(e)]
           join == JoinRounds(line, init, n)
<1>1. line \in Nat /\ n \in Nat /\ SelectionEnd(e) \in Int
  <2>1. e.text \in Text /\ Len(e.text) \in Nat
    BY EditorIs
  <2>2. QED
    BY <2>1, SelectionIs, LineFromIs DEF LineCount
<1> HIDE DEF line, n
<1>2. \A i \in 0..n : T[i] = R
  OBVIOUS
<1> HIDE DEF T
<1>3. init \in T[0]
  <2>1. 0 \in 0..n /\ init \in R
    BY <1>1
  <2> HIDE DEF init, R
  <2>2. QED
    BY <1>2, <2>1
<1>4. ASSUME NEW i \in 1..n, NEW x \in T[i - 1] PROVE JoinLine(line, x) \in T[i]
  <2> DEFINE new == JoinLine(line, x)
             p == LineEndPosition(x.e.text, line)
             next == PositionFromLine(x.e.text, line + 1)
             gap == IF p > 0 /\ x.e.text[p] = SP THEN <<>> ELSE <<SP>>
             done == ReplaceTarget(x.e, p, next, gap)
             end == x.end - (next - p) + Len(gap)
  <2>1. x \in R /\ T[i] = R
    <3>1. i - 1 \in 0..n /\ i \in 0..n
      BY <1>1
    <3>2. QED
      BY <1>2, <3>1
  <2>2. x.e \in Editors(eolMode) /\ x.e.text \in Text /\ x.end \in Int
    BY <2>1, EditorIs
  <2>3. /\ Valid(x.e.text, p) /\ Valid(x.e.text, next) /\ p <= next /\ p \in Nat /\ next \in Nat
    BY <1>1, <2>2, LineIs
  <2>4. Good(eolMode, gap) /\ Len(gap) \in Nat
    <3>1. SP \in Char /\ ~IsEnd(SP)
      BY DEF IsEnd, SP, Char, CR, LF
    <3>2. Good(eolMode, <<SP>>) /\ Good(eolMode, <<>>)
      BY <3>1, CharGood, NothingIs
    <3>3. Good(eolMode, gap)
      BY <3>2
    <3> HIDE DEF gap
    <3>4. QED
      BY <3>3, TextIs DEF Good
  <2> HIDE DEF p, next, gap
  <2>5. done \in Editors(eolMode)
    BY <2>2, <2>3, <2>4, ReplaceTargetGood
  <2>6. end \in Int
    BY <2>2, <2>3, <2>4
  <2> HIDE DEF done, end
  <2>7. [e |-> done, end |-> end] \in R
    BY <2>5, <2>6
  <2>8. new = x \/ new = [e |-> done, end |-> end]
    BY DEF JoinLine, p, next, gap, done, end
  <2> HIDE DEF new, R
  <2>9. new \in T[i]
    BY <2>1, <2>7, <2>8
  <2>10. QED
    BY <2>9 DEF new
<1> HIDE DEF init
<1>5. join \in T[n]
  BY <1>1, <1>3, <1>4, JoinLoop
<1> HIDE DEF join
<1>6. join.e \in Editors(eolMode)
  <2>1. n \in 0..n
    BY <1>1
  <2>2. join \in R
    BY <1>2, <1>5, <2>1
  <2>3. QED
    BY <2>2
<1>7. JoinLinesEx(join.e) \in Editors(eolMode)
  BY <1>6, JoinLinesExGood
<1>8. QED
  BY <1>7 DEF JoinLines, JoinRounds, join, init, line, n

-----------------------------------------------------------------------------
(* Commands that go from line to line. *)

\* The lines of the selection.
LEMMA LinesAre ==
    ASSUME NEW mode, NEW e \in Editors(mode)
    PROVE  /\ FirstLine(e) \in Nat /\ FirstLine(e) \in Int
           /\ LastSelectedLine(e) \in Nat /\ LastSelectedLine(e) \in Int
           /\ LastSelectedLine(e) + 1 \in Nat
           /\ LastSelectedLine(e) - FirstLine(e) + 1 \in Nat
           /\ \A line \in FirstLine(e)..LastSelectedLine(e) : line \in Nat
<1>1. FirstLine(e) \in Nat /\ LastSelectedLine(e) \in Nat /\ FirstLine(e) <= LastSelectedLine(e)
  BY SelectionIs, LastSelectedIs
<1>2. QED
  BY <1>1

\* Modify Lines.
LEMMA ModifyLinesGood ==
    ASSUME NEW mode \in EOLModes, NEW e \in Editors(mode), NEW open \in Plain, NEW close \in Plain
    PROVE  ModifyLines(e, open, close) \in Editors(mode)
<1> DEFINE first == FirstLine(e)
           last == LastSelectedLine(e)
           done == ModifyRounds(open, close, e, first, last)
<1>1. /\ first \in Nat /\ first \in Int /\ last \in Int /\ last + 1 \in Nat
      /\ last - first + 1 \in Nat /\ \A line \in first..last : line \in Nat
  BY LinesAre
<1> HIDE DEF first, last
<1>2. Good(mode, open) /\ Good(mode, close)
  BY PlainGood
<1>3. ASSUME NEW line \in Nat, NEW x \in Editors(mode)
      PROVE  ModifyLine(open, close, x, line) \in Editors(mode)
  <2> DEFINE from == PositionFromLine(x.text, line)
             before == ReplaceTarget(x, from, from, open)
             end == LineEndPosition(before.text, line)
  <2>1. x.text \in Text
    BY EditorIs
  <2>2. Valid(x.text, from) /\ from <= from
    BY <2>1, LineIs
  <2> HIDE DEF from
  <2>3. before \in Editors(mode)
    BY <1>2, <2>2, ReplaceTargetGood
  <2> HIDE DEF before
  <2>4. before.text \in Text
    BY <2>3, EditorIs
  <2>5. Valid(before.text, end) /\ end <= end
    BY <2>4, LineIs
  <2> HIDE DEF end
  <2>6. ReplaceTarget(before, end, end, close) \in Editors(mode)
    BY <1>2, <2>3, <2>5, ReplaceTargetGood
  <2>7. QED
    BY <2>6 DEF ModifyLine, from, before, end
<1>4. done \in Editors(mode)
  BY <1>1, <1>3, ModifyLoop
<1> HIDE DEF done
<1>5. done.text \in Text /\ Good(mode, done.text)
  BY <1>4, EditorIs
<1>6. PICK k \in Nat : k = last + 1
  BY <1>1
<1>7. Valid(done.text, PositionFromLine(done.text, first)) /\ Valid(done.text, PositionFromLine(done.text, k))
  BY <1>1, <1>5, PositionIs
<1>8. SelectLike(done, done.text, PositionFromLine(done.text, first), PositionFromLine(done.text, k))
      \in Editors(mode)
  BY <1>5, <1>7, SelectLikeGood
<1>9. QED
  BY <1>4, <1>6, <1>8 DEF ModifyLines, ModifyRounds, done, first, last

\* Enclose Selection.
LEMMA EncloseSelectionGood ==
    ASSUME NEW mode \in EOLModes, NEW e \in Editors(mode), NEW open \in Plain, NEW close \in Plain
    PROVE  EncloseSelection(e, open, close) \in Editors(mode)
<1> DEFINE start == SelectionStart(e)
           end == SelectionEnd(e)
           from == start + Len(open)
           to == end + Len(open)
           opened == ReplaceTarget(e, start, start, open)
           done == ReplaceTarget(opened, to, to, close)
<1>1. e.text \in Text /\ Good(mode, e.text) /\ Good(mode, open) /\ Good(mode, close)
  BY EditorIs, PlainGood
<1>2. /\ start \in Nat /\ end \in Nat /\ Valid(e.text, start) /\ Valid(e.text, end)
      /\ start <= end /\ start <= start
  <2>1. Len(e.text) \in Nat
    BY EditorIs
  <2>2. QED
    BY <2>1, SelectionIs
<1>3. Len(open) \in Nat /\ Len(close) \in Nat
  BY LenProperties DEF Plain
<1> HIDE DEF start, end
<1> DEFINE d == Replaced(e.text, start, start, <<>>)
<1>4. /\ opened \in Editors(mode) /\ opened.text = Replaced(d, start, start, open)
      /\ Valid(opened.text, from)
  <2>1. opened \in Editors(mode)
    BY <1>1, <1>2, ReplaceTargetGood
  <2>2. opened.text = Replaced(d, start, start, open)
    BY DEF ReplaceTarget, InsertAt, DeleteRange, SetSel
  <2>3. Valid(opened.text, from)
    BY <1>1, <1>2, ReplaceTargetGood
  <2>4. QED
    BY <2>1, <2>2, <2>3
<1>5. Good(mode, d) /\ Valid(d, start) /\ Valid(d, end)
  <2>1. /\ Good(mode, d)
        /\ \A p : Valid(e.text, p) /\ p >= start => Valid(d, p - (start - start) + Len(<<>>))
    BY <1>1, <1>2, NothingIs, ReplacedIs
  <2> HIDE DEF d
  <2>2. /\ start - (start - start) + Len(<<>>) = start
        /\ end - (start - start) + Len(<<>>) = end
    BY <1>2
  <2>3. QED
    BY <1>2, <2>1, <2>2
<1> HIDE DEF d
<1>6. Valid(opened.text, to)
  <2> DEFINE r == Replaced(d, start, start, open)
  <2>1. \A p : Valid(d, p) /\ p >= start => Valid(r, p - (start - start) + Len(open))
    BY <1>1, <1>2, <1>5, ReplacedIs
  <2>2. end - (start - start) + Len(open) = to
    BY <1>2, <1>3
  <2> HIDE DEF r
  <2>3. Valid(r, to)
    BY <1>2, <1>5, <2>1, <2>2
  <2>4. QED
    BY <1>4, <2>3 DEF r
<1>7. from \in Nat /\ to \in Nat /\ from <= to /\ to <= to
  BY <1>2, <1>3
<1> HIDE DEF from, to, opened
<1> DEFINE c == Replaced(opened.text, to, to, <<>>)
<1>8. Good(mode, opened.text)
  BY <1>4, EditorIs
<1>9. done \in Editors(mode) /\ done.text = Replaced(c, to, to, close)
  <2>1. done \in Editors(mode)
    BY <1>1, <1>4, <1>6, <1>7, ReplaceTargetGood
  <2>2. done.text = Replaced(c, to, to, close)
    BY DEF ReplaceTarget, InsertAt, DeleteRange, SetSel
  <2>3. QED
    BY <2>1, <2>2
<1>10. Good(mode, c) /\ Valid(c, from) /\ Valid(c, to)
  BY <1>4, <1>6, <1>7, <1>8, NothingIs, ReplacedIs
<1> HIDE DEF c
<1>11. Valid(done.text, from) /\ Valid(done.text, to)
  BY <1>1, <1>7, <1>9, <1>10, ReplacedIs
<1> HIDE DEF done
<1>12. Good(mode, done.text)
  BY <1>9, EditorIs
<1>13. /\ SelectLike(done, done.text, from, to) \in Editors(mode)
       /\ SetSel(done.text, from, from) \in Editors(mode)
  BY <1>11, <1>12, SelectLikeGood, SetSelGood
<1>14. QED
  BY <1>13 DEF EncloseSelection, done, opened, from, to, start, end

\* Strip First Character, round by round.
LEMMA StripFirstOfGood ==
    ASSUME NEW mode \in EOLModes, NEW e \in Editors(mode), NEW line \in Nat
    PROVE  StripFirstOf(e, line) \in Editors(mode)
<1> DEFINE p == PositionFromLine(e.text, line)
           q == LineEndPosition(e.text, line)
<1>1. e.text \in Text
  BY EditorIs
<1>2. Valid(e.text, p) /\ p \in Nat /\ q \in Nat
  BY <1>1, LineIs
<1>3. ASSUME q > p PROVE DeleteRange(e, p, p + 1) \in Editors(mode)
  <2>1. p + 1 \in p..q /\ p <= p + 1
    BY <1>2, <1>3
  <2>2. Valid(e.text, p + 1)
    BY <1>1, <2>1, InLineIs DEF InLine
  <2> HIDE DEF p
  <2>3. QED
    BY <1>2, <2>1, <2>2, DeleteRangeGood
<1>4. QED
  BY <1>3 DEF StripFirstOf

\* Strip Last Character, round by round.
LEMMA StripLastOfGood ==
    ASSUME NEW mode \in EOLModes, NEW e \in Editors(mode), NEW line \in Nat
    PROVE  StripLastOf(e, line) \in Editors(mode)
<1> DEFINE p == PositionFromLine(e.text, line)
           q == LineEndPosition(e.text, line)
<1>1. e.text \in Text
  BY EditorIs
<1>2. Valid(e.text, q) /\ p \in Nat /\ q \in Nat
  BY <1>1, LineIs
<1>3. ASSUME q > p PROVE DeleteRange(e, q - 1, q) \in Editors(mode)
  <2>1. q - 1 \in p..q /\ q - 1 <= q
    BY <1>2, <1>3
  <2>2. Valid(e.text, q - 1)
    BY <1>1, <2>1, InLineIs DEF InLine
  <2> HIDE DEF q
  <2>3. QED
    BY <1>2, <2>1, <2>2, DeleteRangeGood
<1>4. QED
  BY <1>3 DEF StripLastOf

\* What is taken without a selection is the whole text.
LEMMA WholeGood ==
    ASSUME NEW mode, NEW e \in Editors(mode)
    PROVE  Whole(e) \in Editors(mode) /\ Whole(e).text = e.text
<1>1. e.text \in Text /\ Good(mode, e.text)
  BY EditorIs
<1>2. Valid(e.text, 0) /\ Valid(e.text, Len(e.text))
  BY <1>1, EndsValid
<1>3. QED
  BY <1>1, <1>2, SetSelGood DEF Whole

\* Strip First Character.
LEMMA StripFirstGood ==
    ASSUME NEW mode \in EOLModes, NEW e \in Editors(mode)
    PROVE  StripFirstCharacter(e) \in Editors(mode)
<1> DEFINE w == Whole(e)
           t == e.text
           a == FirstLine(w)
           b == LastLine(w)
           first == IF SelectionStart(w) > BlockStart(w) THEN a + 1 ELSE a
           last == IF SelectionEnd(w) <= PositionFromLine(t, b) THEN b - 1 ELSE b
<1>1. w \in Editors(mode) /\ w.text = t /\ t \in Text /\ Len(t) \in Nat
  BY WholeGood, EditorIs
<1> HIDE DEF w, t
<1>2. /\ a \in Nat /\ b \in Nat /\ a <= b
      /\ SelectionStart(w) \in 0..Len(t) /\ SelectionEnd(w) \in 0..Len(t)
      /\ SelectionStart(w) <= SelectionEnd(w)
  BY <1>1, SelectionIs
<1>3. a = b => BlockStart(w) = PositionFromLine(t, b) /\ PositionFromLine(t, b) \in 0..Len(t)
  BY <1>1, <1>2, PositionIs DEF BlockStart
<1>4. a = b => ~(SelectionStart(w) > BlockStart(w) /\ SelectionEnd(w) <= PositionFromLine(t, b))
  BY <1>1, <1>2, <1>3
<1>5. first \in Int /\ last \in Int /\ last - first + 1 \in Nat /\ \A line \in first..last : line \in Nat
  BY <1>2, <1>4
<1>6. StripFirstRounds(e, first, last) \in Editors(mode)
  <2>1. \A line \in first..last : \A x \in Editors(mode) : StripFirstOf(x, line) \in Editors(mode)
    BY <1>5, StripFirstOfGood
  <2> HIDE DEF first, last
  <2>2. QED
    BY <1>5, <2>1, StripFirstLoop
<1>7. QED
  BY <1>6 DEF StripFirstCharacter, StripFirstRounds, w, t

\* Strip Last Character.
LEMMA StripLastGood ==
    ASSUME NEW mode \in EOLModes, NEW e \in Editors(mode)
    PROVE  StripLastCharacter(e) \in Editors(mode)
<1> DEFINE w == Whole(e)
           t == e.text
           a == FirstLine(w)
           b == LastLine(w)
           first == IF SelectionStart(w) >= LineEndPosition(t, a) THEN a + 1 ELSE a
           last == IF SelectionEnd(w) < LineEndPosition(t, b) THEN b - 1 ELSE b
<1>1. w \in Editors(mode) /\ w.text = t /\ t \in Text /\ Len(t) \in Nat
  BY WholeGood, EditorIs
<1> HIDE DEF w, t
<1>2. /\ a \in Nat /\ b \in Nat /\ a <= b
      /\ SelectionStart(w) \in 0..Len(t) /\ SelectionEnd(w) \in 0..Len(t)
      /\ SelectionStart(w) <= SelectionEnd(w)
  BY <1>1, SelectionIs
<1>3. LineEndPosition(t, a) \in Nat
  BY <1>1, <1>2, LineIs
<1>4. a = b => ~(SelectionStart(w) >= LineEndPosition(t, a) /\ SelectionEnd(w) < LineEndPosition(t, b))
  BY <1>1, <1>2, <1>3
<1>5. first \in Int /\ last \in Int /\ last - first + 1 \in Nat /\ \A line \in first..last : line \in Nat
  BY <1>2, <1>4
<1>6. StripLastRounds(e, first, last) \in Editors(mode)
  <2>1. \A line \in first..last : \A x \in Editors(mode) : StripLastOf(x, line) \in Editors(mode)
    BY <1>5, StripLastOfGood
  <2> HIDE DEF first, last
  <2>2. QED
    BY <1>5, <2>1, StripLastLoop
<1>7. QED
  BY <1>6 DEF StripLastCharacter, StripLastRounds, w, t

\* Strip Trailing Blanks.
LEMMA StripBlanksGood ==
    ASSUME NEW mode \in EOLModes, NEW e \in Editors(mode)
    PROVE  StripTrailingBlanks(e) \in Editors(mode)
<1> DEFINE last == LineCount(e.text) - 1
<1>1. last \in Nat
  <2>1. e.text \in Text /\ Len(e.text) \in Nat
    BY EditorIs
  <2>2. QED
    BY <2>1, LineFromIs DEF LineCount
<1>2. ASSUME NEW line \in Nat, NEW x \in Editors(mode) PROVE StripBlanksOf(x, line) \in Editors(mode)
  <2> DEFINE end == LineEndPosition(x.text, line)
             p == BlanksBefore(x.text, line, end)
  <2>1. x.text \in Text
    BY EditorIs
  <2>2. InLine(x.text, line, end)
    BY <2>1, LineIs
  <2> HIDE DEF end
  <2>3. InLine(x.text, line, p) /\ p <= end
    BY <2>1, <2>2, BlanksBeforeIs
  <2> HIDE DEF p
  <2>4. Valid(x.text, p) /\ Valid(x.text, end)
    BY <2>1, <2>2, <2>3, InLineIs
  <2>5. DeleteRange(x, p, end) \in Editors(mode)
    BY <2>3, <2>4, DeleteRangeGood
  <2>6. QED
    BY <2>5 DEF StripBlanksOf, p, end
<1> HIDE DEF last
<1>3. last \in Int /\ last - 0 + 1 \in Nat /\ \A line \in 0..last : line \in Nat
  BY <1>1
<1>4. StripBlanksRounds(e, 0, last) \in Editors(mode)
  BY <1>2, <1>3, StripBlanksLoop
<1>5. QED
  BY <1>4 DEF StripTrailingBlanks, StripBlanksRounds, last

\* The prompts of .cps files.
LEMMA BeautifyGood ==
    ASSUME NEW mode \in EOLModes, NEW e \in Editors(mode)
    PROVE  BeautifyCPS(e) \in Editors(mode)
<1> DEFINE last == LineCount(e.text) - 1
<1>1. last \in Nat
  <2>1. e.text \in Text /\ Len(e.text) \in Nat
    BY EditorIs
  <2>2. QED
    BY <2>1, LineFromIs DEF LineCount
<1>2. ASSUME NEW line \in Nat, NEW x \in Editors(mode) PROVE CompletePrompt(x, line) \in Editors(mode)
  <2> DEFINE end == LineEndPosition(x.text, line)
  <2>1. x.text \in Text
    BY EditorIs
  <2>2. Valid(x.text, end) /\ end <= end
    BY <2>1, LineIs
  <2>3. SP \in Char /\ ~IsEnd(SP)
    BY DEF IsEnd, SP, Char, CR, LF
  <2>4. Good(mode, <<SP>>)
    BY <2>3, CharGood
  <2> HIDE DEF end
  <2>5. ReplaceTarget(x, end, end, <<SP>>) \in Editors(mode)
    BY <2>2, <2>4, ReplaceTargetGood
  <2>6. QED
    BY <2>5 DEF CompletePrompt, end
<1> HIDE DEF last
<1>3. last \in Int /\ last - 0 + 1 \in Nat /\ \A line \in 0..last : line \in Nat
  BY <1>1
<1>4. PromptRounds(e, 0, last) \in Editors(mode)
  BY <1>2, <1>3, PromptLoop
<1>5. QED
  BY <1>4 DEF BeautifyCPS, PromptRounds, last

\* What saving does to the text.
LEMMA FilteredGood ==
    ASSUME NEW mode \in EOLModes, NEW e \in Editors(mode), NEW strip, NEW cps
    PROVE  Filtered(e, strip, cps) \in Editors(mode)
<1> DEFINE stripped == IF strip THEN StripTrailingBlanks(e) ELSE e
<1>1. stripped \in Editors(mode)
  BY StripBlanksGood
<1> HIDE DEF stripped
<1>2. BeautifyCPS(stripped) \in Editors(mode)
  BY <1>1, BeautifyGood
<1>3. QED
  BY <1>1, <1>2 DEF Filtered, stripped

\* A round of removing empty lines.
LEMMA RemoveBlanksGood ==
    ASSUME NEW mode \in EOLModes, NEW merge \in BOOLEAN,
           NEW x \in [e : Editors(mode), line : Nat, last : Int]
    PROVE  RemoveBlanks(merge, x) \in [e : Editors(mode), line : Nat, last : Int]
<1> DEFINE t == x.e.text
           Empty(line) == PositionFromLine(t, line) = LineEndPosition(t, line)
           counts == {n \in 0..x.last - x.line + 1 : \A line \in x.line..x.line + n - 1 : Empty(line)}
           empty == Max(counts)
           gone == IF merge THEN empty - 1 ELSE empty
           R == [e : Editors(mode), line : Nat, last : Int]
           new == RemoveBlanks(merge, x)
<1>1. x.e \in Editors(mode) /\ x.line \in Nat /\ x.last \in Int /\ t \in Text
  BY EditorIs
<1>2. CASE x.line > x.last
  BY <1>2 DEF RemoveBlanks
<1>3. CASE ~(x.line > x.last)
  <2>1. x.last - x.line + 1 \in Nat
    BY <1>1, <1>3
  <2>2. counts \in SUBSET (0..x.last - x.line + 1) /\ 0 \in counts
    <3>1. \A line \in x.line..x.line + 0 - 1 : FALSE
      BY <1>1
    <3>2. QED
      BY <2>1, <3>1
  <2>3. empty \in 0..x.last - x.line + 1
    <3>1. PICK n \in Nat : n = x.last - x.line + 1
      BY <2>1
    <3> HIDE DEF counts
    <3>2. counts \in SUBSET (0..n) /\ counts # {}
      BY <2>2, <3>1
    <3>3. empty \in counts
      BY <3>2, MaxOf
    <3>4. QED
      BY <2>2, <3>3
  <2>4. empty \in Nat
    BY <2>1, <2>3
  <2>5. CASE empty = 0 \/ gone = 0
    <3>1. new = [x EXCEPT !.line = x.line + empty + 1]
      BY <1>3, <2>5 DEF RemoveBlanks
    <3> HIDE DEF new, empty
    <3>2. x.line + empty + 1 \in Nat
      BY <1>1, <2>4
    <3>3. new \in R
      BY <3>1, <3>2
    <3>4. QED
      BY <3>3 DEF new
  <2>6. CASE ~(empty = 0 \/ gone = 0)
    <3> HIDE DEF empty
    <3>1. gone \in Nat
      BY <2>4, <2>6
    <3>2. PICK to \in Nat : to = x.line + gone
      BY <1>1, <3>1
    <3>3. x.line <= to
      BY <1>1, <3>1, <3>2
    <3> DEFINE p == PositionFromLine(t, x.line)
               q == PositionFromLine(t, to)
               done == DeleteRange(x.e, p, q)
               line == IF merge THEN x.line + 1 ELSE x.line
               last == x.last - gone
    <3>4. Valid(t, p) /\ Valid(t, q) /\ p <= q
      BY <1>1, <3>3, PositionIs, PositionsAscend
    <3> HIDE DEF p, q
    <3>5. done \in Editors(mode)
      BY <1>1, <3>4, DeleteRangeGood
    <3>6. line \in Nat /\ last \in Int
      BY <1>1, <3>1
    <3>7. new = [e |-> done, line |-> line, last |-> last]
      BY <1>3, <2>6, <3>2 DEF RemoveBlanks, empty, p, q
    <3> HIDE DEF new, done, line, last
    <3>8. new \in R
      BY <3>5, <3>6, <3>7
    <3>9. QED
      BY <3>8 DEF new
  <2>7. QED
    BY <2>5, <2>6
<1>4. QED
  BY <1>2, <1>3

\* Remove Blank Lines.
LEMMA RemoveBlankLinesGood ==
    ASSUME NEW mode \in EOLModes, NEW e \in Editors(mode), NEW merge \in BOOLEAN
    PROVE  RemoveBlankLines(e, merge) \in Editors(mode)
<1> DEFINE w == Whole(e)
           t == e.text
           n == LineCount(t)
           first == IF SelectionStart(w) > BlockStart(w) THEN FirstLine(w) + 1 ELSE FirstLine(w)
           last == IF SelectionEnd(w) <= PositionFromLine(t, LastLine(w)) /\ LastLine(w) # n - 1
                   THEN LastLine(w) - 1
                   ELSE LastLine(w)
           R == [e : Editors(mode), line : Nat, last : Int]
           T == [i \in 0..n |-> R]
           init == [e |-> e, line |-> first, last |-> last]
           done == RemoveRounds(merge, init, n)
<1>1. w \in Editors(mode) /\ w.text = t /\ t \in Text /\ Len(t) \in Nat
  BY WholeGood, EditorIs
<1>2. FirstLine(w) \in Nat /\ LastLine(w) \in Nat /\ n \in Nat
  <2>1. FirstLine(w) \in Nat /\ LastLine(w) \in Nat
    BY <1>1, SelectionIs
  <2>2. n \in Nat
    <3> HIDE DEF t
    <3>1. LineFromPosition(t, Len(t)) \in Nat
      BY <1>1, LineFromIs
    <3>2. QED
      BY <3>1 DEF LineCount
  <2>3. QED
    BY <2>1, <2>2
<1>3. first \in Nat /\ last \in Int
  BY <1>2
<1> HIDE DEF w, t, n, first, last
<1>4. \A i \in 0..n : T[i] = R
  OBVIOUS
<1> HIDE DEF T
<1>5. init \in R
  BY <1>3
<1>6. init \in T[0]
  <2> HIDE DEF init, R
  <2>1. 0 \in 0..n
    BY <1>2
  <2>2. QED
    BY <1>4, <1>5, <2>1
<1> HIDE DEF init
<1>7. ASSUME NEW i \in 1..n, NEW x \in T[i - 1] PROVE RemoveBlanks(merge, x) \in T[i]
  <2>1. i - 1 \in 0..n /\ i \in 0..n
    BY <1>2
  <2>2. x \in R /\ T[i] = R
    BY <1>4, <2>1
  <2>3. RemoveBlanks(merge, x) \in R
    BY <2>2, RemoveBlanksGood
  <2>4. QED
    BY <2>2, <2>3
<1>8. done \in T[n]
  BY <1>2, <1>6, <1>7, RemoveLoop
<1> HIDE DEF done
<1>9. n \in 0..n
  BY <1>2
<1>10. done \in R
  BY <1>4, <1>8, <1>9
<1>11. done.e \in Editors(mode)
  BY <1>10
<1>12. QED
  BY <1>11 DEF RemoveBlankLines, RemoveRounds, done, init, first, last, w, t, n

\* A comment at a place of the text ends at a place that splits no line end.
LEMMA CommentEnds ==
    ASSUME NEW t \in Text, NEW p \in 0..Len(t), Commented(t, p)
    PROVE  Valid(t, p + Len(Comment)) /\ p <= p + Len(Comment)
<1> DEFINE n == Len(Comment)
           r == TextRange(t, p, p + n)
<1>1. Len(t) \in Nat /\ p \in Nat
  BY TextIs
<1>2. n \in Nat /\ n \in 1..n /\ Comment[n] \in Nat /\ ~IsEnd(Comment[n])
  <2>1. Comment \in Plain /\ n \in 1..31
    BY EditCommandsAssumption
  <2> HIDE DEF n
  <2>2. n \in Nat /\ n \in 1..n
    BY <2>1
  <2>3. ~IsEnd(Comment[n])
    BY <2>1, <2>2, PlainGood DEF n
  <2>4. Comment[n] \in Nat
    BY <2>1, <2>2, ElementOfSeq DEF Plain, n
  <2>5. QED
    BY <2>2, <2>3, <2>4
<1>3. p + n <= Len(t) /\ Caseless(r) = Caseless(Comment)
  BY DEF Commented
<1>4. DOMAIN Comment = 1..n
  BY EditCommandsAssumption, LenProperties DEF Plain
<1> HIDE DEF n
<1>5. PICK k \in Nat : k = p + n
  BY <1>1, <1>2
<1>6. k \in 0..Len(t) /\ p <= k /\ k - p = n
  BY <1>1, <1>2, <1>3, <1>5
<1>7. r \in Text /\ Len(r) = n /\ r[n] = t[k]
  BY <1>2, <1>5, <1>6, RangeIs
<1>8. DOMAIN r = 1..n
  BY <1>7, LenProperties DEF Text
<1> HIDE DEF r
<1>9. (IF r[n] \in 65..90 THEN r[n] + 32 ELSE r[n])
      = (IF Comment[n] \in 65..90 THEN Comment[n] + 32 ELSE Comment[n])
  <2>1. Caseless(r)[n] = IF r[n] \in 65..90 THEN r[n] + 32 ELSE r[n]
    BY <1>2, <1>8 DEF Caseless
  <2>2. Caseless(Comment)[n] = IF Comment[n] \in 65..90 THEN Comment[n] + 32 ELSE Comment[n]
    BY <1>2, <1>4 DEF Caseless
  <2>3. QED
    BY <1>3, <2>1, <2>2
<1>10. ~IsEnd(r[n])
  <2>1. PICK c \in Nat : c = Comment[n]
    BY <1>2
  <2>2. r[n] \in Nat
    BY <1>2, <1>7, TextIs DEF Char
  <2>3. PICK d \in Nat : d = r[n]
    BY <2>2
  <2>4. ~IsEnd(c) /\ (IF d \in 65..90 THEN d + 32 ELSE d) = (IF c \in 65..90 THEN c + 32 ELSE c)
    BY <1>2, <1>9, <2>1, <2>3
  <2>5. ~IsEnd(d)
    BY <2>4 DEF IsEnd, CR, LF
  <2>6. QED
    BY <2>3, <2>5
<1>11. Valid(t, k)
  BY <1>6, <1>7, <1>10 DEF Valid, IsEnd
<1>12. QED
  BY <1>1, <1>2, <1>5, <1>11 DEF n

ToggleStates(mode) ==
    [e : Editors(mode), action : {"none", "insert", "remove"}, compares : BOOLEAN]

\* A round of toggling comments.
LEMMA ToggleCommentGood ==
    ASSUME NEW mode \in EOLModes, NEW column \in Nat, NEW line \in Nat,
           NEW x \in ToggleStates(mode)
    PROVE  ToggleComment(column, x, line) \in ToggleStates(mode)
<1> DEFINE t == x.e.text
           indent == LineIndentPosition(t, line)
           end == indent + Len(Comment)
           compares == IF end <= Len(t) THEN Commented(t, indent) ELSE x.compares
           action == IF compares THEN "remove" ELSE "insert"
           new == ToggleComment(column, x, line)
           replaced == ReplaceTarget(x.e, indent, end, <<>>)
           inserted == InsertText(x.e, FindColumn(t, line, column), Comment)
           removed == IF end <= Len(t) THEN replaced ELSE x.e
<1>1. x.e \in Editors(mode) /\ t \in Text /\ Len(t) \in Nat
  BY EditorIs DEF ToggleStates
<1>2. InLine(t, line, indent)
  BY <1>1, IndentIs
<1>3. Valid(t, indent) /\ indent \in 0..Len(t)
  BY <1>1, <1>2, InLineIs
<1>4. ASSUME ~EmptyButForBlanks(t, line) PROVE line < LineCount(t)
  <2> SUFFICES ASSUME ~(line < LineCount(t)) PROVE FALSE
    OBVIOUS
  <2>1. PositionFromLine(t, line) = Len(t)
    BY <1>1, PositionIs
  <2>2. LineEndPosition(t, line) = Len(t)
    <3>1. LineEndPosition(t, line) \in 0..Len(t) /\ PositionFromLine(t, line) <= LineEndPosition(t, line)
      BY <1>1, LineEndIs
    <3>2. QED
      BY <1>1, <2>1, <3>1
  <2>3. indent = Len(t)
    BY <1>1, <1>2, <2>1, <2>2 DEF InLine
  <2>4. QED
    BY <1>4, <2>2, <2>3 DEF EmptyButForBlanks
<1> HIDE DEF indent
<1>5. ASSUME Commented(t, indent) PROVE replaced \in Editors(mode)
  <2>1. Valid(t, end) /\ indent <= end
    BY <1>1, <1>3, <1>5, CommentEnds
  <2>2. QED
    BY <1>1, <1>3, <2>1, NothingIs, ReplaceTargetGood
<1>6. ASSUME line < LineCount(t) PROVE inserted \in Editors(mode)
  <2>1. InLine(t, line, FindColumn(t, line, column))
    BY <1>1, <1>6, FindColumnIs
  <2>2. Valid(t, FindColumn(t, line, column))
    BY <1>1, <2>1, InLineIs
  <2>3. Good(mode, Comment)
    BY PlainGood, EditCommandsAssumption
  <2>4. QED
    BY <1>1, <2>2, <2>3, InsertAtGood
<1>7. compares \in BOOLEAN
  BY DEF Commented, ToggleStates
<1>8. compares => removed \in Editors(mode)
  BY <1>1, <1>5
<1>9. action \in {"none", "insert", "remove"}
  OBVIOUS
<1>10. \/ new = x
       \/ new = [x EXCEPT !.compares = compares]
       \/ /\ ~EmptyButForBlanks(t, line)
          /\ new = [e |-> IF compares THEN removed ELSE inserted,
                    action |-> action, compares |-> compares]
  BY DEF ToggleComment, indent
<1> HIDE DEF compares, action, removed, inserted, new
<1>11. [x EXCEPT !.compares = compares] \in ToggleStates(mode)
  BY <1>7 DEF ToggleStates
<1>12. ~EmptyButForBlanks(t, line) => (IF compares THEN removed ELSE inserted) \in Editors(mode)
  BY <1>4, <1>6, <1>8
<1>13. new \in ToggleStates(mode)
  BY <1>7, <1>9, <1>10, <1>11, <1>12 DEF ToggleStates
<1>14. QED
  BY <1>13 DEF new

\* Toggle Line Comments.
LEMMA ToggleLineCommentsGood ==
    ASSUME NEW mode \in EOLModes, NEW e \in Editors(mode), NEW insertAtStart \in BOOLEAN,
           NEW compares \in BOOLEAN
    PROVE  ToggleLineComments(e, insertAtStart, compares) \in Editors(mode)
<1> DEFINE first == FirstLine(e)
           last == LastSelectedLine(e)
           column == IF insertAtStart THEN 0 ELSE CommentColumn(e)
           init == [e |-> e, action |-> "none", compares |-> compares]
           R == ToggleStates(mode)
           rounds == ToggleRounds(column, init, first, last)
           done == rounds.e
           from == PositionFromLine(done.text, first)
           to == PositionFromLine(done.text, last + 1)
<1>1. /\ first \in Nat /\ first \in Int /\ last \in Int /\ last + 1 \in Nat
      /\ last - first + 1 \in Nat /\ \A line \in first..last : line \in Nat
  BY LinesAre
<1>2. column \in Nat
  <2> DEFINE t == e.text
             columns == IndentColumns(e)
  <2>1. t \in Text
    BY EditorIs
  <2>2. ASSUME NEW line \in first..last PROVE GetColumn(t, LineIndentPosition(t, line)) \in Nat
    <3>1. line \in Nat
      BY <1>1
    <3>2. LineIndentPosition(t, line) \in 0..Len(t)
      BY <2>1, <3>1, IndentIs, InLineIs
    <3>3. QED
      BY <2>1, <3>2, GetColumnIs
  <2>3. columns \in SUBSET Nat
    BY <2>2 DEF IndentColumns
  <2> HIDE DEF columns
  <2>4. {1024} \cup columns \in SUBSET Nat /\ {1024} \cup columns # {}
    BY <2>3
  <2>5. Min({1024} \cup columns) \in Nat
    BY <2>4, MinOf
  <2>6. QED
    BY <2>5 DEF CommentColumn, columns
<1> HIDE DEF first, last, column
<1>3. init \in R
  BY DEF ToggleStates
<1> HIDE DEF init
<1>4. rounds \in R
  <2>1. \A line \in first..last : \A x \in R : ToggleComment(column, x, line) \in R
    BY <1>1, <1>2, ToggleCommentGood
  <2> HIDE DEF R
  <2>2. QED
    BY <1>1, <1>3, <2>1, ToggleLoop
<1> HIDE DEF rounds
<1>5. done \in Editors(mode)
  BY <1>4 DEF ToggleStates
<1> HIDE DEF done
<1>6. done.text \in Text /\ Good(mode, done.text)
  BY <1>5, EditorIs
<1>7. PICK k \in Nat : k = last + 1
  BY <1>1
<1>8. Valid(done.text, from) /\ Valid(done.text, PositionFromLine(done.text, k))
  BY <1>1, <1>6, <1>7, PositionIs
<1>9. Valid(done.text, to)
  BY <1>7, <1>8
<1> HIDE DEF from, to
<1>10. SelectLike(e, done.text, from, to) \in Editors(mode)
  BY <1>6, <1>8, <1>9, SelectLikeGood
<1>11. QED
  BY <1>5, <1>10 DEF ToggleLineComments, ToggleRounds, done, rounds, init, first, last, column, from, to

\* Finitely many numbers have a bound.
LEMMA Bounded ==
    ASSUME NEW a \in Nat, NEW b \in Nat, a <= b, NEW f, \A i \in a..b : f[i] \in Nat
    PROVE  \E m \in Nat : \A i \in a..b : f[i] <= m
<1> DEFINE Wrong == {k \in a..b : ~\E m \in Nat : \A i \in a..k : f[i] <= m}
<1>1. ASSUME Wrong # {} PROVE FALSE
  <2>1. PICK k \in Wrong : \A j \in Wrong : k <= j
    <3>1. Wrong \in SUBSET Nat
      OBVIOUS
    <3> HIDE DEF Wrong
    <3>2. QED
      BY <1>1, <3>1, LeastOf
  <2>2. k \in a..b /\ ~\E m \in Nat : \A i \in a..k : f[i] <= m
    OBVIOUS
  <2>3. CASE k = a
    <3>1. f[a] \in Nat /\ \A i \in a..k : i = a
      BY <2>2, <2>3
    <3>2. PICK m \in Nat : m = f[a]
      BY <3>1
    <3>3. \A i \in a..k : f[i] = m
      BY <3>1, <3>2
    <3>4. QED
      BY <2>2, <3>3
  <2>4. CASE k # a
    <3>1. k - 1 \in a..b /\ ~(k <= k - 1)
      BY <2>2, <2>4
    <3>2. k - 1 \notin Wrong
      BY <2>1, <3>1
    <3>3. PICK m \in Nat : \A i \in a..(k - 1) : f[i] <= m
      BY <3>1, <3>2
    <3>4. f[k] \in Nat
      BY <2>2
    <3>5. PICK c \in Nat : c = IF m <= f[k] THEN f[k] ELSE m
      BY <3>4
    <3>6. ASSUME NEW i \in a..k PROVE f[i] <= c
      <4>1. i = k \/ i \in a..(k - 1)
        BY <2>2
      <4>2. f[i] \in Nat
        BY <2>2
      <4>3. CASE i = k
        BY <3>4, <3>5, <4>3
      <4>4. CASE i \in a..(k - 1)
        <5>1. f[i] <= m
          BY <3>3, <4>4
        <5>2. QED
          BY <3>4, <3>5, <4>2, <5>1
      <4>5. QED
        BY <4>1, <4>3, <4>4
    <3>7. QED
      BY <2>2, <3>6
  <2>5. QED
    BY <2>3, <2>4
<1>2. b \in a..b /\ b \notin Wrong
  BY <1>1
<1>3. QED
  BY <1>2

\* Pad With Spaces.
LEMMA PadGood ==
    ASSUME NEW mode \in EOLModes, NEW e \in Editors(mode)
    PROVE  PadWithSpaces(e) \in Editors(mode)
<1> DEFINE t == e.text
           oneLine == FirstLine(e) = LastLine(e)
           first == IF oneLine THEN 0 ELSE FirstLine(e)
           last == IF oneLine THEN LineCount(t) - 1 ELSE LastSelectedLine(e)
           widths == {EndColumn(t, line) : line \in first..last}
           widest == Max(widths)
           done == PadRounds(widest, e, first, last)
           to == IF last = LastLine(e) THEN LineEndPosition(done.text, last)
                 ELSE PositionFromLine(done.text, last + 1)
           from == PositionFromLine(done.text, first)
<1>1. t \in Text /\ Len(t) \in Nat
  BY EditorIs
<1>2. /\ first \in Nat /\ last \in Nat /\ first <= last
  <2>1. LineFromPosition(t, Len(t)) \in Nat
    BY <1>1, LineFromIs
  <2>2. LineCount(t) - 1 \in Nat
    BY <2>1 DEF LineCount
  <2>3. FirstLine(e) \in Nat /\ LastSelectedLine(e) \in Nat /\ FirstLine(e) <= LastSelectedLine(e)
    BY SelectionIs, LastSelectedIs
  <2>4. QED
    BY <2>2, <2>3
<1>3. \A s \in Text : \A line \in Nat : EndColumn(s, line) \in Nat
  BY LineEndIs, GetColumnIs DEF EndColumn
<1> HIDE DEF first, last, t
<1>4. \A line \in first..last : line \in Nat
  BY <1>2
<1>5. widest \in Int
  <2> DEFINE f == [line \in first..last |-> EndColumn(t, line)]
  <2>1. \A line \in first..last : f[line] = EndColumn(t, line) /\ f[line] \in Nat
    BY <1>1, <1>3, <1>4
  <2> HIDE DEF f
  <2>2. PICK m \in Nat : \A line \in first..last : f[line] <= m
    BY <1>2, <2>1, Bounded
  <2>3. widths \in SUBSET (0..m)
    BY <2>1, <2>2
  <2>4. first \in first..last
    BY <1>2
  <2>5. widths # {}
    BY <2>4
  <2> HIDE DEF widths
  <2>6. widest \in widths
    BY <2>3, <2>5, MaxOf
  <2> HIDE DEF widest
  <2>7. widest \in 0..m
    BY <2>3, <2>6
  <2>8. QED
    BY <2>7
<1> HIDE DEF widest
<1>6. ASSUME NEW line \in Nat, NEW x \in Editors(mode) PROVE PadLine(widest, x, line) \in Editors(mode)
  <2> DEFINE end == LineEndPosition(x.text, line)
             s == Blanks(widest - EndColumn(x.text, line))
  <2>1. x.text \in Text
    BY EditorIs
  <2>2. Valid(x.text, end) /\ end <= end
    BY <2>1, LineIs
  <2>3. widest - EndColumn(x.text, line) \in Int
    BY <1>3, <1>5, <2>1
  <2>4. Good(mode, s)
    BY <2>3, BlanksGood
  <2> HIDE DEF end, s
  <2>5. ReplaceTarget(x, end, end, s) \in Editors(mode)
    BY <2>2, <2>4, ReplaceTargetGood
  <2>6. QED
    BY <2>5 DEF PadLine, end, s
<1>7. done \in Editors(mode)
  <2>1. first \in Int /\ last \in Int /\ last - first + 1 \in Nat
    BY <1>2
  <2>2. QED
    BY <1>4, <1>6, <2>1, PadLoop
<1> HIDE DEF done
<1>8. done.text \in Text /\ Good(mode, done.text)
  BY <1>7, EditorIs
<1>9. Valid(done.text, from)
  BY <1>2, <1>8, LineIs
<1>10. Valid(done.text, to)
  BY <1>2, <1>8, LineIs
<1> HIDE DEF from, to
<1>11. SelectLike(done, done.text, from, to) \in Editors(mode)
  BY <1>8, <1>9, <1>10, SelectLikeGood
<1>12. QED
  BY <1>7, <1>11 DEF PadWithSpaces, PadRounds, done, widest, first, last, t, from, to

-----------------------------------------------------------------------------
(* Moving lines. *)

\* Two texts that begin alike have there the same lines.
LEMMA PrefixLines ==
    ASSUME NEW t \in Text, NEW s \in Text, NEW p, Valid(t, p), Valid(s, p),
           \A i \in 1..p : s[i] = t[i]
    PROVE  (Starts(s, p) <=> Starts(t, p)) /\ LineFromPosition(s, p) = LineFromPosition(t, p)
<1>1. Len(t) \in Nat /\ Len(s) \in Nat /\ p \in 0..Len(t) /\ p \in 0..Len(s)
  BY TextIs DEF Valid
<1>2. ASSUME NEW q \in 1..p PROVE EndsLine(s, q) <=> EndsLine(t, q)
  <2>1. s[q] = t[q] /\ q > 0
    BY <1>1
  <2>2. CASE q = p
    <3>1. q < Len(t) => q \in 1..Len(t) - 1
      BY <1>1
    <3>2. q < Len(s) => q \in 1..Len(s) - 1
      BY <1>1
    <3>3. ~(t[q] = CR /\ q < Len(t) /\ t[q + 1] = LF) /\ ~(s[q] = CR /\ q < Len(s) /\ s[q + 1] = LF)
      BY <2>2, <3>1, <3>2 DEF Valid
    <3>4. QED
      BY <2>1, <3>3 DEF EndsLine
  <2>3. CASE q # p
    <3>1. q + 1 \in 1..p /\ q < Len(t) /\ q < Len(s)
      BY <1>1, <2>3
    <3>2. s[q + 1] = t[q + 1]
      BY <3>1
    <3>3. QED
      BY <2>1, <3>1, <3>2 DEF EndsLine
  <2>4. QED
    BY <2>2, <2>3
<1>3. {q \in 1..p : EndsLine(s, q)} = {q \in 1..p : EndsLine(t, q)}
  BY <1>2
<1>4. LineFromPosition(s, p) = LineFromPosition(t, p)
  BY <1>3 DEF LineFromPosition
<1>5. p # 0 => p \in 1..p
  BY <1>1
<1>6. Starts(s, p) <=> Starts(t, p)
  BY <1>2, <1>5 DEF Starts
<1>7. QED
  BY <1>4, <1>6

\* A position after a line end character that splits no line end starts a line.
LEMMA EndStarts ==
    ASSUME NEW t \in Text, NEW p, Valid(t, p), p # 0, IsEnd(t[p])
    PROVE  EndsLine(t, p)
<1>1. Len(t) \in Nat /\ p \in 0..Len(t)
  BY TextIs DEF Valid
<1>2. p < Len(t) => p \in 1..Len(t) - 1
  BY <1>1
<1>3. QED
  BY <1>1, <1>2 DEF Valid, EndsLine

\* The lines of a text of which two have changed places.
LEMMA TransposeIs ==
    ASSUME NEW mode \in EOLModes, NEW t, Good(mode, t), NEW source \in Nat, NEW first \in Nat,
           first = source + 1, first < LineCount(t)
    PROVE  LET s == LineTranspose(t, first)
               previous == PositionFromLine(t, source)
               current == PositionFromLine(t, first)
           IN  /\ Good(mode, s)
               /\ \A p : InLine(t, first, p) => Valid(s, p - (current - PositionFromLine(s, source)))
               /\ \A p : InLine(t, source, p) => Valid(s, p + (PositionFromLine(s, first) - previous))
<1> DEFINE s == LineTranspose(t, first)
           previous == PositionFromLine(t, source)
           current == PositionFromLine(t, first)
           previousEnd == LineEndPosition(t, source)
           currentEnd == LineEndPosition(t, first)
           n == Len(t)
           A == TextRange(t, 0, previous)
           B == TextRange(t, current, currentEnd)
           C == TextRange(t, previousEnd, current)
           D == TextRange(t, previous, previousEnd)
           E == TextRange(t, currentEnd, n)
           AB == A \o B
           ABC == AB \o C
           ABCD == ABC \o D
           lb == currentEnd - current
           lc == current - previousEnd
           m == previous + lb
           k == m + lc
<1>1. t \in Text /\ n \in Nat /\ Valid(t, 0) /\ Valid(t, n)
  BY TextIs, EndsValid DEF Good
<1>2. source = first - 1 /\ source < LineCount(t)
  <2>1. LineFromPosition(t, Len(t)) \in Nat
    BY <1>1, LineFromIs
  <2>2. LineCount(t) \in Nat
    BY <2>1 DEF LineCount
  <2>3. QED
    BY <2>2
<1>3. s = ABCD \o E
  BY <1>2 DEF LineTranspose
<1>4. /\ previous \in 0..n /\ current \in 0..n /\ previousEnd \in 0..n /\ currentEnd \in 0..n
      /\ previous <= previousEnd /\ previousEnd < current /\ current <= currentEnd
      /\ Valid(t, previous) /\ Valid(t, current) /\ Valid(t, previousEnd) /\ Valid(t, currentEnd)
  <2>1. /\ previous \in 0..n /\ current \in 0..n /\ Valid(t, previous) /\ Valid(t, current)
    BY <1>1, PositionIs
  <2>2. /\ previousEnd \in 0..n /\ previous <= previousEnd /\ Valid(t, previousEnd)
        /\ previousEnd < current
    BY <1>1, LineEndIs
  <2>3. currentEnd \in 0..n /\ current <= currentEnd /\ Valid(t, currentEnd)
    BY <1>1, LineEndIs
  <2>4. QED
    BY <2>1, <2>2, <2>3
<1>5. /\ Starts(t, previous) /\ LineFromPosition(t, previous) = source
      /\ EndsLine(t, current)
      /\ \A i \in current + 1..currentEnd : ~IsEnd(t[i])
      /\ \/ previousEnd = current - 1
         \/ previousEnd = current - 2 /\ t[current - 1] = CR /\ t[current] = LF
  <2>1. Starts(t, previous) /\ LineFromPosition(t, previous) = source /\ Starts(t, current)
    BY <1>1, <1>2, PositionIs
  <2>2. EndsLine(t, current)
    BY <1>4, <2>1 DEF Starts
  <2>3. \A i \in current + 1..currentEnd : ~IsEnd(t[i])
    BY <1>1, LineEndIs
  <2>4. ~(source >= LineCount(t) - 1)
    <3>1. LineFromPosition(t, Len(t)) \in Nat
      BY <1>1, LineFromIs
    <3>2. LineCount(t) \in Nat
      BY <3>1 DEF LineCount
    <3>3. QED
      BY <3>2
  <2>5. \/ previousEnd = current - 1
        \/ previousEnd = current - 2 /\ t[current - 1] = CR /\ t[current] = LF
    BY <2>4 DEF LineEndPosition
  <2>6. QED
    BY <2>1, <2>2, <2>3, <2>5
<1> HIDE DEF s, previous, current, previousEnd, currentEnd, n
<1>6. /\ Good(mode, A) /\ Len(A) = previous - 0 /\ \A i \in 1..previous - 0 : A[i] = t[0 + i]
  <2>1. 0 <= previous
    BY <1>1, <1>4
  <2>2. QED
    BY <1>1, <1>4, <2>1, RangeGood
<1>7. Good(mode, B) /\ Len(B) = lb /\ \A i \in 1..lb : B[i] = t[current + i]
  <2>1. Valid(t, current) /\ Valid(t, currentEnd) /\ current <= currentEnd
    BY <1>4
  <2> HIDE DEF lb, B
  <2>2. /\ Good(mode, B) /\ Len(B) = currentEnd - current
        /\ \A i \in 1..currentEnd - current : B[i] = t[current + i]
    BY <2>1, RangeGood DEF B
  <2>3. QED
    BY <2>2 DEF lb
<1>8. Good(mode, C) /\ Len(C) = lc /\ \A i \in 1..lc : C[i] = t[previousEnd + i]
  <2>1. Valid(t, previousEnd) /\ Valid(t, current) /\ previousEnd <= current
    BY <1>1, <1>4
  <2> HIDE DEF lc, C
  <2>2. /\ Good(mode, C) /\ Len(C) = current - previousEnd
        /\ \A i \in 1..current - previousEnd : C[i] = t[previousEnd + i]
    BY <2>1, RangeGood DEF C
  <2>3. QED
    BY <2>2 DEF lc
<1>9. Good(mode, D)
  BY <1>1, <1>4, RangeGood
<1>10. Good(mode, E)
  <2>1. currentEnd <= n
    BY <1>1, <1>4
  <2>2. QED
    BY <1>1, <1>4, <2>1, RangeGood
<1>11. ASSUME NEW p, InLine(t, first, p) PROVE Valid(B, p - current)
  <2>1. p \in current..currentEnd /\ Valid(t, p)
    BY <1>1, <1>11, InLineIs DEF InLine, current, currentEnd
  <2>2. current <= p /\ p <= currentEnd
    BY <1>1, <1>4, <2>1
  <2>3. QED
    BY <1>1, <1>4, <2>1, <2>2, RangeValid
<1>12. ASSUME NEW p, InLine(t, source, p) PROVE Valid(D, p - previous)
  <2>1. p \in previous..previousEnd /\ Valid(t, p)
    BY <1>1, <1>12, InLineIs DEF InLine, previous, previousEnd
  <2>2. previous <= p /\ p <= previousEnd
    BY <1>1, <1>4, <2>1
  <2>3. QED
    BY <1>1, <1>4, <2>1, <2>2, RangeValid
<1>13. /\ A \in Text /\ B \in Text /\ C \in Text /\ D \in Text /\ E \in Text
       /\ Len(A) = previous /\ \A i \in 1..previous : A[i] = t[i]
  <2>1. A \in Text /\ B \in Text /\ C \in Text /\ D \in Text /\ E \in Text
    BY <1>6, <1>7, <1>8, <1>9, <1>10 DEF Good
  <2>2. previous - 0 = previous /\ \A i \in 1..previous : 0 + i = i
    BY <1>1, <1>4
  <2> HIDE DEF A, B, C, D, E
  <2>3. QED
    BY <1>6, <2>1, <2>2
<1>14. Valid(A, previous) /\ Valid(C, lc)
  BY <1>8, <1>13, EndsValid
<1> HIDE DEF A, B, C, D, E
<1>15. /\ previous \in Nat /\ current \in Nat /\ previousEnd \in Nat /\ lb \in Nat
       /\ lc \in 1..2 /\ m \in Nat /\ k \in Nat /\ previous <= m /\ currentEnd \in Nat
  BY <1>1, <1>4, <1>5
<1>16. /\ Good(mode, AB) /\ Len(AB) = m
       /\ \A i \in 1..previous : AB[i] = t[i]
       /\ \A i \in 1..lb : AB[previous + i] = t[current + i]
       /\ Valid(AB, previous) /\ \A p : Valid(B, p) => Valid(AB, previous + p)
  <2>1. /\ Len(AB) = Len(A) + Len(B)
        /\ \A i \in 1..Len(A) : AB[i] = A[i]
        /\ \A i \in 1..Len(B) : AB[Len(A) + i] = B[i]
    BY <1>13, ConcatIs
  <2>2. /\ Good(mode, AB) /\ \A p : Valid(A, p) => Valid(AB, p)
        /\ \A p : Valid(B, p) => Valid(AB, Len(A) + p)
    BY <1>6, <1>7, ConcatGood
  <2> HIDE DEF AB, lb
  <2>3. QED
    BY <1>7, <1>13, <1>14, <2>1, <2>2
<1> HIDE DEF AB, m
<1>17. /\ Good(mode, ABC) /\ Len(ABC) = k
       /\ \A i \in 1..m : ABC[i] = AB[i]
       /\ \A i \in 1..lc : ABC[m + i] = t[previousEnd + i]
       /\ \A p : Valid(AB, p) => Valid(ABC, p)
       /\ Valid(ABC, k)
  <2>1. AB \in Text
    BY <1>16 DEF Good
  <2>2. /\ Len(ABC) = Len(AB) + Len(C)
        /\ \A i \in 1..Len(AB) : ABC[i] = AB[i]
        /\ \A i \in 1..Len(C) : ABC[Len(AB) + i] = C[i]
    BY <1>13, <2>1, ConcatIs
  <2>3. /\ Good(mode, ABC) /\ \A p : Valid(AB, p) => Valid(ABC, p)
        /\ \A p : Valid(C, p) => Valid(ABC, Len(AB) + p)
    BY <1>8, <1>16, ConcatGood
  <2> HIDE DEF ABC, lc
  <2>4. QED
    BY <1>8, <1>14, <1>16, <2>2, <2>3
<1> HIDE DEF ABC, k
<1>18. /\ Good(mode, ABCD)
       /\ \A i \in 1..k : ABCD[i] = ABC[i]
       /\ \A p : Valid(ABC, p) => Valid(ABCD, p)
       /\ \A p : Valid(D, p) => Valid(ABCD, k + p)
       /\ Len(ABCD) >= k
  <2>1. ABC \in Text /\ Len(D) \in Nat
    BY <1>13, <1>17, TextIs DEF Good
  <2>2. /\ \A i \in 1..Len(ABC) : ABCD[i] = ABC[i]
        /\ Len(ABCD) = Len(ABC) + Len(D)
    BY <1>13, <2>1, ConcatIs
  <2>3. /\ Good(mode, ABCD) /\ \A p : Valid(ABC, p) => Valid(ABCD, p)
        /\ \A p : Valid(D, p) => Valid(ABCD, Len(ABC) + p)
    BY <1>9, <1>17, ConcatGood
  <2> HIDE DEF ABCD
  <2>4. QED
    BY <1>15, <1>17, <2>1, <2>2, <2>3
<1> HIDE DEF ABCD
<1>19. /\ Good(mode, s)
       /\ \A i \in 1..k : s[i] = ABC[i]
       /\ \A p : Valid(ABCD, p) => Valid(s, p)
  <2>1. ABCD \in Text /\ Len(ABCD) \in Nat
    BY <1>18, TextIs DEF Good
  <2>2. \A i \in 1..Len(ABCD) : (ABCD \o E)[i] = ABCD[i]
    BY <1>13, <2>1, ConcatIs
  <2>3. \A i \in 1..k : i \in 1..Len(ABCD)
    BY <1>15, <1>18, <2>1
  <2>4. Good(mode, s) /\ \A p : Valid(ABCD, p) => Valid(s, p)
    BY <1>3, <1>10, <1>18, ConcatGood
  <2>5. QED
    BY <1>3, <1>18, <2>2, <2>3, <2>4
<1>20. s \in Text /\ Len(s) \in Nat
  BY <1>19, TextIs DEF Good
<1>21. k = m + lc
  BY DEF k
<1>22. /\ \A i \in 1..previous : s[i] = t[i]
       /\ \A i \in previous + 1..m : ~IsEnd(s[i])
       /\ \A i \in 1..lc : s[m + i] = t[previousEnd + i]
  <2>1. /\ \A i \in 1..previous : i \in 1..m /\ i \in 1..k
        /\ \A i \in 1..lc : m + i \in 1..k
    BY <1>15, <1>21
  <2>2. ASSUME NEW i \in previous + 1..m PROVE ~IsEnd(s[i])
    <3>1. PICK j : j = i - previous
      OBVIOUS
    <3>2. j \in 1..lb /\ previous + j = i /\ i \in 1..m /\ i \in 1..k
          /\ current + j \in current + 1..currentEnd
      BY <1>15, <1>21, <3>1 DEF m
    <3>3. s[i] = t[current + j]
      BY <1>16, <1>17, <1>19, <3>2
    <3>4. QED
      BY <1>5, <3>2, <3>3
  <2>3. QED
    BY <1>16, <1>17, <1>19, <2>1, <2>2
<1>23. Valid(s, previous) /\ Valid(s, k)
  BY <1>16, <1>17, <1>18, <1>19
<1>24. Starts(s, previous) /\ LineFromPosition(s, previous) = source
  BY <1>1, <1>4, <1>5, <1>20, <1>22, <1>23, PrefixLines
<1>25. previous \in 0..Len(s) /\ k \in 0..Len(s) /\ m \in 0..Len(s)
  <2>1. previous \in 0..Len(s) /\ k \in 0..Len(s)
    BY <1>23 DEF Valid
  <2>2. QED
    BY <1>15, <1>20, <1>21, <2>1
<1>26. PositionFromLine(s, source) = previous
  BY <1>20, <1>24, <1>25, PositionUnique
<1>27. LineFromPosition(s, m) = source
  <2>1. \A i \in previous + 1..m : ~EndsLine(s, i)
    BY <1>22 DEF EndsLine
  <2>2. QED
    BY <1>15, <1>20, <1>24, <1>25, <2>1, SameLineBack
<1>28. s[k] = t[current] /\ IsEnd(s[k]) /\ k \in 1..Len(s) /\ k - 1 \in 0..Len(s)
  <2>1. lc \in 1..lc /\ previousEnd + lc = current
    BY <1>15
  <2>2. s[k] = t[current]
    BY <1>21, <1>22, <2>1
  <2>3. IsEnd(t[current])
    BY <1>5 DEF EndsLine
  <2>4. k \in 1..Len(s) /\ k - 1 \in 0..Len(s)
    BY <1>15, <1>20, <1>21, <1>25
  <2>5. QED
    BY <2>2, <2>3, <2>4
<1>29. EndsLine(s, k)
  <2>1. k # 0
    BY <1>28
  <2>2. QED
    BY <1>20, <1>23, <1>28, <2>1, EndStarts
<1>30. LineFromPosition(s, k - 1) = source
  <2>1. CASE previousEnd = current - 1
    <3>1. k - 1 = m
      BY <1>15, <1>21, <2>1
    <3>2. QED
      BY <1>27, <3>1
  <2>2. CASE previousEnd = current - 2 /\ t[current - 1] = CR /\ t[current] = LF
    <3>1. lc = 2 /\ 1 \in 1..lc /\ previousEnd + 1 = current - 1 /\ k - 1 = m + 1 /\ (k - 1) + 1 = k
      BY <1>15, <1>21, <2>2
    <3>2. PICK j : j = k - 1
      OBVIOUS
    <3>3. s[j] = CR /\ s[j + 1] = LF
      BY <1>22, <1>28, <2>2, <3>1, <3>2
    <3>4. j \in 1..Len(s) /\ j < Len(s) /\ j - 1 = m
      BY <1>15, <1>20, <1>25, <3>1, <3>2
    <3>5. ~EndsLine(s, j)
      BY <3>3, <3>4 DEF EndsLine
    <3>6. LineFromPosition(s, j) = LineFromPosition(s, j - 1) + 0
      BY <1>20, <3>4, <3>5, LineFromIs
    <3>7. QED
      BY <1>27, <3>2, <3>4, <3>6
  <2>3. QED
    BY <1>5, <2>1, <2>2
<1>31. LineFromPosition(s, k) = first
  <2>1. LineFromPosition(s, k) = LineFromPosition(s, k - 1) + 1
    BY <1>20, <1>28, <1>29, LineFromIs
  <2>2. QED
    BY <1>30, <2>1
<1>32. PositionFromLine(s, first) = k
  BY <1>20, <1>25, <1>29, <1>31, PositionUnique DEF Starts
<1>33. ASSUME NEW p, InLine(t, first, p)
       PROVE  Valid(s, p - (current - PositionFromLine(s, source)))
  <2>1. Valid(s, previous + (p - current))
    BY <1>11, <1>16, <1>17, <1>18, <1>19, <1>33
  <2>2. p \in Nat
    BY <1>15, <1>33 DEF InLine, current, currentEnd
  <2>3. previous + (p - current) = p - (current - previous)
    BY <1>15, <2>2
  <2>4. QED
    BY <1>26, <2>1, <2>3
<1>34. ASSUME NEW p, InLine(t, source, p)
       PROVE  Valid(s, p + (PositionFromLine(s, first) - previous))
  <2>1. Valid(s, k + (p - previous))
    BY <1>12, <1>18, <1>19, <1>34
  <2>2. p \in Nat
    BY <1>15, <1>34 DEF InLine, previous, previousEnd
  <2>3. k + (p - previous) = p + (k - previous)
    BY <1>15, <2>2
  <2>4. QED
    BY <1>32, <2>1, <2>3
<1>35. QED
  BY <1>19, <1>33, <1>34 DEF s, previous, current

\* The ends of a selection in one line are places of that line.
LEMMA OneLine ==
    ASSUME NEW mode, NEW e \in Editors(mode), FirstLine(e) = LastLine(e)
    PROVE  InLine(e.text, FirstLine(e), e.anchor) /\ InLine(e.text, FirstLine(e), e.caret)
<1> DEFINE t == e.text
           line == FirstLine(e)
<1>1. /\ t \in Text /\ Len(t) \in Nat /\ Valid(t, e.anchor) /\ Valid(t, e.caret)
      /\ e.anchor \in 0..Len(t) /\ e.caret \in 0..Len(t) /\ e.anchor \in Nat /\ e.caret \in Nat
  BY EditorIs
<1>2. line \in Nat /\ LineFromPosition(t, SelectionStart(e)) = line
      /\ LineFromPosition(t, SelectionEnd(e)) = line
  BY SelectionIs DEF FirstLine, LastLine
<1>3. /\ SelectionStart(e) = (IF e.anchor <= e.caret THEN e.anchor ELSE e.caret)
      /\ SelectionEnd(e) = (IF e.anchor <= e.caret THEN e.caret ELSE e.anchor)
  BY <1>1, MinMaxIs DEF SelectionStart, SelectionEnd
<1> HIDE DEF t, line
<1>4. LineFromPosition(t, e.anchor) = line /\ LineFromPosition(t, e.caret) = line
  BY <1>1, <1>2, <1>3
<1>5. ASSUME NEW p \in 0..Len(t), Valid(t, p), LineFromPosition(t, p) = line
      PROVE  InLine(t, line, p)
  <2>1. PositionFromLine(t, line) <= p /\ p <= LineEndPosition(t, line)
    BY <1>1, <1>5, LineOf
  <2>2. PositionFromLine(t, line) \in 0..Len(t) /\ LineEndPosition(t, line) \in 0..Len(t)
    BY <1>1, <1>2, PositionIs, LineEndIs
  <2>3. QED
    BY <1>1, <2>1, <2>2 DEF InLine
<1>6. QED
  BY <1>1, <1>4, <1>5 DEF t, line

\* A line is a part of the text between places that split no line end.
LEMMA GetLineGood ==
    ASSUME NEW mode \in EOLModes, NEW t, Good(mode, t), NEW line \in Nat
    PROVE  /\ Good(mode, GetLine(t, line))
           /\ Valid(t, PositionFromLine(t, line)) /\ Valid(t, PositionFromLine(t, line + 1))
           /\ PositionFromLine(t, line) <= PositionFromLine(t, line + 1)
<1>1. t \in Text
  BY DEF Good
<1>2. PICK next \in Nat : next = line + 1
  OBVIOUS
<1>3. /\ Valid(t, PositionFromLine(t, line)) /\ Valid(t, PositionFromLine(t, next))
  BY <1>1, PositionIs
<1>4. line <= next
  BY <1>2
<1>5. PositionFromLine(t, line) <= PositionFromLine(t, next)
  BY <1>1, <1>4, PositionsAscend
<1>6. Good(mode, TextRange(t, PositionFromLine(t, line), PositionFromLine(t, next)))
  BY <1>3, <1>5, RangeGood
<1>7. QED
  BY <1>2, <1>3, <1>5, <1>6 DEF GetLine

\* What is before a line end of a text is part of it.
LEMMA BeforeLineEndGood ==
    ASSUME NEW mode, NEW t, Good(mode, t), NEW line \in Nat
    PROVE  Good(mode, TextRange(t, 0, LineEndPosition(t, line)))
<1>1. t \in Text /\ Len(t) \in Nat
  BY TextIs DEF Good
<1>2. LineEndPosition(t, line) \in 0..Len(t) /\ Valid(t, LineEndPosition(t, line)) /\ Valid(t, 0)
  BY <1>1, LineEndIs, EndsValid
<1>3. 0 <= LineEndPosition(t, line)
  BY <1>1, <1>2
<1>4. QED
  BY <1>2, <1>3, RangeGood

\* Moving lines up.
LEMMA MoveUpGood ==
    ASSUME eolMode \in EOLModes, NEW e \in Editors(eolMode)
    PROVE  MoveUp(e) \in Editors(eolMode)
<1> DEFINE t == e.text
           first == FirstLine(e)
           source == first - 1
           dest == IF SelectionEnd(e) <= PositionFromLine(t, LastLine(e)) THEN LastLine(e) - 1
                   ELSE LastLine(e)
           cut == Replaced(t, PositionFromLine(t, source), PositionFromLine(t, first), <<>>)
           at == PositionFromLine(cut, dest)
           put == Replaced(cut, at, at, GetLine(t, source))
           joined == Replaced(put, at, at, eolMode)
           moved == IF dest = LineCount(put) - 1
                    THEN TextRange(joined, 0, LineEndPosition(joined, dest))
                    ELSE put
           transposed == LineTranspose(t, first)
           shift == PositionFromLine(t, first) - PositionFromLine(transposed, source)
<1>1. t \in Text /\ Good(eolMode, t)
  BY EditorIs
<1>2. first \in Nat /\ LastLine(e) \in Nat /\ first <= LastLine(e) /\ first < LineCount(t)
  BY SelectionIs
<1>3. CASE first = 0
  BY <1>3 DEF MoveUp
<1>4. CASE first # 0 /\ first = LastLine(e)
  <2>1. InLine(t, first, e.anchor) /\ InLine(t, first, e.caret)
    BY <1>4, OneLine
  <2>2. source \in Nat /\ first = source + 1
    BY <1>2, <1>4
  <2>3. /\ Good(eolMode, transposed)
        /\ \A p : InLine(t, first, p) => Valid(transposed, p - shift)
    <3> HIDE DEF t, first, source
    <3>1. QED
      BY <1>1, <1>2, <2>2, TransposeIs
  <2>4. Valid(transposed, e.anchor - shift) /\ Valid(transposed, e.caret - shift)
    BY <2>1, <2>3
  <2>5. SetSel(transposed, e.anchor - shift, e.caret - shift) \in Editors(eolMode)
    <3> HIDE DEF transposed, shift
    <3>1. QED
      BY <2>3, <2>4, SetSelGood
  <2>6. QED
    BY <1>4, <2>5 DEF MoveUp
<1>5. CASE first # 0 /\ first # LastLine(e)
  <2>1. source \in Nat /\ dest \in Nat /\ first = source + 1
    BY <1>2, <1>5
  <2> HIDE DEF t, first, source, dest
  <2>2. /\ Good(eolMode, GetLine(t, source))
        /\ Valid(t, PositionFromLine(t, source)) /\ Valid(t, PositionFromLine(t, first))
        /\ PositionFromLine(t, source) <= PositionFromLine(t, first)
    BY <1>1, <2>1, GetLineGood
  <2>3. Good(eolMode, <<>>)
    BY PlainGood, NothingIs
  <2>4. Good(eolMode, cut)
    BY <1>1, <2>2, <2>3, ReplacedIs
  <2> HIDE DEF cut
  <2>5. Valid(cut, at) /\ at <= at
    <3>1. cut \in Text
      BY <2>4 DEF Good
    <3>2. at \in 0..Len(cut) /\ Len(cut) \in Nat /\ Valid(cut, at)
      BY <2>1, <3>1, PositionIs, TextIs
    <3>3. QED
      BY <3>2
  <2> HIDE DEF at
  <2>6. Good(eolMode, put) /\ Valid(put, at)
    BY <2>2, <2>4, <2>5, ReplacedIs
  <2> HIDE DEF put
  <2>7. Good(eolMode, joined)
    BY <2>5, <2>6, ModeGood, ReplacedIs
  <2> HIDE DEF joined
  <2>8. Good(eolMode, TextRange(joined, 0, LineEndPosition(joined, dest)))
    BY <2>1, <2>7, BeforeLineEndGood
  <2>9. Good(eolMode, moved)
    BY <2>6, <2>8
  <2> HIDE DEF moved
  <2>10. Valid(moved, PositionFromLine(moved, source)) /\ Valid(moved, PositionFromLine(moved, dest))
    <3>1. moved \in Text
      BY <2>9 DEF Good
    <3>2. QED
      BY <2>1, <3>1, PositionIs
  <2>11. SelectLike(e, moved, PositionFromLine(moved, source), PositionFromLine(moved, dest))
         \in Editors(eolMode)
    BY <2>9, <2>10, SelectLikeGood
  <2>12. QED
    BY <1>5, <2>11 DEF MoveUp, t, first, source, dest, cut, at, put, joined, moved
<1>6. QED
  BY <1>3, <1>4, <1>5

\* A text with a line end has two lines.
LEMMA TwoLines ==
    ASSUME NEW t \in Text, NEW i \in 1..Len(t), IsEnd(t[i])
    PROVE  LineCount(t) - 2 \in Nat
<1>1. Len(t) \in Nat
  BY TextIs
<1>2. PICK k \in 1..Len(t) : EndsLine(t, k)
  <2>1. CASE t[i] = CR /\ i < Len(t) /\ t[i + 1] = LF
    <3>1. PICK j : j = i + 1
      OBVIOUS
    <3>2. j \in 1..Len(t) /\ j > 0 /\ t[j] = LF
      BY <1>1, <2>1, <3>1
    <3>3. EndsLine(t, j)
      BY <3>2 DEF EndsLine, IsEnd, CR, LF
    <3>4. QED
      BY <3>2, <3>3
  <2>2. CASE ~(t[i] = CR /\ i < Len(t) /\ t[i + 1] = LF)
    <3>1. i > 0
      BY <1>1
    <3>2. QED
      BY <2>2, <3>1 DEF EndsLine
  <2>3. QED
    BY <2>1, <2>2
<1>3. 0 \in 0..Len(t) /\ Len(t) \in 0..Len(t) /\ k \in 0..Len(t) /\ 0 < k /\ k <= Len(t)
  BY <1>1
<1>4. LineFromPosition(t, 0) < LineFromPosition(t, k)
  BY <1>2, <1>3, LineGoesOn
<1>5. /\ LineFromPosition(t, 0) = 0 /\ LineFromPosition(t, k) <= LineFromPosition(t, Len(t))
      /\ LineFromPosition(t, k) \in Nat /\ LineFromPosition(t, Len(t)) \in Nat
  BY <1>3, LineFromIs
<1>6. QED
  BY <1>4, <1>5 DEF LineCount

\* A line end that a line follows is still there when that line has been moved away.
LEMMA LineEndStays ==
    ASSUME NEW mode \in EOLModes, NEW t, Good(mode, t), NEW source \in Nat, source # 0,
           source < LineCount(t), NEW first \in Nat
    PROVE  LET ended == t \o mode
               cut == Replaced(ended, PositionFromLine(ended, source),
                               PositionFromLine(ended, source + 1), <<>>)
               at == PositionFromLine(cut, first)
               put == Replaced(cut, at, at, GetLine(ended, source))
           IN  LineCount(put) - 2 \in Nat
<1> DEFINE ended == t \o mode
           p == PositionFromLine(t, source)
           next == PositionFromLine(ended, source + 1)
           cut == Replaced(ended, p, next, <<>>)
           at == PositionFromLine(cut, first)
           line == GetLine(ended, source)
           put == Replaced(cut, at, at, line)
<1>1. t \in Text /\ mode \in Text /\ Good(mode, mode)
  BY ModeGood DEF Good
<1>2. /\ ended \in Text /\ \A i \in 1..Len(t) : ended[i] = t[i]
  BY <1>1, ConcatIs
<1>3. Good(mode, ended) /\ \A q : Valid(t, q) => Valid(ended, q)
  BY <1>1, ConcatGood
<1>4. p \in 0..Len(t) /\ Valid(t, p) /\ Starts(t, p) /\ LineFromPosition(t, p) = source
      /\ Len(t) \in Nat
  BY <1>1, PositionIs, TextIs
<1> HIDE DEF ended, p
<1>5. p # 0
  BY <1>1, <1>4, LineFromIs
<1>6. p \in 1..p /\ \A i \in 1..p : i \in 1..Len(t)
  BY <1>4, <1>5
<1>7. IsEnd(ended[p])
  BY <1>2, <1>4, <1>5, <1>6 DEF Starts, EndsLine
<1>8. PositionFromLine(ended, source) = p
  <2>1. Valid(ended, p)
    BY <1>3, <1>4
  <2>2. \A i \in 1..p : ended[i] = t[i]
    BY <1>2, <1>6
  <2>3. Starts(ended, p) /\ LineFromPosition(ended, p) = source
    BY <1>1, <1>2, <1>4, <2>1, <2>2, PrefixLines
  <2>4. p \in 0..Len(ended)
    BY <2>1 DEF Valid
  <2>5. QED
    BY <1>2, <2>3, <2>4, PositionUnique
<1>9. Good(mode, line) /\ Valid(ended, p) /\ Valid(ended, next) /\ p <= next
  BY <1>3, <1>8, GetLineGood
<1> HIDE DEF next, line
<1>10. Good(mode, cut) /\ cut[p] = ended[p] /\ Valid(cut, p)
  <2>1. Good(mode, <<>>)
    BY NothingIs
  <2>2. p <= p
    BY <1>4
  <2>3. QED
    BY <1>3, <1>6, <1>9, <2>1, <2>2, ReplacedIs
<1> HIDE DEF cut
<1>11. cut \in Text /\ Len(cut) \in Nat /\ p \in 0..Len(cut) /\ line \in Text /\ Len(line) \in Nat
  BY <1>9, <1>10, TextIs DEF Good, Valid
<1>12. at \in 0..Len(cut) /\ Valid(cut, at)
  BY <1>11, PositionIs
<1> HIDE DEF at
<1>13. at <= at
  BY <1>11, <1>12
<1>14. /\ Good(mode, put) /\ Len(put) = Len(cut) - (at - at) + Len(line)
       /\ \A i \in 1..at : put[i] = cut[i]
       /\ \A i \in 1..Len(cut) - at : put[at + Len(line) + i] = cut[at + i]
  <2>1. /\ Good(mode, put) /\ Len(put) = Len(cut) - (at - at) + Len(line)
        /\ \A i \in 1..at : put[i] = cut[i]
    BY <1>9, <1>10, <1>12, <1>13, ReplacedIs
  <2>2. ASSUME NEW i \in 1..Len(cut) - at PROVE put[at + Len(line) + i] = cut[at + i]
    <3>1. Good(mode, cut) /\ Good(mode, line) /\ Valid(cut, at)
      BY <1>9, <1>10, <1>12
    <3>2. Replaced(cut, at, at, line)[at + Len(line) + i] = cut[at + i]
      BY <1>13, <3>1, ReplacedIs
    <3>3. QED
      BY <3>2
  <2> HIDE DEF put
  <2>3. QED
    BY <2>1, <2>2
<1> HIDE DEF put
<1>15. \E i \in 1..Len(put) : IsEnd(put[i])
  <2>1. CASE p <= at
    <3>1. p \in 1..at /\ p \in 1..Len(put)
      BY <1>4, <1>5, <1>11, <1>12, <1>14, <2>1
    <3>2. put[p] = ended[p]
      BY <1>10, <1>14, <3>1
    <3>3. QED
      BY <1>7, <3>1, <3>2
  <2>2. CASE at < p
    <3>1. PICK i : i = p - at
      OBVIOUS
    <3>2. i \in 1..Len(cut) - at /\ at + i = p /\ at + Len(line) + i \in 1..Len(put)
      BY <1>4, <1>5, <1>11, <1>12, <1>14, <2>2, <3>1
    <3>3. put[at + Len(line) + i] = ended[p]
      BY <1>10, <1>14, <3>2
    <3>4. QED
      BY <1>7, <3>2, <3>3
  <2>3. QED
    BY <1>4, <1>11, <1>12, <2>1, <2>2
<1>16. put \in Text
  BY <1>14 DEF Good
<1>17. LineCount(put) - 2 \in Nat
  BY <1>15, <1>16, TwoLines
<1>18. QED
  BY <1>8, <1>17 DEF ended, next, cut, at, line, put

\* Moving lines down.
LEMMA MoveDownGood ==
    ASSUME eolMode \in EOLModes, NEW e \in Editors(eolMode)
    PROVE  MoveDown(e) \in Editors(eolMode)
<1> DEFINE t == e.text
           first == FirstLine(e)
           last == LastLine(e)
           source == IF SelectionEnd(e) <= PositionFromLine(t, last) /\ first # last THEN last
                     ELSE last + 1
           isLast == source = LineCount(t) - 1
           ended == IF isLast THEN t \o eolMode ELSE t
           cut == Replaced(ended, PositionFromLine(ended, source),
                           PositionFromLine(ended, source + 1), <<>>)
           at == PositionFromLine(cut, first)
           put == Replaced(cut, at, at, GetLine(ended, source))
           moved == IF isLast THEN TextRange(put, 0, LineEndPosition(put, LineCount(put) - 2))
                    ELSE put
           transposed == LineTranspose(t, source)
           shift == PositionFromLine(transposed, source) - PositionFromLine(t, first)
<1>1. t \in Text /\ Good(eolMode, t)
  BY EditorIs
<1>2. first \in Nat /\ last \in Nat /\ first <= last
  BY SelectionIs
<1>3. CASE source >= LineCount(t)
  BY <1>3 DEF MoveDown
<1>4. CASE ~(source >= LineCount(t)) /\ first = last
  <2>1. InLine(t, first, e.anchor) /\ InLine(t, first, e.caret)
    BY <1>4, OneLine
  <2>2. source = first + 1 /\ source \in Nat /\ source < LineCount(t)
    <3>1. LineFromPosition(t, Len(t)) \in Nat
      BY <1>1, LineFromIs, EndsValid DEF Valid
    <3>2. LineCount(t) \in Nat
      BY <3>1 DEF LineCount
    <3>3. source = first + 1 /\ source \in Nat
      BY <1>2, <1>4
    <3> HIDE DEF source, t
    <3>4. QED
      BY <1>4, <3>2, <3>3
  <2>3. /\ Good(eolMode, transposed)
        /\ \A p : InLine(t, first, p) => Valid(transposed, p + shift)
    <3> HIDE DEF t, first, source
    <3>1. QED
      BY <1>1, <1>2, <2>2, TransposeIs
  <2>4. Valid(transposed, e.anchor + shift) /\ Valid(transposed, e.caret + shift)
    BY <2>1, <2>3
  <2>5. SetSel(transposed, e.anchor + shift, e.caret + shift) \in Editors(eolMode)
    <3> HIDE DEF transposed, shift
    <3>1. QED
      BY <2>3, <2>4, SetSelGood
  <2>6. QED
    BY <1>4, <2>5 DEF MoveDown
<1>5. CASE ~(source >= LineCount(t)) /\ first # last
  <2>1. source \in Nat /\ source # 0
    BY <1>2, <1>5
  <2>2. source < LineCount(t)
    <3>1. LineFromPosition(t, Len(t)) \in Nat
      BY <1>1, LineFromIs, EndsValid DEF Valid
    <3>2. LineCount(t) \in Nat
      BY <3>1 DEF LineCount
    <3> HIDE DEF source, t
    <3>3. QED
      BY <1>5, <2>1, <3>2
  <2> HIDE DEF t, first, source
  <2>3. isLast => LineCount(put) - 2 \in Nat
    <3>1. SUFFICES ASSUME isLast PROVE LineCount(put) - 2 \in Nat
      OBVIOUS
    <3>2. ended = t \o eolMode
      BY <3>1
    <3> HIDE DEF ended
    <3>3. QED
      BY <1>1, <1>2, <2>1, <2>2, <3>2, LineEndStays
  <2>4. Good(eolMode, ended)
    <3>1. Good(eolMode, t \o eolMode)
      BY <1>1, ModeGood, ConcatGood
    <3>2. QED
      BY <1>1, <3>1
  <2> HIDE DEF ended
  <2>5. /\ Good(eolMode, GetLine(ended, source))
        /\ Valid(ended, PositionFromLine(ended, source))
        /\ Valid(ended, PositionFromLine(ended, source + 1))
        /\ PositionFromLine(ended, source) <= PositionFromLine(ended, source + 1)
    BY <2>1, <2>4, GetLineGood
  <2>6. Good(eolMode, cut)
    BY <2>4, <2>5, NothingIs, ReplacedIs
  <2> HIDE DEF cut
  <2>7. Valid(cut, at) /\ at <= at
    <3>1. cut \in Text
      BY <2>6 DEF Good
    <3>2. at \in 0..Len(cut) /\ Len(cut) \in Nat /\ Valid(cut, at)
      BY <1>2, <3>1, PositionIs, TextIs
    <3>3. QED
      BY <3>2
  <2> HIDE DEF at
  <2>8. Good(eolMode, put)
    BY <2>5, <2>6, <2>7, ReplacedIs
  <2> HIDE DEF put
  <2>9. isLast => Good(eolMode, TextRange(put, 0, LineEndPosition(put, LineCount(put) - 2)))
    BY <2>3, <2>8, BeforeLineEndGood
  <2>10. Good(eolMode, moved)
    BY <2>8, <2>9
  <2> HIDE DEF moved
  <2>11. /\ Valid(moved, PositionFromLine(moved, first + 1))
         /\ Valid(moved, PositionFromLine(moved, source + 1))
    <3>1. moved \in Text
      BY <2>10 DEF Good
    <3>2. first + 1 \in Nat /\ source + 1 \in Nat
      BY <1>2, <2>1
    <3>3. QED
      BY <3>1, <3>2, PositionIs
  <2>12. SelectLike(e, moved, PositionFromLine(moved, first + 1),
                    PositionFromLine(moved, source + 1)) \in Editors(eolMode)
    BY <2>10, <2>11, SelectLikeGood
  <2>13. QED
    BY <1>5, <2>12, ZenonT(30)
    DEF MoveDown, t, first, last, source, isLast, ended, cut, at, put, moved
<1>6. QED
  BY <1>3, <1>4, <1>5

-----------------------------------------------------------------------------
(* Find and replace. *)

\* A pattern, or a string without line ends that is not empty.
IsSearch(what) ==
    \/ what.regexp = TRUE /\ what.pattern \in Patterns
    \/ what.regexp = FALSE /\ what.find \in Plain /\ what.find # <<>>

\* A string found in the text ends where no line end is split.
LEMMA FoundEnds ==
    ASSUME NEW t \in Text, NEW p \in 0..Len(t), NEW find \in Plain, find # <<>>,
           p + Len(find) <= Len(t), TextRange(t, p, p + Len(find)) = find
    PROVE  Valid(t, p + Len(find)) /\ p <= p + Len(find)
<1> DEFINE n == Len(find)
<1>1. Len(t) \in Nat /\ p \in Nat
  BY TextIs
<1>2. n \in Nat /\ n # 0 /\ \A i \in 1..n : ~IsEnd(find[i])
  BY PlainGood, LenProperties, EmptySeq DEF Plain
<1> HIDE DEF n
<1>3. PICK k \in Nat : k = p + n
  BY <1>1, <1>2
<1>4. k \in 0..Len(t) /\ p <= k /\ k - p = n /\ n \in 1..k - p /\ p + n = k /\ n \in 1..n
  BY <1>1, <1>2, <1>3 DEF n
<1>5. TextRange(t, p, k)[n] = t[p + n]
  BY <1>4, RangeIs
<1>6. TextRange(t, p, k) = find
  BY <1>3 DEF n
<1>7. ~IsEnd(t[k])
  BY <1>2, <1>4, <1>5, <1>6
<1>8. Valid(t, k)
  BY <1>4, <1>7 DEF Valid, IsEnd
<1>9. QED
  BY <1>3, <1>4, <1>8 DEF n

\* A match ends behind its start, and splits no line end.
LEMMA MatchEndsIs ==
    ASSUME NEW t \in Text, NEW what, IsSearch(what), NEW p, Valid(t, p),
           NEW q \in MatchEnds(t, what, p)
    PROVE  Valid(t, q) /\ p <= q /\ q \in Nat
<1> DEFINE line == LineFromPosition(t, p)
           end == LineEndPosition(t, line)
<1>1. p \in 0..Len(t) /\ Len(t) \in Nat
  BY TextIs DEF Valid
<1>2. line \in Nat /\ Valid(t, end)
  BY <1>1, LineOf, LineEndIs
<1>3. CASE what.regexp = FALSE /\ what.find \in Plain /\ what.find # <<>>
  <2>1. q = p + Len(what.find) /\ q <= Len(t) /\ TextRange(t, p, q) = what.find
    BY <1>3 DEF MatchEnds
  <2>2. Valid(t, p + Len(what.find)) /\ p <= p + Len(what.find)
    BY <1>1, <1>3, <2>1, FoundEnds
  <2>3. QED
    BY <1>1, <2>1, <2>2 DEF Valid
<1>4. CASE what.regexp = TRUE /\ what.pattern \in Patterns
  <2>1. q = p \/ (q = end /\ p < end)
    <3> HIDE DEF line, end
    <3>1. QED
      BY <1>4 DEF MatchEnds, Patterns, line, end
  <2>2. end \in 0..Len(t)
    BY <1>2 DEF Valid
  <2> HIDE DEF line, end
  <2>3. QED
    BY <1>1, <1>2, <2>1, <2>2
<1>5. QED
  BY <1>3, <1>4 DEF IsSearch

\* A match that is found begins and ends where no line end is split.
LEMMA FoundIs ==
    ASSUME NEW t \in Text, NEW what, IsSearch(what), NEW from \in Nat,
           NEW m \in FindText(t, what, from)
    PROVE  /\ Valid(t, m.start) /\ Valid(t, m.end) /\ m.start <= m.end /\ m.start \in Nat
           /\ from <= m.start /\ m.end \in MatchEnds(t, what, m.start)
<1> DEFINE at == {p \in from..Len(t) : Valid(t, p) /\ MatchEnds(t, what, p) # {}}
           start == Min(at)
           ends == MatchEnds(t, what, start)
<1>1. at # {} /\ m = [start |-> start, end |-> Min(ends)]
  BY DEF FindText
<1>2. at \subseteq Nat /\ \A p \in at : from <= p /\ Valid(t, p) /\ MatchEnds(t, what, p) # {}
  BY TextIs DEF Valid
<1> HIDE DEF at
<1>3. start \in at
  BY <1>1, <1>2, MinOf
<1>4. Valid(t, start) /\ ends # {} /\ start \in Nat /\ from <= start
  BY <1>2, <1>3
<1>5. \A q \in ends : Valid(t, q) /\ start <= q /\ q \in Nat
  <2> HIDE DEF start
  <2>1. QED
    BY <1>4, MatchEndsIs
<1> HIDE DEF start, ends
<1>6. Min(ends) \in ends
  BY <1>4, <1>5, MinOf
<1>7. QED
  BY <1>1, <1>4, <1>5, <1>6 DEF ends

\* The search goes on at a position of the text.
LEMMA NextStartIs ==
    ASSUME NEW t \in Text, NEW m, m.start \in Nat, NEW what, NEW n \in Nat,
           Valid(t, m.start + n)
    PROVE  NextStart(t, m, what, n) \in 0..Len(t)
<1> DEFINE after == m.start + n
           past == IF m.start = m.end /\ ~(RegexStartOrEndOfLine(what) /\ n > 0)
                   THEN PositionAfter(t, after) ELSE after
           line == LineFromPosition(t, past)
<1>1. after \in 0..Len(t) /\ Len(t) \in Nat
  BY TextIs DEF Valid
<1> HIDE DEF after
<1>2. PositionAfter(t, after) \in 0..Len(t)
  <2>1. PICK k : k = after + 1
    OBVIOUS
  <2>2. CASE after >= Len(t)
    BY <1>1, <2>2 DEF PositionAfter
  <2>3. CASE ~(after >= Len(t)) /\ Valid(t, k)
    BY <1>1, <2>1, <2>3 DEF PositionAfter, Valid
  <2>4. CASE ~(after >= Len(t)) /\ ~Valid(t, k)
    <3>1. k \in 0..Len(t)
      BY <1>1, <2>1, <2>4
    <3>2. k \in 1..Len(t) - 1
      BY <2>4, <3>1 DEF Valid
    <3>3. PositionAfter(t, after) = after + 2
      BY <2>1, <2>4 DEF PositionAfter
    <3>4. QED
      BY <1>1, <2>1, <3>2, <3>3
  <2>5. QED
    BY <2>2, <2>3, <2>4
<1>3. past \in 0..Len(t)
  BY <1>1, <1>2
<1> HIDE DEF past
<1>4. line + 1 \in Nat
  BY <1>3, LineOf
<1>5. PositionFromLine(t, line + 1) \in 0..Len(t)
  BY <1>4, PositionIs
<1>6. QED
  BY <1>3, <1>5 DEF NextStart, past, after

-----------------------------------------------------------------------------
(* Files. *)

\* A file has the line ends it is opened with.
LEMMA OpenedGood ==
    ASSUME NEW mode \in EOLModes, NEW lines \in Texts
    PROVE  Opened(lines, mode) \in Editors(mode)
<1> DEFINE n == Len(lines)
           R == {s \in Text : Good(mode, s)}
           T == [i \in 0..n |-> R]
<1>1. lines \in Seq(Plain) /\ n \in Nat
  BY EditCommandsAssumption, LenProperties
<1>2. \A i \in 1..n : lines[i] \in Plain
  BY <1>1, ElementOfSeq
<1> HIDE DEF n
<1>3. \A i \in 1..n : Good(mode, lines[i])
  BY <1>2, PlainGood
<1>4. <<>> \in T[0]
  <2>1. 0 \in 0..n
    BY <1>1
  <2>2. QED
    BY <2>1, NothingIs
<1>5. ASSUME NEW i \in 1..n, NEW x \in T[i - 1] PROVE JoinTo(lines, mode, x, i) \in T[i]
  <2>1. i \in 0..n /\ i - 1 \in 0..n /\ 1 \in 1..n
    BY <1>1
  <2>2. Good(mode, x)
    BY <2>1
  <2>3. Good(mode, x \o mode)
    BY <2>2, ModeGood, ConcatGood
  <2>4. Good(mode, x \o mode \o lines[i])
    BY <1>3, <2>3, ConcatGood
  <2>5. Good(mode, JoinTo(lines, mode, x, i))
    BY <1>3, <2>1, <2>4 DEF JoinTo
  <2>6. JoinTo(lines, mode, x, i) \in R
    BY <2>5 DEF Good
  <2>7. QED
    BY <2>1, <2>6
<1>6. JoinedRounds(lines, mode, <<>>, n) \in T[n]
  <2> HIDE DEF T
  <2>1. QED
    BY <1>1, <1>4, <1>5, JoinedLoop
<1>7. Good(mode, JoinedRounds(lines, mode, <<>>, n))
  <2>1. n \in 0..n
    BY <1>1
  <2>2. QED
    BY <1>6, <2>1
<1>8. Good(mode, Joined(lines, mode))
  BY <1>7 DEF Joined, JoinedRounds, n
<1>9. Valid(Joined(lines, mode), 0)
  BY <1>8, EndsValid DEF Good
<1>10. QED
  BY <1>8, <1>9, SetSelGood DEF Opened

-----------------------------------------------------------------------------
(* Every reachable state. *)

\* In a text of one form every line end is the one of that form.
LEMMA EndsAlike ==
    ASSUME NEW mode \in EOLModes, NEW t, Good(mode, t), NEW p \in 1..Len(t), EndsLine(t, p)
    PROVE  TextRange(t, Max({p - Len(mode), 0}), p) = mode
<1>1. t \in Text /\ Len(t) \in Nat
  BY TextIs DEF Good
<1>2. t[p] = CR \/ t[p] = LF
  BY DEF EndsLine, IsEnd
<1>3. CASE mode = <<CR, LF>>
  <2>1. Paired(t)
    BY <1>3 DEF Good
  <2>2. t[p] = LF
    BY <1>2, <2>1 DEF Paired, EndsLine
  <2>3. p > 1 /\ t[p - 1] = CR
    BY <2>1, <2>2 DEF Paired
  <2>4. PICK q \in Nat : q = p - 2
    BY <1>1, <2>3
  <2>5. Max({p - Len(mode), 0}) = q
    <3>1. p - Len(mode) = q
      BY <1>3, <2>4
    <3>2. Max({q, 0}) = (IF q <= 0 THEN 0 ELSE q)
      BY MinMaxIs
    <3>3. Max({q, 0}) = q
      BY <3>2
    <3>4. QED
      BY <3>1, <3>3
  <2>6. q \in 0..Len(t) /\ p \in 0..Len(t) /\ q <= p /\ p - q = 2 /\ q + 1 = p - 1 /\ q + 2 = p
    BY <1>1, <2>3, <2>4
  <2> DEFINE r == TextRange(t, q, p)
  <2>7. r \in Text /\ Len(r) = p - q /\ \A i \in 1..p - q : r[i] = t[q + i]
    BY <1>1, <2>6, RangeIs
  <2> HIDE DEF r
  <2>8. 1 \in 1..p - q /\ 2 \in 1..p - q
    BY <2>6
  <2>9. Len(r) = 2 /\ r[1] = CR /\ r[2] = LF
    BY <2>2, <2>3, <2>6, <2>7, <2>8
  <2>10. mode \in Text /\ Len(mode) = 2 /\ mode[1] = CR /\ mode[2] = LF
    <3>1. mode \in Text
      BY ModeGood DEF Good
    <3>2. QED
      BY <1>3, <3>1
  <2>11. \A i \in 1..2 : i = 1 \/ i = 2
    OBVIOUS
  <2>12. r = mode
    BY <2>7, <2>9, <2>10, <2>11, SameText
  <2>13. QED
    BY <2>5, <2>12 DEF r
<1>4. CASE Len(mode) = 1 /\ t[p] = mode[1]
  <2>1. PICK q \in Nat : q = p - 1
    BY <1>1
  <2>2. Max({p - Len(mode), 0}) = q
    <3>1. p - Len(mode) = q
      BY <1>4, <2>1
    <3>2. QED
      BY <2>1, <3>1, MinMaxIs
  <2>3. q \in 0..Len(t) /\ p \in 0..Len(t) /\ q <= p /\ p - q = 1 /\ q + 1 = p
    BY <1>1, <2>1
  <2> DEFINE r == TextRange(t, q, p)
  <2>4. r \in Text /\ Len(r) = p - q /\ \A i \in 1..p - q : r[i] = t[q + i]
    BY <1>1, <2>3, RangeIs
  <2> HIDE DEF r
  <2>5. 1 \in 1..p - q /\ \A i \in 1..1 : i = 1
    BY <2>3
  <2>6. Len(r) = 1 /\ r[1] = t[p]
    BY <2>3, <2>4, <2>5
  <2>7. mode \in Text
    BY ModeGood DEF Good
  <2>8. r = mode
    BY <1>4, <2>4, <2>5, <2>6, <2>7, SameText
  <2>9. QED
    BY <2>2, <2>8 DEF r
<1>5. CASE mode = <<LF>>
  <2>1. t[p] = LF
    BY <1>2, <1>5 DEF Good, Lacks
  <2>2. QED
    BY <1>4, <1>5, <2>1
<1>6. CASE mode = <<CR>>
  <2>1. t[p] = CR
    BY <1>2, <1>6 DEF Good, Lacks
  <2>2. QED
    BY <1>4, <1>6, <2>1
<1>7. QED
  BY <1>3, <1>5, <1>6, Forms

\* A Replace All in progress, for a text with the line ends of mode.
SearchesIn(mode) ==
    [active : {TRUE}, what : {what \in Searches \union {BlanksAtEnds} : IsSearch(what)},
     with : Plain, inSelection : BOOLEAN, from : Nat, done : BOOLEAN, count : Nat,
     targetEnd : Nat, origin : Editors(mode)]

\* The inductive invariant: the text has one form of line ends, which neither the
\* selection nor the last replacement splits.
EditInv ==
    /\ eolMode \in EOLModes
    /\ editor \in Editors(eolMode)
    /\ search \in {NoSearch} \union SearchesIn(eolMode)
    /\ search.active /\ search.count > 0 => Valid(editor.text, search.targetEnd)
    /\ commands \in Nat

\* It holds of a file just opened.
LEMMA InitKeeps ==
    Init => EditInv
<1> SUFFICES ASSUME Init PROVE EditInv
  OBVIOUS
<1>1. eolMode \in EOLModes /\ search = NoSearch /\ commands = 0
  BY DEF Init
<1>2. editor \in Editors(eolMode)
  BY <1>1, OpenedGood DEF Init
<1>3. QED
  BY <1>1, <1>2 DEF EditInv, NoSearch

\* A command that leads from such an editor to such an editor keeps it.
LEMMA RanKeeps ==
    ASSUME EditInv, NEW e \in Editors(eolMode), Ran(e)
    PROVE  EditInv'
<1>1. eolMode' = eolMode /\ search' = search /\ editor' = e /\ commands' = commands + 1
      /\ ~search.active
  BY DEF Ran
<1>2. QED
  BY <1>1 DEF EditInv

\* Replace All begins.
LEMMA ReplaceAllKeeps ==
    ASSUME EditInv, NEW what \in Searches \union {BlanksAtEnds}, NEW with \in Plain,
           NEW inSelection \in BOOLEAN, ReplaceAll(what, with, inSelection)
    PROVE  EditInv'
<1>1. eolMode' = eolMode /\ editor' = editor /\ commands' = commands + 1
  BY DEF ReplaceAll
<1>2. search' = [active |-> TRUE, what |-> what, with |-> with, inSelection |-> inSelection,
                 from |-> IF inSelection THEN SelectionStart(editor) ELSE 0,
                 done |-> FALSE, count |-> 0, targetEnd |-> 0, origin |-> editor]
  BY DEF ReplaceAll
<1>3. IsSearch(what)
  <2>1. CASE what \in Searches
    BY <2>1, EditCommandsAssumption DEF IsSearch
  <2>2. CASE what = BlanksAtEnds
    <3>1. what.regexp = TRUE /\ what.pattern = "[ \\t]+$"
      BY <2>2 DEF BlanksAtEnds
    <3>2. QED
      BY <3>1 DEF IsSearch, Patterns
  <2>3. QED
    BY <2>1, <2>2
<1>4. editor \in Editors(eolMode) /\ eolMode \in EOLModes /\ commands \in Nat
  BY DEF EditInv
<1>5. SelectionStart(editor) \in 0..Len(editor.text) /\ Len(editor.text) \in Nat
  BY <1>4, SelectionIs, EditorIs
<1>6. (IF inSelection THEN SelectionStart(editor) ELSE 0) \in Nat
  BY <1>5
<1>7. search' \in SearchesIn(eolMode) /\ search'.count = 0
  BY <1>2, <1>3, <1>4, <1>6 DEF SearchesIn
<1>8. QED
  BY <1>1, <1>4, <1>7 DEF EditInv

\* A round of Replace All.
LEMMA ReplaceNextKeeps ==
    ASSUME EditInv, ReplaceNext
    PROVE  EditInv'
<1> DEFINE n == Len(search.with)
<1>1. eolMode' = eolMode /\ commands' = commands /\ search.active
  BY DEF ReplaceNext
<1>2. PICK match \in Matches :
        LET done == ReplaceTarget(editor, match.start, match.end, search.with)
            after == match.start + n
            next == NextStart(done.text, match, search.what, n)
        IN  /\ editor' = done
            /\ search' = [search EXCEPT
                   !.from = next, !.count = @ + 1, !.targetEnd = after,
                   !.done = \/ after = Len(done.text)
                            \/ RegexStartOfLine(search.what) /\ next = Len(done.text)]
  BY DEF ReplaceNext
<1>3. /\ search \in SearchesIn(eolMode) /\ editor \in Editors(eolMode)
      /\ eolMode \in EOLModes /\ commands \in Nat
  BY <1>1 DEF EditInv, NoSearch
<1>4. IsSearch(search.what) /\ search.with \in Plain /\ Good(eolMode, search.with) /\ n \in Nat
  BY <1>3, PlainGood, LenProperties DEF SearchesIn, Plain
<1>5. match \in FindText(editor.text, search.what, search.from) /\ search.from \in Nat
  BY <1>3 DEF Matches, SearchesIn
<1>6. /\ Valid(editor.text, match.start) /\ Valid(editor.text, match.end)
      /\ match.start <= match.end /\ match.start \in Nat
  BY <1>3, <1>4, <1>5, FoundIs, EditorIs
<1> DEFINE done == ReplaceTarget(editor, match.start, match.end, search.with)
           after == match.start + n
           next == NextStart(done.text, match, search.what, n)
           ended == \/ after = Len(done.text)
                    \/ RegexStartOfLine(search.what) /\ next = Len(done.text)
<1>7. done \in Editors(eolMode) /\ Valid(done.text, after)
  BY <1>3, <1>4, <1>6, ReplaceTargetGood
<1>8. editor' = done /\ search' = [search EXCEPT !.from = next, !.count = @ + 1,
                                                  !.targetEnd = after, !.done = ended]
  BY <1>2
<1> HIDE DEF done, n
<1>9. next \in Nat
  <2>1. done.text \in Text /\ Len(done.text) \in Nat
    BY <1>7, EditorIs
  <2>2. next \in 0..Len(done.text)
    BY <1>4, <1>6, <1>7, <2>1, NextStartIs
  <2>3. QED
    BY <2>1, <2>2
<1>10. after \in Nat /\ ended \in BOOLEAN
  BY <1>4, <1>6
<1> HIDE DEF next, after, ended
<1>11. search' \in SearchesIn(eolMode) /\ search'.targetEnd = after
  <2>1. search.count + 1 \in Nat
    BY <1>3 DEF SearchesIn
  <2>2. PICK count \in Nat : count = search.count + 1
    BY <2>1
  <2>3. search' = [search EXCEPT !.from = next, !.count = count,
                                 !.targetEnd = after, !.done = ended]
    BY <1>8, <2>2
  <2>4. QED
    BY <1>3, <1>9, <1>10, <2>3 DEF SearchesIn
<1>12. QED
  BY <1>1, <1>3, <1>7, <1>8, <1>11 DEF EditInv

\* The end of Replace All.
LEMMA EndReplaceAllKeeps ==
    ASSUME EditInv, EndReplaceAll
    PROVE  EditInv'
<1>1. eolMode' = eolMode /\ commands' = commands /\ search' = NoSearch /\ search.active
  BY DEF EndReplaceAll
<1>2. /\ search \in SearchesIn(eolMode) /\ editor \in Editors(eolMode)
      /\ eolMode \in EOLModes /\ commands \in Nat
      /\ search.count > 0 => Valid(editor.text, search.targetEnd)
  BY <1>1 DEF EditInv, NoSearch
<1>3. search.targetEnd \in Nat
  BY <1>2 DEF SearchesIn
<1>4. ASSUME Valid(editor.text, search.targetEnd)
      PROVE  /\ [editor EXCEPT !.anchor = search.targetEnd] \in Editors(eolMode)
             /\ [editor EXCEPT !.caret = search.targetEnd] \in Editors(eolMode)
  BY <1>2, <1>3, <1>4 DEF Editors
<1>5. editor' \in Editors(eolMode)
  BY <1>2, <1>4 DEF EndReplaceAll
<1>6. QED
  BY <1>1, <1>2, <1>5 DEF EditInv, NoSearch

\* Every step keeps it.
LEMMA NextKeeps ==
    EditInv /\ [Next]_vars => EditInv'
<1> SUFFICES ASSUME EditInv, [Next]_vars PROVE EditInv'
  OBVIOUS
<1>1. eolMode \in EOLModes /\ editor \in Editors(eolMode) /\ commands \in Nat
  BY DEF EditInv
<1>2. Open \in Plain /\ Close \in Plain /\ <<>> \in Plain
  BY EditCommandsAssumption, NothingIs
<1>3. CASE Select
  <2>1. PICK anchor \in 0..Len(editor.text), caret \in 0..Len(editor.text) :
            /\ Valid(editor.text, anchor) /\ Valid(editor.text, caret)
            /\ editor' = SetSel(editor.text, anchor, caret)
    BY <1>3 DEF Select
  <2>2. Good(eolMode, editor.text)
    BY <1>1, EditorIs
  <2>3. editor' \in Editors(eolMode)
    BY <2>1, <2>2, SetSelGood
  <2>4. eolMode' = eolMode /\ search' = search /\ commands' = commands /\ ~search.active
    BY <1>3 DEF Select
  <2>5. QED
    BY <2>3, <2>4 DEF EditInv
<1>4. CASE MoveLineUp
  BY <1>1, <1>4, MoveUpGood, RanKeeps DEF MoveLineUp
<1>5. CASE MoveLineDown
  BY <1>1, <1>5, MoveDownGood, RanKeeps DEF MoveLineDown
<1>6. CASE ConvertTabs
  BY <1>1, <1>6, TabsToSpacesGood, RanKeeps DEF ConvertTabs
<1>7. CASE ConvertSpaces
  BY <1>1, <1>7, SpacesToTabsGood, RanKeeps DEF ConvertSpaces
<1>8. CASE Compress
  BY <1>1, <1>8, CompressSpacesGood, RanKeeps DEF Compress
<1>9. CASE Modify
  <2>1. PICK open \in {<<>>, Open}, close \in {<<>>, Close} : Ran(ModifyLines(editor, open, close))
    BY <1>9 DEF Modify
  <2>2. open \in Plain /\ close \in Plain
    BY <1>2
  <2>3. QED
    BY <1>1, <2>1, <2>2, ModifyLinesGood, RanKeeps
<1>10. CASE Enclose
  BY <1>1, <1>2, <1>10, EncloseSelectionGood, RanKeeps DEF Enclose
<1>11. CASE Pad
  BY <1>1, <1>11, PadGood, RanKeeps DEF Pad
<1>12. ASSUME NEW atStart \in BOOLEAN, ToggleComments(atStart) PROVE EditInv'
  BY <1>1, <1>12, ToggleLineCommentsGood, RanKeeps DEF ToggleComments
<1>13. CASE StripFirst
  BY <1>1, <1>13, StripFirstGood, RanKeeps DEF StripFirst
<1>14. CASE StripLast
  BY <1>1, <1>14, StripLastGood, RanKeeps DEF StripLast
<1>15. CASE Trim
  BY <1>1, <1>15, StripBlanksGood, RanKeeps DEF Trim
<1>16. CASE TrimSelection
  BY <1>2, <1>16, ReplaceAllKeeps DEF TrimSelection
<1>17. ASSUME NEW merge \in BOOLEAN, RemoveBlank(merge) PROVE EditInv'
  BY <1>1, <1>17, RemoveBlankLinesGood, RanKeeps DEF RemoveBlank
<1>18. ASSUME NEW column \in Columns, Wrap(column) PROVE EditInv'
  BY <1>1, <1>18, WrapToColumnGood, RanKeeps DEF Wrap
<1>19. CASE Join
  BY <1>1, <1>19, JoinLinesGood, RanKeeps DEF Join
<1>20. CASE JoinEx
  BY <1>1, <1>20, JoinLinesExGood, RanKeeps DEF JoinEx
<1>21. ASSUME NEW strip \in BOOLEAN, NEW cps \in BOOLEAN, Filter(strip, cps) PROVE EditInv'
  BY <1>1, <1>21, FilteredGood, RanKeeps DEF Filter
<1>22. ASSUME NEW what \in Searches, NEW with \in Replacements, NEW inSelection \in BOOLEAN,
              ReplaceAll(what, with, inSelection)
       PROVE  EditInv'
  <2>1. with \in Plain
    BY EditCommandsAssumption
  <2>2. QED
    BY <1>22, <2>1, ReplaceAllKeeps
<1>23. CASE ReplaceNext
  BY <1>23, ReplaceNextKeeps
<1>24. CASE EndReplaceAll
  BY <1>24, EndReplaceAllKeeps
<1>25. CASE OpenFile
  <2>1. /\ eolMode' = eolMode /\ search' = NoSearch /\ commands' = 0
        /\ \E lines \in Texts : editor' = Opened(lines, eolMode)
    BY <1>25 DEF OpenFile
  <2>2. editor' \in Editors(eolMode)
    BY <1>1, <2>1, OpenedGood
  <2>3. QED
    BY <1>1, <2>1, <2>2 DEF EditInv, NoSearch
<1>26. CASE UNCHANGED vars
  BY <1>26 DEF EditInv, vars
<1>27. QED
  BY <1>3, <1>4, <1>5, <1>6, <1>7, <1>8, <1>9, <1>10, <1>11, <1>12, <1>13, <1>14, <1>15, <1>16,
     <1>17, <1>18, <1>19, <1>20, <1>21, <1>22, <1>23, <1>24, <1>25, <1>26 DEF Next

\* Every state that can be reached has it.
THEOREM EditInvariant == Spec => []EditInv
  BY InitKeeps, NextKeeps, PTL DEF Spec

\* The selection stays inside the text and never falls between CR and LF.
THEOREM SelectionStaysValid == Spec => []TypeOK
<1>1. EditInv => TypeOK
  <2> SUFFICES ASSUME EditInv PROVE TypeOK
    OBVIOUS
  <2>1. /\ editor.text \in Text /\ Valid(editor.text, editor.anchor)
        /\ Valid(editor.text, editor.caret)
    BY EditorIs DEF EditInv
  <2>2. search.active \in BOOLEAN
    <3>1. search = NoSearch => search.active = FALSE
      BY DEF NoSearch
    <3>2. search \in SearchesIn(eolMode) => search.active = TRUE
      BY DEF SearchesIn
    <3>3. QED
      BY <3>1, <3>2 DEF EditInv
  <2>3. QED
    BY <2>1, <2>2 DEF TypeOK, EditInv, Text, Char
<1>2. QED
  BY <1>1, EditInvariant, PTL

\* No command leaves a line end of another form than the file has.
THEOREM LineEndsStayUniform == Spec => []LineEndsUniform
<1>1. EditInv => LineEndsUniform
  BY EditorIs, EndsAlike DEF EditInv, LineEndsUniform
<1>2. QED
  BY <1>1, EditInvariant, PTL

-----------------------------------------------------------------------------
(* Replace All comes to its end. *)

\* A place before a line end, or at the end of the text.
AtEnd(t, p) == p = Len(t) \/ IsEnd(t[p + 1])

\* Whether a match begins at p, told from the characters around p alone.
Fits(t, what, p) ==
    IF ~what.regexp
    THEN p + Len(what.find) <= Len(t) /\ \A i \in 1..Len(what.find) : t[p + i] = what.find[i]
    ELSE CASE what.pattern = "^"  -> Starts(t, p)
           [] what.pattern = "$"  -> AtEnd(t, p)
           [] what.pattern = "^$" -> Starts(t, p) /\ AtEnd(t, p)
           [] OTHER -> \E q \in p + 1..Len(t) : AtEnd(t, q) /\ \A i \in p + 1..q : IsBlank(t[i])

\* Which places are a start of a line.
LEMMA StartIff ==
    ASSUME NEW t \in Text, NEW p \in 0..Len(t)
    PROVE  p = PositionFromLine(t, LineFromPosition(t, p)) <=> Starts(t, p)
<1>1. LineFromPosition(t, p) \in Nat /\ LineFromPosition(t, p) < LineCount(t)
  BY LineOf
<1>2. Starts(t, PositionFromLine(t, LineFromPosition(t, p)))
  BY <1>1, PositionIs
<1>3. QED
  BY <1>2, PositionUnique

\* Which places are an end of a line.
LEMMA EndIff ==
    ASSUME NEW t \in Text, NEW p, Valid(t, p)
    PROVE  p = LineEndPosition(t, LineFromPosition(t, p)) <=> AtEnd(t, p)
<1> DEFINE line == LineFromPosition(t, p)
           from == PositionFromLine(t, line)
           end == LineEndPosition(t, line)
<1>1. p \in 0..Len(t) /\ Len(t) \in Nat
  BY TextIs DEF Valid
<1>2. line \in Nat /\ from <= p /\ p <= end
  BY <1>1, LineOf
<1>3. /\ end \in 0..Len(t) /\ from \in 0..Len(t) /\ \A i \in from + 1..end : ~IsEnd(t[i])
      /\ end < Len(t) => IsEnd(t[end + 1])
  BY <1>2, LineEndIs, PositionIs
<1> HIDE DEF line, from, end
<1>4. ASSUME p = end PROVE AtEnd(t, p)
  BY <1>1, <1>3, <1>4 DEF AtEnd
<1>5. ASSUME p # end PROVE ~AtEnd(t, p)
  <2>1. p + 1 \in from + 1..end /\ p # Len(t)
    BY <1>1, <1>2, <1>3, <1>5
  <2>2. QED
    BY <1>3, <2>1 DEF AtEnd
<1>6. QED
  BY <1>4, <1>5 DEF line, end

\* Which places are before nothing but blanks of a line.
LEMMA BlanksIff ==
    ASSUME NEW t \in Text, NEW p, Valid(t, p)
    PROVE  LET line == LineFromPosition(t, p)
               end == LineEndPosition(t, line)
           IN  p < end /\ BlanksBefore(t, line, end) <= p
               <=> \E q \in p + 1..Len(t) : AtEnd(t, q) /\ \A i \in p + 1..q : IsBlank(t[i])
<1> DEFINE line == LineFromPosition(t, p)
           from == PositionFromLine(t, line)
           end == LineEndPosition(t, line)
           blanks == BlanksBefore(t, line, end)
<1>1. p \in 0..Len(t) /\ Len(t) \in Nat
  BY TextIs DEF Valid
<1>2. line \in Nat /\ from <= p /\ p <= end
  BY <1>1, LineOf
<1>3. /\ end \in 0..Len(t) /\ from \in 0..Len(t) /\ from <= end
      /\ \A i \in from + 1..end : ~IsEnd(t[i])
      /\ end < Len(t) => IsEnd(t[end + 1])
  BY <1>2, LineEndIs, PositionIs
<1>4. InLine(t, line, end)
  BY <1>1, <1>3 DEF InLine
<1>5. /\ InLine(t, line, blanks) /\ blanks <= end /\ \A q \in blanks + 1..end : IsBlank(t[q])
      /\ blanks = from \/ ~IsBlank(t[blanks])
  BY <1>2, <1>4, BlanksBeforeIs
<1>6. blanks \in from..end
  BY <1>5 DEF InLine
<1> HIDE DEF line, from, end, blanks
<1>7. ASSUME p < end, blanks <= p
      PROVE  \E q \in p + 1..Len(t) : AtEnd(t, q) /\ \A i \in p + 1..q : IsBlank(t[i])
  <2>1. end \in p + 1..Len(t) /\ \A i \in p + 1..end : i \in blanks + 1..end
    BY <1>1, <1>3, <1>6, <1>7
  <2>2. AtEnd(t, end)
    BY <1>1, <1>3 DEF AtEnd
  <2>3. QED
    BY <1>5, <2>1, <2>2
<1>8. ASSUME NEW q \in p + 1..Len(t), AtEnd(t, q), \A i \in p + 1..q : IsBlank(t[i])
      PROVE  p < end /\ blanks <= p
  <2>1. \A c : IsBlank(c) => ~IsEnd(c)
    BY DEF IsBlank, IsEnd, SP, TAB, CR, LF
  <2>2. ~(q < end)
    <3> SUFFICES ASSUME q < end PROVE FALSE
      OBVIOUS
    <3>1. q + 1 \in from + 1..end /\ q # Len(t)
      BY <1>1, <1>2, <1>3
    <3>2. QED
      BY <1>3, <1>8, <3>1 DEF AtEnd
  <2>3. ~(end < q)
    <3> SUFFICES ASSUME end < q PROVE FALSE
      OBVIOUS
    <3>1. end + 1 \in p + 1..q /\ end < Len(t)
      BY <1>1, <1>2, <1>3
    <3>2. QED
      BY <1>3, <1>8, <2>1, <3>1
  <2>4. end = q
    BY <1>1, <1>3, <2>2, <2>3
  <2>5. p < end
    BY <1>1, <2>4
  <2>6. ~(p < blanks)
    <3> SUFFICES ASSUME p < blanks PROVE FALSE
      OBVIOUS
    <3>1. blanks \in p + 1..q /\ blanks # from
      BY <1>1, <1>2, <1>3, <1>6, <2>4
    <3>2. QED
      BY <1>5, <1>8, <3>1
  <2>7. QED
    BY <1>1, <1>3, <1>6, <2>5, <2>6
<1>9. QED
  BY <1>7, <1>8 DEF line, end, blanks

\* Where a string is found.
LEMMA FindIff ==
    ASSUME NEW t \in Text, NEW p \in 0..Len(t), NEW find \in Plain, p + Len(find) <= Len(t)
    PROVE  TextRange(t, p, p + Len(find)) = find <=> \A i \in 1..Len(find) : t[p + i] = find[i]
<1> DEFINE n == Len(find)
<1>1. Len(t) \in Nat /\ p \in Nat /\ find \in Text /\ n \in Nat
  BY TextIs, PlainGood DEF Good
<1> HIDE DEF n
<1>2. PICK k \in Nat : k = p + n
  BY <1>1
<1>3. k \in 0..Len(t) /\ p <= k /\ k - p = n
  BY <1>1, <1>2 DEF n
<1> DEFINE r == TextRange(t, p, k)
<1>4. r \in Text /\ Len(r) = n /\ \A i \in 1..n : r[i] = t[p + i]
  BY <1>3, RangeIs
<1> HIDE DEF r
<1>5. r = find <=> \A i \in 1..n : r[i] = find[i]
  BY <1>1, <1>4, SameText DEF n
<1>6. QED
  BY <1>2, <1>4, <1>5 DEF n, r

\* Where a search finds a match.
LEMMA FitsIff ==
    ASSUME NEW t \in Text, NEW what, IsSearch(what), NEW p, Valid(t, p)
    PROVE  MatchEnds(t, what, p) # {} <=> Fits(t, what, p)
<1> DEFINE line == LineFromPosition(t, p)
           end == LineEndPosition(t, line)
           B == \E q \in p + 1..Len(t) : AtEnd(t, q) /\ \A i \in p + 1..q : IsBlank(t[i])
<1>1. p \in 0..Len(t) /\ Len(t) \in Nat
  BY TextIs DEF Valid
<1>2. CASE what.regexp = FALSE /\ what.find \in Plain /\ what.find # <<>>
  <2>1. MatchEnds(t, what, p) # {} <=>
            /\ p + Len(what.find) <= Len(t)
            /\ TextRange(t, p, p + Len(what.find)) = what.find
    BY <1>2 DEF MatchEnds
  <2>2. QED
    BY <1>1, <1>2, <2>1, FindIff DEF Fits
<1>3. CASE what.regexp = TRUE /\ what.pattern \in Patterns
  <2>1. /\ p = PositionFromLine(t, line) <=> Starts(t, p)
        /\ p = end <=> AtEnd(t, p)
        /\ p < end /\ BlanksBefore(t, line, end) <= p <=> B
    BY <1>1, StartIff, EndIff, BlanksIff
  <2>2. MatchEnds(t, what, p) =
            CASE what.pattern = "^"  -> {q \in {p} : p = PositionFromLine(t, line)}
              [] what.pattern = "$"  -> {q \in {p} : p = end}
              [] what.pattern = "^$" -> {q \in {p} : p = end /\ p = PositionFromLine(t, line)}
              [] OTHER -> {q \in {end} : p < end /\ BlanksBefore(t, line, end) <= p}
    BY <1>3 DEF MatchEnds
  <2>3. Fits(t, what, p) <=>
            CASE what.pattern = "^"  -> Starts(t, p)
              [] what.pattern = "$"  -> AtEnd(t, p)
              [] what.pattern = "^$" -> Starts(t, p) /\ AtEnd(t, p)
              [] OTHER -> B
    BY <1>3 DEF Fits
  <2> HIDE DEF line, end, B
  <2>4. CASE what.pattern = "^"
    BY <2>1, <2>2, <2>3, <2>4
  <2>5. CASE what.pattern = "$"
    BY <2>1, <2>2, <2>3, <2>5
  <2>6. CASE what.pattern = "^$"
    BY <2>1, <2>2, <2>3, <2>6
  <2>7. CASE what.pattern = "[ \\t]+$"
    BY <2>1, <2>2, <2>3, <2>7
  <2>8. QED
    BY <1>3, <2>4, <2>5, <2>6, <2>7 DEF Patterns
<1>4. QED
  BY <1>2, <1>3 DEF IsSearch

\* Behind the places a and b two texts are alike: what splits no line end and fits in
\* the one does so in the other.
LEMMA ShiftFits ==
    ASSUME NEW u \in Text, NEW t \in Text, NEW a \in 0..Len(u), NEW b \in 0..Len(t),
           NEW r \in Nat, Len(u) = a + r, Len(t) = b + r, \A i \in 1..r : u[a + i] = t[b + i],
           Valid(t, b), NEW j \in 0..r, Valid(u, a + j), NEW what, IsSearch(what),
           Fits(u, what, a + j),
           j = 0 => ~(what.regexp = TRUE /\ what.pattern \in {"^", "^$"})
    PROVE  Valid(t, b + j) /\ Fits(t, what, b + j)
<1>1. Len(t) \in Nat /\ Len(u) \in Nat /\ a \in Nat /\ b \in Nat /\ j \in Nat
  BY TextIs
<1>2. PICK x \in Nat, y \in Nat : x = a + j /\ y = b + j
  BY <1>1
<1>3. /\ x \in 0..Len(u) /\ y \in 0..Len(t) /\ (x = Len(u) <=> y = Len(t))
      /\ j # 0 => x # 0 /\ y # 0
  BY <1>1, <1>2
<1>4. ASSUME NEW i \in Int PROVE x + i \in a + 1..Len(u) => u[x + i] = t[y + i]
  <2>1. PICK k \in Int : k = j + i
    BY <1>1
  <2>2. x + i = a + k /\ y + i = b + k /\ (a + k \in a + 1..Len(u) => k \in 1..r)
    BY <1>1, <1>2, <2>1
  <2>3. QED
    BY <2>2
<1>5. j # 0 => u[x] = t[y] /\ (x < Len(u) => u[x + 1] = t[y + 1])
  <2>1. j # 0 => x + 0 \in a + 1..Len(u) /\ x + 0 = x /\ y + 0 = y
    BY <1>1, <1>2, <1>3
  <2>2. x < Len(u) => x + 1 \in a + 1..Len(u)
    BY <1>1, <1>2, <1>3
  <2>3. QED
    BY <1>4, <2>1, <2>2
<1>6. Valid(t, y)
  <2>1. CASE j = 0
    BY <1>1, <1>2, <2>1
  <2>2. CASE j # 0
    <3>1. y \in 1..Len(t) - 1 => x \in 1..Len(u) - 1 /\ x < Len(u)
      BY <1>1, <1>2, <1>3, <2>2
    <3>2. QED
      BY <1>2, <1>3, <1>5, <2>2, <3>1 DEF Valid
  <2>3. QED
    BY <2>1, <2>2
<1>7. j # 0 /\ Starts(u, x) => Starts(t, y)
  <2>1. x < Len(u) <=> y < Len(t)
    BY <1>1, <1>2
  <2>2. QED
    BY <1>1, <1>3, <1>5, <2>1 DEF Starts, EndsLine
<1>8. AtEnd(u, x) => AtEnd(t, y)
  <2>1. x # Len(u) => x + 1 \in a + 1..Len(u)
    BY <1>1, <1>2, <1>3
  <2>2. QED
    BY <1>3, <1>4, <2>1 DEF AtEnd
<1>9. ASSUME NEW q \in x + 1..Len(u), AtEnd(u, q), \A i \in x + 1..q : IsBlank(u[i])
      PROVE  \E k \in y + 1..Len(t) : AtEnd(t, k) /\ \A i \in y + 1..k : IsBlank(t[i])
  <2>1. PICK d \in Nat : d = q - x
    BY <1>1
  <2>2. PICK k \in Nat : k = y + d
    OBVIOUS
  <2>3. k \in y + 1..Len(t) /\ (q = Len(u) <=> k = Len(t)) /\ q = x + d /\ d \in Int /\ d + 1 \in Int
    BY <1>1, <1>2, <2>1, <2>2
  <2>4. AtEnd(t, k)
    <3>1. q # Len(u) => x + (d + 1) \in a + 1..Len(u) /\ x + (d + 1) = q + 1 /\ y + (d + 1) = k + 1
      BY <1>1, <1>2, <2>1, <2>2
    <3>2. QED
      BY <1>4, <1>9, <2>3, <3>1 DEF AtEnd
  <2>5. ASSUME NEW i \in y + 1..k PROVE IsBlank(t[i])
    <3>1. PICK g \in Int : g = i - y
      BY <1>1
    <3>2. x + g \in a + 1..Len(u) /\ x + g \in x + 1..q /\ y + g = i
      BY <1>1, <1>2, <2>1, <2>2, <2>3, <3>1
    <3>3. QED
      BY <1>4, <1>9, <3>2
  <2>6. QED
    BY <2>3, <2>4, <2>5
<1>10. Fits(t, what, y)
  <2>1. CASE what.regexp = FALSE /\ what.find \in Plain /\ what.find # <<>>
    <3> DEFINE n == Len(what.find)
    <3>1. n \in Nat /\ x + n <= Len(u) /\ \A i \in 1..n : u[x + i] = what.find[i]
      BY <1>2, <2>1, LenProperties DEF Fits, Plain
    <3> HIDE DEF n
    <3>2. y + n <= Len(t) /\ \A i \in 1..n : i \in Int /\ x + i \in a + 1..Len(u)
      BY <1>1, <1>2, <3>1
    <3>3. \A i \in 1..n : t[y + i] = what.find[i]
      BY <1>4, <3>1, <3>2
    <3>4. QED
      BY <2>1, <3>2, <3>3 DEF Fits, n
  <2>2. CASE what.regexp = TRUE /\ what.pattern = "^"
    BY <1>2, <1>7, <2>2 DEF Fits
  <2>3. CASE what.regexp = TRUE /\ what.pattern = "$"
    BY <1>2, <1>8, <2>3 DEF Fits
  <2>4. CASE what.regexp = TRUE /\ what.pattern = "^$"
    BY <1>2, <1>7, <1>8, <2>4 DEF Fits
  <2>5. CASE what.regexp = TRUE /\ what.pattern = "[ \\t]+$"
    <3>1. \E q \in x + 1..Len(u) : AtEnd(u, q) /\ \A i \in x + 1..q : IsBlank(u[i])
      BY <1>2, <2>5 DEF Fits
    <3>2. \E k \in y + 1..Len(t) : AtEnd(t, k) /\ \A i \in y + 1..k : IsBlank(t[i])
      BY <1>9, <3>1
    <3>3. QED
      BY <2>5, <3>2 DEF Fits
  <2>6. QED
    BY <2>1, <2>2, <2>3, <2>4, <2>5 DEF IsSearch, Patterns
<1>11. QED
  BY <1>2, <1>6, <1>10

\* The text after a replacement: before the string, the string, behind it.
LEMMA TargetIs ==
    ASSUME NEW mode \in EOLModes, NEW e \in Editors(mode), NEW from, NEW to,
           Valid(e.text, from), Valid(e.text, to), from <= to, NEW s, Good(mode, s)
    PROVE  LET u == ReplaceTarget(e, from, to, s).text
           IN  /\ Len(u) = Len(e.text) - (to - from) + Len(s)
               /\ \A i \in 1..Len(s) : u[from + i] = s[i]
               /\ \A i \in 1..Len(e.text) - to : u[from + Len(s) + i] = e.text[to + i]
<1> DEFINE t == e.text
           none == <<>>
           cut == Replaced(t, from, to, none)
           put == Replaced(cut, from, from, s)
<1>1. /\ Good(mode, t) /\ Len(t) \in Nat /\ from \in 0..Len(t) /\ to \in 0..Len(t)
      /\ Good(mode, none) /\ Len(none) = 0
  BY EditorIs, NothingIs DEF Valid
<1>2. ReplaceTarget(e, from, to, s).text = put
  BY ReplaceTargetGood
<1>14. Valid(t, from) /\ Valid(t, to)
  OBVIOUS
<1> HIDE DEF t, none
<1>3. /\ Good(mode, cut) /\ Len(cut) = Len(t) - (to - from) + Len(none)
      /\ \A p : Valid(t, p) /\ p <= from => Valid(cut, p)
  <2>1. Good(mode, cut) /\ Len(cut) = Len(t) - (to - from) + Len(none)
    BY <1>1, <1>14, ReplacedIs
  <2>2. \A p : Valid(t, p) /\ p <= from => Valid(cut, p)
    BY <1>1, <1>14, ReplacedIs
  <2>3. QED
    BY <2>1, <2>2
<1>4. ASSUME NEW i \in 1..Len(t) - to PROVE cut[from + Len(none) + i] = t[to + i]
  <2>1. Replaced(t, from, to, none)[from + Len(none) + i] = t[to + i]
    <3> HIDE DEF cut, put
    <3>1. Good(mode, t) /\ Good(mode, none)
      BY <1>1
    <3>2. QED
      BY <1>14, <3>1, ReplacedIs
  <2>2. QED
    BY <2>1 DEF cut
<1> HIDE DEF cut
<1>5. Len(cut) = Len(t) - (to - from)
  <2>1. Len(cut) = Len(t) - (to - from) + Len(none)
    BY <1>3
  <2>2. QED
    BY <1>1, <2>1
<1>6. ASSUME NEW i \in 1..Len(t) - to PROVE cut[from + i] = t[to + i]
  <2>1. from + Len(none) = from
    BY <1>1
  <2>2. cut[from + Len(none) + i] = t[to + i]
    BY <1>4
  <2>3. QED
    BY <2>1, <2>2
<1>7. from <= from
  BY <1>1
<1>8. Valid(cut, from)
  BY <1>3, <1>7 DEF t
<1>9. /\ Len(put) = Len(cut) - (from - from) + Len(s)
      /\ \A i \in 1..Len(s) : put[from + i] = s[i]
  BY <1>3, <1>7, <1>8, ReplacedIs
<1>10. ASSUME NEW i \in 1..Len(cut) - from PROVE put[from + Len(s) + i] = cut[from + i]
  <2>1. Good(mode, cut)
    BY <1>3
  <2>2. Replaced(cut, from, from, s)[from + Len(s) + i] = cut[from + i]
    BY <1>7, <1>8, <2>1, ReplacedIs
  <2>3. QED
    BY <2>2
<1> HIDE DEF put
<1>11. Len(put) = Len(t) - (to - from) + Len(s)
  <2>1. Len(put) = Len(cut) - (from - from) + Len(s)
    BY <1>9
  <2>2. Len(s) \in Nat
    BY TextIs DEF Good
  <2>3. QED
    BY <1>1, <1>5, <2>1, <2>2
<1>12. ASSUME NEW i \in 1..Len(t) - to PROVE put[from + Len(s) + i] = t[to + i]
  <2>1. i \in 1..Len(cut) - from
    BY <1>1, <1>5
  <2>2. QED
    BY <1>6, <1>10, <2>1
<1>13. QED
  BY <1>2, <1>9, <1>11, <1>12 DEF t

\* The search never goes back, and behind an empty match it goes on, but for a match
\* of a line start or end that something was put before.
LEMMA NextStartBehind ==
    ASSUME NEW t \in Text, NEW m, m.start \in Nat, NEW what, NEW n \in Nat,
           Valid(t, m.start + n), m.start + n # Len(t)
    PROVE  /\ m.start + n <= NextStart(t, m, what, n)
           /\ m.start = m.end /\ ~(RegexStartOrEndOfLine(what) /\ n > 0)
              => m.start + n < NextStart(t, m, what, n)
<1> DEFINE after == m.start + n
           on == m.start = m.end /\ ~(RegexStartOrEndOfLine(what) /\ n > 0)
           past == IF on THEN PositionAfter(t, after) ELSE after
           line == LineFromPosition(t, past)
           next == PositionFromLine(t, line + 1)
<1>1. after \in 0..Len(t) /\ after < Len(t) /\ Len(t) \in Nat
  BY TextIs DEF Valid
<1> HIDE DEF after
<1>2. /\ PositionAfter(t, after) \in 0..Len(t) /\ after < PositionAfter(t, after)
  <2>1. PICK k : k = after + 1
    OBVIOUS
  <2>2. CASE Valid(t, k)
    BY <1>1, <2>1, <2>2 DEF PositionAfter, Valid
  <2>3. CASE ~Valid(t, k)
    <3>1. k \in 0..Len(t)
      BY <1>1, <2>1
    <3>2. k \in 1..Len(t) - 1
      BY <2>3, <3>1 DEF Valid
    <3>3. PositionAfter(t, after) = after + 2
      BY <1>1, <2>1, <2>3 DEF PositionAfter
    <3>4. QED
      BY <1>1, <2>1, <3>2, <3>3
  <2>4. QED
    BY <2>2, <2>3
<1>3. past \in 0..Len(t) /\ after <= past /\ (on => after < past)
  BY <1>1, <1>2
<1> HIDE DEF past
<1>4. past <= next /\ next \in 0..Len(t)
  <2>1. line \in Nat
    BY <1>3, LineOf
  <2>2. PICK l \in Nat : l = line + 1
    BY <2>1
  <2>3. /\ next \in 0..Len(t) /\ (l < LineCount(t) => LineFromPosition(t, next) = l)
        /\ (~(l < LineCount(t)) => next = Len(t))
    BY <2>2, PositionIs
  <2> HIDE DEF next
  <2>4. CASE l < LineCount(t)
    <3> SUFFICES ASSUME ~(past <= next) PROVE FALSE
      BY <2>3
    <3>1. next <= past
      BY <1>1, <1>3, <2>3
    <3>2. LineFromPosition(t, next) <= line
      BY <1>3, <2>3, <3>1, LineFromIs
    <3>3. QED
      BY <2>1, <2>2, <2>3, <2>4, <3>2
  <2>5. CASE ~(l < LineCount(t))
    BY <1>3, <2>3, <2>5
  <2>6. QED
    BY <2>4, <2>5
<1>5. NextStart(t, m, what, n) = past \/ NextStart(t, m, what, n) = next
  BY DEF NextStart, past, after
<1>6. QED
  <2> HIDE DEF next
  <2>1. after <= NextStart(t, m, what, n) /\ (on => after < NextStart(t, m, what, n))
    BY <1>1, <1>3, <1>4, <1>5
  <2>2. QED
    BY <2>1 DEF after

\* The places from a position on where a match begins.
PlacesFrom(t, what, from) ==
    {p \in from..Len(t) : Valid(t, p) /\ MatchEnds(t, what, p) # {}}

\* A replacement leaves fewer of them.
LEMMA FewerPlaces ==
    ASSUME NEW mode \in EOLModes, NEW e \in Editors(mode), NEW what, IsSearch(what),
           NEW with \in Plain, NEW from \in Nat, NEW m \in FindText(e.text, what, from),
           ~(what.regexp = TRUE /\ what.pattern = "$" /\ with # <<>>)
    PROVE  LET u == ReplaceTarget(e, m.start, m.end, with).text
               next == NextStart(u, m, what, Len(with))
               Was == PlacesFrom(e.text, what, from)
           IN  /\ IsFiniteSet(Was) /\ Cardinality(Was) \in Nat \ {0}
               /\ m.start + Len(with) # Len(u)
                  => Cardinality(PlacesFrom(u, what, next)) < Cardinality(Was)
<1> DEFINE t == e.text
           n == Len(with)
           u == ReplaceTarget(e, m.start, m.end, with).text
           next == NextStart(u, m, what, n)
           Was == PlacesFrom(t, what, from)
           Are == PlacesFrom(u, what, next)
<1>1. t \in Text /\ Len(t) \in Nat /\ Good(mode, t)
  BY EditorIs
<1>2. Good(mode, with) /\ n \in Nat /\ (n = 0 <=> with = <<>>) /\ \A i \in 1..n : ~IsEnd(with[i])
  BY PlainGood, LenProperties, EmptySeq DEF Plain
<1>3. /\ Valid(t, m.start) /\ Valid(t, m.end) /\ m.start <= m.end /\ m.start \in Nat
      /\ from <= m.start /\ m.end \in MatchEnds(t, what, m.start)
  BY <1>1, FoundIs
<1>4. /\ u \in Text /\ Len(u) \in Nat /\ Valid(u, m.start + n)
  BY <1>1, <1>2, <1>3, ReplaceTargetGood, EditorIs
<1>5. /\ Len(u) = Len(t) - (m.end - m.start) + n
      /\ \A i \in 1..n : u[m.start + i] = with[i]
      /\ \A i \in 1..Len(t) - m.end : u[m.start + n + i] = t[m.end + i]
  BY <1>1, <1>2, <1>3, TargetIs, SMTT(30)
<1> HIDE DEF t, u, n
<1>6. m.start \in 0..Len(t) /\ m.end \in 0..Len(t) /\ m.end \in Nat
  BY <1>1, <1>3 DEF Valid
<1>7. Was \subseteq from..Len(t) /\ m.start \in Was
  BY <1>1, <1>3, <1>6 DEF PlacesFrom
<1>8. IsFiniteSet(Was)
  <2>1. IsFiniteSet(from..Len(t))
    BY <1>1, FS_Interval
  <2>2. QED
    BY <1>7, <2>1, FS_Subset
<1>9. Cardinality(Was) \in Nat \ {0}
  BY <1>7, <1>8, FS_CardinalityType, FS_EmptySet
<1>10. ASSUME m.start + n # Len(u) PROVE Cardinality(Are) < Cardinality(Was)
  <2>1. PICK a \in Nat, b \in Nat, r \in Nat : a = m.start + n /\ b = m.end /\ r = Len(t) - m.end
    BY <1>1, <1>2, <1>3, <1>6
  <2>2. /\ Len(u) = a + r /\ Len(t) = b + r /\ \A i \in 1..r : u[a + i] = t[b + i]
        /\ a \in 0..Len(u) /\ b \in 0..Len(t) /\ Valid(t, b) /\ Valid(u, a) /\ a # Len(u)
        /\ m.start <= b
    <3>1. Valid(t, b) /\ Valid(u, a) /\ a # Len(u)
      BY <1>3, <1>4, <1>10, <2>1
    <3>2. \A i \in 1..r : u[a + i] = t[b + i]
      BY <1>5, <2>1
    <3>3. Len(u) = a + r /\ Len(t) = b + r /\ m.start <= b
      <4>1. PICK x \in Nat, y \in Nat : x = m.start /\ y = m.end
        BY <1>3, <1>6
      <4>2. Len(u) = Len(t) - (y - x) + n /\ x <= y /\ a = x + n /\ b = y /\ r = Len(t) - y
        BY <1>3, <1>5, <2>1, <4>1
      <4>3. Len(t) = b + r
        BY <1>1, <4>1, <4>2, SMTT(30)
      <4>4. Len(u) = a + r
        BY <1>1, <1>2, <4>2
      <4>5. m.start <= b
        BY <4>1, <4>2
      <4>6. QED
        BY <4>3, <4>4, <4>5
    <3>4. a \in 0..Len(u) /\ b \in 0..Len(t)
      BY <3>3
    <3>5. QED
      BY <3>1, <3>2, <3>3, <3>4
  <2>3. /\ a <= next
        /\ m.start = m.end /\ ~(RegexStartOrEndOfLine(what) /\ n > 0) => a < next
    BY <1>2, <1>3, <1>4, <1>10, <2>1, NextStartBehind
  <2>4. next \in Nat
    BY <1>2, <1>3, <1>4, NextStartIs
  <2> HIDE DEF next
  <2>5. ASSUME NEW p \in Are
        PROVE  p \in Nat /\ a <= p /\ p - a + b \in Was \ {m.start}
    <3>1. p \in next..Len(u) /\ Valid(u, p) /\ MatchEnds(u, what, p) # {}
      BY <2>5 DEF PlacesFrom
    <3>2. Fits(u, what, p)
      BY <1>4, <3>1, FitsIff
    <3>3. PICK j \in Nat : j = p - a
      BY <1>4, <2>2, <2>3, <2>4, <3>1
    <3>4. p = a + j /\ j \in 0..r /\ p - a + b = b + j /\ p \in Nat
      BY <1>4, <2>2, <2>3, <2>4, <3>1, <3>3
    <3>5. CASE j = 0
      <4>1. a = next /\ p = a
        BY <1>4, <2>3, <2>4, <3>1, <3>4, <3>5
      <4>2. m.start = m.end =>
                /\ n > 0 /\ what.regexp = TRUE /\ what.pattern \in {"^", "$", "^$"}
        BY <2>3, <4>1 DEF RegexStartOrEndOfLine, IsSearch
      <4>3. m.start = m.end => what.pattern \in {"^", "^$"}
        BY <1>2, <4>2
      <4>4. m.start # m.end
        <5> SUFFICES ASSUME m.start = m.end PROVE FALSE
          OBVIOUS
        <5>1. Starts(u, a)
          BY <3>2, <4>1, <4>2, <4>3 DEF Fits
        <5>2. n \in 1..n /\ a # 0
          BY <1>2, <1>3, <2>1, <4>2
        <5>3. u[m.start + n] = with[n] /\ ~IsEnd(with[n])
          BY <1>2, <1>5, <5>2
        <5>4. QED
          BY <2>1, <5>1, <5>2, <5>3 DEF Starts, EndsLine
      <4>5. ~(what.regexp = TRUE /\ what.pattern \in {"^", "^$"})
        <5> SUFFICES ASSUME what.regexp = TRUE, what.pattern \in {"^", "^$"} PROVE FALSE
          OBVIOUS
        <5>1. MatchEnds(t, what, m.start) \subseteq {m.start}
          BY DEF MatchEnds
        <5>2. QED
          BY <1>3, <4>4, <5>1
      <4>6. Valid(u, a + j) /\ Fits(u, what, a + j)
        BY <3>1, <3>2, <3>4
      <4>7. Valid(t, b + j) /\ Fits(t, what, b + j)
        BY <1>1, <1>4, <2>2, <3>4, <4>5, <4>6, ShiftFits
      <4>8. MatchEnds(t, what, b + j) # {}
        BY <1>1, <4>7, FitsIff
      <4>9. b + j \in from..Len(t) /\ b + j # m.start
        <5>1. from <= b /\ b <= Len(t)
          BY <1>1, <1>3, <2>2
        <5>3. b + j = b /\ b # m.start
          BY <2>1, <3>5, <4>4
        <5>2. QED
          BY <1>1, <5>1, <5>3
      <4>10. QED
        BY <1>4, <2>3, <2>4, <3>1, <3>4, <4>1, <4>7, <4>8, <4>9 DEF PlacesFrom
    <3>6. CASE j # 0
      <4>1. Valid(u, a + j) /\ Fits(u, what, a + j)
        BY <3>1, <3>2, <3>4
      <4>2. Valid(t, b + j) /\ Fits(t, what, b + j)
        BY <1>1, <1>4, <2>2, <3>4, <3>6, <4>1, ShiftFits
      <4>3. MatchEnds(t, what, b + j) # {}
        BY <1>1, <4>2, FitsIff
      <4>4. b + j \in from..Len(t) /\ b + j # m.start
        <5>1. from <= b /\ b <= b + j /\ b + j <= Len(t) /\ m.start < b + j
          BY <1>1, <1>3, <2>2, <3>4, <3>6
        <5>2. QED
          BY <1>1, <1>3, <5>1
      <4>5. a <= p
        BY <3>4
      <4>6. QED
        BY <3>4, <4>2, <4>3, <4>4, <4>5 DEF PlacesFrom
    <3>7. QED
      BY <3>5, <3>6
  <2> HIDE DEF Was, Are
  <2> DEFINE f == [p \in Are |-> p - a + b]
  <2>6. f \in Injection(Are, Was \ {m.start})
    <3>1. f \in [Are -> Was \ {m.start}]
      BY <2>5
    <3>2. ASSUME NEW p \in Are, NEW q \in Are, f[p] = f[q] PROVE p = q
      <4>1. p \in Nat /\ q \in Nat /\ p - a + b = q - a + b
        BY <2>5, <3>2
      <4>2. QED
        BY <4>1
    <3> HIDE DEF f
    <3>3. QED
      BY <3>1, <3>2, Fun_IsInj
  <2>7. IsFiniteSet(Was \ {m.start}) /\ Cardinality(Was \ {m.start}) = Cardinality(Was) - 1
    BY <1>7, <1>8, FS_RemoveElement
  <2>8. IsFiniteSet(Are) /\ Cardinality(Are) <= Cardinality(Was \ {m.start})
    <3> HIDE DEF f
    <3>1. QED
      BY <2>6, <2>7, FS_Injection
  <2>9. Cardinality(Are) \in Nat
    BY <2>8, FS_CardinalityType
  <2>10. QED
    BY <1>9, <2>7, <2>8, <2>9
<1>11. QED
  BY <1>8, <1>9, <1>10 DEF Was, Are, next, t, u, n

\* Every replacement leaves Replace All fewer places to come to, so that its loop ends,
\* whatever it replaces but "$" by a text.
THEOREM ReplacingComesToItsEnd == Spec => ReplacingAdvances
<1>1. ASSUME EditInv, ReplaceNext, ~PutsBeforeLineEnds
      PROVE  Cardinality(Ahead') < Cardinality(Ahead)
  <2> DEFINE n == Len(search.with)
  <2>1. PICK match \in Matches :
          LET done == ReplaceTarget(editor, match.start, match.end, search.with)
              after == match.start + n
              next == NextStart(done.text, match, search.what, n)
          IN  /\ editor' = done
              /\ search' = [search EXCEPT
                     !.from = next, !.count = @ + 1, !.targetEnd = after,
                     !.done = \/ after = Len(done.text)
                              \/ RegexStartOfLine(search.what) /\ next = Len(done.text)]
    BY <1>1 DEF ReplaceNext
  <2> DEFINE u == ReplaceTarget(editor, match.start, match.end, search.with).text
             next == NextStart(u, match, search.what, n)
  <2>2. /\ search \in SearchesIn(eolMode) /\ editor \in Editors(eolMode) /\ eolMode \in EOLModes
    BY <1>1 DEF EditInv, NoSearch, ReplaceNext
  <2>3. IsSearch(search.what) /\ search.with \in Plain /\ search.from \in Nat
    BY <2>2 DEF SearchesIn
  <2>4. match \in FindText(editor.text, search.what, search.from) /\ ~search.done
    BY DEF Matches
  <2>5. Ahead = PlacesFrom(editor.text, search.what, search.from)
    BY <2>4 DEF Ahead, PlacesFrom
  <2>6. /\ editor'.text = u /\ search'.what = search.what /\ search'.from = next
        /\ match.start + n = Len(u) => search'.done
    <3> HIDE DEF n
    <3>1. QED
      BY <2>1, <2>2 DEF SearchesIn
  <2>7. /\ Cardinality(PlacesFrom(editor.text, search.what, search.from)) \in Nat \ {0}
        /\ match.start + n # Len(u)
           => Cardinality(PlacesFrom(u, search.what, next))
              < Cardinality(PlacesFrom(editor.text, search.what, search.from))
    BY <1>1, <2>2, <2>3, <2>4, FewerPlaces DEF PutsBeforeLineEnds
  <2> HIDE DEF u, next, n
  <2>8. CASE search'.done
    <3>1. Ahead' = {} /\ Cardinality({}) = 0
      BY <2>8, FS_EmptySet DEF Ahead
    <3>2. QED
      BY <2>5, <2>7, <3>1
  <2>9. CASE ~search'.done
    <3>1. Ahead' = PlacesFrom(u, search.what, next)
      BY <2>6, <2>9 DEF Ahead, PlacesFrom
    <3>2. QED
      BY <2>5, <2>6, <2>7, <2>9, <3>1
  <2>10. QED
    BY <2>8, <2>9
<1>2. EditInv /\ [Next]_vars =>
        [ReplaceNext /\ ~PutsBeforeLineEnds => Cardinality(Ahead') < Cardinality(Ahead)]_vars
  BY <1>1
<1>3. QED
  BY <1>2, EditInvariant, PTL DEF Spec, ReplacingAdvances

\* Behind a text put before a line end the search goes on at the same line end.
LEMMA SameEndAgain ==
    ASSUME NEW mode \in EOLModes, NEW e \in Editors(mode), NEW what, IsSearch(what),
           what.regexp = TRUE, what.pattern = "$", NEW with \in Plain, with # <<>>,
           NEW from \in Nat, NEW m \in FindText(e.text, what, from)
    PROVE  LET u == ReplaceTarget(e, m.start, m.end, with).text
               next == NextStart(u, m, what, Len(with))
           IN  next \in PlacesFrom(u, what, next)
<1> DEFINE t == e.text
           n == Len(with)
           u == ReplaceTarget(e, m.start, m.end, with).text
           next == NextStart(u, m, what, n)
<1>1. t \in Text /\ Len(t) \in Nat /\ Good(mode, t)
  BY EditorIs
<1>2. Good(mode, with) /\ n \in Nat \ {0}
  BY PlainGood, LenProperties, EmptySeq DEF Plain
<1>3. /\ Valid(t, m.start) /\ Valid(t, m.end) /\ m.start <= m.end /\ m.start \in Nat
      /\ m.end \in MatchEnds(t, what, m.start)
  BY <1>1, FoundIs
<1>4. u \in Text /\ Len(u) \in Nat /\ Valid(u, m.start + n)
  BY <1>1, <1>2, <1>3, ReplaceTargetGood, EditorIs
<1>5. /\ Len(u) = Len(t) - (m.end - m.start) + n
      /\ \A i \in 1..Len(t) - m.end : u[m.start + n + i] = t[m.end + i]
  BY <1>1, <1>2, <1>3, TargetIs, SMTT(30)
<1> HIDE DEF t, u, n
<1>6. m.start \in 0..Len(t)
  BY <1>1, <1>3 DEF Valid
<1>7. m.end = m.start /\ AtEnd(t, m.start)
  <2>1. m.end = m.start
    BY <1>3 DEF MatchEnds
  <2>2. Fits(t, what, m.start)
    BY <1>1, <1>3, FitsIff
  <2>3. QED
    BY <2>1, <2>2 DEF Fits
<1>8. PICK q \in Nat, a \in Nat : q = m.start /\ a = m.start + n
  BY <1>2, <1>3
<1>9. Len(u) = Len(t) + n /\ a = q + n /\ q \in 0..Len(t)
      /\ \A i \in 1..Len(t) - q : u[a + i] = t[q + i]
  BY <1>1, <1>2, <1>5, <1>6, <1>7, <1>8
<1>10. AtEnd(u, a)
  <2>1. CASE q = Len(t)
    BY <1>9, <2>1 DEF AtEnd
  <2>2. CASE q # Len(t)
    <3>1. 1 \in 1..Len(t) - q
      BY <1>1, <1>9, <2>2
    <3>2. u[a + 1] = t[q + 1]
      BY <1>9, <3>1
    <3>3. QED
      BY <1>7, <1>8, <2>2, <3>2 DEF AtEnd
  <2>3. QED
    BY <2>1, <2>2
<1>11. next = a
  BY <1>2, <1>7, <1>8 DEF NextStart, RegexStartOrEndOfLine, RegexStartOfLine, n
<1>12. MatchEnds(u, what, a) # {}
  <2>1. Fits(u, what, a)
    BY <1>10 DEF Fits
  <2>2. QED
    BY <1>4, <1>8, <2>1, FitsIff
<1>13. a \in a..Len(u) /\ Valid(u, a)
  BY <1>4, <1>8 DEF Valid
<1>14. QED
  BY <1>11, <1>12, <1>13 DEF PlacesFrom, u, next, n

\* Replace All of "$" by a text does not come to its end: wherever it does not reach the
\* end of the text, the place where it goes on is a match again, the same line end.
THEOREM DollarComesAgain ==
    Spec => [][ReplaceNext /\ PutsBeforeLineEnds /\ ~search'.done => search'.from \in Ahead']_vars
<1>1. ASSUME EditInv, ReplaceNext, PutsBeforeLineEnds, ~search'.done
      PROVE  search'.from \in Ahead'
  <2> DEFINE n == Len(search.with)
  <2>1. PICK match \in Matches :
          LET done == ReplaceTarget(editor, match.start, match.end, search.with)
              after == match.start + n
              next == NextStart(done.text, match, search.what, n)
          IN  /\ editor' = done
              /\ search' = [search EXCEPT
                     !.from = next, !.count = @ + 1, !.targetEnd = after,
                     !.done = \/ after = Len(done.text)
                              \/ RegexStartOfLine(search.what) /\ next = Len(done.text)]
    BY <1>1 DEF ReplaceNext
  <2> DEFINE u == ReplaceTarget(editor, match.start, match.end, search.with).text
             next == NextStart(u, match, search.what, n)
  <2>2. /\ search \in SearchesIn(eolMode) /\ editor \in Editors(eolMode) /\ eolMode \in EOLModes
    BY <1>1 DEF EditInv, NoSearch, ReplaceNext
  <2>3. IsSearch(search.what) /\ search.with \in Plain /\ search.from \in Nat
    BY <2>2 DEF SearchesIn
  <2>4. search.what.regexp = TRUE /\ search.what.pattern = "$" /\ search.with # <<>>
    BY <1>1, <2>3 DEF PutsBeforeLineEnds, IsSearch
  <2>5. match \in FindText(editor.text, search.what, search.from)
    BY DEF Matches
  <2>6. next \in PlacesFrom(u, search.what, next)
    BY <2>2, <2>3, <2>4, <2>5, SameEndAgain
  <2>7. editor'.text = u /\ search'.what = search.what /\ search'.from = next
    <3> HIDE DEF n
    <3>1. QED
      BY <2>1, <2>2 DEF SearchesIn
  <2> HIDE DEF u, next
  <2>8. Ahead' = PlacesFrom(u, search.what, next)
    BY <1>1, <2>7 DEF Ahead, PlacesFrom
  <2>9. QED
    BY <2>6, <2>7, <2>8
<1>2. EditInv /\ [Next]_vars =>
        [ReplaceNext /\ PutsBeforeLineEnds /\ ~search'.done => search'.from \in Ahead']_vars
  BY <1>1
<1>3. QED
  BY <1>2, EditInvariant, PTL DEF Spec

-----------------------------------------------------------------------------
(* Wrapping. *)

\* Stretches of a text without line ends, and without blanks.
EndFree(s, a, b) == \A k \in a + 1..b : ~IsEnd(s[k])
BlankFree(s, a, b) == \A k \in a + 1..b : ~IsBlank(s[k])

\* No stretch of a line is longer than the column, unless it is one word.
Fitting(column, s) ==
    \A a, b \in 0..Len(s) :
        a <= b /\ EndFree(s, a, b) => b - a <= column \/ BlankFree(s, a, b)

\* The line that s ends with has that length, and the rest of a word goes on it,
\* unless it is the first.
HasRoom(column, s, length, word) ==
    \A a \in 0..Len(s) :
        EndFree(s, a, Len(s))
        => Len(s) - a <= length /\ (BlankFree(s, a, Len(s)) \/ length + word <= column)

\* The word behind a position is one character longer than the word behind its first.
LEMMA WordLengthIs ==
    ASSUME NEW t \in Text, NEW i \in 0..Len(t)
    PROVE  /\ WordLength(t, i) \in Nat
           /\ i = Len(t) => WordLength(t, i) = 0
           /\ i < Len(t) => WordLength(t, i) = IF IsBlank(t[i + 1]) \/ IsEnd(t[i + 1]) THEN 0
                                               ELSE WordLength(t, i + 1) + 1
<1> DEFINE Ends(k) == {j \in k + 1..Len(t) : IsBlank(t[j]) \/ IsEnd(t[j])}
<1>1. Len(t) \in Nat
  BY TextIs
<1>2. \A k \in 0..Len(t) : Ends(k) \in SUBSET Nat
  BY <1>1
<1>3. \A k : WordLength(t, k) = (IF Ends(k) = {} THEN Len(t) ELSE Min(Ends(k)) - 1) - k
  BY DEF WordLength
<1>4. \A k \in 0..Len(t) : Ends(k) # {} => Min(Ends(k)) \in Ends(k) /\ \A y \in Ends(k) : Min(Ends(k)) <= y
  <2> HIDE DEF Ends
  <2>1. QED
    BY <1>2, MinOf
<1>5. WordLength(t, i) \in Nat
  <2>1. CASE Ends(i) = {}
    <3>1. WordLength(t, i) = Len(t) - i
      BY <1>3, <2>1
    <3>2. QED
      BY <1>1, <3>1
  <2>2. CASE Ends(i) # {}
    <3>1. Min(Ends(i)) \in i + 1..Len(t)
      BY <1>4, <2>2
    <3> HIDE DEF Ends
    <3>2. QED
      BY <1>1, <1>3, <2>2, <3>1
  <2>3. QED
    BY <2>1, <2>2
<1>6. ASSUME i = Len(t) PROVE WordLength(t, i) = 0
  <2>1. Ends(i) = {}
    BY <1>1, <1>6
  <2> HIDE DEF Ends
  <2>2. QED
    BY <1>1, <1>3, <1>6, <2>1
<1>7. ASSUME i < Len(t), IsBlank(t[i + 1]) \/ IsEnd(t[i + 1]) PROVE WordLength(t, i) = 0
  <2>1. i + 1 \in Ends(i)
    BY <1>1, <1>7
  <2>2. Min(Ends(i)) <= i + 1 /\ Min(Ends(i)) \in i + 1..Len(t)
    BY <1>4, <2>1
  <2>3. Ends(i) # {}
    BY <2>1
  <2> HIDE DEF Ends
  <2>4. QED
    BY <1>1, <1>3, <2>2, <2>3
<1>8. ASSUME i < Len(t), ~IsBlank(t[i + 1]), ~IsEnd(t[i + 1])
      PROVE  WordLength(t, i) = WordLength(t, i + 1) + 1
  <2>1. Ends(i) = Ends(i + 1)
    <3>1. \A j \in i + 1..Len(t) : j = i + 1 \/ j \in i + 1 + 1..Len(t)
      BY <1>1
    <3>2. \A j \in i + 1 + 1..Len(t) : j \in i + 1..Len(t)
      BY <1>1
    <3>3. QED
      BY <1>8, <3>1, <3>2
  <2>2. Ends(i) # {} => Min(Ends(i)) \in Int
    <3>1. ASSUME Ends(i) # {} PROVE Min(Ends(i)) \in i + 1..Len(t)
      BY <1>4, <3>1
    <3> HIDE DEF Ends
    <3>2. QED
      BY <3>1
  <2> HIDE DEF Ends
  <2>3. QED
    BY <1>1, <1>3, <2>1, <2>2
<1>9. QED
  BY <1>5, <1>6, <1>7, <1>8

\* Wrapping puts another character on the line.
LEMMA LineGrows ==
    ASSUME NEW column \in Nat, NEW s \in Text, NEW c \in Char, ~IsEnd(c),
           NEW length \in Nat, NEW word \in Nat, NEW rest \in Nat,
           Fitting(column, s), HasRoom(column, s, length, word),
           (~IsBlank(c) /\ word = rest + 1) \/ length + 1 + rest <= column
    PROVE  Fitting(column, s \o <<c>>) /\ HasRoom(column, s \o <<c>>, length + 1, rest)
<1> DEFINE r == s \o <<c>>
<1>1. /\ r \in Text /\ Len(r) = Len(s) + 1 /\ Len(s) \in Nat
      /\ \A k \in 1..Len(s) : r[k] = s[k]
      /\ r[Len(s) + 1] = c
  <2>1. <<c>> \in Text /\ Len(<<c>>) = 1 /\ <<c>>[1] = c
    BY AppendIs
  <2>2. QED
    BY <2>1, ConcatIs, TextIs
<1> HIDE DEF r
<1>2. ASSUME NEW a \in 0..Len(s), NEW b \in 0..Len(s)
      PROVE  (EndFree(r, a, b) <=> EndFree(s, a, b)) /\ (BlankFree(r, a, b) <=> BlankFree(s, a, b))
  <2>1. \A k \in a + 1..b : r[k] = s[k]
    BY <1>1
  <2>2. QED
    BY <2>1 DEF EndFree, BlankFree
<1>3. ASSUME NEW a \in 0..Len(r), EndFree(r, a, Len(r))
      PROVE  /\ Len(r) - a <= length + 1
             /\ BlankFree(r, a, Len(r)) \/ length + 1 + rest <= column
  <2>1. CASE a = Len(r)
    <3>1. BlankFree(r, a, Len(r))
      BY <1>1, <2>1 DEF BlankFree
    <3>2. QED
      BY <1>1, <2>1, <3>1
  <2>2. CASE a # Len(r)
    <3>1. a \in 0..Len(s)
      BY <1>1, <2>2
    <3>2. EndFree(r, a, Len(s))
      <4>1. \A k \in a + 1..Len(s) : k \in a + 1..Len(r)
        BY <1>1, <3>1
      <4>2. QED
        BY <1>3, <4>1 DEF EndFree
    <3>3. EndFree(s, a, Len(s))
      BY <1>1, <1>2, <3>1, <3>2
    <3>4. Len(s) - a <= length /\ (BlankFree(s, a, Len(s)) \/ length + word <= column)
      BY <3>1, <3>3 DEF HasRoom
    <3>5. ASSUME BlankFree(s, a, Len(s)), ~IsBlank(c) PROVE BlankFree(r, a, Len(r))
      <4>1. BlankFree(r, a, Len(s))
        BY <1>1, <1>2, <3>1, <3>5
      <4>2. \A k \in a + 1..Len(r) : k \in a + 1..Len(s) \/ k = Len(s) + 1
        BY <1>1, <3>1
      <4>3. QED
        BY <1>1, <3>5, <4>1, <4>2 DEF BlankFree
    <3>6. Len(r) - a <= length + 1
      BY <1>1, <3>1, <3>4
    <3>7. BlankFree(r, a, Len(r)) \/ length + 1 + rest <= column
      BY <3>4, <3>5
    <3>8. QED
      BY <3>6, <3>7
  <2>3. QED
    BY <2>1, <2>2
<1>4. ASSUME NEW a \in 0..Len(r), NEW b \in 0..Len(r), a <= b, EndFree(r, a, b)
      PROVE  b - a <= column \/ BlankFree(r, a, b)
  <2>1. CASE b = Len(r)
    BY <1>1, <1>3, <1>4, <2>1
  <2>2. CASE b # Len(r)
    <3>1. a \in 0..Len(s) /\ b \in 0..Len(s)
      BY <1>1, <1>4, <2>2
    <3>2. QED
      BY <1>2, <1>4, <3>1 DEF Fitting
  <2>3. QED
    BY <2>1, <2>2
<1>5. QED
  BY <1>3, <1>4 DEF Fitting, HasRoom, r

\* It ends the line.
LEMMA LineStops ==
    ASSUME NEW column \in Nat, NEW s \in Text, NEW end \in Text, Len(end) > 0,
           \A k \in 1..Len(end) : IsEnd(end[k]), Fitting(column, s)
    PROVE  /\ Fitting(column, s \o end)
           /\ \A word \in Nat : HasRoom(column, s \o end, 0, word)
<1> DEFINE r == s \o end
<1>1. /\ r \in Text /\ Len(r) = Len(s) + Len(end) /\ Len(s) \in Nat /\ Len(end) \in Nat
      /\ \A k \in 1..Len(s) : r[k] = s[k]
      /\ \A k \in 1..Len(end) : r[Len(s) + k] = end[k]
  BY ConcatIs, TextIs
<1> HIDE DEF r
<1>2. ASSUME NEW k \in Len(s) + 1..Len(r) PROVE IsEnd(r[k])
  <2>1. k - Len(s) \in 1..Len(end) /\ Len(s) + (k - Len(s)) = k
    BY <1>1
  <2>2. QED
    BY <1>1, <2>1
<1>3. ASSUME NEW a \in 0..Len(r), NEW b \in Len(s) + 1..Len(r), a <= b, EndFree(r, a, b)
      PROVE  a = b
  <2>1. b \in a + 1..b \/ a = b
    BY <1>1, <1>3
  <2>2. QED
    BY <1>2, <1>3, <2>1 DEF EndFree
<1>4. ASSUME NEW a \in 0..Len(r), NEW b \in 0..Len(r), a <= b, EndFree(r, a, b)
      PROVE  b - a <= column \/ BlankFree(r, a, b)
  <2>1. CASE b <= Len(s)
    <3>1. a \in 0..Len(s) /\ b \in 0..Len(s)
      BY <1>1, <1>4, <2>1
    <3>2. \A k \in a + 1..b : r[k] = s[k]
      BY <1>1, <3>1
    <3>3. EndFree(s, a, b)
      BY <1>4, <3>2 DEF EndFree
    <3>4. b - a <= column \/ BlankFree(s, a, b)
      BY <1>4, <3>1, <3>3 DEF Fitting
    <3>5. QED
      BY <3>2, <3>4 DEF BlankFree
  <2>2. CASE ~(b <= Len(s))
    <3>1. b \in Len(s) + 1..Len(r)
      BY <1>1, <2>2
    <3>2. QED
      BY <1>1, <1>3, <1>4, <3>1
  <2>3. QED
    BY <2>1, <2>2
<1>5. ASSUME NEW word \in Nat, NEW a \in 0..Len(r), EndFree(r, a, Len(r))
      PROVE  Len(r) - a <= 0 /\ BlankFree(r, a, Len(r))
  <2>1. a = Len(r)
    BY <1>1, <1>3, <1>5
  <2>2. QED
    BY <1>1, <2>1 DEF BlankFree
<1>6. QED
  BY <1>4, <1>5 DEF Fitting, HasRoom, r

\* What Wrap writes of a block has lines that fit.
LEMMA WrapRoundsFit ==
    ASSUME eolMode \in EOLModes, NEW t \in Text, NEW column \in Nat
    PROVE  LET init == [out |-> <<>>, length |-> 0, modified |-> FALSE]
               out == WrapRounds(t, column, init, Len(t)).out
           IN  out \in Text /\ Fitting(column, out)
<1> DEFINE R == [out : Text, length : Nat, modified : BOOLEAN]
           Wrapped(x, i) == /\ Fitting(column, x.out)
                          /\ HasRoom(column, x.out, x.length, WordLength(t, i))
           T == [i \in 0..Len(t) |-> {x \in R : Wrapped(x, i)}]
           init == [out |-> <<>>, length |-> 0, modified |-> FALSE]
           conv == WrapRounds(t, column, init, Len(t))
<1>1. Len(t) \in Nat /\ \A i \in 1..Len(t) : t[i] \in Char
  BY TextIs
<1>2. \A i \in 0..Len(t) : T[i] = {x \in R : Wrapped(x, i)}
  OBVIOUS
<1> HIDE DEF T
<1>3. init \in T[0]
  <2>1. <<>> \in Text /\ Len(<<>>) = 0
    BY NothingIs
  <2>2. init \in R /\ init.out = <<>>
    BY <2>1
  <2> HIDE DEF init
  <2>3. \A a, b \in 0..0 : b - a <= column /\ 0 - a <= init.length
    BY <2>2
  <2>4. ASSUME NEW s, s = <<>>, NEW word
        PROVE  Fitting(column, s) /\ HasRoom(column, s, init.length, word)
    <3>1. Len(s) = 0 /\ BlankFree(s, 0, 0) /\ \A a \in 0..0 : a = 0
      BY <2>1, <2>4 DEF BlankFree
    <3>2. QED
      BY <2>3, <3>1 DEF Fitting, HasRoom
  <2>5. QED
    BY <1>1, <1>2, <2>2, <2>4
<1> HIDE DEF init
<1>4. ASSUME NEW i \in 1..Len(t), NEW x \in T[i - 1] PROVE WrapAt(t, column, x, i) \in T[i]
  <2> DEFINE new == WrapAt(t, column, x, i)
             word == WordLength(t, i)
  <2>1. i - 1 \in 0..Len(t) /\ i \in 0..Len(t) /\ i - 1 < Len(t) /\ i - 1 + 1 = i
    BY <1>1
  <2>2. x \in R /\ Wrapped(x, i - 1)
    BY <1>2, <2>1
  <2>3. /\ word \in Nat /\ WordLength(t, i - 1) \in Nat
        /\ WordLength(t, i - 1) = IF IsBlank(t[i]) \/ IsEnd(t[i]) THEN 0 ELSE word + 1
    BY <2>1, WordLengthIs
  <2>4. IsBlank(CharAfter(t, i)) => word = 0
    <3>1. ASSUME IsBlank(CharAfter(t, i)) PROVE i < Len(t) /\ IsBlank(t[i + 1])
      BY <3>1 DEF CharAfter, IsBlank, SP, TAB
    <3>2. QED
      BY <2>1, <3>1, WordLengthIs
  <2> HIDE DEF word
  <2>5. CASE ~IsBlank(t[i]) /\ ~IsEnd(t[i])
    <3>1. Append(x.out, t[i]) = x.out \o <<t[i]>> /\ Append(x.out, t[i]) \in Text
      BY <1>1, <2>2, AppendIs
    <3>2. PICK n \in Nat : n = x.length + 1
      BY <2>2
    <3>3. /\ Fitting(column, Append(x.out, t[i]))
          /\ HasRoom(column, Append(x.out, t[i]), n, word)
      <4>1. PICK c \in Char, out \in Text, l \in Nat, was \in Nat :
              c = t[i] /\ out = x.out /\ l = x.length /\ was = WordLength(t, i - 1)
        BY <1>1, <2>2, <2>3
      <4>2. Fitting(column, out) /\ HasRoom(column, out, l, was)
        BY <2>2, <4>1
      <4>3. ~IsEnd(c) /\ ~IsBlank(c) /\ was = word + 1 /\ word \in Nat
        BY <2>3, <2>5, <4>1
      <4>4. Fitting(column, out \o <<c>>) /\ HasRoom(column, out \o <<c>>, l + 1, word)
        BY <4>2, <4>3, LineGrows
      <4>5. QED
        BY <3>1, <3>2, <4>1, <4>4
    <3>4. new = [x EXCEPT !.out = Append(x.out, t[i]), !.length = n]
      BY <2>5, <3>2 DEF WrapAt
    <3> HIDE DEF new
    <3>5. new \in R /\ new.out = Append(x.out, t[i]) /\ new.length = n
      BY <2>2, <3>1, <3>4
    <3>6. Wrapped(new, i)
      BY <3>3, <3>5 DEF word
    <3>7. QED
      BY <1>2, <2>1, <3>5, <3>6 DEF new
  <2>6. CASE ~IsBlank(t[i]) /\ IsEnd(t[i])
    <3>1. Append(x.out, t[i]) = x.out \o <<t[i]>> /\ Append(x.out, t[i]) \in Text
      BY <1>1, <2>2, AppendIs
    <3> HIDE DEF new
    <3> DEFINE end == <<t[i]>>
    <3>2. end \in Text /\ Len(end) = 1 /\ end[1] = t[i]
      BY <1>1, <2>2, AppendIs
    <3> HIDE DEF end
    <3>3. /\ Fitting(column, Append(x.out, t[i]))
          /\ HasRoom(column, Append(x.out, t[i]), 0, word)
      <4>1. x.out \in Text /\ Fitting(column, x.out)
        BY <2>2
      <4>2. Len(end) > 0 /\ \A k \in 1..Len(end) : IsEnd(end[k])
        BY <2>6, <3>2
      <4>3. /\ Fitting(column, x.out \o end)
            /\ HasRoom(column, x.out \o end, 0, word)
        BY <2>3, <3>2, <4>1, <4>2, LineStops
      <4>4. QED
        BY <3>1, <4>3 DEF end
    <3>4. new = [x EXCEPT !.out = Append(x.out, t[i]), !.length = 0]
      BY <2>6 DEF WrapAt, new
    <3>5. new \in R /\ new.out = Append(x.out, t[i]) /\ new.length = 0
      BY <2>2, <3>1, <3>4
    <3>6. Wrapped(new, i)
      BY <3>3, <3>5 DEF word
    <3>7. QED
      BY <1>2, <2>1, <3>5, <3>6 DEF new
  <2>7. CASE IsBlank(t[i])
    <3>1. WordLength(t, i - 1) = 0
      BY <2>3, <2>7
    <3>2. SP \in Char /\ ~IsEnd(SP)
      BY DEF IsEnd, SP, Char, CR, LF
    <3>3. Append(x.out, SP) = x.out \o <<SP>> /\ Append(x.out, SP) \in Text
      BY <2>2, <3>2, AppendIs
    <3>4. PICK n \in Nat : n = x.length + 1
      BY <2>2
    <3>5. \/ new = [x EXCEPT !.modified = TRUE] /\ word = 0
          \/ new = x /\ (word = 0 \/ x.length = 0)
          \/ new = [out |-> x.out \o eolMode, length |-> 0, modified |-> TRUE]
          \/ new = [x EXCEPT !.out = Append(x.out, SP), !.length = n]
             /\ x.length + word + 1 <= column
      <4>1. ~NoRoom(x.length, word, column) => x.length + word + 1 <= column
        BY <2>2, <2>3 DEF NoRoom
      <4>2. ~(x.length > 0) => x.length = 0
        BY <2>2
      <4>3. QED
        BY <2>4, <2>7, <3>4, <4>1, <4>2 DEF WrapAt, word
    <3> HIDE DEF new
    <3>6. ASSUME word = 0 \/ x.length = 0
          PROVE  HasRoom(column, x.out, x.length, word)
      <4>1. CASE word = 0
        BY <2>2, <3>1, <4>1
      <4>2. CASE x.length = 0
        <5>1. ASSUME NEW a \in 0..Len(x.out), EndFree(x.out, a, Len(x.out))
              PROVE  Len(x.out) - a <= x.length /\ BlankFree(x.out, a, Len(x.out))
          <6>1. Len(x.out) - a <= x.length
            BY <2>2, <5>1 DEF HasRoom
          <6>2. Len(x.out) \in Nat
            BY <2>2, TextIs
          <6>3. a = Len(x.out)
            BY <4>2, <6>1, <6>2
          <6>4. BlankFree(x.out, a, Len(x.out))
            BY <6>2, <6>3 DEF BlankFree
          <6>5. QED
            BY <6>1, <6>4
        <5>2. QED
          BY <5>1 DEF HasRoom
      <4>3. QED
        BY <3>6, <4>1, <4>2
    <3>7. ASSUME new = [x EXCEPT !.modified = TRUE] /\ word = 0
          PROVE  new \in R /\ Wrapped(new, i)
      <4>1. new \in R /\ new.out = x.out /\ new.length = x.length
        BY <2>2, <3>7
      <4>2. QED
        BY <2>2, <3>6, <3>7, <4>1 DEF word
    <3>8. ASSUME new = x /\ (word = 0 \/ x.length = 0)
          PROVE  new \in R /\ Wrapped(new, i)
      BY <2>2, <3>6, <3>8 DEF word
    <3>9. ASSUME new = [out |-> x.out \o eolMode, length |-> 0, modified |-> TRUE]
          PROVE  new \in R /\ Wrapped(new, i)
      <4>1. /\ eolMode \in Text /\ Len(eolMode) > 0
            /\ \A k \in 1..Len(eolMode) : IsEnd(eolMode[k])
        <5>1. eolMode \in Text /\ Len(eolMode) \in 1..2 /\ IsEnd(eolMode[1])
              /\ IsEnd(eolMode[Len(eolMode)])
          BY ModeGood DEF Good
        <5>2. \A k \in 1..Len(eolMode) : k = 1 \/ k = Len(eolMode)
          BY <5>1
        <5>3. QED
          BY <5>1, <5>2
      <4>2. x.out \o eolMode \in Text
        BY <2>2, <4>1, ConcatIs
      <4>3. /\ Fitting(column, x.out \o eolMode)
            /\ HasRoom(column, x.out \o eolMode, 0, word)
        BY <2>2, <2>3, <4>1, LineStops
      <4>4. new \in R /\ new.out = x.out \o eolMode /\ new.length = 0
        BY <3>9, <4>2
      <4>5. QED
        BY <4>3, <4>4 DEF word
    <3>10. ASSUME new = [x EXCEPT !.out = Append(x.out, SP), !.length = n],
                  x.length + word + 1 <= column
           PROVE  new \in R /\ Wrapped(new, i)
      <4>1. x.length + 1 + word <= column
        BY <2>2, <2>3, <3>10
      <4>2. /\ Fitting(column, Append(x.out, SP))
            /\ HasRoom(column, Append(x.out, SP), n, word)
        <5>1. PICK c \in Char, out \in Text, l \in Nat, was \in Nat :
                c = SP /\ out = x.out /\ l = x.length /\ was = WordLength(t, i - 1)
          BY <2>2, <2>3, <3>2
        <5>2. Fitting(column, out) /\ HasRoom(column, out, l, was)
          BY <2>2, <5>1
        <5>3. ~IsEnd(c) /\ l + 1 + word <= column /\ word \in Nat
          BY <2>3, <3>2, <4>1, <5>1
        <5>4. Fitting(column, out \o <<c>>) /\ HasRoom(column, out \o <<c>>, l + 1, word)
          BY <5>2, <5>3, LineGrows
        <5>5. QED
          BY <3>3, <3>4, <5>1, <5>4
      <4>3. new \in R /\ new.out = Append(x.out, SP) /\ new.length = n
        BY <2>2, <3>3, <3>10
      <4>4. QED
        BY <4>2, <4>3 DEF word
    <3>11. new \in R /\ Wrapped(new, i)
      BY <3>5, <3>7, <3>8, <3>9, <3>10
    <3>12. QED
      BY <1>2, <2>1, <3>11 DEF new
  <2>8. QED
    BY <2>5, <2>6, <2>7
<1>5. conv \in T[Len(t)]
  BY <1>1, <1>3, <1>4, WrapLoop
<1> HIDE DEF conv
<1>6. conv.out \in Text /\ Fitting(column, conv.out)
  BY <1>1, <1>2, <1>5
<1>7. QED
  BY <1>6 DEF conv, init

\* A command that puts text in place of the block leaves that text as the block.
LEMMA ReplacedBlock ==
    ASSUME NEW mode \in EOLModes, NEW e \in Editors(mode), NEW s, Good(mode, s)
    PROVE  Block(ReplaceBlock(e, s)) = s
<1> DEFINE from == BlockStart(e)
           to == SelectionEnd(e)
           r == Replaced(e.text, from, to, s)
           new == ReplaceBlock(e, s)
<1>1. /\ Valid(e.text, from) /\ Valid(e.text, to) /\ from <= to
      /\ e.text \in Text /\ Good(mode, e.text) /\ s \in Text /\ Len(s) \in Nat
      /\ Len(e.text) \in Nat
  BY BlockIs, EditorIs, TextIs DEF Good
<1>2. Starts(e.text, from)
  BY <1>1, SelectionIs, PositionIs DEF BlockStart
<1>3. from \in 0..Len(e.text) /\ to \in 0..Len(e.text)
  BY <1>1 DEF Valid
<1>4. /\ Good(mode, r) /\ Len(r) = Len(e.text) - (to - from) + Len(s)
      /\ \A i \in 1..from : r[i] = e.text[i]
      /\ \A i \in 1..Len(s) : r[from + i] = s[i]
  BY <1>1, ReplacedIs
<1>5. Valid(r, from)
  <2>1. \A p : Valid(e.text, p) /\ p <= from => Valid(r, p)
    BY <1>1, ReplacedIs
  <2>2. from <= from
    BY <1>3
  <2> HIDE DEF r, from
  <2>3. QED
    BY <1>1, <2>1, <2>2
<1>6. new.text = r /\ SelectionStart(new) = from /\ SelectionEnd(new) = from + Len(s)
  <2>1. new = SelectLike(e, r, from, from + Len(s))
    BY DEF ReplaceBlock
  <2> HIDE DEF new, r, from
  <2>2. \/ new.text = r /\ new.anchor = from /\ new.caret = from + Len(s)
        \/ new.text = r /\ new.anchor = from + Len(s) /\ new.caret = from
    BY <2>1 DEF SelectLike, SetSel
  <2>3. PICK to1 \in Nat : to1 = from + Len(s) /\ from <= to1 /\ from \in Nat
    BY <1>1, <1>3
  <2>4. /\ Min({from, to1}) = from /\ Min({to1, from}) = from
        /\ Max({from, to1}) = to1 /\ Max({to1, from}) = to1
    <3>1. Min({from, to1}) = from /\ Max({from, to1}) = to1
      BY <2>3, MinMaxIs
    <3>2. {from, to1} = {to1, from}
      OBVIOUS
    <3>3. QED
      BY <3>1, <3>2
  <2>5. QED
    BY <2>2, <2>3, <2>4 DEF SelectionStart, SelectionEnd
<1> HIDE DEF new, r, from, to
<1>7. BlockStart(new) = from
  <2>1. r \in Text
    BY <1>4 DEF Good
  <2>2. Starts(r, from)
    BY <1>1, <1>2, <1>4, <1>5, <2>1, PrefixLines
  <2>3. from \in 0..Len(r)
    BY <1>5 DEF Valid
  <2>4. QED
    BY <1>6, <2>1, <2>2, <2>3, PositionUnique DEF BlockStart, FirstLine
<1>8. TextRange(r, from, from + Len(s)) = s
  <2>1. r \in Text
    BY <1>4 DEF Good
  <2>2. from \in 0..Len(r) /\ from + Len(s) \in 0..Len(r) /\ from <= from + Len(s)
        /\ from + Len(s) - from = Len(s)
    BY <1>1, <1>3, <1>4
  <2>3. PICK next : next = from + Len(s) /\ next \in 0..Len(r) /\ from <= next /\ next - from = Len(s)
    BY <2>2
  <2> DEFINE b == TextRange(r, from, next)
  <2>4. b \in Text /\ Len(b) = Len(s) /\ \A i \in 1..Len(s) : b[i] = r[from + i]
    <3>1. b \in Text /\ Len(b) = next - from /\ \A i \in 1..next - from : b[i] = r[from + i]
      BY <2>1, <2>2, <2>3, RangeIs
    <3> HIDE DEF b
    <3>2. QED
      BY <2>3, <3>1
  <2> HIDE DEF b
  <2>5. b = s
    BY <1>1, <1>4, <2>4, SameText
  <2>6. QED
    BY <2>3, <2>5 DEF b
<1>9. QED
  BY <1>6, <1>7, <1>8 DEF Block, new

\* No line that Wrap makes of the block is longer than the column, but for one word,
\* whatever the text, the selection and the column.
THEOREM WrappingFits == Spec => []WrapFits
<1>1. ASSUME EditInv, NEW column \in Columns,
             WrapToColumn(editor, column).text # editor.text
      PROVE  /\ Block(WrapToColumn(editor, column)) \in Text
             /\ Fitting(column, Block(WrapToColumn(editor, column)))
  <2> DEFINE t == Block(editor)
             init == [out |-> <<>>, length |-> 0, modified |-> FALSE]
             out == WrapRounds(t, column, init, Len(t)).out
  <2>1. column \in Nat /\ eolMode \in EOLModes /\ editor \in Editors(eolMode)
    BY <1>1, EditCommandsAssumption DEF EditInv
  <2>2. t \in Text
    BY <2>1, BlockIs DEF Good
  <2>3. WrapToColumn(editor, column) = ReplaceBlock(editor, out)
    BY <1>1 DEF WrapToColumn, WrapRounds
  <2>4. out \in Text /\ Fitting(column, out)
    BY <2>1, <2>2, WrapRoundsFit
  <2>5. Good(eolMode, out)
    BY <2>1, BlockIs, WrapRoundsGood
  <2> HIDE DEF out
  <2>6. QED
    BY <2>1, <2>3, <2>4, <2>5, ReplacedBlock
<1>2. ASSUME NEW column \in Columns, NEW t \in Text, Fitting(column, t),
             NEW line \in 0..LineCount(t) - 1
      PROVE  LET end == LineEndPosition(t, line)
                 l == TextRange(t, LineIndentPosition(t, line), BlanksBefore(t, line, end))
             IN  Len(l) <= column \/ \A i \in DOMAIN l : ~IsBlank(l[i])
  <2> DEFINE end == LineEndPosition(t, line)
             a == LineIndentPosition(t, line)
             b == BlanksBefore(t, line, end)
             l == TextRange(t, a, b)
  <2>1. column \in Nat /\ line \in Nat /\ Len(t) \in Nat
    BY EditCommandsAssumption, TextIs
  <2>2. InLine(t, line, end) /\ InLine(t, line, a) /\ InLine(t, line, b)
    BY <2>1, LineIs, IndentIs, BlanksBeforeIs
  <2>3. a \in 0..Len(t) /\ b \in 0..Len(t)
    BY <2>1, <2>2, InLineIs
  <2>4. EndFree(t, a, b)
    <3> DEFINE p == PositionFromLine(t, line)
    <3>1. \A i \in p + 1..end : ~IsEnd(t[i])
      BY <2>1, LineEndIs
    <3>2. p <= a /\ b <= end /\ p \in Nat /\ end \in Nat
      BY <2>1, <2>2, LineIs DEF InLine
    <3> HIDE DEF p, end, a, b
    <3>3. \A i \in a + 1..b : i \in p + 1..end
      BY <2>3, <3>2
    <3>4. QED
      BY <3>1, <3>3 DEF EndFree
  <2> HIDE DEF a, b
  <2>5. CASE a <= b
    <3>1. l \in Text /\ Len(l) = b - a /\ \A i \in 1..b - a : l[i] = t[a + i]
      BY <2>3, <2>5, RangeIs
    <3>2. b - a <= column \/ BlankFree(t, a, b)
      <4>1. \A x, y \in 0..Len(t) :
              x <= y /\ EndFree(t, x, y) => y - x <= column \/ BlankFree(t, x, y)
        BY <1>2 DEF Fitting
      <4>2. QED
        BY <2>3, <2>4, <2>5, <4>1
    <3>3. DOMAIN l = 1..Len(l)
      BY <3>1 DEF Text
    <3>4. \A i \in 1..b - a : a + i \in a + 1..b
      BY <2>3
    <3> HIDE DEF l
    <3>5. QED
      BY <3>1, <3>2, <3>3, <3>4 DEF BlankFree, l, a, b
  <2>6. CASE ~(a <= b)
    <3>1. \A s : s = SubSeq(t, a + 1, b) => Len(s) = 0
      BY <2>3, <2>6 DEF Text
    <3>2. Len(l) = 0
      BY <3>1 DEF TextRange
    <3>3. QED
      BY <2>1, <3>2 DEF l, a, b
  <2>7. QED
    BY <2>5, <2>6
<1>3. EditInv => WrapFits
  BY <1>1, <1>2 DEF WrapFits
<1>4. QED
  BY <1>3, EditInvariant, PTL DEF Spec

-----------------------------------------------------------------------------
(* Replace All. *)

\* What is so of the last place, and of every place if it is so of all behind it.
LEMMA Descending ==
    ASSUME NEW n \in Nat, NEW S, n + 1 \in S, \A i \in 1..n : i + 1..n + 1 \subseteq S => i \in S
    PROVE  1..n + 1 \subseteq S
<1> SUFFICES ASSUME ~(1..n + 1 \subseteq S) PROVE FALSE
  OBVIOUS
<1> DEFINE D == {j \in 0..n : n + 1 - j \notin S}
<1>1. PICK i \in 1..n + 1 : i \notin S
  OBVIOUS
<1>2. n + 1 - i \in D
  <2>1. n + 1 - i \in 0..n /\ n + 1 - (n + 1 - i) = i
    OBVIOUS
  <2>2. QED
    BY <1>1, <2>1
<1>3. D \in SUBSET Nat
  OBVIOUS
<1>4. PICK m \in D : \A k \in D : m <= k
  <2> HIDE DEF D
  <2>1. QED
    BY <1>2, <1>3, LeastOf
<1>5. m \in 0..n /\ n + 1 - m \notin S
  OBVIOUS
<1>6. m # 0
  BY <1>5
<1>7. PICK l \in 1..n : l = n + 1 - m
  BY <1>5, <1>6
<1>8. ASSUME NEW k \in l + 1..n + 1 PROVE k \in S
  <2>1. n + 1 - k \in 0..n /\ n + 1 - k < m /\ n + 1 - (n + 1 - k) = k
    BY <1>5, <1>7
  <2>2. n + 1 - k \notin D
    <3> HIDE DEF D
    <3>1. QED
      BY <1>4, <1>5, <2>1
  <2>3. QED
    BY <2>1, <2>2
<1>9. QED
  BY <1>5, <1>7, <1>8

\* The string stands at that character of the text.
StandsAt(t, find, i) == i + Len(find) - 1 <= Len(t) /\ SubSeq(t, i, i + Len(find) - 1) = find

\* The function that Substituted is defined with: what becomes of the text from each
\* of its characters on.
Substitutes(f, t, find, with) ==
    /\ \A i \in 1..Len(t) + 1 : f[i] \in Text
    /\ f[Len(t) + 1] = <<>>
    /\ \A i \in 1..Len(t) :
        f[i] = IF StandsAt(t, find, i) THEN with \o f[i + Len(find)] ELSE <<t[i]>> \o f[i + 1]

\* There is one.
LEMMA SubstitutedIs ==
    ASSUME NEW t \in Text, NEW find \in Plain, find # <<>>, NEW with \in Plain
    PROVE  \E f : Substitutes(f, t, find, with) /\ Substituted(t, find, with) = f[1]
<1> DEFINE n == Len(t)
           len == Len(find)
           At(f, i) == IF i > n THEN <<>>
                       ELSE IF i + len - 1 <= n /\ SubSeq(t, i, i + len - 1) = find
                       THEN with \o f[i + len]
                       ELSE <<t[i]>> \o f[i + 1]
           F(k, f) == [i \in k..n + 1 |-> At(f, i)]
           h == CHOOSE f : f = F(1, f)
<1>1. n \in Nat /\ len \in Nat \ {0} /\ find \in Text /\ with \in Text /\ \A i \in 1..n : t[i] \in Char
  <2>1. find \in Text /\ with \in Text
    BY PlainGood DEF Good
  <2>2. len # 0
    BY EmptySeq DEF Plain
  <2>3. QED
    BY <2>1, <2>2, TextIs
<1>2. Substituted(t, find, with) = h[1]
  BY DEF Substituted
<1> HIDE DEF n, len
<1>3. \E f : f = F(1, f)
  <2> DEFINE S == {k \in 1..n + 1 : \E f : f = F(k, f)}
  <2>1. n + 1 \in S
    <3> DEFINE f == [i \in n + 1..n + 1 |-> <<>>]
    <3>1. f = F(n + 1, f)
      BY <1>1
    <3>2. n + 1 \in 1..n + 1
      BY <1>1
    <3> HIDE DEF f, F
    <3>3. QED
      BY <3>1, <3>2
  <2>2. ASSUME NEW k \in 1..n, k + 1..n + 1 \subseteq S PROVE k \in S
    <3>1. k + 1 \in S
      <4>1. k + 1 \in k + 1..n + 1
        BY <1>1
      <4> HIDE DEF S
      <4>2. QED
        BY <2>2, <4>1
    <3>2. PICK f : f = F(k + 1, f)
      BY <3>1
    <3> DEFINE g == [i \in k..n + 1 |-> IF i = k THEN At(f, k) ELSE f[i]]
    <3>3. \A i \in k + 1..n + 1 : g[i] = f[i] /\ f[i] = At(f, i)
      <4>1. \A i \in k + 1..n + 1 : f[i] = At(f, i)
        <5> HIDE DEF At
        <5>1. QED
          BY <3>2
      <4>2. \A i \in k + 1..n + 1 : i \in k..n + 1 /\ i # k
        BY <1>1
      <4> HIDE DEF At
      <4>3. QED
        BY <4>1, <4>2
    <3>4. ASSUME NEW i \in k..n + 1 PROVE At(g, i) = At(f, i)
      <4>1. i <= n => i + 1 \in k + 1..n + 1
        BY <1>1
      <4>2. i + len - 1 <= n => i + len \in k + 1..n + 1
        BY <1>1
      <4>3. i > n \/ i <= n
        BY <1>1
      <4> HIDE DEF g
      <4>4. QED
        BY <3>3, <4>1, <4>2, <4>3
    <3>5. g = F(k, g)
      <4>1. \A i \in k..n + 1 : i = k \/ i \in k + 1..n + 1
        BY <1>1
      <4>2. g[k] = At(f, k)
        <5> HIDE DEF At
        <5>1. k \in k..n + 1
          BY <1>1
        <5>2. QED
          BY <5>1
      <4> HIDE DEF At
      <4>3. \A i \in k..n + 1 : g[i] = At(g, i)
        <5> HIDE DEF g
        <5>1. QED
          BY <3>3, <3>4, <4>1, <4>2
      <4>4. g = [i \in k..n + 1 |-> g[i]]
        OBVIOUS
      <4> HIDE DEF g
      <4>5. QED
        BY <4>3, <4>4
    <3> HIDE DEF g, F
    <3>6. QED
      BY <1>1, <3>5
  <2>3. 1 \in 1..n + 1
    BY <1>1
  <2>4. 1..n + 1 \subseteq S
    <3> HIDE DEF S
    <3>1. QED
      BY <1>1, <2>1, <2>2, Descending
  <2> HIDE DEF F
  <2>5. QED
    BY <2>3, <2>4
<1>4. h = F(1, h)
  <2> HIDE DEF F
  <2>1. QED
    BY <1>3
<1> HIDE DEF h
<1>5. \A i \in 1..n + 1 : h[i] = At(h, i)
  <2> HIDE DEF At
  <2>1. QED
    BY <1>4
<1>6. h[n + 1] = <<>>
  <2>1. n + 1 \in 1..n + 1 /\ n + 1 > n
    BY <1>1
  <2>2. h[n + 1] = At(h, n + 1)
    <3> HIDE DEF At
    <3>1. QED
      BY <1>5, <2>1
  <2>3. QED
    BY <2>1, <2>2
<1>7. ASSUME NEW i \in 1..n
      PROVE  h[i] = IF StandsAt(t, find, i) THEN with \o h[i + len] ELSE <<t[i]>> \o h[i + 1]
  <2>1. i \in 1..n + 1 /\ ~(i > n)
    BY <1>1
  <2>2. QED
    BY <1>5, <2>1 DEF StandsAt, n, len
<1>8. \A i \in 1..n + 1 : h[i] \in Text
  <2> DEFINE S == {i \in 1..n + 1 : h[i] \in Text}
  <2>1. n + 1 \in S
    BY <1>1, <1>6, NothingIs
  <2>2. ASSUME NEW i \in 1..n, i + 1..n + 1 \subseteq S PROVE i \in S
    <3>1. i + 1 \in i + 1..n + 1
      BY <1>1
    <3>2. StandsAt(t, find, i) => i + len \in i + 1..n + 1
      BY <1>1 DEF StandsAt, n, len
    <3>3. h[i + 1] \in Text /\ (StandsAt(t, find, i) => h[i + len] \in Text)
      BY <2>2, <3>1, <3>2
    <3>4. <<t[i]>> \in Text
      BY <1>1, NothingIs, AppendIs
    <3>5. h[i] \in Text
      <4>1. CASE StandsAt(t, find, i)
        <5>1. h[i] = with \o h[i + len]
          BY <1>7, <4>1
        <5>2. with \o h[i + len] \in Text
          BY <1>1, <3>3, <4>1, ConcatIs
        <5>3. QED
          BY <5>1, <5>2
      <4>2. CASE ~StandsAt(t, find, i)
        <5>1. h[i] = <<t[i]>> \o h[i + 1]
          BY <1>7, <4>2
        <5>2. <<t[i]>> \o h[i + 1] \in Text
          BY <3>3, <3>4, ConcatIs
        <5>3. QED
          BY <5>1, <5>2
      <4>3. QED
        BY <4>1, <4>2
    <3>6. QED
      BY <1>1, <3>5
  <2> HIDE DEF S
  <2>3. 1..n + 1 \subseteq S
    BY <1>1, <2>1, <2>2, Descending
  <2>4. QED
    BY <2>3 DEF S
<1>9. Substitutes(h, t, find, with)
  BY <1>6, <1>7, <1>8 DEF Substitutes, n, len
<1>10. QED
  BY <1>2, <1>9

\* Putting together in two ways.
LEMMA ConcatsAssociate ==
    ASSUME NEW a \in Text, NEW b \in Text, NEW c \in Text
    PROVE  (a \o b) \o c = a \o (b \o c)
  BY ConcatAssociative DEF Text

\* Parts of a text that touch.
LEMMA Adjacent ==
    ASSUME NEW t \in Text, NEW p \in 0..Len(t), NEW q \in 0..Len(t), NEW r \in 0..Len(t),
           p <= q, q <= r
    PROVE  TextRange(t, p, r) = TextRange(t, p, q) \o TextRange(t, q, r)
<1>1. Len(t) \in Nat
  BY TextIs
<1>2. PICK m \in 1..Len(t) + 1 : m = p + 1
  BY <1>1
<1>3. q \in m - 1..Len(t) /\ r \in q..Len(t)
  BY <1>1, <1>2
<1>4. SubSeq(t, m, q) \o SubSeq(t, q + 1, r) = SubSeq(t, m, r)
  BY <1>3, ConcatAdjacentSubSeq DEF Text
<1>5. QED
  BY <1>2, <1>4 DEF TextRange

\* The string stands nowhere from one place of the text to another.
Absent(t, find, u, v) ==
    /\ u \in 0..Len(t) /\ v \in 0..Len(t) /\ u <= v
    /\ \A i \in u + 1..v : ~StandsAt(t, find, i)

\* Where the string does not stand, the characters stay.
LEMMA StaysUntil ==
    ASSUME NEW t \in Text, NEW find \in Plain, NEW with \in Plain,
           NEW f, Substitutes(f, t, find, with),
           NEW u \in Nat, NEW v \in Nat, Absent(t, find, u, v)
    PROVE  f[u + 1] = TextRange(t, u, v) \o f[v + 1]
<1> SUFFICES ASSUME u \in 0..Len(t), v \in 0..Len(t), u <= v,
                    \A i \in u + 1..v : ~StandsAt(t, find, i)
             PROVE  f[u + 1] = TextRange(t, u, v) \o f[v + 1]
  BY DEF Absent
<1> DEFINE n == Len(t)
<1>1. n \in Nat /\ \A i \in 1..n : t[i] \in Char
  BY TextIs
<1>2. /\ \A i \in 1..n + 1 : f[i] \in Text
      /\ \A i \in 1..n : ~StandsAt(t, find, i) => f[i] = <<t[i]>> \o f[i + 1]
  BY DEF Substitutes
<1> DEFINE S == {i \in 1..n + 1 : i \in u + 1..v + 1 => f[i] = TextRange(t, i - 1, v) \o f[v + 1]}
<1>3. ASSUME NEW i \in u + 1..v + 1, i = v + 1 PROVE f[i] = TextRange(t, i - 1, v) \o f[v + 1]
  <2>1. v + 1 \in 1..n + 1 /\ i - 1 = v
    BY <1>1, <1>3
  <2>2. TextRange(t, v, v) = <<>>
    BY <1>1, EmptySeq, RangeIs DEF Text
  <2>3. <<>> \o f[v + 1] = f[v + 1]
    BY <1>2, <2>1, ConcatEmptySeq DEF Text
  <2>4. QED
    BY <1>3, <2>1, <2>2, <2>3
<1>4. n + 1 \in S
  <2>1. n + 1 \in u + 1..v + 1 => n + 1 = v + 1
    BY <1>1
  <2>2. n + 1 \in 1..n + 1
    BY <1>1
  <2> HIDE DEF n
  <2>3. QED
    BY <1>3, <2>1, <2>2
<1>5. ASSUME NEW i \in 1..n, i + 1..n + 1 \subseteq S PROVE i \in S
  <2>1. CASE i \in u + 1..v
    <3>1. i + 1 \in S /\ i + 1 \in u + 1..v + 1 /\ i + 1 - 1 = i
      <4>1. i + 1 \in i + 1..n + 1 /\ i + 1 \in u + 1..v + 1 /\ i + 1 - 1 = i
        BY <1>1, <2>1
      <4>2. QED
        BY <1>5, <4>1
    <3>2. f[i + 1] = TextRange(t, i, v) \o f[v + 1]
      BY <3>1
    <3>3. f[i] = <<t[i]>> \o f[i + 1]
      BY <1>2, <2>1
    <3>4. PICK j \in 0..n : j = i - 1 /\ j <= i /\ i <= v /\ i \in 0..n /\ v \in 0..n
      BY <1>1, <2>1
    <3>5. TextRange(t, j, v) = TextRange(t, j, i) \o TextRange(t, i, v)
      BY <3>4, Adjacent
    <3>6. TextRange(t, j, i) = <<t[i]>>
      <4>1. <<t[i]>> \in Text /\ Len(<<t[i]>>) = 1 /\ <<t[i]>>[1] = t[i]
        BY <1>1, NothingIs, AppendIs
      <4>2. i - j = 1 /\ j + 1 = i
        BY <3>4
      <4> DEFINE b == TextRange(t, j, i)
      <4>3. b \in Text /\ Len(b) = i - j /\ \A k \in 1..i - j : b[k] = t[j + k]
        BY <3>4, RangeIs
      <4> HIDE DEF b
      <4>4. b \in Text /\ Len(b) = 1 /\ b[1] = t[i]
        BY <4>2, <4>3
      <4>5. \A k \in 1..1 : k = 1
        OBVIOUS
      <4>6. b = <<t[i]>>
        BY <4>1, <4>4, <4>5, SameText
      <4>7. QED
        BY <4>6 DEF b
    <3>7. (<<t[i]>> \o TextRange(t, i, v)) \o f[v + 1] = <<t[i]>> \o (TextRange(t, i, v) \o f[v + 1])
      <4>1. <<t[i]>> \in Text
        BY <1>1, NothingIs, AppendIs
      <4>2. TextRange(t, i, v) \in Text
        BY <3>4, RangeIs
      <4>3. v + 1 \in 1..n + 1
        BY <1>1
      <4>4. f[v + 1] \in Text
        BY <1>2, <4>3
      <4>5. QED
        BY <4>1, <4>2, <4>4, ConcatsAssociate
    <3>8. f[i] = TextRange(t, i - 1, v) \o f[v + 1]
      BY <3>2, <3>3, <3>4, <3>5, <3>6, <3>7
    <3>9. i \in 1..n + 1
      BY <1>1
    <3>10. QED
      BY <3>8, <3>9
  <2>2. CASE i \notin u + 1..v
    <3>1. i \in 1..n + 1 /\ (i \in u + 1..v + 1 => i = v + 1)
      BY <1>1, <2>2
    <3>2. QED
      BY <1>3, <3>1
  <2>3. QED
    BY <2>1, <2>2
<1>6. 1..n + 1 \subseteq S
  <2> HIDE DEF S, n
  <2>1. QED
    BY <1>1, <1>4, <1>5, Descending
<1>7. PICK k \in 1..n + 1 : k = u + 1 /\ k \in u + 1..v + 1 /\ k - 1 = u
  BY <1>1
<1>8. k \in S
  <2> HIDE DEF S
  <2>1. QED
    BY <1>6
<1>9. f[k] = TextRange(t, k - 1, v) \o f[v + 1]
  BY <1>7, <1>8
<1>10. QED
  BY <1>7, <1>9

\* A string put in place of a part of a text, whatever the line ends.
LEMMA SpliceIs ==
    ASSUME NEW t \in Text, NEW from \in 0..Len(t), NEW to \in 0..Len(t), from <= to, NEW s \in Text
    PROVE  LET r == Replaced(t, from, to, s)
           IN  /\ r \in Text /\ Len(r) = Len(t) - (to - from) + Len(s)
               /\ \A i \in 1..from : r[i] = t[i]
               /\ \A i \in 1..Len(s) : r[from + i] = s[i]
               /\ \A i \in 1..Len(t) - to : r[from + Len(s) + i] = t[to + i]
<1> DEFINE n == Len(t)
           a == TextRange(t, 0, from)
           b == TextRange(t, to, n)
           r == Replaced(t, from, to, s)
<1>1. n \in Nat /\ Len(s) \in Nat
  BY TextIs
<1>2. a \in Text /\ Len(a) = from /\ \A i \in 1..from : a[i] = t[i]
  <2>1. 0 \in 0..n /\ 0 <= from /\ from - 0 = from /\ from \in 0..n
    BY <1>1
  <2>2. a \in Text /\ Len(a) = from - 0 /\ \A i \in 1..from - 0 : a[i] = t[0 + i]
    BY <2>1, RangeIs
  <2> HIDE DEF a
  <2>3. QED
    BY <2>1, <2>2
<1>3. b \in Text /\ Len(b) = n - to /\ \A i \in 1..n - to : b[i] = t[to + i]
  <2>1. n \in 0..n /\ to <= n /\ to \in 0..n
    BY <1>1
  <2>2. QED
    BY <2>1, RangeIs
<1>4. r = (a \o s) \o b
  BY DEF Replaced
<1> HIDE DEF a, b, r
<1> DEFINE c == a \o s
<1>5. /\ c \in Text /\ Len(c) = from + Len(s)
      /\ \A i \in 1..from : c[i] = a[i]
      /\ \A i \in 1..Len(s) : c[from + i] = s[i]
  BY <1>2, ConcatIs
<1>6. /\ r \in Text /\ Len(r) = from + Len(s) + (n - to)
      /\ \A i \in 1..from + Len(s) : r[i] = c[i]
      /\ \A i \in 1..n - to : r[from + Len(s) + i] = b[i]
  <2> HIDE DEF c
  <2>1. r = c \o b
    BY <1>4 DEF c
  <2>2. /\ c \o b \in Text /\ Len(c \o b) = Len(c) + Len(b)
        /\ \A i \in 1..Len(c) : (c \o b)[i] = c[i]
        /\ \A i \in 1..Len(b) : (c \o b)[Len(c) + i] = b[i]
    BY <1>3, <1>5, ConcatIs
  <2>3. QED
    BY <1>3, <1>5, <2>1, <2>2
<1> HIDE DEF c
<1>7. Len(r) = n - (to - from) + Len(s)
  BY <1>1, <1>6
<1>8. ASSUME NEW i \in 1..from PROVE r[i] = t[i]
  <2>1. i \in 1..from + Len(s)
    BY <1>1
  <2>2. QED
    BY <1>2, <1>5, <1>6, <2>1
<1>9. ASSUME NEW i \in 1..Len(s) PROVE r[from + i] = s[i]
  <2>1. from + i \in 1..from + Len(s)
    BY <1>1
  <2>2. QED
    BY <1>5, <1>6, <2>1
<1>10. QED
  BY <1>3, <1>6, <1>7, <1>8, <1>9 DEF r

\* What a string is put in place of in two steps: it goes, and then the string comes.
LEMMA SpliceTwice ==
    ASSUME NEW t \in Text, NEW from \in 0..Len(t), NEW to \in 0..Len(t), from <= to, NEW s \in Text
    PROVE  Replaced(Replaced(t, from, to, <<>>), from, from, s) = Replaced(t, from, to, s)
<1> DEFINE n == Len(t)
           cut == Replaced(t, from, to, <<>>)
           r == Replaced(cut, from, from, s)
           d == Replaced(t, from, to, s)
<1>1. n \in Nat /\ Len(s) \in Nat /\ <<>> \in Text /\ Len(<<>>) = 0
  BY TextIs, NothingIs
<1>2. /\ cut \in Text /\ Len(cut) = n - (to - from)
      /\ \A i \in 1..from : cut[i] = t[i]
      /\ \A i \in 1..n - to : cut[from + i] = t[to + i]
  <2>1. PICK none \in Text : none = <<>> /\ Len(none) = 0
    BY <1>1
  <2> DEFINE x == Replaced(t, from, to, none)
  <2>2. /\ x \in Text /\ Len(x) = n - (to - from) + Len(none)
        /\ \A i \in 1..from : x[i] = t[i]
        /\ \A i \in 1..n - to : x[from + Len(none) + i] = t[to + i]
    <3>1. LET y == Replaced(t, from, to, none)
          IN  /\ y \in Text /\ Len(y) = Len(t) - (to - from) + Len(none)
              /\ \A i \in 1..from : y[i] = t[i]
              /\ \A i \in 1..Len(none) : y[from + i] = none[i]
              /\ \A i \in 1..Len(t) - to : y[from + Len(none) + i] = t[to + i]
      BY SpliceIs, ZenonT(30)
    <3>2. QED
      BY <3>1
  <2>3. n - (to - from) + Len(none) = n - (to - from) /\ from + Len(none) = from
    BY <1>1, <2>1
  <2>4. cut = x
    BY <2>1
  <2> HIDE DEF cut, x
  <2>5. QED
    BY <2>2, <2>3, <2>4
<1> HIDE DEF cut
<1>3. from \in 0..Len(cut) /\ from <= from
  BY <1>1, <1>2
<1>4. /\ r \in Text /\ Len(r) = Len(cut) - (from - from) + Len(s)
      /\ \A i \in 1..from : r[i] = cut[i]
      /\ \A i \in 1..Len(s) : r[from + i] = s[i]
      /\ \A i \in 1..Len(cut) - from : r[from + Len(s) + i] = cut[from + i]
  BY <1>2, <1>3, SpliceIs
<1>5. /\ d \in Text /\ Len(d) = n - (to - from) + Len(s)
      /\ \A i \in 1..from : d[i] = t[i]
      /\ \A i \in 1..Len(s) : d[from + i] = s[i]
      /\ \A i \in 1..n - to : d[from + Len(s) + i] = t[to + i]
  BY SpliceIs
<1> HIDE DEF r, d
<1>6. Len(r) = Len(d) /\ Len(cut) - from = n - to /\ Len(d) = from + Len(s) + (n - to)
  BY <1>1, <1>2, <1>4, <1>5
<1>7. ASSUME NEW i \in 1..n - to PROVE r[from + Len(s) + i] = d[from + Len(s) + i]
  <2>1. i \in 1..Len(cut) - from
    BY <1>6
  <2>2. r[from + Len(s) + i] = cut[from + i]
    BY <1>4, <2>1
  <2>3. d[from + Len(s) + i] = t[to + i]
    BY <1>5
  <2>4. cut[from + i] = t[to + i]
    BY <1>2
  <2>5. QED
    BY <2>2, <2>3, <2>4
<1>8. \A i \in 1..from : r[i] = d[i]
  BY <1>2, <1>4, <1>5
<1>9. \A i \in 1..Len(s) : r[from + i] = d[from + i]
  BY <1>4, <1>5
<1>10. ASSUME NEW i \in 1..Len(d) PROVE r[i] = d[i]
  <2>1. CASE i <= from
    BY <1>8, <2>1
  <2>2. CASE from < i /\ i <= from + Len(s)
    <3>1. i - from \in 1..Len(s) /\ from + (i - from) = i
      BY <1>1, <2>2
    <3>2. QED
      BY <1>9, <3>1
  <2>3. CASE from + Len(s) < i
    <3>1. PICK k \in 1..n - to : from + Len(s) + k = i
      <4>1. i - from - Len(s) \in 1..n - to /\ from + Len(s) + (i - from - Len(s)) = i
        BY <1>1, <1>6, <2>3
      <4>2. QED
        BY <4>1
    <3>2. QED
      BY <1>7, <3>1
  <2>4. QED
    BY <1>1, <2>1, <2>2, <2>3
<1>11. QED
  BY <1>4, <1>5, <1>6, <1>10, SameText DEF cut, r, d

\* A place behind the part from a to b of a text, and where it is once s is there.
Carried(w, a, b, s, c, end) ==
    /\ a \in Nat /\ b \in Nat /\ c \in Nat /\ end \in Nat
    /\ a <= b /\ b <= c /\ c <= Len(w) /\ end = a + Len(s) + (c - b)

\* A part of a text of which another part has been replaced.
LEMMA SpliceRange ==
    ASSUME NEW w \in Text, NEW a, NEW b, NEW s \in Text, NEW c, NEW end, Carried(w, a, b, s, c, end)
    PROVE  LET r == Replaced(w, a, b, s)
           IN  /\ TextRange(r, 0, end) = TextRange(w, 0, a) \o (s \o TextRange(w, b, c))
               /\ TextRange(r, end, Len(r)) = TextRange(w, c, Len(w))
<1>1. /\ a \in Nat /\ b \in Nat /\ c \in Nat /\ end \in Nat
       /\ a <= b /\ b <= c /\ c <= Len(w) /\ end = a + Len(s) + (c - b)
  BY DEF Carried
<1> DEFINE r == Replaced(w, a, b, s)
           n == Len(s)
           x == TextRange(w, 0, a)
           y == TextRange(w, b, c)
<1>2. /\ Len(w) \in Nat /\ n \in Nat /\ 0 \in 0..Len(w) /\ 0 <= a
      /\ a \in 0..Len(w) /\ b \in 0..Len(w) /\ c \in 0..Len(w)
  BY <1>1, TextIs
<1>3. /\ r \in Text /\ Len(r) = Len(w) - (b - a) + n
      /\ \A i \in 1..a : r[i] = w[i]
      /\ \A i \in 1..n : r[a + i] = s[i]
      /\ \A i \in 1..Len(w) - b : r[a + n + i] = w[b + i]
  BY <1>2, <1>1, SpliceIs
<1>4. PICK k \in Nat : k = c - b
  <2>1. c - b \in Nat
    BY <1>1
  <2>2. QED
    BY <2>1
<1>5. end = a + n + k /\ c = b + k
  BY <1>4, <1>1
<1> HIDE DEF r, n
<1>6. end \in 0..Len(r) /\ Len(r) - end = Len(w) - c
  BY <1>2, <1>3, <1>5
<1>7. x \in Text /\ Len(x) = a /\ \A i \in 1..a : x[i] = w[i]
  <2>1. x \in Text /\ Len(x) = a - 0 /\ \A i \in 1..a - 0 : x[i] = w[0 + i]
    BY <1>2, <1>1, RangeIs
  <2> HIDE DEF x
  <2>2. QED
    BY <1>1, <2>1
<1>8. y \in Text /\ Len(y) = k /\ \A i \in 1..k : y[i] = w[b + i]
  <2>1. y \in Text /\ Len(y) = c - b /\ \A i \in 1..c - b : y[i] = w[b + i]
    BY <1>2, <1>1, RangeIs
  <2> HIDE DEF y
  <2>2. QED
    BY <1>4, <2>1
<1> HIDE DEF x, y
<1>9. TextRange(r, 0, end) = x \o (s \o y)
  <2> DEFINE p == TextRange(r, 0, end)
             q == s \o y
             z == x \o q
  <2>1. p \in Text /\ Len(p) = end /\ \A i \in 1..end : p[i] = r[i]
    <3>1. 0 \in 0..Len(r) /\ 0 <= end /\ end - 0 = end
      BY <1>3, <1>6
    <3>2. p \in Text /\ Len(p) = end - 0 /\ \A i \in 1..end - 0 : p[i] = r[0 + i]
      BY <1>3, <1>6, <3>1, RangeIs
    <3> HIDE DEF p
    <3>3. QED
      BY <1>6, <3>1, <3>2
  <2>2. /\ q \in Text /\ Len(q) = n + k
        /\ \A i \in 1..n : q[i] = s[i]
        /\ \A i \in 1..k : q[n + i] = y[i]
    <3>1. /\ q \in Text /\ Len(q) = Len(s) + Len(y)
          /\ \A i \in 1..Len(s) : q[i] = s[i]
          /\ \A i \in 1..Len(y) : q[Len(s) + i] = y[i]
      BY <1>8, ConcatIs
    <3> HIDE DEF q
    <3>2. QED
      BY <1>8, <3>1 DEF n
  <2> HIDE DEF p, q
  <2>3. /\ z \in Text /\ Len(z) = a + (n + k)
        /\ \A i \in 1..a : z[i] = x[i]
        /\ \A i \in 1..n + k : z[a + i] = q[i]
    <3>1. /\ z \in Text /\ Len(z) = Len(x) + Len(q)
          /\ \A i \in 1..Len(x) : z[i] = x[i]
          /\ \A i \in 1..Len(q) : z[Len(x) + i] = q[i]
      BY <1>7, <2>2, ConcatIs
    <3> HIDE DEF z
    <3>2. QED
      BY <1>7, <2>2, <3>1
  <2> HIDE DEF z
  <2>4. ASSUME NEW i \in 1..end PROVE p[i] = z[i]
    <3>1. p[i] = r[i]
      BY <2>1
    <3>2. CASE i <= a
      <4>1. i \in 1..a
        BY <3>2
      <4>2. QED
        BY <1>3, <1>7, <2>3, <3>1, <4>1
    <3>3. CASE a < i /\ i <= a + n
      <4>1. PICK j \in 1..n : i = a + j
        <5>1. i - a \in 1..n /\ i = a + (i - a)
          BY <1>2, <3>3
        <5>2. QED
          BY <5>1
      <4>2. j \in 1..n + k
        BY <1>2
      <4>3. QED
        BY <1>3, <2>2, <2>3, <3>1, <4>1, <4>2
    <3>4. CASE a + n < i
      <4>1. PICK j \in 1..k : i = a + n + j
        <5>1. i - a - n \in 1..k /\ i = a + n + (i - a - n)
          BY <1>2, <1>5, <3>4
        <5>2. QED
          BY <5>1
      <4>2. n + j \in 1..n + k /\ a + (n + j) = i /\ j \in 1..Len(w) - b
        BY <1>2, <1>5, <4>1
      <4>3. z[i] = q[n + j]
        BY <2>3, <4>2
      <4>4. QED
        BY <1>3, <1>8, <2>2, <3>1, <4>1, <4>2, <4>3
    <3>5. QED
      BY <1>2, <1>5, <3>2, <3>3, <3>4
  <2>5. Len(p) = Len(z) /\ \A i \in 1..Len(p) : p[i] = z[i]
    BY <1>2, <1>5, <2>1, <2>3, <2>4
  <2>6. p = z
    BY <2>1, <2>3, <2>5, SameText
  <2>7. QED
    BY <2>6 DEF p, z, q
<1>10. TextRange(r, end, Len(r)) = TextRange(w, c, Len(w))
  <2> DEFINE p == TextRange(r, end, Len(r))
             z == TextRange(w, c, Len(w))
             m == Len(r) - end
  <2>1. p \in Text /\ Len(p) = m /\ \A i \in 1..m : p[i] = r[end + i]
    <3>1. Len(r) \in 0..Len(r) /\ end <= Len(r)
      BY <1>3, <1>6
    <3>2. QED
      BY <1>3, <1>6, <3>1, RangeIs
  <2>2. z \in Text /\ Len(z) = m /\ \A i \in 1..m : z[i] = w[c + i]
    <3>1. Len(w) \in 0..Len(w) /\ c <= Len(w)
      BY <1>2
    <3>2. z \in Text /\ Len(z) = Len(w) - c /\ \A i \in 1..Len(w) - c : z[i] = w[c + i]
      BY <1>2, <3>1, RangeIs
    <3> HIDE DEF z
    <3>3. QED
      BY <1>6, <3>2
  <2>3. ASSUME NEW i \in 1..m PROVE r[end + i] = w[c + i]
    <3>1. PICK j \in 1..Len(w) - b : j = k + i /\ a + n + j = end + i /\ b + j = c + i
      <4>1. k + i \in 1..Len(w) - b /\ a + n + (k + i) = end + i /\ b + (k + i) = c + i
        <5>1. i \in 1..Len(w) - c /\ i \in Nat
          BY <1>2, <1>6
        <5>2. QED
          BY <1>2, <1>5, <5>1
      <4>2. QED
        BY <4>1
    <3>2. QED
      BY <1>3, <3>1
  <2> HIDE DEF p, z, m
  <2>4. p = z
    BY <2>1, <2>2, <2>3, SameText
  <2>5. QED
    BY <2>4 DEF p, z
<1>11. QED
  BY <1>9, <1>10 DEF r, x, y

\* One replacement more of a text of which the beginning has been replaced.
LEMMA SpliceAgain ==
    ASSUME NEW w \in Text, NEW a, NEW b, NEW s \in Text, NEW with \in Text,
           NEW c, NEW from, Carried(w, a, b, s, c, from),
           NEW d, NEW to, Carried(w, a, b, s, d, to), c <= d
    PROVE  Replaced(Replaced(w, a, b, s), from, to, with)
           = Replaced(w, a, d, s \o (TextRange(w, b, c) \o with))
<1> DEFINE t == Replaced(w, a, b, s)
           x == TextRange(w, 0, a)
           y == TextRange(w, b, c)
           z == TextRange(w, d, Len(w))
<1>1. /\ 0 \in 0..Len(w) /\ 0 <= a /\ a \in 0..Len(w) /\ b \in 0..Len(w) /\ c \in 0..Len(w)
      /\ b <= c
  BY TextIs DEF Carried
<1>2. TextRange(t, 0, from) = x \o (s \o y)
  BY SpliceRange
<1>3. TextRange(t, to, Len(t)) = z
  BY SpliceRange
<1>4. Replaced(t, from, to, with) = ((x \o (s \o y)) \o with) \o z
  <2> HIDE DEF t, x, y, z
  <2>1. QED
    BY <1>2, <1>3 DEF Replaced
<1>5. Replaced(w, a, d, s \o (y \o with)) = (x \o (s \o (y \o with))) \o z
  BY DEF Replaced
<1>6. (x \o (s \o y)) \o with = x \o (s \o (y \o with))
  <2>1. x \in Text
    BY <1>1, RangeIs
  <2>2. y \in Text
    BY <1>1, RangeIs
  <2> HIDE DEF x, y
  <2>3. s \o y \in Text
    BY <2>2, ConcatIs
  <2>4. (x \o (s \o y)) \o with = x \o ((s \o y) \o with)
    BY <2>1, <2>3, ConcatsAssociate, SMTT(30)
  <2>5. (s \o y) \o with = s \o (y \o with)
    BY <2>2, ConcatsAssociate
  <2>6. QED
    BY <2>4, <2>5
<1> HIDE DEF t, x, y, z
<1>7. QED
  BY <1>4, <1>5, <1>6 DEF t, y

\* A search for a string that Replace All does not take for a regular expression.
IsPlainSearch(what) ==
    what.regexp = FALSE /\ what.find \in Plain /\ what.find # <<>> /\ what.find[1] # Caret

LEMMA FindLength ==
    ASSUME NEW find \in Plain, find # <<>>
    PROVE  Len(find) \in Nat \ {0} /\ find \in Text /\ ~IsEnd(find[1])
<1>1. find \in Text /\ \A i \in 1..Len(find) : ~IsEnd(find[i])
  BY PlainGood DEF Good
<1>2. Len(find) \in Nat \ {0}
  BY EmptySeq DEF Plain
<1>3. QED
  BY <1>1, <1>2

\* A string stands somewhere if the characters there are its characters.
LEMMA StandsIff ==
    ASSUME NEW t \in Text, NEW p \in Nat, NEW find \in Plain, find # <<>>
    PROVE  StandsAt(t, find, p + 1) <=>
               p + Len(find) <= Len(t) /\ \A i \in 1..Len(find) : t[p + i] = find[i]
<1>1. Len(t) \in Nat /\ Len(find) \in Nat \ {0}
  BY TextIs, FindLength
<1>2. PICK q \in Nat : q = p + Len(find)
  BY <1>1
<1>3. p + 1 + Len(find) - 1 = q
  BY <1>1, <1>2
<1>4. StandsAt(t, find, p + 1) <=> q <= Len(t) /\ TextRange(t, p, q) = find
  BY <1>3 DEF StandsAt, TextRange
<1>5. ASSUME q <= Len(t)
      PROVE  TextRange(t, p, q) = find <=> \A i \in 1..Len(find) : t[p + i] = find[i]
  <2>1. p \in 0..Len(t)
    BY <1>1, <1>2, <1>5
  <2>2. QED
    BY <1>2, <1>5, <2>1, FindIff
<1>6. QED
  BY <1>2, <1>4, <1>5

\* It stands in two texts alike where they have the same characters.
LEMMA StandsAlike ==
    ASSUME NEW x \in Text, NEW y \in Text, NEW p \in Nat, NEW q \in Nat,
           NEW find \in Plain, find # <<>>, p + Len(find) <= Len(x), q + Len(find) <= Len(y),
           \A i \in 1..Len(find) : x[p + i] = y[q + i]
    PROVE  StandsAt(x, find, p + 1) <=> StandsAt(y, find, q + 1)
  BY StandsIff

\* What the search of such a string finds.
LEMMA FindsFirst ==
    ASSUME NEW t \in Text, NEW what, IsPlainSearch(what), NEW from \in Nat
    PROVE  /\ \A m \in FindText(t, what, from) :
                /\ m.start \in from..Len(t) /\ m.end = m.start + Len(what.find)
                /\ m.end <= Len(t) /\ StandsAt(t, what.find, m.start + 1)
           /\ \A p \in from..Len(t) : StandsAt(t, what.find, p + 1) =>
                \E m \in FindText(t, what, from) : m.start <= p
<1> DEFINE find == what.find
           at == {p \in from..Len(t) : Valid(t, p) /\ MatchEnds(t, what, p) # {}}
<1>1. /\ Len(t) \in Nat /\ find \in Plain /\ find # <<>> /\ Len(find) \in Nat \ {0}
      /\ ~IsEnd(find[1])
  BY TextIs, FindLength DEF IsPlainSearch
<1>2. ASSUME NEW p \in from..Len(t)
      PROVE  /\ \A q \in MatchEnds(t, what, p) : q = p + Len(find) /\ q <= Len(t)
             /\ MatchEnds(t, what, p) # {} <=> StandsAt(t, find, p + 1)
  <2>1. MatchEnds(t, what, p) =
          {q \in {p + Len(find)} : q <= Len(t) /\ TextRange(t, p, q) = find}
    BY DEF MatchEnds, IsPlainSearch
  <2>2. p + 1 + Len(find) - 1 = p + Len(find)
    <3>1. p \in Nat /\ Len(find) \in Nat
      BY <1>1
    <3> HIDE DEF find
    <3>2. QED
      BY <3>1
  <2>3. StandsAt(t, find, p + 1) <=>
          p + Len(find) <= Len(t) /\ TextRange(t, p, p + Len(find)) = find
    <3> HIDE DEF find
    <3>1. QED
      BY <2>2 DEF StandsAt, TextRange
  <2>4. PICK k : k = p + Len(find)
    OBVIOUS
  <2>5. MatchEnds(t, what, p) = {q \in {k} : q <= Len(t) /\ TextRange(t, p, q) = find}
    BY <2>1, <2>4
  <2>6. StandsAt(t, find, p + 1) <=> k <= Len(t) /\ TextRange(t, p, k) = find
    BY <2>3, <2>4
  <2> HIDE DEF find
  <2>7. QED
    BY <2>4, <2>5, <2>6, ZenonT(30)
<1>3. ASSUME NEW p \in from..Len(t), StandsAt(t, find, p + 1) PROVE Valid(t, p)
  <2>1. p \in Nat /\ p \in 0..Len(t)
    BY <1>1
  <2>2. p + Len(find) <= Len(t) /\ t[p + 1] = find[1]
    <3>1. 1 \in 1..Len(find)
      BY <1>1
    <3> HIDE DEF find
    <3>2. QED
      BY <1>1, <1>3, <2>1, <3>1, StandsIff
  <2>3. t[p + 1] # LF
    BY <1>1, <2>2 DEF IsEnd
  <2>4. QED
    BY <2>1, <2>3 DEF Valid
<1> HIDE DEF find
<1>4. \A p \in from..Len(t) : p \in at <=> StandsAt(t, find, p + 1)
  BY <1>2, <1>3
<1>5. at \in SUBSET Nat /\ at \subseteq from..Len(t)
  BY <1>1
<1>6. FindText(t, what, from) =
        IF at = {} THEN {} ELSE {[start |-> Min(at), end |-> Min(MatchEnds(t, what, Min(at)))]}
  BY DEF FindText
<1> HIDE DEF at
<1>7. ASSUME at # {}
      PROVE  /\ Min(at) \in at /\ \A p \in at : Min(at) <= p
             /\ Min(MatchEnds(t, what, Min(at))) = Min(at) + Len(find)
             /\ Min(at) + Len(find) <= Len(t)
  <2>1. Min(at) \in at /\ \A p \in at : Min(at) <= p
    BY <1>5, <1>7, MinOf
  <2>2. PICK p \in from..Len(t) : p = Min(at)
    BY <1>5, <2>1
  <2>3. /\ MatchEnds(t, what, p) # {}
        /\ \A q \in MatchEnds(t, what, p) : q = p + Len(find) /\ q <= Len(t)
    BY <1>2, <1>4, <2>1, <2>2
  <2>4. MatchEnds(t, what, p) \in SUBSET Nat
    <3>1. p + Len(find) \in Nat
      BY <1>1
    <3>2. QED
      BY <2>3, <3>1
  <2>5. Min(MatchEnds(t, what, p)) \in MatchEnds(t, what, p)
    BY <2>3, <2>4, MinOf
  <2>6. QED
    BY <2>1, <2>2, <2>3, <2>5
<1>8. ASSUME NEW m \in FindText(t, what, from)
      PROVE  /\ m.start \in from..Len(t) /\ m.end = m.start + Len(find)
             /\ m.end <= Len(t) /\ StandsAt(t, find, m.start + 1)
  <2>1. at # {} /\ m.start = Min(at) /\ m.end = Min(MatchEnds(t, what, Min(at)))
    BY <1>6
  <2>2. QED
    BY <1>4, <1>5, <1>7, <2>1
<1>9. ASSUME NEW p \in from..Len(t), StandsAt(t, find, p + 1)
      PROVE  \E m \in FindText(t, what, from) : m.start <= p
  <2>1. p \in at
    BY <1>4, <1>9
  <2>2. [start |-> Min(at), end |-> Min(MatchEnds(t, what, Min(at)))] \in FindText(t, what, from)
    BY <1>6, <2>1
  <2>3. [start |-> Min(at), end |-> Min(MatchEnds(t, what, Min(at)))].start = Min(at)
    OBVIOUS
  <2>4. Min(at) <= p
    BY <1>7, <2>1
  <2>5. QED
    BY <2>2, <2>3, <2>4
<1>10. QED
  BY <1>8, <1>9 DEF find

\* The selection around a replacement of something inside it.
LEMMA TargetSelection ==
    ASSUME NEW mode, NEW e \in Editors(mode), NEW from \in Nat, NEW to \in Nat, from < to,
           NEW s \in Text, SelectionStart(e) <= from, to <= SelectionEnd(e)
    PROVE  LET new == ReplaceTarget(e, from, to, s)
           IN  /\ SelectionStart(new) <= from + Len(s)
               /\ to < SelectionEnd(e) => SelectionEnd(new) = SelectionEnd(e) - (to - from) + Len(s)
               /\ to = SelectionEnd(e) => SelectionEnd(new) = from
<1> DEFINE cut == DeleteRange(e, from, to)
           new == ReplaceTarget(e, from, to, s)
           n == Len(s)
<1>1. e.anchor \in Nat /\ e.caret \in Nat /\ n \in Nat
  BY EditorIs, TextIs
<1>2. /\ SelectionStart(e) = (IF e.anchor <= e.caret THEN e.anchor ELSE e.caret)
      /\ SelectionEnd(e) = (IF e.anchor <= e.caret THEN e.caret ELSE e.anchor)
  <2>1. /\ Min({e.anchor, e.caret}) = (IF e.anchor <= e.caret THEN e.anchor ELSE e.caret)
        /\ Max({e.anchor, e.caret}) = (IF e.anchor <= e.caret THEN e.caret ELSE e.anchor)
    BY <1>1, MinMaxIs
  <2>2. QED
    BY <2>1 DEF SelectionStart, SelectionEnd
<1>3. /\ cut.anchor = AfterDeletion(e.anchor, from, to)
      /\ cut.caret = AfterDeletion(e.caret, from, to)
  BY DEF DeleteRange, SetSel
<1>4. /\ new.anchor = AfterInsertion(cut.anchor, from, n, cut.anchor < cut.caret)
      /\ new.caret = AfterInsertion(cut.caret, from, n, cut.caret < cut.anchor)
  BY DEF ReplaceTarget, InsertAt, SetSel
<1> HIDE DEF cut, new, n
<1>5. cut.anchor \in Nat /\ cut.caret \in Nat
  BY <1>1, <1>3 DEF AfterDeletion
<1>6. new.anchor \in Nat /\ new.caret \in Nat
  BY <1>1, <1>4, <1>5 DEF AfterInsertion
<1>7. /\ SelectionStart(new) = (IF new.anchor <= new.caret THEN new.anchor ELSE new.caret)
      /\ SelectionEnd(new) = (IF new.anchor <= new.caret THEN new.caret ELSE new.anchor)
  <2>1. /\ Min({new.anchor, new.caret}) = (IF new.anchor <= new.caret THEN new.anchor ELSE new.caret)
        /\ Max({new.anchor, new.caret}) = (IF new.anchor <= new.caret THEN new.caret ELSE new.anchor)
    BY <1>6, MinMaxIs
  <2>2. QED
    BY <2>1 DEF SelectionStart, SelectionEnd
<1>8. CASE e.anchor <= e.caret
  <2>1. e.anchor <= from /\ to <= e.caret /\ SelectionEnd(e) = e.caret
    BY <1>2, <1>8
  <2>2. cut.anchor = e.anchor /\ cut.caret = e.caret - (to - from)
    BY <1>1, <1>3, <2>1 DEF AfterDeletion
  <2>3. CASE to < e.caret
    <3>1. cut.anchor < cut.caret /\ cut.caret > from
      BY <1>1, <2>1, <2>2, <2>3
    <3>2. new.caret = e.caret - (to - from) + n
      BY <1>4, <2>2, <3>1 DEF AfterInsertion
    <3>3. new.anchor = IF e.anchor = from THEN from + n ELSE e.anchor
      BY <1>1, <1>4, <2>1, <2>2, <3>1 DEF AfterInsertion
    <3>4. new.anchor <= new.caret /\ new.anchor <= from + n
      BY <1>1, <2>1, <2>3, <3>2, <3>3
    <3>5. QED
      BY <1>7, <2>1, <2>3, <3>2, <3>4 DEF new, n
  <2>4. CASE to = e.caret
    <3>1. cut.caret = from /\ cut.anchor <= from
      BY <1>1, <2>1, <2>2, <2>4
    <3>2. CASE cut.anchor < from
      <4>1. new.anchor = cut.anchor /\ new.caret = from
        BY <1>1, <1>4, <1>5, <3>1, <3>2 DEF AfterInsertion
      <4>2. QED
        BY <1>1, <1>6, <1>7, <2>1, <2>4, <3>1, <4>1 DEF new, n
    <3>3. CASE cut.anchor = from
      <4>1. new.anchor = from /\ new.caret = from
        BY <1>1, <1>4, <1>5, <3>1, <3>3 DEF AfterInsertion
      <4>2. QED
        BY <1>1, <1>6, <1>7, <2>1, <2>4, <3>1, <4>1 DEF new, n
    <3>4. QED
      BY <1>5, <3>1, <3>2, <3>3
  <2>5. QED
    BY <1>1, <2>1, <2>3, <2>4 DEF new
<1>9. CASE e.caret < e.anchor
  <2>1. e.caret <= from /\ to <= e.anchor /\ SelectionEnd(e) = e.anchor
    BY <1>1, <1>2, <1>9
  <2>2. cut.caret = e.caret /\ cut.anchor = e.anchor - (to - from)
    BY <1>1, <1>3, <2>1 DEF AfterDeletion
  <2>3. CASE to < e.anchor
    <3>1. cut.caret < cut.anchor /\ cut.anchor > from
      BY <1>1, <2>1, <2>2, <2>3
    <3>2. new.anchor = e.anchor - (to - from) + n
      BY <1>4, <2>2, <3>1 DEF AfterInsertion
    <3>3. new.caret = IF e.caret = from THEN from + n ELSE e.caret
      BY <1>1, <1>4, <2>1, <2>2, <3>1 DEF AfterInsertion
    <3>4. new.caret <= new.anchor /\ new.caret <= from + n
      BY <1>1, <2>1, <2>3, <3>2, <3>3
    <3>5. SelectionStart(new) = new.caret /\ SelectionEnd(new) = new.anchor
      BY <1>6, <1>7, <3>4
    <3>6. QED
      BY <2>1, <2>3, <3>2, <3>4, <3>5 DEF new, n
  <2>4. CASE to = e.anchor
    <3>1. cut.anchor = from /\ cut.caret <= from
      BY <1>1, <2>1, <2>2, <2>4
    <3>2. CASE cut.caret < from
      <4>1. new.caret = cut.caret /\ new.anchor = from
        BY <1>1, <1>4, <1>5, <3>1, <3>2 DEF AfterInsertion
      <4>2. SelectionStart(new) = new.caret /\ SelectionEnd(new) = new.anchor
        BY <1>6, <1>7, <3>1, <4>1
      <4>3. new.caret <= from + n
        BY <1>1, <1>5, <3>1, <4>1
      <4>4. QED
        BY <2>1, <2>4, <4>1, <4>2, <4>3 DEF new, n
    <3>3. CASE cut.caret = from
      <4>1. new.caret = from /\ new.anchor = from
        BY <1>1, <1>4, <1>5, <3>1, <3>3 DEF AfterInsertion
      <4>2. QED
        BY <1>1, <1>6, <1>7, <2>1, <2>4, <3>1, <4>1 DEF new, n
    <3>4. QED
      BY <1>5, <3>1, <3>2, <3>3
  <2>5. QED
    BY <1>1, <2>1, <2>3, <2>4 DEF new
<1>10. QED
  BY <1>1, <1>8, <1>9 DEF new, n

\* What Replace All replaces in.
RangeStart(s) == IF s.inSelection THEN SelectionStart(s.origin) ELSE 0
RangeEnd(s) == IF s.inSelection THEN SelectionEnd(s.origin) ELSE Len(s.origin.text)

\* How far Replace All has come: the first n characters of its range have become the
\* text put, the rest is as it was and the search goes on in front of it, and what
\* becomes of the rest makes it complete.
Halfway(e, s, n, put) ==
    LET w == s.origin.text
        a == RangeStart(s)
        b == RangeEnd(s)
        t == TextRange(w, a, b)
    IN  /\ a + n <= b
        /\ e.text = Replaced(w, a, a + n, put)
        /\ s.from = a + Len(put)
        /\ \A f : Substitutes(f, t, s.what.find, s.with) => f[1] = put \o f[n + 1]
        /\ s.done => a + n = b
        /\ s.inSelection =>
            /\ SelectionStart(e) <= s.from
            /\ SelectionEnd(e) <= s.from + (b - a - n)
            /\ a + n = b \/ SelectionEnd(e) = s.from + (b - a - n)

ReplacingInv ==
    search.active /\ IsPlainSearch(search.what) =>
        \E n \in Nat, put \in Text : Halfway(editor, search, n, put)

\* The range is a part of the text.
LEMMA RangeOfSearch ==
    ASSUME NEW mode, NEW s \in SearchesIn(mode)
    PROVE  /\ s.origin.text \in Text /\ Len(s.origin.text) \in Nat
           /\ RangeStart(s) \in 0..Len(s.origin.text) /\ RangeEnd(s) \in 0..Len(s.origin.text)
           /\ RangeStart(s) \in Nat /\ RangeEnd(s) \in Nat /\ RangeStart(s) <= RangeEnd(s)
<1>1. s.origin \in Editors(mode) /\ s.inSelection \in BOOLEAN
  BY DEF SearchesIn
<1>2. s.origin.text \in Text /\ Len(s.origin.text) \in Nat
  BY <1>1, EditorIs
<1>3. /\ SelectionStart(s.origin) \in 0..Len(s.origin.text)
      /\ SelectionEnd(s.origin) \in 0..Len(s.origin.text)
      /\ SelectionStart(s.origin) <= SelectionEnd(s.origin)
  BY <1>1, SelectionIs
<1>4. QED
  BY <1>1, <1>2, <1>3 DEF RangeStart, RangeEnd

\* A text is its own largest part.
LEMMA WholeRange ==
    ASSUME NEW t \in Text
    PROVE  TextRange(t, 0, Len(t)) = t
<1> DEFINE x == TextRange(t, 0, Len(t))
<1>1. Len(t) \in Nat
  BY TextIs
<1>2. 0 \in 0..Len(t) /\ Len(t) \in 0..Len(t) /\ 0 <= Len(t) /\ Len(t) - 0 = Len(t)
  BY <1>1
<1>3. x \in Text /\ Len(x) = Len(t) - 0 /\ \A i \in 1..Len(t) - 0 : x[i] = t[0 + i]
  BY <1>2, RangeIs
<1> HIDE DEF x
<1>4. Len(x) = Len(t) /\ \A i \in 1..Len(x) : x[i] = t[i]
  BY <1>1, <1>3
<1>5. x = t
  BY <1>3, <1>4, SameText
<1>6. QED
  BY <1>5 DEF x

\* A part of a part of a text.
LEMMA RangeOfRange ==
    ASSUME NEW w \in Text, NEW a \in 0..Len(w), NEW b \in 0..Len(w), a <= b,
           NEW p \in Nat, NEW q \in Nat, p <= q, a + q <= b
    PROVE  LET t == TextRange(w, a, b)
           IN  /\ t \in Text /\ Len(t) = b - a /\ p \in 0..Len(t) /\ q \in 0..Len(t)
               /\ \A i \in 1..b - a : t[i] = w[a + i]
               /\ TextRange(t, p, q) = TextRange(w, a + p, a + q)
<1> DEFINE t == TextRange(w, a, b)
           x == TextRange(t, p, q)
           y == TextRange(w, a + p, a + q)
<1>1. t \in Text /\ Len(t) = b - a /\ \A i \in 1..b - a : t[i] = w[a + i]
  BY RangeIs
<1>2. Len(w) \in Nat
  BY TextIs
<1> HIDE DEF t
<1>3. p \in 0..Len(t) /\ q \in 0..Len(t)
  BY <1>1, <1>2
<1>4. x \in Text /\ Len(x) = q - p /\ \A i \in 1..q - p : x[i] = t[p + i]
  BY <1>1, <1>3, RangeIs
<1>5. y \in Text /\ Len(y) = q - p /\ \A i \in 1..q - p : y[i] = w[a + p + i]
  <2>1. PICK c \in 0..Len(w), d \in 0..Len(w) : c = a + p /\ d = a + q /\ c <= d /\ d - c = q - p
    <3>1. /\ a + p \in 0..Len(w) /\ a + q \in 0..Len(w) /\ a + p <= a + q
          /\ (a + q) - (a + p) = q - p
      BY <1>2
    <3>2. QED
      BY <3>1
  <2> DEFINE z == TextRange(w, c, d)
  <2>2. z \in Text /\ Len(z) = d - c /\ \A i \in 1..d - c : z[i] = w[c + i]
    BY <2>1, RangeIs
  <2>3. z = y
    BY <2>1
  <2> HIDE DEF y, z
  <2>4. QED
    BY <2>1, <2>2, <2>3
<1> HIDE DEF x, y
<1>6. ASSUME NEW i \in 1..q - p PROVE x[i] = y[i]
  <2>1. p + i \in 1..b - a /\ a + (p + i) = a + p + i
    BY <1>2
  <2>2. t[p + i] = w[a + p + i]
    BY <1>1, <2>1
  <2>3. QED
    BY <1>4, <1>5, <2>2
<1>7. x = y
  BY <1>4, <1>5, <1>6, SameText
<1>8. QED
  BY <1>1, <1>3, <1>7 DEF t, x, y

\* Behind the place where the search goes on, the text is the range and what follows it.
LEMMA HalfwayAlike ==
    ASSUME NEW mode, NEW s \in SearchesIn(mode), NEW e, NEW n \in Nat, NEW put \in Text,
           Halfway(e, s, n, put)
    PROVE  LET w == s.origin.text
               t == TextRange(w, RangeStart(s), RangeEnd(s))
           IN  /\ e.text \in Text /\ Len(e.text) \in Nat /\ s.from \in 0..Len(e.text)
               /\ Len(e.text) - s.from = Len(w) - RangeStart(s) - n
               /\ t \in Text /\ Len(t) = RangeEnd(s) - RangeStart(s) /\ n <= Len(t)
               /\ ~s.inSelection => Len(e.text) - s.from = Len(t) - n
               /\ \A i \in 1..Len(t) - n : e.text[s.from + i] = t[n + i]
<1> DEFINE w == s.origin.text
           a == RangeStart(s)
           b == RangeEnd(s)
           t == TextRange(w, a, b)
           r == e.text
<1>1. w \in Text /\ Len(w) \in Nat /\ a \in 0..Len(w) /\ b \in 0..Len(w) /\ a <= b
  BY RangeOfSearch
<1>2. ~s.inSelection => a = 0 /\ b = Len(w)
  BY DEF RangeStart, RangeEnd
<1>3. a + n <= b /\ r = Replaced(w, a, a + n, put) /\ s.from = a + Len(put)
  BY DEF Halfway
<1> HIDE DEF w, a, b, r
<1>4. t \in Text /\ Len(t) = b - a /\ \A i \in 1..b - a : t[i] = w[a + i]
  BY <1>1, RangeIs
<1>5. PICK c \in 0..Len(w) : c = a + n /\ a <= c
  BY <1>1, <1>3
<1>6. /\ r \in Text /\ Len(r) = Len(w) - (c - a) + Len(put)
      /\ \A i \in 1..Len(w) - c : r[a + Len(put) + i] = w[c + i]
  <2> DEFINE x == Replaced(w, a, c, put)
  <2>1. /\ x \in Text /\ Len(x) = Len(w) - (c - a) + Len(put)
        /\ \A i \in 1..Len(w) - c : x[a + Len(put) + i] = w[c + i]
    BY <1>1, <1>5, SpliceIs
  <2>2. r = x
    BY <1>3, <1>5
  <2> HIDE DEF x
  <2>3. QED
    BY <2>1, <2>2
<1>7. Len(put) \in Nat /\ Len(r) \in Nat
  BY <1>6, TextIs
<1> HIDE DEF t
<1>8. ASSUME NEW i \in 1..Len(t) - n PROVE r[s.from + i] = t[n + i]
  <2>1. n + i \in 1..b - a /\ a + (n + i) = c + i /\ i \in 1..Len(w) - c
    BY <1>1, <1>3, <1>4, <1>5
  <2>2. QED
    BY <1>3, <1>4, <1>6, <2>1
<1>9. s.from \in 0..Len(r) /\ Len(r) - s.from = Len(w) - a - n /\ n <= Len(t)
  <2>1. Len(r) = Len(w) - n + Len(put) /\ s.from = a + Len(put)
    BY <1>1, <1>3, <1>5, <1>6, <1>7
  <2>2. QED
    BY <1>1, <1>3, <1>4, <1>7, <2>1
<1>10. ~s.inSelection => Len(r) - s.from = Len(t) - n
  BY <1>1, <1>2, <1>4, <1>9
<1>11. QED
  BY <1>4, <1>6, <1>7, <1>8, <1>9, <1>10 DEF t, r, w, a, b

\* There the string stands in the text where it stands in the range.
LEMMA HalfwayStands ==
    ASSUME NEW mode, NEW s \in SearchesIn(mode), IsPlainSearch(s.what), NEW e, NEW n \in Nat,
           NEW put \in Text, Halfway(e, s, n, put), NEW k \in Nat
    PROVE  LET t == TextRange(s.origin.text, RangeStart(s), RangeEnd(s))
           IN  n + k + Len(s.what.find) <= Len(t) =>
                /\ StandsAt(e.text, s.what.find, s.from + k + 1)
                   <=> StandsAt(t, s.what.find, n + k + 1)
                /\ s.from + k + Len(s.what.find) <= Len(e.text)
<1> DEFINE t == TextRange(s.origin.text, RangeStart(s), RangeEnd(s))
           find == s.what.find
           w == s.origin.text
<1>1. find \in Plain /\ find # <<>> /\ Len(find) \in Nat
  BY FindLength DEF IsPlainSearch
<1>2. /\ e.text \in Text /\ Len(e.text) \in Nat /\ s.from \in 0..Len(e.text)
      /\ Len(e.text) - s.from = Len(w) - RangeStart(s) - n
      /\ t \in Text /\ Len(t) = RangeEnd(s) - RangeStart(s) /\ n <= Len(t)
      /\ \A i \in 1..Len(t) - n : e.text[s.from + i] = t[n + i]
  <2>1. LET u == s.origin.text
            v == TextRange(u, RangeStart(s), RangeEnd(s))
        IN  /\ e.text \in Text /\ Len(e.text) \in Nat /\ s.from \in 0..Len(e.text)
            /\ Len(e.text) - s.from = Len(u) - RangeStart(s) - n
            /\ v \in Text /\ Len(v) = RangeEnd(s) - RangeStart(s) /\ n <= Len(v)
            /\ ~s.inSelection => Len(e.text) - s.from = Len(v) - n
            /\ \A i \in 1..Len(v) - n : e.text[s.from + i] = v[n + i]
    BY HalfwayAlike, ZenonT(60)
  <2>2. QED
    BY <2>1
<1>3. Len(w) \in Nat /\ RangeStart(s) \in 0..Len(w) /\ RangeEnd(s) \in 0..Len(w)
  BY RangeOfSearch
<1> HIDE DEF t, find, w
<1>4. ASSUME n + k + Len(find) <= Len(t)
      PROVE  /\ StandsAt(e.text, find, s.from + k + 1) <=> StandsAt(t, find, n + k + 1)
             /\ s.from + k + Len(find) <= Len(e.text)
  <2>1. PICK from \in Nat, len \in Nat, size \in Nat, length \in Nat :
          from = s.from /\ len = Len(find) /\ size = Len(e.text) /\ length = Len(t)
    <3>1. s.from \in Nat /\ Len(t) \in Nat
      BY <1>2, TextIs
    <3>2. QED
      BY <1>1, <1>2, <3>1
  <2>2. PICK p \in Nat, q \in Nat : p = from + k /\ q = n + k
    OBVIOUS
  <2>3. length - n <= size - from
    <3>1. PICK all \in Nat, first \in Nat, last \in Nat :
            all = Len(w) /\ first = RangeStart(s) /\ last = RangeEnd(s) /\ last <= all
      BY <1>3
    <3>2. size - from = all - first - n /\ length = last - first
      BY <1>2, <2>1, <3>1
    <3>3. QED
      BY <3>1, <3>2
  <2>4. q + len <= length /\ p + len <= size
    <3>1. q + len <= length
      BY <1>4, <2>1, <2>2
    <3>2. QED
      BY <2>2, <2>3, <3>1
  <2>5. ASSUME NEW i \in 1..Len(find) PROVE e.text[p + i] = t[q + i]
    <3>1. k + i \in 1..length - n /\ from + (k + i) = p + i /\ n + (k + i) = q + i
      <4>1. i \in Nat /\ 1 <= i /\ i <= len
        BY <2>1
      <4>2. QED
        BY <2>2, <2>4, <4>1
    <3>2. QED
      BY <1>2, <2>1, <3>1
  <2>6. p + Len(find) <= Len(e.text) /\ q + Len(find) <= Len(t)
    BY <2>1, <2>4
  <2>7. StandsAt(e.text, find, p + 1) <=> StandsAt(t, find, q + 1)
    BY <1>1, <1>2, <2>5, <2>6, StandsAlike
  <2>8. QED
    BY <2>1, <2>2, <2>6, <2>7
<1>5. QED
  BY <1>4 DEF t, find

\* At first nothing has been replaced.
LEMMA ReplacingBegins ==
    ASSUME EditInv, NEW what, NEW with, NEW inSelection \in BOOLEAN,
           ReplaceAll(what, with, inSelection), EditInv', IsPlainSearch(what)
    PROVE  Halfway(editor', search', 0, <<>>)
<1> DEFINE s == search'
           w == editor.text
           a == RangeStart(s)
           b == RangeEnd(s)
           t == TextRange(w, a, b)
<1>1. /\ editor' = editor /\ s.origin = editor /\ s.inSelection = inSelection /\ s.done = FALSE
      /\ s.from = IF inSelection THEN SelectionStart(editor) ELSE 0
      /\ s.active = TRUE
  BY DEF ReplaceAll
<1>2. s \in SearchesIn(eolMode')
  <2>1. search' \in {NoSearch} \union SearchesIn(eolMode')
    BY DEF EditInv
  <2>2. QED
    BY <1>1, <2>1 DEF NoSearch
<1>3. w \in Text /\ Len(w) \in Nat /\ a \in 0..Len(w) /\ b \in 0..Len(w) /\ a <= b
  <2>1. /\ s.origin.text \in Text /\ Len(s.origin.text) \in Nat
        /\ RangeStart(s) \in 0..Len(s.origin.text) /\ RangeEnd(s) \in 0..Len(s.origin.text)
        /\ RangeStart(s) <= RangeEnd(s)
    BY <1>2, RangeOfSearch
  <2>2. QED
    BY <1>1, <2>1
<1>4. s.from = a /\ (inSelection => a = SelectionStart(editor) /\ b = SelectionEnd(editor))
  BY <1>1 DEF RangeStart, RangeEnd
<1> HIDE DEF s, a, b
<1>5. \A x \in Text : <<>> \o x = x
  BY ConcatEmptySeq DEF Text
<1>6. w = Replaced(w, a, a, <<>>)
  <2> DEFINE x == TextRange(w, 0, a)
             y == TextRange(w, a, Len(w))
  <2>1. 0 \in 0..Len(w) /\ Len(w) \in 0..Len(w) /\ 0 <= a /\ a <= Len(w)
    BY <1>3
  <2>2. x \in Text /\ TextRange(w, 0, Len(w)) = x \o y
    BY <1>3, <2>1, RangeIs, Adjacent
  <2>3. Replaced(w, a, a, <<>>) = (x \o <<>>) \o y
    BY DEF Replaced
  <2>4. x \o <<>> = x
    BY <2>2, NothingIs
  <2>5. TextRange(w, 0, Len(w)) = w
    BY <1>3, WholeRange
  <2> HIDE DEF x, y
  <2>6. QED
    BY <2>2, <2>3, <2>4, <2>5
<1>7. ASSUME NEW f, Substitutes(f, t, what.find, with) PROVE f[1] = <<>> \o f[1]
  <2>1. t \in Text /\ Len(t) \in Nat
    BY <1>3, RangeIs, TextIs
  <2>2. 1 \in 1..Len(t) + 1
    BY <2>1
  <2>3. f[1] \in Text
    BY <1>7, <2>2 DEF Substitutes
  <2>4. QED
    BY <1>5, <2>3
<1>8. s.what = what /\ s.with = with
  BY DEF ReplaceAll, s
<1>9. Len(<<>>) = 0 /\ a + 0 = a /\ b - a - 0 = b - a /\ a + (b - a) = b /\ 0 + 1 = 1
  BY <1>3, NothingIs
<1>10. s.inSelection =>
        /\ SelectionStart(editor) <= s.from
        /\ SelectionEnd(editor) <= s.from + (b - a - 0)
        /\ a + 0 = b \/ SelectionEnd(editor) = s.from + (b - a - 0)
  BY <1>1, <1>3, <1>4, <1>9
<1>11. a + 0 <= b /\ s.from = a + Len(<<>>)
  BY <1>3, <1>4, <1>9
<1>12. w = Replaced(w, a, a + 0, <<>>)
  BY <1>6, <1>9
<1>13. \A f : Substitutes(f, t, s.what.find, s.with) => f[1] = <<>> \o f[0 + 1]
  BY <1>7, <1>8, <1>9
<1>14. s.origin.text = w /\ editor'.text = w
  BY <1>1
<1> HIDE DEF w
<1>15. QED
  BY <1>1, <1>10, <1>11, <1>12, <1>13, <1>14, ZenonT(30) DEF Halfway, s, a, b, t

\* A replacement takes it on behind the match.
LEMMA ReplacingGoesOn ==
    ASSUME EditInv, ReplaceNext, IsPlainSearch(search.what), NEW n \in Nat, NEW put \in Text,
           Halfway(editor, search, n, put)
    PROVE  \E m \in Nat, all \in Text : Halfway(editor', search', m, all)
<1> DEFINE s == search
           w == s.origin.text
           a == RangeStart(s)
           b == RangeEnd(s)
           t == TextRange(w, a, b)
           find == s.what.find
           with == s.with
<1>1. /\ s \in SearchesIn(eolMode) /\ editor \in Editors(eolMode) /\ eolMode \in EOLModes
  BY DEF EditInv, NoSearch, ReplaceNext
<1>2. with \in Text /\ s.inSelection \in BOOLEAN /\ Len(with) \in Nat
  <2>1. with \in Plain /\ s.inSelection \in BOOLEAN
    BY <1>1 DEF SearchesIn
  <2>2. QED
    BY <2>1, PlainGood, TextIs DEF Good
<1>3. find \in Plain /\ find # <<>> /\ Len(find) \in Nat \ {0} /\ s.what.regexp = FALSE
      /\ find[1] # Caret
  BY FindLength DEF IsPlainSearch
<1>4. w \in Text /\ Len(w) \in Nat /\ a \in 0..Len(w) /\ b \in 0..Len(w) /\ a <= b
      /\ a \in Nat /\ b \in Nat
  BY <1>1, RangeOfSearch
<1>5. /\ editor.text \in Text /\ Len(editor.text) \in Nat /\ s.from \in 0..Len(editor.text)
      /\ Len(editor.text) - s.from = Len(w) - a - n
      /\ t \in Text /\ Len(t) = b - a /\ n <= Len(t)
      /\ ~s.inSelection => Len(editor.text) - s.from = Len(t) - n
  BY <1>1, HalfwayAlike
<1>6. /\ a + n <= b /\ editor.text = Replaced(w, a, a + n, put) /\ s.from = a + Len(put)
      /\ \A f : Substitutes(f, t, find, with) => f[1] = put \o f[n + 1]
      /\ s.inSelection =>
            /\ SelectionStart(editor) <= s.from
            /\ SelectionEnd(editor) <= s.from + (b - a - n)
            /\ a + n = b \/ SelectionEnd(editor) = s.from + (b - a - n)
  BY DEF Halfway
<1>7. PICK match \in Matches :
        LET done == ReplaceTarget(editor, match.start, match.end, with)
            after == match.start + Len(with)
            next == NextStart(done.text, match, s.what, Len(with))
        IN  /\ editor' = done
            /\ search' = [s EXCEPT
                   !.from = next, !.count = @ + 1, !.targetEnd = after,
                   !.done = \/ after = Len(done.text)
                            \/ RegexStartOfLine(s.what) /\ next = Len(done.text)]
  BY DEF ReplaceNext
<1> DEFINE p == match.start
           q == match.end
           new == ReplaceTarget(editor, p, q, with)
<1>8. /\ match \in FindText(editor.text, s.what, s.from)
      /\ s.inSelection => p >= SelectionStart(editor) /\ q <= SelectionEnd(editor)
  BY DEF Matches
<1>9. /\ p \in s.from..Len(editor.text) /\ q = p + Len(find) /\ q <= Len(editor.text)
      /\ StandsAt(editor.text, find, p + 1)
  BY <1>1, <1>5, <1>8, FindsFirst
<1>10. /\ search'.what = s.what /\ search'.with = with /\ search'.inSelection = s.inSelection
       /\ search'.origin = s.origin /\ search'.from = NextStart(new.text, match, s.what, Len(with))
       /\ search'.done = \/ p + Len(with) = Len(new.text)
                         \/ /\ RegexStartOfLine(s.what)
                            /\ NextStart(new.text, match, s.what, Len(with)) = Len(new.text)
       /\ editor' = new
  BY <1>1, <1>7 DEF SearchesIn
<1>11. ~RegexStartOfLine(s.what)
  BY <1>3 DEF RegexStartOfLine
<1> HIDE DEF s, w, a, b, t, find, with, p, q, new
<1>12. /\ search'.from = p + Len(with)
       /\ search'.done = (p + Len(with) = Len(new.text))
  <2>1. p # q
    BY <1>3, <1>5, <1>9
  <2>2. NextStart(new.text, match, s.what, Len(with)) = p + Len(with)
    BY <1>11, <2>1 DEF NextStart, p, q
  <2>3. QED
    BY <1>10, <1>11, <2>2
<1>13. PICK k \in Nat : p = s.from + k
  <2>1. p - s.from \in Nat /\ p = s.from + (p - s.from)
    BY <1>5, <1>9
  <2>2. QED
    BY <2>1
\* The numbers that the rest counts with.
<1>14. PICK from \in Nat, size \in Nat : from = s.from /\ size = Len(editor.text)
  <2>1. s.from \in Nat /\ Len(editor.text) \in Nat
    BY <1>5
  <2>2. QED
    BY <2>1
<1>15. PICK len \in Nat \ {0}, length \in Nat, width \in Nat :
         len = Len(find) /\ length = Len(t) /\ width = Len(with)
  <2>1. Len(find) \in Nat \ {0}
    BY <1>3
  <2>2. Len(t) \in Nat
    BY <1>5, TextIs
  <2>3. QED
    BY <1>2, <2>1, <2>2
<1>16. from <= size /\ n <= length /\ length = b - a
  BY <1>5, <1>14, <1>15
<1>17. p = from + k /\ q = from + k + len /\ q <= size
  BY <1>9, <1>13, <1>14, <1>15
<1>18. /\ from <= size /\ n <= length /\ length = b - a
       /\ p = from + k /\ q = from + k + len /\ q <= size /\ p <= size
       /\ p \in Nat /\ q \in Nat
  BY <1>16, <1>17
<1>19. n + k + Len(find) <= Len(t)
  <2>1. CASE ~s.inSelection
    <3>1. size - from = length - n
      BY <1>5, <1>14, <1>15, <2>1
    <3>2. n + k + len <= length
      BY <1>18, <3>1
    <3>3. QED
      BY <1>14, <1>15, <3>2
  <2>2. CASE s.inSelection
    <3>1. q <= SelectionEnd(editor) /\ SelectionEnd(editor) <= from + (b - a - n)
      BY <1>6, <1>8, <1>14, <2>2
    <3>2. PICK end \in Nat : end = SelectionEnd(editor)
      BY <1>1, SelectionIs
    <3>3. q <= end /\ end <= from + (length - n)
      BY <1>18, <3>1, <3>2
    <3>4. n + k + len <= length
      BY <1>18, <3>3
    <3>5. QED
      BY <1>14, <1>15, <3>4
  <2>3. QED
    BY <1>2, <2>1, <2>2
<1>20. n + k + len <= length
  BY <1>19, <1>14, <1>15
<1>21. StandsAt(t, find, n + k + 1)
  <2>1. StandsAt(editor.text, find, s.from + k + 1) <=> StandsAt(t, find, n + k + 1)
    BY <1>1, <1>19, HalfwayStands DEF s, t, w, a, b, find
  <2>2. QED
    BY <1>9, <1>13, <2>1
<1>22. \A i \in n + 1..n + k : ~StandsAt(t, find, i)
  <2>1. ASSUME NEW i \in n + 1..n + k, StandsAt(t, find, i) PROVE FALSE
    <3>1. PICK j \in Nat : i = n + j + 1 /\ j < k
      <4>1. i - n - 1 \in Nat /\ i = n + (i - n - 1) + 1 /\ i - n - 1 < k
        OBVIOUS
      <4>2. QED
        BY <4>1
    <3>2. n + j + Len(find) <= Len(t)
      <4>1. n + j + len <= length
        BY <1>20, <3>1
      <4>2. QED
        BY <1>14, <1>15, <4>1
    <3>3. StandsAt(editor.text, find, s.from + j + 1)
      BY <1>1, <2>1, <3>1, <3>2, HalfwayStands DEF s, t, w, a, b, find
    <3>4. PICK l \in s.from..Len(editor.text) : l = s.from + j /\ l < p
      <4>1. from + j \in from..size /\ from + j < p
        BY <1>18, <3>1
      <4>2. QED
        BY <1>14, <1>15, <4>1
    <3>5. PICK m \in FindText(editor.text, s.what, s.from) : m.start <= l
      <4>1. StandsAt(editor.text, find, l + 1)
        BY <3>3, <3>4
      <4>2. s.from \in Nat
        BY <1>5
      <4>3. QED
        BY <1>1, <1>5, <3>4, <4>1, <4>2, FindsFirst DEF find, s
    <3>6. m = match
      BY <1>8, <3>5 DEF FindText
    <3>7. QED
      BY <1>5, <1>9, <3>4, <3>5, <3>6 DEF p
  <2>2. QED
    BY <2>1
<1> DEFINE v == n + k
           m == v + Len(find)
           x == TextRange(w, a + n, a + n + k)
           all == put \o (x \o with)
<1>23. v \in 0..Len(t) /\ n \in 0..Len(t) /\ n <= v /\ m \in 0..Len(t) /\ m \in Nat
  BY <1>3, <1>5, <1>19
<1>24. x \in Text /\ Len(x) = k /\ TextRange(t, n, v) = x
  <2>1. n <= v /\ a + v <= b /\ v \in Nat /\ a + v = a + n + k /\ v - n = k
    BY <1>4, <1>5, <1>23
  <2>2. TextRange(t, n, v) = TextRange(w, a + n, a + v)
    BY <1>4, <2>1, RangeOfRange DEF t
  <2>3. TextRange(t, n, v) \in Text /\ Len(TextRange(t, n, v)) = v - n
    BY <1>5, <1>23, RangeIs
  <2>4. TextRange(t, n, v) = x
    BY <2>1, <2>2
  <2> HIDE DEF x, v
  <2>5. QED
    BY <2>1, <2>3, <2>4
<1> HIDE DEF x
<1>25. x \o with \in Text /\ Len(x \o with) = k + Len(with)
  BY <1>2, <1>24, ConcatIs
<1>26. all \in Text /\ Len(all) = Len(put) + (k + Len(with)) /\ Len(put) \in Nat
  BY <1>25, ConcatIs, TextIs
<1>27. a + m <= b
  BY <1>4, <1>5, <1>23
<1>28. new.text = Replaced(w, a, a + m, all)
  <2>1. PICK c \in 0..Len(w) : c = a + n /\ a <= c
    BY <1>4, <1>6
  <2>2. PICK d \in Nat, end \in Nat : d = c + k /\ end = a + m
    <3>1. c + k \in Nat /\ a + m \in Nat
      BY <1>4, <1>23
    <3>2. QED
      BY <3>1
  <2>3. c <= d /\ d <= end /\ end <= Len(w) /\ q = p + (end - d) /\ p \in Nat /\ q \in Nat
    <3>1. c <= d
      BY <1>4, <2>2
    <3>2. end = d + len
      BY <1>4, <1>15, <2>1, <2>2 DEF m, v
    <3>3. end <= Len(w)
      BY <1>4, <1>27, <2>2
    <3>4. QED
      BY <1>18, <3>1, <3>2, <3>3
  <2>4. p = a + Len(put) + (d - c)
    <3>1. s.from = a + Len(put) /\ d - c = k
      BY <1>4, <1>6, <2>1, <2>2
    <3>2. QED
      BY <1>13, <3>1
  <2>5. Replaced(editor.text, p, q, with) = Replaced(w, a, a + m, all)
    <3>1. editor.text = Replaced(w, a, c, put) /\ TextRange(w, c, d) = x
      BY <1>6, <2>1, <2>2 DEF x
    <3>2. w \in Text /\ a \in Nat /\ c \in Nat /\ a <= c /\ c <= Len(w)
      BY <1>4, <2>1
    <3> HIDE DEF m, x
    <3>3. Replaced(Replaced(w, a, c, put), p, q, with)
          = Replaced(w, a, end, put \o (TextRange(w, c, d) \o with))
      <4>1. Carried(w, a, c, put, d, p) /\ Carried(w, a, c, put, end, q)
        BY <2>3, <2>4, <3>2, <1>26 DEF Carried
      <4>2. QED
        BY <1>2, <2>3, <3>2, <4>1, SpliceAgain
    <3>4. QED
      BY <2>2, <3>1, <3>3
  <2>6. new.text = Replaced(Replaced(editor.text, p, q, <<>>), p, p, with)
    BY DEF new, ReplaceTarget, InsertAt, DeleteRange, SetSel
  <2>7. p \in 0..Len(editor.text) /\ q \in 0..Len(editor.text) /\ p <= q
    BY <1>3, <1>5, <1>9
  <2>8. Replaced(Replaced(editor.text, p, q, <<>>), p, p, with) = Replaced(editor.text, p, q, with)
    BY <1>2, <1>5, <2>7, SpliceTwice
  <2>9. QED
    BY <2>5, <2>6, <2>8
<1>29. ASSUME NEW f, Substitutes(f, t, find, with) PROVE f[1] = all \o f[m + 1]
  <2>1. f[1] = put \o f[n + 1]
    BY <1>6, <1>29
  <2>2. f[n + 1] = x \o f[v + 1]
    <3>1. \A i \in n + 1..v : ~StandsAt(t, find, i)
      BY <1>22
    <3>2. with \in Plain
      BY <1>1 DEF SearchesIn, with
    <3>3. v \in Nat
      OBVIOUS
    <3> HIDE DEF v
    <3>4. Absent(t, find, n, v)
      BY <1>23, <3>1 DEF Absent
    <3>5. f[n + 1] = TextRange(t, n, v) \o f[v + 1]
      BY <1>3, <1>5, <1>29, <3>2, <3>4, <3>3, StaysUntil
    <3>6. QED
      BY <1>24, <3>5
  <2>3. f[v + 1] = with \o f[m + 1] /\ f[m + 1] \in Text
    <3>1. v + 1 \in 1..Len(t) /\ m + 1 \in 1..Len(t) + 1 /\ v + 1 + Len(find) = m + 1
      BY <1>3, <1>5, <1>19, <1>23
    <3>2. StandsAt(t, find, v + 1)
      BY <1>21
    <3> HIDE DEF v, m
    <3>3. QED
      BY <1>29, <3>1, <3>2 DEF Substitutes
  <2> DEFINE y == f[m + 1]
  <2>4. y \in Text /\ f[1] = put \o (x \o (with \o y))
    BY <2>1, <2>2, <2>3
  <2> HIDE DEF y
  <2>5. with \o y \in Text
    BY <1>2, <2>4, ConcatIs
  <2>6. x \o (with \o y) = (x \o with) \o y
    BY <1>2, <1>24, <2>4, ConcatsAssociate
  <2>7. put \o ((x \o with) \o y) = (put \o (x \o with)) \o y
    BY <1>25, <2>4, ConcatsAssociate
  <2>8. QED
    BY <2>4, <2>6, <2>7 DEF y
<1> HIDE DEF v, m, all
<1>30. search'.from = a + Len(all)
  BY <1>2, <1>4, <1>6, <1>12, <1>13, <1>26
<1>31. ASSUME search'.done PROVE a + m = b
  <2>1. PICK c \in 0..Len(w) : c = a + m /\ a <= c
    BY <1>4, <1>23, <1>27
  <2> DEFINE r == Replaced(w, a, c, all)
  <2>2. Len(r) = Len(w) - (c - a) + Len(all)
    BY <1>4, <1>26, <2>1, SpliceIs
  <2>3. Len(new.text) = a + Len(all) /\ new.text = r
    BY <1>12, <1>28, <1>30, <1>31, <2>1
  <2> HIDE DEF r
  <2>4. Len(all) \in Nat
    BY <1>26, TextIs
  <2>5. QED
    BY <1>4, <1>23, <1>27, <2>1, <2>2, <2>3, <2>4
<1>32. ASSUME s.inSelection
       PROVE  /\ SelectionStart(new) <= a + Len(all)
              /\ SelectionEnd(new) <= a + Len(all) + (b - a - m)
              /\ a + m = b \/ SelectionEnd(new) = a + Len(all) + (b - a - m)
  <2>1. /\ SelectionStart(editor) <= p /\ q <= SelectionEnd(editor)
        /\ SelectionStart(editor) \in Nat /\ SelectionEnd(editor) \in Nat
    <3>1. SelectionStart(editor) \in Nat /\ SelectionEnd(editor) \in Nat
      BY <1>1, SelectionIs
    <3>2. QED
      BY <1>5, <1>8, <1>9, <1>32, <3>1
  <2>2. p \in Nat /\ q \in Nat /\ p < q
    BY <1>3, <1>5, <1>9
  <2>3. /\ SelectionStart(new) <= p + Len(with)
        /\ q < SelectionEnd(editor) => SelectionEnd(new) = SelectionEnd(editor) - (q - p) + Len(with)
        /\ q = SelectionEnd(editor) => SelectionEnd(new) = p
    BY <1>1, <1>2, <2>1, <2>2, TargetSelection DEF new
  <2>4. SelectionEnd(editor) <= s.from + (b - a - n)
        /\ (a + n = b \/ SelectionEnd(editor) = s.from + (b - a - n))
    BY <1>6, <1>32
  <2>5. PICK begin \in Nat, end \in Nat, more \in Nat :
          /\ begin = SelectionStart(editor) /\ end = SelectionEnd(editor) /\ more = a + Len(all)
    BY <1>4, <1>26, <2>1, TextIs
  <2>6. more = p + width /\ m = n + k + len /\ q - p = len
    <3>1. Len(all) = Len(put) + (k + width) /\ Len(put) \in Nat /\ from = a + Len(put)
      BY <1>6, <1>26, <1>14, <1>15
    <3>2. more = p + width
      BY <1>4, <1>18, <2>5, <3>1
    <3>3. m = n + k + len
      BY <1>14, <1>15 DEF m, v
    <3>4. QED
      BY <1>18, <3>2, <3>3
  <2>7. a + n # b /\ m \in Nat /\ m <= length
    BY <1>4, <1>18, <1>20, <2>6
  <2>8. end = from + (length - n)
    BY <1>14, <1>18, <2>4, <2>5, <2>7
  <2>9. CASE q < SelectionEnd(editor)
    <3>1. SelectionEnd(new) = end - (q - p) + width /\ SelectionStart(new) <= more
      BY <1>14, <1>15, <2>3, <2>5, <2>6, <2>9
    <3>2. SelectionEnd(new) = more + (length - m)
      BY <1>18, <2>6, <2>7, <2>8, <3>1
    <3>3. SelectionEnd(new) <= more + (length - m)
      BY <2>7, <3>2
    <3>4. QED
      BY <1>18, <2>5, <3>1, <3>2, <3>3
  <2>10. CASE q = SelectionEnd(editor)
    <3>1. m = length
      BY <1>18, <2>5, <2>6, <2>8, <2>10
    <3>2. SelectionEnd(new) = p /\ SelectionStart(new) <= more
      BY <1>14, <1>15, <2>3, <2>6, <2>10
    <3>3. p <= more + (length - m) /\ a + m = b
      BY <1>4, <1>18, <2>6, <2>7, <3>1
    <3>4. QED
      BY <1>18, <2>5, <3>2, <3>3
  <2>11. QED
    BY <2>1, <2>2, <2>9, <2>10
<1>33. /\ search'.origin.text = w /\ RangeStart(search') = a /\ RangeEnd(search') = b
       /\ search'.what.find = find /\ search'.with = with /\ editor'.text = new.text
  BY <1>10 DEF w, a, b, find, RangeStart, RangeEnd
<1>34. TextRange(search'.origin.text, RangeStart(search'), RangeEnd(search')) = t
  BY <1>33 DEF t
<1>35. Halfway(editor', search', m, all)
  <2>1. \A f : Substitutes(f, t, search'.what.find, search'.with) => f[1] = all \o f[m + 1]
    BY <1>29, <1>33
  <2>2. editor'.text = Replaced(w, a, a + m, all)
    BY <1>28, <1>33
  <2>3. search'.inSelection =>
          /\ SelectionStart(editor') <= search'.from
          /\ SelectionEnd(editor') <= search'.from + (b - a - m)
          /\ a + m = b \/ SelectionEnd(editor') = search'.from + (b - a - m)
    BY <1>10, <1>30, <1>32
  <2>4. QED
    BY <1>27, <1>30, <1>31, <1>33, <1>34, <2>1, <2>2, <2>3, ZenonT(30) DEF Halfway
<1>36. QED
  BY <1>23, <1>26, <1>35

\* What follows the part replaced may be replaced with itself.
LEMMA SpliceRest ==
    ASSUME NEW w \in Text, NEW a \in 0..Len(w), NEW c \in 0..Len(w), NEW b \in 0..Len(w),
           a <= c, c <= b, NEW s \in Text
    PROVE  Replaced(w, a, c, s) = Replaced(w, a, b, s \o TextRange(w, c, b))
<1> DEFINE x == TextRange(w, 0, a)
           y == TextRange(w, c, b)
           z == TextRange(w, b, Len(w))
<1>1. Len(w) \in 0..Len(w) /\ 0 \in 0..Len(w) /\ 0 <= a /\ b <= Len(w)
  BY TextIs
<1>2. TextRange(w, c, Len(w)) = y \o z
  BY <1>1, Adjacent
<1>3. x \in Text
  BY <1>1, RangeIs
<1>4. y \in Text
  BY RangeIs
<1>5. z \in Text
  BY <1>1, RangeIs
<1>6. Replaced(w, a, c, s) = (x \o s) \o (y \o z)
  BY <1>2 DEF Replaced
<1>7. Replaced(w, a, b, s \o y) = (x \o (s \o y)) \o z
  BY DEF Replaced
<1> HIDE DEF x, y, z
<1>8. x \o s \in Text
  BY <1>3, ConcatIs
<1>9. (x \o s) \o (y \o z) = ((x \o s) \o y) \o z
  BY <1>4, <1>5, <1>8, ConcatsAssociate
<1>10. (x \o s) \o y = x \o (s \o y)
  BY <1>3, <1>4, ConcatsAssociate
<1>11. QED
  BY <1>6, <1>7, <1>9, <1>10 DEF y

\* Where Replace All ends, every place has been replaced.
LEMMA AllReplacedAtTheEnd ==
    ASSUME EditInv, EndReplaceAll, IsPlainSearch(search.what), NEW n \in Nat, NEW put \in Text,
           Halfway(editor, search, n, put)
    PROVE  LET w == search.origin.text
               a == RangeStart(search)
               b == RangeEnd(search)
           IN  editor.text = Replaced(w, a, b,
                   Substituted(TextRange(w, a, b), search.what.find, search.with))
<1> DEFINE s == search
           w == s.origin.text
           a == RangeStart(s)
           b == RangeEnd(s)
           t == TextRange(w, a, b)
           find == s.what.find
           with == s.with
<1>1. /\ s \in SearchesIn(eolMode) /\ editor \in Editors(eolMode) /\ eolMode \in EOLModes
  BY DEF EditInv, NoSearch, EndReplaceAll
<1>2. with \in Plain /\ s.inSelection \in BOOLEAN /\ s.done \in BOOLEAN
  BY <1>1 DEF SearchesIn
<1>3. find \in Plain /\ find # <<>> /\ Len(find) \in Nat \ {0}
  BY FindLength DEF IsPlainSearch
<1>4. w \in Text /\ Len(w) \in Nat /\ a \in 0..Len(w) /\ b \in 0..Len(w) /\ a <= b
      /\ a \in Nat /\ b \in Nat
  BY <1>1, RangeOfSearch
<1>5. /\ editor.text \in Text /\ Len(editor.text) \in Nat /\ s.from \in 0..Len(editor.text)
      /\ t \in Text /\ Len(t) = b - a /\ n <= Len(t)
  BY <1>1, HalfwayAlike
<1>6. /\ a + n <= b /\ editor.text = Replaced(w, a, a + n, put)
      /\ \A f : Substitutes(f, t, find, with) => f[1] = put \o f[n + 1]
      /\ s.done => a + n = b
      /\ s.inSelection =>
            /\ SelectionStart(editor) <= s.from
            /\ a + n = b \/ SelectionEnd(editor) = s.from + (b - a - n)
  BY DEF Halfway
<1>7. Matches = {}
  BY DEF EndReplaceAll
<1>8. PICK length \in Nat, from \in Nat, size \in Nat :
        length = Len(t) /\ from = s.from /\ size = Len(editor.text)
  <2>1. Len(t) \in Nat /\ s.from \in Nat /\ Len(editor.text) \in Nat
    BY <1>5, TextIs
  <2>2. QED
    BY <2>1
<1>9. length = b - a /\ n <= length
  BY <1>5, <1>8
<1> HIDE DEF s, w, a, b, t, find, with
<1>10. ASSUME NEW i \in n + 1..Len(t), StandsAt(t, find, i) PROVE FALSE
  <2>1. PICK len \in Nat \ {0} : len = Len(find)
    BY <1>3
  <2>2. PICK k \in Nat : i = n + k + 1
    <3>1. i - n - 1 \in Nat /\ i = n + (i - n - 1) + 1
      BY <1>8
    <3>2. QED
      BY <3>1
  <2>3. n + k + len <= length
    <3>1. i + len - 1 <= length
      BY <1>8, <1>10, <2>1 DEF StandsAt
    <3>2. QED
      BY <2>2, <3>1
  <2>4. n + k + Len(find) <= Len(t)
    BY <1>8, <2>1, <2>3
  <2>5. /\ StandsAt(editor.text, find, s.from + k + 1)
        /\ s.from + k + Len(find) <= Len(editor.text)
    BY <1>1, <1>10, <2>2, <2>4, HalfwayStands DEF s, t, w, a, b, find
  <2>6. PICK p \in s.from..Len(editor.text) : p = from + k /\ p \in Nat
    <3>1. from + k + len <= size
      BY <1>8, <2>1, <2>5
    <3>2. from + k \in from..size /\ from + k \in Nat
      BY <3>1
    <3>3. QED
      BY <1>8, <3>2
  <2>7. PICK m \in FindText(editor.text, s.what, s.from) : m.start <= p
    <3>1. StandsAt(editor.text, find, p + 1) /\ s.from \in Nat
      BY <1>8, <2>5, <2>6
    <3>2. QED
      BY <1>5, <3>1, FindsFirst DEF find, s
  <2>8. m.start \in s.from..Len(editor.text) /\ m.end = m.start + Len(find)
    <3>1. s.from \in Nat
      BY <1>8
    <3>2. QED
      BY <1>5, <3>1, FindsFirst DEF find, s
  <2>9. PICK start \in Nat : start = m.start /\ from <= start /\ m.end = start + len /\ start <= p
    <3>1. m.start \in Nat /\ from <= m.start
      BY <1>8, <2>8
    <3>2. QED
      BY <2>1, <2>7, <2>8, <3>1
  <2>10. a + n # b
    BY <1>4, <1>9, <2>3
  <2>11. ~s.done
    BY <1>6, <2>10
  <2>12. s.inSelection /\ ~(m.start >= SelectionStart(editor) /\ m.end <= SelectionEnd(editor))
    BY <1>7, <2>11 DEF Matches, s
  <2>13. PICK first \in Nat, last \in Nat :
           first = SelectionStart(editor) /\ last = SelectionEnd(editor)
    <3>1. SelectionStart(editor) \in Nat /\ SelectionEnd(editor) \in Nat
      BY <1>1, SelectionIs
    <3>2. QED
      BY <3>1
  <2>14. first <= from /\ last = from + (length - n)
    BY <1>6, <1>8, <1>9, <2>10, <2>12, <2>13
  <2>15. start >= first /\ start + len <= last
    <3>1. from <= start /\ start <= from + k /\ k + len <= length - n
      BY <2>3, <2>6, <2>9
    <3>2. QED
      BY <2>14, <3>1
  <2>16. QED
    BY <2>9, <2>12, <2>13, <2>15
<1>11. PICK f : Substitutes(f, t, find, with) /\ Substituted(t, find, with) = f[1]
  BY <1>2, <1>3, <1>5, SubstitutedIs
<1>12. f[1] = put \o f[n + 1]
  BY <1>6, <1>11
<1>13. f[n + 1] = TextRange(t, n, Len(t))
  <2>1. n \in 0..Len(t) /\ Len(t) \in 0..Len(t) /\ \A i \in n + 1..Len(t) : ~StandsAt(t, find, i)
    BY <1>8, <1>9, <1>10
  <2>2. f[n + 1] = TextRange(t, n, Len(t)) \o f[Len(t) + 1]
    <3>1. Absent(t, find, n, length)
      BY <1>8, <1>9, <2>1 DEF Absent
    <3>2. t \in Text /\ find \in Plain /\ with \in Plain /\ Substitutes(f, t, find, with)
      BY <1>2, <1>3, <1>5, <1>11
    <3>3. f[n + 1] = TextRange(t, n, length) \o f[length + 1]
      BY <3>1, <3>2, StaysUntil
    <3>4. QED
      BY <1>8, <3>3
  <2>3. f[Len(t) + 1] = <<>>
    BY <1>11 DEF Substitutes
  <2>4. TextRange(t, n, Len(t)) \in Text
    BY <1>5, <2>1, RangeIs
  <2>5. QED
    BY <2>2, <2>3, <2>4, NothingIs
<1>14. PICK c \in 0..Len(w) : c = a + n /\ a <= c /\ c <= b
  BY <1>4, <1>6
<1>15. TextRange(t, n, Len(t)) = TextRange(w, c, b)
  <2>1. a + length = b /\ a + length <= b
    BY <1>4, <1>9
  <2>2. TextRange(t, n, length) = TextRange(w, a + n, a + length)
    BY <1>4, <1>9, <2>1, RangeOfRange DEF t
  <2>3. QED
    BY <1>8, <1>14, <2>1, <2>2
<1>16. Replaced(w, a, c, put) = Replaced(w, a, b, put \o TextRange(w, c, b))
  BY <1>4, <1>14, SpliceRest
<1>17. editor.text = Replaced(w, a, b, Substituted(t, find, with))
  BY <1>6, <1>11, <1>12, <1>13, <1>14, <1>15, <1>16
<1>18. QED
  BY <1>17 DEF s, w, a, b, t, find, with

\* It holds as long as Replace All goes on.
LEMMA ReplacingKeeps ==
    ASSUME EditInv, EditInv', ReplacingInv, [Next]_vars
    PROVE  ReplacingInv'
<1>1. CASE ~search'.active
  BY <1>1 DEF ReplacingInv
<1>2. ASSUME NEW e, Ran(e) PROVE ReplacingInv'
  <2>1. search' = search /\ ~search.active
    BY <1>2 DEF Ran
  <2>2. QED
    BY <1>1, <2>1
<1>3. CASE UNCHANGED vars
  <2>1. editor' = editor /\ search' = search
    BY <1>3 DEF vars
  <2>2. QED
    BY <2>1 DEF ReplacingInv
<1>4. ASSUME NEW what, NEW with, NEW inSelection \in BOOLEAN, ReplaceAll(what, with, inSelection)
      PROVE  ReplacingInv'
  <2>1. search'.what = what
    BY <1>4 DEF ReplaceAll
  <2>2. CASE IsPlainSearch(what)
    <3>1. Halfway(editor', search', 0, <<>>)
      BY <1>4, <2>2, ReplacingBegins
    <3>2. 0 \in Nat /\ <<>> \in Text
      BY NothingIs
    <3>3. QED
      BY <3>1, <3>2 DEF ReplacingInv
  <2>3. QED
    BY <2>1, <2>2 DEF ReplacingInv
<1>5. CASE ReplaceNext
  <2>1. search.active /\ search'.what = search.what
    <3>1. search \in SearchesIn(eolMode) /\ search.active
      BY <1>5 DEF EditInv, NoSearch, ReplaceNext
    <3>2. QED
      BY <1>5, <3>1 DEF ReplaceNext, SearchesIn
  <2>2. CASE IsPlainSearch(search.what)
    <3>1. PICK n \in Nat, put \in Text : Halfway(editor, search, n, put)
      BY <2>1, <2>2 DEF ReplacingInv
    <3>2. \E m \in Nat, all \in Text : Halfway(editor', search', m, all)
      BY <1>5, <2>2, <3>1, ReplacingGoesOn
    <3>3. QED
      BY <3>2 DEF ReplacingInv
  <2>3. QED
    BY <2>1, <2>2 DEF ReplacingInv
<1>6. CASE Select
  BY <1>1, <1>6 DEF Select
<1>7. CASE TrimSelection
  BY <1>4, <1>7 DEF TrimSelection
<1>8. CASE EndReplaceAll \/ OpenFile
  BY <1>1, <1>8 DEF EndReplaceAll, OpenFile, NoSearch
<1>9. CASE \/ MoveLineUp \/ MoveLineDown \/ ConvertTabs \/ ConvertSpaces \/ Compress
           \/ Modify \/ Enclose \/ Pad \/ StripFirst \/ StripLast \/ Trim \/ Join \/ JoinEx
  BY <1>2, <1>9 DEF MoveLineUp, MoveLineDown, ConvertTabs, ConvertSpaces, Compress, Modify,
                    Enclose, Pad, StripFirst, StripLast, Trim, Join, JoinEx
<1>10. ASSUME \/ \E atStart \in BOOLEAN : ToggleComments(atStart)
              \/ \E merge \in BOOLEAN : RemoveBlank(merge)
              \/ \E column \in Columns : Wrap(column)
              \/ \E strip, cps \in BOOLEAN : Filter(strip, cps)
       PROVE  ReplacingInv'
  BY <1>2, <1>10 DEF ToggleComments, RemoveBlank, Wrap, Filter
<1>11. QED
  BY <1>3, <1>4, <1>5, <1>6, <1>7, <1>8, <1>9, <1>10 DEF Next

\* Replace All of a string replaces every occurrence in the text, or in the selection,
\* once, and nothing outside of it (EditReplaceAll, EditReplaceAllInSelection).
THEOREM ReplacingReplacesAll == Spec => ReplacesEveryOne
<1>1. Init => ReplacingInv
  BY DEF Init, NoSearch, ReplacingInv
<1>2. EditInv /\ EditInv' /\ ReplacingInv /\ [Next]_vars => ReplacingInv'
  BY ReplacingKeeps
<1>3. EditInv /\ ReplacingInv =>
        (EndReplaceAll /\ ~search.what.regexp /\ search.what.find[1] # Caret
         => LET was == search.origin
                from == IF search.inSelection THEN SelectionStart(was) ELSE 0
                to == IF search.inSelection THEN SelectionEnd(was) ELSE Len(was.text)
            IN  editor.text = Replaced(was.text, from, to,
                    Substituted(TextRange(was.text, from, to), search.what.find, search.with)))
  <2> SUFFICES ASSUME EditInv, ReplacingInv, EndReplaceAll, ~search.what.regexp,
                      search.what.find[1] # Caret
               PROVE  LET w == search.origin.text
                          a == RangeStart(search)
                          b == RangeEnd(search)
                      IN  editor.text = Replaced(w, a, b,
                              Substituted(TextRange(w, a, b), search.what.find, search.with))
    BY DEF RangeStart, RangeEnd
  <2>1. search \in SearchesIn(eolMode) /\ search.active
    BY DEF EditInv, NoSearch, EndReplaceAll
  <2>2. IsSearch(search.what)
    BY <2>1 DEF SearchesIn
  <2>3. IsPlainSearch(search.what)
    BY <2>2 DEF IsSearch, IsPlainSearch
  <2>4. PICK n \in Nat, put \in Text : Halfway(editor, search, n, put)
    BY <2>1, <2>3 DEF ReplacingInv
  <2>5. QED
    BY <2>3, <2>4, AllReplacedAtTheEnd
<1>4. QED
  BY <1>1, <1>2, <1>3, EditInvariant, PTL DEF Spec, ReplacesEveryOne
=============================================================================
