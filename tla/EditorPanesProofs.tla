--------------------------- MODULE EditorPanesProofs ---------------------------
(***************************************************************************)
(* Proofs about EditorPanes for every set of tabs and files and all bounds:*)
(* a pane shows a buffer that is there, a mark never points to another     *)
(* pane's window, and who can hear of the end of a window goes on to.      *)
(***************************************************************************)
EXTENDS EditorPanes, SequenceTheorems, FiniteSetTheorems, TLAPS

Names == Files \cup Nat
Panes == [pane : Nat, buffer : Names, window : Nat, depth : Int]
Layouts == Seq(Panes)

\* the buffers a layout shows, and its detached panes with their windows
Shown(leaves) == {l.buffer : l \in ToSet(leaves)}
Marks(leaves) ==
    {<<l.pane, l.window>> : l \in {m \in ToSet(leaves) : m.window # 0}}

-----------------------------------------------------------------------------
(* The inductive invariant *)

Space(F) == [leaves : Layouts, focus : F, open : Seq(Names)]
Notices == [tab : Tabs, pane : Nat, window : Nat]

Once(seq) == \A i, j \in DOMAIN seq : seq[i] = seq[j] => i = j

\* A pane of a tab is being detached into a window that was made for it.
Making(task) == task.do = "detach" /\ task.window # 0

\* The marks a handler holds: those of the row it has read, or the one it is
\* about to make.
MarksOf(task) ==
    IF task.do = "load" THEN Marks(task.row.leaves)
    ELSE IF Making(task) THEN {<<task.pane, task.window>>} ELSE {}

\* the marks of a tab, wherever they are
Known(t) ==
    Marks(workspace[t].leaves) \cup Marks(stored[t].leaves)
        \cup UNION {MarksOf(task) : task \in {k \in tasks : k.tab = t}}

\* The window is the one of pane p of tab t, as long as it is there.
Fits(w, t, p) ==
    w \in DOMAIN windows => windows[w] = [tab |-> t, pane |-> p]

\* Every tab has a layout and a strip, shown and stored; which pane a focus
\* names does not matter here.
SpaceInv ==
    \E F : workspace \in [Tabs -> Space(F)] /\ stored \in [Tabs -> Space(F)]

WindowInv ==
    /\ panes \in Nat /\ blanks \in Nat /\ made \in Nat
    /\ DOMAIN windows \subseteq 1..made
    /\ \A w \in DOMAIN windows : windows[w] \in [tab : Tabs, pane : Nat]
    /\ notices \in Seq(Notices)

Typed(task) ==
    /\ task.tab \in Tabs
    /\ task.do = "load" => task.row.leaves \in Layouts
    /\ task.do = "open" => task.file \in Files
    /\ task.do = "detach" =>
           task \in [do : {"detach"}, tab : Tabs, pane : Nat, window : Nat]
    /\ task.do = "close" =>
           task \in [do : {"close"}, tab : Tabs, buffer : Names,
                     left : SUBSET (Nat \X Nat)]

TaskInv == \A task \in tasks : Typed(task)

\* A strip has a buffer once.
StripInv == \A t \in Tabs : Once(workspace[t].open)

\* PanesHaveBuffers
BufferInv ==
    \A t \in Tabs :
        Shown(workspace[t].leaves) \subseteq buffers \cap ToSet(workspace[t].open)

\* A pane is marked with a window that was made, and made for this pane; so is
\* a stored one, and one that a handler has read or is about to mark.  The
\* numbers of windows are not used again, so that a mark that is out of date
\* never points to another pane's window.
MarkInv ==
    \A t \in Tabs : \A m \in Known(t) : m[2] <= made /\ Fits(m[2], t, m[1])

IInv ==
    /\ SpaceInv
    /\ WindowInv
    /\ TaskInv
    /\ StripInv
    /\ BufferInv
    /\ MarkInv

\* What a step may not do to somebody who would hear of the end of a window:
\* MarksStayHeard
Hears ==
    \A t \in Tabs \ ended' : Loading(t) \/ ~Loading(t)' =>
        \A l \in Leaves(t) : \A k \in Leaves(t)' :
            /\ l.window # 0 /\ Heard(t, l)
            /\ k.pane = l.pane /\ k.window = l.window
            => Heard(t, l)'

-----------------------------------------------------------------------------
(* Sequences *)

\* A sequence is a function on its positions.
LEMMA ToSetIs ==
    ASSUME NEW S, NEW s \in Seq(S)
    PROVE  /\ DOMAIN s = 1..Len(s) /\ Len(s) \in Nat
           /\ ToSet(s) \subseteq S
           /\ \A e : e \in ToSet(s) <=> \E i \in 1..Len(s) : s[i] = e
BY LenProperties DEF ToSet

LEMMA ToSetAppend ==
    ASSUME NEW S, NEW s \in Seq(S), NEW e \in S
    PROVE  Append(s, e) \in Seq(S) /\ ToSet(Append(s, e)) = ToSet(s) \cup {e}
<1>1. /\ Append(s, e) \in Seq(S) /\ Len(Append(s, e)) = Len(s) + 1
      /\ \A i \in 1..Len(s) : Append(s, e)[i] = s[i]
      /\ Append(s, e)[Len(s) + 1] = e
    BY AppendProperties
<1>2. Len(s) \in Nat
    BY LenProperties
<1>3. ASSUME NEW x PROVE x \in ToSet(Append(s, e)) <=> x \in ToSet(s) \/ x = e
    <2>1. (\E i \in 1..Len(s) + 1 : Append(s, e)[i] = x)
              <=> (\E i \in 1..Len(s) : s[i] = x) \/ x = e
        BY <1>1, <1>2
    <2>2. x \in ToSet(Append(s, e))
              <=> \E i \in 1..Len(Append(s, e)) : Append(s, e)[i] = x
        BY <1>1, ToSetIs
    <2>3. x \in ToSet(s) <=> \E i \in 1..Len(s) : s[i] = x
        BY ToSetIs
    <2>4. QED
        BY <1>1, <2>1, <2>2, <2>3
<1>4. QED
    BY <1>1, <1>3

LEMMA ToSetConcat ==
    ASSUME NEW S, NEW s \in Seq(S), NEW t \in Seq(S)
    PROVE  s \o t \in Seq(S) /\ ToSet(s \o t) = ToSet(s) \cup ToSet(t)
<1>1. /\ s \o t \in Seq(S) /\ Len(s \o t) = Len(s) + Len(t)
      /\ \A i \in 1..Len(s) + Len(t) :
             (s \o t)[i] = IF i <= Len(s) THEN s[i] ELSE t[i - Len(s)]
    BY ConcatProperties
<1>2. Len(s) \in Nat /\ Len(t) \in Nat
    BY LenProperties
<1>3. ASSUME NEW x PROVE x \in ToSet(s \o t) <=> x \in ToSet(s) \/ x \in ToSet(t)
    <2>1. ASSUME NEW i \in 1..Len(s) PROVE i \in 1..Len(s) + Len(t) /\ (s \o t)[i] = s[i]
        BY <1>1, <1>2
    <2>2. ASSUME NEW i \in 1..Len(t)
          PROVE  Len(s) + i \in 1..Len(s) + Len(t) /\ (s \o t)[Len(s) + i] = t[i]
        BY <1>1, <1>2
    <2>3. ASSUME NEW i \in 1..Len(s) + Len(t)
          PROVE  (i \in 1..Len(s) /\ (s \o t)[i] = s[i])
                   \/ (i - Len(s) \in 1..Len(t) /\ (s \o t)[i] = t[i - Len(s)])
        BY <1>1, <1>2
    <2>4. (\E i \in 1..Len(s) + Len(t) : (s \o t)[i] = x)
              <=> (\E i \in 1..Len(s) : s[i] = x) \/ (\E i \in 1..Len(t) : t[i] = x)
        BY <2>1, <2>2, <2>3
    <2>5. x \in ToSet(s \o t) <=> \E i \in 1..Len(s) + Len(t) : (s \o t)[i] = x
        BY <1>1, ToSetIs
    <2>6. /\ x \in ToSet(s) <=> \E i \in 1..Len(s) : s[i] = x
          /\ x \in ToSet(t) <=> \E i \in 1..Len(t) : t[i] = x
        BY ToSetIs
    <2>7. QED
        BY <2>4, <2>5, <2>6
<1>4. QED
    BY <1>1, <1>3

LEMMA ToSetTail ==
    ASSUME NEW S, NEW s \in Seq(S), s # <<>>
    PROVE  /\ Head(s) \in S /\ Tail(s) \in Seq(S)
           /\ ToSet(s) = {Head(s)} \cup ToSet(Tail(s))
<1>1. /\ Head(s) \in S /\ Tail(s) \in Seq(S) /\ Len(Tail(s)) = Len(s) - 1
      /\ \A i \in 1..Len(Tail(s)) : Tail(s)[i] = s[i + 1]
    BY HeadTailProperties
<1>2. Len(s) \in Nat \ {0}
    BY EmptySeq
<1>3. Head(s) = s[1]
    BY <1>2
<1>4. ASSUME NEW x PROVE x \in ToSet(s) <=> x = Head(s) \/ x \in ToSet(Tail(s))
    <2>1. ASSUME NEW i \in 1..Len(s), i # 1
          PROVE  i - 1 \in 1..Len(s) - 1 /\ Tail(s)[i - 1] = s[i]
        BY <1>1, <1>2, <2>1
    <2>2. ASSUME NEW i \in 1..Len(s) - 1
          PROVE  i + 1 \in 1..Len(s) /\ s[i + 1] = Tail(s)[i]
        BY <1>1, <1>2
    <2>3. 1 \in 1..Len(s)
        BY <1>2
    <2>4. (\E i \in 1..Len(s) : s[i] = x)
              <=> x = s[1] \/ (\E i \in 1..Len(s) - 1 : Tail(s)[i] = x)
        BY <2>1, <2>2, <2>3
    <2>5. x \in ToSet(s) <=> \E i \in 1..Len(s) : s[i] = x
        BY ToSetIs
    <2>6. x \in ToSet(Tail(s)) <=> \E i \in 1..Len(s) - 1 : Tail(s)[i] = x
        BY <1>1, ToSetIs
    <2>7. QED
        BY <1>3, <2>4, <2>5, <2>6
<1>5. QED
    BY <1>1, <1>4

LEMMA SetToSeqFacts ==
    ASSUME NEW S, IsFiniteSet(S)
    PROVE  /\ SetToSeq(S) \in Seq(S) /\ ToSet(SetToSeq(S)) = S
           /\ Once(SetToSeq(S))
<1> DEFINE n == Cardinality(S)
<1>1. n \in Nat /\ ExistsBijection(1..n, S)
    BY FS_CardinalityType
<1>2. \E f \in [1..n -> S] : IsInjective(f)
    BY <1>1 DEF ExistsBijection, Bijection, Injection, IsInjective
<1>3. SetToSeq(S) \in [1..n -> S] /\ IsInjective(SetToSeq(S))
    BY <1>2 DEF SetToSeq
<1>4. SetToSeq(S) \in Injection(1..n, S)
    BY <1>3 DEF Injection, IsInjective
<1>5. IsFiniteSet(1..n) /\ Cardinality(1..n) = n
    BY <1>1, FS_Interval
<1>6. SetToSeq(S) \in Surjection(1..n, S)
    BY <1>4, <1>5, FS_Injection
<1>7. SetToSeq(S) \in Seq(S)
    BY <1>1, <1>3
<1>8. ToSet(SetToSeq(S)) = S
    BY <1>3, <1>6 DEF Surjection, ToSet
<1>9. Once(SetToSeq(S))
    BY <1>3 DEF Once, IsInjective
<1>10. QED
    BY <1>7, <1>8, <1>9

\* What comes after position i
LEMMA TailFrom ==
    ASSUME NEW S, NEW s \in Seq(S), NEW i \in DOMAIN s
    PROVE  /\ SubSeq(s, i + 1, Len(s)) \in Seq(S)
           /\ Len(SubSeq(s, i + 1, Len(s))) = Len(s) - i
           /\ \A k \in 1..Len(s) - i : SubSeq(s, i + 1, Len(s))[k] = s[i + k]
<1> DEFINE r == SubSeq(s, i + 1, Len(s))
<1>1. DOMAIN s = 1..Len(s) /\ Len(s) \in Nat /\ \A k \in 1..Len(s) : s[k] \in S
    BY LenProperties
<1>2. /\ i \in 1..Len(s) /\ i + 1 \in Int /\ Len(s) \in Int
      /\ \A k \in i + 1 .. Len(s) : s[k] \in S
    BY <1>1
<1>3. /\ r \in Seq(S)
      /\ Len(r) = IF i + 1 <= Len(s) THEN Len(s) - (i + 1) + 1 ELSE 0
      /\ \A k \in 1..Len(s) - (i + 1) + 1 : r[k] = s[(i + 1) + k - 1]
    BY <1>2, SubSeqProperties
<1> HIDE DEF r
<1>4. /\ Len(s) - (i + 1) + 1 = Len(s) - i
      /\ \A k \in Int : (i + 1) + k - 1 = i + k
    BY <1>1, <1>2
<1>5. ASSUME NEW k \in 1..Len(s) - i PROVE r[k] = s[i + k]
    <2>1. k \in 1..Len(s) - (i + 1) + 1 /\ (i + 1) + k - 1 = i + k
        BY <1>4
    <2>2. r[k] = s[(i + 1) + k - 1]
        BY <1>3, <2>1
    <2>3. QED
        BY <2>1, <2>2
<1>6. Len(r) = Len(s) - i
    BY <1>1, <1>2, <1>3
<1>7. QED
    BY <1>3, <1>5, <1>6 DEF r

\* Inserting an element after position i
LEMMA ToSetInsert ==
    ASSUME NEW S, NEW s \in Seq(S), NEW i \in DOMAIN s, NEW e \in S
    PROVE  /\ InsertAt(s, i + 1, e) \in Seq(S)
           /\ ToSet(InsertAt(s, i + 1, e)) = ToSet(s) \cup {e}
<1> DEFINE l == SubSeq(s, 1, i)
           r == SubSeq(s, i + 1, Len(s))
           m == <<e>>
<1>1. DOMAIN s = 1..Len(s) /\ Len(s) \in Nat /\ \A k \in 1..Len(s) : s[k] \in S
    BY LenProperties
<1>2. i \in 1..Len(s) /\ (i + 1) - 1 = i
    BY <1>1
<1>3. /\ l \in Seq(S) /\ Len(l) = i
      /\ \A k \in 1..i : l[k] = s[k]
    BY <1>1, <1>2
<1>4. /\ r \in Seq(S) /\ Len(r) = Len(s) - i
      /\ \A k \in 1..Len(s) - i : r[k] = s[i + k]
    BY TailFrom
<1>5. InsertAt(s, i + 1, e) = l \o m \o r
    BY <1>2, Zenon DEF InsertAt
<1>6. m \in Seq(S) /\ ToSet(m) = {e}
    BY DEF ToSet
<1> HIDE DEF l, r, m
<1>7. l \o m \in Seq(S) /\ ToSet(l \o m) = ToSet(l) \cup {e}
    BY <1>3, <1>6, ToSetConcat
<1> DEFINE p == l \o m
<1> HIDE DEF p
<1>8. p \in Seq(S) /\ ToSet(p) = ToSet(l) \cup {e}
    BY <1>7 DEF p
<1>11. p \o r \in Seq(S) /\ ToSet(p \o r) = ToSet(p) \cup ToSet(r)
    BY <1>4, <1>8, ToSetConcat
<1>9. ToSet(l) \cup ToSet(r) = ToSet(s)
    <2>1. ASSUME NEW x \in ToSet(s) PROVE x \in ToSet(l) \cup ToSet(r)
        <3>1. PICK k \in 1..Len(s) : s[k] = x
            BY ToSetIs
        <3>2. CASE k <= i
            <4>1. k \in 1..Len(l) /\ l[k] = x
                BY <1>3, <3>1, <3>2
            <4>2. QED
                BY <1>3, <4>1, ToSetIs
        <3>3. CASE k > i
            <4>1. k - i \in 1..Len(s) - i /\ i + (k - i) = k
                BY <1>1, <1>2, <3>1, <3>3
            <4>2. k - i \in 1..Len(r) /\ r[k - i] = x
                BY <1>4, <3>1, <4>1
            <4>3. QED
                BY <1>4, <4>2, ToSetIs
        <3>4. QED
            BY <1>2, <3>2, <3>3
    <2>2. ASSUME NEW x \in ToSet(l) PROVE x \in ToSet(s)
        <3>1. PICK k \in 1..Len(l) : l[k] = x
            BY <1>3, ToSetIs
        <3>2. k \in 1..Len(s) /\ s[k] = x
            BY <1>1, <1>2, <1>3, <3>1
        <3>3. QED
            BY <3>2, ToSetIs
    <2>3. ASSUME NEW x \in ToSet(r) PROVE x \in ToSet(s)
        <3>1. PICK k \in 1..Len(r) : r[k] = x
            BY <1>4, ToSetIs
        <3>2. i + k \in 1..Len(s) /\ s[i + k] = x
            BY <1>1, <1>2, <1>4, <3>1
        <3>3. QED
            BY <3>2, ToSetIs
    <2>4. QED
        BY <2>1, <2>2, <2>3
<1>10. QED
    BY <1>5, <1>8, <1>9, <1>11 DEF p

\* Taking position i out leaves the others, in their order.
LEMMA RemoveAtIs ==
    ASSUME NEW S, NEW s \in Seq(S), NEW i \in DOMAIN s
    PROVE  /\ RemoveAt(s, i) \in Seq(S)
           /\ Len(RemoveAt(s, i)) = Len(s) - 1
           /\ \A k \in 1..Len(s) - 1 :
                  RemoveAt(s, i)[k] = IF k < i THEN s[k] ELSE s[k + 1]
<1> DEFINE l == SubSeq(s, 1, i - 1)
           r == SubSeq(s, i + 1, Len(s))
<1>1. DOMAIN s = 1..Len(s) /\ Len(s) \in Nat /\ \A k \in 1..Len(s) : s[k] \in S
    BY LenProperties
<1>2. i \in 1..Len(s)
    BY <1>1
<1>3. /\ l \in Seq(S) /\ Len(l) = i - 1
      /\ \A k \in 1..i - 1 : l[k] = s[k]
    BY <1>1, <1>2
<1>4. /\ r \in Seq(S) /\ Len(r) = Len(s) - i
      /\ \A k \in 1..Len(s) - i : r[k] = s[i + k]
    BY TailFrom
<1>5. RemoveAt(s, i) = l \o r
    BY DEF RemoveAt
<1> HIDE DEF l, r
<1>6. /\ l \o r \in Seq(S) /\ Len(l \o r) = Len(l) + Len(r)
      /\ \A k \in 1..Len(l) + Len(r) :
             (l \o r)[k] = IF k <= Len(l) THEN l[k] ELSE r[k - Len(l)]
    BY <1>3, <1>4, ConcatProperties
<1>7. ASSUME NEW k \in 1..Len(s) - 1
      PROVE  (l \o r)[k] = IF k < i THEN s[k] ELSE s[k + 1]
    <2>1. CASE k < i
        <3>1. k \in 1..i - 1 /\ k <= Len(l) /\ k \in 1..Len(l) + Len(r)
            BY <1>1, <1>2, <1>3, <1>4, <2>1
        <3>2. (l \o r)[k] = l[k]
            BY <1>6, <3>1
        <3>3. QED
            BY <1>3, <2>1, <3>1, <3>2
    <2>2. CASE k >= i
        <3>1. k - Len(l) \in 1..Len(s) - i /\ i + (k - Len(l)) = k + 1
            BY <1>1, <1>2, <1>3, <2>2
        <3>2. k \in 1..Len(l) + Len(r) /\ ~(k <= Len(l))
            BY <1>1, <1>2, <1>3, <1>4, <2>2
        <3>3. (l \o r)[k] = r[k - Len(l)]
            BY <1>6, <3>2
        <3>4. ~(k < i)
            BY <1>2, <2>2
        <3>5. QED
            BY <1>4, <3>1, <3>3, <3>4
    <2>3. k < i \/ k >= i
        BY <1>1, <1>2
    <2>4. QED
        BY <2>1, <2>2, <2>3, Zenon
<1>8. Len(l \o r) = Len(s) - 1
    BY <1>1, <1>2, <1>3, <1>4, <1>6
<1>9. QED
    BY <1>5, <1>6, <1>7, <1>8

\* What is left is what was at other positions.
LEMMA ToSetRemove ==
    ASSUME NEW S, NEW s \in Seq(S), NEW i \in DOMAIN s
    PROVE  /\ ToSet(RemoveAt(s, i)) \subseteq ToSet(s)
           /\ \A e \in ToSet(s) : e # s[i] => e \in ToSet(RemoveAt(s, i))
<1> DEFINE r == RemoveAt(s, i)
<1>1. DOMAIN s = 1..Len(s) /\ Len(s) \in Nat
    BY LenProperties
<1>2. /\ r \in Seq(S) /\ Len(r) = Len(s) - 1
      /\ \A k \in 1..Len(s) - 1 : r[k] = IF k < i THEN s[k] ELSE s[k + 1]
    BY RemoveAtIs
<1> HIDE DEF r
<1>3. ASSUME NEW e \in ToSet(r) PROVE e \in ToSet(s)
    <2>1. PICK k \in 1..Len(r) : r[k] = e
        BY <1>2, ToSetIs
    <2>2. k \in 1..Len(s) - 1
        BY <1>2, <2>1
    <2>3. k \in 1..Len(s) /\ k + 1 \in 1..Len(s)
        BY <1>1, <2>2
    <2>4. r[k] = IF k < i THEN s[k] ELSE s[k + 1]
        BY <1>2, <2>2
    <2>5. s[k] = e \/ s[k + 1] = e
        BY <2>1, <2>4
    <2>6. QED
        BY <2>3, <2>5, ToSetIs
<1>4. ASSUME NEW e \in ToSet(s), e # s[i] PROVE e \in ToSet(r)
    <2>1. PICK k \in 1..Len(s) : s[k] = e
        BY ToSetIs
    <2>2. i \in 1..Len(s) /\ k # i
        BY <1>1, <1>4, <2>1
    <2>3. CASE k < i
        <3>1. k \in 1..Len(r) /\ r[k] = e
            BY <1>1, <1>2, <2>1, <2>2, <2>3
        <3>2. QED
            BY <1>2, <3>1, ToSetIs
    <2>4. CASE k > i
        <3>1. k - 1 \in 1..Len(s) - 1 /\ (k - 1) + 1 = k /\ ~(k - 1 < i)
            BY <1>1, <2>1, <2>2, <2>4
        <3>2. r[k - 1] = e
            BY <1>2, <2>1, <3>1
        <3>3. k - 1 \in 1..Len(r)
            BY <1>2, <3>1
        <3>4. QED
            BY <1>2, <3>2, <3>3, ToSetIs
    <2>5. QED
        BY <1>1, <2>2, <2>3, <2>4
<1>5. QED
    BY <1>3, <1>4 DEF r

\* A sequence has finitely many elements.
LEMMA ToSetFinite ==
    ASSUME NEW S, NEW s \in Seq(S)
    PROVE  IsFiniteSet(ToSet(s))
<1>1. DOMAIN s = 1..Len(s) /\ Len(s) \in Nat
    BY LenProperties
<1>2. s \in Surjection(1..Len(s), ToSet(s))
    BY <1>1 DEF Surjection, ToSet
<1>3. IsFiniteSet(1..Len(s))
    BY <1>1, FS_Interval
<1>4. QED
    BY <1>2, <1>3, FS_Surjection

-----------------------------------------------------------------------------
(* Layouts *)

\* The elements of a layout are its panes.
LEMMA LayoutIs ==
    ASSUME NEW leaves \in Layouts
    PROVE  /\ DOMAIN leaves = 1..Len(leaves) /\ Len(leaves) \in Nat
           /\ \A i \in 1..Len(leaves) :
                /\ leaves[i] \in Panes
                /\ leaves[i] \in ToSet(leaves)
                /\ leaves[i].buffer \in Shown(leaves)
                /\ leaves[i].window # 0
                       => <<leaves[i].pane, leaves[i].window>> \in Marks(leaves)
<1>1. DOMAIN leaves = 1..Len(leaves) /\ Len(leaves) \in Nat
    BY LenProperties DEF Layouts
<1>2. ASSUME NEW i \in 1..Len(leaves) PROVE leaves[i] \in Panes
    BY ElementOfSeq DEF Layouts
<1>3. ASSUME NEW i \in 1..Len(leaves) PROVE leaves[i] \in ToSet(leaves)
    BY <1>1 DEF ToSet
<1>4. QED
    BY <1>1, <1>2, <1>3 DEF Shown, Marks

\* A layout shows, and marks, what its positions do.
LEMMA LayoutWithin ==
    ASSUME NEW leaves \in Layouts
    PROVE  /\ \A B : (\A i \in 1..Len(leaves) : leaves[i].buffer \in B)
                         => Shown(leaves) \subseteq B
           /\ \A M : (\A i \in 1..Len(leaves) : leaves[i].window # 0
                         => <<leaves[i].pane, leaves[i].window>> \in M)
                         => Marks(leaves) \subseteq M
<1>1. ToSet(leaves) = {leaves[i] : i \in 1..Len(leaves)}
    BY LayoutIs DEF ToSet
<1>2. QED
    BY <1>1 DEF Shown, Marks

\* A mark is a pane and a window.
LEMMA MarksAre ==
    ASSUME NEW leaves \in Layouts
    PROVE  \A m \in Marks(leaves) : m \in Nat \X Nat /\ m[1] \in Nat /\ m[2] \in Nat
<1>1. ToSet(leaves) \subseteq Panes
    BY ToSetIs DEF Layouts
<1>2. QED
    BY <1>1 DEF Marks, Panes

\* A layout that is rewritten position by position is one.
LEMMA LayoutByPosition ==
    ASSUME NEW leaves \in Layouts, NEW new,
           new = [i \in DOMAIN leaves |-> new[i]],
           \A i \in 1..Len(leaves) : new[i] \in Panes
    PROVE  new \in Layouts /\ Len(new) = Len(leaves)
<1>1. DOMAIN leaves = 1..Len(leaves) /\ Len(leaves) \in Nat
    BY LayoutIs
<1>2. new \in [1..Len(leaves) -> Panes]
    BY <1>1
<1>3. QED
    BY <1>1, <1>2 DEF Layouts

\* Another buffer in a pane
LEMMA SetBufferFacts ==
    ASSUME NEW leaves \in Layouts, NEW p, NEW b \in Names
    PROVE  /\ SetBuffer(leaves, p, b) \in Layouts
           /\ Shown(SetBuffer(leaves, p, b)) \subseteq Shown(leaves) \cup {b}
           /\ Marks(SetBuffer(leaves, p, b)) \subseteq Marks(leaves)
<1> DEFINE new == SetBuffer(leaves, p, b)
<1>1. /\ DOMAIN leaves = 1..Len(leaves)
      /\ \A i \in 1..Len(leaves) : leaves[i] \in Panes
    BY LayoutIs
<1>2. ASSUME NEW i \in 1..Len(leaves)
      PROVE  /\ new[i] \in Panes
             /\ new[i].buffer \in {leaves[i].buffer, b}
             /\ new[i].pane = leaves[i].pane /\ new[i].window = leaves[i].window
    BY <1>1 DEF SetBuffer, Panes
<1>3. new = [i \in DOMAIN leaves |-> new[i]]
    BY DEF SetBuffer
<1> HIDE DEF new
<1>4. new \in Layouts /\ Len(new) = Len(leaves)
    BY <1>2, <1>3, LayoutByPosition
<1>5. ASSUME NEW i \in 1..Len(new)
      PROVE  /\ new[i].buffer \in Shown(leaves) \cup {b}
             /\ new[i].window # 0
                    => <<new[i].pane, new[i].window>> \in Marks(leaves)
    BY <1>2, <1>4, LayoutIs
<1>6. QED
    BY <1>4, <1>5, LayoutWithin DEF new

\* Another window for a pane, or none
LEMMA SetWindowFacts ==
    ASSUME NEW leaves \in Layouts, NEW p, NEW w \in Nat
    PROVE  /\ SetWindow(leaves, p, w) \in Layouts
           /\ Shown(SetWindow(leaves, p, w)) \subseteq Shown(leaves)
           /\ Marks(SetWindow(leaves, p, w))
                \subseteq {m \in Marks(leaves) : m[1] # p}
                            \cup (IF w = 0 THEN {} ELSE {<<p, w>>})
<1> DEFINE new == SetWindow(leaves, p, w)
           M == {m \in Marks(leaves) : m[1] # p}
                    \cup (IF w = 0 THEN {} ELSE {<<p, w>>})
<1>1. /\ DOMAIN leaves = 1..Len(leaves)
      /\ \A i \in 1..Len(leaves) : leaves[i] \in Panes
    BY LayoutIs
<1>2. ASSUME NEW i \in 1..Len(leaves)
      PROVE  /\ new[i] \in Panes
             /\ new[i].buffer = leaves[i].buffer
             /\ new[i].pane = leaves[i].pane
             /\ new[i].window = IF leaves[i].pane = p THEN w
                                                      ELSE leaves[i].window
    BY <1>1 DEF SetWindow, Panes
<1>3. new = [i \in DOMAIN leaves |-> new[i]]
    BY DEF SetWindow
<1> HIDE DEF new
<1>4. new \in Layouts /\ Len(new) = Len(leaves)
    BY <1>2, <1>3, LayoutByPosition
<1>5. ASSUME NEW i \in 1..Len(new)
      PROVE  /\ new[i].buffer \in Shown(leaves)
             /\ new[i].window # 0 => <<new[i].pane, new[i].window>> \in M
    <2>1. i \in 1..Len(leaves)
        BY <1>4
    <2>2. new[i].buffer \in Shown(leaves)
        BY <1>2, <2>1, LayoutIs
    <2>3. CASE leaves[i].pane = p
        BY <1>2, <2>1, <2>2, <2>3
    <2>4. CASE leaves[i].pane # p
        <3>1. new[i].pane = leaves[i].pane /\ new[i].window = leaves[i].window
            BY <1>2, <2>1, <2>4
        <3>2. leaves[i].window # 0
                  => <<leaves[i].pane, leaves[i].window>> \in Marks(leaves)
            BY <2>1, LayoutIs
        <3>3. QED
            BY <2>2, <2>4, <3>1, <3>2
    <2>5. QED
        BY <2>3, <2>4
<1> HIDE DEF M
<1>6. Shown(new) \subseteq Shown(leaves) /\ Marks(new) \subseteq M
    BY <1>4, <1>5, LayoutWithin
<1>7. QED
    BY <1>4, <1>6 DEF new, M

\* splitPane: the new pane shows what the old one does and has no window.
LEMMA SplitFacts ==
    ASSUME NEW leaves \in Layouts, NEW i \in DOMAIN leaves,
           leaves[i].window = 0, NEW p \in Nat
    PROVE  LET old == [leaves[i] EXCEPT !.depth = @ + 1]
               new == [old EXCEPT !.pane = p]
               both == InsertAt([leaves EXCEPT ![i] = old], i + 1, new)
           IN  /\ both \in Layouts
               /\ Shown(both) \subseteq Shown(leaves)
               /\ Marks(both) \subseteq Marks(leaves)
<1> DEFINE old == [leaves[i] EXCEPT !.depth = @ + 1]
           new == [old EXCEPT !.pane = p]
           mid == [leaves EXCEPT ![i] = old]
           both == InsertAt(mid, i + 1, new)
<1>1. /\ DOMAIN leaves = 1..Len(leaves)
      /\ \A k \in 1..Len(leaves) : leaves[k] \in Panes
    BY LayoutIs
<1>2. /\ old \in Panes /\ old.window = 0 /\ old.buffer = leaves[i].buffer
      /\ new \in Panes /\ new.window = 0 /\ new.buffer = leaves[i].buffer
    <2> DEFINE l == leaves[i]
    <2>1. l \in Panes /\ l.window = 0
        BY <1>1
    <2> HIDE DEF l
    <2>2. /\ [l EXCEPT !.depth = @ + 1] \in Panes
          /\ [l EXCEPT !.depth = @ + 1].window = 0
          /\ [l EXCEPT !.depth = @ + 1].buffer = l.buffer
        BY <2>1 DEF Panes
    <2>3. /\ old \in Panes /\ old.window = 0 /\ old.buffer = leaves[i].buffer
        BY <2>2 DEF l
    <2> HIDE DEF old
    <2>4. /\ new \in Panes /\ new.window = 0 /\ new.buffer = old.buffer
        BY <2>3 DEF Panes
    <2>5. QED
        BY <2>3, <2>4
<1>3. ASSUME NEW k \in 1..Len(leaves)
      PROVE  mid[k] = IF k = i THEN old ELSE leaves[k]
    BY <1>1
<1>4. mid = [k \in DOMAIN leaves |-> mid[k]]
    BY <1>1
<1> HIDE DEF old, new, mid
<1>5. ASSUME NEW k \in 1..Len(leaves)
      PROVE  /\ mid[k] \in Panes
             /\ mid[k].buffer \in Shown(leaves)
             /\ mid[k].window # 0 => <<mid[k].pane, mid[k].window>> \in Marks(leaves)
    BY <1>1, <1>2, <1>3, LayoutIs
<1>6. mid \in Layouts /\ Len(mid) = Len(leaves)
    BY <1>4, <1>5, LayoutByPosition
<1>7. Shown(mid) \subseteq Shown(leaves) /\ Marks(mid) \subseteq Marks(leaves)
    BY <1>5, <1>6, LayoutWithin
<1>8. i \in DOMAIN mid
    BY <1>1, <1>6, LayoutIs
<1>9. both \in Layouts /\ ToSet(both) = ToSet(mid) \cup {new}
    <2>1. mid \in Seq(Panes)
        BY <1>6 DEF Layouts
    <2>2. /\ both \in Seq(Panes)
          /\ ToSet(both) = ToSet(mid) \cup {new}
        BY <1>2, <1>8, <2>1, ToSetInsert
    <2>3. QED
        BY <2>2 DEF Layouts
<1>10. Shown(both) = Shown(mid) \cup {new.buffer}
    BY <1>9 DEF Shown
<1>11. Marks(both) = Marks(mid)
    BY <1>2, <1>9 DEF Marks
<1>12. new.buffer \in Shown(leaves)
    BY <1>1, <1>2, LayoutIs
<1>13. QED
    BY <1>7, <1>9, <1>10, <1>11, <1>12 DEF old, new, mid

\* removeEditorPane
LEMMA RemovePaneFacts ==
    ASSUME NEW leaves \in Layouts, NEW i \in DOMAIN leaves
    PROVE  /\ RemovePane(leaves, i) \in Layouts
           /\ Shown(RemovePane(leaves, i)) \subseteq Shown(leaves)
           /\ Marks(RemovePane(leaves, i)) \subseteq Marks(leaves)
<1> DEFINE rest == RemoveAt(leaves, i)
           new == [k \in DOMAIN rest |-> [rest[k] EXCEPT !.depth = @ - 1]]
<1>1. rest \in Layouts /\ ToSet(rest) \subseteq ToSet(leaves)
    BY RemoveAtIs, ToSetRemove DEF Layouts
<1> HIDE DEF rest
<1>2. /\ DOMAIN rest = 1..Len(rest)
      /\ \A k \in 1..Len(rest) : rest[k] \in Panes /\ rest[k] \in ToSet(leaves)
    BY <1>1, LayoutIs
<1>3. ASSUME NEW k \in 1..Len(rest)
      PROVE  /\ new[k] \in Panes
             /\ new[k].buffer = rest[k].buffer
             /\ new[k].pane = rest[k].pane /\ new[k].window = rest[k].window
    BY <1>2 DEF Panes
<1>4. new = [k \in DOMAIN rest |-> new[k]]
    OBVIOUS
<1> HIDE DEF new
<1>5. new \in Layouts /\ Len(new) = Len(rest)
    BY <1>1, <1>3, <1>4, LayoutByPosition
<1>6. ASSUME NEW k \in 1..Len(new)
      PROVE  /\ new[k].buffer \in Shown(leaves)
             /\ new[k].window # 0 => <<new[k].pane, new[k].window>> \in Marks(leaves)
    BY <1>2, <1>3, <1>5 DEF Shown, Marks
<1>7. Shown(new) \subseteq Shown(leaves) /\ Marks(new) \subseteq Marks(leaves)
    BY <1>5, <1>6, LayoutWithin
<1>8. RemovePane(leaves, i) = IF leaves[i].depth = 1 THEN new ELSE leaves
    BY DEF RemovePane, rest, new
<1>9. QED
    BY <1>5, <1>7, <1>8

\* The panes of a closed buffer show the next one.
LEMMA ReplaceFacts ==
    ASSUME NEW leaves \in Layouts, NEW b, NEW next \in Names
    PROVE  /\ Replace(leaves, b, next) \in Layouts
           /\ Shown(Replace(leaves, b, next))
                \subseteq (Shown(leaves) \ {b}) \cup {next}
           /\ Marks(Replace(leaves, b, next)) \subseteq Marks(leaves)
<1> DEFINE new == Replace(leaves, b, next)
<1>1. /\ DOMAIN leaves = 1..Len(leaves)
      /\ \A i \in 1..Len(leaves) : leaves[i] \in Panes
    BY LayoutIs
<1>2. ASSUME NEW i \in 1..Len(leaves)
      PROVE  /\ new[i] \in Panes
             /\ new[i].buffer = IF leaves[i].buffer = b THEN next
                                                        ELSE leaves[i].buffer
             /\ new[i].pane = leaves[i].pane /\ new[i].window = leaves[i].window
    BY <1>1 DEF Panes, Replace
<1>3. new = [i \in DOMAIN leaves |-> new[i]]
    BY DEF Replace
<1> HIDE DEF new
<1>4. new \in Layouts /\ Len(new) = Len(leaves)
    BY <1>2, <1>3, LayoutByPosition
<1> DEFINE B == (Shown(leaves) \ {b}) \cup {next}
           M == Marks(leaves)
<1>5. ASSUME NEW i \in 1..Len(new)
      PROVE  /\ new[i].buffer \in B
             /\ new[i].window # 0 => <<new[i].pane, new[i].window>> \in M
    BY <1>2, <1>4, LayoutIs
<1> HIDE DEF B, M
<1>6. Shown(new) \subseteq B /\ Marks(new) \subseteq M
    BY <1>4, <1>5, LayoutWithin
<1>7. QED
    BY <1>4, <1>6 DEF new, B, M

\* reconcileDetachedEditorPanes makes no mark up.
LEMMA RestoreFacts ==
    ASSUME NEW leaves \in Layouts, NEW live
    PROVE  /\ Restore(leaves, live) \in Layouts
           /\ Marks(Restore(leaves, live)) \subseteq Marks(leaves)
<1> DEFINE new == Restore(leaves, live)
           M == Marks(leaves)
<1>1. /\ DOMAIN leaves = 1..Len(leaves)
      /\ \A i \in 1..Len(leaves) : leaves[i] \in Panes
    BY LayoutIs
<1>2. ASSUME NEW i \in 1..Len(leaves)
      PROVE  /\ new[i] \in Panes
             /\ new[i].pane = leaves[i].pane
             /\ new[i].window = leaves[i].window \/ new[i].window = 0
    BY <1>1 DEF Restore, Panes
<1>3. new = [i \in DOMAIN leaves |-> new[i]]
    BY DEF Restore
<1> HIDE DEF new
<1>4. new \in Layouts /\ Len(new) = Len(leaves)
    BY <1>2, <1>3, LayoutByPosition
<1>5. ASSUME NEW i \in 1..Len(new), new[i].window # 0
      PROVE  <<new[i].pane, new[i].window>> \in M
    <2>1. i \in 1..Len(leaves)
        BY <1>4
    <2>2. new[i].pane = leaves[i].pane /\ new[i].window = leaves[i].window
        BY <1>2, <1>5, <2>1
    <2>3. <<leaves[i].pane, leaves[i].window>> \in Marks(leaves)
        BY <1>5, <2>1, <2>2, LayoutIs
    <2>4. QED
        BY <2>2, <2>3
<1> HIDE DEF M
<1>6. Marks(new) \subseteq M
    BY <1>4, <1>5, LayoutWithin
<1>7. QED
    BY <1>4, <1>6 DEF new, M

-----------------------------------------------------------------------------
(* Steps *)

\* Where the marks of a tab are
LEMMA KnownIs ==
    ASSUME NEW t
    PROVE  /\ Marks(workspace[t].leaves) \subseteq Known(t)
           /\ Marks(stored[t].leaves) \subseteq Known(t)
           /\ \A task \in tasks : task.tab = t => MarksOf(task) \subseteq Known(t)
BY DEF Known

\* What a step does to layouts and buffers: panes go on showing buffers, and
\* no mark is made up, shown or stored.
SpacesGoOn ==
    /\ SpaceInv' /\ StripInv' /\ BufferInv'
    /\ \A t \in Tabs : Marks(workspace'[t].leaves) \cup Marks(stored'[t].leaves)
                           \subseteq Known(t)

\* What it does to windows: one that goes leaves a notice, and a notice that is
\* taken has been acted on, or the tab mounts again.
WindowsGoOn ==
    /\ WindowInv'
    /\ made' = made
    /\ DOMAIN windows' \subseteq DOMAIN windows
    /\ \A w \in DOMAIN windows' : windows'[w] = windows[w]
    /\ \A w \in DOMAIN windows \ DOMAIN windows' :
           [tab |-> windows[w].tab, pane |-> windows[w].pane, window |-> w]
               \in ToSet(notices')
    /\ \A n \in ToSet(notices) : n \notin ToSet(notices') =>
           \/ n.tab \in ended
           \/ <<n.pane, n.window>> \notin Marks(workspace'[n.tab].leaves)
           \/ ~Loading(n.tab) /\ Loading(n.tab)'

\* What it does to handlers: they make no mark up, and a tab that is closed
\* remains so.
TasksGoOn ==
    /\ TaskInv'
    /\ ended \subseteq ended'
    /\ \A task \in tasks' : MarksOf(task) \subseteq Known(task.tab)

\* Such a step preserves the invariant, and nobody stops hearing.
LEMMA GoOn ==
    ASSUME IInv, SpacesGoOn, WindowsGoOn, TasksGoOn
    PROVE  IInv' /\ Hears
<1>1. ASSUME NEW t \in Tabs PROVE Known(t)' \subseteq Known(t)
    <2>1. Marks(workspace'[t].leaves) \cup Marks(stored'[t].leaves)
              \subseteq Known(t)
        BY DEF SpacesGoOn
    <2>2. \A task \in tasks' : task.tab = t => MarksOf(task) \subseteq Known(t)
        BY DEF TasksGoOn
    <2>3. Known(t)' = Marks(workspace'[t].leaves) \cup Marks(stored'[t].leaves)
                \cup UNION {MarksOf(task) : task \in {k \in tasks' : k.tab = t}}
        BY DEF Known
    <2>4. QED
        BY <2>1, <2>2, <2>3
<1>2. ASSUME NEW w, NEW t, NEW p, Fits(w, t, p) PROVE Fits(w, t, p)'
    BY <1>2 DEF Fits, WindowsGoOn
<1>3. MarkInv'
    <2>1. SUFFICES ASSUME NEW t \in Tabs, NEW m \in Known(t)'
                   PROVE  m[2] <= made' /\ Fits(m[2], t, m[1])'
        BY DEF MarkInv
    <2>2. m[2] <= made /\ Fits(m[2], t, m[1])
        BY <1>1 DEF IInv, MarkInv
    <2>3. QED
        BY <1>2, <2>2 DEF WindowsGoOn
<1>4. Hears
    <2>1. SUFFICES ASSUME NEW t \in Tabs \ ended', Loading(t) \/ ~Loading(t)',
                          NEW l \in Leaves(t), NEW k \in Leaves(t)',
                          l.window # 0, Heard(t, l),
                          k.pane = l.pane, k.window = l.window
                   PROVE  Heard(t, l)'
        BY DEF Hears
    <2> DEFINE n == [tab |-> t, pane |-> l.pane, window |-> l.window]
               w == l.window
    <2>2. /\ <<l.pane, l.window>> \in Marks(workspace[t].leaves)
          /\ <<l.pane, l.window>> \in Marks(workspace'[t].leaves)
        BY <2>1 DEF Marks, Leaves
    <2>3. t \notin ended
        BY DEF TasksGoOn
    <2>4. CASE w \in DOMAIN windows
        <3> DEFINE m == <<l.pane, l.window>>
        <3>1. m[1] = l.pane /\ m[2] = w
            OBVIOUS
        <3>2. m \in Known(t)
            BY <2>2, KnownIs
        <3> HIDE DEF m
        <3>3. Fits(w, t, l.pane)
            BY <3>1, <3>2 DEF IInv, MarkInv
        <3>4. windows[w] = [tab |-> t, pane |-> l.pane]
            BY <2>4, <3>3 DEF Fits
        <3>5. windows[w].tab = t /\ windows[w].pane = l.pane
            BY <3>4
        <3>6. w \in DOMAIN windows'
                \/ [tab |-> windows[w].tab, pane |-> windows[w].pane,
                    window |-> w] \in ToSet(notices')
            BY <2>4 DEF WindowsGoOn
        <3>7. w \in DOMAIN windows' \/ n \in ToSet(notices')
            BY <3>5, <3>6
        <3>8. QED
            BY <3>7 DEF Heard
    <2>5. CASE n \in ToSet(notices)
        <3>1. n.tab = t /\ n.pane = l.pane /\ n.window = l.window
            OBVIOUS
        <3> HIDE DEF n
        <3>2. n \in ToSet(notices')
            BY <2>1, <2>2, <2>3, <2>5, <3>1 DEF WindowsGoOn
        <3>3. QED
            BY <3>2 DEF Heard, n
    <2>6. QED
        BY <2>1, <2>4, <2>5 DEF Heard
<1>5. QED
    BY <1>3, <1>4 DEF IInv, SpacesGoOn, WindowsGoOn, TasksGoOn

-----------------------------------------------------------------------------
(* The store *)

\* What the invariant says of one tab
LEMMA SpaceFacts ==
    ASSUME SpaceInv, NEW t \in Tabs
    PROVE  /\ workspace[t].leaves \in Layouts
           /\ workspace[t].open \in Seq(Names)
           /\ stored[t].leaves \in Layouts
BY DEF SpaceInv, Space

\* A step that writes the workspace of one tab, and perhaps stores its layout
LEMMA WriteFacts ==
    ASSUME SpaceInv, NEW t \in Tabs,
           NEW leaves \in Layouts, NEW focus, NEW open \in Seq(Names),
           workspace' = [workspace EXCEPT ![t] =
               [leaves |-> leaves, focus |-> focus, open |-> open]],
           stored' = stored \/ PersistLater(t)
    PROVE  /\ SpaceInv'
           /\ workspace'[t].leaves = leaves /\ workspace'[t].open = open
           /\ stored'[t].leaves \in {leaves, stored[t].leaves}
           /\ \A u \in Tabs \ {t} :
                /\ workspace'[u] = workspace[u]
                /\ stored'[u] = stored[u]
<1>1. PICK F : workspace \in [Tabs -> Space(F)] /\ stored \in [Tabs -> Space(F)]
    BY DEF SpaceInv
<1> DEFINE G == F \cup {focus}
           new == [leaves |-> leaves, focus |-> focus, open |-> open]
<1>2. Space(F) \subseteq Space(G) /\ new \in Space(G)
    BY DEF Space
<1>3. workspace' \in [Tabs -> Space(G)]
    BY <1>1, <1>2
<1>4. workspace'[t] = new /\ \A u \in Tabs \ {t} : workspace'[u] = workspace[u]
    BY <1>1
<1>5. new.leaves = leaves /\ new.focus = focus /\ new.open = open
    OBVIOUS
<1> HIDE DEF new
<1>6. CASE stored' = stored
    <2>1. stored' \in [Tabs -> Space(G)]
        BY <1>1, <1>2, <1>6
    <2>2. SpaceInv'
        BY <1>3, <2>1 DEF SpaceInv
    <2>3. QED
        BY <1>4, <1>5, <1>6, <2>2
<1>7. CASE PersistLater(t)
    <2> DEFINE row == [leaves |-> leaves, focus |-> focus, open |-> <<>>]
    <2>1. stored' = [stored EXCEPT ![t] = row]
        BY <1>4, <1>5, <1>7 DEF PersistLater
    <2>2. row \in Space(G) /\ row.leaves = leaves
        BY DEF Space
    <2> HIDE DEF row
    <2>3. stored' \in [Tabs -> Space(G)]
        BY <1>1, <1>2, <2>1, <2>2
    <2>4. SpaceInv'
        BY <1>3, <2>3 DEF SpaceInv
    <2>5. stored'[t] = row /\ \A u \in Tabs \ {t} : stored'[u] = stored[u]
        BY <1>1, <2>1
    <2>6. QED
        BY <1>4, <1>5, <2>2, <2>4, <2>5
<1>8. QED
    BY <1>6, <1>7

\* Such a step keeps the panes on buffers if the new layout shows buffers of
\* the store that are in the new strip, and the other tabs keep theirs.
LEMMA WriteKeeps ==
    ASSUME IInv, NEW t \in Tabs,
           NEW leaves \in Layouts, NEW focus, NEW open \in Seq(Names),
           workspace' = [workspace EXCEPT ![t] =
               [leaves |-> leaves, focus |-> focus, open |-> open]],
           stored' = stored \/ PersistLater(t),
           Once(open),
           Shown(leaves) \subseteq buffers' \cap ToSet(open),
           \A u \in Tabs \ {t} : Shown(workspace[u].leaves) \subseteq buffers'
    PROVE  SpaceInv' /\ StripInv' /\ BufferInv'
<1>1. /\ SpaceInv'
      /\ workspace'[t].leaves = leaves /\ workspace'[t].open = open
      /\ \A u \in Tabs \ {t} : workspace'[u] = workspace[u]
    <2>1. SpaceInv
        BY DEF IInv
    <2>2. /\ SpaceInv'
          /\ workspace'[t].leaves = leaves /\ workspace'[t].open = open
          /\ stored'[t].leaves \in {leaves, stored[t].leaves}
          /\ \A u \in Tabs \ {t} :
               /\ workspace'[u] = workspace[u]
               /\ stored'[u] = stored[u]
        BY <2>1, WriteFacts, Zenon
    <2>3. QED
        BY <2>2
<1>2. StripInv'
    <2>1. ASSUME NEW u \in Tabs PROVE Once(workspace'[u].open)
        BY <1>1 DEF IInv, StripInv
    <2>2. QED
        BY <2>1 DEF StripInv
<1>3. BufferInv'
    <2>1. ASSUME NEW u \in Tabs
          PROVE  Shown(workspace'[u].leaves)
                     \subseteq buffers' \cap ToSet(workspace'[u].open)
        <3>1. CASE u = t
            BY <1>1, <3>1
        <3>2. CASE u # t
            BY <1>1, <3>2 DEF IInv, BufferInv
        <3>3. QED
            BY <3>1, <3>2
    <2>2. QED
        BY <2>1 DEF BufferInv
<1>4. QED
    BY <1>1, <1>2, <1>3

\* It goes on if no mark is made up either.
LEMMA WriteGoesOn ==
    ASSUME IInv, NEW t \in Tabs,
           NEW leaves \in Layouts, NEW focus, NEW open \in Seq(Names),
           workspace' = [workspace EXCEPT ![t] =
               [leaves |-> leaves, focus |-> focus, open |-> open]],
           stored' = stored \/ PersistLater(t),
           Once(open),
           Shown(leaves) \subseteq buffers' \cap ToSet(open),
           \A u \in Tabs \ {t} : Shown(workspace[u].leaves) \subseteq buffers',
           Marks(leaves) \subseteq Known(t)
    PROVE  SpacesGoOn
<1>1. /\ workspace'[t].leaves = leaves
      /\ stored'[t].leaves \in {leaves, stored[t].leaves}
      /\ \A u \in Tabs \ {t} :
           workspace'[u] = workspace[u] /\ stored'[u] = stored[u]
    <2>1. SpaceInv
        BY DEF IInv
    <2>2. QED
        BY <2>1, WriteFacts
<1>2. SpaceInv' /\ StripInv' /\ BufferInv'
    BY WriteKeeps
<1>3. ASSUME NEW u \in Tabs
      PROVE  Marks(workspace'[u].leaves) \cup Marks(stored'[u].leaves)
                 \subseteq Known(u)
    <2>1. CASE u = t
        BY <1>1, <2>1, KnownIs
    <2>2. CASE u # t
        BY <1>1, <2>2, KnownIs
    <2>3. QED
        BY <2>1, <2>2
<1>4. QED
    BY <1>2, <1>3 DEF SpacesGoOn

\* A step that leaves the store alone goes on.
LEMMA QuietGoesOn ==
    ASSUME IInv, UNCHANGED <<buffers, workspace, stored>>
    PROVE  SpacesGoOn
<1>1. SpaceInv' /\ StripInv' /\ BufferInv'
    BY DEF IInv, SpaceInv, StripInv, BufferInv
<1>2. QED
    BY <1>1, KnownIs DEF SpacesGoOn

\* Update writes a layout and stores it.
LEMMA UpdateFacts ==
    ASSUME SpaceInv, NEW t \in Tabs, NEW leaves, NEW focus,
           Update(t, leaves, focus)
    PROVE  /\ workspace' = [workspace EXCEPT ![t] =
                 [leaves |-> leaves, focus |-> focus,
                  open |-> workspace[t].open]]
           /\ PersistLater(t)
<1>1. PICK F : workspace \in [Tabs -> Space(F)]
    BY DEF SpaceInv
<1>2. workspace[t] = [leaves |-> workspace[t].leaves,
                      focus |-> workspace[t].focus, open |-> workspace[t].open]
    BY <1>1 DEF Space
<1>3. [workspace[t] EXCEPT !.leaves = leaves, !.focus = focus]
          = [leaves |-> leaves, focus |-> focus, open |-> workspace[t].open]
    <2> DEFINE r == workspace[t]
               l == workspace[t].leaves
               f == workspace[t].focus
               o == workspace[t].open
    <2>1. r = [leaves |-> l, focus |-> f, open |-> o]
        BY <1>2
    <2> HIDE DEF r, l, f, o
    <2>2. [r EXCEPT !.leaves = leaves]
              = [leaves |-> leaves, focus |-> f, open |-> o]
        BY <2>1
    <2>3. [[leaves |-> leaves, focus |-> f, open |-> o] EXCEPT !.focus = focus]
              = [leaves |-> leaves, focus |-> focus, open |-> o]
        OBVIOUS
    <2>4. [r EXCEPT !.leaves = leaves, !.focus = focus]
              = [[r EXCEPT !.leaves = leaves] EXCEPT !.focus = focus]
        OBVIOUS
    <2>5. [r EXCEPT !.leaves = leaves, !.focus = focus]
              = [leaves |-> leaves, focus |-> focus, open |-> o]
        BY <2>2, <2>3, <2>4, Zenon
    <2>6. QED
        BY <2>5 DEF r, o
<1>4. [workspace EXCEPT ![t].leaves = leaves, ![t].focus = focus]
          = [workspace EXCEPT ![t] =
                [workspace[t] EXCEPT !.leaves = leaves, !.focus = focus]]
    BY <1>1
<1>5. QED
    BY <1>3, <1>4 DEF Update

\* An Update that shows no other buffer and makes no mark up goes on.
LEMMA UpdateGoesOn ==
    ASSUME IInv, NEW t \in Tabs, NEW leaves \in Layouts, NEW focus,
           Update(t, leaves, focus), UNCHANGED buffers,
           Shown(leaves) \subseteq Shown(workspace[t].leaves),
           Marks(leaves) \subseteq Marks(workspace[t].leaves)
    PROVE  SpacesGoOn
<1> DEFINE open == workspace[t].open
<1>1. /\ workspace' = [workspace EXCEPT ![t] =
            [leaves |-> leaves, focus |-> focus, open |-> open]]
      /\ PersistLater(t)
    BY UpdateFacts DEF IInv
<1>2. open \in Seq(Names) /\ Once(open)
    BY SpaceFacts DEF IInv, StripInv
<1>3. /\ Shown(leaves) \subseteq buffers' \cap ToSet(open)
      /\ \A u \in Tabs \ {t} : Shown(workspace[u].leaves) \subseteq buffers'
    BY DEF IInv, BufferInv
<1> HIDE DEF open
<1>4. Marks(leaves) \subseteq Known(t)
    BY KnownIs
<1>5. QED
    BY <1>1, <1>2, <1>3, <1>4, WriteGoesOn

\* reattachPane takes marks away.
LEMMA ReattachGoesOn ==
    ASSUME IInv, NEW t \in Tabs, NEW p, Reattach(t, p), UNCHANGED buffers
    PROVE  SpacesGoOn
<1>1. workspace[t].leaves \in Layouts
    BY SpaceFacts DEF IInv
<1>2. CASE UNCHANGED <<workspace, stored>>
    BY <1>2, QuietGoesOn
<1>3. CASE Update(t, SetWindow(workspace[t].leaves, p, 0), p)
    <2> DEFINE new == SetWindow(workspace[t].leaves, p, 0)
    <2>1. /\ new \in Layouts
          /\ Shown(new) \subseteq Shown(workspace[t].leaves)
          /\ Marks(new) \subseteq Marks(workspace[t].leaves)
        BY <1>1, SetWindowFacts
    <2> HIDE DEF new
    <2>2. Update(t, new, p)
        BY <1>3 DEF new
    <2>3. QED
        BY <2>1, <2>2, UpdateGoesOn
<1>4. QED
    BY <1>2, <1>3 DEF Reattach

\* A sequence of one element
LEMMA OneElement ==
    ASSUME NEW S, NEW e \in S
    PROVE  /\ <<e>> \in Seq(S) /\ ToSet(<<e>>) = {e}
           /\ Once(<<e>>)
BY DEF ToSet, Once

\* initializeWorkspace
LEMMA NewWorkspaceGoesOn ==
    ASSUME IInv, NEW t \in Tabs, NewWorkspace(t), UNCHANGED stored
    PROVE  SpacesGoOn
<1> DEFINE leaf == Leaf(panes + 1, blanks + 1, 0, 0)
           leaves == <<leaf>>
           open == <<blanks + 1>>
<1>1. leaf \in Panes /\ leaf.window = 0 /\ leaf.buffer = blanks + 1
    BY DEF IInv, WindowInv, Leaf, Panes, Names
<1>2. workspace' = [workspace EXCEPT ![t] =
          [leaves |-> leaves, focus |-> panes + 1, open |-> open]]
    BY DEF NewWorkspace
<1> HIDE DEF leaf
<1>3. leaves \in Layouts /\ ToSet(leaves) = {leaf}
    BY <1>1, OneElement DEF Layouts
<1>4. blanks + 1 \in Names
    BY DEF IInv, WindowInv, Names
<1>5. open \in Seq(Names) /\ ToSet(open) = {blanks + 1} /\ Once(open)
    BY <1>4, OneElement
<1> HIDE DEF leaves, open
<1>6. Shown(leaves) = {blanks + 1} /\ Marks(leaves) \subseteq Known(t)
    BY <1>1, <1>3 DEF Shown, Marks
<1>7. buffers' = buffers \cup {blanks + 1}
    BY DEF NewWorkspace
<1>8. /\ Shown(leaves) \subseteq buffers' \cap ToSet(open)
      /\ \A u \in Tabs \ {t} : Shown(workspace[u].leaves) \subseteq buffers'
    BY <1>5, <1>6, <1>7 DEF IInv, BufferInv
<1>9. QED
    BY <1>2, <1>3, <1>5, <1>6, <1>8, WriteGoesOn

\* openFileInPane
LEMMA PutGoesOn ==
    ASSUME IInv, NEW t \in Tabs, NEW p, NEW b \in Names, PutInPane(t, p, b)
    PROVE  SpacesGoOn
<1> DEFINE r == workspace[t]
           l == workspace[t].leaves
           f == workspace[t].focus
           o == workspace[t].open
           leaves == SetBuffer(l, p, b)
           open == IF b \in ToSet(o) THEN o ELSE Append(o, b)
<1>1. CASE UNCHANGED <<buffers, workspace, stored>>
    BY <1>1, QuietGoesOn
<1>2. CASE Has(workspace[t].leaves, p)
    <2>1. /\ buffers' = buffers \cup {b}
          /\ workspace' = [workspace EXCEPT
                 ![t].leaves = SetBuffer(@, p, b),
                 ![t].open = IF b \in ToSet(@) THEN @ ELSE Append(@, b),
                 ![t].focus = p]
          /\ PersistLater(t)
        BY <1>2 DEF PutInPane
    <2>2. PICK F : workspace \in [Tabs -> Space(F)]
        BY DEF IInv, SpaceInv
    <2>3. r = [leaves |-> l, focus |-> f, open |-> o]
        BY <2>2 DEF Space
    <2>4. workspace' = [workspace EXCEPT ![t] =
              [r EXCEPT !.leaves = leaves, !.open = open, !.focus = p]]
        BY <2>1, <2>2
    <2>5. l \in Layouts /\ o \in Seq(Names) /\ Once(o)
        BY SpaceFacts DEF IInv, StripInv
    <2>6. \A u \in Tabs : Shown(workspace[u].leaves) \subseteq buffers
        BY DEF IInv, BufferInv
    <2>7. Shown(l) \subseteq ToSet(o)
        BY DEF IInv, BufferInv
    <2> HIDE DEF r, l, f, o
    <2>8. /\ leaves \in Layouts
          /\ Shown(leaves) \subseteq Shown(l) \cup {b}
          /\ Marks(leaves) \subseteq Marks(l)
        BY <2>5, SetBufferFacts
    <2>9. open \in Seq(Names) /\ ToSet(open) = ToSet(o) \cup {b} /\ Once(open)
        <3>1. CASE b \in ToSet(o)
            BY <2>5, <3>1
        <3>2. CASE b \notin ToSet(o)
            <4> DEFINE n == Append(o, b)
            <4>1. n \in Seq(Names) /\ ToSet(n) = ToSet(o) \cup {b}
                BY <2>5, ToSetAppend
            <4>2. /\ Len(n) = Len(o) + 1 /\ Len(o) \in Nat
                  /\ DOMAIN n = 1..Len(n) /\ DOMAIN o = 1..Len(o)
                  /\ \A k \in 1..Len(o) : n[k] = o[k] /\ n[k] # b
                  /\ n[Len(o) + 1] = b
                <5>1. Len(o) \in Nat /\ DOMAIN o = 1..Len(o)
                    BY <2>5, LenProperties
                <5>2. /\ Len(n) = Len(o) + 1
                      /\ \A k \in 1..Len(o) : n[k] = o[k]
                      /\ n[Len(o) + 1] = b
                    BY <2>5, AppendProperties
                <5>3. DOMAIN n = 1..Len(n)
                    BY <4>1, LenProperties
                <5>4. \A k \in 1..Len(o) : o[k] # b
                    BY <3>2, <5>1 DEF ToSet
                <5>5. QED
                    BY <5>1, <5>2, <5>3, <5>4
            <4> HIDE DEF n
            <4>3. ASSUME NEW i \in DOMAIN n, NEW j \in DOMAIN n, n[i] = n[j]
                  PROVE  i = j
                <5>1. /\ i \in 1..Len(o) \/ i = Len(o) + 1
                      /\ j \in 1..Len(o) \/ j = Len(o) + 1
                    BY <4>2
                <5>2. CASE i \in 1..Len(o) /\ j \in 1..Len(o)
                    <6>1. o[i] = o[j]
                        BY <4>2, <4>3, <5>2
                    <6>2. QED
                        BY <2>5, <4>2, <5>2, <6>1 DEF Once
                <5>3. QED
                    BY <4>2, <4>3, <5>1, <5>2
            <4>4. Once(n)
                BY <4>3 DEF Once
            <4>5. open = n
                BY <3>2 DEF n
            <4>6. QED
                BY <4>1, <4>4, <4>5
        <3>3. QED
            BY <3>1, <3>2
    <2> HIDE DEF leaves, open
    <2>10. [r EXCEPT !.leaves = leaves, !.open = open, !.focus = p]
              = [leaves |-> leaves, focus |-> p, open |-> open]
        <3>1. [r EXCEPT !.leaves = leaves]
                  = [leaves |-> leaves, focus |-> f, open |-> o]
            BY <2>3
        <3>2. [[leaves |-> leaves, focus |-> f, open |-> o] EXCEPT !.open = open]
                  = [leaves |-> leaves, focus |-> f, open |-> open]
            OBVIOUS
        <3>3. [[leaves |-> leaves, focus |-> f, open |-> open] EXCEPT !.focus = p]
                  = [leaves |-> leaves, focus |-> p, open |-> open]
            OBVIOUS
        <3>4. [r EXCEPT !.leaves = leaves, !.open = open, !.focus = p]
                  = [[[r EXCEPT !.leaves = leaves] EXCEPT !.open = open]
                        EXCEPT !.focus = p]
            OBVIOUS
        <3>5. QED
            BY <3>1, <3>2, <3>3, <3>4, Zenon
    <2>11. workspace' = [workspace EXCEPT ![t] =
               [leaves |-> leaves, focus |-> p, open |-> open]]
        BY <2>4, <2>10, Zenon
    <2>12. Shown(leaves) \subseteq buffers' \cap ToSet(open)
        <3>1. Shown(l) \subseteq buffers
            BY <2>6 DEF l
        <3>2. QED
            BY <2>1, <2>7, <2>8, <2>9, <3>1
    <2>13. \A u \in Tabs \ {t} : Shown(workspace[u].leaves) \subseteq buffers'
        BY <2>1, <2>6
    <2>14. Marks(leaves) \subseteq Known(t)
        BY <2>8, KnownIs DEF l
    <2>15. leaves \in Layouts /\ open \in Seq(Names) /\ Once(open)
        BY <2>8, <2>9
    <2>16. PersistLater(t)
        BY <2>1
    <2>17. QED
        BY <2>11, <2>12, <2>13, <2>14, <2>15, <2>16, WriteGoesOn
<1>3. QED
    BY <1>1, <1>2 DEF PutInPane

\* The buffers of a layout are used.
LEMMA UsedFacts ==
    ASSUME NEW ws, NEW u \in Tabs
    PROVE  Shown(ws[u].leaves) \subseteq Used(ws)
BY DEF Shown, Used

\* closeBuffer
LEMMA CloseGoesOn ==
    ASSUME IInv, NEW t \in Tabs, NEW b, CloseBuffer(t, b)
    PROVE  SpacesGoOn
<1> DEFINE r == workspace[t]
           l == workspace[t].leaves
           f == workspace[t].focus
           o == workspace[t].open
           i == CHOOSE k \in DOMAIN o : o[k] = b
           rest == RemoveAt(o, i)
           next == IF rest = <<>> THEN blanks + 1
                   ELSE rest[IF i <= Len(rest) THEN i ELSE Len(rest)]
           open == IF rest = <<>> THEN <<next>> ELSE rest
           leaves == Replace(l, b, next)
           after == [workspace EXCEPT
               ![t].leaves = Replace(@, b, next),
               ![t].open = IF rest = <<>> THEN <<next>> ELSE rest]
<1>1. CASE UNCHANGED <<buffers, workspace, stored>>
    BY <1>1, QuietGoesOn
<1>2. CASE b \in ToSet(o)
    <2>1. /\ workspace' = after
          /\ buffers' = (buffers \cup {next})
                            \ (IF b \in Used(after) THEN {} ELSE {b})
          /\ PersistLater(t)
        BY <1>2 DEF CloseBuffer
    <2>2. PICK F : workspace \in [Tabs -> Space(F)]
        BY DEF IInv, SpaceInv
    <2>3. r = [leaves |-> l, focus |-> f, open |-> o]
        BY <2>2 DEF Space
    <2>4. after = [workspace EXCEPT ![t] =
              [r EXCEPT !.leaves = leaves, !.open = open]]
        <3> HIDE DEF next, rest
        <3>1. QED
            BY <2>2
    <2>5. l \in Layouts /\ o \in Seq(Names) /\ Once(o)
        BY SpaceFacts DEF IInv, StripInv
    <2>6. \A u \in Tabs : Shown(workspace[u].leaves) \subseteq buffers
        BY DEF IInv, BufferInv
    <2>7. Shown(l) \subseteq ToSet(o)
        BY DEF IInv, BufferInv
    <2>8. blanks + 1 \in Names
        BY DEF IInv, WindowInv, Names
    <2>9. i \in DOMAIN o /\ o[i] = b
        BY <1>2 DEF ToSet
    <2> HIDE DEF r, l, f, o, i, after
    <2>10. /\ rest \in Seq(Names)
           /\ Len(o) \in Nat /\ DOMAIN o = 1..Len(o) /\ i \in 1..Len(o)
           /\ Len(rest) = Len(o) - 1 /\ DOMAIN rest = 1..Len(rest)
           /\ \A k \in 1..Len(o) - 1 : rest[k] = IF k < i THEN o[k] ELSE o[k + 1]
           /\ \A e \in ToSet(o) : e # b => e \in ToSet(rest)
        <3>1. Len(o) \in Nat /\ DOMAIN o = 1..Len(o)
            BY <2>5, LenProperties
        <3>2. /\ rest \in Seq(Names) /\ Len(rest) = Len(o) - 1
              /\ \A k \in 1..Len(o) - 1 :
                     rest[k] = IF k < i THEN o[k] ELSE o[k + 1]
            BY <2>5, <2>9, RemoveAtIs
        <3>3. \A e \in ToSet(o) : e # b => e \in ToSet(rest)
            BY <2>5, <2>9, ToSetRemove
        <3>4. DOMAIN rest = 1..Len(rest)
            BY <3>2, LenProperties
        <3>5. QED
            BY <2>9, <3>1, <3>2, <3>3, <3>4
    <2> HIDE DEF rest
    <2>11. Once(rest)
        <3>1. ASSUME NEW j \in 1..Len(o) - 1, NEW k \in 1..Len(o) - 1,
                     rest[j] = rest[k]
              PROVE  j = k
            <4> DEFINE at(n) == IF n < i THEN n ELSE n + 1
            <4>1. at(j) \in 1..Len(o) /\ at(k) \in 1..Len(o)
                BY <2>10
            <4>2. rest[j] = o[at(j)] /\ rest[k] = o[at(k)]
                BY <2>10
            <4>3. at(j) = at(k)
                <5>1. o[at(j)] = o[at(k)]
                    BY <3>1, <4>2
                <5> HIDE DEF at
                <5>2. QED
                    BY <2>5, <2>10, <4>1, <5>1 DEF Once
            <4>4. QED
                BY <2>10, <4>3
        <3>2. QED
            BY <2>10, <3>1 DEF Once
    <2>12. rest # <<>> =>
               LET k == IF i <= Len(rest) THEN i ELSE Len(rest) IN
               k \in 1..Len(rest) /\ rest[k] \in Names /\ rest[k] \in ToSet(rest)
        <3>1. rest # <<>> => Len(rest) \in Nat \ {0}
            BY <2>10, EmptySeq
        <3>2. \A k \in 1..Len(rest) : rest[k] \in Names /\ rest[k] \in ToSet(rest)
            BY <2>10, ElementOfSeq DEF ToSet
        <3>3. rest # <<>> =>
                  (IF i <= Len(rest) THEN i ELSE Len(rest)) \in 1..Len(rest)
            BY <2>10, <3>1
        <3>4. QED
            BY <3>2, <3>3
    <2>13. /\ next \in Names
           /\ rest # <<>> => next \in ToSet(rest)
        BY <2>8, <2>12
    <2> HIDE DEF next
    <2>14. /\ open \in Seq(Names) /\ Once(open)
           /\ next \in ToSet(open)
           /\ \A e \in ToSet(o) : e # b => e \in ToSet(open)
        <3>1. CASE rest = <<>>
            <4>1. ToSet(rest) = {}
                BY <3>1 DEF ToSet
            <4>2. /\ <<next>> \in Seq(Names) /\ ToSet(<<next>>) = {next}
                  /\ Once(<<next>>)
                BY <2>13, OneElement
            <4>3. open = <<next>>
                BY <3>1
            <4> HIDE DEF open
            <4>4. QED
                BY <2>10, <4>1, <4>2, <4>3
        <3>2. CASE rest # <<>>
            BY <2>10, <2>11, <2>13, <3>2
        <3>3. QED
            BY <3>1, <3>2
    <2>15. /\ leaves \in Layouts
           /\ Shown(leaves) \subseteq (Shown(l) \ {b}) \cup {next}
           /\ Marks(leaves) \subseteq Marks(l)
        BY <2>5, <2>13, ReplaceFacts
    <2> HIDE DEF leaves, open
    <2>16. [r EXCEPT !.leaves = leaves, !.open = open]
              = [leaves |-> leaves, focus |-> f, open |-> open]
        <3>1. [r EXCEPT !.leaves = leaves] = [leaves |-> leaves, focus |-> f, open |-> o]
            BY <2>3
        <3>2. [[leaves |-> leaves, focus |-> f, open |-> o] EXCEPT !.open = open]
                  = [leaves |-> leaves, focus |-> f, open |-> open]
            OBVIOUS
        <3>3. [r EXCEPT !.leaves = leaves, !.open = open]
                  = [[r EXCEPT !.leaves = leaves] EXCEPT !.open = open]
            OBVIOUS
        <3>4. QED
            BY <3>1, <3>2, <3>3, Zenon
    <2>17. after = [workspace EXCEPT ![t] =
               [leaves |-> leaves, focus |-> f, open |-> open]]
        BY <2>4, <2>16, Zenon
    <2>18. after[t].leaves = leaves /\ \A u \in Tabs \ {t} : after[u] = workspace[u]
        BY <2>2, <2>17
    <2>19. Shown(leaves) \subseteq buffers'
        <3>1. Shown(leaves) \subseteq Used(after)
            BY <2>18, UsedFacts
        <3>2. Shown(l) \subseteq buffers
            BY <2>6 DEF l
        <3>3. QED
            BY <2>1, <2>15, <3>1, <3>2
    <2>20. ASSUME NEW u \in Tabs \ {t}
           PROVE  Shown(workspace[u].leaves) \subseteq buffers'
        <3>1. Shown(workspace[u].leaves) \subseteq Used(after)
            BY <2>18, UsedFacts
        <3>2. QED
            BY <2>1, <2>6, <3>1
    <2>21. Shown(leaves) \subseteq ToSet(open)
        BY <2>7, <2>14, <2>15
    <2>22. Marks(leaves) \subseteq Known(t)
        BY <2>15, KnownIs DEF l
    <2>23. /\ workspace' = [workspace EXCEPT ![t] =
                 [leaves |-> leaves, focus |-> f, open |-> open]]
           /\ PersistLater(t)
        BY <2>1, <2>17
    <2>24. /\ leaves \in Layouts /\ open \in Seq(Names) /\ Once(open)
           /\ Shown(leaves) \subseteq buffers' \cap ToSet(open)
        BY <2>14, <2>15, <2>19, <2>21
    <2>25. QED
        BY <2>20, <2>22, <2>23, <2>24, WriteGoesOn
<1>3. QED
    BY <1>1, <1>2 DEF CloseBuffer

\* Finitely many buffers are shown.
LEMMA ShownFinite ==
    ASSUME NEW leaves \in Layouts
    PROVE  IsFiniteSet(Shown(leaves)) /\ Shown(leaves) \subseteq Names
<1> DEFINE f == [l \in ToSet(leaves) |-> l.buffer]
<1>1. IsFiniteSet(ToSet(leaves)) /\ ToSet(leaves) \subseteq Panes
    BY ToSetFinite, ToSetIs DEF Layouts
<1>2. f \in Surjection(ToSet(leaves), Shown(leaves))
    BY DEF Surjection, Shown
<1>3. Shown(leaves) \subseteq Names
    BY <1>1 DEF Shown, Panes
<1>4. QED
    BY <1>1, <1>2, <1>3, FS_Surjection

\* loadWorkspaceLayout
LEMMA LoadGoesOn ==
    ASSUME IInv, NEW task \in tasks, Load(task)
    PROVE  SpacesGoOn
<1> DEFINE t == task.tab
           row == task.row
           leaves == Restore(row.leaves, task.live)
           shown == {l.buffer : l \in ToSet(leaves)}
           open == SetToSeq(shown)
<1>1. t \in Tabs
    BY DEF IInv, TaskInv, Typed
<1>2. /\ row.leaves \in Layouts
      /\ Marks(row.leaves) \subseteq Known(t)
    <2>1. task.do = "load" /\ MarksOf(task) \subseteq Known(t)
        BY KnownIs DEF Load
    <2>2. QED
        BY <2>1 DEF IInv, TaskInv, Typed, MarksOf
<1>3. CASE row # Closed
    <2>1. /\ buffers' = buffers \cup shown
          /\ workspace' = [workspace EXCEPT ![t] =
               [leaves |-> leaves, focus |-> row.focus, open |-> open]]
          /\ stored' = stored \/ PersistLater(t)
        BY <1>3 DEF Load
    <2>2. leaves \in Layouts /\ Marks(leaves) \subseteq Marks(row.leaves)
        BY <1>2, RestoreFacts
    <2>3. shown = Shown(leaves)
        BY DEF Shown
    <2> HIDE DEF t, row, leaves, shown
    <2>4. IsFiniteSet(shown) /\ shown \subseteq Names
        BY <2>2, <2>3, ShownFinite
    <2>5. open \in Seq(shown) /\ ToSet(open) = shown /\ Once(open)
        BY <2>4, SetToSeqFacts
    <2> HIDE DEF open
    <2>6. open \in Seq(Names)
        BY <2>4, <2>5
    <2>7. /\ Shown(leaves) \subseteq buffers' \cap ToSet(open)
          /\ \A u \in Tabs \ {t} : Shown(workspace[u].leaves) \subseteq buffers'
        BY <2>1, <2>3, <2>5 DEF IInv, BufferInv
    <2>8. Marks(leaves) \subseteq Known(t)
        BY <1>2, <2>2
    <2>9. QED
        BY <1>1, <2>1, <2>2, <2>5, <2>6, <2>7, <2>8, WriteGoesOn
<1>4. CASE row = Closed
    <2>1. UNCHANGED stored
        BY <1>4 DEF Load
    <2>2. UNCHANGED <<buffers, workspace>> \/ NewWorkspace(t)
        BY <1>4 DEF Load
    <2>3. QED
        BY <1>1, <2>1, <2>2, QuietGoesOn, NewWorkspaceGoesOn
<1>5. QED
    BY <1>3, <1>4

\* A closed tab shows nothing.
LEMMA ClosedFacts ==
    /\ Closed = [leaves |-> <<>>, focus |-> 0, open |-> <<>>]
    /\ Closed.leaves = <<>> /\ Closed.focus = 0 /\ Closed.open = <<>>
    /\ <<>> \in Layouts /\ <<>> \in Seq(Names)
    /\ Shown(<<>>) = {} /\ Marks(<<>>) = {} /\ Once(<<>>)
<1>1. ToSet(<<>>) = {}
    BY DEF ToSet
<1>2. Closed.leaves = <<>> /\ Closed.focus = 0 /\ Closed.open = <<>>
    BY DEF Closed
<1>3. QED
    BY <1>1, <1>2 DEF Closed, Shown, Marks, Once, Layouts

\* resetWorkspace
LEMMA ResetGoesOn ==
    ASSUME IInv, NEW task \in tasks, Reset(task)
    PROVE  SpacesGoOn
<1> DEFINE t == task.tab
           rest == [workspace EXCEPT ![t] = Closed]
<1>1. t \in Tabs
    BY DEF IInv, TaskInv, Typed
<1>2. workspace' = rest /\ buffers' = buffers \cap Used(rest) /\ stored' = stored
    BY DEF Reset
<1>3. \A u \in Tabs \ {t} : rest[u] = workspace[u]
    BY <1>1 DEF IInv, SpaceInv
<1>4. workspace' = [workspace EXCEPT ![t] =
          [leaves |-> <<>>, focus |-> 0, open |-> <<>>]]
    BY <1>2, ClosedFacts
<1> HIDE DEF t, rest
<1>5. ASSUME NEW u \in Tabs \ {t}
      PROVE  Shown(workspace[u].leaves) \subseteq buffers'
    <2>1. Shown(rest[u].leaves) \subseteq Used(rest)
        BY UsedFacts
    <2>2. QED
        BY <1>2, <1>3, <2>1 DEF IInv, BufferInv
<1>6. QED
    BY <1>1, <1>2, <1>4, <1>5, ClosedFacts, WriteGoesOn

\* splitPane
LEMMA SplitGoesOn ==
    ASSUME IInv, NEW t \in Tabs, NEW i \in DOMAIN workspace[t].leaves,
           Split(t, i)
    PROVE  SpacesGoOn
<1> DEFINE leaves == workspace[t].leaves
           old == [leaves[i] EXCEPT !.depth = @ + 1]
           new == [old EXCEPT !.pane = panes + 1]
           both == InsertAt([leaves EXCEPT ![i] = old], i + 1, new)
<1>1. leaves \in Layouts /\ panes + 1 \in Nat
    BY SpaceFacts DEF IInv, WindowInv
<1>2. /\ leaves[i].window = 0
      /\ Update(t, both, panes + 1)
      /\ UNCHANGED buffers
    BY DEF Split
<1>3. /\ both \in Layouts
      /\ Shown(both) \subseteq Shown(leaves)
      /\ Marks(both) \subseteq Marks(leaves)
    BY <1>1, <1>2, SplitFacts
<1> HIDE DEF both
<1>4. QED
    BY <1>2, <1>3, UpdateGoesOn

\* closePane
LEMMA ClosePaneGoesOn ==
    ASSUME IInv, NEW t \in Tabs, NEW i \in DOMAIN workspace[t].leaves,
           ClosePane(t, i)
    PROVE  SpacesGoOn
<1> DEFINE leaves == workspace[t].leaves
           rest == RemovePane(leaves, i)
           focus == IF workspace[t].focus = leaves[i].pane
                    THEN Attached(rest)[1].pane ELSE workspace[t].focus
<1>1. leaves \in Layouts
    BY SpaceFacts DEF IInv
<1>2. Update(t, rest, focus) /\ UNCHANGED buffers
    BY DEF ClosePane
<1>3. /\ rest \in Layouts
      /\ Shown(rest) \subseteq Shown(leaves)
      /\ Marks(rest) \subseteq Marks(leaves)
    BY <1>1, RemovePaneFacts
<1> HIDE DEF rest, focus
<1>4. QED
    BY <1>2, <1>3, UpdateGoesOn

\* Another pane comes into focus.
LEMMA FocusGoesOn ==
    ASSUME IInv, NEW t \in Tabs, NEW i \in DOMAIN workspace[t].leaves,
           FocusPane(t, i)
    PROVE  SpacesGoOn
<1>1. workspace[t].leaves \in Layouts
    BY SpaceFacts DEF IInv
<1>2. Update(t, workspace[t].leaves, workspace[t].leaves[i].pane)
          /\ UNCHANGED buffers
    BY DEF FocusPane
<1>3. QED
    BY <1>1, <1>2, UpdateGoesOn

-----------------------------------------------------------------------------
(* Windows and handlers *)

\* A step that leaves the windows and their notices alone
LEMMA QuietWindows ==
    ASSUME IInv, UNCHANGED <<windows, notices, made>>,
           panes' \in Nat, blanks' \in Nat
    PROVE  WindowsGoOn
<1>1. WindowInv'
    BY DEF IInv, WindowInv
<1>2. QED
    BY <1>1 DEF WindowsGoOn

\* close_detached_editor_window
LEMMA DestroyGoesOn ==
    ASSUME IInv, NEW w, Destroy(w), UNCHANGED made,
           panes' \in Nat, blanks' \in Nat
    PROVE  WindowsGoOn
<1>1. CASE w \notin DOMAIN windows
    BY <1>1, QuietWindows DEF Destroy
<1>2. CASE w \in DOMAIN windows
    <2> DEFINE n == [tab |-> windows[w].tab, pane |-> windows[w].pane,
                     window |-> w]
    <2>1. /\ windows' = [v \in DOMAIN windows \ {w} |-> windows[v]]
          /\ notices' = Append(notices, n)
        BY <1>2 DEF Destroy
    <2>2. /\ DOMAIN windows \subseteq 1..made /\ made \in Nat
          /\ \A v \in DOMAIN windows : windows[v] \in [tab : Tabs, pane : Nat]
          /\ notices \in Seq(Notices)
        BY DEF IInv, WindowInv
    <2>3. n \in Notices
        BY <1>2, <2>2 DEF Notices
    <2> HIDE DEF n
    <2>4. notices' \in Seq(Notices) /\ ToSet(notices') = ToSet(notices) \cup {n}
        BY <2>1, <2>2, <2>3, ToSetAppend
    <2>5. WindowInv'
        BY <2>1, <2>2, <2>4 DEF WindowInv
    <2>6. QED
        BY <2>1, <2>4, <2>5 DEF WindowsGoOn, n
<1>3. QED
    BY <1>1, <1>2

\* tab_close_editor
LEMMA CloseTabWindows ==
    ASSUME IInv, NEW t \in Tabs, AskCloseTab(t)
    PROVE  WindowsGoOn
<1> DEFINE gone == {w \in DOMAIN windows : windows[w].tab = t}
           N == {[tab |-> t, pane |-> windows[w].pane, window |-> w] : w \in gone}
<1>1. /\ windows' = [w \in DOMAIN windows \ gone |-> windows[w]]
      /\ notices' = notices \o SetToSeq(N)
      /\ UNCHANGED <<panes, blanks, made>>
    BY DEF AskCloseTab, counts
<1>2. /\ DOMAIN windows \subseteq 1..made
      /\ panes \in Nat /\ blanks \in Nat /\ made \in Nat
      /\ \A w \in DOMAIN windows : windows[w] \in [tab : Tabs, pane : Nat]
      /\ notices \in Seq(Notices)
    BY DEF IInv, WindowInv
<1>3. gone \subseteq DOMAIN windows /\ \A w \in gone : windows[w].tab = t
    OBVIOUS
<1>4. IsFiniteSet(gone)
    <2>1. IsFiniteSet(1..made) /\ gone \subseteq 1..made
        BY <1>2, <1>3, FS_Interval
    <2>2. QED
        BY <2>1, FS_Subset
<1>5. IsFiniteSet(N)
    <2> DEFINE f == [w \in gone |->
                        [tab |-> t, pane |-> windows[w].pane, window |-> w]]
    <2>1. f \in Surjection(gone, N)
        BY DEF Surjection
    <2>2. QED
        BY <1>4, <2>1, FS_Surjection
<1>6. N \subseteq Notices
    BY <1>2 DEF Notices
<1>7. \A w \in gone : [tab |-> windows[w].tab, pane |-> windows[w].pane,
                       window |-> w] \in N
    BY <1>3
<1> HIDE DEF gone, N
<1>8. SetToSeq(N) \in Seq(Notices) /\ ToSet(SetToSeq(N)) = N
    BY <1>5, <1>6, SetToSeqFacts
<1>9. notices' \in Seq(Notices) /\ ToSet(notices') = ToSet(notices) \cup N
    BY <1>1, <1>2, <1>8, ToSetConcat
<1>10. DOMAIN windows' = DOMAIN windows \ gone
           /\ \A w \in DOMAIN windows' : windows'[w] = windows[w]
    BY <1>1
<1>11. WindowInv'
    BY <1>1, <1>2, <1>9, <1>10 DEF WindowInv
<1>12. QED
    BY <1>1, <1>7, <1>9, <1>10, <1>11 DEF WindowsGoOn

\* A handler that reads no row and makes no mark, and one that knows one
LEMMA MarksOfIs ==
    ASSUME NEW task
    PROVE  /\ task.do \notin {"load", "detach"} => MarksOf(task) = {}
           /\ task.do = "detach" /\ task.window = 0 => MarksOf(task) = {}
           /\ Making(task) => MarksOf(task) = {<<task.pane, task.window>>}
           /\ task.do = "load" => MarksOf(task) = Marks(task.row.leaves)
BY DEF MarksOf, Making

\* Handlers end and others start.
LEMMA TasksChange ==
    ASSUME IInv, NEW gone, NEW new,
           tasks' = (tasks \ gone) \cup new,
           ended \subseteq ended',
           \A task \in new :
               Typed(task) /\ MarksOf(task) \subseteq Known(task.tab)
    PROVE  TasksGoOn
<1>1. TaskInv'
    BY DEF IInv, TaskInv, Typed
<1>2. ASSUME NEW task \in tasks' PROVE MarksOf(task) \subseteq Known(task.tab)
    BY KnownIs
<1>3. QED
    BY <1>1, <1>2 DEF TasksGoOn

\* A handler starts, or none does.
LEMMA TaskStarts ==
    ASSUME IInv, NEW new, tasks' = tasks \cup new, UNCHANGED ended,
           \A task \in new :
               Typed(task) /\ MarksOf(task) \subseteq Known(task.tab)
    PROVE  TasksGoOn
<1> DEFINE gone == {}
           start == new
<1>1. /\ tasks' = (tasks \ gone) \cup start
      /\ ended \subseteq ended'
      /\ \A task \in start :
             Typed(task) /\ MarksOf(task) \subseteq Known(task.tab)
    OBVIOUS
<1> HIDE DEF gone, start
<1>2. QED
    BY <1>1, TasksChange

\* A handler ends.
LEMMA TaskEnds ==
    ASSUME IInv, NEW task \in tasks, tasks' = tasks \ {task},
           ended \subseteq ended'
    PROVE  TasksGoOn
<1> DEFINE gone == {task}
           start == {}
<1>1. /\ tasks' = (tasks \ gone) \cup start
      /\ \A other \in start :
             Typed(other) /\ MarksOf(other) \subseteq Known(other.tab)
    OBVIOUS
<1> HIDE DEF gone, start
<1>2. QED
    BY <1>1, TasksChange

\* applyDetachedEditorWindowClosed
LEMMA NoticeGoesOn ==
    ASSUME IInv, Notice
    PROVE  SpacesGoOn /\ WindowsGoOn /\ TasksGoOn
<1> DEFINE n == Head(notices)
           t == n.tab
           p == n.pane
<1>1. notices \in Seq(Notices) /\ notices # <<>> /\ notices' = Tail(notices)
    BY DEF IInv, WindowInv, Notice
<1>2. /\ n \in Notices /\ notices' \in Seq(Notices)
      /\ ToSet(notices) = {n} \cup ToSet(notices')
    BY <1>1, ToSetTail
<1>3. t \in Tabs /\ p \in Nat
    BY <1>2 DEF Notices
<1>4. workspace[t].leaves \in Layouts
    BY <1>3, SpaceFacts DEF IInv
<1>5. IF t \notin ended /\ \E l \in Leaves(t) : l.pane = p /\ l.window = n.window
      THEN Reattach(t, p) ELSE UNCHANGED <<workspace, stored>>
    BY DEF Notice
<1>6. UNCHANGED <<buffers, windows, tasks, ended, panes, blanks, made>>
    BY DEF Notice, counts
<1>7. Reattach(t, p) \/ UNCHANGED <<workspace, stored>>
    BY <1>5
<1> HIDE DEF n, t, p
<1>8. SpacesGoOn
    BY <1>3, <1>6, <1>7, QuietGoesOn, ReattachGoesOn
<1>9. t \notin ended => <<p, n.window>> \notin Marks(workspace'[t].leaves)
    <2> SUFFICES ASSUME t \notin ended
                 PROVE  <<p, n.window>> \notin Marks(workspace'[t].leaves)
        OBVIOUS
    <2>1. \A m \in Marks(workspace[t].leaves) :
              \E l \in Leaves(t) : l.window # 0 /\ m = <<l.pane, l.window>>
        BY DEF Marks, Leaves
    <2>2. CASE \E l \in Leaves(t) : l.pane = p /\ l.window # 0 /\ l.window = n.window
        <3> DEFINE new == SetWindow(workspace[t].leaves, p, 0)
        <3>1. Update(t, new, p)
            BY <1>5, <2>2 DEF Reattach
        <3>2. Marks(new) \subseteq {m \in Marks(workspace[t].leaves) : m[1] # p}
            BY <1>4, SetWindowFacts
        <3> HIDE DEF new
        <3>3. workspace'[t].leaves = new
            BY <1>3, <3>1 DEF Update, IInv, SpaceInv, Space
        <3>4. QED
            BY <3>2, <3>3
    <2>3. CASE ~ \E l \in Leaves(t) : l.pane = p /\ l.window # 0 /\ l.window = n.window
        <3>1. <<p, n.window>> \notin Marks(workspace[t].leaves)
            BY <2>1, <2>3
        <3>2. Marks(workspace'[t].leaves) \subseteq Marks(workspace[t].leaves)
            <4>1. CASE UNCHANGED workspace
                BY <4>1
            <4>2. CASE Update(t, SetWindow(workspace[t].leaves, p, 0), p)
                <5> DEFINE new == SetWindow(workspace[t].leaves, p, 0)
                <5>1. Marks(new) \subseteq Marks(workspace[t].leaves)
                    BY <1>4, SetWindowFacts
                <5> HIDE DEF new
                <5>2. workspace'[t].leaves = new
                    BY <1>3, <4>2 DEF Update, IInv, SpaceInv, Space, new
                <5>3. QED
                    BY <5>1, <5>2
            <4>3. QED
                BY <1>7, <4>1, <4>2 DEF Reattach
        <3>3. QED
            BY <3>1, <3>2
    <2>4. QED
        BY <2>2, <2>3
<1>10. WindowsGoOn
    <2>1. WindowInv'
        BY <1>2, <1>6 DEF IInv, WindowInv
    <2>2. \A m \in ToSet(notices) : m \notin ToSet(notices') => m = n
        BY <1>2
    <2>3. QED
        BY <1>6, <1>9, <2>1, <2>2 DEF WindowsGoOn, t, p
<1>11. TasksGoOn
    <2> DEFINE new == {}
    <2>1. tasks' = tasks \cup new
              /\ \A task \in new :
                     Typed(task) /\ MarksOf(task) \subseteq Known(task.tab)
        BY <1>6
    <2> HIDE DEF new
    <2>2. QED
        BY <1>6, <2>1, TaskStarts
<1>12. QED
    BY <1>8, <1>10, <1>11

\* No handler starts or ends, and no window goes.
LEMMA QuietTasks ==
    ASSUME IInv, UNCHANGED <<tasks, ended>>
    PROVE  TasksGoOn
<1> DEFINE new == {}
<1>1. tasks' = tasks \cup new
          /\ \A task \in new :
                 Typed(task) /\ MarksOf(task) \subseteq Known(task.tab)
    OBVIOUS
<1> HIDE DEF new
<1>2. QED
    BY <1>1, TaskStarts

-----------------------------------------------------------------------------
(* What the user does *)

LEMMA OpenKeeps ==
    ASSUME IInv, NEW t \in Tabs, Open(t)
    PROVE  IInv' /\ Hears
<1> DEFINE task == [do |-> "list", tab |-> t]
           new == {task}
<1>1. /\ NewWorkspace(t) /\ tasks' = tasks \cup new
      /\ UNCHANGED <<windows, notices, stored, ended, made>>
    BY DEF Open, Wait
<1>2. panes' \in Nat /\ blanks' \in Nat
    BY <1>1 DEF NewWorkspace, IInv, WindowInv
<1>3. task.tab = t /\ task.do = "list"
    OBVIOUS
<1> HIDE DEF task
<1>4. \A other \in new :
          Typed(other) /\ MarksOf(other) \subseteq Known(other.tab)
    BY <1>3, MarksOfIs DEF Typed
<1> HIDE DEF new
<1>5. SpacesGoOn
    BY <1>1, NewWorkspaceGoesOn
<1>6. WindowsGoOn
    BY <1>1, <1>2, QuietWindows
<1>7. TasksGoOn
    BY <1>1, <1>4, TaskStarts
<1>8. QED
    BY <1>5, <1>6, <1>7, GoOn

LEMMA AskCloseTabKeeps ==
    ASSUME IInv, NEW t \in Tabs, AskCloseTab(t)
    PROVE  IInv' /\ Hears
<1> DEFINE task == [do |-> "reset", tab |-> t]
           new == {task}
<1>1. /\ tasks' = tasks \cup new
      /\ UNCHANGED <<buffers, workspace, stored, ended>>
    BY DEF AskCloseTab, counts
<1>2. task.tab = t /\ task.do = "reset"
    OBVIOUS
<1> HIDE DEF task
<1>3. \A other \in new :
          Typed(other) /\ MarksOf(other) \subseteq Known(other.tab)
    BY <1>2, MarksOfIs DEF Typed
<1> HIDE DEF new
<1>4. SpacesGoOn
    BY <1>1, QuietGoesOn
<1>5. WindowsGoOn
    BY CloseTabWindows
<1>6. TasksGoOn
    BY <1>1, <1>3, TaskStarts
<1>7. QED
    BY <1>4, <1>5, <1>6, GoOn

LEMMA AskFileKeeps ==
    ASSUME IInv, NEW t \in Tabs, NEW f \in Files, AskFile(t, f)
    PROVE  IInv' /\ Hears
<1> DEFINE task == [do |-> "open", tab |-> t, pane |-> Target(t), file |-> f]
           new == {task}
<1>1. /\ tasks' = tasks \cup new
      /\ UNCHANGED <<buffers, workspace, windows, notices, stored, ended, made,
                     panes, blanks>>
    BY DEF AskFile, Wait, counts
<1>2. panes' \in Nat /\ blanks' \in Nat
    BY <1>1 DEF IInv, WindowInv
<1>3. task.tab = t /\ task.do = "open" /\ task.file = f
    OBVIOUS
<1> HIDE DEF task
<1>4. \A other \in new :
          Typed(other) /\ MarksOf(other) \subseteq Known(other.tab)
    BY <1>3, MarksOfIs DEF Typed
<1> HIDE DEF new
<1>5. SpacesGoOn
    BY <1>1, QuietGoesOn
<1>6. WindowsGoOn
    BY <1>1, <1>2, QuietWindows
<1>7. TasksGoOn
    BY <1>1, <1>4, TaskStarts
<1>8. QED
    BY <1>5, <1>6, <1>7, GoOn

LEMMA SelectKeeps ==
    ASSUME IInv, NEW t \in Tabs, NEW b \in Buffers, Select(t, b)
    PROVE  IInv' /\ Hears
<1> DEFINE c == IF b \in Files THEN b ELSE blanks'
<1>1. /\ PutInPane(t, Target(t), c)
      /\ blanks' = IF b \in Files THEN blanks ELSE blanks + 1
      /\ UNCHANGED <<windows, notices, tasks, ended, panes, made>>
    BY DEF Select
<1>2. panes' \in Nat /\ blanks' \in Nat
    BY <1>1 DEF IInv, WindowInv
<1>3. c \in Names
    BY <1>2 DEF Names
<1> HIDE DEF c
<1>4. SpacesGoOn
    BY <1>1, <1>3, PutGoesOn
<1>5. WindowsGoOn
    BY <1>1, <1>2, QuietWindows
<1>6. TasksGoOn
    BY <1>1, QuietTasks
<1>7. QED
    BY <1>4, <1>5, <1>6, GoOn

LEMMA AskCloseKeeps ==
    ASSUME IInv, NEW t \in Tabs, NEW b \in Buffers, AskClose(t, b)
    PROVE  IInv' /\ Hears
<1> DEFINE detached == {l \in Leaves(t) : l.buffer = b /\ l.window # 0}
           left == {<<l.pane, l.window>> : l \in detached}
           task == [do |-> "close", tab |-> t, buffer |-> b, left |-> left]
           new == {task}
<1>1. UNCHANGED <<windows, notices, ended, panes, made>>
    BY DEF AskClose
<1>2. panes' \in Nat /\ blanks' \in Nat
    <2>1. blanks' \in {blanks, blanks + 1}
        BY DEF AskClose, CloseBuffer
    <2>2. QED
        BY <1>1, <2>1 DEF IInv, WindowInv
<1>3. WindowsGoOn
    BY <1>1, <1>2, QuietWindows
<1>4. CASE CloseBuffer(t, b) /\ UNCHANGED tasks
    <2>1. SpacesGoOn
        BY <1>4, CloseGoesOn
    <2>2. TasksGoOn
        BY <1>1, <1>4, QuietTasks
    <2>3. QED
        BY <1>3, <2>1, <2>2, GoOn
<1>5. CASE tasks' = tasks \cup new /\ UNCHANGED <<buffers, workspace, stored>>
    <2>1. SpacesGoOn
        BY <1>5, QuietGoesOn
    <2>2. workspace[t].leaves \in Layouts
        BY SpaceFacts DEF IInv
    <2>3. ToSet(workspace[t].leaves) \subseteq Panes
        BY <2>2, ToSetIs DEF Layouts
    <2>4. left \subseteq Nat \X Nat
        BY <2>3 DEF Leaves, Panes
    <2>5. b \in Names
        BY DEF Buffers, Names
    <2> HIDE DEF left
    <2>6. task \in [do : {"close"}, tab : Tabs, buffer : Names,
                    left : SUBSET (Nat \X Nat)]
        BY <2>4, <2>5
    <2>7. task.do = "close" /\ task.tab = t /\ task.left = left
        OBVIOUS
    <2> HIDE DEF task
    <2>8. \A other \in new :
              Typed(other) /\ MarksOf(other) \subseteq Known(other.tab)
        BY <2>6, <2>7, MarksOfIs DEF Typed
    <2> HIDE DEF new
    <2>9. TasksGoOn
        BY <1>1, <1>5, <2>8, TaskStarts
    <2>10. QED
        BY <1>3, <2>1, <2>9, GoOn
<1>6. QED
    BY <1>4, <1>5 DEF AskClose, Wait

\* splitPane, closePane and a change of focus
LEMMA PanesKeep ==
    ASSUME IInv, NEW t \in Tabs, NEW i \in DOMAIN workspace[t].leaves,
           Split(t, i) \/ ClosePane(t, i) \/ FocusPane(t, i)
    PROVE  IInv' /\ Hears
<1>1. /\ UNCHANGED <<windows, notices, tasks, ended, made, blanks>>
      /\ panes' \in {panes, panes + 1}
    BY DEF Split, ClosePane, FocusPane, counts
<1>2. panes' \in Nat /\ blanks' \in Nat
    BY <1>1 DEF IInv, WindowInv
<1>3. SpacesGoOn
    BY SplitGoesOn, ClosePaneGoesOn, FocusGoesOn
<1>4. WindowsGoOn
    BY <1>1, <1>2, QuietWindows
<1>5. TasksGoOn
    BY <1>1, QuietTasks
<1>6. QED
    BY <1>3, <1>4, <1>5, GoOn

LEMMA AskDetachKeeps ==
    ASSUME IInv, NEW t \in Tabs, NEW i \in DOMAIN workspace[t].leaves,
           AskDetach(t, i)
    PROVE  IInv' /\ Hears
<1> DEFINE l == workspace[t].leaves[i]
           task == [do |-> "detach", tab |-> t, pane |-> l.pane, window |-> 0]
           new == {task}
<1>1. /\ tasks' = tasks \cup new
      /\ UNCHANGED <<buffers, workspace, windows, notices, stored, ended, made,
                     panes, blanks>>
    BY DEF AskDetach, Wait, counts
<1>2. panes' \in Nat /\ blanks' \in Nat
    BY <1>1 DEF IInv, WindowInv
<1>3. workspace[t].leaves \in Layouts
    BY SpaceFacts DEF IInv
<1>4. l \in Panes
    BY <1>3, LayoutIs
<1>5. task.tab = t /\ task.do = "detach" /\ task.window = 0
    OBVIOUS
<1>6. task \in [do : {"detach"}, tab : Tabs, pane : Nat, window : Nat]
    BY <1>4 DEF Panes
<1> HIDE DEF task
<1>7. \A other \in new :
          Typed(other) /\ MarksOf(other) \subseteq Known(other.tab)
    BY <1>5, <1>6, MarksOfIs DEF Typed
<1> HIDE DEF new
<1>8. SpacesGoOn
    BY <1>1, QuietGoesOn
<1>9. WindowsGoOn
    BY <1>1, <1>2, QuietWindows
<1>10. TasksGoOn
    BY <1>1, <1>7, TaskStarts
<1>11. QED
    BY <1>8, <1>9, <1>10, GoOn

\* bringPaneBack
LEMMA AskBackKeeps ==
    ASSUME IInv, NEW t \in Tabs, NEW i \in DOMAIN workspace[t].leaves,
           AskBack(t, i)
    PROVE  IInv' /\ Hears
<1> DEFINE l == workspace[t].leaves[i]
           task == [do |-> "back", tab |-> t, pane |-> l.pane]
           new == {task}
<1>1. /\ Destroy(l.window)
      /\ tasks' = tasks \cup new
      /\ UNCHANGED <<buffers, workspace, stored, ended, made, panes, blanks>>
    BY DEF AskBack, Wait, counts
<1>2. panes' \in Nat /\ blanks' \in Nat
    BY <1>1 DEF IInv, WindowInv
<1>3. task.tab = t /\ task.do = "back"
    OBVIOUS
<1> HIDE DEF task
<1>4. \A other \in new :
          Typed(other) /\ MarksOf(other) \subseteq Known(other.tab)
    BY <1>3, MarksOfIs DEF Typed
<1> HIDE DEF new
<1>5. SpacesGoOn
    BY <1>1, QuietGoesOn
<1>6. WindowsGoOn
    BY <1>1, <1>2, DestroyGoesOn
<1>7. TasksGoOn
    BY <1>1, <1>4, TaskStarts
<1>8. QED
    BY <1>5, <1>6, <1>7, GoOn

LEMMA CloseWindowKeeps ==
    ASSUME IInv, NEW w, CloseWindow(w)
    PROVE  IInv' /\ Hears
<1>1. /\ Destroy(w)
      /\ UNCHANGED <<buffers, workspace, tasks, stored, ended, made, panes,
                     blanks>>
    BY DEF CloseWindow, counts
<1>2. panes' \in Nat /\ blanks' \in Nat
    BY <1>1 DEF IInv, WindowInv
<1>3. SpacesGoOn
    BY <1>1, QuietGoesOn
<1>4. WindowsGoOn
    BY <1>1, <1>2, DestroyGoesOn
<1>5. TasksGoOn
    BY <1>1, QuietTasks
<1>6. QED
    BY <1>3, <1>4, <1>5, GoOn

\* The tabs mount again: who would have heard of what is lost is asking.
LEMMA RemountKeeps ==
    ASSUME IInv, Remount
    PROVE  IInv' /\ Hears
<1> DEFINE opened == {u \in Tabs \ ended : IsOpen(u)}
           new == {[do |-> "list", tab |-> t] : t \in opened}
<1>1. /\ \A t \in Tabs : ~Loading(t)
      /\ tasks' = tasks \cup new
      /\ notices' \in {notices, <<>>}
      /\ UNCHANGED <<buffers, workspace, windows, stored, ended, made, panes,
                     blanks>>
    BY DEF Remount, counts
<1>2. ASSUME NEW t \in opened
      PROVE  \E task \in new : task.do = "list" /\ task.tab = t
    <2> DEFINE task == [do |-> "list", tab |-> t]
    <2>1. task \in new
        OBVIOUS
    <2>2. task.do = "list" /\ task.tab = t
        OBVIOUS
    <2> HIDE DEF new, task
    <2>3. QED
        BY <2>1, <2>2
<1>3. ASSUME NEW other \in new PROVE other.do = "list" /\ other.tab \in Tabs
    <2>1. PICK t \in opened : other = [do |-> "list", tab |-> t]
        OBVIOUS
    <2>2. t \in Tabs
        OBVIOUS
    <2>3. QED
        BY <2>1, <2>2
<1> HIDE DEF new
<1>4. \A other \in new :
          Typed(other) /\ MarksOf(other) \subseteq Known(other.tab)
    BY <1>3, MarksOfIs DEF Typed
<1>5. SpacesGoOn
    BY <1>1, QuietGoesOn
<1>6. WindowsGoOn
    <2>1. WindowInv'
        <3>1. <<>> \in Seq(Notices)
            OBVIOUS
        <3>2. QED
            BY <1>1, <3>1 DEF IInv, WindowInv
    <2>2. ASSUME NEW n \in ToSet(notices)
          PROVE  \/ n.tab \in ended
                 \/ <<n.pane, n.window>> \notin Marks(workspace'[n.tab].leaves)
                 \/ ~Loading(n.tab) /\ Loading(n.tab)'
        <3>1. n.tab \in Tabs
            <4>1. ToSet(notices) \subseteq Notices
                BY ToSetIs DEF IInv, WindowInv
            <4>2. QED
                BY <4>1 DEF Notices
        <3>2. CASE n.tab \in opened
            BY <1>1, <1>2, <3>1, <3>2 DEF Loading
        <3>3. CASE n.tab \notin opened
            <4>1. n.tab \in ended \/ workspace[n.tab] = Closed
                BY <3>1, <3>3 DEF IsOpen
            <4>2. workspace[n.tab] = Closed => Marks(workspace[n.tab].leaves) = {}
                BY ClosedFacts
            <4>3. QED
                BY <1>1, <4>1, <4>2
        <3>4. QED
            BY <3>2, <3>3
    <2>3. QED
        BY <1>1, <2>1, <2>2 DEF WindowsGoOn
<1>7. TasksGoOn
    BY <1>1, <1>4, TaskStarts
<1>8. QED
    BY <1>5, <1>6, <1>7, GoOn

-----------------------------------------------------------------------------
(* What the backend's answers do *)

LEMMA ListWindowsKeeps ==
    ASSUME IInv, NEW task \in tasks, ListWindows(task)
    PROVE  IInv' /\ Hears
<1>1. PICK live :
          tasks' = (tasks \ {task}) \cup
                       {[do |-> "row", tab |-> task.tab, live |-> live]}
    BY DEF ListWindows
<1> DEFINE next == [do |-> "row", tab |-> task.tab, live |-> live]
           gone == {task}
           new == {next}
<1>2. /\ tasks' = (tasks \ gone) \cup new
      /\ UNCHANGED <<buffers, workspace, windows, notices, stored, ended, made,
                     panes, blanks>>
    BY <1>1 DEF ListWindows, counts
<1>3. panes' \in Nat /\ blanks' \in Nat
    BY <1>2 DEF IInv, WindowInv
<1>4. next.tab = task.tab /\ next.do = "row"
    OBVIOUS
<1> HIDE DEF next
<1>5. \A other \in new :
          Typed(other) /\ MarksOf(other) \subseteq Known(other.tab)
    BY <1>4, MarksOfIs DEF Typed, IInv, TaskInv
<1> HIDE DEF gone, new
<1>6. SpacesGoOn
    BY <1>2, QuietGoesOn
<1>7. WindowsGoOn
    BY <1>2, <1>3, QuietWindows
<1>8. TasksGoOn
    BY <1>2, <1>5, TasksChange
<1>9. QED
    BY <1>6, <1>7, <1>8, GoOn

\* panes_get_layout: the row that is carried on is the stored one, or none.
LEMMA ReadRowKeeps ==
    ASSUME IInv, NEW task \in tasks, ReadRow(task)
    PROVE  IInv' /\ Hears
<1>1. PICK row \in {stored[task.tab], Closed} :
          tasks' = (tasks \ {task}) \cup
                       {[do |-> "load", tab |-> task.tab, live |-> task.live,
                         row |-> row]}
    BY DEF ReadRow
<1> DEFINE next == [do |-> "load", tab |-> task.tab, live |-> task.live,
                    row |-> row]
           gone == {task}
           new == {next}
<1>2. /\ tasks' = (tasks \ gone) \cup new
      /\ UNCHANGED <<buffers, workspace, windows, notices, stored, ended, made,
                     panes, blanks>>
    BY <1>1 DEF ReadRow, counts
<1>3. panes' \in Nat /\ blanks' \in Nat
    BY <1>2 DEF IInv, WindowInv
<1>4. next.tab = task.tab /\ next.do = "load" /\ next.row = row
    OBVIOUS
<1>5. task.tab \in Tabs
    BY DEF IInv, TaskInv, Typed
<1>6. row.leaves \in Layouts /\ Marks(row.leaves) \subseteq Known(task.tab)
    <2>1. CASE row = stored[task.tab]
        BY <1>5, <2>1, SpaceFacts, KnownIs DEF IInv
    <2>2. CASE row = Closed
        BY <2>2, ClosedFacts
    <2>3. QED
        BY <2>1, <2>2
<1> HIDE DEF next
<1>7. \A other \in new :
          Typed(other) /\ MarksOf(other) \subseteq Known(other.tab)
    BY <1>4, <1>5, <1>6, MarksOfIs DEF Typed
<1> HIDE DEF gone, new
<1>8. SpacesGoOn
    BY <1>2, QuietGoesOn
<1>9. WindowsGoOn
    BY <1>2, <1>3, QuietWindows
<1>10. TasksGoOn
    BY <1>2, <1>7, TasksChange
<1>11. QED
    BY <1>8, <1>9, <1>10, GoOn

LEMMA LoadKeeps ==
    ASSUME IInv, NEW task \in tasks, Load(task)
    PROVE  IInv' /\ Hears
<1>1. /\ tasks' = tasks \ {task}
      /\ UNCHANGED <<windows, notices, ended, made>>
      /\ UNCHANGED <<panes, blanks>> \/ NewWorkspace(task.tab)
    BY DEF Load
<1>2. panes' \in Nat /\ blanks' \in Nat
    BY <1>1 DEF NewWorkspace, IInv, WindowInv
<1>3. SpacesGoOn
    BY LoadGoesOn
<1>4. WindowsGoOn
    BY <1>1, <1>2, QuietWindows
<1>5. TasksGoOn
    BY <1>1, TaskEnds
<1>6. QED
    BY <1>3, <1>4, <1>5, GoOn

LEMMA ResetKeeps ==
    ASSUME IInv, NEW task \in tasks, Reset(task)
    PROVE  IInv' /\ Hears
<1>1. /\ tasks' = tasks \ {task}
      /\ ended' = ended \cup {task.tab}
      /\ UNCHANGED <<windows, notices, panes, blanks, made>>
    BY DEF Reset
<1>2. panes' \in Nat /\ blanks' \in Nat
    BY <1>1 DEF IInv, WindowInv
<1>3. SpacesGoOn
    BY ResetGoesOn
<1>4. WindowsGoOn
    BY <1>1, <1>2, QuietWindows
<1>5. TasksGoOn
    BY <1>1, TaskEnds
<1>6. QED
    BY <1>3, <1>4, <1>5, GoOn

LEMMA FileArrivesKeeps ==
    ASSUME IInv, NEW task \in tasks, FileArrives(task)
    PROVE  IInv' /\ Hears
<1>1. /\ task.do = "open" /\ tasks' = tasks \ {task}
      /\ PutInPane(task.tab, task.pane, task.file)
      /\ UNCHANGED <<windows, notices, ended, panes, blanks, made>>
    BY DEF FileArrives, counts
<1>2. panes' \in Nat /\ blanks' \in Nat
    BY <1>1 DEF IInv, WindowInv
<1>3. task.tab \in Tabs /\ task.file \in Names
    BY <1>1 DEF IInv, TaskInv, Typed, Names
<1>4. SpacesGoOn
    BY <1>1, <1>3, PutGoesOn
<1>5. WindowsGoOn
    BY <1>1, <1>2, QuietWindows
<1>6. TasksGoOn
    BY <1>1, TaskEnds
<1>7. QED
    BY <1>4, <1>5, <1>6, GoOn

LEMMA BroughtBackKeeps ==
    ASSUME IInv, NEW task \in tasks, BroughtBack(task)
    PROVE  IInv' /\ Hears
<1>1. /\ task.do = "back" /\ tasks' = tasks \ {task}
      /\ Reattach(task.tab, task.pane)
      /\ UNCHANGED <<buffers, windows, notices, ended, panes, blanks, made>>
    BY DEF BroughtBack, counts
<1>2. panes' \in Nat /\ blanks' \in Nat
    BY <1>1 DEF IInv, WindowInv
<1>3. task.tab \in Tabs
    BY DEF IInv, TaskInv, Typed
<1>4. SpacesGoOn
    BY <1>1, <1>3, ReattachGoesOn
<1>5. WindowsGoOn
    BY <1>1, <1>2, QuietWindows
<1>6. TasksGoOn
    BY <1>1, TaskEnds
<1>7. QED
    BY <1>4, <1>5, <1>6, GoOn

\* closeOpenBuffer closes windows that were marked when it was asked.
LEMMA ClosingKeeps ==
    ASSUME IInv, NEW task \in tasks, Closing(task)
    PROVE  IInv' /\ Hears
<1>1. task.do = "close" /\ UNCHANGED <<ended, panes, made>>
    BY DEF Closing
<1>2. /\ task \in [do : {"close"}, tab : Tabs, buffer : Names,
                   left : SUBSET (Nat \X Nat)]
      /\ task.tab \in Tabs
    BY <1>1 DEF IInv, TaskInv, Typed
<1>3. CASE /\ tasks' = tasks \ {task}
           /\ CloseBuffer(task.tab, task.buffer)
           /\ UNCHANGED <<windows, notices>>
    <2>1. panes' \in Nat /\ blanks' \in Nat
        <3>1. blanks' \in {blanks, blanks + 1}
            BY <1>3 DEF CloseBuffer
        <3>2. QED
            BY <1>1, <3>1 DEF IInv, WindowInv
    <2>2. SpacesGoOn
        BY <1>2, <1>3, CloseGoesOn
    <2>3. WindowsGoOn
        BY <1>1, <1>3, <2>1, QuietWindows
    <2>4. TasksGoOn
        BY <1>1, <1>3, TaskEnds
    <2>5. QED
        BY <2>2, <2>3, <2>4, GoOn
<1>4. ASSUME NEW l \in task.left,
             Destroy(l[2]), Reattach(task.tab, l[1]),
             tasks' = (tasks \ {task}) \cup {[task EXCEPT !.left = @ \ {l}]},
             UNCHANGED <<buffers, blanks>>
      PROVE  IInv' /\ Hears
    <2> DEFINE w == l[2]
               rest == task.left \ {l}
               next == [task EXCEPT !.left = rest]
               gone == {task}
               new == {next}
    <2>1. next \in [do : {"close"}, tab : Tabs, buffer : Names,
                    left : SUBSET (Nat \X Nat)]
        BY <1>2
    <2>2. next.do = "close" /\ next.tab = task.tab /\ next.left = rest
        BY <1>2
    <2>3. tasks' = (tasks \ gone) \cup new
        BY <1>4
    <2> HIDE DEF next
    <2>4. \A other \in new :
              Typed(other) /\ MarksOf(other) \subseteq Known(other.tab)
        BY <1>2, <2>1, <2>2, MarksOfIs DEF Typed
    <2>5. Destroy(w) /\ UNCHANGED made /\ ended \subseteq ended'
        BY <1>1, <1>4
    <2> HIDE DEF w, gone, new
    <2>6. panes' \in Nat /\ blanks' \in Nat
        BY <1>1, <1>4 DEF IInv, WindowInv
    <2>7. SpacesGoOn
        BY <1>2, <1>4, ReattachGoesOn
    <2>8. WindowsGoOn
        BY <2>5, <2>6, DestroyGoesOn
    <2>9. TasksGoOn
        BY <2>3, <2>4, <2>5, TasksChange
    <2>10. QED
        BY <2>7, <2>8, <2>9, GoOn
<1>5. QED
    BY <1>3, <1>4 DEF Closing

\* The number of a known window is a number.
LEMMA KnownAre ==
    ASSUME IInv, NEW t \in Tabs
    PROVE  \A m \in Known(t) : m[2] \in Nat
<1>1. \A m \in Marks(workspace[t].leaves) \cup Marks(stored[t].leaves) :
          m[2] \in Nat
    BY SpaceFacts, MarksAre DEF IInv
<1>2. ASSUME NEW task \in tasks, NEW m \in MarksOf(task) PROVE m[2] \in Nat
    <2>1. CASE task.do = "load"
        BY <2>1, MarksOfIs, MarksAre DEF IInv, TaskInv, Typed
    <2>2. CASE Making(task)
        BY <2>2, MarksOfIs DEF Making, IInv, TaskInv, Typed
    <2>3. QED
        BY <2>1, <2>2 DEF MarksOf
<1>3. QED
    BY <1>1, <1>2 DEF Known

\* editor_detach_pane: the new window has a number nothing points to yet.
LEMMA MakeWindowKeeps ==
    ASSUME IInv, NEW task \in tasks, MakeWindow(task)
    PROVE  IInv' /\ Hears
<1> DEFINE of == [tab |-> task.tab, pane |-> task.pane]
           w == made + 1
           next == [task EXCEPT !.window = w]
<1>1. /\ task.do = "detach" /\ task.window = 0
      /\ UNCHANGED <<buffers, workspace, notices, stored, ended, panes, blanks>>
    BY DEF MakeWindow
<1>2. SpacesGoOn
    BY <1>1, QuietGoesOn
<1>3. CASE tasks' = tasks \ {task} /\ UNCHANGED <<windows, made>>
    <2>1. panes' \in Nat /\ blanks' \in Nat
        BY <1>1 DEF IInv, WindowInv
    <2>2. WindowsGoOn
        BY <1>1, <1>3, <2>1, QuietWindows
    <2>3. TasksGoOn
        BY <1>1, <1>3, TaskEnds
    <2>4. QED
        BY <1>2, <2>2, <2>3, GoOn
<1>4. CASE /\ made' = w
           /\ windows' = [v \in DOMAIN windows \cup {w} |->
                              IF v = w THEN of ELSE windows[v]]
           /\ tasks' = (tasks \ {task}) \cup {next}
    <2>1. /\ task \in [do : {"detach"}, tab : Tabs, pane : Nat, window : Nat]
          /\ made \in Nat /\ DOMAIN windows \subseteq 1..made
        BY <1>1 DEF IInv, TaskInv, Typed, WindowInv
    <2>2. /\ next \in [do : {"detach"}, tab : Tabs, pane : Nat, window : Nat]
          /\ next.do = "detach" /\ next.window = w /\ w # 0
          /\ next.tab = task.tab /\ next.pane = task.pane
          /\ of \in [tab : Tabs, pane : Nat]
        BY <2>1
    <2>3. /\ w \in DOMAIN windows' /\ windows'[w] = of
          /\ DOMAIN windows' = DOMAIN windows \cup {w}
          /\ \A v \in DOMAIN windows : windows'[v] = windows[v]
          /\ made' = made + 1
        BY <1>4, <2>1
    <2>4. of = [tab |-> next.tab, pane |-> next.pane]
        BY <2>2
    <2>5. /\ tasks' = (tasks \ {task}) \cup {next}
          /\ Making(next)
        BY <1>4, <2>2 DEF Making
    <2> HIDE DEF next, of
    <2>6. \A v, t, p : v # w /\ Fits(v, t, p) => Fits(v, t, p)'
        BY <2>3 DEF Fits
    <2>7. /\ \A v : v <= made => v # w
          /\ \A v \in Nat : v <= made => v <= made'
        BY <2>1, <2>3
    <2>8. made' = w /\ w <= made'
        BY <1>4, <2>1
    <2> HIDE DEF w
    <2>9. WindowInv'
        <3>1. \A v \in DOMAIN windows' : windows'[v] \in [tab : Tabs, pane : Nat]
            BY <2>2, <2>3 DEF IInv, WindowInv
        <3>2. DOMAIN windows' \subseteq 1..made'
            BY <2>1, <2>3, <2>8
        <3>3. QED
            BY <1>1, <2>1, <2>3, <3>1, <3>2 DEF IInv, WindowInv
    <2>10. TaskInv'
        BY <2>2, <2>5 DEF IInv, TaskInv, Typed
    <2>11. MarksOf(next) = {<<next.pane, w>>}
        BY <2>2, <2>5, MarksOfIs
    <2>12. ASSUME NEW t \in Tabs, NEW m \in Known(t)'
           PROVE  m \in Known(t) \/ (t = next.tab /\ m = <<next.pane, w>>)
        <3>1. Known(t)' = Marks(workspace[t].leaves) \cup Marks(stored[t].leaves)
                \cup UNION {MarksOf(k) : k \in {o \in tasks' : o.tab = t}}
            BY <1>1 DEF Known
        <3>2. \A k \in tasks' : k \in tasks \/ k = next
            BY <2>5
        <3>3. QED
            BY <2>11, <2>12, <3>1, <3>2, KnownIs
    <2>13. MarkInv'
        <3>1. ASSUME NEW t \in Tabs, NEW m \in Known(t)'
              PROVE  m[2] <= made' /\ Fits(m[2], t, m[1])'
            <4>1. CASE m \in Known(t)
                <5>1. m[2] <= made /\ Fits(m[2], t, m[1])
                    BY <4>1 DEF IInv, MarkInv
                <5>2. m[2] \in Nat
                    BY <4>1, KnownAre
                <5>3. QED
                    BY <2>6, <2>7, <5>1, <5>2
            <4>2. CASE t = next.tab /\ m = <<next.pane, w>>
                <5>1. m[1] = next.pane /\ m[2] = w
                    BY <4>2
                <5>2. windows'[w] = [tab |-> t, pane |-> m[1]]
                    BY <2>3, <2>4, <4>2, <5>1
                <5>3. Fits(m[2], t, m[1])'
                    BY <5>1, <5>2 DEF Fits
                <5>4. QED
                    BY <2>8, <5>1, <5>3
            <4>3. QED
                BY <2>12, <4>1, <4>2
        <3>2. QED
            BY <3>1 DEF MarkInv
    <2>14. Hears
        <3>1. \A v \in DOMAIN windows : v \in DOMAIN windows'
            BY <2>3
        <3>2. QED
            BY <1>1, <3>1 DEF Hears, Heard
    <2>15. QED
        BY <1>2, <2>9, <2>10, <2>13, <2>14 DEF IInv, SpacesGoOn
<1>5. QED
    BY <1>3, <1>4 DEF MakeWindow

\* markPaneDetached: the mark it makes is that of the window it waited for,
\* which may be gone by now.
LEMMA DetachedKeeps ==
    ASSUME IInv, NEW task \in tasks, Detached(task)
    PROVE  IInv' /\ Hears
<1> DEFINE t == task.tab
           p == task.pane
           w == task.window
<1>1. /\ Making(task) /\ task.do = "detach" /\ w # 0
      /\ tasks' = tasks \ {task}
      /\ UNCHANGED <<buffers, windows, notices, ended, panes, blanks, made>>
    BY DEF Detached, Making, counts
<1>2. t \in Tabs /\ p \in Nat /\ w \in Nat
    BY <1>1 DEF IInv, TaskInv, Typed
<1>3. CASE UNCHANGED <<workspace, stored>>
    <2>1. panes' \in Nat /\ blanks' \in Nat
        BY <1>1 DEF IInv, WindowInv
    <2>2. SpacesGoOn
        BY <1>1, <1>3, QuietGoesOn
    <2>3. WindowsGoOn
        BY <1>1, <2>1, QuietWindows
    <2>4. TasksGoOn
        BY <1>1, TaskEnds
    <2>5. QED
        BY <2>2, <2>3, <2>4, GoOn
<1>4. CASE Update(t, SetWindow(workspace[t].leaves, p, w), workspace[t].focus)
    <2> DEFINE leaves == SetWindow(workspace[t].leaves, p, w)
               focus == workspace[t].focus
               open == workspace[t].open
               new == <<p, w>>
    <2>1. new \in Known(t)
        BY <1>1, KnownIs, MarksOfIs
    <2>2. /\ workspace[t].leaves \in Layouts
          /\ open \in Seq(Names) /\ Once(open)
        BY <1>2, SpaceFacts DEF IInv, StripInv
    <2>3. /\ leaves \in Layouts
          /\ Shown(leaves) \subseteq Shown(workspace[t].leaves)
          /\ Marks(leaves) \subseteq Marks(workspace[t].leaves) \cup {new}
        BY <1>1, <1>2, <2>2, SetWindowFacts
    <2> HIDE DEF t, p, w, leaves, focus, new
    <2>4. /\ workspace' = [workspace EXCEPT ![t] =
                [leaves |-> leaves, focus |-> focus, open |-> open]]
          /\ PersistLater(t)
        BY <1>2, <1>4, UpdateFacts DEF IInv, leaves, focus
    <2>5. /\ Shown(leaves) \subseteq buffers' \cap ToSet(open)
          /\ \A u \in Tabs \ {t} : Shown(workspace[u].leaves) \subseteq buffers'
        BY <1>1, <1>2, <2>3 DEF IInv, BufferInv
    <2> HIDE DEF open
    <2>6. Marks(leaves) \subseteq Known(t)
        BY <2>1, <2>3, KnownIs
    <2>7. SpacesGoOn
        BY <1>2, <2>2, <2>3, <2>4, <2>5, <2>6, WriteGoesOn
    <2>8. panes' \in Nat /\ blanks' \in Nat
        BY <1>1 DEF IInv, WindowInv
    <2>9. WindowsGoOn
        BY <1>1, <2>8, QuietWindows
    <2>10. TasksGoOn
        BY <1>1, TaskEnds
    <2>11. QED
        BY <2>7, <2>9, <2>10, GoOn
<1>5. QED
    BY <1>3, <1>4 DEF Detached

-----------------------------------------------------------------------------
(* The theorems *)

LEMMA InitInv == Init => IInv
<1>1. SUFFICES ASSUME Init PROVE IInv
    OBVIOUS
<1>2. /\ \A t \in Tabs : workspace[t].leaves = <<>>
      /\ DOMAIN windows = {} /\ notices \in Seq(Notices)
      /\ TaskInv /\ StripInv /\ BufferInv /\ tasks = {}
    <2>1. \A t \in Tabs : workspace[t].leaves = <<>> /\ workspace[t].open = <<>>
        BY <1>1, ClosedFacts DEF Init
    <2>2. DOMAIN windows = {} /\ notices \in Seq(Notices)
        BY <1>1 DEF Init
    <2>3. StripInv /\ BufferInv
        BY <2>1, ClosedFacts DEF StripInv, BufferInv
    <2>4. TaskInv /\ tasks = {}
        BY <1>1 DEF Init, TaskInv
    <2>5. QED
        BY <2>1, <2>2, <2>3, <2>4
<1>3. SpaceInv
    <2> DEFINE F == {0}
    <2>1. Closed \in Space(F)
        BY ClosedFacts DEF Space
    <2> HIDE DEF F
    <2>2. QED
        BY <1>1, <2>1 DEF Init, SpaceInv
<1>4. WindowInv
    BY <1>1, <1>2 DEF Init, WindowInv
<1>5. MarkInv
    <2>1. \A t \in Tabs : stored[t].leaves = <<>>
        BY <1>1, ClosedFacts DEF Init
    <2>2. QED
        BY <1>2, <2>1, ClosedFacts DEF MarkInv, Known
<1>6. QED
    BY <1>2, <1>3, <1>4, <1>5 DEF IInv

\* The application quits: a stored mark may point to a window that is gone, but
\* to no other pane's.
LEMMA QuitKeeps ==
    ASSUME IInv, Quit
    PROVE  IInv' /\ Hears
<1>1. /\ workspace' = [t \in Tabs |-> Closed]
      /\ windows' = <<>> /\ notices' = <<>> /\ tasks' = {}
      /\ UNCHANGED <<stored, panes, blanks, made>>
    BY DEF Quit
<1>2. /\ \A t \in Tabs : workspace'[t].leaves = <<>>
      /\ DOMAIN windows' = {} /\ notices' \in Seq(Notices)
      /\ (TaskInv /\ StripInv /\ BufferInv)'
    <2>1. \A t \in Tabs : workspace'[t].leaves = <<>> /\ workspace'[t].open = <<>>
        BY <1>1, ClosedFacts
    <2>2. DOMAIN windows' = {} /\ notices' \in Seq(Notices)
        BY <1>1
    <2>3. StripInv' /\ BufferInv'
        BY <2>1, ClosedFacts DEF StripInv, BufferInv
    <2>4. TaskInv'
        BY <1>1 DEF TaskInv
    <2>5. QED
        BY <2>1, <2>2, <2>3, <2>4
<1>3. SpaceInv'
    <2>1. PICK F : stored \in [Tabs -> Space(F)]
        BY DEF IInv, SpaceInv
    <2> DEFINE G == F \cup {0}
    <2>2. Closed \in Space(G) /\ Space(F) \subseteq Space(G)
        BY ClosedFacts DEF Space
    <2> HIDE DEF G
    <2>3. workspace' \in [Tabs -> Space(G)] /\ stored' \in [Tabs -> Space(G)]
        BY <1>1, <2>1, <2>2
    <2>4. QED
        BY <2>3 DEF SpaceInv
<1>4. WindowInv'
    BY <1>1, <1>2 DEF IInv, WindowInv
<1>5. MarkInv'
    <2>1. ASSUME NEW t \in Tabs PROVE Known(t)' \subseteq Known(t)
        <3>1. Known(t)' = Marks(stored[t].leaves)
            BY <1>1, <1>2, ClosedFacts DEF Known
        <3>2. QED
            BY <3>1, KnownIs
    <2>2. QED
        BY <1>1, <1>2, <2>1 DEF IInv, MarkInv, Fits
<1>6. Hears
    <2>1. \A t \in Tabs : Leaves(t)' = {}
        BY <1>2 DEF Leaves, ToSet
    <2>2. QED
        BY <2>1 DEF Hears
<1>7. QED
    BY <1>2, <1>3, <1>4, <1>5, <1>6 DEF IInv

LEMMA NextInv == IInv /\ [Next]_vars => IInv' /\ Hears
<1>1. SUFFICES ASSUME IInv, [Next]_vars PROVE IInv' /\ Hears
    OBVIOUS
<1>2. CASE User
    <2>1. PICK t \in Tabs :
              \/ Open(t) \/ AskCloseTab(t)
              \/ \E f \in Files : AskFile(t, f)
              \/ \E b \in Buffers : Select(t, b) \/ AskClose(t, b)
              \/ \E i \in DOMAIN workspace[t].leaves :
                  \/ Split(t, i) \/ ClosePane(t, i) \/ FocusPane(t, i)
                  \/ AskDetach(t, i) \/ AskBack(t, i)
        BY <1>2 DEF User
    <2>2. CASE Open(t)
        BY <1>1, <2>2, OpenKeeps
    <2>3. CASE AskCloseTab(t)
        BY <1>1, <2>3, AskCloseTabKeeps
    <2>4. CASE \E f \in Files : AskFile(t, f)
        BY <1>1, <2>4, AskFileKeeps
    <2>5. CASE \E b \in Buffers : Select(t, b) \/ AskClose(t, b)
        BY <1>1, <2>5, SelectKeeps, AskCloseKeeps
    <2>6. CASE \E i \in DOMAIN workspace[t].leaves :
                   Split(t, i) \/ ClosePane(t, i) \/ FocusPane(t, i)
        BY <1>1, <2>6, PanesKeep
    <2>7. CASE \E i \in DOMAIN workspace[t].leaves :
                   AskDetach(t, i) \/ AskBack(t, i)
        BY <1>1, <2>7, AskDetachKeeps, AskBackKeeps
    <2>8. QED
        BY <2>1, <2>2, <2>3, <2>4, <2>5, <2>6, <2>7
<1>3. CASE Backend
    <2>1. CASE Notice
        BY <1>1, <2>1, NoticeGoesOn, GoOn
    <2>2. CASE \E task \in tasks :
                   \/ ListWindows(task) \/ ReadRow(task) \/ Load(task)
                   \/ Reset(task) \/ FileArrives(task)
                   \/ MakeWindow(task) \/ Detached(task)
                   \/ BroughtBack(task) \/ Closing(task)
        BY <1>1, <2>2, ListWindowsKeeps, ReadRowKeeps, LoadKeeps, ResetKeeps, FileArrivesKeeps,
           MakeWindowKeeps, DetachedKeeps, BroughtBackKeeps, ClosingKeeps
    <2>3. CASE Remount
        BY <1>1, <2>3, RemountKeeps
    <2>4. QED
        BY <1>3, <2>1, <2>2, <2>3 DEF Backend
<1>4. CASE Quit
    BY <1>1, <1>4, QuitKeeps
<1>5. CASE \E w \in DOMAIN windows : CloseWindow(w)
    BY <1>1, <1>5, CloseWindowKeeps
<1>6. CASE UNCHANGED vars
    <2>1. UNCHANGED <<buffers, workspace, windows, notices, tasks, stored,
                      ended, panes, blanks, made>>
        BY <1>6 DEF vars, counts
    <2>2. panes' \in Nat /\ blanks' \in Nat
        BY <1>1, <2>1 DEF IInv, WindowInv
    <2>3. SpacesGoOn /\ WindowsGoOn /\ TasksGoOn
        BY <1>1, <2>1, <2>2, QuietGoesOn, QuietWindows, QuietTasks
    <2>4. QED
        BY <1>1, <2>3, GoOn
<1>7. QED
    BY <1>1, <1>2, <1>3, <1>4, <1>5, <1>6 DEF Next

\* In every state the workspaces, the windows, the events on their way and the
\* handlers that wait fit together as IInv says: among others a window's number
\* is never used again, and a mark, shown, stored, read by a load or about to be
\* made by a detachPane, points to no other pane's window, also when its own is
\* gone.
THEOREM PaneInvariant == Spec => []IInv
<1>1. Init => IInv
    BY InitInv
<1>2. IInv /\ [Next]_vars => IInv'
    BY NextInv
<1>3. QED
    BY <1>1, <1>2, PTL DEF Spec

\* Whatever another tab closes, a pane shows a buffer that the store has and
\* that has a tab in its strip: closeBuffer and resetWorkspace drop only what no
\* workspace uses.
THEOREM PanesShowBuffers == Spec => []PanesHaveBuffers
<1>1. IInv => PanesHaveBuffers
    BY DEF IInv, BufferInv, PanesHaveBuffers, Shown, Leaves
<1>2. QED
    BY <1>1, PaneInvariant, PTL

\* A pane that is shown as detached, and whose window is there, hears when it
\* closes: in every order of closing, detaching, loading and quitting its mark
\* is backed by the window, then by the editor-detached-window-closed event,
\* and the event is not taken without the mark being taken away.  Only the
\* step in which the tabs mount again may lose it.
THEOREM MarksAreHeard == Spec => MarksStayHeard
<1>1. IInv /\ [Next]_vars => Hears
    BY NextInv
<1>2. Hears =>
          \A t \in Tabs \ ended' : Loading(t) \/ ~Loading(t)' =>
              \A l \in Leaves(t) : \A k \in Leaves(t)' :
                  /\ l.window # 0 /\ Heard(t, l)
                  /\ k.pane = l.pane /\ k.window = l.window
                  => Heard(t, l)'
    BY DEF Hears
<1>3. QED
    BY <1>1, <1>2, PaneInvariant, PTL DEF Spec, MarksStayHeard
=============================================================================
