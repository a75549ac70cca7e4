---------------------------- MODULE EditorProofs ----------------------------
(***************************************************************************)
(* What Editor guarantees for any number of clips, edits and calls: its    *)
(* types and that undo and redo walk along one history, under all faults;  *)
(* what is on screen, and that it agrees with the server in the end, where *)
(* the tab can follow the server.                                          *)
(***************************************************************************)
EXTENDS Editor, SequenceTheorems, FiniteSetTheorems, TLAPS

Snapshots == SUBSET Clip
Drags == [id : Ids, pos : Nat, dur : Nat, by : {"body", "left", "right"}]
Events == [type : {"upsert", "delete"}, row : Clip]

\* Which fields a call of each kind has.
CallOK(k) ==
    /\ k.op = "addClip" => /\ k.pos \in Nat /\ k.dur \in Nat
                           /\ k.status = "served" => Len(k.answer) = 1
    /\ k.op = "updateClip" => k.id \in ServerIds /\ k.pos \in Nat
    /\ k.op = "splitClip" => k.id \in ServerIds /\ k.at \in Nat

GoodCalls == {k \in Call : CallOK(k)}

TabOK == /\ clips \in Snapshots
         /\ undo \in Seq(Snapshots) /\ redo \in Seq(Snapshots)
         /\ Len(undo) + Len(redo) <= MaxUndo
         /\ drag \in Drags \cup {None}
NetOK == calls \in Seq(GoodCalls) /\ inbox \in Seq(Events)
ServerOK == /\ DOMAIN table \subseteq ServerIds
            /\ \A c \in DOMAIN table : table[c] \in Clip /\ table[c].id = c
            /\ fresh \subseteq Ids \ DOMAIN table
BoundsOK == steps \in 0 .. MaxSteps /\ faults \in FaultSets

EditorInv == TabOK /\ NetOK /\ ServerOK /\ BoundsOK

(***************************************************************************)
(* The stacks.                                                             *)
(***************************************************************************)

\* What pushing on a capped stack gives.
LEMMA PushedStack ==
    ASSUME NEW S, NEW x \in S, NEW s \in Seq(S)
    PROVE  /\ Capped(<<x>> \o s) \in Seq(S)
           /\ Len(Capped(<<x>> \o s)) = AtMost(MaxUndo, Len(s) + 1)
           /\ \A i \in 1 .. AtMost(MaxUndo, Len(s) + 1) :
                Capped(<<x>> \o s)[i] = IF i = 1 THEN x ELSE s[i - 1]
<1> DEFINE t == <<x>> \o s
<1>1. <<x>> \in Seq(S) /\ Len(<<x>>) = 1 /\ <<x>>[1] = x
  OBVIOUS
<1>2. t \in Seq(S) /\ Len(t) = Len(s) + 1 /\ Len(s) \in Nat
  BY <1>1, ConcatProperties, LenProperties
<1>3. \A i \in 1 .. Len(s) + 1 : t[i] = IF i = 1 THEN x ELSE s[i - 1]
  <2> TAKE i \in 1 .. Len(s) + 1
  <2>1. t[i] = IF i <= 1 THEN <<x>>[i] ELSE s[i - 1]
    BY <1>1, <1>2, ConcatProperties
  <2> QED
    BY <1>1, <1>2, <2>1
<1>4. \A i \in 1 .. Len(t) : t[i] \in S
  BY <1>2, ElementOfSeq
<1> DEFINE n == AtMost(MaxUndo, Len(t))
<1>5. n \in Nat /\ n >= 1 /\ n <= Len(t) /\ n = AtMost(MaxUndo, Len(s) + 1)
  BY <1>2, MaxUndoPositive DEF AtMost
<1> HIDE DEF n, t
<1>6. /\ SubSeq(t, 1, n) \in Seq(S)
      /\ Len(SubSeq(t, 1, n)) = n
      /\ \A i \in 1 .. n : SubSeq(t, 1, n)[i] = t[i]
  <2>1. \A i \in 1 .. n : t[i] \in S
    BY <1>2, <1>4, <1>5
  <2>2. /\ SubSeq(t, 1, n) \in Seq(S)
        /\ Len(SubSeq(t, 1, n)) = n - 1 + 1
        /\ \A i \in 1 .. n - 1 + 1 : SubSeq(t, 1, n)[i] = t[1 + i - 1]
    BY <2>1, <1>5, SubSeqProperties
  <2> QED
    BY <2>2, <1>5
<1>7. Capped(t) = SubSeq(t, 1, n)
  BY DEF Capped, n
<1>8. \A i \in 1 .. n : SubSeq(t, 1, n)[i] = IF i = 1 THEN x ELSE s[i - 1]
  BY <1>2, <1>3, <1>5, <1>6
<1> QED
  BY <1>5, <1>6, <1>7, <1>8 DEF t

\* What popping a stack gives.
LEMMA PoppedStack ==
    ASSUME NEW S, NEW s \in Seq(S), s # <<>>
    PROVE  /\ Len(s) \in Nat /\ Len(s) >= 1
           /\ Head(s) = s[1] /\ Head(s) \in S
           /\ Tail(s) \in Seq(S)
           /\ Len(Tail(s)) = Len(s) - 1
           /\ \A i \in 1 .. Len(s) - 1 : Tail(s)[i] = s[i + 1]
<1>1. Len(s) \in Nat /\ Len(s) # 0
  BY EmptySeq, LenProperties
<1>2. Tail(s) = SubSeq(s, 2, Len(s)) /\ Tail(s) \in Seq(S) /\ Len(Tail(s)) = Len(s) - 1
  BY TailIsSubSeq, HeadTailProperties
<1>3. \A i \in 2 .. Len(s) : s[i] \in S
  BY <1>1, ElementOfSeq
<1>4. \A i \in 1 .. Len(s) - 2 + 1 : SubSeq(s, 2, Len(s))[i] = s[2 + i - 1]
  BY <1>1, <1>3, SubSeqProperties
<1>5. \A i \in 1 .. Len(s) - 1 : Tail(s)[i] = s[i + 1]
  BY <1>1, <1>2, <1>4
<1>6. Head(s) = s[1] /\ Head(s) \in S
  BY HeadTailProperties
<1> QED
  BY <1>1, <1>2, <1>5, <1>6

\* Removing an element keeps the type of a sequence.
LEMMA RemovedType ==
    ASSUME NEW S, NEW s \in Seq(S), NEW k \in DOMAIN s
    PROVE  RemoveAt(s, k) \in Seq(S)
<1>1. k \in Int /\ Len(s) \in Nat /\ k >= 1 /\ k <= Len(s)
  BY LenProperties
<1>2. \A i \in 1 .. k - 1 : s[i] \in S
  BY <1>1, ElementOfSeq
<1>3. \A i \in k + 1 .. Len(s) : s[i] \in S
  BY <1>1, ElementOfSeq
<1>4. SubSeq(s, 1, k - 1) \in Seq(S)
  BY <1>1, <1>2, SubSeqProperties
<1>5. SubSeq(s, k + 1, Len(s)) \in Seq(S)
  BY <1>1, <1>3, SubSeqProperties
<1> QED
  BY <1>4, <1>5, ConcatProperties DEF RemoveAt

(***************************************************************************)
(* Undo and redo walk along one history.  The state of UndoHistory that a  *)
(* state of the tab stands for:                                            *)
(***************************************************************************)
HistOf(u, c, r) == Reverse(u) \o <<c>> \o r

LEMMA ReversedStack ==
    ASSUME NEW S, NEW s \in Seq(S)
    PROVE  /\ Reverse(s) \in Seq(S)
           /\ Len(Reverse(s)) = Len(s)
           /\ \A i \in 1 .. Len(s) : Reverse(s)[i] = s[Len(s) - i + 1]
<1>1. Len(s) \in Nat
  BY LenProperties
<1>2. \A i \in 1 .. Len(s) : s[Len(s) - i + 1] \in S
  <2> TAKE i \in 1 .. Len(s)
  <2>1. Len(s) - i + 1 \in 1 .. Len(s)
    BY <1>1
  <2> QED
    BY <2>1, ElementOfSeq
<1> DEFINE f == [i \in 1 .. Len(s) |-> s[Len(s) - i + 1]]
<1>3. f \in [1 .. Len(s) -> S]
  BY <1>2
<1>4. f \in Seq(S) /\ Len(f) = Len(s)
  BY <1>1, <1>3
<1> QED
  BY <1>4 DEF Reverse

\* Its states, one by one.
LEMMA HistElements ==
    ASSUME NEW S, NEW u \in Seq(S), NEW c \in S, NEW r \in Seq(S)
    PROVE  /\ Len(u) \in Nat /\ Len(r) \in Nat
           /\ HistOf(u, c, r) \in Seq(S)
           /\ Len(HistOf(u, c, r)) = Len(u) + 1 + Len(r)
           /\ \A i \in 1 .. Len(u) : HistOf(u, c, r)[i] = u[Len(u) - i + 1]
           /\ HistOf(u, c, r)[Len(u) + 1] = c
           /\ \A i \in 1 .. Len(r) : HistOf(u, c, r)[Len(u) + 1 + i] = r[i]
<1> DEFINE v == Reverse(u)
           w == v \o <<c>>
<1>1. v \in Seq(S) /\ Len(v) = Len(u) /\ \A i \in 1 .. Len(u) : v[i] = u[Len(u) - i + 1]
  BY ReversedStack
<1>2. Len(u) \in Nat /\ Len(r) \in Nat
  BY LenProperties
<1>3. <<c>> \in Seq(S) /\ Len(<<c>>) = 1 /\ <<c>>[1] = c
  OBVIOUS
<1> HIDE DEF v
<1>4. /\ w \in Seq(S)
      /\ Len(w) = Len(u) + 1
      /\ \A i \in 1 .. Len(u) + 1 : w[i] = IF i <= Len(u) THEN v[i] ELSE <<c>>[i - Len(u)]
  BY <1>1, <1>3, ConcatProperties
<1> HIDE DEF w
<1>5. /\ w \o r \in Seq(S)
      /\ Len(w \o r) = Len(u) + 1 + Len(r)
      /\ \A i \in 1 .. Len(u) + 1 + Len(r) :
            (w \o r)[i] = IF i <= Len(u) + 1 THEN w[i] ELSE r[i - (Len(u) + 1)]
  <2>1. /\ w \o r \in Seq(S)
        /\ Len(w \o r) = Len(w) + Len(r)
        /\ \A i \in 1 .. Len(w) + Len(r) :
            (w \o r)[i] = IF i <= Len(w) THEN w[i] ELSE r[i - Len(w)]
    BY <1>4, ConcatProperties
  <2> QED
    BY <1>2, <1>4, <2>1
<1>6. HistOf(u, c, r) = w \o r
  BY DEF HistOf, w, v
<1>7. \A i \in 1 .. Len(u) : (w \o r)[i] = u[Len(u) - i + 1]
  <2> TAKE i \in 1 .. Len(u)
  <2>1. i \in 1 .. Len(u) + 1 + Len(r) /\ i \in 1 .. Len(u) + 1 /\ i <= Len(u)
    BY <1>2
  <2>2. (w \o r)[i] = w[i] /\ w[i] = v[i]
    BY <1>2, <1>4, <1>5, <2>1
  <2> QED
    BY <1>1, <2>2
<1>8. (w \o r)[Len(u) + 1] = c
  <2>1. w[Len(u) + 1] = c
    BY <1>2, <1>3, <1>4
  <2>2. (w \o r)[Len(u) + 1] = w[Len(u) + 1]
    BY <1>2, <1>5
  <2> QED
    BY <2>1, <2>2
<1>9. \A i \in 1 .. Len(r) : (w \o r)[Len(u) + 1 + i] = r[i]
  BY <1>2, <1>5
<1> QED
  BY <1>2, <1>5, <1>6, <1>7, <1>8, <1>9

StacksOK == /\ clips \in Snapshots
            /\ undo \in Seq(Snapshots) /\ redo \in Seq(Snapshots)
            /\ Len(undo) + Len(redo) <= MaxUndo

\* The facts of HistElements for the stacks of this state and of the next.
LEMMA StacksNow ==
    ASSUME StacksOK
    PROVE  /\ clips \in Snapshots /\ undo \in Seq(Snapshots) /\ redo \in Seq(Snapshots)
           /\ Len(undo) \in Nat /\ Len(redo) \in Nat /\ Len(undo) + Len(redo) <= MaxUndo
<1>1. clips \in Snapshots /\ undo \in Seq(Snapshots) /\ redo \in Seq(Snapshots)
  BY DEF StacksOK
<1>2. Len(undo) + Len(redo) <= MaxUndo
  BY DEF StacksOK
<1> HIDE DEF Snapshots
<1>3. Len(undo) \in Nat /\ Len(redo) \in Nat
  BY <1>1, LenProperties
<1> QED
  BY <1>1, <1>2, <1>3

LEMMA HistNow ==
    ASSUME StacksOK
    PROVE  LET h == HistOf(undo, clips, redo) IN
           /\ Len(h) = Len(undo) + 1 + Len(redo)
           /\ \A i \in 1 .. Len(undo) : h[i] = undo[Len(undo) - i + 1]
           /\ h[Len(undo) + 1] = clips
           /\ \A i \in 1 .. Len(redo) : h[Len(undo) + 1 + i] = redo[i]
<1>1. clips \in Snapshots /\ undo \in Seq(Snapshots) /\ redo \in Seq(Snapshots)
  BY StacksNow
<1> HIDE DEF Snapshots
<1>2. Len(HistOf(undo, clips, redo)) = Len(undo) + 1 + Len(redo)
  BY <1>1, HistElements
<1>3. \A i \in 1 .. Len(undo) : HistOf(undo, clips, redo)[i] = undo[Len(undo) - i + 1]
  BY <1>1, HistElements
<1>4. HistOf(undo, clips, redo)[Len(undo) + 1] = clips
  BY <1>1, HistElements
<1>5. \A i \in 1 .. Len(redo) : HistOf(undo, clips, redo)[Len(undo) + 1 + i] = redo[i]
  BY <1>1, HistElements
<1> QED
  BY <1>2, <1>3, <1>4, <1>5

LEMMA StacksNext ==
    ASSUME StacksOK'
    PROVE  /\ clips' \in Snapshots /\ undo' \in Seq(Snapshots) /\ redo' \in Seq(Snapshots)
           /\ Len(undo') \in Nat /\ Len(redo') \in Nat
<1>1. clips' \in Snapshots /\ undo' \in Seq(Snapshots) /\ redo' \in Seq(Snapshots)
  BY DEF StacksOK, Snapshots
<1> HIDE DEF Snapshots
<1>2. Len(undo') \in Nat /\ Len(redo') \in Nat
  BY <1>1, LenProperties
<1> QED
  BY <1>1, <1>2

LEMMA HistNext ==
    ASSUME StacksOK'
    PROVE  LET k == HistOf(undo', clips', redo') IN
           /\ Len(k) = Len(undo') + 1 + Len(redo')
           /\ \A i \in 1 .. Len(undo') : k[i] = undo'[Len(undo') - i + 1]
           /\ k[Len(undo') + 1] = clips'
           /\ \A i \in 1 .. Len(redo') : k[Len(undo') + 1 + i] = redo'[i]
<1>1. clips' \in Snapshots /\ undo' \in Seq(Snapshots) /\ redo' \in Seq(Snapshots)
  BY StacksNext
<1> HIDE DEF Snapshots
<1>2. Len(HistOf(undo', clips', redo')) = Len(undo') + 1 + Len(redo')
  BY <1>1, HistElements
<1>3. \A i \in 1 .. Len(undo') : HistOf(undo', clips', redo')[i] = undo'[Len(undo') - i + 1]
  BY <1>1, HistElements
<1>4. HistOf(undo', clips', redo')[Len(undo') + 1] = clips'
  BY <1>1, HistElements
<1>5. \A i \in 1 .. Len(redo') : HistOf(undo', clips', redo')[Len(undo') + 1 + i] = redo'[i]
  BY <1>1, HistElements
<1> QED
  BY <1>2, <1>3, <1>4, <1>5

\* Pushing a snapshot is an edit.
LEMMA PushIsEdit ==
    ASSUME StacksOK, StacksOK', PushSnapshot
    PROVE  History!Edit
<1> DEFINE h == HistOf(undo, clips, redo)
           k == HistOf(undo', clips', redo')
           n == AtMost(MaxUndo, Len(undo) + 1)
           dropped == IF Len(undo) + 1 > MaxUndo THEN 1 ELSE 0
<1>1. /\ Len(undo) \in Nat /\ Len(redo) \in Nat
      /\ \A i \in 1 .. Len(undo) : h[i] = undo[Len(undo) - i + 1]
      /\ h[Len(undo) + 1] = clips
  BY StacksNow, HistNow
<1>2. /\ Len(undo') = n
      /\ \A i \in 1 .. n : undo'[i] = IF i = 1 THEN clips ELSE undo[i - 1]
  <2>1. clips \in Snapshots /\ undo \in Seq(Snapshots)
    BY StacksNow
  <2>2. undo' = Capped(<<clips>> \o undo)
    BY DEF PushSnapshot
  <2> HIDE DEF Snapshots
  <2>3. Len(Capped(<<clips>> \o undo)) = n
    BY <2>1, PushedStack
  <2>4. \A i \in 1 .. n : Capped(<<clips>> \o undo)[i] = IF i = 1 THEN clips ELSE undo[i - 1]
    BY <2>1, PushedStack
  <2> QED
    BY <2>2, <2>3, <2>4
<1>3. redo' = <<>> /\ Len(redo') = 0
  BY DEF PushSnapshot
<1>4. /\ Len(k) = Len(undo') + 1 + Len(redo')
      /\ \A i \in 1 .. Len(undo') : k[i] = undo'[Len(undo') - i + 1]
  BY HistNext
<1>5. n \in Nat /\ n + 1 = Len(undo) + 1 + 1 - dropped /\ Len(undo) <= MaxUndo
  BY <1>1, MaxUndoPositive DEF AtMost, StacksOK
<1> HIDE DEF h, k, n, dropped
<1>6. Len(k) = n + 1
  BY <1>2, <1>3, <1>4, <1>5
<1>7. \A i \in 1 .. n : k[i] = h[i + dropped]
  <2> TAKE i \in 1 .. n
  <2>1. k[i] = undo'[n - i + 1] /\ n - i + 1 \in 1 .. n
    BY <1>2, <1>4, <1>5
  <2>2. dropped \in {0, 1}
    BY DEF dropped
  <2>3. i + dropped \in 1 .. Len(undo) + 1 /\ Len(undo) - (i + dropped) + 1 = n - i
    BY <1>1, <1>5, <2>2
  <2>4. CASE i = n
    BY <1>1, <1>2, <1>5, <2>1, <2>2, <2>3, <2>4
  <2>5. CASE i # n
    <3>1. undo'[n - i + 1] = undo[n - i]
      BY <1>2, <1>5, <2>1, <2>5
    <3>2. i + dropped \in 1 .. Len(undo)
      BY <1>1, <1>5, <2>2, <2>3, <2>5
    <3> QED
      BY <1>1, <2>1, <2>3, <3>1, <3>2
  <2> QED
    BY <2>4, <2>5
<1> QED
  <2>1. (Len(undo) + 1)' = Len(undo) + 1 + 1 - dropped
    BY <1>2, <1>5
  <2>2. (Len(undo) + 1)' - 1 = n
    BY <1>2, <1>5
  <2>3. \A i \in 1 .. (Len(undo) + 1)' - 1 : k[i] = h[i + dropped]
    BY <1>7, <2>2
  <2>4. Len(k) = (Len(undo) + 1)'
    BY <1>2, <1>6
  <2> QED
    BY <2>1, <2>3, <2>4 DEF History!Edit, HistOf, h, k, dropped

\* Changing the clips in place amends the history.
LEMMA AmendInPlace ==
    ASSUME StacksOK, StacksOK', UNCHANGED <<undo, redo>>
    PROVE  History!Amend
<1> DEFINE h == HistOf(undo, clips, redo)
           k == HistOf(undo, clips', redo)
<1>1. /\ Len(undo) \in Nat /\ Len(redo) \in Nat
      /\ Len(h) = Len(undo) + 1 + Len(redo)
      /\ \A i \in 1 .. Len(undo) : h[i] = undo[Len(undo) - i + 1]
      /\ \A i \in 1 .. Len(redo) : h[Len(undo) + 1 + i] = redo[i]
  BY StacksNow, HistNow
<1>2. /\ Len(k) = Len(undo) + 1 + Len(redo)
      /\ \A i \in 1 .. Len(undo) : k[i] = undo[Len(undo) - i + 1]
      /\ \A i \in 1 .. Len(redo) : k[Len(undo) + 1 + i] = redo[i]
  BY HistNext
<1> HIDE DEF h, k
<1>3. \A i \in 1 .. Len(h) : i # Len(undo) + 1 => k[i] = h[i]
  <2> TAKE i \in 1 .. Len(h)
  <2> HAVE i # Len(undo) + 1
  <2>1. CASE i <= Len(undo)
    BY <1>1, <1>2, <2>1
  <2>2. CASE i > Len(undo) + 1
    <3>1. i - (Len(undo) + 1) \in 1 .. Len(redo) /\ i = Len(undo) + 1 + (i - (Len(undo) + 1))
      BY <1>1, <2>2
    <3> QED
      BY <1>1, <1>2, <3>1
  <2>3. i \in Nat /\ Len(undo) + 1 \in Nat
    BY <1>1
  <2>4. i <= Len(undo) \/ i > Len(undo) + 1
    BY ONLY <1>1, <2>3, i # Len(undo) + 1
  <2> QED
    BY ONLY <2>1, <2>2, <2>4
<1> QED
  BY <1>1, <1>2, <1>3 DEF History!Amend, HistOf, h, k

\* What an element and a sequence make.
LEMMA Consed ==
    ASSUME NEW S, NEW x \in S, NEW s \in Seq(S)
    PROVE  LET t == <<x>> \o s IN
           /\ t \in Seq(S) /\ t # <<>> /\ Len(s) \in Nat /\ Len(t) = Len(s) + 1
           /\ t[1] = x
           /\ \A i \in 1 .. Len(s) : t[i + 1] = s[i]
<1> DEFINE t == <<x>> \o s
<1>1. <<x>> \in Seq(S) /\ Len(<<x>>) = 1 /\ <<x>>[1] = x
  OBVIOUS
<1>2. t \in Seq(S) /\ Len(t) = Len(s) + 1 /\ Len(s) \in Nat
  BY <1>1, ConcatProperties, LenProperties
<1>3. \A i \in 1 .. Len(s) + 1 : t[i] = IF i <= 1 THEN <<x>>[i] ELSE s[i - 1]
  BY <1>1, <1>2, ConcatProperties
<1> HIDE DEF t
<1>4. t[1] = x
  BY <1>1, <1>2, <1>3
<1>5. \A i \in 1 .. Len(s) : t[i + 1] = s[i]
  <2> TAKE i \in 1 .. Len(s)
  <2>1. i + 1 \in 1 .. Len(s) + 1 /\ ~(i + 1 <= 1) /\ i + 1 - 1 = i
    BY <1>2
  <2> QED
    BY <1>3, <2>1
<1>6. t # <<>>
  BY <1>2, EmptySeq
<1> QED
  BY <1>2, <1>4, <1>5, <1>6 DEF t

\* Its head and its tail are what it was made of.
LEMMA ConsedParts ==
    ASSUME NEW S, NEW x \in S, NEW s \in Seq(S)
    PROVE  Head(<<x>> \o s) = x /\ Tail(<<x>> \o s) = s
<1> DEFINE t == <<x>> \o s
<1>1. t \in Seq(S) /\ t # <<>> /\ Len(s) \in Nat /\ Len(t) = Len(s) + 1 /\ t[1] = x
  BY Consed
<1>2. \A i \in 1 .. Len(s) : t[i + 1] = s[i]
  BY Consed
<1> HIDE DEF t
<1>3. Head(t) = x
  BY <1>1, PoppedStack
<1>4. Tail(t) \in Seq(S) /\ Len(Tail(t)) = Len(t) - 1
  BY <1>1, PoppedStack
<1>5. \A i \in 1 .. Len(t) - 1 : Tail(t)[i] = t[i + 1]
  BY <1>1, PoppedStack
<1>6. Len(Tail(t)) = Len(s) /\ \A i \in 1 .. Len(Tail(t)) : Tail(t)[i] = s[i]
  BY <1>1, <1>2, <1>4, <1>5
<1>7. Tail(t) = s
  BY <1>4, <1>6, SeqEqual
<1> QED
  BY <1>3, <1>7 DEF t

\* A sequence is its head and its tail.
LEMMA HeadAndTail ==
    ASSUME NEW S, NEW s \in Seq(S), s # <<>>
    PROVE  <<Head(s)>> \o Tail(s) = s
<1> DEFINE t == <<Head(s)>> \o Tail(s)
<1>1. /\ Len(s) \in Nat /\ Len(s) >= 1 /\ Head(s) = s[1] /\ Head(s) \in S
      /\ Tail(s) \in Seq(S) /\ Len(Tail(s)) = Len(s) - 1
  BY PoppedStack
<1>2. \A i \in 1 .. Len(s) - 1 : Tail(s)[i] = s[i + 1]
  BY PoppedStack
<1>3. t \in Seq(S) /\ Len(t) = Len(Tail(s)) + 1 /\ t[1] = Head(s)
  BY <1>1, Consed
<1>4. \A i \in 1 .. Len(Tail(s)) : t[i + 1] = Tail(s)[i]
  BY <1>1, Consed
<1> HIDE DEF t
<1>5. \A i \in 1 .. Len(t) : t[i] = s[i]
  <2> TAKE i \in 1 .. Len(t)
  <2>1. CASE i = 1
    BY <1>1, <1>3, <2>1
  <2>2. CASE i # 1
    <3>1. i - 1 \in 1 .. Len(s) - 1 /\ (i - 1) + 1 = i
      BY <1>1, <1>3, <2>2
    <3>2. t[(i - 1) + 1] = Tail(s)[i - 1] /\ Tail(s)[i - 1] = s[(i - 1) + 1]
      BY <1>1, <1>2, <1>4, <3>1
    <3> QED
      BY <3>1, <3>2
  <2> QED
    BY <2>1, <2>2
<1>6. Len(t) = Len(s)
  BY <1>1, <1>3
<1>7. t = s
  BY <1>3, <1>5, <1>6, SeqEqual
<1> QED
  BY <1>7 DEF t

\* A capped stack that has room keeps everything.
LEMMA RoomOnStack ==
    ASSUME NEW S, NEW x \in S, NEW s \in Seq(S), Len(s) < MaxUndo
    PROVE  Capped(<<x>> \o s) = <<x>> \o s
<1> DEFINE t == <<x>> \o s
<1>1. t \in Seq(S) /\ Len(s) \in Nat /\ Len(t) = Len(s) + 1
  BY Consed
<1> HIDE DEF t
<1>2. AtMost(MaxUndo, Len(t)) = Len(t)
  BY <1>1, MaxUndoPositive DEF AtMost
<1>3. SubSeq(t, 1, Len(t)) = t
  BY <1>1, SubSeqFull
<1>4. Capped(t) = t
  BY <1>2, <1>3 DEF Capped
<1> QED
  BY <1>4 DEF t

\* Going one state back in the history, which stays as it is.
LEMMA SlideBack ==
    ASSUME NEW S, NEW u \in Seq(S), u # <<>>, NEW c \in S, NEW r \in Seq(S)
    PROVE  HistOf(Tail(u), Head(u), <<c>> \o r) = HistOf(u, c, r)
<1> DEFINE v == Tail(u)
           d == Head(u)
           q == <<c>> \o r
           h == HistOf(u, c, r)
           k == HistOf(v, d, q)
<1>1. /\ Len(u) \in Nat /\ Len(u) >= 1 /\ d = u[1] /\ d \in S
      /\ v \in Seq(S) /\ Len(v) = Len(u) - 1
  BY PoppedStack
<1>2. \A i \in 1 .. Len(u) - 1 : v[i] = u[i + 1]
  BY PoppedStack
<1>3. q \in Seq(S) /\ Len(r) \in Nat /\ Len(q) = Len(r) + 1 /\ q[1] = c
  BY Consed
<1>4. \A i \in 1 .. Len(r) : q[i + 1] = r[i]
  BY Consed
<1> HIDE DEF v, d, q
<1>5. h \in Seq(S) /\ Len(h) = Len(u) + 1 + Len(r) /\ h[Len(u) + 1] = c
  BY HistElements
<1>6. \A i \in 1 .. Len(u) : h[i] = u[Len(u) - i + 1]
  BY HistElements
<1>7. \A i \in 1 .. Len(r) : h[Len(u) + 1 + i] = r[i]
  BY HistElements
<1>v. v \in Seq(S) /\ d \in S /\ q \in Seq(S)
  BY <1>1, <1>3
<1>8. k \in Seq(S) /\ Len(k) = Len(v) + 1 + Len(q) /\ k[Len(v) + 1] = d
  BY ONLY <1>v, HistElements
<1>9. \A i \in 1 .. Len(v) : k[i] = v[Len(v) - i + 1]
  BY ONLY <1>v, HistElements
<1>10. \A i \in 1 .. Len(q) : k[Len(v) + 1 + i] = q[i]
  BY ONLY <1>v, HistElements
<1> HIDE DEF h, k
<1>11. Len(k) = Len(h)
  BY <1>1, <1>3, <1>5, <1>8
<1>12. \A i \in 1 .. Len(k) : k[i] = h[i]
  <2> TAKE i \in 1 .. Len(k)
  <2>1. CASE i < Len(u)
    <3>1. i \in 1 .. Len(v) /\ i \in 1 .. Len(u)
      BY <1>1, <2>1
    <3>2. Len(v) - i + 1 \in 1 .. Len(u) - 1 /\ Len(v) - i + 1 + 1 = Len(u) - i + 1
      BY <1>1, <3>1
    <3>3. k[i] = v[Len(v) - i + 1] /\ v[Len(v) - i + 1] = u[Len(v) - i + 1 + 1]
      BY <1>2, <1>9, <3>1, <3>2
    <3> QED
      BY <1>6, <3>1, <3>2, <3>3
  <2>2. CASE i = Len(u)
    <3>1. k[Len(u)] = d
      BY <1>1, <1>8
    <3>2. Len(u) \in 1 .. Len(u) /\ Len(u) - Len(u) + 1 = 1
      BY <1>1
    <3>3. h[Len(u)] = u[1]
      BY <1>6, <3>2
    <3> QED
      BY <1>1, <2>2, <3>1, <3>3
  <2>3. CASE i = Len(u) + 1
    <3>1. 1 \in 1 .. Len(q) /\ Len(v) + 1 + 1 = Len(u) + 1
      BY <1>1, <1>3
    <3>2. k[Len(v) + 1 + 1] = q[1]
      BY <1>10, <3>1
    <3> QED
      BY <1>3, <1>5, <2>3, <3>1, <3>2
  <2>4. CASE i > Len(u) + 1
    <3>1. PICK j \in 1 .. Len(r) : i = Len(u) + 1 + j
      <4>1. i - (Len(u) + 1) \in 1 .. Len(r) /\ i = Len(u) + 1 + (i - (Len(u) + 1))
        BY <1>1, <1>3, <1>5, <1>11, <2>4
      <4> QED
        BY <4>1
    <3>2. j + 1 \in 1 .. Len(q) /\ i = Len(v) + 1 + (j + 1)
      BY <1>1, <1>3, <3>1
    <3>3. k[Len(v) + 1 + (j + 1)] = q[j + 1]
      BY <1>10, <3>2
    <3> QED
      BY <1>4, <1>7, <3>1, <3>2, <3>3
  <2> QED
    BY <1>1, <2>1, <2>2, <2>3, <2>4
<1>13. k = h
  BY <1>5, <1>8, <1>11, <1>12, SeqEqual
<1> QED
  BY <1>13 DEF h, k, v, d, q

\* Going one state forth.
LEMMA SlideForth ==
    ASSUME NEW S, NEW u \in Seq(S), NEW c \in S, NEW r \in Seq(S), r # <<>>
    PROVE  HistOf(<<c>> \o u, Head(r), Tail(r)) = HistOf(u, c, r)
<1> DEFINE v == <<c>> \o u
<1>1. v \in Seq(S) /\ v # <<>>
  BY Consed
<1>2. Head(v) = c /\ Tail(v) = u
  BY ConsedParts
<1>3. Head(r) \in S /\ Tail(r) \in Seq(S)
  BY PoppedStack
<1>4. <<Head(r)>> \o Tail(r) = r
  BY HeadAndTail
<1> HIDE DEF v
<1>5. HistOf(Tail(v), Head(v), <<Head(r)>> \o Tail(r)) = HistOf(v, Head(r), Tail(r))
  BY <1>1, <1>3, SlideBack
<1>6. HistOf(v, Head(r), Tail(r)) = HistOf(u, c, r)
  BY <1>2, <1>4, <1>5
<1> QED
  BY <1>6 DEF v

\* Undo walks back, or finds nothing to undo.
LEMMA UndoWalks ==
    ASSUME StacksOK, UndoLocal
    PROVE  History!Undo \/ UNCHANGED <<clips, undo, redo>>
<1>1. CASE undo = <<>>
  BY <1>1 DEF UndoLocal
<1>2. CASE undo # <<>>
  <2>1. clips' = Head(undo) /\ undo' = Tail(undo) /\ redo' = Capped(<<clips>> \o redo)
    BY <1>2 DEF UndoLocal
  <2>2. /\ clips \in Snapshots /\ undo \in Seq(Snapshots) /\ redo \in Seq(Snapshots)
        /\ Len(undo) \in Nat /\ Len(redo) \in Nat /\ Len(undo) + Len(redo) <= MaxUndo
    BY StacksNow
  <2> HIDE DEF Snapshots
  <2>3. Len(undo) >= 1 /\ Len(Tail(undo)) = Len(undo) - 1
    BY <1>2, <2>2, PoppedStack
  <2>4. Len(redo) < MaxUndo
    BY <2>2, <2>3, MaxUndoPositive
  <2>5. redo' = <<clips>> \o redo
    BY <2>1, <2>2, <2>4, RoomOnStack
  <2>6. HistOf(undo', clips', redo') = HistOf(undo, clips, redo)
    BY <1>2, <2>1, <2>2, <2>5, SlideBack
  <2>7. Len(undo) + 1 > 1 /\ Len(undo') + 1 = Len(undo) + 1 - 1
    BY <2>1, <2>2, <2>3
  <2> QED
    BY <2>6, <2>7 DEF History!Undo, HistOf
<1> QED
  BY <1>1, <1>2

\* Redo walks forth, or finds nothing to redo.
LEMMA RedoWalks ==
    ASSUME StacksOK, RedoLocal
    PROVE  History!Redo \/ UNCHANGED <<clips, undo, redo>>
<1>1. CASE redo = <<>>
  BY <1>1 DEF RedoLocal
<1>2. CASE redo # <<>>
  <2>1. clips' = Head(redo) /\ redo' = Tail(redo) /\ undo' = Capped(<<clips>> \o undo)
    BY <1>2 DEF RedoLocal
  <2>2. /\ clips \in Snapshots /\ undo \in Seq(Snapshots) /\ redo \in Seq(Snapshots)
        /\ Len(undo) \in Nat /\ Len(redo) \in Nat /\ Len(undo) + Len(redo) <= MaxUndo
    BY StacksNow
  <2>h. Len(HistOf(undo, clips, redo)) = Len(undo) + 1 + Len(redo)
    BY HistNow
  <2> HIDE DEF Snapshots
  <2>3. Len(redo) >= 1
    BY <1>2, <2>2, PoppedStack
  <2>4. Len(undo) < MaxUndo
    BY <2>2, <2>3, MaxUndoPositive
  <2>5. undo' = <<clips>> \o undo
    BY <2>1, <2>2, <2>4, RoomOnStack
  <2>6. HistOf(undo', clips', redo') = HistOf(undo, clips, redo)
    BY <1>2, <2>1, <2>2, <2>5, SlideForth
  <2>7. Len(undo') = Len(undo) + 1
    BY <2>2, <2>5, Consed
  <2>8. Len(undo) + 1 < Len(HistOf(undo, clips, redo))
    BY <2>2, <2>3, <2>h
  <2> QED
    BY <2>6, <2>7, <2>8 DEF History!Redo, HistOf
<1> QED
  BY <1>1, <1>2

(***************************************************************************)
(* Types: the parts that actions share.                                    *)
(***************************************************************************)
LEMMA PushedOK ==
    ASSUME TabOK, PushSnapshot
    PROVE  /\ undo' \in Seq(Snapshots) /\ redo' \in Seq(Snapshots)
           /\ Len(undo') + Len(redo') <= MaxUndo
<1>1. clips \in Snapshots /\ undo \in Seq(Snapshots)
  BY DEF TabOK
<1>2. undo' = Capped(<<clips>> \o undo) /\ redo' = <<>>
  BY DEF PushSnapshot
<1> HIDE DEF Snapshots
<1>3. undo' \in Seq(Snapshots) /\ Len(undo') = AtMost(MaxUndo, Len(undo) + 1)
  BY <1>1, <1>2, PushedStack
<1>4. redo' \in Seq(Snapshots) /\ Len(redo') = 0 /\ Len(undo) \in Nat
  BY <1>1, <1>2, EmptySeq, LenProperties
<1> QED
  BY <1>3, <1>4, MaxUndoPositive DEF AtMost

LEMMA UndoneOK ==
    ASSUME TabOK, UndoLocal
    PROVE  /\ clips' \in Snapshots /\ undo' \in Seq(Snapshots) /\ redo' \in Seq(Snapshots)
           /\ Len(undo') + Len(redo') <= MaxUndo
<1>1. /\ clips \in Snapshots /\ undo \in Seq(Snapshots) /\ redo \in Seq(Snapshots)
      /\ Len(undo) + Len(redo) <= MaxUndo
  BY DEF TabOK
<1> HIDE DEF Snapshots
<1>2. CASE undo = <<>>
  BY <1>1, <1>2 DEF UndoLocal
<1>3. CASE undo # <<>>
  <2>1. clips' = Head(undo) /\ undo' = Tail(undo) /\ redo' = Capped(<<clips>> \o redo)
    BY <1>3 DEF UndoLocal
  <2>2. /\ clips' \in Snapshots /\ undo' \in Seq(Snapshots)
        /\ Len(undo) \in Nat /\ Len(undo) >= 1 /\ Len(undo') = Len(undo) - 1
    BY <1>1, <1>3, <2>1, PoppedStack
  <2>3. redo' \in Seq(Snapshots) /\ Len(redo') = AtMost(MaxUndo, Len(redo) + 1)
    BY <1>1, <2>1, PushedStack
  <2>4. Len(redo) \in Nat
    BY <1>1, LenProperties
  <2> QED
    BY <1>1, <2>2, <2>3, <2>4, MaxUndoPositive DEF AtMost
<1> QED
  BY <1>2, <1>3

LEMMA RedoneOK ==
    ASSUME TabOK, RedoLocal
    PROVE  /\ clips' \in Snapshots /\ undo' \in Seq(Snapshots) /\ redo' \in Seq(Snapshots)
           /\ Len(undo') + Len(redo') <= MaxUndo
<1>1. /\ clips \in Snapshots /\ undo \in Seq(Snapshots) /\ redo \in Seq(Snapshots)
      /\ Len(undo) + Len(redo) <= MaxUndo
  BY DEF TabOK
<1> HIDE DEF Snapshots
<1>2. CASE redo = <<>>
  BY <1>1, <1>2 DEF RedoLocal
<1>3. CASE redo # <<>>
  <2>1. clips' = Head(redo) /\ redo' = Tail(redo) /\ undo' = Capped(<<clips>> \o undo)
    BY <1>3 DEF RedoLocal
  <2>2. /\ clips' \in Snapshots /\ redo' \in Seq(Snapshots)
        /\ Len(redo) \in Nat /\ Len(redo) >= 1 /\ Len(redo') = Len(redo) - 1
    BY <1>1, <1>3, <2>1, PoppedStack
  <2>3. undo' \in Seq(Snapshots) /\ Len(undo') = AtMost(MaxUndo, Len(undo) + 1)
    BY <1>1, <2>1, PushedStack
  <2>4. Len(undo) \in Nat
    BY <1>1, LenProperties
  <2> QED
    BY <1>1, <2>2, <2>3, <2>4, MaxUndoPositive DEF AtMost
<1> QED
  BY <1>2, <1>3

LEMMA RequestOK ==
    ASSUME NEW op \in {"addClip", "updateClip", "deleteClip", "splitClip", "load"},
           NEW id \in ServerIds \cup {None}, NEW tmp \in TmpIds \cup {None},
           NEW pos \in Nat \cup {None}, NEW dur \in Nat \cup {None}, NEW at \in Nat \cup {None},
           op = "addClip" => pos \in Nat /\ dur \in Nat,
           op = "updateClip" => id \in ServerIds /\ pos \in Nat,
           op = "splitClip" => id \in ServerIds /\ at \in Nat
    PROVE  Request(op, id, tmp, pos, dur, at) \in GoodCalls
<1> DEFINE k == Request(op, id, tmp, pos, dur, at)
<1>1. <<>> \in Seq(Clip) /\ {} \in SUBSET Clip
  BY EmptySeq
<1>2. k \in Call
  BY <1>1 DEF Request, Call
<1>3. k.op = op /\ k.id = id /\ k.pos = pos /\ k.dur = dur /\ k.at = at /\ k.status = "sent"
  BY DEF Request
<1> HIDE DEF k
<1>4. CallOK(k)
  BY <1>3 DEF CallOK
<1>5. k \in GoodCalls
  BY <1>2, <1>4 DEF GoodCalls
<1> QED
  BY <1>5 DEF k

LEMMA MarkedOK ==
    ASSUME NEW call \in GoodCalls, NEW status \in {"served", "failed"},
           NEW rows \in Seq(Clip), NEW timeline \in SUBSET Clip,
           call.op = "addClip" /\ status = "served" => Len(rows) = 1
    PROVE  Marked(call, status, rows, timeline) \in GoodCalls
<1> DEFINE k == Marked(call, status, rows, timeline)
<1>1. call \in Call /\ CallOK(call)
  BY DEF GoodCalls
<1>2. /\ k.op = call.op /\ k.id = call.id /\ k.pos = call.pos /\ k.dur = call.dur
      /\ k.at = call.at /\ k.status = status /\ k.answer = rows
  BY DEF Marked
<1>3. k \in Call
  BY <1>1 DEF Marked, Call
<1> HIDE DEF k
<1>4. CallOK(k)
  BY <1>1, <1>2 DEF CallOK
<1>5. k \in GoodCalls
  BY <1>3, <1>4 DEF GoodCalls
<1> QED
  BY <1>5 DEF k

LEMMA SentOK ==
    ASSUME calls \in Seq(GoodCalls), NEW call \in GoodCalls, Send(call)
    PROVE  calls' \in Seq(GoodCalls)
<1> HIDE DEF GoodCalls
<1> QED
  BY AppendProperties DEF Send

LEMMA UpdateSentOK ==
    ASSUME calls \in Seq(GoodCalls), NEW id \in Ids, NEW pos \in Nat,
           NEW dur \in Nat \cup {None}, SendUpdate(id, pos, dur)
    PROVE  calls' \in Seq(GoodCalls)
<1>1. CASE id \in TmpIds
  BY <1>1 DEF SendUpdate
<1>2. CASE id \notin TmpIds
  <2>1. id \in ServerIds
    BY <1>2 DEF Ids
  <2> DEFINE call == Request("updateClip", id, None, pos, dur, None)
  <2>2. call \in GoodCalls
    BY <2>1, RequestOK
  <2>3. Send(call)
    BY <1>2 DEF SendUpdate
  <2> HIDE DEF call
  <2> QED
    BY <2>2, <2>3, SentOK
<1> QED
  BY <1>1, <1>2

\* A call in flight.
LEMMA CallInFlight ==
    ASSUME NetOK, NEW k \in DOMAIN calls
    PROVE  /\ k \in 1 .. Len(calls)
           /\ calls[k] \in GoodCalls /\ calls[k] \in Call /\ CallOK(calls[k])
<1>1. calls \in Seq(GoodCalls)
  BY DEF NetOK
<1>2. k \in 1 .. Len(calls)
  BY <1>1, LenProperties
<1>3. calls[k] \in GoodCalls
  BY <1>1, <1>2, ElementOfSeq
<1> QED
  BY <1>2, <1>3 DEF GoodCalls

LEMMA OverOK ==
    ASSUME NetOK, NEW k \in DOMAIN calls, Over(k)
    PROVE  calls' \in Seq(GoodCalls)
BY RemovedType DEF NetOK, Over

LEMMA ReplacedOK ==
    ASSUME NetOK, NEW k \in DOMAIN calls, NEW call \in GoodCalls,
           calls' = [calls EXCEPT ![k] = call]
    PROVE  calls' \in Seq(GoodCalls)
<1>1. calls \in Seq(GoodCalls) /\ k \in 1 .. Len(calls)
  BY CallInFlight DEF NetOK
<1> HIDE DEF GoodCalls
<1> QED
  BY <1>1, ExceptSeq

LEMMA FailedOK ==
    ASSUME NetOK, NEW k \in DOMAIN calls, Failed(k)
    PROVE  calls' \in Seq(GoodCalls)
<1> DEFINE call == Marked(calls[k], "failed", <<>>, {})
<1>1. call \in GoodCalls
  BY CallInFlight, MarkedOK, EmptySeq
<1>2. calls' = [calls EXCEPT ![k] = call]
  BY DEF Failed
<1> HIDE DEF call
<1> QED
  BY <1>1, <1>2, ReplacedOK

LEMMA AnsweredOK ==
    ASSUME NetOK, NEW k \in DOMAIN calls, NEW rows \in Seq(Clip), Answered(k, rows),
           calls[k].op = "addClip" => Len(rows) = 1
    PROVE  calls' \in Seq(GoodCalls)
<1> DEFINE call == Marked(calls[k], "served", rows, {})
<1>1. call \in GoodCalls
  BY CallInFlight, MarkedOK
<1>2. calls' = [calls EXCEPT ![k] = call]
  BY DEF Answered
<1> HIDE DEF call
<1> QED
  BY <1>1, <1>2, ReplacedOK

\* Storing a row that is a clip under its id.
LEMMA StoredOK ==
    ASSUME ServerOK, NEW row \in Clip, row.id \in ServerIds, table' = Stored(row)
    PROVE  /\ DOMAIN table' = DOMAIN table \cup {row.id}
           /\ DOMAIN table' \subseteq ServerIds
           /\ \A c \in DOMAIN table' : table'[c] \in Clip /\ table'[c].id = c
BY DEF ServerOK, Stored

(***************************************************************************)
(* Types: the user's actions.                                              *)
(***************************************************************************)
LEMMA StepOK ==
    ASSUME BoundsOK, Step
    PROVE  BoundsOK'
BY StepsBounded DEF BoundsOK, Step

LEMMA AddClipTypes ==
    ASSUME EditorInv, NEW pos \in Positions, NEW dur \in Durations, AddClip(pos, dur)
    PROVE  EditorInv'
<1>1. PICK tmp \in fresh \cap TmpIds :
        /\ PushSnapshot
        /\ clips' = clips \cup {[id |-> tmp, pos |-> pos, dur |-> AtLeast(MinDur, dur),
                                 inPoint |-> 0]}
        /\ fresh' = fresh \ {tmp}
        /\ Send(Request("addClip", None, tmp, pos, AtLeast(MinDur, dur), None))
  BY DEF AddClip
<1>2. pos \in Nat /\ AtLeast(MinDur, dur) \in Nat
  BY GesturesSane, MinDurPositive DEF AtLeast
<1>3. TabOK'
  <2>1. clips' \in Snapshots
    BY <1>1, <1>2 DEF EditorInv, TabOK, Snapshots, Clip, Ids
  <2>2. drag' = drag
    BY DEF AddClip
  <2> QED
    BY <1>1, <2>1, <2>2, PushedOK DEF EditorInv, TabOK
<1>4. NetOK'
  <2>1. Request("addClip", None, tmp, pos, AtLeast(MinDur, dur), None) \in GoodCalls
    BY <1>1, <1>2, RequestOK
  <2>2. inbox' = inbox
    BY DEF AddClip
  <2>3. calls' \in Seq(GoodCalls)
    BY <1>1, <2>1, SentOK DEF EditorInv, NetOK
  <2> QED
    BY <2>2, <2>3 DEF EditorInv, NetOK
<1>5. ServerOK'
  BY <1>1 DEF AddClip, EditorInv, ServerOK
<1>6. BoundsOK'
  BY StepOK DEF AddClip, UserActs, EditorInv
<1> QED
  BY <1>3, <1>4, <1>5, <1>6 DEF EditorInv

LEMMA GrabTypes ==
    ASSUME EditorInv, NEW c \in Touchable, NEW by \in {"body", "left", "right"}, Grab(c, by)
    PROVE  EditorInv'
<1>1. c \in Clip
  BY DEF EditorInv, TabOK, Snapshots, Touchable
<1>2. TabOK'
  <2>1. drag' \in Drags
    BY <1>1 DEF Grab, Drags, Clip
  <2>2. clips' = clips /\ PushSnapshot
    BY DEF Grab
  <2> QED
    BY <2>1, <2>2, PushedOK DEF EditorInv, TabOK
<1>3. NetOK' /\ ServerOK'
  BY DEF Grab, netVars, serverVars, EditorInv, NetOK, ServerOK
<1>4. BoundsOK'
  BY StepOK DEF Grab, UserActs, EditorInv
<1> QED
  BY <1>2, <1>3, <1>4 DEF EditorInv

LEMMA MoveClipTypes ==
    ASSUME EditorInv, NEW pos \in Positions, MoveClip(pos)
    PROVE  EditorInv'
<1>1. pos \in Nat /\ drag \in Drags
  BY GesturesSane DEF MoveClip, EditorInv, TabOK
<1>2. TabOK'
  <2>1. \A c \in Under(drag.id) : [c EXCEPT !.pos = pos] \in Clip
    BY <1>1 DEF Under, EditorInv, TabOK, Snapshots, Clip
  <2>2. clips' \in Snapshots
    BY <2>1 DEF MoveClip, Without, EditorInv, TabOK, Snapshots
  <2> QED
    BY <2>2 DEF MoveClip, EditorInv, TabOK
<1>3. NetOK'
  <2>1. drag.id \in Ids /\ SendUpdate(drag.id, pos, None)
    BY <1>1 DEF MoveClip, Drags
  <2>2. calls' \in Seq(GoodCalls)
    BY <1>1, <2>1, UpdateSentOK DEF EditorInv, NetOK
  <2> QED
    BY <2>2 DEF MoveClip, EditorInv, NetOK
<1>4. ServerOK'
  BY DEF MoveClip, serverVars, EditorInv, ServerOK
<1>5. BoundsOK'
  BY StepOK DEF MoveClip, UserActs, EditorInv
<1> QED
  BY <1>2, <1>3, <1>4, <1>5 DEF EditorInv

LEMMA ResizedOK ==
    ASSUME NEW c \in Clip, NEW pos \in Nat, NEW dur \in Int
    PROVE  Resized(c, pos, dur) \in Clip /\ Resized(c, pos, dur).id = c.id
BY MinDurPositive DEF Resized, Clip, AtLeast

LEMMA ResizeTypes ==
    ASSUME EditorInv, UserActs, drag # None, NEW pos \in Nat, NEW dur \in Int,
           ResizeClip(pos, dur)
    PROVE  EditorInv'
<1>1. drag \in Drags
  BY DEF EditorInv, TabOK
<1>2. TabOK'
  <2>1. \A c \in Under(drag.id) : Resized(c, pos, dur) \in Clip
    BY ResizedOK DEF Under, EditorInv, TabOK, Snapshots
  <2>2. clips' \in Snapshots
    BY <2>1 DEF ResizeClip, Without, EditorInv, TabOK, Snapshots
  <2> QED
    BY <2>2 DEF ResizeClip, EditorInv, TabOK
<1>3. NetOK'
  <2>1. drag.id \in Ids /\ SendUpdate(drag.id, pos, AtLeast(MinDur, dur))
    BY <1>1 DEF ResizeClip, Drags
  <2>2. AtLeast(MinDur, dur) \in Nat
    BY MinDurPositive DEF AtLeast
  <2>3. calls' \in Seq(GoodCalls)
    BY <2>1, <2>2, UpdateSentOK DEF EditorInv, NetOK
  <2> QED
    BY <2>3 DEF ResizeClip, EditorInv, NetOK
<1>4. ServerOK'
  BY DEF ResizeClip, serverVars, EditorInv, ServerOK
<1>5. BoundsOK'
  BY StepOK DEF UserActs, EditorInv
<1> QED
  BY <1>2, <1>3, <1>4, <1>5 DEF EditorInv

LEMMA TrimTypes ==
    ASSUME EditorInv,
           \/ \E pos \in Positions : TrimLeft(pos)
           \/ \E dur \in Durations : TrimRight(dur)
    PROVE  EditorInv'
<1>1. ASSUME NEW pos \in Positions, TrimLeft(pos)
      PROVE  EditorInv'
  <2>1. drag \in Drags /\ drag # None /\ UserActs
    BY <1>1 DEF TrimLeft, EditorInv, TabOK
  <2>2. pos \in Nat /\ drag.dur - (pos - drag.pos) \in Int
    BY <2>1, GesturesSane DEF Drags
  <2> QED
    BY <1>1, <2>1, <2>2, ResizeTypes DEF TrimLeft
<1>2. ASSUME NEW dur \in Durations, TrimRight(dur)
      PROVE  EditorInv'
  <2>1. drag \in Drags /\ drag # None /\ UserActs
    BY <1>2 DEF TrimRight, EditorInv, TabOK
  <2>2. drag.pos \in Nat /\ dur \in Int
    BY <2>1, GesturesSane DEF Drags
  <2> QED
    BY <1>2, <2>1, <2>2, ResizeTypes DEF TrimRight
<1> QED
  BY <1>1, <1>2

LEMMA SplitClipTypes ==
    ASSUME EditorInv, NEW c \in Touchable, NEW at \in 1 .. c.dur, SplitClipAt(c, at)
    PROVE  EditorInv'
<1>1. PICK tmp \in fresh \cap TmpIds :
        /\ clips' = (clips \ {c}) \cup {LeftHalf(c, at), RightHalf(c, at, tmp)}
        /\ fresh' = fresh \ {tmp}
        /\ IF c.id \in TmpIds THEN UNCHANGED calls
           ELSE Send(Request("splitClip", c.id, tmp, c.pos + at, None, SplitArgument(c, at)))
  BY DEF SplitClipAt
<1>2. c \in Clip
  BY DEF EditorInv, TabOK, Snapshots, Touchable
<1>3. at \in Nat /\ c.dur - at \in Nat /\ c.pos + at \in Nat /\ c.inPoint + at \in Nat
  <2>1. c.dur \in Nat /\ c.pos \in Nat /\ c.inPoint \in Nat
    BY <1>2 DEF Clip
  <2> QED
    BY <2>1
<1>4. TabOK'
  <2>1. LeftHalf(c, at) \in Clip
    BY <1>2, <1>3 DEF LeftHalf, Clip
  <2>2. RightHalf(c, at, tmp) \in Clip
    BY <1>1, <1>3 DEF RightHalf, Clip, Ids
  <2>3. clips' \in Snapshots
    BY <1>1, <2>1, <2>2 DEF EditorInv, TabOK, Snapshots
  <2>4. drag' = drag /\ PushSnapshot
    BY DEF SplitClipAt
  <2> QED
    BY <2>3, <2>4, PushedOK DEF EditorInv, TabOK
<1>5. NetOK'
  <2>1. CASE c.id \in TmpIds
    BY <1>1, <2>1 DEF SplitClipAt, EditorInv, NetOK
  <2>2. CASE c.id \notin TmpIds
    <3> DEFINE call == Request("splitClip", c.id, tmp, c.pos + at, None, SplitArgument(c, at))
    <3>1. c.id \in ServerIds
      BY <1>2, <2>2 DEF Clip, Ids
    <3>2. SplitArgument(c, at) \in Nat
      BY <1>3 DEF SplitArgument
    <3>3. call \in GoodCalls
      BY <1>1, <1>3, <3>1, <3>2, RequestOK
    <3>4. Send(call)
      BY <1>1, <2>2
    <3> HIDE DEF call
    <3>5. calls' \in Seq(GoodCalls)
      BY <3>3, <3>4, SentOK DEF EditorInv, NetOK
    <3> QED
      BY <3>5 DEF SplitClipAt, EditorInv, NetOK
  <2> QED
    BY <2>1, <2>2
<1>6. ServerOK'
  BY <1>1 DEF SplitClipAt, EditorInv, ServerOK
<1>7. BoundsOK'
  BY StepOK DEF SplitClipAt, UserActs, EditorInv
<1> QED
  BY <1>4, <1>5, <1>6, <1>7 DEF EditorInv

LEMMA SplitOutsideTypes ==
    ASSUME EditorInv, SplitOutside
    PROVE  EditorInv'
<1>1. TabOK'
  BY PushedOK DEF SplitOutside, EditorInv, TabOK
<1>2. NetOK' /\ ServerOK'
  BY DEF SplitOutside, netVars, serverVars, EditorInv, NetOK, ServerOK
<1>3. BoundsOK'
  BY StepOK DEF SplitOutside, UserActs, EditorInv
<1> QED
  BY <1>1, <1>2, <1>3 DEF EditorInv

LEMMA DeleteClipsTypes ==
    ASSUME EditorInv, NEW ids \in SUBSET Ids, DeleteClips(ids)
    PROVE  EditorInv'
<1> DEFINE sent == {c.id : c \in clips} \cap ids \cap ServerIds
<1>1. PICK order \in [1 .. Cardinality(sent) -> sent] :
        calls' = calls \o [i \in DOMAIN order |->
                                Request("deleteClip", order[i], None, None, None, None)]
  BY DEF DeleteClips
<1>2. TabOK'
  <2>1. clips' \in Snapshots
    BY DEF DeleteClips, Without, EditorInv, TabOK, Snapshots
  <2> QED
    BY <2>1, PushedOK DEF DeleteClips, EditorInv, TabOK
<1>3. NetOK'
  <2>1. Cardinality(sent) \in Nat
    BY ServerIdsFinite, FS_Subset, FS_CardinalityType
  <2> DEFINE more == [i \in DOMAIN order |->
                        Request("deleteClip", order[i], None, None, None, None)]
  <2>2. \A i \in 1 .. Cardinality(sent) :
            Request("deleteClip", order[i], None, None, None, None) \in GoodCalls
    <3> TAKE i \in 1 .. Cardinality(sent)
    <3>1. order[i] \in ServerIds
      BY <1>1
    <3> QED
      BY <3>1, RequestOK
  <2>3. DOMAIN order = 1 .. Cardinality(sent)
    BY <1>1
  <2>4. more \in [1 .. Cardinality(sent) -> GoodCalls]
    BY <2>2, <2>3
  <2>5. calls' = calls \o more
    BY <1>1
  <2> HIDE DEF more, sent, GoodCalls
  <2>6. more \in Seq(GoodCalls)
    BY <2>1, <2>4
  <2>7. calls \in Seq(GoodCalls)
    BY DEF EditorInv, NetOK
  <2>8. calls' \in Seq(GoodCalls)
    BY <2>5, <2>6, <2>7, ConcatProperties
  <2> QED
    BY <2>8 DEF DeleteClips, EditorInv, NetOK
<1>4. ServerOK'
  BY DEF DeleteClips, serverVars, EditorInv, ServerOK
<1>5. BoundsOK'
  BY StepOK DEF DeleteClips, UserActs, EditorInv
<1> QED
  BY <1>2, <1>3, <1>4, <1>5 DEF EditorInv

LEMMA UserTypes ==
    ASSUME EditorInv, UserEdits \/ Undo \/ Redo \/ AskProject \/ Release
    PROVE  EditorInv'
<1>1. CASE \E pos \in Positions, dur \in Durations : AddClip(pos, dur)
  BY <1>1, AddClipTypes
<1>2. CASE \E c \in Touchable, by \in {"body", "left", "right"} : Grab(c, by)
  BY <1>2, GrabTypes
<1>3. CASE \E pos \in Positions : MoveClip(pos)
  BY <1>3, MoveClipTypes
<1>4. CASE \/ \E pos \in Positions : TrimLeft(pos)
           \/ \E dur \in Durations : TrimRight(dur)
  BY <1>4, TrimTypes
<1>5. CASE \E c \in Touchable : \E at \in 1 .. c.dur : SplitClipAt(c, at)
  BY <1>5, SplitClipTypes
<1>6. CASE SplitOutside
  BY <1>6, SplitOutsideTypes
<1>7. CASE \E chosen \in SUBSET Touchable : DeleteClips({c.id : c \in chosen})
  <2>1. PICK chosen \in SUBSET Touchable : DeleteClips({c.id : c \in chosen})
    BY <1>7
  <2>2. {c.id : c \in chosen} \in SUBSET Ids
    BY <2>1 DEF Touchable, EditorInv, TabOK, Snapshots, Clip
  <2> QED
    BY <2>1, <2>2, DeleteClipsTypes
<1>8. CASE Undo
  <2>1. TabOK'
    BY <1>8, UndoneOK DEF Undo, EditorInv, TabOK
  <2>2. NetOK' /\ ServerOK'
    BY <1>8 DEF Undo, netVars, serverVars, EditorInv, NetOK, ServerOK
  <2>3. BoundsOK'
    BY <1>8, StepOK DEF Undo, UserActs, EditorInv
  <2> QED
    BY <2>1, <2>2, <2>3 DEF EditorInv
<1>9. CASE Redo
  <2>1. TabOK'
    BY <1>9, RedoneOK DEF Redo, EditorInv, TabOK
  <2>2. NetOK' /\ ServerOK'
    BY <1>9 DEF Redo, netVars, serverVars, EditorInv, NetOK, ServerOK
  <2>3. BoundsOK'
    BY <1>9, StepOK DEF Redo, UserActs, EditorInv
  <2> QED
    BY <2>1, <2>2, <2>3 DEF EditorInv
<1>10. CASE AskProject
  <2>1. Request("load", None, None, None, None, None) \in GoodCalls
    BY RequestOK
  <2>2. calls' \in Seq(GoodCalls)
    BY <1>10, <2>1, SentOK DEF AskProject, EditorInv, NetOK
  <2>3. NetOK'
    BY <1>10, <2>2 DEF AskProject, EditorInv, NetOK
  <2>4. TabOK' /\ ServerOK'
    BY <1>10 DEF AskProject, tabVars, serverVars, EditorInv, TabOK, ServerOK
  <2>5. BoundsOK'
    BY <1>10, StepOK DEF AskProject, UserActs, EditorInv
  <2> QED
    BY <2>3, <2>4, <2>5 DEF EditorInv
<1>11. CASE Release
  BY <1>11 DEF Release, netVars, serverVars, EditorInv, TabOK, NetOK, ServerOK, BoundsOK
<1> QED
  BY <1>1, <1>2, <1>3, <1>4, <1>5, <1>6, <1>7, <1>8, <1>9, <1>10, <1>11 DEF UserEdits

(***************************************************************************)
(* Types: the server's actions, and what becomes of calls.                 *)
(***************************************************************************)
LEMMA ServeAddTypes ==
    ASSUME EditorInv, NEW k \in DOMAIN calls, ServeAdd(k)
    PROVE  EditorInv'
<1> DEFINE call == calls[k]
           rowOf(id) == [id |-> id, pos |-> call.pos, dur |-> call.dur, inPoint |-> 0]
<1>1. PICK id \in fresh \cap ServerIds :
        table' = Stored(rowOf(id)) /\ fresh' = fresh \ {id} /\ Answered(k, <<rowOf(id)>>)
  BY DEF ServeAdd
<1>2. call.pos \in Nat /\ call.dur \in Nat
  BY CallInFlight DEF ServeAdd, CallOK, EditorInv
<1> HIDE DEF call
<1> DEFINE row == rowOf(id)
<1>3. row \in Clip /\ row.id = id
  BY <1>1, <1>2 DEF Clip, Ids
<1>4. <<row>> \in Seq(Clip) /\ Len(<<row>>) = 1
  BY <1>3
<1>r. table' = Stored(row) /\ Answered(k, <<row>>)
  BY <1>1
<1> HIDE DEF row, rowOf
<1>5. calls' \in Seq(GoodCalls)
  BY <1>r, <1>4, AnsweredOK DEF EditorInv
<1>6. ServerOK'
  BY <1>1, <1>3, <1>r, StoredOK DEF EditorInv, ServerOK
<1> QED
  BY <1>5, <1>6 DEF ServeAdd, tabVars, EditorInv, TabOK, NetOK, BoundsOK

LEMMA ServeUpdateTypes ==
    ASSUME EditorInv, NEW k \in DOMAIN calls, ServeUpdate(k)
    PROVE  EditorInv'
<1> DEFINE call == calls[k]
           row == Updated(table[call.id], call)
<1>1. call.pos \in Nat /\ call.id \in ServerIds /\ call.dur \in Nat \cup {None}
  BY CallInFlight DEF ServeUpdate, CallOK, EditorInv, Call
<1>2. calls' \in Seq(GoodCalls)
  BY OverOK DEF ServeUpdate, EditorInv
<1>3. ServerOK'
  <2>1. CASE call.id \in DOMAIN table
    <3>1. table[call.id] \in Clip /\ table[call.id].id = call.id
      BY <2>1 DEF EditorInv, ServerOK
    <3>2. table' = Stored(row) /\ fresh' = fresh
      BY <2>1 DEF ServeUpdate
    <3> HIDE DEF call
    <3>3. AtLeast(MinDur, Coalesce(call.dur, table[call.id].dur)) \in Nat
      BY <1>1, <3>1, MinDurPositive, IdsApart DEF AtLeast, Coalesce, Clip
    <3>4. row \in Clip /\ row.id = call.id
      BY <1>1, <3>1, <3>3 DEF Updated, Clip
    <3> HIDE DEF row
    <3> QED
      <4>1. /\ DOMAIN table' = DOMAIN table \cup {row.id}
            /\ DOMAIN table' \subseteq ServerIds
            /\ \A c \in DOMAIN table' : table'[c] \in Clip /\ table'[c].id = c
        BY <1>1, <3>2, <3>4, StoredOK DEF EditorInv
      <4>2. DOMAIN table' = DOMAIN table
        BY <2>1, <3>4, <4>1
      <4> QED
        BY <3>2, <4>1, <4>2 DEF EditorInv, ServerOK
  <2>2. CASE call.id \notin DOMAIN table
    BY <2>2 DEF ServeUpdate, EditorInv, ServerOK
  <2> QED
    BY <2>1, <2>2
<1> QED
  BY <1>2, <1>3 DEF ServeUpdate, tabVars, EditorInv, TabOK, NetOK, BoundsOK

LEMMA ServeDeleteTypes ==
    ASSUME EditorInv, NEW k \in DOMAIN calls, ServeDelete(k)
    PROVE  EditorInv'
<1>1. calls' \in Seq(GoodCalls)
  BY OverOK DEF ServeDelete, EditorInv
<1>2. ServerOK'
  BY DEF ServeDelete, EditorInv, ServerOK
<1> QED
  BY <1>1, <1>2 DEF ServeDelete, tabVars, EditorInv, TabOK, NetOK, BoundsOK

LEMMA ServeSplitTypes ==
    ASSUME EditorInv, NEW k \in DOMAIN calls, ServeSplit(k)
    PROVE  EditorInv'
<1> DEFINE call == calls[k]
           old == table[call.id]
           leftHalf == ShortenedRow(old, call.at)
           rightOf(id) == InsertedRow(old, call.at, id)
<1>1. call.id \in ServerIds /\ call.at \in Nat /\ call.op = "splitClip"
  BY CallInFlight DEF ServeSplit, CallOK, EditorInv
<1>2. CASE /\ call.id \in DOMAIN table
           /\ call.at >= MinDur /\ call.at <= old.dur - MinDur
  <2>1. PICK id \in fresh \cap ServerIds :
            /\ table' = [c \in DOMAIN table \cup {id} |->
                            IF c = id THEN rightOf(id)
                            ELSE IF c = call.id THEN leftHalf ELSE table[c]]
            /\ fresh' = fresh \ {id}
            /\ Answered(k, <<leftHalf, rightOf(id)>>)
    BY <1>2 DEF ServeSplit
  <2>2. old \in Clip /\ old.id = call.id
    BY <1>2 DEF EditorInv, ServerOK
  <2> HIDE DEF old, call
  <2>3. leftHalf \in Clip /\ leftHalf.id = call.id
    BY <1>1, <2>2 DEF ShortenedRow, Clip
  <2> DEFINE right == rightOf(id)
  <2>4. old.dur - call.at \in Nat /\ old.pos + call.at \in Nat /\ old.inPoint + call.at \in Nat
    <3>1. old.dur \in Nat /\ old.pos \in Nat /\ old.inPoint \in Nat
      BY <2>2 DEF Clip
    <3> QED
      BY <1>1, <1>2, <3>1, MinDurPositive
  <2>5. right \in Clip /\ right.id = id
    BY <2>1, <2>4 DEF InsertedRow, Clip, Ids
  <2>6. <<leftHalf, right>> \in Seq(Clip)
    BY <2>3, <2>5
  <2>7. Answered(k, <<leftHalf, right>>) /\ calls[k].op # "addClip"
    BY <1>1, <2>1 DEF call
  <2>8. table' = [c \in DOMAIN table \cup {id} |->
                            IF c = id THEN right
                            ELSE IF c = call.id THEN leftHalf ELSE table[c]]
    BY <2>1
  <2> HIDE DEF right, rightOf, leftHalf
  <2>9. calls' \in Seq(GoodCalls)
    BY <2>6, <2>7, AnsweredOK DEF EditorInv
  <2>10. ServerOK'
    BY <1>1, <2>1, <2>3, <2>5, <2>8 DEF EditorInv, ServerOK
  <2> QED
    BY <2>9, <2>10 DEF ServeSplit, tabVars, EditorInv, TabOK, NetOK, BoundsOK
<1>3. CASE ~(/\ call.id \in DOMAIN table
             /\ call.at >= MinDur /\ call.at <= old.dur - MinDur)
  <2>1. Failed(k) /\ UNCHANGED serverVars
    BY <1>3 DEF ServeSplit
  <2>2. calls' \in Seq(GoodCalls)
    BY <2>1, FailedOK DEF EditorInv
  <2> QED
    BY <2>1, <2>2 DEF ServeSplit, tabVars, serverVars, EditorInv, TabOK, NetOK, ServerOK, BoundsOK
<1> QED
  BY <1>2, <1>3

LEMMA ServerTypes ==
    ASSUME EditorInv, NEW k \in DOMAIN calls,
           ServerServes(k) \/ Refuse(k) \/ Drop(k) \/ LoseAnswer(k)
    PROVE  EditorInv'
<1>1. CASE ServeProject(k)
  <2> DEFINE call == Marked(calls[k], "served", <<>>, RowsOf(table))
  <2>1. RowsOf(table) \in SUBSET Clip
    BY DEF RowsOf, EditorInv, ServerOK
  <2>2. calls[k].op = "load" /\ calls' = [calls EXCEPT ![k] = call]
    BY <1>1 DEF ServeProject
  <2>3. call \in GoodCalls
    BY <2>1, <2>2, CallInFlight, MarkedOK, EmptySeq DEF EditorInv
  <2> HIDE DEF call
  <2>4. calls' \in Seq(GoodCalls)
    BY <2>2, <2>3, ReplacedOK DEF EditorInv
  <2> QED
    BY <1>1, <2>4
    DEF ServeProject, tabVars, serverVars, EditorInv, TabOK, NetOK, ServerOK, BoundsOK
<1>2. CASE Refuse(k)
  BY <1>2, FailedOK
  DEF Refuse, tabVars, serverVars, EditorInv, TabOK, NetOK, ServerOK, BoundsOK
<1>3. CASE Drop(k)
  BY <1>3, OverOK
  DEF Drop, tabVars, serverVars, EditorInv, TabOK, NetOK, ServerOK, BoundsOK
<1>4. CASE LoseAnswer(k)
  BY <1>4, OverOK, FailedOK
  DEF LoseAnswer, tabVars, serverVars, EditorInv, TabOK, NetOK, ServerOK, BoundsOK
<1> QED
  BY <1>1, <1>2, <1>3, <1>4, ServeAddTypes, ServeUpdateTypes, ServeDeleteTypes,
     ServeSplitTypes DEF ServerServes

LEMMA OthersTypes ==
    ASSUME EditorInv,
           \/ \E pos \in Positions, dur \in Durations : OthersAdd(pos, dur)
           \/ \E pos \in Positions, dur \in Durations, c \in DOMAIN table :
                OthersUpdate(c, pos, dur)
           \/ \E c \in DOMAIN table : OthersDelete(c)
    PROVE  EditorInv'
<1>1. ASSUME OthersAct, NEW row \in Clip, inbox' \in {Append(inbox, Upsert(row)),
                                                     Append(inbox, Removal(row))}
      PROVE  TabOK' /\ NetOK' /\ BoundsOK'
  <2>1. Upsert(row) \in Events /\ Removal(row) \in Events
    BY <1>1 DEF Upsert, Removal, Events
  <2>2. inbox \in Seq(Events)
    BY DEF EditorInv, NetOK
  <2> HIDE DEF Events
  <2>3. inbox' \in Seq(Events)
    BY <1>1, <2>1, <2>2, AppendProperties
  <2>4. NetOK' /\ TabOK'
    BY <1>1, <2>3 DEF OthersAct, tabVars, EditorInv, NetOK, TabOK
  <2> QED
    BY <1>1, <2>4, StepOK DEF OthersAct, EditorInv
<1>2. ASSUME NEW pos \in Positions, NEW dur \in Durations, OthersAdd(pos, dur)
      PROVE  EditorInv'
  <2> DEFINE rowOf(id) == [id |-> id, pos |-> pos, dur |-> dur, inPoint |-> 0]
  <2>1. PICK id \in fresh \cap ServerIds :
            /\ table' = Stored(rowOf(id))
            /\ inbox' = Append(inbox, Upsert(rowOf(id)))
            /\ fresh' = fresh \ {id}
    BY <1>2 DEF OthersAdd
  <2> DEFINE row == rowOf(id)
  <2>2. row \in Clip /\ row.id = id
    BY <2>1, GesturesSane DEF Clip, Ids
  <2>3. table' = Stored(row) /\ inbox' = Append(inbox, Upsert(row)) /\ OthersAct
    BY <1>2, <2>1 DEF OthersAdd
  <2> HIDE DEF row, rowOf
  <2>4. ServerOK'
    BY <2>1, <2>2, <2>3, StoredOK DEF EditorInv, ServerOK
  <2> QED
    BY <1>1, <2>2, <2>3, <2>4 DEF EditorInv
<1>3. ASSUME NEW pos \in Positions, NEW dur \in Durations, NEW c \in DOMAIN table,
             OthersUpdate(c, pos, dur)
      PROVE  EditorInv'
  <2> DEFINE row == Resized(table[c], pos, dur)
  <2>1. table[c] \in Clip /\ table[c].id = c /\ c \in ServerIds
    BY DEF EditorInv, ServerOK
  <2>p. pos \in Nat /\ dur \in Int
    BY GesturesSane
  <2>2. row \in Clip /\ row.id = c
    BY <2>1, <2>p, ResizedOK
  <2>3. table' = Stored(row) /\ inbox' = Append(inbox, Upsert(row)) /\ fresh' = fresh /\ OthersAct
    BY <1>3 DEF OthersUpdate
  <2> HIDE DEF row
  <2>4. ServerOK'
    <3>1. /\ DOMAIN table' = DOMAIN table \cup {row.id}
          /\ DOMAIN table' \subseteq ServerIds
          /\ \A d \in DOMAIN table' : table'[d] \in Clip /\ table'[d].id = d
      BY <2>1, <2>2, <2>3, StoredOK DEF EditorInv
    <3>2. DOMAIN table' = DOMAIN table
      BY <2>2, <3>1
    <3> QED
      BY <2>3, <3>1, <3>2 DEF EditorInv, ServerOK
  <2> QED
    BY <1>1, <2>2, <2>3, <2>4 DEF EditorInv
<1>4. ASSUME NEW c \in DOMAIN table, OthersDelete(c)
      PROVE  EditorInv'
  <2>1. table[c] \in Clip
    BY DEF EditorInv, ServerOK
  <2>2. OthersAct /\ inbox' = Append(inbox, Removal(table[c]))
    BY <1>4 DEF OthersDelete
  <2>3. ServerOK'
    BY <1>4 DEF OthersDelete, EditorInv, ServerOK
  <2> QED
    BY <1>1, <2>1, <2>2, <2>3 DEF EditorInv
<1> QED
  BY <1>2, <1>3, <1>4

(***************************************************************************)
(* Types: what reaches the tab.                                            *)
(***************************************************************************)
LEMMA AnswerAddTypes ==
    ASSUME EditorInv, NEW k \in DOMAIN calls, AnswerAdd(k)
    PROVE  EditorInv'
<1> DEFINE rows == calls[k].answer
<1>1. rows \in Seq(Clip) /\ Len(rows) = 1
  BY CallInFlight DEF AnswerAdd, CallOK, Call, EditorInv
<1>2. Head(rows) \in Clip
  <2> HIDE DEF rows
  <2>1. rows # <<>>
    BY <1>1, EmptySeq
  <2> QED
    BY <1>1, <2>1, PoppedStack
<1>3. Head(rows).id \in Ids
  BY <1>2 DEF Clip
<1>4. clips' = Without({calls[k].tmp}) \cup {[c EXCEPT !.id = Head(rows).id] : c \in Under(calls[k].tmp)}
  BY DEF AnswerAdd
<1> HIDE DEF rows
<1>5. \A c \in Under(calls[k].tmp) : [c EXCEPT !.id = Head(rows).id] \in Clip
  BY <1>3 DEF Under, EditorInv, TabOK, Snapshots, Clip
<1>6. clips' \in Snapshots
  BY <1>4, <1>5 DEF Without, EditorInv, TabOK, Snapshots
<1>7. calls' \in Seq(GoodCalls)
  BY OverOK DEF AnswerAdd, EditorInv
<1> QED
  BY <1>6, <1>7 DEF AnswerAdd, serverVars, EditorInv, TabOK, NetOK, ServerOK, BoundsOK

LEMMA AnswerSplitTypes ==
    ASSUME EditorInv, NEW k \in DOMAIN calls, AnswerSplit(k)
    PROVE  EditorInv'
<1> DEFINE rows == calls[k].answer
           half(c, row) == [id |-> row.id, pos |-> c.pos, dur |-> row.dur, inPoint |-> row.inPoint]
<1>1. rows \in Seq(Clip)
  BY CallInFlight DEF Call, EditorInv
<1>2. clips' \in Snapshots
  <2>1. CASE UNCHANGED clips
    BY <2>1 DEF EditorInv, TabOK
  <2>2. CASE \E i \in DOMAIN rows :
                clips' = Without({calls[k].tmp}) \cup {half(c, rows[i]) : c \in Under(calls[k].tmp)}
    <3>1. PICK i \in DOMAIN rows :
                clips' = Without({calls[k].tmp}) \cup {half(c, rows[i]) : c \in Under(calls[k].tmp)}
      BY <2>2
    <3> HIDE DEF rows
    <3>2. rows[i] \in Clip
      BY <1>1, <3>1, LenProperties, ElementOfSeq
    <3>3. \A c \in Under(calls[k].tmp) : half(c, rows[i]) \in Clip
      BY <3>2 DEF Under, EditorInv, TabOK, Snapshots, Clip
    <3> HIDE DEF half
    <3> QED
      BY <3>1, <3>3 DEF Without, EditorInv, TabOK, Snapshots
  <2> QED
    BY <2>1, <2>2 DEF AnswerSplit
<1>3. calls' \in Seq(GoodCalls)
  BY OverOK DEF AnswerSplit, EditorInv
<1> QED
  BY <1>2, <1>3 DEF AnswerSplit, serverVars, EditorInv, TabOK, NetOK, ServerOK, BoundsOK

LEMMA TabTypes ==
    ASSUME EditorInv, NEW k \in DOMAIN calls, TabHears(k)
    PROVE  EditorInv'
<1>1. CASE RollBack(k)
  <2>1. UndoLocal /\ Over(k)
    BY <1>1 DEF RollBack
  <2>2. TabOK'
    BY <1>1, <2>1, UndoneOK DEF RollBack, EditorInv, TabOK
  <2>3. calls' \in Seq(GoodCalls)
    BY <2>1, OverOK DEF EditorInv
  <2> QED
    BY <1>1, <2>2, <2>3 DEF RollBack, serverVars, EditorInv, NetOK, ServerOK, BoundsOK
<1>2. CASE LoadProject(k)
  <2>1. clips' = calls[k].loaded /\ undo' = <<>> /\ redo' = <<>> /\ Over(k) /\ drag' = drag
    BY <1>2 DEF LoadProject
  <2>2. clips' \in Snapshots
    BY <2>1, CallInFlight DEF Call, Snapshots, EditorInv
  <2>3. /\ undo' \in Seq(Snapshots) /\ redo' \in Seq(Snapshots)
        /\ Len(undo') = 0 /\ Len(redo') = 0
    BY <2>1, EmptySeq
  <2>4. TabOK'
    BY <2>1, <2>2, <2>3, MaxUndoPositive DEF EditorInv, TabOK
  <2>5. calls' \in Seq(GoodCalls)
    BY <2>1, OverOK DEF EditorInv
  <2> QED
    BY <1>2, <2>4, <2>5 DEF LoadProject, serverVars, EditorInv, NetOK, ServerOK, BoundsOK
<1> QED
  BY <1>1, <1>2, AnswerAddTypes, AnswerSplitTypes DEF TabHears

LEMMA ReceiveTypes ==
    ASSUME EditorInv, Receive
    PROVE  EditorInv'
<1>1. inbox \in Seq(Events) /\ inbox # <<>>
  BY DEF Receive, EditorInv, NetOK
<1>2. Head(inbox) \in Events /\ Tail(inbox) \in Seq(Events)
  <2> HIDE DEF Events
  <2> QED
    BY <1>1, PoppedStack
<1>3. Head(inbox).row \in Clip
  BY <1>2 DEF Events
<1>4. clips' \in Snapshots
  BY <1>3 DEF Receive, ApplyRemoteClipUpsert, Without, EditorInv, TabOK, Snapshots
<1> QED
  BY <1>2, <1>4 DEF Receive, serverVars, EditorInv, TabOK, NetOK, ServerOK, BoundsOK

(***************************************************************************)
(* The theorems.                                                           *)
(***************************************************************************)
LEMMA InitTypes ==
    ASSUME EditorInit
    PROVE  EditorInv
<1>1. TabOK
  <2>1. clips \in Snapshots
    BY InitialClipsSane DEF EditorInit, Snapshots
  <2>2. undo \in Seq(Snapshots) /\ redo \in Seq(Snapshots) /\ Len(undo) = 0 /\ Len(redo) = 0
    BY EmptySeq DEF EditorInit
  <2> QED
    BY <2>1, <2>2, MaxUndoPositive DEF EditorInit, TabOK
<1>2. NetOK
  BY EmptySeq DEF EditorInit, NetOK
<1>3. ServerOK
  <2>1. DOMAIN table = {c.id : c \in InitialClips} /\ fresh = Ids \ DOMAIN table
    BY DEF EditorInit
  <2>2. \A id \in DOMAIN table : table[id] \in InitialClips /\ table[id].id = id
    BY <2>1 DEF EditorInit
  <2> QED
    BY <2>1, <2>2, InitialClipsSane DEF ServerOK
<1>4. BoundsOK
  BY StepsBounded DEF EditorInit, BoundsOK
<1> QED
  BY <1>1, <1>2, <1>3, <1>4 DEF EditorInv

LEMMA NextTypes ==
    ASSUME EditorInv, [EditorNext]_editorVars
    PROVE  EditorInv'
<1>1. CASE UserEdits \/ Undo \/ Redo \/ AskProject \/ Release
  BY <1>1, UserTypes
<1>2. CASE \E k \in DOMAIN calls :
                ServerServes(k) \/ Refuse(k) \/ Drop(k) \/ LoseAnswer(k) \/ TabHears(k)
  BY <1>2, ServerTypes, TabTypes
<1>3. CASE \E pos \in Positions, dur \in Durations :
                OthersAdd(pos, dur) \/ \E c \in DOMAIN table : OthersUpdate(c, pos, dur)
  BY <1>3, OthersTypes
<1>4. CASE \E c \in DOMAIN table : OthersDelete(c)
  BY <1>4, OthersTypes
<1>5. CASE Receive
  BY <1>5, ReceiveTypes
<1>6. CASE UNCHANGED editorVars
  BY <1>6 DEF editorVars, tabVars, netVars, serverVars, EditorInv, TabOK, NetOK,
              ServerOK, BoundsOK
<1> QED
  BY <1>1, <1>2, <1>3, <1>4, <1>5, <1>6 DEF EditorNext

LEMMA EditorInvariant == EditorSpec => []EditorInv
<1>1. EditorInit => EditorInv
  BY InitTypes
<1>2. EditorInv /\ [EditorNext]_editorVars => EditorInv'
  BY NextTypes
<1> QED
  BY <1>1, <1>2, PTL DEF EditorSpec

\* Whatever the user, the network and the other users do, the tab's state, its calls
\* and the server's rows have their types and the two stacks together hold at most
\* MAX_UNDO snapshots.
THEOREM EditorTypeCorrect == EditorSpec => []EditorTypeOK
<1>1. EditorInv => EditorTypeOK
  <2> SUFFICES ASSUME EditorInv PROVE EditorTypeOK
    OBVIOUS
  <2>1. calls \in Seq(Call)
    BY SeqMonotonic DEF GoodCalls, EditorInv, NetOK
  <2> QED
    BY <2>1 DEF EditorInv, TabOK, NetOK, ServerOK, BoundsOK, EditorTypeOK, Snapshots, Drags,
                Events
<1> QED
  BY <1>1, EditorInvariant, PTL

LEMMA StepWalks ==
    ASSUME EditorInv, EditorInv', [EditorNext]_editorVars
    PROVE  [History!Walk]_(History!histVars)
<1>1. StacksOK /\ StacksOK'
  BY DEF EditorInv, TabOK, StacksOK
<1>2. ASSUME PushSnapshot
      PROVE  History!Walk
  BY <1>1, <1>2, PushIsEdit DEF History!Walk
<1>3. ASSUME UNCHANGED <<undo, redo>>
      PROVE  History!Walk
  BY <1>1, <1>3, AmendInPlace DEF History!Walk
<1>4. CASE UserEdits
  <2>1. PushSnapshot \/ UNCHANGED <<undo, redo>>
    BY <1>4 DEF UserEdits, AddClip, Grab, MoveClip, TrimLeft, TrimRight, ResizeClip,
                SplitClipAt, SplitOutside, DeleteClips
  <2> QED
    BY <1>2, <1>3, <2>1
<1>5. CASE UndoLocal
  <2>1. CASE History!Undo
    BY <2>1 DEF History!Walk
  <2>2. CASE UNCHANGED <<clips, undo, redo>>
    BY <1>3, <2>2
  <2> QED
    BY <1>1, <1>5, <2>1, <2>2, UndoWalks
<1>6. CASE RedoLocal
  <2>1. CASE History!Redo
    BY <2>1 DEF History!Walk
  <2>2. CASE UNCHANGED <<clips, undo, redo>>
    BY <1>3, <2>2
  <2> QED
    BY <1>1, <1>6, <2>1, <2>2, RedoWalks
<1>7. ASSUME undo' = <<>>, redo' = <<>>
      PROVE  History!Walk
  <2>1. Len(undo') = 0 /\ Len(redo') = 0
    BY <1>7, EmptySeq
  <2>2. Len(HistOf(undo', clips', redo')) = 1
    BY <1>1, <2>1, HistNext
  <2>3. Len(undo') + 1 = 1
    BY <2>1
  <2>4. History!Reset
    BY <2>2, <2>3 DEF History!Reset, HistOf
  <2> QED
    BY <2>4 DEF History!Walk
<1>8. CASE \E k \in DOMAIN calls :
                ServerServes(k) \/ Refuse(k) \/ Drop(k) \/ LoseAnswer(k) \/ TabHears(k)
  <2>1. PICK k \in DOMAIN calls :
                ServerServes(k) \/ Refuse(k) \/ Drop(k) \/ LoseAnswer(k) \/ TabHears(k)
    BY <1>8
  <2>2. CASE ServerServes(k) \/ Refuse(k) \/ Drop(k) \/ LoseAnswer(k)
    <3>1. UNCHANGED tabVars
      BY <2>2 DEF ServerServes, ServeAdd, ServeUpdate, ServeDelete, ServeSplit, ServeProject,
                  Refuse, Drop, LoseAnswer
    <3> QED
      BY <1>3, <3>1 DEF tabVars
  <2>3. CASE TabHears(k)
    <3>1. CASE AnswerAdd(k) \/ AnswerSplit(k)
      BY <1>3, <3>1 DEF AnswerAdd, AnswerSplit
    <3>2. CASE RollBack(k)
      BY <1>5, <3>2 DEF RollBack
    <3>3. CASE LoadProject(k)
      BY <1>7, <3>3 DEF LoadProject
    <3> QED
      BY <2>3, <3>1, <3>2, <3>3 DEF TabHears
  <2> QED
    BY <2>1, <2>2, <2>3
<1>9. CASE Undo \/ Redo
  BY <1>5, <1>6, <1>9 DEF Undo, Redo
<1>10. CASE AskProject \/ Release
  BY <1>3, <1>10 DEF AskProject, Release, tabVars
<1>11. CASE \/ \E pos \in Positions, dur \in Durations :
                OthersAdd(pos, dur) \/ \E c \in DOMAIN table : OthersUpdate(c, pos, dur)
            \/ \E c \in DOMAIN table : OthersDelete(c)
  <2>1. UNCHANGED tabVars
    BY <1>11 DEF OthersAdd, OthersUpdate, OthersDelete, OthersAct
  <2> QED
    BY <1>3, <2>1 DEF tabVars
<1>12. CASE Receive
  BY <1>3, <1>12 DEF Receive
<1>13. CASE UNCHANGED editorVars
  BY <1>3, <1>13 DEF editorVars, tabVars
<1> QED
  BY <1>4, <1>8, <1>9, <1>10, <1>11, <1>12, <1>13 DEF EditorNext

\* Undo and redo walk along one history of the tab's states (the stacks and the clips
\* on screen), whatever is sent, answered, rolled back or received meanwhile: they
\* lose no state, and only a new edit or a reload drops one.
THEOREM EditorUndoHistory == EditorSpec => IsUndoHistory
<1>1. EditorInit => History!Begin
  <2> SUFFICES ASSUME EditorInit PROVE History!Begin
    OBVIOUS
  <2>1. StacksOK
    BY InitTypes DEF EditorInv, TabOK, StacksOK
  <2>2. Len(undo) = 0 /\ Len(redo) = 0
    BY EmptySeq DEF EditorInit
  <2>3. Len(HistOf(undo, clips, redo)) = 1 /\ Len(undo) + 1 = 1
    BY <2>1, <2>2, HistNow
  <2> QED
    BY <2>3 DEF History!Begin, HistOf
<1>2. EditorInv /\ EditorInv' /\ [EditorNext]_editorVars => [History!Walk]_(History!histVars)
  BY StepWalks
<1> QED
  BY <1>1, <1>2, EditorInvariant, PTL DEF EditorSpec, IsUndoHistory, History!UndoHistorySpec

(***************************************************************************)
(* Agreement with the server.  Where the tab can follow the server         *)
(* (InStep), the calls on their way explain the difference: from the       *)
(* server's clips, under the names the tab has for them, each call that    *)
(* has not been served leads on to the next set of clips, and the last of  *)
(* these sets is what the tab shows.                                       *)
(***************************************************************************)

\* The clips under an id.
Having(s, id) == {c \in s : c.id = id}
Renamed(c, id) == [id |-> id, pos |-> c.pos, dur |-> c.dur, inPoint |-> c.inPoint]

\* The calls whose answers will give a clip its id, and the rows that were inserted.
Waits(call) == call.op \in {"addClip", "splitClip"} /\ call.status = "served"
Waiting(q) == {w \in {q[k] : k \in DOMAIN q} : Waits(w)}
NewRow(call) == IF call.op = "addClip" THEN call.answer[1] ELSE call.answer[2]
News(q) == {NewRow(w).id : w \in Waiting(q)}

\* The server's clips under the names that the tab has for them.
ViewOf(q, t) == {t[id] : id \in DOMAIN t \ News(q)}
                \cup {Renamed(NewRow(w), w.tmp) : w \in Waiting(q)}

\* What a call that has not been served will make of a set of clips.
Replaced(s, call) ==
    IF call.op = "updateClip" THEN {Updated(c, call) : c \in Having(s, call.id)}
    ELSE IF call.op = "splitClip"
         THEN {LeftHalf(c, call.at) : c \in Having(s, call.id)}
              \cup {RightHalf(c, call.at, call.tmp) : c \in Having(s, call.id)}
    ELSE {}
Effect(s, call) ==
    IF call.status = "served" \/ call.op = "load" THEN s
    ELSE IF call.op = "addClip"
         THEN s \cup {[id |-> call.tmp, pos |-> call.pos, dur |-> call.dur, inPoint |-> 0]}
    ELSE {c \in s : c.id # call.id} \cup Replaced(s, call)

\* A set of clips that the tab may show, when the ids in "unknown" are not its own.
Proper(s, unknown) ==
    /\ \A c, d \in s : c.id = d.id => c = d
    /\ \A c \in s : c.dur >= MinDur /\ c.id \notin unknown

\* What a call that splits a clip relies on.
Cuts(s, call) ==
    \E c \in s : /\ c.id = call.id /\ call.pos = c.pos + call.at
                 /\ call.at >= MinDur /\ call.at <= c.dur - MinDur

\* The sets of clips from the server's to the tab's.
Chains == [0 .. Len(calls) -> SUBSET Clip]
Chain(h) ==
    /\ h[0] = ViewOf(calls, table) /\ h[Len(calls)] = clips
    /\ \A k \in 1 .. Len(calls) :
         /\ h[k] = Effect(h[k - 1], calls[k])
         /\ calls[k].status = "served" => h[k] = h[0]
         /\ (calls[k].op = "splitClip" /\ calls[k].status # "served") => Cuts(h[k - 1], calls[k])
    /\ \A k \in 0 .. Len(calls) : Proper(h[k], fresh \cup News(calls))
    /\ \A k \in 1 .. Len(calls) : \A j \in k .. Len(calls) :
         calls[k].tmp # None => Having(h[j], calls[k].tmp) = Having(h[k], calls[k].tmp)

Shaped(call) ==
    /\ call.op \in {"addClip", "splitClip"} <=> call.tmp # None
    /\ call.op \in {"updateClip", "deleteClip", "splitClip"} <=> call.id # None
    /\ call.op \in {"updateClip", "deleteClip"} => call.status = "sent"
    /\ call.op = "addClip" => call.dur >= MinDur
    /\ call.op = "splitClip" => call.pos \in Nat
    /\ call.status = "failed" => call.op = "splitClip"

Answers(call, t) ==
    /\ NewRow(call).id \in DOMAIN t /\ NewRow(call) = t[NewRow(call).id]
    /\ call.op = "splitClip" => /\ Len(call.answer) = 2
                                /\ call.answer[1].pos < call.pos /\ call.answer[2].pos >= call.pos

\* The calls, one by one and two by two: served before sent, every name once.
QueueInv ==
    /\ \A k \in 1 .. Len(calls) :
         /\ Shaped(calls[k])
         /\ calls[k].tmp \notin fresh /\ calls[k].id \notin fresh \cup News(calls)
         /\ Waits(calls[k]) => Answers(calls[k], table)
    /\ \A j, k \in 1 .. Len(calls) : j < k =>
         /\ calls[j].tmp # None => calls[j].tmp # calls[k].tmp
         /\ calls[j].status = "sent" => calls[k].status = "sent"
         /\ (Waits(calls[j]) /\ Waits(calls[k])) => NewRow(calls[j]).id # NewRow(calls[k]).id

Pending == \A c \in clips : c.id \in TmpIds => \E k \in 1 .. Len(calls) : calls[k].tmp = c.id

CallsInv == Pending /\ QueueInv /\ (inbox = <<>> => \E h \in Chains : Chain(h))

\* A user who waits has one call on its way, or the deletions of one key press; a
\* split of his can be taken back.
CalmInv ==
    \A k \in 1 .. Len(calls) :
        IF "haste" \in faults THEN calls[k].op # "load" /\ calls[k].status # "failed"
        ELSE /\ calls[k].op # "deleteClip" => Len(calls) = 1
             /\ (calls[k].op = "load" /\ calls[k].status = "served") =>
                    calls[k].loaded = RowsOf(table)
             /\ (calls[k].op = "splitClip" /\ calls[k].status # "served") =>
                    undo # <<>> /\ Head(undo) = RowsOf(table)

\* An event of another user is the one thing on its way.
InboxInv ==
    inbox # <<>> =>
      /\ "haste" \notin faults /\ calls = <<>> /\ Len(inbox) = 1
      /\ Proper(clips, fresh) /\ \A c \in clips : c.id \in ServerIds
      /\ RowsOf(table) = {c \in clips : c.id # inbox[1].row.id}
                         \cup IF inbox[1].type = "upsert" THEN {inbox[1].row} ELSE {}

DragInv == drag # None => drag.id \in ServerIds /\ drag.id \notin fresh \cup News(calls)
LongInv == \A id \in DOMAIN table : table[id].dur >= MinDur

SyncInv == CallsInv /\ CalmInv /\ InboxInv /\ DragInv /\ LongInv

(***************************************************************************)
(* What the calls make of a set of clips.                                  *)
(***************************************************************************)
\* The types of a call that the effects need.
LEMMA CallTypes ==
    ASSUME NEW call \in GoodCalls, Shaped(call)
    PROVE  /\ call.op \in {"addClip", "updateClip", "deleteClip", "splitClip", "load"}
           /\ call.status \in {"sent", "served", "failed"}
           /\ call.id \in ServerIds \cup {None} /\ call.tmp \in TmpIds \cup {None}
           /\ call.op = "addClip" => call.pos \in Nat /\ call.dur \in Nat /\ call.dur >= MinDur
           /\ call.op = "updateClip" => call.pos \in Nat /\ call.dur \in Nat \cup {None}
           /\ call.op = "splitClip" => call.at \in Nat
           /\ call.op \in {"addClip", "splitClip"} => call.tmp \in TmpIds
           /\ call.op \in {"updateClip", "deleteClip", "splitClip"} => call.id \in ServerIds
BY DEF GoodCalls, Call, CallOK, Shaped

LEMMA UpdatedClip ==
    ASSUME NEW call \in GoodCalls, Shaped(call), call.op = "updateClip",
           NEW c \in Clip
    PROVE  /\ Updated(c, call) \in Clip /\ Updated(c, call).id = c.id
           /\ Updated(c, call).dur >= MinDur
<1>1. call.pos \in Nat /\ call.dur \in Nat \cup {None}
  BY CallTypes
<1>2. c.dur \in Nat /\ c.inPoint \in Nat /\ c.id \in Ids
  BY DEF Clip
<1> DEFINE d == AtLeast(MinDur, Coalesce(call.dur, c.dur))
<1>3. d \in Nat /\ d >= MinDur
  BY <1>1, <1>2, MinDurPositive DEF AtLeast, Coalesce
<1>4. Updated(c, call) = [id |-> c.id, pos |-> call.pos, dur |-> d, inPoint |-> c.inPoint]
  BY DEF Updated
<1> HIDE DEF d
<1> QED
  BY <1>1, <1>2, <1>3, <1>4 DEF Clip

LEMMA CutClip ==
    ASSUME NEW call \in GoodCalls, Shaped(call), call.op = "splitClip",
           NEW c \in Clip, call.at >= MinDur, call.at <= c.dur - MinDur
    PROVE  /\ LeftHalf(c, call.at) \in Clip /\ LeftHalf(c, call.at).id = c.id
           /\ LeftHalf(c, call.at).dur >= MinDur
           /\ RightHalf(c, call.at, call.tmp) \in Clip
           /\ RightHalf(c, call.at, call.tmp).id = call.tmp
           /\ RightHalf(c, call.at, call.tmp).dur >= MinDur
           /\ RightHalf(c, call.at, call.tmp).pos = c.pos + call.at
<1>1. call.at \in Nat /\ call.tmp \in TmpIds
  BY CallTypes
<1>2. c.pos \in Nat /\ c.dur \in Nat /\ c.inPoint \in Nat /\ c.id \in Ids
  BY DEF Clip
<1>3. LeftHalf(c, call.at) = [id |-> c.id, pos |-> c.pos, dur |-> call.at, inPoint |-> c.inPoint]
  BY DEF LeftHalf, Clip
<1>4. c.dur - call.at \in Nat /\ c.dur - call.at >= MinDur
  BY <1>1, <1>2, MinDurPositive
<1>5. RightHalf(c, call.at, call.tmp) = [id |-> call.tmp, pos |-> c.pos + call.at,
            dur |-> c.dur - call.at, inPoint |-> c.inPoint + call.at]
  BY DEF RightHalf
<1>6. c.pos + call.at \in Nat /\ c.inPoint + call.at \in Nat
  BY <1>1, <1>2
<1> QED
  BY <1>1, <1>2, <1>3, <1>4, <1>5, <1>6 DEF Clip, Ids

\* A clip after a call is one of before, or one with the clip's name, or with the new name.
LEMMA EffectParts ==
    ASSUME NEW call \in GoodCalls, Shaped(call), call.status # "served",
           NEW s \in SUBSET Clip, Proper(s, {}),
           call.op = "splitClip" => Cuts(s, call)
    PROVE  \A c \in Effect(s, call) :
             /\ c \in Clip /\ c.dur >= MinDur
             /\ \/ c \in s /\ (call.op \in {"addClip", "load"} \/ c.id # call.id)
                \/ /\ call.op = "updateClip" /\ c.id = call.id
                   /\ \E d \in s : d.id = call.id /\ c = Updated(d, call)
                \/ /\ call.op = "splitClip" /\ c.id = call.id
                   /\ \E d \in s : d.id = call.id /\ c = LeftHalf(d, call.at)
                \/ /\ call.op = "splitClip" /\ c.id = call.tmp
                   /\ \E d \in s : d.id = call.id /\ c = RightHalf(d, call.at, call.tmp)
                \/ /\ call.op = "addClip" /\ c.id = call.tmp
                   /\ c = [id |-> call.tmp, pos |-> call.pos, dur |-> call.dur, inPoint |-> 0]
<1>s. \A c, d \in s : c.id = d.id => c = d
  BY DEF Proper
<1>t. \A c \in s : c \in Clip /\ c.dur >= MinDur
  BY DEF Proper
<1> SUFFICES ASSUME NEW c \in Effect(s, call)
             PROVE  /\ c \in Clip /\ c.dur >= MinDur
                    /\ \/ c \in s /\ (call.op \in {"addClip", "load"} \/ c.id # call.id)
                       \/ /\ call.op = "updateClip" /\ c.id = call.id
                          /\ \E d \in s : d.id = call.id /\ c = Updated(d, call)
                       \/ /\ call.op = "splitClip" /\ c.id = call.id
                          /\ \E d \in s : d.id = call.id /\ c = LeftHalf(d, call.at)
                       \/ /\ call.op = "splitClip" /\ c.id = call.tmp
                          /\ \E d \in s : d.id = call.id /\ c = RightHalf(d, call.at, call.tmp)
                       \/ /\ call.op = "addClip" /\ c.id = call.tmp
                          /\ c = [id |-> call.tmp, pos |-> call.pos, dur |-> call.dur, inPoint |-> 0]
  OBVIOUS
<1>1. CASE call.op = "load"
  BY <1>1, <1>t DEF Effect
<1>2. CASE call.op = "addClip"
  <2> DEFINE e == [id |-> call.tmp, pos |-> call.pos, dur |-> call.dur, inPoint |-> 0]
  <2>1. call.pos \in Nat /\ call.dur \in Nat /\ call.dur >= MinDur /\ call.tmp \in TmpIds
    BY <1>2, CallTypes
  <2>2. e \in Clip /\ e.dur >= MinDur /\ e.id = call.tmp
    BY <2>1 DEF Clip, Ids
  <2>3. c \in s \/ c = e
    BY <1>2 DEF Effect
  <2> QED
    BY <1>2, <1>t, <2>2, <2>3
<1>3. CASE call.op = "updateClip"
  <2>1. (c \in s /\ c.id # call.id) \/ \E d \in s : d.id = call.id /\ c = Updated(d, call)
    BY <1>3 DEF Effect, Replaced, Having
  <2>2. CASE c \in s /\ c.id # call.id
    BY <2>2, <1>t
  <2>3. CASE \E d \in s : d.id = call.id /\ c = Updated(d, call)
    BY <1>3, <2>3, UpdatedClip
  <2> QED
    BY <2>1, <2>2, <2>3
<1>4. CASE call.op = "deleteClip"
  <2>1. c \in s /\ c.id # call.id
    BY <1>4 DEF Effect, Replaced
  <2> QED
    BY <2>1, <1>t
<1>5. CASE call.op = "splitClip"
  <2>1. \/ c \in s /\ c.id # call.id
        \/ \E d \in s : d.id = call.id /\ c = LeftHalf(d, call.at)
        \/ \E d \in s : d.id = call.id /\ c = RightHalf(d, call.at, call.tmp)
    BY <1>5 DEF Effect, Replaced, Having
  <2>2. CASE c \in s /\ c.id # call.id
    BY <2>2, <1>t
  <2>3. \A d \in s : d.id = call.id => call.at >= MinDur /\ call.at <= d.dur - MinDur
    BY <1>5, <1>s DEF Cuts
  <2>4. CASE \E d \in s : d.id = call.id /\ c = LeftHalf(d, call.at)
    BY <1>5, <2>3, <2>4, CutClip
  <2>5. CASE \E d \in s : d.id = call.id /\ c = RightHalf(d, call.at, call.tmp)
    BY <1>5, <2>3, <2>5, CutClip
  <2> QED
    BY <2>1, <2>2, <2>4, <2>5
<1> QED
  BY <1>1, <1>2, <1>3, <1>4, <1>5, CallTypes

\* A call keeps what the tab may show, and touches no clip but its own.
LEMMA EffectProper ==
    ASSUME NEW call \in GoodCalls, Shaped(call), call.status # "served",
           NEW s \in SUBSET Clip, Proper(s, {}),
           call.op = "splitClip" => Cuts(s, call),
           \A c \in s : c.id # call.tmp
    PROVE  /\ Effect(s, call) \in SUBSET Clip
           /\ Proper(Effect(s, call), {})
           /\ \A c \in Effect(s, call) : c.id = call.tmp \/ \E d \in s : d.id = c.id
           /\ \A t : t \notin {call.id, call.tmp} => Having(Effect(s, call), t) = Having(s, t)
<1>s. \A c, d \in s : c.id = d.id => c = d
  BY DEF Proper
<1>e. \A c \in Effect(s, call) :
             /\ c \in Clip /\ c.dur >= MinDur
             /\ \/ c \in s /\ (call.op \in {"addClip", "load"} \/ c.id # call.id)
                \/ /\ call.op = "updateClip" /\ c.id = call.id
                   /\ \E d \in s : d.id = call.id /\ c = Updated(d, call)
                \/ /\ call.op = "splitClip" /\ c.id = call.id
                   /\ \E d \in s : d.id = call.id /\ c = LeftHalf(d, call.at)
                \/ /\ call.op = "splitClip" /\ c.id = call.tmp
                   /\ \E d \in s : d.id = call.id /\ c = RightHalf(d, call.at, call.tmp)
                \/ /\ call.op = "addClip" /\ c.id = call.tmp
                   /\ c = [id |-> call.tmp, pos |-> call.pos, dur |-> call.dur, inPoint |-> 0]
  BY EffectParts
<1>i. call.id # call.tmp \/ call.op \notin {"splitClip"}
  <2>1. call.op = "splitClip" => call.id \in ServerIds /\ call.tmp \in TmpIds
    BY CallTypes
  <2> QED
    BY <2>1, IdsApart
<1>1. Effect(s, call) \in SUBSET Clip
  BY <1>e
<1>2. \A c, d \in Effect(s, call) : c.id = d.id => c = d
  <2> SUFFICES ASSUME NEW c \in Effect(s, call), NEW d \in Effect(s, call), c.id = d.id
               PROVE  c = d
    OBVIOUS
  <2>1. CASE call.op \in {"addClip", "load"}
    BY <1>e, <1>s, <2>1
  <2>2. CASE call.op = "updateClip"
    <3>1. CASE c.id = call.id
      <4>1. (\E x \in s : x.id = call.id /\ c = Updated(x, call))
            /\ \E x \in s : x.id = call.id /\ d = Updated(x, call)
        BY <1>e, <2>2, <3>1
      <4> QED
        BY <4>1, <1>s
    <3>2. CASE c.id # call.id
      <4>1. c \in s /\ d \in s
        BY <1>e, <2>2, <3>2
      <4> QED
        BY <4>1, <1>s
    <3> QED
      BY <3>1, <3>2
  <2>3. CASE call.op = "deleteClip"
    <3>1. c \in s /\ d \in s
      BY <1>e, <2>3
    <3> QED
      BY <3>1, <1>s
  <2>4. CASE call.op = "splitClip"
    <3>1. CASE c.id = call.id
      <4>1. (\E x \in s : x.id = call.id /\ c = LeftHalf(x, call.at))
            /\ \E x \in s : x.id = call.id /\ d = LeftHalf(x, call.at)
        BY <1>e, <1>i, <2>4, <3>1
      <4> QED
        BY <4>1, <1>s
    <3>2. CASE c.id = call.tmp
      <4>1. (\E x \in s : x.id = call.id /\ c = RightHalf(x, call.at, call.tmp))
            /\ \E x \in s : x.id = call.id /\ d = RightHalf(x, call.at, call.tmp)
        BY <1>e, <1>i, <2>4, <3>2
      <4> QED
        BY <4>1, <1>s
    <3>3. CASE c.id # call.id /\ c.id # call.tmp
      <4>1. c \in s /\ d \in s
        BY <1>e, <2>4, <3>3
      <4> QED
        BY <4>1, <1>s
    <3> QED
      BY <3>1, <3>2, <3>3
  <2> QED
    BY <2>1, <2>2, <2>3, <2>4, CallTypes
<1>3. Proper(Effect(s, call), {})
  BY <1>2, <1>e DEF Proper
<1>4. \A c \in Effect(s, call) : c.id = call.tmp \/ \E d \in s : d.id = c.id
  BY <1>e
<1>5. ASSUME NEW t, t \notin {call.id, call.tmp}
      PROVE  Having(Effect(s, call), t) = Having(s, t)
  <2>1. \A c \in Effect(s, call) : c.id = t => c \in s
    BY <1>5, <1>e
  <2>2. \A c \in s : c.id = t => c \in Effect(s, call)
    BY <1>5, CallTypes DEF Effect
  <2> QED
    BY <2>1, <2>2 DEF Having
<1> QED
  BY <1>1, <1>3, <1>4, <1>5

(***************************************************************************)
(* Sequences of calls.                                                     *)
(***************************************************************************)
LEMMA JoinedCalls ==
    ASSUME NEW S, NEW q \in Seq(S), NEW r \in Seq(S)
    PROVE  /\ q \o r \in Seq(S) /\ Len(q \o r) = Len(q) + Len(r)
           /\ Len(q) \in Nat /\ Len(r) \in Nat
           /\ \A i \in 1 .. Len(q) : (q \o r)[i] = q[i]
           /\ \A i \in 1 .. Len(r) : (q \o r)[Len(q) + i] = r[i]
<1>1. /\ q \o r \in Seq(S) /\ Len(q \o r) = Len(q) + Len(r)
      /\ \A i \in 1 .. Len(q) + Len(r) : (q \o r)[i] = IF i <= Len(q) THEN q[i] ELSE r[i - Len(q)]
  BY ConcatProperties
<1>2. Len(q) \in Nat /\ Len(r) \in Nat
  BY LenProperties
<1>3. ASSUME NEW i \in 1 .. Len(r)
      PROVE  (q \o r)[Len(q) + i] = r[i]
  <2>1. Len(q) + i \in 1 .. Len(q) + Len(r) /\ ~(Len(q) + i <= Len(q)) /\ (Len(q) + i) - Len(q) = i
    BY <1>2
  <2> QED
    BY <1>1, <2>1
<1>4. ASSUME NEW i \in 1 .. Len(q)
      PROVE  (q \o r)[i] = q[i]
  <2>1. i \in 1 .. Len(q) + Len(r) /\ i <= Len(q)
    BY <1>2
  <2> QED
    BY <1>1, <2>1
<1> QED
  BY <1>1, <1>2, <1>3, <1>4

LEMMA RemovedCalls ==
    ASSUME NEW S, NEW q \in Seq(S), NEW k \in 1 .. Len(q)
    PROVE  /\ RemoveAt(q, k) \in Seq(S) /\ Len(RemoveAt(q, k)) = Len(q) - 1
           /\ \A i \in 1 .. Len(q) - 1 : RemoveAt(q, k)[i] = IF i < k THEN q[i] ELSE q[i + 1]
<1>1. Len(q) \in Nat /\ k \in Int /\ k >= 1 /\ k <= Len(q) /\ \A i \in 1 .. Len(q) : q[i] \in S
  BY LenProperties, ElementOfSeq
<1> DEFINE left == SubSeq(q, 1, k - 1)
           right == SubSeq(q, k + 1, Len(q))
<1>2. left \in Seq(S) /\ Len(left) = k - 1 /\ \A i \in 1 .. k - 1 : left[i] = q[i]
  <2>1. \A i \in 1 .. k - 1 : q[i] \in S
    BY <1>1
  <2>2. /\ left \in Seq(S) /\ Len(left) = IF 1 <= k - 1 THEN k - 1 - 1 + 1 ELSE 0
        /\ \A i \in 1 .. k - 1 - 1 + 1 : left[i] = q[1 + i - 1]
    BY <1>1, <2>1, SubSeqProperties
  <2> QED
    BY <1>1, <2>2
<1>3. right \in Seq(S) /\ Len(right) = Len(q) - k /\ \A i \in 1 .. Len(q) - k : right[i] = q[k + i]
  <2>1. \A i \in k + 1 .. Len(q) : q[i] \in S
    BY <1>1
  <2>2. /\ right \in Seq(S) /\ Len(right) = IF k + 1 <= Len(q) THEN Len(q) - (k + 1) + 1 ELSE 0
        /\ \A i \in 1 .. Len(q) - (k + 1) + 1 : right[i] = q[(k + 1) + i - 1]
    BY <1>1, <2>1, SubSeqProperties
  <2>3. \A i \in 1 .. Len(q) - k : i \in 1 .. Len(q) - (k + 1) + 1 /\ (k + 1) + i - 1 = k + i
    BY <1>1
  <2> QED
    BY <1>1, <2>2, <2>3
<1>4. RemoveAt(q, k) = left \o right
  BY DEF RemoveAt
<1> HIDE DEF left, right
<1>5. /\ left \o right \in Seq(S) /\ Len(left \o right) = Len(left) + Len(right)
      /\ \A i \in 1 .. Len(left) : (left \o right)[i] = left[i]
      /\ \A i \in 1 .. Len(right) : (left \o right)[Len(left) + i] = right[i]
  <2>1. left \in Seq(S) /\ right \in Seq(S)
    BY <1>2, <1>3
  <2> QED
    BY <2>1, JoinedCalls
<1>6. ASSUME NEW i \in 1 .. Len(q) - 1
      PROVE  (left \o right)[i] = IF i < k THEN q[i] ELSE q[i + 1]
  <2>1. CASE i < k
    <3>1. i \in 1 .. k - 1
      BY <1>1, <2>1
    <3> QED
      BY <1>2, <1>5, <2>1, <3>1
  <2>2. CASE ~(i < k)
    <3>1. i - (k - 1) \in 1 .. Len(q) - k /\ (k - 1) + (i - (k - 1)) = i /\ k + (i - (k - 1)) = i + 1
      BY <1>1, <2>2
    <3>2. (left \o right)[(k - 1) + (i - (k - 1))] = right[i - (k - 1)]
      BY <1>2, <1>3, <1>5, <3>1
    <3>3. right[i - (k - 1)] = q[k + (i - (k - 1))]
      BY <1>3, <3>1
    <3> QED
      BY <2>2, <3>1, <3>2, <3>3
  <2> QED
    BY <2>1, <2>2
<1> QED
  BY <1>1, <1>2, <1>3, <1>4, <1>5, <1>6

LEMMA SameWaiting ==
    ASSUME NEW q, NEW p, Waiting(p) = Waiting(q)
    PROVE  News(p) = News(q) /\ \A t : ViewOf(p, t) = ViewOf(q, t)
BY DEF News, ViewOf

(***************************************************************************)
(* A call that is sent: the chain grows.                                   *)
(***************************************************************************)
\* What is sent, "r", with the sets of clips that it leads through.
Sending(r, g) ==
    /\ r \in Seq(GoodCalls) /\ g \in [0 .. Len(r) -> SUBSET Clip] /\ g[0] = clips
    /\ \A k \in 1 .. Len(r) :
         /\ Shaped(r[k]) /\ r[k].status = "sent"
         /\ r[k].id \notin fresh \cup News(calls)
         /\ r[k].tmp \in fresh \cup {None} /\ (r[k].tmp # None => Len(r) = 1)
         /\ g[k] = Effect(g[k - 1], r[k])
         /\ r[k].op = "splitClip" => Cuts(g[k - 1], r[k])
    /\ \A k \in 0 .. Len(r) :
         /\ Proper(g[k], {})
         /\ \A c \in g[k] : (\E d \in clips : d.id = c.id) \/ \E j \in 1 .. Len(r) : r[j].tmp = c.id
         /\ \A t \in TmpIds \ fresh : Having(g[k], t) = Having(clips, t)

LEMMA SentCalls ==
    ASSUME EditorInv, CallsInv, inbox = <<>>, NEW r, NEW g, Sending(r, g),
           calls' = calls \o r, table' = table, clips' = g[Len(r)],
           fresh' = fresh \ {r[k].tmp : k \in 1 .. Len(r)}
    PROVE  CallsInv' /\ News(calls') = News(calls)
<1> DEFINE n == Len(calls)
           m == Len(r)
<1>t. calls \in Seq(GoodCalls) /\ None \notin fresh
  BY IdsApart DEF EditorInv, NetOK, ServerOK
<1>r. /\ r \in Seq(GoodCalls) /\ g \in [0 .. m -> SUBSET Clip] /\ g[0] = clips
      /\ \A k \in 1 .. m :
           /\ Shaped(r[k]) /\ r[k].status = "sent"
           /\ r[k].id \notin fresh \cup News(calls)
           /\ r[k].tmp \in fresh \cup {None} /\ (r[k].tmp # None => m = 1)
           /\ g[k] = Effect(g[k - 1], r[k])
           /\ r[k].op = "splitClip" => Cuts(g[k - 1], r[k])
      /\ \A k \in 0 .. m :
           /\ Proper(g[k], {})
           /\ \A c \in g[k] : (\E d \in clips : d.id = c.id) \/ \E j \in 1 .. m : r[j].tmp = c.id
           /\ \A t \in TmpIds \ fresh : Having(g[k], t) = Having(clips, t)
  BY DEF Sending
<1>q. /\ n \in Nat /\ m \in Nat /\ Len(calls') = n + m /\ calls' \in Seq(GoodCalls)
      /\ \A i \in 1 .. n : calls'[i] = calls[i]
      /\ \A i \in 1 .. m : calls'[n + i] = r[i]
  BY <1>t, <1>r, JoinedCalls
<1>c. PICK h \in Chains : Chain(h)
  BY DEF CallsInv
<1>h. /\ h \in [0 .. n -> SUBSET Clip] /\ h[0] = ViewOf(calls, table) /\ h[n] = clips
      /\ \A k \in 1 .. n :
           /\ h[k] = Effect(h[k - 1], calls[k])
           /\ calls[k].status = "served" => h[k] = h[0]
           /\ (calls[k].op = "splitClip" /\ calls[k].status # "served") => Cuts(h[k - 1], calls[k])
      /\ \A k \in 0 .. n : Proper(h[k], fresh \cup News(calls))
      /\ \A k \in 1 .. n : \A j \in k .. n :
           calls[k].tmp # None => Having(h[j], calls[k].tmp) = Having(h[k], calls[k].tmp)
  BY <1>c DEF Chain, Chains
<1>k. /\ \A k \in 1 .. n :
           /\ Shaped(calls[k])
           /\ calls[k].tmp \notin fresh /\ calls[k].id \notin fresh \cup News(calls)
           /\ Waits(calls[k]) => Answers(calls[k], table)
      /\ \A j, k \in 1 .. n : j < k =>
           /\ calls[j].tmp # None => calls[j].tmp # calls[k].tmp
           /\ calls[j].status = "sent" => calls[k].status = "sent"
           /\ (Waits(calls[j]) /\ Waits(calls[k])) => NewRow(calls[j]).id # NewRow(calls[k]).id
  BY DEF CallsInv, QueueInv
<1> HIDE DEF n, m, GoodCalls
<1>i. \A k \in 1 .. n + m : k \in 1 .. n \/ (k - n \in 1 .. m /\ k = n + (k - n))
  BY <1>q
<1>d. DOMAIN calls = 1 .. n /\ DOMAIN calls' = 1 .. n + m
  BY <1>t, <1>q, LenProperties DEF n
<1>w. Waiting(calls') = Waiting(calls)
  <2>1. \A i \in 1 .. m : ~Waits(r[i])
    BY <1>r DEF Waits
  <2>2. ASSUME NEW w, Waits(w) PROVE w \in Waiting(calls') <=> w \in Waiting(calls)
    <3>1. ASSUME NEW k \in 1 .. n, w = calls[k] PROVE w \in Waiting(calls')
      <4>1. k \in 1 .. n + m /\ calls'[k] = w
        BY <1>q, <3>1
      <4> QED
        BY <4>1, <1>d, <2>2 DEF Waiting
    <3>2. ASSUME NEW k \in 1 .. n + m, w = calls'[k] PROVE w \in Waiting(calls)
      <4>1. k \in 1 .. n
        BY <1>i, <1>q, <2>1, <2>2, <3>2
      <4> QED
        BY <4>1, <1>d, <1>q, <2>2, <3>2 DEF Waiting
    <3> QED
      BY <3>1, <3>2, <1>d DEF Waiting
  <2> QED
    BY <2>2 DEF Waiting
<1>n. News(calls') = News(calls) /\ ViewOf(calls', table') = ViewOf(calls, table)
  BY <1>w, SameWaiting
<1>f. fresh' \subseteq fresh /\ \A k \in 1 .. m : r[k].tmp \notin fresh'
  BY DEF m
<1>1. PICK hh \in [0 .. n + m -> SUBSET Clip] : /\ \A j \in 0 .. n : hh[j] = h[j]
                                                /\ \A i \in 0 .. m : hh[n + i] = g[i]
  <2> DEFINE hh == [j \in 0 .. n + m |-> IF j <= n THEN h[j] ELSE g[j - n]]
  <2>1. \A j \in 0 .. n : hh[j] = h[j]
    BY <1>q
  <2>2. ASSUME NEW i \in 0 .. m PROVE hh[n + i] = g[i]
    <3>1. CASE i = 0
      BY <3>1, <1>q, <1>h, <1>r
    <3>2. CASE i # 0
      <4>1. n + i \in 0 .. n + m /\ ~(n + i <= n) /\ (n + i) - n = i
        BY <3>2, <1>q
      <4> QED
        BY <4>1
    <3> QED
      BY <3>1, <3>2
  <2>3. ASSUME NEW j \in 0 .. n + m PROVE (IF j <= n THEN h[j] ELSE g[j - n]) \in SUBSET Clip
    <3>1. CASE j <= n
      BY <3>1, <1>q, <1>h
    <3>2. CASE ~(j <= n)
      <4>1. j - n \in 0 .. m
        BY <3>2, <1>q
      <4> QED
        BY <3>2, <4>1, <1>r
    <3> QED
      BY <3>1, <3>2
  <2> QED
    BY <2>1, <2>2, <2>3
<1>2. hh[0] = ViewOf(calls', table') /\ hh[n + m] = clips'
  <2>1. 0 \in 0 .. n /\ m \in 0 .. m
    BY <1>q
  <2> QED
    BY <2>1, <1>1, <1>h, <1>n DEF m
<1>3. ASSUME NEW k \in 1 .. n + m
      PROVE  /\ hh[k] = Effect(hh[k - 1], calls'[k])
             /\ calls'[k].status = "served" => hh[k] = hh[0]
             /\ (calls'[k].op = "splitClip" /\ calls'[k].status # "served") =>
                    Cuts(hh[k - 1], calls'[k])
  <2>1. CASE k \in 1 .. n
    <3>1. k \in 0 .. n /\ k - 1 \in 0 .. n /\ 0 \in 0 .. n
      BY <2>1, <1>q
    <3> QED
      BY <2>1, <3>1, <1>1, <1>h, <1>q
  <2>2. CASE k - n \in 1 .. m /\ k = n + (k - n)
    <3> DEFINE i == k - n
    <3>1. i \in 1 .. m /\ i \in 0 .. m /\ i - 1 \in 0 .. m /\ k = n + i /\ k - 1 = n + (i - 1)
      BY <2>2, <1>q
    <3> HIDE DEF i
    <3>2. hh[k] = g[i] /\ hh[k - 1] = g[i - 1] /\ calls'[k] = r[i]
      BY <3>1, <1>1, <1>q
    <3> QED
      BY <3>1, <3>2, <1>r
  <2> QED
    BY <1>i, <2>1, <2>2
<1>4. ASSUME NEW k \in 0 .. n + m
      PROVE  Proper(hh[k], fresh' \cup News(calls'))
  <2>1. CASE k <= n
    <3>1. k \in 0 .. n
      BY <2>1, <1>q
    <3> QED
      BY <3>1, <1>1, <1>h, <1>n, <1>f DEF Proper
  <2>2. CASE ~(k <= n)
    <3>1. k - n \in 0 .. m /\ k = n + (k - n)
      BY <2>2, <1>q
    <3>2. hh[k] = g[k - n]
      BY <3>1, <1>1
    <3>3. n \in 0 .. n /\ \A d \in clips : d.id \notin fresh \cup News(calls)
      BY <1>q, <1>h DEF Proper
    <3>4. ASSUME NEW j \in 1 .. m PROVE r[j].tmp \notin fresh' \cup News(calls) \/ r[j].tmp = None
      <4>1. News(calls) \subseteq ServerIds
        <5> SUFFICES ASSUME NEW w \in Waiting(calls) PROVE NewRow(w).id \in ServerIds
          BY DEF News
        <5>1. PICK l \in 1 .. n : w = calls[l] /\ Waits(w)
          BY <1>d DEF Waiting
        <5> QED
          BY <5>1, <1>k DEF Answers, EditorInv, ServerOK
      <4>2. r[j].tmp \in TmpIds \cup {None}
        BY <1>r, CallTypes, ElementOfSeq DEF m
      <4> QED
        BY <4>1, <4>2, <1>f, IdsApart
    <3>5. \A c \in g[k - n] : c.id # None
      BY <3>1, <1>r, IdsApart DEF Clip
    <3>6. \A c \in g[k - n] : c.id \notin fresh' \cup News(calls)
      BY <3>1, <3>3, <3>4, <3>5, <1>r, <1>f
    <3> QED
      BY <3>1, <3>2, <3>6, <1>r, <1>n DEF Proper
  <2> QED
    BY <2>1, <2>2
<1>5. ASSUME NEW k \in 1 .. n + m, NEW j \in k .. n + m, calls'[k].tmp # None
      PROVE  Having(hh[j], calls'[k].tmp) = Having(hh[k], calls'[k].tmp)
  <2>1. CASE k \in 1 .. n /\ j <= n
    <3>1. k \in 0 .. n /\ j \in 0 .. n /\ j \in k .. n
      BY <2>1, <1>q
    <3> QED
      BY <2>1, <3>1, <1>1, <1>5, <1>h, <1>q
  <2>2. CASE k \in 1 .. n /\ ~(j <= n)
    <3>1. k \in 0 .. n /\ j - n \in 0 .. m /\ j = n + (j - n) /\ n \in k .. n
      BY <2>2, <1>q
    <3>2. hh[k] = h[k] /\ hh[j] = g[j - n] /\ calls'[k] = calls[k]
      BY <2>2, <3>1, <1>1, <1>q
    <3>3. calls[k] \in GoodCalls
      BY <1>t, <2>2, ElementOfSeq DEF n
    <3>4. calls[k].tmp \in TmpIds \ fresh
      BY <3>2, <3>3, <1>5, <1>k, <2>2, CallTypes
    <3>5. Having(g[j - n], calls[k].tmp) = Having(clips, calls[k].tmp)
      BY <3>1, <3>4, <1>r
    <3>6. Having(h[n], calls[k].tmp) = Having(h[k], calls[k].tmp)
      BY <2>2, <3>1, <3>2, <1>5, <1>h
    <3> QED
      BY <3>2, <3>5, <3>6, <1>h
  <2>3. CASE k - n \in 1 .. m /\ k = n + (k - n)
    <3>1. calls'[k] = r[k - n]
      BY <2>3, <1>q
    <3>2. m = 1
      BY <2>3, <3>1, <1>5, <1>r
    <3>3. j = k
      BY <2>3, <3>2, <1>q
    <3> QED
      BY <3>3
  <2> QED
    BY <1>i, <2>1, <2>2, <2>3
<1>6. hh \in Chains' /\ Chain(hh)'
  BY <1>q, <1>1, <1>2, <1>3, <1>4, <1>5 DEF Chains, Chain
<1>7. ASSUME NEW k \in 1 .. n + m
      PROVE  /\ Shaped(calls'[k])
             /\ calls'[k].tmp \notin fresh' /\ calls'[k].id \notin fresh' \cup News(calls')
             /\ Waits(calls'[k]) => Answers(calls'[k], table')
  <2>1. CASE k \in 1 .. n
    <3>1. calls'[k] = calls[k]
      BY <2>1, <1>q
    <3>2. Waits(calls'[k]) => Answers(calls'[k], table')
      BY <2>1, <3>1, <1>k DEF Answers
    <3> QED
      BY <2>1, <3>1, <3>2, <1>k, <1>f, <1>n
  <2>2. CASE k - n \in 1 .. m /\ k = n + (k - n)
    <3>1. calls'[k] = r[k - n]
      BY <2>2, <1>q
    <3> QED
      BY <2>2, <3>1, <1>r, <1>f, <1>n DEF Waits
  <2> QED
    BY <1>i, <2>1, <2>2
<1>8. ASSUME NEW j \in 1 .. n + m, NEW k \in 1 .. n + m, j < k
      PROVE  /\ calls'[j].tmp # None => calls'[j].tmp # calls'[k].tmp
             /\ calls'[j].status = "sent" => calls'[k].status = "sent"
             /\ (Waits(calls'[j]) /\ Waits(calls'[k])) => NewRow(calls'[j]).id # NewRow(calls'[k]).id
  <2>1. CASE k \in 1 .. n
    <3>1. j \in 1 .. n
      BY <1>8, <1>q, <2>1
    <3>2. calls'[j] = calls[j] /\ calls'[k] = calls[k]
      BY <2>1, <3>1, <1>q
    <3> QED
      BY <1>8, <2>1, <3>1, <3>2, <1>k
  <2>2. CASE k - n \in 1 .. m /\ k = n + (k - n)
    <3>1. calls'[k] = r[k - n]
      BY <2>2, <1>q
    <3>2. calls'[k].status = "sent" /\ ~Waits(calls'[k])
      BY <2>2, <3>1, <1>r DEF Waits
    <3>3. calls'[j].tmp # None => calls'[j].tmp # calls'[k].tmp
      <4>1. CASE j \in 1 .. n
        <5>1. calls'[j] = calls[j] /\ calls[j].tmp \notin fresh
          BY <4>1, <1>q, <1>k
        <5>2. r[k - n].tmp \in fresh \cup {None}
          BY <2>2, <1>r
        <5> QED
          BY <3>1, <5>1, <5>2
      <4>2. CASE j - n \in 1 .. m /\ j = n + (j - n)
        <5>1. m # 1
          BY <1>8, <2>2, <4>2, <1>q
        <5> QED
          BY <4>2, <5>1, <1>q, <1>r
      <4> QED
        BY <4>1, <4>2, <1>i
    <3> QED
      BY <3>2, <3>3
  <2> QED
    BY <1>i, <2>1, <2>2
<1>9. QueueInv'
  <2>1. Len(calls') = n + m
    BY <1>q
  <2> QED
    BY <2>1, <1>7, <1>8 DEF QueueInv
<1>10. Pending'
  <2> SUFFICES ASSUME NEW c \in clips', c.id \in TmpIds
               PROVE  \E k \in 1 .. n + m : calls'[k].tmp = c.id
    BY <1>q DEF Pending
  <2>1. m \in 0 .. m /\ clips' = g[m]
    BY <1>q DEF m
  <2>2. CASE \E d \in clips : d.id = c.id
    <3>1. PICK k \in 1 .. n : calls[k].tmp = c.id
      BY <2>2 DEF CallsInv, Pending, n
    <3>2. k \in 1 .. n + m /\ calls'[k] = calls[k]
      BY <3>1, <1>q
    <3> QED
      BY <3>1, <3>2
  <2>3. CASE \E j \in 1 .. m : r[j].tmp = c.id
    <3>1. PICK j \in 1 .. m : r[j].tmp = c.id
      BY <2>3
    <3>2. n + j \in 1 .. n + m /\ calls'[n + j] = r[j]
      BY <3>1, <1>q
    <3> QED
      BY <3>1, <3>2
  <2> QED
    BY <2>1, <2>2, <2>3, <1>r
<1> QED
  BY <1>6, <1>9, <1>10, <1>n DEF CallsInv

\* The faults under which the tab can follow.
LEMMA InStepFaults ==
    ASSUME InStep
    PROVE  /\ {"undo", "tmp", "overtake", "dropped", "lost", "clash"} \cap faults = {}
           /\ "haste" \in faults => {"refused", "remote", "reload"} \cap faults = {}
BY DEF InStep

LEMMA NewsTypes ==
    ASSUME EditorInv, CallsInv
    PROVE  News(calls) \subseteq DOMAIN table /\ None \notin fresh \cup News(calls)
<1>1. \A k \in DOMAIN calls : k \in 1 .. Len(calls)
  BY CallInFlight DEF EditorInv
<1>2. \A w \in Waiting(calls) : NewRow(w).id \in DOMAIN table
  BY <1>1 DEF CallsInv, QueueInv, Waiting, Answers
<1> QED
  BY <1>2, IdsApart DEF News, EditorInv, ServerOK, Ids

\* What is known of the clips on screen while no event is on its way.
LEMMA ShownClips ==
    ASSUME EditorInv, CallsInv, inbox = <<>>
    PROVE  /\ Proper(clips, fresh \cup News(calls))
           /\ calls = <<>> => clips = RowsOf(table)
<1>1. calls \in Seq(GoodCalls) /\ Len(calls) \in Nat
  BY LenProperties DEF EditorInv, NetOK
<1>2. PICK h \in Chains : Chain(h)
  BY DEF CallsInv
<1>3. h[0] = ViewOf(calls, table) /\ h[Len(calls)] = clips /\ Proper(h[Len(calls)], fresh \cup News(calls))
  <2>1. Len(calls) \in 0 .. Len(calls)
    BY <1>1
  <2> QED
    BY <1>2, <2>1 DEF Chain
<1>4. ASSUME calls = <<>> PROVE clips = RowsOf(table)
  <2>1. Len(calls) = 0 /\ Waiting(calls) = {} /\ News(calls) = {}
    BY <1>4, EmptySeq DEF Waiting, News
  <2> QED
    BY <1>3, <2>1 DEF ViewOf, RowsOf
<1> QED
  BY <1>3, <1>4

LEMMA OneCallSent ==
    ASSUME EditorInv, CallsInv, inbox = <<>>, inbox' = inbox,
           NEW call \in GoodCalls, Shaped(call), call.status = "sent",
           call.id \notin fresh \cup News(calls), call.tmp \in fresh \cup {None},
           call.op = "splitClip" => Cuts(clips, call),
           calls' = Append(calls, call), table' = table,
           clips' = Effect(clips, call), fresh' = fresh \ {call.tmp}
    PROVE  CallsInv' /\ News(calls') = News(calls)
<1>1. /\ Proper(clips, fresh \cup News(calls)) /\ Proper(clips, {}) /\ clips \in SUBSET Clip
  BY ShownClips DEF Proper, EditorInv, TabOK, Snapshots
<1>2. \A c \in clips : c.id # call.tmp
  BY <1>1, IdsApart DEF Proper, Clip
<1>3. /\ Effect(clips, call) \in SUBSET Clip
      /\ Proper(Effect(clips, call), {})
      /\ \A c \in Effect(clips, call) : c.id = call.tmp \/ \E d \in clips : d.id = c.id
      /\ \A t : t \notin {call.id, call.tmp} => Having(Effect(clips, call), t) = Having(clips, t)
  BY <1>1, <1>2, EffectProper
<1>4. PICK r : r = <<call>>
  OBVIOUS
<1>5. r \in Seq(GoodCalls) /\ Len(r) = 1 /\ r[1] = call /\ calls' = calls \o r
  <2>1. calls \in Seq(GoodCalls)
    BY DEF EditorInv, NetOK
  <2> HIDE DEF GoodCalls
  <2> QED
    BY <1>4, <2>1
<1>6. PICK g \in [0 .. 1 -> SUBSET Clip] : g[0] = clips /\ g[1] = Effect(clips, call)
  <2> DEFINE f == [i \in 0 .. 1 |-> IF i = 0 THEN clips ELSE Effect(clips, call)]
  <2>1. f[0] = clips /\ f[1] = Effect(clips, call)
    OBVIOUS
  <2>2. f \in [0 .. 1 -> SUBSET Clip]
    BY <1>1, <1>3
  <2> QED
    BY <2>1, <2>2
<1>7. \A t \in TmpIds \ fresh : t \notin {call.id, call.tmp}
  <2>1. call.id \in ServerIds \cup {None}
    BY CallTypes
  <2> QED
    BY <2>1, IdsApart DEF Ids
<1>8. Sending(r, g)
  <2>1. \A k \in 1 .. 1 : k = 1
    OBVIOUS
  <2>2. \A k \in 0 .. 1 : k = 0 \/ k = 1
    OBVIOUS
  <2>3. \A k \in 1 .. Len(r) :
         /\ Shaped(r[k]) /\ r[k].status = "sent"
         /\ r[k].id \notin fresh \cup News(calls)
         /\ r[k].tmp \in fresh \cup {None} /\ (r[k].tmp # None => Len(r) = 1)
         /\ g[k] = Effect(g[k - 1], r[k])
         /\ r[k].op = "splitClip" => Cuts(g[k - 1], r[k])
    BY <1>5, <1>6, <2>1
  <2>4. \A k \in 0 .. Len(r) :
         /\ Proper(g[k], {})
         /\ \A c \in g[k] : (\E d \in clips : d.id = c.id) \/ \E j \in 1 .. Len(r) : r[j].tmp = c.id
         /\ \A t \in TmpIds \ fresh : Having(g[k], t) = Having(clips, t)
    <3>1. 1 \in 1 .. Len(r)
      BY <1>5
    <3> QED
      BY <1>1, <1>3, <1>5, <1>6, <1>7, <2>2, <3>1
  <2> QED
    BY <1>5, <1>6, <2>3, <2>4 DEF Sending
<1>9. fresh' = fresh \ {r[k].tmp : k \in 1 .. Len(r)} /\ clips' = g[Len(r)]
  BY <1>5, <1>6
<1> QED
  BY <1>5, <1>8, <1>9, SentCalls

(***************************************************************************)
(* Agreement: the user's actions.                                          *)
(***************************************************************************)
\* When the user acts, no event is on its way, and a patient user has no call there.
LEMMA UserFree ==
    ASSUME InStep, SyncInv, UserActs
    PROVE  /\ inbox = <<>> /\ ("haste" \notin faults => calls = <<>>)
           /\ faults' = faults
BY DEF UserActs, SyncInv, InboxInv, Step

LEMMA PushedTop ==
    ASSUME TabOK, PushSnapshot
    PROVE  undo' # <<>> /\ Head(undo') = clips
<1>1. clips \in Snapshots /\ undo \in Seq(Snapshots) /\ undo' = Capped(<<clips>> \o undo)
  BY DEF TabOK, PushSnapshot
<1> HIDE DEF Snapshots
<1>2. /\ Capped(<<clips>> \o undo) \in Seq(Snapshots)
      /\ Len(Capped(<<clips>> \o undo)) = AtMost(MaxUndo, Len(undo) + 1)
  BY <1>1, PushedStack
<1>a. \A i \in 1 .. AtMost(MaxUndo, Len(undo) + 1) :
        Capped(<<clips>> \o undo)[i] = IF i = 1 THEN clips ELSE undo[i - 1]
  BY <1>1, PushedStack
<1>3. Len(undo) \in Nat
  BY <1>1, LenProperties
<1>4. AtMost(MaxUndo, Len(undo) + 1) >= 1 /\ AtMost(MaxUndo, Len(undo) + 1) \in Nat
  BY <1>3, MaxUndoPositive DEF AtMost
<1>5. undo'[1] = clips
  BY <1>1, <1>a, <1>4
<1>6. Len(undo') # 0
  BY <1>1, <1>2, <1>4
<1>7. undo' # <<>>
  BY <1>6, EmptySeq
<1>8. Head(undo') = undo'[1]
  BY <1>1, <1>2, <1>7, PoppedStack
<1> QED
  BY <1>5, <1>7, <1>8

\* A user's call that is sent, and the rest of the invariant.
LEMMA UserSends ==
    ASSUME EditorInv, InStep, SyncInv, UserActs,
           NEW call \in GoodCalls, Shaped(call), call.status = "sent",
           call.id \notin fresh \cup News(calls), call.tmp \in fresh \cup {None},
           call.op = "splitClip" => Cuts(clips, call) /\ undo' # <<>> /\ Head(undo') = clips,
           call.op = "load" => "reload" \in faults,
           calls' = Append(calls, call), table' = table, inbox' = inbox, drag' = drag,
           clips' = Effect(clips, call), fresh' = fresh \ {call.tmp}
    PROVE  SyncInv'
<1>1. inbox = <<>> /\ ("haste" \notin faults => calls = <<>>) /\ faults' = faults
  BY UserFree
<1>2. CallsInv' /\ News(calls') = News(calls)
  BY <1>1, OneCallSent DEF SyncInv
<1>3. calls \in Seq(GoodCalls) /\ calls' = calls \o <<call>>
  <2>1. calls \in Seq(GoodCalls)
    BY DEF EditorInv, NetOK
  <2> HIDE DEF GoodCalls
  <2> QED
    BY <2>1
<1>4. /\ Len(calls) \in Nat /\ Len(calls') = Len(calls) + 1 /\ calls'[Len(calls) + 1] = call
      /\ \A i \in 1 .. Len(calls) : calls'[i] = calls[i]
  <2> HIDE DEF GoodCalls
  <2> QED
    BY <1>3, AppendProperties, LenProperties
<1>5. CalmInv'
  <2>1. CASE "haste" \in faults
    <3>1. \A k \in 1 .. Len(calls) : calls[k].op # "load" /\ calls[k].status # "failed"
      BY <2>1 DEF SyncInv, CalmInv
    <3>2. call.op # "load" /\ call.status # "failed"
      BY <2>1, InStepFaults
    <3> QED
      BY <1>1, <1>4, <2>1, <3>1, <3>2 DEF CalmInv
  <2>2. CASE "haste" \notin faults
    <3>1. Len(calls') = 1 /\ calls'[1] = call /\ clips = RowsOf(table)
      <4>1. Len(calls) = 0
        BY <1>1, <2>2, EmptySeq
      <4> QED
        BY <1>1, <1>4, <2>2, <4>1, ShownClips DEF SyncInv
    <3>2. RowsOf(table') = RowsOf(table)
      OBVIOUS
    <3> QED
      BY <1>1, <2>2, <3>1, <3>2 DEF CalmInv
  <2> QED
    BY <2>1, <2>2
<1>6. DragInv'
  BY <1>2 DEF SyncInv, DragInv
<1>7. InboxInv' /\ LongInv'
  BY <1>1 DEF InboxInv, SyncInv, LongInv
<1> QED
  BY <1>2, <1>5, <1>6, <1>7 DEF SyncInv

LEMMA AddClipSync ==
    ASSUME EditorInv, InStep, SyncInv, NEW pos \in Positions, NEW dur \in Durations,
           AddClip(pos, dur)
    PROVE  SyncInv'
<1>1. PICK tmp \in fresh \cap TmpIds :
        /\ PushSnapshot
        /\ clips' = clips \cup {[id |-> tmp, pos |-> pos, dur |-> AtLeast(MinDur, dur),
                                 inPoint |-> 0]}
        /\ fresh' = fresh \ {tmp}
        /\ Send(Request("addClip", None, tmp, pos, AtLeast(MinDur, dur), None))
  BY DEF AddClip
<1>2. pos \in Nat /\ AtLeast(MinDur, dur) \in Nat /\ AtLeast(MinDur, dur) >= MinDur
  BY GesturesSane, MinDurPositive DEF AtLeast
<1>3. PICK call : call = Request("addClip", None, tmp, pos, AtLeast(MinDur, dur), None)
  OBVIOUS
<1>4. call \in GoodCalls
  BY <1>1, <1>2, <1>3, RequestOK
<1>5. /\ call.op = "addClip" /\ call.status = "sent" /\ call.id = None /\ call.tmp = tmp
      /\ call.pos = pos /\ call.dur = AtLeast(MinDur, dur)
  BY <1>3 DEF Request
<1>6. Shaped(call)
  BY <1>1, <1>2, <1>5, IdsApart DEF Shaped, Ids
<1>7. clips' = Effect(clips, call)
  BY <1>1, <1>5 DEF Effect
<1>8. calls' = Append(calls, call) /\ UserActs /\ UNCHANGED <<drag, inbox, table>>
  BY <1>1, <1>3 DEF AddClip, Send
<1>9. None \notin fresh \cup News(calls)
  BY NewsTypes DEF SyncInv
<1> QED
  BY <1>1, <1>4, <1>5, <1>6, <1>7, <1>8, <1>9, UserSends

\* A step of the user that sends nothing.
LEMMA UserQuiet ==
    ASSUME EditorInv, InStep, SyncInv, UserActs,
           UNCHANGED <<clips, calls, inbox, table, fresh>>,
           drag' # None => drag'.id \in ServerIds /\ drag'.id \notin fresh \cup News(calls)
    PROVE  SyncInv'
<1>1. inbox = <<>> /\ ("haste" \notin faults => calls = <<>>) /\ faults' = faults
  BY UserFree
<1>2. CallsInv'
  <2>1. PICK h \in Chains : Chain(h)
    BY <1>1 DEF SyncInv, CallsInv
  <2>2. h \in Chains' /\ Chain(h)'
    BY <2>1 DEF Chains, Chain
  <2>3. Pending' /\ QueueInv'
    BY DEF SyncInv, CallsInv, Pending, QueueInv
  <2> QED
    BY <2>2, <2>3 DEF CallsInv
<1>3. CalmInv'
  <2>1. CASE "haste" \in faults
    BY <1>1, <2>1 DEF SyncInv, CalmInv
  <2>2. CASE "haste" \notin faults
    <3>1. calls' = <<>> /\ Len(calls') = 0
      BY <1>1, <2>2, EmptySeq
    <3> QED
      BY <3>1 DEF CalmInv
  <2> QED
    BY <2>1, <2>2
<1>4. InboxInv' /\ DragInv' /\ LongInv'
  BY <1>1 DEF SyncInv, InboxInv, DragInv, LongInv
<1> QED
  BY <1>2, <1>3, <1>4 DEF SyncInv

\* The clips that the user touches have the server's ids.
LEMMA TouchedClip ==
    ASSUME EditorInv, InStep, SyncInv, inbox = <<>>, NEW c \in Touchable
    PROVE  /\ c \in clips /\ c \in Clip /\ c.id \in ServerIds /\ c.dur >= MinDur
           /\ c.id \notin fresh \cup News(calls)
<1>1. c \in clips /\ c \in Clip /\ c.id \in Ids
  BY DEF Touchable, EditorInv, TabOK, Snapshots, Clip
<1>2. c.id \notin TmpIds
  BY InStepFaults DEF Touchable
<1>3. c.dur >= MinDur /\ c.id \notin fresh \cup News(calls)
  BY <1>1, ShownClips DEF Proper, SyncInv
<1> QED
  BY <1>1, <1>2, <1>3 DEF Ids

LEMMA GrabSync ==
    ASSUME EditorInv, InStep, SyncInv, NEW c \in Touchable, NEW by, Grab(c, by)
    PROVE  SyncInv'
<1>1. UserActs /\ UNCHANGED <<clips, calls, inbox, table, fresh>> /\ drag'.id = c.id
  BY DEF Grab, netVars, serverVars
<1>2. c.id \in ServerIds /\ c.id \notin fresh \cup News(calls)
  BY <1>1, UserFree, TouchedClip
<1> QED
  BY <1>1, <1>2, UserQuiet

\* A move or a trim is sent as an update that makes of the clips what the tab has made.
LEMMA DragSends ==
    ASSUME EditorInv, InStep, SyncInv, UserActs, drag # None,
           NEW pos \in Nat, NEW dur \in Nat \cup {None}, dur # None => dur >= MinDur,
           SendUpdate(drag.id, pos, dur),
           \E F \in [Having(clips, drag.id) -> Clip] :
             /\ \A c \in Having(clips, drag.id) :
                  F[c] = [id |-> c.id, pos |-> pos, dur |-> IF dur = None THEN c.dur ELSE dur,
                          inPoint |-> c.inPoint]
             /\ clips' = Without({drag.id}) \cup {F[c] : c \in Having(clips, drag.id)},
           UNCHANGED <<undo, redo, drag, inbox, table, fresh>>
    PROVE  SyncInv'
<1>1. drag.id \in ServerIds /\ drag.id \notin fresh \cup News(calls) /\ drag.id \notin TmpIds
  BY IdsApart DEF SyncInv, DragInv
<1>2. PICK call : call = Request("updateClip", drag.id, None, pos, dur, None)
  OBVIOUS
<1>3. call \in GoodCalls
  BY <1>1, <1>2, RequestOK
<1>4. /\ call.op = "updateClip" /\ call.status = "sent" /\ call.id = drag.id /\ call.tmp = None
      /\ call.pos = pos /\ call.dur = dur
  BY <1>2 DEF Request
<1>5. Shaped(call)
  BY <1>1, <1>4, IdsApart DEF Shaped, Ids
<1>6. calls' = Append(calls, call)
  BY <1>1, <1>2 DEF SendUpdate, Send
<1>7. inbox = <<>>
  BY UserFree
<1>8. PICK F \in [Having(clips, drag.id) -> Clip] :
             /\ \A c \in Having(clips, drag.id) :
                  F[c] = [id |-> c.id, pos |-> pos, dur |-> IF dur = None THEN c.dur ELSE dur,
                          inPoint |-> c.inPoint]
             /\ clips' = Without({drag.id}) \cup {F[c] : c \in Having(clips, drag.id)}
  OBVIOUS
<1>9. ASSUME NEW c \in Having(clips, drag.id) PROVE F[c] = Updated(c, call)
  <2>1. c \in clips /\ c \in Clip /\ c.dur \in Nat
    BY DEF Having, EditorInv, TabOK, Snapshots, Clip
  <2>2. c.dur >= MinDur
    BY <1>7, <2>1, ShownClips DEF Proper, SyncInv
  <2>3. AtLeast(MinDur, Coalesce(dur, c.dur)) = IF dur = None THEN c.dur ELSE dur
    BY <2>1, <2>2, IdsApart, MinDurPositive DEF AtLeast, Coalesce
  <2> QED
    BY <1>4, <1>8, <2>3 DEF Updated
<1>10. clips' = Effect(clips, call)
  <2>1. Effect(clips, call) = {c \in clips : c.id # drag.id}
                              \cup {Updated(c, call) : c \in Having(clips, drag.id)}
    BY <1>4 DEF Effect, Replaced
  <2>2. Without({drag.id}) = {c \in clips : c.id # drag.id}
    BY DEF Without
  <2>3. {F[c] : c \in Having(clips, drag.id)} = {Updated(c, call) : c \in Having(clips, drag.id)}
    BY <1>9
  <2> QED
    BY <1>8, <2>1, <2>2, <2>3
<1>11. fresh' = fresh \ {call.tmp}
  BY <1>4, NewsTypes DEF SyncInv
<1> QED
  BY <1>1, <1>3, <1>4, <1>5, <1>6, <1>10, <1>11, UserSends

LEMMA MoveClipSync ==
    ASSUME EditorInv, InStep, SyncInv, NEW pos \in Positions, MoveClip(pos)
    PROVE  SyncInv'
<1>1. /\ UserActs /\ drag # None /\ SendUpdate(drag.id, pos, None)
      /\ clips' = Without({drag.id}) \cup {[c EXCEPT !.pos = pos] : c \in Under(drag.id)}
      /\ UNCHANGED <<undo, redo, drag, inbox, table, fresh>>
  BY DEF MoveClip, serverVars
<1>2. pos \in Nat
  BY GesturesSane
<1>3. PICK F : F = [c \in Having(clips, drag.id) |-> [c EXCEPT !.pos = pos]]
  OBVIOUS
<1>4. \A c \in Having(clips, drag.id) : /\ F[c] \in Clip
                                         /\ F[c] = [id |-> c.id, pos |-> pos, dur |-> c.dur, inPoint |-> c.inPoint]
  BY <1>2, <1>3 DEF Having, EditorInv, TabOK, Snapshots, Clip
<1>5. clips' = Without({drag.id}) \cup {F[c] : c \in Having(clips, drag.id)}
  <2>1. Under(drag.id) = Having(clips, drag.id)
    BY DEF Under, Having
  <2>2. {F[c] : c \in Having(clips, drag.id)} = {[c EXCEPT !.pos = pos] : c \in Under(drag.id)}
    BY <1>3, <2>1
  <2> QED
    BY <1>1, <2>2
<1>6. F \in [Having(clips, drag.id) -> Clip]
  BY <1>3, <1>4
<1> QED
  BY <1>1, <1>2, <1>4, <1>5, <1>6, DragSends

LEMMA ResizeSync ==
    ASSUME EditorInv, InStep, SyncInv, UserActs, drag # None,
           NEW pos \in Nat, NEW dur \in Int, ResizeClip(pos, dur)
    PROVE  SyncInv'
<1>1. PICK d \in Nat : d = AtLeast(MinDur, dur) /\ d >= MinDur /\ d # None
  BY MinDurPositive, IdsApart DEF AtLeast
<1>2. /\ SendUpdate(drag.id, pos, d)
      /\ clips' = Without({drag.id}) \cup {Resized(c, pos, dur) : c \in Under(drag.id)}
      /\ UNCHANGED <<undo, redo, drag, inbox, table, fresh>>
  BY <1>1 DEF ResizeClip, serverVars
<1>4. PICK F : F = [c \in Having(clips, drag.id) |-> Resized(c, pos, dur)]
  OBVIOUS
<1>5. \A c \in Having(clips, drag.id) : /\ F[c] \in Clip
                                         /\ F[c] = [id |-> c.id, pos |-> pos, dur |-> d, inPoint |-> c.inPoint]
  BY <1>1, <1>4 DEF Having, Resized, EditorInv, TabOK, Snapshots, Clip
<1>6. clips' = Without({drag.id}) \cup {F[c] : c \in Having(clips, drag.id)}
  <2>1. Under(drag.id) = Having(clips, drag.id)
    BY DEF Under, Having
  <2>2. {F[c] : c \in Having(clips, drag.id)} = {Resized(c, pos, dur) : c \in Under(drag.id)}
    BY <1>4, <2>1
  <2> QED
    BY <1>2, <2>2
<1>7. F \in [Having(clips, drag.id) -> Clip]
  BY <1>4, <1>5
<1> QED
  BY <1>1, <1>2, <1>5, <1>6, <1>7, DragSends

LEMMA TrimSync ==
    ASSUME EditorInv, InStep, SyncInv,
           \/ \E pos \in Positions : TrimLeft(pos)
           \/ \E dur \in Durations : TrimRight(dur)
    PROVE  SyncInv'
<1>1. ASSUME NEW pos \in Positions, TrimLeft(pos) PROVE SyncInv'
  <2>1. UserActs /\ drag # None /\ ResizeClip(pos, drag.dur - (pos - drag.pos))
    BY <1>1 DEF TrimLeft
  <2>2. drag.dur \in Nat /\ drag.pos \in Nat /\ pos \in Nat
    BY <2>1, GesturesSane DEF EditorInv, TabOK, Drags
  <2>3. PICK dur \in Int : dur = drag.dur - (pos - drag.pos)
    BY <2>2
  <2> QED
    BY <2>1, <2>2, <2>3, ResizeSync
<1>2. ASSUME NEW dur \in Durations, TrimRight(dur) PROVE SyncInv'
  <2>1. UserActs /\ drag # None /\ ResizeClip(drag.pos, dur) /\ dur \in Int
    BY <1>2, GesturesSane DEF TrimRight
  <2>2. PICK pos \in Nat : pos = drag.pos
    BY <2>1 DEF EditorInv, TabOK, Drags
  <2> QED
    BY <2>1, <2>2, ResizeSync
<1> QED
  BY <1>1, <1>2

LEMMA SplitClipSync ==
    ASSUME EditorInv, InStep, SyncInv, NEW c \in Touchable, NEW at \in 1 .. c.dur,
           SplitClipAt(c, at)
    PROVE  SyncInv'
<1>1. PICK tmp \in fresh \cap TmpIds :
        /\ clips' = (clips \ {c}) \cup {LeftHalf(c, at), RightHalf(c, at, tmp)}
        /\ fresh' = fresh \ {tmp}
        /\ IF c.id \in TmpIds THEN UNCHANGED calls
           ELSE Send(Request("splitClip", c.id, tmp, c.pos + at, None, SplitArgument(c, at)))
  BY DEF SplitClipAt
<1>2. /\ UserActs /\ (\A d \in clips : d.id = c.id => d = c) /\ at >= MinDur /\ at <= c.dur - MinDur
      /\ PushSnapshot /\ UNCHANGED <<drag, inbox, table>>
  BY DEF SplitClipAt
<1>3. /\ c \in clips /\ c \in Clip /\ c.id \in ServerIds /\ c.id \notin TmpIds
      /\ c.id \notin fresh \cup News(calls)
  BY <1>2, UserFree, TouchedClip, IdsApart
<1>4. at \in Nat /\ c.pos + at \in Nat
  BY <1>3 DEF Clip
<1>5. PICK call : call = Request("splitClip", c.id, tmp, c.pos + at, None, at)
  OBVIOUS
<1>6. call \in GoodCalls
  BY <1>1, <1>3, <1>4, <1>5, RequestOK
<1>7. /\ call.op = "splitClip" /\ call.status = "sent" /\ call.id = c.id /\ call.tmp = tmp
      /\ call.pos = c.pos + at /\ call.at = at
  BY <1>5 DEF Request
<1>8. Shaped(call)
  BY <1>1, <1>3, <1>4, <1>7, IdsApart DEF Shaped, Ids
<1>9. calls' = Append(calls, call)
  BY <1>1, <1>3, <1>5 DEF Send, SplitArgument
<1>10. clips' = Effect(clips, call)
  <2>1. Having(clips, c.id) = {c} /\ clips \ {c} = {d \in clips : d.id # c.id}
    BY <1>2, <1>3 DEF Having
  <2>2. Effect(clips, call) = {d \in clips : d.id # c.id}
             \cup ({LeftHalf(d, at) : d \in {c}} \cup {RightHalf(d, at, tmp) : d \in {c}})
    BY <1>7, <2>1 DEF Effect, Replaced
  <2> QED
    BY <1>1, <2>1, <2>2
<1>11. Cuts(clips, call)
  BY <1>2, <1>3, <1>7 DEF Cuts
<1>12. undo' # <<>> /\ Head(undo') = clips
  BY <1>2, PushedTop DEF EditorInv
<1> QED
  BY <1>1, <1>2, <1>3, <1>6, <1>7, <1>8, <1>9, <1>10, <1>11, <1>12, UserSends

LEMMA DeleteRequest ==
    ASSUME NEW id \in ServerIds, NEW call,
           call = Request("deleteClip", id, None, None, None, None)
    PROVE  /\ call \in GoodCalls /\ Shaped(call) /\ call.op = "deleteClip" /\ call.status = "sent"
           /\ call.id = id /\ call.tmp = None
<1>1. call \in GoodCalls
  BY RequestOK
<1>2. call.op = "deleteClip" /\ call.status = "sent" /\ call.id = id /\ call.tmp = None
  BY DEF Request
<1> QED
  BY <1>1, <1>2, IdsApart DEF Shaped, Ids

\* The deletions "r" of one key press, of the clips "X" in the order they are sent.
Deleting(X, n, order, r) ==
    /\ X \in SUBSET ServerIds /\ X \cap (fresh \cup News(calls)) = {}
    /\ n \in Nat /\ order \in [1 .. n -> X] /\ \A x \in X : \E i \in 1 .. n : order[i] = x
    /\ \A i, j \in 1 .. n : order[i] = order[j] => i = j
    /\ r \in Seq(GoodCalls) /\ Len(r) = n
    /\ \A i \in 1 .. n : r[i] = Request("deleteClip", order[i], None, None, None, None)

LEMMA DeletionsSent ==
    ASSUME EditorInv, CallsInv, inbox = <<>>, inbox' = inbox,
           NEW X, NEW n, NEW order, NEW r, Deleting(X, n, order, r),
           calls' = calls \o r, clips' = {c \in clips : c.id \notin X},
           table' = table, fresh' = fresh
    PROVE  CallsInv' /\ News(calls') = News(calls)
<1>d. /\ X \in SUBSET ServerIds /\ X \cap (fresh \cup News(calls)) = {}
      /\ n \in Nat /\ order \in [1 .. n -> X] /\ \A x \in X : \E i \in 1 .. n : order[i] = x
      /\ \A i, j \in 1 .. n : order[i] = order[j] => i = j
      /\ r \in Seq(GoodCalls) /\ Len(r) = n
      /\ \A i \in 1 .. n : r[i] = Request("deleteClip", order[i], None, None, None, None)
  BY DEF Deleting
<1> USE <1>d
<1>1. Proper(clips, {}) /\ clips \in SUBSET Clip
  BY ShownClips DEF Proper, EditorInv, TabOK, Snapshots
<1>2. \A i \in 1 .. n : /\ r[i].op = "deleteClip" /\ r[i].status = "sent" /\ Shaped(r[i])
                        /\ r[i].id = order[i] /\ r[i].tmp = None /\ order[i] \in X
  <2> TAKE i \in 1 .. n
  <2>1. order[i] \in X /\ order[i] \in ServerIds
    OBVIOUS
  <2>2. r[i] = Request("deleteClip", order[i], None, None, None, None)
    OBVIOUS
  <2> QED
    BY <2>1, <2>2, DeleteRequest
<1> DEFINE gone(j) == {order[i] : i \in 1 .. j}
           left(j) == {c \in clips : c.id \notin gone(j)}
<1>5. PICK g \in [0 .. n -> SUBSET Clip] : \A j \in 0 .. n : g[j] = left(j)
  <2> DEFINE f == [j \in 0 .. n |-> left(j)]
  <2>1. f \in [0 .. n -> SUBSET Clip] /\ \A j \in 0 .. n : f[j] = left(j)
    BY <1>1
  <2> QED
    BY <2>1
<1>6. g[0] = clips /\ g[n] = {c \in clips : c.id \notin X}
  <2>1. gone(0) = {}
    OBVIOUS
  <2>2. gone(n) = X
    OBVIOUS
  <2>3. 0 \in 0 .. n /\ n \in 0 .. n
    OBVIOUS
  <2>4. left(0) = clips
    BY <2>1
  <2>5. left(n) = {c \in clips : c.id \notin X}
    BY <2>2
  <2> QED
    BY <1>5, <2>3, <2>4, <2>5
<1>7. ASSUME NEW k \in 1 .. n PROVE g[k] = Effect(g[k - 1], r[k])
  <2>1. k \in 0 .. n /\ k - 1 \in 0 .. n
    OBVIOUS
  <2>2. Effect(g[k - 1], r[k]) = {c \in g[k - 1] : c.id # order[k]}
    BY <1>2 DEF Effect, Replaced
  <2>3. gone(k) = gone(k - 1) \cup {order[k]}
    <3>1. \A i \in 1 .. k : i \in 1 .. k - 1 \/ i = k
      OBVIOUS
    <3>2. (\A i \in 1 .. k - 1 : i \in 1 .. k) /\ k \in 1 .. k
      OBVIOUS
    <3> QED
      BY <3>1, <3>2
  <2>4. g[k] = left(k) /\ g[k - 1] = left(k - 1)
    BY <1>5, <2>1
  <2> HIDE DEF gone
  <2> QED
    BY <2>2, <2>3, <2>4
<1>8. ASSUME NEW k \in 0 .. n
      PROVE  /\ Proper(g[k], {})
             /\ \A c \in g[k] : \E d \in clips : d.id = c.id
             /\ \A t \in TmpIds \ fresh : Having(g[k], t) = Having(clips, t)
  <2>1. g[k] = left(k)
    BY <1>5
  <2>2. g[k] \subseteq clips
    BY <2>1
  <2>3. \A t \in TmpIds : t \notin gone(k)
    BY IdsApart
  <2>4. \A t \in TmpIds : Having(g[k], t) = Having(clips, t)
    BY <2>1, <2>3 DEF Having
  <2> QED
    BY <1>1, <2>2, <2>4 DEF Proper
<1>9. Sending(r, g)
  BY <1>2, <1>6, <1>7, <1>8 DEF Sending
<1>10. fresh' = fresh \ {r[k].tmp : k \in 1 .. Len(r)}
  BY <1>2, NewsTypes
<1>11. clips' = g[Len(r)]
  BY <1>6
<1> QED
  BY <1>9, <1>10, <1>11, SentCalls

LEMMA DeleteClipsSync ==
    ASSUME EditorInv, InStep, SyncInv, NEW chosen \in SUBSET Touchable,
           DeleteClips({c.id : c \in chosen})
    PROVE  SyncInv'
<1> DEFINE ids == {c.id : c \in chosen}
           sent == {c.id : c \in clips} \cap ids \cap ServerIds
<1>1. UserActs /\ clips' = Without(ids) /\ UNCHANGED <<drag, inbox, table, fresh>>
  BY DEF DeleteClips, serverVars
<1>2. inbox = <<>> /\ ("haste" \notin faults => calls = <<>>) /\ faults' = faults
  BY <1>1, UserFree
<1>3. \A c \in chosen : c \in clips /\ c.id \in ServerIds /\ c.id \notin fresh \cup News(calls)
  BY <1>2, TouchedClip
<1>4. PICK X \in SUBSET ServerIds : X = ids
  BY <1>3
<1>5. sent = X /\ X \cap (fresh \cup News(calls)) = {}
  BY <1>3, <1>4
<1>6. PICK order \in [1 .. Cardinality(sent) -> sent] :
            /\ \A i, j \in DOMAIN order : order[i] = order[j] => i = j
            /\ calls' = calls \o [i \in DOMAIN order |->
                                    Request("deleteClip", order[i], None, None, None, None)]
  BY DEF DeleteClips
<1>7. IsFiniteSet(X) /\ Cardinality(X) \in Nat
  BY <1>4, ServerIdsFinite, FS_Subset, FS_CardinalityType
<1>8. PICK n \in Nat : n = Cardinality(X)
  BY <1>7
<1>9. order \in [1 .. n -> X] /\ DOMAIN order = 1 .. n
  BY <1>5, <1>6, <1>8
<1>10. \A x \in X : \E i \in 1 .. n : order[i] = x
  <2>1. order \in Injection(1 .. n, X)
    BY <1>6, <1>9 DEF Injection, IsInjective
  <2>2. Cardinality(1 .. n) = Cardinality(X)
    BY <1>8, FS_Interval
  <2>3. order \in Surjection(1 .. n, X)
    BY <1>7, <2>1, <2>2, FS_Injection
  <2> QED
    BY <2>3 DEF Surjection
<1>11. PICK r : r = [i \in 1 .. n |-> Request("deleteClip", order[i], None, None, None, None)]
  OBVIOUS
<1>r. r \in Seq(GoodCalls) /\ Len(r) = n /\ calls \in Seq(GoodCalls)
  <2>1. \A i \in 1 .. n : r[i] \in GoodCalls
    <3> TAKE i \in 1 .. n
    <3>1. order[i] \in ServerIds
      BY <1>9
    <3>2. r[i] = Request("deleteClip", order[i], None, None, None, None)
      BY <1>11
    <3> QED
      BY <3>1, <3>2, DeleteRequest
  <2>2. r \in [1 .. n -> GoodCalls]
    BY <1>11, <2>1
  <2> HIDE DEF GoodCalls
  <2> QED
    BY <2>2, LenProperties DEF EditorInv, NetOK
<1>s. \A i \in 1 .. n : r[i] = Request("deleteClip", order[i], None, None, None, None)
  BY <1>11
<1>12. calls' = calls \o r /\ clips' = {c \in clips : c.id \notin X}
  BY <1>1, <1>4, <1>6, <1>9, <1>11 DEF Without
<1>13. \A i, j \in 1 .. n : order[i] = order[j] => i = j
  BY <1>6, <1>9
<1> HIDE DEF ids, sent
<1>t. Deleting(X, n, order, r)
  BY <1>4, <1>5, <1>8, <1>9, <1>10, <1>13, <1>r, <1>s DEF Deleting
<1>14. CallsInv' /\ News(calls') = News(calls)
  <2>1. CallsInv /\ inbox = <<>> /\ inbox' = inbox /\ table' = table /\ fresh' = fresh
    BY <1>1, <1>2 DEF SyncInv
  <2> QED
    BY <1>12, <1>t, <2>1, DeletionsSent
<1>15. CalmInv'
  <2>1. \A i \in 1 .. n : r[i].op = "deleteClip" /\ r[i].status = "sent"
    <3> TAKE i \in 1 .. n
    <3>1. r[i] = Request("deleteClip", order[i], None, None, None, None)
      BY <1>s
    <3> QED
      BY <3>1 DEF Request
  <2>3. /\ Len(calls) \in Nat /\ Len(calls') = Len(calls) + n
        /\ \A i \in 1 .. Len(calls) : calls'[i] = calls[i]
        /\ \A i \in 1 .. n : calls'[Len(calls) + i] = r[i]
    <3> HIDE DEF GoodCalls
    <3>1. Len(calls \o r) = Len(calls) + Len(r) /\ Len(calls) \in Nat
      BY <1>r, JoinedCalls
    <3>2. \A i \in 1 .. Len(calls) : (calls \o r)[i] = calls[i]
      BY <1>r, JoinedCalls
    <3>3. \A i \in 1 .. Len(r) : (calls \o r)[Len(calls) + i] = r[i]
      BY <1>r, JoinedCalls
    <3> QED
      BY <1>12, <1>r, <3>1, <3>2, <3>3
  <2>4. ASSUME NEW k \in 1 .. Len(calls')
        PROVE  k \in 1 .. Len(calls) \/ (k - Len(calls) \in 1 .. n /\ k = Len(calls) + (k - Len(calls)))
    BY <2>3
  <2>5. CASE "haste" \in faults
    <3>1. \A k \in 1 .. Len(calls) : calls[k].op # "load" /\ calls[k].status # "failed"
      BY <2>5 DEF SyncInv, CalmInv
    <3>2. \A k \in 1 .. Len(calls') : calls'[k].op # "load" /\ calls'[k].status # "failed"
      BY <2>1, <2>3, <2>4, <3>1
    <3> QED
      BY <1>2, <2>5, <3>2 DEF CalmInv
  <2>6. CASE "haste" \notin faults
    <3>1. Len(calls) = 0
      BY <1>2, <2>6, EmptySeq
    <3>2. \A k \in 1 .. Len(calls') : calls'[k].op = "deleteClip"
      BY <2>1, <2>3, <2>4, <3>1
    <3> QED
      BY <1>2, <2>6, <3>2 DEF CalmInv
  <2> QED
    BY <2>5, <2>6
<1>16. DragInv'
  BY <1>1, <1>14 DEF SyncInv, DragInv
<1>17. InboxInv' /\ LongInv'
  BY <1>1, <1>2 DEF InboxInv, SyncInv, LongInv
<1> QED
  BY <1>14, <1>15, <1>16, <1>17 DEF SyncInv

LEMMA AskProjectSync ==
    ASSUME EditorInv, InStep, SyncInv, AskProject
    PROVE  SyncInv'
<1>1. PICK call : call = Request("load", None, None, None, None, None)
  OBVIOUS
<1>2. /\ UserActs /\ "reload" \in faults /\ calls' = Append(calls, call)
      /\ UNCHANGED <<clips, drag, inbox, table, fresh>>
  BY <1>1 DEF AskProject, Send, tabVars, serverVars
<1>3. call \in GoodCalls
  BY <1>1, RequestOK
<1>4. call.op = "load" /\ call.status = "sent" /\ call.id = None /\ call.tmp = None
  BY <1>1 DEF Request
<1>5. Shaped(call)
  BY <1>4 DEF Shaped
<1>6. None \notin fresh \cup News(calls)
  BY NewsTypes DEF SyncInv
<1>7. clips' = Effect(clips, call) /\ fresh' = fresh \ {call.tmp}
  BY <1>2, <1>4, <1>6 DEF Effect
<1> QED
  BY <1>2, <1>3, <1>4, <1>5, <1>6, <1>7, UserSends

\* mouseup may come at any time.
LEMMA ReleaseSync ==
    ASSUME EditorInv, InStep, SyncInv, Release
    PROVE  SyncInv'
<1>1. drag' = None /\ UNCHANGED <<clips, undo, calls, inbox, table, fresh, faults>>
  BY DEF Release, netVars, serverVars
<1>2. CallsInv'
  <2>1. Pending' /\ QueueInv'
    BY <1>1 DEF SyncInv, CallsInv, Pending, QueueInv
  <2>2. ASSUME NEW h \in Chains, Chain(h) PROVE h \in Chains' /\ Chain(h)'
    BY <1>1, <2>2 DEF Chains, Chain
  <2>3. inbox' = <<>> => \E h \in Chains' : Chain(h)'
    BY <1>1, <2>2 DEF SyncInv, CallsInv
  <2> QED
    BY <2>1, <2>3 DEF CallsInv
<1>3. CalmInv'
  BY <1>1 DEF SyncInv, CalmInv, RowsOf
<1>4. InboxInv' /\ DragInv' /\ LongInv'
  BY <1>1 DEF SyncInv, InboxInv, DragInv, LongInv, RowsOf
<1> QED
  BY <1>2, <1>3, <1>4 DEF SyncInv

LEMMA UserSync ==
    ASSUME EditorInv, InStep, SyncInv,
           UserEdits \/ Undo \/ Redo \/ AskProject \/ Release
    PROVE  SyncInv'
<1>1. CASE \E pos \in Positions, dur \in Durations : AddClip(pos, dur)
  BY <1>1, AddClipSync
<1>2. CASE \E c \in Touchable, by \in {"body", "left", "right"} : Grab(c, by)
  BY <1>2, GrabSync
<1>3. CASE \E pos \in Positions : MoveClip(pos)
  BY <1>3, MoveClipSync
<1>4. CASE \/ \E pos \in Positions : TrimLeft(pos)
           \/ \E dur \in Durations : TrimRight(dur)
  BY <1>4, TrimSync
<1>5. CASE \E c \in Touchable : \E at \in 1 .. c.dur : SplitClipAt(c, at)
  BY <1>5, SplitClipSync
<1>6. CASE SplitOutside
  <2>1. UserActs /\ UNCHANGED <<clips, drag, calls, inbox, table, fresh>>
    BY <1>6 DEF SplitOutside, netVars, serverVars
  <2>2. drag' # None => drag'.id \in ServerIds /\ drag'.id \notin fresh \cup News(calls)
    BY <2>1 DEF SyncInv, DragInv
  <2> QED
    BY <2>1, <2>2, UserQuiet
<1>7. CASE \E chosen \in SUBSET Touchable : DeleteClips({c.id : c \in chosen})
  BY <1>7, DeleteClipsSync
<1>8. CASE Undo \/ Redo
  BY <1>8, InStepFaults DEF Undo, Redo
<1>9. CASE AskProject
  BY <1>9, AskProjectSync
<1>10. CASE Release
  BY <1>10, ReleaseSync
<1> QED
  BY <1>1, <1>2, <1>3, <1>4, <1>5, <1>6, <1>7, <1>8, <1>9, <1>10 DEF UserEdits

(***************************************************************************)
(* Agreement: the server serves a call.                                    *)
(***************************************************************************)
\* What the server's step needs to know: the calls before are served, so that the
\* chain stands at the server's clips, and others' rows stay as they are.
Serving(k, h) ==
    /\ h \in Chains /\ Chain(h) /\ k \in 1 .. Len(calls) /\ calls[k].status = "sent"
    /\ \A j \in 1 .. Len(calls) : j < k => calls[j].status = "served"

LEMMA InOrder ==
    ASSUME EditorInv, InStep, SyncInv, NEW k \in DOMAIN calls, MayServe(k)
    PROVE  /\ k \in 1 .. Len(calls) /\ inbox = <<>>
           /\ \E h : Serving(k, h) /\ h[k - 1] = ViewOf(calls, table)
           /\ \E h : Serving(k, h) /\ h[k] = Effect(ViewOf(calls, table), calls[k])
<1>1. k \in 1 .. Len(calls) /\ calls \in Seq(GoodCalls) /\ Len(calls) \in Nat
  BY CallInFlight, LenProperties DEF EditorInv, NetOK
<1>2. calls # <<>>
  BY <1>1, EmptySeq
<1>3. inbox = <<>>
  BY <1>2 DEF SyncInv, InboxInv
<1>4. PICK h \in Chains : Chain(h)
  BY <1>3 DEF SyncInv, CallsInv
<1>5. ASSUME NEW j \in 1 .. Len(calls), j < k PROVE calls[j].status = "served"
  <2>1. calls[j].status # "sent"
    <3>1. j \in 1 .. k - 1
      BY <1>1, <1>5
    <3> QED
      BY <3>1, InStepFaults DEF MayServe
  <2>2. calls[j].status # "failed"
    <3> SUFFICES ASSUME calls[j].status = "failed" PROVE FALSE
      OBVIOUS
    <3>1. "haste" \notin faults
      BY DEF SyncInv, CalmInv
    <3>2. calls[j].op = "splitClip"
      BY DEF SyncInv, CallsInv, QueueInv, Shaped
    <3>3. Len(calls) = 1
      BY <3>1, <3>2 DEF SyncInv, CalmInv
    <3> QED
      BY <1>1, <1>5, <3>3
  <2>3. calls[j] \in Call
    BY <1>1, ElementOfSeq DEF GoodCalls
  <2> QED
    BY <2>1, <2>2, <2>3 DEF Call
<1>6. Serving(k, h)
  BY <1>1, <1>4, <1>5 DEF Serving, MayServe
<1>7. h[k - 1] = ViewOf(calls, table)
  <2>1. CASE k = 1
    BY <1>4, <2>1 DEF Chain
  <2>2. CASE k # 1
    <3>1. k - 1 \in 1 .. Len(calls) /\ k - 1 < k
      BY <1>1, <2>2
    <3> QED
      BY <1>4, <1>5, <3>1 DEF Chain
  <2> QED
    BY <2>1, <2>2
<1>8. h[k] = Effect(h[k - 1], calls[k])
  BY <1>1, <1>4 DEF Chain
<1> QED
  BY <1>1, <1>3, <1>6, <1>7, <1>8

\* An update or a deletion is over with its execution: the chain loses its first step.
LEMMA ServedAndOver ==
    ASSUME EditorInv, CallsInv, inbox = <<>>, NEW k, NEW h, Serving(k, h),
           calls[k].op \in {"updateClip", "deleteClip"},
           calls' = RemoveAt(calls, k), UNCHANGED <<clips, fresh>>,
           h[k] = ViewOf(calls, table'),
           \A id \in News(calls) : id \in DOMAIN table' /\ table'[id] = table[id]
    PROVE  CallsInv' /\ News(calls') = News(calls)
<1> DEFINE n == Len(calls)
           at(i) == IF i < k THEN i ELSE i + 1
           now(i) == IF i < k THEN k ELSE i + 1
<1>t. calls \in Seq(GoodCalls) /\ k \in 1 .. n /\ n \in Nat /\ calls[k].status = "sent"
  BY LenProperties DEF EditorInv, NetOK, Serving
<1>q. /\ calls' \in Seq(GoodCalls) /\ Len(calls') = n - 1
      /\ \A i \in 1 .. n - 1 : calls'[i] = calls[at(i)]
  <2>1. /\ RemoveAt(calls, k) \in Seq(GoodCalls) /\ Len(RemoveAt(calls, k)) = Len(calls) - 1
        /\ \A i \in 1 .. Len(calls) - 1 :
                RemoveAt(calls, k)[i] = IF i < k THEN calls[i] ELSE calls[i + 1]
    <3> HIDE DEF GoodCalls
    <3> QED
      BY <1>t, RemovedCalls
  <2> QED
    BY <2>1
<1>h. /\ h \in [0 .. n -> SUBSET Clip] /\ h[n] = clips
      /\ \A i \in 1 .. n :
           /\ h[i] = Effect(h[i - 1], calls[i])
           /\ calls[i].status = "served" => h[i] = h[0]
           /\ (calls[i].op = "splitClip" /\ calls[i].status # "served") => Cuts(h[i - 1], calls[i])
      /\ \A i \in 0 .. n : Proper(h[i], fresh \cup News(calls))
      /\ \A i \in 1 .. n : \A j \in i .. n :
           calls[i].tmp # None => Having(h[j], calls[i].tmp) = Having(h[i], calls[i].tmp)
      /\ \A j \in 1 .. n : j < k => calls[j].status = "served"
  BY DEF Serving, Chain, Chains
<1>k. /\ \A i \in 1 .. n :
           /\ Shaped(calls[i])
           /\ calls[i].tmp \notin fresh /\ calls[i].id \notin fresh \cup News(calls)
           /\ Waits(calls[i]) => Answers(calls[i], table)
      /\ \A j, i \in 1 .. n : j < i =>
           /\ calls[j].tmp # None => calls[j].tmp # calls[i].tmp
           /\ calls[j].status = "sent" => calls[i].status = "sent"
           /\ (Waits(calls[j]) /\ Waits(calls[i])) => NewRow(calls[j]).id # NewRow(calls[i]).id
  BY DEF CallsInv, QueueInv
<1>d. DOMAIN calls = 1 .. n /\ DOMAIN calls' = 1 .. n - 1
  BY <1>t, <1>q, LenProperties
<1> HIDE DEF n, GoodCalls
<1>i. /\ \A i \in 1 .. n - 1 : at(i) \in 1 .. n /\ at(i) # k /\ (i < k => at(i) = i) /\ (~(i < k) => at(i) = i + 1)
      /\ \A i \in 1 .. n : i # k => \E j \in 1 .. n - 1 : i = at(j)
      /\ \A i, j \in 1 .. n - 1 : i < j => at(i) < at(j)
  <2>1. \A i \in 1 .. n - 1 : at(i) \in 1 .. n /\ at(i) # k /\ (i < k => at(i) = i) /\ (~(i < k) => at(i) = i + 1)
    BY <1>t
  <2>2. ASSUME NEW i \in 1 .. n, i # k PROVE \E j \in 1 .. n - 1 : i = at(j)
    <3>1. CASE i < k
      <4>1. i \in 1 .. n - 1 /\ i = at(i)
        BY <1>t, <3>1
      <4> QED
        BY <4>1
    <3>2. CASE ~(i < k)
      <4>1. i - 1 \in 1 .. n - 1 /\ ~(i - 1 < k) /\ i = (i - 1) + 1
        BY <1>t, <2>2, <3>2
      <4> QED
        BY <4>1
    <3> QED
      BY <3>1, <3>2
  <2>3. \A i, j \in 1 .. n - 1 : i < j => at(i) < at(j)
    BY <1>t
  <2> QED
    BY <2>1, <2>2, <2>3
<1>j. /\ \A i \in 0 .. n - 1 : now(i) \in 1 .. n /\ (i < k => now(i) = k) /\ (~(i < k) => now(i) = i + 1)
      /\ \A i \in 1 .. n - 1 : \A j \in i .. n - 1 : now(j) \in at(i) .. n
  BY <1>t
<1> HIDE DEF at, now
<1>w. Waiting(calls') = Waiting(calls)
  <2>1. ~Waits(calls[k])
    BY <1>t DEF Waits
  <2>2. ASSUME NEW w, Waits(w) PROVE w \in Waiting(calls') <=> w \in Waiting(calls)
    <3>1. ASSUME NEW i \in 1 .. n, w = calls[i] PROVE w \in Waiting(calls')
      <4>1. PICK j \in 1 .. n - 1 : i = at(j)
        BY <1>i, <2>1, <2>2, <3>1
      <4>2. calls'[j] = w
        BY <4>1, <1>q, <3>1
      <4> QED
        BY <4>1, <4>2, <1>d, <2>2 DEF Waiting
    <3>2. ASSUME NEW j \in 1 .. n - 1, w = calls'[j] PROVE w \in Waiting(calls)
      <4>1. w = calls[at(j)] /\ at(j) \in 1 .. n
        BY <1>i, <1>q, <3>2
      <4> QED
        BY <4>1, <1>d, <2>2 DEF Waiting
    <3> QED
      BY <3>1, <3>2, <1>d DEF Waiting
  <2> QED
    BY <2>2 DEF Waiting
<1>n. News(calls') = News(calls) /\ ViewOf(calls', table') = ViewOf(calls, table')
  BY <1>w, SameWaiting
<1>1. PICK hh \in [0 .. n - 1 -> SUBSET Clip] : \A i \in 0 .. n - 1 : hh[i] = h[now(i)]
  <2> DEFINE f == [i \in 0 .. n - 1 |-> h[now(i)]]
  <2>1. \A i \in 0 .. n - 1 : h[now(i)] \in SUBSET Clip
    <3> TAKE i \in 0 .. n - 1
    <3>1. now(i) \in 0 .. n
      BY <1>j, <1>t
    <3> QED
      BY <3>1, <1>h
  <2>2. f \in [0 .. n - 1 -> SUBSET Clip] /\ \A i \in 0 .. n - 1 : f[i] = h[now(i)]
    BY <2>1
  <2> QED
    BY <2>2
<1>2. hh[0] = ViewOf(calls', table') /\ hh[n - 1] = clips'
  <2>1. 0 \in 0 .. n - 1 /\ n - 1 \in 0 .. n - 1 /\ 0 < k
    BY <1>t
  <2>2. now(0) = k /\ now(n - 1) = n
    <3>1. now(0) = k
      BY <1>j, <2>1
    <3>2. now(n - 1) = n
      BY <1>j, <1>t, <2>1
    <3> QED
      BY <3>1, <3>2
  <2> QED
    BY <1>1, <1>h, <1>n, <2>1, <2>2
<1>3. ASSUME NEW i \in 1 .. n - 1
      PROVE  /\ hh[i] = Effect(hh[i - 1], calls'[i])
             /\ calls'[i].status = "served" => hh[i] = hh[0]
             /\ (calls'[i].op = "splitClip" /\ calls'[i].status # "served") =>
                    Cuts(hh[i - 1], calls'[i])
  <2>1. i \in 0 .. n - 1 /\ i - 1 \in 0 .. n - 1 /\ 0 \in 0 .. n - 1 /\ 0 < k
    BY <1>t
  <2>2. CASE i < k
    <3>1. now(i) = k /\ now(i - 1) = k /\ now(0) = k /\ at(i) = i
      <4>1. i - 1 < k
        BY <2>2, <1>t
      <4> QED
        BY <2>1, <2>2, <4>1, <1>i, <1>j
    <3>2. hh[i] = h[k] /\ hh[i - 1] = h[k] /\ hh[0] = h[k] /\ calls'[i] = calls[i]
      BY <2>1, <3>1, <1>1, <1>q
    <3>3. i \in 1 .. n
      BY <1>t
    <3>4. calls[i].status = "served"
      BY <2>2, <3>3, <1>h
    <3> QED
      BY <3>2, <3>4 DEF Effect
  <2>3. CASE ~(i < k)
    <3>1. now(i) = i + 1 /\ at(i) = i + 1 /\ i + 1 \in 1 .. n /\ (i + 1) - 1 = i
      BY <2>1, <2>3, <1>i, <1>j, <1>t
    <3>2. now(i - 1) = i
      <4>1. CASE i - 1 < k
        <5>1. i = k
          BY <2>3, <4>1, <1>t
        <5> QED
          BY <2>1, <4>1, <5>1, <1>j
      <4>2. CASE ~(i - 1 < k)
        BY <2>1, <4>2, <1>j
      <4> QED
        BY <4>1, <4>2
    <3>3. hh[i] = h[i + 1] /\ hh[i - 1] = h[i] /\ calls'[i] = calls[i + 1]
      BY <2>1, <3>1, <3>2, <1>1, <1>q
    <3>4. calls[i + 1].status = "sent"
      <4>1. k < i + 1
        BY <2>3, <1>t
      <4> QED
        BY <3>1, <4>1, <1>k, <1>t
    <3>5. h[i + 1] = Effect(h[(i + 1) - 1], calls[i + 1])
          /\ (calls[i + 1].op = "splitClip" => Cuts(h[(i + 1) - 1], calls[i + 1]))
      BY <3>1, <3>4, <1>h
    <3> QED
      BY <3>1, <3>3, <3>4, <3>5
  <2> QED
    BY <2>2, <2>3
<1>4. ASSUME NEW i \in 0 .. n - 1
      PROVE  Proper(hh[i], fresh' \cup News(calls'))
  <2>1. now(i) \in 0 .. n
    BY <1>j, <1>t
  <2> QED
    BY <2>1, <1>1, <1>h, <1>n
<1>5. ASSUME NEW i \in 1 .. n - 1, NEW j \in i .. n - 1, calls'[i].tmp # None
      PROVE  Having(hh[j], calls'[i].tmp) = Having(hh[i], calls'[i].tmp)
  <2>1. i \in 0 .. n - 1 /\ j \in 0 .. n - 1 /\ i \in i .. n - 1
    BY <1>t
  <2>2. at(i) \in 1 .. n /\ now(j) \in at(i) .. n /\ now(i) \in at(i) .. n
    BY <2>1, <1>i, <1>j
  <2>3. calls'[i] = calls[at(i)] /\ hh[j] = h[now(j)] /\ hh[i] = h[now(i)]
    BY <2>1, <1>1, <1>q
  <2>4. Having(h[now(j)], calls[at(i)].tmp) = Having(h[at(i)], calls[at(i)].tmp)
    BY <2>2, <2>3, <1>5, <1>h
  <2>5. Having(h[now(i)], calls[at(i)].tmp) = Having(h[at(i)], calls[at(i)].tmp)
    BY <2>2, <2>3, <1>5, <1>h
  <2> QED
    BY <2>3, <2>4, <2>5
<1>6. hh \in Chains' /\ Chain(hh)'
  BY <1>q, <1>1, <1>2, <1>3, <1>4, <1>5 DEF Chains, Chain
<1>7. ASSUME NEW i \in 1 .. n - 1
      PROVE  /\ Shaped(calls'[i])
             /\ calls'[i].tmp \notin fresh' /\ calls'[i].id \notin fresh' \cup News(calls')
             /\ Waits(calls'[i]) => Answers(calls'[i], table')
  <2>1. calls'[i] = calls[at(i)] /\ at(i) \in 1 .. n
    BY <1>q, <1>i
  <2>2. ASSUME Waits(calls[at(i)]) PROVE Answers(calls[at(i)], table')
    <3>1. NewRow(calls[at(i)]).id \in News(calls)
      BY <2>1, <2>2, <1>d DEF News, Waiting
    <3> QED
      BY <2>1, <2>2, <3>1, <1>k DEF Answers
  <2> QED
    BY <2>1, <2>2, <1>k, <1>n
<1>8. ASSUME NEW j \in 1 .. n - 1, NEW i \in 1 .. n - 1, j < i
      PROVE  /\ calls'[j].tmp # None => calls'[j].tmp # calls'[i].tmp
             /\ calls'[j].status = "sent" => calls'[i].status = "sent"
             /\ (Waits(calls'[j]) /\ Waits(calls'[i])) => NewRow(calls'[j]).id # NewRow(calls'[i]).id
  <2>1. calls'[i] = calls[at(i)] /\ at(i) \in 1 .. n /\ calls'[j] = calls[at(j)] /\ at(j) \in 1 .. n
    BY <1>q, <1>i
  <2>2. at(j) < at(i)
    BY <1>8, <1>i
  <2> QED
    BY <2>1, <2>2, <1>k
<1>9. QueueInv'
  BY <1>q, <1>7, <1>8 DEF QueueInv
<1>10. Pending'
  <2> SUFFICES ASSUME NEW c \in clips, c.id \in TmpIds
               PROVE  \E i \in 1 .. n - 1 : calls'[i].tmp = c.id
    BY <1>q DEF Pending
  <2>1. PICK i \in 1 .. n : calls[i].tmp = c.id
    BY DEF CallsInv, Pending, n
  <2>2. calls[k].tmp = None
    BY <1>t, <1>k DEF Shaped
  <2>3. i # k
    BY <2>1, <2>2, IdsApart DEF Ids
  <2> QED
    BY <2>1, <2>3, <1>i, <1>q
<1> QED
  BY <1>6, <1>9, <1>10, <1>n DEF CallsInv

\* An insertion has been answered: from now on the answer explains the step.
LEMMA ServedAndAnswered ==
    ASSUME EditorInv, CallsInv, inbox = <<>>, NEW k, NEW h, Serving(k, h),
           NEW w \in GoodCalls, Shaped(w), Waits(w), Answers(w, table'), w.status = "served",
           w.tmp = calls[k].tmp, w.id = calls[k].id, calls[k].tmp # None,
           calls' = [calls EXCEPT ![k] = w], UNCHANGED clips,
           NewRow(w).id \in fresh, fresh' = fresh \ {NewRow(w).id},
           \A q : Waiting(q) = Waiting(calls) \cup {w} => h[k] = ViewOf(q, table'),
           \A id \in News(calls) : id \in DOMAIN table' /\ table'[id] = table[id]
    PROVE  CallsInv' /\ News(calls') = News(calls) \cup {NewRow(w).id}
<1> DEFINE n == Len(calls)
           now(i) == IF i < k THEN k ELSE i
<1>t. calls \in Seq(GoodCalls) /\ k \in 1 .. n /\ n \in Nat /\ calls[k].status = "sent"
  BY LenProperties DEF EditorInv, NetOK, Serving
<1>q. /\ calls' \in Seq(GoodCalls) /\ Len(calls') = n /\ calls'[k] = w
      /\ \A i \in 1 .. n : i # k => calls'[i] = calls[i]
  <2> HIDE DEF GoodCalls
  <2> QED
    BY <1>t, ExceptSeq
<1>h. /\ h \in [0 .. n -> SUBSET Clip] /\ h[n] = clips
      /\ \A i \in 1 .. n :
           /\ h[i] = Effect(h[i - 1], calls[i])
           /\ calls[i].status = "served" => h[i] = h[0]
           /\ (calls[i].op = "splitClip" /\ calls[i].status # "served") => Cuts(h[i - 1], calls[i])
      /\ \A i \in 0 .. n : Proper(h[i], fresh \cup News(calls))
      /\ \A i \in 1 .. n : \A j \in i .. n :
           calls[i].tmp # None => Having(h[j], calls[i].tmp) = Having(h[i], calls[i].tmp)
      /\ \A j \in 1 .. n : j < k => calls[j].status = "served"
  BY DEF Serving, Chain, Chains
<1>k. /\ \A i \in 1 .. n :
           /\ Shaped(calls[i])
           /\ calls[i].tmp \notin fresh /\ calls[i].id \notin fresh \cup News(calls)
           /\ Waits(calls[i]) => Answers(calls[i], table)
      /\ \A j, i \in 1 .. n : j < i =>
           /\ calls[j].tmp # None => calls[j].tmp # calls[i].tmp
           /\ calls[j].status = "sent" => calls[i].status = "sent"
           /\ (Waits(calls[j]) /\ Waits(calls[i])) => NewRow(calls[j]).id # NewRow(calls[i]).id
  BY DEF CallsInv, QueueInv
<1>d. DOMAIN calls = 1 .. n /\ DOMAIN calls' = 1 .. n
  BY <1>t, <1>q, LenProperties
<1>r. NewRow(w).id \notin News(calls)
  BY NewsTypes DEF EditorInv, ServerOK
<1> HIDE DEF n, GoodCalls
<1>j. /\ \A i \in 0 .. n : now(i) \in 1 .. n /\ (i < k => now(i) = k) /\ (~(i < k) => now(i) = i)
      /\ \A i \in 1 .. n : \A j \in i .. n : now(j) \in i .. n
  BY <1>t
<1> HIDE DEF now
<1>w. Waiting(calls') = Waiting(calls) \cup {w}
  <2>1. ~Waits(calls[k])
    BY <1>t DEF Waits
  <2>2. ASSUME NEW x, Waits(x) PROVE x \in Waiting(calls') <=> x \in Waiting(calls) \/ x = w
    <3>1. ASSUME NEW i \in 1 .. n, x = calls[i] PROVE x \in Waiting(calls')
      <4>1. i # k
        BY <2>1, <2>2, <3>1
      <4>2. calls'[i] = x
        BY <4>1, <1>q, <3>1
      <4> QED
        BY <4>2, <1>d, <2>2 DEF Waiting
    <3>2. ASSUME NEW j \in 1 .. n, x = calls'[j] PROVE x \in Waiting(calls) \/ x = w
      <4>1. CASE j = k
        BY <1>q, <3>2, <4>1
      <4>2. CASE j # k
        <5>1. calls[j] = x
          BY <1>q, <3>2, <4>2
        <5> QED
          BY <5>1, <1>d, <2>2 DEF Waiting
      <4> QED
        BY <4>1, <4>2
    <3>3. w \in Waiting(calls')
      BY <1>d, <1>q, <1>t DEF Waiting
    <3> QED
      BY <3>1, <3>2, <3>3, <1>d DEF Waiting
  <2> QED
    BY <2>2 DEF Waiting
<1>n. News(calls') = News(calls) \cup {NewRow(w).id}
  BY <1>w DEF News
<1>f. fresh' \cup News(calls') = fresh \cup News(calls)
  BY <1>n
<1>1. PICK hh \in [0 .. n -> SUBSET Clip] : \A i \in 0 .. n : hh[i] = h[now(i)]
  <2> DEFINE f == [i \in 0 .. n |-> h[now(i)]]
  <2>1. \A i \in 0 .. n : h[now(i)] \in SUBSET Clip
    <3> TAKE i \in 0 .. n
    <3>1. now(i) \in 0 .. n
      BY <1>j, <1>t
    <3> QED
      BY <3>1, <1>h
  <2>2. f \in [0 .. n -> SUBSET Clip] /\ \A i \in 0 .. n : f[i] = h[now(i)]
    BY <2>1
  <2> QED
    BY <2>2
<1>2. hh[0] = ViewOf(calls', table') /\ hh[n] = clips'
  <2>1. 0 \in 0 .. n /\ n \in 0 .. n /\ 0 < k /\ ~(n < k)
    BY <1>t
  <2>2. now(0) = k /\ now(n) = n
    BY <1>j, <2>1
  <2>3. h[k] = ViewOf(calls', table')
    BY <1>w
  <2> QED
    BY <1>1, <1>h, <2>1, <2>2, <2>3
<1>3. ASSUME NEW i \in 1 .. n
      PROVE  /\ hh[i] = Effect(hh[i - 1], calls'[i])
             /\ calls'[i].status = "served" => hh[i] = hh[0]
             /\ (calls'[i].op = "splitClip" /\ calls'[i].status # "served") =>
                    Cuts(hh[i - 1], calls'[i])
  <2>1. i \in 0 .. n /\ i - 1 \in 0 .. n /\ 0 \in 0 .. n /\ 0 < k
    BY <1>t
  <2>2. CASE i < k \/ i = k
    <3>1. now(i) = k /\ now(i - 1) = k /\ now(0) = k
      <4>1. i - 1 < k
        BY <2>2, <1>t
      <4> QED
        BY <2>1, <2>2, <4>1, <1>j
    <3>2. hh[i] = h[k] /\ hh[i - 1] = h[k] /\ hh[0] = h[k]
      BY <2>1, <3>1, <1>1
    <3>3. calls'[i].status = "served"
      <4>1. CASE i = k
        BY <4>1, <1>q
      <4>2. CASE i < k
        <5>1. calls'[i] = calls[i]
          BY <4>2, <1>q, <1>t
        <5> QED
          BY <4>2, <5>1, <1>h
      <4> QED
        BY <2>2, <4>1, <4>2
    <3> QED
      BY <3>2, <3>3 DEF Effect
  <2>3. CASE ~(i < k) /\ i # k
    <3>1. now(i) = i /\ now(i - 1) = i - 1 /\ k < i
      <4>1. ~(i - 1 < k)
        BY <2>3, <1>t
      <4> QED
        BY <2>1, <2>3, <4>1, <1>j, <1>t
    <3>2. hh[i] = h[i] /\ hh[i - 1] = h[i - 1] /\ calls'[i] = calls[i]
      BY <2>1, <2>3, <3>1, <1>1, <1>q
    <3>3. calls[i].status = "sent"
      BY <3>1, <1>k, <1>t
    <3> QED
      BY <3>2, <3>3, <1>h
  <2> QED
    BY <2>2, <2>3
<1>4. ASSUME NEW i \in 0 .. n
      PROVE  Proper(hh[i], fresh' \cup News(calls'))
  <2>1. now(i) \in 0 .. n
    BY <1>j, <1>t
  <2> QED
    BY <2>1, <1>1, <1>h, <1>f
<1>5. ASSUME NEW i \in 1 .. n, NEW j \in i .. n, calls'[i].tmp # None
      PROVE  Having(hh[j], calls'[i].tmp) = Having(hh[i], calls'[i].tmp)
  <2>1. i \in 0 .. n /\ j \in 0 .. n /\ i \in i .. n
    BY <1>t
  <2>2. now(j) \in i .. n /\ now(i) \in i .. n
    BY <2>1, <1>j
  <2>3. calls'[i].tmp = calls[i].tmp /\ hh[j] = h[now(j)] /\ hh[i] = h[now(i)]
    BY <2>1, <1>1, <1>q
  <2>4. Having(h[now(j)], calls[i].tmp) = Having(h[i], calls[i].tmp)
    BY <2>2, <2>3, <1>5, <1>h
  <2>5. Having(h[now(i)], calls[i].tmp) = Having(h[i], calls[i].tmp)
    BY <2>2, <2>3, <1>5, <1>h
  <2> QED
    BY <2>3, <2>4, <2>5
<1>6. hh \in Chains' /\ Chain(hh)'
  BY <1>q, <1>1, <1>2, <1>3, <1>4, <1>5 DEF Chains, Chain
<1>7. ASSUME NEW i \in 1 .. n
      PROVE  /\ Shaped(calls'[i])
             /\ calls'[i].tmp \notin fresh' /\ calls'[i].id \notin fresh' \cup News(calls')
             /\ Waits(calls'[i]) => Answers(calls'[i], table')
  <2>1. /\ calls[i].tmp \notin fresh' /\ calls[i].id \notin fresh' \cup News(calls')
        /\ calls'[i].tmp = calls[i].tmp /\ calls'[i].id = calls[i].id
    <3>1. fresh' \subseteq fresh /\ calls[i].tmp \notin fresh /\ calls[i].id \notin fresh \cup News(calls)
      BY <1>k
    <3>2. calls'[i].tmp = calls[i].tmp /\ calls'[i].id = calls[i].id
      BY <1>q
    <3>3. calls[i].id \notin fresh' \cup News(calls')
      BY <3>1, <1>f
    <3> QED
      BY <3>1, <3>2, <3>3
  <2>2. CASE i = k
    <3>1. Shaped(calls'[i]) /\ (Waits(calls'[i]) => Answers(calls'[i], table'))
      BY <2>2, <1>q
    <3> QED
      BY <2>1, <3>1
  <2>3. CASE i # k
    <3>1. calls'[i] = calls[i]
      BY <2>3, <1>q
    <3>2. ASSUME Waits(calls[i]) PROVE Answers(calls[i], table')
      <4>1. NewRow(calls[i]).id \in News(calls)
        BY <3>2, <1>d DEF News, Waiting
      <4> QED
        BY <3>2, <4>1, <1>k DEF Answers
    <3>3. Shaped(calls'[i]) /\ (Waits(calls'[i]) => Answers(calls'[i], table'))
      BY <3>1, <3>2, <1>k
    <3> QED
      BY <2>1, <3>3
  <2> QED
    BY <2>2, <2>3
<1>8. ASSUME NEW j \in 1 .. n, NEW i \in 1 .. n, j < i
      PROVE  /\ calls'[j].tmp # None => calls'[j].tmp # calls'[i].tmp
             /\ calls'[j].status = "sent" => calls'[i].status = "sent"
             /\ (Waits(calls'[j]) /\ Waits(calls'[i])) => NewRow(calls'[j]).id # NewRow(calls'[i]).id
  <2>1. calls'[j].tmp = calls[j].tmp /\ calls'[i].tmp = calls[i].tmp
    BY <1>q
  <2>2. calls'[j].status = "sent" => calls'[i].status = "sent"
    <3>1. CASE j < k
      <4>1. calls'[j] = calls[j] /\ calls[j].status = "served"
        BY <3>1, <1>q, <1>h, <1>t
      <4> QED
        BY <4>1
    <3>2. CASE j = k
      BY <3>2, <1>q
    <3>3. CASE ~(j < k) /\ j # k
      <4>1. i # k /\ calls'[j] = calls[j] /\ calls'[i] = calls[i]
        BY <3>3, <1>8, <1>q, <1>t
      <4> QED
        BY <4>1, <1>8, <1>k
    <3> QED
      BY <3>1, <3>2, <3>3
  <2>3. ASSUME NEW x \in 1 .. n, x # k, Waits(calls[x]) PROVE NewRow(calls[x]).id # NewRow(w).id
    <3>1. NewRow(calls[x]).id \in News(calls)
      BY <2>3, <1>d DEF News, Waiting
    <3> QED
      BY <3>1, <1>r
  <2>4. (Waits(calls'[j]) /\ Waits(calls'[i])) => NewRow(calls'[j]).id # NewRow(calls'[i]).id
    <3>1. CASE j = k
      <4>1. i # k /\ calls'[i] = calls[i]
        BY <3>1, <1>8, <1>q, <1>t
      <4> QED
        BY <3>1, <4>1, <2>3, <1>q
    <3>2. CASE i = k
      <4>1. j # k /\ calls'[j] = calls[j]
        BY <3>2, <1>8, <1>q, <1>t
      <4> QED
        BY <3>2, <4>1, <2>3, <1>q
    <3>3. CASE j # k /\ i # k
      BY <3>3, <1>q, <1>k, <1>8
    <3> QED
      BY <3>1, <3>2, <3>3
  <2> QED
    BY <2>1, <2>2, <2>4, <1>8, <1>k
<1>9. QueueInv'
  BY <1>q, <1>7, <1>8 DEF QueueInv
<1>10. Pending'
  <2>1. \A i \in 1 .. n : calls'[i].tmp = calls[i].tmp
    BY <1>q
  <2> QED
    BY <2>1, <1>q DEF CallsInv, Pending, n
<1> QED
  BY <1>6, <1>9, <1>10, <1>n DEF CallsInv

\* The calls whose answers are waited for.
LEMMA Waiters ==
    ASSUME EditorInv, CallsInv, NEW w \in Waiting(calls)
    PROVE  /\ w \in GoodCalls /\ Shaped(w) /\ Waits(w) /\ w.tmp \in TmpIds /\ w.tmp \notin fresh
           /\ Answers(w, table) /\ NewRow(w).id \in News(calls)
<1>1. PICK k \in DOMAIN calls : w = calls[k] /\ Waits(w)
  BY DEF Waiting
<1>2. k \in 1 .. Len(calls) /\ calls[k] \in GoodCalls
  BY CallInFlight DEF EditorInv
<1>3. Shaped(w) /\ w.tmp \notin fresh /\ Answers(w, table)
  BY <1>1, <1>2 DEF CallsInv, QueueInv
<1>4. w.tmp \in TmpIds
  BY <1>1, <1>2, <1>3, CallTypes DEF Waits
<1> QED
  BY <1>1, <1>2, <1>3, <1>4 DEF News

\* The server's clips under the tab's names, the clip under one id apart.
LEMMA ViewParts ==
    ASSUME EditorInv, CallsInv, NEW id \in ServerIds, id \notin News(calls)
    PROVE  LET rest == {table[x] : x \in DOMAIN table \ (News(calls) \cup {id})}
                       \cup {Renamed(NewRow(w), w.tmp) : w \in Waiting(calls)}
           IN  /\ {c \in ViewOf(calls, table) : c.id # id} = rest
               /\ Having(ViewOf(calls, table), id)
                      = IF id \in DOMAIN table THEN {table[id]} ELSE {}
<1> DEFINE old == {table[x] : x \in DOMAIN table \ (News(calls) \cup {id})}
           new == {Renamed(NewRow(w), w.tmp) : w \in Waiting(calls)}
           one == IF id \in DOMAIN table THEN {table[id]} ELSE {}
<1>1. \A x \in DOMAIN table : table[x].id = x
  BY DEF EditorInv, ServerOK
<1>2. \A c \in new : c.id # id
  <2> SUFFICES ASSUME NEW w \in Waiting(calls) PROVE Renamed(NewRow(w), w.tmp).id # id
    OBVIOUS
  <2>1. w.tmp \in TmpIds
    BY Waiters
  <2> QED
    BY <2>1, IdsApart DEF Renamed
<1>3. \A c \in old : c.id # id
  BY <1>1
<1>4. \A c \in one : c.id = id
  BY <1>1
<1>5. ViewOf(calls, table) = old \cup new \cup one
  BY DEF ViewOf
<1> HIDE DEF old, new, one
<1>6. {c \in ViewOf(calls, table) : c.id # id} = old \cup new
  BY <1>2, <1>3, <1>4, <1>5
<1>7. Having(ViewOf(calls, table), id) = one
  BY <1>2, <1>3, <1>4, <1>5 DEF Having
<1> QED
  BY <1>6, <1>7 DEF old, new, one

\* The executed call makes of the server's clips what it was to make of the tab's.
LEMMA UpdateTakesEffect ==
    ASSUME EditorInv, CallsInv, NEW k \in 1 .. Len(calls), ServeUpdate(k)
    PROVE  ViewOf(calls, table') = Effect(ViewOf(calls, table), calls[k])
<1> DEFINE call == calls[k]
           id == call.id
           V == ViewOf(calls, table)
           old == {table[x] : x \in DOMAIN table \ (News(calls) \cup {id})}
           new == {Renamed(NewRow(w), w.tmp) : w \in Waiting(calls)}
<1>1. /\ call.op = "updateClip" /\ call.status = "sent"
      /\ table' = IF id \in DOMAIN table THEN Stored(Updated(table[id], call)) ELSE table
  BY DEF ServeUpdate, MayServe
<1>2. k \in DOMAIN calls /\ call \in GoodCalls
  BY LenProperties, ElementOfSeq DEF EditorInv, NetOK
<1>3. Shaped(call) /\ id \notin News(calls)
  BY DEF CallsInv, QueueInv
<1>4. id \in ServerIds
  BY <1>1, <1>2, <1>3, CallTypes
<1>5. /\ {c \in V : c.id # id} = old \cup new
      /\ Having(V, id) = IF id \in DOMAIN table THEN {table[id]} ELSE {}
  BY <1>3, <1>4, ViewParts
<1>6. Effect(V, call) = {c \in V : c.id # id} \cup {Updated(c, call) : c \in Having(V, id)}
  BY <1>1 DEF Effect, Replaced
<1>7. CASE id \in DOMAIN table
  <2>1. Updated(table[id], call).id = id
    BY <1>7 DEF Updated, EditorInv, ServerOK
  <2>2. /\ DOMAIN table' = DOMAIN table /\ table'[id] = Updated(table[id], call)
        /\ \A x \in DOMAIN table \ {id} : table'[x] = table[x]
    BY <1>1, <1>7, <2>1 DEF Stored
  <2>3. {table'[x] : x \in DOMAIN table' \ News(calls)} = old \cup {Updated(table[id], call)}
    <3>1. DOMAIN table' \ News(calls) = (DOMAIN table \ (News(calls) \cup {id})) \cup {id}
      BY <1>3, <1>7, <2>2
    <3> QED
      BY <2>2, <3>1
  <2>4. Effect(V, call) = old \cup new \cup {Updated(table[id], call)}
    BY <1>5, <1>6, <1>7
  <2> HIDE DEF old, new, V, id, call
  <2>5. ViewOf(calls, table') = old \cup {Updated(table[id], call)} \cup new
    BY <2>3 DEF ViewOf, new
  <2> QED
    BY <2>4, <2>5 DEF V, call
<1>8. CASE id \notin DOMAIN table
  <2>1. {table'[x] : x \in DOMAIN table' \ News(calls)} = old
    <3>1. DOMAIN table \ News(calls) = DOMAIN table \ (News(calls) \cup {id})
      BY <1>8
    <3> QED
      BY <1>1, <1>8, <3>1
  <2>2. Effect(V, call) = old \cup new
    BY <1>5, <1>6, <1>8
  <2> HIDE DEF old, new, V, id, call
  <2>3. ViewOf(calls, table') = old \cup new
    BY <2>1 DEF ViewOf, new
  <2> QED
    BY <2>2, <2>3 DEF V, call
<1> QED
  BY <1>7, <1>8

LEMMA DeleteTakesEffect ==
    ASSUME EditorInv, CallsInv, NEW k \in 1 .. Len(calls), ServeDelete(k)
    PROVE  ViewOf(calls, table') = Effect(ViewOf(calls, table), calls[k])
<1> DEFINE call == calls[k]
           id == call.id
           V == ViewOf(calls, table)
           old == {table[x] : x \in DOMAIN table \ (News(calls) \cup {id})}
           new == {Renamed(NewRow(w), w.tmp) : w \in Waiting(calls)}
<1>1. /\ call.op = "deleteClip" /\ call.status = "sent"
      /\ table' = [c \in DOMAIN table \ {id} |-> table[c]]
  BY DEF ServeDelete, MayServe
<1>2. k \in DOMAIN calls /\ call \in GoodCalls
  BY LenProperties, ElementOfSeq DEF EditorInv, NetOK
<1>3. Shaped(call) /\ id \notin News(calls)
  BY DEF CallsInv, QueueInv
<1>4. id \in ServerIds
  BY <1>1, <1>2, <1>3, CallTypes
<1>5. {c \in V : c.id # id} = old \cup new
  BY <1>3, <1>4, ViewParts
<1>6. Effect(V, call) = {c \in V : c.id # id}
  BY <1>1 DEF Effect, Replaced
<1>7. {table'[x] : x \in DOMAIN table' \ News(calls)} = old
  <2>1. DOMAIN table' \ News(calls) = DOMAIN table \ (News(calls) \cup {id})
    BY <1>1
  <2>2. \A x \in DOMAIN table \ (News(calls) \cup {id}) : table'[x] = table[x]
    BY <1>1
  <2> QED
    BY <2>1, <2>2
<1> HIDE DEF old, new, V, id, call
<1>8. ViewOf(calls, table') = old \cup new
  BY <1>7 DEF ViewOf, new
<1> QED
  BY <1>5, <1>6, <1>8 DEF V, call

LEMMA AddTakesEffect ==
    ASSUME EditorInv, CallsInv, NEW call \in GoodCalls, Shaped(call), call.op = "addClip",
           call.status = "sent", NEW row \in Clip, row.id \in fresh,
           row = [id |-> row.id, pos |-> call.pos, dur |-> call.dur, inPoint |-> 0],
           table' = Stored(row), NEW w, NewRow(w) = row, w.tmp = call.tmp,
           NEW q, Waiting(q) = Waiting(calls) \cup {w}
    PROVE  ViewOf(q, table') = Effect(ViewOf(calls, table), call)
<1> DEFINE V == ViewOf(calls, table)
           old == {table[x] : x \in DOMAIN table \ News(calls)}
           new == {Renamed(NewRow(v), v.tmp) : v \in Waiting(calls)}
<1>1. row.id \notin DOMAIN table
  BY DEF EditorInv, ServerOK
<1>2. News(q) = News(calls) \cup {row.id}
  BY DEF News
<1>3. /\ DOMAIN table' = DOMAIN table \cup {row.id}
      /\ \A x \in DOMAIN table : table'[x] = table[x]
  BY <1>1 DEF Stored
<1>4. {table'[x] : x \in DOMAIN table' \ News(q)} = old
  <2>1. DOMAIN table' \ News(q) = DOMAIN table \ News(calls)
    BY <1>1, <1>2, <1>3
  <2> QED
    BY <1>3, <2>1
<1>5. {Renamed(NewRow(v), v.tmp) : v \in Waiting(q)} = new \cup {Renamed(row, call.tmp)}
  OBVIOUS
<1>6. Renamed(row, call.tmp) = [id |-> call.tmp, pos |-> call.pos, dur |-> call.dur, inPoint |-> 0]
  BY DEF Renamed
<1>7. Effect(V, call) = V \cup {Renamed(row, call.tmp)}
  BY <1>6 DEF Effect
<1>8. V = old \cup new
  BY DEF ViewOf
<1> HIDE DEF old, new, V
<1>9. ViewOf(q, table') = old \cup (new \cup {Renamed(row, call.tmp)})
  BY <1>4, <1>5 DEF ViewOf
<1> QED
  BY <1>7, <1>8, <1>9 DEF V

LEMMA SplitTakesEffect ==
    ASSUME EditorInv, CallsInv, NEW call \in GoodCalls, Shaped(call), call.op = "splitClip",
           call.status = "sent", call.id \notin News(calls), call.id \in DOMAIN table,
           NEW id \in fresh, NEW left, NEW right,
           left = ShortenedRow(table[call.id], call.at),
           right = InsertedRow(table[call.id], call.at, id),
           table' = [c \in DOMAIN table \cup {id} |->
                        IF c = id THEN right ELSE IF c = call.id THEN left ELSE table[c]],
           NEW w, NewRow(w) = right, w.tmp = call.tmp,
           NEW q, Waiting(q) = Waiting(calls) \cup {w}
    PROVE  ViewOf(q, table') = Effect(ViewOf(calls, table), call)
<1> DEFINE V == ViewOf(calls, table)
           old == {table[x] : x \in DOMAIN table \ (News(calls) \cup {call.id})}
           new == {Renamed(NewRow(v), v.tmp) : v \in Waiting(calls)}
<1>1. id \notin DOMAIN table /\ call.id \in ServerIds /\ right.id = id
  BY CallTypes DEF EditorInv, ServerOK, InsertedRow
<1>2. News(q) = News(calls) \cup {id}
  BY <1>1 DEF News
<1>3. /\ DOMAIN table' = DOMAIN table \cup {id} /\ table'[call.id] = left
      /\ \A x \in DOMAIN table \ {call.id} : table'[x] = table[x]
  BY <1>1
<1>4. {table'[x] : x \in DOMAIN table' \ News(q)} = old \cup {left}
  <2>1. DOMAIN table' \ News(q) = (DOMAIN table \ (News(calls) \cup {call.id})) \cup {call.id}
    BY <1>1, <1>2, <1>3
  <2>2. \A x \in DOMAIN table \ (News(calls) \cup {call.id}) : table'[x] = table[x]
    BY <1>3
  <2> QED
    BY <1>3, <2>1, <2>2
<1>5. {Renamed(NewRow(v), v.tmp) : v \in Waiting(q)} = new \cup {Renamed(right, call.tmp)}
  OBVIOUS
<1>6. Renamed(right, call.tmp) = RightHalf(table[call.id], call.at, call.tmp)
  BY DEF Renamed, InsertedRow, RightHalf
<1>7. left = LeftHalf(table[call.id], call.at)
  BY DEF ShortenedRow, LeftHalf
<1>8. {c \in V : c.id # call.id} = old \cup new /\ Having(V, call.id) = {table[call.id]}
  BY <1>1, ViewParts
<1>9. Effect(V, call) = {c \in V : c.id # call.id}
                        \cup ({LeftHalf(c, call.at) : c \in Having(V, call.id)}
                              \cup {RightHalf(c, call.at, call.tmp) : c \in Having(V, call.id)})
  BY DEF Effect, Replaced
<1>10. Effect(V, call) = (old \cup new) \cup ({left} \cup {Renamed(right, call.tmp)})
  BY <1>6, <1>7, <1>8, <1>9
<1> HIDE DEF old, new, V
<1>11. ViewOf(q, table') = (old \cup {left}) \cup (new \cup {Renamed(right, call.tmp)})
  BY <1>4, <1>5 DEF ViewOf
<1> QED
  BY <1>10, <1>11 DEF V

\* A call less: if the user waits, none is left, or deletions.
LEMMA CalmOver ==
    ASSUME EditorInv, CalmInv, NEW k \in 1 .. Len(calls), calls' = RemoveAt(calls, k),
           faults' = faults
    PROVE  CalmInv'
<1>1. /\ Len(calls) \in Nat /\ Len(calls') = Len(calls) - 1
      /\ \A i \in 1 .. Len(calls) - 1 : calls'[i] = IF i < k THEN calls[i] ELSE calls[i + 1]
  <2>1. calls \in Seq(GoodCalls)
    BY DEF EditorInv, NetOK
  <2>2. Len(calls) \in Nat
    BY <2>1, LenProperties
  <2>3. /\ Len(RemoveAt(calls, k)) = Len(calls) - 1
        /\ \A i \in 1 .. Len(calls) - 1 :
                RemoveAt(calls, k)[i] = IF i < k THEN calls[i] ELSE calls[i + 1]
    <3> HIDE DEF GoodCalls
    <3> QED
      BY <2>1, RemovedCalls
  <2> QED
    BY <2>2, <2>3
<1>2. \A i \in 1 .. Len(calls') : \E j \in 1 .. Len(calls) : calls'[i] = calls[j]
  <2> SUFFICES ASSUME NEW i \in 1 .. Len(calls) - 1
               PROVE  \E j \in 1 .. Len(calls) : calls'[i] = calls[j]
    BY <1>1
  <2>1. CASE i < k
    <3>1. i \in 1 .. Len(calls) /\ calls'[i] = calls[i]
      BY <1>1, <2>1
    <3> QED
      BY <3>1
  <2>2. CASE ~(i < k)
    <3>1. i + 1 \in 1 .. Len(calls) /\ calls'[i] = calls[i + 1]
      BY <1>1, <2>2
    <3> QED
      BY <3>1
  <2> QED
    BY <2>1, <2>2
<1>3. CASE "haste" \in faults
  BY <1>2, <1>3 DEF CalmInv
<1>4. CASE "haste" \notin faults /\ Len(calls) = 1
  BY <1>1, <1>4 DEF CalmInv
<1>5. CASE "haste" \notin faults /\ Len(calls) # 1
  <2>1. \A j \in 1 .. Len(calls) : calls[j].op = "deleteClip"
    BY <1>5 DEF CalmInv
  <2>2. \A i \in 1 .. Len(calls') : calls'[i].op = "deleteClip"
    BY <1>2, <2>1
  <2> QED
    BY <1>5, <2>2 DEF CalmInv
<1> QED
  BY <1>3, <1>4, <1>5

\* A call is marked: what is to be said of it alone.
LEMMA CalmMarked ==
    ASSUME EditorInv, CalmInv, NEW k \in 1 .. Len(calls), NEW w \in GoodCalls,
           calls' = [calls EXCEPT ![k] = w], UNCHANGED <<undo, faults>>,
           w.op = calls[k].op, w.op # "deleteClip",
           "haste" \in faults => w.op # "load" /\ w.status # "failed",
           w.op = "load" => w.loaded = RowsOf(table'),
           (w.op = "splitClip" /\ w.status # "served") => undo # <<>> /\ Head(undo) = RowsOf(table')
    PROVE  CalmInv'
<1>1. /\ Len(calls') = Len(calls) /\ calls'[k] = w /\ Len(calls) \in Nat
      /\ \A i \in 1 .. Len(calls) : i # k => calls'[i] = calls[i]
  <2>1. calls \in Seq(GoodCalls)
    BY DEF EditorInv, NetOK
  <2> HIDE DEF GoodCalls
  <2> QED
    BY <2>1, ExceptSeq, LenProperties
<1>2. CASE "haste" \in faults
  BY <1>1, <1>2 DEF CalmInv
<1>3. CASE "haste" \notin faults
  <2>1. Len(calls) = 1
    BY <1>3 DEF CalmInv
  <2>2. k = 1 /\ Len(calls') = 1
    <3>1. Len(calls') = 1
      BY <1>1, <2>1
    <3>2. k \in 1 .. 1
      BY <2>1
    <3> QED
      BY <3>1, <3>2
  <2>3. \A i \in 1 .. Len(calls') : calls'[i] = w
    <3>1. \A i \in 1 .. 1 : i = 1
      OBVIOUS
    <3> QED
      BY <1>1, <2>2, <3>1
  <2> QED
    BY <1>1, <1>3, <2>1, <2>3 DEF CalmInv
<1> QED
  BY <1>2, <1>3

LEMMA ServeUpdateSync ==
    ASSUME EditorInv, InStep, SyncInv, NEW k \in DOMAIN calls, ServeUpdate(k)
    PROVE  SyncInv'
<1> DEFINE call == calls[k]
           row == Updated(table[call.id], call)
<1>1. /\ MayServe(k) /\ call.op = "updateClip" /\ calls' = RemoveAt(calls, k)
      /\ UNCHANGED <<clips, undo, drag, inbox, fresh, faults>>
      /\ table' = IF call.id \in DOMAIN table THEN Stored(row) ELSE table
  BY DEF ServeUpdate, Over, tabVars
<1>2. k \in 1 .. Len(calls) /\ inbox = <<>> /\ call \in GoodCalls
  BY <1>1, InOrder, CallInFlight DEF EditorInv
<1>3. PICK h : Serving(k, h) /\ h[k] = Effect(ViewOf(calls, table), calls[k])
  BY <1>1, InOrder
<1>4. h[k] = ViewOf(calls, table')
  BY <1>2, <1>3, UpdateTakesEffect DEF SyncInv
<1>5. Shaped(call) /\ call.id \notin News(calls)
  BY <1>2 DEF SyncInv, CallsInv, QueueInv
<1>6. \A x \in DOMAIN table : x \in DOMAIN table' /\ (x # call.id => table'[x] = table[x])
                             /\ (x = call.id => table'[x] = row)
  <2>1. call.id \in DOMAIN table => row.id = call.id
    BY DEF Updated, EditorInv, ServerOK
  <2> QED
    BY <1>1, <2>1 DEF Stored
<1>7. \A x \in News(calls) : x \in DOMAIN table' /\ table'[x] = table[x]
  BY <1>5, <1>6, NewsTypes DEF SyncInv
<1>8. CallsInv' /\ News(calls') = News(calls)
  <2>1. CallsInv /\ calls[k].op \in {"updateClip", "deleteClip"}
    BY <1>1 DEF SyncInv
  <2> QED
    BY <1>1, <1>2, <1>3, <1>4, <1>7, <2>1, ServedAndOver
<1>9. CalmInv'
  BY <1>1, <1>2, CalmOver DEF SyncInv
<1>10. LongInv'
  <2>1. DOMAIN table' = DOMAIN table
    <3>1. call.id \in DOMAIN table => row.id = call.id
      BY DEF Updated, EditorInv, ServerOK
    <3> QED
      BY <1>1, <3>1 DEF Stored
  <2>2. call.id \in DOMAIN table => row.dur >= MinDur
    BY <1>1, <1>2, <1>5, UpdatedClip DEF EditorInv, ServerOK
  <2> QED
    BY <1>6, <2>1, <2>2 DEF SyncInv, LongInv
<1>11. DragInv' /\ InboxInv'
  BY <1>1, <1>2, <1>8 DEF SyncInv, DragInv, InboxInv
<1> QED
  BY <1>8, <1>9, <1>10, <1>11 DEF SyncInv

LEMMA ServeDeleteSync ==
    ASSUME EditorInv, InStep, SyncInv, NEW k \in DOMAIN calls, ServeDelete(k)
    PROVE  SyncInv'
<1> DEFINE call == calls[k]
<1>1. /\ MayServe(k) /\ call.op = "deleteClip" /\ calls' = RemoveAt(calls, k)
      /\ UNCHANGED <<clips, undo, drag, inbox, fresh, faults>>
      /\ table' = [c \in DOMAIN table \ {call.id} |-> table[c]]
  BY DEF ServeDelete, Over, tabVars
<1>2. k \in 1 .. Len(calls) /\ inbox = <<>> /\ call \in GoodCalls
  BY <1>1, InOrder, CallInFlight DEF EditorInv
<1>3. PICK h : Serving(k, h) /\ h[k] = Effect(ViewOf(calls, table), calls[k])
  BY <1>1, InOrder
<1>4. h[k] = ViewOf(calls, table')
  BY <1>2, <1>3, DeleteTakesEffect DEF SyncInv
<1>5. call.id \notin News(calls)
  BY <1>2 DEF SyncInv, CallsInv, QueueInv
<1>7. \A x \in News(calls) : x \in DOMAIN table' /\ table'[x] = table[x]
  BY <1>1, <1>5, NewsTypes DEF SyncInv
<1>8. CallsInv' /\ News(calls') = News(calls)
  <2>1. CallsInv /\ calls[k].op \in {"updateClip", "deleteClip"}
    BY <1>1 DEF SyncInv
  <2> QED
    BY <1>1, <1>2, <1>3, <1>4, <1>7, <2>1, ServedAndOver
<1>9. CalmInv'
  BY <1>1, <1>2, CalmOver DEF SyncInv
<1>10. LongInv'
  BY <1>1 DEF SyncInv, LongInv
<1>11. DragInv' /\ InboxInv'
  BY <1>1, <1>2, <1>8 DEF SyncInv, DragInv, InboxInv
<1> QED
  BY <1>8, <1>9, <1>10, <1>11 DEF SyncInv

LEMMA ServeAddSync ==
    ASSUME EditorInv, InStep, SyncInv, NEW k \in DOMAIN calls, ServeAdd(k)
    PROVE  SyncInv'
<1> DEFINE call == calls[k]
           rowOf(id) == [id |-> id, pos |-> call.pos, dur |-> call.dur, inPoint |-> 0]
<1>1. /\ MayServe(k) /\ call.op = "addClip"
      /\ UNCHANGED <<clips, undo, drag, inbox, faults>>
  BY DEF ServeAdd, tabVars
<1>2. PICK id \in fresh \cap ServerIds :
        table' = Stored(rowOf(id)) /\ fresh' = fresh \ {id} /\ Answered(k, <<rowOf(id)>>)
  BY DEF ServeAdd
<1>3. k \in 1 .. Len(calls) /\ inbox = <<>> /\ call \in GoodCalls
  BY <1>1, InOrder, CallInFlight DEF EditorInv
<1>4. /\ Shaped(call) /\ call.id \notin News(calls) /\ call.status = "sent" /\ call.tmp \in TmpIds
      /\ call.pos \in Nat /\ call.dur \in Nat /\ call.dur >= MinDur
  <2>1. Shaped(call) /\ call.id \notin News(calls) /\ call.status = "sent"
    BY <1>1, <1>3 DEF SyncInv, CallsInv, QueueInv, MayServe
  <2> QED
    BY <1>1, <1>3, <2>1, CallTypes
<1>5. PICK row : row = rowOf(id)
  OBVIOUS
<1>6. row \in Clip /\ row.id = id /\ row.dur >= MinDur
      /\ row = [id |-> row.id, pos |-> call.pos, dur |-> call.dur, inPoint |-> 0]
  BY <1>4, <1>5 DEF Clip, Ids
<1>7. PICK w : w = Marked(call, "served", <<row>>, {})
  OBVIOUS
<1>8. /\ w.op = "addClip" /\ w.status = "served" /\ w.tmp = call.tmp /\ w.id = call.id
      /\ w.dur = call.dur /\ w.answer = <<row>> /\ NewRow(w) = row
  BY <1>1, <1>7 DEF Marked, NewRow
<1>9. w \in GoodCalls
  <2>1. <<row>> \in Seq(Clip) /\ Len(<<row>>) = 1
    BY <1>6
  <2> QED
    BY <1>3, <1>7, <2>1, MarkedOK
<1>10. Waits(w) /\ Shaped(w)
  BY <1>1, <1>4, <1>8 DEF Waits, Shaped
<1>11. table' = Stored(row) /\ calls' = [calls EXCEPT ![k] = w]
  BY <1>2, <1>5, <1>7 DEF Answered
<1> HIDE DEF call, rowOf
<1>12. /\ DOMAIN table' = DOMAIN table \cup {id} /\ table'[id] = row
       /\ \A x \in DOMAIN table : x # id /\ table'[x] = table[x]
  BY <1>2, <1>6, <1>11 DEF Stored, EditorInv, ServerOK
<1>13. Answers(w, table')
  BY <1>6, <1>8, <1>12 DEF Answers
<1>14. PICK h : Serving(k, h) /\ h[k] = Effect(ViewOf(calls, table), calls[k])
  BY <1>1, InOrder
<1>15. CallsInv' /\ News(calls') = News(calls) \cup {id}
  <2>1. CallsInv /\ row.id \in fresh /\ fresh' = fresh \ {NewRow(w).id} /\ NewRow(w).id \in fresh
    BY <1>2, <1>6, <1>8 DEF SyncInv
  <2>2. \A q : Waiting(q) = Waiting(calls) \cup {w} => h[k] = ViewOf(q, table')
    <3> SUFFICES ASSUME NEW q, Waiting(q) = Waiting(calls) \cup {w}
                 PROVE  ViewOf(q, table') = Effect(ViewOf(calls, table), calls[k])
      BY <1>14
    <3> QED
      BY <1>1, <1>3, <1>4, <1>6, <1>8, <1>11, <2>1, AddTakesEffect DEF call
  <2>3. \A x \in News(calls) : x \in DOMAIN table' /\ table'[x] = table[x]
    BY <1>12, <2>1, NewsTypes
  <2>4. w.tmp = calls[k].tmp /\ w.id = calls[k].id /\ calls[k].tmp # None
    BY <1>4, <1>8, IdsApart DEF call, Ids
  <2>5. CallsInv' /\ News(calls') = News(calls) \cup {NewRow(w).id}
    BY <1>1, <1>3, <1>8, <1>9, <1>10, <1>11, <1>13, <1>14, <2>1, <2>2, <2>3, <2>4, ServedAndAnswered
  <2> QED
    BY <2>5, <1>6, <1>8
<1>16. CalmInv'
  BY <1>1, <1>3, <1>8, <1>9, <1>11, CalmMarked DEF SyncInv, call
<1>17. LongInv'
  BY <1>6, <1>12 DEF SyncInv, LongInv
<1>18. DragInv'
  <2>1. fresh' \cup News(calls') = fresh \cup News(calls)
    BY <1>2, <1>15
  <2> QED
    BY <1>1, <2>1 DEF SyncInv, DragInv
<1>19. InboxInv'
  BY <1>1, <1>3 DEF InboxInv
<1> QED
  BY <1>15, <1>16, <1>17, <1>18, <1>19 DEF SyncInv

\* The server finds the clip that the tab has split as long as the tab took it to be.
LEMMA ServeSplitSync ==
    ASSUME EditorInv, InStep, SyncInv, NEW k \in DOMAIN calls, ServeSplit(k)
    PROVE  SyncInv'
<1> DEFINE call == calls[k]
           old == table[call.id]
           leftHalf == ShortenedRow(old, call.at)
           rightOf(id) == InsertedRow(old, call.at, id)
<1>1. /\ MayServe(k) /\ call.op = "splitClip"
      /\ UNCHANGED <<clips, undo, drag, inbox, faults>>
  BY DEF ServeSplit, tabVars
<1>2. k \in 1 .. Len(calls) /\ inbox = <<>> /\ call \in GoodCalls
  BY <1>1, InOrder, CallInFlight DEF EditorInv
<1>3. /\ Shaped(call) /\ call.id \notin News(calls) /\ call.status = "sent" /\ call.tmp \in TmpIds
      /\ call.id \in ServerIds /\ call.at \in Nat
  <2>1. Shaped(call) /\ call.id \notin News(calls) /\ call.status = "sent"
    BY <1>1, <1>2 DEF SyncInv, CallsInv, QueueInv, MayServe
  <2> QED
    BY <1>1, <1>2, <2>1, CallTypes
<1>4. PICK h : Serving(k, h) /\ h[k - 1] = ViewOf(calls, table)
  BY <1>1, InOrder
<1>5. h[k] = Effect(ViewOf(calls, table), call)
  BY <1>4, <1>2 DEF Serving, Chain
<1>6. Cuts(ViewOf(calls, table), call)
  BY <1>1, <1>2, <1>3, <1>4 DEF Serving, Chain
<1>7. /\ call.id \in DOMAIN table
      /\ call.pos = old.pos + call.at /\ call.at >= MinDur /\ call.at <= old.dur - MinDur
  <2>1. PICK c \in Having(ViewOf(calls, table), call.id) :
          call.pos = c.pos + call.at /\ call.at >= MinDur /\ call.at <= c.dur - MinDur
    BY <1>6 DEF Cuts, Having
  <2>2. Having(ViewOf(calls, table), call.id)
            = IF call.id \in DOMAIN table THEN {old} ELSE {}
    BY <1>3, ViewParts DEF SyncInv
  <2> QED
    BY <2>1, <2>2
<1>8. PICK id \in fresh \cap ServerIds :
            /\ table' = [c \in DOMAIN table \cup {id} |->
                            IF c = id THEN rightOf(id)
                            ELSE IF c = call.id THEN leftHalf ELSE table[c]]
            /\ fresh' = fresh \ {id}
            /\ Answered(k, <<leftHalf, rightOf(id)>>)
  BY <1>7 DEF ServeSplit
<1>9. old \in Clip /\ old.id = call.id
  BY <1>7 DEF EditorInv, ServerOK
<1>10. PICK left, right : left = leftHalf /\ right = rightOf(id)
  OBVIOUS
<1>11. /\ left = [id |-> call.id, pos |-> old.pos, dur |-> call.at, inPoint |-> old.inPoint]
       /\ right = [id |-> id, pos |-> old.pos + call.at, dur |-> old.dur - call.at,
                   inPoint |-> old.inPoint + call.at]
  BY <1>9, <1>10 DEF ShortenedRow, InsertedRow, Clip
<1>12. /\ left \in Clip /\ left.dur >= MinDur /\ left.pos = old.pos
       /\ right \in Clip /\ right.id = id /\ right.dur >= MinDur /\ right.pos = old.pos + call.at
       /\ old.pos \in Nat
  <2>1. old.dur \in Nat /\ old.pos \in Nat /\ old.inPoint \in Nat /\ call.id \in Ids /\ id \in Ids
    BY <1>3, <1>9 DEF Clip, Ids
  <2>2. /\ old.dur - call.at \in Nat /\ old.pos + call.at \in Nat /\ old.inPoint + call.at \in Nat
        /\ old.dur - call.at >= MinDur
    BY <1>3, <1>7, <2>1, MinDurPositive
  <2> QED
    BY <1>3, <1>7, <1>11, <2>1, <2>2 DEF Clip
<1>13. PICK w : w = Marked(call, "served", <<left, right>>, {})
  OBVIOUS
<1>14. /\ w.op = "splitClip" /\ w.status = "served" /\ w.tmp = call.tmp /\ w.id = call.id
       /\ w.pos = call.pos /\ w.answer = <<left, right>> /\ NewRow(w) = right
  BY <1>1, <1>13 DEF Marked, NewRow
<1>15. w \in GoodCalls
  <2>1. <<left, right>> \in Seq(Clip)
    BY <1>12
  <2> QED
    BY <1>1, <1>2, <1>13, <2>1, MarkedOK
<1>16. Waits(w) /\ Shaped(w)
  BY <1>1, <1>3, <1>14 DEF Waits, Shaped
<1>c. calls' = [calls EXCEPT ![k] = w]
  BY <1>8, <1>10, <1>13 DEF Answered
<1>17. table' = [c \in DOMAIN table \cup {id} |->
                    IF c = id THEN right ELSE IF c = call.id THEN left ELSE table[c]]
  BY <1>8, <1>10
<1>18. left = ShortenedRow(table[call.id], call.at) /\ right = InsertedRow(table[call.id], call.at, id)
  BY <1>10
<1> HIDE DEF call, old, leftHalf, rightOf
<1>19. /\ DOMAIN table' = DOMAIN table \cup {id} /\ table'[id] = right
       /\ \A x \in DOMAIN table : x # id /\ table'[x] = IF x = call.id THEN left ELSE table[x]
  BY <1>8, <1>17 DEF EditorInv, ServerOK
<1>20. Answers(w, table')
  <2>1. Len(w.answer) = 2 /\ w.answer[1] = left /\ w.answer[2] = right
    BY <1>14
  <2>2. left.pos < w.pos /\ right.pos >= w.pos
    BY <1>3, <1>7, <1>12, <1>14, MinDurPositive
  <2> QED
    BY <1>12, <1>14, <1>19, <2>1, <2>2 DEF Answers
<1>21. CallsInv' /\ News(calls') = News(calls) \cup {id}
  <2>1. CallsInv /\ fresh' = fresh \ {NewRow(w).id} /\ NewRow(w).id \in fresh /\ id \in fresh
    BY <1>8, <1>12, <1>14 DEF SyncInv
  <2>2. \A q : Waiting(q) = Waiting(calls) \cup {w} => h[k] = ViewOf(q, table')
    <3> SUFFICES ASSUME NEW q, Waiting(q) = Waiting(calls) \cup {w}
                 PROVE  ViewOf(q, table') = Effect(ViewOf(calls, table), call)
      BY <1>5
    <3>1. /\ call.op = "splitClip" /\ call.status = "sent" /\ Shaped(call) /\ call \in GoodCalls
          /\ call.id \notin News(calls) /\ call.id \in DOMAIN table
          /\ NewRow(w) = right /\ w.tmp = call.tmp /\ CallsInv /\ id \in fresh
      BY <1>1, <1>2, <1>3, <1>7, <1>14, <2>1
    <3> QED
      BY ONLY <3>1, <1>17, <1>18, EditorInv, Waiting(q) = Waiting(calls) \cup {w},
              SplitTakesEffect
  <2>3. \A x \in News(calls) : x \in DOMAIN table' /\ table'[x] = table[x]
    BY <1>3, <1>19, <2>1, NewsTypes
  <2>4. w.tmp = calls[k].tmp /\ w.id = calls[k].id /\ calls[k].tmp # None
    BY <1>3, <1>14, IdsApart DEF call, Ids
  <2>5. CallsInv' /\ News(calls') = News(calls) \cup {NewRow(w).id}
    BY <1>1, <1>2, <1>4, <1>14, <1>15, <1>16, <1>c, <1>20, <2>1, <2>2, <2>3, <2>4,
       ServedAndAnswered
  <2> QED
    BY <2>5, <1>12, <1>14
<1>22. CalmInv'
  BY <1>1, <1>2, <1>14, <1>15, <1>c, CalmMarked DEF SyncInv, call
<1>23. LongInv'
  BY <1>12, <1>19 DEF SyncInv, LongInv
<1>24. DragInv'
  <2>1. fresh' \cup News(calls') = fresh \cup News(calls)
    BY <1>8, <1>21
  <2> QED
    BY <1>1, <2>1 DEF SyncInv, DragInv
<1>25. InboxInv'
  BY <1>1, <1>2 DEF InboxInv
<1> QED
  BY <1>21, <1>22, <1>23, <1>24, <1>25 DEF SyncInv

\* The only call there is gets a mark that changes nothing of what it will do.
LEMMA MarkedInPlace ==
    ASSUME EditorInv, CallsInv, inbox = <<>>, Len(calls) = 1, NEW w \in GoodCalls, Shaped(w),
           calls' = [calls EXCEPT ![1] = w], UNCHANGED <<clips, table, fresh>>,
           ~Waits(calls[1]), ~Waits(w),
           w.op = calls[1].op, w.tmp = calls[1].tmp, w.id = calls[1].id,
           w.pos = calls[1].pos, w.at = calls[1].at,
           w.op = "load" \/ (w.op = "splitClip" /\ w.status = "failed"), calls[1].status # "served"
    PROVE  CallsInv' /\ News(calls') = News(calls)
<1>1. /\ Len(calls') = 1 /\ calls'[1] = w /\ calls' \in Seq(GoodCalls) /\ calls \in Seq(GoodCalls)
  <2>1. calls \in Seq(GoodCalls) /\ 1 \in 1 .. Len(calls)
    BY DEF EditorInv, NetOK
  <2> HIDE DEF GoodCalls
  <2>2. ASSUME NEW k \in 1 .. Len(calls)
        PROVE  /\ [calls EXCEPT ![k] = w] \in Seq(GoodCalls)
               /\ Len([calls EXCEPT ![k] = w]) = Len(calls)
               /\ [calls EXCEPT ![k] = w][k] = w
    BY ONLY <2>1, w \in GoodCalls, k \in 1 .. Len(calls), ExceptSeq
  <2> QED
    BY <2>1, <2>2
<1>2. DOMAIN calls = 1 .. 1 /\ DOMAIN calls' = 1 .. 1 /\ \A i \in 1 .. 1 : i = 1
  BY <1>1, LenProperties
<1>3. Waiting(calls) = {} /\ Waiting(calls') = {}
  BY <1>1, <1>2 DEF Waiting
<1>4. News(calls') = News(calls) /\ ViewOf(calls', table') = ViewOf(calls, table)
  BY <1>3, SameWaiting
<1>5. PICK h \in Chains : Chain(h)
  BY DEF CallsInv
<1>h. /\ h \in [0 .. 1 -> SUBSET Clip] /\ h[0] = ViewOf(calls, table) /\ h[1] = clips
      /\ h[1] = Effect(h[0], calls[1])
      /\ calls[1].op = "splitClip" => Cuts(h[0], calls[1])
      /\ \A i \in 0 .. 1 : Proper(h[i], fresh \cup News(calls))
  <2>1. 1 \in 1 .. 1 /\ 1 - 1 = 0
    OBVIOUS
  <2>2. /\ h[1] = Effect(h[1 - 1], calls[1])
        /\ calls[1].op = "splitClip" => Cuts(h[1 - 1], calls[1])
    BY <1>5, <2>1 DEF Chain
  <2> QED
    BY <1>5, <2>1, <2>2 DEF Chain, Chains
<1>6. Effect(h[0], w) = Effect(h[0], calls[1]) /\ (w.op = "load" => h[1] = h[0])
  <2>1. CASE w.op = "load"
    BY <1>h, <2>1 DEF Effect
  <2>2. CASE w.op = "splitClip" /\ w.status = "failed"
    BY <2>2 DEF Effect, Replaced
  <2> QED
    BY <2>1, <2>2
<1>7. w.op = "splitClip" => Cuts(h[0], w)
  BY <1>h DEF Cuts
<1>8. h \in Chains' /\ Chain(h)'
  <2>1. \A i \in 1 .. 1 :
         /\ h[i] = Effect(h[i - 1], calls'[i])
         /\ calls'[i].status = "served" => h[i] = h[0]
         /\ (calls'[i].op = "splitClip" /\ calls'[i].status # "served") => Cuts(h[i - 1], calls'[i])
    <3> TAKE i \in 1 .. 1
    <3>1. i = 1 /\ i - 1 = 0
      OBVIOUS
    <3> QED
      BY <3>1, <1>1, <1>h, <1>6, <1>7
  <2>2. \A i \in 1 .. 1 : \A j \in i .. 1 :
          calls'[i].tmp # None => Having(h[j], calls'[i].tmp) = Having(h[i], calls'[i].tmp)
    <3>1. \A i \in 1 .. 1 : \A j \in i .. 1 : i = j
      OBVIOUS
    <3> QED
      BY <3>1
  <2>3. h[0] = ViewOf(calls', table') /\ h[1] = clips'
    BY <1>4, <1>h
  <2>4. \A i \in 0 .. 1 : Proper(h[i], fresh' \cup News(calls'))
    BY <1>4, <1>h
  <2> QED
    BY <1>1, <1>h, <2>1, <2>2, <2>3, <2>4 DEF Chain, Chains
<1>9. QueueInv'
  <2>1. 1 \in 1 .. Len(calls)
    OBVIOUS
  <2>2. calls[1].tmp \notin fresh /\ calls[1].id \notin fresh \cup News(calls)
    BY <2>1 DEF CallsInv, QueueInv
  <2>3. \A i \in 1 .. 1 :
         /\ Shaped(calls'[i])
         /\ calls'[i].tmp \notin fresh' /\ calls'[i].id \notin fresh' \cup News(calls')
         /\ Waits(calls'[i]) => Answers(calls'[i], table')
    BY <1>1, <1>2, <1>4, <2>2
  <2>4. \A j, i \in 1 .. 1 : ~(j < i)
    OBVIOUS
  <2> QED
    BY <1>1, <2>3, <2>4 DEF QueueInv
<1>10. Pending'
  BY <1>1, <1>2 DEF CallsInv, Pending
<1> QED
  BY <1>4, <1>8, <1>9, <1>10 DEF CallsInv

\* A call of a user who waits, unless it is a deletion, is the only one.
LEMMA OnlyCall ==
    ASSUME EditorInv, InStep, SyncInv, NEW k \in DOMAIN calls, calls[k].op # "deleteClip",
           \/ {"refused", "remote", "reload"} \cap faults # {}
           \/ calls[k].op = "load" \/ calls[k].status = "failed"
    PROVE  /\ k = 1 /\ Len(calls) = 1 /\ inbox = <<>> /\ "haste" \notin faults
           /\ calls[1] \in GoodCalls /\ Shaped(calls[1])
<1>1. k \in 1 .. Len(calls) /\ calls \in Seq(GoodCalls) /\ calls[k] \in GoodCalls
  BY CallInFlight DEF EditorInv, NetOK
<1>2. "haste" \notin faults
  BY <1>1, InStepFaults DEF SyncInv, CalmInv
<1>3. Len(calls) = 1
  BY <1>1, <1>2 DEF SyncInv, CalmInv
<1>4. k = 1
  <2>1. k \in 1 .. 1
    BY <1>1, <1>3
  <2> QED
    BY <2>1
<1>5. inbox = <<>>
  <2>1. calls # <<>>
    BY <1>1, <1>3, EmptySeq
  <2> QED
    BY <2>1 DEF SyncInv, InboxInv
<1>6. Shaped(calls[1])
  BY <1>1, <1>4 DEF SyncInv, CallsInv, QueueInv
<1> QED
  BY <1>1, <1>2, <1>3, <1>4, <1>5, <1>6

LEMMA ServeProjectSync ==
    ASSUME EditorInv, InStep, SyncInv, NEW k \in DOMAIN calls, ServeProject(k)
    PROVE  SyncInv'
<1>1. /\ calls[k].op = "load" /\ calls[k].status = "sent"
      /\ calls' = [calls EXCEPT ![k] = Marked(calls[k], "served", <<>>, RowsOf(table))]
      /\ UNCHANGED <<clips, undo, drag, inbox, table, fresh, faults>>
  BY DEF ServeProject, MayServe, tabVars, serverVars
<1>2. /\ k = 1 /\ Len(calls) = 1 /\ inbox = <<>> /\ "haste" \notin faults
      /\ calls[1] \in GoodCalls /\ Shaped(calls[1])
  BY <1>1, OnlyCall
<1>3. PICK w : w = Marked(calls[1], "served", <<>>, RowsOf(table))
  OBVIOUS
<1>4. /\ w.op = "load" /\ w.tmp = calls[1].tmp /\ w.id = calls[1].id /\ w.pos = calls[1].pos
      /\ w.at = calls[1].at /\ w.loaded = RowsOf(table) /\ w.status = "served"
  BY <1>1, <1>2, <1>3 DEF Marked
<1>5. w \in GoodCalls
  <2>1. RowsOf(table) \in SUBSET Clip
    BY DEF RowsOf, EditorInv, ServerOK
  <2> QED
    BY <1>1, <1>2, <1>3, <2>1, MarkedOK, EmptySeq
<1>6. Shaped(w) /\ ~Waits(w) /\ ~Waits(calls[1])
  BY <1>1, <1>2, <1>4 DEF Shaped, Waits
<1>7. calls' = [calls EXCEPT ![1] = w] /\ calls[1].op = "load" /\ calls[1].status = "sent"
  BY <1>1, <1>2, <1>3
<1>8. CallsInv' /\ News(calls') = News(calls)
  BY <1>1, <1>2, <1>4, <1>5, <1>6, <1>7, MarkedInPlace DEF SyncInv
<1>9. CalmInv'
  <2>1. RowsOf(table') = RowsOf(table) /\ 1 \in 1 .. Len(calls)
    BY <1>1, <1>2
  <2> QED
    BY <1>1, <1>2, <1>4, <1>5, <1>7, <2>1, CalmMarked DEF SyncInv
<1>10. DragInv' /\ LongInv' /\ InboxInv'
  BY <1>1, <1>2, <1>8 DEF SyncInv, DragInv, LongInv, InboxInv
<1> QED
  BY <1>8, <1>9, <1>10 DEF SyncInv

LEMMA RefuseSync ==
    ASSUME EditorInv, InStep, SyncInv, NEW k \in DOMAIN calls, Refuse(k)
    PROVE  SyncInv'
<1>1. /\ calls[k].op = "splitClip" /\ calls[k].status = "sent" /\ "refused" \in faults
      /\ calls' = [calls EXCEPT ![k] = Marked(calls[k], "failed", <<>>, {})]
      /\ UNCHANGED <<clips, undo, drag, inbox, table, fresh, faults>>
  BY DEF Refuse, Failed, tabVars, serverVars
<1>2. /\ k = 1 /\ Len(calls) = 1 /\ inbox = <<>> /\ "haste" \notin faults
      /\ calls[1] \in GoodCalls /\ Shaped(calls[1])
  BY <1>1, OnlyCall
<1>3. PICK w : w = Marked(calls[1], "failed", <<>>, {})
  OBVIOUS
<1>4. /\ w.op = "splitClip" /\ w.tmp = calls[1].tmp /\ w.id = calls[1].id /\ w.pos = calls[1].pos
      /\ w.at = calls[1].at /\ w.status = "failed"
  BY <1>1, <1>2, <1>3 DEF Marked
<1>5. w \in GoodCalls
  BY <1>1, <1>2, <1>3, MarkedOK, EmptySeq
<1>6. Shaped(w) /\ ~Waits(w) /\ ~Waits(calls[1])
  BY <1>1, <1>2, <1>4 DEF Shaped, Waits
<1>7. calls' = [calls EXCEPT ![1] = w] /\ calls[1].op = "splitClip" /\ calls[1].status = "sent"
  BY <1>1, <1>2, <1>3
<1>8. CallsInv' /\ News(calls') = News(calls)
  BY <1>1, <1>2, <1>4, <1>5, <1>6, <1>7, MarkedInPlace DEF SyncInv
<1>9. CalmInv'
  <2>1. RowsOf(table') = RowsOf(table) /\ 1 \in 1 .. Len(calls)
    BY <1>1, <1>2
  <2>2. undo # <<>> /\ Head(undo) = RowsOf(table)
    BY <1>2, <1>7, <2>1 DEF SyncInv, CalmInv
  <2> QED
    BY <1>1, <1>2, <1>4, <1>5, <1>7, <2>1, <2>2, CalmMarked DEF SyncInv
<1>10. DragInv' /\ LongInv' /\ InboxInv'
  BY <1>1, <1>2, <1>8 DEF SyncInv, DragInv, LongInv, InboxInv
<1> QED
  BY <1>8, <1>9, <1>10 DEF SyncInv

LEMMA ServerSync ==
    ASSUME EditorInv, InStep, SyncInv, NEW k \in DOMAIN calls,
           ServerServes(k) \/ Refuse(k) \/ Drop(k) \/ LoseAnswer(k)
    PROVE  SyncInv'
<1>1. CASE Drop(k) \/ LoseAnswer(k)
  BY <1>1, InStepFaults DEF Drop, LoseAnswer
<1> QED
  BY <1>1, ServeAddSync, ServeUpdateSync, ServeDeleteSync, ServeSplitSync, ServeProjectSync,
     RefuseSync DEF ServerServes

(***************************************************************************)
(* Agreement: the tab hears the answer to an insertion, and what was under *)
(* the temporary id is under the server's.                                 *)
(***************************************************************************)
Rename(c, tmp, new) == IF c.id = tmp THEN Renamed(c, new) ELSE c
RenameIn(s, tmp, new) == {Rename(c, tmp, new) : c \in s}

LEMMA RenamedClip ==
    ASSUME NEW c \in Clip, NEW tmp \in TmpIds, NEW new \in ServerIds
    PROVE  /\ Rename(c, tmp, new) \in Clip /\ Rename(c, tmp, new).dur = c.dur
           /\ c.id # tmp => Rename(c, tmp, new) = c
           /\ c.id = tmp => Rename(c, tmp, new).id = new
<1>1. c.id \in Ids /\ c.pos \in Nat /\ c.dur \in Nat /\ c.inPoint \in Nat /\ new \in Ids
  BY DEF Clip, Ids
<1>2. Renamed(c, new) \in Clip /\ Renamed(c, new).dur = c.dur /\ Renamed(c, new).id = new
  BY <1>1 DEF Renamed, Clip
<1> QED
  BY <1>2 DEF Rename

\* The clips under another id are as before.
LEMMA RenamedOthers ==
    ASSUME NEW s \in SUBSET Clip, NEW tmp \in TmpIds, NEW new \in ServerIds,
           NEW id, id # tmp, id # new
    PROVE  /\ Having(RenameIn(s, tmp, new), id) = Having(s, id)
           /\ {c \in RenameIn(s, tmp, new) : c.id # id}
                  = RenameIn({c \in s : c.id # id}, tmp, new)
<1>1. \A c \in s : Rename(c, tmp, new).id = id <=> c.id = id
  BY RenamedClip
<1>2. \A c \in s : c.id = id => Rename(c, tmp, new) = c
  BY RenamedClip
<1>3. Having(RenameIn(s, tmp, new), id) = Having(s, id)
  BY <1>1, <1>2 DEF Having, RenameIn
<1>4. {c \in RenameIn(s, tmp, new) : c.id # id} = RenameIn({c \in s : c.id # id}, tmp, new)
  BY <1>1 DEF RenameIn
<1> QED
  BY <1>3, <1>4

LEMMA RenamedHaving ==
    ASSUME NEW s \in SUBSET Clip, NEW tmp \in TmpIds, NEW new \in ServerIds,
           NEW id, id # tmp, id # new
    PROVE  Having(RenameIn(s, tmp, new), id) = Having(s, id)
BY RenamedOthers

\* A set without clips under the temporary id stays.
LEMMA RenamedNone ==
    ASSUME NEW s, NEW tmp, NEW new, \A c \in s : c.id # tmp
    PROVE  RenameIn(s, tmp, new) = s
BY DEF RenameIn, Rename

LEMMA RenamedUnion ==
    ASSUME NEW s, NEW t, NEW tmp, NEW new
    PROVE  RenameIn(s \cup t, tmp, new) = RenameIn(s, tmp, new) \cup RenameIn(t, tmp, new)
BY DEF RenameIn

LEMMA RenamedProper ==
    ASSUME NEW s \in SUBSET Clip, NEW tmp \in TmpIds, NEW new \in ServerIds,
           NEW X, NEW Y, Proper(s, X), new \in X, Y \subseteq X, new \notin Y
    PROVE  RenameIn(s, tmp, new) \in SUBSET Clip /\ Proper(RenameIn(s, tmp, new), Y)
<1>1. \A c \in s : c \in Clip /\ c.id # new /\ c.id \notin Y /\ c.dur >= MinDur
  BY DEF Proper
<1>2. \A c \in s : /\ Rename(c, tmp, new) \in Clip /\ Rename(c, tmp, new).dur = c.dur
                   /\ c.id # tmp => Rename(c, tmp, new) = c
                   /\ c.id = tmp => Rename(c, tmp, new).id = new
  BY RenamedClip
<1>3. ASSUME NEW c \in s, NEW d \in s, Rename(c, tmp, new).id = Rename(d, tmp, new).id
      PROVE  Rename(c, tmp, new) = Rename(d, tmp, new)
  <2>1. c.id = d.id
    BY <1>1, <1>2, <1>3
  <2>2. c = d
    BY <2>1 DEF Proper
  <2> QED
    BY <2>2
<1>4. \A c \in s : Rename(c, tmp, new).id \notin Y /\ Rename(c, tmp, new).dur >= MinDur
  BY <1>1, <1>2
<1>5. \A x, y \in RenameIn(s, tmp, new) : x.id = y.id => x = y
  BY <1>3 DEF RenameIn
<1>6. \A x \in RenameIn(s, tmp, new) : x.dur >= MinDur /\ x.id \notin Y /\ x \in Clip
  BY <1>2, <1>4 DEF RenameIn
<1> QED
  BY <1>5, <1>6 DEF Proper

\* A call under other names does to the renamed clips what it does to the clips.
LEMMA EffectRenamed ==
    ASSUME NEW s \in SUBSET Clip, NEW tmp \in TmpIds, NEW new \in ServerIds,
           NEW call \in GoodCalls, Shaped(call), call.tmp # tmp, call.id # new
    PROVE  /\ RenameIn(Effect(s, call), tmp, new) = Effect(RenameIn(s, tmp, new), call)
           /\ (call.op = "splitClip" /\ Cuts(s, call)) => Cuts(RenameIn(s, tmp, new), call)
<1> DEFINE R(x) == RenameIn(x, tmp, new)
           rest == {c \in s : c.id # call.id}
           own == Having(s, call.id)
<1>1. call.id # tmp
  <2>1. call.id \in ServerIds \cup {None}
    BY CallTypes
  <2> QED
    BY <2>1, IdsApart DEF Ids
<1>2. Having(R(s), call.id) = own /\ {c \in R(s) : c.id # call.id} = R(rest)
  BY <1>1, RenamedOthers
<1>3. \A c \in own : c.id = call.id
  BY DEF Having
<1>4. R(Effect(s, call)) = Effect(R(s), call)
  <2>1. CASE call.status = "served" \/ call.op = "load"
    BY <2>1 DEF Effect
  <2>2. CASE ~(call.status = "served" \/ call.op = "load") /\ call.op = "addClip"
    <3> DEFINE e == [id |-> call.tmp, pos |-> call.pos, dur |-> call.dur, inPoint |-> 0]
    <3>1. Effect(s, call) = s \cup {e} /\ Effect(R(s), call) = R(s) \cup {e}
      BY <2>2 DEF Effect
    <3>2. R({e}) = {e}
      BY RenamedNone
    <3> QED
      BY <3>1, <3>2, RenamedUnion
  <2>3. CASE ~(call.status = "served" \/ call.op = "load") /\ call.op = "updateClip"
    <3> DEFINE made == {Updated(c, call) : c \in own}
    <3>1. Effect(s, call) = rest \cup made /\ Effect(R(s), call) = R(rest) \cup made
      BY <1>2, <2>3 DEF Effect, Replaced
    <3>2. R(made) = made
      <4>1. \A c \in made : c.id # tmp
        BY <1>1, <1>3 DEF Updated
      <4> HIDE DEF made
      <4> QED
        BY <4>1, RenamedNone
    <3> HIDE DEF made
    <3> QED
      BY <3>1, <3>2, RenamedUnion
  <2>4. CASE ~(call.status = "served" \/ call.op = "load") /\ call.op = "deleteClip"
    <3>1. Effect(s, call) = rest /\ Effect(R(s), call) = R(rest)
      BY <1>2, <2>4 DEF Effect, Replaced
    <3> QED
      BY <3>1
  <2>5. CASE ~(call.status = "served" \/ call.op = "load") /\ call.op = "splitClip"
    <3> DEFINE made == {LeftHalf(c, call.at) : c \in own}
                       \cup {RightHalf(c, call.at, call.tmp) : c \in own}
    <3>1. Effect(s, call) = rest \cup made /\ Effect(R(s), call) = R(rest) \cup made
      BY <1>2, <2>5 DEF Effect, Replaced
    <3>2. R(made) = made
      <4>1. \A c \in own : LeftHalf(c, call.at).id = call.id /\ RightHalf(c, call.at, call.tmp).id = call.tmp
        <5> TAKE c \in own
        <5>1. c \in Clip /\ c.id = call.id
          BY DEF Having
        <5> QED
          BY <5>1 DEF LeftHalf, RightHalf, Clip
      <4>2. \A c \in made : c.id # tmp
        BY <1>1, <4>1
      <4> HIDE DEF made
      <4> QED
        BY <4>2, RenamedNone
    <3> HIDE DEF made
    <3> QED
      BY <3>1, <3>2, RenamedUnion
  <2> QED
    BY <2>1, <2>2, <2>3, <2>4, <2>5, CallTypes
<1>5. ASSUME Cuts(s, call) PROVE Cuts(R(s), call)
  <2>1. PICK c \in s : /\ c.id = call.id /\ call.pos = c.pos + call.at
                       /\ call.at >= MinDur /\ call.at <= c.dur - MinDur
    BY <1>5 DEF Cuts
  <2>2. c \in own
    BY <2>1 DEF Having
  <2>3. c \in R(s)
    BY <1>2, <2>2 DEF Having
  <2> QED
    BY <2>1, <2>3 DEF Cuts
<1> QED
  BY <1>4, <1>5

\* The first and the last of the sets of clips, renamed.
LEMMA HeardView ==
    ASSUME EditorInv, CallsInv, NEW w \in Waiting(calls), NEW q,
           Waiting(q) = Waiting(calls) \ {w},
           \A v \in Waiting(calls) : v # w => v.tmp # w.tmp /\ NewRow(v).id # NewRow(w).id
    PROVE  /\ News(q) = News(calls) \ {NewRow(w).id}
           /\ ViewOf(q, table) = RenameIn(ViewOf(calls, table), w.tmp, NewRow(w).id)
<1> DEFINE tmp == w.tmp
           new == NewRow(w).id
           old == {table[x] : x \in DOMAIN table \ News(calls)}
           others == {Renamed(NewRow(v), v.tmp) : v \in Waiting(q)}
           own == Renamed(NewRow(w), tmp)
<1>1. tmp \in TmpIds /\ new \in DOMAIN table /\ new \in ServerIds /\ new \in News(calls)
      /\ NewRow(w) = table[new]
  BY Waiters DEF Answers, EditorInv, ServerOK
<1>2. News(q) = News(calls) \ {new}
  BY DEF News
<1>3. ViewOf(calls, table) = old \cup others \cup {own}
  <2>1. Waiting(calls) = Waiting(q) \cup {w}
    OBVIOUS
  <2> QED
    BY <2>1 DEF ViewOf
<1>4. ViewOf(q, table) = old \cup others \cup {table[new]}
  <2>1. DOMAIN table \ News(q) = (DOMAIN table \ News(calls)) \cup {new}
    BY <1>1, <1>2
  <2> QED
    BY <2>1 DEF ViewOf
<1>5. RenameIn(old, tmp, new) = old
  <2>1. \A c \in old : c.id # tmp
    BY <1>1, IdsApart DEF EditorInv, ServerOK
  <2> HIDE DEF old
  <2> QED
    BY <2>1, RenamedNone
<1>6. RenameIn(others, tmp, new) = others
  <2>1. \A c \in others : c.id # tmp
    BY DEF Renamed
  <2> HIDE DEF others
  <2> QED
    BY <2>1, RenamedNone
<1>7. RenameIn({own}, tmp, new) = {table[new]}
  <2>1. table[new] \in Clip /\ table[new].id = new
    BY <1>1 DEF EditorInv, ServerOK
  <2>2. Rename(own, tmp, new) = table[new]
    BY <1>1, <2>1 DEF Rename, Renamed, Clip
  <2> QED
    BY <2>2 DEF RenameIn
<1> HIDE DEF old, others, own, tmp, new
<1>8. RenameIn(old \cup others \cup {own}, tmp, new) = old \cup others \cup {table[new]}
  <2>1. RenameIn(old \cup others, tmp, new) = old \cup others
    BY <1>5, <1>6, RenamedUnion
  <2>2. RenameIn((old \cup others) \cup {own}, tmp, new)
            = RenameIn(old \cup others, tmp, new) \cup RenameIn({own}, tmp, new)
    BY RenamedUnion
  <2> QED
    BY <2>1, <2>2, <1>7
<1>9. ViewOf(q, table) = RenameIn(ViewOf(calls, table), tmp, new)
  BY <1>3, <1>4, <1>8
<1> QED
  BY <1>2, <1>9 DEF tmp, new

LEMMA AnswerHeard ==
    ASSUME EditorInv, CallsInv, inbox = <<>>, NEW k \in 1 .. Len(calls), Waits(calls[k]),
           calls' = RemoveAt(calls, k), UNCHANGED <<table, fresh>>,
           clips' = RenameIn(clips, calls[k].tmp, NewRow(calls[k]).id)
    PROVE  CallsInv' /\ News(calls') = News(calls) \ {NewRow(calls[k]).id}
<1> DEFINE n == Len(calls)
           w == calls[k]
           tmp == w.tmp
           new == NewRow(w).id
           at(i) == IF i < k THEN i ELSE i + 1
<1>t. calls \in Seq(GoodCalls) /\ k \in 1 .. n /\ n \in Nat /\ \A i \in 1 .. n : calls[i] \in GoodCalls
  <2>1. calls \in Seq(GoodCalls)
    BY DEF EditorInv, NetOK
  <2> HIDE DEF GoodCalls
  <2> QED
    BY <2>1, LenProperties, ElementOfSeq
<1>q. /\ calls' \in Seq(GoodCalls) /\ Len(calls') = n - 1
      /\ \A i \in 1 .. n - 1 : calls'[i] = calls[at(i)]
  <2>1. /\ RemoveAt(calls, k) \in Seq(GoodCalls) /\ Len(RemoveAt(calls, k)) = Len(calls) - 1
        /\ \A i \in 1 .. Len(calls) - 1 :
                RemoveAt(calls, k)[i] = IF i < k THEN calls[i] ELSE calls[i + 1]
    <3> HIDE DEF GoodCalls
    <3> QED
      BY <1>t, RemovedCalls
  <2> QED
    BY <2>1
<1>c. PICK h \in Chains : Chain(h)
  BY DEF CallsInv
<1>h. /\ h \in [0 .. n -> SUBSET Clip] /\ h[n] = clips /\ h[0] = ViewOf(calls, table)
      /\ \A i \in 1 .. n :
           /\ h[i] = Effect(h[i - 1], calls[i])
           /\ calls[i].status = "served" => h[i] = h[0]
           /\ (calls[i].op = "splitClip" /\ calls[i].status # "served") => Cuts(h[i - 1], calls[i])
      /\ \A i \in 0 .. n : Proper(h[i], fresh \cup News(calls))
      /\ \A i \in 1 .. n : \A j \in i .. n :
           calls[i].tmp # None => Having(h[j], calls[i].tmp) = Having(h[i], calls[i].tmp)
  BY <1>c DEF Chain, Chains
<1>k. /\ \A i \in 1 .. n :
           /\ Shaped(calls[i])
           /\ calls[i].tmp \notin fresh /\ calls[i].id \notin fresh \cup News(calls)
           /\ Waits(calls[i]) => Answers(calls[i], table)
      /\ \A j, i \in 1 .. n : j < i =>
           /\ calls[j].tmp # None => calls[j].tmp # calls[i].tmp
           /\ calls[j].status = "sent" => calls[i].status = "sent"
           /\ (Waits(calls[j]) /\ Waits(calls[i])) => NewRow(calls[j]).id # NewRow(calls[i]).id
  BY DEF CallsInv, QueueInv
<1>d. DOMAIN calls = 1 .. n /\ DOMAIN calls' = 1 .. n - 1
  BY <1>t, <1>q, LenProperties
<1>a. /\ tmp \in TmpIds /\ tmp # None /\ new \in ServerIds /\ new \in News(calls) /\ new \notin fresh
      /\ w \in Waiting(calls) /\ w.status = "served"
  <2>1. w \in Waiting(calls)
    BY <1>d DEF Waiting
  <2>2. tmp \in TmpIds /\ new \in News(calls) /\ new \in DOMAIN table
    BY <2>1, Waiters DEF Answers
  <2> QED
    BY <2>1, <2>2, IdsApart DEF EditorInv, ServerOK, Ids, Waits
<1>o. \A i \in 1 .. n : i # k =>
         /\ calls[i].tmp # tmp
         /\ Waits(calls[i]) => NewRow(calls[i]).id # new
  <2> SUFFICES ASSUME NEW i \in 1 .. n, i # k
               PROVE  calls[i].tmp # tmp /\ (Waits(calls[i]) => NewRow(calls[i]).id # new)
    OBVIOUS
  <2>1. i < k \/ k < i
    BY <1>t
  <2> QED
    BY <2>1, <1>k, <1>a, <1>t
<1> DEFINE R(s) == RenameIn(s, tmp, new)
<1>p. clips' = R(clips) /\ Waits(w)
  OBVIOUS
<1> HIDE DEF n, w, tmp, new, GoodCalls, R
<1>i. /\ \A i \in 1 .. n - 1 : at(i) \in 1 .. n /\ at(i) # k /\ (i < k => at(i) = i) /\ (~(i < k) => at(i) = i + 1)
      /\ at(0) = 0 /\ at(n - 1) \in {n - 1, n} /\ (at(n - 1) = n - 1 => n = k)
      /\ \A i \in 0 .. n - 1 : at(i) \in 0 .. n
      /\ \A i, j \in 1 .. n - 1 : i < j => at(i) < at(j)
      /\ \A i \in 1 .. n - 1 : \A j \in i .. n - 1 : at(j) \in at(i) .. n
  BY <1>t
<1>e. \A i \in 1 .. n : i # k => \E j \in 1 .. n - 1 : i = at(j)
  <2> SUFFICES ASSUME NEW i \in 1 .. n, i # k PROVE \E j \in 1 .. n - 1 : i = at(j)
    OBVIOUS
  <2>1. CASE i < k
    <3>1. i \in 1 .. n - 1 /\ i = at(i)
      BY <1>t, <2>1
    <3> QED
      BY <3>1
  <2>2. CASE ~(i < k)
    <3>1. i - 1 \in 1 .. n - 1 /\ ~(i - 1 < k) /\ i = (i - 1) + 1
      BY <1>t, <2>2
    <3> QED
      BY <3>1
  <2> QED
    BY <2>1, <2>2
<1> HIDE DEF at
<1>w. Waiting(calls') = Waiting(calls) \ {w}
  <2> SUFFICES ASSUME NEW v, Waits(v) PROVE v \in Waiting(calls') <=> v \in Waiting(calls) /\ v # w
    BY DEF Waiting
  <2>1. ASSUME NEW i \in 1 .. n, v = calls[i], v # w PROVE v \in Waiting(calls')
    <3>1. PICK j \in 1 .. n - 1 : i = at(j)
      BY <1>e, <2>1 DEF w
    <3>2. calls'[j] = v
      BY <3>1, <1>q, <2>1
    <3> QED
      BY <3>1, <3>2, <1>d DEF Waiting
  <2>2. ASSUME NEW j \in 1 .. n - 1, v = calls'[j] PROVE v \in Waiting(calls) /\ v # w
    <3>1. v = calls[at(j)] /\ at(j) \in 1 .. n /\ at(j) # k
      BY <1>i, <1>q, <2>2
    <3>2. v.tmp # w.tmp
      BY <3>1, <1>o DEF tmp
    <3> QED
      BY <3>1, <3>2, <1>d DEF Waiting
  <2> QED
    BY <2>1, <2>2, <1>d DEF Waiting
<1>n. News(calls') = News(calls) \ {new} /\ ViewOf(calls', table) = R(ViewOf(calls, table))
  <2>1. \A v \in Waiting(calls) : v # w => v.tmp # w.tmp /\ NewRow(v).id # NewRow(w).id
    <3> SUFFICES ASSUME NEW i \in 1 .. n, Waits(calls[i]), calls[i] # w
                 PROVE  calls[i].tmp # w.tmp /\ NewRow(calls[i]).id # NewRow(w).id
      BY <1>d DEF Waiting
    <3>1. i # k
      BY DEF w
    <3> QED
      BY <3>1, <1>o DEF tmp, new
  <2> QED
    BY <1>a, <1>w, <2>1, HeardView DEF tmp, new, R
<1>1. PICK hh \in [0 .. n - 1 -> SUBSET Clip] : \A i \in 0 .. n - 1 : hh[i] = R(h[at(i)])
  <2> DEFINE f == [i \in 0 .. n - 1 |-> R(h[at(i)])]
  <2>1. \A i \in 0 .. n - 1 : R(h[at(i)]) \in SUBSET Clip
    <3> TAKE i \in 0 .. n - 1
    <3>1. at(i) \in 0 .. n
      BY <1>i
    <3>2. h[at(i)] \in SUBSET Clip
      BY <3>1, <1>h
    <3>4. ASSUME NEW s \in SUBSET Clip PROVE RenameIn(s, tmp, new) \in SUBSET Clip
      BY <1>a, RenamedClip DEF RenameIn
    <3> QED
      BY <3>2, <3>4 DEF R
  <2>2. f \in [0 .. n - 1 -> SUBSET Clip] /\ \A i \in 0 .. n - 1 : f[i] = R(h[at(i)])
    BY <2>1
  <2> QED
    BY <2>2
<1>s. h[k] = h[k - 1] /\ k - 1 \in 0 .. n
  <2>1. h[k] = Effect(h[k - 1], w) /\ k - 1 \in 0 .. n
    BY <1>h, <1>t DEF w
  <2> QED
    BY <2>1, <1>a DEF Effect
<1>2. hh[0] = ViewOf(calls', table') /\ hh[n - 1] = clips'
  <2>1. 0 \in 0 .. n - 1 /\ n - 1 \in 0 .. n - 1
    BY <1>t
  <2>2. h[at(n - 1)] = h[n]
    BY <1>i, <1>s
  <2> QED
    BY <1>1, <1>h, <1>i, <1>n, <1>p, <2>1, <2>2
<1>3. ASSUME NEW i \in 1 .. n - 1
      PROVE  /\ hh[i] = Effect(hh[i - 1], calls'[i])
             /\ calls'[i].status = "served" => hh[i] = hh[0]
             /\ (calls'[i].op = "splitClip" /\ calls'[i].status # "served") =>
                    Cuts(hh[i - 1], calls'[i])
  <2>1. i \in 0 .. n - 1 /\ i - 1 \in 0 .. n - 1 /\ 0 \in 0 .. n - 1
    BY <1>t
  <2>2. at(i) \in 1 .. n /\ at(i) - 1 \in 0 .. n /\ at(i) # k /\ at(i - 1) \in 0 .. n
    BY <1>i, <1>t, <2>1
  <2>3. h[at(i) - 1] = h[at(i - 1)]
    <3>1. CASE i < k
      <4>1. at(i) = i /\ (i - 1 = 0 \/ (i - 1 \in 1 .. n - 1 /\ i - 1 < k))
        BY <3>1, <1>i, <1>t
      <4>2. at(i - 1) = i - 1
        BY <4>1, <1>i
      <4> QED
        BY <4>1, <4>2
    <3>2. CASE ~(i < k) /\ i # k
      <4>1. at(i) = i + 1 /\ i - 1 \in 1 .. n - 1 /\ ~(i - 1 < k)
        BY <3>2, <1>i, <1>t
      <4>2. at(i - 1) = i - 1 + 1
        BY <4>1, <1>i
      <4>3. at(i) - 1 = i /\ at(i - 1) = i
        BY <4>1, <4>2
      <4> QED
        BY <4>3
    <3>3. CASE i = k
      <4>1. at(i) = i + 1 /\ (i - 1 = 0 \/ (i - 1 \in 1 .. n - 1 /\ i - 1 < k))
        BY <3>3, <1>i, <1>t
      <4>2. at(i - 1) = i - 1
        BY <4>1, <1>i
      <4>3. at(i) - 1 = k /\ at(i - 1) = k - 1
        BY <3>3, <4>1, <4>2
      <4> QED
        BY <4>3, <1>s
    <3> QED
      BY <3>1, <3>2, <3>3
  <2>4. calls'[i] = calls[at(i)] /\ hh[i] = R(h[at(i)]) /\ hh[i - 1] = R(h[at(i) - 1]) /\ hh[0] = R(h[0])
    BY <1>1, <1>q, <1>i, <2>1, <2>3
  <2>5. /\ h[at(i)] = Effect(h[at(i) - 1], calls[at(i)])
        /\ calls[at(i)].status = "served" => h[at(i)] = h[0]
        /\ (calls[at(i)].op = "splitClip" /\ calls[at(i)].status # "served") =>
               Cuts(h[at(i) - 1], calls[at(i)])
    BY <1>h, <2>2
  <2>6. /\ R(Effect(h[at(i) - 1], calls[at(i)])) = Effect(R(h[at(i) - 1]), calls[at(i)])
        /\ (calls[at(i)].op = "splitClip" /\ Cuts(h[at(i) - 1], calls[at(i)])) =>
               Cuts(R(h[at(i) - 1]), calls[at(i)])
    <3>1. /\ h[at(i) - 1] \in SUBSET Clip /\ calls[at(i)] \in GoodCalls /\ Shaped(calls[at(i)])
          /\ calls[at(i)].tmp # tmp /\ calls[at(i)].id # new
      BY <1>h, <1>t, <1>k, <1>o, <1>a, <2>2
    <3> QED
      BY <3>1, <1>a, EffectRenamed DEF R
  <2> QED
    BY <2>4, <2>5, <2>6
<1>4. ASSUME NEW i \in 0 .. n - 1
      PROVE  Proper(hh[i], fresh' \cup News(calls'))
  <2>1. at(i) \in 0 .. n /\ hh[i] = R(h[at(i)])
    BY <1>1, <1>i
  <2>2. h[at(i)] \in SUBSET Clip /\ Proper(h[at(i)], fresh \cup News(calls))
    BY <2>1, <1>h
  <2>3. /\ new \in fresh \cup News(calls) /\ new \notin fresh' \cup News(calls')
        /\ fresh' \cup News(calls') \subseteq fresh \cup News(calls)
    BY <1>a, <1>n
  <2>4. Proper(R(h[at(i)]), fresh' \cup News(calls'))
    BY <2>2, <2>3, <1>a, RenamedProper DEF R
  <2> QED
    BY <2>1, <2>4
<1>5. ASSUME NEW i \in 1 .. n - 1, NEW j \in i .. n - 1, calls'[i].tmp # None
      PROVE  Having(hh[j], calls'[i].tmp) = Having(hh[i], calls'[i].tmp)
  <2>1. i \in 0 .. n - 1 /\ j \in 0 .. n - 1
    BY <1>t
  <2>2. at(i) \in 1 .. n /\ at(i) # k /\ at(j) \in at(i) .. n /\ at(j) \in 0 .. n /\ at(i) \in 0 .. n
    BY <2>1, <1>i
  <2>3. calls'[i] = calls[at(i)] /\ hh[j] = R(h[at(j)]) /\ hh[i] = R(h[at(i)])
    BY <2>1, <1>1, <1>q
  <2>4. Having(h[at(j)], calls[at(i)].tmp) = Having(h[at(i)], calls[at(i)].tmp)
    BY <2>2, <2>3, <1>5, <1>h
  <2>5. calls[at(i)].tmp # tmp /\ calls[at(i)].tmp # new
    <3>1. calls[at(i)].tmp \in TmpIds
      BY <2>2, <2>3, <1>5, <1>t, <1>k, CallTypes
    <3> QED
      BY <3>1, <2>2, <1>o, <1>a, IdsApart
  <2>6. h[at(j)] \in SUBSET Clip /\ h[at(i)] \in SUBSET Clip
    BY <2>2, <1>h
  <2>7. /\ Having(R(h[at(j)]), calls[at(i)].tmp) = Having(h[at(j)], calls[at(i)].tmp)
        /\ Having(R(h[at(i)]), calls[at(i)].tmp) = Having(h[at(i)], calls[at(i)].tmp)
    <3>1. ASSUME NEW s \in SUBSET Clip
          PROVE  Having(R(s), calls[at(i)].tmp) = Having(s, calls[at(i)].tmp)
      BY <2>5, <1>a, RenamedHaving DEF R
    <3> QED
      BY <2>6, <3>1
  <2> QED
    BY <2>3, <2>4, <2>7
<1>6. hh \in Chains' /\ Chain(hh)'
  BY <1>q, <1>1, <1>2, <1>3, <1>4, <1>5 DEF Chains, Chain
<1>7. ASSUME NEW i \in 1 .. n - 1
      PROVE  /\ Shaped(calls'[i])
             /\ calls'[i].tmp \notin fresh' /\ calls'[i].id \notin fresh' \cup News(calls')
             /\ Waits(calls'[i]) => Answers(calls'[i], table')
  <2>1. calls'[i] = calls[at(i)] /\ at(i) \in 1 .. n
    BY <1>q, <1>i
  <2> QED
    BY <2>1, <1>k, <1>n
<1>8. ASSUME NEW j \in 1 .. n - 1, NEW i \in 1 .. n - 1, j < i
      PROVE  /\ calls'[j].tmp # None => calls'[j].tmp # calls'[i].tmp
             /\ calls'[j].status = "sent" => calls'[i].status = "sent"
             /\ (Waits(calls'[j]) /\ Waits(calls'[i])) => NewRow(calls'[j]).id # NewRow(calls'[i]).id
  <2>1. calls'[i] = calls[at(i)] /\ at(i) \in 1 .. n /\ calls'[j] = calls[at(j)] /\ at(j) \in 1 .. n
    BY <1>q, <1>i
  <2>2. at(j) < at(i)
    BY <1>8, <1>i
  <2> QED
    BY <2>1, <2>2, <1>k
<1>9. QueueInv'
  BY <1>q, <1>7, <1>8 DEF QueueInv
<1>10. Pending'
  <2> SUFFICES ASSUME NEW c \in clips', c.id \in TmpIds
               PROVE  \E i \in 1 .. n - 1 : calls'[i].tmp = c.id
    BY <1>q DEF Pending
  <2>1. PICK d \in clips : c = Rename(d, tmp, new)
    BY <1>p DEF R, RenameIn
  <2>2. d \in Clip
    BY DEF EditorInv, TabOK, Snapshots
  <2>3. d.id # tmp /\ c = d
    BY <2>1, <2>2, <1>a, RenamedClip, IdsApart
  <2>4. PICK i \in 1 .. n : calls[i].tmp = c.id
    BY <2>3 DEF CallsInv, Pending, n
  <2>5. i # k
    BY <2>3, <2>4 DEF w, tmp
  <2> QED
    BY <2>4, <2>5, <1>e, <1>q
<1> QED
  BY <1>6, <1>9, <1>10, <1>n DEF CallsInv, new, w

LEMMA HeardSync ==
    ASSUME EditorInv, InStep, SyncInv, NEW k \in 1 .. Len(calls), Waits(calls[k]),
           calls' = RemoveAt(calls, k), UNCHANGED <<table, fresh, inbox, drag, faults>>,
           clips' = RenameIn(clips, calls[k].tmp, NewRow(calls[k]).id)
    PROVE  SyncInv'
<1>1. inbox = <<>>
  <2>1. calls # <<>>
    BY LenProperties, EmptySeq DEF EditorInv, NetOK
  <2> QED
    BY <2>1 DEF SyncInv, InboxInv
<1>2. CallsInv' /\ News(calls') \subseteq News(calls)
  <2>1. CallsInv' /\ News(calls') = News(calls) \ {NewRow(calls[k]).id}
    BY <1>1, AnswerHeard DEF SyncInv
  <2> QED
    BY <2>1
<1>3. CalmInv'
  BY CalmOver DEF SyncInv
<1>4. DragInv' /\ LongInv' /\ InboxInv'
  BY <1>1, <1>2 DEF SyncInv, DragInv, LongInv, InboxInv
<1> QED
  BY <1>2, <1>3, <1>4 DEF SyncInv

LEMMA AnswerAddSync ==
    ASSUME EditorInv, InStep, SyncInv, NEW k \in DOMAIN calls, AnswerAdd(k)
    PROVE  SyncInv'
<1> DEFINE w == calls[k]
           tmp == w.tmp
           new == NewRow(w).id
<1>1. /\ w.op = "addClip" /\ w.status = "served"
      /\ clips' = Without({tmp}) \cup {[c EXCEPT !.id = Head(w.answer).id] : c \in Under(tmp)}
      /\ calls' = RemoveAt(calls, k)
      /\ UNCHANGED <<table, fresh, inbox, drag, faults>>
  BY DEF AnswerAdd, Over, serverVars
<1>2. k \in 1 .. Len(calls) /\ w \in GoodCalls /\ w \in Call /\ CallOK(w)
  BY CallInFlight DEF EditorInv
<1>3. Head(w.answer).id = new
  <2>1. w.answer \in Seq(Clip) /\ Len(w.answer) = 1
    BY <1>1, <1>2 DEF Call, CallOK
  <2>2. w.answer # <<>>
    BY <2>1, EmptySeq
  <2>3. Head(w.answer) = w.answer[1]
    BY <2>1, <2>2, HeadTailProperties
  <2> QED
    BY <1>1, <2>3 DEF NewRow
<1> HIDE DEF tmp, new
<1>4. \A c \in clips : [c EXCEPT !.id = new] = Renamed(c, new)
  <2> SUFFICES ASSUME NEW c \in clips PROVE [c EXCEPT !.id = new] = Renamed(c, new)
    OBVIOUS
  <2>1. c \in Clip
    BY DEF EditorInv, TabOK, Snapshots
  <2> QED
    BY <2>1 DEF Clip, Renamed
<1>5. clips' = RenameIn(clips, tmp, new)
  <2>1. clips' = Without({tmp}) \cup {Renamed(c, new) : c \in Under(tmp)}
    BY <1>1, <1>3, <1>4 DEF Under
  <2> QED
    BY <2>1 DEF Without, Under, RenameIn, Rename
<1>6. Waits(w)
  BY <1>1 DEF Waits
<1> QED
  BY <1>1, <1>2, <1>5, <1>6, HeardSync DEF tmp, new

\* The tab finds the right half, and what it knows of it is what the server has stored.
LEMMA AnswerSplitSync ==
    ASSUME EditorInv, InStep, SyncInv, NEW k \in DOMAIN calls, AnswerSplit(k)
    PROVE  SyncInv'
<1> DEFINE w == calls[k]
           tmp == w.tmp
           row == NewRow(w)
           rights == {i \in DOMAIN w.answer : IsRight(w.answer[i], w)}
           Confirmed(c, r) == [id |-> r.id, pos |-> c.pos, dur |-> r.dur, inPoint |-> r.inPoint]
<1>1. /\ w.op = "splitClip" /\ w.status = "served"
      /\ calls' = RemoveAt(calls, k)
      /\ UNCHANGED <<table, fresh, inbox, drag, faults>>
      /\ \/ rights = {} /\ UNCHANGED clips
         \/ \E i \in rights :
                /\ \A j \in rights : i <= j
                /\ clips' = Without({tmp}) \cup {Confirmed(c, w.answer[i]) : c \in Under(tmp)}
  BY DEF AnswerSplit, Over, serverVars
<1>2. k \in 1 .. Len(calls) /\ w \in GoodCalls /\ w \in Call /\ DOMAIN calls = 1 .. Len(calls)
  BY CallInFlight, LenProperties DEF EditorInv, NetOK
<1>3. Waits(w) /\ w \in Waiting(calls)
  BY <1>1 DEF Waits, Waiting
<1>4. tmp \in TmpIds /\ tmp # None /\ Answers(w, table) /\ row \in Clip /\ row.id \in News(calls)
  <2>1. w.tmp \in TmpIds /\ Answers(w, table)
    BY <1>3, Waiters DEF SyncInv
  <2>2. row.id \in News(calls)
    BY <1>3, Waiters DEF SyncInv
  <2> QED
    BY <2>1, <2>2, IdsApart DEF Answers, EditorInv, ServerOK, Ids
<1>5. rights = {2} /\ w.answer[2] = row
  <2>1. /\ w.answer \in Seq(Clip) /\ Len(w.answer) = 2
        /\ w.answer[1].pos < w.pos /\ w.answer[2].pos >= w.pos
    BY <1>1, <1>2, <1>4 DEF Answers, Call
  <2>2. DOMAIN w.answer = {1, 2}
    BY <2>1, LenProperties
  <2>3. w.answer[1].pos \in Nat
    <3>1. w.answer[1] \in Clip
      BY <2>1, ElementOfSeq
    <3> QED
      BY <3>1, <1>2 DEF Clip, Call
  <2>4. w.pos \in Nat
    BY <1>1, <1>2 DEF SyncInv, CallsInv, QueueInv, Shaped
  <2>5. IsRight(w.answer[2], w) /\ ~IsRight(w.answer[1], w)
    BY <2>1, <2>3, <2>4 DEF IsRight
  <2> QED
    BY <1>1, <2>2, <2>5 DEF NewRow
<1>6. clips' = Without({tmp}) \cup {Confirmed(c, row) : c \in Under(tmp)}
  BY <1>1, <1>5
<1> HIDE DEF w, tmp, row, rights
<1>7. \A c \in Under(tmp) : c = Renamed(row, tmp)
  <2>1. inbox = <<>>
    <3>1. calls # <<>>
      BY <1>2, LenProperties, EmptySeq DEF EditorInv, NetOK
    <3> QED
      BY <3>1 DEF SyncInv, InboxInv
  <2>2. PICK h \in Chains : Chain(h)
    BY <2>1 DEF SyncInv, CallsInv
  <2>3. /\ h[k] = ViewOf(calls, table) /\ h[Len(calls)] = clips
        /\ Proper(h[k], fresh \cup News(calls))
    <3>1. calls[k].status = "served" /\ k \in 0 .. Len(calls)
      BY <1>1, <1>2 DEF w
    <3> QED
      BY <1>2, <2>2, <3>1 DEF Chain
  <2>4. Having(clips, tmp) = Having(ViewOf(calls, table), tmp)
    <3>1. Len(calls) \in k .. Len(calls)
      BY <1>2
    <3>2. calls[k].tmp = tmp
      BY DEF w, tmp
    <3>3. Having(h[Len(calls)], calls[k].tmp) = Having(h[k], calls[k].tmp)
      BY <1>2, <1>4, <2>2, <3>1, <3>2 DEF Chain
    <3> QED
      BY <2>3, <3>2, <3>3
  <2>5. Renamed(row, tmp) \in ViewOf(calls, table) /\ Renamed(row, tmp).id = tmp
    BY <1>3 DEF ViewOf, Renamed, row, tmp
  <2> SUFFICES ASSUME NEW c \in Under(tmp) PROVE c = Renamed(row, tmp)
    OBVIOUS
  <2>6. c \in ViewOf(calls, table) /\ c.id = tmp
    BY <2>4 DEF Under, Having
  <2> QED
    BY <2>3, <2>5, <2>6 DEF Proper
<1>8. clips' = RenameIn(clips, tmp, row.id)
  <2>1. \A c \in Under(tmp) : Confirmed(c, row) = Renamed(c, row.id)
    <3> SUFFICES ASSUME NEW c \in Under(tmp) PROVE Confirmed(c, row) = Renamed(c, row.id)
      OBVIOUS
    <3>1. c.dur = row.dur /\ c.inPoint = row.inPoint
      BY <1>7 DEF Renamed
    <3> QED
      BY <3>1 DEF Renamed
  <2>2. clips' = Without({tmp}) \cup {Renamed(c, row.id) : c \in Under(tmp)}
    BY <1>6, <2>1
  <2> QED
    BY <2>2 DEF Without, Under, RenameIn, Rename
<1> QED
  BY <1>1, <1>2, <1>3, <1>8, HeardSync DEF w, tmp, row

(***************************************************************************)
(* Agreement: when nothing is on its way, and what others do then.         *)
(***************************************************************************)
LEMMA SettledChain ==
    (EditorInv /\ LongInv /\ calls = <<>> /\ clips = RowsOf(table))
        => CallsInv /\ News(calls) = {}
<1> SUFFICES ASSUME EditorInv, LongInv, calls = <<>>, clips = RowsOf(table)
             PROVE  CallsInv /\ News(calls) = {}
  OBVIOUS
<1>1. Len(calls) = 0 /\ Waiting(calls) = {} /\ News(calls) = {}
  BY DEF Waiting, News
<1>2. ViewOf(calls, table) = clips
  BY <1>1 DEF ViewOf, RowsOf
<1>3. clips \in SUBSET Clip /\ \A c \in clips : c.id \in ServerIds /\ c.id \notin fresh
  BY DEF EditorInv, TabOK, Snapshots, ServerOK, RowsOf
<1>4. Proper(clips, fresh)
  BY <1>3 DEF Proper, LongInv, RowsOf, EditorInv, ServerOK
<1>5. PICK h \in [0 .. 0 -> SUBSET Clip] : h[0] = clips
  <2> DEFINE f == [i \in 0 .. 0 |-> clips]
  <2>1. f \in [0 .. 0 -> SUBSET Clip] /\ f[0] = clips
    BY <1>3
  <2> QED
    BY <2>1
<1>6. \A i \in 0 .. 0 : i = 0
  OBVIOUS
<1>7. \A i \in 1 .. 0 : FALSE
  OBVIOUS
<1>8. h \in Chains /\ Chain(h)
  BY <1>1, <1>2, <1>4, <1>5, <1>6, <1>7 DEF Chains, Chain
<1>9. QueueInv /\ Pending
  BY <1>1, <1>3, <1>7, IdsApart DEF QueueInv, Pending
<1> QED
  BY <1>1, <1>8, <1>9 DEF CallsInv

LEMMA SettledChainNext ==
    (EditorInv' /\ LongInv' /\ calls' = <<>> /\ clips' = RowsOf(table'))
        => CallsInv' /\ News(calls') = {}
<1>1. ((EditorInv /\ LongInv /\ calls = <<>> /\ clips = RowsOf(table))
        => CallsInv /\ News(calls) = {})'
  BY SettledChain, PTL
<1> QED
  BY <1>1 DEF RowsOf, News, Waiting

\* The tab has heard everything and shows the server's clips.
LEMMA Settles ==
    ASSUME EditorInv', SyncInv, calls' = <<>>, inbox' = <<>>, clips' = RowsOf(table'),
           UNCHANGED <<table, fresh, drag, faults>>
    PROVE  SyncInv'
<1>1. LongInv'
  BY DEF SyncInv, LongInv
<1>2. CallsInv' /\ News(calls') = {}
  BY <1>1, SettledChainNext
<1>3. DragInv'
  BY <1>2 DEF SyncInv, DragInv
<1>4. CalmInv' /\ InboxInv'
  <2>1. Len(calls') = 0
    OBVIOUS
  <2> QED
    BY <2>1 DEF CalmInv, InboxInv
<1> QED
  BY <1>1, <1>2, <1>3, <1>4 DEF SyncInv

LEMMA NoneLeft ==
    ASSUME EditorInv, Len(calls) = 1, calls' = RemoveAt(calls, 1)
    PROVE  calls' = <<>>
<1>1. calls \in Seq(GoodCalls)
  BY DEF EditorInv, NetOK
<1>2. calls' \in Seq(GoodCalls) /\ Len(calls') = 0
  <2> HIDE DEF GoodCalls
  <2>1. ASSUME NEW k \in 1 .. Len(calls)
        PROVE  RemoveAt(calls, k) \in Seq(GoodCalls) /\ Len(RemoveAt(calls, k)) = Len(calls) - 1
    BY <1>1, RemovedCalls
  <2>2. 1 \in 1 .. Len(calls)
    OBVIOUS
  <2> QED
    BY <2>1, <2>2
<1> QED
  BY <1>2, EmptySeq

\* A split that failed is taken back: the latest snapshot is the server's clips.
LEMMA RollBackSync ==
    ASSUME EditorInv, EditorInv', InStep, SyncInv, NEW k \in DOMAIN calls, RollBack(k)
    PROVE  SyncInv'
<1>1. /\ calls[k].op = "splitClip" /\ calls[k].status = "failed" /\ UndoLocal
      /\ calls' = RemoveAt(calls, k) /\ UNCHANGED <<drag, inbox, table, fresh, faults>>
  BY DEF RollBack, Over, serverVars
<1>2. k = 1 /\ Len(calls) = 1 /\ inbox = <<>> /\ "haste" \notin faults
  BY <1>1, OnlyCall
<1>3. undo # <<>> /\ Head(undo) = RowsOf(table)
  <2>1. 1 \in 1 .. Len(calls) /\ calls[1].op = "splitClip" /\ calls[1].status = "failed"
    BY <1>1, <1>2
  <2> QED
    BY <1>2, <2>1 DEF SyncInv, CalmInv
<1>4. clips' = RowsOf(table')
  BY <1>1, <1>3 DEF UndoLocal, RowsOf
<1>5. calls' = <<>>
  BY <1>1, <1>2, NoneLeft
<1> QED
  BY <1>1, <1>2, <1>4, <1>5, Settles

LEMMA LoadProjectSync ==
    ASSUME EditorInv, EditorInv', InStep, SyncInv, NEW k \in DOMAIN calls, LoadProject(k)
    PROVE  SyncInv'
<1>1. /\ calls[k].op = "load" /\ calls[k].status = "served" /\ clips' = calls[k].loaded
      /\ calls' = RemoveAt(calls, k) /\ UNCHANGED <<drag, inbox, table, fresh, faults>>
  BY DEF LoadProject, Over, serverVars
<1>2. k = 1 /\ Len(calls) = 1 /\ inbox = <<>> /\ "haste" \notin faults
  BY <1>1, OnlyCall
<1>3. calls[1].loaded = RowsOf(table)
  <2>1. 1 \in 1 .. Len(calls) /\ calls[1].op = "load" /\ calls[1].status = "served"
    BY <1>1, <1>2
  <2> QED
    BY <1>2, <2>1 DEF SyncInv, CalmInv
<1>4. clips' = RowsOf(table')
  BY <1>1, <1>2, <1>3 DEF RowsOf
<1>5. calls' = <<>>
  BY <1>1, <1>2, NoneLeft
<1> QED
  BY <1>1, <1>2, <1>4, <1>5, Settles

LEMMA ReceiveSync ==
    ASSUME EditorInv, EditorInv', InStep, SyncInv, Receive
    PROVE  SyncInv'
<1>1. /\ calls = <<>> /\ Len(inbox) = 1 /\ Proper(clips, fresh)
      /\ RowsOf(table) = {c \in clips : c.id # inbox[1].row.id}
                         \cup IF inbox[1].type = "upsert" THEN {inbox[1].row} ELSE {}
  BY DEF Receive, SyncInv, InboxInv
<1>2. inbox \in Seq(Events) /\ inbox[1] \in Events /\ inbox # <<>>
  <2>1. inbox \in Seq(Events) /\ 1 \in 1 .. Len(inbox)
    BY <1>1 DEF EditorInv, NetOK
  <2>2. inbox[1] \in Events
    <3> HIDE DEF Events
    <3> QED
      BY <2>1, ElementOfSeq
  <2> QED
    BY <2>1, <2>2 DEF Receive
<1>3. Head(inbox) = inbox[1] /\ inbox' = <<>>
  <2> HIDE DEF Events
  <2>1. Head(inbox) = inbox[1] /\ Tail(inbox) \in Seq(Events) /\ Len(Tail(inbox)) = 0
    BY <1>1, <1>2, HeadTailProperties
  <2>2. Tail(inbox) = <<>>
    BY <2>1, EmptySeq
  <2> QED
    BY <2>1, <2>2 DEF Receive
<1>4. PICK e : e = inbox[1]
  OBVIOUS
<1>5. clips' = {c \in clips : c.id # e.row.id} \cup IF e.type = "upsert" THEN {e.row} ELSE {}
  <2>1. CASE e.type = "upsert"
    <3>1. ApplyRemoteClipUpsert(e.row)
      BY <1>3, <1>4, <2>1 DEF Receive
    <3>2. CASE (\A c \in clips : c.id # e.row.id) /\ clips' = clips \cup {e.row}
      BY <2>1, <3>2
    <3>3. CASE \E c \in clips : c.id = e.row.id /\ clips' = (clips \ {c}) \cup {e.row}
      <4>1. PICK c \in clips : c.id = e.row.id /\ clips' = (clips \ {c}) \cup {e.row}
        BY <3>3
      <4>2. clips \ {c} = {d \in clips : d.id # e.row.id}
        BY <1>1, <4>1 DEF Proper
      <4> QED
        BY <2>1, <4>1, <4>2
    <3> QED
      BY <3>1, <3>2, <3>3 DEF ApplyRemoteClipUpsert
  <2>2. CASE e.type # "upsert"
    BY <1>3, <1>4, <2>2 DEF Receive, Without
  <2> QED
    BY <2>1, <2>2
<1>6. UNCHANGED <<calls, table, fresh, drag, faults>>
  BY DEF Receive, serverVars
<1>7. clips' = RowsOf(table')
  BY <1>1, <1>4, <1>5, <1>6 DEF RowsOf
<1> QED
  BY <1>1, <1>3, <1>6, <1>7, Settles

\* The others act when nothing is on its way, and tell the tab what they did.
LEMMA OthersTell ==
    ASSUME EditorInv, InStep, SyncInv, OthersAct, NEW e \in Events,
           inbox' = Append(inbox, e), fresh' \subseteq fresh, LongInv',
           RowsOf(table') = {c \in RowsOf(table) : c.id # e.row.id}
                            \cup IF e.type = "upsert" THEN {e.row} ELSE {}
    PROVE  SyncInv'
<1>1. /\ calls = <<>> /\ inbox = <<>> /\ "remote" \in faults
      /\ UNCHANGED <<clips, drag, calls, faults>>
  BY InStepFaults DEF OthersAct, Step, tabVars
<1>2. clips = RowsOf(table) /\ Proper(clips, fresh)
  BY <1>1, ShownClips DEF SyncInv, Proper
<1>3. \A c \in clips : c.id \in ServerIds
  BY <1>2 DEF RowsOf, EditorInv, ServerOK
<1>4. inbox' = <<e>> /\ Len(inbox') = 1 /\ inbox'[1] = e /\ inbox' # <<>>
  BY <1>1
<1>5. Len(calls') = 0 /\ News(calls') = {}
  BY <1>1 DEF News, Waiting
<1>6. CallsInv'
  BY <1>1, <1>3, <1>4, <1>5, IdsApart DEF CallsInv, Pending, QueueInv
<1>7. InboxInv'
  <2>1. "haste" \notin faults'
    BY <1>1, InStepFaults
  <2>2. Proper(clips', fresh') /\ \A c \in clips' : c.id \in ServerIds
    BY <1>1, <1>2, <1>3 DEF Proper
  <2> QED
    BY <1>1, <1>2, <1>4, <2>1, <2>2 DEF InboxInv
<1>8. CalmInv' /\ DragInv'
  BY <1>1, <1>5 DEF SyncInv, CalmInv, DragInv
<1> QED
  BY <1>6, <1>7, <1>8 DEF SyncInv

LEMMA OthersSync ==
    ASSUME EditorInv, InStep, SyncInv,
           \/ \E pos \in Positions, dur \in Durations : OthersAdd(pos, dur)
           \/ \E pos \in Positions, dur \in Durations, c \in DOMAIN table : OthersUpdate(c, pos, dur)
           \/ \E c \in DOMAIN table : OthersDelete(c)
    PROVE  SyncInv'
<1>t. \A c \in DOMAIN table : c \in ServerIds /\ table[c] \in Clip /\ table[c].id = c
  BY DEF EditorInv, ServerOK
<1>l. \A c \in DOMAIN table : table[c].dur >= MinDur
  BY DEF SyncInv, LongInv
<1>1. ASSUME NEW pos \in Positions, NEW dur \in Durations, OthersAdd(pos, dur)
      PROVE  SyncInv'
  <2> DEFINE rowOf(id) == [id |-> id, pos |-> pos, dur |-> dur, inPoint |-> 0]
  <2>1. PICK id \in fresh \cap ServerIds :
            /\ table' = Stored(rowOf(id)) /\ inbox' = Append(inbox, Upsert(rowOf(id)))
            /\ fresh' = fresh \ {id}
    BY <1>1 DEF OthersAdd
  <2>2. PICK row : row = rowOf(id)
    OBVIOUS
  <2>3. row \in Clip /\ row.id = id /\ row.dur >= MinDur
    BY <1>1, <2>1, <2>2, GesturesSane DEF Clip, Ids, OthersAdd
  <2>4. table' = Stored(row) /\ inbox' = Append(inbox, Upsert(row))
    BY <2>1, <2>2
  <2> HIDE DEF rowOf
  <2>5. /\ DOMAIN table' = DOMAIN table \cup {id} /\ table'[id] = row
        /\ \A c \in DOMAIN table : c # id /\ table'[c] = table[c]
    BY <2>1, <2>3, <2>4 DEF Stored, EditorInv, ServerOK
  <2>6. LongInv'
    BY <1>l, <2>3, <2>5 DEF LongInv
  <2>7. PICK e : e = Upsert(row)
    OBVIOUS
  <2>8. e \in Events /\ e.type = "upsert" /\ e.row = row
    BY <2>3, <2>7 DEF Events, Upsert
  <2>9. RowsOf(table') = {c \in RowsOf(table) : c.id # id} \cup {row}
    BY <1>t, <2>5 DEF RowsOf
  <2> QED
    BY <1>1, <2>1, <2>3, <2>4, <2>6, <2>7, <2>8, <2>9, OthersTell DEF OthersAdd
<1>2. ASSUME NEW pos \in Positions, NEW dur \in Durations, NEW x \in DOMAIN table,
             OthersUpdate(x, pos, dur)
      PROVE  SyncInv'
  <2>1. PICK row : row = Resized(table[x], pos, dur)
    OBVIOUS
  <2>2. table' = Stored(row) /\ inbox' = Append(inbox, Upsert(row)) /\ fresh' = fresh
    BY <1>2, <2>1 DEF OthersUpdate
  <2>3. row \in Clip /\ row.id = x /\ row.dur >= MinDur
    <3>1. AtLeast(MinDur, dur) \in Nat /\ AtLeast(MinDur, dur) >= MinDur /\ pos \in Nat
      BY GesturesSane, MinDurPositive DEF AtLeast
    <3>2. table[x].inPoint \in Nat /\ x \in Ids /\ table[x].id = x
      BY <1>t DEF Clip, Ids
    <3> QED
      BY <2>1, <3>1, <3>2 DEF Resized, Clip
  <2>5. /\ DOMAIN table' = DOMAIN table /\ table'[x] = row
        /\ \A c \in DOMAIN table : c # x => table'[c] = table[c]
    BY <2>2, <2>3 DEF Stored
  <2>6. LongInv'
    BY <1>l, <2>3, <2>5 DEF LongInv
  <2>7. PICK e : e = Upsert(row)
    OBVIOUS
  <2>8. e \in Events /\ e.type = "upsert" /\ e.row = row
    BY <2>3, <2>7 DEF Events, Upsert
  <2>9. RowsOf(table') = {c \in RowsOf(table) : c.id # x} \cup {row}
    BY <1>t, <2>5 DEF RowsOf
  <2> QED
    BY <1>2, <2>2, <2>3, <2>6, <2>7, <2>8, <2>9, OthersTell DEF OthersUpdate
<1>3. ASSUME NEW x \in DOMAIN table, OthersDelete(x)
      PROVE  SyncInv'
  <2>1. PICK e : e = Removal(table[x])
    OBVIOUS
  <2>2. /\ inbox' = Append(inbox, e) /\ fresh' = fresh
        /\ table' = [d \in DOMAIN table \ {x} |-> table[d]]
    BY <1>3, <2>1 DEF OthersDelete
  <2>3. e \in Events /\ e.type = "delete" /\ e.row = table[x] /\ e.row.id = x
    BY <1>t, <2>1 DEF Events, Removal
  <2>4. LongInv'
    BY <1>l, <2>2 DEF LongInv
  <2>5. RowsOf(table') = {c \in RowsOf(table) : c.id # x}
    BY <1>t, <2>2 DEF RowsOf
  <2> QED
    BY <1>3, <2>2, <2>3, <2>4, <2>5, OthersTell DEF OthersDelete
<1> QED
  BY <1>1, <1>2, <1>3

(***************************************************************************)
(* Agreement: the theorems.                                                *)
(***************************************************************************)
LEMMA InitSync ==
    ASSUME EditorInit
    PROVE  SyncInv
<1>1. EditorInv
  BY InitTypes
<1>2. /\ clips = InitialClips /\ calls = <<>> /\ inbox = <<>> /\ drag = None
      /\ table = [id \in {c.id : c \in InitialClips} |-> CHOOSE c \in InitialClips : c.id = id]
  BY DEF EditorInit
<1>3. \A id \in DOMAIN table : table[id] \in InitialClips /\ table[id].id = id
  BY <1>2
<1>4. \A c \in InitialClips : c.id \in DOMAIN table /\ table[c.id] = c
  <2> TAKE c \in InitialClips
  <2>1. c.id \in DOMAIN table
    BY <1>2
  <2> QED
    BY <1>3, <2>1, InitialClipsSane
<1>5. clips = RowsOf(table)
  <2>1. \A c \in InitialClips : c \in RowsOf(table)
    BY <1>4 DEF RowsOf
  <2>2. \A c \in RowsOf(table) : c \in InitialClips
    BY <1>3 DEF RowsOf
  <2>3. clips = InitialClips
    BY <1>2
  <2> QED
    BY <2>1, <2>2, <2>3
<1>6. LongInv
  BY <1>3, InitialClipsSane DEF LongInv
<1>7. CallsInv
  BY <1>1, <1>2, <1>5, <1>6, SettledChain
<1>8. CalmInv /\ InboxInv /\ DragInv
  <2>1. Len(calls) = 0
    BY <1>2
  <2> QED
    BY <1>2, <2>1 DEF CalmInv, InboxInv, DragInv
<1> QED
  BY <1>6, <1>7, <1>8 DEF SyncInv

LEMMA StutterSync ==
    ASSUME SyncInv, UNCHANGED editorVars
    PROVE  SyncInv'
<1>1. UNCHANGED <<clips, undo, drag, calls, inbox, table, fresh, faults>>
  BY DEF editorVars, tabVars, netVars, serverVars
<1>2. CallsInv'
  <2>1. Pending' /\ QueueInv'
    BY <1>1 DEF SyncInv, CallsInv, Pending, QueueInv
  <2>2. ASSUME NEW h \in Chains, Chain(h) PROVE h \in Chains' /\ Chain(h)'
    BY <1>1, <2>2 DEF Chains, Chain
  <2>3. inbox' = <<>> => \E h \in Chains' : Chain(h)'
    BY <1>1, <2>2 DEF SyncInv, CallsInv
  <2> QED
    BY <2>1, <2>3 DEF CallsInv
<1>3. CalmInv'
  BY <1>1 DEF SyncInv, CalmInv, RowsOf
<1>4. InboxInv' /\ DragInv' /\ LongInv'
  BY <1>1 DEF SyncInv, InboxInv, DragInv, LongInv, RowsOf
<1> QED
  BY <1>2, <1>3, <1>4 DEF SyncInv

LEMMA FaultsStay ==
    ASSUME [EditorNext]_editorVars
    PROVE  faults' = faults
<1>1. CASE UserEdits \/ Undo \/ Redo \/ AskProject \/ Release
  BY <1>1 DEF UserEdits, Undo, Redo, AskProject, Release, AddClip, Grab, MoveClip, TrimLeft,
     TrimRight, SplitClipAt, SplitOutside, DeleteClips, UserActs, Step
<1>2. ASSUME NEW k \in DOMAIN calls,
             ServerServes(k) \/ Refuse(k) \/ Drop(k) \/ LoseAnswer(k) \/ TabHears(k)
      PROVE  faults' = faults
  BY <1>2 DEF ServerServes, ServeAdd, ServeUpdate, ServeDelete, ServeSplit, ServeProject, Refuse,
     Drop, LoseAnswer, TabHears, AnswerAdd, AnswerSplit, RollBack, LoadProject
<1>3. CASE \E pos \in Positions, dur \in Durations :
              OthersAdd(pos, dur) \/ \E c \in DOMAIN table : OthersUpdate(c, pos, dur)
  BY <1>3 DEF OthersAdd, OthersUpdate, OthersAct, Step
<1>4. CASE \E c \in DOMAIN table : OthersDelete(c)
  BY <1>4 DEF OthersDelete, OthersAct, Step
<1>5. CASE Receive
  BY <1>5 DEF Receive
<1>6. CASE UNCHANGED editorVars
  BY <1>6 DEF editorVars
<1> QED
  BY <1>1, <1>2, <1>3, <1>4, <1>5, <1>6 DEF EditorNext

LEMMA NextSync ==
    ASSUME EditorInv, EditorInv', InStep => SyncInv, [EditorNext]_editorVars
    PROVE  InStep' => SyncInv'
<1> SUFFICES ASSUME InStep' PROVE SyncInv'
  OBVIOUS
<1>0. InStep /\ SyncInv
  BY FaultsStay DEF InStep
<1>1. CASE UserEdits \/ Undo \/ Redo \/ AskProject \/ Release
  BY <1>0, <1>1, UserSync
<1>2. ASSUME NEW k \in DOMAIN calls, ServerServes(k) \/ Refuse(k) \/ Drop(k) \/ LoseAnswer(k)
      PROVE  SyncInv'
  BY <1>0, <1>2, ServerSync
<1>3. ASSUME NEW k \in DOMAIN calls, TabHears(k)
      PROVE  SyncInv'
  BY <1>0, <1>3, AnswerAddSync, AnswerSplitSync, RollBackSync, LoadProjectSync DEF TabHears
<1>4. CASE \/ \E pos \in Positions, dur \in Durations :
                  OthersAdd(pos, dur) \/ \E c \in DOMAIN table : OthersUpdate(c, pos, dur)
           \/ \E c \in DOMAIN table : OthersDelete(c)
  BY <1>0, <1>4, OthersSync
<1>5. CASE Receive
  BY <1>0, <1>5, ReceiveSync
<1>6. CASE UNCHANGED editorVars
  BY <1>0, <1>6, StutterSync
<1> QED
  BY <1>1, <1>2, <1>3, <1>4, <1>5, <1>6 DEF EditorNext

LEMMA SyncInvariant == EditorSpec => [](EditorInv /\ (InStep => SyncInv))
<1>1. EditorInit => EditorInv /\ (InStep => SyncInv)
  BY InitTypes, InitSync
<1>2. EditorInv /\ (InStep => SyncInv) /\ [EditorNext]_editorVars
          => (EditorInv /\ (InStep => SyncInv))'
  BY NextTypes, NextSync
<1> QED
  BY <1>1, <1>2, PTL DEF EditorSpec

\* What is shown when the tab can follow the server, whatever is on its way.
LEMMA ShownIds ==
    ASSUME EditorInv, InStep, SyncInv
    PROVE  /\ \A c, d \in clips : c.id = d.id => c = d
           /\ \A c \in clips : c.id \in TmpIds => \E k \in DOMAIN calls : calls[k].tmp = c.id
           /\ Settled => clips = RowsOf(table)
<1>1. \A c, d \in clips : c.id = d.id => c = d
  <2>1. CASE inbox = <<>>
    BY <2>1, ShownClips DEF SyncInv, Proper
  <2>2. CASE inbox # <<>>
    BY <2>2 DEF SyncInv, InboxInv, Proper
  <2> QED
    BY <2>1, <2>2
<1>2. DOMAIN calls = 1 .. Len(calls)
  BY LenProperties DEF EditorInv, NetOK
<1>3. \A c \in clips : c.id \in TmpIds => \E k \in DOMAIN calls : calls[k].tmp = c.id
  BY <1>2 DEF SyncInv, CallsInv, Pending
<1>4. Settled => clips = RowsOf(table)
  BY ShownClips DEF SyncInv, Settled
<1> QED
  BY <1>1, <1>3, <1>4

\* projectStore: what the tab shows has one clip for each id, and a temporary id on
\* screen waits for an answer, wherever the tab can follow the server.
THEOREM EditorCorrect == EditorSpec => []EditorOK
<1>1. EditorInv /\ (InStep => SyncInv) => OneClipPerId /\ TmpIsPending
  BY ShownIds DEF OneClipPerId, TmpIsPending, IdsUnique
<1> QED
  BY <1>1, SyncInvariant, EditorTypeCorrect, PTL DEF EditorOK

\* projectStore and the API: once every call is answered and every event received, the
\* tab shows the server's clips, however fast the user edited, or whatever splits were
\* refused, others edited and reloads came in between.
THEOREM EditorSettledAgrees == EditorSpec => []SettledAgrees
<1>1. EditorInv /\ (InStep => SyncInv) => SettledAgrees
  BY ShownIds DEF SettledAgrees
<1> QED
  BY <1>1, SyncInvariant, PTL
=============================================================================
