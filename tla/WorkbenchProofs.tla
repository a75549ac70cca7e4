-------------------------- MODULE WorkbenchProofs ---------------------------
(***************************************************************************)
(* Proofs about Workbench: whatever the user does with the mouse and the   *)
(* keyboard, whatever the server answers and whatever others do meanwhile, *)
(* the types hold (no clip too short, no id given out twice, no clip on a  *)
(* track of another type), the marks of the history panel follow its       *)
(* cursor, a drag is one undo step, the snap line tells the truth, and a   *)
(* paste keeps the shape of what was copied.                               *)
(*                                                                         *)
(* The invariant is WorkbenchInv: the picture and every snapshot use ids   *)
(* that have been given out, the closure of a gesture agrees with itself,  *)
(* and what the snap line says was so when it was drawn.                   *)
(***************************************************************************)
EXTENDS Workbench, SequenceTheorems, FiniteSetTheorems, WellFoundedInduction, TLAPS

-----------------------------------------------------------------------------
(* Numbers and sequences.                                                   *)

\* A set of natural numbers has a least one.
LEMMA NatMin ==
    ASSUME NEW T \in SUBSET Nat, T # {}
    PROVE  \E x \in T : \A y \in T : x <= y
<1> DEFINE R == {ss \in Nat \X Nat : ss[1] < ss[2]}
<1>1. IsWellFoundedOn(R, Nat)
  BY NatLessThanWellFounded DEF OpToRel
<1>2. PICK x \in T : \A y \in T : ~ (<<y, x>> \in R)
  <2> HIDE DEF R
  <2> QED
    BY <1>1, WFMin
<1>3. \A y \in T : <<y, x>> \in R <=> y < x
  OBVIOUS
<1>4. \A y \in T : ~(y < x)
  BY <1>2, <1>3
<1>5. \A y \in T : y \in Nat /\ x \in Nat
  OBVIOUS
<1> HIDE DEF R
<1>6. \A y \in T : x <= y
  BY <1>4, <1>5
<1> QED
  BY <1>6

\* What is left of a sequence and in which order.
LEMMA WithoutOne ==
    ASSUME NEW S, NEW s \in Seq(S), NEW i \in DOMAIN s
    PROVE  /\ RemoveAt(s, i) \in Seq(S)
           /\ \A k \in DOMAIN RemoveAt(s, i) :
                 /\ (IF k < i THEN k ELSE k + 1) \in DOMAIN s
                 /\ k \in Int
                 /\ RemoveAt(s, i)[k] = s[IF k < i THEN k ELSE k + 1]
<1>1. DOMAIN s = 1 .. Len(s) /\ Len(s) \in Nat /\ i \in 1 .. Len(s)
  BY LenProperties
<1>2. /\ SubSeq(s, 1, i - 1) \in Seq(S) /\ Len(SubSeq(s, 1, i - 1)) = i - 1
      /\ \A k \in 1 .. i - 1 : SubSeq(s, 1, i - 1)[k] = s[k]
  BY <1>1, SubSeqProperties
<1>3. /\ SubSeq(s, i + 1, Len(s)) \in Seq(S) /\ Len(SubSeq(s, i + 1, Len(s))) = Len(s) - i
      /\ \A k \in 1 .. Len(s) - i : SubSeq(s, i + 1, Len(s))[k] = s[i + k]
  BY <1>1, SubSeqProperties
<1> DEFINE A == SubSeq(s, 1, i - 1)
           B == SubSeq(s, i + 1, Len(s))
<1>4. RemoveAt(s, i) = A \o B
  BY DEF RemoveAt
<1> HIDE DEF A, B
<1>5. /\ A \in Seq(S) /\ Len(A) = i - 1 /\ \A k \in 1 .. i - 1 : A[k] = s[k]
      /\ B \in Seq(S) /\ Len(B) = Len(s) - i /\ \A k \in 1 .. Len(s) - i : B[k] = s[i + k]
  BY <1>2, <1>3 DEF A, B
<1>6. /\ A \o B \in Seq(S) /\ Len(A \o B) = Len(s) - 1
      /\ \A k \in 1 .. Len(s) - 1 : (A \o B)[k] = IF k <= i - 1 THEN A[k] ELSE B[k - (i - 1)]
  <2>1. /\ A \o B \in Seq(S) /\ Len(A \o B) = Len(A) + Len(B)
        /\ \A k \in 1 .. Len(A) + Len(B) : (A \o B)[k] = IF k <= Len(A) THEN A[k] ELSE B[k - Len(A)]
    BY <1>5, ConcatProperties
  <2>2. Len(A) + Len(B) = Len(s) - 1
    BY <1>1, <1>5
  <2> QED
    BY <1>5, <2>1, <2>2
<1>7. ASSUME NEW k \in 1 .. Len(s) - 1
      PROVE  /\ (IF k < i THEN k ELSE k + 1) \in DOMAIN s
             /\ (A \o B)[k] = s[IF k < i THEN k ELSE k + 1]
  <2>1. CASE k < i
    <3>1. k \in DOMAIN s /\ k \in 1 .. i - 1 /\ k <= i - 1
      BY <1>1, <2>1
    <3>2. (A \o B)[k] = A[k]
      BY <1>6, <3>1
    <3> QED
      BY <1>5, <2>1, <3>1, <3>2
  <2>2. CASE ~(k < i)
    <3>1. k - (i - 1) \in 1 .. Len(s) - i /\ k + 1 \in DOMAIN s /\ ~(k <= i - 1)
      BY <1>1, <2>2
    <3>2. (A \o B)[k] = B[k - (i - 1)]
      BY <1>6, <3>1
    <3>3. B[k - (i - 1)] = s[i + (k - (i - 1))] /\ i + (k - (i - 1)) = k + 1
      BY <1>1, <1>5, <3>1
    <3> QED
      BY <2>2, <3>1, <3>2, <3>3
  <2> QED
    BY <2>1, <2>2
<1>8. DOMAIN (A \o B) = 1 .. Len(s) - 1
  BY <1>6, LenProperties
<1>9. \A k \in 1 .. Len(s) - 1 : k \in Int
  BY <1>1
<1> QED
  BY <1>4, <1>6, <1>7, <1>8, <1>9

LEMMA FirstOf ==
    ASSUME NEW S, NEW s \in Seq(S), s # <<>>
    PROVE  Head(s) = s[1] /\ Head(s) \in S /\ Len(s) >= 1
  BY HeadTailProperties, LenProperties, EmptySeq

\* A function on the first numbers is a sequence.
LEMMA SeqOfFunction ==
    ASSUME NEW S, NEW n \in Nat, NEW f \in [1 .. n -> S]
    PROVE  f \in Seq(S) /\ Len(f) = n
<1>1. f \in Seq(S)
  BY SeqDef
<1>2. DOMAIN f = 1 .. n /\ DOMAIN f = 1 .. Len(f) /\ Len(f) \in Nat
  BY <1>1, LenProperties
<1> QED
  BY <1>1, <1>2

\* pushSnapshot keeps the newest MAX_UNDO.
LEMMA CappedKeeps ==
    ASSUME NEW S, NEW top \in Seq(S), NEW rest \in Seq(S)
    PROVE  /\ Capped(top \o rest) \in Seq(S) /\ Len(Capped(top \o rest)) <= MaxUndo
           /\ top # <<>> => Capped(top \o rest) # <<>> /\ Head(Capped(top \o rest)) = Head(top)
           /\ Len(top) \in Nat /\ Len(rest) \in Nat /\ Len(Capped(top \o rest)) \in Nat
           /\ \A i \in 1 .. Len(rest) :
                Len(top) + i <= MaxUndo => /\ Len(top) + i <= Len(Capped(top \o rest))
                                           /\ Capped(top \o rest)[Len(top) + i] = rest[i]
<1> DEFINE s == top \o rest
           m == IF Len(s) < MaxUndo THEN Len(s) ELSE MaxUndo
<1>1. /\ s \in Seq(S) /\ Len(s) = Len(top) + Len(rest) /\ Len(s) \in Nat
      /\ Len(top) \in Nat /\ Len(rest) \in Nat
      /\ \A i \in 1 .. Len(top) + Len(rest) : s[i] = IF i <= Len(top) THEN top[i] ELSE rest[i - Len(top)]
  BY ConcatProperties, LenProperties
<1>2. MaxUndo \in Nat /\ MaxUndo >= 1
  BY WorkbenchNumbers
<1> HIDE DEF s
<1>3. m \in Nat /\ m <= MaxUndo /\ m <= Len(s) /\ (Len(s) >= 1 => m >= 1)
  BY <1>1, <1>2
<1>4. \A i \in 1 .. m : s[i] \in S
  <2>1. \A i \in 1 .. m : i \in 1 .. Len(s)
    BY <1>1, <1>3
  <2> QED
    BY <1>1, <2>1, ElementOfSeq
<1> HIDE DEF m
<1>5. /\ SubSeq(s, 1, m) \in Seq(S) /\ Len(SubSeq(s, 1, m)) = m
      /\ \A i \in 1 .. m : SubSeq(s, 1, m)[i] = s[i]
  BY <1>1, <1>3, <1>4, SubSeqProperties
<1>6. Capped(s) = SubSeq(s, 1, m)
  BY DEF Capped, m
<1>7. ASSUME top # <<>>
      PROVE  SubSeq(s, 1, m) # <<>> /\ Head(SubSeq(s, 1, m)) = Head(top)
  <2>1. Head(top) = top[1] /\ Len(top) >= 1
    BY <1>7, FirstOf
  <2>2. m >= 1 /\ s[1] = top[1]
    BY <1>1, <1>3, <2>1
  <2>3. SubSeq(s, 1, m) # <<>>
    BY <1>3, <1>5, <2>2, EmptySeq
  <2>4. Head(SubSeq(s, 1, m)) = SubSeq(s, 1, m)[1]
    BY <1>5, <2>3, FirstOf
  <2> QED
    BY <1>3, <1>5, <2>1, <2>2, <2>3, <2>4
<1>8. ASSUME NEW i \in 1 .. Len(rest), Len(top) + i <= MaxUndo
      PROVE  Len(top) + i <= m /\ SubSeq(s, 1, m)[Len(top) + i] = rest[i]
  <2>1. Len(top) + i \in 1 .. Len(s) /\ Len(top) + i <= m
    BY <1>1, <1>2, <1>8 DEF m
  <2>2. SubSeq(s, 1, m)[Len(top) + i] = s[Len(top) + i]
    BY <1>1, <1>3, <1>5, <2>1
  <2>3. s[Len(top) + i] = rest[i]
    BY <1>1
  <2> QED
    BY <2>1, <2>2, <2>3
<1> QED
  BY <1>1, <1>3, <1>5, <1>6, <1>7, <1>8 DEF s

-----------------------------------------------------------------------------
(* What the tab shows, and its stacks.                                      *)

LongClip == {c \in Clip : c.dur >= MinDur}
ClipSets == UNION {[D -> LongClip] : D \in SUBSET Ids}
KindsKept(c) == \A id \in DOMAIN c \cap DOMAIN Clips0 : KindOf[c[id].track] = KindOf[Clips0[id].track]

\* A picture of the project, in which no id is used that has yet to be given out.
Shots(new) ==
    {s \in [clips : ClipSets, effects : [Ids -> Lists], tracks : SUBSET Tracks] :
        KindsKept(s.clips) /\ DOMAIN s.clips \cap new = {}}

PictureInv == Shot \in Shots(fresh) /\ fresh \subseteq TmpIds
StacksInv ==
    /\ undo \in Seq(Shots(fresh)) /\ Len(undo) <= MaxUndo
    /\ redo \in Seq(Shots(fresh)) /\ Len(redo) <= MaxUndo

\* What a gesture has captured agrees with itself.
DragInv ==
    drag # None =>
      /\ drag \in Gestures
      /\ KindOf[drag.track] = drag.kind
      /\ drag.id \in DOMAIN Clips0 => KindOf[Clips0[drag.id].track] = drag.kind
      /\ drag.above >= 0 => drag.above < Len(undo) /\ undo[drag.above + 1] = drag.shot

LEMMA ShotsFewerNew ==
    ASSUME NEW new, NEW less, less \subseteq new
    PROVE  /\ Shots(new) \subseteq Shots(less)
           /\ \A s \in Seq(Shots(new)) : s \in Seq(Shots(less))
<1>1. Shots(new) \subseteq Shots(less)
  BY DEF Shots
<1> QED
  BY <1>1, SeqMonotonic

LEMMA ShotMeans ==
    ASSUME NEW new, NEW c, NEW e, NEW t
    PROVE  [clips |-> c, effects |-> e, tracks |-> t] \in Shots(new)
             <=> /\ c \in ClipSets /\ e \in [Ids -> Lists] /\ t \subseteq Tracks
                 /\ KindsKept(c) /\ DOMAIN c \cap new = {}
  BY DEF Shots

\* A function on ids with long clips is a set of clips.
LEMMA ClipSetMeans ==
    ASSUME NEW D, D \subseteq Ids, NEW c \in [D -> LongClip]
    PROVE  c \in ClipSets
  BY DEF ClipSets

LEMMA ClipSetHas ==
    ASSUME NEW c \in ClipSets
    PROVE  /\ DOMAIN c \subseteq Ids /\ c \in [DOMAIN c -> LongClip]
           /\ \A id \in DOMAIN c : /\ c[id] \in LongClip /\ c[id].pos \in Nat /\ c[id].dur \in Nat
                                   /\ c[id].dur >= MinDur /\ c[id].track \in Tracks
  BY DEF ClipSets, LongClip, Clip

\* Some clips put over others.
LEMMA OverOf ==
    ASSUME NEW c \in ClipSets, NEW new \in ClipSets
    PROVE  /\ Over(new, c) \in ClipSets /\ DOMAIN Over(new, c) = DOMAIN new \cup DOMAIN c
           /\ KindsKept(c) /\ KindsKept(new) => KindsKept(Over(new, c))
<1>1. DOMAIN Over(new, c) = DOMAIN new \cup DOMAIN c
  BY DEF Over
<1>2. \A id \in DOMAIN new \cup DOMAIN c : Over(new, c)[id] = IF id \in DOMAIN new THEN new[id] ELSE c[id]
  BY DEF Over
<1>3. Over(new, c) \in [DOMAIN new \cup DOMAIN c -> LongClip]
  BY ClipSetHas DEF Over
<1>4. DOMAIN new \cup DOMAIN c \subseteq Ids
  BY ClipSetHas
<1>5. Over(new, c) \in ClipSets
  BY <1>3, <1>4, ClipSetMeans
<1> QED
  BY <1>1, <1>2, <1>5 DEF KindsKept

\* Some clips taken away.
LEMMA RestrictOf ==
    ASSUME NEW c \in ClipSets, NEW D, D \subseteq DOMAIN c
    PROVE  /\ Restrict(c, D) \in ClipSets /\ DOMAIN Restrict(c, D) = D
           /\ KindsKept(c) => KindsKept(Restrict(c, D))
<1>1. DOMAIN Restrict(c, D) = D /\ \A id \in D : Restrict(c, D)[id] = c[id]
  BY DEF Restrict
<1>2. Restrict(c, D) \in [D -> LongClip] /\ D \subseteq Ids
  BY ClipSetHas DEF Restrict
<1>3. Restrict(c, D) \in ClipSets
  BY <1>2, ClipSetMeans
<1> QED
  BY <1>1, <1>3 DEF KindsKept

\* pushSnapshot.
LEMMA PushKeeps ==
    ASSUME PictureInv, StacksInv, fresh' \subseteq fresh, NEW shots \in Seq(Shots(fresh')), Pushed(shots)
    PROVE  StacksInv' /\ (shots # <<>> => undo' # <<>> /\ Head(undo') = Head(shots))
<1>1. undo \in Seq(Shots(fresh')) /\ undo' = Capped(shots \o undo) /\ redo' = <<>>
  BY ShotsFewerNew DEF StacksInv, Pushed
<1>2. /\ undo' \in Seq(Shots(fresh')) /\ Len(undo') <= MaxUndo
      /\ shots # <<>> => undo' # <<>> /\ Head(undo') = Head(shots)
  BY <1>1, CappedKeeps
<1>3. redo' \in Seq(Shots(fresh')) /\ Len(redo') <= MaxUndo
  BY <1>1, EmptySeq, WorkbenchNumbers
<1> QED
  BY <1>2, <1>3 DEF StacksInv

LEMMA OneShot ==
    ASSUME PictureInv, StacksInv, fresh' = fresh, Pushed(<<Shot>>)
    PROVE  StacksInv' /\ Len(undo') > 0 /\ undo'[1] = Shot
<1>1. <<Shot>> \in Seq(Shots(fresh')) /\ <<Shot>> # <<>> /\ Head(<<Shot>>) = Shot
  BY DEF PictureInv
<1>2. StacksInv' /\ undo' # <<>> /\ Head(undo') = Shot
  BY <1>1, PushKeeps
<1>3. undo' \in Seq(Shots(fresh'))
  BY <1>2 DEF StacksInv
<1> QED
  BY <1>2, <1>3, FirstOf

Sunk(n) == IF drag.above >= 0 /\ drag.above + n < MaxUndo THEN drag.above + n ELSE -1
LEMMA SunkIsDrag ==
    ASSUME DragInv, drag # None, NEW n \in Int, n >= -1, Sinks(n)
    PROVE  /\ drag' \in Gestures /\ drag' # None /\ drag'.above = Sunk(n) /\ drag.above \in Int
           /\ drag'.shot = drag.shot /\ drag'.track = drag.track /\ drag'.kind = drag.kind
           /\ drag'.id = drag.id /\ drag'.dur = drag.dur
<1>1. drag \in Gestures /\ drag.above \in -1 .. MaxUndo /\ MaxUndo \in Nat
  BY WorkbenchNumbers DEF DragInv, Gestures
<1>2. drag' = [drag EXCEPT !.above = Sunk(n)] /\ Sunk(n) \in -1 .. MaxUndo
  BY <1>1 DEF Sinks, Sunk
<1> HIDE DEF Sunk
<1>3. /\ drag' \in Gestures /\ drag'.above = Sunk(n) /\ drag.above \in Int
      /\ drag'.shot = drag.shot /\ drag'.track = drag.track /\ drag'.kind = drag.kind
      /\ drag'.id = drag.id /\ drag'.dur = drag.dur
  BY <1>1, <1>2 DEF Gestures
<1> QED
  BY <1>3, WorkbenchIds

\* Where the mousedown's snapshot has gone, if every snapshot still in the stack has gone
\* n places down.
LEMMA SinkKeeps ==
    ASSUME DragInv, NEW n \in Int, n >= -1, Sinks(n),
           \A p \in Nat : p < Len(undo) /\ p + n >= 0 /\ p + n < MaxUndo
                            => p + n < Len(undo') /\ undo'[p + n + 1] = undo[p + 1]
    PROVE  DragInv'
<1>1. CASE drag = None
  BY <1>1 DEF DragInv, Sinks
<1>2. CASE drag # None
  <2>1. ASSUME Sunk(n) >= 0
        PROVE  Sunk(n) < Len(undo') /\ undo'[Sunk(n) + 1] = drag.shot
    <3>1. drag.above \in Nat /\ drag.above + n >= 0 /\ drag.above + n < MaxUndo /\ Sunk(n) = drag.above + n
      BY <1>2, <2>1, SunkIsDrag DEF Sunk
    <3>2. drag.above < Len(undo) /\ undo[drag.above + 1] = drag.shot
      BY <1>2, <3>1 DEF DragInv
    <3> QED
      BY <3>1, <3>2
  <2>2. KindOf[drag.track] = drag.kind /\ (drag.id \in DOMAIN Clips0 => KindOf[Clips0[drag.id].track] = drag.kind)
    BY <1>2 DEF DragInv
  <2> QED
    BY <1>2, <2>1, <2>2, SunkIsDrag DEF DragInv
<1> QED
  BY <1>1, <1>2

\* Snapshots pushed on top of it.
LEMMA PushSinks ==
    ASSUME DragInv, NEW S, undo \in Seq(S), NEW shots \in Seq(S),
           undo' = Capped(shots \o undo), Sinks(Len(shots))
    PROVE  DragInv'
<1>1. /\ Len(shots) \in Nat /\ Len(undo) \in Nat /\ Len(undo') \in Nat
      /\ \A i \in 1 .. Len(undo) : Len(shots) + i <= MaxUndo =>
            Len(shots) + i <= Len(undo') /\ undo'[Len(shots) + i] = undo[i]
  BY CappedKeeps
<1>2. ASSUME NEW p \in Nat, p < Len(undo), p + Len(shots) >= 0, p + Len(shots) < MaxUndo
      PROVE  p + Len(shots) < Len(undo') /\ undo'[p + Len(shots) + 1] = undo[p + 1]
  <2>1. p + 1 \in 1 .. Len(undo) /\ Len(shots) + (p + 1) <= MaxUndo /\ Len(shots) + (p + 1) = p + Len(shots) + 1
    BY <1>1, <1>2, WorkbenchNumbers
  <2>2. Len(shots) + (p + 1) <= Len(undo') /\ undo'[Len(shots) + (p + 1)] = undo[p + 1]
    BY <1>1, <2>1
  <2> QED
    BY <1>1, <2>1, <2>2
<1> QED
  BY <1>1, <1>2, SinkKeeps

LEMMA OneSinks ==
    ASSUME PictureInv, StacksInv, DragInv, undo' = Capped(<<Shot>> \o undo), Sinks(1)
    PROVE  DragInv'
<1>1. <<Shot>> \in Seq(Shots(fresh)) /\ Len(<<Shot>>) = 1 /\ undo \in Seq(Shots(fresh))
  BY DEF PictureInv, StacksInv
<1> QED
  BY <1>1, PushSinks

\* The topmost taken away.
LEMMA TailSinks ==
    ASSUME StacksInv, DragInv, undo # <<>>, undo' = Tail(undo), Sinks(-1)
    PROVE  DragInv'
<1>1. /\ Len(undo) \in Nat /\ Len(undo') = Len(undo) - 1
      /\ \A i \in 1 .. Len(undo) - 1 : undo'[i] = undo[i + 1]
  BY HeadTailProperties, LenProperties DEF StacksInv
<1>2. ASSUME NEW p \in Nat, p < Len(undo), p + -1 >= 0
      PROVE  p + -1 < Len(undo') /\ undo'[p + -1 + 1] = undo[p + 1]
  <2>1. p \in 1 .. Len(undo) - 1 /\ p + -1 + 1 = p
    BY <1>1, <1>2
  <2> QED
    BY <1>1, <2>1
<1> QED
  BY <1>2, SinkKeeps

\* undoLocal and redoLocal.
LEMMA UndoKeeps ==
    ASSUME PictureInv, StacksInv, DragInv, fresh' = fresh, UndoLocal \/ RedoLocal
    PROVE  PictureInv' /\ StacksInv' /\ DragInv'
<1>1. CASE UNCHANGED <<picture, stacks, drag>>
  BY <1>1 DEF picture, stacks, PictureInv, StacksInv, DragInv, Shot
<1>2. ASSUME NEW from \in Seq(Shots(fresh)), NEW to \in Seq(Shots(fresh)), Len(from) <= MaxUndo,
             from # <<>>, Shown(Head(from))
      PROVE  /\ PictureInv'
             /\ Tail(from) \in Seq(Shots(fresh')) /\ Len(Tail(from)) <= MaxUndo
             /\ Capped(<<Shot>> \o to) \in Seq(Shots(fresh')) /\ Len(Capped(<<Shot>> \o to)) <= MaxUndo
  <2>1. Head(from) \in Shots(fresh) /\ Tail(from) \in Seq(Shots(fresh)) /\ Len(Tail(from)) = Len(from) - 1
        /\ Len(from) \in Nat
    BY <1>2, HeadTailProperties, LenProperties
  <2>2. Shot' = Head(from)
    <3>1. Head(from) = [clips |-> Head(from).clips, effects |-> Head(from).effects, tracks |-> Head(from).tracks]
      BY <2>1 DEF Shots
    <3> QED
      BY <1>2, <3>1 DEF Shown, Shot
  <2>3. <<Shot>> \in Seq(Shots(fresh))
    BY DEF PictureInv
  <2>4. Capped(<<Shot>> \o to) \in Seq(Shots(fresh)) /\ Len(Capped(<<Shot>> \o to)) <= MaxUndo
    BY <1>2, <2>3, CappedKeeps
  <2>5. Len(Tail(from)) <= MaxUndo
    BY <1>2, <2>1, WorkbenchNumbers
  <2> QED
    BY <1>2, <2>1, <2>2, <2>4, <2>5 DEF PictureInv
<1>3. CASE undo # <<>> /\ UndoLocal
  <2>1. Shown(Head(undo)) /\ undo' = Tail(undo) /\ redo' = Capped(<<Shot>> \o redo) /\ Sinks(-1)
    BY <1>3 DEF UndoLocal
  <2> QED
    BY <1>2, <1>3, <2>1, TailSinks DEF StacksInv
<1>4. CASE redo # <<>> /\ RedoLocal
  <2>1. Shown(Head(redo)) /\ redo' = Tail(redo) /\ undo' = Capped(<<Shot>> \o undo) /\ Sinks(1)
    BY <1>4 DEF RedoLocal
  <2> QED
    BY <1>2, <1>4, <2>1, OneSinks DEF StacksInv
<1> QED
  BY <1>1, <1>3, <1>4 DEF UndoLocal, RedoLocal

-----------------------------------------------------------------------------
(* The other invariants.                                                    *)

\* Ids are given out once: what is selected and what the server was asked of has its own.
IdInv ==
    /\ \E D \in SUBSET (TmpIds \ fresh) : awaited \in [D -> {None} \cup {d \in Nat : d >= MinDur}]
    /\ selected \in Seq(Ids \ fresh) /\ IsInjective(selected)
MiscInv ==
    /\ time \in Nat /\ clipboard \in Seq(LongClip)
    /\ browsing \in BOOLEAN /\ canEdit \in BOOLEAN /\ asked \in BOOLEAN /\ topics \in TopicSets
HistInv == entries \in Seq(BOOLEAN) /\ HistoryMarks

\* The snap line: where the drag put the clip, one of its edges is on the line.
LineInv ==
    line # None =>
      /\ drag # None
      /\ line.at \in {line.pos, line.pos + drag.dur}

WorkbenchInv == PictureInv /\ StacksInv /\ DragInv /\ IdInv /\ MiscInv /\ HistInv /\ LineInv

\* The ids given out next: each once.
LEMMA NewIdsOf ==
    ASSUME NEW S, IsFiniteSet(S)
    PROVE  SetToSeq(S) \in [1 .. Cardinality(S) -> S] /\ IsInjective(SetToSeq(S)) /\ Cardinality(S) \in Nat
<1>1. Cardinality(S) \in Nat /\ ExistsBijection(1 .. Cardinality(S), S)
  BY FS_CardinalityType
<1>2. \E f \in [1 .. Cardinality(S) -> S] : IsInjective(f)
  BY <1>1 DEF ExistsBijection, Bijection, Injection
<1> QED
  BY <1>1, <1>2 DEF SetToSeq

LEMMA NewIdsOnce ==
    ASSUME PictureInv
    PROVE  /\ NewIds \in Seq(fresh) /\ Len(NewIds) \in Nat
           /\ \A i \in 1 .. Len(NewIds) : NewIds[i] \in fresh /\ NumberOf(NewIds[i]) = i
           /\ \A i, j \in 1 .. Len(NewIds) : NewIds[i] = NewIds[j] => i = j
<1>1. TmpIds \subseteq Ids /\ fresh \in SUBSET Ids
  BY DEF PictureInv, Ids
<1>2. IsFiniteSet(fresh)
  BY <1>1, WorkbenchIds, FS_Subset
<1>3. NewIds \in [1 .. Cardinality(fresh) -> fresh] /\ IsInjective(NewIds) /\ Cardinality(fresh) \in Nat
  BY <1>2, NewIdsOf DEF NewIds
<1>4. NewIds \in Seq(fresh) /\ Len(NewIds) = Cardinality(fresh)
  BY <1>3, SeqOfFunction
<1>5. \A i, j \in 1 .. Len(NewIds) : NewIds[i] = NewIds[j] => i = j
  BY <1>3, <1>4 DEF IsInjective
<1>6. ASSUME NEW i \in 1 .. Len(NewIds)
      PROVE  NumberOf(NewIds[i]) = i
  <2>1. \E j \in 1 .. Len(NewIds) : NewIds[j] = NewIds[i]
    OBVIOUS
  <2>2. NumberOf(NewIds[i]) \in 1 .. Len(NewIds) /\ NewIds[NumberOf(NewIds[i])] = NewIds[i]
    BY <2>1 DEF NumberOf
  <2> QED
    BY <1>5, <2>2
<1> QED
  BY <1>3, <1>4, <1>5, <1>6

LEMMA AnchorType ==
    ASSUME MiscInv, clipboard # <<>>
    PROVE  Anchor \in Nat
<1> DEFINE T == {clipboard[i].pos : i \in 1 .. Len(clipboard)}
<1>1. /\ Len(clipboard) \in Nat /\ Len(clipboard) >= 1
      /\ \A i \in 1 .. Len(clipboard) : clipboard[i] \in LongClip
  <2>1. clipboard \in Seq(LongClip)
    BY DEF MiscInv
  <2> QED
    BY <2>1, FirstOf, LenProperties, ElementOfSeq
<1>2. T \in SUBSET Nat
  BY <1>1 DEF LongClip, Clip
<1>3. clipboard[1].pos \in T
  BY <1>1
<1> HIDE DEF T
<1>4. \E x \in T : \A y \in T : x <= y
  BY <1>2, <1>3, NatMin
<1>5. Min(T) \in T
  BY <1>4 DEF Min
<1> QED
  BY <1>2, <1>5 DEF Anchor, T

\* What an edit that takes a snapshot does to the picture: the clips it leaves are good ones.
LEMMA PictureNew ==
    ASSUME PictureInv, fresh' \subseteq fresh, clips' \in ClipSets, KindsKept(clips'),
           DOMAIN clips' \cap fresh' = {}, effects' \in [Ids -> Lists], tracks' \subseteq Tracks
    PROVE  PictureInv'
<1>1. Shot' = [clips |-> clips', effects |-> effects', tracks |-> tracks']
  BY DEF Shot
<1>2. Shot' \in Shots(fresh')
  BY <1>1, ShotMeans
<1> QED
  BY <1>2 DEF PictureInv

LEMMA PictureHas ==
    ASSUME PictureInv
    PROVE  /\ clips \in ClipSets /\ effects \in [Ids -> Lists] /\ tracks \subseteq Tracks
           /\ KindsKept(clips) /\ DOMAIN clips \cap fresh = {} /\ fresh \subseteq TmpIds
           /\ TmpIds \subseteq Ids /\ DOMAIN Clips0 \subseteq Ids
  BY ShotMeans DEF PictureInv, Shot, Ids

\* Several edits of the clips, each with its snapshot: enough that all the pictures in
\* between are good, and that no id is taken back.
LEMMA DoneKeeps ==
    ASSUME PictureInv, StacksInv, DragInv, IdInv,
           NEW n \in Nat, NEW after, DOMAIN after = 0 .. n,
           \A k \in 0 .. n : /\ after[k] \in ClipSets /\ KindsKept(after[k])
                             /\ DOMAIN after[k] \subseteq DOMAIN after[n],
           NEW D \in SUBSET (DOMAIN after[n] \cap TmpIds),
           NEW asks \in [D -> {None} \cup {d \in Nat : d >= MinDur}],
           Done(n, after, asks)
    PROVE  /\ PictureInv' /\ StacksInv' /\ DragInv' /\ fresh' \subseteq fresh
           /\ \E E \in SUBSET (TmpIds \ fresh') : awaited' \in [E -> {None} \cup {d \in Nat : d >= MinDur}]
<1>1. /\ clips' = after[n] /\ Sinks(n) /\ fresh' = fresh \ DOMAIN after[n] /\ awaited' = Over(asks, awaited)
      /\ effects' = effects /\ tracks' = tracks
      /\ Pushed([k \in 1 .. n |-> [Shot EXCEPT !.clips = after[n - k]]])
  BY DEF Done
<1>2. fresh' \subseteq fresh
  BY <1>1
<1>3. PictureInv'
  BY <1>1, PictureHas, PictureNew
<1> DEFINE shots == [k \in 1 .. n |-> [Shot EXCEPT !.clips = after[n - k]]]
<1>4. shots \in Seq(Shots(fresh'))
  <2>1. ASSUME NEW k \in 1 .. n
        PROVE  [Shot EXCEPT !.clips = after[n - k]] \in Shots(fresh')
    <3>1. n - k \in 0 .. n
      OBVIOUS
    <3>2. after[n - k] \in ClipSets /\ KindsKept(after[n - k]) /\ DOMAIN after[n - k] \cap fresh' = {}
      BY <1>1, <3>1
    <3>3. [Shot EXCEPT !.clips = after[n - k]]
            = [clips |-> after[n - k], effects |-> effects, tracks |-> tracks]
      BY DEF Shot
    <3> QED
      BY <3>2, <3>3, PictureHas, ShotMeans
  <2>2. shots \in [1 .. n -> Shots(fresh')]
    BY <2>1
  <2> HIDE DEF shots
  <2> QED
    BY <2>2, SeqOfFunction
<1>a. Len(shots) = n
  <2>1. shots \in [1 .. n -> {[Shot EXCEPT !.clips = after[n - k]] : k \in 1 .. n}]
    OBVIOUS
  <2> HIDE DEF shots
  <2> QED
    BY <2>1, SeqOfFunction
<1>b. undo \in Seq(Shots(fresh'))
  BY <1>2, ShotsFewerNew DEF StacksInv
<1>c. undo' = Capped(shots \o undo)
  BY <1>1 DEF Pushed
<1> HIDE DEF shots
<1>5. StacksInv'
  BY <1>1, <1>2, <1>4, PushKeeps DEF shots
<1>6. DragInv'
  BY <1>1, <1>4, <1>a, <1>b, <1>c, PushSinks
<1>7. PICK E \in SUBSET (TmpIds \ fresh) : awaited \in [E -> {None} \cup {d \in Nat : d >= MinDur}]
  BY DEF IdInv
<1>8. DOMAIN awaited = E /\ DOMAIN asks = D
  BY <1>7
<1>9. awaited' \in [D \cup E -> {None} \cup {d \in Nat : d >= MinDur}]
  BY <1>1, <1>7, <1>8 DEF Over
<1>10. D \cup E \in SUBSET (TmpIds \ fresh')
  BY <1>1, <1>2
<1> QED
  BY <1>2, <1>3, <1>5, <1>6, <1>9, <1>10

\* addClip for each of a list.
LEMMA AddAllKeeps ==
    ASSUME PictureInv, StacksInv, DragInv, IdInv,
           NEW new \in Seq(LongClip), Len(new) <= Len(NewIds), AddAll(new)
    PROVE  /\ PictureInv' /\ StacksInv' /\ DragInv' /\ fresh' \subseteq fresh
           /\ \E E \in SUBSET (TmpIds \ fresh') : awaited' \in [E -> {None} \cup {d \in Nat : d >= MinDur}]
           /\ \A i \in 1 .. Len(new) : NewIds[i] \in Ids \ fresh'
<1> DEFINE n == Len(new)
           Added(k) == {NewIds[i] : i \in 1 .. k}
           News(k) == [t \in Added(k) |-> new[NumberOf(t)]]
           after == [k \in 0 .. n |-> Over(News(k), clips)]
           asks == [t \in Added(n) |-> None]
<1>1. Done(n, after, asks)
  BY DEF AddAll
<1>2. n \in Nat /\ \A i \in 1 .. n : new[i] \in LongClip
  BY LenProperties, ElementOfSeq
<1>3. ASSUME NEW k \in 0 .. n
      PROVE  News(k) \in ClipSets /\ KindsKept(News(k)) /\ DOMAIN News(k) = Added(k) /\ Added(k) \subseteq fresh
  <2>1. \A i \in 1 .. k : i \in 1 .. n /\ NewIds[i] \in fresh /\ NumberOf(NewIds[i]) = i
    BY <1>2, NewIdsOnce
  <2>2. Added(k) \subseteq fresh /\ Added(k) \subseteq TmpIds /\ Added(k) \subseteq Ids
    BY <2>1, PictureHas
  <2>3. \A t \in Added(k) : new[NumberOf(t)] \in LongClip
    BY <1>2, <2>1
  <2>4. News(k) \in [Added(k) -> LongClip] /\ DOMAIN News(k) = Added(k)
    BY <2>3
  <2>5. News(k) \in ClipSets
    BY <2>2, <2>4, ClipSetMeans
  <2>6. DOMAIN News(k) \cap DOMAIN Clips0 = {}
    BY <2>2, <2>4, WorkbenchIds
  <2> QED
    BY <2>2, <2>4, <2>5, <2>6 DEF KindsKept
<1>4. \A k \in 0 .. n : Added(k) \subseteq Added(n)
  BY <1>2
<1>5. n \in 0 .. n
  BY <1>2
<1> HIDE DEF News, Added, n
<1>6. ASSUME NEW k \in 0 .. n
      PROVE  /\ after[k] \in ClipSets /\ KindsKept(after[k])
             /\ DOMAIN after[k] = Added(k) \cup DOMAIN clips
  <2>1. after[k] = Over(News(k), clips)
    OBVIOUS
  <2> QED
    BY <1>3, <2>1, OverOf, PictureHas
<1>7. \A k \in 0 .. n : DOMAIN after[k] \subseteq DOMAIN after[n]
  BY <1>4, <1>5, <1>6
<1>8. Added(n) \in SUBSET (DOMAIN after[n] \cap TmpIds)
  BY <1>3, <1>5, <1>6, PictureHas
<1>9. asks \in [Added(n) -> {None} \cup {d \in Nat : d >= MinDur}] /\ DOMAIN after = 0 .. n
  OBVIOUS
<1>10. \A i \in 1 .. n : NewIds[i] \in DOMAIN after[n] /\ NewIds[i] \in Ids
  <2>1. \A i \in 1 .. n : NewIds[i] \in Added(n)
    BY DEF Added
  <2> QED
    BY <1>3, <1>5, <1>6, <2>1, PictureHas
<1> HIDE DEF after, asks
<1>11. /\ PictureInv' /\ StacksInv' /\ DragInv' /\ fresh' \subseteq fresh
       /\ \E E \in SUBSET (TmpIds \ fresh') : awaited' \in [E -> {None} \cup {d \in Nat : d >= MinDur}]
  BY <1>1, <1>2, <1>6, <1>7, <1>8, <1>9, DoneKeeps
<1>12. fresh' = fresh \ DOMAIN after[n]
  BY <1>1 DEF Done
<1>13. \A i \in 1 .. n : NewIds[i] \in Ids \ fresh'
  BY <1>10, <1>12
<1> QED
  BY <1>11, <1>13 DEF n

\* splitClipAt for each of a list.
LEMMA SplitAllKeeps ==
    ASSUME PictureInv, StacksInv, DragInv, IdInv,
           NEW ids \in Seq(Ids), NEW at \in Int, Len(ids) <= Len(NewIds), SplitAll(ids, at)
    PROVE  /\ PictureInv' /\ StacksInv' /\ DragInv' /\ fresh' \subseteq fresh
           /\ \E E \in SUBSET (TmpIds \ fresh') : awaited' \in [E -> {None} \cup {d \in Nat : d >= MinDur}]
<1> DEFINE n == Len(ids)
           Parted(k) == {i \in 1 .. k : ids[i] \in DOMAIN clips /\ Splits(clips[ids[i]], at)}
           Cuts(k) == {ids[i] : i \in Parted(k)}
           Given(k) == {NewIds[i] : i \in Parted(k)}
           Lefts(k) == [c \in Cuts(k) |-> LeftOf(clips[c], at)]
           Rights(k) == [t \in Given(k) |-> RightOf(clips[ids[NumberOf(t)]], at)]
           sent == {NewIds[i] : i \in {j \in Parted(n) : ids[j] \notin TmpIds}}
           after == [k \in 0 .. n |-> Over(Rights(k), Over(Lefts(k), clips))]
           asks == [t \in sent |-> Rights(n)[t].dur]
<1>1. Done(n, after, asks)
  BY DEF SplitAll
<1>2. n \in Nat /\ n \in 0 .. n
  BY LenProperties
<1>3. ASSUME NEW c \in DOMAIN clips, Splits(clips[c], at)
      PROVE  /\ LeftOf(clips[c], at) \in LongClip /\ RightOf(clips[c], at) \in LongClip
             /\ LeftOf(clips[c], at).track = clips[c].track
  <2>1. /\ clips[c] \in Clip /\ clips[c].pos \in Nat /\ clips[c].dur \in Nat /\ clips[c].track \in Tracks
        /\ MinDur \in Nat
    BY PictureHas, ClipSetHas, WorkbenchNumbers DEF LongClip
  <2>2. /\ at - clips[c].pos \in Nat /\ at - clips[c].pos >= MinDur
        /\ at \in Nat /\ clips[c].pos + clips[c].dur - at \in Nat
        /\ clips[c].pos + clips[c].dur - at >= MinDur
    BY <1>3, <2>1 DEF Splits
  <2> QED
    BY <2>1, <2>2 DEF LeftOf, RightOf, LongClip, Clip
<1>4. ASSUME NEW k \in 0 .. n
      PROVE  /\ Lefts(k) \in ClipSets /\ KindsKept(Lefts(k)) /\ DOMAIN Lefts(k) = Cuts(k)
             /\ Cuts(k) \subseteq DOMAIN clips
             /\ Rights(k) \in ClipSets /\ KindsKept(Rights(k)) /\ DOMAIN Rights(k) = Given(k)
             /\ Given(k) \subseteq fresh
             /\ \A t \in Given(k) : Rights(k)[t] \in LongClip
  <2>1. \A c \in Cuts(k) : c \in DOMAIN clips /\ Splits(clips[c], at)
    OBVIOUS
  <2>2. /\ Lefts(k) \in [Cuts(k) -> LongClip] /\ DOMAIN Lefts(k) = Cuts(k)
        /\ \A c \in Cuts(k) : Lefts(k)[c].track = clips[c].track
    BY <1>3, <2>1
  <2>3. Cuts(k) \subseteq DOMAIN clips /\ Cuts(k) \subseteq Ids
    BY <2>1, PictureHas, ClipSetHas
  <2>4. \A i \in Parted(k) : i \in 1 .. Len(NewIds) /\ ids[i] \in DOMAIN clips /\ Splits(clips[ids[i]], at)
    BY <1>2, NewIdsOnce
  <2>5. \A i \in Parted(k) : NewIds[i] \in fresh /\ NumberOf(NewIds[i]) = i
    BY <2>4, NewIdsOnce
  <2>6. \A t \in Given(k) : /\ t \in fresh /\ ids[NumberOf(t)] \in DOMAIN clips
                            /\ Splits(clips[ids[NumberOf(t)]], at)
    BY <2>4, <2>5
  <2>7. Rights(k) \in [Given(k) -> LongClip] /\ DOMAIN Rights(k) = Given(k)
    BY <1>3, <2>6
  <2>8. Given(k) \subseteq fresh /\ Given(k) \subseteq Ids /\ Given(k) \cap DOMAIN Clips0 = {}
    BY <2>6, PictureHas, WorkbenchIds
  <2> HIDE DEF Lefts, Rights, Cuts, Given
  <2>9. Lefts(k) \in ClipSets /\ Rights(k) \in ClipSets
    BY <2>2, <2>3, <2>7, <2>8, ClipSetMeans
  <2>10. KindsKept(Lefts(k)) /\ KindsKept(Rights(k))
    BY <2>2, <2>3, <2>7, <2>8, PictureHas DEF KindsKept
  <2> QED
    BY <2>2, <2>3, <2>7, <2>8, <2>9, <2>10
<1>5. \A k \in 0 .. n : Given(k) \subseteq Given(n)
  BY <1>2
<1>6. sent \subseteq Given(n)
  OBVIOUS
<1> HIDE DEF Lefts, Rights, Cuts, Given, n, sent
<1>7. ASSUME NEW k \in 0 .. n
      PROVE  /\ after[k] \in ClipSets /\ KindsKept(after[k])
             /\ DOMAIN after[k] = Given(k) \cup DOMAIN clips
  <2>1. after[k] = Over(Rights(k), Over(Lefts(k), clips))
    OBVIOUS
  <2> HIDE DEF after
  <2>2. /\ Over(Lefts(k), clips) \in ClipSets /\ KindsKept(Over(Lefts(k), clips))
        /\ DOMAIN Over(Lefts(k), clips) = DOMAIN clips
    BY <1>4, OverOf, PictureHas
  <2> QED
    BY <1>4, <2>1, <2>2, OverOf
<1>8. \A k \in 0 .. n : DOMAIN after[k] \subseteq DOMAIN after[n]
  BY <1>2, <1>5, <1>7
<1>9. sent \in SUBSET (DOMAIN after[n] \cap TmpIds)
  BY <1>2, <1>4, <1>6, <1>7, PictureHas
<1>10. asks \in [sent -> {None} \cup {d \in Nat : d >= MinDur}]
  BY <1>2, <1>4, <1>6 DEF LongClip, Clip
<1>11. DOMAIN after = 0 .. n
  OBVIOUS
<1> HIDE DEF after, asks
<1> QED
  BY <1>1, <1>2, <1>7, <1>8, <1>9, <1>10, <1>11, DoneKeeps

-----------------------------------------------------------------------------
(* The selection.                                                           *)

Chosen(s, new) == s \in Seq(Ids \ new) /\ IsInjective(s)

LEMMA ChosenFewerNew ==
    ASSUME NEW new, NEW less, less \subseteq new, NEW s, Chosen(s, new)
    PROVE  Chosen(s, less)
<1>1. Ids \ new \subseteq Ids \ less
  OBVIOUS
<1> QED
  BY <1>1, SeqMonotonic DEF Chosen

LEMMA ChosenNone == \A new : Chosen(<<>>, new)
  BY EmptySeq DEF Chosen, IsInjective

LEMMA ChosenOne ==
    ASSUME NEW new, NEW id \in Ids \ new
    PROVE  Chosen(<<id>>, new)
<1>1. <<id>> \in Seq(Ids \ new)
  OBVIOUS
<1>2. DOMAIN <<id>> = {1}
  OBVIOUS
<1> QED
  BY <1>1, <1>2 DEF Chosen, IsInjective

\* selectClip.
LEMMA SelectedKeeps ==
    ASSUME PictureInv, IdInv, NEW id \in DOMAIN clips, NEW additive \in BOOLEAN, Selected(id, additive)
    PROVE  Chosen(selected', fresh)
<1>1. id \in Ids \ fresh
  BY PictureHas, ClipSetHas
<1>2. selected \in Seq(Ids \ fresh) /\ IsInjective(selected) /\ Len(selected) \in Nat
      /\ DOMAIN selected = 1 .. Len(selected)
  BY LenProperties DEF IdInv
<1>3. CASE selected' = <<id>>
  BY <1>1, <1>3, ChosenOne
<1>4. CASE id \notin ToSet(selected) /\ selected' = Append(selected, id)
  <2>1. \A i \in DOMAIN selected : selected[i] # id
    BY <1>4 DEF ToSet
  <2>2. /\ selected' \in Seq(Ids \ fresh) /\ Len(selected') = Len(selected) + 1
        /\ \A i \in 1 .. Len(selected) : selected'[i] = selected[i]
        /\ selected'[Len(selected) + 1] = id
        /\ DOMAIN selected' = 1 .. Len(selected) + 1
    BY <1>1, <1>2, <1>4, AppendProperties, LenProperties
  <2>3. \A a, b \in 1 .. Len(selected) + 1 : selected'[a] = selected'[b] => a = b
    <3> TAKE a, b \in 1 .. Len(selected) + 1
    <3>1. a \in 1 .. Len(selected) \/ a = Len(selected) + 1
      BY <1>2
    <3>2. b \in 1 .. Len(selected) \/ b = Len(selected) + 1
      BY <1>2
    <3> QED
      BY <1>2, <2>1, <2>2, <3>1, <3>2 DEF IsInjective
  <2> QED
    BY <2>2, <2>3 DEF Chosen, IsInjective
<1>5. CASE \E i \in DOMAIN selected : selected' = RemoveAt(selected, i)
  <2>1. PICK i \in DOMAIN selected : selected' = RemoveAt(selected, i)
    BY <1>5
  <2> DEFINE old(k) == IF k < i THEN k ELSE k + 1
  <2>2. /\ selected' \in Seq(Ids \ fresh)
        /\ \A k \in DOMAIN selected' : old(k) \in DOMAIN selected /\ k \in Int /\ selected'[k] = selected[old(k)]
    BY <1>2, <2>1, WithoutOne
  <2>3. ASSUME NEW a \in DOMAIN selected', NEW b \in DOMAIN selected', selected'[a] = selected'[b]
        PROVE  a = b
    <3>1. old(a) = old(b) /\ a \in Int /\ b \in Int
      <4>1. selected[old(a)] = selected[old(b)] /\ old(a) \in DOMAIN selected /\ old(b) \in DOMAIN selected
        BY <2>2, <2>3
      <4> HIDE DEF old
      <4>2. old(a) = old(b)
        BY <1>2, <4>1 DEF IsInjective
      <4> QED
        BY <2>2, <4>2
    <3>2. i \in Int
      BY <1>2
    <3> QED
      BY <3>1, <3>2
  <2> QED
    BY <2>2, <2>3 DEF Chosen, IsInjective
<1> QED
  BY <1>3, <1>4, <1>5 DEF Selected

LEMMA SetToSeqsOf ==
    ASSUME NEW S, IsFiniteSet(S), NEW s \in SetToSeqs(S)
    PROVE  s \in Seq(S) /\ IsInjective(s)
<1>1. Cardinality(S) \in Nat
  BY FS_CardinalityType
<1>2. s \in [1 .. Cardinality(S) -> S] /\ \A i, j \in 1 .. Cardinality(S) : i # j => s[i] # s[j]
  BY DEF SetToSeqs
<1>3. s \in Seq(S)
  BY <1>1, <1>2, SeqOfFunction
<1> QED
  BY <1>2, <1>3 DEF IsInjective

-----------------------------------------------------------------------------
(* The actions.                                                             *)

\* What an action leaves of the invariant when it leaves its variables alone.
LEMMA PictureSame == ASSUME PictureInv, UNCHANGED <<picture, fresh>> PROVE PictureInv'
  BY DEF PictureInv, picture, Shot
LEMMA StacksSame == ASSUME StacksInv, UNCHANGED <<stacks, fresh>> PROVE StacksInv'
  BY DEF StacksInv, stacks
LEMMA DragSame == ASSUME DragInv, UNCHANGED <<stacks, drag>> PROVE DragInv'
  BY DEF DragInv, stacks
LEMMA MiscSame ==
    ASSUME MiscInv, UNCHANGED <<panels, clipboard, asked, topics>>
    PROVE  MiscInv'
  BY DEF MiscInv, panels
LEMMA HistSame == ASSUME HistInv, UNCHANGED history PROVE HistInv'
  BY DEF HistInv, history, HistoryMarks
LEMMA LineSame == ASSUME LineInv, UNCHANGED gesture PROVE LineInv'
  BY DEF LineInv, gesture
LEMMA IdSame == ASSUME IdInv, UNCHANGED <<fresh, awaited, selected>> PROVE IdInv'
  BY DEF IdInv
LEMMA IdChosen ==
    ASSUME IdInv, UNCHANGED <<fresh, awaited>>, Chosen(selected', fresh)
    PROVE  IdInv'
  BY DEF IdInv, Chosen
LEMMA IdGiven ==
    ASSUME \E E \in SUBSET (TmpIds \ fresh') : awaited' \in [E -> {None} \cup {d \in Nat : d >= MinDur}],
           Chosen(selected', fresh')
    PROVE  IdInv'
  BY DEF IdInv, Chosen

\* What is pushed or undone meanwhile does not touch the snap line.
LEMMA LineSunk ==
    ASSUME LineInv, DragInv, NEW n \in Int, n >= -1, Sinks(n), UNCHANGED line
    PROVE  LineInv'
<1>1. CASE drag = None
  BY <1>1 DEF LineInv, Sinks
<1>2. CASE drag # None
  BY <1>2, SunkIsDrag DEF LineInv
<1> QED
  BY <1>1, <1>2

LEMMA LineUndone ==
    ASSUME LineInv, DragInv, UndoLocal \/ RedoLocal, UNCHANGED line
    PROVE  LineInv'
<1>1. CASE UNCHANGED drag
  BY <1>1 DEF LineInv
<1>2. CASE Sinks(1) \/ Sinks(-1)
  BY <1>2, LineSunk
<1> QED
  BY <1>1, <1>2 DEF UndoLocal, RedoLocal

\* historyStore.push.
LEMMA PushMarks ==
    ASSUME HistInv, Push
    PROVE  HistInv'
<1>1. /\ entries \in Seq(BOOLEAN) /\ cursor \in 0 .. Len(entries) /\ Len(entries) \in Nat
      /\ \A i \in 1 .. Len(entries) : entries[i] <=> i > cursor
  BY LenProperties DEF HistInv, HistoryMarks
<1> DEFINE s == SubSeq(entries, 1, cursor)
<1>2. \A i \in 1 .. cursor : entries[i] \in BOOLEAN
  <2>1. \A i \in 1 .. cursor : i \in 1 .. Len(entries)
    BY <1>1
  <2> QED
    BY <1>1, <2>1, ElementOfSeq
<1>3. s \in Seq(BOOLEAN) /\ Len(s) = cursor /\ \A i \in 1 .. cursor : s[i] = entries[i]
  BY <1>1, <1>2, SubSeqProperties
<1>4. entries' = Append(s, FALSE) /\ cursor' = cursor + 1
  BY DEF Push
<1> HIDE DEF s
<1>5. /\ entries' \in Seq(BOOLEAN) /\ Len(entries') = cursor + 1
      /\ \A i \in 1 .. cursor : entries'[i] = s[i]
      /\ entries'[cursor + 1] = FALSE
  <2>1. FALSE \in BOOLEAN
    OBVIOUS
  <2>2. /\ Append(s, FALSE) \in Seq(BOOLEAN) /\ Len(Append(s, FALSE)) = Len(s) + 1
        /\ \A i \in 1 .. Len(s) : Append(s, FALSE)[i] = s[i]
        /\ Append(s, FALSE)[Len(s) + 1] = FALSE
    BY <1>3, <2>1, AppendProperties, Zenon
  <2>3. Len(s) = cursor
    BY <1>3
  <2> QED
    BY <1>4, <2>2, <2>3, Zenon
<1>6. ASSUME NEW i \in 1 .. cursor + 1
      PROVE  entries'[i] <=> i > cursor + 1
  <2>1. CASE i = cursor + 1
    BY <1>1, <1>5, <2>1
  <2>2. CASE i # cursor + 1
    <3>1. i \in 1 .. cursor /\ i \in 1 .. Len(entries) /\ ~(i > cursor) /\ ~(i > cursor + 1)
      BY <1>1, <2>2
    <3>2. ~ entries'[i]
      BY <1>1, <1>3, <1>5, <3>1
    <3> QED
      BY <3>1, <3>2
  <2> QED
    BY <2>1, <2>2
<1>7. cursor' \in 0 .. Len(entries')
  BY <1>1, <1>4, <1>5
<1> QED
  BY <1>4, <1>5, <1>6, <1>7 DEF HistInv, HistoryMarks

LEMMA DeselectAllStep ==
    ASSUME WorkbenchInv, DeselectAll
    PROVE  WorkbenchInv'
<1>1. /\ selected' = <<>>
      /\ UNCHANGED <<picture, stacks, clipboard, history, gesture, server, panels>> /\ UNCHANGED topics
  BY DEF DeselectAll, May
<1>2. UNCHANGED <<fresh, awaited, asked, drag>>
  BY <1>1 DEF server, gesture
<1> QED
  BY <1>1, <1>2, PictureSame, StacksSame, DragSame, MiscSame, HistSame, LineSame, IdChosen, ChosenNone
     DEF WorkbenchInv

LEMMA SelectAllStep ==
    ASSUME WorkbenchInv, SelectAll
    PROVE  WorkbenchInv'
<1>1. /\ selected' \in SetToSeqs(DOMAIN clips)
      /\ UNCHANGED <<picture, stacks, clipboard, history, gesture, server, panels>> /\ UNCHANGED topics
  BY DEF SelectAll, May
<1>2. UNCHANGED <<fresh, awaited, asked, drag>>
  BY <1>1 DEF server, gesture
<1>3. DOMAIN clips \in SUBSET Ids /\ DOMAIN clips \subseteq Ids \ fresh
  BY PictureHas, ClipSetHas DEF WorkbenchInv
<1>4. selected' \in Seq(DOMAIN clips) /\ IsInjective(selected')
  BY <1>1, <1>3, FS_Subset, WorkbenchIds, SetToSeqsOf
<1>5. Chosen(selected', fresh)
  BY <1>3, <1>4, SeqMonotonic DEF Chosen
<1> QED
  BY <1>1, <1>2, <1>5, PictureSame, StacksSame, DragSame, MiscSame, HistSame, LineSame, IdChosen
     DEF WorkbenchInv

LEMMA CopyStep ==
    ASSUME WorkbenchInv, Copy
    PROVE  WorkbenchInv'
<1>1. /\ UNCHANGED <<picture, stacks, selected, history, gesture, server, panels>> /\ UNCHANGED topics
  BY DEF Copy, May
<1>2. UNCHANGED <<fresh, awaited, asked, drag>>
  BY <1>1 DEF server, gesture
<1> DEFINE S == ToSet(selected) \cap DOMAIN clips
<1>3. PICK order \in SetToSeqs(S) : clipboard' = [i \in 1 .. Len(order) |-> clips[order[i]]]
  BY DEF Copy
<1>4. S \in SUBSET Ids
  BY PictureHas, ClipSetHas DEF WorkbenchInv
<1>5. S \subseteq DOMAIN clips
  OBVIOUS
<1> HIDE DEF S
<1>6. order \in Seq(S)
  BY <1>4, FS_Subset, WorkbenchIds, SetToSeqsOf
<1>7. Len(order) \in Nat /\ \A i \in 1 .. Len(order) : order[i] \in DOMAIN clips
  BY <1>5, <1>6, LenProperties, ElementOfSeq
<1>8. \A i \in 1 .. Len(order) : clips[order[i]] \in LongClip
  BY <1>7, PictureHas, ClipSetHas DEF WorkbenchInv
<1>9. clipboard' \in [1 .. Len(order) -> LongClip]
  BY <1>3, <1>8
<1>10. clipboard' \in Seq(LongClip)
  BY <1>7, <1>9, SeqOfFunction
<1>11. MiscInv'
  BY <1>1, <1>2, <1>10 DEF MiscInv, panels, WorkbenchInv
<1> QED
  BY <1>1, <1>2, <1>11, PictureSame, StacksSame, DragSame, HistSame, LineSame, IdSame
     DEF WorkbenchInv

\* What is on the screen beside the project.
LEMMA PanelStep ==
    ASSUME WorkbenchInv, Browse \/ Close \/ RoleChanges \/ \E at \in Places : Seek(at)
    PROVE  WorkbenchInv'
<1>1. /\ UNCHANGED <<picture, stacks, clipboard, selected, history, gesture, server>> /\ UNCHANGED topics
  BY DEF Browse, Close, RoleChanges, Seek, May
<1>2. UNCHANGED <<fresh, awaited, asked, drag>>
  BY <1>1 DEF server, gesture
<1>3. time \in Nat /\ canEdit \in BOOLEAN /\ browsing \in BOOLEAN
  BY DEF WorkbenchInv, MiscInv
<1>4. time' \in Nat /\ canEdit' \in BOOLEAN /\ browsing' \in BOOLEAN
  <2>1. CASE \E at \in Places : Seek(at)
    BY <1>3, <2>1, WorkbenchNumbers DEF Seek, AtLeast
  <2> QED
    BY <1>3, <2>1 DEF Browse, Close, RoleChanges
<1>5. MiscInv'
  BY <1>1, <1>2, <1>4 DEF MiscInv, WorkbenchInv
<1> QED
  BY <1>1, <1>2, <1>5, PictureSame, StacksSame, DragSame, HistSame, LineSame, IdSame
     DEF WorkbenchInv

LEMMA JumpToStep ==
    ASSUME WorkbenchInv, NEW n \in 1 .. Len(entries), JumpTo(n)
    PROVE  WorkbenchInv'
<1>1. /\ entries' = [i \in 1 .. Len(entries) |-> i > n] /\ cursor' = n
      /\ UNCHANGED <<picture, stacks, clipboard, selected, gesture, server, panels>> /\ UNCHANGED topics
  BY DEF JumpTo, May
<1>2. UNCHANGED <<fresh, awaited, asked, drag>>
  BY <1>1 DEF server, gesture
<1>3. Len(entries) \in Nat
  BY LenProperties DEF WorkbenchInv, HistInv
<1>4. entries' \in [1 .. Len(entries) -> BOOLEAN]
  BY <1>1
<1>5. entries' \in Seq(BOOLEAN) /\ Len(entries') = Len(entries)
  BY <1>3, <1>4, SeqOfFunction
<1>6. HistInv'
  <2>1. cursor' \in 0 .. Len(entries')
    BY <1>1, <1>3, <1>5
  <2>2. \A i \in 1 .. Len(entries') : entries'[i] <=> i > cursor'
    BY <1>1, <1>5
  <2> QED
    BY <1>5, <2>1, <2>2 DEF HistInv, HistoryMarks
<1> QED
  BY <1>1, <1>2, <1>6, PictureSame, StacksSame, DragSame, MiscSame, LineSame, IdSame
     DEF WorkbenchInv

\* mousedown: the snapshot it takes is what the gesture has captured.
LEMMA GrabbedKeeps ==
    ASSUME WorkbenchInv, drag = None, NEW c \in OnScreen, NEW by \in {"body", "left", "right"},
           Grabbed(c, by), Chosen(selected', fresh), UNCHANGED topics
    PROVE  WorkbenchInv'
<1>1. /\ Pushed(<<Shot>>)
      /\ drag' = [id |-> c, by |-> by, pos |-> clips[c].pos, dur |-> clips[c].dur,
                edges |-> UNION {{clips[d].pos, clips[d].pos + clips[d].dur} : d \in DOMAIN clips \ {c}},
                kind |-> KindOf[clips[c].track], rows |-> tracks, track |-> clips[c].track,
                moved |-> FALSE, above |-> 0, shot |-> Shot]
      /\ UNCHANGED <<picture, clipboard, history, line, server, panels>>
  BY DEF Grabbed
<1>2. UNCHANGED <<fresh, awaited, asked, tracks>>
  BY <1>1 DEF server, picture
<1>3. PictureInv /\ StacksInv /\ LineInv /\ IdInv /\ MiscInv /\ HistInv
  BY DEF WorkbenchInv
<1>4. StacksInv' /\ Len(undo') > 0 /\ undo'[1] = Shot
  BY <1>1, <1>2, <1>3, OneShot
<1>5. /\ c \in DOMAIN clips /\ c \in Ids /\ clips[c].pos \in Nat /\ clips[c].dur \in Nat
      /\ clips[c].track \in Tracks /\ tracks \subseteq Tracks
      /\ \A d \in DOMAIN clips : clips[d].pos \in Nat /\ clips[d].dur \in Nat
  BY <1>3, PictureHas, ClipSetHas DEF OnScreen
<1>6. UNION {{clips[d].pos, clips[d].pos + clips[d].dur} : d \in DOMAIN clips \ {c}} \in SUBSET Nat
  <2>1. \A d \in DOMAIN clips : clips[d].pos + clips[d].dur \in Nat
    BY <1>5
  <2> QED
    BY <1>5, <2>1
<1>7. Shot \in Pictures
  <2>1. clips \in [DOMAIN clips -> Clip] /\ DOMAIN clips \in SUBSET Ids
    BY <1>3, PictureHas, ClipSetHas DEF LongClip
  <2>2. clips \in UNION {[D -> Clip] : D \in SUBSET Ids}
    BY <2>1
  <2> QED
    BY <1>3, <2>2, PictureHas DEF Shot, Pictures
<1>8. drag' \in Gestures
  BY <1>1, <1>5, <1>6, <1>7, WorkbenchNumbers DEF Gestures
<1>9. /\ drag'.track = clips[c].track /\ drag'.kind = KindOf[clips[c].track] /\ drag'.id = c
      /\ drag'.shot = Shot /\ drag'.above = 0
  BY <1>1
<1>10. c \in DOMAIN Clips0 => KindOf[Clips0[c].track] = KindOf[clips[c].track]
  BY <1>3, <1>5, PictureHas DEF KindsKept
<1>11. DragInv'
  BY <1>4, <1>8, <1>9, <1>10 DEF DragInv
<1>12. LineInv'
  <2>1. line = None
    BY <1>3 DEF LineInv
  <2> QED
    BY <1>1, <2>1 DEF LineInv
<1>13. PictureInv' /\ MiscInv' /\ HistInv' /\ IdInv'
  BY <1>1, <1>2, <1>3, PictureSame, MiscSame, HistSame, IdChosen
<1> QED
  BY <1>4, <1>11, <1>12, <1>13 DEF WorkbenchInv

LEMMA PressStep ==
    ASSUME WorkbenchInv, NEW c \in OnScreen, NEW additive \in BOOLEAN, Press(c, additive)
    PROVE  WorkbenchInv'
<1>1. drag = None /\ Selected(c, additive) /\ UNCHANGED topics
  BY DEF Press, May
<1>2. Chosen(selected', fresh)
  <2>1. c \in DOMAIN clips
    BY DEF OnScreen
  <2> QED
    BY <1>1, <2>1, SelectedKeeps DEF WorkbenchInv
<1>3. CASE canEdit
  <2>1. Grabbed(c, "body")
    BY <1>3 DEF Press
  <2> QED
    BY <1>1, <1>2, <2>1, GrabbedKeeps
<1>4. CASE ~canEdit
  <2>1. UNCHANGED <<picture, stacks, clipboard, history, gesture, server, panels>>
    BY <1>4 DEF Press
  <2>2. UNCHANGED <<fresh, awaited, asked, drag>>
    BY <2>1 DEF server, gesture
  <2> QED
    BY <1>1, <1>2, <2>1, <2>2, PictureSame, StacksSame, DragSame, MiscSame, HistSame, LineSame, IdChosen
       DEF WorkbenchInv
<1> QED
  BY <1>3, <1>4

LEMMA GripStep ==
    ASSUME WorkbenchInv, NEW c \in OnScreen, NEW side \in {"left", "right"}, Grip(c, side)
    PROVE  WorkbenchInv'
<1>1. drag = None /\ Selected(c, FALSE) /\ UNCHANGED topics /\ Grabbed(c, side)
  BY DEF Grip, May
<1>2. Chosen(selected', fresh)
  <2>1. c \in DOMAIN clips
    BY DEF OnScreen
  <2> QED
    BY <1>1, <2>1, SelectedKeeps DEF WorkbenchInv
<1> QED
  BY <1>1, <1>2, GrabbedKeeps

\* An edit with one snapshot, whatever it does to the picture.
LEMMA SnapshotKeeps ==
    ASSUME WorkbenchInv, PushSnapshot, UNCHANGED <<fresh, line>>, PictureInv'
    PROVE  PictureInv' /\ StacksInv' /\ DragInv' /\ LineInv'
<1>1. Pushed(<<Shot>>) /\ Sinks(1) /\ undo' = Capped(<<Shot>> \o undo)
  BY DEF PushSnapshot, Pushed
<1> QED
  BY <1>1, OneShot, OneSinks, LineSunk DEF WorkbenchInv

LEMMA DeleteSelectedStep ==
    ASSUME WorkbenchInv, DeleteSelected
    PROVE  WorkbenchInv'
<1> DEFINE gone == ToSet(selected) \cap DOMAIN clips
<1>1. /\ PushSnapshot /\ clips' = Restrict(clips, DOMAIN clips \ gone)
      /\ effects' = [c \in Ids |-> IF c \in gone THEN <<>> ELSE effects[c]]
      /\ selected' = <<>> /\ UNCHANGED <<tracks, clipboard, history, line, server, panels>> /\ UNCHANGED topics
  BY DEF DeleteSelected, May
<1>2. UNCHANGED <<fresh, awaited, asked>>
  BY <1>1 DEF server
<1>3. PictureInv
  BY DEF WorkbenchInv
<1> HIDE DEF gone
<1>4. clips' \in ClipSets /\ KindsKept(clips') /\ DOMAIN clips' \cap fresh' = {}
  BY <1>1, <1>2, <1>3, PictureHas, RestrictOf
<1>5. effects' \in [Ids -> Lists] /\ tracks' \subseteq Tracks
  <2>1. <<>> \in Lists
    BY EmptySeq DEF Lists
  <2> QED
    BY <1>1, <1>3, <2>1, PictureHas
<1>6. PictureInv'
  BY <1>2, <1>3, <1>4, <1>5, PictureNew
<1> QED
  BY <1>1, <1>2, <1>6, SnapshotKeeps, MiscSame, HistSame, IdChosen, ChosenNone DEF WorkbenchInv

\* toggleTrack: a snapshot, and the picture stays.
LEMMA ToggleTrackStep ==
    ASSUME WorkbenchInv, NEW track \in Tracks, ToggleTrack(track)
    PROVE  WorkbenchInv'
<1>1. /\ PushSnapshot /\ UNCHANGED topics
      /\ UNCHANGED <<picture, clipboard, selected, history, line, server, panels>>
  BY DEF ToggleTrack, May
<1>2. UNCHANGED <<fresh, awaited, asked>>
  BY <1>1 DEF server
<1>3. PictureInv'
  BY <1>1, <1>2, PictureSame DEF WorkbenchInv
<1>4. StacksInv' /\ DragInv' /\ LineInv'
  BY <1>1, <1>2, <1>3, SnapshotKeeps
<1> QED
  BY <1>1, <1>2, <1>3, <1>4, MiscSame, HistSame, IdSame DEF WorkbenchInv

\* loadProjectFromApi: the stacks are empty, and the mousedown's snapshot is gone.
LEMMA LoadProjectStep ==
    ASSUME WorkbenchInv, NEW reading \in Readings, LoadProject(reading)
    PROVE  WorkbenchInv'
<1>1. /\ clips' = reading.clips /\ tracks' = reading.tracks /\ effects' = [c \in Ids |-> <<>>]
      /\ undo' = <<>> /\ redo' = <<>> /\ Sinks(MaxUndo) /\ UNCHANGED topics
      /\ UNCHANGED <<clipboard, selected, history, line, server, panels>>
  BY DEF LoadProject, May
<1>2. UNCHANGED <<fresh, awaited, asked>>
  BY <1>1 DEF server
<1>3. fresh \subseteq TmpIds /\ MaxUndo \in Nat /\ MaxUndo >= 1
  BY WorkbenchNumbers DEF WorkbenchInv, PictureInv
<1>4. /\ DOMAIN reading.clips \subseteq Ids \ (TmpIds \cup {Ghost}) /\ reading.tracks \subseteq Tracks
      /\ \A c \in DOMAIN reading.clips :
           /\ reading.clips[c] \in Clip /\ reading.clips[c].dur >= MinDur
           /\ c \in DOMAIN Clips0 => KindOf[reading.clips[c].track] = KindOf[Clips0[c].track]
      /\ reading.clips \in [DOMAIN reading.clips -> Clip]
  BY WorkbenchReadings
<1>5. reading.clips \in ClipSets
  <2>1. reading.clips \in [DOMAIN reading.clips -> LongClip]
    BY <1>4 DEF LongClip
  <2> QED
    BY <1>4, <2>1, ClipSetMeans
<1>6. KindsKept(reading.clips) /\ DOMAIN reading.clips \cap fresh = {}
  BY <1>3, <1>4 DEF KindsKept
<1>7. effects' \in [Ids -> Lists]
  BY <1>1, EmptySeq DEF Lists
<1>8. PictureInv'
  <2>1. Shot' = [clips |-> clips', effects |-> effects', tracks |-> tracks']
    BY DEF Shot
  <2> QED
    BY <1>1, <1>2, <1>3, <1>4, <1>5, <1>6, <1>7, <2>1, ShotMeans DEF PictureInv
<1>9. StacksInv'
  BY <1>1, <1>3, EmptySeq DEF StacksInv
<1>10. DragInv' /\ LineInv'
  <2>1. ASSUME NEW p \in Nat, p + MaxUndo < MaxUndo
        PROVE  FALSE
    BY <1>3, <2>1
  <2> QED
    BY <1>1, <1>3, <2>1, SinkKeeps, LineSunk DEF WorkbenchInv
<1> QED
  BY <1>1, <1>2, <1>8, <1>9, <1>10, MiscSame, HistSame, IdSame DEF WorkbenchInv

LEMMA DeleteTrackStep ==
    ASSUME WorkbenchInv, NEW track \in Tracks, DeleteTrack(track)
    PROVE  WorkbenchInv'
<1> DEFINE gone == {c \in DOMAIN clips : clips[c].track = track}
<1>1. /\ PushSnapshot /\ clips' = Restrict(clips, DOMAIN clips \ gone) /\ tracks' = tracks \ {track}
      /\ effects' = [c \in Ids |-> IF c \in gone THEN <<>> ELSE effects[c]]
      /\ asked' = TRUE
      /\ UNCHANGED <<clipboard, selected, history, line, fresh, awaited, panels>> /\ UNCHANGED topics
  BY DEF DeleteTrack, May
<1>2. PictureInv /\ MiscInv
  BY DEF WorkbenchInv
<1> HIDE DEF gone
<1>3. clips' \in ClipSets /\ KindsKept(clips') /\ DOMAIN clips' \cap fresh' = {}
  BY <1>1, <1>2, PictureHas, RestrictOf
<1>4. effects' \in [Ids -> Lists] /\ tracks' \subseteq Tracks
  <2>1. <<>> \in Lists
    BY EmptySeq DEF Lists
  <2> QED
    BY <1>1, <1>2, <2>1, PictureHas
<1>5. PictureInv'
  BY <1>1, <1>2, <1>3, <1>4, PictureNew
<1>6. MiscInv'
  BY <1>1, <1>2 DEF MiscInv, panels
<1> QED
  BY <1>1, <1>5, <1>6, SnapshotKeeps, HistSame, IdSame DEF WorkbenchInv

\* The effects of one clip.
LEMMA EffectsPicture ==
    ASSUME PictureInv, UNCHANGED <<clips, tracks, fresh>>, effects' \in [Ids -> Lists]
    PROVE  PictureInv'
  BY PictureHas, PictureNew

LEMMA EffectStep ==
    ASSUME WorkbenchInv, UNCHANGED topics, EffectEdited, effects' \in [Ids -> Lists], browsing' \in BOOLEAN,
           PushSnapshot \/ UNCHANGED <<stacks, drag>>
    PROVE  WorkbenchInv'
<1>1. UNCHANGED <<clips, tracks, clipboard, selected, history, line, server, time, canEdit>>
  BY DEF EffectEdited
<1>2. UNCHANGED <<fresh, awaited, asked>>
  BY <1>1 DEF server
<1>3. PictureInv'
  BY <1>1, <1>2, EffectsPicture DEF WorkbenchInv
<1>4. MiscInv'
  BY <1>1, <1>2 DEF MiscInv, WorkbenchInv
<1>5. StacksInv' /\ DragInv' /\ LineInv'
  <2>1. CASE PushSnapshot
    BY <1>1, <1>2, <1>3, <2>1, SnapshotKeeps
  <2>2. CASE UNCHANGED <<stacks, drag>>
    BY <1>1, <1>2, <2>2, StacksSame, DragSame, LineSame DEF WorkbenchInv, gesture
  <2> QED
    BY <2>1, <2>2
<1> QED
  BY <1>1, <1>2, <1>3, <1>4, <1>5, HistSame, IdSame DEF WorkbenchInv

\* The clip the inspector shows is one of those there are.
LEMMA InspectedIs ==
    ASSUME WorkbenchInv, Inspected # None
    PROVE  Inspected \in Ids /\ effects[Inspected] \in Lists
  BY PictureHas, ClipSetHas DEF WorkbenchInv, Inspected

LEMMA EffectListed ==
    ASSUME NEW list \in Lists, NEW type \in EffectTypes
    PROVE  Append(list, Effect(type)) \in Lists
<1>1. Effect(type) \in [type : EffectTypes, on : BOOLEAN, val : {0, 1}]
  BY DEF Effect
<1> QED
  BY <1>1, AppendProperties DEF Lists

LEMMA OneListNew ==
    ASSUME NEW c \in Ids, effects \in [Ids -> Lists], NEW list \in Lists, EffectsOf(c, list)
    PROVE  effects' \in [Ids -> Lists]
  BY DEF EffectsOf

LEMMA AddEffectStep ==
    ASSUME WorkbenchInv, NEW type \in EffectTypes, AddEffect(type)
    PROVE  WorkbenchInv'
<1>1. /\ Inspected # None /\ PushSnapshot /\ EffectsOf(Inspected, Append(effects[Inspected], Effect(type)))
      /\ EffectEdited /\ UNCHANGED browsing /\ UNCHANGED topics
  BY DEF AddEffect, May
<1>2. Inspected \in Ids /\ Append(effects[Inspected], Effect(type)) \in Lists
  BY <1>1, InspectedIs, EffectListed
<1>3. effects' \in [Ids -> Lists]
  BY <1>1, <1>2, OneListNew, PictureHas DEF WorkbenchInv
<1>4. browsing' \in BOOLEAN
  BY <1>1 DEF WorkbenchInv, MiscInv
<1> QED
  BY <1>1, <1>3, <1>4, EffectStep

LEMMA ApplyStep ==
    ASSUME WorkbenchInv, NEW type \in EffectTypes, Apply(type)
    PROVE  WorkbenchInv'
<1>1. browsing' \in BOOLEAN /\ EffectEdited /\ UNCHANGED topics
  BY DEF Apply, May
<1>2. CASE selected = <<>>
  <2>1. UNCHANGED <<stacks, drag, effects>>
    BY <1>2 DEF Apply
  <2>2. effects' \in [Ids -> Lists]
    BY <2>1, PictureHas DEF WorkbenchInv
  <2> QED
    BY <1>1, <2>1, <2>2, EffectStep
<1>3. CASE selected # <<>>
  <2>1. PushSnapshot /\ EffectsOf(selected[1], Append(effects[selected[1]], Effect(type)))
    BY <1>3 DEF Apply
  <2>2. selected[1] \in Ids
    <3>1. selected \in Seq(Ids \ fresh)
      BY DEF WorkbenchInv, IdInv
    <3> QED
      BY <1>3, <3>1, FirstOf
  <2>3. effects \in [Ids -> Lists]
    BY PictureHas DEF WorkbenchInv
  <2>4. Append(effects[selected[1]], Effect(type)) \in Lists
    BY <2>2, <2>3, EffectListed
  <2>5. effects' \in [Ids -> Lists]
    BY <2>1, <2>2, <2>3, <2>4, OneListNew
  <2> QED
    BY <1>1, <2>1, <2>5, EffectStep
<1> QED
  BY <1>2, <1>3

LEMMA RemoveEffectStep ==
    ASSUME WorkbenchInv, NEW i \in 1 .. MaxOps, RemoveEffect(i)
    PROVE  WorkbenchInv'
<1>1. /\ Inspected # None /\ i <= Len(effects[Inspected])
      /\ PushSnapshot /\ EffectsOf(Inspected, RemoveAt(effects[Inspected], i))
      /\ EffectEdited /\ UNCHANGED browsing /\ UNCHANGED topics
  BY DEF RemoveEffect, May
<1>2. Inspected \in Ids /\ effects[Inspected] \in Lists
  BY <1>1, InspectedIs
<1>3. RemoveAt(effects[Inspected], i) \in Lists
  <2>1. i \in DOMAIN effects[Inspected]
    BY <1>1, <1>2, LenProperties DEF Lists
  <2> QED
    BY <1>2, <2>1, WithoutOne DEF Lists
<1>4. effects' \in [Ids -> Lists]
  BY <1>1, <1>2, <1>3, OneListNew, PictureHas DEF WorkbenchInv
<1>5. browsing' \in BOOLEAN
  BY <1>1 DEF WorkbenchInv, MiscInv
<1> QED
  BY <1>1, <1>4, <1>5, EffectStep

LEMMA ChangeEffectStep ==
    ASSUME WorkbenchInv, NEW i \in 1 .. MaxOps, ToggleEffect(i) \/ UpdateEffect(i)
    PROVE  WorkbenchInv'
<1>1. /\ Inspected # None /\ i <= Len(effects[Inspected])
      /\ EffectEdited /\ UNCHANGED browsing /\ UNCHANGED topics
      /\ PushSnapshot \/ UNCHANGED <<stacks, drag>>
  BY DEF ToggleEffect, UpdateEffect, May
<1>2. Inspected \in Ids /\ effects[Inspected] \in Lists /\ effects \in [Ids -> Lists]
  BY <1>1, InspectedIs, PictureHas DEF WorkbenchInv
<1> DEFINE E == [type : EffectTypes, on : BOOLEAN, val : {0, 1}]
           list == effects[Inspected]
<1>3. list \in Seq(E) /\ Len(list) \in Nat /\ DOMAIN list = 1 .. Len(list)
  BY <1>2, LenProperties DEF Lists
<1>4. i \in 1 .. Len(list)
  BY <1>1, <1>3
<1>5. list[i] \in E
  BY <1>3, <1>4, ElementOfSeq
<1>6. ASSUME NEW e \in E
      PROVE  [list EXCEPT ![i] = e] \in Lists
  <2>1. \A j \in 1 .. Len(list) : list[j] \in E
    BY <1>3, ElementOfSeq
  <2>2. list \in [1 .. Len(list) -> E]
    BY <1>3, <2>1
  <2>3. [list EXCEPT ![i] = e] \in [1 .. Len(list) -> E]
    BY <2>2
  <2> QED
    BY <1>3, <2>3, SeqOfFunction DEF Lists
<1>7. \E e \in E : effects' = [effects EXCEPT ![Inspected] = [list EXCEPT ![i] = e]]
  <2>1. CASE ToggleEffect(i)
    <3>1. [list[i] EXCEPT !.on = ~@] \in E
      BY <1>5
    <3>2. effects' = [effects EXCEPT ![Inspected] = [list EXCEPT ![i] = [list[i] EXCEPT !.on = ~@]]]
      BY <2>1 DEF ToggleEffect
    <3> HIDE DEF list
    <3> QED
      BY <3>1, <3>2
  <2>2. CASE UpdateEffect(i)
    <3>1. [list[i] EXCEPT !.val = 1 - @] \in E
      BY <1>5
    <3>2. effects' = [effects EXCEPT ![Inspected] = [list EXCEPT ![i] = [list[i] EXCEPT !.val = 1 - @]]]
      BY <2>2 DEF UpdateEffect
    <3> HIDE DEF list
    <3> QED
      BY <3>1, <3>2
  <2> QED
    BY <2>1, <2>2
<1> HIDE DEF E, list
<1>8. effects' \in [Ids -> Lists]
  BY <1>2, <1>6, <1>7
<1>9. browsing' \in BOOLEAN
  BY <1>1 DEF WorkbenchInv, MiscInv
<1> QED
  BY <1>1, <1>8, <1>9, EffectStep

\* addClip and splitClipAt take one snapshot for each clip; beside them the selection and
\* the history may change.
LEMMA DoneStep ==
    ASSUME WorkbenchInv, PictureInv', StacksInv', DragInv', NEW n \in Nat, Sinks(n),
           \E E \in SUBSET (TmpIds \ fresh') : awaited' \in [E -> {None} \cup {d \in Nat : d >= MinDur}],
           Chosen(selected', fresh'), UNCHANGED <<clipboard, line, asked, topics, browsing, canEdit>>,
           time' \in Nat, HistInv'
    PROVE  WorkbenchInv'
<1>1. MiscInv'
  BY DEF WorkbenchInv, MiscInv
<1>2. LineInv'
  BY LineSunk DEF WorkbenchInv
<1>3. IdInv'
  BY IdGiven
<1> QED
  BY <1>1, <1>2, <1>3 DEF WorkbenchInv

LEMMA NewClipType ==
    ASSUME NEW pos \in Int, NEW dur \in Int, NEW track \in Tracks
    PROVE  NewClip(pos, dur, track) \in LongClip
<1>1. MinDur \in Nat
  BY WorkbenchNumbers
<1>2. AtLeast(0, pos) \in Nat /\ AtLeast(MinDur, dur) \in Nat /\ AtLeast(MinDur, dur) >= MinDur
  BY <1>1 DEF AtLeast
<1> QED
  BY <1>2 DEF NewClip, LongClip, Clip

LEMMA CutStep ==
    ASSUME WorkbenchInv, NEW c \in OnScreen, NEW at \in Places, NEW additive \in BOOLEAN,
           Cut(c, at, additive)
    PROVE  WorkbenchInv'
<1>1. /\ NewIds # <<>> /\ at \in clips[c].pos .. clips[c].pos + clips[c].dur
      /\ Selected(c, additive) /\ time' = at /\ SplitAll(<<c>>, at)
      /\ UNCHANGED <<clipboard, history, line, browsing, canEdit>> /\ UNCHANGED topics
  BY DEF Cut, May
<1>2. PictureInv /\ StacksInv /\ DragInv /\ IdInv /\ HistInv
  BY DEF WorkbenchInv
<1>3. c \in DOMAIN clips /\ c \in Ids \ fresh /\ clips[c].pos \in Nat
  BY <1>2, PictureHas, ClipSetHas DEF OnScreen
<1>4. <<c>> \in Seq(Ids) /\ Len(<<c>>) = 1
  BY <1>3
<1>5. Len(<<c>>) <= Len(NewIds)
  BY <1>1, <1>2, <1>4, NewIdsOnce, FirstOf
<1>6. at \in Int /\ at \in Nat
  BY <1>1, <1>3, WorkbenchNumbers
<1>7. /\ PictureInv' /\ StacksInv' /\ DragInv' /\ fresh' \subseteq fresh
      /\ \E E \in SUBSET (TmpIds \ fresh') : awaited' \in [E -> {None} \cup {d \in Nat : d >= MinDur}]
  BY <1>1, <1>2, <1>4, <1>5, <1>6, SplitAllKeeps
<1>8. Chosen(selected', fresh')
  <2>1. Chosen(selected', fresh)
    BY <1>1, <1>2, <1>3, SelectedKeeps
  <2> QED
    BY <1>7, <2>1, ChosenFewerNew
<1>9. Sinks(Len(<<c>>)) /\ UNCHANGED asked
  BY <1>1 DEF SplitAll, Done
<1> QED
  BY <1>1, <1>2, <1>4, <1>6, <1>7, <1>8, <1>9, DoneStep, HistSame

LEMMA SplitSelectedStep ==
    ASSUME WorkbenchInv, SplitSelected
    PROVE  WorkbenchInv'
<1>1. /\ Len(selected) <= Len(NewIds) /\ SplitAll(selected, time)
      /\ UNCHANGED <<clipboard, selected, history, line, panels>> /\ UNCHANGED topics
  BY DEF SplitSelected, May
<1>2. PictureInv /\ StacksInv /\ DragInv /\ IdInv /\ HistInv /\ time \in Nat
  BY DEF WorkbenchInv, MiscInv
<1>3. selected \in Seq(Ids) /\ Chosen(selected, fresh)
  <2>1. Chosen(selected, fresh)
    BY <1>2 DEF IdInv, Chosen
  <2>2. Ids \ fresh \subseteq Ids
    OBVIOUS
  <2> QED
    BY <2>1, <2>2, SeqMonotonic DEF Chosen
<1>4. /\ PictureInv' /\ StacksInv' /\ DragInv' /\ fresh' \subseteq fresh
      /\ \E E \in SUBSET (TmpIds \ fresh') : awaited' \in [E -> {None} \cup {d \in Nat : d >= MinDur}]
  <2>1. time \in Int
    BY <1>2
  <2> QED
    BY <1>1, <1>2, <1>3, <2>1, SplitAllKeeps
<1>5. Chosen(selected', fresh')
  BY <1>1, <1>3, <1>4, ChosenFewerNew
<1>6. Sinks(Len(selected)) /\ Len(selected) \in Nat /\ UNCHANGED asked
  BY <1>1, <1>3, LenProperties DEF SplitAll, Done
<1>7. UNCHANGED <<time, browsing, canEdit>>
  BY <1>1 DEF panels
<1> QED
  BY <1>1, <1>2, <1>4, <1>5, <1>6, <1>7, DoneStep, HistSame

LEMMA DropAssetStep ==
    ASSUME WorkbenchInv, NEW track \in Tracks, NEW pos \in Places, NEW dur \in {1, MinDur + 1},
           DropAsset(track, pos, dur)
    PROVE  WorkbenchInv'
<1>1. /\ NewIds # <<>> /\ AddAll(<<NewClip(pos, dur, track)>>)
      /\ selected' = <<NewIds[1]>> /\ Push
      /\ UNCHANGED <<clipboard, line, panels>> /\ UNCHANGED topics
  BY DEF DropAsset, May
<1>2. PictureInv /\ StacksInv /\ DragInv /\ IdInv /\ HistInv /\ time \in Nat
  BY DEF WorkbenchInv, MiscInv
<1>3. NewClip(pos, dur, track) \in LongClip
  <2>1. pos \in Int /\ dur \in Int
    BY WorkbenchNumbers
  <2> QED
    BY <2>1, NewClipType
<1> DEFINE new == <<NewClip(pos, dur, track)>>
<1>4. new \in Seq(LongClip) /\ Len(new) = 1
  BY <1>3
<1>5. Len(new) <= Len(NewIds)
  BY <1>1, <1>2, <1>4, NewIdsOnce, FirstOf
<1>6. AddAll(new)
  BY <1>1
<1> HIDE DEF new
<1>7. /\ PictureInv' /\ StacksInv' /\ DragInv' /\ fresh' \subseteq fresh
      /\ \E E \in SUBSET (TmpIds \ fresh') : awaited' \in [E -> {None} \cup {d \in Nat : d >= MinDur}]
      /\ \A i \in 1 .. Len(new) : NewIds[i] \in Ids \ fresh'
  BY <1>2, <1>4, <1>5, <1>6, AddAllKeeps
<1>8. Chosen(selected', fresh')
  <2>1. NewIds[1] \in Ids \ fresh'
    BY <1>4, <1>7
  <2> QED
    BY <1>1, <2>1, ChosenOne
<1>9. Sinks(Len(new)) /\ UNCHANGED asked
  BY <1>6 DEF AddAll, Done
<1>10. UNCHANGED <<time, browsing, canEdit>>
  BY <1>1 DEF panels
<1> QED
  BY <1>1, <1>2, <1>4, <1>7, <1>8, <1>9, <1>10, DoneStep, PushMarks

LEMMA PasteStep ==
    ASSUME WorkbenchInv, Paste
    PROVE  WorkbenchInv'
<1> DEFINE n == Len(clipboard)
           new == [i \in 1 .. n |->
                     NewClip(clipboard[i].pos + time - Anchor, clipboard[i].dur, clipboard[i].track)]
<1>1. /\ clipboard # <<>> /\ n <= Len(NewIds) /\ AddAll(new)
      /\ selected' = SubSeq(NewIds, 1, n)
      /\ UNCHANGED <<clipboard, history, line, panels>> /\ UNCHANGED topics
  BY DEF Paste, May
<1>2. PictureInv /\ StacksInv /\ DragInv /\ IdInv /\ HistInv /\ MiscInv /\ time \in Nat
  BY DEF WorkbenchInv, MiscInv
<1>3. n \in Nat /\ n >= 1 /\ \A i \in 1 .. n : clipboard[i] \in LongClip
  <2>1. clipboard \in Seq(LongClip)
    BY <1>2 DEF MiscInv
  <2> QED
    BY <1>1, <2>1, LenProperties, FirstOf, ElementOfSeq
<1>4. Anchor \in Nat
  BY <1>1, <1>2, AnchorType
<1>5. ASSUME NEW i \in 1 .. n
      PROVE  NewClip(clipboard[i].pos + time - Anchor, clipboard[i].dur, clipboard[i].track) \in LongClip
  <2>1. clipboard[i].pos \in Nat /\ clipboard[i].dur \in Nat /\ clipboard[i].track \in Tracks
    BY <1>3 DEF LongClip, Clip
  <2>2. clipboard[i].pos + time - Anchor \in Int /\ clipboard[i].dur \in Int
    BY <1>2, <1>4, <2>1
  <2> QED
    BY <2>1, <2>2, NewClipType
<1>6. new \in [1 .. n -> LongClip]
  BY <1>5
<1> HIDE DEF n, new
<1>7. new \in Seq(LongClip) /\ Len(new) = n
  BY <1>3, <1>6, SeqOfFunction
<1>8. /\ PictureInv' /\ StacksInv' /\ DragInv' /\ fresh' \subseteq fresh
      /\ \E E \in SUBSET (TmpIds \ fresh') : awaited' \in [E -> {None} \cup {d \in Nat : d >= MinDur}]
      /\ \A i \in 1 .. n : NewIds[i] \in Ids \ fresh'
  BY <1>1, <1>2, <1>7, AddAllKeeps
<1>9. Chosen(selected', fresh')
  <2>1. \A i \in 1 .. n : i \in 1 .. Len(NewIds)
    BY <1>1, <1>2, <1>3, NewIdsOnce
  <2>2. /\ SubSeq(NewIds, 1, n) \in Seq(Ids \ fresh') /\ Len(SubSeq(NewIds, 1, n)) = n
        /\ \A i \in 1 .. n : SubSeq(NewIds, 1, n)[i] = NewIds[i]
    BY <1>3, <1>8, SubSeqProperties
  <2>3. DOMAIN SubSeq(NewIds, 1, n) = 1 .. n
    BY <2>2, LenProperties
  <2>4. \A i, j \in 1 .. n : SubSeq(NewIds, 1, n)[i] = SubSeq(NewIds, 1, n)[j] => i = j
    BY <1>2, <2>1, <2>2, NewIdsOnce
  <2> QED
    BY <1>1, <2>2, <2>3, <2>4 DEF Chosen, IsInjective
<1>10. Sinks(Len(new)) /\ UNCHANGED asked
  BY <1>1 DEF AddAll, Done
<1>11. UNCHANGED <<time, browsing, canEdit>>
  BY <1>1 DEF panels
<1> QED
  BY <1>1, <1>2, <1>3, <1>7, <1>8, <1>9, <1>10, <1>11, DoneStep, HistSame

\* undo and redo: the marks follow the cursor.
LEMMA HistoryUndone ==
    ASSUME HistInv,
           \/ UNCHANGED history
           \/ cursor # 0 /\ entries' = [entries EXCEPT ![cursor] = TRUE] /\ cursor' = cursor - 1
           \/ cursor # Len(entries) /\ entries' = [entries EXCEPT ![cursor + 1] = FALSE] /\ cursor' = cursor + 1
    PROVE  HistInv'
<1>1. /\ entries \in Seq(BOOLEAN) /\ cursor \in 0 .. Len(entries) /\ Len(entries) \in Nat
      /\ \A i \in 1 .. Len(entries) : entries[i] <=> i > cursor
  BY LenProperties DEF HistInv, HistoryMarks
<1>2. entries \in [1 .. Len(entries) -> BOOLEAN]
  <2>1. \A i \in 1 .. Len(entries) : entries[i] \in BOOLEAN
    BY <1>1, ElementOfSeq
  <2>2. DOMAIN entries = 1 .. Len(entries)
    BY <1>1, LenProperties
  <2>3. entries = [i \in 1 .. Len(entries) |-> entries[i]]
    BY <1>1, <2>2, SeqDef
  <2> QED
    BY <2>1, <2>3
<1>3. ASSUME NEW k \in 1 .. Len(entries), NEW v \in BOOLEAN, entries' = [entries EXCEPT ![k] = v]
      PROVE  /\ entries' \in Seq(BOOLEAN) /\ Len(entries') = Len(entries)
             /\ entries'[k] = v
             /\ \A i \in 1 .. Len(entries) \ {k} : entries'[i] = entries[i]
  <2>1. entries' \in [1 .. Len(entries) -> BOOLEAN]
    BY <1>2, <1>3
  <2>2. entries' \in Seq(BOOLEAN) /\ Len(entries') = Len(entries)
    BY <1>1, <2>1, SeqOfFunction
  <2>3. entries'[k] = v /\ \A i \in 1 .. Len(entries) \ {k} : entries'[i] = entries[i]
    BY <1>2, <1>3
  <2> QED
    BY <2>2, <2>3
<1>4. CASE cursor # 0 /\ entries' = [entries EXCEPT ![cursor] = TRUE] /\ cursor' = cursor - 1
  <2>1. cursor \in 1 .. Len(entries) /\ cursor' \in 0 .. Len(entries)
    BY <1>1, <1>4
  <2>2. /\ entries' \in Seq(BOOLEAN) /\ Len(entries') = Len(entries)
        /\ entries'[cursor] = TRUE
        /\ \A i \in 1 .. Len(entries) \ {cursor} : entries'[i] = entries[i]
    BY <1>3, <1>4, <2>1
  <2>3. ASSUME NEW i \in 1 .. Len(entries)
        PROVE  entries'[i] <=> i > cursor'
    <3>1. CASE i = cursor
      <4>1. i > cursor'
        BY <1>1, <1>4, <3>1
      <4> QED
        BY <2>2, <3>1, <4>1
    <3>2. CASE i # cursor
      <4>1. i > cursor' <=> i > cursor
        BY <1>1, <1>4, <3>2
      <4>2. entries'[i] = entries[i]
        BY <2>2, <3>2
      <4> QED
        BY <1>1, <4>1, <4>2
    <3> QED
      BY <3>1, <3>2
  <2> QED
    BY <2>1, <2>2, <2>3 DEF HistInv, HistoryMarks
<1>5. CASE /\ cursor # Len(entries) /\ entries' = [entries EXCEPT ![cursor + 1] = FALSE]
           /\ cursor' = cursor + 1
  <2>1. cursor + 1 \in 1 .. Len(entries) /\ cursor' \in 0 .. Len(entries)
    BY <1>1, <1>5
  <2>2. /\ entries' \in Seq(BOOLEAN) /\ Len(entries') = Len(entries)
        /\ entries'[cursor + 1] = FALSE
        /\ \A i \in 1 .. Len(entries) \ {cursor + 1} : entries'[i] = entries[i]
    BY <1>3, <1>5, <2>1
  <2>3. ASSUME NEW i \in 1 .. Len(entries)
        PROVE  entries'[i] <=> i > cursor'
    <3>1. CASE i = cursor + 1
      <4>1. ~(i > cursor')
        BY <1>1, <1>5, <3>1
      <4> QED
        BY <2>2, <3>1, <4>1
    <3>2. CASE i # cursor + 1
      <4>1. i > cursor' <=> i > cursor
        BY <1>1, <1>5, <3>2
      <4>2. entries'[i] = entries[i]
        BY <2>2, <3>2
      <4> QED
        BY <1>1, <4>1, <4>2
    <3> QED
      BY <3>1, <3>2
  <2> QED
    BY <2>1, <2>2, <2>3 DEF HistInv, HistoryMarks
<1> QED
  BY <1>4, <1>5, HistSame

LEMMA UndoStep ==
    ASSUME WorkbenchInv, Undo \/ Redo
    PROVE  WorkbenchInv'
<1>1. /\ UndoLocal \/ RedoLocal
      /\ UNCHANGED <<clipboard, selected, line, server, panels>> /\ UNCHANGED topics
  BY DEF Undo, Redo, May
<1>2. UNCHANGED <<fresh, awaited, asked>>
  BY <1>1 DEF server
<1>3. HistInv'
  <2>1. \/ UNCHANGED history
        \/ cursor # 0 /\ entries' = [entries EXCEPT ![cursor] = TRUE] /\ cursor' = cursor - 1
        \/ cursor # Len(entries) /\ entries' = [entries EXCEPT ![cursor + 1] = FALSE] /\ cursor' = cursor + 1
    BY DEF Undo, Redo
  <2> QED
    BY <2>1, HistoryUndone DEF WorkbenchInv
<1> QED
  BY <1>1, <1>2, <1>3, UndoKeeps, LineUndone, MiscSame, IdSame DEF WorkbenchInv

LEMMA ReleaseStep ==
    ASSUME WorkbenchInv, Release
    PROVE  WorkbenchInv'
<1>1. /\ drag' = None /\ line' = None
      /\ UNCHANGED <<picture, stacks, clipboard, selected, server, panels>> /\ UNCHANGED topics
  BY DEF Release, Quiet
<1>2. UNCHANGED <<fresh, awaited, asked>>
  BY <1>1 DEF server
<1>3. HistInv'
  BY PushMarks, HistSame DEF Release, WorkbenchInv
<1>4. DragInv' /\ LineInv'
  BY <1>1 DEF DragInv, LineInv
<1> QED
  BY <1>1, <1>2, <1>3, <1>4, PictureSame, StacksSame, MiscSame, IdSame DEF WorkbenchInv

LEMMA TrackAnswerStep ==
    ASSUME WorkbenchInv, TrackAnswer
    PROVE  WorkbenchInv'
<1>1. /\ asked' = FALSE
      /\ UndoLocal \/ UNCHANGED <<picture, stacks, drag>>
      /\ UNCHANGED <<clipboard, selected, history, line, fresh, awaited, panels>> /\ UNCHANGED topics
  BY DEF TrackAnswer, Quiet
<1>2. MiscInv'
  <2>1. asked' \in BOOLEAN
    BY <1>1, Zenon
  <2> QED
    BY <1>1, <2>1 DEF WorkbenchInv, MiscInv, panels
<1>3. PictureInv' /\ StacksInv' /\ DragInv' /\ LineInv'
  <2>1. CASE UndoLocal
    BY <1>1, <2>1, UndoKeeps, LineUndone DEF WorkbenchInv
  <2>2. CASE UNCHANGED <<picture, stacks, drag>>
    BY <1>1, <2>2, PictureSame, StacksSame, DragSame, LineSame DEF WorkbenchInv, gesture
  <2> QED
    BY <1>1, <2>1, <2>2
<1> QED
  BY <1>1, <1>2, <1>3, HistSame, IdSame DEF WorkbenchInv

\* An answer is waited for no more.
LEMMA AnsweredIds ==
    ASSUME IdInv, NEW t \in DOMAIN awaited, UNCHANGED <<fresh, selected>>,
           awaited' = Restrict(awaited, DOMAIN awaited \ {t})
    PROVE  IdInv'
<1>1. PICK D \in SUBSET (TmpIds \ fresh) : awaited \in [D -> {None} \cup {d \in Nat : d >= MinDur}]
  BY DEF IdInv
<1>2. D \ {t} \in SUBSET (TmpIds \ fresh')
  OBVIOUS
<1>3. awaited' \in [D \ {t} -> {None} \cup {d \in Nat : d >= MinDur}]
  BY <1>1 DEF Restrict
<1> QED
  BY <1>2, <1>3 DEF IdInv

LEMMA AnswerFailsStep ==
    ASSUME WorkbenchInv, NEW t \in TmpIds, AnswerFails(t)
    PROVE  WorkbenchInv'
<1>1. /\ t \in DOMAIN awaited /\ awaited' = Restrict(awaited, DOMAIN awaited \ {t})
      /\ UndoLocal \/ UNCHANGED <<picture, stacks, drag>>
      /\ UNCHANGED <<clipboard, selected, history, line, fresh, asked, panels>> /\ UNCHANGED topics
  BY DEF AnswerFails, Quiet
<1>2. PictureInv' /\ StacksInv' /\ DragInv' /\ LineInv'
  <2>1. CASE UndoLocal
    BY <1>1, <2>1, UndoKeeps, LineUndone DEF WorkbenchInv
  <2>2. CASE UNCHANGED <<picture, stacks, drag>>
    BY <1>1, <2>2, PictureSame, StacksSame, DragSame, LineSame DEF WorkbenchInv, gesture
  <2> QED
    BY <1>1, <2>1, <2>2
<1> QED
  BY <1>1, <1>2, AnsweredIds, HistSame, MiscSame DEF WorkbenchInv

\* Edits that take no snapshot: the gesture keeps all there is to undo.
LEMMA QuietStep ==
    ASSUME WorkbenchInv, UNCHANGED <<tracks, stacks, clipboard, selected, history, fresh, asked, panels, topics>>,
           clips' \in ClipSets, KindsKept(clips'), DOMAIN clips' \cap fresh = {},
           effects' \in [Ids -> Lists], IdInv', DragInv', LineInv'
    PROVE  WorkbenchInv'
<1>1. PictureInv'
  BY PictureHas, PictureNew DEF WorkbenchInv
<1>2. StacksInv'
  BY StacksSame DEF WorkbenchInv
<1> QED
  BY <1>1, <1>2, HistSame, MiscSame DEF WorkbenchInv

\* One clip put over the others, under an id that nobody else will get.
LEMMA OneClipOver ==
    ASSUME NEW c \in ClipSets, KindsKept(c), NEW id \in Ids, NEW clip \in LongClip,
           id \in DOMAIN Clips0 => KindOf[clip.track] = KindOf[Clips0[id].track]
    PROVE  /\ Over([d \in {id} |-> clip], c) \in ClipSets /\ KindsKept(Over([d \in {id} |-> clip], c))
           /\ DOMAIN Over([d \in {id} |-> clip], c) = {id} \cup DOMAIN c
<1> DEFINE one == [d \in {id} |-> clip]
<1>1. one \in [{id} -> LongClip] /\ {id} \subseteq Ids /\ DOMAIN one = {id} /\ one[id] = clip
  OBVIOUS
<1> HIDE DEF one
<1>2. one \in ClipSets
  BY <1>1, ClipSetMeans
<1>3. KindsKept(one)
  BY <1>1 DEF KindsKept
<1>4. /\ Over(one, c) \in ClipSets /\ KindsKept(Over(one, c)) /\ DOMAIN Over(one, c) = {id} \cup DOMAIN c
  BY <1>1, <1>2, <1>3, OverOf
<1> QED
  BY <1>4 DEF one

LEMMA AnswerStep ==
    ASSUME WorkbenchInv, NEW t \in TmpIds, Answer(t)
    PROVE  WorkbenchInv'
<1> DEFINE known == IF awaited[t] = None THEN clips[t] ELSE [clips[t] EXCEPT !.dur = awaited[t]]
           rest == Restrict(clips, DOMAIN clips \ {t})
<1>1. /\ t \in DOMAIN awaited /\ awaited' = Restrict(awaited, DOMAIN awaited \ {t})
      /\ clips' = IF t \in DOMAIN clips THEN Over([c \in {ServerIdOf[t]} |-> known], rest) ELSE clips
      /\ UNCHANGED <<effects, tracks, stacks, clipboard, selected, history, gesture, fresh, asked, panels>>
      /\ UNCHANGED topics
  BY DEF Answer, Quiet
<1>2. PictureInv /\ IdInv /\ DragInv /\ LineInv
  BY DEF WorkbenchInv
<1>3. /\ clips \in ClipSets /\ KindsKept(clips) /\ DOMAIN clips \cap fresh = {} /\ effects \in [Ids -> Lists]
      /\ fresh \subseteq TmpIds
  BY <1>2, PictureHas
<1>4. IdInv' /\ DragInv' /\ LineInv'
  <2>1. UNCHANGED drag
    BY <1>1 DEF gesture
  <2> QED
    BY <1>1, <1>2, <2>1, AnsweredIds, DragSame, LineSame
<1>5. clips' \in ClipSets /\ KindsKept(clips') /\ DOMAIN clips' \cap fresh = {}
  <2>1. CASE t \notin DOMAIN clips
    BY <1>1, <1>3, <2>1
  <2>2. CASE t \in DOMAIN clips
    <3>1. ServerIdOf[t] \in Ids /\ ServerIdOf[t] \notin TmpIds /\ ServerIdOf[t] \notin DOMAIN Clips0
      BY WorkbenchIds
    <3>2. known \in LongClip
      <4>1. clips[t] \in LongClip
        BY <1>3, <2>2, ClipSetHas
      <4>2. awaited[t] = None \/ (awaited[t] \in Nat /\ awaited[t] >= MinDur)
        BY <1>1, <1>2 DEF IdInv
      <4> QED
        BY <4>1, <4>2 DEF LongClip, Clip
    <3> HIDE DEF known
    <3>3. rest \in ClipSets /\ KindsKept(rest) /\ DOMAIN rest = DOMAIN clips \ {t}
      BY <1>3, RestrictOf
    <3> HIDE DEF rest
    <3>4. /\ Over([c \in {ServerIdOf[t]} |-> known], rest) \in ClipSets
          /\ KindsKept(Over([c \in {ServerIdOf[t]} |-> known], rest))
          /\ DOMAIN Over([c \in {ServerIdOf[t]} |-> known], rest) = {ServerIdOf[t]} \cup DOMAIN rest
      BY <3>1, <3>2, <3>3, OneClipOver
    <3> QED
      BY <1>1, <1>3, <2>2, <3>1, <3>3, <3>4
  <2> QED
    BY <2>1, <2>2
<1> QED
  BY <1>1, <1>3, <1>4, <1>5, QuietStep

LEMMA RemoteUpsertStep ==
    ASSUME WorkbenchInv, NEW c \in DOMAIN Clips0, NEW pos \in Places, RemoteUpsert(c, pos)
    PROVE  WorkbenchInv'
<1> DEFINE clip == [Clips0[c] EXCEPT !.pos = pos]
<1>1. /\ pos >= 0 /\ clips' = Over([d \in {c} |-> clip], clips)
      /\ UNCHANGED <<effects, tracks, stacks, clipboard, selected, history, gesture, server, panels>>
      /\ UNCHANGED topics
  BY DEF RemoteUpsert, May
<1>2. UNCHANGED <<fresh, awaited, asked, drag>>
  BY <1>1 DEF server, gesture
<1>3. /\ clips \in ClipSets /\ KindsKept(clips) /\ DOMAIN clips \cap fresh = {} /\ effects \in [Ids -> Lists]
      /\ fresh \subseteq TmpIds /\ c \in Ids /\ c \notin TmpIds
  BY PictureHas, WorkbenchIds DEF WorkbenchInv
<1>4. clip \in LongClip /\ clip.track = Clips0[c].track
  <2>1. Clips0[c] \in Clip /\ Clips0[c].dur >= MinDur
    BY WorkbenchClips
  <2>2. pos \in Nat
    BY <1>1, WorkbenchNumbers
  <2> QED
    BY <2>1, <2>2 DEF LongClip, Clip
<1> HIDE DEF clip
<1>5. /\ Over([d \in {c} |-> clip], clips) \in ClipSets /\ KindsKept(Over([d \in {c} |-> clip], clips))
      /\ DOMAIN Over([d \in {c} |-> clip], clips) = {c} \cup DOMAIN clips
  BY <1>3, <1>4, OneClipOver
<1>6. clips' \in ClipSets /\ KindsKept(clips') /\ DOMAIN clips' \cap fresh = {}
  BY <1>1, <1>3, <1>5
<1>7. IdInv' /\ DragInv' /\ LineInv'
  BY <1>1, <1>2, IdSame, DragSame, LineSame DEF WorkbenchInv
<1> QED
  BY <1>1, <1>2, <1>3, <1>6, <1>7, QuietStep

LEMMA RemoteDeleteStep ==
    ASSUME WorkbenchInv, NEW c \in DOMAIN clips \ TmpIds, RemoteDelete(c)
    PROVE  WorkbenchInv'
<1>1. /\ clips' = Restrict(clips, DOMAIN clips \ {c}) /\ effects' = [effects EXCEPT ![c] = <<>>]
      /\ UNCHANGED <<tracks, stacks, clipboard, selected, history, gesture, server, panels>>
      /\ UNCHANGED topics
  BY DEF RemoteDelete, May
<1>2. UNCHANGED <<fresh, awaited, asked, drag>>
  BY <1>1 DEF server, gesture
<1>3. clips \in ClipSets /\ KindsKept(clips) /\ DOMAIN clips \cap fresh = {} /\ effects \in [Ids -> Lists]
  BY PictureHas DEF WorkbenchInv
<1>4. clips' \in ClipSets /\ KindsKept(clips') /\ DOMAIN clips' \cap fresh = {}
  BY <1>1, <1>3, RestrictOf
<1>5. effects' \in [Ids -> Lists]
  <2>1. <<>> \in Lists
    BY EmptySeq DEF Lists
  <2> QED
    BY <1>1, <1>3, <2>1
<1>6. IdInv' /\ DragInv' /\ LineInv'
  BY <1>1, <1>2, IdSame, DragSame, LineSame DEF WorkbenchInv
<1> QED
  BY <1>1, <1>2, <1>4, <1>5, <1>6, QuietStep

\* The row under the mouse is never of another type than the clip.
LEMMA RowOfKind ==
    ASSUME DragInv, drag # None, NEW row \in Tracks
    PROVE  Row(row) \in Tracks /\ KindOf[Row(row)] = drag.kind
  BY DEF DragInv, Gestures, Row

\* What snapping gives: the start or the end is where the line is, unless the end could
\* only be there with a start before zero, and then the start is near to zero, which is
\* tried first.
LEMMA SnapMeans ==
    ASSUME NEW pos \in Nat, NEW dur \in Nat, NEW edges \in SUBSET Nat, NEW reach \in Nat, time \in Nat,
           NEW r \in Snap(pos, dur, edges, reach)
    PROVE  /\ r.pos \in Int
           /\ r.at # None => /\ r.at \in Nat
                             /\ r.at = AtLeast(0, r.pos) \/ r.at = AtLeast(0, r.pos) + dur
<1>1. r \in {[pos |-> pos, at |-> None]} \/ \E at \in Nat : Hits(pos, dur, at, reach)
        /\ r = SnapTo(pos, dur, at, reach) /\ (at = 0 \/ ~Hits(pos, dur, 0, reach))
  BY DEF Snap
<1>2. CASE r = [pos |-> pos, at |-> None]
  BY <1>2
<1>3. ASSUME NEW at \in Nat, Hits(pos, dur, at, reach), r = SnapTo(pos, dur, at, reach),
             at = 0 \/ ~Hits(pos, dur, 0, reach)
      PROVE  /\ r.pos \in Int /\ r.at = at
             /\ at = AtLeast(0, r.pos) \/ at = AtLeast(0, r.pos) + dur
  <2>1. r.at = at /\ r.pos = IF Near(pos, at, reach) THEN at ELSE at - dur
    BY <1>3 DEF SnapTo
  <2>2. CASE Near(pos, at, reach)
    BY <2>1, <2>2 DEF AtLeast
  <2>3. CASE ~Near(pos, at, reach)
    <3>1. Near(pos + dur, at, reach) /\ r.pos = at - dur
      BY <1>3, <2>1, <2>3 DEF Hits
    <3>2. at - dur >= 0
      <4>1. SUFFICES ASSUME at - dur < 0
                     PROVE  FALSE
        OBVIOUS
      <4>2. pos <= reach
        BY <3>1, <4>1 DEF Near
      <4>3. Near(pos, 0, reach)
        BY <4>2 DEF Near
      <4>4. at # 0
        BY <2>3, <4>3
      <4> QED
        BY <1>3, <4>3, <4>4 DEF Hits
    <3> QED
      BY <2>1, <3>1, <3>2 DEF AtLeast
  <2> QED
    BY <2>1, <2>2, <2>3
<1> QED
  BY <1>1, <1>2, <1>3

LEMMA DragToStep ==
    ASSUME WorkbenchInv, NEW pos \in Places, NEW row \in Tracks, DragTo(pos, row)
    PROVE  WorkbenchInv'
<1>1. /\ drag # None /\ drag' = [drag EXCEPT !.moved = TRUE, !.track = Row(row)]
      /\ UNCHANGED stacks /\ UNCHANGED topics
      /\ UNCHANGED <<effects, tracks, clipboard, selected, history, server, panels>>
  BY DEF DragTo, May, Quietly
<1>2. UNCHANGED <<fresh, awaited, asked>>
  BY <1>1 DEF server
<1>3. PictureInv /\ StacksInv /\ DragInv /\ IdInv /\ MiscInv /\ time \in Nat
  BY DEF WorkbenchInv, MiscInv
<1>4. /\ clips \in ClipSets /\ KindsKept(clips) /\ DOMAIN clips \cap fresh = {} /\ effects \in [Ids -> Lists]
  BY <1>3, PictureHas
<1>5. drag \in Gestures /\ KindOf[drag.track] = drag.kind
      /\ (drag.id \in DOMAIN Clips0 => KindOf[Clips0[drag.id].track] = drag.kind)
      /\ drag.id \in Ids /\ drag.dur \in Nat /\ drag.edges \in SUBSET Nat /\ drag.track \in Tracks
  BY <1>1, <1>3 DEF DragInv, Gestures
<1>6. Row(row) \in Tracks /\ KindOf[Row(row)] = drag.kind
  BY <1>1, <1>3, RowOfKind
<1>7. drag' \in Gestures /\ drag'.dur = drag.dur /\ drag'.track = Row(row) /\ drag'.kind = drag.kind
      /\ drag'.id = drag.id /\ drag'.above = drag.above /\ drag'.shot = drag.shot
  BY <1>1, <1>5, <1>6 DEF Gestures
<1>8. DragInv'
  BY <1>1, <1>3, <1>5, <1>6, <1>7 DEF DragInv, stacks
<1>9. PICK r : /\ r.pos \in Int
               /\ r.at # None => r.at = AtLeast(0, r.pos) \/ r.at = AtLeast(0, r.pos) + drag.dur
               /\ MovedTo(r, Row(row))
  <2>1. PICK r \in {[pos |-> AtLeast(0, pos), at |-> None]}
                \cup UNION {Snap(AtLeast(0, pos), drag.dur, drag.edges, reach) : reach \in Reaches} :
           MovedTo(r, Row(row))
    BY DEF DragTo
  <2>2. AtLeast(0, pos) \in Nat /\ Reaches \subseteq Nat
    BY WorkbenchNumbers DEF AtLeast
  <2>3. CASE r = [pos |-> AtLeast(0, pos), at |-> None]
    BY <2>1, <2>2, <2>3
  <2>4. ASSUME NEW reach \in Reaches, r \in Snap(AtLeast(0, pos), drag.dur, drag.edges, reach)
        PROVE  /\ r.pos \in Int
               /\ r.at # None => r.at = AtLeast(0, r.pos) \/ r.at = AtLeast(0, r.pos) + drag.dur
    BY <1>3, <1>5, <2>2, <2>4, SnapMeans
  <2> QED
    BY <2>1, <2>3, <2>4
<1>a. LineInv'
  <2>1. CASE r.at = None
    BY <1>9, <2>1 DEF MovedTo, LineInv
  <2>2. CASE r.at # None
    <3>1. line' = [at |-> r.at, pos |-> AtLeast(0, r.pos)]
      BY <1>9, <2>2 DEF MovedTo
    <3>2. drag' # None
      BY <1>7, WorkbenchIds
    <3>3. line'.at = r.at /\ line'.pos = AtLeast(0, r.pos)
      BY <3>1
    <3> QED
      BY <1>7, <1>9, <2>2, <3>2, <3>3 DEF LineInv
  <2> QED
    BY <2>1, <2>2
<1>10. CASE drag.id \notin DOMAIN clips
  <2>1. clips' = clips
    BY <1>9, <1>10 DEF MovedTo
  <2> QED
    BY <1>1, <1>2, <1>3, <1>4, <1>8, <1>a, <2>1, IdSame, QuietStep
<1>11. CASE drag.id \in DOMAIN clips
  <2> DEFINE clip == [clips[drag.id] EXCEPT !.pos = AtLeast(0, r.pos),
                                           !.track = IF Row(row) # drag.track THEN Row(row) ELSE @]
  <2>1. clips' = [clips EXCEPT ![drag.id] = clip]
    BY <1>9, <1>11 DEF MovedTo
  <2>2. clips[drag.id] \in LongClip
    BY <1>4, <1>11, ClipSetHas
  <2>3. AtLeast(0, r.pos) \in Nat
    BY <1>9 DEF AtLeast
  <2>4. /\ clip \in LongClip /\ clip.pos = AtLeast(0, r.pos) /\ clip.dur = clips[drag.id].dur
        /\ clip.track = IF Row(row) # drag.track THEN Row(row) ELSE clips[drag.id].track
    BY <1>6, <2>2, <2>3 DEF LongClip, Clip
  <2> HIDE DEF clip
  <2>5. /\ DOMAIN clips' = DOMAIN clips /\ clips'[drag.id] = clip
        /\ \A c \in DOMAIN clips \ {drag.id} : clips'[c] = clips[c]
        /\ clips' \in [DOMAIN clips -> LongClip] /\ DOMAIN clips \subseteq Ids
    BY <1>4, <1>11, <2>1, <2>4, ClipSetHas
  <2>6. clips' \in ClipSets
    BY <2>5, ClipSetMeans
  <2>7. KindsKept(clips')
    BY <1>4, <1>5, <1>6, <1>11, <2>4, <2>5 DEF KindsKept
  <2> QED
    BY <1>1, <1>2, <1>3, <1>4, <1>8, <1>a, <2>5, <2>6, <2>7, IdSame, QuietStep
<1> QED
  BY <1>10, <1>11

LEMMA TrimToStep ==
    ASSUME WorkbenchInv, NEW pos \in Places, TrimTo(pos)
    PROVE  WorkbenchInv'
<1> DEFINE start == IF drag.by = "left" THEN AtLeast(0, pos) ELSE drag.pos
           dur == IF drag.by = "left" THEN drag.dur - (start - drag.pos) ELSE pos - drag.pos
<1>1. /\ drag # None /\ drag' = [drag EXCEPT !.moved = TRUE]
      /\ clips' = IF drag.id \in DOMAIN clips
                  THEN [clips EXCEPT ![drag.id].pos = start, ![drag.id].dur = AtLeast(MinDur, dur)]
                  ELSE clips
      /\ UNCHANGED stacks /\ UNCHANGED topics
      /\ UNCHANGED <<effects, tracks, clipboard, selected, history, line, server, panels>>
  BY DEF TrimTo, May, Quietly
<1>2. UNCHANGED <<fresh, awaited, asked>>
  BY <1>1 DEF server
<1>3. PictureInv /\ DragInv /\ IdInv /\ LineInv
  BY DEF WorkbenchInv
<1>4. /\ clips \in ClipSets /\ KindsKept(clips) /\ DOMAIN clips \cap fresh = {} /\ effects \in [Ids -> Lists]
  BY <1>3, PictureHas
<1>5. drag \in Gestures /\ drag.pos \in Nat /\ drag.dur \in Nat
  BY <1>1, <1>3 DEF DragInv, Gestures
<1>6. drag' \in Gestures /\ drag'.dur = drag.dur /\ drag'.track = drag.track /\ drag'.kind = drag.kind
      /\ drag'.id = drag.id /\ drag'.above = drag.above /\ drag'.shot = drag.shot
  BY <1>1, <1>5 DEF Gestures
<1>7. DragInv'
  BY <1>1, <1>3, <1>6 DEF DragInv, stacks
<1>8. LineInv'
  <2>1. drag' # None
    BY <1>6, WorkbenchIds
  <2> QED
    BY <1>1, <1>3, <1>6, <2>1 DEF LineInv
<1>9. clips' \in ClipSets /\ KindsKept(clips') /\ DOMAIN clips' \cap fresh = {}
  <2>1. CASE drag.id \notin DOMAIN clips
    BY <1>1, <1>4, <2>1
  <2>2. CASE drag.id \in DOMAIN clips
    <3>1. start \in Nat /\ dur \in Int /\ MinDur \in Nat
      BY <1>5, WorkbenchNumbers DEF AtLeast
    <3> DEFINE clip == [clips[drag.id] EXCEPT !.pos = start, !.dur = AtLeast(MinDur, dur)]
    <3>2. clips' = [clips EXCEPT ![drag.id] = clip]
      BY <1>1, <2>2
    <3> HIDE DEF start, dur
    <3>3. AtLeast(MinDur, dur) \in Nat /\ AtLeast(MinDur, dur) >= MinDur
      BY <3>1 DEF AtLeast
    <3>4. clips[drag.id] \in LongClip
      BY <1>4, <2>2, ClipSetHas
    <3>5. clip \in LongClip /\ clip.track = clips[drag.id].track
      BY <3>1, <3>3, <3>4 DEF LongClip, Clip
    <3> HIDE DEF clip
    <3>6. /\ DOMAIN clips' = DOMAIN clips /\ clips' \in [DOMAIN clips -> LongClip] /\ DOMAIN clips \subseteq Ids
          /\ \A c \in DOMAIN clips : clips'[c].track = clips[c].track
      BY <1>4, <2>2, <3>2, <3>5, ClipSetHas
    <3>7. clips' \in ClipSets
      BY <3>6, ClipSetMeans
    <3> QED
      BY <1>4, <3>6, <3>7 DEF KindsKept
  <2> QED
    BY <2>1, <2>2
<1> QED
  BY <1>1, <1>2, <1>3, <1>4, <1>7, <1>8, <1>9, IdSame, QuietStep

LEMMA StillStep ==
    ASSUME WorkbenchInv, UNCHANGED vars
    PROVE  WorkbenchInv'
<1>1. /\ UNCHANGED <<picture, stacks, clipboard, selected, history, gesture, server, panels>>
      /\ UNCHANGED topics
  BY DEF vars
<1>2. UNCHANGED <<fresh, awaited, asked, drag>>
  BY <1>1 DEF server, gesture
<1> QED
  BY <1>1, <1>2, PictureSame, StacksSame, DragSame, MiscSame, HistSame, LineSame, IdSame
     DEF WorkbenchInv

-----------------------------------------------------------------------------
(* What a paste puts where.                                                 *)

\* The least number of a set that has one.
LEMMA MinIs ==
    ASSUME NEW T \in SUBSET Int, NEW m \in T, \A x \in T : m <= x
    PROVE  Min(T) = m
<1>1. \E x \in T : \A y \in T : x <= y
  OBVIOUS
<1>2. Min(T) \in T /\ \A y \in T : Min(T) <= y
  BY <1>1 DEF Min
<1>3. Min(T) \in Int /\ m \in Int /\ Min(T) <= m /\ m <= Min(T)
  BY <1>2
<1> QED
  BY <1>3

LEMMA PosChanged ==
    ASSUME NEW p \in Int, NEW q \in Int, NEW d, NEW t, NEW c, c = [pos |-> p, dur |-> d, track |-> t]
    PROVE  [c EXCEPT !.pos = @ - q] = [pos |-> p - q, dur |-> d, track |-> t]
  OBVIOUS

\* The clips g are the n clips f, the earliest of which is at m, put k further on.
Shifted(n, f, m, J, g, b, k) ==
    /\ n \in Nat \ {0} /\ DOMAIN f = 1 .. n /\ \A i \in 1 .. n : f[i] \in Clip
    /\ m \in Int /\ (\A i \in 1 .. n : m <= f[i].pos) /\ \E i \in 1 .. n : m = f[i].pos
    /\ b \in Bijection(1 .. n, J) /\ DOMAIN g = J
    /\ k \in Int /\ \A i \in 1 .. n : g[b[i]] = [f[i] EXCEPT !.pos = f[i].pos + k]

\* They are the same seen from their earliest clip.
LEMMA ShiftedShape ==
    ASSUME NEW n, NEW f, NEW m, NEW J, NEW g, NEW b, NEW k, Shifted(n, f, m, J, g, b, k)
    PROVE  Before(g) = Before(f) /\ Min({g[j].pos : j \in DOMAIN g}) = m + k
<1>given. /\ n \in Nat \ {0} /\ DOMAIN f = 1 .. n /\ \A i \in 1 .. n : f[i] \in Clip
          /\ m \in Int /\ (\A i \in 1 .. n : m <= f[i].pos) /\ \E i \in 1 .. n : m = f[i].pos
          /\ b \in Bijection(1 .. n, J) /\ DOMAIN g = J
          /\ k \in Int /\ \A i \in 1 .. n : g[b[i]] = [f[i] EXCEPT !.pos = f[i].pos + k]
  BY DEF Shifted
<1> USE <1>given
<1>1. /\ b \in [1 .. n -> J] /\ \A j \in J : \E i \in 1 .. n : b[i] = j
      /\ \A i, j \in 1 .. n : b[i] = b[j] => i = j
  BY DEF Bijection, Injection, Surjection, IsInjective
<1>2. \A i \in 1 .. n : /\ f[i] = [pos |-> f[i].pos, dur |-> f[i].dur, track |-> f[i].track]
                        /\ f[i].pos \in Nat
  BY DEF Clip
<1>3. \A i \in 1 .. n : g[b[i]] = [pos |-> f[i].pos + k, dur |-> f[i].dur, track |-> f[i].track]
  BY <1>2
<1> DEFINE F == {f[i].pos : i \in DOMAIN f}
           G == {g[j].pos : j \in DOMAIN g}
<1>4. Min(F) = m
  <2>1. F \in SUBSET Int /\ m \in F /\ \A x \in F : m <= x
    BY <1>2
  <2> HIDE DEF F
  <2> QED
    BY <2>1, MinIs
<1>5. Min(G) = m + k
  <2>1. ASSUME NEW i \in 1 .. n
        PROVE  g[b[i]].pos = f[i].pos + k /\ b[i] \in J
    <3>1. g[b[i]] = [pos |-> f[i].pos + k, dur |-> f[i].dur, track |-> f[i].track]
      BY <1>3
    <3> QED
      BY <1>1, <3>1
  <2>2. \A j \in J : \E i \in 1 .. n : g[j].pos = f[i].pos + k
    BY <1>1, <2>1
  <2>3. \E j \in J : g[j].pos = m + k
    <3>1. PICK i \in 1 .. n : m = f[i].pos
      OBVIOUS
    <3> QED
      BY <2>1, <3>1
  <2>4. \A j \in J : g[j].pos \in Int /\ m + k <= g[j].pos
    BY <1>2, <2>2
  <2>5. G \in SUBSET Int /\ m + k \in G /\ \A x \in G : m + k <= x
    BY <2>3, <2>4
  <2> HIDE DEF G
  <2> QED
    BY <2>5, MinIs
<1> HIDE DEF F, G
<1> DEFINE from(i) == [f[i] EXCEPT !.pos = @ - Min(F)]
           into(j) == [g[j] EXCEPT !.pos = @ - Min(G)]
<1>6. \A i \in 1 .. n : into(b[i]) = from(i)
  <2> TAKE i \in 1 .. n
  <2>1. from(i) = [pos |-> f[i].pos - m, dur |-> f[i].dur, track |-> f[i].track]
    BY <1>2, <1>4
  <2>2. into(b[i]) = [pos |-> (f[i].pos + k) - (m + k), dur |-> f[i].dur, track |-> f[i].track]
    <3>1. g[b[i]] = [pos |-> f[i].pos + k, dur |-> f[i].dur, track |-> f[i].track]
      BY <1>3
    <3>2. into(b[i]) = [g[b[i]] EXCEPT !.pos = @ - (m + k)]
      BY <1>5
    <3>3. f[i].pos + k \in Int /\ m + k \in Int
      BY <1>2
    <3> DEFINE c == g[b[i]]
               p == f[i].pos + k
               q == m + k
    <3>4. c = [pos |-> p, dur |-> f[i].dur, track |-> f[i].track] /\ p \in Int /\ q \in Int
      BY <3>1, <3>3
    <3>5. into(b[i]) = [c EXCEPT !.pos = @ - q]
      BY <3>2
    <3> HIDE DEF c, p, q, into
    <3>6. [c EXCEPT !.pos = @ - q] = [pos |-> p - q, dur |-> f[i].dur, track |-> f[i].track]
      BY <3>4, PosChanged
    <3>7. into(b[i]) = [pos |-> p - q, dur |-> f[i].dur, track |-> f[i].track]
      BY <3>5, <3>6
    <3> QED
      BY <3>7 DEF p, q
  <2>3. (f[i].pos + k) - (m + k) = f[i].pos - m
    BY <1>2
  <2> QED
    BY <2>1, <2>2, <2>3
<1> HIDE DEF from, into
<1>7. {into(j) : j \in J} = {from(i) : i \in 1 .. n}
  BY <1>1, <1>6
<1>8. ASSUME NEW shape
      PROVE  Cardinality({j \in J : into(j) = shape}) = Cardinality({i \in 1 .. n : from(i) = shape})
  <2> DEFINE I1 == {i \in 1 .. n : from(i) = shape}
             J1 == {j \in J : into(j) = shape}
             b1 == [i \in I1 |-> b[i]]
  <2>1. b1 \in [I1 -> J1] /\ \A j \in J1 : \E i \in I1 : b1[i] = j
    BY <1>1, <1>6
  <2>2. \A i, j \in I1 : b1[i] = b1[j] => i = j
    BY <1>1
  <2>3. IsFiniteSet(I1)
    <3>1. IsFiniteSet(1 .. n)
      <4>1. 1 \in Int /\ n \in Int
        OBVIOUS
      <4> QED
        BY <4>1, FS_Interval
    <3> QED
      BY <3>1, FS_Subset
  <2> HIDE DEF I1, J1, b1
  <2>4. b1 \in Bijection(I1, J1)
    BY <2>1, <2>2 DEF Bijection, Injection, Surjection, IsInjective
  <2>5. Cardinality(J1) = Cardinality(I1)
    BY <2>3, <2>4, FS_Bijection DEF ExistsBijection
  <2> QED
    BY <2>5 DEF I1, J1
<1>9. Before(f) = [shape \in {from(i) : i \in 1 .. n} |-> Cardinality({i \in 1 .. n : from(i) = shape})]
  BY DEF Before, from, F
<1>10. Before(g) = [shape \in {into(j) : j \in J} |-> Cardinality({j \in J : into(j) = shape})]
  BY DEF Before, into, G
<1>11. Before(g) = Before(f)
  <2> DEFINE many(shape) == Cardinality({i \in 1 .. n : from(i) = shape})
             much(shape) == Cardinality({j \in J : into(j) = shape})
             shapes == {from(i) : i \in 1 .. n}
  <2>1. \A shape \in shapes : much(shape) = many(shape)
    BY <1>8
  <2>2. Before(f) = [shape \in shapes |-> many(shape)] /\ Before(g) = [shape \in shapes |-> much(shape)]
    BY <1>7, <1>9, <1>10
  <2> HIDE DEF many, much, shapes
  <2> QED
    BY <2>1, <2>2
<1> QED
  BY <1>5, <1>11 DEF G

\* What a paste puts where: each of the clips copied, shifted by the same amount.
LEMMA PasteShifts ==
    ASSUME WorkbenchInv, Paste
    PROVE  LET new == Restrict(clips', ToSet(selected')) IN
           /\ Min({new[c].pos : c \in DOMAIN new}) = time
           /\ Before(new) = Before(clipboard)
<1> DEFINE n == Len(clipboard)
           new == [i \in 1 .. n |->
                     NewClip(clipboard[i].pos + time - Anchor, clipboard[i].dur, clipboard[i].track)]
           Added == {NewIds[i] : i \in 1 .. n}
           pasted == Restrict(clips', ToSet(selected'))
           b == [i \in 1 .. n |-> NewIds[i]]
<1>1. /\ clipboard # <<>> /\ n <= Len(NewIds) /\ AddAll(new) /\ selected' = SubSeq(NewIds, 1, n)
  BY DEF Paste, May
<1>2. PictureInv /\ MiscInv /\ time \in Nat
  BY DEF WorkbenchInv, MiscInv
<1>3. n \in Nat \ {0} /\ DOMAIN clipboard = 1 .. n /\ \A i \in 1 .. n : clipboard[i] \in LongClip
  <2>1. clipboard \in Seq(LongClip)
    BY <1>2 DEF MiscInv
  <2>2. n \in Nat /\ n >= 1
    BY <1>1, <2>1, LenProperties, FirstOf
  <2> QED
    BY <2>1, <2>2, LenProperties, ElementOfSeq
<1>4. \A i \in 1 .. n : /\ clipboard[i] \in Clip /\ clipboard[i].pos \in Nat /\ clipboard[i].dur \in Nat
                        /\ clipboard[i].dur >= MinDur
                        /\ clipboard[i] = [pos |-> clipboard[i].pos, dur |-> clipboard[i].dur,
                                           track |-> clipboard[i].track]
  BY <1>3 DEF LongClip, Clip
<1>5. Anchor \in Nat /\ \E i \in 1 .. n : Anchor = clipboard[i].pos
  <2> DEFINE T == {clipboard[i].pos : i \in 1 .. n}
  <2>1. T \in SUBSET Nat /\ clipboard[1].pos \in T
    BY <1>3, <1>4
  <2> HIDE DEF T
  <2>2. \E x \in T : \A y \in T : x <= y
    BY <2>1, NatMin
  <2>3. Min(T) \in T /\ Anchor = Min(T)
    BY <2>2 DEF Min, Anchor, T
  <2> QED
    BY <2>1, <2>3 DEF T
<1>6. \A i \in 1 .. n : Anchor <= clipboard[i].pos
  <2> DEFINE T == {clipboard[i].pos : i \in 1 .. n}
  <2>1. T \in SUBSET Nat /\ clipboard[1].pos \in T
    BY <1>3, <1>4
  <2>2. \A i \in 1 .. n : clipboard[i].pos \in T
    OBVIOUS
  <2>3. Anchor = Min(T)
    BY DEF Anchor
  <2> HIDE DEF T
  <2>4. \E x \in T : \A y \in T : x <= y
    BY <2>1, NatMin
  <2>5. \A y \in T : Min(T) <= y
    BY <2>4 DEF Min
  <2> QED
    BY <2>2, <2>3, <2>5
<1>7. \A i \in 1 .. n : /\ i \in 1 .. Len(NewIds) /\ NumberOf(NewIds[i]) = i
                        /\ \A j \in 1 .. n : NewIds[i] = NewIds[j] => i = j
  BY <1>1, <1>2, <1>3, NewIdsOnce
<1>8. ASSUME NEW i \in 1 .. n
      PROVE  new[i] = [clipboard[i] EXCEPT !.pos = clipboard[i].pos + (time - Anchor)]
  <2>1. /\ clipboard[i].pos \in Nat /\ clipboard[i].dur \in Nat /\ clipboard[i].dur >= MinDur
        /\ Anchor <= clipboard[i].pos /\ time \in Nat /\ Anchor \in Nat /\ MinDur \in Nat
        /\ clipboard[i] = [pos |-> clipboard[i].pos, dur |-> clipboard[i].dur, track |-> clipboard[i].track]
    BY <1>2, <1>4, <1>5, <1>6, WorkbenchNumbers
  <2>2. AtLeast(0, clipboard[i].pos + time - Anchor) = clipboard[i].pos + (time - Anchor)
    BY <2>1 DEF AtLeast
  <2>3. AtLeast(MinDur, clipboard[i].dur) = clipboard[i].dur
    BY <2>1 DEF AtLeast
  <2>4. new[i] = [pos |-> clipboard[i].pos + (time - Anchor), dur |-> clipboard[i].dur,
                  track |-> clipboard[i].track]
    BY <2>2, <2>3 DEF NewClip
  <2> QED
    BY <2>4, <2>1
<1>9. clips' = Over([t \in Added |-> new[NumberOf(t)]], clips)
  <2>1. clips' = [k \in 0 .. Len(new) |->
                    Over([t \in {NewIds[i] : i \in 1 .. k} |-> new[NumberOf(t)]], clips)][Len(new)]
    BY <1>1 DEF AddAll, Done
  <2>2. Len(new) = n
    <3>1. new \in [1 .. n -> {new[i] : i \in 1 .. n}]
      OBVIOUS
    <3> QED
      BY <1>3, <3>1, SeqOfFunction
  <2> HIDE DEF new
  <2> QED
    BY <1>3, <2>1, <2>2
<1>10. ToSet(selected') = Added
  <2>1. \A i \in 1 .. n : NewIds[i] \in fresh
    BY <1>2, <1>7, NewIdsOnce
  <2>2. /\ SubSeq(NewIds, 1, n) \in Seq(fresh) /\ Len(SubSeq(NewIds, 1, n)) = n
        /\ \A i \in 1 .. n : SubSeq(NewIds, 1, n)[i] = NewIds[i]
    BY <1>3, <2>1, SubSeqProperties
  <2>3. DOMAIN SubSeq(NewIds, 1, n) = 1 .. n
    BY <2>2, LenProperties
  <2> QED
    BY <1>1, <2>2, <2>3 DEF ToSet
<1> HIDE DEF new, n
<1>11. DOMAIN pasted = Added /\ \A i \in 1 .. n : pasted[NewIds[i]] = new[i]
  <2>1. \A i \in 1 .. n : NewIds[i] \in Added
    OBVIOUS
  <2>2. \A t \in Added : clips'[t] = new[NumberOf(t)]
    BY <1>9 DEF Over
  <2> QED
    BY <1>7, <1>10, <2>1, <2>2 DEF Restrict
<1>12. b \in Bijection(1 .. n, Added)
  BY <1>7 DEF Bijection, Injection, Surjection, IsInjective
<1>13. \A i \in 1 .. n : pasted[b[i]] = [clipboard[i] EXCEPT !.pos = clipboard[i].pos + (time - Anchor)]
  BY <1>8, <1>11
<1>14. DOMAIN pasted = Added
  BY <1>11
<1> HIDE DEF pasted, b, Added
<1>15. time - Anchor \in Int /\ Anchor \in Int
  BY <1>2, <1>5
<1>16. Before(pasted) = Before(clipboard) /\ Min({pasted[c].pos : c \in DOMAIN pasted}) = Anchor + (time - Anchor)
  <2> DEFINE k == time - Anchor
  <2>1. k \in Int /\ \A i \in 1 .. n : pasted[b[i]] = [clipboard[i] EXCEPT !.pos = clipboard[i].pos + k]
    BY <1>13, <1>15
  <2> HIDE DEF k
  <2>2. /\ n \in Nat \ {0} /\ DOMAIN clipboard = 1 .. n /\ \A i \in 1 .. n : clipboard[i] \in Clip
        /\ b \in Bijection(1 .. n, Added) /\ DOMAIN pasted = Added
        /\ Anchor \in Int /\ \A i \in 1 .. n : Anchor <= clipboard[i].pos
        /\ \E i \in 1 .. n : Anchor = clipboard[i].pos
    BY <1>3, <1>4, <1>5, <1>6, <1>12, <1>14, <1>15
  <2>3. Shifted(n, clipboard, Anchor, Added, pasted, b, k)
    BY <2>1, <2>2 DEF Shifted
  <2>4. Before(pasted) = Before(clipboard) /\ Min({pasted[c].pos : c \in DOMAIN pasted}) = Anchor + k
    BY <2>3, ShiftedShape
  <2> QED
    BY <2>4 DEF k
<1>17. Anchor + (time - Anchor) = time
  BY <1>2, <1>5
<1> QED
  BY <1>16, <1>17 DEF pasted

-----------------------------------------------------------------------------
(* The theorems.                                                            *)

LEMMA WorkbenchInvInit ==
    ASSUME WorkbenchInit
    PROVE  WorkbenchInv
<1>1. /\ clips = Clips0 /\ effects = [c \in Ids |-> <<>>] /\ tracks = Tracks
      /\ undo = <<>> /\ redo = <<>> /\ clipboard = <<>> /\ selected = <<Ghost>> /\ time = 0
      /\ entries = [i \in 1 .. Entries0 |-> FALSE] /\ cursor = Entries0
      /\ drag = None /\ line = None /\ browsing = FALSE /\ canEdit = TRUE
      /\ fresh = TmpIds /\ awaited = <<>> /\ asked = FALSE /\ topics \in TopicSets
  BY DEF WorkbenchInit
<1>2. PictureInv
  <2>1. DOMAIN Clips0 \subseteq Ids /\ Ghost \in Ids
    BY DEF Ids
  <2>2. \A c \in DOMAIN Clips0 : Clips0[c] \in LongClip
    BY WorkbenchClips DEF LongClip
  <2>3. Clips0 = [c \in DOMAIN Clips0 |-> Clips0[c]]
    BY WorkbenchClips
  <2>4. Clips0 \in ClipSets
    BY <2>1, <2>2, <2>3, ClipSetMeans
  <2>5. effects \in [Ids -> Lists]
    BY <1>1, EmptySeq DEF Lists
  <2>6. KindsKept(clips) /\ DOMAIN clips \cap fresh = {}
    BY <1>1, WorkbenchIds DEF KindsKept
  <2> QED
    BY <1>1, <2>4, <2>5, <2>6, ShotMeans DEF PictureInv, Shot
<1>3. StacksInv /\ DragInv /\ LineInv
  BY <1>1, EmptySeq, WorkbenchNumbers DEF StacksInv, DragInv, LineInv
<1>4. IdInv
  <2>1. awaited \in [{} -> {None} \cup {d \in Nat : d >= MinDur}]
    BY <1>1
  <2>2. Chosen(selected, fresh)
    <3>1. Ghost \in Ids \ fresh
      BY <1>1, WorkbenchIds DEF Ids
    <3> QED
      BY <1>1, <3>1, ChosenOne
  <2> QED
    BY <2>1, <2>2 DEF IdInv, Chosen
<1>5. MiscInv
  <2>1. browsing \in BOOLEAN /\ canEdit \in BOOLEAN /\ asked \in BOOLEAN
    BY <1>1, Zenon
  <2>2. time \in Nat /\ clipboard \in Seq(LongClip) /\ topics \in TopicSets
    BY <1>1, EmptySeq
  <2> QED
    BY <2>1, <2>2 DEF MiscInv
<1>6. HistInv
  <2>1. Entries0 \in Nat
    BY WorkbenchNumbers
  <2>2. entries \in [1 .. Entries0 -> BOOLEAN] /\ \A i \in 1 .. Entries0 : entries[i] = FALSE
    BY <1>1, Zenon
  <2>3. entries \in Seq(BOOLEAN) /\ Len(entries) = Entries0
    BY <2>1, <2>2, SeqOfFunction
  <2>4. cursor \in 0 .. Len(entries)
    BY <1>1, <2>1, <2>3
  <2>5. \A i \in 1 .. Len(entries) : entries[i] <=> i > cursor
    <3>1. \A i \in 1 .. Len(entries) : ~(i > cursor)
      BY <1>1, <2>1, <2>3
    <3> QED
      BY <2>2, <2>3, <3>1
  <2> QED
    BY <2>3, <2>4, <2>5 DEF HistInv, HistoryMarks
<1> QED
  BY <1>2, <1>3, <1>4, <1>5, <1>6 DEF WorkbenchInv

LEMMA WorkbenchInvNext ==
    ASSUME WorkbenchInv, [WorkbenchNext]_vars
    PROVE  WorkbenchInv'
<1>1. CASE Release
  BY <1>1, ReleaseStep
<1>2. CASE SelectAll \/ DeselectAll \/ Copy
  BY <1>2, SelectAllStep, DeselectAllStep, CopyStep
<1>3. CASE SplitSelected
  BY <1>3, SplitSelectedStep
<1>4. CASE DeleteSelected
  BY <1>4, DeleteSelectedStep
<1>5. CASE Paste
  BY <1>5, PasteStep
<1>6. CASE Undo \/ Redo
  BY <1>6, UndoStep
<1>7. CASE Browse \/ Close \/ RoleChanges \/ \E at \in Places : Seek(at)
  BY <1>7, PanelStep
<1>8. CASE TrackAnswer
  BY <1>8, TrackAnswerStep
<1>9. CASE \E c \in OnScreen, additive \in BOOLEAN : Press(c, additive)
  BY <1>9, PressStep
<1>10. CASE \E c \in OnScreen, at \in Places, additive \in BOOLEAN : Cut(c, at, additive)
  BY <1>10, CutStep
<1>11. CASE \E c \in OnScreen, side \in {"left", "right"} : Grip(c, side)
  BY <1>11, GripStep
<1>12. CASE \E pos \in Places, row \in Tracks : DragTo(pos, row)
  BY <1>12, DragToStep
<1>13. CASE \E pos \in Places : TrimTo(pos)
  BY <1>13, TrimToStep
<1>14. CASE \E track \in Tracks, pos \in Places, dur \in {1, MinDur + 1} : DropAsset(track, pos, dur)
  BY <1>14, DropAssetStep
<1>15. CASE \E n \in 1 .. Len(entries) : JumpTo(n)
  BY <1>15, JumpToStep
<1>16. CASE \E type \in EffectTypes : AddEffect(type) \/ Apply(type)
  BY <1>16, AddEffectStep, ApplyStep
<1>17. CASE \E i \in 1 .. MaxOps : ToggleEffect(i) \/ RemoveEffect(i) \/ UpdateEffect(i)
  BY <1>17, ChangeEffectStep, RemoveEffectStep
<1>18. CASE \E track \in Tracks : DeleteTrack(track) \/ ToggleTrack(track)
  BY <1>18, DeleteTrackStep, ToggleTrackStep
<1>19. CASE \E t \in TmpIds : Answer(t) \/ AnswerFails(t)
  BY <1>19, AnswerStep, AnswerFailsStep
<1>20. CASE \E c \in DOMAIN Clips0, pos \in Places : RemoteUpsert(c, pos)
  BY <1>20, RemoteUpsertStep
<1>21. CASE \E c \in DOMAIN clips \ TmpIds : RemoteDelete(c)
  BY <1>21, RemoteDeleteStep
<1>22. CASE \E reading \in Readings : LoadProject(reading)
  BY <1>22, LoadProjectStep
<1>23. CASE UNCHANGED vars
  BY <1>23, StillStep
<1> QED
  BY <1>1, <1>2, <1>3, <1>4, <1>5, <1>6, <1>7, <1>8, <1>9, <1>10, <1>11, <1>12, <1>13, <1>14,
     <1>15, <1>16, <1>17, <1>18, <1>19, <1>20, <1>21, <1>22, <1>23 DEF WorkbenchNext

LEMMA WorkbenchInvAlways == WorkbenchSpec => []WorkbenchInv
<1>1. WorkbenchInit => WorkbenchInv
  BY WorkbenchInvInit
<1>2. WorkbenchInv /\ [WorkbenchNext]_vars => WorkbenchInv'
  BY WorkbenchInvNext
<1> QED
  BY <1>1, <1>2, PTL DEF WorkbenchSpec

\* A picture without its ids is as Sane says.
LEMMA ShotSane ==
    ASSUME NEW new, NEW s \in Shots(new)
    PROVE  Sane(s.clips, s.effects, s.tracks)
<1>1. s.clips \in ClipSets /\ s.effects \in [Ids -> Lists] /\ s.tracks \subseteq Tracks
  BY DEF Shots
<1>2. DOMAIN s.clips \subseteq Ids /\ \A id \in DOMAIN s.clips : s.clips[id] \in LongClip
  BY <1>1, ClipSetHas
<1> QED
  BY <1>1, <1>2 DEF Sane, LongClip

\* The types hold, no clip is ever too short, and nobody has an id that is still to be
\* given out; the marks of the history panel are those behind its cursor; and no clip ever
\* lies on a track of another type than the one it came from.
THEOREM WorkbenchCorrect == WorkbenchSpec => []WorkbenchOK
<1>1. ASSUME WorkbenchInv
      PROVE  WorkbenchOK
  <2>1. PictureInv /\ StacksInv /\ IdInv /\ MiscInv /\ HistInv
    BY <1>1 DEF WorkbenchInv
  <2>2. Sane(clips, effects, tracks) /\ KindsKept(clips) /\ DOMAIN clips \cap fresh = {}
        /\ fresh \subseteq TmpIds
    <3>1. Shot \in Shots(fresh)
      BY <2>1 DEF PictureInv
    <3>2. Sane(Shot.clips, Shot.effects, Shot.tracks)
      BY <3>1, ShotSane
    <3> QED
      BY <2>1, <3>2, PictureHas DEF Shot
  <2>3. /\ \A i \in 1 .. Len(undo) : Sane(undo[i].clips, undo[i].effects, undo[i].tracks)
        /\ \A i \in 1 .. Len(redo) : Sane(redo[i].clips, redo[i].effects, redo[i].tracks)
        /\ Len(undo) <= MaxUndo /\ Len(redo) <= MaxUndo
    <3>1. /\ \A i \in 1 .. Len(undo) : undo[i] \in Shots(fresh)
          /\ \A i \in 1 .. Len(redo) : redo[i] \in Shots(fresh)
      BY <2>1, ElementOfSeq DEF StacksInv
    <3> QED
      BY <2>1, <3>1, ShotSane DEF StacksInv
  <2>4. \A i \in 1 .. Len(clipboard) : clipboard[i] \in Clip
    <3>1. clipboard \in Seq(LongClip)
      BY <2>1 DEF MiscInv
    <3> QED
      BY <3>1, ElementOfSeq DEF LongClip
  <2>5. ToSet(selected) \subseteq Ids \ fresh
    <3>1. selected \in Seq(Ids \ fresh)
      BY <2>1 DEF IdInv
    <3>2. \A i \in DOMAIN selected : selected[i] \in Ids \ fresh
      BY <3>1, LenProperties, ElementOfSeq
    <3> QED
      BY <3>2 DEF ToSet
  <2>6. DOMAIN awaited \subseteq TmpIds \ fresh
    BY <2>1 DEF IdInv
  <2>7. WorkbenchTypeOK
    BY <2>1, <2>2, <2>3, <2>4, <2>5, <2>6 DEF WorkbenchTypeOK, MiscInv, IdInv
  <2>8. KeepsItsKind
    BY <2>2 DEF KindsKept, KeepsItsKind
  <2> QED
    BY <2>1, <2>7, <2>8 DEF WorkbenchOK, HistInv
<1>2. WorkbenchInv => WorkbenchOK
  BY <1>1
<1> QED
  BY <1>2, WorkbenchInvAlways, PTL

\* Whatever the keyboard, the answers, other people and a timeline read again do meanwhile:
\* as long as the mousedown's snapshot is in the stack, it lies right beneath those that
\* other things have pushed since, and a drag has added none.
THEOREM WorkbenchDrag == WorkbenchSpec => []DragIsOneStep
<1>1. WorkbenchInv => DragIsOneStep
  BY DEF WorkbenchInv, DragInv, DragIsOneStep
<1> QED
  BY <1>1, WorkbenchInvAlways, PTL

\* While the snap line is drawn, an edge of the clip the drag has put there is on it.
THEOREM WorkbenchSnap == WorkbenchSpec => []SnapLineTrue
<1>1. WorkbenchInv => SnapLineTrue
  BY DEF WorkbenchInv, LineInv, SnapLineTrue
<1> QED
  BY <1>1, WorkbenchInvAlways, PTL

\* A paste puts the earliest clip at the playhead, and keeps how far the others are from it.
THEOREM WorkbenchPaste == WorkbenchSpec => PasteKeepsShape
<1>1. WorkbenchInv => [Paste => LET new == Restrict(clips', ToSet(selected')) IN
                          /\ Min({new[c].pos : c \in DOMAIN new}) = time
                          /\ Before(new) = Before(clipboard)]_vars
  BY PasteShifts
<1> QED
  BY <1>1, WorkbenchInvAlways, PTL DEF PasteKeepsShape
=============================================================================
