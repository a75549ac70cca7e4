---------------------------- MODULE ClipsProofs ----------------------------
(***************************************************************************)
(* The clips of a project, where they are kept and where they are played:  *)
(* what Timeline guarantees for any number of requests, clips, tracks and  *)
(* tabs and under all faults, and Player for any clips and tracks, however *)
(* they are edited.  The two have nothing in common but this file.         *)
(***************************************************************************)
EXTENDS Timeline, Player, SequenceTheorems, WellFoundedInduction, NaturalsInduction, TLAPS

(***************************************************************************)
(* TIMELINE                                                                *)
(***************************************************************************)

(***************************************************************************)
(* Where a handler is determines what it holds in its locals.              *)
(***************************************************************************)
Active == {"lookup", "check", "write", "fetch", "shorten", "insert", "log", "publish"}

HandlerOK(r) ==
    /\ pc[r] \in Active => call[r] \in Calls
    /\ pc[r] \in {"idle", "lookup", "check", "write", "fetch"} => rows[r] = <<>>
    /\ pc[r] = "write" /\ call[r].op = "update_clip" => readTrack[r] \in Tracks
    /\ pc[r] = "check" => call[r].op = "delete_asset"
    /\ pc[r] \in {"fetch", "shorten", "insert"} => call[r].op = "split_clip"
    /\ pc[r] = "shorten" => Len(rows[r]) = 1
    /\ pc[r] = "insert" => Len(rows[r]) = 2
    /\ pc[r] = "log" => call[r].op \in {"add_clip", "update_clip"} /\ Len(rows[r]) = 1
    /\ pc[r] = "publish" => /\ call[r].op = "split_clip" => Len(rows[r]) = 3
                            /\ call[r].op = "delete_clip" => rows[r] = <<>>

HandlerInv == \A r \in Requests : HandlerOK(r)

(***************************************************************************)
(* How far a split is: the guard held for the original, the left half is   *)
(* the clip the request names, and, when nobody wrote it in between, the   *)
(* original cut short.                                                     *)
(***************************************************************************)
SplitOK(r) ==
    call[r].op = "split_clip" =>
        /\ Len(rows[r]) >= 1 => /\ call[r].at \in Int
                                /\ SplitAllowed(rows[r][1], call[r].at)
                                /\ rows[r][1].id = call[r].clip
        /\ Len(rows[r]) >= 2 /\ rows[r][2].version = rows[r][1].version + 1
                => rows[r][2] = Shortened(rows[r][1], call[r].at)
        /\ Len(rows[r]) >= 3 => rows[r][3] = RightHalf(rows[r][1], call[r].at, rows[r][3].id)

SplitInv == \A r \in Requests : SplitOK(r)

-----------------------------------------------------------------------------
(* Sequences                                                                *)

\* Appending adds at most the new element.
LEMMA ToSetAppend ==
    ASSUME NEW S, NEW s \in Seq(S), NEW e \in S
    PROVE  ToSet(Append(s, e)) \subseteq ToSet(s) \cup {e}
  BY AppendProperties DEF ToSet

\* The tail has no element of its own.
LEMMA ToSetTail ==
    ASSUME NEW S, NEW s \in Seq(S), s # <<>>
    PROVE  ToSet(Tail(s)) \subseteq ToSet(s)
<1>1. Tail(s) \in Seq(S) /\ Len(Tail(s)) = Len(s) - 1 /\ Len(s) \in Nat
  BY HeadTailProperties, LenProperties
<1>2. \A i \in 1 .. Len(Tail(s)) : Tail(s)[i] = s[i + 1] /\ i + 1 \in 1 .. Len(s)
  BY <1>1, HeadTailProperties
<1>3. DOMAIN s = 1 .. Len(s) /\ DOMAIN Tail(s) = 1 .. Len(Tail(s))
  BY <1>1, LenProperties
<1> QED
  BY <1>2, <1>3 DEF ToSet

-----------------------------------------------------------------------------
(* Types                                                                    *)

\* The table keeps its type when a row is put into it.
LEMMA PutTypes ==
    ASSUME TimelineTypeOK, NEW x \in Row, Put(x), unused' \subseteq unused, x.id \notin unused'
    PROVE  /\ DOMAIN clips' \subseteq ClipIds \ unused'
           /\ clips' \in [DOMAIN clips' -> Row]
           /\ \A c \in DOMAIN clips' : clips'[c].id = c
<1>1. DOMAIN clips' = DOMAIN clips \cup {x.id} /\ x.id \in ClipIds
  BY DEF Put, Row
<1>2. \A c \in DOMAIN clips' : clips'[c] = IF c = x.id THEN x ELSE clips[c]
  BY <1>1 DEF Put
<1>3. clips' = [c \in DOMAIN clips' |-> clips'[c]]
  BY <1>1 DEF Put
<1>4. \A c \in DOMAIN clips' : clips'[c] \in Row /\ clips'[c].id = c
  BY <1>1, <1>2 DEF TimelineTypeOK
<1>5. DOMAIN clips' \subseteq ClipIds \ unused'
  BY <1>1 DEF TimelineTypeOK
<1> QED
  BY <1>3, <1>4, <1>5

\* A restriction of the table has the table's type.
LEMMA RestrictTypes ==
    ASSUME TimelineTypeOK, NEW D \in SUBSET DOMAIN clips,
           clips' = [c \in D |-> clips[c]], unused' = unused
    PROVE  /\ DOMAIN clips' \subseteq ClipIds \ unused'
           /\ clips' \in [DOMAIN clips' -> Row]
           /\ \A c \in DOMAIN clips' : clips'[c].id = c
<1>1. DOMAIN clips' = D
  OBVIOUS
<1>2. \A c \in D : clips'[c] = clips[c] /\ clips[c] \in Row /\ clips[c].id = c
  BY <1>1 DEF TimelineTypeOK
<1>3. clips' = [c \in DOMAIN clips' |-> clips'[c]]
  BY <1>1
<1> QED
  BY <1>1, <1>2, <1>3 DEF TimelineTypeOK

\* What the callers of the API can ask for has the right shape.
LEMMA CallFields ==
    ASSUME TimelineTypeOK, HandlerInv, NEW r \in Requests, pc[r] \in Active
    PROVE  /\ call[r] \in Call /\ call[r].op # "none"
           /\ call[r].op = "add_clip" => call[r].pos \in Int /\ call[r].dur \in Int
           /\ call[r].op = "split_clip" => call[r].at \in Int
           /\ call[r].op \in {"add_clip", "delete_track"} => call[r].track \in Tracks
           /\ call[r].op \in {"update_clip", "delete_clip", "split_clip"} => call[r].clip \in ClipIds
           /\ call[r].asset \in AssetIds \cup {None}
<1>1. WellFormed(call[r])
  BY CallsWellFormed DEF HandlerInv, HandlerOK
<1> QED
  BY <1>1 DEF WellFormed, Call

\* The row that add_clip inserts.
LEMMA AddedIsRow ==
    ASSUME TimelineTypeOK, HandlerInv, NEW r \in Requests, pc[r] = "write",
           call[r].op = "add_clip", NEW c \in unused
    PROVE  Added(call[r], c) \in Row /\ Added(call[r], c).id = c
<1>1. call[r].pos \in Int /\ call[r].dur \in Int /\ call[r].track \in Tracks
  BY CallFields DEF Active
<1>2. AtLeast(0, call[r].pos) \in Nat /\ AtLeast(MinDur, call[r].dur) \in Nat
  BY <1>1, MinDurPositive DEF AtLeast
<1>3. c \in ClipIds
  BY DEF TimelineTypeOK
<1> QED
  BY <1>1, <1>2, <1>3 DEF Row, Added

\* The row that update_clip writes: the next version of the clip.
LEMMA UpdatedIsNext ==
    ASSUME TimelineTypeOK, HandlerInv, NEW r \in Requests, pc[r] = "write",
           call[r].op = "update_clip", call[r].clip \in DOMAIN clips, Fits(Updated(r))
    PROVE  /\ Updated(r) \in Row
           /\ Updated(r).id = call[r].clip
           /\ Updated(r).version = clips[call[r].clip].version + 1
<1> DEFINE k == call[r]
           old == clips[k.clip]
           Or(x, y) == IF x = None THEN y ELSE x
           track == Or(k.track, readTrack[r])
           pos == AtLeast(0, Or(k.pos, old.pos))
           dur == AtLeast(MinDur, Or(k.dur, old.dur))
           trimIn == Or(k.trimIn, old.trimIn)
<1>1. k \in Call
  BY CallFields DEF Active
<1>2. old \in Row /\ old.id = k.clip
  BY DEF TimelineTypeOK
<1>3. track \in Tracks
  BY <1>1 DEF Call, HandlerInv, HandlerOK
<1>4. pos \in Nat
  BY <1>1, <1>2 DEF Call, Row, AtLeast
<1>5. dur \in Nat
  BY <1>1, <1>2, MinDurPositive DEF Call, Row, AtLeast
<1>6. Updated(r) = [id |-> old.id, track |-> track, pos |-> pos, dur |-> dur,
                    trimIn |-> trimIn, version |-> old.version + 1]
  BY DEF Updated
<1>7. trimIn \in Nat
  <2>1. trimIn \in Int
    BY <1>1, <1>2 DEF Call, Row
  <2>2. trimIn >= 0
    BY <1>6 DEF Fits
  <2> QED
    BY <2>1, <2>2
<1> HIDE DEF track, pos, dur, trimIn
<1> QED
  BY <1>2, <1>3, <1>4, <1>5, <1>6, <1>7 DEF Row

\* The guard of a split and the shortened row.
LEMMA ShortenedIsNext ==
    ASSUME NEW row \in Row, NEW at \in Int, at >= MinDur
    PROVE  /\ Shortened(row, at) \in Row
           /\ Shortened(row, at).id = row.id
           /\ Shortened(row, at).version = row.version + 1
  BY MinDurPositive DEF Shortened, Row

\* The right half that split_clip inserts.
LEMMA RightHalfIsRow ==
    ASSUME NEW row \in Row, NEW at \in Int, SplitAllowed(row, at), NEW c \in ClipIds
    PROVE  /\ RightHalf(row, at, c) \in Row
           /\ RightHalf(row, at, c).id = c
           /\ RightHalf(row, at, c).dur >= MinDur
  BY MinDurPositive DEF SplitAllowed, RightHalf, Row

\* What a split that is under way holds.
LEMMA SplitRows ==
    ASSUME TimelineTypeOK, HandlerInv, SplitInv, NEW r \in Requests, pc[r] \in {"shorten", "insert"}
    PROVE  /\ rows[r][1] \in Row /\ rows[r][1].id = call[r].clip
           /\ call[r].at \in Int /\ call[r].at >= MinDur /\ SplitAllowed(rows[r][1], call[r].at)
<1>1. Len(rows[r]) \in {1, 2} /\ call[r].op = "split_clip"
  BY DEF HandlerInv, HandlerOK
<1>2. rows[r] \in Seq(Row)
  BY DEF TimelineTypeOK
<1>3. rows[r][1] \in Row
  BY <1>1, <1>2, ElementOfSeq
<1>4. SplitOK(r)
  BY DEF SplitInv
<1> QED
  BY <1>1, <1>3, <1>4 DEF SplitOK, SplitAllowed

\* Holding one more row keeps the type of the locals.
LEMMA HoldTypes ==
    ASSUME TimelineTypeOK, NEW r \in Requests, NEW row \in Row, Hold(r, row)
    PROVE  rows' \in [Requests -> Seq(Row)]
<1>1. Append(rows[r], row) \in Seq(Row)
  BY AppendProperties DEF TimelineTypeOK
<1> QED
  BY <1>1 DEF TimelineTypeOK, Hold

\* The event of a request has the type of the channel.
LEMMA EventTypes ==
    ASSUME TimelineTypeOK, HandlerInv, NEW r \in Requests, pc[r] = "publish"
    PROVE  /\ Event(r) \in [gone : ClipIds \cup {None}, rows : Seq(Row)]
           /\ ToSet(Event(r).rows) \subseteq ToSet(rows[r])
<1>1. rows[r] \in Seq(Row)
  BY DEF TimelineTypeOK
<1>2. call[r].op = "split_clip" => rows[r] # <<>>
  <2>1. call[r].op = "split_clip" => Len(rows[r]) = 3
    BY DEF HandlerInv, HandlerOK
  <2>2. Len(<<>>) # 3
    BY EmptySeq
  <2> QED
    BY <2>1, <2>2, Zenon
<1>3. call[r].op = "split_clip" => Tail(rows[r]) \in Seq(Row) /\ ToSet(Tail(rows[r])) \subseteq ToSet(rows[r])
  BY <1>1, <1>2, ToSetTail, HeadTailProperties
<1>4. call[r].op = "delete_clip" => call[r].clip \in ClipIds
  BY CallFields DEF Active
<1> QED
  BY <1>1, <1>3, <1>4 DEF Event

\* So does writing a row into the table and holding it.
LEMMA WriteTypes ==
    ASSUME TimelineTypeOK, NEW r \in Requests, NEW row \in Row, Put(row), Hold(r, row),
           unused' \subseteq unused, row.id \notin unused'
    PROVE  /\ rows' \in [Requests -> Seq(Row)]
           /\ DOMAIN clips' \subseteq ClipIds \ unused'
           /\ clips' \in [DOMAIN clips' -> Row]
           /\ \A c \in DOMAIN clips' : clips'[c].id = c
  BY HoldTypes, PutTypes

\* A step preserves the types.
LEMMA TypeStep ==
    ASSUME TimelineTypeOK, HandlerInv, SplitInv, TimelineNext
    PROVE  TimelineTypeOK'
<1>f. faults' = faults
  BY DEF TimelineNext
<1> USE <1>f DEF tableVars, handlerVars, viewerVars, GoTo, Ended
<1>1. ASSUME NEW r \in Requests, Start(r) PROVE TimelineTypeOK'
  BY <1>1 DEF Start, TimelineTypeOK
<1>2. ASSUME NEW r \in Requests, Lookup(r) PROVE TimelineTypeOK'
  <2>1. pc' \in [Requests -> Ended \cup Active]
    BY <1>2 DEF Lookup, TimelineTypeOK, Active
  <2>2. readTrack' \in [Requests -> Tracks \cup {None}]
    <3>1. call[r].clip \in DOMAIN clips => clips[call[r].clip].track \in Tracks
      BY DEF TimelineTypeOK, Row
    <3> QED
      BY <1>2, <3>1 DEF Lookup, TimelineTypeOK
  <2> QED
    BY <1>2, <2>1, <2>2 DEF Lookup, TimelineTypeOK, Active
<1>3. ASSUME NEW r \in Requests, AddClip(r) PROVE TimelineTypeOK'
  <2>1. CASE ~ (tracks[call[r].track] = "live" /\ Exists(call[r].asset))
    BY <1>3, <2>1 DEF AddClip, Fail, TimelineTypeOK
  <2>2. CASE tracks[call[r].track] = "live" /\ Exists(call[r].asset)
    <3>1. PICK c \in unused : Insert(r, Added(call[r], c), call[r].asset)
      BY <1>3, <2>2 DEF AddClip
    <3>2. Added(call[r], c) \in Row /\ Added(call[r], c).id = c
      BY <1>3, AddedIsRow DEF AddClip
    <3>3. /\ Put(Added(call[r], c)) /\ Hold(r, Added(call[r], c)) /\ unused' = unused \ {c}
          /\ tracks' = tracks /\ assets' = assets
      BY <3>1, <3>2 DEF Insert
    <3>4. assetOf' \in [ClipIds -> assets \cup {None}]
      BY <2>2, <3>1 DEF Insert, Exists, TimelineTypeOK
    <3> QED
      BY <1>3, <2>2, <3>2, <3>3, <3>4, WriteTypes DEF AddClip, TimelineTypeOK
  <2> QED
    BY <2>1, <2>2
<1>4. ASSUME NEW r \in Requests, UpdateClip(r) PROVE TimelineTypeOK'
  <2>1. CASE ~ (call[r].clip \in DOMAIN clips /\ Fits(Updated(r)))
    BY <1>4, <2>1 DEF UpdateClip, Fail, TimelineTypeOK
  <2>2. CASE call[r].clip \in DOMAIN clips /\ Fits(Updated(r))
    <3>1. Put(Updated(r)) /\ Hold(r, Updated(r)) /\ UNCHANGED <<tracks, unused, assets, assetOf>> /\ GoTo(r, "log")
      BY <1>4, <2>2 DEF UpdateClip
    <3>2. Updated(r) \in Row /\ Updated(r).id \notin unused
      BY <1>4, <2>2, UpdatedIsNext DEF UpdateClip, TimelineTypeOK
    <3> QED
      BY <1>4, <3>1, <3>2, WriteTypes DEF UpdateClip, TimelineTypeOK
  <2> QED
    BY <2>1, <2>2
<1>5. ASSUME NEW r \in Requests, DeleteClip(r) PROVE TimelineTypeOK'
  <2>1. /\ DOMAIN clips' \subseteq ClipIds \ unused'
        /\ clips' \in [DOMAIN clips' -> Row]
        /\ \A c \in DOMAIN clips' : clips'[c].id = c
    BY <1>5, RestrictTypes DEF DeleteClip
  <2>2. assetOf' \in [ClipIds -> assets \cup {None}]
    BY <1>5 DEF DeleteClip, TimelineTypeOK
  <2> QED
    BY <1>5, <2>1, <2>2 DEF DeleteClip, TimelineTypeOK
<1>6. ASSUME NEW r \in Requests, FetchOriginal(r) PROVE TimelineTypeOK'
  <2>1. CASE Fail(r)
    BY <1>6, <2>1 DEF FetchOriginal, Fail, TimelineTypeOK
  <2>2. CASE Hold(r, clips[call[r].clip]) /\ call[r].clip \in DOMAIN clips /\ UNCHANGED tableVars
             /\ GoTo(r, "shorten")
    <3>1. clips[call[r].clip] \in Row
      BY <2>2 DEF TimelineTypeOK
    <3>2. rows' \in [Requests -> Seq(Row)]
      BY <2>2, <3>1, HoldTypes
    <3>3. readAsset' \in [Requests -> AssetIds \cup {None}]
      BY <1>6, <2>2 DEF FetchOriginal, TimelineTypeOK, Fail
    <3> QED
      BY <1>6, <2>2, <3>2, <3>3 DEF FetchOriginal, TimelineTypeOK
  <2> QED
    BY <1>6, <2>1, <2>2 DEF FetchOriginal
<1>7. ASSUME NEW r \in Requests, ShortenLeft(r) PROVE TimelineTypeOK'
  <2> DEFINE left == Shortened(clips[call[r].clip], call[r].at)
  <2>1. CASE call[r].clip \notin DOMAIN clips
    BY <1>7, <2>1 DEF ShortenLeft, Fail, TimelineTypeOK
  <2>2. CASE call[r].clip \in DOMAIN clips
    <3>1. Put(left) /\ Hold(r, left) /\ UNCHANGED <<tracks, unused, assets, assetOf>> /\ GoTo(r, "insert")
      BY <1>7, <2>2 DEF ShortenLeft
    <3>2. left \in Row /\ left.id \notin unused
      BY <1>7, <2>2, SplitRows, ShortenedIsNext DEF ShortenLeft, TimelineTypeOK
    <3> HIDE DEF left
    <3> QED
      BY <1>7, <3>1, <3>2, WriteTypes DEF ShortenLeft, TimelineTypeOK
  <2> QED
    BY <2>1, <2>2
<1>8. ASSUME NEW r \in Requests, InsertRight(r) PROVE TimelineTypeOK'
  <2>1. CASE Fail(r)
    BY <1>8, <2>1 DEF InsertRight, Fail, TimelineTypeOK
  <2>2. CASE ~ Fail(r)
    <3>1. PICK c \in unused : /\ Insert(r, RightHalf(rows[r][1], call[r].at, c), readAsset[r])
                              /\ GoTo(r, "publish") /\ Exists(readAsset[r])
      BY <1>8, <2>2 DEF InsertRight
    <3> DEFINE right == RightHalf(rows[r][1], call[r].at, c)
    <3>2. right \in Row /\ right.id = c
      <4>1. rows[r][1] \in Row /\ call[r].at \in Int /\ SplitAllowed(rows[r][1], call[r].at)
        BY <1>8, SplitRows DEF InsertRight
      <4>2. c \in ClipIds
        BY DEF TimelineTypeOK
      <4> QED
        BY <4>1, <4>2, RightHalfIsRow
    <3>3. /\ Put(right) /\ Hold(r, right) /\ unused' = unused \ {c}
          /\ tracks' = tracks /\ assets' = assets
      BY <3>1, <3>2 DEF Insert
    <3>4. assetOf' \in [ClipIds -> assets \cup {None}]
      BY <3>1 DEF Insert, Exists, TimelineTypeOK
    <3> HIDE DEF right
    <3> QED
      BY <1>8, <3>1, <3>2, <3>3, <3>4, WriteTypes DEF InsertRight, TimelineTypeOK
  <2> QED
    BY <2>1, <2>2
<1>9. ASSUME NEW r \in Requests, CreateTrack(r) PROVE TimelineTypeOK'
  BY <1>9 DEF CreateTrack, TimelineTypeOK
<1>10. ASSUME NEW r \in Requests, DeleteTrack(r) PROVE TimelineTypeOK'
  <2>1. /\ DOMAIN clips' \subseteq ClipIds \ unused'
        /\ clips' \in [DOMAIN clips' -> Row]
        /\ \A c \in DOMAIN clips' : clips'[c].id = c
    BY <1>10, RestrictTypes DEF DeleteTrack
  <2>2. tracks' \in [Tracks -> {"unused", "live", "deleted"}]
    BY <1>10 DEF DeleteTrack, TimelineTypeOK
  <2>3. assetOf' \in [ClipIds -> assets \cup {None}]
    BY <1>10 DEF DeleteTrack, TimelineTypeOK
  <2> QED
    BY <1>10, <2>1, <2>2, <2>3 DEF DeleteTrack, TimelineTypeOK
<1>11. ASSUME NEW r \in Requests, LogOperation(r) PROVE TimelineTypeOK'
  <2> DEFINE Entries == [op : Ops, row : Row]
  <2>1. rows[r] \in Seq(Row) /\ Len(rows[r]) = 1
    BY <1>11 DEF LogOperation, HandlerInv, HandlerOK, TimelineTypeOK
  <2>2. Last(rows[r]) \in Row
    BY <2>1, ElementOfSeq DEF Last
  <2>3. call[r].op \in Ops
    BY <1>11, CallFields DEF LogOperation, Active, Call
  <2>4. [op |-> call[r].op, row |-> Last(rows[r])] \in Entries /\ log \in Seq(Entries)
    BY <2>2, <2>3 DEF TimelineTypeOK
  <2> HIDE DEF Entries
  <2>5. log' \in Seq(Entries)
    BY <1>11, <2>4, AppendProperties DEF LogOperation
  <2> QED
    BY <1>11, <2>5 DEF LogOperation, TimelineTypeOK, Entries
<1>12. ASSUME NEW r \in Requests, PublishEvent(r) PROVE TimelineTypeOK'
  <2> DEFINE Events == [gone : ClipIds \cup {None}, rows : Seq(Row)]
  <2>1. Event(r) \in Events
    BY <1>12, EventTypes DEF PublishEvent
  <2> HIDE DEF Events
  <2>2. \A v \in Viewers : queue[v] \in Seq(Events) /\ Append(queue[v], Event(r)) \in Seq(Events)
    BY <2>1, AppendProperties DEF TimelineTypeOK, Events
  <2>3. queue' \in [Viewers -> Seq(Events)]
    BY <1>12, <2>2 DEF PublishEvent
  <2> QED
    BY <1>12, <2>3 DEF PublishEvent, TimelineTypeOK, Events
<1>13. ASSUME NEW r \in Requests, Abort(r) PROVE TimelineTypeOK'
  BY <1>13 DEF Abort, TimelineTypeOK
<1>14. ASSUME NEW v \in Viewers, Receive(v) PROVE TimelineTypeOK'
  <2> DEFINE Events == [gone : ClipIds \cup {None}, rows : Seq(Row)]
  <2>1. Tail(queue[v]) \in Seq(Events)
    BY <1>14, HeadTailProperties DEF Receive, TimelineTypeOK
  <2> HIDE DEF Events
  <2>2. queue' \in [Viewers -> Seq(Events)]
    BY <1>14, <2>1 DEF Receive, TimelineTypeOK, Events
  <2> QED
    BY <1>14, <2>2 DEF Receive, TimelineTypeOK, Events
<1>15. ASSUME NEW v \in Viewers, AskTimeline(v) \/ ShowTimeline(v) PROVE TimelineTypeOK'
  BY <1>15 DEF AskTimeline, ShowTimeline, TimelineTypeOK
<1>16. ASSUME NEW r \in Requests, CheckUse(r) PROVE TimelineTypeOK'
  BY <1>16 DEF CheckUse, TimelineTypeOK
<1>17. ASSUME NEW r \in Requests, DeleteAsset(r) PROVE TimelineTypeOK'
  <2>1. assets' \subseteq AssetIds /\ assetOf' \in [ClipIds -> assets' \cup {None}]
    BY <1>17 DEF DeleteAsset, TimelineTypeOK
  <2> QED
    BY <1>17, <2>1 DEF DeleteAsset, TimelineTypeOK
<1> QED
  BY <1>1, <1>2, <1>3, <1>4, <1>5, <1>6, <1>7, <1>8, <1>9, <1>10, <1>11, <1>12, <1>13,
     <1>14, <1>15, <1>16, <1>17 DEF TimelineNext

-----------------------------------------------------------------------------
(* Where the handlers are                                                   *)

\* One more row held makes the sequence one longer and keeps the others.
LEMMA HoldLength ==
    ASSUME TimelineTypeOK, NEW r \in Requests, NEW row \in Row, Hold(r, row)
    PROVE  /\ Len(rows'[r]) = Len(rows[r]) + 1 /\ Len(rows[r]) \in Nat
           /\ rows'[r][Len(rows[r]) + 1] = row
           /\ \A i \in 1 .. Len(rows[r]) : rows'[r][i] = rows[r][i]
           /\ \A q \in Requests \ {r} : rows'[q] = rows[q]
<1>1. rows'[r] = Append(rows[r], row) /\ rows[r] \in Seq(Row)
  BY DEF Hold, TimelineTypeOK
<1>2. \A q \in Requests \ {r} : rows'[q] = rows[q]
  BY DEF Hold, TimelineTypeOK
<1> QED
  BY <1>1, <1>2, AppendProperties, LenProperties

\* A step of one request leaves the others where they are.
LEMMA HandlerFrame ==
    ASSUME HandlerInv, NEW r \in Requests,
           \A q \in Requests \ {r} : /\ pc'[q] = pc[q] /\ call'[q] = call[q]
                                     /\ readTrack'[q] = readTrack[q] /\ rows'[q] = rows[q],
           HandlerOK(r)'
    PROVE  HandlerInv'
  BY DEF HandlerInv, HandlerOK, Active

\* A step preserves the control invariant.
LEMMA HandlerStep ==
    ASSUME TimelineTypeOK, HandlerInv, SplitInv, TimelineNext
    PROVE  HandlerInv'
<1> USE DEF tableVars, handlerVars, viewerVars, GoTo, Ended, Active
<1>0. \A r \in Requests : HandlerOK(r) /\ Len(<<>>) = 0
  BY EmptySeq DEF HandlerInv
<1>1. ASSUME NEW r \in Requests, Start(r) PROVE HandlerInv'
  <2>1. HandlerOK(r)'
    BY <1>0, <1>1 DEF Start, HandlerOK, TimelineTypeOK
  <2> QED
    BY <1>1, <2>1, HandlerFrame DEF Start, TimelineTypeOK
<1>2. ASSUME NEW r \in Requests, Lookup(r) PROVE HandlerInv'
  <2>1. call[r].clip \in DOMAIN clips => clips[call[r].clip].track \in Tracks
    BY DEF TimelineTypeOK, Row
  <2>2. HandlerOK(r)'
    BY <1>0, <1>2, <2>1 DEF Lookup, HandlerOK, TimelineTypeOK
  <2> QED
    BY <1>2, <2>2, HandlerFrame DEF Lookup, TimelineTypeOK
<1>3. ASSUME NEW r \in Requests, Fail(r), UNCHANGED <<call, readTrack>> PROVE HandlerInv'
  <2>1. HandlerOK(r)'
    BY <1>0, <1>3 DEF Fail, HandlerOK, TimelineTypeOK
  <2> QED
    BY <1>3, <2>1, HandlerFrame DEF Fail, TimelineTypeOK
<1>4. ASSUME NEW r \in Requests, NEW row \in Row, Hold(r, row), UNCHANGED <<call, readTrack>>,
             \/ pc[r] = "write" /\ call[r].op \in {"add_clip", "update_clip"} /\ GoTo(r, "log")
             \/ pc[r] = "fetch" /\ GoTo(r, "shorten")
             \/ pc[r] = "shorten" /\ GoTo(r, "insert")
             \/ pc[r] = "insert" /\ GoTo(r, "publish")
      PROVE  HandlerInv'
  <2>1. Len(rows'[r]) = Len(rows[r]) + 1 /\ \A q \in Requests \ {r} : rows'[q] = rows[q]
    BY <1>4, HoldLength
  <2>2. HandlerOK(r)'
    <3>1. HandlerOK(r) /\ Len(<<>>) = 0 /\ call'[r] = call[r] /\ readTrack'[r] = readTrack[r]
      BY <1>0, <1>4
    <3>2. CASE pc[r] = "write" /\ call[r].op \in {"add_clip", "update_clip"} /\ pc'[r] = "log"
      BY <2>1, <3>1, <3>2 DEF HandlerOK
    <3>3. CASE pc[r] = "fetch" /\ pc'[r] = "shorten"
      BY <2>1, <3>1, <3>3 DEF HandlerOK
    <3>4. CASE pc[r] = "shorten" /\ pc'[r] = "insert"
      <4>1. Len(rows[r]) = 1 /\ call[r].op = "split_clip"
        BY <3>1, <3>4 DEF HandlerOK
      <4>2. Len(rows'[r]) = 2
        BY <2>1, <4>1
      <4> QED
        BY <3>1, <3>4, <4>1, <4>2 DEF HandlerOK
    <3>5. CASE pc[r] = "insert" /\ pc'[r] = "publish"
      <4>1. Len(rows[r]) = 2 /\ call[r].op = "split_clip"
        BY <3>1, <3>5 DEF HandlerOK
      <4>2. Len(rows'[r]) = 3
        BY <2>1, <4>1
      <4> QED
        BY <3>1, <3>5, <4>1, <4>2 DEF HandlerOK
    <3> QED
      BY <1>4, <3>2, <3>3, <3>4, <3>5 DEF TimelineTypeOK
  <2> QED
    BY <1>4, <2>1, <2>2, HandlerFrame DEF TimelineTypeOK
<1>5. ASSUME NEW r \in Requests, AddClip(r) PROVE HandlerInv'
  <2>1. CASE ~ (tracks[call[r].track] = "live" /\ Exists(call[r].asset))
    BY <1>3, <1>5, <2>1 DEF AddClip
  <2>2. CASE tracks[call[r].track] = "live" /\ Exists(call[r].asset)
    BY <1>4, <1>5, <2>2, AddedIsRow DEF AddClip, Insert
  <2> QED
    BY <2>1, <2>2
<1>6. ASSUME NEW r \in Requests, UpdateClip(r) PROVE HandlerInv'
  <2>1. CASE ~ (call[r].clip \in DOMAIN clips /\ Fits(Updated(r)))
    BY <1>3, <1>6, <2>1 DEF UpdateClip
  <2>2. CASE call[r].clip \in DOMAIN clips /\ Fits(Updated(r))
    BY <1>4, <1>6, <2>2, UpdatedIsNext DEF UpdateClip
  <2> QED
    BY <2>1, <2>2
<1>7. ASSUME NEW r \in Requests, FetchOriginal(r) PROVE HandlerInv'
  <2>1. call[r].clip \in DOMAIN clips => clips[call[r].clip] \in Row
    BY DEF TimelineTypeOK
  <2> QED
    BY <1>3, <1>4, <1>7, <2>1 DEF FetchOriginal
<1>8. ASSUME NEW r \in Requests, ShortenLeft(r) PROVE HandlerInv'
  <2> DEFINE left == Shortened(clips[call[r].clip], call[r].at)
  <2>1. CASE call[r].clip \notin DOMAIN clips
    BY <1>3, <1>8, <2>1 DEF ShortenLeft
  <2>2. CASE call[r].clip \in DOMAIN clips
    <3>1. left \in Row
      BY <1>8, <2>2, SplitRows, ShortenedIsNext DEF ShortenLeft, TimelineTypeOK
    <3> QED
      BY <1>4, <1>8, <2>2, <3>1 DEF ShortenLeft
  <2> QED
    BY <2>1, <2>2
<1>9. ASSUME NEW r \in Requests, InsertRight(r) PROVE HandlerInv'
  <2>1. CASE Fail(r)
    BY <1>3, <1>9, <2>1 DEF InsertRight
  <2>2. CASE ~ Fail(r)
    <3>1. PICK c \in unused : /\ Insert(r, RightHalf(rows[r][1], call[r].at, c), readAsset[r])
                              /\ GoTo(r, "publish") /\ Exists(readAsset[r])
      BY <1>9, <2>2 DEF InsertRight
    <3>2. rows[r][1] \in Row /\ call[r].at \in Int /\ SplitAllowed(rows[r][1], call[r].at)
      BY <1>9, SplitRows DEF InsertRight
    <3>3. RightHalf(rows[r][1], call[r].at, c) \in Row
      BY <3>2, RightHalfIsRow DEF TimelineTypeOK
    <3> QED
      BY <1>4, <1>9, <3>1, <3>3 DEF InsertRight, Insert
  <2> QED
    BY <2>1, <2>2
<1>10. ASSUME NEW r \in Requests, DeleteClip(r) \/ LogOperation(r) PROVE HandlerInv'
  <2>1. HandlerOK(r)'
    BY <1>0, <1>10 DEF DeleteClip, LogOperation, HandlerOK, TimelineTypeOK
  <2> QED
    BY <1>10, <2>1, HandlerFrame DEF DeleteClip, LogOperation, TimelineTypeOK
<1>11. ASSUME NEW r \in Requests,
              \/ CreateTrack(r) \/ DeleteTrack(r) \/ CheckUse(r) \/ DeleteAsset(r)
              \/ PublishEvent(r) \/ Abort(r)
       PROVE  HandlerInv'
  <2>1. HandlerOK(r)'
    BY <1>0, <1>11 DEF CreateTrack, DeleteTrack, CheckUse, DeleteAsset, PublishEvent, Abort,
       HandlerOK, TimelineTypeOK
  <2> QED
    BY <1>11, <2>1, HandlerFrame DEF CreateTrack, DeleteTrack, CheckUse, DeleteAsset, PublishEvent,
       Abort, TimelineTypeOK
<1>12. ASSUME NEW v \in Viewers, Receive(v) \/ AskTimeline(v) \/ ShowTimeline(v) PROVE HandlerInv'
  BY <1>12 DEF Receive, AskTimeline, ShowTimeline, HandlerInv, HandlerOK
<1> QED
  BY <1>1, <1>2, <1>5, <1>6, <1>7, <1>8, <1>9, <1>10, <1>11, <1>12 DEF TimelineNext

-----------------------------------------------------------------------------
(* Copies of rows                                                           *)

\* An event appended to a queue adds its own rows at most.
LEMMA EventRowsAppend ==
    ASSUME NEW S, NEW q \in Seq(S), NEW e \in S
    PROVE  EventRows(Append(q, e)) \subseteq EventRows(q) \cup ToSet(e.rows)
<1>1. /\ Append(q, e) \in Seq(S) /\ Len(q) \in Nat /\ DOMAIN q = 1 .. Len(q)
      /\ Len(Append(q, e)) = Len(q) + 1
      /\ \A i \in 1 .. Len(q) : Append(q, e)[i] = q[i]
      /\ Append(q, e)[Len(q) + 1] = e
  BY AppendProperties, LenProperties
<1>2. DOMAIN Append(q, e) = 1 .. Len(q) + 1
  BY <1>1, LenProperties
<1>3. \A i \in 1 .. Len(q) + 1 : i \in 1 .. Len(q) \/ i = Len(q) + 1
  BY <1>1
<1> QED
  BY <1>1, <1>2, <1>3 DEF EventRows

\* The rest of a queue has no rows of its own.
LEMMA EventRowsTail ==
    ASSUME NEW S, NEW q \in Seq(S), q # <<>>
    PROVE  EventRows(Tail(q)) \subseteq EventRows(q)
<1>1. Tail(q) \in Seq(S) /\ Len(Tail(q)) = Len(q) - 1 /\ Len(q) \in Nat
  BY HeadTailProperties, LenProperties
<1>2. \A i \in 1 .. Len(Tail(q)) : Tail(q)[i] = q[i + 1] /\ i + 1 \in 1 .. Len(q)
  BY <1>1, HeadTailProperties
<1>3. DOMAIN q = 1 .. Len(q) /\ DOMAIN Tail(q) = 1 .. Len(Tail(q))
  BY <1>1, LenProperties
<1> QED
  BY <1>2, <1>3 DEF EventRows

\* Every copy is a row.
LEMMA CopiesAreRows == TimelineTypeOK => Copies \subseteq Row
<1> SUFFICES ASSUME TimelineTypeOK PROVE Copies \subseteq Row
  OBVIOUS
<1>1. \A S : \A s \in Seq(S) : ToSet(s) \subseteq S
  BY ElementOfSeq, LenProperties DEF ToSet
<1>2. \A r \in Requests : ToSet(rows[r]) \subseteq Row
  BY <1>1 DEF TimelineTypeOK
<1>3. \A i \in DOMAIN log : log[i].row \in Row
  <2> DEFINE Entries == [op : Ops, row : Row]
  <2>1. log \in Seq(Entries)
    BY DEF TimelineTypeOK
  <2> HIDE DEF Entries
  <2>2. \A i \in DOMAIN log : log[i] \in Entries
    BY <2>1, ElementOfSeq, LenProperties
  <2> QED
    BY <2>2 DEF Entries
<1>4. ASSUME NEW v \in Viewers PROVE EventRows(queue[v]) \subseteq Row
  <2> DEFINE Events == [gone : ClipIds \cup {None}, rows : Seq(Row)]
  <2>1. queue[v] \in Seq(Events)
    BY DEF TimelineTypeOK
  <2> HIDE DEF Events
  <2>2. \A i \in DOMAIN queue[v] : queue[v][i] \in Events
    BY <2>1, ElementOfSeq, LenProperties
  <2>3. \A i \in DOMAIN queue[v] : ToSet(queue[v][i].rows) \subseteq Row
    BY <2>2, <1>1 DEF Events
  <2> QED
    BY <2>3 DEF EventRows
<1>5. TableRows \subseteq Row
  BY DEF TableRows, TimelineTypeOK
<1>6. HeldRows \subseteq Row
  BY <1>2 DEF HeldRows
<1>7. LoggedRows \subseteq Row
  BY <1>3 DEF LoggedRows
<1>8. QueuedRows \subseteq Row
  BY <1>4 DEF QueuedRows
<1> QED
  BY <1>5, <1>6, <1>7, <1>8 DEF Copies

\* The copies after a step, from where they may be.
LEMMA CopiesBound ==
    ASSUME NEW X, \A c \in DOMAIN clips' : clips'[c] \in X,
           \A r \in Requests : ToSet(rows'[r]) \subseteq X,
           \A i \in DOMAIN log' : log'[i].row \in X,
           \A v \in Viewers : EventRows(queue'[v]) \subseteq X
    PROVE  Copies' \subseteq X
<1>1. TableRows' \subseteq X
  BY DEF TableRows
<1>2. HeldRows' \subseteq X
  BY DEF HeldRows, ToSet
<1>3. LoggedRows' \subseteq X
  BY DEF LoggedRows
<1>4. QueuedRows' \subseteq X
  BY DEF QueuedRows, EventRows, ToSet
<1> QED
  BY <1>1, <1>2, <1>3, <1>4 DEF Copies

\* Where the copies are before it.
LEMMA CopiesParts ==
    /\ \A c \in DOMAIN clips : clips[c] \in Copies
    /\ \A r \in Requests : ToSet(rows[r]) \subseteq Copies
    /\ \A i \in DOMAIN log : log[i].row \in Copies
    /\ \A v \in Viewers : EventRows(queue[v]) \subseteq Copies
<1>1. \A c \in DOMAIN clips : clips[c] \in TableRows
  BY DEF TableRows
<1>2. \A i \in DOMAIN log : log[i].row \in LoggedRows
  BY DEF LoggedRows
<1>3. ASSUME NEW r \in Requests PROVE ToSet(rows[r]) \subseteq HeldRows
  BY DEF HeldRows
<1>4. ASSUME NEW v \in Viewers PROVE EventRows(queue[v]) \subseteq QueuedRows
  BY DEF QueuedRows
<1> QED
  BY <1>1, <1>2, <1>3, <1>4 DEF Copies

\* No clip is in use on a track that has never been created.
TracksCreated == \A a \in Copies : tracks[a.track] # "unused"

\* What is invariant about copies.
CopyInv == VersionIdentifiesRow /\ TracksCreated

\* A step that makes no new row, and takes at most some from the table.
LEMMA CopiesKept ==
    ASSUME CopyInv, Copies' \subseteq Copies, unused' = unused,
           \A c \in DOMAIN clips' : c \in DOMAIN clips /\ clips'[c] = clips[c],
           \A t \in Tracks : tracks'[t] = "unused" => tracks[t] = "unused",
           Copies \subseteq Row
    PROVE  CopyInv'
<1>1. VersionIdentifiesRow'
  BY DEF CopyInv, VersionIdentifiesRow
<1>2. TracksCreated'
  BY DEF CopyInv, TracksCreated, Row
<1> QED
  BY <1>1, <1>2 DEF CopyInv

\* A step that writes one row: a new clip, or the next version of one.
LEMMA CopiesNext ==
    ASSUME CopyInv, TimelineTypeOK, NEW x \in Row, Put(x), Copies' \subseteq Copies \cup {x},
           \/ x.id \in unused /\ unused' = unused \ {x.id}
           \/ /\ x.id \in DOMAIN clips /\ x.version = clips[x.id].version + 1
              /\ unused' = unused,
           tracks' = tracks, tracks[x.track] # "unused"
    PROVE  CopyInv'
<1>1. Copies \subseteq Row /\ \A c \in DOMAIN clips : clips[c] \in Row
  BY CopiesAreRows DEF TimelineTypeOK
<1>2. \A a \in Copies : a.id = x.id => a.version < x.version
  BY <1>1 DEF CopyInv, VersionIdentifiesRow, Row
<1>3. \A a, b \in Copies' : a.id = b.id /\ a.version = b.version => a = b
  BY <1>1, <1>2 DEF CopyInv, VersionIdentifiesRow, Row
<1>4. \A a \in Copies' : a.id \notin unused'
  BY <1>1 DEF CopyInv, VersionIdentifiesRow, TimelineTypeOK
<1>5. ASSUME NEW a \in Copies', a.id \in DOMAIN clips'
      PROVE  a.version <= clips'[a.id].version
  <2>1. CASE a.id = x.id
    <3>1. clips'[a.id] = x
      BY <2>1 DEF Put
    <3>2. a = x \/ a.version < x.version
      BY <1>2, <2>1
    <3> QED
      BY <1>1, <3>1, <3>2 DEF Row
  <2>2. CASE a.id # x.id
    <3>1. clips'[a.id] = clips[a.id] /\ a.id \in DOMAIN clips /\ a \in Copies
      BY <1>5, <2>2 DEF Put
    <3> QED
      BY <3>1 DEF CopyInv, VersionIdentifiesRow
  <2> QED
    BY <2>1, <2>2
<1>6. VersionIdentifiesRow'
  BY <1>3, <1>4, <1>5 DEF VersionIdentifiesRow
<1>7. TracksCreated'
  BY DEF CopyInv, TracksCreated
<1> QED
  BY <1>6, <1>7 DEF CopyInv

\* Holding a row adds at most that row to the copies in the handlers.
LEMMA HoldCopies ==
    ASSUME TimelineTypeOK, NEW r \in Requests, NEW row \in Row, Hold(r, row)
    PROVE  \A q \in Requests : ToSet(rows'[q]) \subseteq Copies \cup {row}
<1>1. \A q \in Requests : rows'[q] = IF q = r THEN Append(rows[r], row) ELSE rows[q]
  BY DEF Hold, TimelineTypeOK
<1>2. ToSet(Append(rows[r], row)) \subseteq ToSet(rows[r]) \cup {row}
  BY ToSetAppend DEF TimelineTypeOK
<1> QED
  BY <1>1, <1>2, CopiesParts

\* Writing a row and holding it adds at most that row.
LEMMA WriteCopies ==
    ASSUME TimelineTypeOK, NEW r \in Requests, NEW x \in Row, Put(x), Hold(r, x),
           log' = log, queue' = queue
    PROVE  Copies' \subseteq Copies \cup {x}
<1>1. \A c \in DOMAIN clips' : clips'[c] \in Copies \cup {x}
  BY CopiesParts DEF Put
<1>2. \A q \in Requests : ToSet(rows'[q]) \subseteq Copies \cup {x}
  BY HoldCopies
<1>3. \A i \in DOMAIN log' : log'[i].row \in Copies \cup {x}
  BY CopiesParts
<1>4. \A v \in Viewers : EventRows(queue'[v]) \subseteq Copies \cup {x}
  BY CopiesParts
<1> QED
  BY <1>1, <1>2, <1>3, <1>4, CopiesBound

\* A step preserves what is invariant about copies.
LEMMA CopyStep ==
    ASSUME TimelineTypeOK, HandlerInv, SplitInv, CopyInv, TimelineNext
    PROVE  CopyInv'
<1> USE DEF tableVars, handlerVars, viewerVars
<1>0. Copies \subseteq Row
  BY CopiesAreRows
<1>1. ASSUME UNCHANGED <<clips, unused, rows, log, queue>>,
             \A t \in Tracks : tracks'[t] = "unused" => tracks[t] = "unused"
      PROVE  CopyInv'
  <2>1. Copies' = Copies
    BY <1>1 DEF Copies, TableRows, HeldRows, LoggedRows, QueuedRows
  <2> QED
    BY <1>0, <1>1, <2>1, CopiesKept
<1>2. ASSUME NEW r \in Requests,
             Start(r) \/ Lookup(r) \/ CheckUse(r) \/ DeleteAsset(r) \/ Abort(r)
      PROVE  CopyInv'
  BY <1>1, <1>2 DEF Start, Lookup, CheckUse, DeleteAsset, Abort
<1>3. ASSUME NEW r \in Requests, Fail(r), UNCHANGED <<log, queue>> PROVE CopyInv'
  BY <1>1, <1>3 DEF Fail
<1>4. ASSUME NEW r \in Requests, AddClip(r) PROVE CopyInv'
  <2>1. CASE ~ (tracks[call[r].track] = "live" /\ Exists(call[r].asset))
    BY <1>3, <1>4, <2>1 DEF AddClip
  <2>2. CASE tracks[call[r].track] = "live" /\ Exists(call[r].asset)
    <3>1. PICK c \in unused : Insert(r, Added(call[r], c), call[r].asset)
      BY <1>4, <2>2 DEF AddClip
    <3>2. Added(call[r], c) \in Row /\ Added(call[r], c).id = c
      BY <1>4, AddedIsRow DEF AddClip
    <3>3. tracks[Added(call[r], c).track] = "live"
      BY <2>2 DEF Added
    <3>4. /\ Put(Added(call[r], c)) /\ Hold(r, Added(call[r], c))
          /\ unused' = unused \ {c} /\ tracks' = tracks /\ log' = log /\ queue' = queue
      BY <1>4, <3>1, <3>2 DEF Insert, AddClip
    <3>5. Copies' \subseteq Copies \cup {Added(call[r], c)}
      BY <3>2, <3>4, WriteCopies
    <3> QED
      BY <3>2, <3>3, <3>4, <3>5, CopiesNext
  <2> QED
    BY <2>1, <2>2
<1>5. ASSUME NEW r \in Requests, UpdateClip(r) PROVE CopyInv'
  <2>1. CASE ~ (call[r].clip \in DOMAIN clips /\ Fits(Updated(r)))
    BY <1>3, <1>5, <2>1 DEF UpdateClip
  <2>2. CASE call[r].clip \in DOMAIN clips /\ Fits(Updated(r))
    <3>1. /\ Put(Updated(r)) /\ Hold(r, Updated(r))
          /\ unused' = unused /\ tracks' = tracks /\ log' = log /\ queue' = queue
      BY <1>5, <2>2 DEF UpdateClip
    <3>2. /\ Updated(r) \in Row /\ Updated(r).id = call[r].clip
          /\ Updated(r).version = clips[call[r].clip].version + 1
      BY <1>5, <2>2, UpdatedIsNext DEF UpdateClip
    <3>3. tracks[Updated(r).track] = "live"
      BY <2>2 DEF Fits
    <3>4. Copies' \subseteq Copies \cup {Updated(r)}
      BY <3>1, <3>2, WriteCopies
    <3> QED
      BY <2>2, <3>1, <3>2, <3>3, <3>4, CopiesNext
  <2> QED
    BY <2>1, <2>2
<1>6. ASSUME NEW D \in SUBSET DOMAIN clips, clips' = [c \in D |-> clips[c]],
             UNCHANGED <<unused, rows, log, queue>>,
             \A t \in Tracks : tracks'[t] = "unused" => tracks[t] = "unused"
      PROVE  CopyInv'
  <2>1. \A c \in DOMAIN clips' : c \in DOMAIN clips /\ clips'[c] = clips[c]
    BY <1>6
  <2>2. Copies' \subseteq Copies
    BY <1>6, <2>1, CopiesParts, CopiesBound
  <2> QED
    BY <1>0, <1>6, <2>1, <2>2, CopiesKept
<1>7. ASSUME NEW r \in Requests, DeleteClip(r) PROVE CopyInv'
  BY <1>6, <1>7 DEF DeleteClip
<1>8. ASSUME NEW r \in Requests, DeleteTrack(r) PROVE CopyInv'
  <2>1. \A t \in Tracks : tracks'[t] = "unused" => tracks[t] = "unused"
    BY <1>8 DEF DeleteTrack, TimelineTypeOK
  <2> QED
    BY <1>6, <1>8, <2>1 DEF DeleteTrack
<1>9. ASSUME NEW r \in Requests, CreateTrack(r) PROVE CopyInv'
  <2>1. \A t \in Tracks : tracks'[t] = "unused" => tracks[t] = "unused"
    BY <1>9 DEF CreateTrack, TimelineTypeOK
  <2> QED
    BY <1>1, <1>9, <2>1 DEF CreateTrack
<1>10. ASSUME UNCHANGED <<tracks, clips, unused>>,
              \A q \in Requests : ToSet(rows'[q]) \subseteq Copies,
              \A i \in DOMAIN log' : log'[i].row \in Copies,
              \A v \in Viewers : EventRows(queue'[v]) \subseteq Copies
       PROVE  CopyInv'
  <2>1. Copies' \subseteq Copies
    BY <1>10, CopiesParts, CopiesBound
  <2> QED
    BY <1>0, <1>10, <2>1, CopiesKept
<1>11. ASSUME NEW r \in Requests, FetchOriginal(r) PROVE CopyInv'
  <2>1. CASE Fail(r)
    BY <1>3, <1>11, <2>1 DEF FetchOriginal
  <2>2. CASE call[r].clip \in DOMAIN clips /\ Hold(r, clips[call[r].clip]) /\ UNCHANGED tableVars
    <3>1. clips[call[r].clip] \in Row /\ clips[call[r].clip] \in Copies
      BY <2>2, CopiesParts DEF TimelineTypeOK
    <3>2. \A q \in Requests : ToSet(rows'[q]) \subseteq Copies
      BY <2>2, <3>1, HoldCopies
    <3> QED
      BY <1>10, <1>11, <2>2, <3>2, CopiesParts DEF FetchOriginal
  <2> QED
    BY <1>11, <2>1, <2>2 DEF FetchOriginal
<1>12. ASSUME NEW r \in Requests, ShortenLeft(r) PROVE CopyInv'
  <2> DEFINE old == clips[call[r].clip]
             left == Shortened(old, call[r].at)
  <2>1. CASE call[r].clip \notin DOMAIN clips
    BY <1>3, <1>12, <2>1 DEF ShortenLeft
  <2>2. CASE call[r].clip \in DOMAIN clips
    <3>1. /\ Put(left) /\ Hold(r, left)
          /\ unused' = unused /\ tracks' = tracks /\ log' = log /\ queue' = queue
      BY <1>12, <2>2 DEF ShortenLeft
    <3>2. old \in Row /\ old.id = call[r].clip /\ old \in Copies
      BY <2>2, CopiesParts DEF TimelineTypeOK
    <3>3. left \in Row /\ left.id = old.id /\ left.version = old.version + 1
      BY <1>12, <3>2, SplitRows, ShortenedIsNext DEF ShortenLeft
    <3>4. tracks[left.track] # "unused"
      BY <3>2 DEF CopyInv, TracksCreated, Shortened
    <3> HIDE DEF left
    <3>5. Copies' \subseteq Copies \cup {left}
      BY <3>1, <3>3, WriteCopies
    <3> QED
      BY <2>2, <3>1, <3>2, <3>3, <3>4, <3>5, CopiesNext
  <2> QED
    BY <2>1, <2>2
<1>13. ASSUME NEW r \in Requests, InsertRight(r) PROVE CopyInv'
  <2>1. CASE Fail(r)
    BY <1>3, <1>13, <2>1 DEF InsertRight
  <2>2. CASE ~ Fail(r)
    <3>1. PICK c \in unused : /\ Fits(RightHalf(rows[r][1], call[r].at, c))
                              /\ Insert(r, RightHalf(rows[r][1], call[r].at, c), readAsset[r])
      BY <1>13, <2>2 DEF InsertRight
    <3> DEFINE right == RightHalf(rows[r][1], call[r].at, c)
    <3>2. right \in Row /\ right.id = c
      <4>1. rows[r][1] \in Row /\ call[r].at \in Int /\ SplitAllowed(rows[r][1], call[r].at)
        BY <1>13, SplitRows DEF InsertRight
      <4>2. c \in ClipIds
        BY DEF TimelineTypeOK
      <4> QED
        BY <4>1, <4>2, RightHalfIsRow
    <3>3. tracks[right.track] = "live"
      BY <3>1 DEF Fits
    <3>4. /\ Put(right) /\ Hold(r, right)
          /\ unused' = unused \ {c} /\ tracks' = tracks /\ log' = log /\ queue' = queue
      BY <1>13, <3>1, <3>2 DEF Insert, InsertRight
    <3> HIDE DEF right
    <3>5. Copies' \subseteq Copies \cup {right}
      BY <3>2, <3>4, WriteCopies
    <3> QED
      BY <3>2, <3>3, <3>4, <3>5, CopiesNext
  <2> QED
    BY <2>1, <2>2
<1>14. ASSUME NEW r \in Requests, LogOperation(r) PROVE CopyInv'
  <2> DEFINE Entries == [op : Ops, row : Row]
             entry == [op |-> call[r].op, row |-> Last(rows[r])]
  <2>1. rows[r] \in Seq(Row) /\ Len(rows[r]) = 1
    BY <1>14 DEF LogOperation, HandlerInv, HandlerOK, TimelineTypeOK
  <2>2. Last(rows[r]) \in ToSet(rows[r]) /\ Last(rows[r]) \in Row
    BY <2>1, ElementOfSeq, LenProperties DEF Last, ToSet
  <2>3. call[r].op \in Ops
    BY <1>14, CallFields DEF LogOperation, Active, Call
  <2>4. entry \in Entries /\ entry.row \in Copies /\ log \in Seq(Entries)
    BY <2>2, <2>3, CopiesParts DEF TimelineTypeOK
  <2> HIDE DEF Entries, entry
  <2>5. \A i \in DOMAIN Append(log, entry) :
            \/ i \in DOMAIN log /\ Append(log, entry)[i] = log[i]
            \/ Append(log, entry)[i] = entry
    BY <2>4, AppendProperties, LenProperties
  <2>6. \A i \in DOMAIN log' : log'[i].row \in Copies
    BY <1>14, <2>4, <2>5, CopiesParts DEF LogOperation, entry
  <2> QED
    BY <1>10, <1>14, <2>6, CopiesParts DEF LogOperation
<1>15. ASSUME NEW r \in Requests, PublishEvent(r) PROVE CopyInv'
  <2> DEFINE Events == [gone : ClipIds \cup {None}, rows : Seq(Row)]
  <2>1. Event(r) \in Events /\ ToSet(Event(r).rows) \subseteq Copies
    BY <1>15, EventTypes, CopiesParts DEF PublishEvent
  <2>2. \A v \in Viewers : queue[v] \in Seq(Events)
    BY DEF TimelineTypeOK
  <2> HIDE DEF Events
  <2>3. \A v \in Viewers : EventRows(Append(queue[v], Event(r))) \subseteq Copies
    BY <2>1, <2>2, EventRowsAppend, CopiesParts
  <2>4. \A v \in Viewers : EventRows(queue'[v]) \subseteq Copies
    BY <1>15, <2>3, CopiesParts DEF PublishEvent
  <2> QED
    BY <1>10, <1>15, <2>4, CopiesParts DEF PublishEvent
<1>16. ASSUME NEW v \in Viewers, Receive(v) PROVE CopyInv'
  <2> DEFINE Events == [gone : ClipIds \cup {None}, rows : Seq(Row)]
  <2>1. queue[v] \in Seq(Events)
    BY DEF TimelineTypeOK
  <2> HIDE DEF Events
  <2>2. EventRows(Tail(queue[v])) \subseteq Copies
    BY <1>16, <2>1, EventRowsTail, CopiesParts DEF Receive
  <2>3. \A w \in Viewers : queue'[w] = IF w = v THEN Tail(queue[v]) ELSE queue[w]
    BY <1>16 DEF Receive, TimelineTypeOK
  <2>4. \A w \in Viewers : EventRows(queue'[w]) \subseteq Copies
    BY <2>2, <2>3, CopiesParts
  <2> QED
    BY <1>10, <1>16, <2>4, CopiesParts DEF Receive
<1>17. ASSUME NEW v \in Viewers, AskTimeline(v) \/ ShowTimeline(v) PROVE CopyInv'
  BY <1>1, <1>17 DEF AskTimeline, ShowTimeline
<1> QED
  BY <1>2, <1>4, <1>5, <1>7, <1>8, <1>9, <1>11, <1>12, <1>13, <1>14, <1>15, <1>16, <1>17
  DEF TimelineNext

-----------------------------------------------------------------------------
(* Splits                                                                   *)

\* A split that stopped between its two statements was stopped by a fault or
\* by the deletion of its track or its asset; neither comes back.
HalfDoneOK(r) ==
    (call[r].op = "split_clip" /\ pc[r] = "failed" /\ Len(rows[r]) = 2)
        => \/ "abort" \in faults
           \/ tracks[rows[r][1].track] = "deleted"
           \/ ~ Exists(readAsset[r])

HalfDoneInv == \A r \in Requests : HalfDoneOK(r)

\* A step of one request leaves the splits of the others alone.
LEMMA SplitFrame ==
    ASSUME SplitInv, NEW r \in Requests, SplitOK(r)',
           \A q \in Requests \ {r} : rows'[q] = rows[q] /\ call'[q] = call[q]
    PROVE  SplitInv'
  BY DEF SplitInv, SplitOK

\* A step preserves what a split holds.
LEMMA SplitStep ==
    ASSUME TimelineTypeOK, HandlerInv, SplitInv, CopyInv, TimelineNext
    PROVE  SplitInv'
<1> USE DEF tableVars, handlerVars, viewerVars
<1>1. ASSUME UNCHANGED <<call, rows>> PROVE SplitInv'
  BY <1>1 DEF SplitInv, SplitOK
<1>2. ASSUME NEW r \in Requests, NEW row, Hold(r, row), call' = call, call[r].op # "split_clip"
      PROVE  SplitInv'
  <2>1. \A q \in Requests \ {r} : rows'[q] = rows[q]
    BY <1>2 DEF Hold, TimelineTypeOK
  <2> QED
    BY <1>2, <2>1, SplitFrame DEF SplitOK
<1>3. ASSUME NEW r \in Requests, Start(r) PROVE SplitInv'
  <2>1. rows'[r] = <<>> /\ Len(<<>>) = 0
    BY <1>3, EmptySeq DEF Start, HandlerInv, HandlerOK
  <2>2. SplitOK(r)'
    BY <2>1 DEF SplitOK
  <2> QED
    BY <1>3, <2>2, SplitFrame DEF Start, TimelineTypeOK
<1>4. ASSUME NEW r \in Requests, AddClip(r) \/ UpdateClip(r) PROVE SplitInv'
  BY <1>1, <1>2, <1>4 DEF AddClip, UpdateClip, Insert, Fail
<1>5. ASSUME NEW r \in Requests, FetchOriginal(r) PROVE SplitInv'
  <2> DEFINE original == clips[call[r].clip]
  <2>1. CASE Fail(r)
    BY <1>1, <1>5, <2>1 DEF FetchOriginal, Fail
  <2>2. CASE /\ call[r].clip \in DOMAIN clips /\ SplitAllowed(original, call[r].at)
             /\ Hold(r, original)
    <3>1. original \in Row /\ original.id = call[r].clip
      BY <2>2 DEF TimelineTypeOK
    <3>2. rows[r] = <<>> /\ Len(<<>>) = 0 /\ call'[r] = call[r] /\ call' = call
      BY <1>5, EmptySeq DEF FetchOriginal, HandlerInv, HandlerOK
    <3>3. Len(rows'[r]) = 1 /\ rows'[r][1] = original /\ \A q \in Requests \ {r} : rows'[q] = rows[q]
      <4>1. /\ Len(rows'[r]) = Len(rows[r]) + 1 /\ rows'[r][Len(rows[r]) + 1] = original
            /\ \A q \in Requests \ {r} : rows'[q] = rows[q]
        BY <2>2, <3>1, HoldLength
      <4>2. Len(rows[r]) = 0
        BY <3>2
      <4> QED
        BY <4>1, <4>2
    <3>4. call[r].at \in Int
      BY <1>5, CallFields DEF FetchOriginal, Active, HandlerInv, HandlerOK
    <3>5. SplitOK(r)'
      BY <2>2, <3>1, <3>2, <3>3, <3>4 DEF SplitOK
    <3> QED
      BY <3>2, <3>3, <3>5, SplitFrame
  <2> QED
    BY <1>5, <2>1, <2>2 DEF FetchOriginal
<1>6. ASSUME NEW r \in Requests, ShortenLeft(r) PROVE SplitInv'
  <2> DEFINE old == clips[call[r].clip]
             left == Shortened(old, call[r].at)
  <2>1. CASE call[r].clip \notin DOMAIN clips
    BY <1>1, <1>6, <2>1 DEF ShortenLeft, Fail
  <2>2. CASE call[r].clip \in DOMAIN clips
    <3>1. Hold(r, left) /\ call' = call
      BY <1>6, <2>2 DEF ShortenLeft
    <3>2. old \in Row /\ old.id = call[r].clip /\ old \in Copies
      BY <2>2, CopiesParts DEF TimelineTypeOK
    <3>3. /\ rows[r][1] \in Row /\ rows[r][1].id = call[r].clip
          /\ call[r].at \in Int /\ call[r].at >= MinDur /\ SplitAllowed(rows[r][1], call[r].at)
      BY <1>6, SplitRows DEF ShortenLeft
    <3>4. left \in Row /\ left.version = old.version + 1
      BY <3>2, <3>3, ShortenedIsNext
    <3>5. Len(rows[r]) = 1 /\ rows[r] \in Seq(Row)
      BY <1>6 DEF ShortenLeft, HandlerInv, HandlerOK, TimelineTypeOK
    <3>6. rows[r][1] \in Copies
      BY <3>5, CopiesParts, LenProperties DEF ToSet
    <3>7. left.version = rows[r][1].version + 1 => old = rows[r][1]
      BY <3>2, <3>3, <3>4, <3>6 DEF CopyInv, VersionIdentifiesRow, Row
    <3>8. /\ Len(rows'[r]) = 2 /\ rows'[r][1] = rows[r][1] /\ rows'[r][2] = left
          /\ \A q \in Requests \ {r} : rows'[q] = rows[q]
      <4> HIDE DEF left
      <4> QED
        <5>1. /\ Len(rows'[r]) = Len(rows[r]) + 1 /\ rows'[r][Len(rows[r]) + 1] = left
              /\ \A i \in 1 .. Len(rows[r]) : rows'[r][i] = rows[r][i]
              /\ \A q \in Requests \ {r} : rows'[q] = rows[q]
          BY <3>1, <3>4, HoldLength
        <5>2. Len(rows[r]) = 1
          BY <3>5
        <5> QED
          BY <5>1, <5>2
    <3>9. SplitOK(r)'
      BY <3>1, <3>3, <3>7, <3>8 DEF SplitOK
    <3> QED
      BY <3>1, <3>8, <3>9, SplitFrame
  <2> QED
    BY <2>1, <2>2
<1>7. ASSUME NEW r \in Requests, InsertRight(r) PROVE SplitInv'
  <2>1. CASE Fail(r)
    BY <1>1, <1>7, <2>1 DEF InsertRight, Fail
  <2>2. CASE ~ Fail(r)
    <3>1. PICK c \in unused : Insert(r, RightHalf(rows[r][1], call[r].at, c), readAsset[r])
      BY <1>7, <2>2 DEF InsertRight
    <3> DEFINE right == RightHalf(rows[r][1], call[r].at, c)
    <3>2. call' = call /\ Hold(r, right)
      BY <1>7, <3>1 DEF InsertRight, Insert
    <3>3. rows[r][1] \in Row /\ call[r].at \in Int /\ SplitAllowed(rows[r][1], call[r].at)
      BY <1>7, SplitRows DEF InsertRight
    <3>4. right \in Row /\ right.id = c
      BY <3>3, RightHalfIsRow DEF TimelineTypeOK
    <3>5. Len(rows[r]) = 2 /\ call[r].op = "split_clip"
      BY <1>7 DEF InsertRight, HandlerInv, HandlerOK
    <3>6. SplitOK(r)
      BY DEF SplitInv
    <3>7. /\ Len(rows'[r]) = 3 /\ rows'[r][1] = rows[r][1] /\ rows'[r][2] = rows[r][2]
          /\ rows'[r][3] = right
          /\ \A q \in Requests \ {r} : rows'[q] = rows[q]
      <4> HIDE DEF right
      <4> QED
        <5>1. /\ Len(rows'[r]) = Len(rows[r]) + 1 /\ rows'[r][Len(rows[r]) + 1] = right
              /\ \A i \in 1 .. Len(rows[r]) : rows'[r][i] = rows[r][i]
              /\ \A q \in Requests \ {r} : rows'[q] = rows[q]
          BY <3>2, <3>4, HoldLength
        <5>2. Len(rows[r]) = 2
          BY <3>5
        <5> QED
          BY <5>1, <5>2
    <3>8. SplitOK(r)'
      BY <3>2, <3>4, <3>5, <3>6, <3>7 DEF SplitOK
    <3> QED
      BY <3>2, <3>7, <3>8, SplitFrame
  <2> QED
    BY <2>1, <2>2
<1>8. ASSUME NEW r \in Requests,
             \/ Lookup(r) \/ DeleteClip(r) \/ CreateTrack(r) \/ DeleteTrack(r)
             \/ CheckUse(r) \/ DeleteAsset(r) \/ LogOperation(r) \/ PublishEvent(r) \/ Abort(r)
      PROVE  SplitInv'
  BY <1>1, <1>8 DEF Lookup, DeleteClip, CreateTrack, DeleteTrack, CheckUse, DeleteAsset,
     LogOperation, PublishEvent, Abort
<1>9. ASSUME NEW v \in Viewers, Receive(v) \/ AskTimeline(v) \/ ShowTimeline(v) PROVE SplitInv'
  BY <1>1, <1>9 DEF Receive, AskTimeline, ShowTimeline
<1> QED
  BY <1>3, <1>4, <1>5, <1>6, <1>7, <1>8, <1>9 DEF TimelineNext

\* A split that failed after its UPDATE keeps its excuse.
LEMMA HalfDoneStep ==
    ASSUME TimelineTypeOK, HandlerInv, SplitInv, CopyInv, HalfDoneInv, TimelineNext
    PROVE  HalfDoneInv'
<1> SUFFICES ASSUME NEW q \in Requests PROVE HalfDoneOK(q)'
  BY DEF HalfDoneInv
<1>f. faults' = faults
  BY DEF TimelineNext
<1> USE <1>f DEF tableVars, handlerVars, viewerVars, GoTo
<1>1. HalfDoneOK(q)
  BY DEF HalfDoneInv
<1>2. ASSUME pc'[q] = pc[q], call'[q] = call[q], rows'[q] = rows[q],
             readAsset'[q] = readAsset[q], assets' \subseteq assets,
             \A t \in Tracks : tracks[t] = "deleted" => tracks'[t] = "deleted"
      PROVE  HalfDoneOK(q)'
  <2>1. Len(rows[q]) = 2 => rows[q][1].track \in Tracks
    <3>1. rows[q] \in Seq(Row)
      BY DEF TimelineTypeOK
    <3>2. Len(rows[q]) = 2 => 1 \in 1 .. Len(rows[q])
      OBVIOUS
    <3>3. Len(rows[q]) = 2 => rows[q][1] \in Row
      BY <3>1, <3>2, ElementOfSeq
    <3> QED
      BY <3>3 DEF Row
  <2> QED
    BY <1>1, <1>2, <2>1 DEF HalfDoneOK, Exists
<1>3. \A t \in Tracks : tracks[t] = "deleted" => tracks'[t] = "deleted"
  <2>1. ASSUME NEW r \in Requests, CreateTrack(r) \/ DeleteTrack(r)
        PROVE  \A t \in Tracks : tracks[t] = "deleted" => tracks'[t] = "deleted"
    BY <2>1 DEF CreateTrack, DeleteTrack, TimelineTypeOK
  <2>2. CASE UNCHANGED tracks
    BY <2>2
  <2> QED
    BY <2>1, <2>2 DEF TimelineNext, Start, Lookup, AddClip, UpdateClip, DeleteClip, FetchOriginal,
       ShortenLeft, InsertRight, CheckUse, DeleteAsset, LogOperation, PublishEvent, Abort,
       Receive, AskTimeline, ShowTimeline, Insert, Fail
<1>a. assets' \subseteq assets
  BY DEF TimelineNext, Start, Lookup, AddClip, UpdateClip, DeleteClip, FetchOriginal,
     ShortenLeft, InsertRight, CreateTrack, DeleteTrack, CheckUse, DeleteAsset, LogOperation,
     PublishEvent, Abort, Receive, AskTimeline, ShowTimeline, Insert, Fail
<1>4. ASSUME NEW v \in Viewers, Receive(v) \/ AskTimeline(v) \/ ShowTimeline(v)
      PROVE  HalfDoneOK(q)'
  BY <1>2, <1>3, <1>a, <1>4 DEF Receive, AskTimeline, ShowTimeline
<1>5. ASSUME NEW r \in Requests \ {q},
             \/ Start(r) \/ Lookup(r) \/ AddClip(r) \/ UpdateClip(r) \/ DeleteClip(r)
             \/ FetchOriginal(r) \/ ShortenLeft(r) \/ InsertRight(r) \/ CreateTrack(r)
             \/ DeleteTrack(r) \/ CheckUse(r) \/ DeleteAsset(r) \/ LogOperation(r) \/ PublishEvent(r) \/ Abort(r)
      PROVE  HalfDoneOK(q)'
  <2>1. /\ pc'[q] = pc[q] /\ call'[q] = call[q] /\ rows'[q] = rows[q]
        /\ readAsset'[q] = readAsset[q]
    BY <1>5 DEF Start, Lookup, AddClip, UpdateClip, DeleteClip, FetchOriginal, ShortenLeft,
       InsertRight, CreateTrack, DeleteTrack, CheckUse, DeleteAsset, LogOperation, PublishEvent,
       Abort, Insert, Fail, Hold, TimelineTypeOK
  <2> QED
    BY <1>2, <1>3, <1>a, <2>1
<1>6. CASE InsertRight(q)
  <2>1. rows[q][1] \in Row /\ call[q].at \in Int /\ SplitAllowed(rows[q][1], call[q].at)
    BY <1>6, SplitRows DEF InsertRight
  <2>2. CASE ~ Fail(q)
    BY <1>6, <2>2 DEF InsertRight, HalfDoneOK, TimelineTypeOK
  <2>3. CASE Fail(q)
    <3>1. PICK c \in unused : /\ Fits(RightHalf(rows[q][1], call[q].at, c)) /\ Exists(readAsset[q])
                              => GoTo(q, "publish")
      BY <1>6 DEF InsertRight
    <3>2. pc'[q] = "failed" /\ UNCHANGED <<rows, tracks, assets, readAsset>>
      BY <1>6, <2>3 DEF InsertRight, Fail, TimelineTypeOK
    <3>a. CASE ~ Exists(readAsset[q])
      BY <3>2, <3>a DEF HalfDoneOK, Exists
    <3>b. SUFFICES ASSUME Exists(readAsset[q]) PROVE HalfDoneOK(q)'
      BY <3>a
    <3>3. ~ Fits(RightHalf(rows[q][1], call[q].at, c))
      BY <3>1, <3>2, <3>b DEF TimelineTypeOK
    <3>4. tracks[rows[q][1].track] # "live"
      <4>1. RightHalf(rows[q][1], call[q].at, c) \in Row
            /\ RightHalf(rows[q][1], call[q].at, c).dur >= MinDur
        BY <2>1, RightHalfIsRow DEF TimelineTypeOK
      <4>2. RightHalf(rows[q][1], call[q].at, c).track = rows[q][1].track
        BY DEF RightHalf
      <4> QED
        BY <3>3, <4>1, <4>2 DEF Fits, Row
    <3>5. rows[q][1] \in Copies /\ rows[q][1].track \in Tracks
      <4>1. Len(rows[q]) = 2 /\ rows[q] \in Seq(Row)
        BY <1>6 DEF InsertRight, HandlerInv, HandlerOK, TimelineTypeOK
      <4> QED
        BY <2>1, <4>1, CopiesParts, LenProperties DEF ToSet, Row
    <3>6. tracks[rows[q][1].track] = "deleted"
      BY <3>4, <3>5 DEF CopyInv, TracksCreated, TimelineTypeOK
    <3> QED
      BY <3>2, <3>6 DEF HalfDoneOK
  <2> QED
    BY <2>2, <2>3
<1>7. CASE Abort(q)
  BY <1>7 DEF Abort, HalfDoneOK
<1>8. ASSUME \/ Start(q) \/ Lookup(q) \/ AddClip(q) \/ UpdateClip(q) \/ DeleteClip(q)
             \/ FetchOriginal(q) \/ CreateTrack(q) \/ DeleteTrack(q) \/ CheckUse(q)
             \/ DeleteAsset(q) \/ LogOperation(q) \/ PublishEvent(q) \/ ShortenLeft(q)
      PROVE  pc'[q] = "failed" => Len(rows'[q]) # 2
  <2>1. Len(<<>>) = 0 /\ HandlerOK(q)
    BY EmptySeq DEF HandlerInv
  <2>2. CASE Start(q) \/ Lookup(q) \/ CreateTrack(q) \/ DeleteTrack(q) \/ DeleteClip(q)
             \/ CheckUse(q) \/ DeleteAsset(q) \/ LogOperation(q) \/ PublishEvent(q)
    <3>1. CASE Lookup(q) \/ CheckUse(q)
      <4>1. rows' = rows /\ rows[q] = <<>>
        BY <2>1, <3>1 DEF Lookup, CheckUse, HandlerOK
      <4> QED
        BY <2>1, <4>1
    <3>2. CASE ~ (Lookup(q) \/ CheckUse(q))
      <4>1. pc'[q] \in {"lookup", "done", "publish"}
        BY <2>2, <3>2 DEF Start, CreateTrack, DeleteTrack, DeleteClip, DeleteAsset, LogOperation,
           PublishEvent, TimelineTypeOK
      <4> QED
        BY <4>1
    <3> QED
      BY <3>1, <3>2
  <2>3. CASE AddClip(q) \/ UpdateClip(q)
    <3>1. pc'[q] \in {"failed", "log"} /\ (pc'[q] = "failed" => rows' = rows) /\ rows[q] = <<>>
      BY <2>1, <2>3 DEF AddClip, UpdateClip, Fail, HandlerOK, TimelineTypeOK
    <3> QED
      BY <2>1, <3>1
  <2>4. CASE FetchOriginal(q)
    <3>1. pc'[q] \in {"failed", "shorten"} /\ (pc'[q] = "failed" => rows' = rows) /\ rows[q] = <<>>
      BY <2>1, <2>4 DEF FetchOriginal, Fail, HandlerOK, TimelineTypeOK
    <3> QED
      BY <2>1, <3>1
  <2>5. CASE ShortenLeft(q)
    <3>1. pc'[q] \in {"failed", "insert"} /\ (pc'[q] = "failed" => rows' = rows) /\ Len(rows[q]) = 1
      BY <2>1, <2>5 DEF ShortenLeft, Fail, HandlerOK, TimelineTypeOK
    <3> QED
      BY <3>1
  <2> QED
    BY <1>8, <2>2, <2>3, <2>4, <2>5
<1> QED
  BY <1>4, <1>5, <1>6, <1>7, <1>8 DEF TimelineNext, HalfDoneOK

-----------------------------------------------------------------------------
(* Watching tabs                                                            *)

\* What the rows of an event do to a tab, and the same for at most two, written out.
Folded(shown, q) == FoldLeft(ApplyRemoteClipUpsert, shown, q)
Upserted(shown, q) ==
    IF Len(q) = 0 THEN shown
    ELSE IF Len(q) = 1 THEN ApplyRemoteClipUpsert(shown, q[1])
    ELSE ApplyRemoteClipUpsert(ApplyRemoteClipUpsert(shown, q[1]), q[2])

\* The library's fold is a function defined by recursion on the set of positions.
LEMMA FoldIsRecursive ==
    ASSUME NEW shown, NEW q
    PROVE  Folded(shown, q)
             = (CHOOSE it : it = [s \in SUBSET DOMAIN q |->
                    IF s = {} THEN shown
                    ELSE ApplyRemoteClipUpsert(it[s \ {Max(s)}], q[Max(s)])])[DOMAIN q]
  BY Zenon DEF Folded, FoldLeft, MapThenFoldSet

\* An event brings at most two rows: for these the function exists, since it can be
\* written down.
LEMMA FoldOfEvent ==
    ASSUME NEW shown, NEW q, DOMAIN q = 1 .. Len(q), Len(q) \in {0, 1, 2}
    PROVE  Folded(shown, q) = Upserted(shown, q)
<1> DEFINE U(x, r) == ApplyRemoteClipUpsert(x, r)
           G(it) == [s \in SUBSET DOMAIN q |->
                        IF s = {} THEN shown ELSE U(it[s \ {Max(s)}], q[Max(s)])]
           W == [s \in SUBSET DOMAIN q |->
                    IF s = {} THEN shown
                    ELSE IF s = {1} THEN U(shown, q[1])
                    ELSE IF s = {2} THEN U(shown, q[2])
                    ELSE U(U(shown, q[1]), q[2])]
           F == CHOOSE it : it = G(it)
<1>1. Folded(shown, q) = F[DOMAIN q]
  BY FoldIsRecursive
<1>2. DOMAIN q = 1 .. Len(q) /\ Len(q) \in Nat
  OBVIOUS
<1>3. \A s \in SUBSET DOMAIN q : s = {} \/ s = {1} \/ s = {2} \/ s = {1, 2}
  BY <1>2
<1>4. Max({1}) = 1 /\ Max({2}) = 2 /\ Max({1, 2}) = 2
  BY DEF Max
<1> HIDE DEF U
<1>5. ASSUME NEW it, it = G(it), NEW s \in SUBSET DOMAIN q
      PROVE  it[s] = IF s = {} THEN shown ELSE U(it[s \ {Max(s)}], q[Max(s)])
  BY <1>5
<1>6. W = G(W)
  <2>1. ASSUME NEW s \in SUBSET DOMAIN q
        PROVE  W[s] = IF s = {} THEN shown ELSE U(W[s \ {Max(s)}], q[Max(s)])
    <3>1. CASE s = {1}
      BY <1>4, <3>1
    <3>2. CASE s = {2}
      BY <1>4, <3>2
    <3>3. CASE s = {1, 2}
      <4>1. s \ {Max(s)} = {1} /\ {1} \in SUBSET DOMAIN q
        BY <1>4, <3>3
      <4> QED
        BY <1>4, <3>3, <4>1
    <3> QED
      BY <1>3, <3>1, <3>2, <3>3
  <2> QED
    BY <2>1
<1>7. F = G(F)
  BY <1>6
<1> HIDE DEF F, W, G
<1>8. \A s \in SUBSET DOMAIN q : F[s] = IF s = {} THEN shown ELSE U(F[s \ {Max(s)}], q[Max(s)])
  BY <1>5, <1>7
<1>9. CASE Len(q) = 0
  <2>1. DOMAIN q = {}
    BY <1>2, <1>9
  <2>2. F[{}] = shown
    BY <1>8
  <2> QED
    BY <1>1, <1>9, <2>1, <2>2 DEF Upserted
<1>10. CASE Len(q) = 1
  <2>1. DOMAIN q = {1}
    BY <1>2, <1>10
  <2>2. F[{1}] = U(F[{}], q[1]) /\ F[{}] = shown
    BY <1>4, <1>8, <2>1
  <2> QED
    BY <1>1, <2>1, <2>2, <1>10 DEF Upserted, U
<1>11. CASE Len(q) = 2
  <2>1. DOMAIN q = {1, 2} /\ {1, 2} \ {2} = {1}
    BY <1>2, <1>11
  <2>2. F[{}] = shown
    BY <1>8
  <2>3. F[{1}] = U(F[{}], q[1])
    BY <1>4, <1>8, <2>1
  <2>4. F[{1, 2}] = U(F[{1}], q[2])
    BY <1>4, <1>8, <2>1
  <2> QED
    BY <1>1, <2>1, <2>2, <2>3, <2>4, <1>11 DEF Upserted, U
<1> QED
  BY <1>2, <1>9, <1>10, <1>11

(***************************************************************************)
(* A tab that has received all that is on its way to it shows the server's *)
(* clips, but for what the one request under way has written and not told  *)
(* yet.  After is what an event does to a tab, Expects what the last of    *)
(* the events on their way leaves it with.                                 *)
(***************************************************************************)
Steady == faults \subseteq {"nolog"} /\ \A r \in Requests : call[r].op # "delete_track"

After(shown, event) ==
    Folded(ApplyRemoteClipDelete(shown, event.gone), event.rows)

Untold == {"insert", "log", "publish"}
Expects(shown) ==
    /\ (\A r \in Requests : pc[r] \notin Untold) => shown = Show(clips)
    /\ \A r \in Requests :
        /\ pc[r] \in {"log", "publish"} => After(shown, Event(r)) = Show(clips)
        /\ pc[r] = "insert" =>
             ApplyRemoteClipUpsert(ApplyRemoteClipDelete(shown, None), rows[r][2]) = Show(clips)

\* h is what a tab shows from one event of q to the next.
Leads(h, q, from, to) ==
    /\ h[0] = from
    /\ \A i \in 1 .. Len(q) : h[i] = After(h[i - 1], q[i])
    /\ h[Len(q)] = to
Told(v) == \E h, x : Leads(h, queue[v], view[v], x) /\ Expects(x)

Alone == \A q, r \in Requests : pc[q] \notin Ended /\ pc[r] \notin Ended => q = r
OriginalsLive == \A r \in Requests : pc[r] \in {"shorten", "insert"} => Exists(readAsset[r])
ViewShapes == view = [v \in Viewers |-> view[v]] /\ answer = [v \in Viewers |-> answer[v]]
WatchInv ==
    /\ ViewShapes
    /\ Steady => Alone /\ OriginalsLive /\ \A v \in Viewers : answer[v] = <<>> /\ Told(v)

\* A request that has not begun asks for nothing, and a track was deleted by one that did.
StartedInv ==
    /\ \A r \in Requests : pc[r] = "idle" => call[r] = NoCall
    /\ (\E t \in Tracks : tracks[t] = "deleted")
            => \E r \in Requests : call[r].op = "delete_track" /\ pc[r] # "idle"

\* The first event is taken from the queue and applied.
LEMMA LeadsOnReceipt ==
    ASSUME NEW S, NEW q \in Seq(S), q # <<>>, NEW h, NEW from, NEW to, Leads(h, q, from, to)
    PROVE  Leads([i \in Nat |-> h[i + 1]], Tail(q), After(from, Head(q)), to)
<1> DEFINE g == [i \in Nat |-> h[i + 1]]
<1>1. /\ Len(q) \in Nat /\ Len(q) >= 1 /\ Head(q) = q[1] /\ Len(Tail(q)) = Len(q) - 1
      /\ \A i \in 1 .. Len(q) - 1 : Tail(q)[i] = q[i + 1]
  BY HeadTailProperties, LenProperties, EmptySeq
<1>2. g[0] = h[1] /\ h[1] = After(h[0], q[1]) /\ h[0] = from
  BY <1>1 DEF Leads
<1>3. ASSUME NEW i \in 1 .. Len(Tail(q)) PROVE g[i] = After(g[i - 1], Tail(q)[i])
  <2>1. i \in Nat /\ i - 1 \in Nat /\ i + 1 \in 1 .. Len(q) /\ (i + 1) - 1 = i /\ (i - 1) + 1 = i
    BY <1>1, <1>3
  <2>2. g[i] = h[i + 1] /\ g[i - 1] = h[i] /\ Tail(q)[i] = q[i + 1]
    BY <1>1, <1>3, <2>1
  <2>3. h[i + 1] = After(h[(i + 1) - 1], q[i + 1])
    BY <2>1 DEF Leads
  <2> QED
    BY <2>1, <2>2, <2>3
<1>4. g[Len(Tail(q))] = to
  <2>1. Len(q) - 1 \in Nat /\ (Len(q) - 1) + 1 = Len(q)
    BY <1>1
  <2> QED
    BY <1>1, <2>1 DEF Leads
<1> HIDE DEF g
<1> QED
  BY <1>1, <1>2, <1>3, <1>4 DEF Leads, g

\* One more event is on its way.
LEMMA LeadsOnEvent ==
    ASSUME NEW S, NEW q \in Seq(S), NEW e \in S, NEW h, NEW from, NEW to, Leads(h, q, from, to)
    PROVE  \E g : Leads(g, Append(q, e), from, After(to, e))
<1> DEFINE n == Len(q) + 1
           g == [i \in 0 .. n |-> IF i = n THEN After(to, e) ELSE h[i]]
<1>1. /\ Len(q) \in Nat /\ Len(Append(q, e)) = n /\ Append(q, e)[n] = e
      /\ \A i \in 1 .. Len(q) : Append(q, e)[i] = q[i]
  BY AppendProperties, LenProperties
<1>2. g[0] = from /\ g[n] = After(to, e)
  BY <1>1 DEF Leads
<1>3. ASSUME NEW i \in 1 .. n PROVE g[i] = After(g[i - 1], Append(q, e)[i])
  <2>1. CASE i = n
    <3>1. g[n - 1] = h[Len(q)]
      BY <1>1
    <3>2. h[Len(q)] = to
      BY DEF Leads
    <3> QED
      BY <1>1, <1>2, <2>1, <3>1, <3>2
  <2>2. CASE i \in 1 .. Len(q)
    <3>1. g[i] = h[i] /\ g[i - 1] = h[i - 1]
      BY <1>1, <2>2
    <3>2. h[i] = After(h[i - 1], q[i])
      BY <2>2 DEF Leads
    <3> QED
      BY <1>1, <2>2, <3>1, <3>2
  <2> QED
    BY <1>1, <1>3, <2>1, <2>2
<1> HIDE DEF g
<1>4. Leads(g, Append(q, e), from, After(to, e))
  BY <1>1, <1>2, <1>3 DEF Leads
<1> QED
  BY <1>4

-----------------------------------------------------------------------------
(* What a write does to what is expected.                                   *)

\* A tab that shows the server's clips and applies the row that is written follows it.
LEMMA ShowPut ==
    ASSUME TimelineTypeOK, NEW row, Put(row)
    PROVE  ApplyRemoteClipUpsert(ApplyRemoteClipDelete(Show(clips), None), row) = Show(clips)'
<1>1. DOMAIN Show(clips) = DOMAIN clips /\ None \notin DOMAIN clips
  BY NoneIsNoValue DEF Show, TimelineTypeOK
<1>2. ApplyRemoteClipDelete(Show(clips), None) = Show(clips)
  BY <1>1 DEF ApplyRemoteClipDelete, Show
<1>3. \A c \in DOMAIN clips : Show(clips)[c] = Shown(clips[c])
  BY DEF Show
<1>4. DOMAIN clips' = DOMAIN clips \cup {row.id}
      /\ \A c \in DOMAIN clips' : clips'[c] = IF c = row.id THEN row ELSE clips[c]
  BY DEF Put
<1>5. Show(clips)' = [c \in DOMAIN clips' |-> Shown(clips'[c])]
  BY DEF Show
<1>6. ApplyRemoteClipUpsert(Show(clips), row)
        = [c \in DOMAIN clips \cup {row.id} |-> IF c = row.id THEN Shown(row) ELSE Show(clips)[c]]
  BY <1>1 DEF ApplyRemoteClipUpsert
<1> HIDE DEF Shown
<1> QED
  BY <1>2, <1>3, <1>4, <1>5, <1>6

\* The same for a second row after a first.
LEMMA ShowPutAgain ==
    ASSUME NEW row, Put(row)
    PROVE  ApplyRemoteClipUpsert(Show(clips), row) = Show(clips)'
<1>1. DOMAIN Show(clips) = DOMAIN clips /\ \A c \in DOMAIN clips : Show(clips)[c] = Shown(clips[c])
  BY DEF Show
<1>4. DOMAIN clips' = DOMAIN clips \cup {row.id}
      /\ \A c \in DOMAIN clips' : clips'[c] = IF c = row.id THEN row ELSE clips[c]
  BY DEF Put
<1>5. Show(clips)' = [c \in DOMAIN clips' |-> Shown(clips'[c])]
  BY DEF Show
<1>6. ApplyRemoteClipUpsert(Show(clips), row)
        = [c \in DOMAIN clips \cup {row.id} |-> IF c = row.id THEN Shown(row) ELSE Show(clips)[c]]
  BY <1>1 DEF ApplyRemoteClipUpsert
<1> QED
  BY <1>1, <1>4, <1>5, <1>6

\* The event of a request that wrote one row.
LEMMA AfterOne ==
    ASSUME NEW shown, NEW row
    PROVE  After(shown, [gone |-> None, rows |-> <<row>>])
             = ApplyRemoteClipUpsert(ApplyRemoteClipDelete(shown, None), row)
<1>1. DOMAIN <<row>> = 1 .. Len(<<row>>) /\ Len(<<row>>) = 1 /\ <<row>>[1] = row
  OBVIOUS
<1>2. Folded(ApplyRemoteClipDelete(shown, None), <<row>>)
        = Upserted(ApplyRemoteClipDelete(shown, None), <<row>>)
  BY <1>1, FoldOfEvent
<1> QED
  BY <1>1, <1>2 DEF After, Upserted

\* The event of a split.
LEMMA AfterTwo ==
    ASSUME NEW shown, NEW rs \in Seq(Row), Len(rs) = 2
    PROVE  After(shown, [gone |-> None, rows |-> rs])
             = ApplyRemoteClipUpsert(
                   ApplyRemoteClipUpsert(ApplyRemoteClipDelete(shown, None), rs[1]), rs[2])
<1>1. DOMAIN rs = 1 .. Len(rs) /\ Len(rs) \in {0, 1, 2}
  BY LenProperties
<1>2. Folded(ApplyRemoteClipDelete(shown, None), rs)
        = Upserted(ApplyRemoteClipDelete(shown, None), rs)
  BY <1>1, FoldOfEvent
<1> QED
  BY <1>2 DEF After, Upserted

\* The event of a deletion.
LEMMA AfterNone ==
    ASSUME NEW shown, NEW gone
    PROVE  After(shown, [gone |-> gone, rows |-> <<>>]) = ApplyRemoteClipDelete(shown, gone)
<1>1. DOMAIN <<>> = 1 .. Len(<<>>) /\ Len(<<>>) = 0
  OBVIOUS
<1>2. Folded(ApplyRemoteClipDelete(shown, gone), <<>>)
        = Upserted(ApplyRemoteClipDelete(shown, gone), <<>>)
  BY <1>1, FoldOfEvent
<1> QED
  BY <1>1, <1>2 DEF After, Upserted

-----------------------------------------------------------------------------
(* One step and the watching tabs.                                          *)

\* Who is at work alone still is.
LEMMA AloneKept ==
    ASSUME Alone, NEW r \in Requests, pc[r] \notin Ended,
           \A q \in Requests \ {r} : pc'[q] = pc[q]
    PROVE  Alone'
  BY DEF Alone, Ended

\* A step that leaves the table alone and ends or begins no wait.
LEMMA ExpectsKept ==
    ASSUME NEW r \in Requests, clips' = clips,
           \A q \in Requests \ {r} : pc'[q] = pc[q] /\ call'[q] = call[q] /\ rows'[q] = rows[q],
           pc[r] \notin Untold, pc'[r] \notin Untold, NEW CONSTANT x, Expects(x)
    PROVE  Expects(x)'
<1>1. Show(clips)' = Show(clips)
  BY DEF Show
<1>2. \A q \in Requests \ {r} : Event(q)' = Event(q)
  BY DEF Event
<1> QED
  BY <1>1, <1>2 DEF Expects, Untold

\* The first write of a request: before it the tab was about to show the table.
LEMMA ExpectsBefore ==
    ASSUME Alone, NEW r \in Requests, pc[r] \notin Ended \cup Untold, NEW x, Expects(x)
    PROVE  x = Show(clips)
  BY DEF Alone, Expects, Untold, Ended

\* After a write, one request at most waits to tell of it.
LEMMA ExpectsAt ==
    ASSUME Alone', NEW r \in Requests, pc'[r] \in Untold, NEW CONSTANT x,
           pc'[r] \in {"log", "publish"} => After(x, Event(r)') = Show(clips)',
           pc'[r] = "insert" =>
             ApplyRemoteClipUpsert(ApplyRemoteClipDelete(x, None), rows'[r][2]) = Show(clips)'
    PROVE  Expects(x)'
<1>1. \A q \in Requests : pc'[q] \in Untold => q = r
  BY DEF Alone, Untold, Ended
<1> QED
  BY <1>1 DEF Expects, Untold

\* And when it has told, none.
LEMMA ExpectsNone ==
    ASSUME Alone, NEW r \in Requests, pc[r] \notin Ended, pc'[r] = "done",
           \A q \in Requests \ {r} : pc'[q] = pc[q], NEW CONSTANT x, x = Show(clips)'
    PROVE  Expects(x)'
<1>1. \A q \in Requests : pc'[q] \notin Untold
  BY DEF Alone, Untold, Ended
<1> QED
  BY <1>1 DEF Expects, Untold

\* A step that sends nothing to the tabs keeps what they have been told.
LEMMA ToldKept ==
    ASSUME queue' = queue, view' = view, NEW v \in Viewers, Told(v),
           \A x : Expects(x) => Expects(x)'
    PROVE  Told(v)'
<1>1. PICK h, x : Leads(h, queue[v], view[v], x) /\ Expects(x)
  BY DEF Told
<1>2. Leads(h, queue[v], view[v], x)'
  BY <1>1 DEF Leads
<1> QED
  BY <1>1, <1>2 DEF Told

\* The next request begins when all others are done.
LEMMA StartTells ==
    ASSUME Steady, NEW r \in Requests, Start(r), faults' = faults,
           TimelineTypeOK, NEW CONSTANT x, Expects(x)
    PROVE  Alone' /\ Expects(x)'
<1>1. /\ pc[r] = "idle" /\ pc'[r] = "lookup" /\ \A q \in Requests : pc[q] \in Ended
      /\ \A q \in Requests \ {r} : pc'[q] = pc[q] /\ call'[q] = call[q] /\ rows'[q] = rows[q]
      /\ clips' = clips
  BY DEF Steady, Start, GoTo, TimelineTypeOK, tableVars
<1>2. Alone'
  BY <1>1 DEF Alone, Ended
<1>3. Expects(x)'
  BY <1>1, ExpectsKept DEF Untold
<1> QED
  BY <1>2, <1>3

\* What writes nothing tells nothing.
LEMMA LookupTells ==
    ASSUME TimelineTypeOK, NEW r \in Requests,
           \/ Lookup(r) \/ FetchOriginal(r) \/ CreateTrack(r) \/ CheckUse(r) \/ DeleteAsset(r)
           \/ pc[r] \in {"write", "fetch", "shorten"} /\ Fail(r) /\ call' = call,
           NEW CONSTANT x, Expects(x)
    PROVE  Expects(x)'
<1>1. /\ pc[r] \notin Untold /\ pc'[r] \notin Untold /\ clips' = clips
      /\ \A q \in Requests \ {r} : pc'[q] = pc[q] /\ call'[q] = call[q] /\ rows'[q] = rows[q]
  BY DEF Lookup, FetchOriginal, CreateTrack, CheckUse, DeleteAsset, Fail, Hold, GoTo, Untold,
     TimelineTypeOK, tableVars
<1> QED
  BY <1>1, ExpectsKept

\* One row is written and held: its event will tell.
LEMMA WriteTells ==
    ASSUME TimelineTypeOK, HandlerInv, Alone, NEW r \in Requests, pc[r] = "write",
           call[r].op \in {"add_clip", "update_clip"}, call' = call, GoTo(r, "log"),
           NEW row \in Row, Put(row), Hold(r, row), NEW CONSTANT x, Expects(x)
    PROVE  Expects(x)'
<1>1. pc'[r] = "log" /\ \A q \in Requests \ {r} : pc'[q] = pc[q]
  BY DEF GoTo, TimelineTypeOK
<1>2. Alone'
  BY <1>1, AloneKept DEF Ended
<1>3. x = Show(clips)
  BY ExpectsBefore DEF Ended, Untold
<1>4. rows'[r] = <<row>>
  <2>1. rows[r] = <<>>
    BY DEF HandlerInv, HandlerOK
  <2> QED
    BY <2>1 DEF Hold, TimelineTypeOK
<1>5. Event(r)' = [gone |-> None, rows |-> <<row>>]
  BY <1>4 DEF Event
<1>6. After(x, Event(r)') = Show(clips)'
  BY <1>3, <1>5, AfterOne, ShowPut
<1> QED
  BY <1>1, <1>2, <1>6, ExpectsAt DEF Untold

\* So is the left half of a split, with its event still to come.
LEMMA ShortenTells ==
    ASSUME TimelineTypeOK, HandlerInv, SplitInv, Alone, NEW r \in Requests, ShortenLeft(r),
           NEW CONSTANT x, Expects(x)
    PROVE  Expects(x)'
<1> DEFINE left == Shortened(clips[call[r].clip], call[r].at)
<1>1. CASE call[r].clip \notin DOMAIN clips
  <2>1. pc[r] = "shorten" /\ Fail(r) /\ call' = call
    BY <1>1 DEF ShortenLeft
  <2> QED
    BY <2>1, LookupTells
<1>2. CASE call[r].clip \in DOMAIN clips
  <2>1. pc[r] = "shorten" /\ GoTo(r, "insert") /\ Put(left) /\ Hold(r, left)
    BY <1>2 DEF ShortenLeft
  <2>2. pc'[r] = "insert" /\ \A q \in Requests \ {r} : pc'[q] = pc[q]
    BY <2>1 DEF GoTo, TimelineTypeOK
  <2>3. Alone'
    BY <2>1, <2>2, AloneKept DEF Ended
  <2>4. x = Show(clips)
    BY <2>1, ExpectsBefore DEF Ended, Untold
  <2>5. left \in Row
    BY <1>2, <2>1, SplitRows, ShortenedIsNext DEF TimelineTypeOK
  <2> HIDE DEF left
  <2>6. rows'[r][2] = left
    <3>1. Len(rows[r]) = 1
      BY <2>1 DEF HandlerInv, HandlerOK
    <3>2. rows'[r][Len(rows[r]) + 1] = left
      BY <2>1, <2>5, HoldLength
    <3> QED
      BY <3>1, <3>2
  <2>7. ApplyRemoteClipUpsert(ApplyRemoteClipDelete(x, None), rows'[r][2]) = Show(clips)'
    BY <2>1, <2>4, <2>6, ShowPut
  <2> QED
    BY <2>2, <2>3, <2>7, ExpectsAt DEF Untold
<1> QED
  BY <1>1, <1>2

\* While no track or asset it names has been deleted the right half can be inserted, and the event has both.
LEMMA InsertTells ==
    ASSUME TimelineTypeOK, HandlerInv, SplitInv, CopyInv, Alone,
           \A t \in Tracks : tracks[t] # "deleted", OriginalsLive,
           NEW r \in Requests, InsertRight(r), NEW CONSTANT x, Expects(x)
    PROVE  Expects(x)'
<1>1. /\ rows[r][1] \in Row /\ call[r].at \in Int /\ SplitAllowed(rows[r][1], call[r].at)
      /\ Len(rows[r]) = 2 /\ rows[r] \in Seq(Row) /\ pc[r] = "insert" /\ call[r].op = "split_clip"
  BY SplitRows DEF InsertRight, HandlerInv, HandlerOK, TimelineTypeOK
<1>2. tracks[rows[r][1].track] = "live"
  <2>1. rows[r][1] \in Copies /\ rows[r][1].track \in Tracks
    BY <1>1, CopiesParts, LenProperties DEF ToSet, Row
  <2> QED
    BY <2>1 DEF CopyInv, TracksCreated, TimelineTypeOK
<1>3. ASSUME NEW c \in unused PROVE Fits(RightHalf(rows[r][1], call[r].at, c))
  <2>1. /\ RightHalf(rows[r][1], call[r].at, c) \in Row
        /\ RightHalf(rows[r][1], call[r].at, c).dur >= MinDur
    BY <1>1, RightHalfIsRow DEF TimelineTypeOK
  <2>2. RightHalf(rows[r][1], call[r].at, c).track = rows[r][1].track
    BY DEF RightHalf
  <2> QED
    BY <1>2, <2>1, <2>2 DEF Fits, Row
<1>4. PICK c \in unused : Insert(r, RightHalf(rows[r][1], call[r].at, c), readAsset[r]) /\ GoTo(r, "publish")
  <2>1. Exists(readAsset[r])
    BY <1>1 DEF OriginalsLive
  <2> QED
    BY <1>3, <2>1 DEF InsertRight
<1> DEFINE right == RightHalf(rows[r][1], call[r].at, c)
<1>5. right \in Row
  BY <1>1, RightHalfIsRow DEF TimelineTypeOK
<1>6. Put(right) /\ Hold(r, right) /\ call' = call
  BY <1>4 DEF Insert, InsertRight
<1>7. pc'[r] = "publish" /\ \A q \in Requests \ {r} : pc'[q] = pc[q]
  BY <1>4 DEF GoTo, TimelineTypeOK
<1>8. Alone'
  BY <1>1, <1>7, AloneKept DEF Ended
<1>9. ApplyRemoteClipUpsert(ApplyRemoteClipDelete(x, None), rows[r][2]) = Show(clips)
  BY <1>1 DEF Expects
<1> HIDE DEF right
<1>10. /\ Len(rows'[r]) = 3 /\ rows'[r] \in Seq(Row)
       /\ rows'[r][2] = rows[r][2] /\ rows'[r][3] = right
  <2>1. /\ Len(rows'[r]) = Len(rows[r]) + 1 /\ rows'[r][Len(rows[r]) + 1] = right
        /\ \A i \in 1 .. Len(rows[r]) : rows'[r][i] = rows[r][i]
    BY <1>5, <1>6, HoldLength
  <2>2. rows'[r] \in Seq(Row)
    BY <1>5, <1>6, HoldTypes
  <2> QED
    BY <1>1, <2>1, <2>2
<1> DEFINE both == Tail(rows'[r])
<1>11. both \in Seq(Row) /\ Len(both) = 2 /\ both[1] = rows[r][2] /\ both[2] = right
  <2>1. rows'[r] # <<>>
    BY <1>10, EmptySeq
  <2>2. /\ both \in Seq(Row) /\ Len(both) = Len(rows'[r]) - 1
        /\ \A i \in 1 .. Len(both) : both[i] = rows'[r][i + 1]
    BY <1>10, <2>1, HeadTailProperties
  <2> QED
    BY <1>10, <2>2
<1>12. Event(r)' = [gone |-> None, rows |-> both]
  BY <1>1, <1>6 DEF Event
<1> HIDE DEF both
<1>13. After(x, Event(r)') = ApplyRemoteClipUpsert(Show(clips), right)
  BY <1>9, <1>11, <1>12, AfterTwo
<1>14. ApplyRemoteClipUpsert(Show(clips), right) = Show(clips)'
  BY <1>6, ShowPutAgain
<1> QED
  BY <1>7, <1>8, <1>13, <1>14, ExpectsAt DEF Untold

\* A deletion is told by the id, whether there was such a clip or not.
LEMMA DeleteTells ==
    ASSUME TimelineTypeOK, HandlerInv, Alone, NEW r \in Requests, DeleteClip(r),
           NEW CONSTANT x, Expects(x)
    PROVE  Expects(x)'
<1>1. pc[r] = "write" /\ pc'[r] = "publish" /\ \A q \in Requests \ {r} : pc'[q] = pc[q]
  BY DEF DeleteClip, GoTo, TimelineTypeOK
<1>2. Alone'
  BY <1>1, AloneKept DEF Ended
<1>3. x = Show(clips)
  BY <1>1, ExpectsBefore DEF Ended, Untold
<1>4. rows[r] = <<>>
  BY <1>1 DEF HandlerInv, HandlerOK
<1>5. Event(r)' = [gone |-> call[r].clip, rows |-> <<>>]
  BY <1>4 DEF DeleteClip, Event
<1>6. ApplyRemoteClipDelete(Show(clips), call[r].clip) = Show(clips)'
  BY DEF DeleteClip, ApplyRemoteClipDelete, Show
<1>7. After(x, Event(r)') = Show(clips)'
  BY <1>3, <1>5, <1>6, AfterNone
<1> QED
  BY <1>1, <1>2, <1>7, ExpectsAt DEF Untold

\* The log is nothing to the tabs.
LEMMA LogTells ==
    ASSUME TimelineTypeOK, Alone, NEW r \in Requests, LogOperation(r), NEW CONSTANT x, Expects(x)
    PROVE  Expects(x)'
<1>1. pc[r] = "log" /\ pc'[r] = "publish" /\ \A q \in Requests \ {r} : pc'[q] = pc[q]
  BY DEF LogOperation, GoTo, TimelineTypeOK
<1>2. Alone'
  BY <1>1, AloneKept DEF Ended
<1>3. Event(r)' = Event(r) /\ Show(clips)' = Show(clips)
  BY DEF LogOperation, Event, Show, tableVars
<1>4. After(x, Event(r)) = Show(clips)
  BY <1>1 DEF Expects
<1> QED
  BY <1>1, <1>2, <1>3, <1>4, ExpectsAt DEF Untold

\* The event goes to every tab.
LEMMA PublishTells ==
    ASSUME TimelineTypeOK, HandlerInv, Steady, Alone, NEW r \in Requests, PublishEvent(r),
           NEW v \in Viewers, Told(v)
    PROVE  Told(v)'
<1> DEFINE Events == [gone : ClipIds \cup {None}, rows : Seq(Row)]
           e == Event(r)
<1>1. PICK h, x : Leads(h, queue[v], view[v], x) /\ Expects(x)
  BY DEF Told
<1>2. pc[r] = "publish" /\ pc'[r] = "done" /\ \A q \in Requests \ {r} : pc'[q] = pc[q]
  BY DEF PublishEvent, GoTo, TimelineTypeOK
<1>3. queue'[v] = Append(queue[v], e) /\ view' = view /\ clips' = clips
  BY DEF PublishEvent, Steady, viewerVars, tableVars
<1>4. e \in Events /\ queue[v] \in Seq(Events)
  BY <1>2, EventTypes DEF TimelineTypeOK
<1> HIDE DEF Events, e
<1>5. PICK g : Leads(g, Append(queue[v], e), view[v], After(x, e))
  BY <1>1, <1>4, LeadsOnEvent
<1>6. After(x, e) = Show(clips) /\ Show(clips)' = Show(clips)
  BY <1>1, <1>2, <1>3 DEF Expects, Show, e
<1>7. PICK y : y = After(x, e)
  OBVIOUS
<1>8. Expects(y)'
  BY <1>2, <1>6, <1>7, ExpectsNone DEF Ended
<1>9. Leads(g, queue[v], view[v], y)'
  BY <1>3, <1>5, <1>7 DEF Leads
<1> QED
  BY <1>8, <1>9 DEF Told

\* A tab applies what it was told.
LEMMA ReceiveTells ==
    ASSUME TimelineTypeOK, ViewShapes, NEW w \in Viewers, Receive(w), NEW v \in Viewers, Told(v)
    PROVE  Told(v)'
<1> DEFINE Events == [gone : ClipIds \cup {None}, rows : Seq(Row)]
<1>1. PICK h, x : Leads(h, queue[v], view[v], x) /\ Expects(x)
  BY DEF Told
<1>2. Expects(x)'
  <2>1. \A r \in Requests : Event(r)' = Event(r)
    BY DEF Receive, Event, handlerVars
  <2>2. Show(clips)' = Show(clips) /\ pc' = pc /\ rows' = rows
    BY DEF Receive, Show, tableVars, handlerVars
  <2> QED
    BY <1>1, <2>1, <2>2 DEF Expects
<1>3. CASE v # w
  <2>1. queue'[v] = queue[v] /\ view'[v] = view[v]
    BY <1>3 DEF Receive, TimelineTypeOK, ViewShapes
  <2>2. Leads(h, queue[v], view[v], x)'
    BY <1>1, <2>1 DEF Leads
  <2> QED
    BY <1>2, <2>2 DEF Told
<1>4. CASE v = w
  <2>1. /\ queue[v] # <<>> /\ queue'[v] = Tail(queue[v])
        /\ view'[v] = After(view[v], Head(queue[v]))
    BY <1>4 DEF Receive, TimelineTypeOK, ViewShapes, After, Folded
  <2>2. queue[v] \in Seq(Events)
    BY DEF TimelineTypeOK
  <2> HIDE DEF Events
  <2>3. PICK g : Leads(g, Tail(queue[v]), After(view[v], Head(queue[v])), x)
    BY <1>1, <2>1, <2>2, LeadsOnReceipt
  <2>4. Leads(g, queue[v], view[v], x)'
    BY <2>1, <2>3 DEF Leads
  <2> QED
    BY <1>2, <2>4 DEF Told
<1> QED
  BY <1>3, <1>4

\* What was asked before stays asked, and a deleted track keeps its request.
LEMMA StartedStep ==
    ASSUME TimelineTypeOK, HandlerInv, StartedInv, TimelineNext
    PROVE  StartedInv'
<1> USE DEF tableVars, handlerVars, viewerVars, GoTo
<1> DEFINE Goes(r) == \E w \in Active \cup {"done", "failed"} : pc' = [pc EXCEPT ![r] = w]
<1>a. ASSUME NEW r \in Requests,
             \/ Lookup(r) \/ AddClip(r) \/ UpdateClip(r) \/ DeleteClip(r)
             \/ FetchOriginal(r) \/ ShortenLeft(r)
      PROVE  pc[r] # "idle" /\ Goes(r) /\ call' = call
  BY <1>a DEF Lookup, AddClip, UpdateClip, DeleteClip, FetchOriginal, ShortenLeft, Fail, Active
<1>b. ASSUME NEW r \in Requests,
             \/ InsertRight(r) \/ CreateTrack(r) \/ DeleteTrack(r) \/ CheckUse(r)
             \/ DeleteAsset(r) \/ LogOperation(r) \/ PublishEvent(r) \/ Abort(r)
      PROVE  pc[r] # "idle" /\ Goes(r) /\ call' = call
  BY <1>b DEF InsertRight, CreateTrack, DeleteTrack, CheckUse, DeleteAsset, LogOperation, PublishEvent, Abort, Fail,
     Active, Ended
<1>c. ASSUME NEW v \in Viewers, Receive(v) \/ AskTimeline(v) \/ ShowTimeline(v)
      PROVE  pc' = pc /\ call' = call
  BY <1>c DEF Receive, AskTimeline, ShowTimeline
<1>d. ASSUME NEW r \in Requests, Start(r)
      PROVE  /\ pc[r] = "idle" /\ pc' = [pc EXCEPT ![r] = "lookup"]
             /\ \A q \in Requests \ {r} : call'[q] = call[q]
  BY <1>d DEF Start, TimelineTypeOK
<1>e. ASSUME NEW r \in Requests, pc[r] # "idle", Goes(r), call' = call
      PROVE  /\ \A q \in Requests : pc[q] # "idle" => pc'[q] # "idle" /\ call'[q] = call[q]
             /\ \A q \in Requests : pc'[q] = "idle" => pc[q] = "idle" /\ call'[q] = call[q]
  BY <1>e DEF Active, TimelineTypeOK
<1>g. ASSUME NEW r \in Requests, Start(r)
      PROVE  /\ \A q \in Requests : pc[q] # "idle" => pc'[q] # "idle" /\ call'[q] = call[q]
             /\ \A q \in Requests : pc'[q] = "idle" => pc[q] = "idle" /\ call'[q] = call[q]
  BY <1>d, <1>g DEF TimelineTypeOK
<1> HIDE DEF Goes
<1>1. /\ \A r \in Requests : pc[r] # "idle" => pc'[r] # "idle" /\ call'[r] = call[r]
      /\ \A r \in Requests : pc'[r] = "idle" => pc[r] = "idle" /\ call'[r] = call[r]
  BY <1>a, <1>b, <1>c, <1>e, <1>g DEF TimelineNext
<1>3. ASSUME NEW t \in Tracks, tracks'[t] = "deleted", tracks[t] # "deleted"
      PROVE  \E r \in Requests : call[r].op = "delete_track" /\ pc[r] # "idle"
  <2>1. PICK r \in Requests : CreateTrack(r) \/ DeleteTrack(r)
    BY <1>3 DEF TimelineNext, Start, Lookup, AddClip, UpdateClip, DeleteClip, FetchOriginal,
       ShortenLeft, InsertRight, CheckUse, DeleteAsset, LogOperation, PublishEvent, Abort, Receive,
       AskTimeline, ShowTimeline, Insert, Fail
  <2>2. ~ CreateTrack(r)
    BY <1>3 DEF CreateTrack, TimelineTypeOK
  <2> QED
    BY <2>1, <2>2 DEF DeleteTrack
<1> QED
  BY <1>1, <1>3 DEF StartedInv

\* Nobody deletes the asset of the clip that the only request at work splits.
LEMMA OriginalsStep ==
    ASSUME TimelineTypeOK, HandlerInv, Alone, OriginalsLive, TimelineNext
    PROVE  OriginalsLive'
<1> USE DEF tableVars, handlerVars, GoTo
<1>1. SUFFICES ASSUME NEW q \in Requests, pc'[q] \in {"shorten", "insert"}
               PROVE  Exists(readAsset[q])'
  BY DEF OriginalsLive
<1>2. CASE FetchOriginal(q)
  <2>1. ~ Fail(q)
    BY <1>1, <1>2 DEF Fail, TimelineTypeOK
  <2>2. /\ readAsset'[q] = assetOf[call[q].clip] /\ assets' = assets
        /\ call[q].clip \in DOMAIN clips
    BY <1>2, <2>1 DEF FetchOriginal, TimelineTypeOK
  <2>3. call[q].clip \in ClipIds
    BY <2>2 DEF TimelineTypeOK
  <2> QED
    BY <2>2, <2>3 DEF Exists, TimelineTypeOK
<1>3. CASE ~ FetchOriginal(q)
  <2>0. ASSUME NEW r \in Requests,
               \/ Start(r) \/ Lookup(r) \/ AddClip(r) \/ UpdateClip(r) \/ DeleteClip(r)
               \/ (FetchOriginal(r) /\ r # q) \/ ShortenLeft(r) \/ InsertRight(r) \/ CreateTrack(r)
               \/ DeleteTrack(r) \/ CheckUse(r) \/ DeleteAsset(r) \/ LogOperation(r)
               \/ PublishEvent(r) \/ Abort(r)
        PROVE  pc[q] \in {"shorten", "insert"} /\ readAsset'[q] = readAsset[q]
    <3>1. readAsset'[q] = readAsset[q]
      BY <2>0 DEF Start, Lookup, AddClip, UpdateClip, DeleteClip, FetchOriginal, ShortenLeft,
         InsertRight, CreateTrack, DeleteTrack, CheckUse, DeleteAsset, LogOperation, PublishEvent,
         Abort, TimelineTypeOK
    <3>2. CASE r # q
      <4>1. \E w : pc' = [pc EXCEPT ![r] = w]
        BY <2>0 DEF Start, Lookup, AddClip, UpdateClip, DeleteClip, FetchOriginal, ShortenLeft,
           InsertRight, CreateTrack, DeleteTrack, CheckUse, DeleteAsset, LogOperation, PublishEvent,
           Abort, Fail
      <4> QED
        BY <1>1, <3>1, <3>2, <4>1 DEF TimelineTypeOK
    <3>3. CASE r = q
      <4>1. ShortenLeft(q) => pc[q] = "shorten"
        BY DEF ShortenLeft
      <4>2. ~ ShortenLeft(q) => pc'[q] \notin {"shorten", "insert"}
        BY <2>0, <3>3 DEF Start, Lookup, AddClip, UpdateClip, DeleteClip, InsertRight, CreateTrack,
           DeleteTrack, CheckUse, DeleteAsset, LogOperation, PublishEvent, Abort, Fail,
           TimelineTypeOK
      <4> QED
        BY <1>1, <3>1, <4>1, <4>2
    <3> QED
      BY <3>2, <3>3
  <2>1. pc[q] \in {"shorten", "insert"} /\ readAsset'[q] = readAsset[q]
    <3>1. ASSUME NEW v \in Viewers, Receive(v) \/ AskTimeline(v) \/ ShowTimeline(v)
          PROVE  pc' = pc /\ readAsset' = readAsset
      BY <3>1 DEF Receive, AskTimeline, ShowTimeline
    <3> QED
      BY <1>1, <1>3, <2>0, <3>1 DEF TimelineNext
  <2>2. ASSUME NEW r \in Requests, DeleteAsset(r) PROVE FALSE
    BY <2>1, <2>2 DEF DeleteAsset, Alone, Ended
  <2>3. assets' = assets
    BY <2>2 DEF TimelineNext, Start, Lookup, AddClip, UpdateClip, DeleteClip, FetchOriginal,
       ShortenLeft, InsertRight, CreateTrack, DeleteTrack, CheckUse, LogOperation,
       PublishEvent, Abort, Receive, AskTimeline, ShowTimeline, Insert, Fail
  <2> QED
    BY <2>1, <2>3 DEF OriginalsLive, Exists
<1> QED
  BY <1>2, <1>3

\* A step preserves what the tabs have been told.
LEMMA WatchStep ==
    ASSUME TimelineTypeOK, HandlerInv, SplitInv, CopyInv, StartedInv, WatchInv, TimelineNext
    PROVE  WatchInv'
<1>f. faults' = faults
  BY DEF TimelineNext
<1>1. ViewShapes'
  BY DEF WatchInv, ViewShapes, TimelineNext, Start, Lookup, AddClip, UpdateClip, DeleteClip,
     FetchOriginal, ShortenLeft, InsertRight, CreateTrack, DeleteTrack, CheckUse, DeleteAsset,
     LogOperation, PublishEvent, Abort, Receive, AskTimeline, ShowTimeline, viewerVars
<1>a. Steady => OriginalsLive'
  BY OriginalsStep DEF WatchInv
<1>b. Steady' => Steady
  <2>1. \A r \in Requests : call'[r] = call[r] \/ (pc[r] = "idle" /\ call[r] = NoCall)
    BY DEF TimelineNext, Start, Lookup, AddClip, UpdateClip, DeleteClip, FetchOriginal,
       ShortenLeft, InsertRight, CreateTrack, DeleteTrack, CheckUse, DeleteAsset, LogOperation,
       PublishEvent, Abort, Receive, AskTimeline, ShowTimeline, handlerVars, StartedInv,
       TimelineTypeOK
  <2> QED
    BY <1>f, <2>1 DEF Steady, NoCall
<1>2. SUFFICES ASSUME Steady' PROVE Alone' /\ \A v \in Viewers : answer'[v] = <<>> /\ Told(v)'
  BY <1>1, <1>a, <1>b DEF WatchInv
<1>3. Steady
  BY <1>2, <1>b
<1>4. /\ Alone /\ OriginalsLive /\ ViewShapes
      /\ \A v \in Viewers : answer[v] = <<>> /\ Told(v)
  BY <1>3 DEF WatchInv
<1>5. \A t \in Tracks : tracks[t] # "deleted"
  BY <1>3 DEF Steady, StartedInv
<1>6. ASSUME NEW r \in Requests, Alone', UNCHANGED <<view, answer, queue>>,
             \A x : Expects(x) => Expects(x)'
      PROVE  Alone' /\ \A v \in Viewers : answer'[v] = <<>> /\ Told(v)'
  BY <1>4, <1>6, ToldKept
<1>7. ASSUME NEW r \in Requests, pc[r] \notin Ended, \A q \in Requests \ {r} : pc'[q] = pc[q]
      PROVE  Alone'
  BY <1>4, <1>7, AloneKept
<1> USE DEF viewerVars
<1>10. ASSUME NEW r \in Requests, Start(r)
       PROVE  Alone' /\ \A v \in Viewers : answer'[v] = <<>> /\ Told(v)'
  <2>1. UNCHANGED <<view, answer, queue>>
    BY <1>10 DEF Start
  <2>2. ASSUME NEW CONSTANT x, Expects(x) PROVE Expects(x)'
    BY <1>f, <1>3, <1>10, <2>2, StartTells
  <2>3. Alone'
    <3>1. \A q \in Requests : pc[q] \in Ended
      BY <1>3, <1>10 DEF Start, Steady
    <3> QED
      BY <1>10, <3>1 DEF Start, GoTo, Alone, Ended, TimelineTypeOK
  <2> QED
    BY <1>6, <2>1, <2>2, <2>3
<1>11. ASSUME NEW r \in Requests,
              \/ Lookup(r) \/ FetchOriginal(r) \/ CreateTrack(r) \/ CheckUse(r) \/ DeleteAsset(r)
              \/ /\ pc[r] \in {"write", "fetch", "shorten"} /\ Fail(r) /\ call' = call
                 /\ UNCHANGED <<view, answer, queue>>
       PROVE  Alone' /\ \A v \in Viewers : answer'[v] = <<>> /\ Told(v)'
  <2>1. UNCHANGED <<view, answer, queue>>
    BY <1>11 DEF Lookup, FetchOriginal, CreateTrack, CheckUse, DeleteAsset
  <2>2. ASSUME NEW CONSTANT x, Expects(x) PROVE Expects(x)'
    BY <1>11, <2>2, LookupTells
  <2>3. pc[r] \notin Ended /\ \A q \in Requests \ {r} : pc'[q] = pc[q]
    BY <1>11 DEF Lookup, FetchOriginal, CreateTrack, CheckUse, DeleteAsset, Fail, GoTo, Ended,
       TimelineTypeOK
  <2> QED
    BY <1>6, <1>7, <2>1, <2>2, <2>3
<1>12. ASSUME NEW r \in Requests, pc[r] = "write", call[r].op \in {"add_clip", "update_clip"},
              call' = call, GoTo(r, "log"), NEW row \in Row, Put(row), Hold(r, row),
              UNCHANGED <<view, answer, queue>>
       PROVE  Alone' /\ \A v \in Viewers : answer'[v] = <<>> /\ Told(v)'
  <2>1. ASSUME NEW CONSTANT x, Expects(x) PROVE Expects(x)'
    BY <1>4, <1>12, <2>1, WriteTells
  <2>2. pc[r] \notin Ended /\ \A q \in Requests \ {r} : pc'[q] = pc[q]
    BY <1>12 DEF GoTo, Ended, TimelineTypeOK
  <2> QED
    BY <1>6, <1>7, <1>12, <2>1, <2>2
<1>13. ASSUME NEW r \in Requests, AddClip(r)
       PROVE  Alone' /\ \A v \in Viewers : answer'[v] = <<>> /\ Told(v)'
  <2>1. CASE ~ (tracks[call[r].track] = "live" /\ Exists(call[r].asset))
    BY <1>11, <1>13, <2>1 DEF AddClip
  <2>2. CASE tracks[call[r].track] = "live" /\ Exists(call[r].asset)
    <3>1. PICK c \in unused : Insert(r, Added(call[r], c), call[r].asset) /\ GoTo(r, "log")
      BY <1>13, <2>2 DEF AddClip
    <3>2. Added(call[r], c) \in Row
      BY <1>13, AddedIsRow DEF AddClip
    <3>3. Put(Added(call[r], c)) /\ Hold(r, Added(call[r], c))
      BY <3>1 DEF Insert
    <3>4. pc[r] = "write" /\ call[r].op = "add_clip" /\ call' = call /\ UNCHANGED <<view, answer, queue>>
      BY <1>13 DEF AddClip
    <3> QED
      BY <1>12, <3>1, <3>2, <3>3, <3>4
  <2> QED
    BY <2>1, <2>2
<1>14. ASSUME NEW r \in Requests, UpdateClip(r)
       PROVE  Alone' /\ \A v \in Viewers : answer'[v] = <<>> /\ Told(v)'
  <2>1. CASE ~ (call[r].clip \in DOMAIN clips /\ Fits(Updated(r)))
    BY <1>11, <1>14, <2>1 DEF UpdateClip
  <2>2. CASE call[r].clip \in DOMAIN clips /\ Fits(Updated(r))
    <3>1. Put(Updated(r)) /\ Hold(r, Updated(r)) /\ GoTo(r, "log")
      BY <1>14, <2>2 DEF UpdateClip
    <3>2. Updated(r) \in Row
      BY <1>14, <2>2, UpdatedIsNext DEF UpdateClip
    <3>4. pc[r] = "write" /\ call[r].op = "update_clip" /\ call' = call /\ UNCHANGED <<view, answer, queue>>
      BY <1>14 DEF UpdateClip
    <3> QED
      BY <1>12, <3>1, <3>2, <3>4
  <2> QED
    BY <2>1, <2>2
<1>15. ASSUME NEW r \in Requests, ShortenLeft(r) \/ InsertRight(r) \/ DeleteClip(r) \/ LogOperation(r)
       PROVE  Alone' /\ \A v \in Viewers : answer'[v] = <<>> /\ Told(v)'
  <2>1. ASSUME NEW CONSTANT x, Expects(x) PROVE Expects(x)'
    BY <1>4, <1>5, <1>15, <2>1, ShortenTells, InsertTells, DeleteTells, LogTells
  <2>2. pc[r] \notin Ended /\ \A q \in Requests \ {r} : pc'[q] = pc[q]
    BY <1>15 DEF ShortenLeft, InsertRight, DeleteClip, LogOperation, Fail, GoTo, Ended, TimelineTypeOK
  <2>3. UNCHANGED <<view, answer, queue>>
    BY <1>15 DEF ShortenLeft, InsertRight, DeleteClip, LogOperation
  <2> QED
    BY <1>6, <1>7, <2>1, <2>2, <2>3
<1>16. ASSUME NEW r \in Requests, DeleteTrack(r) PROVE FALSE
  BY <1>3, <1>16 DEF DeleteTrack, Steady
<1>17. ASSUME NEW r \in Requests, PublishEvent(r)
       PROVE  Alone' /\ \A v \in Viewers : answer'[v] = <<>> /\ Told(v)'
  <2>1. pc[r] \notin Ended /\ \A q \in Requests \ {r} : pc'[q] = pc[q]
    BY <1>17 DEF PublishEvent, GoTo, Ended, TimelineTypeOK
  <2>2. answer' = answer
    BY <1>17 DEF PublishEvent
  <2>3. \A v \in Viewers : Told(v)'
    BY <1>3, <1>4, <1>17, PublishTells
  <2> QED
    BY <1>4, <1>7, <2>1, <2>2, <2>3
<1>18. ASSUME NEW r \in Requests, Abort(r) PROVE FALSE
  BY <1>3, <1>18 DEF Abort, Steady
<1>19. ASSUME NEW w \in Viewers, Receive(w)
       PROVE  Alone' /\ \A v \in Viewers : answer'[v] = <<>> /\ Told(v)'
  <2>1. answer' = answer /\ pc' = pc
    BY <1>19 DEF Receive, handlerVars
  <2>2. \A v \in Viewers : Told(v)'
    BY <1>4, <1>19, ReceiveTells
  <2> QED
    BY <1>4, <2>1, <2>2 DEF Alone
<1>20. ASSUME NEW w \in Viewers, AskTimeline(w) \/ ShowTimeline(w) PROVE FALSE
  BY <1>3, <1>4, <1>20 DEF AskTimeline, ShowTimeline, Steady
<1> QED
  BY <1>10, <1>11, <1>13, <1>14, <1>15, <1>16, <1>17, <1>18, <1>19, <1>20 DEF TimelineNext

-----------------------------------------------------------------------------
(* Theorems                                                                 *)

TimelineInv ==
    /\ TimelineTypeOK /\ HandlerInv /\ SplitInv /\ CopyInv /\ HalfDoneInv
    /\ StartedInv /\ WatchInv

\* The initial state satisfies the invariant.
LEMMA TimelineInvInit == TimelineInit => TimelineInv
<1> SUFFICES ASSUME TimelineInit PROVE TimelineInv
  OBVIOUS
<1>0. Len(<<>>) = 0 /\ <<>> \in Seq(Row) /\ <<>> \in Seq([op : Ops, row : Row])
      /\ <<>> \in Seq([gone : ClipIds \cup {None}, rows : Seq(Row)])
  BY EmptySeq
<1>1. TimelineTypeOK
  <2>1. /\ DOMAIN clips \subseteq ClipIds \ unused
        /\ \A c \in DOMAIN clips : clips[c] \in Row /\ clips[c].id = c
    BY InitialTimeline DEF TimelineInit
  <2>2. clips \in [DOMAIN clips -> Row]
    <3>1. clips = [c \in DOMAIN clips |-> clips[c]]
      BY InitialClipsIsFunction DEF TimelineInit
    <3> QED
      BY <2>1, <3>1
  <2>3. rows \in [Requests -> Seq(Row)] /\ log \in Seq([op : Ops, row : Row])
        /\ queue \in [Viewers -> Seq([gone : ClipIds \cup {None}, rows : Seq(Row)])]
    BY <1>0 DEF TimelineInit
  <2>4. /\ tracks \in [Tracks -> {"unused", "live", "deleted"}]
        /\ call \in [Requests -> Calls \cup {NoCall}]
        /\ readTrack \in [Requests -> Tracks \cup {None}]
        /\ readAsset \in [Requests -> AssetIds \cup {None}]
        /\ assets \subseteq AssetIds /\ assetOf \in [ClipIds -> assets \cup {None}]
        /\ unused \subseteq ClipIds /\ faults \in FaultSets
    BY InitialTimeline DEF TimelineInit
  <2>5. pc \in [Requests -> Ended \cup Active]
    BY DEF TimelineInit, Ended
  <2> QED
    BY <2>1, <2>2, <2>3, <2>4, <2>5 DEF TimelineTypeOK, Active
<1>2. HandlerInv
  BY DEF TimelineInit, HandlerInv, HandlerOK, Active
<1>3. SplitInv /\ HalfDoneInv
  BY DEF TimelineInit, SplitInv, SplitOK, NoCall, HalfDoneInv, HalfDoneOK
<1>4. Copies \subseteq TableRows
  <2>1. \A r \in Requests : ToSet(rows[r]) \subseteq TableRows
    BY <1>0 DEF TimelineInit, ToSet
  <2>2. \A i \in DOMAIN log : log[i].row \in TableRows
    BY <1>0 DEF TimelineInit
  <2>3. \A v \in Viewers : EventRows(queue[v]) \subseteq TableRows
    BY <1>0 DEF TimelineInit, EventRows
  <2> QED
    BY <2>1, <2>2, <2>3 DEF Copies, HeldRows, LoggedRows, QueuedRows
<1>5. CopyInv
  BY <1>1, <1>4, InitialTimeline
  DEF CopyInv, VersionIdentifiesRow, TracksCreated, TableRows, TimelineInit, TimelineTypeOK, Row
<1>6. StartedInv /\ ViewShapes /\ OriginalsLive
  BY DEF TimelineInit, StartedInv, ViewShapes, OriginalsLive
<1>7. Alone /\ \A v \in Viewers : answer[v] = <<>>
  BY DEF TimelineInit, Alone, Ended
<1>8. ASSUME NEW v \in Viewers PROVE Told(v)
  <2>1. queue[v] = <<>> /\ view[v] = Show(clips)
    BY DEF TimelineInit
  <2>2. PICK x : x = view[v]
    OBVIOUS
  <2>3. Leads([i \in {0} |-> x], queue[v], view[v], x)
    BY <1>0, <2>1, <2>2 DEF Leads
  <2>4. Expects(x)
    BY <2>1, <2>2 DEF Expects, TimelineInit, Untold
  <2> QED
    BY <2>3, <2>4 DEF Told
<1>9. WatchInv
  BY <1>6, <1>7, <1>8 DEF WatchInv
<1> QED
  BY <1>1, <1>2, <1>3, <1>5, <1>6, <1>9 DEF TimelineInv

\* Every reachable state satisfies it.
LEMMA TimelineInvariant == TimelineSpec => []TimelineInv
<1>1. TimelineInit => TimelineInv
  BY TimelineInvInit
<1>2. TimelineInv /\ [TimelineNext]_allVars => TimelineInv'
  <2> SUFFICES ASSUME TimelineInv, [TimelineNext]_allVars PROVE TimelineInv'
    OBVIOUS
  <2>1. CASE TimelineNext
    BY <2>1, TypeStep, HandlerStep, SplitStep, CopyStep, HalfDoneStep, StartedStep, WatchStep
    DEF TimelineInv
  <2>2. CASE UNCHANGED allVars
    <3>1. TimelineTypeOK' /\ HandlerInv'
      BY <2>2 DEF TimelineInv, TimelineTypeOK, HandlerInv, HandlerOK, allVars, timelineVars,
         tableVars, handlerVars, viewerVars
    <3>2. SplitInv' /\ HalfDoneInv'
      BY <2>2 DEF TimelineInv, SplitInv, SplitOK, HalfDoneInv, HalfDoneOK, Exists, allVars,
         timelineVars, tableVars, handlerVars
    <3>3. Copies' = Copies
      BY <2>2 DEF Copies, TableRows, HeldRows, LoggedRows, QueuedRows, allVars, timelineVars,
         tableVars, handlerVars
    <3>4. CopyInv'
      BY <2>2, <3>3 DEF TimelineInv, CopyInv, VersionIdentifiesRow, TracksCreated, allVars,
         timelineVars, tableVars
    <3>5. StartedInv'
      BY <2>2 DEF TimelineInv, StartedInv, allVars, timelineVars, tableVars, handlerVars
    <3>6. UNCHANGED <<clips, assets, readAsset, pc, call, rows, queue, view, answer, faults>>
      BY <2>2 DEF allVars, timelineVars, tableVars, handlerVars, viewerVars
    <3>7. ASSUME NEW v \in Viewers, Told(v) PROVE Told(v)'
      <4>1. \A r \in Requests : Event(r)' = Event(r)
        BY <3>6 DEF Event
      <4>2. ASSUME NEW CONSTANT x, Expects(x) PROVE Expects(x)'
        BY <3>6, <4>1, <4>2 DEF Expects, Show
      <4> QED
        BY <3>6, <3>7, <4>2, ToldKept
    <3>8. WatchInv'
      BY <3>6, <3>7 DEF TimelineInv, WatchInv, ViewShapes, Steady, Alone, OriginalsLive, Exists
    <3> QED
      BY <3>1, <3>2, <3>4, <3>5, <3>8 DEF TimelineInv
  <2> QED
    BY <2>1, <2>2
<1> QED
  BY <1>1, <1>2, PTL DEF TimelineSpec

\* The types hold in every reachable state.
THEOREM TimelineTypeCorrect == TimelineSpec => []TimelineTypeOK
<1>1. TimelineInv => TimelineTypeOK
  BY DEF TimelineInv
<1> QED
  BY <1>1, TimelineInvariant, PTL

\* For any number of racing requests and whatever fails, the version of a clip
\* identifies its state, and nothing is logged or published before it is in
\* the table.
THEOREM TimelineVersions == TimelineSpec => []VersionIdentifiesRow
<1>1. TimelineInv => VersionIdentifiesRow
  BY DEF TimelineInv, CopyInv
<1> QED
  BY <1>1, TimelineInvariant, PTL

\* Together: the handlers of timeline/handlers.rs keep the types, and the versions tell
\* every copy of a row from every other.
THEOREM TimelineCorrect == TimelineSpec => []TimelineOK
<1>1. TimelineTypeOK /\ VersionIdentifiesRow => TimelineOK
  BY DEF TimelineOK
<1> QED
  BY <1>1, TimelineTypeCorrect, TimelineVersions, PTL

\* A split that nobody interfered with cuts its clip in two.
THEOREM TimelineSplits == TimelineSpec => []SplitHalvesMeet
<1>1. TimelineInv => SplitHalvesMeet
  <2> SUFFICES ASSUME TimelineInv, NEW r \in Requests, call[r].op = "split_clip",
                      Len(rows[r]) = 3, rows[r][2].version = rows[r][1].version + 1
               PROVE  /\ rows[r][2].track = rows[r][1].track /\ rows[r][3].track = rows[r][1].track
                      /\ rows[r][2].pos = rows[r][1].pos
                      /\ rows[r][3].pos = rows[r][2].pos + rows[r][2].dur
                      /\ rows[r][2].trimIn = rows[r][1].trimIn
                      /\ rows[r][3].trimIn = rows[r][2].trimIn + rows[r][2].dur
                      /\ rows[r][2].dur + rows[r][3].dur = rows[r][1].dur
                      /\ rows[r][2].dur >= MinDur /\ rows[r][3].dur >= MinDur
    BY DEF SplitHalvesMeet
  <2>1. /\ call[r].at \in Int /\ SplitAllowed(rows[r][1], call[r].at)
        /\ rows[r][2] = Shortened(rows[r][1], call[r].at)
        /\ rows[r][3] = RightHalf(rows[r][1], call[r].at, rows[r][3].id)
    BY DEF TimelineInv, SplitInv, SplitOK
  <2>2. rows[r][1] \in Row
    <3>1. rows[r] \in Seq(Row) /\ 1 \in 1 .. Len(rows[r])
      BY DEF TimelineInv, TimelineTypeOK
    <3> QED
      BY <3>1, ElementOfSeq
  <2>3. /\ rows[r][1].pos \in Nat /\ rows[r][1].dur \in Nat /\ rows[r][1].trimIn \in Nat
    BY <2>2 DEF Row
  <2>4. /\ rows[r][2].track = rows[r][1].track /\ rows[r][2].pos = rows[r][1].pos
        /\ rows[r][2].trimIn = rows[r][1].trimIn /\ rows[r][2].dur = call[r].at
    BY <2>1 DEF Shortened
  <2>5. /\ rows[r][3].track = rows[r][1].track /\ rows[r][3].pos = rows[r][1].pos + call[r].at
        /\ rows[r][3].trimIn = rows[r][1].trimIn + call[r].at
        /\ rows[r][3].dur = rows[r][1].dur - call[r].at
    BY <2>1 DEF RightHalf
  <2>6. call[r].at >= MinDur /\ call[r].at <= rows[r][1].dur - MinDur
    BY <2>1 DEF SplitAllowed
  <2> QED
    BY <2>1, <2>3, <2>4, <2>5, <2>6, MinDurPositive
<1> QED
  BY <1>1, TimelineInvariant, PTL

\* Only a failing database, a dropped request, or the deletion of the track or the asset that
\* the original referred to stops split_clip half way.
THEOREM TimelineSplitsWhole == TimelineSpec => []SplitAllOrNothing
<1>1. TimelineInv => SplitAllOrNothing
  BY DEF TimelineInv, HalfDoneInv, HalfDoneOK, SplitAllOrNothing
<1> QED
  BY <1>1, TimelineInvariant, PTL

\* A tab that only watches (useOperationSync.ts) shows the server's clips once the
\* requests have ended and their events are received, when they come one after the other,
\* nothing is lost and no track is deleted.
THEOREM TimelineSpectators == TimelineSpec => []SpectatorConverges
<1>1. TimelineInv => SpectatorConverges
  <2> SUFFICES ASSUME TimelineInv, Steady, Quiet, NEW v \in Viewers
               PROVE  view[v] = Show(clips)
    BY DEF SpectatorConverges, Steady
  <2>1. PICK h, x : Leads(h, queue[v], view[v], x) /\ Expects(x)
    BY DEF TimelineInv, WatchInv, Told
  <2>2. Len(queue[v]) = 0
    BY EmptySeq DEF Quiet
  <2>3. x = view[v]
    BY <2>1, <2>2 DEF Leads
  <2>4. \A r \in Requests : pc[r] \notin Untold
    BY DEF Quiet, Untold, Ended
  <2> QED
    BY <2>1, <2>3, <2>4 DEF Expects
<1> QED
  BY <1>1, TimelineInvariant, PTL

(***************************************************************************)
(* PLAYER                                                                  *)
(***************************************************************************)

\* What is never wrong with a mishap that does not happen.
MishapsOK ==
    /\ May("late") \/ proxied = Assets
    /\ May("net") \/ ~failed
    /\ May("unload") \/ loaded

\* The <video> element has the source of the clip on the screen or failed to load one;
\* it runs only with the playback, and where nothing interferes it is where the clip is.
Undisturbed == mishaps \cap {"net", "late"} = {}
VideoInv ==
    /\ video.src = IF failed THEN Nothing ELSE Source
    /\ video.playing => playing
    /\ video.sound \in {sound, NoElement.sound}
    /\ Undisturbed /\ video.src # Nothing => video.playing = playing /\ video.at = Position

\* All that is not an element or the loop.
RestOK ==
    /\ there \in BOOLEAN /\ loaded \in BOOLEAN /\ place \in [Clips -> Nat \cup {Nothing}]
    /\ hidden \subseteq Lanes /\ hushed \subseteq Lanes /\ proxied \subseteq Assets
    /\ time \in Nat /\ playing \in BOOLEAN /\ speed \in Speeds /\ sound \in Sounds
    /\ ops \in 0 .. MaxOps /\ mishaps \in MishapSets
    /\ ~loaded => Placed = {}
    /\ May("late") \/ proxied = Assets
    /\ May("unload") \/ loaded

\* There are <audio> elements only in the editor.
AudioInv == \A c \in Clips : audio[c].src # Nothing => there

PlayerInv == PlayerTypeOK /\ MishapsOK /\ VideoInv /\ AudioInv /\ OnlyHeardClips

-----------------------------------------------------------------------------
(* What is on the screen.                                                    *)

LEMMA NatLeast ==
    ASSUME NEW T \in SUBSET Nat, T # {}
    PROVE  \E x \in T : \A y \in T : x <= y
<1> DEFINE R == {ss \in Nat \X Nat : ss[1] < ss[2]}
<1>1. IsWellFoundedOn(R, Nat)
  BY NatLessThanWellFounded DEF OpToRel
<1>2. PICK x \in T : \A y \in T : ~ (<<y, x>> \in R)
  <2> HIDE DEF R
  <2> QED
    BY <1>1, WFMin
<1>3. \A y \in T : <<y, x>> \in R <=> y < x
  OBVIOUS
<1>4. \A y \in T : ~(y < x)
  BY <1>2, <1>3
<1>5. \A y \in T : y \in Nat /\ x \in Nat
  OBVIOUS
<1> HIDE DEF R
<1>6. \A y \in T : x <= y
  BY <1>4, <1>5
<1> QED
  BY <1>6

\* Among clips of video tracks there is one that no other is above.
LEMMA SomeClipOnTop ==
    ASSUME NEW S, S \subseteq Clips, S # {}, \A c \in S : TrackOf[c] \in ToSet(VideoTracks)
    PROVE  \E c \in S : \A d \in S : ~Above(d, c)
<1>1. /\ Len(VideoTracks) \in Nat /\ DOMAIN VideoTracks = 1 .. Len(VideoTracks)
      /\ Len(ClipOrder) \in Nat /\ DOMAIN ClipOrder = 1 .. Len(ClipOrder)
      /\ \A j, k \in 1 .. Len(VideoTracks) : VideoTracks[j] = VideoTracks[k] => j = k
      /\ \A j, k \in 1 .. Len(ClipOrder) : ClipOrder[j] = ClipOrder[k] => j = k
  BY PlayerOrders DEF IsInjective
<1>2. \A c \in S : /\ \E j \in 1 .. Len(VideoTracks) : VideoTracks[j] = TrackOf[c]
                    /\ \E k \in 1 .. Len(ClipOrder) : ClipOrder[k] = c
  BY <1>1 DEF Clips, ToSet
<1> DEFINE T == {i \in Nat : \E j \in 1 .. Len(VideoTracks) :
                                /\ i = Len(VideoTracks) - j
                                /\ \E c \in S : TrackOf[c] = VideoTracks[j]}
<1>3. T \in SUBSET Nat /\ T # {}
  <2>1. PICK c \in S : TRUE
    OBVIOUS
  <2>2. PICK j \in 1 .. Len(VideoTracks) : VideoTracks[j] = TrackOf[c]
    BY <1>2
  <2>3. Len(VideoTracks) - j \in T
    BY <1>1, <2>2
  <2> QED
    BY <2>3
<1>4. PICK n \in T : \A m \in T : n <= m
  <2> HIDE DEF T
  <2> QED
    BY <1>3, NatLeast
<1>5. PICK t \in 1 .. Len(VideoTracks) :
         n = Len(VideoTracks) - t /\ \E c \in S : TrackOf[c] = VideoTracks[t]
  OBVIOUS
<1>6. \A d \in S, k \in 1 .. Len(VideoTracks) : VideoTracks[k] = TrackOf[d] => k <= t
  <2> SUFFICES ASSUME NEW d \in S, NEW k \in 1 .. Len(VideoTracks), VideoTracks[k] = TrackOf[d]
               PROVE  k <= t
    OBVIOUS
  <2>1. Len(VideoTracks) - k \in T
    <3>1. Len(VideoTracks) \in Nat
      BY <1>1
    <3>2. \E c \in S : TrackOf[c] = VideoTracks[k]
      OBVIOUS
    <3>3. Len(VideoTracks) - k \in Nat
      BY <3>1
    <3> QED
      BY <3>2, <3>3
  <2>2. n <= Len(VideoTracks) - k
    BY <1>4, <2>1
  <2> HIDE DEF T
  <2> QED
    BY <1>1, <1>5, <2>2
<1> HIDE DEF T
<1> DEFINE U == {i \in 1 .. Len(ClipOrder) :
                   ClipOrder[i] \in S /\ TrackOf[ClipOrder[i]] = VideoTracks[t]}
<1>7. U \in SUBSET Nat /\ U # {}
  <2>1. PICK c \in S : TrackOf[c] = VideoTracks[t]
    BY <1>5
  <2>2. PICK j \in 1 .. Len(ClipOrder) : ClipOrder[j] = c
    BY <1>2
  <2>3. j \in U
    BY <2>1, <2>2
  <2> QED
    BY <2>3, <1>1
<1>8. PICK u \in U : \A m \in U : u <= m
  <2> HIDE DEF U
  <2> QED
    BY <1>7, NatLeast
<1>9. u \in 1 .. Len(ClipOrder) /\ ClipOrder[u] \in S /\ TrackOf[ClipOrder[u]] = VideoTracks[t]
  OBVIOUS
<1>10. \A d \in S, k \in 1 .. Len(ClipOrder) :
          ClipOrder[k] = d /\ TrackOf[d] = VideoTracks[t] => u <= k
  BY <1>8
<1> HIDE DEF U
<1>11. ASSUME NEW d \in S, Above(d, ClipOrder[u])
       PROVE  FALSE
  <2>1. CASE \E j, k \in 1 .. Len(VideoTracks) :
                j < k /\ VideoTracks[j] = TrackOf[ClipOrder[u]] /\ VideoTracks[k] = TrackOf[d]
    <3>1. PICK j, k \in 1 .. Len(VideoTracks) :
             j < k /\ VideoTracks[j] = TrackOf[ClipOrder[u]] /\ VideoTracks[k] = TrackOf[d]
      BY <2>1
    <3>2. j = t
      BY <3>1, <1>1, <1>5, <1>9
    <3>3. k <= t
      BY <3>1, <1>6
    <3> QED
      BY <3>1, <3>2, <3>3, <1>1
  <2>2. CASE \E j, k \in 1 .. Len(ClipOrder) :
                /\ j < k /\ ClipOrder[j] = d /\ ClipOrder[k] = ClipOrder[u]
                /\ TrackOf[ClipOrder[u]] = TrackOf[d]
    <3>1. PICK j, k \in 1 .. Len(ClipOrder) :
             /\ j < k /\ ClipOrder[j] = d /\ ClipOrder[k] = ClipOrder[u]
             /\ TrackOf[ClipOrder[u]] = TrackOf[d]
      BY <2>2
    <3>2. k = u
      BY <3>1, <1>1, <1>9
    <3>3. u <= j
      BY <3>1, <1>9, <1>10
    <3> QED
      BY <3>1, <3>2, <3>3, <1>1
  <2> QED
    BY <1>11, <2>1, <2>2 DEF Above
<1> QED
  BY <1>9, <1>11

\* The clips under the playhead that can be seen, and the one of them that is.
Lit == {c \in Clips : TrackOf[c] \in ToSet(VideoTracks) \ hidden /\ Under(c)}

LEMMA ScreenShows ==
    /\ ~there \/ Lit = {} => OnScreen = Nothing
    /\ there /\ Lit # {} => OnScreen \in Lit /\ \A d \in Lit : ~Above(d, OnScreen)
    /\ OnScreen # Nothing => OnScreen \in Lit
<1> DEFINE C == CHOOSE c \in Lit : \A d \in Lit : ~Above(d, c)
<1>1. OnScreen = IF ~there \/ Lit = {} THEN Nothing ELSE C
  BY DEF OnScreen, Lit
<1>2. Lit # {} => C \in Lit /\ \A d \in Lit : ~Above(d, C)
  <2> SUFFICES ASSUME Lit # {} PROVE C \in Lit /\ \A d \in Lit : ~Above(d, C)
    OBVIOUS
  <2>1. Lit \subseteq Clips /\ \A c \in Lit : TrackOf[c] \in ToSet(VideoTracks)
    BY DEF Lit
  <2>2. \E c \in Lit : \A d \in Lit : ~Above(d, c)
    BY <2>1, SomeClipOnTop
  <2> QED
    BY <2>2
<1> HIDE DEF C
<1> QED
  BY <1>1, <1>2

LEMMA PositionIsNat ==
    place \in [Clips -> Nat \cup {Nothing}] /\ time \in Nat => Position \in Nat
<1> SUFFICES ASSUME place \in [Clips -> Nat \cup {Nothing}], time \in Nat, OnScreen # Nothing
             PROVE  Local(OnScreen) \in Nat
  BY DEF Position
<1>1. OnScreen \in Clips /\ Under(OnScreen)
  BY ScreenShows DEF Lit
<1>2. place[OnScreen] \in Nat /\ InPoint[OnScreen] \in Nat /\ place[OnScreen] <= time
  BY <1>1, PlayerTimes DEF Under
<1> QED
  BY <1>2 DEF Local

LEMMA SourceIsAsset == Source \in Assets \cup {Nothing}
BY ScreenShows DEF Source, Lit, Assets

-----------------------------------------------------------------------------
(* One step.  A step changes the rest first, then the effects follow.        *)

LEMMA VideoStep ==
    ASSUME PlayerInv, RestOK', VideoEffects, UNCHANGED mishaps
    PROVE  failed' \in BOOLEAN /\ video' \in Elements /\ VideoInv' /\ (May("net") \/ ~failed)'
<1> DEFINE flips == Source' # Source
           el == IF Source' = Nothing \/ failed THEN NoElement
                 ELSE IF video.src = Source' THEN video
                 ELSE [video EXCEPT !.src = Source', !.at = 0, !.playing = FALSE]
<1>1. /\ failed' = (failed /\ ~flips)
      /\ video' = IF failed /\ flips /\ Source' # Nothing THEN Fresh(Source')
                  ELSE [src |-> el.src,
                        at |-> IF el.src # Nothing /\ Seeks THEN Position' ELSE el.at,
                        playing |-> IF el.src # Nothing /\ Replays THEN playing' ELSE el.playing,
                        sound |-> IF el.src # Nothing /\ Resounds THEN sound' ELSE el.sound]
  BY DEF VideoEffects
<1>2. Position' \in Nat /\ Source' \in Assets \cup {Nothing} /\ Source \in Assets \cup {Nothing}
  <2>1. (place \in [Clips -> Nat \cup {Nothing}] /\ time \in Nat => Position \in Nat)'
    BY PositionIsNat, PTL
  <2>2. (Source \in Assets \cup {Nothing})'
    BY SourceIsAsset, PTL
  <2> QED
    BY <2>1, <2>2, SourceIsAsset DEF RestOK
<1>3. Nothing \notin Assets
  BY PlayerNames
<1>4. NoElement \in Elements /\ \A a \in Assets : Fresh(a) \in Elements
  BY DEF NoElement, Fresh, Elements, Sounds
<1>5. /\ video \in Elements /\ failed \in BOOLEAN /\ VideoInv
      /\ May("net") \/ ~failed
      /\ May("late") \/ proxied = Assets
      /\ playing' \in BOOLEAN /\ sound' \in Sounds
      /\ (May("late") \/ proxied = Assets)'
  BY DEF PlayerInv, PlayerTypeOK, MishapsOK, RestOK
<1>6. /\ video.at \in Nat /\ video.playing \in BOOLEAN /\ video.sound \in Sounds
      /\ video.src \in Assets \cup {Nothing}
      /\ video = [src |-> video.src, at |-> video.at, playing |-> video.playing, sound |-> video.sound]
  BY <1>5 DEF Elements
<1>7. /\ el.src = (IF Source' = Nothing \/ failed THEN Nothing ELSE Source')
      /\ el.at \in Nat /\ el.playing \in BOOLEAN /\ el.sound \in Sounds
      /\ el.playing => video.playing
      /\ el.sound \in {video.sound, NoElement.sound}
      /\ el.src = Nothing => ~el.playing /\ el.sound = NoElement.sound
      /\ el.src # Nothing /\ video.src = Source' => el.at = video.at /\ el.playing = video.playing
  <2>1. CASE Source' = Nothing \/ failed
    BY <2>1, <1>4 DEF NoElement, Elements
  <2>2. CASE ~(Source' = Nothing \/ failed) /\ video.src = Source'
    BY <2>2, <1>6
  <2>3. CASE ~(Source' = Nothing \/ failed) /\ video.src # Source'
    <3>1. el = [src |-> Source', at |-> 0, playing |-> FALSE, sound |-> video.sound]
      BY <2>3, <1>6
    <3> HIDE DEF el
    <3> QED
      BY <2>3, <3>1, <1>6
  <2> QED
    BY <2>1, <2>2, <2>3
<1> HIDE DEF el
<1>8. CASE failed /\ flips /\ Source' # Nothing
  <2>1. failed' = FALSE /\ video' = Fresh(Source') /\ Source' \in Assets
    BY <1>1, <1>2, <1>8
  <2>2. /\ video'.src = Source' /\ video'.playing = FALSE /\ video'.sound = NoElement.sound
        /\ video' \in Elements
    BY <2>1, <1>4 DEF Fresh, NoElement
  <2>3. ~Undisturbed'
    BY <1>5, <1>8 DEF Undisturbed, May
  <2>4. VideoInv'
    BY <2>1, <2>2, <2>3 DEF VideoInv, NoElement
  <2> QED
    BY <2>1, <2>2, <2>4
<1>9. CASE ~(failed /\ flips /\ Source' # Nothing)
  <2>1. /\ video'.src = el.src
        /\ video'.at = IF el.src # Nothing /\ Seeks THEN Position' ELSE el.at
        /\ video'.playing = IF el.src # Nothing /\ Replays THEN playing' ELSE el.playing
        /\ video'.sound = IF el.src # Nothing /\ Resounds THEN sound' ELSE el.sound
        /\ video' = [src |-> el.src, at |-> video'.at, playing |-> video'.playing,
                     sound |-> video'.sound]
    BY <1>1, <1>9
  <2>2. video' \in Elements
    <3>1. /\ el.src \in Assets \cup {Nothing} /\ video'.at \in Nat
          /\ video'.playing \in BOOLEAN /\ video'.sound \in Sounds
      BY <2>1, <1>2, <1>5, <1>7
    <3> QED
      BY <2>1, <3>1 DEF Elements
  <2>3. failed' \in BOOLEAN /\ (May("net") \/ ~failed)'
    BY <1>1, <1>5 DEF May
  <2>4. video'.src = IF failed' THEN Nothing ELSE Source'
    BY <2>1, <1>1, <1>7, <1>9
  <2>5. video'.playing => playing'
    <3>1. CASE el.src # Nothing /\ Replays
      BY <3>1, <2>1
    <3>2. CASE el.src # Nothing /\ ~Replays
      BY <3>2, <2>1, <1>7, <1>5 DEF VideoInv, Replays
    <3>3. CASE el.src = Nothing
      BY <3>3, <2>1, <1>7
    <3> QED
      BY <3>1, <3>2, <3>3
  <2>6. video'.sound \in {sound', NoElement.sound}
    <3>1. CASE el.src # Nothing /\ Resounds
      BY <3>1, <2>1
    <3>2. CASE el.src # Nothing /\ ~Resounds
      BY <3>2, <2>1, <1>7, <1>5 DEF VideoInv, Resounds
    <3>3. CASE el.src = Nothing
      BY <3>3, <2>1, <1>7
    <3> QED
      BY <3>1, <3>2, <3>3
  <2>7. ASSUME Undisturbed', video'.src # Nothing
        PROVE  video'.playing = playing' /\ video'.at = Position'
    <3>1. /\ Undisturbed /\ ~failed /\ proxied = Assets /\ proxied' = Assets
          /\ el.src # Nothing /\ video.src = Source
      BY <2>7, <2>1, <1>5 DEF Undisturbed, May, VideoInv
    <3>2. video'.playing = playing'
      BY <3>1, <2>1, <1>5, <1>7 DEF Replays, VideoInv
    <3>3. CASE Seeks
      BY <3>1, <3>2, <3>3, <2>1
    <3>4. CASE ~Seeks
      <4>1. time' = time /\ OnScreen' = OnScreen /\ Spot' = Spot
        BY <3>4 DEF Seeks
      <4>2. Source' = Source
        BY <4>1, <3>1 DEF Source
      <4>3. Position' = Position
        BY <4>1 DEF Position, Spot, Local
      <4> QED
        BY <4>2, <4>3, <3>1, <3>2, <3>4, <2>1, <1>5, <1>7 DEF VideoInv
    <3> QED
      BY <3>3, <3>4
  <2> QED
    BY <2>2, <2>3, <2>4, <2>5, <2>6, <2>7 DEF VideoInv, NoElement
<1> QED
  BY <1>8, <1>9

LEMMA AudioStep ==
    ASSUME PlayerInv, RestOK', AudioEffects, UNCHANGED mishaps
    PROVE  audio' \in [Clips -> Elements] /\ lost' = {} /\ AudioInv' /\ OnlyHeardClips'
<1>1. /\ audio \in [Clips -> Elements] /\ OnlyHeardClips /\ lost = {}
      /\ May("late") \/ proxied = Assets
      /\ (May("late") \/ proxied = Assets)'
  BY DEF PlayerInv, PlayerTypeOK, MishapsOK, RestOK, OnlyHeardClips
<1>2. \A c \in Clips : AssetOf[c] \in Assets /\ AssetOf[c] # Nothing
  BY PlayerNames DEF Assets
<1>3. NoElement \in Elements /\ NoElement.src = Nothing /\ NoElement.playing = FALSE
  BY DEF NoElement, Elements, Sounds
<1>4. ASSUME NEW c \in Clips, Audible(c)'
      PROVE  Local(c)' \in Nat
  <2>1. /\ place' \in [Clips -> Nat \cup {Nothing}] /\ time' \in Nat
        /\ place'[c] # Nothing /\ place'[c] <= time'
    BY <1>4 DEF Audible, Under, RestOK
  <2>2. place'[c] \in Nat /\ InPoint[c] \in Nat
    BY <2>1, PlayerTimes
  <2> QED
    BY <2>1, <2>2 DEF Local
\* What is brought in line is as it should be.
<1>5. ASSUME NEW c \in Clips, NEW e \in Elements,
             e.src # Nothing => there'
      PROVE  /\ Synced(c, e) \in Elements
             /\ Synced(c, e).playing => /\ there' /\ Audible(c)' /\ Synced(c, e).at = Local(c)'
                                        /\ Synced(c, e).sound = sound'
             /\ Playable(c)' /\ Audible(c)' => Synced(c, e).playing
  <2>1. CASE e.src = Nothing /\ ~Playable(c)'
    BY <2>1, <1>3 DEF Synced
  <2>2. CASE ~(e.src = Nothing /\ ~Playable(c)')
    <3>1. Synced(c, e) = [src |-> AssetOf[c], at |-> IF Audible(c)' THEN Local(c)' ELSE e.at,
                          playing |-> Audible(c)', sound |-> sound']
      BY <2>2 DEF Synced
    <3>2. Audible(c)' \in BOOLEAN /\ there'
      BY <2>2, <1>5 DEF Audible, Playable, RestOK
    <3>3. e.at \in Nat /\ sound' \in Sounds
      BY DEF Elements, RestOK
    <3> QED
      BY <3>1, <3>2, <3>3, <1>2, <1>4 DEF Elements
  <2> QED
    BY <2>1, <2>2
<1>6. \A c \in Clips : Synced(c, NoElement).src # Nothing => there'
  BY <1>3 DEF Synced, Playable
<1>7. CASE <<there, place, hidden, hushed>>' # <<there, place, hidden, hushed>>
  <2>1. /\ audio' = [c \in Clips |-> Synced(c, NoElement)]
        /\ lost' = lost \cup {c \in Clips : GiveUp(audio[c]).playing}
    BY <1>7 DEF AudioEffects
  <2>2. \A c \in Clips : GiveUp(audio[c]).playing = FALSE
    BY <1>1 DEF GiveUp, Elements
  <2>3. lost' = {}
    BY <1>1, <2>1, <2>2
  <2>4. \A c \in Clips : audio'[c] = Synced(c, NoElement)
    BY <2>1
  <2>5. audio' \in [Clips -> Elements] /\ AudioInv'
    BY <1>3, <1>5, <1>6, <2>1, <2>4 DEF AudioInv
  <2>6. ASSUME NEW c \in Clips
        PROVE  /\ audio'[c].playing => /\ there' /\ Audible(c)' /\ audio'[c].at = Local(c)'
                                       /\ audio'[c].sound = sound'
               /\ Playable(c)' /\ Audible(c)' => audio'[c].playing
    BY <1>3, <1>5, <2>4
  <2> QED
    BY <2>3, <2>5, <2>6 DEF OnlyHeardClips
<1>8. CASE /\ <<there, place, hidden, hushed>>' = <<there, place, hidden, hushed>>
           /\ store' # store
  <2>1. audio' = [c \in Clips |-> Synced(c, audio[c])] /\ lost' = lost /\ there' = there
    BY <1>8 DEF AudioEffects
  <2>2. \A c \in Clips : audio[c] \in Elements /\ audio'[c] = Synced(c, audio[c])
    BY <1>1, <2>1
  <2>3. \A c \in Clips : audio[c].src # Nothing => there'
    BY <2>1 DEF PlayerInv, AudioInv
  <2>4. \A c \in Clips : Synced(c, audio[c]).src # Nothing => there'
    BY <1>3, <2>3 DEF Synced, Playable
  <2>5. audio' \in [Clips -> Elements]
    BY <1>5, <2>1, <2>2, <2>3
  <2>6. ASSUME NEW c \in Clips
        PROVE  /\ audio'[c].playing => /\ there' /\ Audible(c)' /\ audio'[c].at = Local(c)'
                                       /\ audio'[c].sound = sound'
               /\ Playable(c)' /\ Audible(c)' => audio'[c].playing
    BY <1>5, <2>2, <2>3
  <2> QED
    BY <1>1, <2>1, <2>2, <2>4, <2>5, <2>6 DEF OnlyHeardClips, AudioInv
<1>9. CASE /\ <<there, place, hidden, hushed>>' = <<there, place, hidden, hushed>>
           /\ store' = store
  <2>1. /\ audio' = audio /\ lost' = lost
        /\ there' = there /\ place' = place /\ hushed' = hushed
        /\ time' = time /\ playing' = playing /\ sound' = sound
    BY <1>9 DEF AudioEffects, store
  <2>2. ASSUME NEW c \in Clips
        PROVE  /\ Audible(c)' = Audible(c) /\ Local(c)' = Local(c)
               /\ May("late")' \/ (Playable(c)' = Playable(c))
    BY <2>1, <1>1 DEF Audible, Under, Local, Playable, May
  <2>3. OnlyHeardClips'
    BY <1>1, <2>1, <2>2 DEF OnlyHeardClips, May
  <2> QED
    BY <1>1, <2>1, <2>3 DEF PlayerInv, AudioInv
<1> QED
  BY <1>7, <1>8, <1>9

LEMMA EffectsStep ==
    ASSUME PlayerInv, RestOK', Effects
    PROVE  PlayerInv'
<1>1. /\ VideoEffects /\ AudioEffects /\ UNCHANGED mishaps
      /\ loop' = (there' /\ playing' /\ (loop \/ Mounts \/ ~playing))
  BY DEF Effects, LoopEffect
<1>2. failed' \in BOOLEAN /\ video' \in Elements /\ VideoInv' /\ (May("net") \/ ~failed)'
  BY <1>1, VideoStep
<1>3. audio' \in [Clips -> Elements] /\ lost' = {} /\ AudioInv' /\ OnlyHeardClips'
  BY <1>1, AudioStep
<1>4. loop' \in BOOLEAN /\ (loop' => playing' /\ there')
  BY <1>1
<1>5. playing' /\ there' /\ ~loop' => May("unload")'
  <2>1. playing /\ there /\ ~loop => May("unload")
    BY DEF PlayerInv, PlayerTypeOK
  <2>2. playing' /\ there' /\ ~loop' => playing /\ there /\ ~loop
    BY <1>1 DEF Mounts
  <2> QED
    BY <1>1, <2>1, <2>2 DEF May
<1>6. PlayerTypeOK'
  BY <1>2, <1>3, <1>4, <1>5 DEF PlayerTypeOK, RestOK
<1>7. MishapsOK'
  BY <1>2 DEF MishapsOK, RestOK
<1> QED
  BY <1>2, <1>3, <1>6, <1>7 DEF PlayerInv

LEMMA InvRest == PlayerInv => RestOK
BY DEF PlayerInv, PlayerTypeOK, MishapsOK, RestOK

\* A step that asks for a state of the transport.
LEMMA TransportStep ==
    ASSUME PlayerInv, NEW t \in Nat, NEW p \in BOOLEAN, NEW v \in Speeds, NEW s \in Sounds,
           Transport(t, p, v, s), ops' \in 0 .. MaxOps
    PROVE  PlayerInv'
<1>1. /\ time' = t /\ playing' = p /\ speed' = v /\ sound' = s
      /\ there' = there /\ loaded' = loaded /\ place' = place
      /\ hidden' = hidden /\ hushed' = hushed /\ proxied' = proxied
      /\ mishaps' = mishaps /\ Effects
  BY DEF Transport, Effects, project
<1>2. RestOK'
  BY <1>1, InvRest DEF RestOK, Placed, May
<1> QED
  BY <1>1, <1>2, EffectsStep

LEMMA UsesCounts ==
    ASSUME PlayerInv, Uses
    PROVE  there /\ ops' \in 0 .. MaxOps
BY PlayerTimes DEF PlayerInv, PlayerTypeOK, Uses

LEMMA FromStartIsTime ==
    ASSUME NEW p \in BOOLEAN, time \in Nat
    PROVE  FromStart(p, time) \in Nat
BY DEF FromStart

LEMMA TogglePlayStep == PlayerInv /\ TogglePlay => PlayerInv'
<1> SUFFICES ASSUME PlayerInv, TogglePlay PROVE PlayerInv'
  OBVIOUS
<1>1. /\ time \in Nat /\ (~playing) \in BOOLEAN /\ speed \in Speeds /\ sound \in Sounds
      /\ Transport(FromStart(~playing, time), ~playing, speed, sound)
      /\ ops' \in 0 .. MaxOps
  BY UsesCounts DEF TogglePlay, PlayerInv, PlayerTypeOK
<1>2. FromStart(~playing, time) \in {0, time}
  BY Zenon DEF FromStart
<1>3. FromStart(~playing, time) \in Nat
  BY <1>1, <1>2
<1> QED
  BY <1>1, <1>3, TransportStep

LEMMA MaxOfZero == \A t \in Nat : Max({0, t}) = t
<1> SUFFICES ASSUME NEW t \in Nat PROVE Max({0, t}) = t
  OBVIOUS
<1>1. \A y \in {0, t} : t >= y
  OBVIOUS
<1>2. Max({0, t}) \in {0, t} /\ \A y \in {0, t} : Max({0, t}) >= y
  BY <1>1 DEF Max
<1> QED
  BY <1>2

LEMMA SeekStep == PlayerInv /\ (\E t \in Marks : Seek(t)) => PlayerInv'
<1> SUFFICES ASSUME PlayerInv, NEW t \in Marks, Seek(t) PROVE PlayerInv'
  OBVIOUS
<1>1. /\ playing \in BOOLEAN /\ speed \in Speeds /\ sound \in Sounds
      /\ Transport(Max({0, t}), playing, speed, sound) /\ ops' \in 0 .. MaxOps
  BY UsesCounts DEF Seek, PlayerInv, PlayerTypeOK
<1>2. Max({0, t}) \in Nat
  BY MaxOfZero, PlayerTimes
<1> QED
  BY <1>1, <1>2, TransportStep

LEMMA SetStep ==
    PlayerInv /\ ((\E v \in Speeds : SetSpeed(v)) \/ (\E s \in Sounds : SetSound(s))) => PlayerInv'
<1> SUFFICES ASSUME PlayerInv,
                    (\E v \in Speeds : SetSpeed(v)) \/ (\E s \in Sounds : SetSound(s))
             PROVE  PlayerInv'
  OBVIOUS
<1>1. time \in Nat /\ playing \in BOOLEAN /\ speed \in Speeds /\ sound \in Sounds
  BY DEF PlayerInv, PlayerTypeOK
<1>2. ASSUME NEW v \in Speeds, SetSpeed(v) PROVE PlayerInv'
  BY <1>1, <1>2, UsesCounts, TransportStep DEF SetSpeed
<1>3. ASSUME NEW s \in Sounds, SetSound(s) PROVE PlayerInv'
  BY <1>1, <1>3, UsesCounts, TransportStep DEF SetSound
<1> QED
  BY <1>2, <1>3

LEMMA FrameStep == PlayerInv /\ Frame => PlayerInv'
<1> SUFFICES ASSUME PlayerInv, Frame PROVE PlayerInv'
  OBVIOUS
<1>1. /\ time \in Nat /\ playing \in BOOLEAN /\ speed \in Speeds /\ sound \in Sounds
      /\ ops' \in 0 .. MaxOps /\ time + speed \in Nat /\ 0 \in Nat
  BY PlayerTimes DEF Frame, PlayerInv, PlayerTypeOK
<1>2. CASE ~loaded
  <2>1. /\ loop' = FALSE /\ May("unload")
        /\ UNCHANGED <<there, loaded, place, hidden, hushed, proxied, time, playing, speed, sound,
                       failed, video, audio, lost, ops, mishaps>>
    BY <1>2 DEF Frame, project, store, elements, PlayerInv, MishapsOK
  <2>2. /\ Source' = Source /\ Position' = Position /\ Placed' = Placed
        /\ \A c \in Clips : /\ Audible(c)' = Audible(c) /\ Local(c)' = Local(c)
                             /\ Playable(c)' = Playable(c)
    BY <2>1 DEF Source, Position, OnScreen, Under, Local, Placed, Audible, Playable
  <2>3. PlayerTypeOK' /\ MishapsOK'
    BY <2>1, <2>2 DEF PlayerInv, PlayerTypeOK, MishapsOK, May
  <2>4. VideoInv' /\ AudioInv' /\ OnlyHeardClips'
    BY <2>1, <2>2 DEF PlayerInv, VideoInv, AudioInv, OnlyHeardClips, Undisturbed, May
  <2> QED
    BY <2>3, <2>4 DEF PlayerInv
<1>3. CASE loaded
  <2>1. \/ Transport(time, FALSE, speed, sound) \/ Transport(0, FALSE, speed, sound)
        \/ Transport(time + speed, playing, speed, sound)
    BY <1>3 DEF Frame
  <2> QED
    BY <1>1, <2>1, TransportStep
<1>4. loaded \in BOOLEAN
  BY DEF PlayerInv, PlayerTypeOK
<1> QED
  BY <1>2, <1>3, <1>4

LEMMA EditStep ==
    PlayerInv /\ ((\E c \in Clips, p \in Marks \cup {Nothing} : EditClip(c, p))
                    \/ (\E t \in Lanes : ToggleTrack(t))) => PlayerInv'
<1> SUFFICES ASSUME PlayerInv,
                    \/ \E c \in Clips, p \in Marks \cup {Nothing} : EditClip(c, p)
                    \/ \E t \in Lanes : ToggleTrack(t)
             PROVE  PlayerInv'
  OBVIOUS
<1>1. RestOK
  BY InvRest
<1>2. ASSUME NEW c \in Clips, NEW p \in Marks \cup {Nothing}, EditClip(c, p) PROVE PlayerInv'
  <2>1. /\ ops' \in 0 .. MaxOps /\ loaded /\ place' = [place EXCEPT ![c] = p] /\ Effects
        /\ UNCHANGED <<there, loaded, hidden, hushed, proxied, time, playing, speed, sound, mishaps>>
    BY <1>2, UsesCounts DEF EditClip, store, Effects
  <2>2. place' \in [Clips -> Nat \cup {Nothing}]
    BY <1>1, <2>1, PlayerTimes DEF RestOK
  <2>3. RestOK'
    BY <1>1, <2>1, <2>2 DEF RestOK, May
  <2> QED
    BY <2>1, <2>3, EffectsStep
<1>3. ASSUME NEW t \in Lanes, ToggleTrack(t) PROVE PlayerInv'
  <2>1. /\ ops' \in 0 .. MaxOps /\ loaded /\ Effects
        /\ hidden' \in {hidden, Toggled(t, hidden)} /\ hushed' \in {hushed, Toggled(t, hushed)}
        /\ UNCHANGED <<there, loaded, place, proxied, time, playing, speed, sound, mishaps>>
    BY <1>3, UsesCounts DEF ToggleTrack, store, Effects
  <2>2. hidden' \subseteq Lanes /\ hushed' \subseteq Lanes
    BY <1>1, <2>1 DEF RestOK, Toggled
  <2>3. RestOK'
    BY <1>1, <2>1, <2>2 DEF RestOK, May
  <2> QED
    BY <2>1, <2>3, EffectsStep
<1> QED
  BY <1>2, <1>3

LEMMA MediaStep ==
    PlayerInv /\ (LoadFails \/ \E a \in Assets : ProxyArrives(a)) => PlayerInv'
<1> SUFFICES ASSUME PlayerInv, LoadFails \/ \E a \in Assets : ProxyArrives(a)
             PROVE  PlayerInv'
  OBVIOUS
<1>1. RestOK
  BY InvRest
<1>2. ASSUME NEW a \in Assets, ProxyArrives(a) PROVE PlayerInv'
  <2>1. /\ May("late") /\ proxied' = proxied \cup {a} /\ Effects
        /\ UNCHANGED <<there, loaded, place, hidden, hushed, time, playing, speed, sound, ops, mishaps>>
    BY <1>2 DEF ProxyArrives, project, store, Effects
  <2>2. RestOK'
    BY <1>1, <2>1 DEF RestOK, Placed, May
  <2> QED
    BY <2>1, <2>2, EffectsStep
<1>3. CASE LoadFails
  <2>1. /\ May("net") /\ failed' = TRUE /\ video' = NoElement
        /\ UNCHANGED <<there, loaded, place, hidden, hushed, proxied, time, playing, speed, sound,
                       loop, audio, lost, ops, mishaps>>
    BY <1>3 DEF LoadFails, project, store
  <2>2. /\ Placed' = Placed
        /\ \A c \in Clips : /\ Audible(c)' = Audible(c) /\ Local(c)' = Local(c)
                             /\ Playable(c)' = Playable(c)
    BY <2>1 DEF Under, Local, Placed, Audible, Playable
  <2>3. NoElement \in Elements /\ NoElement.src = Nothing /\ NoElement.playing = FALSE
    BY DEF NoElement, Elements, Sounds
  <2>4. PlayerTypeOK' /\ MishapsOK'
    BY <2>1, <2>2, <2>3 DEF PlayerInv, PlayerTypeOK, MishapsOK, May
  <2>5. VideoInv'
    BY <2>1, <2>3 DEF VideoInv, NoElement
  <2>6. AudioInv' /\ OnlyHeardClips'
    BY <2>1, <2>2 DEF PlayerInv, AudioInv, OnlyHeardClips, May
  <2> QED
    BY <2>4, <2>5, <2>6 DEF PlayerInv
<1> QED
  BY <1>2, <1>3

LEMMA PageStep == PlayerInv /\ (Unload \/ Load \/ Leave \/ Return) => PlayerInv'
<1> SUFFICES ASSUME PlayerInv, Unload \/ Load \/ Leave \/ Return PROVE PlayerInv'
  OBVIOUS
<1>1. RestOK
  BY InvRest
<1>2. CASE Unload
  <2>1. /\ May("unload") /\ ops' \in 0 .. MaxOps /\ Effects
        /\ loaded' = FALSE /\ place' = [c \in Clips |-> Nothing] /\ hidden' = {} /\ hushed' = {}
        /\ UNCHANGED <<there, proxied, time, playing, speed, sound, mishaps>>
    BY <1>2, UsesCounts DEF Unload, store, Effects
  <2>2. Placed' = {}
    BY <2>1 DEF Placed
  <2>3. RestOK'
    BY <1>1, <2>1, <2>2 DEF RestOK, May
  <2> QED
    BY <2>1, <2>3, EffectsStep
<1>3. CASE Load
  <2>1. /\ Effects /\ loaded' = TRUE /\ place' = Place0
        /\ UNCHANGED <<there, hidden, hushed, proxied, time, playing, speed, sound, ops, mishaps>>
    BY <1>3 DEF Load, store, Effects
  <2>2. place' \in [Clips -> Nat \cup {Nothing}]
    BY <2>1, PlayerTimes
  <2>3. RestOK'
    BY <1>1, <2>1, <2>2 DEF RestOK, May
  <2> QED
    BY <2>1, <2>3, EffectsStep
<1>4. CASE Leave
  <2>1. /\ Effects /\ there' = FALSE /\ ops' \in 0 .. MaxOps
        /\ UNCHANGED <<loaded, place, hidden, hushed, proxied, time, playing, speed, sound, mishaps>>
    BY <1>4, UsesCounts DEF Leave, project, store, Effects
  <2>2. RestOK'
    BY <1>1, <2>1 DEF RestOK, Placed, May
  <2> QED
    BY <2>1, <2>2, EffectsStep
<1>5. CASE Return
  <2>1. /\ Effects /\ there' = TRUE /\ time' = FromStart(playing, time)
        /\ UNCHANGED <<loaded, place, hidden, hushed, proxied, playing, speed, sound, ops, mishaps>>
    BY <1>5 DEF Return, project, Effects
  <2>2. time' \in Nat
    BY <1>1, <2>1, FromStartIsTime DEF RestOK
  <2>3. RestOK'
    BY <1>1, <2>1, <2>2 DEF RestOK, Placed, May
  <2> QED
    BY <2>1, <2>3, EffectsStep
<1> QED
  BY <1>2, <1>3, <1>4, <1>5

LEMMA PlayerStep == PlayerInv /\ [PlayerNext]_vars => PlayerInv'
<1> SUFFICES ASSUME PlayerInv, [PlayerNext]_vars PROVE PlayerInv'
  OBVIOUS
<1>1. CASE PlayerNext
  BY <1>1, TogglePlayStep, FrameStep, SeekStep, SetStep, EditStep, MediaStep, PageStep DEF PlayerNext
<1>2. CASE UNCHANGED vars
  <2>1. UNCHANGED <<there, loaded, place, hidden, hushed, proxied, time, playing, speed, sound,
                    loop, failed, video, audio, lost, ops, mishaps>>
    BY <1>2 DEF vars, project, store, elements
  <2>2. /\ Source' = Source /\ Position' = Position /\ Placed' = Placed
        /\ \A c \in Clips : /\ Audible(c)' = Audible(c) /\ Local(c)' = Local(c)
                             /\ Playable(c)' = Playable(c)
    BY <2>1 DEF Source, Position, OnScreen, Under, Local, Placed, Audible, Playable
  <2>3. PlayerTypeOK' /\ MishapsOK'
    BY <2>1, <2>2 DEF PlayerInv, PlayerTypeOK, MishapsOK, May
  <2>4. VideoInv' /\ AudioInv' /\ OnlyHeardClips'
    BY <2>1, <2>2 DEF PlayerInv, VideoInv, AudioInv, OnlyHeardClips, Undisturbed, May
  <2> QED
    BY <2>3, <2>4 DEF PlayerInv
<1> QED
  BY <1>1, <1>2

LEMMA PlayerStart == PlayerInit => PlayerInv
<1> SUFFICES ASSUME PlayerInit PROVE PlayerInv
  OBVIOUS
<1>1. /\ there = TRUE /\ loaded = TRUE /\ place = Place0 /\ hidden = {} /\ hushed = {}
      /\ mishaps \in MishapSets /\ proxied = (IF May("late") THEN {} ELSE Assets)
      /\ time = 0 /\ playing = FALSE /\ speed = 1 /\ sound = <<"half", FALSE>>
      /\ loop = FALSE /\ failed = FALSE /\ lost = {} /\ ops = 0
      /\ video = (IF Source = Nothing THEN NoElement ELSE [Fresh(Source) EXCEPT !.at = Position])
      /\ audio = [c \in Clips |-> IF Playable(c) THEN [Fresh(AssetOf[c]) EXCEPT !.sound = sound]
                                 ELSE NoElement]
  BY DEF PlayerInit
<1>2. place \in [Clips -> Nat \cup {Nothing}] /\ 1 \in Speeds /\ MaxOps \in Nat
  BY <1>1, PlayerTimes
<1>3. Source \in Assets \cup {Nothing} /\ Position \in Nat
  BY <1>1, <1>2, SourceIsAsset, PositionIsNat
<1>4. sound \in Sounds /\ NoElement.sound \in Sounds /\ NoElement \in Elements
  BY <1>1 DEF Sounds, NoElement, Elements
<1>5. /\ video.src = Source /\ video.playing = FALSE /\ video.sound = NoElement.sound
      /\ video.src # Nothing => video.at = Position
      /\ video \in Elements
  <2>1. CASE Source = Nothing
    BY <1>1, <1>4, <2>1 DEF NoElement
  <2>2. CASE Source # Nothing
    <3>1. video = [src |-> Source, at |-> Position, playing |-> FALSE, sound |-> NoElement.sound]
      BY <1>1, <2>2 DEF Fresh, NoElement
    <3> QED
      BY <3>1, <1>3, <1>4 DEF Elements
  <2> QED
    BY <2>1, <2>2
<1>6. ASSUME NEW c \in Clips
      PROVE  audio[c] \in Elements /\ audio[c].playing = FALSE
  <2>1. CASE Playable(c)
    <3>1. audio[c] = [src |-> AssetOf[c], at |-> 0, playing |-> FALSE, sound |-> sound]
      BY <1>1, <2>1 DEF Fresh, NoElement
    <3> QED
      BY <3>1, <1>4 DEF Elements, Assets
  <2>2. CASE ~Playable(c)
    BY <1>1, <1>4, <2>2 DEF NoElement
  <2> QED
    BY <2>1, <2>2
<1>7. audio \in [Clips -> Elements]
  BY <1>1, <1>6
<1>8. proxied \subseteq Assets /\ (May("late") \/ proxied = Assets)
  BY <1>1
<1>9. PlayerTypeOK
  <2>1. ops \in 0 .. MaxOps /\ lost \subseteq Clips /\ time \in Nat
    BY <1>1, <1>2
  <2>2. /\ there \in BOOLEAN /\ loaded \in BOOLEAN /\ playing \in BOOLEAN /\ speed \in Speeds
        /\ loop \in BOOLEAN /\ failed \in BOOLEAN /\ ~loop /\ ~playing /\ loaded
        /\ hidden \subseteq Lanes /\ hushed \subseteq Lanes /\ mishaps \in MishapSets
    BY <1>1, <1>2
  <2> QED
    BY <1>2, <1>4, <1>5, <1>7, <1>8, <2>1, <2>2 DEF PlayerTypeOK
<1>10. MishapsOK
  BY <1>1, <1>8 DEF MishapsOK
<1>11. VideoInv
  BY <1>1, <1>5 DEF VideoInv
<1>12. AudioInv /\ OnlyHeardClips
  BY <1>1, <1>6 DEF AudioInv, OnlyHeardClips, Audible
<1> QED
  BY <1>9, <1>10, <1>11, <1>12 DEF PlayerInv

\* The picture is that of the topmost clip, and that is what PictureFollows says.
LEMMA InvPicture == PlayerInv => PictureFollows
<1> SUFFICES ASSUME PlayerInv PROVE PictureFollows
  OBVIOUS
<1>1. VideoInv /\ (May("net") \/ ~failed) /\ there \in BOOLEAN
  BY DEF PlayerInv, PlayerTypeOK, MishapsOK
<1>2. ASSUME OnScreen # Nothing
      PROVE  there /\ OnScreen \in Clips /\ Visible(OnScreen)
  <2>1. there /\ Lit # {} /\ OnScreen \in Lit /\ \A d \in Lit : ~Above(d, OnScreen)
    BY <1>1, <1>2, ScreenShows
  <2>2. ASSUME NEW d \in Clips, Under(d), Covers(d, OnScreen)
        PROVE  FALSE
    <3>1. PICK j, k \in 1 .. Len(VideoTracks) :
             /\ j < k /\ TrackOf[OnScreen] = VideoTracks[j] /\ TrackOf[d] = VideoTracks[k]
             /\ VideoTracks[k] \notin hidden
      BY <2>2 DEF Covers
    <3>2. DOMAIN VideoTracks = 1 .. Len(VideoTracks)
      BY PlayerOrders
    <3>3. d \in Lit
      BY <2>2, <3>1, <3>2 DEF Lit, ToSet
    <3>4. Above(d, OnScreen)
      BY <3>1 DEF Above
    <3> QED
      BY <2>1, <3>3, <3>4
  <2> QED
    BY <2>1, <2>2 DEF Visible, Lit
<1>3. ASSUME video.src # Nothing
      PROVE  \E c \in Clips : /\ there /\ Visible(c) /\ video.src = AssetOf[c]
                              /\ (video.playing => playing)
                              /\ video.sound \in {sound, NoElement.sound}
                              /\ mishaps \cap {"net", "late"} = {}
                                   => (video.playing = playing /\ video.at = Local(c))
  <2>1. video.src = Source /\ Source # Nothing
    BY <1>1, <1>3 DEF VideoInv
  <2>2. OnScreen # Nothing /\ Source = AssetOf[OnScreen]
    BY <2>1 DEF Source
  <2>3. Position = Local(OnScreen)
    BY <2>2 DEF Position
  <2>4. there /\ OnScreen \in Clips /\ Visible(OnScreen)
    BY <1>2, <2>2
  <2>5. /\ video.playing => playing
        /\ video.sound \in {sound, NoElement.sound}
        /\ mishaps \cap {"net", "late"} = {} => video.playing = playing /\ video.at = Position
    BY <1>1, <1>3 DEF VideoInv, Undisturbed
  <2> QED
    BY <2>1, <2>2, <2>3, <2>4, <2>5
<1>4. ASSUME video.src = Nothing, there, ~failed, NEW c \in Clips, Visible(c)
      PROVE  \/ AssetOf[c] \notin proxied
             \/ \E d \in Clips : d # c /\ Visible(d) /\ AssetOf[d] \notin proxied
  <2>1. Lit # {}
    BY <1>4 DEF Lit, Visible
  <2>2. OnScreen \in Lit /\ OnScreen # Nothing
    BY <1>4, <2>1, ScreenShows, PlayerNames DEF Lit
  <2>3. AssetOf[OnScreen] \notin proxied
    BY <1>1, <1>4, <2>2, PlayerNames DEF VideoInv, Source, Lit, Assets
  <2>4. OnScreen \in Clips /\ Visible(OnScreen)
    BY <1>2, <2>2
  <2> QED
    BY <2>3, <2>4
<1> QED
  BY <1>3, <1>4 DEF PictureFollows

-----------------------------------------------------------------------------
(* The theorems.                                                             *)

LEMMA PlayerInvariant == PlayerSpec => []PlayerInv
BY PlayerStart, PlayerStep, PTL DEF PlayerSpec

\* For any clips and tracks, however they are edited: what is seen is the topmost clip under
\* the playhead that is shown, in step with the playback (VideoPlayer.tsx), and the types.
THEOREM PlayerCorrect == PlayerSpec => []PlayerOK
<1>1. PlayerInv => PlayerOK
  BY InvPicture DEF PlayerInv, PlayerOK
<1> QED
  BY <1>1, PlayerInvariant, PTL

\* What is heard are the clips under the playhead, each at its place and as loud as the volume
\* says, and no element goes on playing once the mixer has given it up (useAudioMixer.ts).
THEOREM PlayerHeard == PlayerSpec => []OnlyHeardClips
<1>1. PlayerInv => OnlyHeardClips
  BY DEF PlayerInv
<1> QED
  BY <1>1, PlayerInvariant, PTL
=============================================================================
