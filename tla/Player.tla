------------------------------- MODULE Player -------------------------------
(***************************************************************************)
(* Playback in one tab: playbackStore.ts, the loop of usePlaybackTicker.ts,*)
(* the <video> element of VideoPlayer.tsx and the hidden <audio> elements  *)
(* of useAudioMixer.ts, over clips and tracks that are edited meanwhile.   *)
(*                                                                         *)
(* The elements are not drawn from the state: effects bring them in line,  *)
(* and an effect runs only when something it names has changed.  A render  *)
(* with its effects is one step with the change that caused it.  One unit  *)
(* of time is one frame, and more than the drift of 250 ms that is let be. *)
(***************************************************************************)
EXTENDS Integers, Sequences, FiniteSets, FiniteSetsExt, SequencesExt

CONSTANTS
    ClipOrder,   \* the clips, in the order of projectStore.clips
    VideoTracks, \* the video tracks, the lowest first
    AudioTracks,
    TrackOf,     \* clip -> track
    AssetOf,     \* clip -> asset
    Dur, InPoint,\* clip -> duration, first instant of the asset that is shown
    Place0,      \* clip -> where it is at first
    Speeds,
    Marks,       \* where the user seeks to and puts clips
    MaxOps,      \* bound on what the user does
    MishapSets,  \* the sets of mishaps that may come together
    Nothing

(***************************************************************************)
(* "late"   a proxy is made while the editor is open                       *)
(* "net"    a <video> element fails to load                                *)
(* "unload" the last project is archived: no project is shown for a while  *)
(* "leave"  the user signs out and in: the editor is taken down and back   *)
(***************************************************************************)
Mishaps == {"late", "net", "unload", "leave"}
Clips == ToSet(ClipOrder)
Lanes == ToSet(VideoTracks) \cup AudioTracks
Assets == {AssetOf[c] : c \in Clips}
Sounds == {"full", "half"} \X BOOLEAN  \* volume, isMuted

ASSUME PlayerNames == Nothing \notin Clips \cup Assets
ASSUME PlayerOrders ==
    /\ ClipOrder \in Seq(Clips) /\ IsInjective(ClipOrder)
    /\ VideoTracks \in Seq(Lanes) /\ IsInjective(VideoTracks)
ASSUME PlayerTimes ==
    /\ Dur \in [Clips -> Nat \ {0}] /\ InPoint \in [Clips -> Nat]
    /\ Place0 \in [Clips -> Nat] /\ Marks \subseteq Nat /\ MaxOps \in Nat
    /\ Speeds \subseteq Nat \ {0} /\ 1 \in Speeds
ASSUME PlayerMishapsKnown == MishapSets \subseteq SUBSET Mishaps

VARIABLES
    there,    \* the editor is on the screen
    loaded,   \* projectStore.project is not null
    place,    \* clip -> posMs, Nothing while it is deleted
    hidden,   \* the tracks whose eye is closed
    hushed,   \* the tracks that are muted
    proxied,  \* the assets with a proxyUrl
    time, playing, speed, sound,  \* playbackStore
    loop,     \* a frame is requested
    failed,   \* VideoPlayer: videoError
    video,    \* the <video> element
    audio,    \* clip -> its <audio> element
    lost,     \* clips whose element was given up while it played
    ops,      \* how much the user did
    mishaps   \* what may go wrong in this behaviour; it never changes

project == <<loaded, place, hidden, hushed>>
store == <<time, playing, speed, sound>>
elements == <<failed, video, audio, lost>>
vars == <<there, project, proxied, store, loop, elements, ops, mishaps>>

May(f) == f \in mishaps
NoElement == [src |-> Nothing, at |-> 0, playing |-> FALSE, sound |-> <<"full", FALSE>>]
Fresh(a) == [NoElement EXCEPT !.src = a]
Elements == [src : Assets \cup {Nothing}, at : Nat, playing : BOOLEAN, sound : Sounds]

\* selectTotalDurationMs, 0 without clips.
Placed == {c \in Clips : place[c] # Nothing}
Duration == Max({0} \cup {place[c] + Dur[c] : c \in Placed})
Under(c) == place[c] # Nothing /\ place[c] <= time /\ time < place[c] + Dur[c]

\* clipAtTime: the first clip under the playhead of the highest track that is not hidden.
Above(d, c) ==
    \/ \E j, k \in 1 .. Len(VideoTracks) :
         j < k /\ VideoTracks[j] = TrackOf[c] /\ VideoTracks[k] = TrackOf[d]
    \/ \E j, k \in 1 .. Len(ClipOrder) :
         j < k /\ ClipOrder[j] = d /\ ClipOrder[k] = c /\ TrackOf[c] = TrackOf[d]
OnScreen ==
    LET lit == {c \in Clips : TrackOf[c] \in ToSet(VideoTracks) \ hidden /\ Under(c)}
    IN  IF ~there \/ lit = {} THEN Nothing
        ELSE CHOOSE c \in lit : \A d \in lit : ~Above(d, c)

Source ==
    IF OnScreen # Nothing /\ AssetOf[OnScreen] \in proxied THEN AssetOf[OnScreen] ELSE Nothing

\* Timeline time to source time; where the clip on the screen is, and how far into it.
Local(c) == time - place[c] + InPoint[c]
Spot == IF OnScreen = Nothing THEN Nothing ELSE place[OnScreen]
Position == IF OnScreen = Nothing THEN 0 ELSE Local(OnScreen)

PlayerTypeOK ==
    /\ there \in BOOLEAN /\ loaded \in BOOLEAN /\ place \in [Clips -> Nat \cup {Nothing}]
    /\ hidden \subseteq Lanes /\ hushed \subseteq Lanes /\ proxied \subseteq Assets
    /\ time \in Nat /\ playing \in BOOLEAN /\ speed \in Speeds /\ sound \in Sounds
    /\ loop \in BOOLEAN /\ failed \in BOOLEAN /\ video \in Elements
    /\ audio \in [Clips -> Elements] /\ lost \subseteq Clips
    /\ ops \in 0 .. MaxOps /\ mishaps \in MishapSets
    /\ loop => playing /\ there
    /\ playing /\ there /\ ~loop => May("unload")
    /\ ~loaded => Placed = {}
-----------------------------------------------------------------------------
(* The effects.                                                              *)

Mounts == there' /\ ~there

\* Mutation of Replays: the play effect does not name the source.
ReplaysToggled == Mounts \/ playing' # playing

\* What the effects of VideoPlayer depend on.
Replays == Mounts \/ Source' # Source \/ playing' # playing
Seeks == <<time, OnScreen, Spot>>' # <<time, OnScreen, Spot>>
Resounds == Mounts \/ sound' # sound

\* The <video> element: a new source stops it at its beginning, then the effects run.
\* After a failure it comes back one render later, when no effect has a reason to run.
VideoEffects ==
    LET flips == Source' # Source
        el == IF Source' = Nothing \/ failed THEN NoElement
              ELSE IF video.src = Source' THEN video
              ELSE [video EXCEPT !.src = Source', !.at = 0, !.playing = FALSE]
        If(runs, new, old) == IF el.src # Nothing /\ runs THEN new ELSE old
    IN  /\ failed' = (failed /\ ~flips)
        /\ video' = IF failed /\ flips /\ Source' # Nothing THEN Fresh(Source')
                    ELSE [src |-> el.src,
                          at |-> If(Seeks, Position', el.at),
                          playing |-> If(Replays, playing', el.playing),
                          sound |-> If(Resounds, sound', el.sound)]

\* sync: an element is made once there is a proxy; only the clips under the playhead
\* of a track that is not muted play, and only they are put where they should be.
Playable(c) == there /\ TrackOf[c] \in AudioTracks /\ place[c] # Nothing /\ AssetOf[c] \in proxied
Audible(c) == playing /\ Under(c) /\ TrackOf[c] \notin hushed
Synced(c, el) ==
    IF el.src = Nothing /\ ~Playable(c)' THEN NoElement
    ELSE [src |-> AssetOf[c], at |-> IF Audible(c)' THEN Local(c)' ELSE el.at,
          playing |-> Audible(c)', sound |-> sound']

\* Mutation of GiveUp: an element that is given up is not paused.
GiveUpPlaying(el) == el

GiveUp(el) == [el EXCEPT !.playing = FALSE]

\* The elements are made anew for other clips or tracks; a change of playbackStore
\* brings those there are in line; a proxy that is made changes nothing yet.
AudioEffects ==
    IF <<there, place, hidden, hushed>>' # <<there, place, hidden, hushed>>
    THEN /\ audio' = [c \in Clips |-> Synced(c, NoElement)]
         /\ lost' = lost \cup {c \in Clips : GiveUp(audio[c]).playing}
    ELSE /\ audio' = IF store' # store THEN [c \in Clips |-> Synced(c, audio[c])] ELSE audio
         /\ UNCHANGED lost

\* The loop of frames is started when playing begins or the editor comes back.
LoopEffect == loop' = (there' /\ playing' /\ (loop \/ Mounts \/ ~playing))
Effects == VideoEffects /\ AudioEffects /\ LoopEffect /\ UNCHANGED mishaps
-----------------------------------------------------------------------------
(* The transport.                                                            *)

Uses == there /\ ops < MaxOps /\ ops' = ops + 1
Transport(t, p, v, s) ==
    /\ time' = t /\ playing' = p /\ speed' = v /\ sound' = s
    /\ UNCHANGED <<there, project, proxied>> /\ Effects

\* To play from behind the end is to play from the start.
FromStart(p, t) == IF p /\ 0 < Duration /\ Duration <= t THEN 0 ELSE t

TogglePlay == Uses /\ Transport(FromStart(~playing, time), ~playing, speed, sound)

\* seek: the ruler, the playhead, the keys and the buttons go anywhere but before 0.
Seek(t) == Uses /\ t # time /\ Transport(Max({0, t}), playing, speed, sound)
SetSpeed(v) == Uses /\ v # speed /\ Transport(time, playing, v, sound)
SetSound(s) == Uses /\ s # sound /\ Transport(time, playing, speed, s)

\* Mutation of Frame: the end of the clips does not stop the playback.
FrameOn ==
    /\ loop
    /\ IF ~loaded
       THEN loop' = FALSE /\ UNCHANGED <<there, project, proxied, store, elements, mishaps>>
       ELSE IF Duration = 0 THEN Transport(time, FALSE, speed, sound)
       ELSE IF Duration <= time + speed THEN Transport(0, playing, speed, sound)
       ELSE Transport(time + speed, playing, speed, sound)
    /\ UNCHANGED ops

\* tick: without a project the loop just ends, and isPlaying stays.
Frame ==
    /\ loop
    /\ IF ~loaded
       THEN loop' = FALSE /\ UNCHANGED <<there, project, proxied, store, elements, mishaps>>
       ELSE IF Duration = 0 THEN Transport(time, FALSE, speed, sound)
       ELSE IF Duration <= time + speed THEN Transport(0, FALSE, speed, sound)
       ELSE Transport(time + speed, playing, speed, sound)
    /\ UNCHANGED ops
-----------------------------------------------------------------------------
(* The project and the page.                                                 *)

\* A clip is moved, deleted or put back, by this user or another.
EditClip(c, p) ==
    /\ Uses /\ loaded /\ p # place[c]
    /\ place' = [place EXCEPT ![c] = p]
    /\ UNCHANGED <<there, loaded, hidden, hushed, proxied, store>> /\ Effects

Toggled(t, S) == (S \ {t}) \cup ({t} \ S)
ToggleTrack(t) ==
    /\ Uses /\ loaded
    /\ \/ hidden' = Toggled(t, hidden) /\ UNCHANGED hushed
       \/ hushed' = Toggled(t, hushed) /\ UNCHANGED hidden
    /\ UNCHANGED <<there, loaded, place, proxied, store>> /\ Effects

\* useAssetsHydration brings the proxy of an asset that is ready.
ProxyArrives(a) ==
    /\ May("late") /\ a \notin proxied /\ proxied' = proxied \cup {a}
    /\ UNCHANGED <<there, project, store, ops>> /\ Effects

LoadFails ==
    /\ May("net") /\ video.src # Nothing
    /\ failed' = TRUE /\ video' = NoElement
    /\ UNCHANGED <<there, project, proxied, store, loop, audio, lost, ops, mishaps>>

Unload ==
    /\ May("unload") /\ Uses /\ loaded
    /\ loaded' = FALSE /\ place' = [c \in Clips |-> Nothing] /\ hidden' = {} /\ hushed' = {}
    /\ UNCHANGED <<there, proxied, store>> /\ Effects

Load ==
    /\ ~loaded
    /\ loaded' = TRUE /\ place' = Place0
    /\ UNCHANGED <<there, hidden, hushed, proxied, store, ops>> /\ Effects

Leave ==
    /\ May("leave") /\ Uses
    /\ there' = FALSE
    /\ UNCHANGED <<project, proxied, store>> /\ Effects

Return ==
    /\ ~there /\ there' = TRUE /\ time' = FromStart(playing, time)
    /\ UNCHANGED <<project, proxied, playing, speed, sound, ops>> /\ Effects

PlayerInit ==
    /\ there = TRUE /\ loaded = TRUE /\ place = Place0 /\ hidden = {} /\ hushed = {}
    /\ mishaps \in MishapSets /\ proxied = IF May("late") THEN {} ELSE Assets
    /\ time = 0 /\ playing = FALSE /\ speed = 1 /\ sound = <<"half", FALSE>>
    /\ loop = FALSE /\ failed = FALSE
    /\ video = IF Source = Nothing THEN NoElement ELSE [Fresh(Source) EXCEPT !.at = Position]
    /\ audio = [c \in Clips |-> IF Playable(c) THEN [Fresh(AssetOf[c]) EXCEPT !.sound = sound]
                                 ELSE NoElement]
    /\ lost = {} /\ ops = 0

PlayerNext ==
    \/ TogglePlay \/ Frame \/ LoadFails \/ Unload \/ Load \/ Leave \/ Return
    \/ \E t \in Marks : Seek(t)
    \/ \E v \in Speeds : SetSpeed(v)
    \/ \E s \in Sounds : SetSound(s)
    \/ \E c \in Clips, p \in Marks \cup {Nothing} : EditClip(c, p)
    \/ \E t \in Lanes : ToggleTrack(t)
    \/ \E a \in Assets : ProxyArrives(a)

PlayerSpec == PlayerInit /\ [][PlayerNext]_vars /\ WF_vars(Frame)
-----------------------------------------------------------------------------
(* Properties.                                                               *)

\* What is seen is a clip under the playhead that no higher track that is shown covers,
\* from its own asset; it never runs while the playback stands, and sounds as it was
\* last told to, or as a new element does if it was not told yet.  Unless a load failed
\* or a proxy came late it also runs while the playback does, and is where it should be.
Covers(d, c) ==
    \E j, k \in 1 .. Len(VideoTracks) :
        j < k /\ TrackOf[c] = VideoTracks[j] /\ TrackOf[d] = VideoTracks[k] /\ VideoTracks[k] \notin hidden
Visible(c) ==
    /\ Under(c) /\ TrackOf[c] \in ToSet(VideoTracks) \ hidden
    /\ \A d \in Clips : Under(d) => ~Covers(d, c)
PictureFollows ==
    /\ video.src # Nothing =>
         \E c \in Clips : /\ there /\ Visible(c) /\ video.src = AssetOf[c]
                          /\ (video.playing => playing)
                          /\ video.sound \in {sound, NoElement.sound}
                          /\ mishaps \cap {"net", "late"} = {}
                               => (video.playing = playing /\ video.at = Local(c))
    /\ video.src = Nothing /\ there /\ ~failed =>
         \A c \in Clips : Visible(c) =>
            \/ AssetOf[c] \notin proxied
            \/ \E d \in Clips : d # c /\ Visible(d) /\ AssetOf[d] \notin proxied

\* Types, and the picture.
PlayerOK == PlayerTypeOK /\ PictureFollows

\* What is heard are the clips of the audio tracks that are under the playhead and not
\* muted, while it plays, each at its place and as loud as the volume says, and nothing
\* of what was moved, deleted or left behind.
OnlyHeardClips ==
    /\ lost = {}
    /\ \A c \in Clips :
         /\ audio[c].playing
              => (there /\ Audible(c) /\ audio[c].at = Local(c) /\ audio[c].sound = sound)
         /\ Playable(c) /\ Audible(c) => audio[c].playing \/ May("late")

\* Playback comes to an end if nobody goes on using it: the end of the clips stops it.
PlaybackEnds == (playing /\ ~May("unload")) ~> (~playing \/ ~there)
=============================================================================
