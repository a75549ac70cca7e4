---------------------------- MODULE MCWorkbench ----------------------------
(* Constants of Workbench for model checking: two clips that are one unit     *)
(* apart on a video track, another video track and a sound track.             *)
EXTENDS Workbench

CONSTANTS c1, c2, n1, n2, s1, s2, V1, V2, A1

MCPlaces == {-1, 1, 3}
MCServerIdOf == n1 :> s1 @@ n2 :> s2
MCKindOf == V1 :> "video" @@ V2 :> "video" @@ A1 :> "audio"
MCClips0 == c1 :> [pos |-> 1, dur |-> 4, track |-> V1] @@ c2 :> [pos |-> 6, dur |-> 2, track |-> V1]
\* Read again: before somebody's deletion, with what was added here, and another project.
MCReadings ==
    { [clips |-> MCClips0, tracks |-> {V1, A1}],
      [clips |-> c1 :> MCClips0[c1] @@ s1 :> [pos |-> 3, dur |-> 2, track |-> V2], tracks |-> {V1, V2}],
      [clips |-> <<>>, tracks |-> {}] }
MCTopicSets ==
    { {"drag", "remote"}, {"drag", "undo"}, {"drag", "delete", "select"}, {"drag", "seek"}, {"drag", "track"},
      {"trim", "undo"}, {"trim", "remote"}, {"paste", "select", "seek"}, {"paste", "drop", "answer"},
      {"split", "select", "undo"}, {"effect", "drop", "answer"}, {"effect", "drag", "undo"},
      {"drop", "undo", "jump"}, {"drag", "role"}, {"track", "drop", "paste"}, {"effect", "delete", "remote", "drag"},
      {"drag", "load", "undo"}, {"drag", "track", "undo"}, {"drop", "load", "answer"}, {"effect", "load", "trim"} }
=============================================================================
