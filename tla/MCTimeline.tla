----------------------------- MODULE MCTimeline -----------------------------
(* Constants of Timeline for model checking: one unit is 400 ms.            *)
EXTENDS Timeline

CONSTANTS c1, c2, t1, t2, a1

MCInitialClips ==
    c1 :> [id |-> c1, track |-> t1, pos |-> 0, dur |-> 3, trimIn |-> 0, version |-> 0]
MCInitialAssetOf == [c \in ClipIds |-> IF c = c1 THEN a1 ELSE None]

Ask(op, clip, track, pos, dur, at) ==
    [op |-> op, clip |-> clip, track |-> track, pos |-> pos, dur |-> dur, trimIn |-> None, at |-> at,
     asset |-> IF op \in {"add_clip", "delete_asset"} THEN a1 ELSE None]

MCCalls ==
    { Ask("add_clip", None, t1, 0, 1, None),
      Ask("update_clip", c1, t2, 1, None, None),
      Ask("update_clip", c1, None, -1, 2, None),
      [Ask("update_clip", c1, None, None, 0, None) EXCEPT !.trimIn = 1],
      Ask("delete_clip", c1, None, None, None, None),
      Ask("split_clip", c1, None, None, None, 1),
      Ask("split_clip", c1, None, None, None, 3),
      Ask("split_clip", c2, None, None, None, 1),
      Ask("create_track", None, None, None, None, None),
      Ask("delete_track", None, t1, None, None, None),
      Ask("delete_asset", None, None, None, None, None) }

MCFaultSets == {{"nolog"}, {"overlap", "lost"}, {"overlap", "abort"}, {"reload"}}
Symmetry == Permutations(Requests)
=============================================================================
