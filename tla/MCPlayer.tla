------------------------------ MODULE MCPlayer ------------------------------
(* Constants of Player for model checking: two video tracks, the upper clip   *)
(* over the end of the lower one, and one clip of sound.                      *)
EXTENDS Player, TLC

CONSTANTS c1, c2, a1, V1, V2, A1, m1, m2, s1

MCClipOrder == <<c1, c2, a1>>
MCVideoTracks == <<V1, V2>>
MCTrackOf == c1 :> V1 @@ c2 :> V2 @@ a1 :> A1
MCAssetOf == c1 :> m1 @@ c2 :> m2 @@ a1 :> s1
MCDur == c1 :> 3 @@ c2 :> 2 @@ a1 :> 3
MCInPoint == c1 :> 1 @@ c2 :> 0 @@ a1 :> 0
MCPlace0 == c1 :> 0 @@ c2 :> 2 @@ a1 :> 1
MCMishapSets == { {}, {"late"}, {"net"}, {"unload"}, {"leave"} }
=============================================================================
