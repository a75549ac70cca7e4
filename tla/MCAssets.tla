------------------------------ MODULE MCAssets ------------------------------
(* Constants of Assets for model checking: a silent video and an image.      *)
EXTENDS Assets

CONSTANTS video, image, w1, w2, k1, k2

MCRecipe == (video :> <<"proxy", "thumbnail">>) @@ (image :> <<"thumbnail">>)
MCRank == (video :> 1) @@ (image :> 2)
MCFaultSets == { {}, {"switch", "fail", "enqueue"}, {"delete", "edit", "net"},
                 {"net", "crash"}, {"delete", "switch"}, {"overtake", "switch"},
                 {"error", "switch"}, {"ready", "fail"},
                 {"full"}, {"full", "switch"}, {"full", "delete"} }
=============================================================================
