---------------------------- MODULE MCNavigator ----------------------------
(* Constants of Navigator and Members for model checking: alice, who uses     *)
(* this tab, is an admin of w1, which carol owns and dave edits, and may look *)
(* at w2, which bob owns; w3 and p4 may be made.                              *)
EXTENDS Members, TLC

CONSTANTS alice, bob, carol, dave, w1, w2, w3, p1, p2, p3, p4

MCMade == <<w1, w2>>
MCMembers == (w1 :> (alice :> "admin" @@ bob :> None @@ carol :> "owner" @@ dave :> "editor"))
          @@ (w2 :> (alice :> "viewer" @@ bob :> "owner" @@ carol :> None @@ dave :> None))
          @@ (w3 :> [u \in Users |-> None])
MCHome == (p1 :> w1) @@ (p2 :> w1) @@ (p3 :> w2) @@ (p4 :> None)
MCRecent == <<p1, p2, p3>>
MCFaultSets == { {}, {"net"}, {"overlap"}, {"users"}, {"panel", "net"},
                 {"panel", "overlap"}, {"panel", "rivals"} }
=============================================================================
