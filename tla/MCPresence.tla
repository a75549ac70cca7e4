----------------------------- MODULE MCPresence -----------------------------
(* Constants of Presence for model checking: ann with two tabs, bob with one, *)
(* and another tab of this user.                                              *)
EXTENDS Presence

CONSTANTS t1, t2, t3, t4, me, ann, bob, p1, p2

MCUserOf == t1 :> ann @@ t2 :> ann @@ t3 :> me @@ t4 :> bob
MCTopicSets ==
    { {"people", "switch"}, {"people", "drop"}, {"people", "pointer"}, {"pointer", "switch"},
      {"people", "seek"}, {"seek", "drop"}, {"edit", "drop"}, {"edit", "switch"}, {"edit", "outage"},
      {"people", "token", "drop"}, {"people", "token", "switch"},
      {"pointer", "loss", "people"}, {"seek", "loss"} }
=============================================================================
