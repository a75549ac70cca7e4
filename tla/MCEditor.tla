------------------------------ MODULE MCEditor ------------------------------
(* Constants of Editor for model checking: one unit is 400 ms.               *)
EXTENDS Editor

CONSTANTS c1, c2, c3, tmp1, tmp2

MCInitialClips == {[id |-> c1, pos |-> 0, dur |-> 3, inPoint |-> 0]}

MCFaultSets ==
    { {"haste"}, {"refused", "remote", "reload"}, {"haste", "refused", "undo", "tmp"},
      {"overtake", "clash", "dropped", "lost", "haste"} }
OnlyUndo == {{"undo"}}
Symmetry == Permutations({tmp1, tmp2}) \cup Permutations({c2, c3})
=============================================================================
