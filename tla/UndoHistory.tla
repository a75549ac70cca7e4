---------------------------- MODULE UndoHistory ----------------------------
(***************************************************************************)
(* What undo and redo promise: the states of the document form a history   *)
(* with a position in it.  Undo and redo only walk along it and lose       *)
(* nothing; a new edit drops what could have been redone, and the oldest   *)
(* state once the history is full.  The state at the position may be       *)
(* amended (by a drag, by an answer of the server) without a new entry.    *)
(***************************************************************************)
EXTENDS Naturals, Sequences

CONSTANT MaxUndo    \* the number of states that can be undone to

VARIABLES hist, at

histVars == <<hist, at>>

Reset == Len(hist') = 1 /\ at' = 1

Begin == Len(hist) = 1 /\ at = 1

Edit ==
    LET dropped == IF at > MaxUndo THEN 1 ELSE 0
    IN  /\ at' = at + 1 - dropped
        /\ Len(hist') = at'
        /\ \A i \in 1 .. at' - 1 : hist'[i] = hist[i + dropped]

Amend ==
    /\ at' = at
    /\ Len(hist') = Len(hist)
    /\ \A i \in 1 .. Len(hist) : i # at => hist'[i] = hist[i]

Undo == at > 1 /\ at' = at - 1 /\ hist' = hist

Redo == at < Len(hist) /\ at' = at + 1 /\ hist' = hist

Walk == Reset \/ Edit \/ Amend \/ Undo \/ Redo

UndoHistorySpec == Begin /\ [][Walk]_histVars
=============================================================================
