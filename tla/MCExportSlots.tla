--------------------------- MODULE MCExportSlots ---------------------------
(* A small instance of ExportSlots for TLC: every combination of faults. *)
EXTENDS ExportSlots

AllFaultSets == SUBSET FaultKinds

=============================================================================
