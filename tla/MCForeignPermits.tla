--------------------------- MODULE MCForeignPermits ---------------------------
(* Two callers of the other account, or three so that one can be refused. *)
EXTENDS ForeignPermits

CONSTANTS f1, f2, f3

TwoCallers == {f1, f2}
ThreeCallers == {f1, f2, f3}
NoHolds == {}

=============================================================================
