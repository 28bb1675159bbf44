--------------------------- MODULE MCBodyTransfer ---------------------------
(* Model values for BodyTransfer: the transfer ids are interchangeable; of *)
(* two bodies one may reclaim its self and talk to its owner.              *)
EXTENDS BodyTransferRefinement, TLC

CONSTANTS b1, b2, t1, t2, t3

TwoBodies      == {b1, b2}
ThreeTransfers == {t1, t2, t3}
OneBody        == {b1}

Symmetric == Permutations(Transfers)

=============================================================================
