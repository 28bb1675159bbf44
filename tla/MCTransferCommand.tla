------------------------- MODULE MCTransferCommand -------------------------
(* Clankie moves from b1 to b2 and back.                                   *)
EXTENDS TransferCommand, TLC

CONSTANTS b1, b2, t1, t2

TwoBodies == {b1, b2}
BothWays  == {t1, t2}
Nobody    == {}
MoveOut   == {t1}
Origin    == (t1 :> b1) @@ (t2 :> b2)
Target    == (t1 :> b2) @@ (t2 :> b1)

=============================================================================
