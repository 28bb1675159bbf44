---------------------------- MODULE MCSeatOutbox ----------------------------
(* Two questions of one channel that say the same, and a queued turn.       *)
EXTENDS SeatOutbox, TLC

CONSTANTS q1, q2, t1

MCContent == q1 :> "yes" @@ q2 :> "yes" @@ t1 :> "go on"
===============================================================================
