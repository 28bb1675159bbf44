----------------------- MODULE PermitLaneRefinement -----------------------
(***************************************************************************)
(* The permits implement PermitLane: a request waits while its requester   *)
(* lives and has its ticket, its permit is the lease in the journal, and   *)
(* its work is its group or, for a hold, what its requester does itself.   *)
(***************************************************************************)
EXTENDS HeavyPermits

Waiting == {j \in Jobs : client[j] \in {"waiting", "ready"}}
Ahead == {p \in Waiting \X Waiting : place[p[1]] < place[p[2]]}
Permitted == {j \in Jobs : lease[j] # "none"}
Working == {j \in Jobs : AtWork(j)}

Lane == INSTANCE PermitLane WITH
    waiting <- Waiting, ahead <- Ahead, permits <- Permitted, working <- Working

\* Whatever is observed late, left without an answer or dies, a permit goes to
\* the first of those that wait and live, never beyond the slots, and is taken
\* back only when its work is over (governor.ts, acquire and reconcile).
ImplementsLane == Lane!Spec

=============================================================================
