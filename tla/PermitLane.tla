----------------------------- MODULE PermitLane -----------------------------
(***************************************************************************)
(* What one lane promises to those who want its permits, with no journal,  *)
(* no processes and nothing observed late: requests wait in the order they *)
(* came, the first of those that still wait is served, never beyond the    *)
(* slots, and a permit is given back only when the work under it is over.  *)
(***************************************************************************)
EXTENDS Naturals, FiniteSets

CONSTANTS Jobs, Slots

VARIABLES
    waiting,    \* requests that wait for a permit
    ahead,      \* <<i, j>>: i waits and was there before j
    permits,    \* requests with a permit
    working     \* those whose work goes on

vars == <<waiting, ahead, permits, working>>

Init == waiting = {} /\ ahead = {} /\ permits = {} /\ working = {}

\* Who stays keeps the order.
Remain(stay) ==
    /\ waiting' = stay
    /\ ahead' = {p \in ahead : p[1] \in stay /\ p[2] \in stay}

\* Any step may find that permits are of no more use and take them back.
TakesBack(freed) == freed \subseteq permits /\ freed \cap working' = {}

Joins(j, freed) ==
    /\ j \notin waiting \cup permits
    /\ waiting' = waiting \cup {j}
    /\ ahead' = ahead \cup (waiting \X {j})
    /\ permits' = permits \ freed /\ working' = working

IsServed(j, freed) ==
    /\ j \in waiting \ permits /\ \A i \in waiting : <<i, j>> \notin ahead
    /\ Cardinality(permits \ freed) < Slots
    /\ Remain(waiting \ {j})
    /\ permits' = (permits \ freed) \cup {j} /\ working' = working

Begins(j) ==
    /\ j \in permits
    /\ working' = working \cup {j}
    /\ UNCHANGED <<waiting, ahead, permits>>

\* Requests leave the line and work ends, of several at once when their
\* process dies.
Ends(gone, stopped, freed) ==
    /\ Remain(waiting \ gone)
    /\ working' = working \ stopped
    /\ permits' = permits \ freed

Next ==
    \/ \E j \in Jobs : Begins(j)
    \/ \E freed \in SUBSET Jobs :
          /\ TakesBack(freed)
          /\ \/ \E j \in Jobs : Joins(j, freed) \/ IsServed(j, freed)
             \/ \E gone, stopped \in SUBSET Jobs : Ends(gone, stopped, freed)

Spec == Init /\ [][Next]_vars

=============================================================================
