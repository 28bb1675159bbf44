---------------------------- MODULE SelfAuthority ---------------------------
(***************************************************************************)
(* What the transfer protocol promises of each self, with no messages,     *)
(* disks or processes: a self is held by one body or by none, it leaves a  *)
(* body under a number above every number issued for it, and it arrives    *)
(* only out of such a departure, under the last number issued.  An owner   *)
(* who forces a self out of this regime gets no promise about it.          *)
(***************************************************************************)
EXTENDS Naturals

CONSTANTS Bodies

VARIABLES
    holders,  \* per self, the bodies that are it
    issued,   \* per self, the highest epoch issued for it
    last,     \* per self, the epoch its holder is, or was last, active at
    forced    \* the selves no longer promised anything

vars == <<holders, issued, last, forced>>

\* A body's own self bears the body's name.
Selves == Bodies

Init ==
    /\ holders = [s \in Selves |-> {s}]
    /\ issued = [s \in Selves |-> 0]
    /\ last = [s \in Selves |-> 0]
    /\ forced = {}

\* Everyone but s stays put; what happens to a forced self is left open.
OnlyMoves(s) ==
    \A o \in Selves \ (forced' \cup {s}) :
        holders'[o] = holders[o] /\ issued'[o] = issued[o] /\ last'[o] = last[o]

\* The holder gives s up for a destination.
Depart(s) ==
    /\ \E b \in Bodies : holders[s] = {b}
    /\ holders'[s] = {}
    /\ issued'[s] = issued[s] + 1
    /\ last'[s] = last[s]

\* A body becomes s, or is s again, under the last number issued.
Arrive(s) ==
    /\ holders[s] = {}
    /\ \E b \in Bodies : holders'[s] = {b}
    /\ issued'[s] = issued[s]
    /\ last[s] < issued[s]
    /\ last'[s] = issued[s]

\* The holder commits to becoming another self and archives s.
Displace(s) ==
    /\ \E b \in Bodies : holders[s] = {b}
    /\ holders'[s] = {}
    /\ issued'[s] = issued[s]
    /\ last'[s] = last[s]

Move == \E s \in Selves :
            /\ s \notin forced
            /\ forced' = forced
            /\ Depart(s) \/ Arrive(s) \/ Displace(s)
            /\ OnlyMoves(s)

\* An owner forces s, or a forced self moves.
Force == /\ forced \subseteq forced'
         /\ \A o \in Selves \ forced' :
               /\ holders'[o] = holders[o]
               /\ issued'[o] = issued[o]
               /\ last'[o] = last[o]

Next == Move \/ Force

Spec == Init /\ [][Next]_vars

=============================================================================
