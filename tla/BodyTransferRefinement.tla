----------------------- MODULE BodyTransferRefinement -----------------------
(***************************************************************************)
(* The transfer protocol implements SelfAuthority: the active self records *)
(* are the holders, and the epochs in the transfer records, which are      *)
(* never forgotten, are the numbers issued and lived through.              *)
(***************************************************************************)
EXTENDS BodyTransfer, FiniteSetsExt

\* The bodies whose self record says they are s.
HoldersOf(s) == {b \in Bodies : Active(b, s)}

\* The epochs recorded for s under one of the given outcomes.
EpochsOf(s, outcomes) ==
    {transfers[p[1]][p[2]].epoch :
        p \in {q \in Bodies \X Transfers :
                  /\ transfers[q[1]][q[2]].selfId = s
                  /\ transfers[q[1]][q[2]].outcome \in outcomes}}

\* Every epoch is issued by a freeze, whose record stays with the source.
IssuedTo(s) ==
    Max({0} \cup EpochsOf(s, {"frozen", "released", "aborted"}))

\* An epoch is lived through once the self is active under it again.
LivedBy(s) == Max({0} \cup EpochsOf(s, {"aborted", "applied"}))

Authority == INSTANCE SelfAuthority WITH
    holders <- [s \in Selves |-> HoldersOf(s)],
    issued  <- [s \in Selves |-> IssuedTo(s)],
    last    <- [s \in Selves |-> LivedBy(s)]

\* Every step of the protocol, crashes, repeats and delays included, is a
\* departure, an arrival or a displacement of one self, or moves only selves
\* an owner has forced.
ImplementsSelfAuthority == Authority!Spec

=============================================================================
