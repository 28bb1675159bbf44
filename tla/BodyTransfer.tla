---------------------------- MODULE BodyTransfer ----------------------------
(***************************************************************************)
(* One body holds Clankie at a time (ADR 0286).  Each body keeps one       *)
(* durable self record, self.json, rewritten atomically at the end of      *)
(* every transfer step; `clankie transfer` drives the steps from outside   *)
(* and may be interrupted, repeated or delayed at any point.               *)
(*                                                                         *)
(* A self is named by the body that minted it: body b mints at most one    *)
(* self id, at its first freeze, and the model calls that id b.  Until     *)
(* then the unnamed Clankie on b is self b as well.                        *)
(***************************************************************************)
EXTENDS Naturals

CONSTANTS
    Bodies,      \* the installations that can hold a Clankie
    Transfers,   \* the transfer ids the owner's commands may use
    NoSelf,      \* no self id has been minted here
    NoTransfer,  \* no transfer is current (or one no command can name)
    Reclaimers,  \* bodies whose owner may reclaim by force
    Talkers,     \* bodies that may have, and gather, history of their own
    MaxEpoch     \* bound on the epochs a freeze or reclaim may issue

ASSUME SelvesAssumption == NoSelf \notin Bodies
ASSUME TransfersAssumption == NoTransfer \notin Transfers
ASSUME ActorsAssumption == Reclaimers \subseteq Bodies /\ Talkers \subseteq Bodies
ASSUME EpochAssumption == MaxEpoch \in Nat

VARIABLES
    \* self.json of each body: one durable record, always written whole
    selfId,      \* the self this body carries, or NoSelf
    epoch,       \* the epoch this body knows
    state,       \* "active", "frozen" or "released"
    transferId,  \* the transfer the state belongs to
    transfers,   \* what this body decided about each transfer id
    \* the rest of each body's disk
    incoming,    \* transfers whose verified bundle lies under transfer/incoming
    outgoing,    \* transfers whose bundle lies under transfer/outgoing
    history,     \* memory or conversations of this body's own
    \* volatile
    proc,        \* the process: what it was fixed to be at boot, or "down"
    staging,     \* the admission a running stage has decided but not recorded
    \* signed answers in the owner's hands; they never expire
    activations, \* "active" proofs read from a status
    burns,       \* "burned" proofs returned by a discard
    \* history variables of the specification
    forced,      \* selves some body reclaimed by force
    displaced    \* selves whose body applied another self's bundle

selfVars  == <<selfId, epoch, state, transferId, transfers>>
ghostVars == <<forced, displaced>>
vars == <<selfVars, incoming, outgoing, history, proc, staging,
          activations, burns, ghostVars>>

Selves == Bodies

NoRecord == [role |-> "none", outcome |-> "none", selfId |-> NoSelf,
             epoch |-> 0, peer |-> NoSelf, replace |-> FALSE]

\* Exactly one entry of the durable `transfers` map.
TransferRecord ==
    [role    : {"none", "source", "destination"},
     outcome : {"none", "frozen", "released", "aborted",
                "staged", "applying", "applied", "burned"},
     selfId  : Selves \cup {NoSelf},
     epoch   : Nat,
     peer    : Bodies \cup {NoSelf},
     replace : BOOLEAN]

NoStage == [transfer |-> NoTransfer, source |-> NoSelf, selfId |-> NoSelf,
            epoch |-> 0, replace |-> FALSE]

Admission ==
    [transfer : Transfers \cup {NoTransfer},
     source   : Bodies \cup {NoSelf},
     selfId   : Selves \cup {NoSelf},
     epoch    : Nat,
     replace  : BOOLEAN]

TypeOK ==
    /\ selfId \in [Bodies -> Selves \cup {NoSelf}]
    /\ epoch \in [Bodies -> Nat]
    /\ state \in [Bodies -> {"active", "frozen", "released"}]
    /\ transferId \in [Bodies -> Transfers \cup {NoTransfer}]
    /\ transfers \in [Bodies -> [Transfers -> TransferRecord]]
    /\ incoming \in [Bodies -> SUBSET Transfers]
    /\ outgoing \in [Bodies -> SUBSET Transfers]
    /\ history \in [Bodies -> BOOLEAN]
    /\ proc \in [Bodies -> {"down", "applying", "active", "dormant"}]
    /\ staging \in [Bodies -> Admission]
    /\ activations \subseteq [body : Bodies, transfer : Transfers,
                              selfId : Selves \cup {NoSelf}, epoch : Nat]
    /\ burns \subseteq Bodies \X Transfers
    /\ forced \subseteq Selves
    /\ displaced \subseteq Selves

-----------------------------------------------------------------------------
(* What a body's record says.                                              *)

\* The Clankie whose state lies on body b.
Self(b) == IF selfId[b] = NoSelf THEN b ELSE selfId[b]

\* The epoch a freeze or a reclaim issues.  Mutant: the one the body has.
SameEpoch(b) == epoch[b]
NextEpoch(b) == epoch[b] + 1

\* Mutant: a source frozen for some transfer answers for all it ever froze for.
AnyFrozenSource(b, t) == state[b] = "frozen" /\ transfers[b][t].role = "source"

\* b stopped being Clankie for t and nothing has decided t's outcome here.
FrozenSource(b, t) ==
    /\ state[b] = "frozen"
    /\ transferId[b] = t
    /\ transfers[b][t].role = "source"

\* b committed to an apply that a boot has yet to finish.
Applying(b, t) ==
    /\ state[b] = "frozen"
    /\ transferId[b] = t
    /\ transfers[b][t].role = "destination"
    /\ transfers[b][t].outcome = "applying"

\* A process serves the transfer routes.
Serving(b) == proc[b] \in {"active", "dormant"}

\* Mutant: requests are not queued behind a running stage.
ReadyDuringStage(b) == Serving(b)

\* The body's serial queue is free: no stage is between admission and record.
Ready(b) == Serving(b) /\ staging[b].transfer = NoTransfer

\* Mutant: any answer of the recorded destination will do.
AnyAnswer(b, t) == Serving(transfers[b][t].peer)

\* The recorded destination signed that it is active as this very self at this
\* epoch by this transfer.
ActivationProven(b, t) ==
    [body |-> transfers[b][t].peer, transfer |-> t,
     selfId |-> selfId[b], epoch |-> epoch[b]] \in activations

\* The recorded destination signed that it burned the id.
BurnProven(b, t) == <<transfers[b][t].peer, t>> \in burns

\* May a bundle for self s at epoch e be staged at d?
Admits(d, s, e, replace) ==
    \/ /\ selfId[d] = s
       /\ state[d] # "active"
       /\ e > epoch[d]
    \/ /\ selfId[d] # s
       /\ replace \/ (selfId[d] = NoSelf /\ ~history[d])

Init ==
    /\ selfId = [b \in Bodies |-> NoSelf]
    /\ epoch = [b \in Bodies |-> 0]
    /\ state = [b \in Bodies |-> "active"]
    /\ transferId = [b \in Bodies |-> NoTransfer]
    /\ transfers = [b \in Bodies |-> [t \in Transfers |-> NoRecord]]
    /\ incoming = [b \in Bodies |-> {}]
    /\ outgoing = [b \in Bodies |-> {}]
    /\ history \in [Bodies -> BOOLEAN]
    /\ \A b \in Bodies : history[b] => b \in Talkers
    /\ proc = [b \in Bodies |-> "active"]
    /\ staging = [b \in Bodies |-> NoStage]
    /\ activations = {}
    /\ burns = {}
    /\ forced = {}
    /\ displaced = {}

-----------------------------------------------------------------------------
(* The source's steps.                                                     *)

\* The source asks the destination for its keys, then, idle and closed to new
\* turns, records the freeze; the process shuts down after the reply.
Freeze(b, t, d) ==
    /\ Ready(b) /\ proc[b] = "active"
    /\ transfers[b][t].role = "none"
    /\ state[b] = "active"
    /\ d # b /\ Serving(d)
    /\ epoch[b] < MaxEpoch
    /\ selfId' = [selfId EXCEPT ![b] = Self(b)]
    /\ epoch' = [epoch EXCEPT ![b] = NextEpoch(b)]
    /\ state' = [state EXCEPT ![b] = "frozen"]
    /\ transferId' = [transferId EXCEPT ![b] = t]
    /\ transfers' = [transfers EXCEPT ![b][t] =
                        [role |-> "source", outcome |-> "frozen",
                         selfId |-> Self(b), epoch |-> NextEpoch(b),
                         peer |-> d, replace |-> FALSE]]
    /\ UNCHANGED <<incoming, outgoing, history, proc, staging,
                   activations, burns, ghostVars>>

\* Mutant: the bundle is built while the frozen process still shuts down.
OutgoingBundleEarly(b, t) ==
    /\ Ready(b)
    /\ FrozenSource(b, t)
    /\ transfers[b][t].outcome = "frozen"
    /\ outgoing' = [outgoing EXCEPT ![b] = @ \cup {t}]
    /\ UNCHANGED <<selfVars, incoming, history, proc, staging,
                   activations, burns, ghostVars>>

\* The bundle is built once, by a process that booted dormant.
OutgoingBundle(b, t) ==
    /\ Ready(b) /\ proc[b] = "dormant"
    /\ FrozenSource(b, t)
    /\ transfers[b][t].outcome = "frozen"
    /\ outgoing' = [outgoing EXCEPT ![b] = @ \cup {t}]
    /\ UNCHANGED <<selfVars, incoming, history, proc, staging,
                   activations, burns, ghostVars>>

\* Only the recorded destination's activation of this very self, epoch and
\* transfer turns the source into a tombstone.
Release(b, t) ==
    /\ Ready(b)
    /\ FrozenSource(b, t)
    /\ ActivationProven(b, t)
    /\ state' = [state EXCEPT ![b] = "released"]
    /\ transfers' = [transfers EXCEPT ![b][t].outcome = "released"]
    /\ outgoing' = [outgoing EXCEPT ![b] = @ \ {t}]
    /\ UNCHANGED <<selfId, epoch, transferId, incoming, history, proc, staging,
                   activations, burns, ghostVars>>

\* Only the recorded destination's burn of the id returns Clankie here.
Abort(b, t) ==
    /\ Ready(b)
    /\ FrozenSource(b, t)
    /\ BurnProven(b, t)
    /\ state' = [state EXCEPT ![b] = "active"]
    /\ transfers' = [transfers EXCEPT ![b][t].outcome = "aborted"]
    /\ outgoing' = [outgoing EXCEPT ![b] = @ \ {t}]
    /\ UNCHANGED <<selfId, epoch, transferId, incoming, history, proc, staging,
                   activations, burns, ghostVars>>

\* The owner's forced escape from any body that is not active.  It records a
\* fresh random id no other command names, here NoTransfer.
Reclaim(b) ==
    /\ b \in Reclaimers
    /\ Ready(b)
    /\ state[b] # "active"
    /\ epoch[b] < MaxEpoch
    /\ epoch' = [epoch EXCEPT ![b] = NextEpoch(b)]
    /\ state' = [state EXCEPT ![b] = "active"]
    /\ transferId' = [transferId EXCEPT ![b] = NoTransfer]
    /\ forced' = forced \cup {Self(b)}
    /\ UNCHANGED <<selfId, transfers, incoming, outgoing, history, proc,
                   staging, activations, burns, displaced>>

-----------------------------------------------------------------------------
(* The destination's steps.                                                *)

\* A stage drops what an earlier stage left, asks the source for its frozen
\* binding and admits the manifest.  The files are still to be unpacked.
StageBegin(d, t, a, replace) ==
    /\ Ready(d)
    /\ transfers[d][t].outcome \in {"none", "staged"}
    /\ Serving(a)
    /\ FrozenSource(a, t)
    /\ transfers[a][t].outcome = "frozen"
    /\ transfers[a][t].peer = d
    /\ t \in outgoing[a]
    /\ Admits(d, selfId[a], epoch[a], replace)
    /\ staging' = [staging EXCEPT ![d] =
                      [transfer |-> t, source |-> a, selfId |-> selfId[a],
                       epoch |-> epoch[a], replace |-> replace]]
    /\ incoming' = [incoming EXCEPT ![d] = @ \ {t}]
    /\ UNCHANGED <<selfVars, outgoing, history, proc, activations, burns,
                   ghostVars>>

\* Every byte verified: the manifest, then the record, are written.
StageCommit(d) ==
    LET s == staging[d] IN
    /\ Serving(d)
    /\ s.transfer # NoTransfer
    /\ transfers' = [transfers EXCEPT ![d][s.transfer] =
                        [role |-> "destination", outcome |-> "staged",
                         selfId |-> s.selfId, epoch |-> s.epoch,
                         peer |-> s.source, replace |-> s.replace]]
    /\ incoming' = [incoming EXCEPT ![d] = @ \cup {s.transfer}]
    /\ staging' = [staging EXCEPT ![d] = NoStage]
    /\ UNCHANGED <<selfId, epoch, state, transferId, outgoing, history, proc,
                   activations, burns, ghostVars>>

\* A stage gives up after its admission: a damaged bundle, or the owner's
\* authority withdrawn meanwhile.
StageGivesUp(d) ==
    /\ Serving(d)
    /\ staging[d].transfer # NoTransfer
    /\ staging' = [staging EXCEPT ![d] = NoStage]
    /\ UNCHANGED <<selfVars, incoming, outgoing, history, proc, activations,
                   burns, ghostVars>>

\* A repeated stage that is not admitted has dropped the earlier one.
StageRefused(d, t) ==
    /\ Ready(d)
    /\ transfers[d][t].outcome = "staged"
    /\ incoming' = [incoming EXCEPT ![d] = @ \ {t}]
    /\ UNCHANGED <<selfVars, outgoing, history, proc, staging, activations,
                   burns, ghostVars>>

\* The intent to apply is recorded; a boot carries it out.  An active body
\* records it in a cutover, which only an active process offers.
Apply(d, t) ==
    /\ Ready(d)
    /\ transfers[d][t].role = "destination"
    /\ transfers[d][t].outcome = "staged"
    /\ t \in incoming[d]
    /\ state[d] = "active" => proc[d] = "active"
    /\ selfId' = [selfId EXCEPT ![d] = transfers[d][t].selfId]
    /\ state' = [state EXCEPT ![d] = "frozen"]
    /\ transferId' = [transferId EXCEPT ![d] = t]
    /\ transfers' = [transfers EXCEPT ![d][t].outcome = "applying"]
    /\ displaced' = displaced \cup ({Self(d)} \ {transfers[d][t].selfId})
    /\ UNCHANGED <<epoch, incoming, outgoing, history, proc, staging,
                   activations, burns, forced>>

\* An id that was never applied here is burned, known or not, and the answer
\* carries the proof.
Discard(d, t) ==
    LET known == transfers[d][t] IN
    /\ Ready(d)
    /\ known.outcome \notin {"applying", "applied"}
    /\ known.role # "source"
    /\ transfers' = [transfers EXCEPT ![d][t] =
                        [role |-> "destination", outcome |-> "burned",
                         selfId |-> NoSelf,
                         epoch |-> IF known.role # "none" THEN known.epoch
                                   ELSE IF epoch[d] = 0 THEN 1 ELSE epoch[d],
                         peer |-> known.peer, replace |-> FALSE]]
    /\ incoming' = [incoming EXCEPT ![d] = @ \ {t}]
    /\ burns' = burns \cup {<<d, t>>}
    /\ UNCHANGED <<selfId, epoch, state, transferId, outgoing, history, proc,
                   staging, activations, ghostVars>>

\* A status answer of an active, not dormant body that was activated by an
\* applied transfer carries a signed activation.
ReadActivation(d) ==
    LET t == transferId[d] IN
    /\ proc[d] = "active"
    /\ state[d] = "active"
    /\ selfId[d] # NoSelf /\ t # NoTransfer
    /\ transfers[d][t].role = "destination"
    /\ transfers[d][t].outcome = "applied"
    /\ activations' = activations \cup
          {[body |-> d, transfer |-> t, selfId |-> selfId[d], epoch |-> epoch[d]]}
    /\ UNCHANGED <<selfVars, incoming, outgoing, history, proc, staging,
                   burns, ghostVars>>

-----------------------------------------------------------------------------
(* The process.                                                            *)

\* Shutdown after a cutover, a restart, or a crash.
Stop(b) ==
    /\ proc[b] # "down"
    /\ proc' = [proc EXCEPT ![b] = "down"]
    /\ staging' = [staging EXCEPT ![b] = NoStage]
    /\ UNCHANGED <<selfVars, incoming, outgoing, history, activations, burns,
                   ghostVars>>

\* A boot with no apply to finish, or one that fails to (the staged bundle is
\* gone, or a file operation fails): the record fixes what the process is.
Boot(b) ==
    /\ proc[b] = "down"
    /\ proc' = [proc EXCEPT ![b] =
                   IF state[b] = "active" THEN "active" ELSE "dormant"]
    /\ UNCHANGED <<selfVars, incoming, outgoing, history, staging,
                   activations, burns, ghostVars>>

\* A boot that finishes an apply: everything is installed and the staged
\* bundle removed before the record says so.
BootInstall(b) ==
    /\ proc[b] = "down"
    /\ \E t \in incoming[b] :
          /\ Applying(b, t)
          /\ incoming' = [incoming EXCEPT ![b] = @ \ {t}]
    /\ proc' = [proc EXCEPT ![b] = "applying"]
    /\ UNCHANGED <<selfVars, outgoing, history, staging, activations, burns,
                   ghostVars>>

BootActivate(b) ==
    LET t == transferId[b] IN
    /\ proc[b] = "applying"
    /\ epoch' = [epoch EXCEPT ![b] = transfers[b][t].epoch]
    /\ state' = [state EXCEPT ![b] = "active"]
    /\ transfers' = [transfers EXCEPT ![b][t].outcome = "applied"]
    /\ proc' = [proc EXCEPT ![b] = "active"]
    /\ UNCHANGED <<selfId, transferId, incoming, outgoing, history, staging,
                   activations, burns, ghostVars>>

\* An active body remembers and talks.
TakeTurn(b) ==
    /\ b \in Talkers
    /\ proc[b] = "active" /\ state[b] = "active"
    /\ history' = [history EXCEPT ![b] = TRUE]
    /\ UNCHANGED <<selfVars, incoming, outgoing, proc, staging, activations,
                   burns, ghostVars>>

Next ==
    \E b \in Bodies :
        \/ \E t \in Transfers :
              \/ \E d \in Bodies : Freeze(b, t, d)
              \/ OutgoingBundle(b, t)
              \/ Release(b, t)
              \/ Abort(b, t)
              \/ \E a \in Bodies, replace \in BOOLEAN : StageBegin(b, t, a, replace)
              \/ StageRefused(b, t)
              \/ Apply(b, t)
              \/ Discard(b, t)
        \/ Reclaim(b)
        \/ StageCommit(b)
        \/ StageGivesUp(b)
        \/ ReadActivation(b)
        \/ Stop(b)
        \/ Boot(b)
        \/ BootInstall(b)
        \/ BootActivate(b)
        \/ TakeTurn(b)

Spec == Init /\ [][Next]_vars

-----------------------------------------------------------------------------
(* Safety.                                                                 *)

\* The self record says b is Clankie s.
Active(b, s) == state[b] = "active" /\ Self(b) = s

\* One self, one active body: no interleaving of freezes, copies, applies,
\* aborts, releases, restarts and late or repeated commands leaves two self
\* records active for one self, unless the owner reclaimed that self by force.
OneActiveSelf ==
    \A s \in Selves \ forced : \A b, c \in Bodies :
        Active(b, s) /\ Active(c, s) => b = c

\* Abort and apply exclude each other: once a source took Clankie back from
\* transfer t, the destination it froze for never applies t, forced or not.
AbortExcludesApply ==
    \A b \in Bodies, t \in Transfers :
        transfers[b][t].outcome = "aborted" =>
            LET there == transfers[transfers[b][t].peer][t] IN
            there.outcome = "burned"

\* A tombstone is only ever left behind by a transfer whose destination
\* activated that same self at that same epoch.
ReleasedWasActivated ==
    \A b \in Bodies, t \in Transfers :
        transfers[b][t].outcome = "released" =>
            LET there == transfers[transfers[b][t].peer][t] IN
            /\ there.outcome = "applied"
            /\ there.selfId = transfers[b][t].selfId
            /\ there.epoch = transfers[b][t].epoch

\* Clankie is not lost in transit: a self that was ever minted is held by some
\* active or frozen body, unless a reclaim or another self's apply took it.
HeldSomewhere ==
    \A s \in Selves \ (forced \cup displaced) :
        (\E b \in Bodies : selfId[b] = s) =>
            \E b \in Bodies : selfId[b] = s /\ state[b] # "released"

\* While a bundle of the frozen self exists, no process that could still write
\* the files it was read from is running.
SnapshotIsFinal ==
    \A b \in Bodies : \A t \in outgoing[b] :
        FrozenSource(b, t) => proc[b] # "active"

\* The outcomes under which a body was, or still is, the self of the record.
Held == {"applied", "frozen", "released", "aborted"}

\* Every self activated by an apply is activated above each epoch at which
\* this body already was that self.
RisesAbove(b, t) ==
    \A u \in Transfers :
        /\ transfers[b][u].outcome \in Held
        /\ transfers[b][u].selfId = transfers[b][t].selfId
        => transfers[b][u].epoch < transfers[b][t].epoch

Activates(b, t) ==
    transfers[b][t].outcome # "applied" /\ transfers'[b][t].outcome = "applied"

\* A late or repeated apply never takes a body back to an epoch of a self it
\* has already lived through, unless the owner reclaimed that self by force.
EpochNeverFallsBack ==
    [][\A b \in Bodies, t \in Transfers :
          Activates(b, t) /\ transfers[b][t].selfId \notin forced
              => RisesAbove(b, t)]_vars

-----------------------------------------------------------------------------
(* The inductive invariant behind OneActiveSelf: besides the active body, a *)
(* self can still come from a frozen source whose destination has not       *)
(* applied, or from an admission or a staged bundle not yet applied.        *)

\* d's stage or record of t may yet make it s.
Claims(d, t, s) ==
    \/ /\ transfers[d][t].outcome \in {"staged", "applying"}
       /\ transfers[d][t].selfId = s
    \/ /\ staging[d].transfer = t
       /\ staging[d].selfId = s

\* b froze s for t, and t's destination has not applied it.
Pending(b, t, s) ==
    /\ FrozenSource(b, t)
    /\ Self(b) = s
    /\ transfers[transfers[b][t].peer][t].outcome # "applied"

\* Where s can be: one active body and nothing else, or one pending source and
\* at most one claim, which then is its destination's, on the same transfer.
Fenced(s) ==
    /\ \A b, c \in Bodies : Active(b, s) /\ Active(c, s) => b = c
    /\ \A b, c \in Bodies, t, u \in Transfers :
          /\ Active(b, s) => ~Claims(c, t, s) /\ ~Pending(c, t, s)
          /\ Claims(b, t, s) /\ Claims(c, u, s) => b = c /\ t = u
          /\ Pending(b, t, s) /\ Pending(c, u, s) => b = c
          /\ Pending(b, t, s) /\ Claims(c, u, s) =>
                 c = transfers[b][t].peer /\ t = u

\* Role and outcome of a record agree, and it names what they are about.
WellFormed(r) ==
    /\ r.role = "none" <=> r.outcome = "none"
    /\ r.role = "source" <=> r.outcome \in {"frozen", "released", "aborted"}
    /\ r.role = "source" => r.peer \in Bodies
    /\ r.outcome \in {"staged", "applying", "applied"} => r.selfId \in Selves

RecordsOK ==
    /\ \A b \in Bodies, t \in Transfers : WellFormed(transfers[b][t])
    /\ \A b \in Bodies : state[b] # "active" => selfId[b] \in Selves

\* A running stage admits a transfer that is still open here.
StagingOK ==
    \A d \in Bodies, t \in Transfers :
        staging[d].transfer = t =>
            /\ staging[d].selfId \in Selves
            /\ transfers[d][t].outcome \in {"none", "staged"}

\* A burn proof is never outlived by its record.
BurnsOK ==
    \A d \in Bodies, t \in Transfers :
        <<d, t>> \in burns => transfers[d][t].outcome = "burned"

\* A boot that is applying works on the record it booted from.
BootOK ==
    \A b \in Bodies :
        /\ proc[b] = "applying" => \E t \in Transfers : Applying(b, t)
        /\ \A t \in Transfers :
              Applying(b, t) => selfId[b] = transfers[b][t].selfId

\* Every reachable state is fenced for every self no owner has forced.
IInv ==
    /\ TypeOK
    /\ RecordsOK
    /\ StagingOK
    /\ BurnsOK
    /\ BootOK
    /\ \A s \in Selves \ forced : Fenced(s)

=============================================================================
