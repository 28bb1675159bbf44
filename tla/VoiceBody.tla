----------------------------- MODULE VoiceBody -----------------------------
(***************************************************************************)
(* Clankie has one voice.  The service's lease registry holds one claim to *)
(* it (body-leases.ts); Discord stays share a claim and record themselves  *)
(* durably (body-voice-stays.ts); a device call takes a claim of its own   *)
(* (voice-call.ts); a recovery frees a claim after the Discord body proved *)
(* that its stays ended (body-lease-router.ts).  The body is another       *)
(* process with a map of its own (body-voice-lease.ts).                    *)
(*                                                                         *)
(* The clock is one action: a claim that nobody renews lapses.  A claim    *)
(* that lapsed and one that was marked for recovery are refused alike, so  *)
(* expired stands for both.  A store that cannot write refuses everything  *)
(* until the service restarts and is modelled as a service that is down.   *)
(***************************************************************************)
EXTENDS Naturals

CONSTANTS
    Conversations,  \* who may own a stay
    Main,           \* the main conversation, which owns device calls
    Rooms,          \* Discord voice channels
    Stays,          \* stay ids
    Calls,          \* device calls
    NoClaim, NoStay, NoRecovery,
    RecoveryPin,    \* the operation a recovery reserves
    MaxTokens,      \* the claims of a run; restarts rotate tokens beyond it
    MaxFaults       \* crashes of either process, cut handlers, lost answers

ASSUME MainAssumption == Main \in Conversations
ASSUME PinAssumption == RecoveryPin \notin Stays
ASSUME BoundsAssumption == MaxTokens \in Nat /\ MaxFaults \in Nat

VARIABLES
    up,             \* the service runs and can write
    claim,          \* the durable claim to the voice
    issued,         \* tokens given out so far
    stays,          \* the durable record of each stay
    restartClaims,  \* the rotated token a restart bound each stay to; 0 is none
    authority,      \* stays whose source grant this process still holds
    recovery,       \* the recovery in progress, in memory
    calls,          \* device calls, which live in the service
    active,         \* the Discord body's map, per stay
    present,        \* stays whose voice connection Discord shows in a room
    body,           \* the Discord body's presence session
    faults

serviceVars == <<up, claim, issued, stays, restartClaims, authority, recovery, calls>>
bodyVars == <<active, present, body>>
vars == <<serviceVars, bodyVars, faults>>

Tokens == 1..(MaxTokens + MaxFaults)
Pins == Stays \cup {RecoveryPin}

Claim == [conv : Conversations, token : Tokens, expired : BOOLEAN, pins : SUBSET Pins]
Stay == [conv : Conversations, room : Rooms, body : Nat, token : Tokens, finished : BOOLEAN]
Recovery == [sweep : BOOLEAN, step : {"begun", "asked", "confirmed"},
             records : SUBSET Stays, body : Nat]

ASSUME NoneAssumption ==
    NoClaim \notin Claim /\ NoStay \notin Stay /\ NoRecovery \notin Recovery

Unfinished == {s \in Stays : stays[s] # NoStay /\ ~stays[s].finished}
Holds(token) == claim # NoClaim /\ claim.token = token
IsLive(token) == Holds(token) /\ ~claim.expired
\* The token under which a stay's end may free the claim.
ClaimTokenOf(s) == IF restartClaims[s] # 0 THEN restartClaims[s] ELSE stays[s].token

Init ==
    /\ up = TRUE
    /\ claim = NoClaim
    /\ issued = 0
    /\ stays = [s \in Stays |-> NoStay]
    /\ restartClaims = [s \in Stays |-> 0]
    /\ authority = {}
    /\ recovery = NoRecovery
    /\ calls = [c \in Calls |-> [phase |-> "idle", token |-> 0]]
    /\ active = [s \in Stays |-> "none"]
    /\ present = {}
    /\ body = 1
    /\ faults = 0

Faulty == faults < MaxFaults /\ faults' = faults + 1
Faultless == UNCHANGED faults

-----------------------------------------------------------------------------
\* The registry.

NewClaim(conv, pins) ==
    [conv |-> conv, token |-> issued + 1, expired |-> FALSE, pins |-> pins]

Acquires(conv, pins) ==
    /\ claim = NoClaim
    /\ issued < MaxTokens
    /\ issued' = issued + 1
    /\ claim' = NewClaim(conv, pins)

\* Unless something is still pinned, an ended body frees its claim.
Reconciled(unpinned) ==
    IF claim.pins \subseteq unpinned THEN NoClaim
    ELSE [claim EXCEPT !.pins = @ \ unpinned]

\* Nobody renewed the claim for its whole time to live.
Lapses ==
    /\ claim # NoClaim /\ ~claim.expired
    /\ claim' = [claim EXCEPT !.expired = TRUE]
    /\ UNCHANGED <<up, issued, stays, restartClaims, authority, recovery, calls, bodyVars, faults>>

\* POST /v1/body-leases acquires the voice with no body behind it.
OperatorAcquires(conv) ==
    /\ up
    /\ Acquires(conv, {})
    /\ UNCHANGED <<up, stays, restartClaims, authority, recovery, calls, bodyVars, faults>>

\* Whatever the service only remembered is gone; its calls' sockets close.
LosesMemory ==
    /\ up' = FALSE
    /\ restartClaims' = [s \in Stays |-> 0]
    /\ authority' = {}
    /\ recovery' = NoRecovery
    /\ calls' = [c \in Calls |-> IF calls[c].phase \in {"live", "ending"}
                                 THEN [calls[c] EXCEPT !.phase = "over"] ELSE calls[c]]

Crashes ==
    /\ up /\ Faulty /\ LosesMemory
    /\ UNCHANGED <<claim, issued, stays, bodyVars>>

\* Mutant: A restart keeps the pins of operations that died with the process.
RotatedPinned(c) == [c EXCEPT !.token = issued + 1, !.expired = TRUE]

\* A boot rotates the token, unpins everything and blocks the claim.
Rotated(c) == [c EXCEPT !.token = issued + 1, !.expired = TRUE, !.pins = {}]

Restarts ==
    /\ ~up
    /\ up' = TRUE
    /\ \/ claim = NoClaim /\ UNCHANGED <<claim, issued, restartClaims>>
       \/ /\ claim # NoClaim
          /\ issued' = issued + 1
          /\ claim' = Rotated(claim)
          /\ restartClaims' =
                [s \in Stays |-> IF s \in Unfinished
                                    /\ \A t \in Unfinished : stays[t].conv = claim.conv
                                 THEN issued + 1 ELSE 0]
    /\ UNCHANGED <<stays, authority, recovery, calls, bodyVars, faults>>

-----------------------------------------------------------------------------
\* A Discord stay: claimed by the body, recorded by the service.

\* Mutant: A stay shares any claim of its conversation.
HeldByAnyone == TRUE

HeldByStay == \E s \in Unfinished : ClaimTokenOf(s) = claim.token

\* Mutant: A stay is compared by room only within what the body itself remembers.
CompatibleInBody(room) ==
    \A s \in Unfinished : active[s] # "none" => stays[s].room = room

\* Stays share a claim only in one room of one presence session.
Compatible(room) == \A s \in Unfinished : stays[s].room = room /\ stays[s].body = body

Shares(s, conv, room) ==
    /\ claim # NoClaim /\ claim.conv = conv /\ ~claim.expired
    /\ HeldByStay
    /\ Compatible(room)
    /\ claim' = [claim EXCEPT !.pins = @ \cup {s}]
    /\ UNCHANGED issued

NewStay(conv, room, token) ==
    [conv |-> conv, room |-> room, body |-> body, token |-> token, finished |-> FALSE]

\* The body asks for a stay and hears the answer, unless that is lost.
Admits(s, conv, room) ==
    /\ up /\ stays[s] = NoStay
    /\ Shares(s, conv, room) \/ Acquires(conv, {s})
    /\ stays' = [stays EXCEPT ![s] = NewStay(conv, room, claim'.token)]
    /\ authority' = authority \cup {s}
    /\ \/ active' = [active EXCEPT ![s] = "admitted"] /\ Faultless
       \/ UNCHANGED active /\ Faulty
    /\ UNCHANGED <<up, restartClaims, recovery, calls, present, body>>

\* The service stops between the claim and the record of its stay.
AdmitIsCut(conv) ==
    /\ up /\ Faulty
    /\ Acquires(conv, {})
    /\ LosesMemory
    /\ UNCHANGED <<stays, bodyVars>>

\* What the body's heartbeat asks: the claim, the pin and the original grant.
HeartbeatRenewed(s) ==
    /\ up /\ s \in authority
    /\ IsLive(stays[s].token) /\ s \in claim.pins

\* The gateway joins, once the body's earlier stay has left and a last heartbeat
\* was answered; the answer's way back is not a step of its own.
Starts(s) ==
    /\ active[s] = "admitted"
    /\ HeartbeatRenewed(s)
    /\ \A t \in Stays : active[t] \notin {"started", "lost"}
    /\ active' = [active EXCEPT ![s] = "started"]
    /\ present' = present \cup {s}
    /\ UNCHANGED <<serviceVars, body, faults>>

\* A refused or unanswered heartbeat, or the body's own check, ends the stay.
Loses(s) ==
    /\ \/ active[s] = "admitted" /\ active' = [active EXCEPT ![s] = "left"]
       \/ active[s] = "started" /\ active' = [active EXCEPT ![s] = "lost"]
    /\ UNCHANGED <<serviceVars, present, body, faults>>

\* Discord confirms that he left, on request or not.
Leaves(s) ==
    /\ active[s] \in {"started", "lost"}
    /\ active' = [active EXCEPT ![s] = "left"]
    /\ present' = present \ {s}
    /\ UNCHANGED <<serviceVars, body, faults>>

FinishAccepted(s) ==
    /\ up
    /\ \/ stays[s].finished
       \/ Holds(ClaimTokenOf(s)) /\ claim.conv = stays[s].conv

\* Mutant: The end of one stay frees the claim of them all.
FreesAtFirstEnd(s) == NoClaim

\* Every stay of the conversation must have ended before the claim goes.
ClaimAfter(s) ==
    IF \E t \in Unfinished \ {s} : stays[t].conv = claim.conv
    THEN [claim EXCEPT !.pins = @ \ {s}]
    ELSE Reconciled({s})

RecordsFinish(s) ==
    IF stays[s].finished THEN UNCHANGED <<claim, stays, authority>>
    ELSE /\ stays' = [stays EXCEPT ![s].finished = TRUE]
         /\ claim' = ClaimAfter(s)
         /\ authority' = authority \ {s}

\* The body reports a confirmed leave, once; it forgets the stay if it hears.
Finishes(s) ==
    /\ active[s] = "left"
    /\ FinishAccepted(s)
    /\ RecordsFinish(s)
    /\ \/ active' = [active EXCEPT ![s] = "none"] /\ Faultless
       \/ active' = [active EXCEPT ![s] = "leaked"] /\ Faulty
    /\ UNCHANGED <<up, issued, restartClaims, recovery, calls, present, body>>

\* The end is saved before the claim is touched, and the service stops there.
FinishIsCut(s) ==
    /\ active[s] = "left"
    /\ FinishAccepted(s) /\ ~stays[s].finished /\ Faulty
    /\ stays' = [stays EXCEPT ![s].finished = TRUE]
    /\ LosesMemory
    /\ active' = [active EXCEPT ![s] = "leaked"]
    /\ UNCHANGED <<claim, issued, present, body>>

\* Nothing retries a report that failed, or that failed again without its reason.
FinishFails(s) ==
    /\ active[s] = "left"
    /\ ~FinishAccepted(s)
    /\ active' = [active EXCEPT ![s] = "leaked"]
    /\ UNCHANGED <<serviceVars, present, body, faults>>

BodyCrashes ==
    /\ Faulty
    /\ body' = body + 1
    /\ active' = [s \in Stays |-> "none"]
    /\ UNCHANGED <<serviceVars, present>>

\* Discord drops the connection a dead body left behind.
Drops(s) ==
    /\ s \in present /\ active[s] = "none"
    /\ present' = present \ {s}
    /\ UNCHANGED <<serviceVars, active, body, faults>>

-----------------------------------------------------------------------------
\* A device call.

CallStarts(c) ==
    /\ up /\ calls[c].phase = "idle"
    /\ Acquires(Main, {})
    /\ calls' = [calls EXCEPT ![c] = [phase |-> "live", token |-> issued']]
    /\ UNCHANGED <<up, stays, restartClaims, authority, recovery, bodyVars, faults>>

\* Hung up, gone silent, or not renewed: the session is being disposed of.
CallEnds(c) ==
    /\ calls[c].phase = "live"
    /\ calls' = [calls EXCEPT ![c].phase = "ending"]
    /\ UNCHANGED <<up, claim, issued, stays, restartClaims, authority, recovery, bodyVars, faults>>

CallReleases(c) ==
    /\ calls[c].phase = "ending"
    /\ calls' = [calls EXCEPT ![c].phase = "over"]
    /\ claim' = IF IsLive(calls[c].token) /\ claim.pins = {} THEN NoClaim ELSE claim
    /\ UNCHANGED <<up, issued, stays, restartClaims, authority, recovery, bodyVars, faults>>

-----------------------------------------------------------------------------
\* A recovery: an owner's, an operator's or the voice leave tool's at any time,
\* the sweep's when the claim is expired and unpinned.

RecoveryBegins(sweep) ==
    /\ up /\ claim # NoClaim /\ RecoveryPin \notin claim.pins
    /\ sweep => claim.expired /\ claim.pins = {}
    /\ claim' = [claim EXCEPT !.expired = TRUE, !.pins = @ \cup {RecoveryPin}]
    /\ recovery' = [sweep |-> sweep, step |-> "begun", records |-> {}, body |-> body]
    /\ UNCHANGED <<up, issued, stays, restartClaims, authority, calls, bodyVars, faults>>

\* With no unfinished stay on record there is nobody to ask.
RecoveryAsks ==
    /\ recovery # NoRecovery /\ recovery.step = "begun"
    /\ \A s \in Unfinished : stays[s].conv = claim.conv
    /\ recovery' = [recovery EXCEPT !.step = IF Unfinished = {} THEN "confirmed" ELSE "asked",
                                    !.records = Unfinished, !.body = body]
    /\ UNCHANGED <<up, claim, issued, stays, restartClaims, authority, calls, bodyVars, faults>>

\* The body stops for the stays asked about only if it knows of no other.
BodyAllows == \A s \in Stays : active[s] # "none" => s \in recovery.records

\* Mutant: Absence inferred from a new process's empty map.
InfersAbsence ==
    /\ recovery # NoRecovery /\ recovery.step = "asked"
    /\ recovery.body = body /\ BodyAllows
    /\ present' = {s \in present : active[s] \notin {"started", "lost"}}
    /\ active' = [s \in Stays |-> IF active[s] \in {"started", "lost"} THEN "left" ELSE active[s]]
    /\ recovery' = [recovery EXCEPT !.step = "confirmed"]
    /\ UNCHANGED <<up, claim, issued, stays, restartClaims, authority, calls, body, faults>>

\* It stops, leaves, and answers when Discord has confirmed the leave, as Discord
\* is taken to do for one who is in no room as well.
BodyConfirms ==
    /\ recovery # NoRecovery /\ recovery.step = "asked"
    /\ recovery.body = body /\ BodyAllows
    /\ present' = present \ recovery.records
    /\ active' = [s \in Stays |-> IF active[s] \in {"started", "lost"} THEN "left" ELSE active[s]]
    /\ recovery' = [recovery EXCEPT !.step = "confirmed"]
    /\ UNCHANGED <<up, claim, issued, stays, restartClaims, authority, calls, body, faults>>

RecordsEnded(records) ==
    stays' = [s \in Stays |-> IF s \in records THEN [stays[s] EXCEPT !.finished = TRUE] ELSE stays[s]]

RecoveryFrees ==
    /\ recovery # NoRecovery /\ recovery.step = "confirmed"
    /\ recovery.sweep => claim.pins \subseteq {RecoveryPin}
    /\ RecordsEnded(recovery.records)
    /\ authority' = authority \ recovery.records
    /\ claim' = IF Unfinished \subseteq recovery.records
                THEN Reconciled(recovery.records \cup {RecoveryPin})
                ELSE [claim EXCEPT !.pins = @ \ (recovery.records \cup {RecoveryPin})]
    /\ recovery' = NoRecovery
    /\ UNCHANGED <<up, issued, restartClaims, calls, bodyVars, faults>>

RecoveryIsCut ==
    /\ recovery # NoRecovery /\ recovery.step = "confirmed" /\ Faulty
    /\ RecordsEnded(recovery.records)
    /\ LosesMemory
    /\ UNCHANGED <<claim, issued, bodyVars>>

\* Refused by the body, or by a grant or a deadline.
RecoveryFails ==
    /\ recovery # NoRecovery
    /\ \/ recovery.step = "asked" /\ ~(recovery.body = body /\ BodyAllows) /\ Faultless
       \/ Faulty
    /\ recovery' = NoRecovery
    /\ claim' = [claim EXCEPT !.pins = @ \ {RecoveryPin}]
    /\ UNCHANGED <<up, issued, stays, restartClaims, authority, calls, bodyVars>>

-----------------------------------------------------------------------------
RecoveryStep == RecoveryAsks \/ BodyConfirms \/ RecoveryFrees \/ RecoveryFails

Next ==
    \/ Lapses \/ Crashes \/ Restarts \/ BodyCrashes
    \/ \E conv \in Conversations : OperatorAcquires(conv) \/ AdmitIsCut(conv)
    \/ \E s \in Stays :
        \/ \E conv \in Conversations, room \in Rooms : Admits(s, conv, room)
        \/ Starts(s) \/ Loses(s) \/ Leaves(s)
        \/ Finishes(s) \/ FinishIsCut(s) \/ FinishFails(s) \/ Drops(s)
    \/ \E c \in Calls : CallStarts(c) \/ CallEnds(c) \/ CallReleases(c)
    \/ \E sweep \in BOOLEAN : RecoveryBegins(sweep)
    \/ RecoveryStep \/ RecoveryIsCut

Spec == Init /\ [][Next]_vars

\* The service is started again, the sweep runs on its timer, a recovery takes
\* its steps, and the body reports a leave.  Nobody has to end a stay or a call.
Fairness ==
    /\ WF_vars(Restarts)
    /\ WF_vars(RecoveryBegins(TRUE))
    /\ WF_vars(RecoveryStep)
    /\ \A s \in Stays : WF_vars(Finishes(s) \/ FinishFails(s))

FairSpec == Spec /\ Fairness

\* A body that also gives up every stay whose heartbeat is refused, and to which
\* Discord confirms every leave.
PromptSpec ==
    /\ FairSpec
    /\ \A s \in Stays :
        /\ WF_vars(~HeartbeatRenewed(s) /\ Loses(s))
        /\ WF_vars(active[s] = "lost" /\ Leaves(s))

-----------------------------------------------------------------------------
\* Properties.

\* Every part of the state keeps its type.
TypeOK ==
    /\ up \in BOOLEAN
    /\ claim \in Claim \cup {NoClaim}
    /\ issued \in Nat
    /\ stays \in [Stays -> Stay \cup {NoStay}]
    /\ restartClaims \in [Stays -> Tokens \cup {0}]
    /\ authority \subseteq Stays
    /\ recovery \in Recovery \cup {NoRecovery}
    /\ calls \in [Calls -> [phase : {"idle", "live", "ending", "over"}, token : Tokens \cup {0}]]
    /\ active \in [Stays -> {"none", "admitted", "started", "lost", "left", "leaked"}]
    /\ present \subseteq Stays
    /\ body \in Nat \ {0}
    /\ faults \in 0..MaxFaults

\* While a stay has not ended on record, its conversation holds the voice, and
\* in a running service under a token with which the stay's end can free it:
\* no release, recovery or restart gives the voice away under a stay
\* (body-voice-stays.ts, "every persisted stay must terminate").
StaysHoldTheVoice ==
    \A s \in Unfinished :
        /\ claim # NoClaim
        /\ claim.conv = stays[s].conv
        /\ up => claim.token = ClaimTokenOf(s)

\* A stay ends on record only after Discord no longer shows it in a room,
\* through crashes of both processes ("actual gateway leave").
EndedStaysHaveLeft == present \subseteq Unfinished

\* No two stays are in different rooms, not even one that a dead body left
\* connected and one of its successor.
OneRoom == \A s, t \in present : stays[s].room = stays[t].room

\* A device call that still holds its claim is alone: no stay is in a room, and
\* none has been admitted to one (ADR 0288, "busy rather than riding on the
\* call's lease").
CallHoldsAlone ==
    \A c \in Calls :
        calls[c].phase \in {"live", "ending"} /\ Holds(calls[c].token)
            => present = {} /\ Unfinished = {}

\* A claim that is expired and that nothing has pinned is freed by the sweep in
\* the end, unless the body remembers a stay that the service has ended.
Blocked == \E s \in Stays : active[s] # "none" /\ s \notin Unfinished
Idle == claim # NoClaim /\ claim.expired /\ claim.pins \subseteq {RecoveryPin}
SweepFreesTheVoice == Idle ~> (claim = NoClaim \/ Blocked)

\* The same without the exception, for a body as prompt as can be: the stop-check
\* that docs/cli.md has the service retry "with backoff" succeeds in the end.
RecoveryGetsThrough == Idle ~> (claim = NoClaim)
=============================================================================
