--------------------------- MODULE VoiceBodyProofs ---------------------------
(***************************************************************************)
(* The voice, for any conversations, rooms, stays and calls and any number *)
(* of crashes: no stay loses it before it has ended, none has ended while  *)
(* he is in a room, he is in one room, and a call that holds the voice is  *)
(* alone.                                                                  *)
(***************************************************************************)
EXTENDS VoiceBody, TLAPS

-----------------------------------------------------------------------------
(* What the four invariants rest on.                                       *)

\* Every restart was paid for by the fault that stopped the service.
TokensBounded ==
    /\ issued <= MaxTokens + faults
    /\ ~up => issued < MaxTokens + faults

\* Only a running service has calls, each under a token given out earlier.
CallsOK ==
    \A c \in Calls : calls[c].phase \in {"live", "ending"} =>
        up /\ calls[c].token \in 1..issued

\* A call's claim is never shared with a stay.
CallsAlone ==
    \A c \in Calls :
        calls[c].phase \in {"live", "ending"} /\ Holds(calls[c].token)
            => Unfinished = {}

\* Neither side remembers anything of a stay that was never recorded.
StaysKnown ==
    \A s \in Stays :
        restartClaims[s] # 0 \/ active[s] # "none" => stays[s] # NoStay

\* The service answers heartbeats for unfinished stays only.
AuthorityOK == authority \subseteq Unfinished

\* A living body that shows in a room for a stay remembers the stay.
PresentOK == \A s \in present : active[s] \in {"none", "started", "lost"}

\* While a recovery is under way the claim is pinned and refuses heartbeats;
\* once the body has confirmed, none of its stays is in a room.
RecoveryOK ==
    recovery # NoRecovery =>
        /\ up
        /\ claim # NoClaim /\ claim.expired = TRUE /\ RecoveryPin \in claim.pins
        /\ \A s \in recovery.records : stays[s] # NoStay
        /\ recovery.step = "confirmed" => recovery.records \cap present = {}

\* The stays on record that have not ended are in one room.
SameRoom == \A s, t \in Unfinished : stays[s].room = stays[t].room

VInv ==
    /\ TypeOK
    /\ TokensBounded
    /\ CallsOK
    /\ CallsAlone
    /\ StaysKnown
    /\ AuthorityOK
    /\ PresentOK
    /\ RecoveryOK
    /\ SameRoom
    /\ StaysHoldTheVoice
    /\ EndedStaysHaveLeft

-----------------------------------------------------------------------------
(* Type correctness.                                                       *)

LEMMA InitTypeOK == Init => TypeOK
  BY BoundsAssumption DEF Init, TypeOK

\* A claim stays one when it lapses or when pins come and go.
LEMMA ClaimTypes ==
  ASSUME NEW c \in Claim, NEW e \in BOOLEAN, NEW P \in SUBSET Pins
  PROVE  /\ [c EXCEPT !.pins = P] \in Claim
         /\ [c EXCEPT !.expired = e] \in Claim
         /\ [c EXCEPT !.expired = e, !.pins = P] \in Claim
         /\ c # NoClaim
  BY NoneAssumption DEF Claim

LEMMA NewClaimTypes ==
  ASSUME TypeOK, NEW conv \in Conversations, NEW P \in SUBSET Pins,
         Acquires(conv, P)
  PROVE  /\ claim' \in Claim /\ claim' # NoClaim
         /\ claim'.conv = conv /\ claim'.token = issued' /\ claim'.pins = P
         /\ claim = NoClaim
         /\ issued' = issued + 1 /\ issued' \in Tokens
<1>1. issued + 1 \in Tokens
  BY BoundsAssumption DEF TypeOK, Acquires, Tokens
<1>2. NewClaim(conv, P) \in Claim
  BY <1>1 DEF NewClaim, Claim
<1>. QED BY <1>1, <1>2, NoneAssumption DEF Acquires, NewClaim

\* An ended body frees the claim or leaves it with fewer pins.
LEMMA ReconciledTypes ==
  ASSUME claim \in Claim, NEW U
  PROVE  /\ Reconciled(U) \in Claim \cup {NoClaim}
         /\ Reconciled(U) # NoClaim =>
               /\ Reconciled(U).conv = claim.conv
               /\ Reconciled(U).token = claim.token
               /\ Reconciled(U).expired = claim.expired
               /\ Reconciled(U).pins = claim.pins \ U
<1>1. claim.pins \ U \in SUBSET Pins
  BY DEF Claim
<1>2. [claim EXCEPT !.pins = @ \ U] \in Claim
  BY <1>1, ClaimTypes
<1>. QED BY <1>2 DEF Reconciled, Claim

LEMMA FinishedTypes ==
  ASSUME TypeOK, NEW R \in SUBSET Stays, \A s \in R : stays[s] # NoStay,
         RecordsEnded(R)
  PROVE  /\ stays' \in [Stays -> Stay \cup {NoStay}]
         /\ \A s \in Stays :
               /\ stays'[s] # NoStay <=> stays[s] # NoStay
               /\ stays[s] # NoStay => stays'[s].conv = stays[s].conv
                                       /\ stays'[s].room = stays[s].room
                                       /\ stays'[s].token = stays[s].token
         /\ Unfinished' = Unfinished \ R
<1>1. ASSUME NEW s \in Stays
      PROVE  /\ stays'[s] \in Stay \cup {NoStay}
             /\ stays'[s] # NoStay <=> stays[s] # NoStay
             /\ stays[s] # NoStay => /\ stays'[s].conv = stays[s].conv
                                     /\ stays'[s].room = stays[s].room
                                     /\ stays'[s].token = stays[s].token
             /\ s \in R => stays'[s].finished = TRUE
             /\ s \notin R => stays'[s] = stays[s]
  <2>1. CASE s \in R
    <3>1. stays[s] \in Stay
      BY <2>1 DEF TypeOK
    <3>2. stays'[s] = [stays[s] EXCEPT !.finished = TRUE]
      BY <2>1 DEF RecordsEnded
    <3>3. stays'[s] \in Stay
      BY <3>1, <3>2 DEF Stay
    <3>. QED BY <2>1, <3>1, <3>2, <3>3, NoneAssumption DEF Stay
  <2>2. CASE s \notin R
    BY <2>2 DEF RecordsEnded, TypeOK
  <2>. QED BY <2>1, <2>2
<1>2. stays' \in [Stays -> Stay \cup {NoStay}]
  BY <1>1 DEF RecordsEnded
<1>. QED BY <1>1, <1>2 DEF Unfinished

LEMMA OneFinishedTypes ==
  ASSUME TypeOK, NEW s \in Stays, stays[s] # NoStay,
         stays' = [stays EXCEPT ![s].finished = TRUE]
  PROVE  RecordsEnded({s})
  BY DEF TypeOK, RecordsEnded

LEMMA LostTypes ==
  ASSUME TypeOK, LosesMemory
  PROVE  /\ up' = FALSE /\ authority' = {} /\ recovery' = NoRecovery
         /\ restartClaims' = [s \in Stays |-> 0]
         /\ calls' \in [Calls -> [phase : {"idle", "live", "ending", "over"},
                                  token : Tokens \cup {0}]]
         /\ \A c \in Calls : calls'[c].phase \notin {"live", "ending"}
<1>1. ASSUME NEW c \in Calls
      PROVE  /\ calls'[c] \in [phase : {"idle", "live", "ending", "over"},
                               token : Tokens \cup {0}]
             /\ calls'[c].phase \notin {"live", "ending"}
  BY DEF TypeOK, LosesMemory
<1>. QED BY <1>1 DEF LosesMemory

LEMMA StepTypeOK ==
  ASSUME TypeOK, TokensBounded, StaysKnown, RecoveryOK, [Next]_vars
  PROVE  TypeOK'
<1> USE DEF serviceVars, bodyVars
<1>1. CASE UNCHANGED vars
  BY <1>1 DEF vars, TypeOK
<1>2. CASE Lapses
  <2>1. claim' \in Claim
    BY <1>2, ClaimTypes DEF Lapses, TypeOK
  <2>. QED BY <1>2, <2>1 DEF Lapses, TypeOK
<1>3. CASE Crashes
  <2>1. faults' \in 0..MaxFaults
    BY <1>3, BoundsAssumption DEF Crashes, Faulty, TypeOK
  <2>. QED BY <1>3, <2>1, LostTypes DEF Crashes, TypeOK
<1>4. CASE Restarts
  <2>1. issued + 1 \in Tokens
    BY <1>4, BoundsAssumption DEF Restarts, TypeOK, TokensBounded, Tokens
  <2>2. CASE claim = NoClaim
    BY <1>4, <2>2 DEF Restarts, TypeOK
  <2>3. CASE claim # NoClaim
    <3>1. Rotated(claim) \in Claim
      BY <2>1, <2>3 DEF TypeOK, Rotated, Claim
    <3>. QED BY <1>4, <2>1, <2>3, <3>1 DEF Restarts, TypeOK
  <2>. QED BY <2>2, <2>3
<1>5. CASE BodyCrashes
  <2>1. faults' \in 0..MaxFaults
    BY <1>5, BoundsAssumption DEF BodyCrashes, Faulty, TypeOK
  <2>. QED BY <1>5, <2>1 DEF BodyCrashes, TypeOK
<1>6. ASSUME NEW conv \in Conversations, OperatorAcquires(conv)
      PROVE  TypeOK'
  BY <1>6, NewClaimTypes DEF OperatorAcquires, TypeOK
<1>7. ASSUME NEW conv \in Conversations, AdmitIsCut(conv)
      PROVE  TypeOK'
  <2>1. faults' \in 0..MaxFaults
    BY <1>7, BoundsAssumption DEF AdmitIsCut, Faulty, TypeOK
  <2>2. claim' \in Claim /\ issued' \in Nat
    BY <1>7, NewClaimTypes DEF AdmitIsCut, TypeOK
  <2>. QED BY <1>7, <2>1, <2>2, LostTypes DEF AdmitIsCut, TypeOK
<1>8. ASSUME NEW s \in Stays, NEW conv \in Conversations, NEW room \in Rooms,
             Admits(s, conv, room)
      PROVE  TypeOK'
  <2>1. claim' \in Claim /\ issued' \in Nat
    <3>1. CASE Acquires(conv, {s})
      BY <3>1, NewClaimTypes DEF TypeOK, Pins
    <3>2. CASE Shares(s, conv, room)
      <4>1. claim \in Claim /\ claim.pins \cup {s} \in SUBSET Pins
        BY <3>2 DEF Shares, TypeOK, Claim, Pins
      <4>. QED BY <3>2, <4>1, ClaimTypes DEF Shares, TypeOK
    <3>. QED BY <1>8, <3>1, <3>2 DEF Admits
  <2>2. NewStay(conv, room, claim'.token) \in Stay
    BY <2>1 DEF NewStay, Stay, Claim, TypeOK
  <2>3. stays' \in [Stays -> Stay \cup {NoStay}]
    BY <1>8, <2>2 DEF Admits, TypeOK
  <2>4. faults' \in 0..MaxFaults
    BY <1>8, BoundsAssumption DEF Admits, Faulty, Faultless, TypeOK
  <2>5. active' \in [Stays -> {"none", "admitted", "started", "lost", "left", "leaked"}]
    BY <1>8 DEF Admits, TypeOK
  <2>. QED BY <1>8, <2>1, <2>3, <2>4, <2>5 DEF Admits, TypeOK
<1>9. ASSUME NEW s \in Stays, Starts(s) \/ Loses(s) \/ Leaves(s) \/ Drops(s)
      PROVE  TypeOK'
  BY <1>9 DEF Starts, Loses, Leaves, Drops, TypeOK
<1>10. ASSUME NEW s \in Stays, Finishes(s)
       PROVE  TypeOK'
  <2>1. stays[s] # NoStay
    BY <1>10 DEF Finishes, StaysKnown
  <2>2. faults' \in 0..MaxFaults
    BY <1>10, BoundsAssumption DEF Finishes, Faulty, Faultless, TypeOK
  <2>3. active' \in [Stays -> {"none", "admitted", "started", "lost", "left", "leaked"}]
    BY <1>10 DEF Finishes, TypeOK
  <2>4. CASE stays[s].finished
    BY <1>10, <2>2, <2>3, <2>4 DEF Finishes, RecordsFinish, TypeOK
  <2>5. CASE ~stays[s].finished
    <3>1. claim \in Claim
      BY <1>10, <2>5 DEF Finishes, FinishAccepted, Holds, TypeOK
    <3>2. claim.pins \ {s} \in SUBSET Pins
      BY <3>1 DEF Claim
    <3>3. ClaimAfter(s) \in Claim \cup {NoClaim}
      BY <3>1, <3>2, ClaimTypes, ReconciledTypes DEF ClaimAfter
    <3>4. stays' \in [Stays -> Stay \cup {NoStay}]
      <4>1. RecordsEnded({s})
        BY <1>10, <2>1, <2>5, OneFinishedTypes DEF Finishes, RecordsFinish
      <4>. QED BY <2>1, <4>1, FinishedTypes
    <3>. QED BY <1>10, <2>2, <2>3, <2>5, <3>3, <3>4
         DEF Finishes, RecordsFinish, TypeOK
  <2>. QED BY <2>4, <2>5
<1>11. ASSUME NEW s \in Stays, FinishIsCut(s)
       PROVE  TypeOK'
  <2>1. stays[s] # NoStay
    BY <1>11 DEF FinishIsCut, StaysKnown
  <2>2. faults' \in 0..MaxFaults
    BY <1>11, BoundsAssumption DEF FinishIsCut, Faulty, TypeOK
  <2>3. active' \in [Stays -> {"none", "admitted", "started", "lost", "left", "leaked"}]
    BY <1>11 DEF FinishIsCut, TypeOK
  <2>4. stays' \in [Stays -> Stay \cup {NoStay}]
    <3>1. RecordsEnded({s})
      BY <1>11, <2>1, OneFinishedTypes DEF FinishIsCut
    <3>. QED BY <2>1, <3>1, FinishedTypes
  <2>. QED BY <1>11, <2>2, <2>3, <2>4, LostTypes DEF FinishIsCut, TypeOK
<1>12. ASSUME NEW s \in Stays, FinishFails(s)
       PROVE  TypeOK'
  BY <1>12 DEF FinishFails, TypeOK
<1>13. ASSUME NEW c \in Calls, CallStarts(c)
       PROVE  TypeOK'
  <2>1. claim' \in Claim /\ issued' \in Tokens /\ issued' \in Nat
    BY <1>13, NewClaimTypes, MainAssumption DEF CallStarts, TypeOK
  <2>. QED BY <1>13, <2>1 DEF CallStarts, TypeOK
<1>14. ASSUME NEW c \in Calls, CallEnds(c) \/ CallReleases(c)
       PROVE  TypeOK'
  <2>1. calls' \in [Calls -> [phase : {"idle", "live", "ending", "over"},
                              token : Tokens \cup {0}]]
    BY <1>14 DEF CallEnds, CallReleases, TypeOK
  <2>. QED BY <1>14, <2>1 DEF CallEnds, CallReleases, TypeOK
<1>15. ASSUME NEW sweep \in BOOLEAN, RecoveryBegins(sweep)
       PROVE  TypeOK'
  <2>1. claim' \in Claim
    <3>1. claim \in Claim /\ claim.pins \cup {RecoveryPin} \in SUBSET Pins
      BY <1>15 DEF RecoveryBegins, TypeOK, Claim, Pins
    <3>. QED BY <1>15, <3>1, ClaimTypes DEF RecoveryBegins
  <2>2. recovery' \in Recovery
    BY <1>15 DEF RecoveryBegins, Recovery, TypeOK
  <2>. QED BY <1>15, <2>1, <2>2 DEF RecoveryBegins, TypeOK
<1>16. CASE RecoveryAsks
  <2>1. recovery' \in Recovery
    BY <1>16 DEF RecoveryAsks, Recovery, TypeOK, Unfinished
  <2>. QED BY <1>16, <2>1 DEF RecoveryAsks, TypeOK
<1>17. CASE BodyConfirms
  <2>1. recovery' \in Recovery
    BY <1>17 DEF BodyConfirms, Recovery, TypeOK
  <2>2. active' \in [Stays -> {"none", "admitted", "started", "lost", "left", "leaked"}]
    BY <1>17 DEF BodyConfirms, TypeOK
  <2>. QED BY <1>17, <2>1, <2>2 DEF BodyConfirms, TypeOK
<1>18. CASE RecoveryFrees
  <2>1. recovery.records \subseteq Stays /\ \A s \in recovery.records : stays[s] # NoStay
    BY <1>18 DEF RecoveryFrees, RecoveryOK, TypeOK, Recovery
  <2>2. stays' \in [Stays -> Stay \cup {NoStay}]
    BY <1>18, <2>1, FinishedTypes DEF RecoveryFrees
  <2>3. claim \in Claim
    BY <1>18 DEF RecoveryFrees, RecoveryOK, TypeOK
  <2>4. claim.pins \ (recovery.records \cup {RecoveryPin}) \in SUBSET Pins
    BY <2>3 DEF Claim
  <2>5. claim' \in Claim \cup {NoClaim}
    BY <1>18, <2>3, <2>4, ClaimTypes, ReconciledTypes DEF RecoveryFrees
  <2>. QED BY <1>18, <2>2, <2>5 DEF RecoveryFrees, TypeOK
<1>19. CASE RecoveryIsCut
  <2>1. recovery.records \subseteq Stays /\ \A s \in recovery.records : stays[s] # NoStay
    BY <1>19 DEF RecoveryIsCut, RecoveryOK, TypeOK, Recovery
  <2>2. stays' \in [Stays -> Stay \cup {NoStay}]
    BY <1>19, <2>1, FinishedTypes DEF RecoveryIsCut
  <2>3. faults' \in 0..MaxFaults
    BY <1>19, BoundsAssumption DEF RecoveryIsCut, Faulty, TypeOK
  <2>. QED BY <1>19, <2>2, <2>3, LostTypes DEF RecoveryIsCut, TypeOK
<1>20. CASE RecoveryFails
  <2>1. claim \in Claim
    BY <1>20 DEF RecoveryFails, RecoveryOK, TypeOK
  <2>2. claim.pins \ {RecoveryPin} \in SUBSET Pins
    BY <2>1 DEF Claim
  <2>3. claim' \in Claim
    BY <1>20, <2>1, <2>2, ClaimTypes DEF RecoveryFails
  <2>4. faults' \in 0..MaxFaults
    BY <1>20, BoundsAssumption DEF RecoveryFails, Faulty, Faultless, TypeOK
  <2>. QED BY <1>20, <2>3, <2>4 DEF RecoveryFails, TypeOK
<1>. QED BY <1>1, <1>2, <1>3, <1>4, <1>5, <1>6, <1>7, <1>8, <1>9, <1>10, <1>11,
            <1>12, <1>13, <1>14, <1>15, <1>16, <1>17, <1>18, <1>19, <1>20
         DEF Next, RecoveryStep

-----------------------------------------------------------------------------
(* The supporting parts.                                                   *)

\* One claim and one fault at most per step.
LEMMA StepTokensBounded ==
  ASSUME TypeOK, TokensBounded, [Next]_vars
  PROVE  TokensBounded'
<1> USE BoundsAssumption DEF TypeOK, TokensBounded, serviceVars, bodyVars
<1>1. CASE UNCHANGED <<up, issued, faults>>
  BY <1>1
<1>2. CASE up' = FALSE /\ up /\ Faulty /\ issued' = issued
  BY <1>2 DEF Faulty
<1>3. CASE Restarts
  BY <1>3 DEF Restarts
<1>4. ASSUME NEW conv \in Conversations, OperatorAcquires(conv) \/ AdmitIsCut(conv)
      PROVE  TokensBounded'
  BY <1>4 DEF OperatorAcquires, AdmitIsCut, Acquires, Faulty, LosesMemory
<1>5. ASSUME NEW s \in Stays, NEW conv \in Conversations, NEW room \in Rooms,
             Admits(s, conv, room)
      PROVE  TokensBounded'
  BY <1>5 DEF Admits, Acquires, Shares, Faulty, Faultless
<1>6. ASSUME NEW c \in Calls, CallStarts(c)
      PROVE  TokensBounded'
  BY <1>6 DEF CallStarts, Acquires
<1>7. CASE UNCHANGED <<up, issued>> /\ Faulty
  BY <1>7 DEF Faulty
<1>8. CASE \/ Lapses \/ \E c \in Calls : CallEnds(c) \/ CallReleases(c)
           \/ \E sweep \in BOOLEAN : RecoveryBegins(sweep)
           \/ RecoveryAsks \/ BodyConfirms \/ RecoveryFrees
           \/ \E s \in Stays : Starts(s) \/ Loses(s) \/ Leaves(s)
                               \/ FinishFails(s) \/ Drops(s)
  BY <1>1, <1>8 DEF Lapses, CallEnds, CallReleases, RecoveryBegins,
     RecoveryAsks, BodyConfirms, RecoveryFrees, Starts, Loses, Leaves,
     FinishFails, Drops
<1>9. CASE Crashes \/ RecoveryIsCut \/ \E s \in Stays : FinishIsCut(s)
  <2>1. CASE Crashes
    BY <1>2, <2>1 DEF Crashes, LosesMemory
  <2>2. CASE RecoveryIsCut
    BY <2>2 DEF RecoveryIsCut, LosesMemory, Faulty
  <2>3. ASSUME NEW s \in Stays, FinishIsCut(s)
        PROVE  TokensBounded'
    BY <1>2, <2>3 DEF FinishIsCut, LosesMemory, FinishAccepted
  <2>. QED BY <1>9, <2>1, <2>2, <2>3
<1>10. CASE BodyCrashes \/ RecoveryFails \/ \E s \in Stays : Finishes(s)
  BY <1>1, <1>7, <1>10 DEF BodyCrashes, RecoveryFails, Finishes, Faultless
<1>11. CASE UNCHANGED vars
  BY <1>1, <1>11 DEF vars
<1>. QED BY <1>3, <1>4, <1>5, <1>6, <1>8, <1>9, <1>10, <1>11
         DEF Next, RecoveryStep

LEMMA StepCallsOK ==
  ASSUME TypeOK, CallsOK, [Next]_vars
  PROVE  CallsOK'
<1> USE DEF TypeOK, CallsOK, serviceVars, bodyVars
<1>1. CASE UNCHANGED <<up, issued, calls>>
  BY <1>1
<1>2. CASE LosesMemory
  BY <1>2, LostTypes
<1>3. CASE Restarts
  BY <1>3 DEF Restarts
<1>4. ASSUME NEW conv \in Conversations, OperatorAcquires(conv)
      PROVE  CallsOK'
  BY <1>4 DEF OperatorAcquires, Acquires
<1>5. ASSUME NEW s \in Stays, NEW conv \in Conversations, NEW room \in Rooms,
             Admits(s, conv, room)
      PROVE  CallsOK'
  BY <1>5 DEF Admits, Acquires, Shares
<1>6. ASSUME NEW c \in Calls, CallStarts(c)
      PROVE  CallsOK'
  BY <1>6 DEF CallStarts, Acquires
<1>7. ASSUME NEW c \in Calls, CallEnds(c) \/ CallReleases(c)
      PROVE  CallsOK'
  BY <1>7 DEF CallEnds, CallReleases
<1>8. CASE \/ Lapses \/ BodyCrashes \/ RecoveryFails
           \/ \E sweep \in BOOLEAN : RecoveryBegins(sweep)
           \/ RecoveryAsks \/ BodyConfirms \/ RecoveryFrees
           \/ \E s \in Stays : Starts(s) \/ Loses(s) \/ Leaves(s)
                               \/ Finishes(s) \/ FinishFails(s) \/ Drops(s)
  BY <1>1, <1>8 DEF Lapses, BodyCrashes, RecoveryFails, RecoveryBegins,
     RecoveryAsks, BodyConfirms, RecoveryFrees, Starts, Loses, Leaves,
     Finishes, FinishFails, Drops
<1>9. CASE \/ Crashes \/ RecoveryIsCut \/ \E s \in Stays : FinishIsCut(s)
           \/ \E conv \in Conversations : AdmitIsCut(conv)
  BY <1>2, <1>9 DEF Crashes, RecoveryIsCut, FinishIsCut, AdmitIsCut
<1>10. CASE UNCHANGED vars
  BY <1>1, <1>10 DEF vars
<1>. QED BY <1>3, <1>4, <1>5, <1>6, <1>7, <1>8, <1>9, <1>10 DEF Next, RecoveryStep

-----------------------------------------------------------------------------
(* What the steps that begin or end stays do to the record.                *)

\* The steps that neither begin nor end a stay.
Keeps ==
    \/ Lapses \/ Crashes \/ Restarts \/ BodyCrashes
    \/ \E conv \in Conversations : OperatorAcquires(conv) \/ AdmitIsCut(conv)
    \/ \E s \in Stays : Starts(s) \/ Loses(s) \/ Leaves(s) \/ FinishFails(s) \/ Drops(s)
    \/ \E c \in Calls : CallStarts(c) \/ CallEnds(c) \/ CallReleases(c)
    \/ \E sweep \in BOOLEAN : RecoveryBegins(sweep)
    \/ RecoveryAsks \/ BodyConfirms \/ RecoveryFails

LEMMA KeepsEffect ==
  ASSUME Keeps
  PROVE  stays' = stays /\ Unfinished' = Unfinished
<1>1. stays' = stays
  BY DEF Keeps, Lapses, Crashes, Restarts, BodyCrashes, OperatorAcquires,
     AdmitIsCut, Starts, Loses, Leaves, FinishFails, Drops, CallStarts, CallEnds,
     CallReleases, RecoveryBegins, RecoveryAsks, BodyConfirms, RecoveryFails,
     serviceVars
<1>. QED BY <1>1 DEF Unfinished

LEMMA AdmitsEffect ==
  ASSUME TypeOK, NEW s \in Stays, NEW conv \in Conversations, NEW room \in Rooms,
         Admits(s, conv, room)
  PROVE  /\ stays[s] = NoStay
         /\ stays'[s] # NoStay
         /\ stays'[s].conv = conv /\ stays'[s].room = room
         /\ stays'[s].token = claim'.token
         /\ \A t \in Stays \ {s} : stays'[t] = stays[t]
         /\ Unfinished' = Unfinished \cup {s}
         /\ claim' # NoClaim /\ claim'.conv = conv
         /\ \/ claim = NoClaim /\ issued' = issued + 1 /\ claim'.token = issued'
            \/ /\ claim # NoClaim /\ claim.conv = conv
               /\ claim'.token = claim.token
               /\ HeldByStay /\ Compatible(room)
               /\ claim.expired = FALSE
<1>1. /\ claim' \in Claim /\ claim' # NoClaim /\ claim'.conv = conv
      /\ \/ claim = NoClaim /\ issued' = issued + 1 /\ claim'.token = issued'
         \/ /\ claim # NoClaim /\ claim.conv = conv
            /\ claim'.token = claim.token
            /\ HeldByStay /\ Compatible(room)
            /\ claim.expired = FALSE
  <2>1. CASE Acquires(conv, {s})
    BY <2>1, NewClaimTypes DEF Pins
  <2>2. CASE Shares(s, conv, room)
    <3>1. claim \in Claim /\ claim.pins \cup {s} \in SUBSET Pins
      BY <2>2 DEF Shares, TypeOK, Claim, Pins
    <3>2. claim' \in Claim /\ claim' # NoClaim
      BY <2>2, <3>1, ClaimTypes DEF Shares
    <3>3. claim'.conv = conv /\ claim'.token = claim.token
      BY <2>2, <3>1 DEF Shares, Claim
    <3>. QED BY <2>2, <3>1, <3>2, <3>3 DEF Shares, Claim
  <2>. QED BY <2>1, <2>2 DEF Admits
<1>2. NewStay(conv, room, claim'.token) \in Stay
  BY <1>1 DEF NewStay, Stay, Claim, TypeOK
<1>3. /\ stays[s] = NoStay
      /\ stays'[s] = NewStay(conv, room, claim'.token)
      /\ \A t \in Stays \ {s} : stays'[t] = stays[t]
  BY DEF Admits, TypeOK
<1>4. stays'[s] # NoStay /\ stays'[s].finished = FALSE
  <2>1. stays'[s] \in Stay
    BY <1>2, <1>3
  <2>2. stays'[s] # NoStay
    BY <2>1, NoneAssumption
  <2>3. stays'[s].finished = FALSE
    BY <1>3 DEF NewStay
  <2>. QED BY <2>2, <2>3
<1>5. Unfinished' = Unfinished \cup {s}
  BY <1>3, <1>4 DEF Unfinished
<1>6. /\ stays'[s].conv = conv /\ stays'[s].room = room
      /\ stays'[s].token = claim'.token
  BY <1>3 DEF NewStay
<1>. QED BY <1>1, <1>3, <1>4, <1>5, <1>6

\* A report ends the stay on record, at once or again.
LEMMA FinishesEffect ==
  ASSUME TypeOK, StaysKnown, NEW s \in Stays, Finishes(s) \/ FinishIsCut(s)
  PROVE  /\ stays[s] # NoStay
         /\ \A t \in Stays :
               /\ stays'[t] # NoStay <=> stays[t] # NoStay
               /\ stays[t] # NoStay => stays'[t].conv = stays[t].conv
                                       /\ stays'[t].room = stays[t].room
                                       /\ stays'[t].token = stays[t].token
         /\ Unfinished' = Unfinished \ {s}
         /\ s \notin Unfinished => stays' = stays
<1>1. stays[s] # NoStay
  BY DEF Finishes, FinishIsCut, StaysKnown
<1>2. CASE ~stays[s].finished
  <2>1. RecordsEnded({s})
    BY <1>1, <1>2, OneFinishedTypes DEF Finishes, FinishIsCut, RecordsFinish
  <2>. QED BY <1>1, <1>2, <2>1, FinishedTypes DEF Unfinished
<1>3. CASE stays[s].finished
  <2>1. stays' = stays
    BY <1>3 DEF Finishes, FinishIsCut, RecordsFinish
  <2>2. s \notin Unfinished
    BY <1>3 DEF Unfinished
  <2>3. Unfinished' = Unfinished
    BY <2>1 DEF Unfinished
  <2>. QED BY <1>1, <2>1, <2>2, <2>3
<1>. QED BY <1>2, <1>3

LEMMA RecoveryEndsEffect ==
  ASSUME TypeOK, RecoveryOK, RecoveryFrees \/ RecoveryIsCut
  PROVE  /\ recovery.records \subseteq Stays
         /\ \A t \in Stays :
               /\ stays'[t] # NoStay <=> stays[t] # NoStay
               /\ stays[t] # NoStay => stays'[t].conv = stays[t].conv
                                       /\ stays'[t].room = stays[t].room
                                       /\ stays'[t].token = stays[t].token
         /\ Unfinished' = Unfinished \ recovery.records
         /\ recovery.records \cap present = {}
<1>1. /\ recovery # NoRecovery /\ recovery.step = "confirmed"
      /\ RecordsEnded(recovery.records)
  BY DEF RecoveryFrees, RecoveryIsCut
<1>2. recovery.records \subseteq Stays
  BY <1>1 DEF TypeOK, Recovery
<1>3. \A s \in recovery.records : stays[s] # NoStay
  BY <1>1 DEF RecoveryOK
<1>. QED BY <1>1, <1>2, <1>3, FinishedTypes DEF RecoveryOK

LEMMA NextCases ==
  ASSUME Next
  PROVE  \/ Keeps
         \/ \E s \in Stays :
               \/ \E conv \in Conversations, room \in Rooms : Admits(s, conv, room)
               \/ Finishes(s) \/ FinishIsCut(s)
         \/ RecoveryFrees \/ RecoveryIsCut
  BY DEF Next, RecoveryStep, Keeps

-----------------------------------------------------------------------------
(* The claim outlives its stays.                                           *)

LEMMA StepStaysHoldTheVoice ==
  ASSUME TypeOK, TokensBounded, StaysKnown, RecoveryOK, CallsAlone,
         StaysHoldTheVoice, [Next]_vars
  PROVE  StaysHoldTheVoice'
<1> USE DEF serviceVars, bodyVars
<1> DEFINE Held(s) == /\ claim # NoClaim
                      /\ claim.conv = stays[s].conv
                      /\ up => claim.token = ClaimTokenOf(s)
<1>0. \A s \in Unfinished : s \in Stays /\ Held(s)
  BY DEF Unfinished, StaysHoldTheVoice
<1>1. ASSUME stays' = stays, Unfinished' = Unfinished,
             UNCHANGED <<up, restartClaims>>,
             \/ Unfinished = {}
             \/ claim' = claim
             \/ /\ claim' # NoClaim
                /\ claim'.conv = claim.conv /\ claim'.token = claim.token
      PROVE  StaysHoldTheVoice'
  BY <1>0, <1>1 DEF StaysHoldTheVoice, ClaimTokenOf
<1>2. CASE UNCHANGED vars
  <2>1. stays' = stays /\ UNCHANGED <<up, restartClaims, claim>>
    BY <1>2 DEF vars
  <2>. QED BY <1>1, <2>1 DEF Unfinished
<1>3. ASSUME stays' = stays, Unfinished' = Unfinished, up' = FALSE,
             Unfinished = {} \/ claim' = claim
      PROVE  StaysHoldTheVoice'
  BY <1>0, <1>3 DEF StaysHoldTheVoice
<1>4. CASE Keeps
  <2>0. stays' = stays /\ Unfinished' = Unfinished
    BY <1>4, KeepsEffect
  <2>1. CASE Lapses \/ RecoveryFails \/ \E sweep \in BOOLEAN : RecoveryBegins(sweep)
    <3>1. claim \in Claim
      BY <2>1 DEF Lapses, RecoveryFails, RecoveryBegins, RecoveryOK, TypeOK
    <3>2. claim' # NoClaim
      <4>1. /\ claim.pins \cup {RecoveryPin} \in SUBSET Pins
            /\ claim.pins \ {RecoveryPin} \in SUBSET Pins
        BY <3>1 DEF Claim, Pins
      <4>2. claim' \in Claim
        BY <2>1, <3>1, <4>1, ClaimTypes DEF Lapses, RecoveryFails, RecoveryBegins
      <4>. QED BY <4>2, NoneAssumption
    <3>3. claim'.conv = claim.conv /\ claim'.token = claim.token
      BY <2>1, <3>1 DEF Claim, Lapses, RecoveryFails, RecoveryBegins
    <3>4. UNCHANGED <<up, restartClaims>>
      BY <2>1 DEF Lapses, RecoveryFails, RecoveryBegins
    <3>. QED BY <1>1, <2>0, <3>2, <3>3, <3>4
  <2>2. CASE Crashes
    BY <1>3, <2>0, <2>2 DEF Crashes, LosesMemory
  <2>3. CASE Restarts
    <3>1. CASE claim = NoClaim
      BY <1>0, <2>0, <2>3, <3>1 DEF StaysHoldTheVoice
    <3>2. CASE claim # NoClaim
      <4>1. claim \in Claim /\ claim' = Rotated(claim) /\ up' = TRUE
        BY <2>3, <3>2 DEF Restarts, TypeOK
      <4>2. Rotated(claim).conv = claim.conv /\ Rotated(claim).token = issued + 1
        BY <4>1 DEF Rotated, Claim
      <4>3. Rotated(claim) # NoClaim
        <5>1. issued + 1 \in Tokens
          BY <2>3, BoundsAssumption DEF Restarts, TypeOK, TokensBounded, Tokens
        <5>2. Rotated(claim) \in Claim
          BY <4>1, <5>1 DEF Rotated, Claim
        <5>. QED BY <5>2, NoneAssumption
      <4>4. \A s \in Unfinished : restartClaims'[s] = issued + 1
        BY <1>0, <2>3, <3>2 DEF Restarts
      <4>5. issued + 1 # 0
        BY DEF TypeOK
      <4>. QED BY <1>0, <2>0, <4>1, <4>2, <4>3, <4>4, <4>5
           DEF StaysHoldTheVoice, ClaimTokenOf
    <3>. QED BY <3>1, <3>2
  <2>4. ASSUME NEW conv \in Conversations, OperatorAcquires(conv) \/ AdmitIsCut(conv)
        PROVE  StaysHoldTheVoice'
    <3>1. Unfinished = {}
      BY <1>0, <2>4 DEF OperatorAcquires, AdmitIsCut, Acquires
    <3>. QED BY <2>0, <3>1 DEF StaysHoldTheVoice
  <2>5. ASSUME NEW c \in Calls, CallStarts(c)
        PROVE  StaysHoldTheVoice'
    <3>1. Unfinished = {}
      BY <1>0, <2>5 DEF CallStarts, Acquires
    <3>. QED BY <2>0, <3>1 DEF StaysHoldTheVoice
  <2>6. ASSUME NEW c \in Calls, CallReleases(c)
        PROVE  StaysHoldTheVoice'
    <3>1. claim' = claim \/ Unfinished = {}
      BY <2>6 DEF CallReleases, IsLive, CallsAlone
    <3>. QED BY <1>1, <2>0, <2>6, <3>1 DEF CallReleases
  <2>7. CASE \/ \E c \in Calls : CallEnds(c)
             \/ \E s \in Stays : Starts(s) \/ Loses(s) \/ Leaves(s)
                                 \/ FinishFails(s) \/ Drops(s)
             \/ BodyCrashes \/ RecoveryAsks \/ BodyConfirms
    <3>1. UNCHANGED <<up, restartClaims, claim>>
      BY <2>7 DEF CallEnds, Starts, Loses, Leaves, FinishFails, Drops,
         BodyCrashes, RecoveryAsks, BodyConfirms
    <3>. QED BY <1>1, <2>0, <3>1
  <2>. QED BY <1>4, <2>1, <2>2, <2>3, <2>4, <2>5, <2>6, <2>7 DEF Keeps
<1>5. ASSUME NEW s \in Stays, NEW conv \in Conversations, NEW room \in Rooms,
             Admits(s, conv, room)
      PROVE  StaysHoldTheVoice'
  <2>1. /\ stays[s] = NoStay
        /\ stays'[s].conv = conv /\ stays'[s].token = claim'.token
        /\ \A t \in Stays \ {s} : stays'[t] = stays[t]
        /\ Unfinished' = Unfinished \cup {s}
        /\ claim' # NoClaim /\ claim'.conv = conv
        /\ \/ claim = NoClaim
           \/ claim # NoClaim /\ claim.conv = conv /\ claim'.token = claim.token
    BY <1>5, AdmitsEffect
  <2>2. up /\ UNCHANGED <<up, restartClaims>>
    BY <1>5 DEF Admits
  <2>3. restartClaims[s] = 0
    BY <2>1 DEF StaysKnown
  <2>4. ClaimTokenOf(s)' = claim'.token
    BY <2>1, <2>2, <2>3 DEF ClaimTokenOf
  <2>5. ASSUME NEW t \in Unfinished, t # s
        PROVE  /\ claim'.conv = stays'[t].conv
               /\ claim'.token = ClaimTokenOf(t)'
    <3>1. stays'[t] = stays[t] /\ Held(t)
      BY <1>0, <2>1, <2>5
    <3>2. claim'.conv = claim.conv /\ claim'.token = claim.token
      BY <2>1, <3>1
    <3>. QED BY <2>2, <3>1, <3>2 DEF ClaimTokenOf
  <2>. QED BY <2>1, <2>4, <2>5 DEF StaysHoldTheVoice
<1>6. ASSUME NEW s \in Stays, Finishes(s) \/ FinishIsCut(s)
      PROVE  StaysHoldTheVoice'
  <2>1. /\ \A t \in Stays : stays[t] # NoStay =>
              /\ stays'[t].conv = stays[t].conv
              /\ stays'[t].token = stays[t].token
        /\ Unfinished' = Unfinished \ {s}
        /\ s \notin Unfinished => stays' = stays
    BY <1>6, FinishesEffect
  <2>2. \A t \in Unfinished : stays[t] # NoStay
    BY DEF Unfinished
  <2>3. CASE FinishIsCut(s)
    <3>1. up' = FALSE /\ claim' = claim
      BY <2>3 DEF FinishIsCut, LosesMemory
    <3>. QED BY <1>0, <2>1, <2>2, <3>1 DEF StaysHoldTheVoice
  <2>4. CASE Finishes(s)
    <3>1. UNCHANGED <<up, restartClaims>>
      BY <2>4 DEF Finishes
    <3>2. ASSUME NEW t \in Unfinished, t # s
          PROVE  /\ claim' # NoClaim
                 /\ claim'.conv = claim.conv /\ claim'.token = claim.token
      <4>0. claim \in Claim /\ claim.conv = stays[t].conv
        BY <1>0, <3>2 DEF TypeOK
      <4>1. CASE stays[s].finished
        BY <1>0, <2>4, <3>2, <4>1 DEF Finishes, RecordsFinish
      <4>2. CASE ~stays[s].finished
        <5>1. claim' = [claim EXCEPT !.pins = @ \ {s}]
          BY <2>4, <3>2, <4>0, <4>2 DEF Finishes, RecordsFinish, ClaimAfter
        <5>2. claim.pins \ {s} \in SUBSET Pins
          BY <4>0 DEF Claim
        <5>3. claim' \in Claim
          BY <4>0, <5>1, <5>2, ClaimTypes
        <5>. QED BY <4>0, <5>1, <5>3, NoneAssumption DEF Claim
      <4>. QED BY <4>1, <4>2
    <3>3. ASSUME NEW t \in Unfinished'
          PROVE  /\ claim' # NoClaim
                 /\ claim'.conv = stays'[t].conv
                 /\ up' => claim'.token = ClaimTokenOf(t)'
      <4>1. t \in Unfinished /\ t # s /\ t \in Stays
        BY <1>0, <2>1, <3>3
      <4>2. stays'[t].conv = stays[t].conv /\ stays'[t].token = stays[t].token
        BY <2>1, <2>2, <4>1
      <4>3. ClaimTokenOf(t)' = ClaimTokenOf(t)
        BY <3>1, <4>2 DEF ClaimTokenOf
      <4>. QED BY <1>0, <3>1, <3>2, <4>1, <4>2, <4>3
    <3>. QED BY <3>3 DEF StaysHoldTheVoice
  <2>. QED BY <1>6, <2>3, <2>4
<1>7. CASE RecoveryFrees \/ RecoveryIsCut
  <2>1. /\ \A t \in Stays : stays[t] # NoStay =>
              /\ stays'[t].conv = stays[t].conv
              /\ stays'[t].token = stays[t].token
        /\ Unfinished' = Unfinished \ recovery.records
    BY <1>7, RecoveryEndsEffect
  <2>2. \A t \in Unfinished : stays[t] # NoStay
    BY DEF Unfinished
  <2>3. CASE RecoveryIsCut
    <3>1. up' = FALSE /\ claim' = claim
      BY <2>3 DEF RecoveryIsCut, LosesMemory
    <3>. QED BY <1>0, <2>1, <2>2, <3>1 DEF StaysHoldTheVoice
  <2>4. CASE RecoveryFrees
    <3>1. UNCHANGED <<up, restartClaims>>
      BY <2>4 DEF RecoveryFrees
    <3>3. ASSUME NEW t \in Unfinished'
          PROVE  /\ claim' # NoClaim
                 /\ claim'.conv = stays'[t].conv
                 /\ up' => claim'.token = ClaimTokenOf(t)'
      <4>1. t \in Unfinished /\ t \notin recovery.records /\ t \in Stays
        BY <1>0, <2>1, <3>3
      <4>2. stays'[t].conv = stays[t].conv /\ stays'[t].token = stays[t].token
        BY <2>1, <2>2, <4>1
      <4>3. ClaimTokenOf(t)' = ClaimTokenOf(t)
        BY <3>1, <4>2 DEF ClaimTokenOf
      <4>4. claim \in Claim
        BY <1>0, <4>1 DEF TypeOK
      <4>5. claim' = [claim EXCEPT !.pins = @ \ (recovery.records \cup {RecoveryPin})]
        BY <2>4, <4>1 DEF RecoveryFrees
      <4>6. claim.pins \ (recovery.records \cup {RecoveryPin}) \in SUBSET Pins
        BY <4>4 DEF Claim
      <4>7. claim' \in Claim
        BY <4>4, <4>5, <4>6, ClaimTypes
      <4>8. /\ claim' # NoClaim
            /\ claim'.conv = claim.conv /\ claim'.token = claim.token
        BY <4>4, <4>5, <4>7, NoneAssumption DEF Claim
      <4>. QED BY <1>0, <3>1, <4>1, <4>2, <4>3, <4>8
    <3>. QED BY <3>3 DEF StaysHoldTheVoice
  <2>. QED BY <1>7, <2>3, <2>4
<1>. QED BY <1>2, <1>4, <1>5, <1>6, <1>7, NextCases

-----------------------------------------------------------------------------
(* What the processes remember.                                            *)

LEMMA StaysGrow ==
  ASSUME TypeOK, StaysKnown, RecoveryOK, [Next]_vars
  PROVE  \A t \in Stays : stays[t] # NoStay => stays'[t] # NoStay
<1>1. CASE UNCHANGED vars
  BY <1>1 DEF vars, serviceVars
<1>2. CASE Keeps
  BY <1>2, KeepsEffect
<1>3. ASSUME NEW s \in Stays, NEW conv \in Conversations, NEW room \in Rooms,
             Admits(s, conv, room)
      PROVE  \A t \in Stays : stays[t] # NoStay => stays'[t] # NoStay
  BY <1>3, AdmitsEffect
<1>4. ASSUME NEW s \in Stays, Finishes(s) \/ FinishIsCut(s)
      PROVE  \A t \in Stays : stays[t] # NoStay => stays'[t] # NoStay
  BY <1>4, FinishesEffect
<1>5. CASE RecoveryFrees \/ RecoveryIsCut
  BY <1>5, RecoveryEndsEffect
<1>. QED BY <1>1, <1>2, <1>3, <1>4, <1>5, NextCases

LEMMA StepStaysKnown ==
  ASSUME TypeOK, StaysKnown, RecoveryOK, [Next]_vars
  PROVE  StaysKnown'
<1> USE DEF serviceVars, bodyVars
<1>0. \A t \in Stays : stays[t] # NoStay => stays'[t] # NoStay
  BY StaysGrow
<1>1. ASSUME \A t \in Stays : /\ restartClaims'[t] \in {0, restartClaims[t]}
                              /\ active[t] = "none" => active'[t] = "none"
      PROVE  StaysKnown'
  BY <1>0, <1>1 DEF StaysKnown
<1>2. CASE UNCHANGED vars
  BY <1>1, <1>2 DEF vars
<1>3. CASE Restarts
  <2>1. \A t \in Stays : restartClaims'[t] # 0 => restartClaims[t] # 0 \/ t \in Unfinished
    BY <1>3 DEF Restarts
  <2>2. active' = active
    BY <1>3 DEF Restarts
  <2>. QED BY <1>0, <2>1, <2>2 DEF StaysKnown, Unfinished
<1>4. CASE Crashes \/ RecoveryIsCut \/ \E conv \in Conversations : AdmitIsCut(conv)
  BY <1>1, <1>4 DEF Crashes, RecoveryIsCut, AdmitIsCut, LosesMemory
<1>5. ASSUME NEW s \in Stays, NEW conv \in Conversations, NEW room \in Rooms,
             Admits(s, conv, room)
      PROVE  StaysKnown'
  <2>1. stays'[s] # NoStay
    BY <1>5, AdmitsEffect
  <2>2. \A t \in Stays \ {s} : active'[t] = active[t]
    BY <1>5 DEF Admits, TypeOK
  <2>3. restartClaims' = restartClaims
    BY <1>5 DEF Admits
  <2>. QED BY <1>0, <2>1, <2>2, <2>3 DEF StaysKnown
<1>6. CASE \E s \in Stays : \/ Starts(s) \/ Loses(s) \/ Leaves(s) \/ FinishFails(s)
                            \/ Drops(s) \/ Finishes(s)
  BY <1>1, <1>6 DEF Starts, Loses, Leaves, FinishFails, Drops, Finishes, TypeOK
<1>7. CASE \E s \in Stays : FinishIsCut(s)
  BY <1>1, <1>7 DEF FinishIsCut, LosesMemory, TypeOK
<1>8. CASE BodyCrashes \/ BodyConfirms
  BY <1>1, <1>8 DEF BodyCrashes, BodyConfirms
<1>9. CASE \/ Lapses \/ RecoveryAsks \/ RecoveryFails \/ RecoveryFrees
           \/ \E conv \in Conversations : OperatorAcquires(conv)
           \/ \E c \in Calls : CallStarts(c) \/ CallEnds(c) \/ CallReleases(c)
           \/ \E sweep \in BOOLEAN : RecoveryBegins(sweep)
  BY <1>1, <1>9 DEF Lapses, RecoveryAsks, RecoveryFails, RecoveryFrees,
     OperatorAcquires, CallStarts, CallEnds, CallReleases, RecoveryBegins
<1>. QED BY <1>2, <1>3, <1>4, <1>5, <1>6, <1>7, <1>8, <1>9
         DEF Next, RecoveryStep

LEMMA StepAuthorityOK ==
  ASSUME TypeOK, StaysKnown, RecoveryOK, AuthorityOK, [Next]_vars
  PROVE  AuthorityOK'
<1> USE DEF serviceVars, bodyVars
<1>1. CASE UNCHANGED vars
  BY <1>1 DEF vars, AuthorityOK, Unfinished
<1>2. CASE Keeps
  <2>1. authority' \subseteq authority
    BY <1>2 DEF Keeps, Lapses, Crashes, Restarts, BodyCrashes, OperatorAcquires,
       AdmitIsCut, Starts, Loses, Leaves, FinishFails, Drops, CallStarts, CallEnds,
       CallReleases, RecoveryBegins, RecoveryAsks, BodyConfirms, RecoveryFails,
       LosesMemory
  <2>. QED BY <1>2, <2>1, KeepsEffect DEF AuthorityOK
<1>3. ASSUME NEW s \in Stays, NEW conv \in Conversations, NEW room \in Rooms,
             Admits(s, conv, room)
      PROVE  AuthorityOK'
  <2>1. Unfinished' = Unfinished \cup {s}
    BY <1>3, AdmitsEffect
  <2>2. authority' = authority \cup {s}
    BY <1>3 DEF Admits
  <2>. QED BY <2>1, <2>2 DEF AuthorityOK
<1>4. ASSUME NEW s \in Stays, Finishes(s) \/ FinishIsCut(s)
      PROVE  AuthorityOK'
  <2>1. Unfinished' = Unfinished \ {s} /\ (s \notin Unfinished => stays' = stays)
    BY <1>4, FinishesEffect
  <2>2. authority' = authority \ {s} \/ authority' = {} \/ stays[s].finished
    BY <1>4 DEF Finishes, FinishIsCut, RecordsFinish, LosesMemory
  <2>3. stays[s].finished => s \notin authority
    BY DEF AuthorityOK, Unfinished
  <2>4. authority' \subseteq authority
    BY <1>4 DEF Finishes, FinishIsCut, RecordsFinish, LosesMemory
  <2>. QED BY <2>1, <2>2, <2>3, <2>4 DEF AuthorityOK
<1>5. CASE RecoveryFrees \/ RecoveryIsCut
  <2>1. Unfinished' = Unfinished \ recovery.records
    BY <1>5, RecoveryEndsEffect
  <2>2. authority' \subseteq authority \ recovery.records
    BY <1>5 DEF RecoveryFrees, RecoveryIsCut, LosesMemory
  <2>. QED BY <2>1, <2>2 DEF AuthorityOK
<1>. QED BY <1>1, <1>2, <1>3, <1>4, <1>5, NextCases

LEMMA StepPresentOK ==
  ASSUME TypeOK, StaysKnown, PresentOK, EndedStaysHaveLeft, [Next]_vars
  PROVE  PresentOK'
<1> USE DEF serviceVars, bodyVars
<1>1. ASSUME present' \subseteq present, active' = active
      PROVE  PresentOK'
  BY <1>1 DEF PresentOK
<1>2. ASSUME NEW s \in Stays, NEW conv \in Conversations, NEW room \in Rooms,
             Admits(s, conv, room)
      PROVE  PresentOK'
  <2>1. s \notin present
    BY <1>2 DEF Admits, EndedStaysHaveLeft, Unfinished
  <2>. QED BY <1>2, <2>1 DEF Admits, PresentOK, TypeOK
<1>3. ASSUME NEW s \in Stays,
             Starts(s) \/ Loses(s) \/ Leaves(s) \/ FinishFails(s)
                \/ Finishes(s) \/ FinishIsCut(s)
      PROVE  PresentOK'
  BY <1>3 DEF Starts, Loses, Leaves, FinishFails, Finishes, FinishIsCut, PresentOK, TypeOK
<1>4. CASE BodyCrashes
  BY <1>4 DEF BodyCrashes, PresentOK, TypeOK
<1>5. CASE BodyConfirms
  BY <1>5 DEF BodyConfirms, BodyAllows, PresentOK, TypeOK
<1>6. CASE \/ UNCHANGED vars
           \/ Lapses \/ Crashes \/ Restarts \/ RecoveryAsks \/ RecoveryFails
           \/ RecoveryFrees \/ RecoveryIsCut
           \/ \E conv \in Conversations : OperatorAcquires(conv) \/ AdmitIsCut(conv)
           \/ \E s \in Stays : Drops(s)
           \/ \E c \in Calls : CallStarts(c) \/ CallEnds(c) \/ CallReleases(c)
           \/ \E sweep \in BOOLEAN : RecoveryBegins(sweep)
  BY <1>1, <1>6 DEF vars, Lapses, Crashes, Restarts, RecoveryAsks, RecoveryFails,
     RecoveryFrees, RecoveryIsCut, OperatorAcquires, AdmitIsCut, Drops, CallStarts,
     CallEnds, CallReleases, RecoveryBegins
<1>. QED BY <1>2, <1>3, <1>4, <1>5, <1>6 DEF Next, RecoveryStep

-----------------------------------------------------------------------------
(* A recovery keeps the claim it began with.                               *)

LEMMA StepRecoveryOK ==
  ASSUME TypeOK, StaysKnown, AuthorityOK, RecoveryOK, [Next]_vars
  PROVE  RecoveryOK'
<1> USE DEF serviceVars, bodyVars
<1> DEFINE Blocks == claim # NoClaim /\ claim.expired = TRUE /\ RecoveryPin \in claim.pins
<1>0. \A t \in Stays : stays[t] # NoStay => stays'[t] # NoStay
  BY StaysGrow
<1>1. ASSUME recovery # NoRecovery
      PROVE  /\ up /\ claim \in Claim /\ Blocks
             /\ recovery \in Recovery /\ recovery.records \subseteq Stays
             /\ \A t \in Stays : ~HeartbeatRenewed(t)
  <2>1. up /\ claim \in Claim /\ Blocks /\ recovery \in Recovery
    BY <1>1 DEF RecoveryOK, TypeOK
  <2>2. recovery.records \subseteq Stays
    BY <2>1 DEF Recovery
  <2>. QED BY <2>1, <2>2 DEF HeartbeatRenewed, IsLive
<1>2. ASSUME recovery # NoRecovery, recovery' = recovery, up' = up,
             claim' = claim, present' \subseteq present
      PROVE  RecoveryOK'
  BY <1>0, <1>1, <1>2 DEF RecoveryOK
<1>3. ASSUME recovery' = NoRecovery
      PROVE  RecoveryOK'
  BY <1>3 DEF RecoveryOK
<1>4. CASE \/ Crashes \/ RecoveryIsCut \/ RecoveryFrees \/ RecoveryFails
           \/ \E conv \in Conversations : AdmitIsCut(conv)
           \/ \E s \in Stays : FinishIsCut(s)
  BY <1>3, <1>4 DEF Crashes, RecoveryIsCut, RecoveryFrees, RecoveryFails, AdmitIsCut,
     FinishIsCut, LosesMemory
<1>5. CASE Restarts \/ (\E conv \in Conversations : OperatorAcquires(conv))
              \/ \E c \in Calls : CallStarts(c)
  <2>1. recovery' = recovery
    BY <1>5 DEF Restarts, OperatorAcquires, CallStarts
  <2>2. recovery = NoRecovery
    BY <1>1, <1>5 DEF Restarts, OperatorAcquires, CallStarts, Acquires
  <2>. QED BY <1>3, <2>1, <2>2
<1>6. ASSUME NEW s \in Stays, NEW conv \in Conversations, NEW room \in Rooms,
             Admits(s, conv, room)
      PROVE  RecoveryOK'
  <2>1. recovery' = recovery
    BY <1>6 DEF Admits
  <2>2. recovery = NoRecovery
    BY <1>1, <1>6 DEF Admits, Acquires, Shares
  <2>. QED BY <1>3, <2>1, <2>2
<1>7. CASE Lapses
  <2>1. recovery = NoRecovery
    BY <1>1, <1>7 DEF Lapses
  <2>. QED BY <1>3, <1>7, <2>1 DEF Lapses
<1>8. ASSUME NEW s \in Stays, Starts(s)
      PROVE  RecoveryOK'
  <2>1. recovery = NoRecovery
    BY <1>1, <1>8 DEF Starts
  <2>. QED BY <1>3, <1>8, <2>1 DEF Starts
<1>9. ASSUME NEW s \in Stays, Loses(s) \/ Leaves(s) \/ FinishFails(s) \/ Drops(s)
      PROVE  RecoveryOK'
  <2>1. /\ UNCHANGED <<recovery, up, claim>>
        /\ present' \subseteq present
    BY <1>9 DEF Loses, Leaves, FinishFails, Drops
  <2>. QED BY <1>2, <1>3, <2>1
<1>10. ASSUME NEW s \in Stays, Finishes(s)
       PROVE  RecoveryOK'
  <2>1. UNCHANGED <<recovery, up, present>>
    BY <1>10 DEF Finishes
  <2>2. CASE recovery = NoRecovery
    BY <1>3, <2>1, <2>2
  <2>3. CASE recovery # NoRecovery
    <3>1. claim \in Claim /\ Blocks /\ RecoveryPin # s
      BY <1>1, <2>3, PinAssumption
    <3>2. claim' = claim \/ claim' = [claim EXCEPT !.pins = @ \ {s}]
      BY <1>10, <3>1 DEF Finishes, RecordsFinish, ClaimAfter, Reconciled
    <3>3. claim.pins \ {s} \in SUBSET Pins
      BY <3>1 DEF Claim
    <3>4. claim' # NoClaim
      BY <3>1, <3>2, <3>3, ClaimTypes, NoneAssumption
    <3>5. claim'.expired = TRUE /\ RecoveryPin \in claim'.pins
      BY <3>1, <3>2 DEF Claim
    <3>. QED BY <1>0, <1>1, <2>1, <2>3, <3>4, <3>5 DEF RecoveryOK
  <2>. QED BY <2>2, <2>3
<1>11. CASE \/ UNCHANGED vars \/ BodyCrashes \/ \E c \in Calls : CallEnds(c)
  <2>1. UNCHANGED <<recovery, up, claim, present>>
    BY <1>11 DEF vars, BodyCrashes, CallEnds
  <2>. QED BY <1>2, <1>3, <2>1
<1>12. ASSUME NEW c \in Calls, CallReleases(c)
       PROVE  RecoveryOK'
  <2>1. UNCHANGED <<recovery, up, present>>
    BY <1>12 DEF CallReleases
  <2>2. recovery # NoRecovery => claim' = claim
    BY <1>1, <1>12 DEF CallReleases, IsLive
  <2>. QED BY <1>2, <1>3, <2>1, <2>2
<1>13. ASSUME NEW sweep \in BOOLEAN, RecoveryBegins(sweep)
       PROVE  RecoveryOK'
  <2>1. claim \in Claim /\ up
    BY <1>13 DEF RecoveryBegins, TypeOK
  <2>2. claim.pins \cup {RecoveryPin} \in SUBSET Pins
    BY <2>1 DEF Claim, Pins
  <2>3. claim' # NoClaim
    BY <1>13, <2>1, <2>2, ClaimTypes, NoneAssumption DEF RecoveryBegins
  <2>4. claim'.expired = TRUE /\ RecoveryPin \in claim'.pins
    BY <1>13, <2>1 DEF RecoveryBegins, Claim
  <2>5. up' /\ recovery'.records = {} /\ recovery'.step = "begun"
    BY <1>13, <2>1 DEF RecoveryBegins
  <2>. QED BY <2>3, <2>4, <2>5 DEF RecoveryOK
<1>14. CASE RecoveryAsks
  <2>1. recovery # NoRecovery /\ UNCHANGED <<up, claim, stays, present>>
    BY <1>14 DEF RecoveryAsks
  <2>2. recovery'.records = Unfinished
    BY <1>1, <1>14, <2>1 DEF RecoveryAsks, Recovery
  <2>3. recovery'.step = "confirmed" => Unfinished = {}
    BY <1>1, <1>14, <2>1 DEF RecoveryAsks, Recovery
  <2>. QED BY <1>1, <2>1, <2>2, <2>3 DEF RecoveryOK, Unfinished
<1>15. CASE BodyConfirms
  <2>1. recovery # NoRecovery /\ UNCHANGED <<up, claim, stays>>
    BY <1>15 DEF BodyConfirms
  <2>2. recovery'.records = recovery.records
    BY <1>1, <1>15, <2>1 DEF BodyConfirms, Recovery
  <2>3. recovery.records \cap present' = {}
    BY <1>15 DEF BodyConfirms
  <2>. QED BY <1>1, <2>1, <2>2, <2>3 DEF RecoveryOK
<1>. QED BY <1>4, <1>5, <1>6, <1>7, <1>8, <1>9, <1>10, <1>11, <1>12, <1>13, <1>14,
            <1>15
         DEF Next, RecoveryStep

-----------------------------------------------------------------------------
(* A call and a stay never hold the same claim.                            *)

LEMMA StepCallsAlone ==
  ASSUME TypeOK, StaysKnown, CallsOK, CallsAlone, RecoveryOK, StaysHoldTheVoice,
         [Next]_vars
  PROVE  CallsAlone'
<1> USE DEF serviceVars, bodyVars
<1>0. claim = NoClaim => Unfinished = {}
  BY DEF StaysHoldTheVoice
<1>1. ASSUME Unfinished' \subseteq Unfinished,
             \/ claim' = NoClaim
             \/ claim # NoClaim /\ claim'.token = claim.token,
             \A c \in Calls : calls'[c].phase \in {"live", "ending"} =>
                 /\ calls[c].phase \in {"live", "ending"}
                 /\ calls'[c].token = calls[c].token
      PROVE  CallsAlone'
  BY <1>1 DEF CallsAlone, Holds
<1>2. ASSUME \A c \in Calls : calls'[c].phase \notin {"live", "ending"}
      PROVE  CallsAlone'
  BY <1>2 DEF CallsAlone
<1>3. CASE UNCHANGED vars
  BY <1>3 DEF vars, CallsAlone, Holds, Unfinished
<1>4. CASE \/ Crashes \/ RecoveryIsCut \/ \E conv \in Conversations : AdmitIsCut(conv)
           \/ \E s \in Stays : FinishIsCut(s)
  BY <1>2, <1>4, LostTypes DEF Crashes, RecoveryIsCut, AdmitIsCut, FinishIsCut
<1>5. CASE Restarts
  BY <1>2, <1>5 DEF Restarts, CallsOK
<1>6. CASE \/ \E conv \in Conversations : OperatorAcquires(conv)
           \/ \E c \in Calls : CallStarts(c)
  <2>1. Unfinished = {}
    BY <1>0, <1>6 DEF OperatorAcquires, CallStarts, Acquires
  <2>2. Unfinished' = Unfinished
    BY <1>6, KeepsEffect DEF Keeps
  <2>. QED BY <2>1, <2>2 DEF CallsAlone
<1>7. ASSUME NEW s \in Stays, NEW conv \in Conversations, NEW room \in Rooms,
             Admits(s, conv, room)
      PROVE  CallsAlone'
  <2>1. calls' = calls
    BY <1>7 DEF Admits
  <2>2. \/ issued' = issued + 1 /\ claim'.token = issued'
        \/ claim # NoClaim /\ claim'.token = claim.token /\ HeldByStay
    BY <1>7, AdmitsEffect
  <2>3. ASSUME NEW c \in Calls, calls'[c].phase \in {"live", "ending"}
        PROVE  ~Holds(calls[c].token)'
    <3>1. calls[c].token \in 1..issued /\ issued \in Nat
      BY <2>1, <2>3 DEF CallsOK, TypeOK
    <3>2. CASE issued' = issued + 1 /\ claim'.token = issued'
      BY <2>1, <3>1, <3>2 DEF Holds
    <3>3. CASE claim # NoClaim /\ claim'.token = claim.token /\ HeldByStay
      <4>1. Unfinished # {}
        BY <3>3 DEF HeldByStay
      <4>2. claim.token # calls[c].token
        BY <2>1, <2>3, <3>3, <4>1 DEF CallsAlone, Holds
      <4>. QED BY <2>1, <3>3, <4>2 DEF Holds
    <3>. QED BY <2>2, <3>2, <3>3
  <2>. QED BY <2>3 DEF CallsAlone
<1>8. CASE Lapses \/ RecoveryFails \/ \E sweep \in BOOLEAN : RecoveryBegins(sweep)
  <2>1. claim \in Claim /\ calls' = calls
    BY <1>8 DEF Lapses, RecoveryFails, RecoveryBegins, RecoveryOK, TypeOK
  <2>2. claim # NoClaim /\ claim'.token = claim.token
    BY <1>8, <2>1, NoneAssumption DEF Lapses, RecoveryFails, RecoveryBegins, Claim
  <2>3. Unfinished' = Unfinished
    BY <1>8, KeepsEffect DEF Keeps
  <2>. QED BY <1>1, <2>1, <2>2, <2>3
<1>9. ASSUME NEW c \in Calls, CallEnds(c) \/ CallReleases(c)
      PROVE  CallsAlone'
  <2>1. Unfinished' = Unfinished
    BY <1>9, KeepsEffect DEF Keeps
  <2>2. claim' = claim \/ claim' = NoClaim
    BY <1>9 DEF CallEnds, CallReleases
  <2>3. \A d \in Calls : calls'[d].phase \in {"live", "ending"} =>
            /\ calls[d].phase \in {"live", "ending"}
            /\ calls'[d].token = calls[d].token
    BY <1>9 DEF CallEnds, CallReleases, TypeOK
  <2>. QED BY <1>1, <2>1, <2>2, <2>3
<1>10. CASE \/ \E s \in Stays : Starts(s) \/ Loses(s) \/ Leaves(s)
                                \/ FinishFails(s) \/ Drops(s)
            \/ BodyCrashes \/ RecoveryAsks \/ BodyConfirms
  <2>1. Unfinished' = Unfinished
    BY <1>10, KeepsEffect DEF Keeps
  <2>2. claim' = claim /\ calls' = calls
    BY <1>10 DEF Starts, Loses, Leaves, FinishFails, Drops, BodyCrashes,
       RecoveryAsks, BodyConfirms
  <2>. QED BY <1>1, <2>1, <2>2
<1>11. ASSUME NEW s \in Stays, Finishes(s)
       PROVE  CallsAlone'
  <2>1. Unfinished' \subseteq Unfinished
    BY <1>11, FinishesEffect
  <2>2. calls' = calls
    BY <1>11 DEF Finishes
  <2>3. \/ claim' = NoClaim
        \/ claim # NoClaim /\ claim'.token = claim.token
    <3>1. CASE stays[s].finished
      BY <1>11, <3>1 DEF Finishes, RecordsFinish
    <3>2. CASE ~stays[s].finished
      <4>1. claim # NoClaim /\ claim \in Claim
        BY <1>11, <3>2 DEF Finishes, FinishAccepted, Holds, TypeOK
      <4>2. claim' = NoClaim \/ claim' = [claim EXCEPT !.pins = @ \ {s}]
        BY <1>11, <3>2 DEF Finishes, RecordsFinish, ClaimAfter, Reconciled
      <4>. QED BY <4>1, <4>2 DEF Claim
    <3>. QED BY <3>1, <3>2
  <2>. QED BY <1>1, <2>1, <2>2, <2>3
<1>12. CASE RecoveryFrees
  <2>1. Unfinished' \subseteq Unfinished
    BY <1>12, RecoveryEndsEffect
  <2>2. calls' = calls
    BY <1>12 DEF RecoveryFrees
  <2>3. \/ claim' = NoClaim
        \/ claim # NoClaim /\ claim'.token = claim.token
    <3>1. claim # NoClaim /\ claim \in Claim
      BY <1>12 DEF RecoveryFrees, RecoveryOK, TypeOK
    <3>2. \/ claim' = NoClaim
          \/ claim' = [claim EXCEPT !.pins = @ \ (recovery.records \cup {RecoveryPin})]
      BY <1>12 DEF RecoveryFrees, Reconciled
    <3>. QED BY <3>1, <3>2 DEF Claim
  <2>. QED BY <1>1, <2>1, <2>2, <2>3
<1>. QED BY <1>3, <1>4, <1>5, <1>6, <1>7, <1>8, <1>9, <1>10, <1>11, <1>12
         DEF Next, RecoveryStep

-----------------------------------------------------------------------------
(* Where he is, and what is on record.                                     *)

LEMMA StepSameRoom ==
  ASSUME TypeOK, StaysKnown, RecoveryOK, StaysHoldTheVoice, SameRoom, [Next]_vars
  PROVE  SameRoom'
<1> USE DEF serviceVars, bodyVars
<1>0. Unfinished \subseteq Stays /\ \A t \in Unfinished : stays[t] # NoStay
  BY DEF Unfinished
<1>1. ASSUME Unfinished' \subseteq Unfinished,
             \A t \in Unfinished : stays'[t].room = stays[t].room
      PROVE  SameRoom'
  BY <1>1 DEF SameRoom
<1>2. CASE UNCHANGED vars
  BY <1>1, <1>2 DEF vars, Unfinished
<1>3. CASE Keeps
  BY <1>1, <1>3, KeepsEffect
<1>4. ASSUME NEW s \in Stays, NEW conv \in Conversations, NEW room \in Rooms,
             Admits(s, conv, room)
      PROVE  SameRoom'
  <2>1. /\ stays[s] = NoStay
        /\ stays'[s].room = room
        /\ \A t \in Stays \ {s} : stays'[t] = stays[t]
        /\ Unfinished' = Unfinished \cup {s}
        /\ claim = NoClaim \/ Compatible(room)
    BY <1>4, AdmitsEffect
  <2>2. claim = NoClaim => Unfinished = {}
    BY DEF StaysHoldTheVoice
  <2>3. \A t \in Unfinished : t # s /\ stays[t].room = room
    BY <1>0, <2>1, <2>2 DEF Compatible
  <2>4. \A t \in Unfinished' : stays'[t].room = room
    BY <1>0, <2>1, <2>3
  <2>. QED BY <2>4 DEF SameRoom
<1>5. ASSUME NEW s \in Stays, Finishes(s) \/ FinishIsCut(s)
      PROVE  SameRoom'
  BY <1>0, <1>1, <1>5, FinishesEffect
<1>6. CASE RecoveryFrees \/ RecoveryIsCut
  BY <1>0, <1>1, <1>6, RecoveryEndsEffect
<1>. QED BY <1>2, <1>3, <1>4, <1>5, <1>6, NextCases

LEMMA StepEndedStaysHaveLeft ==
  ASSUME TypeOK, StaysKnown, AuthorityOK, PresentOK, RecoveryOK, EndedStaysHaveLeft,
         [Next]_vars
  PROVE  EndedStaysHaveLeft'
<1> USE DEF serviceVars, bodyVars
<1>1. CASE UNCHANGED vars
  BY <1>1 DEF vars, EndedStaysHaveLeft, Unfinished
<1>2. CASE Keeps
  <2>1. present' \subseteq present \cup authority
    BY <1>2 DEF Keeps, Lapses, Crashes, Restarts, BodyCrashes, OperatorAcquires,
       AdmitIsCut, Starts, HeartbeatRenewed, Loses, Leaves, FinishFails, Drops,
       CallStarts, CallEnds, CallReleases, RecoveryBegins, RecoveryAsks, BodyConfirms,
       RecoveryFails, LosesMemory
  <2>. QED BY <1>2, <2>1, KeepsEffect DEF EndedStaysHaveLeft, AuthorityOK
<1>3. ASSUME NEW s \in Stays, NEW conv \in Conversations, NEW room \in Rooms,
             Admits(s, conv, room)
      PROVE  EndedStaysHaveLeft'
  <2>1. Unfinished' = Unfinished \cup {s}
    BY <1>3, AdmitsEffect
  <2>2. present' = present
    BY <1>3 DEF Admits
  <2>. QED BY <2>1, <2>2 DEF EndedStaysHaveLeft
<1>4. ASSUME NEW s \in Stays, Finishes(s) \/ FinishIsCut(s)
      PROVE  EndedStaysHaveLeft'
  <2>1. Unfinished' = Unfinished \ {s}
    BY <1>4, FinishesEffect
  <2>2. present' = present /\ s \notin present
    BY <1>4 DEF Finishes, FinishIsCut, PresentOK
  <2>. QED BY <2>1, <2>2 DEF EndedStaysHaveLeft
<1>5. CASE RecoveryFrees \/ RecoveryIsCut
  <2>1. /\ Unfinished' = Unfinished \ recovery.records
        /\ recovery.records \cap present = {}
    BY <1>5, RecoveryEndsEffect
  <2>2. present' = present
    BY <1>5 DEF RecoveryFrees, RecoveryIsCut
  <2>. QED BY <2>1, <2>2 DEF EndedStaysHaveLeft
<1>. QED BY <1>1, <1>2, <1>3, <1>4, <1>5, NextCases

-----------------------------------------------------------------------------
(* The invariant, and what it means.                                       *)

LEMMA InitVInv == Init => VInv
<1> SUFFICES ASSUME Init PROVE VInv
  OBVIOUS
<1>1. TypeOK
  BY InitTypeOK
<1>2. Unfinished = {}
  BY DEF Init, Unfinished
<1>3. TokensBounded
  BY BoundsAssumption DEF Init, TokensBounded
<1>4. CallsOK /\ CallsAlone
  BY DEF Init, CallsOK, CallsAlone
<1>. QED BY <1>1, <1>2, <1>3, <1>4
         DEF Init, VInv, StaysKnown, AuthorityOK, PresentOK, RecoveryOK, SameRoom,
             StaysHoldTheVoice, EndedStaysHaveLeft

LEMMA StepVInv == VInv /\ [Next]_vars => VInv'
  BY StepTypeOK, StepTokensBounded, StepCallsOK, StepCallsAlone, StepStaysKnown,
     StepAuthorityOK, StepPresentOK, StepRecoveryOK, StepSameRoom,
     StepStaysHoldTheVoice, StepEndedStaysHaveLeft
  DEF VInv

\* The invariant: every claim, record, grant, call and recovery fits the others
\* after any steps of the service, the body and the calls.
THEOREM VoiceInvariance == Spec => []VInv
  BY InitVInv, StepVInv, PTL DEF Spec

\* Every part of the state keeps its type; no claim is ever written over with
\* something that is not one (body-leases.ts, body-voice-stays.ts).
THEOREM VoiceTypeCorrect == Spec => []TypeOK
<1>1. VInv => TypeOK
  BY DEF VInv
<1>. QED BY <1>1, VoiceInvariance, PTL

\* No release, restart or recovery gives the voice away while a stay has not
\* ended on record (body-leases.ts releases, body-lease-router.ts recoveries).
THEOREM StaysKeepTheVoice == Spec => []StaysHoldTheVoice
<1>1. VInv => StaysHoldTheVoice
  BY DEF VInv
<1>. QED BY <1>1, VoiceInvariance, PTL

\* The service records the end of a stay, on the body's report or by a recovery,
\* only when Discord no longer shows it in a room (body-voice-lease.ts).
THEOREM EndsAreActual == Spec => []EndedStaysHaveLeft
<1>1. VInv => EndedStaysHaveLeft
  BY DEF VInv
<1>. QED BY <1>1, VoiceInvariance, PTL

\* He is in one room, through any number of crashes of either process
\* (body-voice-stays.ts compares the room of an admission with the record).
THEOREM InOneRoom == Spec => []OneRoom
<1>1. VInv => OneRoom
  BY DEF VInv, OneRoom, SameRoom, EndedStaysHaveLeft
<1>. QED BY <1>1, VoiceInvariance, PTL

\* A device call that holds the voice shares it with no stay (voice-call.ts
\* acquires a claim of its own; a stay shares with stays only).
THEOREM CallsHoldAlone == Spec => []CallHoldsAlone
<1>1. VInv => CallHoldsAlone
  BY DEF VInv, CallHoldsAlone, CallsAlone, EndedStaysHaveLeft
<1>. QED BY <1>1, VoiceInvariance, PTL

=============================================================================
