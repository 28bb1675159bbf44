------------------------- MODULE BodyTransferProofs -------------------------
(***************************************************************************)
(* For any number of bodies, transfers and epochs, in four parts.          *)
(*  1. The self records are well formed, and no two bodies are ever active *)
(*     as one self that no owner has reclaimed by force (IInv).            *)
(*  2. What the two bodies of a transfer record of its end agrees          *)
(*     (OutcomesInv).                                                      *)
(*  3. A self that no owner forced is never lost and never falls back to   *)
(*     an epoch it has lived through, and a bundle is read from files that *)
(*     no process writes any more (HeldInv).                               *)
(*  4. The protocol implements SelfAuthority (AuthorityInv).               *)
(***************************************************************************)
EXTENDS BodyTransferRefinement, WellFoundedInduction, TLAPS

(***************************************************************************)
(* Part 1: one active self.                                                *)
(***************************************************************************)

-----------------------------------------------------------------------------
(* Type correctness.                                                       *)

LEMMA InitTypeOK == Init => TypeOK
  BY SelvesAssumption, TransfersAssumption
     DEF Init, TypeOK, Selves, NoRecord, TransferRecord, NoStage, Admission

\* A record written by one of the steps below is a TransferRecord.
LEMMA RecordTypes ==
  ASSUME NEW r \in TransferRecord,
         NEW o \in {"none", "frozen", "released", "aborted",
                    "staged", "applying", "applied", "burned"}
  PROVE  [r EXCEPT !.outcome = o] \in TransferRecord
  BY DEF TransferRecord

\* So is every record when one outcome changes.
LEMMA OutcomeTypes ==
  ASSUME TypeOK, NEW b \in Bodies, NEW t \in Transfers,
         NEW o \in {"none", "frozen", "released", "aborted",
                    "staged", "applying", "applied", "burned"}
  PROVE  [transfers EXCEPT ![b][t].outcome = o]
            \in [Bodies -> [Transfers -> TransferRecord]]
<1>1. transfers[b][t] \in TransferRecord
  BY DEF TypeOK
<1>2. [transfers[b][t] EXCEPT !.outcome = o] \in TransferRecord
  BY <1>1, RecordTypes
<1>. QED BY <1>2 DEF TypeOK

LEMMA StepTypeOK == TypeOK /\ BootOK /\ [Next]_vars => TypeOK'
<1> SUFFICES ASSUME TypeOK, BootOK, [Next]_vars PROVE TypeOK'
  OBVIOUS
<1> USE SelvesAssumption, TransfersAssumption DEF Selves
<1>1. ASSUME NEW b \in Bodies, NEW t \in Transfers, NEW d \in Bodies,
             Freeze(b, t, d)
      PROVE  TypeOK'
  <2>1. Self(b) \in Bodies
    BY DEF TypeOK, Self
  <2>2. NextEpoch(b) \in Nat
    BY DEF TypeOK, NextEpoch
  <2>3. transfers' \in [Bodies -> [Transfers -> TransferRecord]]
    BY <1>1, <2>1, <2>2 DEF TypeOK, Freeze, TransferRecord
  <2>. QED BY <1>1, <2>1, <2>2, <2>3 DEF TypeOK, Freeze, ghostVars
<1>2. ASSUME NEW b \in Bodies, NEW t \in Transfers, OutgoingBundle(b, t)
      PROVE  TypeOK'
  BY <1>2 DEF TypeOK, OutgoingBundle, selfVars, ghostVars
<1>3. ASSUME NEW b \in Bodies, NEW t \in Transfers, Release(b, t)
      PROVE  TypeOK'
  <2>1. transfers' \in [Bodies -> [Transfers -> TransferRecord]]
    BY <1>3, OutcomeTypes DEF Release
  <2>. QED BY <1>3, <2>1 DEF TypeOK, Release, ghostVars
<1>4. ASSUME NEW b \in Bodies, NEW t \in Transfers, Abort(b, t)
      PROVE  TypeOK'
  <2>1. transfers' \in [Bodies -> [Transfers -> TransferRecord]]
    BY <1>4, OutcomeTypes DEF Abort
  <2>. QED BY <1>4, <2>1 DEF TypeOK, Abort, ghostVars
<1>5. ASSUME NEW b \in Bodies, Reclaim(b)
      PROVE  TypeOK'
  <2>1. Self(b) \in Bodies
    BY DEF TypeOK, Self
  <2>. QED BY <1>5, <2>1 DEF TypeOK, Reclaim, NextEpoch
<1>6. ASSUME NEW d \in Bodies, NEW t \in Transfers, NEW a \in Bodies,
             NEW replace \in BOOLEAN, StageBegin(d, t, a, replace)
      PROVE  TypeOK'
  <2> DEFINE adm == [transfer |-> t, source |-> a, selfId |-> selfId[a],
                     epoch |-> epoch[a], replace |-> replace]
  <2>1. selfId[a] \in Bodies \cup {NoSelf} /\ epoch[a] \in Nat
    BY DEF TypeOK
  <2>2. adm \in Admission
    BY <2>1 DEF Admission
  <2>3. staging' = [staging EXCEPT ![d] = adm]
    BY <1>6 DEF StageBegin
  <2>4. staging' \in [Bodies -> Admission]
    BY <2>2, <2>3 DEF TypeOK
  <2>5. incoming' \in [Bodies -> SUBSET Transfers]
    BY <1>6 DEF TypeOK, StageBegin
  <2>. QED BY <1>6, <2>4, <2>5 DEF TypeOK, StageBegin, selfVars, ghostVars
<1>7. ASSUME NEW d \in Bodies, StageCommit(d)
      PROVE  TypeOK'
  <2>1. staging[d] \in Admission /\ staging[d].transfer \in Transfers
    BY <1>7 DEF TypeOK, StageCommit, Admission
  <2>2. transfers' \in [Bodies -> [Transfers -> TransferRecord]]
    BY <1>7, <2>1 DEF TypeOK, StageCommit, Admission, TransferRecord
  <2>3. staging' \in [Bodies -> Admission]
    BY <1>7 DEF TypeOK, StageCommit, Admission, NoStage
  <2>. QED BY <1>7, <2>1, <2>2, <2>3 DEF TypeOK, StageCommit, ghostVars
<1>8. ASSUME NEW d \in Bodies, StageGivesUp(d)
      PROVE  TypeOK'
  <2>1. NoStage \in Admission
    BY DEF NoStage, Admission
  <2>2. staging' \in [Bodies -> Admission]
    BY <1>8, <2>1 DEF TypeOK, StageGivesUp
  <2>. QED BY <1>8, <2>2 DEF TypeOK, StageGivesUp, selfVars, ghostVars
<1>18. ASSUME NEW d \in Bodies, NEW t \in Transfers, StageRefused(d, t)
       PROVE  TypeOK'
  <2>1. incoming' \in [Bodies -> SUBSET Transfers]
    BY <1>18 DEF TypeOK, StageRefused
  <2>. QED BY <1>18, <2>1 DEF TypeOK, StageRefused, selfVars, ghostVars
<1>9. ASSUME NEW d \in Bodies, NEW t \in Transfers, Apply(d, t)
      PROVE  TypeOK'
  <2>1. transfers[d][t] \in TransferRecord
    BY DEF TypeOK
  <2>2. transfers' \in [Bodies -> [Transfers -> TransferRecord]]
    BY <1>9, OutcomeTypes DEF Apply
  <2>3. Self(d) \in Bodies
    BY DEF TypeOK, Self
  <2>. QED BY <1>9, <2>1, <2>2, <2>3 DEF TypeOK, Apply, TransferRecord
<1>10. ASSUME NEW d \in Bodies, NEW t \in Transfers, Discard(d, t)
       PROVE  TypeOK'
  <2>1. transfers[d][t] \in TransferRecord
    BY DEF TypeOK
  <2>2. transfers' \in [Bodies -> [Transfers -> TransferRecord]]
    BY <1>10, <2>1 DEF TypeOK, Discard, TransferRecord
  <2>. QED BY <1>10, <2>2 DEF TypeOK, Discard, ghostVars
<1>11. ASSUME NEW d \in Bodies, ReadActivation(d)
       PROVE  TypeOK'
  BY <1>11 DEF TypeOK, ReadActivation, selfVars, ghostVars
<1>12. ASSUME NEW b \in Bodies, Stop(b)
       PROVE  TypeOK'
  <2>1. staging' \in [Bodies -> Admission]
    BY <1>12 DEF TypeOK, Stop, Admission, NoStage
  <2>. QED BY <1>12, <2>1 DEF TypeOK, Stop, selfVars, ghostVars
<1>13. ASSUME NEW b \in Bodies, Boot(b)
       PROVE  TypeOK'
  BY <1>13 DEF TypeOK, Boot, selfVars, ghostVars
<1>14. ASSUME NEW b \in Bodies, BootInstall(b)
       PROVE  TypeOK'
  <2>1. incoming' \in [Bodies -> SUBSET Transfers]
    BY <1>14 DEF TypeOK, BootInstall
  <2>. QED BY <1>14, <2>1 DEF TypeOK, BootInstall, selfVars, ghostVars
<1>15. ASSUME NEW b \in Bodies, BootActivate(b)
       PROVE  TypeOK'
  <2>3. transferId[b] \in Transfers
    BY <1>15 DEF BootOK, BootActivate, Applying
  <2>1. transfers[b][transferId[b]] \in TransferRecord
    BY <2>3 DEF TypeOK
  <2>2. transfers' \in [Bodies -> [Transfers -> TransferRecord]]
    BY <1>15, <2>3, OutcomeTypes DEF BootActivate
  <2>. QED BY <1>15, <2>1, <2>2 DEF TypeOK, BootActivate, TransferRecord, ghostVars
<1>16. ASSUME NEW b \in Bodies, TakeTurn(b)
       PROVE  TypeOK'
  BY <1>16 DEF TypeOK, TakeTurn, selfVars, ghostVars
<1>17. CASE UNCHANGED vars
  BY <1>17 DEF TypeOK, vars, selfVars, ghostVars
<1>. QED BY <1>1, <1>2, <1>3, <1>4, <1>5, <1>6, <1>7, <1>8, <1>9, <1>10,
            <1>11, <1>12, <1>13, <1>14, <1>15, <1>16, <1>17, <1>18 DEF Next

-----------------------------------------------------------------------------
(* What each step that touches the records changes, place by place.        *)

\* Every other record, and every other body's state and self, is as before.
Elsewhere(b, t) ==
    /\ \A c \in Bodies, u \in Transfers :
          c # b \/ u # t => transfers'[c][u] = transfers[c][u]
    /\ \A c \in Bodies \ {b} :
          /\ selfId'[c] = selfId[c]
          /\ state'[c] = state[c]
          /\ transferId'[c] = transferId[c]

LEMMA FreezeEffect ==
  ASSUME TypeOK, NEW b \in Bodies, NEW t \in Transfers, NEW d \in Bodies,
         Freeze(b, t, d)
  PROVE  /\ Elsewhere(b, t)
         /\ transfers[b][t].role = "none" /\ state[b] = "active"
         /\ transfers'[b][t].role = "source"
         /\ transfers'[b][t].outcome = "frozen"
         /\ transfers'[b][t].peer = d
         /\ selfId'[b] = Self(b) /\ Self(b) \in Selves
         /\ state'[b] = "frozen"
         /\ transferId'[b] = t
  BY DEF TypeOK, Freeze, Elsewhere, Self, Selves

LEMMA ReleaseEffect ==
  ASSUME TypeOK, NEW b \in Bodies, NEW t \in Transfers, Release(b, t)
  PROVE  /\ Elsewhere(b, t)
         /\ FrozenSource(b, t)
         /\ transfers'[b][t].role = transfers[b][t].role
         /\ transfers'[b][t].outcome = "released"
         /\ transfers'[b][t].peer = transfers[b][t].peer
         /\ selfId'[b] = selfId[b]
         /\ state'[b] = "released"
         /\ transferId'[b] = transferId[b]
  BY DEF TypeOK, TransferRecord, Release, Elsewhere

LEMMA AbortEffect ==
  ASSUME TypeOK, NEW b \in Bodies, NEW t \in Transfers, Abort(b, t)
  PROVE  /\ Elsewhere(b, t)
         /\ FrozenSource(b, t)
         /\ <<transfers[b][t].peer, t>> \in burns
         /\ transfers'[b][t].role = transfers[b][t].role
         /\ transfers'[b][t].outcome = "aborted"
         /\ transfers'[b][t].peer = transfers[b][t].peer
         /\ selfId'[b] = selfId[b]
         /\ state'[b] = "active"
         /\ transferId'[b] = transferId[b]
  BY DEF TypeOK, TransferRecord, Abort, BurnProven, Elsewhere

LEMMA StageCommitEffect ==
  ASSUME TypeOK, NEW d \in Bodies, NEW t \in Transfers, StageCommit(d),
         staging[d].transfer = t
  PROVE  /\ Elsewhere(d, t)
         /\ transfers'[d][t].role = "destination"
         /\ transfers'[d][t].outcome = "staged"
         /\ transfers'[d][t].selfId = staging[d].selfId
         /\ selfId'[d] = selfId[d]
         /\ state'[d] = state[d]
         /\ transferId'[d] = transferId[d]
         /\ staging'[d].transfer = NoTransfer
         /\ \A c \in Bodies \ {d} : staging'[c] = staging[c]
  BY DEF TypeOK, StageCommit, Elsewhere, NoStage

LEMMA ApplyEffect ==
  ASSUME TypeOK, NEW d \in Bodies, NEW t \in Transfers, Apply(d, t)
  PROVE  /\ Elsewhere(d, t)
         /\ transfers[d][t].role = "destination"
         /\ transfers[d][t].outcome = "staged"
         /\ transfers'[d][t].role = "destination"
         /\ transfers'[d][t].outcome = "applying"
         /\ transfers'[d][t].selfId = transfers[d][t].selfId
         /\ selfId'[d] = transfers[d][t].selfId
         /\ state'[d] = "frozen"
         /\ transferId'[d] = t
  BY DEF TypeOK, TransferRecord, Apply, Elsewhere

LEMMA DiscardEffect ==
  ASSUME TypeOK, NEW d \in Bodies, NEW t \in Transfers, Discard(d, t)
  PROVE  /\ Elsewhere(d, t)
         /\ transfers[d][t].outcome \notin {"applying", "applied"}
         /\ transfers[d][t].role # "source"
         /\ transfers'[d][t].role = "destination"
         /\ transfers'[d][t].outcome = "burned"
         /\ selfId'[d] = selfId[d]
         /\ state'[d] = state[d]
         /\ transferId'[d] = transferId[d]
  BY DEF TypeOK, Discard, Elsewhere

LEMMA BootActivateEffect ==
  ASSUME TypeOK, BootOK, NEW b \in Bodies, BootActivate(b)
  PROVE  \E t \in Transfers :
            /\ Applying(b, t)
            /\ Elsewhere(b, t)
            /\ transfers'[b][t].role = transfers[b][t].role
            /\ transfers'[b][t].outcome = "applied"
            /\ transfers'[b][t].selfId = transfers[b][t].selfId
            /\ selfId'[b] = selfId[b]
            /\ state'[b] = "active"
            /\ transferId'[b] = t
<1>1. PICK t \in Transfers : Applying(b, t)
  BY DEF BootOK, BootActivate
<1>2. transferId[b] = t
  BY <1>1 DEF Applying
<1>. QED BY <1>1, <1>2 DEF TypeOK, TransferRecord, BootActivate, Elsewhere

\* The steps that leave every self record alone.
Quiet(b) ==
    \/ \E t \in Transfers :
          \/ OutgoingBundle(b, t)
          \/ \E a \in Bodies, replace \in BOOLEAN : StageBegin(b, t, a, replace)
          \/ StageRefused(b, t)
    \/ StageGivesUp(b) \/ ReadActivation(b) \/ Stop(b) \/ Boot(b)
    \/ BootInstall(b) \/ TakeTurn(b)

LEMMA QuietEffect ==
  ASSUME NEW b \in Bodies, Quiet(b)
  PROVE  UNCHANGED <<selfId, epoch, state, transferId, transfers, burns, forced>>
  BY DEF Quiet, OutgoingBundle, StageBegin, StageRefused, StageGivesUp,
         ReadActivation, Stop, Boot, BootInstall, TakeTurn, selfVars, ghostVars

LEMMA NextCases ==
  ASSUME Next
  PROVE  \E b \in Bodies :
            \/ \E t \in Transfers :
                  \/ \E d \in Bodies : Freeze(b, t, d)
                  \/ Release(b, t)
                  \/ Abort(b, t)
                  \/ Apply(b, t)
                  \/ Discard(b, t)
            \/ Reclaim(b) \/ StageCommit(b) \/ BootActivate(b)
            \/ Quiet(b)
  BY DEF Next, Quiet

-----------------------------------------------------------------------------
(* The supporting conjuncts of IInv.                                       *)

\* Roles, outcomes and the selves they name stay consistent.
LEMMA StepRecordsOK ==
  ASSUME TypeOK, RecordsOK, StagingOK, BootOK, [Next]_vars
  PROVE  RecordsOK'
<1> USE DEF Elsewhere
<1>1. ASSUME UNCHANGED <<transfers, state, selfId>>
      PROVE  RecordsOK'
  BY <1>1 DEF RecordsOK, WellFormed
<1>2. ASSUME NEW b \in Bodies, NEW t \in Transfers, NEW d \in Bodies,
             Freeze(b, t, d)
      PROVE  RecordsOK'
  BY <1>2, FreezeEffect DEF RecordsOK, WellFormed
<1>3. ASSUME NEW b \in Bodies, NEW t \in Transfers, Release(b, t)
      PROVE  RecordsOK'
  <2>1. WellFormed(transfers'[b][t])
    BY <1>3, ReleaseEffect DEF RecordsOK, WellFormed, FrozenSource
  <2>2. selfId'[b] \in Selves
    BY <1>3, ReleaseEffect DEF RecordsOK, FrozenSource
  <2>. QED BY <1>3, <2>1, <2>2, ReleaseEffect DEF RecordsOK
<1>4. ASSUME NEW b \in Bodies, NEW t \in Transfers, Abort(b, t)
      PROVE  RecordsOK'
  <2>0. transfers[b][t].role = "source" /\ transfers[b][t].peer \in Bodies
    BY <1>4 DEF Abort, FrozenSource, RecordsOK, WellFormed
  <2>1. /\ transfers'[b][t].role = "source"
        /\ transfers'[b][t].outcome = "aborted"
        /\ transfers'[b][t].peer \in Bodies
    BY <1>4, <2>0, AbortEffect
  <2>2. WellFormed(transfers'[b][t])
    BY <2>1 DEF WellFormed
  <2>3. Elsewhere(b, t) /\ state'[b] = "active"
    BY <1>4, AbortEffect
  <2>. QED BY <2>2, <2>3 DEF RecordsOK
<1>5. ASSUME NEW b \in Bodies, Reclaim(b)
      PROVE  RecordsOK'
  BY <1>5 DEF RecordsOK, Reclaim, TypeOK, WellFormed
<1>6. ASSUME NEW d \in Bodies, StageCommit(d)
      PROVE  RecordsOK'
  <2>1. PICK t \in Transfers : staging[d].transfer = t
    BY <1>6 DEF TypeOK, Admission, StageCommit
  <2>. QED BY <1>6, <2>1, StageCommitEffect DEF RecordsOK, WellFormed, StagingOK
<1>7. ASSUME NEW d \in Bodies, NEW t \in Transfers, Apply(d, t)
      PROVE  RecordsOK'
  BY <1>7, ApplyEffect DEF RecordsOK, WellFormed
<1>8. ASSUME NEW d \in Bodies, NEW t \in Transfers, Discard(d, t)
      PROVE  RecordsOK'
  BY <1>8, DiscardEffect DEF RecordsOK, WellFormed
<1>9. ASSUME NEW b \in Bodies, BootActivate(b)
      PROVE  RecordsOK'
  BY <1>9, BootActivateEffect DEF RecordsOK, WellFormed, Applying
<1>10. ASSUME NEW b \in Bodies, Quiet(b)
       PROVE  RecordsOK'
  BY <1>1, <1>10, QuietEffect
<1>11. CASE UNCHANGED vars
  BY <1>1, <1>11 DEF vars, selfVars
<1>. QED BY <1>2, <1>3, <1>4, <1>5, <1>6, <1>7, <1>8, <1>9, <1>10, <1>11, NextCases

\* A running stage keeps its transfer open: no other step of its body is
\* served, and no step of another body writes here.
LEMMA StepStagingOK ==
  ASSUME TypeOK, RecordsOK, StagingOK, BootOK, [Next]_vars
  PROVE  StagingOK'
<1> USE DEF Elsewhere
<1>1. ASSUME UNCHANGED <<transfers, staging>>
      PROVE  StagingOK'
  BY <1>1 DEF StagingOK
<1>2. ASSUME NEW b \in Bodies, NEW t \in Transfers, Elsewhere(b, t),
             staging[b].transfer = NoTransfer \/ staging[b].transfer # t,
             staging' = staging
      PROVE  StagingOK'
  BY <1>2, TransfersAssumption DEF StagingOK
<1>3. ASSUME NEW b \in Bodies, NEW t \in Transfers, NEW d \in Bodies,
             Freeze(b, t, d)
      PROVE  StagingOK'
  BY <1>2, <1>3, FreezeEffect DEF Freeze, Ready
<1>4. ASSUME NEW b \in Bodies, NEW t \in Transfers, Release(b, t)
      PROVE  StagingOK'
  BY <1>2, <1>4, ReleaseEffect DEF Release, Ready
<1>5. ASSUME NEW b \in Bodies, NEW t \in Transfers, Abort(b, t)
      PROVE  StagingOK'
  BY <1>2, <1>5, AbortEffect DEF Abort, Ready
<1>6. ASSUME NEW d \in Bodies, NEW t \in Transfers, Apply(d, t)
      PROVE  StagingOK'
  BY <1>2, <1>6, ApplyEffect DEF Apply, Ready
<1>7. ASSUME NEW d \in Bodies, NEW t \in Transfers, Discard(d, t)
      PROVE  StagingOK'
  BY <1>2, <1>7, DiscardEffect DEF Discard, Ready
<1>8. ASSUME NEW d \in Bodies, StageCommit(d)
      PROVE  StagingOK'
  <2>1. PICK t \in Transfers : staging[d].transfer = t
    BY <1>8 DEF TypeOK, Admission, StageCommit
  <2>. QED BY <1>8, <2>1, StageCommitEffect, TransfersAssumption DEF StagingOK
<1>9. ASSUME NEW b \in Bodies, BootActivate(b)
      PROVE  StagingOK'
  <2>1. PICK t \in Transfers : Applying(b, t) /\ Elsewhere(b, t)
    BY <1>9, BootActivateEffect
  <2>2. staging[b].transfer # t
    BY <2>1 DEF StagingOK, Applying
  <2>. QED BY <1>2, <1>9, <2>1, <2>2 DEF BootActivate
<1>10. ASSUME NEW d \in Bodies, NEW t \in Transfers, NEW a \in Bodies,
              NEW replace \in BOOLEAN, StageBegin(d, t, a, replace)
       PROVE  StagingOK'
  <2>1. transfers[d][t].outcome \in {"none", "staged"} /\ transfers' = transfers
    BY <1>10 DEF StageBegin, selfVars
  <2>2. selfId[a] \in Selves
    BY <1>10 DEF StageBegin, FrozenSource, RecordsOK
  <2>3. /\ staging'[d].transfer = t /\ staging'[d].selfId = selfId[a]
        /\ \A c \in Bodies \ {d} : staging'[c] = staging[c]
    BY <1>10 DEF StageBegin, TypeOK
  <2>. QED BY <2>1, <2>2, <2>3 DEF StagingOK
<1>11. ASSUME NEW d \in Bodies, StageGivesUp(d) \/ Stop(d)
       PROVE  StagingOK'
  <2>1. /\ staging'[d].transfer = NoTransfer /\ transfers' = transfers
        /\ \A c \in Bodies \ {d} : staging'[c] = staging[c]
    BY <1>11 DEF StageGivesUp, Stop, TypeOK, NoStage, selfVars
  <2>. QED BY <2>1, TransfersAssumption DEF StagingOK
<1>12. ASSUME NEW b \in Bodies,
              \/ \E t \in Transfers : OutgoingBundle(b, t) \/ StageRefused(b, t)
              \/ Reclaim(b) \/ ReadActivation(b) \/ Boot(b) \/ BootInstall(b)
              \/ TakeTurn(b)
       PROVE  StagingOK'
  BY <1>1, <1>12 DEF OutgoingBundle, StageRefused, Reclaim, ReadActivation,
        Boot, BootInstall, TakeTurn, selfVars
<1>13. CASE UNCHANGED vars
  BY <1>1, <1>13 DEF vars, selfVars
<1>. QED BY <1>3, <1>4, <1>5, <1>6, <1>7, <1>8, <1>9, <1>10, <1>11, <1>12,
            <1>13 DEF Next

\* A burn is final.
LEMMA StepBurnsOK ==
  ASSUME TypeOK, RecordsOK, StagingOK, BootOK, BurnsOK, [Next]_vars
  PROVE  BurnsOK'
<1> USE DEF Elsewhere
<1>1. ASSUME UNCHANGED <<transfers, burns>>
      PROVE  BurnsOK'
  BY <1>1 DEF BurnsOK
<1>2. ASSUME NEW b \in Bodies, NEW t \in Transfers, Elsewhere(b, t),
             transfers[b][t].outcome # "burned", burns' = burns
      PROVE  BurnsOK'
  BY <1>2 DEF BurnsOK
<1>3. ASSUME NEW b \in Bodies, NEW t \in Transfers, NEW d \in Bodies,
             Freeze(b, t, d)
      PROVE  BurnsOK'
  <2>1. Elsewhere(b, t) /\ transfers[b][t].role = "none"
    BY <1>3, FreezeEffect
  <2>2. transfers[b][t].outcome # "burned"
    BY <2>1 DEF RecordsOK, WellFormed
  <2>3. burns' = burns
    BY <1>3 DEF Freeze
  <2>. QED BY <1>2, <2>1, <2>2, <2>3
<1>4. ASSUME NEW b \in Bodies, NEW t \in Transfers, Release(b, t)
      PROVE  BurnsOK'
  <2>1. Elsewhere(b, t) /\ transfers[b][t].role = "source"
    BY <1>4, ReleaseEffect DEF FrozenSource
  <2>2. transfers[b][t].outcome # "burned"
    BY <2>1 DEF RecordsOK, WellFormed
  <2>3. burns' = burns
    BY <1>4 DEF Release
  <2>. QED BY <1>2, <2>1, <2>2, <2>3
<1>5. ASSUME NEW b \in Bodies, NEW t \in Transfers, Abort(b, t)
      PROVE  BurnsOK'
  <2>0. Elsewhere(b, t) /\ FrozenSource(b, t)
    BY <1>5, AbortEffect
  <2>1. Elsewhere(b, t) /\ transfers[b][t].role = "source"
    BY <2>0 DEF FrozenSource
  <2>2. transfers[b][t].outcome # "burned"
    BY <2>1 DEF RecordsOK, WellFormed
  <2>3. burns' = burns
    BY <1>5 DEF Abort
  <2>. QED BY <1>2, <2>1, <2>2, <2>3
<1>6. ASSUME NEW d \in Bodies, NEW t \in Transfers, Apply(d, t)
      PROVE  BurnsOK'
  BY <1>2, <1>6, ApplyEffect DEF Apply
<1>7. ASSUME NEW d \in Bodies, NEW t \in Transfers, Discard(d, t)
      PROVE  BurnsOK'
  <2>1. burns' = burns \cup {<<d, t>>}
    BY <1>7 DEF Discard
  <2>. QED BY <1>7, <2>1, DiscardEffect DEF BurnsOK
<1>8. ASSUME NEW d \in Bodies, StageCommit(d)
      PROVE  BurnsOK'
  <2>1. PICK t \in Transfers : staging[d].transfer = t
    BY <1>8 DEF TypeOK, Admission, StageCommit
  <2>2. Elsewhere(d, t) /\ transfers[d][t].outcome # "burned"
    BY <1>8, <2>1, StageCommitEffect DEF StagingOK
  <2>. QED BY <1>2, <1>8, <2>2 DEF StageCommit
<1>9. ASSUME NEW b \in Bodies, BootActivate(b)
      PROVE  BurnsOK'
  <2>1. PICK t \in Transfers : Applying(b, t) /\ Elsewhere(b, t)
    BY <1>9, BootActivateEffect
  <2>. QED BY <1>2, <1>9, <2>1 DEF BootActivate, Applying
<1>10. ASSUME NEW b \in Bodies, Quiet(b) \/ Reclaim(b)
       PROVE  BurnsOK'
  BY <1>1, <1>10, QuietEffect DEF Reclaim
<1>11. CASE UNCHANGED vars
  BY <1>1, <1>11 DEF vars, selfVars
<1>. QED BY <1>3, <1>4, <1>5, <1>6, <1>7, <1>8, <1>9, <1>10, <1>11, NextCases

\* What a boot is applying stays what its record says.
LEMMA StepBootOK ==
  ASSUME TypeOK, RecordsOK, StagingOK, BootOK, [Next]_vars
  PROVE  BootOK'
<1> USE DEF Elsewhere
<1>1. ASSUME UNCHANGED <<transfers, state, transferId, selfId>>,
             \A b \in Bodies : proc'[b] = "applying" =>
                proc[b] = "applying" \/ \E t \in Transfers : Applying(b, t)
      PROVE  BootOK'
  BY <1>1 DEF BootOK, Applying
\* A step of a body that is serving leaves every other body's boot alone.
<1>2. ASSUME NEW b \in Bodies, NEW t \in Transfers, Elsewhere(b, t),
             proc'[b] # "applying",
             \A c \in Bodies \ {b} : proc'[c] = proc[c],
             \A u \in Transfers :
                Applying(b, u)' => selfId'[b] = transfers'[b][u].selfId
      PROVE  BootOK'
  <2>1. ASSUME NEW c \in Bodies, c # b
        PROVE  \A u \in Transfers : Applying(c, u)' <=> Applying(c, u)
    BY <1>2, <2>1 DEF Applying
  <2>. QED BY <1>2, <2>1 DEF BootOK
<1>3. ASSUME NEW b \in Bodies, NEW t \in Transfers, NEW d \in Bodies,
             Freeze(b, t, d)
      PROVE  BootOK'
  <2>1. proc'[b] # "applying" /\ proc' = proc
    BY <1>3 DEF Freeze, Ready, Serving
  <2>2. Elsewhere(b, t)
    BY <1>3, FreezeEffect
  <2>3. \A u \in Transfers : ~Applying(b, u)'
    BY <1>3, FreezeEffect DEF Applying
  <2>. QED BY <1>2, <2>1, <2>2, <2>3
<1>4. ASSUME NEW b \in Bodies, NEW t \in Transfers, Release(b, t)
      PROVE  BootOK'
  <2>1. proc'[b] # "applying" /\ proc' = proc
    BY <1>4 DEF Release, Ready, Serving
  <2>2. Elsewhere(b, t)
    BY <1>4, ReleaseEffect
  <2>3. \A u \in Transfers : ~Applying(b, u)'
    BY <1>4, ReleaseEffect DEF Applying, FrozenSource
  <2>. QED BY <1>2, <2>1, <2>2, <2>3
<1>5. ASSUME NEW b \in Bodies, NEW t \in Transfers, Abort(b, t)
      PROVE  BootOK'
  <2>1. proc'[b] # "applying" /\ proc' = proc
    BY <1>5 DEF Abort, Ready, Serving
  <2>2. Elsewhere(b, t)
    BY <1>5, AbortEffect
  <2>3. \A u \in Transfers : ~Applying(b, u)'
    <3>1. state'[b] = "active"
      BY <1>5, AbortEffect
    <3>. QED BY <3>1 DEF Applying
  <2>. QED BY <1>2, <2>1, <2>2, <2>3
<1>6. ASSUME NEW d \in Bodies, NEW t \in Transfers, Apply(d, t)
      PROVE  BootOK'
  <2>1. proc'[d] # "applying" /\ proc' = proc
    BY <1>6 DEF Apply, Ready, Serving
  <2>2. Elsewhere(d, t)
    BY <1>6, ApplyEffect
  <2>3. \A u \in Transfers : Applying(d, u)' => selfId'[d] = transfers'[d][u].selfId
    BY <1>6, ApplyEffect DEF Applying
  <2>. QED BY <1>2, <2>1, <2>2, <2>3
<1>7. ASSUME NEW d \in Bodies, NEW t \in Transfers, Discard(d, t)
      PROVE  BootOK'
  <2>1. proc'[d] # "applying" /\ proc' = proc
    BY <1>7 DEF Discard, Ready, Serving
  <2>2. \A u \in Transfers :
           Applying(d, u)' => Applying(d, u) /\ transfers'[d][u] = transfers[d][u]
    BY <1>7, DiscardEffect DEF Applying
  <2>3. \A u \in Transfers : Applying(d, u)' => selfId'[d] = transfers'[d][u].selfId
    BY <1>7, <2>2, DiscardEffect DEF BootOK
  <2>. QED BY <1>2, <1>7, <2>1, <2>3, DiscardEffect
<1>8. ASSUME NEW d \in Bodies, StageCommit(d)
      PROVE  BootOK'
  <2>1. PICK t \in Transfers : staging[d].transfer = t
    BY <1>8 DEF TypeOK, Admission, StageCommit
  <2>2. proc'[d] # "applying" /\ proc' = proc
    BY <1>8 DEF StageCommit, Serving
  <2>3. \A u \in Transfers :
           Applying(d, u)' => Applying(d, u) /\ transfers'[d][u] = transfers[d][u]
    BY <1>8, <2>1, StageCommitEffect DEF Applying
  <2>4. \A u \in Transfers : Applying(d, u)' => selfId'[d] = transfers'[d][u].selfId
    BY <1>8, <2>1, <2>3, StageCommitEffect DEF BootOK
  <2>. QED BY <1>2, <1>8, <2>1, <2>2, <2>4, StageCommitEffect
<1>9. ASSUME NEW b \in Bodies, BootActivate(b)
      PROVE  BootOK'
  <2>1. PICK t \in Transfers : Elsewhere(b, t) /\ state'[b] = "active"
    BY <1>9, BootActivateEffect
  <2>2. /\ proc'[b] # "applying"
        /\ \A c \in Bodies \ {b} : proc'[c] = proc[c]
    BY <1>9 DEF BootActivate, TypeOK
  <2>. QED BY <1>2, <2>1, <2>2 DEF Applying
<1>10. ASSUME NEW b \in Bodies, Reclaim(b)
       PROVE  BootOK'
  <2>1. /\ proc'[b] # "applying" /\ proc' = proc
        /\ UNCHANGED <<transfers, selfId>>
        /\ state'[b] = "active"
        /\ \A c \in Bodies \ {b} :
              state'[c] = state[c] /\ transferId'[c] = transferId[c]
    BY <1>10 DEF Reclaim, Ready, Serving, TypeOK
  <2>2. \A u \in Transfers : ~Applying(b, u)'
    BY <2>1 DEF Applying
  <2>3. \A c \in Bodies \ {b}, u \in Transfers : Applying(c, u)' <=> Applying(c, u)
    BY <2>1 DEF Applying
  <2>. QED BY <2>1, <2>2, <2>3 DEF BootOK
<1>11. ASSUME NEW b \in Bodies, Quiet(b)
       PROVE  BootOK'
  <2>1. \A c \in Bodies : proc'[c] = "applying" =>
            proc[c] = "applying" \/ \E t \in Transfers : Applying(c, t)
    BY <1>11 DEF Quiet, OutgoingBundle, StageBegin, StageRefused, StageGivesUp,
          ReadActivation, Stop, Boot, BootInstall, TakeTurn, TypeOK
  <2>. QED BY <1>1, <1>11, <2>1, QuietEffect
<1>12. CASE UNCHANGED vars
  BY <1>1, <1>12 DEF vars, selfVars
<1>. QED BY <1>3, <1>4, <1>5, <1>6, <1>7, <1>8, <1>9, <1>10, <1>11, <1>12,
            NextCases

-----------------------------------------------------------------------------
(* The fence around one self.                                              *)

\* Claims and pending sources that were not there before would have to come
\* from a stage, a freeze or an activation; every other step can only take
\* them away, and a fence with less inside is still a fence.
LEMMA FewerFenced ==
  ASSUME NEW s, Fenced(s),
         \A b \in Bodies : Active(b, s)' => Active(b, s),
         \A b \in Bodies, t \in Transfers : Claims(b, t, s)' => Claims(b, t, s),
         \A b \in Bodies, t \in Transfers :
            Pending(b, t, s)' =>
               Pending(b, t, s) /\ transfers'[b][t].peer = transfers[b][t].peer
  PROVE  Fenced(s)'
  BY DEF Fenced

\* A source whose own record is left alone is not made pending again by a step
\* that rewrites only record t of b.
LEMMA PendingKept ==
  ASSUME TypeOK, RecordsOK, NEW s, NEW b \in Bodies, NEW t \in Transfers,
         Elsewhere(b, t),
         transfers[b][t].outcome = "applied" => transfers'[b][t].outcome = "applied",
         NEW c \in Bodies, NEW u \in Transfers, Pending(c, u, s)',
         transfers'[c][u] = transfers[c][u], selfId'[c] = selfId[c],
         state'[c] = state[c], transferId'[c] = transferId[c]
  PROVE  Pending(c, u, s) /\ transfers'[c][u].peer = transfers[c][u].peer
<1>1. FrozenSource(c, u) /\ Self(c) = s
  BY DEF Pending, FrozenSource, Self
<1>2. transfers[c][u].peer \in Bodies
  BY <1>1 DEF FrozenSource, RecordsOK, WellFormed
<1>3. transfers[transfers[c][u].peer][u].outcome # "applied"
  <2>1. transfers'[transfers[c][u].peer][u].outcome # "applied"
    BY <1>1 DEF Pending
  <2>. QED BY <1>2, <2>1 DEF Elsewhere
<1>. QED BY <1>1, <1>3 DEF Pending

\* In particular every source on another body.
LEMMA PendingElsewhere ==
  ASSUME TypeOK, RecordsOK, NEW s, NEW b \in Bodies, NEW t \in Transfers,
         Elsewhere(b, t),
         transfers[b][t].outcome = "applied" => transfers'[b][t].outcome = "applied",
         NEW c \in Bodies, c # b, NEW u \in Transfers, Pending(c, u, s)'
  PROVE  Pending(c, u, s) /\ transfers'[c][u].peer = transfers[c][u].peer
<1>1. /\ transfers'[c][u] = transfers[c][u] /\ selfId'[c] = selfId[c]
      /\ state'[c] = state[c] /\ transferId'[c] = transferId[c]
  BY DEF Elsewhere
<1>. QED BY <1>1, PendingKept

LEMMA FreezeFenced ==
  ASSUME TypeOK, RecordsOK, StagingOK, NEW s \in Selves, Fenced(s),
         NEW b \in Bodies, NEW t \in Transfers, NEW d \in Bodies,
         Freeze(b, t, d)
  PROVE  Fenced(s)'
<1>1. Self(b)' = Self(b)
  BY FreezeEffect, SelvesAssumption DEF Self, Selves
<1>2. \A c \in Bodies : Active(c, s)' => Active(c, s) /\ c # b
  BY FreezeEffect DEF Elsewhere, Active, Self
<1>3. staging' = staging
  BY DEF Freeze
<1>4. \A c \in Bodies, u \in Transfers : Claims(c, u, s)' => Claims(c, u, s)
  BY <1>3, FreezeEffect DEF Elsewhere, Claims
<1>5. transfers[b][t].outcome # "applied"
  BY FreezeEffect DEF RecordsOK, WellFormed
<1>6. \A c \in Bodies, u \in Transfers :
         c # b /\ Pending(c, u, s)' =>
            Pending(c, u, s) /\ transfers'[c][u].peer = transfers[c][u].peer
  BY <1>5, FreezeEffect, PendingElsewhere
<1>7. CASE ~Active(b, s)
  <2>1. \A u \in Transfers : ~Pending(b, u, s)'
    BY <1>1, <1>7, FreezeEffect DEF Pending, Active
  <2>. QED BY <1>2, <1>4, <1>6, <2>1, FewerFenced
<1>8. CASE Active(b, s)
  <2>1. \A c \in Bodies, u \in Transfers : ~Claims(c, u, s) /\ ~Pending(c, u, s)
    BY <1>8 DEF Fenced
  <2>2. \A c \in Bodies : ~Active(c, s)'
    BY <1>2, <1>8 DEF Fenced
  <2>3. \A c \in Bodies, u \in Transfers : ~Claims(c, u, s)'
    BY <1>4, <2>1
  <2>4. \A c \in Bodies, u \in Transfers : Pending(c, u, s)' => c = b
    BY <1>6, <2>1
  <2>. QED BY <2>2, <2>3, <2>4 DEF Fenced
<1>. QED BY <1>7, <1>8

LEMMA AbortFenced ==
  ASSUME TypeOK, RecordsOK, StagingOK, BurnsOK, NEW s \in Selves, Fenced(s),
         NEW b \in Bodies, NEW t \in Transfers, Abort(b, t)
  PROVE  Fenced(s)'
<1> DEFINE d == transfers[b][t].peer
<1>0. /\ Elsewhere(b, t) /\ FrozenSource(b, t)
      /\ <<d, t>> \in burns
      /\ transfers'[b][t].outcome = "aborted"
      /\ selfId'[b] = selfId[b] /\ state'[b] = "active"
  BY AbortEffect
<1>1. /\ Self(b)' = Self(b)
      /\ \A u \in Transfers : ~FrozenSource(b, u)'
  BY <1>0 DEF Self, FrozenSource
<1>. staging' = staging
  BY DEF Abort
<1>2. d \in Bodies
  BY <1>0 DEF FrozenSource, RecordsOK, WellFormed
<1>3. transfers[d][t].outcome = "burned"
  BY <1>0, <1>2 DEF BurnsOK
<1>4. \A c \in Bodies, u \in Transfers : Claims(c, u, s)' => Claims(c, u, s)
  BY <1>0, <1>1 DEF Elsewhere, Claims
<1>5. \A c \in Bodies : c # b /\ Active(c, s)' => Active(c, s)
  BY <1>0 DEF Elsewhere, Active, Self
<1>6. transfers[b][t].outcome # "applied"
  BY <1>0 DEF FrozenSource, RecordsOK, WellFormed
<1>7. \A c \in Bodies, u \in Transfers :
         Pending(c, u, s)' => c # b /\ Pending(c, u, s)
            /\ transfers'[c][u].peer = transfers[c][u].peer
  <2>1. ASSUME NEW c \in Bodies, NEW u \in Transfers, Pending(c, u, s)'
        PROVE  c # b
    BY <1>1, <2>1 DEF Pending
  <2>. QED BY <1>0, <1>6, <2>1, PendingElsewhere
<1>8. CASE Self(b) # s
  <2>1. ~Active(b, s)'
    BY <1>1, <1>8 DEF Active
  <2>. QED BY <1>4, <1>5, <1>7, <2>1, FewerFenced
<1>9. CASE Self(b) = s
  <2>1. Pending(b, t, s)
    BY <1>0, <1>3, <1>9 DEF Pending
  <2>2. \A c \in Bodies : ~Active(c, s)
    BY <2>1 DEF Fenced
  <2>3. \A c \in Bodies, u \in Transfers : ~Pending(c, u, s)'
    BY <1>7, <2>1 DEF Fenced
  <2>4. ~Claims(d, t, s)
    BY <1>2, <1>3 DEF Claims, StagingOK
  <2>5. \A c \in Bodies, u \in Transfers : ~Claims(c, u, s)'
    BY <1>4, <2>1, <2>4 DEF Fenced
  <2>. QED BY <1>5, <2>2, <2>3, <2>5 DEF Fenced
<1>. QED BY <1>8, <1>9

LEMMA StageBeginFenced ==
  ASSUME TypeOK, RecordsOK, StagingOK, NEW s \in Selves, Fenced(s),
         NEW d \in Bodies, NEW t \in Transfers, NEW a \in Bodies,
         NEW replace \in BOOLEAN, StageBegin(d, t, a, replace)
  PROVE  Fenced(s)'
<1>1. /\ UNCHANGED <<transfers, state, transferId, selfId>>
      /\ staging'[d].transfer = t /\ staging'[d].selfId = selfId[a]
      /\ \A c \in Bodies \ {d} : staging'[c] = staging[c]
      /\ FrozenSource(a, t) /\ transfers[a][t].peer = d
      /\ transfers[d][t].outcome \in {"none", "staged"}
  BY DEF StageBegin, TypeOK, selfVars
<1>2. selfId[a] = Self(a)
  BY <1>1, SelvesAssumption DEF FrozenSource, RecordsOK, Self, Selves
<1>3. \A c \in Bodies, u \in Transfers :
         Claims(c, u, s)' => Claims(c, u, s) \/ (c = d /\ u = t /\ Self(a) = s)
  BY <1>1, <1>2 DEF Claims
<1>0. UNCHANGED <<transfers, state, transferId, selfId>>
  BY <1>1
<1>4. \A c \in Bodies : Active(c, s)' <=> Active(c, s)
  BY <1>0 DEF Active, Self
<1>5. \A c \in Bodies, u \in Transfers : Pending(c, u, s)' <=> Pending(c, u, s)
  BY <1>0 DEF Pending, FrozenSource, Self
<1>6. CASE Self(a) # s
  BY <1>1, <1>3, <1>4, <1>5, <1>6, FewerFenced
<1>7. CASE Self(a) = s
  <2>1. Pending(a, t, s)
    BY <1>1, <1>7 DEF Pending
  <2>2. \A c \in Bodies : ~Active(c, s)'
    BY <1>4, <2>1 DEF Fenced
  <2>3. \A c \in Bodies, u \in Transfers : Claims(c, u, s)' => c = d /\ u = t
    BY <1>1, <1>3, <2>1 DEF Fenced
  <2>4. \A c \in Bodies, u \in Transfers : Pending(c, u, s)' => c = a /\ u = t
    BY <1>1, <1>5, <2>1 DEF Fenced, Pending, FrozenSource
  <2>. QED BY <1>1, <2>2, <2>3, <2>4 DEF Fenced
<1>. QED BY <1>6, <1>7

LEMMA StageCommitFenced ==
  ASSUME TypeOK, RecordsOK, StagingOK, NEW s \in Selves, Fenced(s),
         NEW d \in Bodies, StageCommit(d)
  PROVE  Fenced(s)'
<1>1. PICK t \in Transfers : staging[d].transfer = t
  BY DEF TypeOK, Admission, StageCommit
<1>2. /\ Elsewhere(d, t)
      /\ transfers'[d][t].role = "destination"
      /\ transfers'[d][t].selfId = staging[d].selfId
      /\ selfId'[d] = selfId[d] /\ state'[d] = state[d]
      /\ transferId'[d] = transferId[d]
      /\ staging'[d].transfer = NoTransfer
      /\ \A c \in Bodies \ {d} : staging'[c] = staging[c]
  BY <1>1, StageCommitEffect
<1>3. transfers[d][t].outcome # "applied"
  BY <1>1 DEF StagingOK
<1>4. \A c \in Bodies : Active(c, s)' => Active(c, s)
  BY <1>2 DEF Elsewhere, Active, Self
<1>5. \A c \in Bodies, u \in Transfers : Claims(c, u, s)' => Claims(c, u, s)
  <2>1. ASSUME NEW c \in Bodies, NEW u \in Transfers, c # d, Claims(c, u, s)'
        PROVE  Claims(c, u, s)
    BY <1>2, <2>1 DEF Elsewhere, Claims
  <2>2. ASSUME NEW u \in Transfers, u # t, Claims(d, u, s)'
        PROVE  Claims(d, u, s)
    BY <1>2, <2>2, TransfersAssumption DEF Elsewhere, Claims
  <2>3. Claims(d, t, s)' => Claims(d, t, s)
    BY <1>1, <1>2, TransfersAssumption DEF Claims
  <2>. QED BY <2>1, <2>2, <2>3
<1>6. ASSUME NEW c \in Bodies, NEW u \in Transfers, Pending(c, u, s)'
      PROVE  Pending(c, u, s) /\ transfers'[c][u].peer = transfers[c][u].peer
  <2>1. c # d \/ u # t
    BY <1>2, <1>6 DEF Pending, FrozenSource
  <2>2. /\ transfers'[c][u] = transfers[c][u] /\ selfId'[c] = selfId[c]
        /\ state'[c] = state[c] /\ transferId'[c] = transferId[c]
    BY <1>2, <2>1 DEF Elsewhere
  <2>. QED BY <1>2, <1>3, <1>6, <2>2, PendingKept
<1>. QED BY <1>4, <1>5, <1>6, FewerFenced

LEMMA ApplyFenced ==
  ASSUME TypeOK, RecordsOK, StagingOK, NEW s \in Selves, Fenced(s),
         NEW d \in Bodies, NEW t \in Transfers, Apply(d, t)
  PROVE  Fenced(s)'
<1>1. /\ Elsewhere(d, t)
      /\ transfers[d][t].outcome = "staged"
      /\ transfers'[d][t].role = "destination"
      /\ transfers'[d][t].selfId = transfers[d][t].selfId
      /\ state'[d] = "frozen" /\ transferId'[d] = t
  BY ApplyEffect
<1>2. staging' = staging
  BY DEF Apply
<1>3. \A c \in Bodies : Active(c, s)' => Active(c, s)
  BY <1>1 DEF Elsewhere, Active, Self
<1>4. \A c \in Bodies, u \in Transfers : Claims(c, u, s)' => Claims(c, u, s)
  <2>1. ASSUME NEW c \in Bodies, NEW u \in Transfers, c # d \/ u # t
        PROVE  Claims(c, u, s)' => Claims(c, u, s)
    BY <1>1, <1>2, <2>1 DEF Elsewhere, Claims
  <2>2. Claims(d, t, s)' => Claims(d, t, s)
    BY <1>1, <1>2 DEF Claims
  <2>. QED BY <2>1, <2>2
<1>5. ASSUME NEW c \in Bodies, NEW u \in Transfers, Pending(c, u, s)'
      PROVE  Pending(c, u, s) /\ transfers'[c][u].peer = transfers[c][u].peer
  <2>1. c # d
    BY <1>1, <1>5 DEF Pending, FrozenSource
  <2>. QED BY <1>1, <1>5, <2>1, PendingElsewhere
<1>. QED BY <1>3, <1>4, <1>5, FewerFenced

LEMMA ReleaseFenced ==
  ASSUME TypeOK, RecordsOK, StagingOK, NEW s \in Selves, Fenced(s),
         NEW b \in Bodies, NEW t \in Transfers, Release(b, t)
  PROVE  Fenced(s)'
<1>1. /\ Elsewhere(b, t) /\ FrozenSource(b, t)
      /\ transfers'[b][t].outcome = "released"
      /\ state'[b] = "released"
  BY ReleaseEffect
<1>2. staging' = staging
  BY DEF Release
<1>3. \A c \in Bodies : Active(c, s)' => Active(c, s)
  BY <1>1 DEF Elsewhere, Active, Self
<1>4. \A c \in Bodies, u \in Transfers : Claims(c, u, s)' => Claims(c, u, s)
  BY <1>1, <1>2 DEF Elsewhere, Claims
<1>5. transfers[b][t].outcome # "applied"
  BY <1>1 DEF FrozenSource, RecordsOK, WellFormed
<1>6. ASSUME NEW c \in Bodies, NEW u \in Transfers, Pending(c, u, s)'
      PROVE  Pending(c, u, s) /\ transfers'[c][u].peer = transfers[c][u].peer
  <2>1. c # b
    BY <1>1, <1>6 DEF Pending, FrozenSource
  <2>. QED BY <1>1, <1>5, <1>6, <2>1, PendingElsewhere
<1>. QED BY <1>3, <1>4, <1>6, FewerFenced

LEMMA DiscardFenced ==
  ASSUME TypeOK, RecordsOK, StagingOK, NEW s \in Selves, Fenced(s),
         NEW d \in Bodies, NEW t \in Transfers, Discard(d, t)
  PROVE  Fenced(s)'
<1>1. /\ Elsewhere(d, t)
      /\ transfers[d][t].outcome # "applied"
      /\ transfers'[d][t].role = "destination"
      /\ transfers'[d][t].outcome = "burned"
      /\ selfId'[d] = selfId[d] /\ state'[d] = state[d]
      /\ transferId'[d] = transferId[d]
  BY DiscardEffect
<1>2. staging' = staging
  BY DEF Discard
<1>3. \A c \in Bodies : Active(c, s)' => Active(c, s)
  BY <1>1 DEF Elsewhere, Active, Self
<1>4. \A c \in Bodies, u \in Transfers : Claims(c, u, s)' => Claims(c, u, s)
  BY <1>1, <1>2 DEF Elsewhere, Claims
<1>5. ASSUME NEW c \in Bodies, NEW u \in Transfers, Pending(c, u, s)'
      PROVE  Pending(c, u, s) /\ transfers'[c][u].peer = transfers[c][u].peer
  <2>1. c # d \/ u # t
    BY <1>1, <1>5 DEF Pending, FrozenSource
  <2>2. /\ transfers'[c][u] = transfers[c][u] /\ selfId'[c] = selfId[c]
        /\ state'[c] = state[c] /\ transferId'[c] = transferId[c]
    BY <1>1, <2>1 DEF Elsewhere
  <2>. QED BY <1>1, <1>5, <2>2, PendingKept
<1>. QED BY <1>3, <1>4, <1>5, FewerFenced

\* A reclaimed self leaves the fence; every other self only loses a source.
LEMMA ReclaimFenced ==
  ASSUME TypeOK, RecordsOK, NEW s \in Selves \ forced', Fenced(s),
         NEW b \in Bodies, Reclaim(b)
  PROVE  Fenced(s)'
<1>1. /\ UNCHANGED <<transfers, selfId, staging>>
      /\ state'[b] = "active"
      /\ \A c \in Bodies \ {b} :
            state'[c] = state[c] /\ transferId'[c] = transferId[c]
      /\ Self(b) # s
  BY DEF Reclaim, TypeOK
<1>2. \A c \in Bodies : Self(c)' = Self(c)
  BY <1>1 DEF Self
<1>3. \A c \in Bodies : Active(c, s)' => Active(c, s)
  BY <1>1, <1>2 DEF Active
<1>4. \A c \in Bodies, u \in Transfers : Claims(c, u, s)' => Claims(c, u, s)
  BY <1>1 DEF Claims
<1>5. \A c \in Bodies, u \in Transfers :
         Pending(c, u, s)' =>
            Pending(c, u, s) /\ transfers'[c][u].peer = transfers[c][u].peer
  BY <1>1, <1>2 DEF Pending, FrozenSource
<1>. QED BY <1>3, <1>4, <1>5, FewerFenced

\* The destination activates: its claim was the only one, and the source that
\* froze for it stops being pending in the same step.
LEMMA BootActivateFenced ==
  ASSUME TypeOK, RecordsOK, StagingOK, BootOK, NEW s \in Selves, Fenced(s),
         NEW b \in Bodies, BootActivate(b)
  PROVE  Fenced(s)'
<1>1. PICK t \in Transfers :
         /\ Applying(b, t)
         /\ Elsewhere(b, t)
         /\ transfers'[b][t].outcome = "applied"
         /\ selfId'[b] = selfId[b]
         /\ state'[b] = "active"
  BY BootActivateEffect
<1>2. /\ selfId[b] = transfers[b][t].selfId /\ selfId[b] \in Selves
      /\ transfers[b][t].outcome = "applying"
  BY <1>1 DEF Applying, BootOK, RecordsOK, WellFormed
<1>3. Self(b)' = selfId[b]
  BY <1>1, <1>2, SelvesAssumption DEF Self, Selves
<1>4. staging' = staging /\ staging[b].transfer # t
  BY <1>2 DEF BootActivate, StagingOK
<1>5. \A c \in Bodies, u \in Transfers :
         Claims(c, u, s)' => Claims(c, u, s) /\ (c # b \/ u # t)
  BY <1>1, <1>4 DEF Elsewhere, Claims
<1>6. \A c \in Bodies : c # b /\ Active(c, s)' => Active(c, s)
  BY <1>1 DEF Elsewhere, Active, Self
<1>7. ASSUME NEW c \in Bodies, NEW u \in Transfers, Pending(c, u, s)'
      PROVE  /\ c # b /\ Pending(c, u, s)
             /\ transfers'[c][u].peer = transfers[c][u].peer
             /\ ~(u = t /\ transfers[c][u].peer = b)
  <2>1. c # b
    BY <1>1, <1>7 DEF Pending, FrozenSource
  <2>2. Pending(c, u, s) /\ transfers'[c][u].peer = transfers[c][u].peer
    BY <1>1, <1>7, <2>1, PendingElsewhere
  <2>. QED BY <1>1, <1>7, <2>1, <2>2 DEF Pending
<1>8. CASE selfId[b] # s
  <2>1. ~Active(b, s)'
    BY <1>3, <1>8 DEF Active
  <2>. QED BY <1>5, <1>6, <1>7, <2>1, FewerFenced
<1>9. CASE selfId[b] = s
  <2>1. Claims(b, t, s)
    BY <1>2, <1>9 DEF Claims
  <2>2. \A c \in Bodies : ~Active(c, s)
    BY <2>1 DEF Fenced
  <2>3. \A c \in Bodies, u \in Transfers : ~Claims(c, u, s)'
    BY <1>5, <2>1 DEF Fenced
  <2>4. \A c \in Bodies, u \in Transfers : ~Pending(c, u, s)'
    BY <1>7, <2>1 DEF Fenced
  <2>. QED BY <1>6, <2>2, <2>3, <2>4 DEF Fenced
<1>. QED BY <1>8, <1>9

\* A stage that ends without its record only gives its claim up.
LEMMA QuietFenced ==
  ASSUME TypeOK, NEW s \in Selves, Fenced(s),
         UNCHANGED <<selfId, state, transferId, transfers>>,
         \A c \in Bodies : staging'[c] = staging[c]
                           \/ staging'[c].transfer = NoTransfer
  PROVE  Fenced(s)'
<1>1. \A c \in Bodies : Active(c, s)' => Active(c, s)
  BY DEF Active, Self
<1>2. \A c \in Bodies, u \in Transfers : Claims(c, u, s)' => Claims(c, u, s)
  BY TransfersAssumption DEF Claims
<1>3. \A c \in Bodies, u \in Transfers :
         Pending(c, u, s)' =>
            Pending(c, u, s) /\ transfers'[c][u].peer = transfers[c][u].peer
  BY DEF Pending, FrozenSource, Self
<1>. QED BY <1>1, <1>2, <1>3, FewerFenced

\* Every step keeps the fence around every self no owner has forced.
LEMMA StepFenced ==
  ASSUME TypeOK, RecordsOK, StagingOK, BurnsOK, BootOK,
         \A s \in Selves \ forced : Fenced(s),
         [Next]_vars
  PROVE  \A s \in Selves \ forced' : Fenced(s)'
<1> SUFFICES ASSUME NEW s \in Selves \ forced' PROVE Fenced(s)'
  OBVIOUS
<1>1. Next \/ UNCHANGED vars
  OBVIOUS
<1>2. forced \subseteq forced'
  <2>1. CASE Next
    <3>1. PICK b \in Bodies :
             \/ \E t \in Transfers :
                   \/ \E d \in Bodies : Freeze(b, t, d)
                   \/ Release(b, t) \/ Abort(b, t) \/ Apply(b, t) \/ Discard(b, t)
             \/ Reclaim(b) \/ StageCommit(b) \/ BootActivate(b)
             \/ Quiet(b)
      BY <2>1, NextCases
    <3>2. (\E t \in Transfers, d \in Bodies : Freeze(b, t, d)) => forced' = forced
      BY DEF Freeze, ghostVars
    <3>3. (\E t \in Transfers : Release(b, t) \/ Abort(b, t) \/ Apply(b, t)
                                \/ Discard(b, t)) => forced' = forced
      BY DEF Release, Abort, Apply, Discard, ghostVars
    <3>4. Reclaim(b) => forced \subseteq forced'
      BY DEF Reclaim
    <3>5. StageCommit(b) \/ BootActivate(b) => forced' = forced
      BY DEF StageCommit, BootActivate, ghostVars
    <3>. QED BY <3>1, <3>2, <3>3, <3>4, <3>5, QuietEffect
  <2>2. CASE UNCHANGED vars
    BY <2>2 DEF vars, ghostVars
  <2>. QED BY <1>1, <2>1, <2>2
<1>3. s \in Selves /\ Fenced(s)
  BY <1>2
<1>4. ASSUME NEW b \in Bodies, NEW t \in Transfers, NEW d \in Bodies,
             Freeze(b, t, d)
      PROVE  Fenced(s)'
  BY <1>3, <1>4, FreezeFenced
<1>5. ASSUME NEW b \in Bodies, NEW t \in Transfers,
             Release(b, t) \/ Abort(b, t) \/ Apply(b, t) \/ Discard(b, t)
      PROVE  Fenced(s)'
  BY <1>3, <1>5, ReleaseFenced, AbortFenced, ApplyFenced, DiscardFenced
<1>6. ASSUME NEW b \in Bodies, Reclaim(b) \/ StageCommit(b) \/ BootActivate(b)
      PROVE  Fenced(s)'
  BY <1>3, <1>6, ReclaimFenced, StageCommitFenced, BootActivateFenced
<1>7. ASSUME NEW d \in Bodies, NEW t \in Transfers, NEW a \in Bodies,
             NEW replace \in BOOLEAN, StageBegin(d, t, a, replace)
      PROVE  Fenced(s)'
  BY <1>3, <1>7, StageBeginFenced
<1>8. ASSUME NEW b \in Bodies,
             \/ \E t \in Transfers : OutgoingBundle(b, t) \/ StageRefused(b, t)
             \/ StageGivesUp(b) \/ ReadActivation(b) \/ Stop(b) \/ Boot(b)
             \/ BootInstall(b) \/ TakeTurn(b)
      PROVE  Fenced(s)'
  <2>1. UNCHANGED <<selfId, state, transferId, transfers>>
    BY <1>8, QuietEffect DEF Quiet
  <2>2. \A c \in Bodies : staging'[c] = staging[c]
                          \/ staging'[c].transfer = NoTransfer
    BY <1>8 DEF OutgoingBundle, StageRefused, StageGivesUp, ReadActivation,
       Stop, Boot, BootInstall, TakeTurn, TypeOK, NoStage
  <2>. QED BY <1>3, <2>1, <2>2, QuietFenced
<1>9. CASE UNCHANGED vars
  BY <1>3, <1>9, QuietFenced DEF vars, selfVars
<1>. QED BY <1>1, <1>4, <1>5, <1>6, <1>7, <1>8, <1>9 DEF Next

-----------------------------------------------------------------------------
(* The theorems.                                                           *)

LEMMA InitIInv == Init => IInv
<1> SUFFICES ASSUME Init PROVE IInv
  OBVIOUS
<1>1. TypeOK
  BY InitTypeOK
<1>2. RecordsOK /\ BurnsOK /\ BootOK
  BY DEF Init, RecordsOK, WellFormed, NoRecord, BurnsOK, BootOK, Applying
<1>3. StagingOK
  BY TransfersAssumption DEF Init, StagingOK, NoStage
<1>4. ASSUME NEW s \in Selves
      PROVE  Fenced(s)
  <2>1. \A b \in Bodies : Self(b) = b
    BY DEF Init, Self
  <2>2. \A b \in Bodies, t \in Transfers : ~Pending(b, t, s)
    BY DEF Init, Pending, FrozenSource
  <2>3. \A b \in Bodies, t \in Transfers : ~Claims(b, t, s)
    BY TransfersAssumption DEF Init, Claims, NoRecord, NoStage
  <2>. QED BY <2>1, <2>2, <2>3 DEF Fenced, Active
<1>. QED BY <1>1, <1>2, <1>3, <1>4 DEF IInv

LEMMA StepIInv == IInv /\ [Next]_vars => IInv'
  BY StepTypeOK, StepRecordsOK, StepStagingOK, StepBurnsOK, StepBootOK,
     StepFenced DEF IInv

\* The inductive invariant holds in every reachable state, for any bodies,
\* transfer ids, owners' reclaims and epochs.
THEOREM Invariance == Spec => []IInv
  BY InitIInv, StepIInv, PTL DEF Spec

\* Every self record, bundle set, admission and proof keeps its type however
\* the commands, crashes and boots interleave.
THEOREM TypeCorrect == Spec => []TypeOK
<1>1. IInv => TypeOK
  BY DEF IInv
<1>. QED BY <1>1, Invariance, PTL

\* One body holds Clankie at a time: no two bodies are ever active as one self,
\* unless an owner reclaimed that self by force.
THEOREM OneActive == Spec => []OneActiveSelf
<1>1. IInv => OneActiveSelf
  <2> SUFFICES ASSUME IInv, NEW s \in Selves \ forced, NEW b \in Bodies,
                      NEW c \in Bodies, Active(b, s), Active(c, s)
               PROVE  b = c
    BY DEF OneActiveSelf
  <2>1. Fenced(s)
    BY DEF IInv
  <2>. QED BY <2>1 DEF Fenced
<1>. QED BY <1>1, Invariance, PTL

(***************************************************************************)
(* Part 2: the two ends of a transfer.  An abort excludes the apply for    *)
(* ever, and a tombstone stands for an activation of the same self at the  *)
(* same epoch.  The argument goes through the signed answers: a record that*)
(* is final and an answer that was given are never taken back.             *)
(***************************************************************************)

\* The answer that t's destination gave, if b may release on it.
Answer(b, t) ==
    [body |-> transfers[b][t].peer, transfer |-> t,
     selfId |-> transfers[b][t].selfId, epoch |-> transfers[b][t].epoch]

\* A source that took its self back did so on a burn.
AbortedOK ==
    \A b \in Bodies, t \in Transfers :
        transfers[b][t].outcome = "aborted" => <<transfers[b][t].peer, t>> \in burns

\* A tombstone was left on the answer about the record's self and epoch.
ReleasedOK ==
    \A b \in Bodies, t \in Transfers :
        transfers[b][t].outcome = "released" => Answer(b, t) \in activations

\* A body frozen as a source still is what the record of the freeze says.
FrozenOK ==
    \A b \in Bodies, t \in Transfers :
        FrozenSource(b, t) =>
            /\ transfers[b][t].outcome = "frozen"
            /\ transfers[b][t].selfId = selfId[b]
            /\ transfers[b][t].epoch = epoch[b]

\* So is a body that its last apply made active.
ActivatedOK ==
    \A b \in Bodies, t \in Transfers :
        /\ state[b] = "active" /\ transferId[b] = t
        /\ transfers[b][t].outcome = "applied"
        => /\ transfers[b][t].selfId = selfId[b]
           /\ transfers[b][t].epoch = epoch[b]

\* An activation was signed over an applied record, which stays as it was.
AnswersOK ==
    \A a \in activations :
        /\ transfers[a.body][a.transfer].outcome = "applied"
        /\ transfers[a.body][a.transfer].selfId = a.selfId
        /\ transfers[a.body][a.transfer].epoch = a.epoch

OutcomesInv ==
    /\ IInv
    /\ AbortedOK
    /\ ReleasedOK
    /\ FrozenOK
    /\ ActivatedOK
    /\ AnswersOK


-----------------------------------------------------------------------------
(* Who writes what.                                                        *)

\* The steps that write b's record of t.
Writes(b, t) ==
    \/ \E d \in Bodies : Freeze(b, t, d)
    \/ Release(b, t)
    \/ Abort(b, t)
    \/ Apply(b, t)
    \/ Discard(b, t)
    \/ StageCommit(b) /\ staging[b].transfer = t
    \/ BootActivate(b) /\ Applying(b, t)

LEMMA OnlyWriters ==
  ASSUME IInv, [Next]_vars, NEW c \in Bodies, NEW u \in Transfers,
         transfers'[c][u] # transfers[c][u]
  PROVE  Writes(c, u)
<1> USE DEF Writes, Elsewhere
<1>0. TypeOK /\ BootOK
  BY DEF IInv
<1>1. CASE UNCHANGED vars
  BY <1>1 DEF vars, selfVars
<1>2. ASSUME NEW b \in Bodies, NEW t \in Transfers, NEW d \in Bodies,
             Freeze(b, t, d)
      PROVE  Writes(c, u)
  <2>1. Elsewhere(b, t)
    BY <1>0, <1>2, FreezeEffect
  <2>. QED BY <1>2, <2>1
<1>3. ASSUME NEW b \in Bodies, NEW t \in Transfers, Release(b, t)
      PROVE  Writes(c, u)
  <2>1. Elsewhere(b, t)
    BY <1>0, <1>3, ReleaseEffect
  <2>. QED BY <1>3, <2>1
<1>4. ASSUME NEW b \in Bodies, NEW t \in Transfers, Abort(b, t)
      PROVE  Writes(c, u)
  <2>1. Elsewhere(b, t)
    BY <1>0, <1>4, AbortEffect
  <2>. QED BY <1>4, <2>1
<1>5. ASSUME NEW b \in Bodies, NEW t \in Transfers, Apply(b, t)
      PROVE  Writes(c, u)
  <2>1. Elsewhere(b, t)
    BY <1>0, <1>5, ApplyEffect
  <2>. QED BY <1>5, <2>1
<1>6. ASSUME NEW b \in Bodies, NEW t \in Transfers, Discard(b, t)
      PROVE  Writes(c, u)
  <2>1. Elsewhere(b, t)
    BY <1>0, <1>6, DiscardEffect
  <2>. QED BY <1>6, <2>1
<1>7. ASSUME NEW b \in Bodies, StageCommit(b)
      PROVE  Writes(c, u)
  <2>1. PICK t \in Transfers : staging[b].transfer = t
    BY <1>0, <1>7 DEF TypeOK, Admission, StageCommit
  <2>2. Elsewhere(b, t)
    BY <1>0, <1>7, <2>1, StageCommitEffect
  <2>. QED BY <1>7, <2>1, <2>2
<1>8. ASSUME NEW b \in Bodies, BootActivate(b)
      PROVE  Writes(c, u)
  <2>1. PICK t \in Transfers : Applying(b, t) /\ Elsewhere(b, t)
    BY <1>0, <1>8, BootActivateEffect
  <2>. QED BY <1>8, <2>1
<1>9. ASSUME NEW b \in Bodies, Reclaim(b) \/ Quiet(b)
      PROVE  Writes(c, u)
  BY <1>9, QuietEffect DEF Reclaim
<1>. QED BY <1>1, <1>2, <1>3, <1>4, <1>5, <1>6, <1>7, <1>8, <1>9, NextCases

\* The steps that write b's own self, epoch, state or current transfer.
Turns(b) ==
    \/ \E t \in Transfers :
          \/ \E d \in Bodies : Freeze(b, t, d)
          \/ Release(b, t)
          \/ Abort(b, t)
          \/ Apply(b, t)
    \/ Reclaim(b)
    \/ BootActivate(b)

LEMMA OnlyTurns ==
  ASSUME TypeOK, [Next]_vars, NEW c \in Bodies,
         ~( /\ selfId'[c] = selfId[c] /\ epoch'[c] = epoch[c]
            /\ state'[c] = state[c] /\ transferId'[c] = transferId[c])
  PROVE  Turns(c)
<1>1. CASE UNCHANGED vars
  BY <1>1 DEF vars, selfVars
<1>2. ASSUME NEW b \in Bodies,
             \/ \E t \in Transfers : Discard(b, t)
             \/ StageCommit(b) \/ Quiet(b)
      PROVE  FALSE
  BY <1>2, QuietEffect DEF Discard, StageCommit
<1>3. ASSUME NEW b \in Bodies, NEW t \in Transfers,
             \/ \E d \in Bodies : Freeze(b, t, d)
             \/ Release(b, t) \/ Abort(b, t) \/ Apply(b, t)
      PROVE  b = c
  BY <1>3 DEF TypeOK, Freeze, Release, Abort, Apply
<1>4. ASSUME NEW b \in Bodies, Reclaim(b) \/ BootActivate(b)
      PROVE  b = c
  BY <1>4 DEF TypeOK, Reclaim, BootActivate
<1>. QED BY <1>1, <1>2, <1>3, <1>4, NextCases DEF Turns

\* An outcome that ends a transfer is not written over.
LEMMA EndsAreFinal ==
  ASSUME IInv, FrozenOK, [Next]_vars, NEW c \in Bodies, NEW u \in Transfers,
         transfers[c][u].outcome \in {"released", "aborted", "applied"}
  PROVE  transfers'[c][u] = transfers[c][u]
<1> SUFFICES ASSUME Writes(c, u) PROVE FALSE
  BY OnlyWriters
<1>0. WellFormed(transfers[c][u])
  BY DEF IInv, RecordsOK
<1>1. ASSUME NEW d \in Bodies, Freeze(c, u, d)
      PROVE  FALSE
  BY <1>0, <1>1 DEF Freeze, WellFormed
<1>2. ASSUME Release(c, u) \/ Abort(c, u)
      PROVE  FALSE
  <2>1. FrozenSource(c, u)
    BY <1>2 DEF Release, Abort
  <2>. QED BY <2>1 DEF FrozenOK
<1>3. ASSUME Apply(c, u) \/ Discard(c, u)
      PROVE  FALSE
  BY <1>0, <1>3 DEF Apply, Discard, WellFormed
<1>4. ASSUME StageCommit(c), staging[c].transfer = u
      PROVE  FALSE
  BY <1>4 DEF IInv, StagingOK
<1>5. ASSUME Applying(c, u)
      PROVE  FALSE
  BY <1>5 DEF Applying
<1>. QED BY <1>1, <1>2, <1>3, <1>4, <1>5 DEF Writes

\* An answer that was given can be presented at any later time.
LEMMA AnswersStay ==
  ASSUME [Next]_vars
  PROVE  burns \subseteq burns' /\ activations \subseteq activations'
<1>1. ASSUME NEW b \in Bodies, NEW t \in Transfers,
             \/ \E d \in Bodies : Freeze(b, t, d)
             \/ Release(b, t) \/ Abort(b, t) \/ Apply(b, t) \/ Discard(b, t)
             \/ OutgoingBundle(b, t) \/ StageRefused(b, t)
             \/ \E a \in Bodies, replace \in BOOLEAN : StageBegin(b, t, a, replace)
      PROVE  burns \subseteq burns' /\ activations \subseteq activations'
  BY <1>1 DEF Freeze, Release, Abort, Apply, Discard, OutgoingBundle,
     StageRefused, StageBegin
<1>2. ASSUME NEW b \in Bodies,
             \/ Reclaim(b) \/ StageCommit(b) \/ StageGivesUp(b)
             \/ ReadActivation(b) \/ Stop(b) \/ Boot(b) \/ BootInstall(b)
             \/ BootActivate(b) \/ TakeTurn(b)
      PROVE  burns \subseteq burns' /\ activations \subseteq activations'
  BY <1>2 DEF Reclaim, StageCommit, StageGivesUp, ReadActivation, Stop, Boot,
     BootInstall, BootActivate, TakeTurn
<1>3. CASE UNCHANGED vars
  BY <1>3 DEF vars
<1>. QED BY <1>1, <1>2, <1>3 DEF Next

-----------------------------------------------------------------------------
(* The five parts are kept.                                                *)

LEMMA StepAbortedOK ==
  ASSUME IInv, FrozenOK, AbortedOK, [Next]_vars
  PROVE  AbortedOK'
<1> SUFFICES ASSUME NEW c \in Bodies, NEW u \in Transfers,
                    transfers'[c][u].outcome = "aborted"
             PROVE  <<transfers'[c][u].peer, u>> \in burns'
  BY DEF AbortedOK
<1>0. TypeOK /\ BootOK
  BY DEF IInv
<1>1. CASE transfers'[c][u] = transfers[c][u]
  BY <1>1, AnswersStay DEF AbortedOK
<1>2. CASE Abort(c, u)
  <2>1. /\ <<transfers[c][u].peer, u>> \in burns
        /\ transfers'[c][u].peer = transfers[c][u].peer
    BY <1>0, <1>2, AbortEffect
  <2>. QED BY <2>1, AnswersStay
<1>3. ASSUME Writes(c, u), ~Abort(c, u)
      PROVE  FALSE
  <2>1. ASSUME NEW d \in Bodies, Freeze(c, u, d)
        PROVE  FALSE
    BY <1>0, <2>1, FreezeEffect
  <2>2. ASSUME Release(c, u) \/ Apply(c, u) \/ Discard(c, u)
        PROVE  FALSE
    BY <1>0, <2>2, ReleaseEffect, ApplyEffect, DiscardEffect
  <2>3. ASSUME StageCommit(c), staging[c].transfer = u
        PROVE  FALSE
    BY <1>0, <2>3, StageCommitEffect
  <2>4. ASSUME BootActivate(c), Applying(c, u)
        PROVE  FALSE
    BY <1>0, <2>4 DEF BootActivate, Applying, TypeOK, TransferRecord
  <2>. QED BY <1>3, <2>1, <2>2, <2>3, <2>4 DEF Writes
<1>. QED BY <1>1, <1>2, <1>3, OnlyWriters

LEMMA StepReleasedOK ==
  ASSUME IInv, FrozenOK, ReleasedOK, [Next]_vars
  PROVE  ReleasedOK'
<1> SUFFICES ASSUME NEW c \in Bodies, NEW u \in Transfers,
                    transfers'[c][u].outcome = "released"
             PROVE  Answer(c, u)' \in activations'
  BY DEF ReleasedOK
<1>0. TypeOK /\ BootOK
  BY DEF IInv
<1>1. CASE transfers'[c][u] = transfers[c][u]
  BY <1>1, AnswersStay DEF ReleasedOK, Answer
<1>2. CASE Release(c, u)
  <2>1. FrozenSource(c, u) /\ ActivationProven(c, u)
    BY <1>2 DEF Release
  <2>2. Answer(c, u) \in activations
    BY <2>1 DEF ActivationProven, FrozenOK, Answer
  <2>3. /\ transfers'[c][u].peer = transfers[c][u].peer
        /\ transfers'[c][u].selfId = transfers[c][u].selfId
        /\ transfers'[c][u].epoch = transfers[c][u].epoch
    BY <1>0, <1>2 DEF Release, TypeOK, TransferRecord
  <2>. QED BY <2>2, <2>3, AnswersStay DEF Answer
<1>3. ASSUME Writes(c, u), ~Release(c, u)
      PROVE  FALSE
  <2>1. ASSUME NEW d \in Bodies, Freeze(c, u, d)
        PROVE  FALSE
    BY <1>0, <2>1, FreezeEffect
  <2>2. ASSUME Abort(c, u) \/ Apply(c, u) \/ Discard(c, u)
        PROVE  FALSE
    BY <1>0, <2>2, AbortEffect, ApplyEffect, DiscardEffect
  <2>3. ASSUME StageCommit(c), staging[c].transfer = u
        PROVE  FALSE
    BY <1>0, <2>3, StageCommitEffect
  <2>4. ASSUME BootActivate(c), Applying(c, u)
        PROVE  FALSE
    BY <1>0, <2>4 DEF BootActivate, Applying, TypeOK, TransferRecord
  <2>. QED BY <1>3, <2>1, <2>2, <2>3, <2>4 DEF Writes
<1>. QED BY <1>1, <1>2, <1>3, OnlyWriters

LEMMA StepFrozenOK ==
  ASSUME IInv, FrozenOK, [Next]_vars
  PROVE  FrozenOK'
<1> SUFFICES ASSUME NEW c \in Bodies, NEW u \in Transfers, FrozenSource(c, u)'
             PROVE  /\ transfers'[c][u].outcome = "frozen"
                    /\ transfers'[c][u].selfId = selfId'[c]
                    /\ transfers'[c][u].epoch = epoch'[c]
  BY DEF FrozenOK
<1>0. /\ TypeOK /\ BootOK
      /\ state'[c] = "frozen" /\ transferId'[c] = u
      /\ transfers'[c][u].role = "source"
  BY DEF IInv, FrozenSource
<1>1. ASSUME NEW d \in Bodies, Freeze(c, u, d)
      PROVE  /\ transfers'[c][u].outcome = "frozen"
             /\ transfers'[c][u].selfId = selfId'[c]
             /\ transfers'[c][u].epoch = epoch'[c]
  BY <1>0, <1>1 DEF Freeze, TypeOK
<1>2. CASE /\ transfers'[c][u] = transfers[c][u]
           /\ selfId'[c] = selfId[c] /\ epoch'[c] = epoch[c]
           /\ state'[c] = state[c] /\ transferId'[c] = transferId[c]
  BY <1>0, <1>2 DEF FrozenOK, FrozenSource
<1>3. ASSUME Turns(c), \A d \in Bodies : ~Freeze(c, u, d)
      PROVE  FALSE
  <2>1. ASSUME NEW t \in Transfers, NEW d \in Bodies, Freeze(c, t, d)
        PROVE  FALSE
    <3>1. transferId'[c] = t
      BY <1>0, <2>1, FreezeEffect
    <3>. QED BY <1>0, <1>3, <2>1, <3>1
  <2>2. ASSUME NEW t \in Transfers, Release(c, t) \/ Abort(c, t)
        PROVE  FALSE
    BY <1>0, <2>2, ReleaseEffect, AbortEffect
  <2>3. ASSUME NEW t \in Transfers, Apply(c, t)
        PROVE  FALSE
    BY <1>0, <2>3, ApplyEffect
  <2>4. ASSUME Reclaim(c) \/ BootActivate(c)
        PROVE  FALSE
    BY <1>0, <2>4 DEF TypeOK, Reclaim, BootActivate
  <2>. QED BY <1>3, <2>1, <2>2, <2>3, <2>4 DEF Turns
<1>4. ASSUME Writes(c, u), ~Turns(c)
      PROVE  FALSE
  <2>1. ASSUME Discard(c, u)
        PROVE  FALSE
    BY <1>0, <2>1, DiscardEffect
  <2>2. ASSUME StageCommit(c), staging[c].transfer = u
        PROVE  FALSE
    BY <1>0, <2>2, StageCommitEffect
  <2>. QED BY <1>4, <2>1, <2>2 DEF Writes, Turns
<1>. QED BY <1>0, <1>1, <1>2, <1>3, <1>4, OnlyWriters, OnlyTurns

LEMMA StepActivatedOK ==
  ASSUME IInv, FrozenOK, ActivatedOK, [Next]_vars
  PROVE  ActivatedOK'
<1> SUFFICES ASSUME NEW c \in Bodies, NEW u \in Transfers,
                    state'[c] = "active", transferId'[c] = u,
                    transfers'[c][u].outcome = "applied"
             PROVE  /\ transfers'[c][u].selfId = selfId'[c]
                    /\ transfers'[c][u].epoch = epoch'[c]
  BY DEF ActivatedOK
<1>0. TypeOK /\ BootOK
  BY DEF IInv
<1>1. CASE BootActivate(c)
  <2>1. PICK t \in Transfers : Applying(c, t)
    BY <1>0, <1>1 DEF BootOK, BootActivate
  <2>2. t = u /\ transferId[c] = u /\ selfId[c] = transfers[c][u].selfId
    BY <1>0, <1>1, <2>1 DEF BootOK, BootActivate, Applying
  <2>3. /\ transfers'[c][u].selfId = transfers[c][u].selfId
        /\ transfers'[c][u].epoch = transfers[c][u].epoch
        /\ selfId'[c] = selfId[c] /\ epoch'[c] = transfers[c][u].epoch
    BY <1>0, <1>1, <2>2 DEF TypeOK, TransferRecord, BootActivate
  <2>. QED BY <2>2, <2>3
<1>2. CASE /\ transfers'[c][u] = transfers[c][u]
           /\ selfId'[c] = selfId[c] /\ epoch'[c] = epoch[c]
           /\ state'[c] = state[c] /\ transferId'[c] = transferId[c]
  BY <1>2 DEF ActivatedOK
<1>3. ASSUME Turns(c), ~BootActivate(c)
      PROVE  FALSE
  <2>1. ASSUME NEW t \in Transfers, NEW d \in Bodies, Freeze(c, t, d)
        PROVE  FALSE
    BY <1>0, <2>1, FreezeEffect
  <2>2. ASSUME NEW t \in Transfers, Release(c, t)
        PROVE  FALSE
    BY <1>0, <2>2, ReleaseEffect
  <2>3. ASSUME NEW t \in Transfers, Abort(c, t)
        PROVE  FALSE
    <3>1. /\ FrozenSource(c, t) /\ transferId'[c] = transferId[c]
          /\ transfers'[c][t].outcome = "aborted"
      BY <1>0, <2>3, AbortEffect
    <3>2. t = u
      BY <3>1 DEF FrozenSource
    <3>. QED BY <3>1, <3>2
  <2>4. ASSUME NEW t \in Transfers, Apply(c, t)
        PROVE  FALSE
    BY <1>0, <2>4, ApplyEffect
  <2>5. ASSUME Reclaim(c)
        PROVE  FALSE
    BY <1>0, <2>5, TransfersAssumption DEF TypeOK, Reclaim
  <2>. QED BY <1>3, <2>1, <2>2, <2>3, <2>4, <2>5 DEF Turns
<1>4. ASSUME Writes(c, u), ~Turns(c)
      PROVE  FALSE
  <2>1. ASSUME Discard(c, u)
        PROVE  FALSE
    BY <1>0, <2>1, DiscardEffect
  <2>2. ASSUME StageCommit(c), staging[c].transfer = u
        PROVE  FALSE
    BY <1>0, <2>2, StageCommitEffect
  <2>. QED BY <1>4, <2>1, <2>2 DEF Writes, Turns
<1>. QED BY <1>0, <1>1, <1>2, <1>3, <1>4, OnlyWriters, OnlyTurns

LEMMA StepAnswersOK ==
  ASSUME IInv, FrozenOK, ActivatedOK, AnswersOK, [Next]_vars
  PROVE  AnswersOK'
<1> SUFFICES ASSUME NEW a \in activations'
             PROVE  /\ transfers'[a.body][a.transfer].outcome = "applied"
                    /\ transfers'[a.body][a.transfer].selfId = a.selfId
                    /\ transfers'[a.body][a.transfer].epoch = a.epoch
  BY DEF AnswersOK
<1>0. TypeOK
  BY DEF IInv
<1>1. CASE a \in activations
  <2>1. a.body \in Bodies /\ a.transfer \in Transfers
    BY <1>0, <1>1 DEF TypeOK
  <2>2. transfers[a.body][a.transfer].outcome = "applied"
    BY <1>1 DEF AnswersOK
  <2>3. transfers'[a.body][a.transfer] = transfers[a.body][a.transfer]
    BY <2>1, <2>2, EndsAreFinal
  <2>. QED BY <1>1, <2>3 DEF AnswersOK
<1>2. ASSUME NEW d \in Bodies, ReadActivation(d), a \notin activations
      PROVE  /\ transfers'[a.body][a.transfer].outcome = "applied"
             /\ transfers'[a.body][a.transfer].selfId = a.selfId
             /\ transfers'[a.body][a.transfer].epoch = a.epoch
  <2> DEFINE t == transferId[d]
  <2>1. /\ a = [body |-> d, transfer |-> t, selfId |-> selfId[d], epoch |-> epoch[d]]
        /\ state[d] = "active" /\ transfers[d][t].outcome = "applied"
        /\ transfers' = transfers
    BY <1>2 DEF ReadActivation, selfVars
  <2>2. t \in Transfers
    BY <1>0, <1>2 DEF TypeOK, ReadActivation
  <2>3. transfers[d][t].selfId = selfId[d] /\ transfers[d][t].epoch = epoch[d]
    BY <2>1, <2>2 DEF ActivatedOK
  <2>. QED BY <2>1, <2>3
<1>3. ASSUME \A d \in Bodies : ~ReadActivation(d)
      PROVE  activations' = activations
  <2>1. CASE UNCHANGED vars
    BY <2>1 DEF vars
  <2>2. ASSUME NEW b \in Bodies, NEW t \in Transfers,
               \/ \E d \in Bodies : Freeze(b, t, d)
               \/ Release(b, t) \/ Abort(b, t) \/ Apply(b, t) \/ Discard(b, t)
               \/ OutgoingBundle(b, t) \/ StageRefused(b, t)
               \/ \E c \in Bodies, replace \in BOOLEAN : StageBegin(b, t, c, replace)
        PROVE  activations' = activations
    BY <2>2 DEF Freeze, Release, Abort, Apply, Discard, OutgoingBundle,
       StageRefused, StageBegin
  <2>3. ASSUME NEW b \in Bodies,
               \/ Reclaim(b) \/ StageCommit(b) \/ StageGivesUp(b) \/ Stop(b)
               \/ Boot(b) \/ BootInstall(b) \/ BootActivate(b) \/ TakeTurn(b)
        PROVE  activations' = activations
    BY <2>3 DEF Reclaim, StageCommit, StageGivesUp, Stop, Boot, BootInstall,
       BootActivate, TakeTurn
  <2>. QED BY <1>3, <2>1, <2>2, <2>3 DEF Next
<1>. QED BY <1>1, <1>2, <1>3

-----------------------------------------------------------------------------
(* The theorems.                                                           *)

LEMMA InitOutcomes == Init => OutcomesInv
<1> SUFFICES ASSUME Init PROVE OutcomesInv
  OBVIOUS
<1>1. IInv
  BY InitIInv
<1>. QED BY <1>1 DEF Init, OutcomesInv, AbortedOK, ReleasedOK, FrozenOK,
         ActivatedOK, AnswersOK, FrozenSource, NoRecord

LEMMA StepOutcomes == OutcomesInv /\ [Next]_vars => OutcomesInv'
  BY StepIInv, StepAbortedOK, StepReleasedOK, StepFrozenOK, StepActivatedOK,
     StepAnswersOK DEF OutcomesInv

\* The inductive invariant behind the two theorems below, for any bodies,
\* transfer ids, reclaims and epochs.
THEOREM OutcomesInvariance == Spec => []OutcomesInv
  BY InitOutcomes, StepOutcomes, PTL DEF Spec

\* A transfer that was aborted is burned at its destination: no late, repeated
\* or delayed apply of it is ever committed there, whatever owners force.
THEOREM AbortExcludes == Spec => []AbortExcludesApply
<1>1. OutcomesInv => AbortExcludesApply
  <2> SUFFICES ASSUME OutcomesInv, NEW b \in Bodies, NEW t \in Transfers,
                      transfers[b][t].outcome = "aborted"
               PROVE  transfers[transfers[b][t].peer][t].outcome = "burned"
    BY DEF AbortExcludesApply
  <2>1. <<transfers[b][t].peer, t>> \in burns
    BY DEF OutcomesInv, AbortedOK
  <2>2. transfers[b][t].peer \in Bodies
    BY <2>1 DEF OutcomesInv, IInv, TypeOK
  <2>. QED BY <2>1, <2>2 DEF OutcomesInv, IInv, BurnsOK
<1>. QED BY <1>1, OutcomesInvariance, PTL

\* A tombstone is only left behind by a transfer whose destination became
\* active as the same self at the same epoch.
THEOREM ReleasedActivated == Spec => []ReleasedWasActivated
<1>1. OutcomesInv => ReleasedWasActivated
  <2> SUFFICES ASSUME OutcomesInv, NEW b \in Bodies, NEW t \in Transfers,
                      transfers[b][t].outcome = "released"
               PROVE  LET there == transfers[transfers[b][t].peer][t] IN
                      /\ there.outcome = "applied"
                      /\ there.selfId = transfers[b][t].selfId
                      /\ there.epoch = transfers[b][t].epoch
    BY DEF ReleasedWasActivated
  <2>1. Answer(b, t) \in activations
    BY DEF OutcomesInv, ReleasedOK
  <2>. QED BY <2>1 DEF OutcomesInv, AnswersOK, Answer
<1>. QED BY <1>1, OutcomesInvariance, PTL

(***************************************************************************)
(* Part 3: the self is kept.  The argument is about epochs: whoever is, or *)
(* may yet become, the self stands at or above every epoch on record.      *)
(***************************************************************************)

-----------------------------------------------------------------------------
(* The invariant.                                                          *)

\* c's record of u is about an epoch at which c was s.
Lived(c, u, s) == transfers[c][u].outcome \in Held /\ transfers[c][u].selfId = s

\* d claims s, at epoch e.
ClaimsAt(d, t, s, e) ==
    \/ /\ transfers[d][t].outcome \in {"staged", "applying"}
       /\ transfers[d][t].selfId = s /\ transfers[d][t].epoch = e
    \/ /\ staging[d].transfer = t
       /\ staging[d].selfId = s /\ staging[d].epoch = e

\* No record of s lies above an active body's epoch.
ActiveTop(s) ==
    \A b, c \in Bodies, u \in Transfers :
        Active(b, s) /\ Lived(c, u, s) => transfers[c][u].epoch <= epoch[b]

\* Only the freeze itself stands at a pending source's epoch.
PendingTop(s) ==
    \A b, c \in Bodies, t, u \in Transfers :
        Pending(b, t, s) /\ Lived(c, u, s) =>
            (c = b /\ u = t) \/ transfers[c][u].epoch < epoch[b]

\* All that is recorded of s lies at or below e, and below it but for t.
Above(e, t, s) ==
    \A c \in Bodies, u \in Transfers : Lived(c, u, s) =>
        /\ transfers[c][u].epoch <= e
        /\ u # t => transfers[c][u].epoch < e

\* A claim is to an epoch above all but the freeze it was staged from.
ClaimsTop(s) ==
    \A d \in Bodies, t \in Transfers :
        \A e \in {transfers[d][t].epoch, staging[d].epoch} :
            ClaimsAt(d, t, s, e) => Above(e, t, s)

Topped(s) == ActiveTop(s) /\ PendingTop(s) /\ ClaimsTop(s)

\* A claim to s has a source that waits for it.
ClaimsSourced(s) ==
    \A d \in Bodies, t \in Transfers :
        Claims(d, t, s) => \E a \in Bodies : Pending(a, t, s)

\* b is s, or froze it at an epoch that no body has activated.
Keeps(b, s) ==
    \/ Active(b, s)
    \/ /\ Self(b) = s
       /\ \E t \in Transfers : FrozenSource(b, t)
       /\ \A c \in Bodies, u \in Transfers :
             transfers[c][u].outcome = "applied" /\ transfers[c][u].selfId = s
                => transfers[c][u].epoch < epoch[b]

Kept(s) == ClaimsSourced(s) /\ \E b \in Bodies : Keeps(b, s)

\* A self that is carried, admitted or recorded anywhere was minted by the body
\* it is named after.
NamedOK ==
    \A c \in Bodies :
        /\ selfId[c] # NoSelf => selfId[selfId[c]] # NoSelf
        /\ staging[c].transfer # NoTransfer => selfId[staging[c].selfId] # NoSelf
        /\ \A u \in Transfers :
              transfers[c][u].outcome \in {"staged", "applying", "applied"}
                 => selfId[transfers[c][u].selfId] # NoSelf

\* A bundle is built under the record of a freeze, by a dormant process.
BundlesOK ==
    \A b \in Bodies : \A t \in outgoing[b] :
        /\ transfers[b][t].role = "source"
        /\ FrozenSource(b, t) => proc[b] # "active"

HeldInv ==
    /\ OutcomesInv
    /\ NamedOK
    /\ BundlesOK
    /\ \A s \in Selves \ forced : Topped(s)
    /\ \A s \in Selves \ (forced \cup displaced) : Kept(s)

-----------------------------------------------------------------------------
(* Where a record, an active body, a source or a claim of s comes from.    *)

\* What is forced or displaced remains so.
LEMMA GhostsGrow ==
  ASSUME [Next]_vars
  PROVE  forced \subseteq forced' /\ displaced \subseteq displaced'
<1>1. ASSUME NEW b \in Bodies, NEW t \in Transfers,
             \/ \E d \in Bodies : Freeze(b, t, d)
             \/ Release(b, t) \/ Abort(b, t) \/ Apply(b, t) \/ Discard(b, t)
             \/ OutgoingBundle(b, t) \/ StageRefused(b, t)
             \/ \E a \in Bodies, replace \in BOOLEAN : StageBegin(b, t, a, replace)
      PROVE  forced \subseteq forced' /\ displaced \subseteq displaced'
  BY <1>1 DEF Freeze, Release, Abort, Apply, Discard, OutgoingBundle,
     StageRefused, StageBegin, ghostVars
<1>2. ASSUME NEW b \in Bodies,
             \/ Reclaim(b) \/ StageCommit(b) \/ StageGivesUp(b)
             \/ ReadActivation(b) \/ Stop(b) \/ Boot(b) \/ BootInstall(b)
             \/ BootActivate(b) \/ TakeTurn(b)
      PROVE  forced \subseteq forced' /\ displaced \subseteq displaced'
  BY <1>2 DEF Reclaim, StageCommit, StageGivesUp, ReadActivation, Stop, Boot,
     BootInstall, BootActivate, TakeTurn, ghostVars
<1>3. CASE UNCHANGED vars
  BY <1>3 DEF vars, ghostVars
<1>. QED BY <1>1, <1>2, <1>3 DEF Next

\* Only a freeze or an activation puts a new epoch of s on record.
LEMMA LivedFrom ==
  ASSUME IInv, FrozenOK, [Next]_vars, NEW s \in Selves,
         NEW c \in Bodies, NEW u \in Transfers, Lived(c, u, s)'
  PROVE  \/ Lived(c, u, s) /\ transfers'[c][u].epoch = transfers[c][u].epoch
         \/ /\ \E d \in Bodies : Freeze(c, u, d)
            /\ Active(c, s)
            /\ state'[c] = "frozen" /\ transferId'[c] = u
            /\ transfers'[c][u].outcome = "frozen"
         \/ /\ BootActivate(c) /\ Applying(c, u)
            /\ Claims(c, u, s) /\ Active(c, s)'
            /\ transfers'[c][u].outcome = "applied"
            /\ transfers'[c][u].epoch = transfers[c][u].epoch
<1>0. TypeOK /\ BootOK /\ RecordsOK
  BY DEF IInv
<1>1. CASE transfers'[c][u] = transfers[c][u]
  BY <1>1 DEF Lived
<1>2. ASSUME NEW d \in Bodies, Freeze(c, u, d)
      PROVE  /\ Active(c, s)
             /\ state'[c] = "frozen" /\ transferId'[c] = u
             /\ transfers'[c][u].outcome = "frozen"
  <2>1. transfers'[c][u].selfId = Self(c) /\ state[c] = "active"
    BY <1>0, <1>2 DEF Freeze, TypeOK
  <2>2. transfers'[c][u].selfId = s
    BY DEF Lived
  <2>3. /\ state'[c] = "frozen" /\ transferId'[c] = u
        /\ transfers'[c][u].outcome = "frozen"
    BY <1>0, <1>2, FreezeEffect
  <2>. QED BY <2>1, <2>2, <2>3 DEF Active
<1>3. ASSUME Release(c, u) \/ Abort(c, u)
      PROVE  Lived(c, u, s) /\ transfers'[c][u].epoch = transfers[c][u].epoch
  <2>1. transfers[c][u].outcome = "frozen"
    BY <1>3 DEF FrozenOK, Release, Abort
  <2>2. /\ transfers'[c][u].selfId = transfers[c][u].selfId
        /\ transfers'[c][u].epoch = transfers[c][u].epoch
    <3>1. PICK o \in {"released", "aborted"} :
             transfers' = [transfers EXCEPT ![c][u].outcome = o]
      BY <1>3 DEF Release, Abort
    <3>. QED BY <1>0, <3>1 DEF TypeOK, TransferRecord
  <2>. QED BY <2>1, <2>2 DEF Lived, Held
<1>4. ASSUME Apply(c, u) \/ Discard(c, u)
      PROVE  FALSE
  BY <1>0, <1>4, ApplyEffect, DiscardEffect DEF Lived, Held
<1>5. ASSUME StageCommit(c), staging[c].transfer = u
      PROVE  FALSE
  BY <1>0, <1>5, StageCommitEffect DEF Lived, Held
<1>6. ASSUME BootActivate(c), Applying(c, u)
      PROVE  /\ Claims(c, u, s) /\ Active(c, s)'
             /\ transfers'[c][u].outcome = "applied"
             /\ transfers'[c][u].epoch = transfers[c][u].epoch
  <2>1. transferId[c] = u /\ selfId[c] = transfers[c][u].selfId
    BY <1>0, <1>6 DEF Applying, BootOK
  <2>2. /\ transfers'[c][u].outcome = "applied"
        /\ transfers'[c][u].epoch = transfers[c][u].epoch
        /\ transfers'[c][u].selfId = transfers[c][u].selfId
        /\ selfId'[c] = selfId[c] /\ state'[c] = "active"
    BY <1>0, <1>6, <2>1 DEF BootActivate, TypeOK, TransferRecord
  <2>3. transfers[c][u].selfId = s
    BY <2>2 DEF Lived
  <2>. QED BY <1>6, <2>1, <2>2, <2>3, SelvesAssumption
           DEF Claims, Applying, Active, Self, Selves
<1>. QED BY <1>1, <1>2, <1>3, <1>4, <1>5, <1>6, OnlyWriters DEF Writes

\* A body is active as before, or by an abort, a reclaim or a boot.
LEMMA ActiveFrom ==
  ASSUME TypeOK, [Next]_vars, NEW s \in Selves, NEW b \in Bodies, Active(b, s)'
  PROVE  \/ Active(b, s) /\ epoch'[b] = epoch[b]
         \/ \E t \in Transfers : Abort(b, t)
         \/ Reclaim(b)
         \/ BootActivate(b)
<1>1. CASE /\ selfId'[b] = selfId[b] /\ epoch'[b] = epoch[b]
           /\ state'[b] = state[b] /\ transferId'[b] = transferId[b]
  BY <1>1 DEF Active, Self
<1>2. ASSUME NEW t \in Transfers,
             \/ \E d \in Bodies : Freeze(b, t, d)
             \/ Release(b, t) \/ Apply(b, t)
      PROVE  FALSE
  BY <1>2, FreezeEffect, ReleaseEffect, ApplyEffect DEF Active
<1>. QED BY <1>1, <1>2, OnlyTurns DEF Turns

\* A source is made by a freeze, and the record it rests on stays as it is.
LEMMA SourceFrom ==
  ASSUME IInv, FrozenOK, [Next]_vars,
         NEW b \in Bodies, NEW t \in Transfers, FrozenSource(b, t)'
  PROVE  \/ \E d \in Bodies : Freeze(b, t, d)
         \/ /\ FrozenSource(b, t)
            /\ selfId'[b] = selfId[b] /\ epoch'[b] = epoch[b]
            /\ transfers'[b][t] = transfers[b][t]
<1> SUFFICES ASSUME \A d \in Bodies : ~Freeze(b, t, d)
             PROVE  /\ FrozenSource(b, t)
                    /\ selfId'[b] = selfId[b] /\ epoch'[b] = epoch[b]
                    /\ transfers'[b][t] = transfers[b][t]
  OBVIOUS
<1>0. /\ TypeOK /\ BootOK
      /\ state'[b] = "frozen" /\ transferId'[b] = t
      /\ transfers'[b][t].role = "source"
  BY DEF IInv, FrozenSource
<1>1. ~Turns(b)
  <2>1. ASSUME NEW u \in Transfers, NEW d \in Bodies, Freeze(b, u, d)
        PROVE  FALSE
    <3>1. u = t
      BY <1>0, <2>1, FreezeEffect
    <3>. QED BY <2>1, <3>1
  <2>2. ASSUME NEW u \in Transfers, Release(b, u) \/ Abort(b, u) \/ Apply(b, u)
        PROVE  FALSE
    BY <1>0, <2>2, ReleaseEffect, AbortEffect, ApplyEffect
  <2>3. ASSUME Reclaim(b) \/ BootActivate(b)
        PROVE  FALSE
    BY <1>0, <2>3 DEF TypeOK, Reclaim, BootActivate
  <2>. QED BY <2>1, <2>2, <2>3 DEF Turns
<1>2. ~Writes(b, t)
  <2>1. ASSUME Discard(b, t)
        PROVE  FALSE
    BY <1>0, <2>1, DiscardEffect
  <2>2. ASSUME StageCommit(b), staging[b].transfer = t
        PROVE  FALSE
    BY <1>0, <2>2, StageCommitEffect
  <2>. QED BY <1>1, <2>1, <2>2 DEF Writes, Turns
<1>. QED BY <1>0, <1>1, <1>2, OnlyTurns, OnlyWriters DEF FrozenSource

\* So is a source that waits.
LEMMA PendingFrom ==
  ASSUME IInv, FrozenOK, [Next]_vars, NEW s \in Selves,
         NEW b \in Bodies, NEW t \in Transfers, Pending(b, t, s)'
  PROVE  \/ \E d \in Bodies : Freeze(b, t, d)
         \/ /\ Pending(b, t, s) /\ epoch'[b] = epoch[b]
            /\ transfers'[b][t] = transfers[b][t]
<1> SUFFICES ASSUME \A d \in Bodies : ~Freeze(b, t, d)
             PROVE  /\ Pending(b, t, s) /\ epoch'[b] = epoch[b]
                    /\ transfers'[b][t] = transfers[b][t]
  OBVIOUS
<1>1. /\ FrozenSource(b, t)
      /\ selfId'[b] = selfId[b] /\ epoch'[b] = epoch[b]
      /\ transfers'[b][t] = transfers[b][t]
  BY SourceFrom DEF Pending
<1>2. transfers[b][t].peer \in Bodies
  BY <1>1 DEF FrozenSource, IInv, RecordsOK, WellFormed
<1>3. transfers[transfers[b][t].peer][t].outcome # "applied"
  BY <1>1, <1>2, EndsAreFinal DEF Pending
<1>. QED BY <1>1, <1>3 DEF Pending, Self

\* A source goes by one of four acts of its own.
LEMMA SourceStays ==
  ASSUME IInv, FrozenOK, [Next]_vars,
         NEW b \in Bodies, NEW t \in Transfers, FrozenSource(b, t),
         ~Release(b, t), ~Abort(b, t), ~Reclaim(b),
         \A u \in Transfers : ~Apply(b, u)
  PROVE  /\ FrozenSource(b, t)'
         /\ selfId'[b] = selfId[b] /\ epoch'[b] = epoch[b]
         /\ transfers'[b][t] = transfers[b][t]
<1>0. /\ TypeOK /\ BootOK /\ StagingOK
      /\ state[b] = "frozen" /\ transferId[b] = t
      /\ transfers[b][t].role = "source" /\ transfers[b][t].outcome = "frozen"
  BY DEF IInv, FrozenSource, FrozenOK
<1>1. ~BootActivate(b)
  <2> SUFFICES ASSUME BootActivate(b) PROVE FALSE
    OBVIOUS
  <2>1. PICK u \in Transfers : Applying(b, u)
    BY <1>0 DEF BootOK, BootActivate
  <2>. QED BY <1>0, <2>1 DEF Applying
<1>2. ~Turns(b)
  <2>1. ASSUME NEW u \in Transfers, NEW d \in Bodies, Freeze(b, u, d)
        PROVE  FALSE
    BY <1>0, <2>1 DEF Freeze
  <2>2. ASSUME NEW u \in Transfers, Release(b, u) \/ Abort(b, u)
        PROVE  FALSE
    <3>1. u = t
      BY <1>0, <2>2 DEF Release, Abort, FrozenSource
    <3>. QED BY <2>2, <3>1
  <2>. QED BY <1>1, <2>1, <2>2 DEF Turns
<1>3. ~Writes(b, t)
  <2>1. ASSUME Discard(b, t)
        PROVE  FALSE
    BY <1>0, <2>1 DEF Discard
  <2>2. ASSUME StageCommit(b), staging[b].transfer = t
        PROVE  FALSE
    BY <1>0, <2>2 DEF StagingOK
  <2>. QED BY <1>2, <2>1, <2>2 DEF Writes, Turns
<1>. QED BY <1>0, <1>2, <1>3, OnlyTurns, OnlyWriters DEF FrozenSource

\* A pending source stays pending unless its destination activates it.
LEMMA PendingStays ==
  ASSUME IInv, FrozenOK, [Next]_vars, NEW s \in Selves,
         NEW b \in Bodies, NEW t \in Transfers, Pending(b, t, s),
         ~Release(b, t), ~Abort(b, t), ~Reclaim(b),
         \A u \in Transfers : ~Apply(b, u),
         transfers'[transfers[b][t].peer][t].outcome # "applied"
  PROVE  Pending(b, t, s)'
  BY SourceStays DEF Pending, Self

\* What is being staged was admitted from a source that waits.
LEMMA StagingFrom ==
  ASSUME TypeOK, [Next]_vars, NEW d \in Bodies, NEW t \in Transfers,
         staging'[d].transfer = t
  PROVE  \/ staging'[d] = staging[d]
         \/ \E a \in Bodies, replace \in BOOLEAN :
               /\ StageBegin(d, t, a, replace)
               /\ staging'[d].selfId = selfId[a] /\ staging'[d].epoch = epoch[a]
<1>1. ASSUME NEW b \in Bodies, NEW u \in Transfers, NEW a \in Bodies,
             NEW replace \in BOOLEAN, StageBegin(b, u, a, replace)
      PROVE  \/ staging'[d] = staging[d]
             \/ /\ StageBegin(d, t, a, replace)
                /\ staging'[d].selfId = selfId[a] /\ staging'[d].epoch = epoch[a]
  <2>1. staging' = [staging EXCEPT ![b] =
                       [transfer |-> u, source |-> a, selfId |-> selfId[a],
                        epoch |-> epoch[a], replace |-> replace]]
    BY <1>1 DEF StageBegin
  <2>2. CASE b = d
    <3>1. /\ staging'[d].transfer = u
          /\ staging'[d].selfId = selfId[a] /\ staging'[d].epoch = epoch[a]
      BY <2>1, <2>2 DEF TypeOK
    <3>. QED BY <1>1, <2>2, <3>1
  <2>. QED BY <2>1, <2>2 DEF TypeOK
<1>2. ASSUME NEW b \in Bodies, StageCommit(b) \/ StageGivesUp(b) \/ Stop(b)
      PROVE  staging'[d] = staging[d]
  <2>1. staging' = [staging EXCEPT ![b] = NoStage]
    BY <1>2 DEF StageCommit, StageGivesUp, Stop
  <2>2. d # b
    BY <2>1, TransfersAssumption DEF TypeOK, NoStage
  <2>. QED BY <2>1, <2>2 DEF TypeOK
<1>3. ASSUME NEW b \in Bodies, NEW u \in Transfers,
             \/ \E c \in Bodies : Freeze(b, u, c)
             \/ Release(b, u) \/ Abort(b, u) \/ Apply(b, u) \/ Discard(b, u)
             \/ OutgoingBundle(b, u) \/ StageRefused(b, u)
      PROVE  staging'[d] = staging[d]
  BY <1>3 DEF Freeze, Release, Abort, Apply, Discard, OutgoingBundle, StageRefused
<1>4. ASSUME NEW b \in Bodies,
             \/ Reclaim(b) \/ ReadActivation(b) \/ Boot(b) \/ BootInstall(b)
             \/ BootActivate(b) \/ TakeTurn(b)
      PROVE  staging'[d] = staging[d]
  BY <1>4 DEF Reclaim, ReadActivation, Boot, BootInstall, BootActivate, TakeTurn
<1>5. CASE UNCHANGED vars
  BY <1>5 DEF vars
<1>. QED BY <1>1, <1>2, <1>3, <1>4, <1>5 DEF Next

\* A claim was there before, or is a stage that is just admitted.
LEMMA ClaimsFrom ==
  ASSUME IInv, [Next]_vars, NEW s \in Selves, NEW e,
         NEW d \in Bodies, NEW t \in Transfers, ClaimsAt(d, t, s, e)'
  PROVE  \/ ClaimsAt(d, t, s, e)
         \/ \E a \in Bodies, replace \in BOOLEAN :
               StageBegin(d, t, a, replace) /\ s = selfId[a] /\ e = epoch[a]
<1>0. TypeOK /\ BootOK
  BY DEF IInv
<1>1. CASE staging'[d].transfer = t /\ staging'[d].selfId = s /\ staging'[d].epoch = e
  BY <1>0, <1>1, StagingFrom DEF ClaimsAt
<1>2. CASE /\ transfers'[d][t].outcome \in {"staged", "applying"}
           /\ transfers'[d][t].selfId = s /\ transfers'[d][t].epoch = e
  <2>1. CASE transfers'[d][t] = transfers[d][t]
    BY <1>2, <2>1 DEF ClaimsAt
  <2>2. ASSUME NEW b \in Bodies, Freeze(d, t, b)
        PROVE  FALSE
    BY <1>0, <1>2, <2>2, FreezeEffect
  <2>3. ASSUME Release(d, t) \/ Abort(d, t) \/ Discard(d, t)
        PROVE  FALSE
    BY <1>0, <1>2, <2>3, ReleaseEffect, AbortEffect, DiscardEffect
  <2>4. CASE Apply(d, t)
    <3>1. transfers'[d][t].epoch = transfers[d][t].epoch
      BY <1>0, <2>4 DEF Apply, TypeOK, TransferRecord
    <3>. QED BY <1>0, <1>2, <2>4, <3>1, ApplyEffect DEF ClaimsAt
  <2>5. CASE StageCommit(d) /\ staging[d].transfer = t
    <3>1. /\ transfers'[d][t].selfId = staging[d].selfId
          /\ transfers'[d][t].epoch = staging[d].epoch
      BY <1>0, <2>5 DEF StageCommit, TypeOK
    <3>. QED BY <1>2, <2>5, <3>1 DEF ClaimsAt
  <2>6. ASSUME BootActivate(d), Applying(d, t)
        PROVE  FALSE
    <3>1. transferId[d] = t
      BY <2>6 DEF Applying
    <3>2. transfers'[d][t].outcome = "applied"
      BY <1>0, <2>6, <3>1 DEF BootActivate, TypeOK, TransferRecord
    <3>. QED BY <1>2, <3>2
  <2>. QED BY <2>1, <2>2, <2>3, <2>4, <2>5, <2>6, OnlyWriters DEF Writes
<1>. QED BY <1>1, <1>2 DEF ClaimsAt

\* A claim is a claim at one of the two epochs it can be at.
LEMMA ClaimsAre ==
  ASSUME NEW s, NEW d \in Bodies, NEW t \in Transfers
  PROVE  Claims(d, t, s) <=>
             \E e \in {transfers[d][t].epoch, staging[d].epoch} : ClaimsAt(d, t, s, e)
  BY DEF Claims, ClaimsAt

\* A stage is admitted from a source that waits for it.
LEMMA StageBeginPends ==
  ASSUME IInv, NEW d \in Bodies, NEW t \in Transfers, NEW a \in Bodies,
         NEW replace \in BOOLEAN, StageBegin(d, t, a, replace)
  PROVE  /\ Pending(a, t, selfId[a]) /\ selfId[a] \in Selves
         /\ UNCHANGED <<selfId, epoch, state, transferId, transfers>>
  BY SelvesAssumption DEF StageBegin, Pending, Self, Selves, FrozenSource, selfVars,
     IInv, RecordsOK

\* Nothing claims for a transfer that is burned or applied.
LEMMA EndedClaimsNothing ==
  ASSUME StagingOK, NEW s, NEW d \in Bodies, NEW t \in Transfers,
         transfers[d][t].outcome \in {"burned", "applied"}
  PROVE  ~Claims(d, t, s)
  BY DEF StagingOK, Claims

\* An abort takes back a self whose destination never activates it.
LEMMA AbortPends ==
  ASSUME IInv, NEW b \in Bodies, NEW t \in Transfers, Abort(b, t)
  PROVE  /\ Pending(b, t, Self(b)) /\ epoch' = epoch
         /\ transfers[transfers[b][t].peer][t].outcome = "burned"
         /\ transfers[b][t].peer \in Bodies
         /\ state'[b] = "active" /\ selfId'[b] = selfId[b]
<1>1. FrozenSource(b, t) /\ <<transfers[b][t].peer, t>> \in burns /\ epoch' = epoch
  BY DEF Abort, BurnProven
<1>2. transfers[b][t].peer \in Bodies
  BY <1>1 DEF FrozenSource, IInv, RecordsOK, WellFormed
<1>3. transfers[transfers[b][t].peer][t].outcome = "burned"
  BY <1>1, <1>2 DEF IInv, BurnsOK
<1>. QED BY <1>1, <1>2, <1>3, AbortEffect DEF Pending, IInv

-----------------------------------------------------------------------------
(* The top is kept.                                                        *)

\* No step puts s on record above who is, or may become, the self.
LEMMA StepTopped ==
  ASSUME OutcomesInv, OutcomesInv', [Next]_vars,
         NEW s \in Selves, s \notin forced', Topped(s)
  PROVE  Topped(s)'
<1>0. /\ IInv /\ FrozenOK /\ TypeOK /\ BootOK /\ StagingOK /\ StagingOK'
      /\ s \notin forced /\ Fenced(s)
  BY GhostsGrow DEF OutcomesInv, IInv
<1>1. ActiveTop(s)'
  <2> SUFFICES ASSUME NEW b \in Bodies, NEW c \in Bodies, NEW u \in Transfers,
                      Active(b, s)', Lived(c, u, s)'
               PROVE  transfers'[c][u].epoch <= epoch'[b]
    BY DEF ActiveTop
  <2>1. CASE Active(b, s) /\ epoch'[b] = epoch[b]
    <3>1. CASE Lived(c, u, s) /\ transfers'[c][u].epoch = transfers[c][u].epoch
      BY <2>1, <3>1 DEF Topped, ActiveTop
    <3>2. ASSUME Active(c, s), state'[c] = "frozen"
          PROVE  FALSE
      <4>1. b = c
        BY <1>0, <2>1, <3>2 DEF Fenced
      <4>. QED BY <3>2, <4>1 DEF Active
    <3>3. ~Claims(c, u, s)
      BY <1>0, <2>1 DEF Fenced
    <3>. QED BY <1>0, <3>1, <3>2, <3>3, LivedFrom
  <2>2. ASSUME NEW t \in Transfers, Abort(b, t)
        PROVE  transfers'[c][u].epoch <= epoch'[b]
    <3>1. /\ Pending(b, t, s) /\ epoch'[b] = epoch[b]
          /\ transfers[transfers[b][t].peer][t].outcome = "burned"
          /\ transfers[b][t].peer \in Bodies
      BY <1>0, <2>2, AbortPends DEF Active, Self
    <3>2. ~Claims(c, u, s)
      <4> SUFFICES ASSUME Claims(c, u, s) PROVE FALSE
        OBVIOUS
      <4>1. c = transfers[b][t].peer /\ u = t
        BY <1>0, <3>1 DEF Fenced
      <4>. QED BY <1>0, <3>1, <4>1, EndedClaimsNothing
    <3>3. ~Active(c, s)
      BY <1>0, <3>1 DEF Fenced
    <3>4. Lived(c, u, s) /\ transfers'[c][u].epoch = transfers[c][u].epoch
      BY <1>0, <3>2, <3>3, LivedFrom
    <3>5. transfers[b][t].epoch = epoch[b]
      BY <1>0, <3>1 DEF Pending, FrozenOK
    <3>6. (c = b /\ u = t) \/ transfers[c][u].epoch < epoch[b]
      BY <3>1, <3>4 DEF Topped, PendingTop
    <3>7. transfers[c][u].epoch \in Nat /\ epoch[b] \in Nat
      BY <1>0 DEF TypeOK, TransferRecord
    <3>. QED BY <3>1, <3>4, <3>5, <3>6, <3>7
  <2>3. ASSUME Reclaim(b)
        PROVE  FALSE
    <3>1. Self(b) \in forced' /\ selfId' = selfId
      BY <2>3 DEF Reclaim
    <3>. QED BY <3>1 DEF Active, Self
  <2>4. CASE BootActivate(b)
    <3>1. PICK t \in Transfers : Applying(b, t)
      BY <1>0, <2>4 DEF BootOK, BootActivate
    <3>2. transferId[b] = t /\ selfId[b] = transfers[b][t].selfId
      BY <1>0, <3>1 DEF Applying, BootOK
    <3>3. selfId'[b] = selfId[b] /\ epoch'[b] = transfers[b][t].epoch
      BY <1>0, <2>4, <3>2 DEF BootActivate, TypeOK
    <3>4. transfers[b][t].selfId \in Selves
      BY <1>0, <3>1 DEF Applying, IInv, RecordsOK, WellFormed
    <3>5. transfers[b][t].selfId = s
      BY <3>2, <3>3, <3>4, SelvesAssumption DEF Active, Self, Selves
    <3>6. ClaimsAt(b, t, s, transfers[b][t].epoch) /\ Claims(b, t, s)
      BY <3>1, <3>5 DEF ClaimsAt, Claims, Applying
    <3>7. Above(transfers[b][t].epoch, t, s)
      BY <3>6 DEF Topped, ClaimsTop
    <3>8. transfers[b][t].epoch \in Nat
      BY <1>0 DEF TypeOK, TransferRecord
    <3>9. CASE Lived(c, u, s) /\ transfers'[c][u].epoch = transfers[c][u].epoch
      BY <3>3, <3>7, <3>9 DEF Above
    <3>10. ~Active(c, s)
      BY <1>0, <3>6 DEF Fenced
    <3>11. CASE Claims(c, u, s) /\ transfers'[c][u].epoch = transfers[c][u].epoch
      <4>1. c = b /\ u = t
        BY <1>0, <3>6, <3>11 DEF Fenced
      <4>. QED BY <3>3, <3>8, <3>11, <4>1
    <3>. QED BY <1>0, <3>9, <3>10, <3>11, LivedFrom
  <2>. QED BY <1>0, <2>1, <2>2, <2>3, <2>4, ActiveFrom
<1>2. PendingTop(s)'
  <2> SUFFICES ASSUME NEW b \in Bodies, NEW c \in Bodies,
                      NEW t \in Transfers, NEW u \in Transfers,
                      Pending(b, t, s)', Lived(c, u, s)', ~(c = b /\ u = t)
               PROVE  transfers'[c][u].epoch < epoch'[b]
    BY DEF PendingTop
  <2>1. ASSUME NEW d \in Bodies, Freeze(b, t, d)
        PROVE  transfers'[c][u].epoch < epoch'[b]
    <3>1. Active(b, s) /\ epoch'[b] = epoch[b] + 1 /\ transferId'[b] = t
      BY <1>0, <2>1 DEF Freeze, NextEpoch, TypeOK, Pending, Active, Self
    <3>2. ~Claims(c, u, s)
      BY <1>0, <3>1 DEF Fenced
    <3>3. ASSUME Active(c, s), transferId'[c] = u
          PROVE  FALSE
      <4>1. c = b
        BY <1>0, <3>1, <3>3 DEF Fenced
      <4>. QED BY <3>1, <3>3, <4>1
    <3>4. Lived(c, u, s) /\ transfers'[c][u].epoch = transfers[c][u].epoch
      BY <1>0, <3>2, <3>3, LivedFrom
    <3>5. transfers[c][u].epoch <= epoch[b]
      BY <3>1, <3>4 DEF Topped, ActiveTop
    <3>6. transfers[c][u].epoch \in Nat /\ epoch[b] \in Nat
      BY <1>0 DEF TypeOK, TransferRecord
    <3>. QED BY <3>1, <3>4, <3>5, <3>6
  <2>2. ASSUME Pending(b, t, s), epoch'[b] = epoch[b],
               transfers'[b][t] = transfers[b][t]
        PROVE  transfers'[c][u].epoch < epoch'[b]
    <3>1. ~Active(c, s)
      BY <1>0, <2>2 DEF Fenced
    <3>2. ASSUME Claims(c, u, s), transfers'[c][u].outcome = "applied"
          PROVE  FALSE
      <4>1. c = transfers[b][t].peer /\ u = t
        BY <1>0, <2>2, <3>2 DEF Fenced
      <4>. QED BY <2>2, <3>2, <4>1 DEF Pending
    <3>3. Lived(c, u, s) /\ transfers'[c][u].epoch = transfers[c][u].epoch
      BY <1>0, <3>1, <3>2, LivedFrom
    <3>. QED BY <2>2, <3>3 DEF Topped, PendingTop
  <2>. QED BY <1>0, <2>1, <2>2, PendingFrom
<1>3. ClaimsTop(s)'
  <2> SUFFICES ASSUME NEW d \in Bodies, NEW t \in Transfers,
                      NEW e \in {transfers'[d][t].epoch, staging'[d].epoch},
                      ClaimsAt(d, t, s, e)',
                      NEW c \in Bodies, NEW u \in Transfers, Lived(c, u, s)'
               PROVE  /\ transfers'[c][u].epoch <= e
                      /\ u # t => transfers'[c][u].epoch < e
    BY DEF ClaimsTop, Above
  <2>1. ASSUME NEW a \in Bodies, NEW replace \in BOOLEAN,
               StageBegin(d, t, a, replace), s = selfId[a], e = epoch[a]
        PROVE  /\ transfers'[c][u].epoch <= e
               /\ u # t => transfers'[c][u].epoch < e
    <3>1. Pending(a, t, s) /\ transfers' = transfers
      BY <1>0, <2>1, StageBeginPends
    <3>2. Lived(c, u, s)
      BY <3>1 DEF Lived
    <3>3. (c = a /\ u = t) \/ transfers[c][u].epoch < epoch[a]
      BY <3>1, <3>2 DEF Topped, PendingTop
    <3>4. transfers[a][t].epoch = epoch[a]
      BY <1>0, <3>1 DEF Pending, FrozenOK
    <3>5. transfers[c][u].epoch \in Nat /\ epoch[a] \in Nat
      BY <1>0 DEF TypeOK, TransferRecord
    <3>. QED BY <2>1, <3>1, <3>3, <3>4, <3>5
  <2>2. CASE ClaimsAt(d, t, s, e)
    <3>1. Above(e, t, s) /\ Claims(d, t, s)
      BY <2>2 DEF Topped, ClaimsTop, ClaimsAt, Claims
    <3>2. ~Active(c, s)
      BY <1>0, <3>1 DEF Fenced
    <3>3. ASSUME Claims(c, u, s), transfers'[c][u].outcome = "applied"
          PROVE  FALSE
      <4>1. c = d /\ u = t
        BY <1>0, <3>1, <3>3 DEF Fenced
      <4>. QED BY <1>0, <3>3, <4>1 DEF ClaimsAt, StagingOK
    <3>4. Lived(c, u, s) /\ transfers'[c][u].epoch = transfers[c][u].epoch
      BY <1>0, <3>2, <3>3, LivedFrom
    <3>. QED BY <3>1, <3>4 DEF Above
  <2>. QED BY <1>0, <2>1, <2>2, ClaimsFrom
<1>. QED BY <1>1, <1>2, <1>3 DEF Topped

-----------------------------------------------------------------------------
(* The self is kept.                                                       *)

\* A record of s becomes applied only as its body becomes s.
LEMMA AppliedFrom ==
  ASSUME IInv, FrozenOK, [Next]_vars, NEW s \in Selves,
         NEW c \in Bodies, NEW u \in Transfers,
         transfers'[c][u].outcome = "applied", transfers'[c][u].selfId = s
  PROVE  \/ transfers'[c][u] = transfers[c][u]
         \/ BootActivate(c) /\ Active(c, s)'
<1> SUFFICES ASSUME transfers'[c][u] # transfers[c][u]
             PROVE  BootActivate(c) /\ Active(c, s)'
  OBVIOUS
<1>0. TypeOK
  BY DEF IInv
<1>1. ASSUME NEW d \in Bodies, Freeze(c, u, d)
      PROVE  FALSE
  BY <1>0, <1>1, FreezeEffect
<1>2. ASSUME Release(c, u) \/ Abort(c, u) \/ Apply(c, u) \/ Discard(c, u)
      PROVE  FALSE
  BY <1>0, <1>2, ReleaseEffect, AbortEffect, ApplyEffect, DiscardEffect
<1>3. ASSUME StageCommit(c), staging[c].transfer = u
      PROVE  FALSE
  BY <1>0, <1>3, StageCommitEffect
<1>4. BootActivate(c) /\ Applying(c, u)
  BY <1>1, <1>2, <1>3, OnlyWriters DEF Writes
<1>5. Lived(c, u, s)' /\ ~Lived(c, u, s)
  BY <1>4 DEF Lived, Held, Applying
<1>. QED BY <1>5, LivedFrom

\* A claim's source waits on, unless its self was forced or displaced.
LEMMA StepClaimsSourced ==
  ASSUME OutcomesInv, OutcomesInv', [Next]_vars,
         NEW s \in Selves, s \notin forced', s \notin displaced', ClaimsSourced(s)
  PROVE  ClaimsSourced(s)'
<1> SUFFICES ASSUME NEW d \in Bodies, NEW t \in Transfers, Claims(d, t, s)'
             PROVE  \E a \in Bodies : Pending(a, t, s)'
  BY DEF ClaimsSourced
<1>0. /\ IInv /\ FrozenOK /\ AnswersOK /\ TypeOK /\ StagingOK /\ StagingOK'
      /\ Fenced(s)
  BY GhostsGrow DEF OutcomesInv, IInv
<1>1. PICK e \in {transfers'[d][t].epoch, staging'[d].epoch} : ClaimsAt(d, t, s, e)'
  BY DEF Claims, ClaimsAt
<1>2. ASSUME NEW a \in Bodies, NEW replace \in BOOLEAN,
             StageBegin(d, t, a, replace), s = selfId[a]
      PROVE  Pending(a, t, s)'
  BY <1>0, <1>2, StageBeginPends DEF Pending, FrozenSource, Self
<1>3. CASE ClaimsAt(d, t, s, e)
  <2>1. Claims(d, t, s)
    BY <1>3 DEF ClaimsAt, Claims
  <2>2. PICK a \in Bodies : Pending(a, t, s)
    BY <2>1 DEF ClaimsSourced
  <2>3. transfers[a][t].peer = d
    BY <1>0, <2>1, <2>2 DEF Fenced
  <2>4. ~Release(a, t)
    BY <1>0, <2>2, <2>3 DEF Release, ActivationProven, AnswersOK, Pending
  <2>5. ~Abort(a, t)
    BY <1>0, <2>1, <2>3, AbortPends, EndedClaimsNothing
  <2>6. ~Reclaim(a)
    BY <2>2 DEF Reclaim, Pending
  <2>7. ASSUME NEW u \in Transfers, Apply(a, u)
        PROVE  FALSE
    <3>1. /\ transfers[a][u].role = "destination"
          /\ transfers[a][u].outcome = "staged"
      BY <1>0, <2>7, ApplyEffect
    <3>2. transfers[a][u].selfId = s
      BY <2>2, <2>7 DEF Apply, Pending
    <3>3. u = t
      BY <1>0, <2>1, <3>1, <3>2 DEF Claims, Fenced
    <3>. QED BY <2>2, <3>1, <3>3 DEF Pending, FrozenSource
  <2>8. transfers'[d][t].outcome # "applied"
    BY <1>0 DEF Claims, StagingOK
  <2>. QED BY <1>0, <2>2, <2>3, <2>4, <2>5, <2>6, <2>7, <2>8, PendingStays
<1>. QED BY <1>0, <1>1, <1>2, <1>3, ClaimsFrom

\* Whoever keeps s keeps it, or hands it to the one that keeps it then.
LEMMA StepKeeps ==
  ASSUME OutcomesInv, OutcomesInv', [Next]_vars,
         NEW s \in Selves, s \notin forced', s \notin displaced',
         Topped(s), ClaimsSourced(s), NEW h \in Bodies, Keeps(h, s)
  PROVE  \E b \in Bodies : Keeps(b, s)'
<1>0. /\ IInv /\ FrozenOK /\ AnswersOK /\ TypeOK /\ BootOK /\ RecordsOK
      /\ Fenced(s)
  BY GhostsGrow DEF OutcomesInv, IInv
<1>1. ASSUME NEW c \in Bodies, Active(c, s)'
      PROVE  \E b \in Bodies : Keeps(b, s)'
  BY <1>1 DEF Keeps
<1> SUFFICES ASSUME \A c \in Bodies : ~Active(c, s)'
             PROVE  \E b \in Bodies : Keeps(b, s)'
  BY <1>1
<1>2. ASSUME NEW c \in Bodies, NEW u \in Transfers,
             transfers'[c][u].outcome = "applied", transfers'[c][u].selfId = s
      PROVE  transfers'[c][u] = transfers[c][u] /\ Lived(c, u, s)
  BY <1>0, <1>2, AppliedFrom DEF Lived, Held
<1>3. CASE Active(h, s)
  <2>1. ASSUME NEW t \in Transfers, NEW d \in Bodies, Freeze(h, t, d)
        PROVE  Keeps(h, s)'
    <3>1. /\ selfId'[h] = s /\ epoch'[h] = epoch[h] + 1
          /\ state'[h] = "frozen" /\ transferId'[h] = t
          /\ transfers'[h][t].role = "source"
      BY <1>0, <1>3, <2>1, FreezeEffect DEF Freeze, NextEpoch, TypeOK, Active
    <3>2. Self(h)' = s /\ FrozenSource(h, t)'
      BY <3>1, SelvesAssumption DEF Self, FrozenSource, Selves
    <3>3. ASSUME NEW c \in Bodies, NEW u \in Transfers,
                 transfers'[c][u].outcome = "applied", transfers'[c][u].selfId = s
          PROVE  transfers'[c][u].epoch < epoch'[h]
      <4>1. transfers'[c][u] = transfers[c][u] /\ Lived(c, u, s)
        BY <1>2, <3>3
      <4>2. transfers[c][u].epoch <= epoch[h]
        BY <1>3, <4>1 DEF Topped, ActiveTop
      <4>3. transfers[c][u].epoch \in Nat /\ epoch[h] \in Nat
        BY <1>0 DEF TypeOK, TransferRecord
      <4>. QED BY <3>1, <4>1, <4>2, <4>3
    <3>. QED BY <3>2, <3>3 DEF Keeps
  <2>2. ASSUME NEW t \in Transfers, Release(h, t) \/ Abort(h, t)
        PROVE  FALSE
    BY <1>3, <2>2 DEF Release, Abort, FrozenSource, Active
  <2>3. ASSUME NEW u \in Transfers, Apply(h, u)
        PROVE  FALSE
    <3>1. transfers[h][u].outcome = "staged"
      BY <2>3 DEF Apply
    <3>2. transfers[h][u].selfId = s
      BY <1>3, <2>3 DEF Apply, Active
    <3>. QED BY <1>0, <1>3, <3>1, <3>2 DEF Claims, Fenced
  <2>4. ~Reclaim(h) /\ ~BootActivate(h)
    BY <1>0, <1>3 DEF Reclaim, BootActivate, BootOK, Applying, Active
  <2>5. CASE selfId'[h] = selfId[h] /\ state'[h] = state[h]
    BY <1>3, <2>5 DEF Active, Self
  <2>. QED BY <1>0, <2>1, <2>2, <2>3, <2>4, <2>5, OnlyTurns DEF Turns
<1>4. ASSUME Self(h) = s, NEW t \in Transfers, FrozenSource(h, t),
             \A c \in Bodies, u \in Transfers :
                transfers[c][u].outcome = "applied" /\ transfers[c][u].selfId = s
                   => transfers[c][u].epoch < epoch[h]
      PROVE  \E b \in Bodies : Keeps(b, s)'
  <2>0. selfId[h] = s /\ epoch[h] \in Nat /\ transfers[h][t].peer \in Bodies
    BY <1>0, <1>4, SelvesAssumption
       DEF FrozenSource, RecordsOK, WellFormed, Self, Selves, TypeOK
  <2>1. ~Release(h, t)
    <3> SUFFICES ASSUME Release(h, t) PROVE FALSE
      OBVIOUS
    <3>1. LET there == transfers[transfers[h][t].peer][t] IN
          /\ there.outcome = "applied" /\ there.selfId = s
          /\ there.epoch = epoch[h]
      BY <1>0, <2>0 DEF Release, ActivationProven, AnswersOK
    <3>. QED BY <1>4, <2>0, <3>1
  <2>2. ~Abort(h, t)
    BY <1>0, <1>4, AbortPends DEF Active, Self
  <2>3. ~Reclaim(h)
    BY <1>4 DEF Reclaim
  <2>4. ASSUME NEW u \in Transfers, Apply(h, u)
        PROVE  \E b \in Bodies : Keeps(b, s)'
    <3>1. /\ transfers[h][u].role = "destination"
          /\ transfers[h][u].outcome = "staged"
          /\ Elsewhere(h, u) /\ epoch' = epoch
      BY <1>0, <2>4, ApplyEffect DEF Apply
    <3>2. transfers[h][u].selfId = s
      BY <1>4, <2>4 DEF Apply
    <3>3. PICK a \in Bodies : Pending(a, u, s)
      BY <3>1, <3>2 DEF Claims, ClaimsSourced
    <3>4. a # h
      BY <3>1, <3>3 DEF Pending, FrozenSource
    <3>5. FrozenSource(a, u)' /\ Self(a)' = s
      BY <3>1, <3>3, <3>4 DEF Elsewhere, Pending, FrozenSource, Self
    <3>6. ASSUME NEW c \in Bodies, NEW v \in Transfers,
                 transfers'[c][v].outcome = "applied", transfers'[c][v].selfId = s
          PROVE  transfers'[c][v].epoch < epoch'[a]
      <4>1. transfers'[c][v] = transfers[c][v] /\ Lived(c, v, s)
        BY <1>2, <3>6
      <4>2. ~(c = a /\ v = u)
        BY <1>0, <3>3, <3>6, <4>1 DEF Pending, FrozenOK
      <4>3. transfers[c][v].epoch < epoch[a]
        BY <3>3, <4>1, <4>2 DEF Topped, PendingTop
      <4>. QED BY <3>1, <4>1, <4>3
    <3>. QED BY <3>5, <3>6 DEF Keeps
  <2>5. CASE \A u \in Transfers : ~Apply(h, u)
    <3>1. /\ FrozenSource(h, t)'
          /\ selfId'[h] = selfId[h] /\ epoch'[h] = epoch[h]
      BY <1>0, <1>4, <2>1, <2>2, <2>3, <2>5, SourceStays
    <3>2. Self(h)' = s
      BY <1>4, <3>1 DEF Self
    <3>. QED BY <1>2, <1>4, <3>1, <3>2 DEF Keeps
  <2>. QED BY <2>4, <2>5
<1>. QED BY <1>3, <1>4 DEF Keeps

\* No step loses a self that it does not force or displace.
LEMMA StepKept ==
  ASSUME OutcomesInv, OutcomesInv', [Next]_vars,
         NEW s \in Selves, s \notin forced', s \notin displaced',
         Topped(s), Kept(s)
  PROVE  Kept(s)'
<1>1. ClaimsSourced(s)'
  BY StepClaimsSourced DEF Kept
<1>2. \E b \in Bodies : Keeps(b, s)'
  BY StepKeeps DEF Kept
<1>. QED BY <1>1, <1>2 DEF Kept

-----------------------------------------------------------------------------
(* Names and bundles.                                                      *)

\* A self id is minted by a freeze or adopted by an apply, and never dropped.
LEMMA NameFrom ==
  ASSUME IInv, [Next]_vars, NEW c \in Bodies
  PROVE  /\ selfId[c] # NoSelf => selfId'[c] # NoSelf
         /\ \/ selfId'[c] = selfId[c]
            \/ selfId'[c] = Self(c)
            \/ \E t \in Transfers : transfers[c][t].outcome = "staged"
                                    /\ selfId'[c] = transfers[c][t].selfId
<1>0. TypeOK /\ RecordsOK /\ BootOK
  BY DEF IInv
<1>1. CASE selfId'[c] = selfId[c]
  BY <1>1
<1>2. ASSUME NEW t \in Transfers, NEW d \in Bodies, Freeze(c, t, d)
      PROVE  selfId'[c] = Self(c) /\ selfId'[c] # NoSelf
  BY <1>0, <1>2, FreezeEffect, SelvesAssumption DEF Selves
<1>3. ASSUME NEW t \in Transfers, Apply(c, t)
      PROVE  /\ transfers[c][t].outcome = "staged"
             /\ selfId'[c] = transfers[c][t].selfId /\ selfId'[c] # NoSelf
  BY <1>0, <1>3, ApplyEffect, SelvesAssumption DEF Selves, RecordsOK, WellFormed
<1>4. ASSUME \/ \E t \in Transfers : Release(c, t) \/ Abort(c, t)
             \/ Reclaim(c) \/ BootActivate(c)
      PROVE  selfId'[c] = selfId[c]
  BY <1>4 DEF Release, Abort, Reclaim, BootActivate
<1>. QED BY <1>0, <1>1, <1>2, <1>3, <1>4, OnlyTurns DEF Turns

\* No step names a self whose body has not minted it.
LEMMA StepNamedOK ==
  ASSUME IInv, IInv', NamedOK, [Next]_vars
  PROVE  NamedOK'
<1>0. TypeOK /\ TypeOK' /\ RecordsOK /\ BootOK
  BY DEF IInv
<1>1. \A b \in Bodies : selfId[b] # NoSelf => selfId'[b] # NoSelf
  BY NameFrom
<1> SUFFICES ASSUME NEW c \in Bodies
             PROVE  /\ selfId'[c] # NoSelf => selfId'[selfId'[c]] # NoSelf
                    /\ staging'[c].transfer # NoTransfer =>
                          selfId'[staging'[c].selfId] # NoSelf
                    /\ \A u \in Transfers :
                          transfers'[c][u].outcome \in {"staged", "applying", "applied"}
                             => selfId'[transfers'[c][u].selfId] # NoSelf
  BY DEF NamedOK
<1>2. ASSUME selfId'[c] # NoSelf
      PROVE  selfId'[selfId'[c]] # NoSelf
  <2>1. CASE selfId'[c] = selfId[c]
    <3>1. selfId[c] \in Bodies /\ selfId[selfId[c]] # NoSelf
      BY <1>0, <1>2, <2>1 DEF NamedOK, TypeOK, Selves
    <3>. QED BY <1>1, <2>1, <3>1
  <2>2. CASE selfId'[c] = c
    BY <1>2, <2>2
  <2>3. ASSUME NEW t \in Transfers, transfers[c][t].outcome = "staged",
               selfId'[c] = transfers[c][t].selfId
        PROVE  selfId'[selfId'[c]] # NoSelf
    <3>1. transfers[c][t].selfId \in Bodies /\ selfId[transfers[c][t].selfId] # NoSelf
      BY <1>0, <2>3 DEF NamedOK, RecordsOK, WellFormed, Selves
    <3>. QED BY <1>1, <2>3, <3>1
  <2>. QED BY <2>1, <2>2, <2>3, NameFrom DEF Self
<1>3. ASSUME staging'[c].transfer # NoTransfer
      PROVE  selfId'[staging'[c].selfId] # NoSelf
  <2>0. staging'[c].transfer \in Transfers
    BY <1>0, <1>3 DEF TypeOK, Admission
  <2>1. CASE staging'[c] = staging[c]
    <3>1. staging[c].selfId \in Bodies
      BY <1>3, <2>0, <2>1 DEF IInv, StagingOK, Selves
    <3>2. selfId[staging[c].selfId] # NoSelf
      BY <1>3, <2>1 DEF NamedOK
    <3>. QED BY <1>1, <2>1, <3>1, <3>2
  <2>2. ASSUME NEW a \in Bodies, NEW replace \in BOOLEAN,
               StageBegin(c, staging'[c].transfer, a, replace),
               staging'[c].selfId = selfId[a]
        PROVE  selfId'[staging'[c].selfId] # NoSelf
    <3>1. selfId[a] \in Bodies
      BY <2>0, <2>2, StageBeginPends DEF Selves
    <3>2. selfId[selfId[a]] # NoSelf
      BY <3>1, SelvesAssumption DEF NamedOK
    <3>. QED BY <1>1, <2>2, <3>1, <3>2
  <2>. QED BY <1>0, <2>0, <2>1, <2>2, StagingFrom
<1>4. ASSUME NEW u \in Transfers,
             transfers'[c][u].outcome \in {"staged", "applying", "applied"}
      PROVE  selfId'[transfers'[c][u].selfId] # NoSelf
  <2>1. CASE /\ transfers[c][u].outcome \in {"staged", "applying", "applied"}
             /\ transfers'[c][u].selfId = transfers[c][u].selfId
    <3>1. transfers[c][u].selfId \in Bodies /\ selfId[transfers[c][u].selfId] # NoSelf
      BY <1>0, <2>1 DEF NamedOK, RecordsOK, WellFormed, Selves
    <3>. QED BY <1>1, <2>1, <3>1
  <2>2. ASSUME NEW d \in Bodies, Freeze(c, u, d)
        PROVE  FALSE
    BY <1>0, <1>4, <2>2, FreezeEffect
  <2>3. ASSUME Release(c, u) \/ Abort(c, u) \/ Discard(c, u)
        PROVE  FALSE
    BY <1>0, <1>4, <2>3, ReleaseEffect, AbortEffect, DiscardEffect
  <2>4. CASE Apply(c, u)
    BY <1>0, <2>1, <2>4, ApplyEffect
  <2>5. CASE StageCommit(c) /\ staging[c].transfer = u
    <3>1. transfers'[c][u].selfId = staging[c].selfId
      BY <1>0, <2>5, StageCommitEffect
    <3>2. selfId[staging[c].selfId] # NoSelf
      BY <2>5, TransfersAssumption DEF NamedOK
    <3>3. staging[c].selfId \in Bodies
      BY <2>5 DEF IInv, StagingOK, Selves
    <3>. QED BY <1>1, <3>1, <3>2, <3>3
  <2>6. CASE BootActivate(c) /\ Applying(c, u)
    <3>1. transferId[c] = u /\ transfers[c][u].outcome = "applying"
      BY <2>6 DEF Applying
    <3>2. transfers'[c][u].selfId = transfers[c][u].selfId
      BY <1>0, <2>6, <3>1 DEF BootActivate, TypeOK, TransferRecord
    <3>. QED BY <2>1, <3>1, <3>2
  <2>. QED BY <1>4, <2>1, <2>2, <2>3, <2>4, <2>5, <2>6, OnlyWriters DEF Writes
<1>. QED BY <1>2, <1>3, <1>4

\* Where a bundle, and a process that is active, come from.
LEMMA BundleFrom ==
  ASSUME TypeOK, [Next]_vars, NEW b \in Bodies
  PROVE  /\ \A t \in outgoing'[b] : t \in outgoing[b] \/ OutgoingBundle(b, t)
         /\ proc'[b] = "active" => \/ proc[b] = "active"
                                   \/ Boot(b) /\ state[b] = "active"
                                   \/ BootActivate(b)
<1>1. ASSUME NEW c \in Bodies, NEW t \in Transfers,
             \/ \E d \in Bodies : Freeze(c, t, d)
             \/ Release(c, t) \/ Abort(c, t) \/ Apply(c, t) \/ Discard(c, t)
             \/ StageRefused(c, t)
             \/ \E a \in Bodies, replace \in BOOLEAN : StageBegin(c, t, a, replace)
      PROVE  proc' = proc /\ outgoing'[b] \subseteq outgoing[b]
  BY <1>1 DEF Freeze, Release, Abort, Apply, Discard, StageRefused, StageBegin,
     TypeOK
<1>2. ASSUME NEW c \in Bodies, NEW t \in Transfers, OutgoingBundle(c, t)
      PROVE  /\ proc' = proc
             /\ \A u \in outgoing'[b] : u \in outgoing[b] \/ OutgoingBundle(b, u)
  BY <1>2 DEF OutgoingBundle, TypeOK
<1>3. ASSUME NEW c \in Bodies,
             \/ Reclaim(c) \/ StageCommit(c) \/ StageGivesUp(c)
             \/ ReadActivation(c) \/ TakeTurn(c)
      PROVE  proc' = proc /\ outgoing' = outgoing
  BY <1>3 DEF Reclaim, StageCommit, StageGivesUp, ReadActivation, TakeTurn
<1>4. ASSUME NEW c \in Bodies,
             Stop(c) \/ Boot(c) \/ BootInstall(c) \/ BootActivate(c)
      PROVE  /\ outgoing' = outgoing
             /\ proc'[b] = "active" => \/ proc[b] = "active"
                                       \/ Boot(b) /\ state[b] = "active"
                                       \/ BootActivate(b)
  <2>1. CASE c # b
    BY <1>4, <2>1 DEF Stop, Boot, BootInstall, BootActivate, TypeOK
  <2>2. CASE c = b
    BY <1>4, <2>2 DEF Stop, Boot, BootInstall, BootActivate, TypeOK
  <2>. QED BY <2>1, <2>2
<1>5. CASE UNCHANGED vars
  BY <1>5 DEF vars
<1>. QED BY <1>1, <1>2, <1>3, <1>4, <1>5 DEF Next

\* No step lets a process write under a bundle.
LEMMA StepBundlesOK ==
  ASSUME IInv, FrozenOK, BundlesOK, [Next]_vars
  PROVE  BundlesOK'
<1>0. TypeOK /\ RecordsOK /\ StagingOK /\ BootOK
  BY DEF IInv
<1> SUFFICES ASSUME NEW b \in Bodies, NEW t \in outgoing'[b]
             PROVE  /\ transfers'[b][t].role = "source"
                    /\ FrozenSource(b, t)' => proc'[b] # "active"
  BY DEF BundlesOK
<1>1. CASE OutgoingBundle(b, t)
  BY <1>1 DEF OutgoingBundle, FrozenSource, selfVars
<1>2. CASE t \in outgoing[b]
  <2>0. t \in Transfers /\ transfers[b][t].role = "source"
    BY <1>0, <1>2 DEF BundlesOK, TypeOK
  <2>1. ASSUME NEW d \in Bodies, Freeze(b, t, d)
        PROVE  FALSE
    BY <1>0, <2>0, <2>1, FreezeEffect
  <2>2. transfers'[b][t].role = "source"
    <3>1. CASE Release(b, t) \/ Abort(b, t)
      BY <1>0, <2>0, <3>1, ReleaseEffect, AbortEffect
    <3>2. ASSUME Apply(b, t) \/ Discard(b, t)
          PROVE  FALSE
      BY <1>0, <2>0, <3>2, ApplyEffect, DiscardEffect
    <3>3. ASSUME StageCommit(b), staging[b].transfer = t
          PROVE  FALSE
      <4>1. transfers[b][t].outcome \in {"none", "staged"}
        BY <1>0, <2>0, <3>3 DEF StagingOK
      <4>. QED BY <1>0, <2>0, <4>1 DEF RecordsOK, WellFormed
    <3>4. ~Applying(b, t)
      BY <2>0 DEF Applying
    <3>. QED BY <2>0, <2>1, <3>1, <3>2, <3>3, <3>4, OnlyWriters DEF Writes
  <2>3. ASSUME FrozenSource(b, t)'
        PROVE  proc'[b] # "active"
    <3>1. FrozenSource(b, t)
      BY <2>0, <2>1, <2>3, SourceFrom
    <3>2. proc[b] # "active" /\ state[b] # "active"
      BY <1>2, <3>1 DEF BundlesOK, FrozenSource
    <3>3. ~BootActivate(b)
      BY <1>0, <3>1 DEF BootActivate, BootOK, Applying, FrozenSource
    <3>. QED BY <1>0, <3>2, <3>3, BundleFrom
  <2>. QED BY <2>2, <2>3
<1>. QED BY <1>0, <1>1, <1>2, BundleFrom

-----------------------------------------------------------------------------
(* The theorems.                                                           *)

\* At first every body is its own self and nothing is in transit.
LEMMA InitHeld == Init => HeldInv
<1> SUFFICES ASSUME Init PROVE HeldInv
  OBVIOUS
<1>1. OutcomesInv
  BY InitOutcomes
<1>2. /\ \A b \in Bodies : /\ selfId[b] = NoSelf /\ state[b] = "active"
                           /\ outgoing[b] = {}
                           /\ staging[b].transfer = NoTransfer
      /\ \A b \in Bodies, t \in Transfers : transfers[b][t].outcome = "none"
  BY DEF Init, NoStage, NoRecord
<1>3. NamedOK /\ BundlesOK
  BY <1>2 DEF NamedOK, BundlesOK
<1>4. ASSUME NEW s \in Selves
      PROVE  Topped(s) /\ Kept(s)
  <2>1. \A c \in Bodies, u \in Transfers : ~Lived(c, u, s)
    BY <1>2 DEF Lived, Held
  <2>2. \A d \in Bodies, t \in Transfers : ~Claims(d, t, s)
    BY <1>2, TransfersAssumption DEF Claims
  <2>3. Topped(s)
    BY <2>1 DEF Topped, ActiveTop, PendingTop, ClaimsTop, Above
  <2>4. s \in Bodies /\ Active(s, s)
    BY <1>2 DEF Selves, Active, Self
  <2>. QED BY <2>2, <2>3, <2>4 DEF Kept, ClaimsSourced, Keeps
<1>. QED BY <1>1, <1>3, <1>4 DEF HeldInv

\* Every step keeps the invariant.
LEMMA StepHeld == HeldInv /\ [Next]_vars => HeldInv'
<1> SUFFICES ASSUME HeldInv, [Next]_vars PROVE HeldInv'
  OBVIOUS
<1>1. OutcomesInv /\ OutcomesInv' /\ IInv /\ IInv' /\ FrozenOK
  BY StepOutcomes DEF HeldInv, OutcomesInv
<1>2. NamedOK' /\ BundlesOK'
  BY <1>1, StepNamedOK, StepBundlesOK DEF HeldInv
<1>3. ASSUME NEW s \in Selves, s \notin forced'
      PROVE  Topped(s) /\ Topped(s)'
  <2>1. Topped(s)
    BY <1>3, GhostsGrow DEF HeldInv
  <2>. QED BY <1>1, <1>3, <2>1, StepTopped
<1>4. ASSUME NEW s \in Selves, s \notin forced', s \notin displaced'
      PROVE  Kept(s)'
  <2>1. Kept(s)
    BY <1>4, GhostsGrow DEF HeldInv
  <2>. QED BY <1>1, <1>3, <1>4, <2>1, StepKept
<1>. QED BY <1>1, <1>2, <1>3, <1>4 DEF HeldInv, Selves

\* The inductive invariant behind the three theorems below, for any bodies,
\* transfer ids, reclaims and epochs.
THEOREM HeldInvariance == Spec => []HeldInv
  BY InitHeld, StepHeld, PTL DEF Spec

\* Clankie is not lost in transit: a self that no reclaim and no other self's
\* apply took is always on some body that is active or frozen, however the
\* steps of the transfers interleave, stop and repeat.
THEOREM NeverLost == Spec => []HeldSomewhere
<1>1. HeldInv => HeldSomewhere
  <2> SUFFICES ASSUME HeldInv, NEW s \in Selves \ (forced \cup displaced),
                      NEW c \in Bodies, selfId[c] = s
               PROVE  \E b \in Bodies : selfId[b] = s /\ state[b] # "released"
    BY DEF HeldSomewhere
  <2>1. PICK b \in Bodies : Keeps(b, s)
    BY DEF HeldInv, Kept
  <2>2. Self(b) = s /\ state[b] # "released"
    BY <2>1 DEF Keeps, Active, FrozenSource
  <2>3. selfId[s] # NoSelf
    BY SelvesAssumption DEF HeldInv, NamedOK, Selves
  <2>4. selfId[b] = s
    BY <2>2, <2>3 DEF Self
  <2>. QED BY <2>2, <2>4
<1>. QED BY <1>1, HeldInvariance, PTL

\* A late or repeated apply never takes a self that no owner reclaimed back to
\* an epoch its new body has already lived through as that self.
THEOREM NeverFallsBack == Spec => EpochNeverFallsBack
<1>1. ASSUME HeldInv, [Next]_vars, NEW b \in Bodies, NEW t \in Transfers,
             Activates(b, t), transfers[b][t].selfId \notin forced
      PROVE  RisesAbove(b, t)
  <2>0. IInv /\ TypeOK /\ RecordsOK
    BY <1>1 DEF HeldInv, OutcomesInv, IInv
  <2>1. transfers'[b][t] # transfers[b][t] /\ transfers'[b][t].outcome = "applied"
    BY <1>1 DEF Activates
  <2>2. ASSUME NEW d \in Bodies, Freeze(b, t, d)
        PROVE  FALSE
    BY <2>0, <2>1, <2>2, FreezeEffect
  <2>3. ASSUME Release(b, t) \/ Abort(b, t) \/ Apply(b, t) \/ Discard(b, t)
        PROVE  FALSE
    BY <2>0, <2>1, <2>3, ReleaseEffect, AbortEffect, ApplyEffect, DiscardEffect
  <2>4. ASSUME StageCommit(b), staging[b].transfer = t
        PROVE  FALSE
    BY <2>0, <2>1, <2>4, StageCommitEffect
  <2>5. Applying(b, t)
    BY <1>1, <2>0, <2>1, <2>2, <2>3, <2>4, OnlyWriters DEF Writes
  <2> DEFINE s == transfers[b][t].selfId
             e == transfers[b][t].epoch
  <2>6. s \in Selves
    BY <2>0, <2>5 DEF Applying, RecordsOK, WellFormed
  <2>7. ClaimsAt(b, t, s, e)
    BY <2>5 DEF ClaimsAt, Applying
  <2>8. Topped(s)
    BY <1>1, <2>6 DEF HeldInv
  <2>9. Above(e, t, s)
    BY <2>7, <2>8 DEF Topped, ClaimsTop
  <2>10. ASSUME NEW u \in Transfers, transfers[b][u].outcome \in Held,
                transfers[b][u].selfId = s
         PROVE  transfers[b][u].epoch < e
    <3>1. u # t
      BY <2>5, <2>10 DEF Applying, Held
    <3>. QED BY <2>9, <2>10, <3>1 DEF Above, Lived
  <2>. QED BY <2>10 DEF RisesAbove
<1>2. HeldInv /\ [Next]_vars =>
          [\A b \in Bodies, t \in Transfers :
              Activates(b, t) /\ transfers[b][t].selfId \notin forced
                 => RisesAbove(b, t)]_vars
  BY <1>1
<1>. QED BY <1>2, HeldInvariance, PTL DEF Spec, EpochNeverFallsBack

\* Nothing that could still write the files of a frozen self runs once its
\* bundle was read from them: a bundle is the whole of what was frozen.
THEOREM SnapshotFinal == Spec => []SnapshotIsFinal
<1>1. HeldInv => SnapshotIsFinal
  BY DEF HeldInv, BundlesOK, SnapshotIsFinal
<1>. QED BY <1>1, HeldInvariance, PTL

(***************************************************************************)
(* Part 4: the refinement.  The numbers of SelfAuthority are maxima over   *)
(* the records; the invariant says where each is attained: at the epoch of *)
(* the active body, of the source that waits, or of the claim that is yet  *)
(* to be activated.                                                        *)
(***************************************************************************)

-----------------------------------------------------------------------------
(* The invariant.                                                          *)

\* The outcomes of a freeze, and those under which a self is active again.
IssuedOutcomes == {"frozen", "released", "aborted"}
LivedOutcomes == {"aborted", "applied"}

\* Zero, and the epochs of s under one of the outcomes O in the records T.
EpochsIn(T, s, O) ==
    {0} \cup {e \in Nat : \E c \in Bodies, u \in Transfers :
                  /\ T[c][u].outcome \in O
                  /\ T[c][u].selfId = s
                  /\ T[c][u].epoch = e}

\* An active body stands at the last epoch issued and lived through, if any.
ActiveNumbered(s) ==
    \A b \in Bodies : Active(b, s) =>
        /\ epoch[b] \in EpochsIn(transfers, s, IssuedOutcomes)
        /\ epoch[b] \in EpochsIn(transfers, s, LivedOutcomes)

\* A claim is to an epoch that was issued ...
ClaimsIssued(s) ==
    \A d \in Bodies, t \in Transfers :
        \A e \in {transfers[d][t].epoch, staging[d].epoch} :
            ClaimsAt(d, t, s, e) => e \in EpochsIn(transfers, s, IssuedOutcomes)

\* ... and that nobody has been active at.
ClaimsUnlived(s) ==
    \A d \in Bodies, t \in Transfers :
        \A e \in {transfers[d][t].epoch, staging[d].epoch} :
            ClaimsAt(d, t, s, e) =>
                \A x \in EpochsIn(transfers, s, LivedOutcomes) : x < e

\* A freeze issues no epoch 0.
IssuedOK ==
    \A c \in Bodies, u \in Transfers :
        transfers[c][u].role = "source" => transfers[c][u].epoch > 0

AuthorityInv ==
    /\ HeldInv
    /\ IssuedOK
    /\ \A s \in Selves : ClaimsIssued(s)
    /\ \A s \in Selves \ forced : ActiveNumbered(s) /\ ClaimsUnlived(s)

-----------------------------------------------------------------------------
(* Maxima.                                                                 *)

\* The maximum of a set is the element that bounds it.
LEMMA MaxIs ==
  ASSUME NEW S, S \subseteq Nat, NEW m \in S, \A x \in S : x <= m
  PROVE  Max(S) = m
<1>1. m \in S /\ \A y \in S : m >= y
  OBVIOUS
<1>2. Max(S) \in S /\ \A y \in S : Max(S) >= y
  BY <1>1 DEF Max
<1>3. Max(S) \in Nat /\ m \in Nat /\ Max(S) >= m /\ m >= Max(S)
  BY <1>1, <1>2
<1>. QED BY <1>3

\* A bounded set of numbers has its maximum: its least upper bound is in it.
LEMMA MaxOfBounded ==
  ASSUME NEW S, S \subseteq Nat, S # {}, NEW k \in Nat, \A x \in S : x <= k
  PROVE  Max(S) \in S
<1> DEFINE U == {n \in Nat : \A x \in S : x <= n}
           R == {p \in Nat \X Nat : p[1] < p[2]}
<1>1. IsWellFoundedOn(R, Nat)
  BY NatLessThanWellFounded DEF OpToRel
<1>2. U \subseteq Nat /\ U # {}
  OBVIOUS
<1>3. PICK m \in U : \A n \in U : ~(<<n, m>> \in R)
  <2> HIDE DEF U, R
  <2>. QED BY <1>1, <1>2, WFMin
<1>4. ASSUME NEW n \in U
      PROVE  m <= n
  <2>1. <<n, m>> \in Nat \X Nat /\ <<n, m>>[1] = n /\ <<n, m>>[2] = m
    BY <1>2
  <2>. QED BY <1>3, <2>1
<1>5. m \in S
  <2> SUFFICES ASSUME m \notin S PROVE FALSE
    OBVIOUS
  <2>1. m \in Nat /\ \A x \in S : x < m
    BY <1>2
  <2>2. m > 0
    <3>1. PICK x \in S : TRUE
      OBVIOUS
    <3>2. x \in Nat /\ x < m
      BY <2>1
    <3>. QED BY <2>1, <3>2
  <2>3. m - 1 \in Nat /\ \A x \in S : x <= m - 1
    BY <2>1, <2>2
  <2>4. m - 1 \in U
    BY <2>3
  <2>. QED BY <1>4, <2>1, <2>4
<1>. QED BY <1>5, MaxIs

\* What is in a set of epochs, and what the records put there.
LEMMA EpochsAre ==
  ASSUME NEW T, NEW s, NEW O
  PROVE  /\ EpochsIn(T, s, O) \subseteq Nat /\ 0 \in EpochsIn(T, s, O)
         /\ \A x \in EpochsIn(T, s, O) :
               x = 0 \/ \E c \in Bodies, u \in Transfers :
                           /\ T[c][u].outcome \in O
                           /\ T[c][u].selfId = s
                           /\ T[c][u].epoch = x
         /\ \A c \in Bodies, u \in Transfers :
               /\ T[c][u].outcome \in O
               /\ T[c][u].selfId = s
               /\ T[c][u].epoch \in Nat
               => T[c][u].epoch \in EpochsIn(T, s, O)
  BY DEF EpochsIn

\* The numbers of the refinement are maxima of these epochs.
Maxima ==
    \A s \in Selves :
        /\ IssuedTo(s) = Max(EpochsIn(transfers, s, IssuedOutcomes))
        /\ LivedBy(s) = Max(EpochsIn(transfers, s, LivedOutcomes))

\* The definitions of the refinement, in terms of these sets.
LEMMA MaximaNow == TypeOK => Maxima
<1> SUFFICES ASSUME TypeOK, NEW s \in Selves
             PROVE  /\ IssuedTo(s) = Max(EpochsIn(transfers, s, IssuedOutcomes))
                    /\ LivedBy(s) = Max(EpochsIn(transfers, s, LivedOutcomes))
  BY DEF Maxima
<1>1. ASSUME NEW O
      PROVE  EpochsIn(transfers, s, O) = {0} \cup EpochsOf(s, O)
  <2>1. ASSUME NEW x \in EpochsOf(s, O)
        PROVE  x \in EpochsIn(transfers, s, O)
    <3>1. PICK c \in Bodies, u \in Transfers :
             /\ transfers[c][u].selfId = s /\ transfers[c][u].outcome \in O
             /\ transfers[c][u].epoch = x
      BY <2>1 DEF EpochsOf
    <3>2. transfers[c][u].epoch \in Nat
      BY DEF TypeOK, TransferRecord
    <3>. QED BY <3>1, <3>2, EpochsAre
  <2>2. ASSUME NEW x \in EpochsIn(transfers, s, O), x # 0
        PROVE  x \in EpochsOf(s, O)
    <3>1. PICK c \in Bodies, u \in Transfers :
             /\ transfers[c][u].selfId = s /\ transfers[c][u].outcome \in O
             /\ transfers[c][u].epoch = x
      BY <2>2, EpochsAre
    <3>2. <<c, u>> \in Bodies \X Transfers /\ <<c, u>>[1] = c /\ <<c, u>>[2] = u
      OBVIOUS
    <3>. QED BY <3>1, <3>2 DEF EpochsOf
  <2>. QED BY <2>1, <2>2, EpochsAre
<1>. QED BY <1>1 DEF IssuedTo, LivedBy, IssuedOutcomes, LivedOutcomes

\* The same after a step.
LEMMA MaximaNext == TypeOK' => Maxima'
  BY MaximaNow, PTL

-----------------------------------------------------------------------------
(* The invariant is kept.                                                  *)

\* Only a freeze writes an epoch of its own, and it counts up.
LEMMA StepIssuedOK ==
  ASSUME IInv, IssuedOK, [Next]_vars
  PROVE  IssuedOK'
<1> SUFFICES ASSUME NEW c \in Bodies, NEW u \in Transfers,
                    transfers'[c][u].role = "source"
             PROVE  transfers'[c][u].epoch > 0
  BY DEF IssuedOK
<1>0. TypeOK
  BY DEF IInv
<1>1. CASE transfers'[c][u] = transfers[c][u]
  BY <1>1 DEF IssuedOK
<1>2. ASSUME NEW d \in Bodies, Freeze(c, u, d)
      PROVE  transfers'[c][u].epoch > 0
  BY <1>0, <1>2 DEF Freeze, NextEpoch, TypeOK
<1>3. ASSUME Release(c, u) \/ Abort(c, u)
      PROVE  transfers'[c][u].epoch > 0
  <2>1. PICK o \in {"released", "aborted"} :
           transfers' = [transfers EXCEPT ![c][u].outcome = o]
    BY <1>3 DEF Release, Abort
  <2>2. transfers[c][u].role = "source"
    BY <1>3 DEF Release, Abort, FrozenSource
  <2>. QED BY <1>0, <2>1, <2>2 DEF IssuedOK, TypeOK, TransferRecord
<1>4. ASSUME \/ Apply(c, u) \/ Discard(c, u)
             \/ StageCommit(c) /\ staging[c].transfer = u
      PROVE  FALSE
  BY <1>0, <1>4, ApplyEffect, DiscardEffect, StageCommitEffect
<1>5. ASSUME BootActivate(c), Applying(c, u)
      PROVE  FALSE
  <2>1. transferId[c] = u /\ transfers[c][u].role = "destination"
    BY <1>5 DEF Applying
  <2>2. transfers'[c][u].role = transfers[c][u].role
    BY <1>0, <1>5, <2>1 DEF BootActivate, TypeOK, TransferRecord
  <2>. QED BY <2>1, <2>2
<1>. QED BY <1>1, <1>2, <1>3, <1>4, <1>5, OnlyWriters DEF Writes

\* What was issued, or lived through, stays on record.
LEMMA FrozenRecordStays ==
  ASSUME IInv, FrozenOK, [Next]_vars, NEW c \in Bodies, NEW u \in Transfers,
         transfers[c][u].outcome = "frozen"
  PROVE  /\ transfers'[c][u].outcome \in IssuedOutcomes
         /\ transfers'[c][u].selfId = transfers[c][u].selfId
         /\ transfers'[c][u].epoch = transfers[c][u].epoch
<1>0. TypeOK /\ transfers[c][u].role = "source"
  BY DEF IInv, RecordsOK, WellFormed
<1>1. CASE transfers'[c][u] = transfers[c][u]
  BY <1>1 DEF IssuedOutcomes
<1>2. CASE Release(c, u) \/ Abort(c, u)
  <2>1. PICK o \in {"released", "aborted"} :
           transfers' = [transfers EXCEPT ![c][u].outcome = o]
    BY <1>2 DEF Release, Abort
  <2>. QED BY <1>0, <2>1 DEF IssuedOutcomes, TypeOK, TransferRecord
<1>3. ASSUME \/ \E d \in Bodies : Freeze(c, u, d)
             \/ Apply(c, u) \/ Discard(c, u)
             \/ StageCommit(c) /\ staging[c].transfer = u
             \/ BootActivate(c) /\ Applying(c, u)
      PROVE  FALSE
  BY <1>0, <1>3, FreezeEffect, ApplyEffect, DiscardEffect
     DEF IInv, StagingOK, Applying
<1>. QED BY <1>1, <1>2, <1>3, OnlyWriters DEF Writes

\* No epoch that was issued or lived through is forgotten.
LEMMA EpochsStay ==
  ASSUME IInv, FrozenOK, [Next]_vars, NEW s,
         NEW O \in {IssuedOutcomes, LivedOutcomes},
         NEW x \in EpochsIn(transfers, s, O)
  PROVE  x \in EpochsIn(transfers', s, O)
<1> SUFFICES ASSUME x # 0
             PROVE  x \in EpochsIn(transfers', s, O)
  BY EpochsAre
<1>1. PICK c \in Bodies, u \in Transfers :
         /\ transfers[c][u].outcome \in O
         /\ transfers[c][u].selfId = s
         /\ transfers[c][u].epoch = x
  BY EpochsAre
<1>2. CASE transfers'[c][u] = transfers[c][u]
  BY <1>1, <1>2, EpochsAre
<1>3. CASE transfers[c][u].outcome = "frozen"
  <2>1. O = IssuedOutcomes
    BY <1>1, <1>3 DEF LivedOutcomes
  <2>2. /\ transfers'[c][u].outcome \in O
        /\ transfers'[c][u].selfId = s /\ transfers'[c][u].epoch = x
    BY <1>1, <1>3, <2>1, FrozenRecordStays
  <2>. QED BY <2>2, EpochsAre
<1>. QED BY <1>1, <1>2, <1>3, EndsAreFinal DEF IssuedOutcomes, LivedOutcomes

\* A claim is staged from a freeze on record.
LEMMA StepClaimsIssued ==
  ASSUME IInv, FrozenOK, [Next]_vars, NEW s \in Selves, ClaimsIssued(s)
  PROVE  ClaimsIssued(s)'
<1> SUFFICES ASSUME NEW d \in Bodies, NEW t \in Transfers,
                    NEW e \in {transfers'[d][t].epoch, staging'[d].epoch},
                    ClaimsAt(d, t, s, e)'
             PROVE  e \in EpochsIn(transfers', s, IssuedOutcomes)
  BY DEF ClaimsIssued
<1>1. CASE ClaimsAt(d, t, s, e)
  <2>1. e \in EpochsIn(transfers, s, IssuedOutcomes)
    BY <1>1 DEF ClaimsIssued, ClaimsAt
  <2>. QED BY <2>1, EpochsStay
<1>2. ASSUME NEW a \in Bodies, NEW replace \in BOOLEAN,
             StageBegin(d, t, a, replace), s = selfId[a], e = epoch[a]
      PROVE  e \in EpochsIn(transfers', s, IssuedOutcomes)
  <2>1. /\ transfers' = transfers /\ epoch[a] \in Nat
        /\ transfers[a][t].outcome = "frozen"
        /\ transfers[a][t].selfId = s /\ transfers[a][t].epoch = e
    BY <1>2, StageBeginPends DEF Pending, FrozenOK, IInv, TypeOK
  <2>. QED BY <1>2, <2>1, EpochsAre DEF IssuedOutcomes
<1>. QED BY <1>1, <1>2, ClaimsFrom

\* A body that becomes active stands at an epoch both issued and lived through.
LEMMA StepActiveNumbered ==
  ASSUME OutcomesInv, [Next]_vars, NEW s \in Selves, s \notin forced',
         ClaimsIssued(s), ActiveNumbered(s)
  PROVE  ActiveNumbered(s)'
<1> SUFFICES ASSUME NEW b \in Bodies, Active(b, s)'
             PROVE  /\ epoch'[b] \in EpochsIn(transfers', s, IssuedOutcomes)
                    /\ epoch'[b] \in EpochsIn(transfers', s, LivedOutcomes)
  BY DEF ActiveNumbered
<1>0. /\ IInv /\ FrozenOK /\ TypeOK /\ BootOK /\ RecordsOK
  BY DEF OutcomesInv, IInv
<1>1. CASE Active(b, s) /\ epoch'[b] = epoch[b]
  BY <1>0, <1>1, EpochsStay DEF ActiveNumbered
<1>2. ASSUME NEW t \in Transfers, Abort(b, t)
      PROVE  /\ epoch'[b] \in EpochsIn(transfers', s, IssuedOutcomes)
             /\ epoch'[b] \in EpochsIn(transfers', s, LivedOutcomes)
  <2>1. /\ Pending(b, t, Self(b)) /\ epoch' = epoch /\ selfId'[b] = selfId[b]
    BY <1>0, <1>2, AbortPends
  <2>2. selfId[b] = s
    BY <1>0, <2>1, SelvesAssumption
       DEF Active, Self, Pending, FrozenSource, RecordsOK, Selves
  <2>3. /\ transfers[b][t].outcome = "frozen"
        /\ transfers[b][t].selfId = s /\ transfers[b][t].epoch = epoch[b]
    BY <1>0, <2>1, <2>2 DEF Pending, FrozenOK
  <2>4. transfers'[b][t].outcome = "aborted"
    BY <1>0, <1>2, AbortEffect
  <2>5. transfers'[b][t].selfId = s /\ transfers'[b][t].epoch = epoch'[b]
    BY <1>0, <2>1, <2>3, FrozenRecordStays
  <2>6. epoch'[b] \in Nat
    BY <1>0, <2>1 DEF TypeOK
  <2>. QED BY <2>4, <2>5, <2>6, EpochsAre DEF IssuedOutcomes, LivedOutcomes
<1>3. ASSUME Reclaim(b)
      PROVE  FALSE
  BY <1>3 DEF Reclaim, Active, Self
<1>4. ASSUME BootActivate(b)
      PROVE  /\ epoch'[b] \in EpochsIn(transfers', s, IssuedOutcomes)
             /\ epoch'[b] \in EpochsIn(transfers', s, LivedOutcomes)
  <2>1. PICK t \in Transfers : Applying(b, t)
    BY <1>0, <1>4 DEF BootOK, BootActivate
  <2>2. transferId[b] = t /\ selfId[b] = transfers[b][t].selfId
    BY <1>0, <2>1 DEF Applying, BootOK
  <2>3. /\ selfId'[b] = selfId[b] /\ epoch'[b] = transfers[b][t].epoch
        /\ transfers'[b][t].outcome = "applied"
        /\ transfers'[b][t].selfId = transfers[b][t].selfId
        /\ transfers'[b][t].epoch = transfers[b][t].epoch
        /\ transfers[b][t].epoch \in Nat
    BY <1>0, <1>4, <2>2 DEF BootActivate, TypeOK, TransferRecord
  <2>4. transfers[b][t].selfId = s
    BY <1>0, <2>1, <2>2, <2>3, SelvesAssumption
       DEF Applying, RecordsOK, WellFormed, Active, Self, Selves
  <2>5. ClaimsAt(b, t, s, transfers[b][t].epoch)
    BY <2>1, <2>4 DEF ClaimsAt, Applying
  <2>6. epoch'[b] \in EpochsIn(transfers, s, IssuedOutcomes)
    BY <2>3, <2>5 DEF ClaimsIssued
  <2>. QED BY <1>0, <2>3, <2>4, <2>6, EpochsStay, EpochsAre DEF LivedOutcomes
<1>. QED BY <1>0, <1>1, <1>2, <1>3, <1>4, ActiveFrom

\* An epoch is lived through by an abort or an activation, and by nothing else.
LEMMA LivedThroughFrom ==
  ASSUME IInv, FrozenOK, [Next]_vars, NEW s \in Selves,
         NEW c \in Bodies, NEW u \in Transfers,
         transfers'[c][u].outcome \in LivedOutcomes, transfers'[c][u].selfId = s
  PROVE  \/ transfers'[c][u] = transfers[c][u]
         \/ Abort(c, u) /\ Self(c) = s
         \/ BootActivate(c) /\ Claims(c, u, s) /\ Active(c, s)' /\ Self(c) = s
<1> SUFFICES ASSUME transfers'[c][u] # transfers[c][u]
             PROVE  \/ Abort(c, u) /\ Self(c) = s
                    \/ BootActivate(c) /\ Claims(c, u, s) /\ Active(c, s)' /\ Self(c) = s
  OBVIOUS
<1>0. TypeOK /\ RecordsOK
  BY DEF IInv
<1>1. CASE Abort(c, u)
  <2>1. FrozenSource(c, u) /\ transfers[c][u].outcome = "frozen"
    BY <1>1 DEF Abort, FrozenOK
  <2>2. transfers[c][u].selfId = s
    BY <2>1, FrozenRecordStays
  <2>3. selfId[c] = s
    BY <2>1, <2>2 DEF FrozenOK
  <2>. QED BY <1>1, <2>3, SelvesAssumption DEF Self, Selves
<1>2. CASE BootActivate(c) /\ Applying(c, u)
  <2>1. ~Lived(c, u, s) /\ Lived(c, u, s)'
    BY <1>2 DEF Lived, Held, Applying, LivedOutcomes
  <2>2. Claims(c, u, s) /\ Active(c, s)' /\ transfers'[c][u].outcome # "frozen"
    BY <2>1, LivedFrom DEF LivedOutcomes
  <2>3. selfId'[c] = selfId[c]
    BY <1>2 DEF BootActivate
  <2>. QED BY <1>2, <2>2, <2>3 DEF Active, Self
<1>3. ASSUME \/ \E d \in Bodies : Freeze(c, u, d)
             \/ Release(c, u) \/ Apply(c, u) \/ Discard(c, u)
             \/ StageCommit(c) /\ staging[c].transfer = u
      PROVE  FALSE
  BY <1>0, <1>3, FreezeEffect, ReleaseEffect, ApplyEffect, DiscardEffect,
     StageCommitEffect DEF LivedOutcomes
<1>. QED BY <1>1, <1>2, <1>3, OnlyWriters DEF Writes

\* A claim's epoch is lived through only by the end of the claim.
LEMMA StepClaimsUnlived ==
  ASSUME OutcomesInv, OutcomesInv', IssuedOK, [Next]_vars,
         NEW s \in Selves, s \notin forced', Topped(s), ClaimsUnlived(s)
  PROVE  ClaimsUnlived(s)'
<1> SUFFICES ASSUME NEW d \in Bodies, NEW t \in Transfers,
                    NEW e \in {transfers'[d][t].epoch, staging'[d].epoch},
                    ClaimsAt(d, t, s, e)',
                    NEW x \in EpochsIn(transfers', s, LivedOutcomes)
             PROVE  x < e
  BY DEF ClaimsUnlived
<1>0. /\ IInv /\ FrozenOK /\ TypeOK /\ StagingOK /\ StagingOK' /\ RecordsOK
      /\ Fenced(s)
  BY GhostsGrow DEF OutcomesInv, IInv
<1>1. CASE ClaimsAt(d, t, s, e)
  <2>0. Claims(d, t, s) /\ \A y \in EpochsIn(transfers, s, LivedOutcomes) : y < e
    BY <1>1 DEF ClaimsUnlived, ClaimsAt, Claims
  <2>1. CASE x = 0
    BY <2>0, <2>1, EpochsAre
  <2>2. ASSUME NEW c \in Bodies, NEW u \in Transfers,
               transfers'[c][u].outcome \in LivedOutcomes,
               transfers'[c][u].selfId = s, transfers'[c][u].epoch = x
        PROVE  x < e
    <3>1. x \in Nat
      BY EpochsAre
    <3>2. CASE transfers'[c][u] = transfers[c][u]
      BY <2>0, <2>2, <3>1, <3>2, EpochsAre
    <3>3. ASSUME Abort(c, u), Self(c) = s
          PROVE  FALSE
      <4>1. /\ Pending(c, u, s)
            /\ transfers[transfers[c][u].peer][u].outcome = "burned"
        BY <1>0, <3>3, AbortPends
      <4>2. d = transfers[c][u].peer /\ u = t
        BY <1>0, <2>0, <4>1 DEF Fenced
      <4>. QED BY <1>0, <2>0, <4>1, <4>2, EndedClaimsNothing
    <3>4. ASSUME Claims(c, u, s), transfers'[c][u] # transfers[c][u],
                 BootActivate(c)
          PROVE  FALSE
      <4>1. c = d /\ u = t
        BY <1>0, <2>0, <3>4 DEF Fenced
      <4>2. transfers'[d][t].outcome \notin {"none", "staged", "applying"}
        BY <2>2, <4>1 DEF LivedOutcomes
      <4>. QED BY <1>0, <4>2 DEF ClaimsAt, StagingOK
    <3>. QED BY <1>0, <2>2, <3>2, <3>3, <3>4, LivedThroughFrom
  <2>. QED BY <2>1, <2>2, EpochsAre
<1>2. ASSUME NEW a \in Bodies, NEW replace \in BOOLEAN,
             StageBegin(d, t, a, replace), s = selfId[a], e = epoch[a]
      PROVE  x < e
  <2>1. Pending(a, t, s) /\ transfers' = transfers
    BY <1>0, <1>2, StageBeginPends
  <2>2. transfers[a][t].outcome = "frozen" /\ transfers[a][t].epoch = e
    BY <1>0, <1>2, <2>1 DEF Pending, FrozenOK
  <2>3. CASE x = 0
    BY <1>0, <2>2, <2>3 DEF IssuedOK, RecordsOK, WellFormed, TypeOK, TransferRecord
  <2>4. ASSUME NEW c \in Bodies, NEW u \in Transfers,
               transfers'[c][u].outcome \in LivedOutcomes,
               transfers'[c][u].selfId = s, transfers'[c][u].epoch = x
        PROVE  x < e
    <3>1. Lived(c, u, s)
      BY <2>1, <2>4 DEF Lived, Held, LivedOutcomes
    <3>2. ~(c = a /\ u = t)
      BY <2>1, <2>2, <2>4 DEF LivedOutcomes
    <3>. QED BY <1>2, <2>1, <2>4, <3>1, <3>2 DEF Topped, PendingTop
  <2>. QED BY <2>3, <2>4, EpochsAre
<1>. QED BY <1>0, <1>1, <1>2, ClaimsFrom

\* At first every number is zero.
LEMMA InitAuthority == Init => AuthorityInv
<1> SUFFICES ASSUME Init PROVE AuthorityInv
  OBVIOUS
<1>1. HeldInv
  BY InitHeld
<1>2. /\ \A b \in Bodies : epoch[b] = 0 /\ staging[b].transfer = NoTransfer
      /\ \A b \in Bodies, t \in Transfers : /\ transfers[b][t].outcome = "none"
                                            /\ transfers[b][t].role = "none"
  BY DEF Init, NoStage, NoRecord
<1>3. IssuedOK
  BY <1>2 DEF IssuedOK
<1>4. ASSUME NEW s \in Selves
      PROVE  ClaimsIssued(s) /\ ActiveNumbered(s) /\ ClaimsUnlived(s)
  <2>1. \A d \in Bodies, t \in Transfers, e \in Nat : ~ClaimsAt(d, t, s, e)
    BY <1>2, TransfersAssumption DEF ClaimsAt
  <2>2. \A d \in Bodies, t \in Transfers :
           transfers[d][t].epoch \in Nat /\ staging[d].epoch \in Nat
    BY <1>1 DEF HeldInv, OutcomesInv, IInv, TypeOK, TransferRecord, Admission
  <2>3. ActiveNumbered(s)
    BY <1>2, EpochsAre DEF ActiveNumbered
  <2>. QED BY <2>1, <2>2, <2>3 DEF ClaimsIssued, ClaimsUnlived
<1>. QED BY <1>1, <1>3, <1>4 DEF AuthorityInv

\* Every step keeps the invariant.
LEMMA StepAuthority == AuthorityInv /\ [Next]_vars => AuthorityInv'
<1> SUFFICES ASSUME AuthorityInv, [Next]_vars PROVE AuthorityInv'
  OBVIOUS
<1>1. HeldInv /\ HeldInv'
  BY StepHeld DEF AuthorityInv
<1>2. OutcomesInv /\ OutcomesInv' /\ IInv /\ FrozenOK
  BY <1>1 DEF HeldInv, OutcomesInv
<1>3. IssuedOK'
  BY <1>2, StepIssuedOK DEF AuthorityInv
<1>4. ASSUME NEW s \in Selves
      PROVE  ClaimsIssued(s)'
  BY <1>2, <1>4, StepClaimsIssued DEF AuthorityInv
<1>5. ASSUME NEW s \in Selves, s \notin forced'
      PROVE  ActiveNumbered(s)' /\ ClaimsUnlived(s)'
  <2>1. /\ Topped(s) /\ ClaimsIssued(s) /\ ActiveNumbered(s) /\ ClaimsUnlived(s)
        /\ IssuedOK
    BY <1>1, <1>5, GhostsGrow DEF AuthorityInv, HeldInv
  <2>. QED BY <1>2, <1>5, <2>1, StepActiveNumbered, StepClaimsUnlived
<1>. QED BY <1>1, <1>3, <1>4, <1>5 DEF AuthorityInv, Selves

\* The inductive invariant behind the refinement.
THEOREM AuthorityInvariance == Spec => []AuthorityInv
  BY InitAuthority, StepAuthority, PTL DEF Spec

-----------------------------------------------------------------------------
(* Where the numbers stand.                                                *)

StandsAt ==
    \A s \in Selves \ forced :
        /\ \A b \in Bodies : Active(b, s) =>
              IssuedTo(s) = epoch[b] /\ LivedBy(s) = epoch[b]
        /\ \A b \in Bodies, t \in Transfers : Pending(b, t, s) =>
              IssuedTo(s) = epoch[b] /\ LivedBy(s) < epoch[b]
        /\ \A d \in Bodies, t \in Transfers :
              \A e \in {transfers[d][t].epoch, staging[d].epoch} :
                  ClaimsAt(d, t, s, e) => IssuedTo(s) = e /\ LivedBy(s) < e

\* A bound that is itself recorded is the maximum.
LEMMA IssuedIs ==
  ASSUME NEW T, NEW s, NEW O, NEW m \in EpochsIn(T, s, O),
         \A c \in Bodies, u \in Transfers :
            T[c][u].outcome \in O /\ T[c][u].selfId = s => T[c][u].epoch <= m
  PROVE  Max(EpochsIn(T, s, O)) = m
<1>1. m \in Nat /\ 0 <= m /\ EpochsIn(T, s, O) \subseteq Nat
  BY EpochsAre
<1>2. \A x \in EpochsIn(T, s, O) : x <= m
  BY <1>1, EpochsAre
<1>. QED BY <1>1, <1>2, MaxIs

\* A maximum lies below what all that is recorded lies below.
LEMMA LivedIsBelow ==
  ASSUME NEW T, NEW s, NEW O, NEW m \in Nat, m > 0,
         \A c \in Bodies, u \in Transfers :
            T[c][u].outcome \in O /\ T[c][u].selfId = s => T[c][u].epoch < m
  PROVE  Max(EpochsIn(T, s, O)) < m
<1>1. EpochsIn(T, s, O) \subseteq Nat /\ EpochsIn(T, s, O) # {}
  BY EpochsAre
<1>2. \A x \in EpochsIn(T, s, O) : x < m
  BY EpochsAre
<1>3. \A x \in EpochsIn(T, s, O) : x <= m
  BY <1>1, <1>2
<1>4. Max(EpochsIn(T, s, O)) \in EpochsIn(T, s, O)
  BY <1>1, <1>3, MaxOfBounded
<1>. QED BY <1>2, <1>4

\* Where the invariant puts the two numbers.
LEMMA StandsNow == AuthorityInv => StandsAt
<1> SUFFICES ASSUME AuthorityInv, NEW s \in Selves \ forced
             PROVE
        /\ \A b \in Bodies : Active(b, s) =>
              IssuedTo(s) = epoch[b] /\ LivedBy(s) = epoch[b]
        /\ \A b \in Bodies, t \in Transfers : Pending(b, t, s) =>
              IssuedTo(s) = epoch[b] /\ LivedBy(s) < epoch[b]
        /\ \A d \in Bodies, t \in Transfers :
              \A e \in {transfers[d][t].epoch, staging[d].epoch} :
                  ClaimsAt(d, t, s, e) => IssuedTo(s) = e /\ LivedBy(s) < e
  BY DEF StandsAt
<1>0. /\ TypeOK /\ RecordsOK /\ FrozenOK /\ IssuedOK /\ Topped(s)
      /\ ClaimsIssued(s) /\ ActiveNumbered(s) /\ ClaimsUnlived(s)
  BY DEF AuthorityInv, HeldInv, OutcomesInv, IInv
<1>1. /\ IssuedTo(s) = Max(EpochsIn(transfers, s, IssuedOutcomes))
      /\ LivedBy(s) = Max(EpochsIn(transfers, s, LivedOutcomes))
  BY <1>0, MaximaNow DEF Maxima
<1>2. \A c \in Bodies, u \in Transfers :
         /\ transfers[c][u].epoch \in Nat
         /\ \/ transfers[c][u].outcome \in IssuedOutcomes
            \/ transfers[c][u].outcome \in LivedOutcomes
            => transfers[c][u].outcome \in Held
  BY <1>0 DEF TypeOK, TransferRecord, IssuedOutcomes, LivedOutcomes, Held
<1>3. ASSUME NEW b \in Bodies, Active(b, s)
      PROVE  IssuedTo(s) = epoch[b] /\ LivedBy(s) = epoch[b]
  <2>1. \A c \in Bodies, u \in Transfers :
           transfers[c][u].outcome \in Held /\ transfers[c][u].selfId = s
              => transfers[c][u].epoch <= epoch[b]
    BY <1>0, <1>3 DEF Topped, ActiveTop, Lived
  <2>2. /\ epoch[b] \in EpochsIn(transfers, s, IssuedOutcomes)
        /\ epoch[b] \in EpochsIn(transfers, s, LivedOutcomes)
    BY <1>0, <1>3 DEF ActiveNumbered
  <2>3. IssuedTo(s) = epoch[b]
    BY <1>1, <1>2, <2>1, <2>2, IssuedIs
  <2>4. LivedBy(s) = epoch[b]
    BY <1>1, <1>2, <2>1, <2>2, IssuedIs
  <2>. QED BY <2>3, <2>4
<1>4. ASSUME NEW b \in Bodies, NEW t \in Transfers, Pending(b, t, s)
      PROVE  IssuedTo(s) = epoch[b] /\ LivedBy(s) < epoch[b]
  <2>1. /\ transfers[b][t].outcome = "frozen"
        /\ transfers[b][t].selfId = s /\ transfers[b][t].epoch = epoch[b]
        /\ epoch[b] > 0 /\ epoch[b] \in Nat
    BY <1>0, <1>4, SelvesAssumption
       DEF Pending, FrozenSource, FrozenOK, RecordsOK, WellFormed, Self, Selves,
           IssuedOK, TypeOK
  <2>2. \A c \in Bodies, u \in Transfers :
           transfers[c][u].outcome \in Held /\ transfers[c][u].selfId = s
              => (c = b /\ u = t) \/ transfers[c][u].epoch < epoch[b]
    BY <1>0, <1>4 DEF Topped, PendingTop, Lived
  <2>3. epoch[b] \in EpochsIn(transfers, s, IssuedOutcomes)
    BY <2>1, EpochsAre DEF IssuedOutcomes
  <2>4. \A c \in Bodies, u \in Transfers :
           transfers[c][u].outcome \in IssuedOutcomes /\ transfers[c][u].selfId = s
              => transfers[c][u].epoch <= epoch[b]
    BY <1>2, <2>1, <2>2
  <2>5. \A c \in Bodies, u \in Transfers :
           transfers[c][u].outcome \in LivedOutcomes /\ transfers[c][u].selfId = s
              => transfers[c][u].epoch < epoch[b]
    BY <1>2, <2>1, <2>2 DEF LivedOutcomes
  <2>6. IssuedTo(s) = epoch[b]
    BY <1>1, <2>3, <2>4, IssuedIs
  <2>7. LivedBy(s) < epoch[b]
    BY <1>1, <2>1, <2>5, LivedIsBelow
  <2>. QED BY <2>6, <2>7
<1>5. ASSUME NEW d \in Bodies, NEW t \in Transfers,
             NEW e \in {transfers[d][t].epoch, staging[d].epoch},
             ClaimsAt(d, t, s, e)
      PROVE  IssuedTo(s) = e /\ LivedBy(s) < e
  <2>1. e \in EpochsIn(transfers, s, IssuedOutcomes)
    BY <1>0, <1>5 DEF ClaimsIssued
  <2>2. \A x \in EpochsIn(transfers, s, LivedOutcomes) : x < e
    BY <1>0, <1>5 DEF ClaimsUnlived
  <2>3. \A c \in Bodies, u \in Transfers :
           transfers[c][u].outcome \in IssuedOutcomes /\ transfers[c][u].selfId = s
              => transfers[c][u].epoch <= e
    BY <1>0, <1>2, <1>5 DEF Topped, ClaimsTop, Above, Lived
  <2>4. IssuedTo(s) = e
    BY <1>1, <2>1, <2>3, IssuedIs
  <2>5. \A c \in Bodies, u \in Transfers :
           transfers[c][u].outcome \in LivedOutcomes /\ transfers[c][u].selfId = s
              => transfers[c][u].epoch < e
    BY <1>2, <2>2, EpochsAre
  <2>6. e \in Nat /\ e > 0
    BY <2>1, <2>2, EpochsAre
  <2>7. LivedBy(s) < e
    BY <1>1, <2>5, <2>6, LivedIsBelow
  <2>. QED BY <2>4, <2>7
<1>. QED BY <1>3, <1>4, <1>5

\* The same after a step.
LEMMA StandsNext == AuthorityInv' => StandsAt'
  BY StandsNow, PTL

-----------------------------------------------------------------------------
(* What a step leaves alone.                                               *)

\* No body that carries o starts or stops being active.
NoTurn(o) ==
    \A b \in Bodies :
        Self(b) = o => (state'[b] = "active" <=> state[b] = "active")

\* Who holds o changes only with a turn of a body that carries it.
LEMMA HoldersStay ==
  ASSUME OutcomesInv, [Next]_vars, NEW o \in Selves, o \notin forced', NoTurn(o)
  PROVE  HoldersOf(o)' = HoldersOf(o)
<1>0. IInv /\ TypeOK /\ BootOK
  BY DEF OutcomesInv, IInv
<1>1. ASSUME NEW b \in Bodies, Active(b, o)'
      PROVE  Active(b, o)
  <2>1. CASE selfId'[b] = selfId[b]
    BY <1>1, <2>1 DEF Active, Self, NoTurn
  <2>2. ASSUME NEW t \in Transfers, NEW d \in Bodies, Freeze(b, t, d)
        PROVE  FALSE
    BY <1>0, <1>1, <2>2, FreezeEffect DEF Active
  <2>3. ASSUME NEW t \in Transfers, Apply(b, t)
        PROVE  FALSE
    BY <1>0, <1>1, <2>3, ApplyEffect DEF Active
  <2>4. ASSUME \/ \E t \in Transfers : Release(b, t) \/ Abort(b, t)
               \/ Reclaim(b) \/ BootActivate(b)
        PROVE  selfId'[b] = selfId[b]
    BY <2>4 DEF Release, Abort, Reclaim, BootActivate
  <2>. QED BY <1>0, <2>1, <2>2, <2>3, <2>4, OnlyTurns DEF Turns
<1>2. ASSUME NEW b \in Bodies, Active(b, o)
      PROVE  Active(b, o)'
  <2>0. state'[b] = "active"
    BY <1>2 DEF Active, NoTurn
  <2>1. CASE selfId'[b] = selfId[b]
    BY <1>2, <2>0, <2>1 DEF Active, Self
  <2>2. ASSUME NEW t \in Transfers,
               (\E d \in Bodies : Freeze(b, t, d)) \/ Apply(b, t)
        PROVE  FALSE
    BY <1>0, <2>0, <2>2, FreezeEffect, ApplyEffect
  <2>3. ASSUME \/ \E t \in Transfers : Release(b, t) \/ Abort(b, t)
               \/ Reclaim(b) \/ BootActivate(b)
        PROVE  selfId'[b] = selfId[b]
    BY <2>3 DEF Release, Abort, Reclaim, BootActivate
  <2>. QED BY <1>0, <2>1, <2>2, <2>3, OnlyTurns DEF Turns
<1>. QED BY <1>1, <1>2 DEF HoldersOf

\* A number of o is issued only by a freeze of o.
LEMMA IssuedStay ==
  ASSUME OutcomesInv, OutcomesInv', [Next]_vars, NEW o \in Selves,
         \A b \in Bodies, t \in Transfers, d \in Bodies :
            Active(b, o) => ~Freeze(b, t, d)
  PROVE  IssuedTo(o)' = IssuedTo(o)
<1>0. IInv /\ FrozenOK /\ TypeOK /\ TypeOK'
  BY DEF OutcomesInv, IInv
<1>1. ASSUME NEW x \in EpochsIn(transfers', o, IssuedOutcomes)
      PROVE  x \in EpochsIn(transfers, o, IssuedOutcomes)
  <2>1. CASE x = 0
    BY <2>1, EpochsAre
  <2>2. ASSUME NEW c \in Bodies, NEW u \in Transfers,
               transfers'[c][u].outcome \in IssuedOutcomes,
               transfers'[c][u].selfId = o, transfers'[c][u].epoch = x
        PROVE  x \in EpochsIn(transfers, o, IssuedOutcomes)
    <3>1. Lived(c, u, o)'
      BY <2>2 DEF Lived, Held, IssuedOutcomes
    <3>2. Lived(c, u, o) /\ transfers'[c][u].epoch = transfers[c][u].epoch
      BY <1>0, <2>2, <3>1, LivedFrom DEF IssuedOutcomes
    <3>3. transfers[c][u].outcome # "applied"
      BY <1>0, <2>2, EndsAreFinal DEF IssuedOutcomes
    <3>4. transfers[c][u].outcome \in IssuedOutcomes /\ transfers[c][u].selfId = o
      BY <3>2, <3>3 DEF Lived, Held, IssuedOutcomes
    <3>5. x \in Nat
      BY EpochsAre
    <3>. QED BY <2>2, <3>2, <3>4, <3>5, EpochsAre
  <2>. QED BY <2>1, <2>2, EpochsAre
<1>2. EpochsIn(transfers', o, IssuedOutcomes) = EpochsIn(transfers, o, IssuedOutcomes)
  BY <1>0, <1>1, EpochsStay
<1>. QED BY <1>0, <1>2, MaximaNow, MaximaNext DEF Maxima

\* A number of o is lived through only when a body becomes active as o.
LEMMA LivedStay ==
  ASSUME OutcomesInv, OutcomesInv', [Next]_vars, NEW o \in Selves,
         \A b \in Bodies :
            Self(b) = o /\ state'[b] = "active" => state[b] = "active"
  PROVE  LivedBy(o)' = LivedBy(o)
<1>0. IInv /\ FrozenOK /\ TypeOK /\ TypeOK' /\ BootOK
  BY DEF OutcomesInv, IInv
<1>1. ASSUME NEW x \in EpochsIn(transfers', o, LivedOutcomes)
      PROVE  x \in EpochsIn(transfers, o, LivedOutcomes)
  <2>1. CASE x = 0
    BY <2>1, EpochsAre
  <2>2. ASSUME NEW c \in Bodies, NEW u \in Transfers,
               transfers'[c][u].outcome \in LivedOutcomes,
               transfers'[c][u].selfId = o, transfers'[c][u].epoch = x
        PROVE  x \in EpochsIn(transfers, o, LivedOutcomes)
    <3>1. x \in Nat
      BY EpochsAre
    <3>2. CASE transfers'[c][u] = transfers[c][u]
      BY <2>2, <3>1, <3>2, EpochsAre
    <3>3. ASSUME Abort(c, u), Self(c) = o
          PROVE  FALSE
      <4>1. state'[c] = "active" /\ state[c] = "frozen"
        BY <1>0, <3>3, AbortEffect DEF FrozenSource
      <4>. QED BY <3>3, <4>1
    <3>4. ASSUME BootActivate(c), Self(c) = o
          PROVE  FALSE
      <4>1. state'[c] = "active" /\ state[c] = "frozen"
        BY <1>0, <3>4, BootActivateEffect DEF Applying
      <4>. QED BY <3>4, <4>1
    <3>. QED BY <1>0, <2>2, <3>2, <3>3, <3>4, LivedThroughFrom
  <2>. QED BY <2>1, <2>2, EpochsAre
<1>2. EpochsIn(transfers', o, LivedOutcomes) = EpochsIn(transfers, o, LivedOutcomes)
  BY <1>0, <1>1, EpochsStay
<1>. QED BY <1>0, <1>2, MaximaNow, MaximaNext DEF Maxima

-----------------------------------------------------------------------------
(* The refinement.                                                         *)

Stays(o) ==
    /\ HoldersOf(o)' = HoldersOf(o)
    /\ IssuedTo(o)' = IssuedTo(o)
    /\ LivedBy(o)' = LivedBy(o)

\* A self that no body turns into or out of stays where it is.
LEMMA StepStays ==
  ASSUME OutcomesInv, OutcomesInv', [Next]_vars,
         NEW o \in Selves, o \notin forced', NoTurn(o)
  PROVE  Stays(o)
<1>0. TypeOK
  BY DEF OutcomesInv, IInv
<1>1. ASSUME NEW b \in Bodies, NEW t \in Transfers, NEW d \in Bodies,
             Active(b, o), Freeze(b, t, d)
      PROVE  FALSE
  BY <1>0, <1>1, FreezeEffect DEF NoTurn, Active
<1>. QED BY <1>1, HoldersStay, IssuedStay, LivedStay DEF Stays, NoTurn

\* A step of b's own leaves every self but b's where it is.
LEMMA OthersStay ==
  ASSUME OutcomesInv, OutcomesInv', [Next]_vars,
         NEW b \in Bodies, NEW t \in Transfers, Elsewhere(b, t),
         NEW o \in Selves, o \notin forced', o # Self(b)
  PROVE  Stays(o)
<1>1. NoTurn(o)
  BY DEF NoTurn, Elsewhere
<1>. QED BY <1>1, StepStays

\* The four ways in which a self moves, as a move of SelfAuthority.
Departs(s) ==
    /\ \E b \in Bodies : HoldersOf(s) = {b}
    /\ HoldersOf(s)' = {}
    /\ IssuedTo(s)' = IssuedTo(s) + 1
    /\ LivedBy(s)' = LivedBy(s)

Arrives(s) ==
    /\ HoldersOf(s) = {}
    /\ \E b \in Bodies : HoldersOf(s)' = {b}
    /\ IssuedTo(s)' = IssuedTo(s)
    /\ LivedBy(s) < IssuedTo(s)
    /\ LivedBy(s)' = IssuedTo(s)

Displaces(s) ==
    /\ \E b \in Bodies : HoldersOf(s) = {b}
    /\ HoldersOf(s)' = {}
    /\ IssuedTo(s)' = IssuedTo(s)
    /\ LivedBy(s)' = LivedBy(s)

\* A holder that stops being active leaves nobody behind that is.
LEMMA HolderLeaves ==
  ASSUME OutcomesInv, NEW s \in Selves \ forced, NEW b \in Bodies,
         NEW t \in Transfers, Active(b, s), Elsewhere(b, t), state'[b] # "active"
  PROVE  HoldersOf(s) = {b} /\ HoldersOf(s)' = {}
<1>0. Fenced(s)
  BY DEF OutcomesInv, IInv
<1>1. HoldersOf(s) = {b}
  BY <1>0 DEF HoldersOf, Fenced
<1>2. ASSUME NEW c \in Bodies, Active(c, s)'
      PROVE  FALSE
  <2>1. c # b
    BY <1>2 DEF Active
  <2>2. Active(c, s)
    BY <1>2, <2>1 DEF Elsewhere, Active, Self
  <2>. QED BY <1>0, <2>1, <2>2 DEF Fenced
<1>. QED BY <1>1, <1>2 DEF HoldersOf

\* A body that becomes active as s, when nobody is, holds it alone.
LEMMA HolderComes ==
  ASSUME NEW s \in Selves, NEW b \in Bodies, NEW t \in Transfers,
         \A c \in Bodies : ~Active(c, s), Active(b, s)', Elsewhere(b, t)
  PROVE  HoldersOf(s) = {} /\ HoldersOf(s)' = {b}
<1>1. ASSUME NEW c \in Bodies, c # b
      PROVE  ~Active(c, s)'
  BY <1>1 DEF Elsewhere, Active, Self
<1>. QED BY <1>1 DEF HoldersOf

\* A freeze is a departure.
LEMMA FreezeDeparts ==
  ASSUME AuthorityInv, AuthorityInv', [Next]_vars,
         NEW b \in Bodies, NEW t \in Transfers, NEW d \in Bodies,
         NEW s \in Selves \ forced, Self(b) = s, Freeze(b, t, d)
  PROVE  Departs(s)
<1>0. /\ OutcomesInv /\ OutcomesInv' /\ IInv /\ FrozenOK /\ TypeOK /\ TypeOK'
      /\ Topped(s) /\ Fenced(s)
  BY DEF AuthorityInv, HeldInv, OutcomesInv, IInv
<1>1. /\ Elsewhere(b, t) /\ state'[b] = "frozen" /\ transferId'[b] = t
      /\ transfers'[b][t].outcome = "frozen"
      /\ selfId'[b] = s
  BY <1>0, FreezeEffect
<1>2. Active(b, s)
  BY DEF Freeze, Active
<1>3. /\ epoch'[b] = epoch[b] + 1 /\ epoch[b] \in Nat
      /\ transfers'[b][t].selfId = s
      /\ transfers'[b][t].epoch = epoch[b] + 1
  BY <1>0 DEF Freeze, NextEpoch, TypeOK
<1>4. IssuedTo(s) = epoch[b]
  BY <1>0, <1>2, StandsNow DEF StandsAt
<1>5. IssuedTo(s)' = epoch[b] + 1
  <2>1. epoch[b] + 1 \in EpochsIn(transfers', s, IssuedOutcomes)
    BY <1>1, <1>3, EpochsAre DEF IssuedOutcomes
  <2>2. ASSUME NEW c \in Bodies, NEW u \in Transfers,
               transfers'[c][u].outcome \in IssuedOutcomes,
               transfers'[c][u].selfId = s
        PROVE  transfers'[c][u].epoch <= epoch[b] + 1
    <3>1. Lived(c, u, s)'
      BY <2>2 DEF Lived, Held, IssuedOutcomes
    <3>2. CASE Lived(c, u, s) /\ transfers'[c][u].epoch = transfers[c][u].epoch
      <4>1. transfers[c][u].epoch <= epoch[b] /\ transfers[c][u].epoch \in Nat
        BY <1>0, <1>2, <3>2 DEF Topped, ActiveTop, TypeOK, TransferRecord
      <4>. QED BY <1>3, <3>2, <4>1
    <3>3. CASE Active(c, s) /\ transferId'[c] = u
      <4>1. c = b /\ u = t
        BY <1>0, <1>1, <1>2, <3>3 DEF Fenced
      <4>. QED BY <1>3, <4>1
    <3>4. ~Claims(c, u, s)
      BY <1>0, <1>2 DEF Fenced
    <3>. QED BY <1>0, <3>1, <3>2, <3>3, <3>4, LivedFrom
  <2>3. Max(EpochsIn(transfers', s, IssuedOutcomes)) = epoch[b] + 1
    BY <2>1, <2>2, IssuedIs
  <2>. QED BY <1>0, <2>3, MaximaNext DEF Maxima, Selves
<1>6. LivedBy(s)' = LivedBy(s)
  <2>1. ASSUME NEW c \in Bodies, Self(c) = s, state'[c] = "active"
        PROVE  state[c] = "active"
    BY <1>1, <2>1 DEF Elsewhere
  <2>. QED BY <1>0, <2>1, LivedStay
<1>7. HoldersOf(s) = {b} /\ HoldersOf(s)' = {}
  BY <1>0, <1>1, <1>2, HolderLeaves
<1>. QED BY <1>4, <1>5, <1>6, <1>7 DEF Departs

\* An abort is an arrival, back where the self came from.
LEMMA AbortArrives ==
  ASSUME AuthorityInv, AuthorityInv', [Next]_vars,
         NEW b \in Bodies, NEW t \in Transfers,
         NEW s \in Selves \ forced', Self(b) = s, Abort(b, t)
  PROVE  Arrives(s)
<1>0. /\ OutcomesInv /\ OutcomesInv' /\ IInv /\ TypeOK /\ Fenced(s)
      /\ s \in Selves \ forced
  BY GhostsGrow DEF AuthorityInv, HeldInv, OutcomesInv, IInv
<1>1. /\ Pending(b, t, s) /\ epoch' = epoch
      /\ state'[b] = "active" /\ selfId'[b] = selfId[b] /\ Elsewhere(b, t)
  BY <1>0, AbortPends, AbortEffect
<1>2. \A c \in Bodies : ~Active(c, s)
  BY <1>0, <1>1 DEF Fenced
<1>3. Active(b, s)'
  BY <1>1 DEF Active, Self
<1>4. HoldersOf(s) = {} /\ HoldersOf(s)' = {b}
  BY <1>0, <1>1, <1>2, <1>3, HolderComes
<1>5. IssuedTo(s) = epoch[b] /\ LivedBy(s) < epoch[b]
  BY <1>0, <1>1, StandsNow DEF StandsAt
<1>6. IssuedTo(s)' = epoch'[b] /\ LivedBy(s)' = epoch'[b]
  BY <1>0, <1>3, StandsNext DEF StandsAt, Selves
<1>. QED BY <1>1, <1>4, <1>5, <1>6 DEF Arrives

\* A boot that finishes an apply is an arrival.
LEMMA ActivationArrives ==
  ASSUME AuthorityInv, AuthorityInv', [Next]_vars,
         NEW b \in Bodies,
         NEW s \in Selves \ forced', Self(b) = s, BootActivate(b)
  PROVE  /\ Arrives(s)
         /\ \E t \in Transfers : Elsewhere(b, t)
<1>0. /\ OutcomesInv /\ OutcomesInv' /\ IInv /\ TypeOK /\ BootOK /\ RecordsOK
      /\ Fenced(s) /\ s \in Selves \ forced
  BY GhostsGrow DEF AuthorityInv, HeldInv, OutcomesInv, IInv
<1>1. PICK t \in Transfers :
         /\ Applying(b, t) /\ Elsewhere(b, t)
         /\ selfId'[b] = selfId[b] /\ state'[b] = "active"
  BY <1>0, BootActivateEffect
<1>2. /\ transferId[b] = t /\ selfId[b] = transfers[b][t].selfId
      /\ transfers[b][t].outcome = "applying"
      /\ transfers[b][t].selfId \in Selves
  BY <1>0, <1>1 DEF Applying, BootOK, RecordsOK, WellFormed
<1>3. transfers[b][t].selfId = s
  BY <1>2, SelvesAssumption DEF Self, Selves
<1>4. ClaimsAt(b, t, s, transfers[b][t].epoch) /\ Claims(b, t, s)
  BY <1>2, <1>3 DEF ClaimsAt, Claims
<1>5. epoch'[b] = transfers[b][t].epoch
  BY <1>0, <1>2 DEF BootActivate, TypeOK
<1>6. \A c \in Bodies : ~Active(c, s)
  BY <1>0, <1>4 DEF Fenced
<1>7. Active(b, s)'
  BY <1>1 DEF Active, Self
<1>8. HoldersOf(s) = {} /\ HoldersOf(s)' = {b}
  BY <1>0, <1>1, <1>6, <1>7, HolderComes
<1>9. IssuedTo(s) = epoch'[b] /\ LivedBy(s) < epoch'[b]
  BY <1>0, <1>4, <1>5, StandsNow DEF StandsAt
<1>10. IssuedTo(s)' = epoch'[b] /\ LivedBy(s)' = epoch'[b]
  BY <1>0, <1>7, StandsNext DEF StandsAt, Selves
<1>11. Arrives(s)
  BY <1>8, <1>9, <1>10 DEF Arrives
<1>. QED BY <1>1, <1>11

\* An apply over an active self displaces that self.
LEMMA ApplyDisplaces ==
  ASSUME AuthorityInv, AuthorityInv', [Next]_vars,
         NEW b \in Bodies, NEW t \in Transfers,
         NEW s \in Selves \ forced, Active(b, s), Apply(b, t)
  PROVE  Displaces(s)
<1>0. /\ OutcomesInv /\ OutcomesInv' /\ IInv /\ TypeOK /\ Fenced(s)
  BY DEF AuthorityInv, HeldInv, OutcomesInv, IInv
<1>1. /\ Elsewhere(b, t) /\ state'[b] = "frozen" /\ transferId'[b] = t
      /\ transfers'[b][t].role = "destination"
  BY <1>0, ApplyEffect
<1>3. HoldersOf(s) = {b} /\ HoldersOf(s)' = {}
  BY <1>0, <1>1, HolderLeaves
<1>4. ASSUME NEW c \in Bodies, NEW u \in Transfers, NEW d \in Bodies,
             Active(c, s), Freeze(c, u, d)
      PROVE  FALSE
  <2>1. c = b
    BY <1>0, <1>4 DEF Fenced
  <2>2. transferId'[b] = u /\ transfers'[b][u].role = "source"
    BY <1>0, <1>4, <2>1, FreezeEffect
  <2>. QED BY <1>1, <2>2
<1>5. IssuedTo(s)' = IssuedTo(s)
  BY <1>0, <1>4, IssuedStay
<1>6. ASSUME NEW c \in Bodies, Self(c) = s, state'[c] = "active"
      PROVE  state[c] = "active"
  BY <1>1, <1>6 DEF Elsewhere
<1>7. LivedBy(s)' = LivedBy(s)
  BY <1>0, <1>6, LivedStay
<1>. QED BY <1>3, <1>5, <1>7 DEF Displaces

\* Every step moves one self that nobody forced, or none.
LEMMA StepMoves ==
  ASSUME AuthorityInv, AuthorityInv', [Next]_vars
  PROVE  \/ \A o \in Selves \ forced' : Stays(o)
         \/ \E s \in Selves \ forced :
               /\ forced' = forced
               /\ Departs(s) \/ Arrives(s) \/ Displaces(s)
               /\ \A o \in Selves \ forced' : o # s => Stays(o)
<1>0. /\ OutcomesInv /\ OutcomesInv' /\ IInv /\ TypeOK /\ BootOK
      /\ forced \subseteq forced'
  BY GhostsGrow DEF AuthorityInv, HeldInv, OutcomesInv, IInv
<1>1. CASE \A o \in Selves \ forced' : NoTurn(o)
  BY <1>0, <1>1, StepStays
<1>2. ASSUME NEW s \in Selves \ forced', NEW b \in Bodies, Self(b) = s,
             ~(state'[b] = "active" <=> state[b] = "active")
      PROVE  \E r \in Selves \ forced :
               /\ forced' = forced
               /\ Departs(r) \/ Arrives(r) \/ Displaces(r)
               /\ \A o \in Selves \ forced' : o # r => Stays(o)
  <2>0. s \in Selves \ forced
    BY <1>0
  <2>1. ASSUME NEW t \in Transfers, Elsewhere(b, t)
        PROVE  \A o \in Selves \ forced' : o # s => Stays(o)
    BY <1>0, <1>2, <2>1, OthersStay
  <2>2. ASSUME NEW t \in Transfers, NEW d \in Bodies, Freeze(b, t, d)
        PROVE  forced' = forced /\ Departs(s) /\ Elsewhere(b, t)
    <3>1. forced' = forced
      BY <2>2 DEF Freeze, ghostVars
    <3>. QED BY <1>0, <1>2, <2>0, <2>2, <3>1, FreezeDeparts, FreezeEffect
  <2>3. ASSUME NEW t \in Transfers, Release(b, t)
        PROVE  FALSE
    BY <1>0, <1>2, <2>3, ReleaseEffect DEF FrozenSource
  <2>4. ASSUME NEW t \in Transfers, Abort(b, t)
        PROVE  forced' = forced /\ Arrives(s) /\ Elsewhere(b, t)
    <3>1. forced' = forced
      BY <2>4 DEF Abort, ghostVars
    <3>. QED BY <1>0, <1>2, <2>4, <3>1, AbortArrives, AbortEffect
  <2>5. ASSUME NEW t \in Transfers, Apply(b, t)
        PROVE  forced' = forced /\ Displaces(s) /\ Elsewhere(b, t)
    <3>1. forced' = forced /\ Active(b, s)
      BY <1>0, <1>2, <2>5, ApplyEffect DEF Apply, Active
    <3>. QED BY <1>0, <1>2, <2>0, <2>5, <3>1, ApplyDisplaces, ApplyEffect
  <2>6. ~Reclaim(b)
    BY <1>2 DEF Reclaim
  <2>7. ASSUME BootActivate(b)
        PROVE  /\ forced' = forced /\ Arrives(s)
               /\ \E t \in Transfers : Elsewhere(b, t)
    <3>1. forced' = forced
      BY <2>7 DEF BootActivate, ghostVars
    <3>. QED BY <1>2, <2>7, <3>1, ActivationArrives
  <2>8. Turns(b)
    BY <1>0, <1>2, OnlyTurns
  <2>. QED BY <2>0, <2>1, <2>2, <2>3, <2>4, <2>5, <2>6, <2>7, <2>8 DEF Turns
<1>. QED BY <1>1, <1>2 DEF NoTurn

\* Every step of every transfer, however the steps of two bodies interleave,
\* stop and repeat, is to SelfAuthority a departure, an arrival or a
\* displacement of one self, or moves only selves an owner has forced.
THEOREM ImplementsAuthority == Spec => ImplementsSelfAuthority
<1>1. AuthorityInv /\ Init => Authority!Init
  <2> SUFFICES ASSUME AuthorityInv, Init PROVE Authority!Init
    OBVIOUS
  <2>1. forced = {} /\ \A b \in Bodies : epoch[b] = 0 /\ Active(b, b)
    BY DEF Init, Active, Self
  <2>2. ASSUME NEW s \in Selves
        PROVE  /\ HoldersOf(s) = {s}
               /\ IssuedTo(s) = 0 /\ LivedBy(s) = 0
    <3>1. s \in Bodies /\ Active(s, s)
      BY <2>1 DEF Selves
    <3>2. Fenced(s)
      BY <2>1 DEF AuthorityInv, HeldInv, OutcomesInv, IInv
    <3>3. HoldersOf(s) = {s}
      BY <3>1, <3>2 DEF HoldersOf, Fenced
    <3>. QED BY <2>1, <3>1, <3>3, StandsNow DEF StandsAt
  <2>. QED BY <2>1, <2>2 DEF Authority!Init, Authority!Selves, Selves
<1>2. AuthorityInv /\ AuthorityInv' /\ [Next]_vars =>
          [Authority!Next]_(Authority!vars)
  <2> SUFFICES ASSUME AuthorityInv, AuthorityInv', [Next]_vars
               PROVE  Authority!Next
    OBVIOUS
  <2>1. CASE \A o \in Selves \ forced' : Stays(o)
    <3>1. Authority!Force
      BY <2>1, GhostsGrow DEF Authority!Force, Authority!Selves, Selves, Stays
    <3>. QED BY <3>1 DEF Authority!Next
  <2>2. ASSUME NEW s \in Selves \ forced, forced' = forced,
               Departs(s) \/ Arrives(s) \/ Displaces(s),
               \A o \in Selves \ forced' : o # s => Stays(o)
        PROVE  Authority!Next
    <3>1. Authority!OnlyMoves(s)
      BY <2>2 DEF Authority!OnlyMoves, Authority!Selves, Selves, Stays
    <3>2. Authority!Depart(s) \/ Authority!Arrive(s) \/ Authority!Displace(s)
      BY <2>2 DEF Authority!Depart, Authority!Arrive, Authority!Displace,
         Authority!Selves, Selves, Departs, Arrives, Displaces
    <3>3. Authority!Move
      BY <2>2, <3>1, <3>2 DEF Authority!Move, Authority!Selves, Selves
    <3>. QED BY <3>3 DEF Authority!Next
  <2>. QED BY <2>1, <2>2, StepMoves
<1>. QED BY <1>1, <1>2, AuthorityInvariance, PTL
         DEF Spec, ImplementsSelfAuthority, Authority!Spec

=============================================================================
