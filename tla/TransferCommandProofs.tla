----------------------- MODULE TransferCommandProofs -----------------------
(***************************************************************************)
(* For any bodies, routes and faults: the owner's two commands drive the   *)
(* bodies only through the steps of BodyTransfer, so what is proved of     *)
(* those holds under the commands, and what the commands report of one     *)
(* transfer agrees with the records of both its bodies.                    *)
(***************************************************************************)
EXTENDS TransferCommand, BodyTransferProofs

-----------------------------------------------------------------------------
(* Each step of a command is a step of the bodies, or leaves them alone.   *)

LEMMA Routes ==
  \A t \in Transfers : From[t] \in Bodies /\ To[t] \in Bodies /\ From[t] # To[t]
  BY RoutesAssumption

LEMMA MovesAreSteps ==
  ASSUME NEW t \in Transfers, MoveStarts(t) \/ MoveStep(t) \/ TimesOut(t)
  PROVE  [Next]_vars
<1>1. From[t] \in Bodies /\ To[t] \in Bodies /\ Replace \in BOOLEAN
  BY RoutesAssumption
<1>2. CASE \/ MoveStarts(t) \/ TimesOut(t) \/ SeesDormant(t) \/ Unanswered(t)
  BY <1>2 DEF MoveStarts, TimesOut, SeesDormant, Unanswered, Refused
<1>3. CASE AsksFreeze(t) \/ Downloads(t) \/ AsksRelease(t)
  BY <1>1, <1>3 DEF AsksFreeze, Downloads, AsksRelease, Refused, Next
<1>4. CASE Stages(t)
  BY <1>1, <1>4 DEF Stages, Refused, Next
<1>5. CASE IsStaged(t) \/ AsksApply(t) \/ SeesActive(t) \/ AsksApplyAgain(t)
  BY <1>1, <1>5 DEF IsStaged, AsksApply, SeesActive, AsksApplyAgain, Refused, Next
<1>. QED BY <1>2, <1>3, <1>4, <1>5 DEF MoveStep

LEMMA UndosAreSteps ==
  ASSUME NEW t \in Transfers, UndoStarts(t) \/ UndoStep(t)
  PROVE  [Next]_vars
<1>1. From[t] \in Bodies /\ To[t] \in Bodies
  BY Routes
<1>. QED BY <1>1 DEF UndoStarts, UndoStep, AsksDiscard, AsksAbort, UndoUnanswered, Next

LEMMA FaultsAreSteps ==
  ASSUME NEW t \in Transfers,
         LosesCall(t) \/ LosesStage(t) \/ GivesUpStage(t) \/ LosesUndo(t)
  PROVE  [Next]_vars
<1>1. From[t] \in Bodies /\ To[t] \in Bodies
  BY Routes
<1>2. CASE LosesCall(t)
  BY <1>1, <1>2 DEF LosesCall, Next
<1>3. CASE LosesStage(t) \/ GivesUpStage(t) \/ LosesUndo(t)
  BY <1>1, <1>3 DEF LosesStage, GivesUpStage, LosesUndo, Next
<1>. QED BY <1>2, <1>3

LEMMA ComingsAndGoingsAreSteps ==
  ASSUME NEW b \in Bodies, Crash(b) \/ ShutsDown(b) \/ Boots(b) \/ FailsToBoot(b)
  PROVE  [Next]_vars
  BY DEF Crash, ShutsDown, Boots, FailsToBoot, Next

LEMMA CommandsAreSteps == [CommandNext]_allVars => [Next]_vars
<1>1. CommandNext => [Next]_vars
  BY MovesAreSteps, UndosAreSteps, FaultsAreSteps, ComingsAndGoingsAreSteps DEF CommandNext
<1>2. UNCHANGED allVars => UNCHANGED vars
  BY DEF allVars
<1>. QED BY <1>1, <1>2

-----------------------------------------------------------------------------
(* The invariant.                                                          *)

CommandTypeOK ==
    /\ faults \in 0..MaxFaults
    /\ seen \in [Transfers -> {"none", "frozen", "released", "aborted",
                               "staged", "applying", "applied", "burned"}]
    /\ move \in [Transfers -> {"idle", "freeze", "waitDormant", "download", "stage", "staging",
                               "apply", "waitActive", "release", "done", "failed"}]
    /\ undo \in [Transfers -> {"idle", "discard", "abort", "done", "failed"}]

\* A source froze for the destination its command names.
RoutesOK == \A t \in Transfers : Out(t).role = "source" => Out(t).peer = To[t]

\* What is done is on record at the source.
ReportsOK ==
    \A t \in Transfers :
        /\ move[t] = "done" => Out(t).outcome = "released"
        /\ undo[t] = "done" => Out(t).outcome = "aborted"

\* No command reclaims.
NoneForced == forced = {}

CommandInv == OutcomesInv /\ CommandTypeOK /\ RoutesOK /\ ReportsOK /\ NoneForced

LEMMA InitCommand == CommandInit => CommandInv
<1> SUFFICES ASSUME CommandInit PROVE CommandInv
  OBVIOUS
<1>1. OutcomesInv
  BY InitOutcomes DEF CommandInit
<1>2. CommandTypeOK /\ ReportsOK
  BY RoutesAssumption DEF CommandInit, CommandTypeOK, ReportsOK
<1>3. RoutesOK /\ NoneForced
  BY Routes DEF CommandInit, Init, RoutesOK, NoneForced, Out, NoRecord
<1>. QED BY <1>1, <1>2, <1>3 DEF CommandInv

LEMMA CommandTypes == TypeOK /\ CommandTypeOK /\ [CommandNext]_allVars => CommandTypeOK'
<1> SUFFICES ASSUME TypeOK, CommandTypeOK, [CommandNext]_allVars PROVE CommandTypeOK'
  OBVIOUS
<1>1. CASE UNCHANGED allVars
  BY <1>1 DEF allVars, cmdVars, CommandTypeOK
<1>2. ASSUME NEW t \in Transfers, MoveStarts(t) PROVE CommandTypeOK'
  <2>1. In(t).outcome \in {"none", "frozen", "released", "aborted",
                           "staged", "applying", "applied", "burned"}
    BY Routes DEF TypeOK, TransferRecord, In
  <2>. QED BY <1>2, <2>1 DEF CommandTypeOK, MoveStarts, AfterFreeze
<1>6. ASSUME NEW t \in Transfers, MoveStep(t) \/ TimesOut(t)
      PROVE  CommandTypeOK'
  BY <1>6 DEF CommandTypeOK, AfterFreeze, MoveStep, TimesOut, AsksFreeze, SeesDormant,
       Downloads, Stages, IsStaged, AsksApply, SeesActive, AsksApplyAgain, AsksRelease, Unanswered,
       WithoutAnswer, Refused, Goes, cmdVars
<1>3. ASSUME NEW t \in Transfers, UndoStarts(t) \/ UndoStep(t)
      PROVE  CommandTypeOK'
  BY <1>3 DEF CommandTypeOK, UndoStarts, UndoStep, AsksDiscard, AsksAbort, UndoUnanswered, Undoes
<1>4. ASSUME NEW t \in Transfers,
             LosesCall(t) \/ LosesStage(t) \/ GivesUpStage(t) \/ LosesUndo(t)
      PROVE  CommandTypeOK'
  BY <1>4, RoutesAssumption
     DEF CommandTypeOK, LosesCall, LosesStage, GivesUpStage, LosesUndo, Fault, cmdVars
<1>5. ASSUME NEW b \in Bodies, Crash(b) \/ ShutsDown(b) \/ Boots(b) \/ FailsToBoot(b)
      PROVE  CommandTypeOK'
  BY <1>5, RoutesAssumption
     DEF CommandTypeOK, Crash, ShutsDown, Boots, FailsToBoot, Fault, cmdVars
<1>. QED BY <1>1, <1>2, <1>3, <1>4, <1>5, <1>6 DEF CommandNext

\* The only freezes are those of a command, for the body it names.
LEMMA CommandWrites ==
  ASSUME [CommandNext]_allVars
  PROVE  \/ \E t \in Transfers : Freeze(From[t], t, To[t])
         \/ \E b \in Bodies :
               \/ \E t \in Transfers :
                     Release(b, t) \/ Abort(b, t) \/ Apply(b, t) \/ Discard(b, t)
               \/ StageCommit(b) \/ BootActivate(b)
               \/ Quiet(b)
         \/ UNCHANGED vars
<1> DEFINE Goal == \/ \E t \in Transfers : Freeze(From[t], t, To[t])
                   \/ \E b \in Bodies :
                         \/ \E t \in Transfers :
                               Release(b, t) \/ Abort(b, t) \/ Apply(b, t) \/ Discard(b, t)
                         \/ StageCommit(b) \/ BootActivate(b)
                         \/ Quiet(b)
                   \/ UNCHANGED vars
<1>1. CASE UNCHANGED allVars
  BY <1>1 DEF allVars
<1>2. ASSUME NEW t \in Transfers, MoveStarts(t) \/ MoveStep(t) \/ TimesOut(t)
      PROVE  Goal
  <2>1. From[t] \in Bodies /\ To[t] \in Bodies /\ Replace \in BOOLEAN
    BY RoutesAssumption
  <2>2. CASE \/ MoveStarts(t) \/ TimesOut(t) \/ SeesDormant(t) \/ Unanswered(t)
    BY <2>2 DEF MoveStarts, TimesOut, SeesDormant, Unanswered, Refused
  <2>3. CASE AsksFreeze(t) \/ Downloads(t) \/ AsksRelease(t)
    BY <2>1, <2>3 DEF AsksFreeze, Downloads, AsksRelease, Refused, Quiet
  <2>4. CASE Stages(t)
    BY <2>1, <2>4 DEF Stages, Refused, Quiet
  <2>5. CASE IsStaged(t) \/ AsksApply(t) \/ SeesActive(t) \/ AsksApplyAgain(t)
    BY <2>1, <2>5 DEF IsStaged, AsksApply, SeesActive, AsksApplyAgain, Refused, Quiet
  <2>. QED BY <1>2, <2>2, <2>3, <2>4, <2>5 DEF MoveStep
<1>3. ASSUME NEW t \in Transfers, UndoStarts(t) \/ UndoStep(t)
      PROVE  Goal
  BY <1>3, Routes DEF UndoStarts, UndoStep, AsksDiscard, AsksAbort, UndoUnanswered
<1>4. ASSUME NEW t \in Transfers,
             LosesCall(t) \/ LosesStage(t) \/ GivesUpStage(t) \/ LosesUndo(t)
      PROVE  Goal
  <2>1. From[t] \in Bodies /\ To[t] \in Bodies
    BY Routes
  <2>2. CASE LosesCall(t)
    BY <2>1, <2>2 DEF LosesCall, Quiet
  <2>3. CASE LosesStage(t) \/ GivesUpStage(t) \/ LosesUndo(t)
    BY <2>1, <2>3 DEF LosesStage, GivesUpStage, LosesUndo, Quiet
  <2>. QED BY <1>4, <2>2, <2>3
<1>5. ASSUME NEW b \in Bodies, Crash(b) \/ ShutsDown(b) \/ Boots(b) \/ FailsToBoot(b)
      PROVE  Goal
  BY <1>5 DEF Crash, ShutsDown, Boots, FailsToBoot, Quiet
<1>. QED BY <1>1, <1>2, <1>3, <1>4, <1>5 DEF CommandNext

\* No other step makes a record a source's, or names another destination in it.
LEMMA SourcesStay ==
  ASSUME TypeOK, StagingOK, BootOK, NEW b \in Bodies,
         \/ \E t \in Transfers :
               Release(b, t) \/ Abort(b, t) \/ Apply(b, t) \/ Discard(b, t)
         \/ StageCommit(b) \/ BootActivate(b)
         \/ Quiet(b),
         NEW c \in Bodies, NEW u \in Transfers, transfers'[c][u].role = "source"
  PROVE  transfers[c][u].role = "source" /\ transfers'[c][u].peer = transfers[c][u].peer
<1>1. CASE \E t \in Transfers : Release(b, t)
  BY <1>1, ReleaseEffect DEF Elsewhere
<1>2. CASE \E t \in Transfers : Abort(b, t)
  <2>1. PICK t \in Transfers :
           /\ Elsewhere(b, t)
           /\ transfers'[b][t].role = transfers[b][t].role
           /\ transfers'[b][t].peer = transfers[b][t].peer
    BY <1>2, AbortEffect
  <2>. QED BY <2>1 DEF Elsewhere
<1>3. CASE \E t \in Transfers : Apply(b, t)
  BY <1>3, ApplyEffect DEF Elsewhere
<1>4. CASE \E t \in Transfers : Discard(b, t)
  BY <1>4, DiscardEffect DEF Elsewhere
<1>5. CASE StageCommit(b)
  <2>1. staging[b].transfer \in Transfers
    BY <1>5 DEF StageCommit, TypeOK, Admission
  <2>. QED BY <1>5, <2>1, StageCommitEffect DEF Elsewhere
<1>6. CASE BootActivate(b)
  <2>1. PICK t \in Transfers :
           /\ Applying(b, t)
           /\ Elsewhere(b, t)
           /\ transfers'[b][t].role = transfers[b][t].role
    BY <1>6, BootActivateEffect
  <2>. QED BY <2>1 DEF Elsewhere, Applying
<1>7. CASE Quiet(b)
  BY <1>7, QuietEffect
<1>. QED BY <1>1, <1>2, <1>3, <1>4, <1>5, <1>6, <1>7

LEMMA StepRoutesOK ==
  ASSUME TypeOK, StagingOK, BootOK, RoutesOK, [CommandNext]_allVars
  PROVE  RoutesOK'
<1> SUFFICES ASSUME NEW u \in Transfers, transfers'[From[u]][u].role = "source"
             PROVE  transfers'[From[u]][u].peer = To[u]
  BY DEF RoutesOK, Out
<1>1. From[u] \in Bodies /\ (transfers[From[u]][u].role = "source"
                               => transfers[From[u]][u].peer = To[u])
  BY Routes DEF RoutesOK, Out
<1>2. ASSUME NEW t \in Transfers, Freeze(From[t], t, To[t])
      PROVE  transfers'[From[u]][u].peer = To[u]
  <2>1. From[t] \in Bodies /\ To[t] \in Bodies
    BY Routes
  <2>2. Elsewhere(From[t], t) /\ transfers'[From[t]][t].peer = To[t]
    BY <1>2, <2>1, FreezeEffect
  <2>3. CASE u = t
    BY <2>2, <2>3
  <2>4. CASE u # t
    BY <1>1, <2>2, <2>4 DEF Elsewhere
  <2>. QED BY <2>3, <2>4
<1>3. ASSUME NEW b \in Bodies,
             \/ \E t \in Transfers :
                   Release(b, t) \/ Abort(b, t) \/ Apply(b, t) \/ Discard(b, t)
             \/ StageCommit(b) \/ BootActivate(b)
             \/ Quiet(b)
      PROVE  transfers'[From[u]][u].peer = To[u]
  BY <1>1, <1>3, SourcesStay
<1>4. CASE UNCHANGED vars
  BY <1>1, <1>4 DEF vars, selfVars
<1>. QED BY <1>2, <1>3, <1>4, CommandWrites

\* A command reports what is on record: what it just did, or what it found.
LEMMA Reports ==
  ASSUME CommandTypeOK, [CommandNext]_allVars, NEW t \in Transfers
  PROVE  /\ move'[t] = "done" => \/ move[t] = "done"
                                 \/ Release(From[t], t)
                                 \/ UNCHANGED vars /\ Out(t).outcome = "released"
         /\ undo'[t] = "done" => undo[t] = "done" \/ Abort(From[t], t)
<1> DEFINE Goal == /\ move'[t] = "done" => \/ move[t] = "done"
                                           \/ Release(From[t], t)
                                           \/ UNCHANGED vars /\ Out(t).outcome = "released"
                   /\ undo'[t] = "done" => undo[t] = "done" \/ Abort(From[t], t)
<1>1. CASE UNCHANGED allVars
  BY <1>1 DEF allVars, cmdVars
<1>2. ASSUME NEW u \in Transfers, MoveStarts(u) \/ MoveStep(u) \/ TimesOut(u)
      PROVE  Goal
  <2>1. CASE AsksRelease(u)
    BY <2>1 DEF AsksRelease, Goes, CommandTypeOK
  <2>2. CASE \/ MoveStarts(u) \/ TimesOut(u) \/ AsksFreeze(u) \/ SeesDormant(u) \/ Downloads(u)
             \/ Stages(u) \/ IsStaged(u)
    BY <2>2 DEF MoveStarts, AfterFreeze, TimesOut, AsksFreeze, SeesDormant, Downloads, Stages,
         IsStaged, Refused, Goes, CommandTypeOK
  <2>3. CASE \/ AsksApply(u) \/ SeesActive(u) \/ AsksApplyAgain(u) \/ Unanswered(u)
    BY <2>3 DEF AsksApply, SeesActive, AsksApplyAgain, Unanswered, WithoutAnswer, Goes,
         cmdVars, CommandTypeOK
  <2>. QED BY <1>2, <2>1, <2>2, <2>3 DEF MoveStep
<1>3. ASSUME NEW u \in Transfers, UndoStarts(u) \/ UndoStep(u)
      PROVE  Goal
  BY <1>3 DEF CommandTypeOK, UndoStarts, UndoStep, AsksDiscard, AsksAbort, UndoUnanswered, Undoes
<1>4. ASSUME NEW u \in Transfers,
             LosesCall(u) \/ LosesStage(u) \/ GivesUpStage(u) \/ LosesUndo(u)
      PROVE  Goal
  BY <1>4 DEF CommandTypeOK, LosesCall, LosesStage, GivesUpStage, LosesUndo, cmdVars
<1>5. ASSUME NEW b \in Bodies, Crash(b) \/ ShutsDown(b) \/ Boots(b) \/ FailsToBoot(b)
      PROVE  Goal
  BY <1>5 DEF CommandTypeOK, Crash, ShutsDown, Boots, FailsToBoot, cmdVars
<1>. QED BY <1>1, <1>2, <1>3, <1>4, <1>5 DEF CommandNext

LEMMA StepReportsOK ==
  ASSUME IInv, FrozenOK, CommandTypeOK, ReportsOK, [CommandNext]_allVars
  PROVE  ReportsOK'
<1> SUFFICES ASSUME NEW t \in Transfers
             PROVE  /\ move'[t] = "done" => transfers'[From[t]][t].outcome = "released"
                    /\ undo'[t] = "done" => transfers'[From[t]][t].outcome = "aborted"
  BY DEF ReportsOK, Out
<1>1. From[t] \in Bodies /\ [Next]_vars /\ TypeOK
  BY Routes, CommandsAreSteps DEF IInv
<1>2. ASSUME transfers[From[t]][t].outcome \in {"released", "aborted"}
      PROVE  transfers'[From[t]][t].outcome = transfers[From[t]][t].outcome
  BY <1>1, <1>2, EndsAreFinal
<1>3. /\ move[t] = "done" => transfers[From[t]][t].outcome = "released"
      /\ undo[t] = "done" => transfers[From[t]][t].outcome = "aborted"
  BY DEF ReportsOK, Out
<1>4. Release(From[t], t) => transfers'[From[t]][t].outcome = "released"
  BY <1>1, ReleaseEffect
<1>5. Abort(From[t], t) => transfers'[From[t]][t].outcome = "aborted"
  BY <1>1, AbortEffect
<1>. QED BY <1>2, <1>3, <1>4, <1>5, Reports DEF Out

LEMMA StepNoneForced ==
  ASSUME NoneForced, [CommandNext]_allVars
  PROVE  NoneForced'
<1>1. forced' = forced
  <2>1. ASSUME NEW t \in Transfers, Freeze(From[t], t, To[t]) PROVE forced' = forced
    BY <2>1 DEF Freeze, ghostVars
  <2>2. ASSUME NEW b \in Bodies, NEW t \in Transfers,
               Release(b, t) \/ Abort(b, t) \/ Apply(b, t) \/ Discard(b, t)
        PROVE  forced' = forced
    BY <2>2 DEF Release, Abort, Apply, Discard, ghostVars
  <2>3. ASSUME NEW b \in Bodies, StageCommit(b) \/ BootActivate(b) \/ Quiet(b)
        PROVE  forced' = forced
    BY <2>3, QuietEffect DEF StageCommit, BootActivate, ghostVars
  <2>4. CASE UNCHANGED vars
    BY <2>4 DEF vars, ghostVars
  <2>. QED BY <2>1, <2>2, <2>3, <2>4, CommandWrites
<1>. QED BY <1>1 DEF NoneForced

LEMMA StepCommand == CommandInv /\ [CommandNext]_allVars => CommandInv'
<1> SUFFICES ASSUME CommandInv, [CommandNext]_allVars PROVE CommandInv'
  OBVIOUS
<1>1. OutcomesInv'
  BY StepOutcomes, CommandsAreSteps DEF CommandInv
<1>2. CommandTypeOK' /\ RoutesOK' /\ ReportsOK' /\ NoneForced'
  BY CommandTypes, StepRoutesOK, StepReportsOK, StepNoneForced DEF CommandInv, OutcomesInv, IInv
<1>. QED BY <1>1, <1>2 DEF CommandInv

-----------------------------------------------------------------------------
(* The theorems.                                                           *)

\* The inductive invariant behind ReportsAgree.
THEOREM CommandInvariance == CommandSpec => []CommandInv
  BY InitCommand, StepCommand, PTL DEF CommandSpec

\* Whatever the two commands do, lose or repeat, and wherever bodies crash,
\* the bodies take only the steps of BodyTransfer: all that is proved of Spec
\* holds while commands run.
THEOREM CommandsDriveBodies == CommandSpec => Spec
<1>1. CommandInit => Init
  BY DEF CommandInit
<1>. QED BY <1>1, CommandsAreSteps, PTL DEF CommandSpec, Spec

\* So the commands, too, hand each self from one body to another as
\* SelfAuthority says, faults and reruns included.
THEOREM CommandsImplementAuthority == CommandSpec => ImplementsSelfAuthority
  BY CommandsDriveBodies, ImplementsAuthority

\* The owner's two commands alone, of which neither reclaims, never leave one
\* self active on two bodies: OneActiveSelf without its exception.
THEOREM CommandsKeepOneSelf ==
  CommandSpec => [](OneActiveSelf /\ Selves \ forced = Selves)
<1>1. CommandInv => Selves \ forced = Selves
  BY DEF CommandInv, NoneForced
<1>2. CommandSpec => []OneActiveSelf
  BY CommandsDriveBodies, OneActive
<1>. QED BY <1>1, <1>2, CommandInvariance, PTL

\* A move is reported done only when the source left a tombstone and the
\* destination applied, an abort only when the source is active again and the
\* destination burned the id: no interleaving of the two commands, of lost
\* calls and of crashes makes a report contradict a record.
THEOREM ReportsNeverContradict == CommandSpec => []ReportsAgree
<1>1. CommandInv => ReportsAgree
  <2> SUFFICES ASSUME CommandInv, NEW t \in Transfers
               PROVE  /\ Out(t).outcome = "released" => In(t).outcome = "applied"
                      /\ Out(t).outcome = "aborted" => In(t).outcome = "burned"
    BY DEF CommandInv, ReportsOK, ReportsAgree
  <2>1. From[t] \in Bodies /\ To[t] \in Bodies
    BY Routes
  <2>2. Out(t).outcome \in {"released", "aborted"} => Out(t).peer = To[t]
    BY <2>1 DEF CommandInv, OutcomesInv, IInv, RecordsOK, WellFormed, RoutesOK, Out
  <2>3. ASSUME Out(t).outcome = "released" PROVE In(t).outcome = "applied"
    <3>1. Answer(From[t], t) \in activations
      BY <2>1, <2>3 DEF CommandInv, OutcomesInv, ReleasedOK, Out
    <3>2. transfers[Answer(From[t], t).body][Answer(From[t], t).transfer].outcome = "applied"
      BY <3>1 DEF CommandInv, OutcomesInv, AnswersOK
    <3>. QED BY <2>2, <2>3, <3>2 DEF Answer, Out, In
  <2>4. ASSUME Out(t).outcome = "aborted" PROVE In(t).outcome = "burned"
    <3>1. <<Out(t).peer, t>> \in burns
      BY <2>1, <2>4 DEF CommandInv, OutcomesInv, AbortedOK, Out
    <3>. QED BY <2>1, <2>2, <2>4, <3>1 DEF CommandInv, OutcomesInv, IInv, BurnsOK, In
  <2>. QED BY <2>3, <2>4
<1>. QED BY <1>1, CommandInvariance, PTL

=============================================================================
