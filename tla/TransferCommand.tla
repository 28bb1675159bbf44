--------------------------- MODULE TransferCommand ---------------------------
(***************************************************************************)
(* `clankie transfer` and `clankie transfer abort` as the owner runs them, *)
(* over the bodies of BodyTransfer: a sequence of calls, each of which may *)
(* be refused, lost on the way or answered into the void, to bodies that   *)
(* restart when a step asks them to and crash when they like.  A command   *)
(* that stops is run again with the same transfer id.                      *)
(***************************************************************************)
EXTENDS BodyTransfer

CONSTANTS
    From, To,    \* per transfer id, the bodies its commands name
    Replace,     \* do the commands say --replace
    Undoable,    \* the transfers the owner may decide to abort
    MaxFaults    \* bound on lost calls, abandoned stages and crashes

ASSUME RoutesAssumption ==
    /\ From \in [Transfers -> Bodies] /\ To \in [Transfers -> Bodies]
    /\ \A t \in Transfers : From[t] # To[t]
    /\ Replace \in BOOLEAN /\ MaxFaults \in Nat
    /\ Undoable \subseteq Transfers

VARIABLES
    move,    \* where the command that moves t is: idle, freeze, waitDormant, download,
             \* stage, staging, apply, waitActive, release, done or failed
    seen,    \* t's outcome in the destination's status when it started
    undo,    \* where the command that aborts t is: idle, discard, abort, done or failed
    faults

cmdVars == <<move, seen, undo, faults>>
allVars == <<vars, cmdVars>>

Out(t) == transfers[From[t]][t]
In(t)  == transfers[To[t]][t]

\* Nothing at the source waits for an answer about t any more.
Settled(t) == Out(t).outcome \in {"released", "aborted"}

CommandInit ==
    /\ Init
    /\ move = [t \in Transfers |-> "idle"]
    /\ seen = [t \in Transfers |-> "none"]
    /\ undo = [t \in Transfers |-> "idle"]
    /\ faults = 0

Goes(t, step) ==
    /\ move' = [move EXCEPT ![t] = step]
    /\ UNCHANGED <<seen, undo, faults>>

Undoes(t, step) ==
    /\ undo' = [undo EXCEPT ![t] = step]
    /\ UNCHANGED <<move, seen, faults>>

\* A call that changed nothing.
Refused(t) == UNCHANGED vars /\ Goes(t, "failed")

-----------------------------------------------------------------------------
(* Moving.                                                                 *)

\* Mutants: a staged bundle is taken for a committed apply; a committed apply is
\* not looked for.
AfterFreezeTrustsStage(outcome) ==
    IF outcome \in {"staged", "applied", "applying"} THEN "waitActive" ELSE "download"
AfterFreezeStartsOver(outcome) == "download"

\* What an earlier run left at the destination decides what is left to do.
AfterFreeze(outcome) ==
    IF outcome \in {"applied", "applying"} THEN "waitActive" ELSE "download"

\* A run begins with the status of both bodies.  The owner moves Clankie once
\* at a time.
MoveStarts(t) ==
    /\ move[t] \in {"idle", "failed"}
    /\ \A u \in Transfers \ {t} : move[u] = "idle" \/ Settled(u)
    /\ Serving(From[t]) /\ Serving(To[t])
    /\ move' = [move EXCEPT ![t] =
                   IF Out(t).role = "none" THEN "freeze"
                   ELSE IF Out(t).role # "source" THEN "failed"
                   ELSE IF Out(t).outcome = "released" THEN AfterFreeze(In(t).outcome)
                   ELSE "waitDormant"]
    /\ seen' = [seen EXCEPT ![t] = In(t).outcome]
    /\ UNCHANGED <<vars, undo, faults>>

AsksFreeze(t) ==
    /\ move[t] = "freeze"
    /\ \/ Freeze(From[t], t, To[t]) /\ Goes(t, "waitDormant")
       \/ /\ Ready(From[t])
          /\ ~(/\ state[From[t]] = "active" /\ proc[From[t]] = "active"
               /\ Serving(To[t]))
          /\ Refused(t)

IsDormantSource(t) ==
    /\ proc[From[t]] = "dormant"
    /\ state[From[t]] = "frozen" /\ transferId[From[t]] = t

SeesDormant(t) ==
    /\ move[t] = "waitDormant"
    /\ IsDormantSource(t)
    /\ UNCHANGED vars
    /\ Goes(t, AfterFreeze(seen[t]))

Downloads(t) ==
    /\ move[t] = "download"
    /\ \/ OutgoingBundle(From[t], t) /\ Goes(t, "stage")
       \/ /\ Ready(From[t])
          /\ ~IsDormantSource(t) \/ Out(t).outcome # "frozen"
          /\ Refused(t)

\* The upload and the stage ask the same of the record; a repeated stage drops
\* what the last one left before it asks the source and itself.
Stages(t) ==
    /\ move[t] = "stage"
    /\ \/ StageBegin(To[t], t, From[t], Replace) /\ Goes(t, "staging")
       \/ /\ Ready(To[t])
          /\ In(t).outcome \notin {"none", "staged"}
          /\ Refused(t)
       \/ /\ ~(Serving(From[t]) /\ FrozenSource(From[t], t)
               /\ Out(t).outcome = "frozen"
               /\ Admits(To[t], selfId[From[t]], epoch[From[t]], Replace))
          /\ \/ StageRefused(To[t], t) /\ Goes(t, "failed")
             \/ Ready(To[t]) /\ In(t).outcome = "none" /\ Refused(t)

IsStaged(t) ==
    /\ move[t] = "staging"
    /\ \/ StageCommit(To[t]) /\ staging[To[t]].transfer = t /\ Goes(t, "apply")
       \/ staging[To[t]].transfer # t /\ Refused(t)

AsksApply(t) ==
    /\ move[t] = "apply"
    /\ \/ Apply(To[t], t) /\ Goes(t, "waitActive")
       \/ /\ Ready(To[t])
          /\ In(t).outcome # "staged" \/ t \notin incoming[To[t]]
          /\ UNCHANGED vars
          /\ Goes(t, IF In(t).outcome \in {"applying", "applied"}
                     THEN "waitActive" ELSE "failed")

\* The status of the activated destination carries its proof.
SeesActive(t) ==
    /\ move[t] = "waitActive"
    /\ transferId[To[t]] = t
    /\ ReadActivation(To[t])
    /\ Goes(t, "release")

\* A destination that is up, not dormant and never committed is asked again; a
\* dormant one is not.
AsksApplyAgain(t) ==
    /\ move[t] = "waitActive"
    /\ proc[To[t]] = "active"
    /\ Apply(To[t], t)
    /\ UNCHANGED cmdVars

AsksRelease(t) ==
    /\ move[t] = "release"
    /\ \/ Release(From[t], t) /\ Goes(t, "done")
       \/ /\ Ready(From[t])
          /\ ~FrozenSource(From[t], t)
          /\ UNCHANGED vars
          /\ Goes(t, IF Out(t).outcome = "released" THEN "done" ELSE "failed")

\* Ten minutes passed and the body is not what the command waits for.
TimesOut(t) ==
    /\ \/ move[t] = "waitDormant" /\ ~IsDormantSource(t)
       \/ /\ move[t] = "waitActive"
          /\ ~(proc[To[t]] = "active" /\ state[To[t]] = "active"
               /\ transferId[To[t]] = t)
    /\ Refused(t)

\* The body the command calls.
Callee(t) ==
    CASE move[t] \in {"freeze", "download", "release"} -> From[t]
      [] move[t] \in {"stage", "staging", "apply"} -> To[t]

\* An apply that is not answered is left to the destination's status.
WithoutAnswer(t) == Goes(t, IF move[t] = "apply" THEN "waitActive" ELSE "failed")

IsCalling(t) == move[t] \in {"freeze", "download", "stage", "staging", "apply",
                             "release"}

\* The body is down: the call fails.
Unanswered(t) ==
    /\ IsCalling(t)
    /\ ~Serving(Callee(t))
    /\ UNCHANGED vars
    /\ WithoutAnswer(t)

MoveStep(t) ==
    \/ AsksFreeze(t) \/ SeesDormant(t) \/ Downloads(t) \/ Stages(t)
    \/ IsStaged(t) \/ AsksApply(t) \/ SeesActive(t) \/ AsksApplyAgain(t)
    \/ AsksRelease(t) \/ Unanswered(t)

-----------------------------------------------------------------------------
(* Aborting.                                                               *)

UndoStarts(t) ==
    /\ t \in Undoable
    /\ undo[t] \in {"idle", "failed"}
    /\ Serving(From[t])
    /\ UNCHANGED vars
    /\ Undoes(t, "discard")

AsksDiscard(t) ==
    /\ undo[t] = "discard"
    /\ \/ Discard(To[t], t) /\ Undoes(t, "abort")
       \/ /\ Ready(To[t])
          /\ In(t).outcome \in {"applying", "applied"}
          /\ UNCHANGED vars /\ Undoes(t, "failed")

\* Mutant: nothing left to abort counts as aborted.
AsksAbortLeniently(t) ==
    /\ undo[t] = "abort"
    /\ \/ Abort(From[t], t) /\ Undoes(t, "done")
       \/ /\ Ready(From[t])
          /\ ~FrozenSource(From[t], t)
          /\ UNCHANGED vars /\ Undoes(t, "done")

AsksAbort(t) ==
    /\ undo[t] = "abort"
    /\ \/ Abort(From[t], t) /\ Undoes(t, "done")
       \/ /\ Ready(From[t])
          /\ ~FrozenSource(From[t], t)
          /\ UNCHANGED vars /\ Undoes(t, "failed")

UndoUnanswered(t) ==
    /\ \/ undo[t] = "discard" /\ ~Serving(To[t])
       \/ undo[t] = "abort" /\ ~Serving(From[t])
    /\ UNCHANGED vars
    /\ Undoes(t, "failed")

UndoStep(t) == AsksDiscard(t) \/ AsksAbort(t) \/ UndoUnanswered(t)

-----------------------------------------------------------------------------
(* Faults, and the bodies' own comings and goings.                         *)

Fault == faults < MaxFaults /\ faults' = faults + 1

\* A call or its answer is lost; the body may have done what was asked.
LosesCall(t) ==
    /\ Fault
    /\ \/ IsCalling(t) /\ UNCHANGED vars
       \/ move[t] = "freeze" /\ Freeze(From[t], t, To[t])
       \/ move[t] = "download" /\ OutgoingBundle(From[t], t)
       \/ move[t] = "apply" /\ Apply(To[t], t)
       \/ move[t] = "release" /\ Release(From[t], t)
    /\ move' = [move EXCEPT ![t] =
                   IF move[t] = "apply" THEN "waitActive" ELSE "failed"]
    /\ UNCHANGED <<seen, undo>>

\* The command is gone, but the stage it asked for runs on.
LosesStage(t) ==
    /\ move[t] # "staging"
    /\ staging[To[t]].transfer = t
    /\ StageCommit(To[t]) \/ StageGivesUp(To[t])
    /\ UNCHANGED cmdVars

GivesUpStage(t) ==
    /\ Fault
    /\ move[t] = "staging"
    /\ staging[To[t]].transfer = t
    /\ StageGivesUp(To[t])
    /\ move' = [move EXCEPT ![t] = "failed"]
    /\ UNCHANGED <<seen, undo>>

LosesUndo(t) ==
    /\ Fault
    /\ \/ undo[t] \in {"discard", "abort"} /\ UNCHANGED vars
       \/ undo[t] = "discard" /\ Discard(To[t], t)
       \/ undo[t] = "abort" /\ Abort(From[t], t)
    /\ undo' = [undo EXCEPT ![t] = "failed"]
    /\ UNCHANGED <<move, seen>>

Crash(b) == Fault /\ Stop(b) /\ UNCHANGED <<move, seen, undo>>

\* b has a committed apply that a boot can still finish.
CanFinish(b) == \E t \in incoming[b] : Applying(b, t)

\* A cutover ends with a shutdown; an apply on a dormant body, an abort and a
\* reclaim restart it, and an owner restarts a body that reports a boot error.
ShutsDown(b) ==
    /\ \/ proc[b] = "active" /\ state[b] # "active"
       \/ proc[b] = "dormant" /\ (state[b] = "active" \/ CanFinish(b))
    /\ Stop(b)
    /\ UNCHANGED cmdVars

Boots(b) ==
    /\ \/ Boot(b) /\ ~CanFinish(b)
       \/ BootInstall(b)
       \/ BootActivate(b)
    /\ UNCHANGED cmdVars

FailsToBoot(b) ==
    /\ Fault /\ CanFinish(b) /\ Boot(b)
    /\ UNCHANGED <<move, seen, undo>>

CommandNext ==
    \/ \E t \in Transfers :
          \/ MoveStarts(t) \/ MoveStep(t) \/ TimesOut(t)
          \/ UndoStarts(t) \/ UndoStep(t)
          \/ LosesCall(t) \/ LosesStage(t) \/ GivesUpStage(t) \/ LosesUndo(t)
    \/ \E b \in Bodies :
          Crash(b) \/ ShutsDown(b) \/ Boots(b) \/ FailsToBoot(b)

\* A command that stopped is run again, a running one takes its next step and
\* waits no longer than ten minutes, a body that should restart does, and its
\* supervisor starts it.
CommandSpec ==
    /\ CommandInit /\ [][CommandNext]_allVars
    /\ \A t \in Transfers :
          /\ WF_allVars(MoveStep(t)) /\ WF_allVars(TimesOut(t))
          /\ WF_allVars(UndoStep(t))
          /\ WF_allVars(move[t] = "failed" /\ MoveStarts(t))
          /\ WF_allVars(undo[t] = "failed" /\ UndoStarts(t))
          /\ WF_allVars(LosesStage(t))
    /\ \A b \in Bodies : WF_allVars(ShutsDown(b)) /\ WF_allVars(Boots(b))

-----------------------------------------------------------------------------
(* Properties.                                                             *)

\* The boot was cut between the removal of the staged bundle and the record.
Stranded(t) ==
    /\ Applying(To[t], t) /\ t \notin incoming[To[t]]
    /\ proc[To[t]] # "applying"

\* A frozen self does not stay in transit: however often calls are lost and
\* bodies crash, and although an abort may race the move, the commands, run
\* again, release or unfreeze the source, unless the boot was cut at its record.
EveryFreezeSettles ==
    \A t \in Transfers : Out(t).outcome = "frozen" ~> Settled(t) \/ Stranded(t)

\* A move that nobody aborts, run again after whatever stopped it, completes:
\* no lost call and no crash leaves the two bodies in a state a rerun cannot
\* carry on from, but for a boot that was cut at its record.
MovesComplete ==
    \A t \in Transfers \ Undoable :
        Out(t).outcome = "frozen" ~> Out(t).outcome = "released" \/ Stranded(t)

\* What the two commands report of one transfer never contradicts: a move is
\* done only over an applied record and a tombstone, an abort only over a
\* burned and an aborted one.
ReportsAgree ==
    \A t \in Transfers :
        /\ move[t] = "done" =>
              Out(t).outcome = "released" /\ In(t).outcome = "applied"
        /\ undo[t] = "done" =>
              Out(t).outcome = "aborted" /\ In(t).outcome = "burned"

=============================================================================
