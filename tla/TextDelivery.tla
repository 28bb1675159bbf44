---------------------------- MODULE TextDelivery ----------------------------
(***************************************************************************)
(* From a Discord message to the one reply it gets.  The bridge keeps a    *)
(* row for each message (text-inbox.ts) and hands it to the captain under  *)
(* a delivery id; a turn that fails is begun once more under a second id,  *)
(* and a second failure is answered with a notice.  The service records    *)
(* each turn and each reply before it acts (discord-turn-receipts.ts).  A  *)
(* turn may be folded into the live run of another message, whose reply    *)
(* then answers both.                                                      *)
(*                                                                         *)
(* A delivery id is a pair: the message, and whether it is the first or    *)
(* the recovery turn of it.  A reply is one of three texts: the answer of  *)
(* the first turn, that of the recovery, or the notice.                    *)
(*                                                                         *)
(* Turns with a saved recoveryRequest, which resume after a restart        *)
(* instead of failing, are outside the model.  A reply that a dying        *)
(* service has sent reaches Discord before the next service reads the      *)
(* channel's history, or never.                                            *)
(***************************************************************************)
EXTENDS Naturals, Sequences

CONSTANTS
    Messages,       \* Discord messages he is asked to read
    RefusalsMax,    \* RECOVERY_REFUSALS_MAX
    MaxFaults       \* crashes, lost answers, failed posts and saves, deletions

ASSUME BoundsAssumption == RefusalsMax \in Nat \ {0} /\ MaxFaults \in Nat

VARIABLES
    row,            \* the bridge's durable row of each message
    pc,             \* what the bridge's handler of each message waits for
    retained,       \* absorbed messages whose outcome the ingress still remembers
    turn,           \* the service's receipt of each turn
    into,           \* the turn whose run hears a turn: itself, or the one it joined
    run,            \* the captain's live run of a turn, in the service's memory
    write,          \* the service's receipt of the reply to each message
    posting,        \* the service's reply call in progress, in memory
    unreadable,     \* a receipt could not be saved: the service refuses until it restarts
    origin,         \* messages whose recorded origin still matches the body's identity
    posted,         \* the replies Discord shows under each message, in order
    deleted,        \* messages their author deleted
    heard,          \* how many runs have heard each message
    faults

bridgeVars == <<row, pc, retained>>
turnVars == <<turn, into, run, heard>>
writeVars == <<write, posting, posted>>
worldVars == <<unreadable, origin, deleted, faults>>
vars == <<bridgeVars, turnVars, writeVars, worldVars>>

Kinds == {"first", "recovery"}
Turns == Messages \X Kinds
Contents == Kinds \cup {"notice"}

\* A result names the turn that answers for it, if it was absorbed into one.
Result == [state : {"none", "settled", "silent", "absorbed", "failed"}, owner : SUBSET Turns]
Row == [known : BOOLEAN, request : {"none"} \cup Kinds, result : Result,
        reply : BOOLEAN, outgoing : {"none"} \cup Contents, done : BOOLEAN,
        acknowledged : BOOLEAN, retries : 0..1, refusals : 0..RefusalsMax,
        terminal : BOOLEAN]
Receipt == {"none", "begun", "settled", "silent", "absorbed", "failed"}
Write == [state : {"none", "begun", "done", "absent"}, content : {"none"} \cup Contents]
Outcomes == {"answered", "empty", "silent", "failed"}

NoResult == [state |-> "none", owner |-> {}]

(***************************************************************************)
(* The rows                                                                *)
(***************************************************************************)
Requested(m) == <<m, row[m].request>>

\* The rows that a message's reply answers for: those that name it, or the
\* turn it has in hand, as the owner of their answer.
AnswersFor(rows, m) ==
    {c \in Messages : rows[c].result.owner \cap {<<m, "first">>, <<m, rows[m].request>>} # {}}

\* Mutant: the messages it answers for are closed and not acknowledged.
FinishedAlone(rows, m) ==
    [c \in Messages |-> IF c = m \/ c \in AnswersFor(rows, m)
                        THEN [rows[c] EXCEPT !.done = TRUE, !.acknowledged = c = m \/ @]
                        ELSE rows[c]]

Finished(rows, m) ==
    [c \in Messages |-> IF c = m \/ c \in AnswersFor(rows, m)
                        THEN [rows[c] EXCEPT !.done = TRUE, !.acknowledged = TRUE]
                        ELSE rows[c]]

Abandoned(rows, m) ==
    [c \in Messages |-> IF (c = m \/ c \in AnswersFor(rows, m)) /\ ~rows[c].done
                        THEN [rows[c] EXCEPT !.done = TRUE, !.terminal = TRUE]
                        ELSE rows[c]]

\* Mutant: a refusal is retried like any other failure.
RefusedForever(rows, m) == rows

\* A refusal that no retry changes is counted; the last one closes the row.
Refused(rows, m) ==
    LET counted == [rows EXCEPT ![m].refusals = @ + 1]
    IN  IF counted[m].refusals >= RefusalsMax THEN Abandoned(counted, m) ELSE counted

ReplySaved(rows, m) == [rows EXCEPT ![m].reply = TRUE, ![m].done = TRUE]

OwnerFailed(rows, t) == rows[t[1]].result.state = "failed"

\* A message absorbed into a turn that failed answers to nobody.
Retained(rows, result) ==
    [result EXCEPT !.owner = {t \in @ : ~OwnerFailed(rows, t)}]

\* The messages folded into a failed turn need a recovery of their own.
ChildrenReleased(rows, m) ==
    [c \in Messages |->
        IF rows[c].result.state = "absorbed" /\ c \in AnswersFor(rows, m)
        THEN [rows[c] EXCEPT !.result.owner = {}, !.done = FALSE, !.acknowledged = FALSE]
        ELSE rows[c]]

ResultSaved(m, result) == [row EXCEPT ![m].result = Retained(row, result)]

\* Mutant: an absorbed message is finished at once, whatever its owner.
TurnRecordedEagerly(m, result) ==
    LET saved == ResultSaved(m, result)
    IN  CASE result.state = "failed" -> ChildrenReleased(saved, m)
          [] result.state = "absorbed" -> Finished(saved, m)
          [] OTHER -> saved

\* The rows once the captain's result is saved, before anything is posted.
TurnRecorded(m, result) ==
    LET saved == ResultSaved(m, result)
    IN  CASE result.state = "failed" -> ChildrenReleased(saved, m)
          [] result.state = "absorbed"
             /\ (\E t \in saved[m].result.owner : saved[t[1]].done) -> Finished(saved, m)
          [] OTHER -> saved

\* What a starting bridge repairs.
Reopened(rows) ==
    LET open == [c \in Messages |->
                    IF /\ rows[c].result.state = "failed" /\ ~rows[c].reply
                       /\ ~rows[c].acknowledged /\ ~rows[c].terminal
                    THEN [rows[c] EXCEPT !.done = FALSE] ELSE rows[c]]
        lost(t) == open[t[1]].result.state \in {"none", "failed"}
    IN  [c \in Messages |->
            IF open[c].result.state = "absorbed" /\ ~open[c].done
            THEN [open[c] EXCEPT !.result.owner = {t \in @ : ~lost(t)}] ELSE open[c]]

NewRow == [known |-> FALSE, request |-> "none", result |-> NoResult, reply |-> FALSE,
           outgoing |-> "none", done |-> FALSE, acknowledged |-> FALSE, retries |-> 0,
           refusals |-> 0, terminal |-> FALSE]

Init ==
    /\ row = [m \in Messages |-> NewRow]
    /\ pc = [m \in Messages |-> "idle"]
    /\ retained = {}
    /\ turn = [t \in Turns |-> "none"]
    /\ into = [t \in Turns |-> t]
    /\ run = [t \in Turns |-> "none"]
    /\ heard = [m \in Messages |-> 0]
    /\ write = [m \in Messages |-> [state |-> "none", content |-> "none"]]
    /\ posting = [m \in Messages |-> "idle"]
    /\ posted = [m \in Messages |-> <<>>]
    /\ unreadable = FALSE
    /\ origin = Messages
    /\ deleted = {}
    /\ faults = 0

Goes(m, step) == pc' = [pc EXCEPT ![m] = step]
Fault == faults < MaxFaults /\ faults' = faults + 1

\* The bridge starts again from the rows its process left behind.
StartsFrom(rows) ==
    /\ row' = Reopened(rows)
    /\ pc' = [m \in Messages |-> "idle"]
    /\ retained' = {}

(***************************************************************************)
(* The bridge hands a message to the captain                               *)
(***************************************************************************)
Arrives(m) ==
    /\ ~row[m].known
    /\ row' = [row EXCEPT ![m].known = TRUE]
    /\ UNCHANGED <<pc, retained, turnVars, writeVars, worldVars>>

\* An answer in hand is posted, and so is the notice of a second failure.
HasAnswerInHand(m) ==
    \/ row[m].result.state \in {"settled", "silent"}
    \/ row[m].result.state = "failed" /\ row[m].retries > 0

\* The row that answers for this one exists and did not fail.
LiveOwners(m) == {t \in row[m].result.owner : ~OwnerFailed(row, t)}

\* An absorbed message is submitted again, as a turn of its own, if no row
\* holds the answer it was folded into.
Resubmits(m) ==
    \/ row[m].result.state = "none"
    \/ /\ row[m].result.state = "absorbed"
       /\ \A t \in LiveOwners(m) : ~row[t[1]].done /\ row[t[1]].result.state = "none"

RequestFor(m) ==
    IF row[m].result.state = "absorbed" THEN "recovery"
    ELSE IF row[m].request = "none" THEN "first"
    ELSE row[m].request

Handles(m) ==
    /\ pc[m] = "idle" /\ m \notin retained
    /\ row[m].known /\ ~row[m].done
    /\ \/ HasAnswerInHand(m) /\ Goes(m, "answered") /\ UNCHANGED row
       \/ /\ row[m].result.state = "failed" /\ row[m].retries = 0
          /\ Goes(m, "precheck")
          /\ UNCHANGED row
       \/ /\ row[m].result.state = "absorbed"
          /\ \E t \in LiveOwners(m) : row[t[1]].done
          /\ row' = Finished(row, m)
          /\ UNCHANGED pc
       \/ /\ Resubmits(m)
          /\ row' = [row EXCEPT ![m].request = RequestFor(m)]
          /\ Goes(m, "turn")
    /\ UNCHANGED <<retained, turnVars, writeVars, worldVars>>

\* The ingress remembers an outcome for seven hours, longer than any handler
\* waits.
Expires(m) ==
    /\ m \in retained
    /\ \A c \in Messages : pc[c] = "idle"
    /\ retained' = retained \ {m}
    /\ UNCHANGED <<row, pc, turnVars, writeVars, worldVars>>

\* Recovery finds that the message is gone: nobody can be answered.
FinishesDeleted(m) ==
    /\ pc[m] = "idle" /\ m \in deleted
    /\ row[m].known /\ ~row[m].done
    /\ row' = Finished(row, m)
    /\ UNCHANGED <<pc, retained, turnVars, writeVars, worldVars>>

\* The captain's result reaches the bridge; a process that dies between the
\* statements has saved the result only.
TurnAnswers(m) ==
    LET t == Requested(m)
        result == [state |-> turn[t], owner |-> IF turn[t] = "absorbed" THEN {into[t]} ELSE {}]
    IN  /\ pc[m] = "turn" /\ ~unreadable
        /\ turn[t] \notin {"none", "begun"}
        /\ \/ /\ row' = TurnRecorded(m, result)
              /\ IF turn[t] = "absorbed"
                 THEN Goes(m, "idle") /\ retained' = retained \cup {m}
                 ELSE Goes(m, "answered") /\ UNCHANGED retained
              /\ UNCHANGED faults
           \/ Fault /\ StartsFrom(ResultSaved(m, result))
        /\ UNCHANGED <<turnVars, writeVars, unreadable, origin, deleted>>

(***************************************************************************)
(* The captain's turns                                                     *)
(***************************************************************************)
\* Mutant: any unsettled turn counts as interrupted.
OrphanedAlways(t) == turn[t] = "begun"

\* Receipts that a successor finds unsettled belong to a run that is gone.
Orphaned(t) == turn[t] = "begun" /\ run[into[t]] = "none"

\* Mutant: a turn that a dead service left unsettled is run again.
TurnBeginsAgain(m) ==
    LET t == Requested(m)
    IN  /\ pc[m] = "turn" /\ ~unreadable
        /\ turn[t] = "none" \/ Orphaned(t)
        /\ turn' = [turn EXCEPT ![t] = "begun"]
        /\ heard' = [heard EXCEPT ![m] = @ + 1]
        /\ run' = [run EXCEPT ![t] = "active"]
        /\ into' = [into EXCEPT ![t] = t]
        /\ UNCHANGED <<bridgeVars, writeVars, worldVars>>

\* The turn is recorded before anything runs; then it runs, or it is folded
\* into another message's live run.
TurnBegins(m) ==
    LET t == Requested(m)
    IN  /\ pc[m] = "turn" /\ ~unreadable
        /\ turn[t] = "none"
        /\ turn' = [turn EXCEPT ![t] = "begun"]
        /\ heard' = [heard EXCEPT ![m] = @ + 1]
        /\ \/ run' = [run EXCEPT ![t] = "active"] /\ UNCHANGED into
           \/ \E o \in Turns :
                 /\ o[1] # m /\ run[o] = "active"
                 /\ into' = [into EXCEPT ![t] = o]
                 /\ UNCHANGED run
        /\ UNCHANGED <<bridgeVars, writeVars, worldVars>>

RunEnds(t, outcome) ==
    /\ run[t] = "active"
    /\ run' = [run EXCEPT ![t] = outcome]
    /\ UNCHANGED <<bridgeVars, turn, into, heard, writeVars, worldVars>>

\* A folded turn shares the fate of the run; a completed run without a word
\* fails its own turn only.
TurnResult(t) ==
    LET outcome == run[into[t]]
    IN  IF into[t] # t /\ outcome # "failed" THEN "absorbed"
        ELSE CASE outcome = "answered" -> "settled"
               [] outcome = "silent" -> "silent"
               [] OTHER -> "failed"

TurnSettles(t) ==
    /\ turn[t] = "begun" /\ run[into[t]] \in Outcomes /\ ~unreadable
    /\ turn' = [turn EXCEPT ![t] = TurnResult(t)]
    /\ UNCHANGED <<bridgeVars, into, run, heard, writeVars, worldVars>>

\* A turn whose run died with its service is settled as interrupted when the
\* bridge asks for it.
TurnInterrupted(m) ==
    /\ pc[m] = "turn" /\ ~unreadable
    /\ Orphaned(Requested(m))
    /\ turn' = [turn EXCEPT ![Requested(m)] = "failed"]
    /\ UNCHANGED <<bridgeVars, into, run, heard, writeVars, worldVars>>

(***************************************************************************)
(* Posting the reply                                                       *)
(***************************************************************************)
\* Mutant: every recovery is answered with the notice.
ContentForRetry(m) == IF row[m].retries > 0 THEN "notice" ELSE row[m].request

ContentFor(m) == IF row[m].result.state = "failed" THEN "notice" ELSE row[m].request

\* An answer is owed to the room, and so is the notice of a second failure.
OwesReply(m) ==
    \/ row[m].result.state = "settled"
    \/ row[m].result.state = "failed" /\ (row[m].retries > 0 \/ row[m].reply)

\* With the answer in hand: silence closes the row, a first failure waits for
\* its recovery, and anything else is posted under the message's one key.
Proceeds(m) ==
    /\ pc[m] = "answered"
    /\ \/ /\ row[m].result.state = "silent"
          /\ row' = Finished(row, m)
          /\ Goes(m, "idle")
       \/ /\ row[m].result.state = "failed" /\ row[m].retries = 0 /\ ~row[m].reply
          /\ Goes(m, "idle")
          /\ UNCHANGED row
       \/ /\ OwesReply(m)
          /\ \/ row[m].reply /\ Goes(m, "idle") /\ UNCHANGED row
             \/ /\ ~row[m].reply /\ row[m].outgoing # "none"
                /\ Goes(m, "confirm")
                /\ UNCHANGED row
             \/ /\ ~row[m].reply /\ row[m].outgoing = "none"
                /\ row' = [row EXCEPT ![m].outgoing = ContentFor(m)]
                /\ Goes(m, "sending")
    /\ UNCHANGED <<retained, turnVars, writeVars, worldVars>>

\* What the service answers when it is asked whether a reply exists.  The
\* question for an unsent recovery names no content of its own.
Asked(m) == row[m].outgoing
Recorded(m) == write[m].state \in {"begun", "done"}
\* Mutant: a write without a result is taken for absent, history unread.
ReconciledUnread(m) ==
    IF Recorded(m) /\ write[m].content # Asked(m) THEN "conflict"
    ELSE IF write[m].state = "done" THEN "found"
    ELSE IF m \notin origin THEN "refused"
    ELSE "absent"

Reconciled(m) ==
    IF Recorded(m) /\ write[m].content # Asked(m) THEN "conflict"
    ELSE IF write[m].state = "done" THEN "found"
    ELSE IF m \notin origin THEN "refused"
    ELSE IF posted[m] # <<>> THEN "found"
    ELSE "absent"

WriteReconciled(m) ==
    IF write[m].state = "begun" /\ Reconciled(m) = "found"
    THEN [write EXCEPT ![m].state = "done"]
    ELSE IF write[m].state = "begun" /\ Reconciled(m) = "absent"
    THEN [write EXCEPT ![m].state = "absent"]
    ELSE write

\* The claim of a recovery, made once no reply is found.
RecoveryClaimed(m) ==
    [row EXCEPT ![m].request = "recovery", ![m].retries = 1,
                ![m].result = NoResult, ![m].outgoing = "none"]

\* The saved reply is looked for before the turn is begun again, or before
\* it is posted again.  The answer may be lost on its way.
Reconciles(m) ==
    /\ pc[m] \in {"precheck", "confirm"} /\ ~unreadable
    /\ posting[m] = "idle"
    /\ write' = WriteReconciled(m)
    /\ \/ /\ Fault
          /\ Goes(m, "idle")
          /\ UNCHANGED row
       \/ /\ UNCHANGED faults
          /\ CASE Reconciled(m) = "conflict" -> Goes(m, "idle") /\ UNCHANGED row
               [] Reconciled(m) = "refused" -> Goes(m, "idle") /\ row' = Refused(row, m)
               [] Reconciled(m) = "found" ->
                    Goes(m, "idle") /\ row' = Finished(ReplySaved(row, m), m)
               [] Reconciled(m) = "absent" /\ pc[m] = "precheck" ->
                    Goes(m, "turn") /\ row' = RecoveryClaimed(m)
               [] OTHER ->
                    Goes(m, "sending") /\ row' = [row EXCEPT ![m].outgoing = ContentFor(m)]
    /\ UNCHANGED <<retained, turnVars, posting, posted, unreadable, origin, deleted>>

\* The service records the reply before it posts it, refuses a reply whose
\* origin no longer matches, and never posts one it has recorded.
WriteBegins(m) ==
    /\ pc[m] = "sending" /\ ~unreadable
    /\ posting[m] = "idle"
    /\ \/ /\ Recorded(m)
          /\ Goes(m, IF write[m].state = "done" /\ write[m].content = row[m].outgoing
                     THEN "sent" ELSE "idle")
          /\ UNCHANGED <<row, write, posting>>
       \/ /\ ~Recorded(m) /\ m \notin origin
          /\ row' = Refused(row, m)
          /\ Goes(m, "idle")
          /\ UNCHANGED <<write, posting>>
       \/ /\ ~Recorded(m) /\ m \in origin
          /\ write' = [write EXCEPT ![m] = [state |-> "begun", content |-> row[m].outgoing]]
          /\ posting' = [posting EXCEPT ![m] = "begun"]
          /\ Goes(m, "sent")
          /\ UNCHANGED row
    /\ UNCHANGED <<retained, turnVars, posted, worldVars>>

Lands(m) ==
    /\ posting[m] = "begun"
    /\ posting' = [posting EXCEPT ![m] = "landed"]
    /\ posted' = [posted EXCEPT ![m] = Append(@, write[m].content)]
    /\ UNCHANGED <<bridgeVars, turnVars, write, worldVars>>

WriteSettles(m) ==
    /\ posting[m] = "landed" /\ ~unreadable
    /\ write' = [write EXCEPT ![m].state = "done"]
    /\ posting' = [posting EXCEPT ![m] = "idle"]
    /\ UNCHANGED <<bridgeVars, turnVars, posted, worldVars>>

\* Discord's error, before the reply landed or after it did.
WriteFails(m) ==
    /\ posting[m] # "idle"
    /\ (unreadable /\ UNCHANGED faults) \/ Fault
    /\ posting' = [posting EXCEPT ![m] = "idle"]
    /\ UNCHANGED <<bridgeVars, turnVars, write, posted, unreadable, origin, deleted>>

\* The service's answer to the reply.  A process that dies between the two
\* statements has saved the reply and acknowledged nothing.
WriteAnswers(m) ==
    /\ pc[m] = "sent" /\ posting[m] = "idle"
    /\ \/ /\ write[m].state # "done"
          /\ Goes(m, "idle")
          /\ UNCHANGED <<row, retained, faults>>
       \/ /\ write[m].state = "done"
          /\ row' = Finished(ReplySaved(row, m), m)
          /\ Goes(m, "idle")
          /\ UNCHANGED <<retained, faults>>
       \/ write[m].state = "done" /\ Fault /\ StartsFrom(ReplySaved(row, m))
    /\ UNCHANGED <<turnVars, writeVars, unreadable, origin, deleted>>

\* A history scan reads his reply to the message and closes the row, unless
\* the row waits for another text.
ScanConfirms(m) ==
    /\ row[m].known /\ Finished(row, m) # row
    /\ \E i \in DOMAIN posted[m] : row[m].outgoing \in {"none", posted[m][i]}
    /\ row' = Finished(row, m)
    /\ UNCHANGED <<pc, retained, turnVars, writeVars, worldVars>>

(***************************************************************************)
(* What goes wrong                                                         *)
(***************************************************************************)
BridgeRestarts ==
    /\ Fault
    /\ StartsFrom(row)
    /\ UNCHANGED <<turnVars, writeVars, unreadable, origin, deleted>>

\* The runs and the calls in progress die; the receipts are read again.
ServiceRestarts ==
    /\ Fault
    /\ run' = [t \in Turns |-> "none"]
    /\ posting' = [m \in Messages |-> "idle"]
    /\ unreadable' = FALSE
    /\ UNCHANGED <<bridgeVars, turn, into, heard, write, posted, origin, deleted>>

CallFails(m) ==
    /\ pc[m] \in {"precheck", "turn", "confirm", "sending", "sent"}
    /\ (unreadable /\ UNCHANGED faults) \/ Fault
    /\ Goes(m, "idle")
    /\ UNCHANGED <<row, retained, turnVars, writeVars, unreadable, origin, deleted>>

SaveFails ==
    /\ ~unreadable /\ Fault
    /\ unreadable' = TRUE
    /\ UNCHANGED <<bridgeVars, turnVars, writeVars, origin, deleted>>

OriginChanges(m) ==
    /\ m \in origin /\ Fault
    /\ origin' = origin \ {m}
    /\ UNCHANGED <<bridgeVars, turnVars, writeVars, unreadable, deleted>>

Deletes(m) ==
    /\ row[m].known /\ m \notin deleted /\ Fault
    /\ deleted' = deleted \cup {m}
    /\ UNCHANGED <<bridgeVars, turnVars, writeVars, unreadable, origin>>

(***************************************************************************)
(* The specification                                                       *)
(***************************************************************************)
BridgeStep(m) ==
    \/ Arrives(m) \/ Handles(m) \/ Expires(m) \/ FinishesDeleted(m) \/ TurnAnswers(m)
    \/ Proceeds(m) \/ Reconciles(m) \/ WriteAnswers(m) \/ ScanConfirms(m)

ServiceStep(m) ==
    \/ TurnBegins(m) \/ TurnInterrupted(m)
    \/ WriteBegins(m) \/ Lands(m) \/ WriteSettles(m) \/ WriteFails(m)

RunStep(t) ==
    \/ TurnSettles(t)
    \/ \E outcome \in Outcomes : RunEnds(t, outcome)

Trouble ==
    \/ BridgeRestarts \/ ServiceRestarts \/ SaveFails
    \/ \E m \in Messages : CallFails(m) \/ OriginChanges(m) \/ Deletes(m)

Next ==
    \/ \E m \in Messages : BridgeStep(m) \/ ServiceStep(m)
    \/ \E t \in Turns : RunStep(t)
    \/ Trouble

Spec == Init /\ [][Next]_vars

\* Messages of the gateway and of the scan, the once-a-minute recovery round
\* and the handlers go on; runs end (a watchdog stops a stalled one).
Fairness ==
    /\ \A m \in Messages :
          /\ WF_vars(Handles(m)) /\ WF_vars(Expires(m)) /\ WF_vars(FinishesDeleted(m))
          /\ WF_vars(TurnAnswers(m)) /\ WF_vars(Proceeds(m))
          /\ WF_vars(Reconciles(m)) /\ WF_vars(WriteAnswers(m))
          /\ WF_vars(ServiceStep(m)) /\ WF_vars(CallFails(m))
    /\ \A t \in Turns : WF_vars(RunStep(t))

FairSpec == Spec /\ Fairness

(***************************************************************************)
(* Properties                                                              *)
(***************************************************************************)
\* Every variable stays in its type; refusals stop at the cap.
TypeOK ==
    /\ row \in [Messages -> Row]
    /\ pc \in [Messages -> {"idle", "precheck", "turn", "answered", "confirm", "sending", "sent"}]
    /\ retained \subseteq Messages
    /\ turn \in [Turns -> Receipt]
    /\ into \in [Turns -> Turns]
    /\ run \in [Turns -> {"none", "active"} \cup Outcomes]
    /\ heard \in [Messages -> Nat]
    /\ write \in [Messages -> Write]
    /\ posting \in [Messages -> {"idle", "begun", "landed"}]
    /\ posted \in [Messages -> Seq(Contents)]
    /\ unreadable \in BOOLEAN
    /\ origin \subseteq Messages
    /\ deleted \subseteq Messages
    /\ faults \in 0..MaxFaults

\* However often the bridge and the service restart, lose an answer or see
\* an error after the reply landed, Discord shows one reply to a message.
OneReply == \A m \in Messages : Len(posted[m]) <= 1

\* The failure notice is never the reply to a message whose answer the
\* service holds.
NoticeOnlyWithoutAnswer ==
    \A m \in Messages : \A i \in DOMAIN posted[m] :
        posted[m][i] = "notice" => \A k \in Kinds : turn[<<m, k>>] # "settled"

\* A message is heard by two runs at most: a run that may have had effects is
\* never replayed, and the recovery is claimed once.
HeardTwiceAtMost == \A m \in Messages : heard[m] <= 2

\* The recovery never runs beside the first run it replaces.
OneRunAtATime ==
    \A m \in Messages : \E k \in Kinds : run[into[<<m, k>>]] # "active"

\* Nothing is acknowledged without evidence: a reply under it, a turn that
\* chose silence, its deletion, or the closed row of the message whose run
\* it was folded into.
Silent(m) == \E k \in Kinds : turn[<<m, k>>] = "silent"
Evidence(m) ==
    \/ posted[m] # <<>> \/ Silent(m) \/ m \in deleted
    \/ \E t \in row[m].result.owner \cup row'[m].result.owner : row'[t[1]].done
AcknowledgedOnEvidence ==
    [][\A m \in Messages :
          ~row[m].acknowledged /\ row'[m].acknowledged => Evidence(m)]_vars

\* A closed row was acknowledged, holds the reply, or was given up on record.
ClosedIsAccountedFor ==
    \A m \in Messages : row[m].done => row[m].acknowledged \/ row[m].terminal \/ row[m].reply

\* A message is closed in the end while receipts can be saved, unless its
\* recovery was itself folded into another message's run.
EveryMessageCloses ==
    \A m \in Messages :
        <>[](~unreadable /\ turn[<<m, "recovery">>] # "absorbed") => (row[m].known ~> row[m].done)

\* What ADR 0177 says: a new answer to the first message cannot acknowledge
\* a question that was folded into its lost run.
FoldedIsAnswered ==
    \A m \in Messages : row[m].acknowledged /\ deleted = {} =>
        \A t \in row[m].result.owner :
            posted[t[1]] # <<>> => \E i \in DOMAIN posted[t[1]] : posted[t[1]][i] = t[2]

=============================================================================
