------------------------------ MODULE SeatOutbox ------------------------------
(***************************************************************************)
(* What is said to Clankie while a native harness holds the seat of his    *)
(* head conversation.  Worker reports, questions from a linked channel and *)
(* owner turns sent with "queue" each choose a driver: the seat, through   *)
(* its outbox (seat-outbox.ts), or the service's own lane                  *)
(* (native-seats.ts).  The seat's bridge (mcp.ts) polls the outbox, shows  *)
(* each event to the harness and acknowledges it.  A durable fence         *)
(* (delivery-fence.ts) keeps every delivery whose receipt is not proved,   *)
(* across crashes, so that it is never sent again.                         *)
(*                                                                         *)
(* The conversation is the operator head's: 30 s of grace after a poll,    *)
(* 2 s for an acknowledgment, 45 s of lane hold.  Its bridge reports turns *)
(* and acknowledges exactly.  A stop of the service and its next start are *)
(* one step.                                                               *)
(***************************************************************************)
EXTENDS Naturals

CONSTANTS
    Reports,        \* worker reports
    Questions,      \* escalations of one linked channel, which want a reply
    Turns,          \* owner turns sent with delivery "queue"
    Content,        \* what each of them says
    MaxFaults       \* crashes, lost calls, stalls, cancellations, settlements, turns of the seat's own

Sends == Reports \cup Questions \cup Turns

ASSUME SendsAssumption ==
    /\ Reports \cap Questions = {} /\ Reports \cap Turns = {} /\ Questions \cap Turns = {}
    /\ DOMAIN Content = Sends
    /\ MaxFaults \in Nat

VARIABLES
    call,           \* how far the run of each send has come
    older,          \* for each send that waits in the queue, those that waited before it
    held,           \* sends stored behind the turn the seat was running
    carries,        \* the older questions that a question's event carries
    busy,           \* the seat's turn holds queued turns
    bound,          \* the grace after the last poll, or after a restart, runs
    lane,           \* the seat asked within the lane hold
    fence,          \* the durable receipts that are not resolved
    delivered,      \* the durable receipts of what was acknowledged
    abandoned,      \* receipts the owner settled as abandoned-unknown
    bridge,         \* the bridge's pump
    page,           \* events the bridge took and has still to show
    receipts,       \* events it showed and has still to acknowledge
    given,          \* history: sends that a poll has taken
    shown,          \* history: sends the harness has seen
    answered,       \* history: questions the harness has answered
    faults

laneVars == <<bound, lane>>
fenceVars == <<fence, delivered, abandoned>>
bridgeVars == <<bridge, page, receipts>>
historyVars == <<given, shown, answered>>
vars == <<call, older, held, carries, busy, laneVars, fenceVars, bridgeVars, historyVars, faults>>

Active == {"queued", "taken", "awaiting"}
Running == {"choosing", "seat", "service"} \cup Active
Ended == {"ran", "delivered", "replied", "covered", "unconfirmed", "aborted", "rejected",
          "interrupted"}
Stages == {"new"} \cup Running \cup Ended
Phases == {"off", "ready", "asking", "parked", "page", "acking", "retry", "stopped"}

At(stage) == {d \in Sends : call[d] = stage}
ActiveNow == {d \in Sends : call[d] \in Active}
Fault == faults < MaxFaults /\ faults' = faults + 1

Init ==
    /\ call = [d \in Sends |-> "new"]
    /\ older = [d \in Sends |-> {}]
    /\ held = {}
    /\ carries = [d \in Sends |-> {}]
    /\ busy = FALSE /\ bound = FALSE /\ lane = FALSE
    /\ fence = {} /\ delivered = {} /\ abandoned = {}
    /\ bridge = "off" /\ page = {} /\ receipts = {}
    /\ given = {} /\ shown = {} /\ answered = {}
    /\ faults = 0

(***************************************************************************)
(* The outbox                                                              *)
(***************************************************************************)
Bound == bridge = "parked" \/ bound
HoldsLane == Bound \/ lane \/ bridge = "asking"

Unresolved == fence \ ActiveNow

\* An unresolved receipt of the same content, which must not be sent again.
Conflict(d) == {e \in Unresolved : Content[e] = Content[d]}

Waiting(calls) == {d \in Sends : calls[d] = "queued"}

\* The order of arrival, once the calls are these.
Order(calls) ==
    [d \in Sends |-> IF calls[d] = "queued" THEN older[d] \cap Waiting(calls) ELSE {}]

\* The questions that wait together are one event, under the newest one's id.
Newest(waiting, order) ==
    LET asked == waiting \cap Questions
    IN  {d \in asked : asked \ {d} \subseteq order[d]}

\* A queued turn waits for the seat's turn to end; the first owner event that
\* is taken begins the next.
NextTurn(waiting, order, occupied) ==
    {t \in waiting \cap Turns :
        /\ ~occupied
        /\ \A e \in (Newest(waiting, order) \cup (waiting \cap Turns)) \ {t} : t \in order[e]}

\* A poll, with these calls in this order, takes what is ready or is parked.
\* Its answer may never reach the bridge.
TakesOrParks(calls, order, occupied) ==
    LET waiting == Waiting(calls)
        events == Newest(waiting, order) \cup NextTurn(waiting, order, occupied)
                    \cup (waiting \cap Reports)
        members == events \cup (waiting \cap Questions)
    IN  /\ call' = [d \in Sends |-> IF d \in members THEN "taken" ELSE calls[d]]
        /\ older' = [d \in Sends |-> IF d \in waiting \ members THEN order[d] \ members ELSE {}]
        /\ carries' = [d \in Sends |-> IF d \in Newest(waiting, order)
                                       THEN (waiting \cap Questions) \ {d} ELSE carries[d]]
        /\ given' = given \cup members
        /\ busy' = (occupied \/ events # {})
        /\ bound' = TRUE
        /\ \/ /\ bridge' = IF events = {} THEN "parked" ELSE "page"
              /\ page' = events
              /\ UNCHANGED faults
           \/ events # {} /\ bridge' = "retry" /\ page' = {} /\ Fault
        /\ UNCHANGED <<receipts, shown, answered>>

\* What an acknowledgment of these events does to the calls.
Acked(ids) ==
    [d \in Sends |-> IF d \in ids /\ call[d] = "taken"
                     THEN IF d \in Questions THEN "awaiting" ELSE "delivered"
                     ELSE call[d]]

\* The acknowledgment of an event is that of the messages it carried.
EventOf(e) == {d \in {e} \cup carries[e] : call[d] = "taken"}

(***************************************************************************)
(* Sends                                                                   *)
(***************************************************************************)
\* A report is marked as attempted before its run begins.
Begins(d) ==
    /\ call[d] = "new"
    /\ call' = [call EXCEPT ![d] = "choosing"]
    /\ UNCHANGED <<older, held, carries, busy, laneVars, fenceVars, bridgeVars, historyVars, faults>>

\* The driver is chosen when no poll is waiting for admission; a report looks
\* at the seat without waiting.
Chooses(d) ==
    /\ call[d] = "choosing"
    /\ bridge = "asking" => d \in Reports
    /\ call' = [call EXCEPT ![d] = IF HoldsLane \/ Conflict(d) # {} THEN "seat" ELSE "service"]
    /\ UNCHANGED <<older, held, carries, busy, laneVars, fenceVars, bridgeVars, historyVars, faults>>

\* The outbox refuses what may be a resend, and sends back what it cannot
\* hold; otherwise the receipt is saved and the send waits for a poll.
Delivers(d) ==
    /\ call[d] = "seat"
    /\ IF Conflict(d) # {} \/ ~HoldsLane
       THEN /\ call' = [call EXCEPT ![d] = IF Conflict(d) # {} THEN "unconfirmed" ELSE "choosing"]
            /\ UNCHANGED <<older, held, carries, busy, laneVars, fence, bridgeVars, historyVars,
                           faults>>
       ELSE LET calls == [call EXCEPT ![d] = "queued"]
                order == [older EXCEPT ![d] = Waiting(call)]
            IN  /\ fence' = fence \cup {d}
                /\ held' = IF d \in Turns /\ busy THEN held \cup {d} ELSE held
                /\ UNCHANGED lane
                /\ IF bridge = "parked"
                   THEN TakesOrParks(calls, order, busy)
                   ELSE /\ call' = calls /\ older' = order
                        /\ UNCHANGED <<carries, busy, bound, bridgeVars, historyVars, faults>>
    /\ UNCHANGED <<delivered, abandoned>>

\* Mutant: the queue behind a turn is taken over like any other input.
WithoutSeatTakenOver(d) ==
    IF HoldsLane THEN "queued" ELSE "choosing"

\* Mutant: what is held behind a turn waits for that turn, whoever is there.
WithoutSeatHeld(d) ==
    IF d \in held \/ HoldsLane THEN "queued" ELSE "choosing"

\* What becomes of a waiting send once the grace is over: one stored behind
\* the seat's turn was never sent; any other may run on the service's lane
\* after the lane hold.
WithoutSeat(d) ==
    IF d \in held THEN "rejected" ELSE IF HoldsLane THEN "queued" ELSE "choosing"

GivesUp(d) ==
    /\ call[d] = "queued" /\ ~Bound /\ bridge # "asking"
    /\ WithoutSeat(d) # "queued"
    /\ call' = [call EXCEPT ![d] = WithoutSeat(d)]
    /\ older' = Order(call')
    /\ fence' = fence \ {d}
    /\ UNCHANGED <<held, carries, busy, laneVars, delivered, abandoned, bridgeVars, historyVars,
                   faults>>

\* Mutant: an event without its acknowledgment may choose a driver again.
ExpiredRetried(d) == "choosing"

\* Without its acknowledgment in time, an event that was taken is uncertain.
Expired(d) == "unconfirmed"

AckExpires(d) ==
    /\ call[d] = "taken"
    /\ call' = [call EXCEPT ![d] = Expired(d)]
    /\ UNCHANGED <<older, held, carries, busy, laneVars, fenceVars, bridgeVars, historyVars, faults>>

\* The reply window closes: the question was delivered, and not answered.
ReplyExpires(d) ==
    /\ call[d] = "awaiting"
    /\ call' = [call EXCEPT ![d] = "delivered"]
    /\ UNCHANGED <<older, held, carries, busy, laneVars, fenceVars, bridgeVars, historyVars, faults>>

\* Its run is cancelled: what was taken may still land, and what was
\* acknowledged is delivered.
Aborts(d) ==
    /\ call[d] \in Running /\ Fault
    /\ call' = [call EXCEPT ![d] = CASE @ = "taken" -> "unconfirmed"
                                     [] @ = "awaiting" -> "delivered"
                                     [] OTHER -> "aborted"]
    /\ older' = Order(call')
    /\ fence' = IF call[d] = "queued" THEN fence \ {d} ELSE fence
    /\ UNCHANGED <<held, carries, busy, laneVars, delivered, abandoned, bridgeVars, historyVars>>

\* A run of the service's own lane ends.
LaneEnds(d) ==
    /\ call[d] = "service"
    /\ call' = [call EXCEPT ![d] = "ran"]
    /\ UNCHANGED <<older, held, carries, busy, laneVars, fenceVars, bridgeVars, historyVars, faults>>

\* The owner settles a receipt that nothing can prove.
AbandonUnknown(d) ==
    /\ d \in Unresolved /\ Fault
    /\ fence' = fence \ {d}
    /\ abandoned' = abandoned \cup {d}
    /\ UNCHANGED <<call, older, held, carries, busy, laneVars, delivered, bridgeVars, historyVars>>

(***************************************************************************)
(* The seat and its bridge                                                 *)
(***************************************************************************)
\* The pump begins, in the first bridge or in one that replaces it.
BridgeStarts ==
    /\ bridge \in {"off", "stopped"}
    /\ bridge' = "ready"
    /\ UNCHANGED <<call, older, held, carries, busy, laneVars, fenceVars, page, receipts,
                   historyVars, faults>>

\* A poll that waits for admission holds the lane.
Asks ==
    /\ bridge = "ready"
    /\ bridge' = "asking"
    /\ lane' = TRUE
    /\ UNCHANGED <<call, older, held, carries, busy, bound, fenceVars, page, receipts, historyVars,
                   faults>>

AskFails ==
    /\ bridge = "asking" /\ Fault
    /\ bridge' = "retry"
    /\ UNCHANGED <<call, older, held, carries, busy, laneVars, fenceVars, page, receipts,
                   historyVars>>

\* Mutant: a poll does not wait for the service's runs.
AdmittedAtOnce == bridge = "asking"

\* The service's runs that were admitted before the poll come first.
Admitted == bridge = "asking" /\ At("service") = {}

\* A poll acknowledges whatever was taken before it, then takes what waits.
Polls ==
    /\ Admitted
    /\ fence' = fence \ At("taken")
    /\ delivered' = delivered \cup At("taken")
    /\ lane' = TRUE
    /\ TakesOrParks(Acked(At("taken")), older, busy)
    /\ UNCHANGED <<held, abandoned>>

\* After a page, and after an empty one, the retained receipts are sent.
AfterPage(left) == IF left = {} THEN "ready" ELSE "acking"

PollEmpty ==
    /\ bridge = "parked"
    /\ bridge' = AfterPage(receipts)
    /\ bound' = TRUE
    /\ UNCHANGED <<call, older, held, carries, busy, lane, fenceVars, page, receipts, historyVars,
                   faults>>

\* The connection of a parked poll breaks: the seat is taken to have left.
PollAborted ==
    /\ bridge = "parked" /\ Fault
    /\ bridge' = "retry"
    /\ bound' = FALSE
    /\ UNCHANGED <<call, older, held, carries, busy, lane, fenceVars, page, receipts, historyVars>>

\* The retry waits longer than the window for acknowledgments.
Retries ==
    /\ bridge = "retry" /\ At("taken") = {}
    /\ bridge' = "ready"
    /\ UNCHANGED <<call, older, held, carries, busy, laneVars, fenceVars, page, receipts,
                   historyVars, faults>>

Shows(e) ==
    /\ bridge = "page" /\ e \in page
    /\ page' = page \ {e}
    /\ receipts' = receipts \cup {e}
    /\ shown' = shown \cup {e} \cup carries[e]
    /\ bridge' = IF page' = {} THEN "acking" ELSE "page"
    /\ UNCHANGED <<call, older, held, carries, busy, laneVars, fenceVars, given, answered, faults>>

\* The harness cannot be told: the pump stops rather than poll again.
ShowFails ==
    /\ bridge = "page" /\ Fault
    /\ bridge' = "stopped" /\ page' = {} /\ receipts' = {}
    /\ UNCHANGED <<call, older, held, carries, busy, laneVars, fenceVars, historyVars>>

\* An acknowledgment of an event in flight is that of all it carried; a late
\* one resolves the receipt it names.
AckReaches(e) ==
    /\ bridge = "acking" /\ e \in receipts
    /\ receipts' = receipts \ {e}
    /\ bridge' = AfterPage(receipts')
    /\ IF call[e] = "taken"
       THEN /\ call' = Acked(EventOf(e))
            /\ fence' = fence \ EventOf(e)
            /\ delivered' = delivered \cup EventOf(e)
       ELSE /\ fence' = fence \ {e}
            /\ delivered' = delivered \cup ({e} \cap fence)
            /\ UNCHANGED call
    /\ UNCHANGED <<older, held, carries, busy, laneVars, abandoned, page, historyVars, faults>>

\* Both attempts are lost; the second comes after the window.
AckGivesUp ==
    /\ bridge = "acking" /\ At("taken") = {} /\ Fault
    /\ bridge' = "ready"
    /\ UNCHANGED <<call, older, held, carries, busy, laneVars, fenceVars, page, receipts,
                   historyVars>>

\* Mutant: an answer closes the question it names, and no other.
AnswersAlone(e) == {}

\* An answer closes the questions that its event carried.
AnswersWith(e) == {d \in carries[e] : call[d] \in {"taken", "awaiting"}}

\* The harness answers a question.  Without a waiter the answer is not
\* published, but it proves that the question arrived.
Replies(e) ==
    /\ bridge # "off"
    /\ e \in (shown \cap Questions) \ answered
    /\ \A p \in Sends : e \notin carries[p]
    /\ answered' = answered \cup {e}
    /\ IF call[e] \in {"taken", "awaiting"}
       THEN /\ call' = [d \in Sends |-> IF d = e THEN "replied"
                                        ELSE IF d \in AnswersWith(e) THEN "covered"
                                        ELSE call[d]]
            /\ fence' = fence \ ({e} \cup AnswersWith(e))
            /\ delivered' = delivered \cup EventOf(e)
       ELSE /\ fence' = fence \ {e}
            /\ UNCHANGED <<call, delivered>>
    /\ UNCHANGED <<older, held, carries, busy, laneVars, abandoned, bridgeVars, given, shown, faults>>

\* The seat begins a turn of its own.
TurnStarts ==
    /\ bridge # "off" /\ ~busy /\ Fault
    /\ busy' = TRUE
    /\ UNCHANGED <<call, older, held, carries, laneVars, fenceVars, bridgeVars, historyVars>>

\* The seat's turn ends, or has been quiet too long to hold anything.
TurnEnds ==
    /\ busy
    /\ IF bridge = "parked"
       THEN TakesOrParks(call, older, FALSE)
       ELSE busy' = FALSE /\ UNCHANGED <<call, older, carries, bound, bridgeVars, historyVars, faults>>
    /\ UNCHANGED <<held, lane, fenceVars>>

\* Nothing asks any more, and the windows close one after the other.
BoundLapses ==
    /\ bound /\ bridge \in {"off", "stopped"}
    /\ bound' = FALSE
    /\ UNCHANGED <<call, older, held, carries, busy, lane, fenceVars, bridgeVars, historyVars, faults>>

LaneLapses ==
    /\ lane /\ bridge \in {"off", "stopped"}
    /\ lane' = FALSE
    /\ UNCHANGED <<call, older, held, carries, busy, bound, fenceVars, bridgeVars, historyVars, faults>>

\* A live bridge may be slow enough for either.
Stalls ==
    /\ bridge \in {"ready", "page", "acking", "retry"} /\ Fault
    /\ \/ bound' = FALSE /\ UNCHANGED lane
       \/ lane' = FALSE /\ UNCHANGED bound
    /\ UNCHANGED <<call, older, held, carries, busy, fenceVars, bridgeVars, historyVars>>

BridgeDies ==
    /\ bridge # "off" /\ Fault
    /\ bridge' = "off" /\ page' = {} /\ receipts' = {}
    /\ bound' = (bound /\ bridge # "parked")
    /\ UNCHANGED <<call, older, held, carries, busy, lane, fenceVars, historyVars>>

\* Mutant: a stop settles every receipt, taken or not.
SettledByStopAll == ActiveNow

\* A clean stop settles the receipts of what was never taken.
SettledByStop == At("queued")

\* The service stops, cleanly or not, and starts again; a seat that polled
\* lately is presumed to be there.
ServiceRestarts ==
    /\ Fault
    /\ call' = [d \in Sends |-> IF call[d] \in Running THEN "interrupted" ELSE call[d]]
    /\ older' = [d \in Sends |-> {}]
    /\ busy' = FALSE
    /\ bound' \in {FALSE, bound \/ lane}
    /\ lane' = FALSE
    /\ fence' \in {fence, fence \ SettledByStop}
    /\ bridge' = IF bridge \in {"asking", "parked"} THEN "retry" ELSE bridge
    /\ UNCHANGED <<held, carries, delivered, abandoned, page, receipts, historyVars>>

Next ==
    \/ \E d \in Sends :
          \/ Begins(d) \/ Chooses(d) \/ Delivers(d) \/ GivesUp(d) \/ AckExpires(d)
          \/ ReplyExpires(d) \/ Aborts(d) \/ LaneEnds(d) \/ AbandonUnknown(d)
          \/ Shows(d) \/ AckReaches(d) \/ Replies(d)
    \/ BridgeStarts \/ Asks \/ AskFails \/ Polls \/ PollEmpty \/ PollAborted \/ Retries
    \/ ShowFails \/ AckGivesUp \/ TurnStarts \/ TurnEnds \/ BoundLapses \/ LaneLapses
    \/ Stalls \/ BridgeDies \/ ServiceRestarts

\* What the service does by itself: a chosen driver runs, timers fire, runs end.
ServiceGoesOn ==
    \/ \E d \in Sends :
          Delivers(d) \/ GivesUp(d) \/ AckExpires(d) \/ ReplyExpires(d) \/ LaneEnds(d)
    \/ TurnEnds \/ BoundLapses \/ LaneLapses

\* The loop of a live bridge.
BridgeGoesOn ==
    \/ Asks \/ Polls \/ PollEmpty \/ Retries
    \/ \E d \in Sends : Shows(d) \/ AckReaches(d)

\* A driver is chosen between two polls that wait for admission.
Fairness ==
    /\ WF_vars(ServiceGoesOn)
    /\ WF_vars(BridgeGoesOn)
    /\ SF_vars(\E d \in Sends : Chooses(d))

Spec == Init /\ [][Next]_vars /\ Fairness

(***************************************************************************)
(* Properties                                                              *)
(***************************************************************************)
\* The variables have their types.
TypeOK ==
    /\ call \in [Sends -> Stages]
    /\ older \in [Sends -> SUBSET Sends]
    /\ held \subseteq Turns
    /\ carries \in [Sends -> SUBSET Questions]
    /\ busy \in BOOLEAN /\ bound \in BOOLEAN /\ lane \in BOOLEAN
    /\ fence \subseteq Sends /\ delivered \subseteq Sends /\ abandoned \subseteq Sends
    /\ bridge \in Phases
    /\ page \subseteq Sends /\ receipts \subseteq Sends
    /\ given \subseteq Sends /\ shown \subseteq given /\ answered \subseteq Questions
    /\ faults \in 0..MaxFaults

\* What a poll has taken is never queued again and never run by the service's
\* lane, although its receipt may never come (SeatDelivery outcomes,
\* captain-conversation-runner.ts).
TakenOnce == \A d \in given : call[d] \notin {"choosing", "seat", "queued", "service", "ran"}

\* A turn that was queued behind the seat's own turn is the seat's to run: the
\* service's lane never runs it, whenever the bridge leaves (ADR 0218).
HeldStays == \A d \in held : call[d] \notin {"choosing", "service", "ran"}

\* While a poll is parked the service's lane runs nothing: its answer cannot
\* race the attached seat (native-seats.ts).
OneDriver == bridge = "parked" => At("service") = {}

\* Whatever the bridge took and no live run waits for any more has a receipt:
\* unresolved, acknowledged or abandoned; or the harness answered it.
GivenIsAccountedFor ==
    given \ ActiveNow \subseteq fence \cup delivered \cup abandoned \cup answered

\* One answer closes the whole batch and nothing else: no question that the
\* answered event carried still waits, and a question is covered only by the
\* answer to the event that carried it, once the harness has seen both.
AnswersCloseTheirBatch ==
    /\ \A e \in At("replied") :
          e \in answered /\ \A d \in carries[e] : call[d] \notin Active
    /\ \A d \in At("covered") :
          \E e \in At("replied") : d \in carries[e] /\ {d, e} \subseteq shown

\* Every run that was begun comes to an end, so in the end nothing runs: each
\* send is delivered, run, refused or reported uncertain.
EverySendSettles == <>[](\A d \in Sends : call[d] \notin Running)

===============================================================================
