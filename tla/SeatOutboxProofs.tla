-------------------------- MODULE SeatOutboxProofs --------------------------
(***************************************************************************)
(* For any sends and any number of crashes, lost calls and turns of the    *)
(* seat's own: what a poll took is never run again, a held turn is the     *)
(* seat's, no service run goes beside a parked poll, whatever was taken    *)
(* keeps a receipt, and one answer closes its batch.                       *)
(***************************************************************************)
EXTENDS SeatOutbox, TLAPS

\* How far a send can be once a poll has taken it.
After == {"taken", "awaiting", "delivered", "replied", "covered", "unconfirmed", "interrupted"}

GivenOK == \A d \in given : call[d] \in After

HeldOK == \A d \in held : call[d] \in After \cup {"queued", "rejected", "aborted"}

\* A receipt is written before a send can be taken, and resolved on evidence.
FenceOK ==
    \A d \in Sends :
        /\ call[d] \in {"queued", "taken"} => d \in fence
        /\ call[d] = "awaiting" => d \in delivered

\* No other event carries this one.
OfItsOwn(e) == \A p \in Sends : e \notin carries[p]

\* The bridge has only what it was given, and a batch is shown as one.
PageOK ==
    /\ page \subseteq given /\ receipts \subseteq given
    /\ \A e \in Sends :
          /\ carries[e] \subseteq given
          /\ e \notin given => carries[e] = {}
          /\ e \in shown /\ OfItsOwn(e) => carries[e] \subseteq shown

IInv ==
    /\ TypeOK
    /\ GivenOK
    /\ HeldOK
    /\ FenceOK
    /\ PageOK
    /\ OneDriver
    /\ GivenIsAccountedFor
    /\ AnswersCloseTheirBatch

-----------------------------------------------------------------------------
(* What a poll does to the sends that wait.                                *)

\* A poll moves sends from the queue into the bridge's hands and nothing else.
Taken(calls) == {d \in Sends : calls[d] = "queued" /\ call'[d] = "taken"}

LEMMA TakesWhatWaits ==
  ASSUME TypeOK,
         NEW calls \in [Sends -> Stages], NEW order \in [Sends -> SUBSET Sends],
         NEW occupied \in BOOLEAN, TakesOrParks(calls, order, occupied)
  PROVE  /\ call' \in [Sends -> Stages]
         /\ \A d \in Sends \ Taken(calls) : call'[d] = calls[d] /\ carries'[d] = carries[d]
         /\ given' = given \cup Taken(calls)
         /\ \A e \in Taken(calls) : carries'[e] = carries[e] \/ carries'[e] \subseteq Taken(calls)
         /\ page' \subseteq Taken(calls)
         /\ older' \in [Sends -> SUBSET Sends]
         /\ carries' \in [Sends -> SUBSET Questions]
         /\ busy' \in BOOLEAN /\ bound' \in BOOLEAN
         /\ bridge' \in {"parked", "page", "retry"}
         /\ faults' \in 0..MaxFaults
         /\ receipts' = receipts /\ shown' = shown /\ answered' = answered
<1> DEFINE waiting == Waiting(calls)
           newest == Newest(waiting, order)
           turns == NextTurn(waiting, order, occupied)
           events == newest \cup turns \cup (waiting \cap Reports)
           members == events \cup (waiting \cap Questions)
<1>1. newest \subseteq waiting \cap Questions /\ turns \subseteq waiting
  BY DEF Newest, NextTurn
<1>2. waiting = {d \in Sends : calls[d] = "queued"}
  BY DEF Waiting
<1>3. /\ call' = [d \in Sends |-> IF d \in members THEN "taken" ELSE calls[d]]
      /\ older' = [d \in Sends |-> IF d \in waiting \ members THEN order[d] \ members ELSE {}]
      /\ carries' = [d \in Sends |-> IF d \in newest
                                     THEN (waiting \cap Questions) \ {d} ELSE carries[d]]
      /\ given' = given \cup members
      /\ busy' = (occupied \/ events # {})
      /\ bound' = TRUE
      /\ \/ /\ bridge' = IF events = {} THEN "parked" ELSE "page"
            /\ page' = events
            /\ UNCHANGED faults
         \/ events # {} /\ bridge' = "retry" /\ page' = {} /\ Fault
      /\ UNCHANGED <<receipts, shown, answered>>
  BY DEF TakesOrParks
<1> HIDE DEF newest, turns, waiting
<1>4. members \subseteq waiting /\ events \subseteq members /\ newest \subseteq members
  BY <1>1
<1>5. faults' \in 0..MaxFaults
  <2>1. faults \in Nat /\ MaxFaults \in Nat
    BY SendsAssumption DEF TypeOK
  <2>. QED BY <1>3, <2>1, SendsAssumption DEF Fault, TypeOK
<1> HIDE DEF events, members
<1>6. members = Taken(calls)
  <2>1. \A d \in Sends : d \in members => calls[d] = "queued" /\ call'[d] = "taken"
    BY <1>2, <1>3, <1>4
  <2>2. \A d \in Sends : d \notin members => ~(calls[d] = "queued" /\ call'[d] = "taken")
    BY <1>3
  <2>. QED BY <2>1, <2>2, <1>4, <1>2 DEF Taken
<1>7. call' \in [Sends -> Stages] /\ \A d \in Sends \ members : call'[d] = calls[d]
  BY <1>3 DEF Stages, Running, Active
<1>8. /\ \A d \in Sends \ members : carries'[d] = carries[d]
      /\ \A e \in members : carries'[e] = carries[e] \/ carries'[e] \subseteq waiting \cap Questions
      /\ carries' \in [Sends -> SUBSET Questions]
  <2>1. \A e \in Sends : carries'[e] = IF e \in newest THEN (waiting \cap Questions) \ {e}
                                       ELSE carries[e]
    BY <1>3
  <2>2. (waiting \cap Questions) \subseteq Questions /\ carries \in [Sends -> SUBSET Questions]
    BY DEF TypeOK
  <2>3. carries' \in [Sends -> SUBSET Questions]
    BY <1>3, <2>2
  <2>4. members \subseteq Sends
    BY <1>2, <1>4
  <2>. QED BY <2>1, <2>3, <2>4, <1>4
<1>9. waiting \cap Questions \subseteq members
  BY DEF members
<1>10. older' \in [Sends -> SUBSET Sends]
  BY <1>3
<1>11. page' \subseteq members /\ bridge' \in {"parked", "page", "retry"}
  BY <1>3, <1>4
<1>. QED BY <1>3, <1>5, <1>6, <1>7, <1>8, <1>9, <1>10, <1>11

-----------------------------------------------------------------------------
(* Each part of the invariant is kept by every step.                       *)

\* What the calls and the receipts must be like before a poll takes what
\* waits, so that the invariant holds once it has.
ReadyToTake(calls) ==
    /\ \A d \in given : calls[d] \in After
    /\ \A d \in held' : calls[d] \in After \cup {"queued", "rejected", "aborted"}
    /\ \A d \in Sends : calls[d] \in {"queued", "taken"} => d \in fence'
    /\ \A d \in Sends : calls[d] = "awaiting" => d \in delivered'
    /\ \A d \in Sends : calls[d] # "service"
    /\ \A d \in given : calls[d] \in Active \/ d \in fence' \cup delivered' \cup abandoned' \cup answered
    /\ \A e \in Sends : calls[e] = "replied" =>
          e \in answered /\ \A d \in carries[e] : calls[d] \notin Active
    /\ \A d \in Sends : calls[d] = "covered" =>
          \E e \in Sends : calls[e] = "replied" /\ d \in carries[e] /\ d \in shown /\ e \in shown

LEMMA TakesKeeps ==
  ASSUME TypeOK, PageOK,
         NEW calls \in [Sends -> Stages], NEW order \in [Sends -> SUBSET Sends],
         NEW occupied \in BOOLEAN, TakesOrParks(calls, order, occupied),
         held' \subseteq Turns, lane' \in BOOLEAN,
         fence' \subseteq Sends, delivered' \subseteq Sends, abandoned' \subseteq Sends,
         ReadyToTake(calls)
  PROVE  IInv'
<1> DEFINE T == Taken(calls)
<1>1. /\ call' \in [Sends -> Stages]
      /\ \A d \in Sends \ T : call'[d] = calls[d] /\ carries'[d] = carries[d]
      /\ given' = given \cup T
      /\ \A e \in T : carries'[e] = carries[e] \/ carries'[e] \subseteq T
      /\ page' \subseteq T
      /\ older' \in [Sends -> SUBSET Sends]
      /\ carries' \in [Sends -> SUBSET Questions]
      /\ busy' \in BOOLEAN /\ bound' \in BOOLEAN
      /\ bridge' \in {"parked", "page", "retry"}
      /\ faults' \in 0..MaxFaults
      /\ receipts' = receipts /\ shown' = shown /\ answered' = answered
  BY TakesWhatWaits
<1>2. T \subseteq Sends /\ \A d \in T : calls[d] = "queued" /\ call'[d] = "taken"
  BY DEF Taken
<1> HIDE DEF T
<1>3. given \subseteq Sends /\ shown \subseteq given /\ held' \subseteq Sends /\ carries \in [Sends -> SUBSET Sends]
  BY DEF TypeOK, Sends
<1>4. T \cap given = {}
  BY <1>2 DEF ReadyToTake, After
<1>5. TypeOK'
  BY <1>1, <1>2, <1>3 DEF TypeOK, Phases
<1>6. GivenOK' /\ HeldOK' /\ FenceOK'
  <2>1. \A d \in Sends : call'[d] = IF d \in T THEN "taken" ELSE calls[d]
    BY <1>1, <1>2
  <2>2. GivenOK'
    BY <2>1, <1>1, <1>2, <1>3 DEF GivenOK, After, ReadyToTake
  <2>3. HeldOK'
    BY <2>1, <1>3 DEF HeldOK, After, ReadyToTake
  <2>4. FenceOK'
    BY <2>1, <1>2 DEF FenceOK, ReadyToTake
  <2>. QED BY <2>2, <2>3, <2>4
<1>7. PageOK'
  <2>1. page' \subseteq given' /\ receipts' \subseteq given'
    BY <1>1 DEF PageOK
  <2>2. ASSUME NEW e \in Sends
        PROVE  /\ carries'[e] \subseteq given'
               /\ e \notin given' => carries'[e] = {}
               /\ e \in shown' /\ OfItsOwn(e)' => carries'[e] \subseteq shown'
    <3>1. CASE e \in T
      BY <3>1, <1>1, <1>3, <1>4 DEF PageOK
    <3>2. CASE e \notin T
      <4>1. ASSUME OfItsOwn(e)' PROVE OfItsOwn(e)
        <5>1. ASSUME NEW p \in Sends PROVE e \notin carries[p]
          <6>1. p \in T => carries[p] = {}
            BY <1>4 DEF PageOK
          <6>2. p \notin T => carries'[p] = carries[p]
            BY <1>1
          <6>. QED BY <4>1, <6>1, <6>2 DEF OfItsOwn
        <5>. QED BY <5>1 DEF OfItsOwn
      <4>. QED BY <3>2, <4>1, <1>1, <1>3 DEF PageOK
    <3>. QED BY <3>1, <3>2
  <2>. QED BY <2>1, <2>2 DEF PageOK
<1>8. OneDriver'
  BY <1>1, <1>2 DEF OneDriver, At, ReadyToTake
<1>9. GivenIsAccountedFor'
  <2>1. ASSUME NEW d \in given', call'[d] \notin Active
        PROVE  d \in fence' \cup delivered' \cup abandoned' \cup answered'
    <3>1. d \notin T
      BY <2>1, <1>2 DEF Active
    <3>. QED BY <2>1, <3>1, <1>1, <1>3 DEF ReadyToTake
  <2>. QED BY <2>1, <1>1, <1>2, <1>3 DEF GivenIsAccountedFor, ActiveNow
<1>10. AnswersCloseTheirBatch'
  <2>1. ASSUME NEW e \in Sends, call'[e] = "replied"
        PROVE  e \in answered' /\ \A d \in carries'[e] : call'[d] \notin Active
    <3>1. e \notin T /\ calls[e] = "replied" /\ carries'[e] = carries[e]
      BY <2>1, <1>1, <1>2
    <3>2. ASSUME NEW d \in carries[e] PROVE call'[d] \notin Active
      <4>1. d \in Sends /\ calls[d] \notin Active
        BY <3>1, <1>3 DEF ReadyToTake
      <4>2. d \notin T
        BY <4>1, <1>2 DEF Active
      <4>. QED BY <4>1, <4>2, <1>1
    <3>. QED BY <3>1, <3>2, <1>1 DEF ReadyToTake
  <2>2. ASSUME NEW d \in Sends, call'[d] = "covered"
        PROVE  \E e \in Sends : call'[e] = "replied" /\ d \in carries'[e] /\ {d, e} \subseteq shown'
    <3>1. calls[d] = "covered"
      BY <2>2, <1>1, <1>2
    <3>2. PICK e \in Sends : calls[e] = "replied" /\ d \in carries[e] /\ d \in shown /\ e \in shown
      BY <3>1 DEF ReadyToTake
    <3>3. e \notin T
      BY <3>2, <1>2
    <3>. QED BY <3>2, <3>3, <1>1
  <2>. QED BY <2>1, <2>2 DEF AnswersCloseTheirBatch, At
<1>. QED BY <1>5, <1>6, <1>7, <1>8, <1>9, <1>10 DEF IInv

LEMMA InitIInv == Init => IInv
<1> SUFFICES ASSUME Init PROVE IInv
  OBVIOUS
<1> USE DEF Init
<1>1. TypeOK
  <2>1. call \in [Sends -> Stages]
    BY DEF Stages
  <2>2. older \in [Sends -> SUBSET Sends] /\ carries \in [Sends -> SUBSET Questions]
    OBVIOUS
  <2>3. faults \in 0..MaxFaults
    BY SendsAssumption
  <2>. QED BY <2>1, <2>2, <2>3 DEF TypeOK, Phases
<1>2. GivenOK /\ HeldOK /\ FenceOK /\ PageOK
  BY DEF GivenOK, HeldOK, FenceOK, PageOK, OfItsOwn
<1>3. OneDriver /\ GivenIsAccountedFor /\ AnswersCloseTheirBatch
  BY DEF OneDriver, GivenIsAccountedFor, AnswersCloseTheirBatch, At
<1>. QED BY <1>1, <1>2, <1>3 DEF IInv

\* A step of the bridge, the windows or the seat's turn leaves every call, receipt
\* and what was given alone.
LEMMA BridgeKeeps ==
  ASSUME IInv,
         UNCHANGED <<call, older, held, carries, fenceVars, historyVars>>,
         bridge' \in Phases, bridge' = "parked" => bridge = "parked",
         page' \subseteq page, receipts' \subseteq receipts,
         busy' \in BOOLEAN, bound' \in BOOLEAN, lane' \in BOOLEAN, faults' \in 0..MaxFaults
  PROVE  IInv'
<1> USE DEF fenceVars, historyVars
<1>1. TypeOK'
  BY DEF IInv, TypeOK
<1>2. GivenOK' /\ HeldOK' /\ FenceOK' /\ PageOK'
  BY DEF IInv, GivenOK, HeldOK, FenceOK, PageOK, OfItsOwn
<1>3. OneDriver'
  BY DEF IInv, OneDriver, At
<1>4. GivenIsAccountedFor'
  BY DEF IInv, GivenIsAccountedFor, ActiveNow
<1>5. AnswersCloseTheirBatch'
  BY DEF IInv, AnswersCloseTheirBatch, At
<1>. QED BY <1>1, <1>2, <1>3, <1>4, <1>5 DEF IInv

\* A send comes to an end or back to its choice; what was given stays given,
\* and a receipt is resolved only for a send that no poll took.
LEMMA CallKeeps ==
  ASSUME IInv, NEW d \in Sends, NEW to \in Stages,
         call' = [call EXCEPT ![d] = to],
         older' \in [Sends -> SUBSET Sends],
         UNCHANGED <<held, carries, busy, laneVars, delivered, abandoned, bridgeVars, historyVars>>,
         faults' \in 0..MaxFaults,
         fence' \subseteq fence, fence \ fence' \subseteq {d},
         to \notin Active \cup {"replied", "covered"}, call[d] \notin {"replied", "covered"},
         d \in given => to \in After /\ d \in fence' \cup delivered \cup abandoned \cup answered,
         d \in held => to \in After \cup {"rejected", "aborted"},
         bridge = "parked" => to # "service"
  PROVE  IInv'
<1> USE DEF laneVars, bridgeVars, historyVars
<1>1. call \in [Sends -> Stages] /\ given \subseteq Sends /\ held \subseteq Sends
      /\ carries \in [Sends -> SUBSET Sends]
  BY DEF IInv, TypeOK, Sends
<1>2. call' \in [Sends -> Stages] /\ \A e \in Sends : call'[e] = IF e = d THEN to ELSE call[e]
  BY <1>1
<1>3. TypeOK'
  BY <1>2 DEF IInv, TypeOK
<1>4. GivenOK'
  BY <1>1, <1>2 DEF IInv, GivenOK
<1>5. HeldOK'
  BY <1>1, <1>2 DEF IInv, HeldOK
<1>6. FenceOK'
  BY <1>2 DEF IInv, FenceOK, Active
<1>7. PageOK'
  BY DEF IInv, PageOK, OfItsOwn
<1>8. OneDriver'
  BY <1>2 DEF IInv, OneDriver, At
<1>9. GivenIsAccountedFor'
  BY <1>1, <1>2 DEF IInv, GivenIsAccountedFor, ActiveNow
<1>10. AnswersCloseTheirBatch'
  <2>1. \A e \in Sends : call'[e] = "replied" =>
            call[e] = "replied" /\ \A c \in carries[e] : call'[c] \notin Active
    BY <1>1, <1>2 DEF IInv, AnswersCloseTheirBatch, At
  <2>2. \A e \in Sends : call[e] = "replied" => call'[e] = "replied"
    BY <1>2
  <2>3. \A c \in Sends : call'[c] = "covered" => call[c] = "covered"
    BY <1>2
  <2>. QED BY <2>1, <2>2, <2>3 DEF IInv, AnswersCloseTheirBatch, At
<1>. QED BY <1>3, <1>4, <1>5, <1>6, <1>7, <1>8, <1>9, <1>10 DEF IInv

LEMMA FaultIsBounded ==
  ASSUME TypeOK PROVE faults \in 0..MaxFaults /\ (Fault => faults' \in 0..MaxFaults)
<1>1. faults \in 0..MaxFaults /\ MaxFaults \in Nat
  BY SendsAssumption DEF TypeOK
<1>. QED BY <1>1 DEF Fault

LEMMA BridgeSteps ==
  ASSUME IInv,
         \/ BridgeStarts \/ Asks \/ AskFails \/ PollEmpty \/ PollAborted \/ Retries \/ ShowFails
         \/ AckGivesUp \/ TurnStarts \/ BoundLapses \/ LaneLapses \/ Stalls \/ BridgeDies
         \/ (TurnEnds /\ bridge # "parked")
  PROVE  IInv'
<1>1. TypeOK
  BY DEF IInv
<1>2. faults \in 0..MaxFaults /\ (Fault => faults' \in 0..MaxFaults)
  BY <1>1, FaultIsBounded
<1> DEFINE Left ==
      /\ UNCHANGED <<call, older, held, carries, fenceVars, historyVars>>
      /\ bridge' \in Phases /\ (bridge' = "parked" => bridge = "parked")
      /\ page' \subseteq page /\ receipts' \subseteq receipts
      /\ busy' \in BOOLEAN /\ bound' \in BOOLEAN /\ lane' \in BOOLEAN /\ faults' \in 0..MaxFaults
<1> USE DEF laneVars, bridgeVars, Phases
<1>3. bridge \in Phases /\ busy \in BOOLEAN /\ bound \in BOOLEAN /\ lane \in BOOLEAN
  BY <1>1 DEF TypeOK
<1>4. BridgeStarts \/ Asks \/ AskFails \/ Retries => Left
  BY <1>2, <1>3 DEF BridgeStarts, Asks, AskFails, Retries
<1>5. PollEmpty \/ PollAborted => Left
  BY <1>2, <1>3 DEF PollEmpty, PollAborted, AfterPage
<1>6. ShowFails \/ AckGivesUp => Left
  BY <1>2, <1>3 DEF ShowFails, AckGivesUp
<1>7. TurnStarts \/ BoundLapses \/ LaneLapses => Left
  BY <1>2, <1>3 DEF TurnStarts, BoundLapses, LaneLapses
<1>8. Stalls => Left
  BY <1>2, <1>3 DEF Stalls
<1>9. BridgeDies => Left
  BY <1>2, <1>3 DEF BridgeDies
<1>10. TurnEnds /\ bridge # "parked" => Left
  BY <1>2, <1>3 DEF TurnEnds, historyVars
<1>11. Left
  BY <1>4, <1>5, <1>6, <1>7, <1>8, <1>9, <1>10
<1>. QED BY <1>11, BridgeKeeps

LEMMA CallSteps ==
  ASSUME IInv, NEW d \in Sends,
         \/ Begins(d) \/ Chooses(d) \/ GivesUp(d) \/ AckExpires(d) \/ ReplyExpires(d) \/ Aborts(d)
         \/ LaneEnds(d) \/ (Delivers(d) /\ (Conflict(d) # {} \/ ~HoldsLane))
  PROVE  IInv'
<1>1. TypeOK
  BY DEF IInv
<1>2. faults \in 0..MaxFaults /\ (Fault => faults' \in 0..MaxFaults)
  BY <1>1, FaultIsBounded
<1>3. /\ call \in [Sends -> Stages] /\ older \in [Sends -> SUBSET Sends]
      /\ d \in given => call[d] \in After
      /\ d \in held => call[d] \in After \cup {"queued", "rejected", "aborted"}
      /\ call[d] = "taken" => d \in fence
      /\ call[d] = "awaiting" => d \in delivered
      /\ \A calls : Order(calls) \in [Sends -> SUBSET Sends]
  BY DEF IInv, TypeOK, GivenOK, HeldOK, FenceOK, Order, Waiting
<1> DEFINE To(to) ==
      /\ call' = [call EXCEPT ![d] = to]
      /\ older' \in [Sends -> SUBSET Sends]
      /\ UNCHANGED <<held, carries, busy, laneVars, delivered, abandoned, bridgeVars, historyVars>>
      /\ faults' \in 0..MaxFaults
      /\ fence' \subseteq fence /\ fence \ fence' \subseteq {d}
      /\ to \notin Active \cup {"replied", "covered"} /\ call[d] \notin {"replied", "covered"}
      /\ d \in given => to \in After /\ d \in fence' \cup delivered \cup abandoned \cup answered
      /\ d \in held => to \in After \cup {"rejected", "aborted"}
      /\ bridge = "parked" => to # "service"
<1> USE DEF fenceVars, Active, After
<1>4. Begins(d) => To("choosing")
  BY <1>2, <1>3 DEF Begins
<1>5. Chooses(d) => To("seat") \/ To("service")
  BY <1>2, <1>3 DEF Chooses, HoldsLane, Bound
<1>6. Delivers(d) /\ (Conflict(d) # {} \/ ~HoldsLane) => To("unconfirmed") \/ To("choosing")
  BY <1>2, <1>3 DEF Delivers
<1>7. GivesUp(d) => To("rejected") \/ To("choosing")
  <2>1. SUFFICES ASSUME GivesUp(d) PROVE To("rejected") \/ To("choosing")
    OBVIOUS
  <2>2. call[d] = "queued" /\ fence' = fence \ {d} /\ call' = [call EXCEPT ![d] = WithoutSeat(d)]
    BY <2>1 DEF GivesUp
  <2>3. \/ d \in held /\ WithoutSeat(d) = "rejected"
        \/ d \notin held /\ WithoutSeat(d) = "choosing"
    BY <2>1 DEF GivesUp, WithoutSeat
  <2>4. older' \in [Sends -> SUBSET Sends] /\ d \notin given
    BY <2>1, <2>2, <1>3 DEF GivesUp
  <2>. QED BY <2>1, <2>2, <2>3, <2>4, <1>2 DEF GivesUp
<1>8. AckExpires(d) => To("unconfirmed")
  BY <1>2, <1>3 DEF AckExpires, Expired
<1>9. ReplyExpires(d) => To("delivered")
  BY <1>2, <1>3 DEF ReplyExpires
<1>10. Aborts(d) => To("unconfirmed") \/ To("delivered") \/ To("aborted")
  <2>1. SUFFICES ASSUME Aborts(d) PROVE To("unconfirmed") \/ To("delivered") \/ To("aborted")
    OBVIOUS
  <2>2. older' \in [Sends -> SUBSET Sends]
    BY <2>1, <1>3 DEF Aborts
  <2>3. faults' \in 0..MaxFaults /\ call[d] \in Running
    BY <2>1, <1>2 DEF Aborts
  <2>4. CASE call[d] = "taken"
    <3>1. call' = [call EXCEPT ![d] = "unconfirmed"] /\ fence' = fence
      BY <2>1, <2>4 DEF Aborts
    <3>. QED BY <2>1, <2>2, <2>3, <2>4, <3>1, <1>3 DEF Aborts
  <2>5. CASE call[d] = "awaiting"
    <3>1. call' = [call EXCEPT ![d] = "delivered"] /\ fence' = fence
      BY <2>1, <2>5 DEF Aborts
    <3>. QED BY <2>1, <2>2, <2>3, <2>5, <3>1, <1>3 DEF Aborts
  <2>6. CASE call[d] \notin {"taken", "awaiting"}
    <3>1. call' = [call EXCEPT ![d] = "aborted"]
      BY <2>1, <2>6 DEF Aborts
    <3>2. d \notin given
      BY <2>3, <2>6, <1>3 DEF Running
    <3>3. fence' = IF call[d] = "queued" THEN fence \ {d} ELSE fence
      BY <2>1 DEF Aborts
    <3>4. call[d] \notin {"replied", "covered"}
      BY <2>3 DEF Running
    <3>. QED BY <2>1, <2>2, <2>3, <3>1, <3>2, <3>3, <3>4 DEF Aborts
  <2>. QED BY <2>4, <2>5, <2>6
<1>11. LaneEnds(d) => To("ran")
  BY <1>2, <1>3 DEF LaneEnds
<1>12. PICK to \in {"choosing", "seat", "service", "rejected", "unconfirmed", "delivered", "aborted", "ran"} : To(to)
  BY <1>4, <1>5, <1>6, <1>7, <1>8, <1>9, <1>10, <1>11
<1>13. to \in Stages
  BY DEF Stages, Running, Ended
<1>. QED BY <1>12, <1>13, CallKeeps

LEMMA DeliversKeeps ==
  ASSUME IInv, NEW d \in Sends, Delivers(d) PROVE IInv'
<1>1. CASE Conflict(d) # {} \/ ~HoldsLane
  BY <1>1, CallSteps
<1>2. CASE ~(Conflict(d) # {} \/ ~HoldsLane)
  <2> DEFINE calls == [call EXCEPT ![d] = "queued"]
             order == [older EXCEPT ![d] = Waiting(call)]
  <2>1. /\ call[d] = "seat"
        /\ fence' = fence \cup {d}
        /\ held' = IF d \in Turns /\ busy THEN held \cup {d} ELSE held
        /\ UNCHANGED <<lane, delivered, abandoned>>
        /\ IF bridge = "parked"
           THEN TakesOrParks(calls, order, busy)
           ELSE /\ call' = calls /\ older' = order
                /\ UNCHANGED <<carries, busy, bound, bridgeVars, historyVars, faults>>
    BY <1>2 DEF Delivers
  <2>2. /\ TypeOK /\ PageOK /\ GivenOK /\ HeldOK /\ FenceOK
        /\ OneDriver /\ GivenIsAccountedFor /\ AnswersCloseTheirBatch
    BY DEF IInv
  <2>3. /\ call \in [Sends -> Stages] /\ older \in [Sends -> SUBSET Sends] /\ given \subseteq Sends
        /\ held \subseteq Turns /\ carries \in [Sends -> SUBSET Sends] /\ Turns \subseteq Sends
    BY <2>2 DEF TypeOK, Sends
  <2>4. calls \in [Sends -> Stages] /\ order \in [Sends -> SUBSET Sends]
        /\ \A e \in Sends : calls[e] = IF e = d THEN "queued" ELSE call[e]
    BY <2>3 DEF Waiting, Stages, Running, Active
  <2>5. held' \subseteq Turns /\ held' \subseteq held \cup {d}
    BY <2>1, <2>3
  <2>6. fence' \subseteq Sends /\ delivered' \subseteq Sends /\ abandoned' \subseteq Sends /\ lane' \in BOOLEAN
    BY <2>1, <2>2 DEF TypeOK
  <2>7. d \notin given /\ \A e \in Sends : carries[e] \subseteq given
    BY <2>1, <2>2 DEF GivenOK, After, PageOK
  <2> HIDE DEF calls, order
  <2>8. /\ \A e \in given : calls[e] \in After
        /\ \A e \in held' : calls[e] \in After \cup {"queued", "rejected", "aborted"}
    BY <2>2, <2>3, <2>4, <2>5, <2>7 DEF GivenOK, HeldOK
  <2>9. /\ \A e \in Sends : calls[e] \in {"queued", "taken"} => e \in fence'
        /\ \A e \in Sends : calls[e] = "awaiting" => e \in delivered'
    BY <2>1, <2>2, <2>4 DEF FenceOK
  <2>10. \A e \in given : calls[e] \in Active \/ e \in fence' \cup delivered' \cup abandoned' \cup answered
    BY <2>1, <2>2, <2>3, <2>4, <2>7 DEF GivenIsAccountedFor, ActiveNow
  <2>11. \A e \in Sends : calls[e] = "replied" =>
            e \in answered /\ \A c \in carries[e] : calls[c] \notin Active
    BY <2>2, <2>3, <2>4, <2>7 DEF AnswersCloseTheirBatch, At
  <2>12. \A c \in Sends : calls[c] = "covered" =>
            \E e \in Sends : calls[e] = "replied" /\ c \in carries[e] /\ c \in shown /\ e \in shown
    <3>1. ASSUME NEW c \in Sends, calls[c] = "covered"
          PROVE  \E e \in Sends : calls[e] = "replied" /\ c \in carries[e] /\ c \in shown /\ e \in shown
      <4>1. call[c] = "covered"
        BY <3>1, <2>4
      <4>2. PICK e \in Sends : call[e] = "replied" /\ c \in carries[e] /\ c \in shown /\ e \in shown
        BY <4>1, <2>2 DEF AnswersCloseTheirBatch, At
      <4>3. e # d
        BY <4>2, <2>1
      <4>. QED BY <4>2, <4>3, <2>4
    <3>. QED BY <3>1
  <2>13. CASE bridge = "parked"
    <3>1. \A e \in Sends : calls[e] # "service"
      BY <2>13, <2>2, <2>4 DEF OneDriver, At
    <3>2. ReadyToTake(calls)
      BY <2>8, <2>9, <2>10, <2>11, <2>12, <3>1 DEF ReadyToTake
    <3>3. TakesOrParks(calls, order, busy) /\ busy \in BOOLEAN
      BY <2>13, <2>1, <2>2 DEF TypeOK
    <3>. QED BY <2>2, <2>4, <2>5, <2>6, <3>2, <3>3, TakesKeeps
  <2>14. CASE bridge # "parked"
    <3>1. /\ call' = calls /\ older' = order
          /\ UNCHANGED <<carries, busy, bound, bridge, page, receipts, given, shown, answered, faults>>
      BY <2>14, <2>1 DEF bridgeVars, historyVars
    <3>2. TypeOK'
      BY <3>1, <2>2, <2>4, <2>5, <2>6 DEF TypeOK
    <3>3. GivenOK' /\ HeldOK' /\ FenceOK'
      BY <3>1, <2>8, <2>9 DEF GivenOK, HeldOK, FenceOK
    <3>4. PageOK' /\ OneDriver'
      BY <3>1, <2>2, <2>14 DEF PageOK, OfItsOwn, OneDriver
    <3>5. GivenIsAccountedFor'
      BY <3>1, <2>3, <2>10 DEF GivenIsAccountedFor, ActiveNow
    <3>6. AnswersCloseTheirBatch'
      BY <3>1, <2>11, <2>12 DEF AnswersCloseTheirBatch, At
    <3>. QED BY <3>2, <3>3, <3>4, <3>5, <3>6 DEF IInv
  <2>. QED BY <2>13, <2>14
<1>. QED BY <1>1, <1>2

LEMMA TurnEndsKeeps ==
  ASSUME IInv, TurnEnds PROVE IInv'
<1>1. CASE bridge # "parked"
  BY <1>1, BridgeSteps
<1>2. CASE bridge = "parked"
  <2>1. /\ TypeOK /\ PageOK /\ GivenOK /\ HeldOK /\ FenceOK
        /\ OneDriver /\ GivenIsAccountedFor /\ AnswersCloseTheirBatch
    BY DEF IInv
  <2>2. TakesOrParks(call, older, FALSE) /\ UNCHANGED <<held, lane, fence, delivered, abandoned>>
    BY <1>2 DEF TurnEnds, fenceVars
  <2>3. /\ call \in [Sends -> Stages] /\ older \in [Sends -> SUBSET Sends] /\ given \subseteq Sends
        /\ held' \subseteq Turns /\ lane' \in BOOLEAN /\ fence' \subseteq Sends
        /\ delivered' \subseteq Sends /\ abandoned' \subseteq Sends
    BY <2>1, <2>2 DEF TypeOK
  <2>4. /\ \A d \in given : call[d] \in Active \/ d \in fence' \cup delivered' \cup abandoned' \cup answered
        /\ \A d \in Sends : call[d] # "service"
    BY <1>2, <2>1, <2>2, <2>3 DEF GivenIsAccountedFor, ActiveNow, OneDriver, At
  <2>5. /\ \A e \in Sends : call[e] = "replied" =>
              e \in answered /\ \A d \in carries[e] : call[d] \notin Active
        /\ \A d \in Sends : call[d] = "covered" =>
              \E e \in Sends : call[e] = "replied" /\ d \in carries[e] /\ d \in shown /\ e \in shown
    BY <2>1 DEF AnswersCloseTheirBatch, At
  <2>6. ReadyToTake(call)
    BY <2>1, <2>2, <2>4, <2>5 DEF ReadyToTake, GivenOK, HeldOK, FenceOK
  <2>. QED BY <2>1, <2>2, <2>3, <2>6, TakesKeeps
<1>. QED BY <1>1, <1>2

LEMMA PollsKeeps ==
  ASSUME IInv, Polls PROVE IInv'
<1> DEFINE calls == Acked(At("taken"))
<1>1. /\ TypeOK /\ PageOK /\ GivenOK /\ HeldOK /\ FenceOK
      /\ GivenIsAccountedFor /\ AnswersCloseTheirBatch
  BY DEF IInv
<1>2. /\ call \in [Sends -> Stages] /\ older \in [Sends -> SUBSET Sends] /\ given \subseteq Sends
      /\ held \subseteq Turns /\ busy \in BOOLEAN /\ Turns \subseteq Sends
      /\ carries \in [Sends -> SUBSET Sends]
  BY <1>1 DEF TypeOK, Sends
<1>3. \A d \in Sends : calls[d] = IF call[d] = "taken"
                                  THEN IF d \in Questions THEN "awaiting" ELSE "delivered"
                                  ELSE call[d]
  BY DEF Acked, At
<1>4. calls \in [Sends -> Stages]
  <2>1. "awaiting" \in Stages /\ "delivered" \in Stages
    BY DEF Stages, Running, Active, Ended
  <2>. QED BY <1>2, <2>1 DEF Acked
<1>5. /\ TakesOrParks(calls, older, busy)
      /\ fence' = fence \ At("taken") /\ delivered' = delivered \cup At("taken")
      /\ lane' = TRUE /\ UNCHANGED <<held, abandoned>>
      /\ \A d \in Sends : call[d] # "service"
  BY DEF Polls, Admitted, At
<1>6. /\ held' \subseteq Turns /\ lane' \in BOOLEAN /\ fence' \subseteq Sends
      /\ delivered' \subseteq Sends /\ abandoned' \subseteq Sends
  BY <1>1, <1>5 DEF TypeOK, At
<1> HIDE DEF calls
<1>7. ReadyToTake(calls)
  <2>1. /\ \A d \in given : calls[d] \in After
        /\ \A d \in held' : calls[d] \in After \cup {"queued", "rejected", "aborted"}
    BY <1>1, <1>2, <1>3, <1>5 DEF GivenOK, HeldOK, After
  <2>2. /\ \A d \in Sends : calls[d] \in {"queued", "taken"} => d \in fence'
        /\ \A d \in Sends : calls[d] = "awaiting" => d \in delivered'
        /\ \A d \in Sends : calls[d] # "service"
    BY <1>1, <1>3, <1>5 DEF FenceOK, At
  <2>3. \A d \in given : calls[d] \in Active \/ d \in fence' \cup delivered' \cup abandoned' \cup answered
    BY <1>1, <1>2, <1>3, <1>5 DEF GivenIsAccountedFor, ActiveNow, At, Active
  <2>4. \A e \in Sends : calls[e] = "replied" =>
            e \in answered /\ \A d \in carries[e] : calls[d] \notin Active
    BY <1>1, <1>2, <1>3 DEF AnswersCloseTheirBatch, At, Active
  <2>5. \A d \in Sends : calls[d] = "covered" =>
            \E e \in Sends : calls[e] = "replied" /\ d \in carries[e] /\ d \in shown /\ e \in shown
    BY <1>1, <1>3 DEF AnswersCloseTheirBatch, At
  <2>. QED BY <2>1, <2>2, <2>3, <2>4, <2>5 DEF ReadyToTake
<1>. QED BY <1>1, <1>2, <1>4, <1>5, <1>6, <1>7, TakesKeeps

LEMMA AbandonKeeps ==
  ASSUME IInv, NEW d \in Sends, AbandonUnknown(d) PROVE IInv'
<1>1. /\ d \in fence /\ call[d] \notin Active
      /\ fence' = fence \ {d} /\ abandoned' = abandoned \cup {d} /\ faults' \in 0..MaxFaults
      /\ UNCHANGED <<call, older, held, carries, busy, bound, lane, delivered, bridge, page, receipts,
                     given, shown, answered>>
  BY FaultIsBounded DEF AbandonUnknown, Unresolved, ActiveNow, IInv, laneVars, bridgeVars, historyVars
<1>2. TypeOK'
  BY <1>1 DEF IInv, TypeOK
<1>3. GivenOK' /\ HeldOK' /\ FenceOK' /\ PageOK'
  BY <1>1 DEF IInv, GivenOK, HeldOK, FenceOK, PageOK, OfItsOwn, Active
<1>4. OneDriver' /\ AnswersCloseTheirBatch'
  BY <1>1 DEF IInv, OneDriver, AnswersCloseTheirBatch, At
<1>5. GivenIsAccountedFor'
  BY <1>1 DEF IInv, GivenIsAccountedFor, ActiveNow
<1>. QED BY <1>2, <1>3, <1>4, <1>5 DEF IInv

LEMMA ShowsKeeps ==
  ASSUME IInv, NEW e \in Sends, Shows(e) PROVE IInv'
<1>1. /\ e \in page /\ page' = page \ {e} /\ receipts' = receipts \cup {e}
      /\ shown' = shown \cup {e} \cup carries[e]
      /\ bridge' \in {"acking", "page"}
      /\ UNCHANGED <<call, older, held, carries, busy, bound, lane, fence, delivered, abandoned, given,
                     answered, faults>>
  BY DEF Shows, laneVars, fenceVars
<1>2. page \subseteq given /\ carries[e] \subseteq given
  BY DEF IInv, PageOK, OfItsOwn
<1>3. TypeOK'
  BY <1>1, <1>2 DEF IInv, TypeOK, Phases
<1>4. GivenOK' /\ HeldOK' /\ FenceOK'
  BY <1>1 DEF IInv, GivenOK, HeldOK, FenceOK
<1>5. PageOK'
  <2>1. page' \subseteq given' /\ receipts' \subseteq given'
    BY <1>1, <1>2 DEF IInv, PageOK
  <2>2. ASSUME NEW f \in Sends
        PROVE  /\ carries'[f] \subseteq given'
               /\ f \notin given' => carries'[f] = {}
               /\ f \in shown' /\ OfItsOwn(f)' => carries'[f] \subseteq shown'
    <3>1. OfItsOwn(f)' => OfItsOwn(f) /\ f \notin carries[e]
      BY <1>1 DEF OfItsOwn
    <3>. QED BY <3>1, <1>1 DEF IInv, PageOK
  <2>. QED BY <2>1, <2>2 DEF PageOK
<1>6. OneDriver' /\ GivenIsAccountedFor'
  BY <1>1 DEF IInv, OneDriver, GivenIsAccountedFor, ActiveNow
<1>7. AnswersCloseTheirBatch'
  BY <1>1 DEF IInv, AnswersCloseTheirBatch, At
<1>. QED BY <1>3, <1>4, <1>5, <1>6, <1>7 DEF IInv

LEMMA AckKeeps ==
  ASSUME IInv, NEW e \in Sends, AckReaches(e) PROVE IInv'
<1>1. /\ TypeOK /\ PageOK /\ GivenOK /\ HeldOK /\ FenceOK
      /\ GivenIsAccountedFor /\ AnswersCloseTheirBatch
  BY DEF IInv
<1>2. /\ e \in receipts /\ receipts' = receipts \ {e} /\ bridge' \in {"ready", "acking"}
      /\ UNCHANGED <<older, held, carries, busy, bound, lane, abandoned, page, given, shown, answered,
                     faults>>
  BY DEF AckReaches, AfterPage, laneVars, historyVars
<1>3. /\ call \in [Sends -> Stages] /\ given \subseteq Sends /\ held \subseteq Sends
      /\ carries \in [Sends -> SUBSET Sends] /\ fence \subseteq Sends /\ delivered \subseteq Sends
  BY <1>1 DEF TypeOK, Sends
<1>4. e \in given
  BY <1>1, <1>2 DEF PageOK
<1> DEFINE E == EventOf(e)
<1>5. CASE call[e] = "taken"
  <2>1. call' = Acked(E) /\ fence' = fence \ E /\ delivered' = delivered \cup E
    BY <1>5 DEF AckReaches
  <2>2. E \subseteq Sends /\ \A d \in E : call[d] = "taken"
    BY <1>3 DEF EventOf
  <2> HIDE DEF E
  <2>3. \A d \in Sends : call'[d] = IF d \in E
                                    THEN IF d \in Questions THEN "awaiting" ELSE "delivered"
                                    ELSE call[d]
    BY <2>1, <2>2 DEF Acked
  <2>4. call' \in [Sends -> Stages]
    <3>1. "awaiting" \in Stages /\ "delivered" \in Stages
      BY DEF Stages, Running, Active, Ended
    <3>. QED BY <1>3, <2>1, <3>1 DEF Acked
  <2>5. TypeOK'
    BY <1>1, <1>2, <2>1, <2>2, <2>4 DEF TypeOK, Phases
  <2>6. GivenOK' /\ HeldOK'
    BY <1>1, <1>2, <1>3, <2>3 DEF GivenOK, HeldOK, After
  <2>7. FenceOK'
    BY <1>1, <2>1, <2>2, <2>3 DEF FenceOK
  <2>8. PageOK' /\ OneDriver'
    BY <1>1, <1>2 DEF PageOK, OfItsOwn, OneDriver
  <2>9. GivenIsAccountedFor'
    BY <1>1, <1>2, <1>3, <2>1, <2>2, <2>3 DEF GivenIsAccountedFor, ActiveNow, Active
  <2>10. AnswersCloseTheirBatch'
    <3>1. \A f \in Sends : call'[f] = "replied" =>
              call[f] = "replied" /\ \A d \in carries[f] : call'[d] \notin Active
      BY <1>1, <1>3, <2>2, <2>3 DEF AnswersCloseTheirBatch, At, Active
    <3>2. \A f \in Sends : call[f] = "replied" => call'[f] = "replied"
      BY <2>2, <2>3
    <3>3. \A d \in Sends : call'[d] = "covered" => call[d] = "covered"
      BY <2>3
    <3>. QED BY <1>1, <1>2, <3>1, <3>2, <3>3 DEF AnswersCloseTheirBatch, At
  <2>. QED BY <2>5, <2>6, <2>7, <2>8, <2>9, <2>10 DEF IInv
<1>6. CASE call[e] # "taken"
  <2>1. call' = call /\ fence' = fence \ {e} /\ delivered' = delivered \cup ({e} \cap fence)
    BY <1>6 DEF AckReaches
  <2>2. call[e] # "queued"
    BY <1>1, <1>4 DEF GivenOK, After
  <2>3. TypeOK'
    BY <1>1, <1>2, <2>1 DEF TypeOK, Phases
  <2>4. GivenOK' /\ HeldOK' /\ PageOK' /\ OneDriver'
    BY <1>1, <1>2, <2>1 DEF GivenOK, HeldOK, PageOK, OfItsOwn, OneDriver
  <2>5. FenceOK'
    BY <1>1, <1>6, <2>1, <2>2 DEF FenceOK
  <2>6. GivenIsAccountedFor' /\ AnswersCloseTheirBatch'
    BY <1>1, <1>2, <2>1 DEF GivenIsAccountedFor, ActiveNow, AnswersCloseTheirBatch, At
  <2>. QED BY <2>3, <2>4, <2>5, <2>6 DEF IInv
<1>. QED BY <1>5, <1>6

LEMMA RepliesKeeps ==
  ASSUME IInv, NEW e \in Sends, Replies(e) PROVE IInv'
<1>1. /\ TypeOK /\ PageOK /\ GivenOK /\ HeldOK /\ FenceOK
      /\ OneDriver /\ GivenIsAccountedFor /\ AnswersCloseTheirBatch
  BY DEF IInv
<1>2. /\ e \in shown /\ e \in Questions /\ OfItsOwn(e) /\ answered' = answered \cup {e}
      /\ UNCHANGED <<older, held, carries, busy, bound, lane, abandoned, bridge, page, receipts, given,
                     shown, faults>>
  BY DEF Replies, OfItsOwn, laneVars, bridgeVars
<1>3. /\ call \in [Sends -> Stages] /\ given \subseteq Sends /\ held \subseteq Sends
      /\ carries \in [Sends -> SUBSET Sends] /\ fence \subseteq Sends /\ delivered \subseteq Sends
      /\ shown \subseteq given
  BY <1>1 DEF TypeOK, Sends
<1>4. e \in given /\ carries[e] \subseteq given /\ carries[e] \subseteq shown
  BY <1>1, <1>2, <1>3 DEF PageOK
<1>5. CASE call[e] \in {"taken", "awaiting"}
  <2> DEFINE A == AnswersWith(e)
             E == EventOf(e)
  <2>1. /\ call' = [d \in Sends |-> IF d = e THEN "replied" ELSE IF d \in A THEN "covered" ELSE call[d]]
        /\ fence' = fence \ ({e} \cup A) /\ delivered' = delivered \cup E
    BY <1>5 DEF Replies
  <2>2. /\ A \subseteq carries[e] /\ E \subseteq Sends
        /\ \A d \in A : call[d] \in {"taken", "awaiting"}
        /\ \A d \in carries[e] \ A : call[d] \notin {"taken", "awaiting"}
        /\ \A d \in A \cup {e} : call[d] = "taken" => d \in E
    BY <1>3 DEF AnswersWith, EventOf
  <2> HIDE DEF A, E
  <2>3. \A d \in Sends : call'[d] = IF d = e THEN "replied" ELSE IF d \in A THEN "covered" ELSE call[d]
    BY <2>1
  <2>4. call' \in [Sends -> Stages]
    <3>1. "replied" \in Stages /\ "covered" \in Stages
      BY DEF Stages, Ended
    <3>. QED BY <1>3, <2>1, <3>1
  <2>5. TypeOK'
    BY <1>1, <1>2, <2>1, <2>2, <2>4 DEF TypeOK
  <2>6. GivenOK' /\ HeldOK'
    BY <1>1, <1>2, <1>3, <2>3 DEF GivenOK, HeldOK, After
  <2>7. FenceOK'
    BY <1>1, <2>1, <2>3 DEF FenceOK
  <2>8. PageOK' /\ OneDriver'
    BY <1>1, <1>2, <2>3 DEF PageOK, OfItsOwn, OneDriver, At
  <2>9. GivenIsAccountedFor'
    <3>1. ASSUME NEW d \in given, call'[d] \notin Active
          PROVE  d \in fence' \cup delivered' \cup abandoned' \cup answered'
      <4>1. CASE d \in A \cup {e}
        <5>1. d \in Sends /\ (call[d] = "taken" \/ call[d] = "awaiting")
          BY <4>1, <1>3, <1>5, <2>2
        <5>. QED BY <4>1, <5>1, <2>1, <2>2, <1>1 DEF FenceOK
      <4>2. CASE d \notin A \cup {e}
        BY <3>1, <4>2, <1>1, <1>2, <1>3, <2>1, <2>3 DEF GivenIsAccountedFor, ActiveNow
      <4>. QED BY <4>1, <4>2
    <3>. QED BY <3>1, <1>2, <1>3 DEF GivenIsAccountedFor, ActiveNow
  <2>10. AnswersCloseTheirBatch'
    <3>1. ASSUME NEW f \in Sends, call'[f] = "replied"
          PROVE  f \in answered' /\ \A d \in carries[f] : call'[d] \notin Active
      <4>1. CASE f = e
        <5>1. ASSUME NEW d \in carries[e] PROVE call'[d] \notin Active
          <6>1. d \in Sends /\ call[d] \in After
            BY <1>1, <1>3, <1>4 DEF GivenOK
          <6>. QED BY <6>1, <2>2, <2>3 DEF After, Active
        <5>. QED BY <4>1, <5>1, <1>2
      <4>2. CASE f # e
        <5>1. call[f] = "replied"
          BY <3>1, <4>2, <2>3
        <5>. QED BY <5>1, <1>1, <1>2, <1>3, <2>3 DEF AnswersCloseTheirBatch, At, Active
      <4>. QED BY <4>1, <4>2
    <3>2. ASSUME NEW d \in Sends, call'[d] = "covered"
          PROVE  \E f \in Sends : call'[f] = "replied" /\ d \in carries[f] /\ {d, f} \subseteq shown
      <4>1. CASE d \in A
        <5>1. call'[e] = "replied" /\ d \in carries[e] /\ {d, e} \subseteq shown
          BY <4>1, <1>2, <1>4, <2>2, <2>3
        <5>. QED BY <5>1
      <4>2. CASE d \notin A
        <5>1. call[d] = "covered"
          BY <3>2, <4>2, <2>3
        <5>2. PICK f \in Sends : call[f] = "replied" /\ d \in carries[f] /\ {d, f} \subseteq shown
          BY <5>1, <1>1 DEF AnswersCloseTheirBatch, At
        <5>3. call'[f] = "replied"
          BY <5>2, <2>2, <2>3
        <5>. QED BY <5>2, <5>3
      <4>. QED BY <4>1, <4>2
    <3>. QED BY <3>1, <3>2, <1>2 DEF AnswersCloseTheirBatch, At
  <2>. QED BY <2>5, <2>6, <2>7, <2>8, <2>9, <2>10 DEF IInv
<1>6. CASE call[e] \notin {"taken", "awaiting"}
  <2>1. call' = call /\ fence' = fence \ {e} /\ delivered' = delivered
    BY <1>6 DEF Replies
  <2>2. call[e] # "queued"
    BY <1>1, <1>4 DEF GivenOK, After
  <2>3. TypeOK'
    BY <1>1, <1>2, <2>1 DEF TypeOK
  <2>4. GivenOK' /\ HeldOK' /\ PageOK' /\ OneDriver'
    BY <1>1, <1>2, <2>1 DEF GivenOK, HeldOK, PageOK, OfItsOwn, OneDriver, At
  <2>5. FenceOK'
    BY <1>1, <1>6, <2>1, <2>2 DEF FenceOK
  <2>6. GivenIsAccountedFor' /\ AnswersCloseTheirBatch'
    BY <1>1, <1>2, <2>1 DEF GivenIsAccountedFor, ActiveNow, AnswersCloseTheirBatch, At
  <2>. QED BY <2>3, <2>4, <2>5, <2>6 DEF IInv
<1>. QED BY <1>5, <1>6

LEMMA RestartKeeps ==
  ASSUME IInv, ServiceRestarts PROVE IInv'
<1>1. /\ TypeOK /\ PageOK /\ GivenOK /\ HeldOK /\ FenceOK
      /\ GivenIsAccountedFor /\ AnswersCloseTheirBatch
  BY DEF IInv
<1>2. /\ call' = [d \in Sends |-> IF call[d] \in Running THEN "interrupted" ELSE call[d]]
      /\ older' = [d \in Sends |-> {}]
      /\ busy' \in BOOLEAN /\ bound' \in BOOLEAN /\ lane' \in BOOLEAN
      /\ fence' \subseteq fence /\ fence \ fence' \subseteq At("queued")
      /\ bridge' \in Phases /\ bridge' # "parked"
      /\ faults' \in 0..MaxFaults
      /\ UNCHANGED <<held, carries, delivered, abandoned, page, receipts, given, shown, answered>>
  <2>1. bound \in BOOLEAN /\ lane \in BOOLEAN /\ bridge \in Phases
    BY <1>1 DEF TypeOK
  <2>2. bound' \in BOOLEAN /\ lane' \in BOOLEAN
    BY <2>1 DEF ServiceRestarts
  <2>3. bridge' \in Phases /\ bridge' # "parked"
    BY <2>1 DEF ServiceRestarts, Phases
  <2>. QED BY <2>2, <2>3, <1>1, FaultIsBounded DEF ServiceRestarts, SettledByStop, historyVars
<1>3. /\ call \in [Sends -> Stages] /\ given \subseteq Sends /\ held \subseteq Sends
      /\ carries \in [Sends -> SUBSET Sends]
  BY <1>1 DEF TypeOK, Sends
<1>4. \A d \in Sends : call'[d] = IF call[d] \in Running THEN "interrupted" ELSE call[d]
  BY <1>2
<1>5. TypeOK'
  <2>1. call' \in [Sends -> Stages]
    BY <1>2, <1>3 DEF Stages, Ended
  <2>2. older' \in [Sends -> SUBSET Sends]
    BY <1>2
  <2>. QED BY <1>1, <1>2, <2>1, <2>2 DEF TypeOK
<1>6. GivenOK' /\ HeldOK' /\ FenceOK'
  BY <1>1, <1>2, <1>3, <1>4 DEF GivenOK, HeldOK, FenceOK, After, Running, Active
<1>7. PageOK' /\ OneDriver'
  BY <1>1, <1>2 DEF PageOK, OfItsOwn, OneDriver
<1>8. GivenIsAccountedFor'
  <2>1. ASSUME NEW d \in given PROVE d \in fence' \cup delivered' \cup abandoned' \cup answered'
    <3>1. d \in Sends /\ call[d] # "queued"
      BY <1>1, <1>3 DEF GivenOK, After
    <3>2. d \in fence \cup delivered \cup abandoned \cup answered
      BY <3>1, <1>1 DEF FenceOK, GivenIsAccountedFor, ActiveNow, Active
    <3>. QED BY <3>1, <3>2, <1>2 DEF At
  <2>. QED BY <2>1, <1>2 DEF GivenIsAccountedFor
<1>9. AnswersCloseTheirBatch'
  <2>1. \A d \in Sends : call'[d] \notin Active
                         /\ (call'[d] = "replied" <=> call[d] = "replied")
                         /\ (call'[d] = "covered" <=> call[d] = "covered")
    BY <1>4 DEF Running, Active
  <2>. QED BY <2>1, <1>1, <1>2, <1>3 DEF AnswersCloseTheirBatch, At
<1>. QED BY <1>5, <1>6, <1>7, <1>8, <1>9 DEF IInv

-----------------------------------------------------------------------------
(* The theorems.                                                           *)

LEMMA StepIInv == IInv /\ [Next]_vars => IInv'
<1> SUFFICES ASSUME IInv, [Next]_vars PROVE IInv'
  OBVIOUS
<1>1. CASE UNCHANGED vars
  <2>1. TypeOK'
    BY <1>1 DEF IInv, TypeOK, vars, laneVars, fenceVars, bridgeVars, historyVars
  <2>2. GivenOK' /\ HeldOK' /\ FenceOK' /\ PageOK'
    BY <1>1 DEF IInv, GivenOK, HeldOK, FenceOK, PageOK, OfItsOwn, vars, fenceVars, bridgeVars, historyVars
  <2>3. OneDriver' /\ GivenIsAccountedFor' /\ AnswersCloseTheirBatch'
    BY <1>1 DEF IInv, OneDriver, GivenIsAccountedFor, AnswersCloseTheirBatch, At, ActiveNow, vars,
                fenceVars, bridgeVars, historyVars
  <2>. QED BY <2>1, <2>2, <2>3 DEF IInv
<1>2. ASSUME NEW d \in Sends,
             \/ Begins(d) \/ Chooses(d) \/ GivesUp(d) \/ AckExpires(d) \/ ReplyExpires(d)
             \/ Aborts(d) \/ LaneEnds(d)
      PROVE  IInv'
  BY <1>2, CallSteps
<1>3. ASSUME NEW d \in Sends, Delivers(d) PROVE IInv'
  BY <1>3, DeliversKeeps
<1>4. ASSUME NEW d \in Sends, AbandonUnknown(d) PROVE IInv'
  BY <1>4, AbandonKeeps
<1>5. ASSUME NEW d \in Sends, Shows(d) PROVE IInv'
  BY <1>5, ShowsKeeps
<1>6. ASSUME NEW d \in Sends, AckReaches(d) PROVE IInv'
  BY <1>6, AckKeeps
<1>7. ASSUME NEW d \in Sends, Replies(d) PROVE IInv'
  BY <1>7, RepliesKeeps
<1>8. CASE \/ BridgeStarts \/ Asks \/ AskFails \/ PollEmpty \/ PollAborted \/ Retries \/ ShowFails
           \/ AckGivesUp \/ TurnStarts \/ BoundLapses \/ LaneLapses \/ Stalls \/ BridgeDies
  BY <1>8, BridgeSteps
<1>9. CASE Polls
  BY <1>9, PollsKeeps
<1>10. CASE TurnEnds
  BY <1>10, TurnEndsKeeps
<1>11. CASE ServiceRestarts
  BY <1>11, RestartKeeps
<1>. QED BY <1>1, <1>2, <1>3, <1>4, <1>5, <1>6, <1>7, <1>8, <1>9, <1>10, <1>11 DEF Next

\* The invariant of the calls, the receipts and what the bridge was given.
THEOREM SeatInvariance == Spec => []IInv
  BY InitIInv, StepIInv, PTL DEF Spec

\* Every send, receipt and page keeps its type, for any sends and faults.
THEOREM SeatTypes == Spec => []TypeOK
<1>1. IInv => TypeOK
  BY DEF IInv
<1>. QED BY <1>1, SeatInvariance, PTL

\* What a poll has taken is never queued again and never run by the service's
\* lane, whichever acknowledgments, bridges and services are lost.
THEOREM NeverSentTwice == Spec => []TakenOnce
<1>1. IInv => TakenOnce
  BY DEF IInv, GivenOK, TakenOnce, After
<1>. QED BY <1>1, SeatInvariance, PTL

\* The service's lane never runs a turn that was held behind the seat's own.
THEOREM HeldTurnsAreTheSeats == Spec => []HeldStays
<1>1. IInv => HeldStays
  BY DEF IInv, HeldOK, HeldStays, After
<1>. QED BY <1>1, SeatInvariance, PTL

\* The service's lane runs nothing while a poll is parked.
THEOREM OneDriverAtATime == Spec => []OneDriver
<1>1. IInv => OneDriver
  BY DEF IInv
<1>. QED BY <1>1, SeatInvariance, PTL

\* Nothing that the bridge took is ever without a receipt, a settlement or an
\* answer once its run has ended.
THEOREM ReceiptsAreKept == Spec => []GivenIsAccountedFor
<1>1. IInv => GivenIsAccountedFor
  BY DEF IInv
<1>. QED BY <1>1, SeatInvariance, PTL

\* An answer closes every question of its event, and no other question.
THEOREM BatchesAreAnsweredAsOne == Spec => []AnswersCloseTheirBatch
<1>1. IInv => AnswersCloseTheirBatch
  BY DEF IInv
<1>. QED BY <1>1, SeatInvariance, PTL
=============================================================================
