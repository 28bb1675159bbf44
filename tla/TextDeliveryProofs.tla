------------------------- MODULE TextDeliveryProofs -------------------------
(***************************************************************************)
(* For any messages, any cap on refusals and any number of faults: Discord *)
(* shows one reply to a message, the notice never stands over an answer,   *)
(* no message is run a third time or twice at once, and a row is closed    *)
(* and acknowledged for a reason.                                          *)
(***************************************************************************)
EXTENDS TextDelivery, TLAPS

-----------------------------------------------------------------------------
(* What the invariants rest on.                                            *)

First(m) == <<m, "first">>
Recovery(m) == <<m, "recovery">>

\* A turn that never began has no run; a settled one has no live run.
RunsOK ==
    \A t \in Turns :
        /\ turn[t] = "none" => into[t] = t /\ run[t] = "none"
        /\ turn[t] # "none" => turn[into[t]] # "none"
        /\ turn[t] \notin {"none", "begun"} => run[into[t]] # "active"

\* A turn begins only once its row asked for it, and the recovery only when
\* the first turn has ended without an answer.
RequestsOK ==
    \A m \in Messages :
        /\ row[m].request = "none" => turn[First(m)] = "none"
        /\ row[m].request # "recovery" => turn[Recovery(m)] = "none"
        /\ row[m].request = "recovery" => turn[First(m)] \in {"failed", "absorbed"}
        /\ row[m].retries > 0 => row[m].request = "recovery"

\* A saved result is the receipt of the turn the row asked for last; an
\* absorption may be that of the turn before it.
ResultsOK ==
    \A m \in Messages :
        /\ row[m].result.state \in {"settled", "silent", "failed"} =>
              row[m].request # "none" /\ turn[Requested(m)] = row[m].result.state
        /\ row[m].result.state = "absorbed" =>
              /\ row[m].request # "none"
              /\ row[m].request = "first" => turn[First(m)] = "absorbed"

Owes(m) ==
    \/ row[m].result.state = "settled"
    \/ row[m].result.state = "failed" /\ row[m].retries > 0

\* What the row says at each place a handler waits.
StepsOK ==
    \A m \in Messages :
        /\ pc[m] = "turn" =>
              row[m].request # "none" /\ row[m].result.state \in {"none", "absorbed"}
        /\ pc[m] = "precheck" => row[m].result.state = "failed" /\ row[m].retries = 0
        /\ pc[m] = "answered" => row[m].result.state \in {"settled", "silent", "failed"}
        /\ pc[m] \in {"confirm", "sending", "sent"} => Owes(m)
        /\ pc[m] = "sending" => row[m].outgoing # "none"

\* A text is in hand only while it is owed, and it is the one text owed.
OutgoingOK ==
    \A m \in Messages :
        row[m].outgoing # "none" => Owes(m) /\ row[m].outgoing = ContentFor(m)

\* The receipt of a reply is written before the reply and never loses it.
WritesOK ==
    \A m \in Messages :
        /\ write[m].state # "none" =>
              row[m].outgoing # "none" /\ write[m].content = row[m].outgoing
        /\ posted[m] # <<>> => write[m].state \in {"begun", "done"}
        /\ write[m].state = "done" => posted[m] # <<>>
        /\ posting[m] = "begun" => write[m].state = "begun" /\ posted[m] = <<>>
        /\ posting[m] = "landed" => write[m].state = "begun" /\ posted[m] # <<>>
        /\ posted[m] # <<>> => posted[m] = <<write[m].content>>

\* A row refused for the last time is closed and left alone.
CapOK ==
    \A m \in Messages :
        row[m].refusals = RefusalsMax =>
            /\ row[m].done /\ pc[m] = "idle"
            /\ row[m].result.state \in {"settled", "failed"}

Begun(t) == IF turn[t] = "none" THEN 0 ELSE 1
HeardOK == \A m \in Messages : heard[m] = Begun(First(m)) + Begun(Recovery(m))

IInv ==
    /\ TypeOK
    /\ RunsOK
    /\ RequestsOK
    /\ ResultsOK
    /\ StepsOK
    /\ OutgoingOK
    /\ WritesOK
    /\ CapOK
    /\ HeardOK
    /\ ClosedIsAccountedFor

-----------------------------------------------------------------------------
(* What the operations on rows keep.                                       *)

\* Two rows that ask for the same turn and hold the same result and text.
CoreRow(r, s) ==
    /\ s.request = r.request
    /\ s.result.state = r.result.state
    /\ s.outgoing = r.outgoing
    /\ s.retries = r.retries

SameCore(old, new) == \A c \in Messages : CoreRow(old[c], new[c])

SameRefusals(old, new) == \A c \in Messages : new[c].refusals = old[c].refusals

Accounted(rows) ==
    \A c \in Messages : rows[c].done => rows[c].acknowledged \/ rows[c].terminal \/ rows[c].reply

\* Rows that were refused for the last time.
Capped(rows) == {c \in Messages : rows[c].refusals = RefusalsMax}

LEMMA TurnFacts ==
  /\ \A t \in Turns : t[1] \in Messages
  /\ \A m \in Messages : First(m) \in Turns /\ Recovery(m) \in Turns
  /\ \A m \in Messages : First(m) # Recovery(m)
  /\ \A t \in Turns : t = First(t[1]) \/ t = Recovery(t[1])
  BY DEF Turns, Kinds, First, Recovery

\* A row stays one when a flag, its result or its counters change, and what
\* it asks for stays the same.
LEMMA RowTypes ==
  ASSUME NEW r \in Row, NEW O \in SUBSET Turns
  PROVE  /\ [r EXCEPT !.known = TRUE] \in Row
         /\ [r EXCEPT !.done = FALSE] \in Row
         /\ [r EXCEPT !.done = TRUE, !.acknowledged = TRUE] \in Row
         /\ [r EXCEPT !.done = TRUE, !.terminal = TRUE] \in Row
         /\ [r EXCEPT !.reply = TRUE, !.done = TRUE] \in Row
         /\ [r EXCEPT !.result.owner = O] \in Row
         /\ [r EXCEPT !.result.owner = O, !.done = FALSE, !.acknowledged = FALSE] \in Row
<1>1. r.result \in Result /\ [r.result EXCEPT !.owner = O] \in Result
  BY DEF Row, Result
<1>. QED BY <1>1 DEF Row

LEMMA FinishedRow ==
  ASSUME NEW r \in Row
  PROVE  LET s == [r EXCEPT !.done = TRUE, !.acknowledged = TRUE]
         IN  CoreRow(r, s) /\ s.refusals = r.refusals /\ s.result = r.result
             /\ s.done /\ s.acknowledged
  BY DEF Row, CoreRow

LEMMA AbandonedRow ==
  ASSUME NEW r \in Row
  PROVE  LET s == [r EXCEPT !.done = TRUE, !.terminal = TRUE]
         IN  CoreRow(r, s) /\ s.refusals = r.refusals
             /\ s.done /\ s.terminal /\ s.acknowledged = r.acknowledged
  BY DEF Row, CoreRow

LEMMA ReplyRow ==
  ASSUME NEW r \in Row
  PROVE  LET s == [r EXCEPT !.reply = TRUE, !.done = TRUE]
         IN  CoreRow(r, s) /\ s.refusals = r.refusals /\ s.result = r.result
             /\ s.done /\ s.reply /\ s.acknowledged = r.acknowledged
  BY DEF Row, CoreRow

LEMMA ReleasedRow ==
  ASSUME NEW r \in Row, NEW O \in SUBSET Turns
  PROVE  LET s == [r EXCEPT !.result.owner = O, !.done = FALSE, !.acknowledged = FALSE]
         IN  CoreRow(r, s) /\ s.refusals = r.refusals /\ ~s.done /\ ~s.acknowledged
  BY DEF Row, Result, CoreRow

LEMMA OwnedRow ==
  ASSUME NEW r \in Row, NEW O \in SUBSET Turns
  PROVE  LET s == [r EXCEPT !.result.owner = O]
         IN  CoreRow(r, s) /\ s.refusals = r.refusals /\ s.done = r.done
             /\ s.acknowledged = r.acknowledged /\ s.terminal = r.terminal
             /\ s.reply = r.reply
  BY DEF Row, Result, CoreRow

LEMMA OpenedRow ==
  ASSUME NEW r \in Row
  PROVE  LET s == [r EXCEPT !.done = FALSE]
         IN  CoreRow(r, s) /\ s.refusals = r.refusals /\ s.result = r.result /\ ~s.done
             /\ s.acknowledged = r.acknowledged /\ s.terminal = r.terminal
             /\ s.reply = r.reply
  BY DEF Row, CoreRow

LEMMA CoreRowReflexive == \A r : CoreRow(r, r)
  BY DEF CoreRow

LEMMA SameCoreTransitive ==
  ASSUME NEW a, NEW b, NEW c, SameCore(a, b), SameCore(b, c)
  PROVE  SameCore(a, c)
  BY DEF SameCore, CoreRow

LEMMA FinishedKeeps ==
  ASSUME NEW rows \in [Messages -> Row], NEW m \in Messages
  PROVE  /\ Finished(rows, m) \in [Messages -> Row]
         /\ SameCore(rows, Finished(rows, m))
         /\ SameRefusals(rows, Finished(rows, m))
         /\ \A c \in Messages :
               /\ Finished(rows, m)[c].result = rows[c].result
               /\ rows[c].done => Finished(rows, m)[c].done
               /\ Finished(rows, m)[c].acknowledged =>
                     rows[c].acknowledged \/ c = m \/ c \in AnswersFor(rows, m)
         /\ Finished(rows, m)[m].done
         /\ Accounted(rows) => Accounted(Finished(rows, m))
<1>1. ASSUME NEW c \in Messages
      PROVE  Finished(rows, m)[c] =
                IF c = m \/ c \in AnswersFor(rows, m)
                THEN [rows[c] EXCEPT !.done = TRUE, !.acknowledged = TRUE] ELSE rows[c]
  BY DEF Finished
<1>2. ASSUME NEW c \in Messages
      PROVE  rows[c] \in Row /\ [rows[c] EXCEPT !.done = TRUE, !.acknowledged = TRUE] \in Row
  BY RowTypes
<1>3. Finished(rows, m) \in [Messages -> Row]
  BY <1>2 DEF Finished
<1>4. ASSUME NEW c \in Messages
      PROVE  /\ CoreRow(rows[c], Finished(rows, m)[c])
             /\ Finished(rows, m)[c].refusals = rows[c].refusals
             /\ Finished(rows, m)[c].result = rows[c].result
             /\ Finished(rows, m)[c] = rows[c] \/
                  /\ Finished(rows, m)[c].done /\ Finished(rows, m)[c].acknowledged
                  /\ c = m \/ c \in AnswersFor(rows, m)
  BY <1>1, <1>2, FinishedRow, CoreRowReflexive
<1>5. Finished(rows, m)[m].done
  BY <1>1, <1>2, FinishedRow
<1>. QED BY <1>3, <1>4, <1>5 DEF SameCore, SameRefusals, Accounted

LEMMA AbandonedKeeps ==
  ASSUME NEW rows \in [Messages -> Row], NEW m \in Messages
  PROVE  /\ Abandoned(rows, m) \in [Messages -> Row]
         /\ SameCore(rows, Abandoned(rows, m))
         /\ SameRefusals(rows, Abandoned(rows, m))
         /\ \A c \in Messages :
               /\ rows[c].done => Abandoned(rows, m)[c].done
               /\ Abandoned(rows, m)[c].acknowledged = rows[c].acknowledged
         /\ Abandoned(rows, m)[m].done
         /\ Accounted(rows) => Accounted(Abandoned(rows, m))
<1>1. ASSUME NEW c \in Messages
      PROVE  Abandoned(rows, m)[c] =
                IF (c = m \/ c \in AnswersFor(rows, m)) /\ ~rows[c].done
                THEN [rows[c] EXCEPT !.done = TRUE, !.terminal = TRUE] ELSE rows[c]
  BY DEF Abandoned
<1>2. ASSUME NEW c \in Messages
      PROVE  rows[c] \in Row /\ [rows[c] EXCEPT !.done = TRUE, !.terminal = TRUE] \in Row
  BY RowTypes
<1>3. Abandoned(rows, m) \in [Messages -> Row]
  BY <1>2 DEF Abandoned
<1>4. ASSUME NEW c \in Messages
      PROVE  /\ CoreRow(rows[c], Abandoned(rows, m)[c])
             /\ Abandoned(rows, m)[c].refusals = rows[c].refusals
             /\ Abandoned(rows, m)[c].acknowledged = rows[c].acknowledged
             /\ Abandoned(rows, m)[c] = rows[c] \/
                  (Abandoned(rows, m)[c].done /\ Abandoned(rows, m)[c].terminal)
  BY <1>1, <1>2, AbandonedRow, CoreRowReflexive
<1>5. Abandoned(rows, m)[m].done
  BY <1>1, <1>2, AbandonedRow
<1>. QED BY <1>3, <1>4, <1>5 DEF SameCore, SameRefusals, Accounted

\* A refusal counts once; at the cap the row is closed.
LEMMA RefusedKeeps ==
  ASSUME NEW rows \in [Messages -> Row], NEW m \in Messages,
         rows[m].refusals # RefusalsMax
  PROVE  /\ Refused(rows, m) \in [Messages -> Row]
         /\ SameCore(rows, Refused(rows, m))
         /\ \A c \in Messages \ {m} : Refused(rows, m)[c].refusals = rows[c].refusals
         /\ \A c \in Messages :
               /\ rows[c].done => Refused(rows, m)[c].done
               /\ Refused(rows, m)[c].acknowledged = rows[c].acknowledged
         /\ m \in Capped(Refused(rows, m)) => Refused(rows, m)[m].done
         /\ Accounted(rows) => Accounted(Refused(rows, m))
<1> DEFINE counted == [rows EXCEPT ![m].refusals = @ + 1]
<1>1. rows[m].refusals + 1 \in 0..RefusalsMax
  BY BoundsAssumption DEF Row
<1>2. counted[m] \in Row
  BY <1>1 DEF Row
<1>3. counted \in [Messages -> Row]
  BY <1>2
<1>4. /\ SameCore(rows, counted)
      /\ Accounted(rows) => Accounted(counted)
      /\ \A c \in Messages \ {m} : counted[c] = rows[c]
      /\ \A c \in Messages : counted[c].done = rows[c].done
                            /\ counted[c].acknowledged = rows[c].acknowledged
  BY DEF Row, SameCore, CoreRow, Accounted
<1>5. Refused(rows, m) =
         IF counted[m].refusals >= RefusalsMax THEN Abandoned(counted, m) ELSE counted
  BY DEF Refused
<1> HIDE DEF counted
<1>6. CASE counted[m].refusals >= RefusalsMax
  <2>1. Refused(rows, m) = Abandoned(counted, m)
    BY <1>5, <1>6
  <2>2. /\ Abandoned(counted, m) \in [Messages -> Row]
        /\ SameCore(counted, Abandoned(counted, m))
        /\ SameRefusals(counted, Abandoned(counted, m))
        /\ \A c \in Messages :
              /\ counted[c].done => Abandoned(counted, m)[c].done
              /\ Abandoned(counted, m)[c].acknowledged = counted[c].acknowledged
        /\ Abandoned(counted, m)[m].done
        /\ Accounted(counted) => Accounted(Abandoned(counted, m))
    BY <1>3, AbandonedKeeps
  <2>3. SameCore(rows, Abandoned(counted, m))
    BY <1>4, <2>2, SameCoreTransitive
  <2>. QED BY <1>4, <2>1, <2>2, <2>3 DEF SameRefusals
<1>7. CASE ~(counted[m].refusals >= RefusalsMax)
  <2>1. Refused(rows, m) = counted
    BY <1>5, <1>7
  <2>2. counted[m].refusals # RefusalsMax
    BY <1>7, <1>2, BoundsAssumption DEF Row
  <2>. QED BY <1>3, <1>4, <2>1, <2>2 DEF Capped
<1>. QED BY <1>6, <1>7

LEMMA ReplySavedKeeps ==
  ASSUME NEW rows \in [Messages -> Row], NEW m \in Messages
  PROVE  /\ ReplySaved(rows, m) \in [Messages -> Row]
         /\ SameCore(rows, ReplySaved(rows, m))
         /\ SameRefusals(rows, ReplySaved(rows, m))
         /\ \A c \in Messages :
               /\ ReplySaved(rows, m)[c].result = rows[c].result
               /\ rows[c].done => ReplySaved(rows, m)[c].done
               /\ ReplySaved(rows, m)[c].acknowledged = rows[c].acknowledged
         /\ Accounted(rows) => Accounted(ReplySaved(rows, m))
<1>1. ReplySaved(rows, m) = [rows EXCEPT ![m] = [rows[m] EXCEPT !.reply = TRUE, !.done = TRUE]]
  BY DEF ReplySaved
<1>2. [rows[m] EXCEPT !.reply = TRUE, !.done = TRUE] \in Row
  BY RowTypes
<1>3. ReplySaved(rows, m) \in [Messages -> Row]
  BY <1>1, <1>2
<1>4. ASSUME NEW c \in Messages
      PROVE  /\ CoreRow(rows[c], ReplySaved(rows, m)[c])
             /\ ReplySaved(rows, m)[c].refusals = rows[c].refusals
             /\ ReplySaved(rows, m)[c].result = rows[c].result
             /\ ReplySaved(rows, m)[c].acknowledged = rows[c].acknowledged
             /\ ReplySaved(rows, m)[c] = rows[c] \/
                  (ReplySaved(rows, m)[c].done /\ ReplySaved(rows, m)[c].reply)
  <2>1. CASE c = m
    <3>1. ReplySaved(rows, m)[c] = [rows[c] EXCEPT !.reply = TRUE, !.done = TRUE]
      BY <1>1, <2>1
    <3>. QED BY <3>1, ReplyRow
  <2>2. CASE c # m
    BY <1>1, <2>2, CoreRowReflexive
  <2>. QED BY <2>1, <2>2
<1>. QED BY <1>3, <1>4 DEF SameCore, SameRefusals, Accounted

\* Only absorbed rows are opened again when their owner fails.
LEMMA ReleasedKeeps ==
  ASSUME NEW rows \in [Messages -> Row], NEW m \in Messages
  PROVE  /\ ChildrenReleased(rows, m) \in [Messages -> Row]
         /\ SameCore(rows, ChildrenReleased(rows, m))
         /\ SameRefusals(rows, ChildrenReleased(rows, m))
         /\ \A c \in Messages :
               /\ rows[c].result.state # "absorbed" => ChildrenReleased(rows, m)[c] = rows[c]
               /\ ChildrenReleased(rows, m)[c].acknowledged => rows[c].acknowledged
         /\ Accounted(rows) => Accounted(ChildrenReleased(rows, m))
<1>1. ASSUME NEW c \in Messages
      PROVE  ChildrenReleased(rows, m)[c] =
                IF rows[c].result.state = "absorbed" /\ c \in AnswersFor(rows, m)
                THEN [rows[c] EXCEPT !.result.owner = {}, !.done = FALSE, !.acknowledged = FALSE]
                ELSE rows[c]
  BY DEF ChildrenReleased
<1>2. ASSUME NEW c \in Messages
      PROVE  /\ rows[c] \in Row
             /\ [rows[c] EXCEPT !.result.owner = {}, !.done = FALSE, !.acknowledged = FALSE] \in Row
  BY RowTypes
<1>3. ChildrenReleased(rows, m) \in [Messages -> Row]
  BY <1>2 DEF ChildrenReleased
<1>4. ASSUME NEW c \in Messages
      PROVE  /\ CoreRow(rows[c], ChildrenReleased(rows, m)[c])
             /\ ChildrenReleased(rows, m)[c].refusals = rows[c].refusals
             /\ ChildrenReleased(rows, m)[c] = rows[c] \/
                  /\ rows[c].result.state = "absorbed"
                  /\ ~ChildrenReleased(rows, m)[c].done
                  /\ ~ChildrenReleased(rows, m)[c].acknowledged
  <2>1. CASE rows[c].result.state = "absorbed" /\ c \in AnswersFor(rows, m)
    <3>1. ChildrenReleased(rows, m)[c] =
             [rows[c] EXCEPT !.result.owner = {}, !.done = FALSE, !.acknowledged = FALSE]
      BY <1>1, <2>1
    <3>2. rows[c] \in Row /\ {} \in SUBSET Turns
      OBVIOUS
    <3>3. /\ CoreRow(rows[c], ChildrenReleased(rows, m)[c])
          /\ ChildrenReleased(rows, m)[c].refusals = rows[c].refusals
          /\ ~ChildrenReleased(rows, m)[c].done
          /\ ~ChildrenReleased(rows, m)[c].acknowledged
      BY <3>1, <3>2, ReleasedRow
    <3>. QED BY <2>1, <3>3
  <2>2. CASE ~(rows[c].result.state = "absorbed" /\ c \in AnswersFor(rows, m))
    BY <1>1, <2>2, CoreRowReflexive
  <2>. QED BY <2>1, <2>2
<1>. QED BY <1>3, <1>4 DEF SameCore, SameRefusals, Accounted

\* A starting bridge opens failed rows that nothing accounts for.
LEMMA ReopenedKeeps ==
  ASSUME NEW rows \in [Messages -> Row]
  PROVE  /\ Reopened(rows) \in [Messages -> Row]
         /\ SameCore(rows, Reopened(rows))
         /\ SameRefusals(rows, Reopened(rows))
         /\ \A c \in Messages :
               /\ Reopened(rows)[c].acknowledged = rows[c].acknowledged
               /\ Accounted(rows) => Reopened(rows)[c].done = rows[c].done
         /\ Accounted(rows) => Accounted(Reopened(rows))
<1> DEFINE open == [c \in Messages |->
                      IF /\ rows[c].result.state = "failed" /\ ~rows[c].reply
                         /\ ~rows[c].acknowledged /\ ~rows[c].terminal
                      THEN [rows[c] EXCEPT !.done = FALSE] ELSE rows[c]]
           lost(t) == open[t[1]].result.state \in {"none", "failed"}
           Left(c) == {t \in open[c].result.owner : ~lost(t)}
<1>1. ASSUME NEW c \in Messages
      PROVE  rows[c] \in Row /\ [rows[c] EXCEPT !.done = FALSE] \in Row
  BY RowTypes
<1>2. open \in [Messages -> Row]
  BY <1>1
<1>3. \A c \in Messages :
         /\ CoreRow(rows[c], open[c])
         /\ open[c].refusals = rows[c].refusals
         /\ open[c].acknowledged = rows[c].acknowledged
         /\ open[c].terminal = rows[c].terminal
         /\ open[c].reply = rows[c].reply
         /\ open[c].done => rows[c].done
         /\ Accounted(rows) => open[c].done = rows[c].done
  <2> SUFFICES ASSUME NEW c \in Messages
               PROVE  /\ CoreRow(rows[c], open[c])
                      /\ open[c].refusals = rows[c].refusals
                      /\ open[c].acknowledged = rows[c].acknowledged
                      /\ open[c].terminal = rows[c].terminal
                      /\ open[c].reply = rows[c].reply
                      /\ open[c].done => rows[c].done
                      /\ Accounted(rows) => open[c].done = rows[c].done
    OBVIOUS
  <2>1. CASE /\ rows[c].result.state = "failed" /\ ~rows[c].reply
             /\ ~rows[c].acknowledged /\ ~rows[c].terminal
    <3>1. open[c] = [rows[c] EXCEPT !.done = FALSE]
      BY <2>1
    <3>2. Accounted(rows) => ~rows[c].done
      BY <2>1 DEF Accounted
    <3>3. ~open[c].done
      BY <3>1, OpenedRow
    <3>4. open[c].done \in BOOLEAN /\ rows[c].done \in BOOLEAN
      BY <1>2 DEF Row
    <3>. QED BY <3>1, <3>2, <3>3, <3>4, OpenedRow
  <2>2. CASE ~(/\ rows[c].result.state = "failed" /\ ~rows[c].reply
               /\ ~rows[c].acknowledged /\ ~rows[c].terminal)
    <3>1. open[c] = rows[c]
      BY <2>2
    <3>. QED BY <3>1, CoreRowReflexive
  <2>. QED BY <2>1, <2>2
<1>4. Reopened(rows) =
         [c \in Messages |->
            IF open[c].result.state = "absorbed" /\ ~open[c].done
            THEN [open[c] EXCEPT !.result.owner = {t \in @ : ~lost(t)}] ELSE open[c]]
  BY DEF Reopened
<1> HIDE DEF open
<1>5. ASSUME NEW c \in Messages
      PROVE  /\ open[c] \in Row
             /\ Left(c) \in SUBSET Turns
             /\ [open[c] EXCEPT !.result.owner = Left(c)] \in Row
  <2>1. open[c] \in Row /\ open[c].result.owner \in SUBSET Turns
    BY <1>2 DEF Row, Result
  <2>2. Left(c) \in SUBSET Turns
    BY <2>1
  <2>. QED BY <2>1, <2>2, RowTypes
<1>6. ASSUME NEW c \in Messages
      PROVE  Reopened(rows)[c] \in {open[c], [open[c] EXCEPT !.result.owner = Left(c)]}
  BY <1>4
<1>7. Reopened(rows) \in [Messages -> Row]
  <2>1. DOMAIN Reopened(rows) = Messages /\ Reopened(rows) = [c \in Messages |-> Reopened(rows)[c]]
    BY <1>4
  <2>. QED BY <2>1, <1>5, <1>6
<1>8. ASSUME NEW c \in Messages
      PROVE  /\ CoreRow(open[c], Reopened(rows)[c])
             /\ Reopened(rows)[c].refusals = open[c].refusals
             /\ Reopened(rows)[c].acknowledged = open[c].acknowledged
             /\ Reopened(rows)[c].terminal = open[c].terminal
             /\ Reopened(rows)[c].reply = open[c].reply
             /\ Reopened(rows)[c].done = open[c].done
  <2>1. CASE Reopened(rows)[c] = open[c]
    BY <2>1, CoreRowReflexive
  <2>2. CASE Reopened(rows)[c] = [open[c] EXCEPT !.result.owner = Left(c)]
    <3> HIDE DEF Left
    <3>. QED BY <1>5, <2>2, OwnedRow
  <2>. QED BY <1>6, <2>1, <2>2
<1>9. SameCore(rows, Reopened(rows))
  <2>1. SameCore(rows, open)
    BY <1>3 DEF SameCore
  <2>2. SameCore(open, Reopened(rows))
    BY <1>8 DEF SameCore
  <2>. QED BY <2>1, <2>2, SameCoreTransitive
<1>. QED BY <1>3, <1>7, <1>8, <1>9 DEF SameRefusals, Accounted

-----------------------------------------------------------------------------
(* What a step leaves alone.                                               *)

LEMMA CoreFrame ==
  ASSUME IInv, SameCore(row, row'), UNCHANGED turnVars
  PROVE  RunsOK' /\ RequestsOK' /\ ResultsOK' /\ OutgoingOK' /\ HeardOK'
<1>1. ASSUME NEW m \in Messages
      PROVE  CoreRow(row[m], row'[m])
  BY DEF SameCore
<1>2. RunsOK' /\ HeardOK'
  BY DEF IInv, RunsOK, HeardOK, Begun, First, Recovery, turnVars
<1>3. RequestsOK'
  BY <1>1 DEF IInv, RequestsOK, CoreRow, First, Recovery, turnVars
<1>4. ResultsOK'
  BY <1>1 DEF IInv, ResultsOK, CoreRow, First, Requested, turnVars
<1>5. OutgoingOK'
  BY <1>1 DEF IInv, OutgoingOK, CoreRow, Owes, ContentFor
<1>. QED BY <1>2, <1>3, <1>4, <1>5

LEMMA StepsFrame ==
  ASSUME IInv, SameCore(row, row'),
         \A c \in Messages : pc'[c] \in {pc[c], "idle"}
  PROVE  StepsOK'
<1>1. ASSUME NEW m \in Messages
      PROVE  CoreRow(row[m], row'[m]) /\ pc'[m] \in {pc[m], "idle"}
  BY DEF SameCore
<1>. QED BY <1>1 DEF IInv, StepsOK, CoreRow, Owes

LEMMA WritesFrame ==
  ASSUME IInv, SameCore(row, row'), UNCHANGED writeVars
  PROVE  WritesOK'
<1>1. ASSUME NEW m \in Messages
      PROVE  CoreRow(row[m], row'[m])
  BY DEF SameCore
<1>. QED BY <1>1 DEF IInv, WritesOK, CoreRow, writeVars

LEMMA CapFrame ==
  ASSUME IInv, SameCore(row, row'), SameRefusals(row, row'),
         \A c \in Messages : row[c].done => row'[c].done,
         \A c \in Messages : pc'[c] \in {pc[c], "idle"}
  PROVE  CapOK'
<1>1. ASSUME NEW m \in Messages
      PROVE  CoreRow(row[m], row'[m]) /\ pc'[m] \in {pc[m], "idle"}
             /\ row'[m].refusals = row[m].refusals
  BY DEF SameCore, SameRefusals
<1>. QED BY <1>1 DEF IInv, CapOK, CoreRow

LEMMA RequestsFrame ==
  ASSUME IInv, turn' = turn,
         \A c \in Messages : row'[c].request = row[c].request /\ row'[c].retries = row[c].retries
  PROVE  RequestsOK'
<1> SUFFICES ASSUME NEW c \in Messages
             PROVE  /\ row'[c].request = "none" => turn[First(c)] = "none"
                    /\ row'[c].request # "recovery" => turn[Recovery(c)] = "none"
                    /\ row'[c].request = "recovery" => turn[First(c)] \in {"failed", "absorbed"}
                    /\ row'[c].retries > 0 => row'[c].request = "recovery"
  BY DEF RequestsOK, First, Recovery
<1>. QED BY DEF IInv, RequestsOK

LEMMA SameCoreReflexive == \A rows : SameCore(rows, rows) /\ SameRefusals(rows, rows)
  BY DEF SameCore, SameRefusals, CoreRow

\* A step of the captain's turns leaves rows, handlers and replies alone.
LEMMA RowFrame ==
  ASSUME IInv, UNCHANGED <<bridgeVars, writeVars>>,
         TypeOK', RunsOK', RequestsOK', ResultsOK', HeardOK'
  PROVE  IInv'
<1>1. StepsOK' /\ WritesOK' /\ CapOK'
  BY StepsFrame, WritesFrame, CapFrame, SameCoreReflexive DEF bridgeVars
<1>2. OutgoingOK' /\ ClosedIsAccountedFor'
  BY DEF IInv, OutgoingOK, ClosedIsAccountedFor, Owes, ContentFor, bridgeVars
<1>. QED BY <1>1, <1>2 DEF IInv

\* A step of a handler that asks for nothing new and posts nothing.
LEMMA HandlerFrame ==
  ASSUME IInv, UNCHANGED <<turnVars, writeVars>>, TypeOK',
         SameCore(row, row'), SameRefusals(row, row'), Accounted(row'),
         \A c \in Messages : row[c].done => row'[c].done,
         \A c \in Messages : pc'[c] \in {pc[c], "idle"}
  PROVE  IInv'
<1>1. StepsOK' /\ WritesOK' /\ CapOK'
  BY StepsFrame, WritesFrame, CapFrame
<1>2. ClosedIsAccountedFor'
  BY DEF Accounted, ClosedIsAccountedFor
<1>. QED BY <1>1, <1>2, CoreFrame DEF IInv

LEMMA AccountedNow == IInv => Accounted(row)
  BY DEF IInv, ClosedIsAccountedFor, Accounted

LEMMA CappedIdle ==
  ASSUME IInv, NEW m \in Messages, pc[m] # "idle" \/ ~row[m].done
  PROVE  row[m].refusals # RefusalsMax
  BY DEF IInv, CapOK

-----------------------------------------------------------------------------
(* The bridge's steps.                                                     *)

LEMMA StepArrives ==
  ASSUME IInv, NEW m \in Messages, Arrives(m)
  PROVE  IInv'
<1>1. row \in [Messages -> Row] /\ [row[m] EXCEPT !.known = TRUE] \in Row
  BY RowTypes DEF IInv, TypeOK
<1>2. row' = [row EXCEPT ![m] = [row[m] EXCEPT !.known = TRUE]]
  BY DEF Arrives
<1>3. row' \in [Messages -> Row]
  BY <1>1, <1>2
<1>4. TypeOK'
  BY <1>3 DEF IInv, TypeOK, Arrives, turnVars, writeVars, worldVars
<1>5. SameCore(row, row') /\ SameRefusals(row, row')
      /\ \A c \in Messages : row[c].done => row'[c].done
  BY <1>1, <1>2 DEF Row, SameCore, SameRefusals, CoreRow
<1>6. Accounted(row')
  BY <1>1, <1>2, AccountedNow DEF Row, Accounted
<1>. QED BY <1>4, <1>5, <1>6, HandlerFrame DEF Arrives

LEMMA StepExpires ==
  ASSUME IInv, NEW m \in Messages, Expires(m)
  PROVE  IInv'
<1>1. TypeOK'
  BY DEF IInv, TypeOK, Expires, turnVars, writeVars, worldVars
<1>. QED BY <1>1, AccountedNow, SameCoreReflexive, HandlerFrame DEF Expires

LEMMA StepFinishesDeleted ==
  ASSUME IInv, NEW m \in Messages, FinishesDeleted(m)
  PROVE  IInv'
<1>1. row \in [Messages -> Row] /\ row' = Finished(row, m)
  BY DEF IInv, TypeOK, FinishesDeleted
<1>2. TypeOK'
  BY <1>1, FinishedKeeps DEF IInv, TypeOK, FinishesDeleted, turnVars, writeVars, worldVars
<1>. QED BY <1>1, <1>2, AccountedNow, FinishedKeeps, HandlerFrame DEF FinishesDeleted

LEMMA StepScanConfirms ==
  ASSUME IInv, NEW m \in Messages, ScanConfirms(m)
  PROVE  IInv'
<1>1. row \in [Messages -> Row] /\ row' = Finished(row, m)
  BY DEF IInv, TypeOK, ScanConfirms
<1>2. TypeOK'
  BY <1>1, FinishedKeeps DEF IInv, TypeOK, ScanConfirms, turnVars, writeVars, worldVars
<1>. QED BY <1>1, <1>2, AccountedNow, FinishedKeeps, HandlerFrame DEF ScanConfirms

\* Mid-handler the process dies: whatever it saved is read again.
LEMMA StartFacts ==
  ASSUME IInv, NEW rows \in [Messages -> Row], StartsFrom(rows),
         SameCore(row, rows), SameRefusals(row, rows), Accounted(rows),
         \A c \in Messages : row[c].done => rows[c].done
  PROVE  /\ row' \in [Messages -> Row] /\ SameCore(row, row') /\ SameRefusals(row, row')
         /\ Accounted(row')
         /\ \A c \in Messages : row[c].done => row'[c].done
         /\ \A c \in Messages : pc'[c] = "idle"
         /\ retained' \subseteq Messages
         /\ pc' \in [Messages -> {"idle"}]
<1>1. row' = Reopened(rows) /\ pc' = [m \in Messages |-> "idle"] /\ retained' = {}
  BY DEF StartsFrom
<1>2. SameCore(row, Reopened(rows)) /\ SameRefusals(row, Reopened(rows))
  BY ReopenedKeeps, SameCoreTransitive DEF SameRefusals
<1>. QED BY <1>1, <1>2, ReopenedKeeps

LEMMA FaultTypes ==
  ASSUME TypeOK, Fault
  PROVE  faults' \in 0..MaxFaults
  BY BoundsAssumption DEF TypeOK, Fault

LEMMA StepBridgeRestarts ==
  ASSUME IInv, BridgeRestarts
  PROVE  IInv'
<1>1. row \in [Messages -> Row] /\ StartsFrom(row)
  BY DEF IInv, TypeOK, BridgeRestarts
<1>2. /\ row' \in [Messages -> Row] /\ SameCore(row, row') /\ SameRefusals(row, row')
      /\ Accounted(row')
      /\ \A c \in Messages : row[c].done => row'[c].done
      /\ \A c \in Messages : pc'[c] = "idle"
      /\ retained' \subseteq Messages /\ pc' \in [Messages -> {"idle"}]
  BY <1>1, StartFacts, AccountedNow, SameCoreReflexive
<1>3. TypeOK'
  <2>1. faults' \in 0..MaxFaults
    BY FaultTypes DEF IInv, BridgeRestarts
  <2>2. pc' \in [Messages -> {"idle", "precheck", "turn", "answered", "confirm", "sending", "sent"}]
    BY <1>2
  <2>. QED BY <1>2, <2>1, <2>2 DEF IInv, TypeOK, BridgeRestarts, turnVars, writeVars
<1>. QED BY <1>2, <1>3, HandlerFrame DEF BridgeRestarts

LEMMA StepCallFails ==
  ASSUME IInv, NEW m \in Messages, CallFails(m)
  PROVE  IInv'
<1>1. pc' = [pc EXCEPT ![m] = "idle"] /\ row' = row
  BY DEF CallFails, Goes
<1>2. TypeOK'
  <2>1. faults' \in 0..MaxFaults
    BY FaultTypes DEF IInv, TypeOK, CallFails
  <2>2. pc' \in [Messages -> {"idle", "precheck", "turn", "answered", "confirm", "sending", "sent"}]
    BY <1>1 DEF IInv, TypeOK
  <2>. QED BY <1>1, <2>1, <2>2 DEF IInv, TypeOK, CallFails, turnVars, writeVars
<1>3. \A c \in Messages : pc'[c] \in {pc[c], "idle"}
  BY <1>1 DEF IInv, TypeOK
<1>. QED BY <1>1, <1>2, <1>3, AccountedNow, SameCoreReflexive, HandlerFrame DEF CallFails

LEMMA StepWorld ==
  ASSUME IInv, SaveFails \/ \E m \in Messages : OriginChanges(m) \/ Deletes(m)
  PROVE  IInv'
<1>1. TypeOK' /\ UNCHANGED <<bridgeVars, turnVars, writeVars>>
  <2>1. faults' \in 0..MaxFaults
    BY FaultTypes DEF IInv, SaveFails, OriginChanges, Deletes
  <2>. QED BY <2>1 DEF IInv, TypeOK, SaveFails, OriginChanges, Deletes, bridgeVars, turnVars, writeVars
<1>2. row' = row /\ pc' = pc
  BY <1>1 DEF bridgeVars
<1>. QED BY <1>1, <1>2, AccountedNow, SameCoreReflexive, HandlerFrame

-----------------------------------------------------------------------------
(* The captain's turns.                                                    *)

\* No turn moves after its receipt is settled.
LEMMA TurnFrame ==
  ASSUME IInv, NEW t \in Turns, turn[t] = "begun", NEW r \in Receipt \ {"none", "begun"},
         turn' = [turn EXCEPT ![t] = r], run[into[t]] # "active",
         UNCHANGED <<bridgeVars, into, run, heard, writeVars, worldVars>>
  PROVE  IInv'
<1>1. turn \in [Turns -> Receipt] /\ into \in [Turns -> Turns]
  BY DEF IInv, TypeOK
<1>2. \A u \in Turns : turn'[u] = IF u = t THEN r ELSE turn[u]
  BY <1>1
<1>3. \A u \in Turns : turn'[u] = "none" <=> turn[u] = "none"
  BY <1>2
<1>4. TypeOK'
  BY DEF IInv, TypeOK, bridgeVars, writeVars, worldVars, Receipt
<1>5. RunsOK'
  BY <1>1, <1>2, <1>3 DEF IInv, RunsOK
<1>6. row' = row
  BY DEF bridgeVars
<1>7. RequestsOK'
  BY <1>2, <1>3, <1>6, TurnFacts DEF IInv, RequestsOK
<1>8. ResultsOK'
  <2> SUFFICES ASSUME NEW m \in Messages
               PROVE  /\ row[m].result.state \in {"settled", "silent", "failed"} =>
                            row[m].request # "none" /\ turn'[Requested(m)] = row[m].result.state
                      /\ row[m].result.state = "absorbed" =>
                            /\ row[m].request # "none"
                            /\ row[m].request = "first" => turn'[First(m)] = "absorbed"
    BY <1>6 DEF ResultsOK, Requested
  <2>1. CASE row[m].result.state \in {"settled", "silent", "failed"}
    <3>1. row[m].request # "none" /\ turn[Requested(m)] = row[m].result.state
      BY <2>1 DEF IInv, ResultsOK
    <3>2. Requested(m) \in Turns
      BY <3>1 DEF IInv, TypeOK, Row, Requested, Turns
    <3>. QED BY <1>2, <2>1, <3>1, <3>2
  <2>2. CASE row[m].result.state \notin {"settled", "silent", "failed"}
    BY <1>2, <2>2, TurnFacts DEF IInv, ResultsOK
  <2>. QED BY <2>1, <2>2
<1>9. HeardOK'
  BY <1>3, TurnFacts DEF IInv, HeardOK, Begun
<1>. QED BY <1>4, <1>5, <1>7, <1>8, <1>9, RowFrame

LEMMA RequestedTurn ==
  ASSUME IInv, NEW m \in Messages, pc[m] = "turn"
  PROVE  /\ Requested(m) \in Turns /\ row[m].request \in Kinds
         /\ Requested(m) = First(m) \/ Requested(m) = Recovery(m)
  BY DEF IInv, StepsOK, TypeOK, Row, Requested, Turns, Kinds, First, Recovery

LEMMA StepTurnSettles ==
  ASSUME IInv, NEW t \in Turns, TurnSettles(t)
  PROVE  IInv'
<1>1. TurnResult(t) \in Receipt \ {"none", "begun"}
  BY DEF TurnResult, Receipt
<1>2. run[into[t]] # "active"
  BY DEF TurnSettles, Outcomes
<1>. QED BY <1>1, <1>2, TurnFrame DEF TurnSettles

LEMMA StepTurnInterrupted ==
  ASSUME IInv, NEW m \in Messages, TurnInterrupted(m)
  PROVE  IInv'
<1>1. Requested(m) \in Turns
  BY RequestedTurn DEF TurnInterrupted
<1>. QED BY <1>1, TurnFrame DEF TurnInterrupted, Orphaned, Receipt

LEMMA StepRunEnds ==
  ASSUME IInv, NEW t \in Turns, NEW outcome \in Outcomes, RunEnds(t, outcome)
  PROVE  IInv'
<1>1. TypeOK'
  <2>1. run' \in [Turns -> {"none", "active"} \cup Outcomes]
    BY DEF IInv, TypeOK, RunEnds
  <2>. QED BY <2>1 DEF IInv, TypeOK, RunEnds, bridgeVars, writeVars, worldVars
<1>2. RunsOK'
  <2>1. /\ run \in [Turns -> {"none", "active"} \cup Outcomes] /\ into \in [Turns -> Turns]
        /\ run[t] = "active" /\ run' = [run EXCEPT ![t] = outcome]
        /\ UNCHANGED <<turn, into>> /\ outcome # "active"
    BY DEF IInv, TypeOK, RunEnds, Outcomes
  <2>. QED BY <2>1 DEF IInv, RunsOK
<1>3. RequestsOK' /\ ResultsOK' /\ HeardOK'
  BY DEF IInv, RequestsOK, ResultsOK, HeardOK, Begun, Requested, First, Recovery, RunEnds, bridgeVars
<1>. QED BY <1>1, <1>2, <1>3, RowFrame DEF RunEnds

LEMMA StepTurnBegins ==
  ASSUME IInv, NEW m \in Messages, TurnBegins(m)
  PROVE  IInv'
<1> DEFINE t == Requested(m)
<1>1. /\ t \in Turns /\ row[m].request \in Kinds
      /\ t = First(m) \/ t = Recovery(m)
  BY RequestedTurn DEF TurnBegins
<1>2. /\ turn \in [Turns -> Receipt] /\ into \in [Turns -> Turns]
      /\ run \in [Turns -> {"none", "active"} \cup Outcomes] /\ heard \in [Messages -> Nat]
  BY DEF IInv, TypeOK
<1>3. /\ turn[t] = "none" /\ turn' = [turn EXCEPT ![t] = "begun"]
      /\ heard' = [heard EXCEPT ![m] = @ + 1]
      /\ UNCHANGED <<bridgeVars, writeVars, worldVars>>
  BY DEF TurnBegins
<1>4. \/ run' = [run EXCEPT ![t] = "active"] /\ into' = into
      \/ \E o \in Turns : o[1] # m /\ run[o] = "active"
                          /\ into' = [into EXCEPT ![t] = o] /\ run' = run
  BY DEF TurnBegins
<1> HIDE DEF t
<1>5. row' = row /\ pc[m] = "turn"
  BY <1>3 DEF bridgeVars, TurnBegins
<1>6. \A u \in Turns : turn'[u] = IF u = t THEN "begun" ELSE turn[u]
  BY <1>2, <1>3
<1>7. TypeOK'
  <2>1. turn' \in [Turns -> Receipt]
    BY <1>1, <1>2, <1>3 DEF Receipt
  <2>3. heard' \in [Messages -> Nat]
    <3>1. heard[m] + 1 \in Nat
      BY <1>2
    <3>. QED BY <1>2, <1>3, <3>1
  <2>2. into' \in [Turns -> Turns] /\ run' \in [Turns -> {"none", "active"} \cup Outcomes]
    BY <1>1, <1>2, <1>4
  <2>. QED BY <1>3, <2>1, <2>2, <2>3 DEF IInv, TypeOK, bridgeVars, writeVars, worldVars
<1>8. RunsOK'
  <2>1. CASE run' = [run EXCEPT ![t] = "active"] /\ into' = into
    BY <1>1, <1>2, <1>3, <1>6, <2>1 DEF IInv, RunsOK
  <2>2. CASE \E o \in Turns : o[1] # m /\ run[o] = "active"
                              /\ into' = [into EXCEPT ![t] = o] /\ run' = run
    <3>1. PICK o \in Turns : run[o] = "active" /\ into' = [into EXCEPT ![t] = o] /\ run' = run
      BY <2>2
    <3>2. turn[o] # "none"
      BY <3>1 DEF IInv, RunsOK
    <3>. QED BY <1>1, <1>2, <1>3, <1>6, <3>1, <3>2 DEF IInv, RunsOK
  <2>. QED BY <1>4, <2>1, <2>2
<1>9. RequestsOK'
  <2> SUFFICES ASSUME NEW c \in Messages
               PROVE  /\ row[c].request = "none" => turn'[First(c)] = "none"
                      /\ row[c].request # "recovery" => turn'[Recovery(c)] = "none"
                      /\ row[c].request = "recovery" => turn'[First(c)] \in {"failed", "absorbed"}
                      /\ row[c].retries > 0 => row[c].request = "recovery"
    BY <1>5 DEF RequestsOK
  <2>1. c # m => t # First(c) /\ t # Recovery(c)
    BY <1>1 DEF First, Recovery
  <2>2. t = <<m, row[m].request>>
    BY DEF t, Requested
  <2>3. row[m].request = "first" => t # Recovery(m)
    BY <2>2 DEF Recovery
  <2>4. row[m].request = "recovery" => t # First(m)
    BY <2>2 DEF First
  <2>. QED BY <1>1, <1>6, <2>1, <2>3, <2>4, TurnFacts DEF IInv, RequestsOK, Kinds
<1>10. ResultsOK'
  <2> SUFFICES ASSUME NEW c \in Messages
               PROVE  /\ row[c].result.state \in {"settled", "silent", "failed"} =>
                            row[c].request # "none" /\ turn'[Requested(c)] = row[c].result.state
                      /\ row[c].result.state = "absorbed" =>
                            /\ row[c].request # "none"
                            /\ row[c].request = "first" => turn'[First(c)] = "absorbed"
    BY <1>5 DEF ResultsOK, Requested
  <2>1. CASE row[c].result.state \in {"settled", "silent", "failed"}
    <3>1. row[c].request # "none" /\ turn[Requested(c)] = row[c].result.state
      BY <2>1 DEF IInv, ResultsOK
    <3>2. Requested(c) \in Turns
      BY <3>1 DEF IInv, TypeOK, Row, Requested, Turns
    <3>. QED BY <1>3, <1>6, <2>1, <3>1, <3>2
  <2>2. CASE row[c].result.state \notin {"settled", "silent", "failed"}
    BY <1>3, <1>6, <2>2, TurnFacts DEF IInv, ResultsOK
  <2>. QED BY <2>1, <2>2
<1>11. HeardOK'
  <2> SUFFICES ASSUME NEW c \in Messages
               PROVE  heard'[c] = (IF turn'[First(c)] = "none" THEN 0 ELSE 1)
                                  + (IF turn'[Recovery(c)] = "none" THEN 0 ELSE 1)
    BY DEF HeardOK, Begun, First, Recovery
  <2>1. heard[c] = Begun(First(c)) + Begun(Recovery(c))
    BY DEF IInv, HeardOK
  <2>2. CASE c = m
    <3>1. heard'[m] = heard[m] + 1
      BY <1>2, <1>3
    <3>. QED BY <1>1, <1>3, <1>6, <2>1, <2>2, <3>1, TurnFacts DEF Begun
  <2>3. CASE c # m
    <3>1. t # First(c) /\ t # Recovery(c)
      BY <1>1, <2>3 DEF First, Recovery
    <3>. QED BY <1>2, <1>3, <1>6, <2>1, <2>3, <3>1, TurnFacts DEF Begun
  <2>. QED BY <2>2, <2>3
<1>. QED BY <1>3, <1>7, <1>8, <1>9, <1>10, <1>11, RowFrame

-----------------------------------------------------------------------------
(* Asking the captain.                                                     *)

\* Another message's row asks for what it asked for before.
OtherRows(m) == \A c \in Messages \ {m} : row'[c] = row[c] /\ pc'[c] = pc[c]

LEMMA StepHandles ==
  ASSUME IInv, NEW m \in Messages, Handles(m)
  PROVE  IInv'
<1>1. /\ pc[m] = "idle" /\ ~row[m].done /\ row \in [Messages -> Row]
      /\ UNCHANGED <<retained, turnVars, writeVars, worldVars>>
      /\ pc \in [Messages -> {"idle", "precheck", "turn", "answered", "confirm", "sending", "sent"}]
  BY DEF Handles, IInv, TypeOK
<1>2. row[m].refusals # RefusalsMax
  BY <1>1, CappedIdle
<1>3. ASSUME NEW step \in {"answered", "precheck"}, Goes(m, step), row' = row,
             step = "answered" => HasAnswerInHand(m),
             step = "precheck" => row[m].result.state = "failed" /\ row[m].retries = 0
      PROVE  IInv'
  <2>1. pc' = [pc EXCEPT ![m] = step]
    BY <1>3 DEF Goes
  <2>2. TypeOK'
    BY <1>1, <1>3, <2>1 DEF IInv, TypeOK, turnVars, writeVars, worldVars
  <2>3. StepsOK'
    BY <1>1, <1>3, <2>1 DEF IInv, StepsOK, Owes, HasAnswerInHand
  <2>4. CapOK'
    BY <1>1, <1>2, <1>3, <2>1 DEF IInv, CapOK
  <2>5. WritesOK' /\ ClosedIsAccountedFor'
    BY <1>1, <1>3, WritesFrame, SameCoreReflexive DEF IInv, ClosedIsAccountedFor
  <2>. QED BY <1>1, <1>3, <2>2, <2>3, <2>4, <2>5, CoreFrame, SameCoreReflexive DEF IInv
<1>4. CASE row' = Finished(row, m) /\ UNCHANGED pc
  <2>1. TypeOK'
    BY <1>1, <1>4, FinishedKeeps DEF IInv, TypeOK, turnVars, writeVars, worldVars
  <2>. QED BY <1>1, <1>4, <2>1, AccountedNow, FinishedKeeps, HandlerFrame
<1>5. CASE Resubmits(m) /\ row' = [row EXCEPT ![m].request = RequestFor(m)] /\ Goes(m, "turn")
  <2> DEFINE q == RequestFor(m)
  <2>1. /\ row[m].result.state \in {"none", "absorbed"}
        /\ row[m].result.state = "absorbed" => q = "recovery"
        /\ row[m].result.state # "absorbed" =>
              q = IF row[m].request = "none" THEN "first" ELSE row[m].request
    <3>1. row[m].result.state \in {"none", "absorbed"}
      BY <1>5 DEF Resubmits
    <3>2. row[m].result.state = "absorbed" => q = "recovery"
      BY DEF RequestFor
    <3>3. row[m].result.state # "absorbed" =>
             q = IF row[m].request = "none" THEN "first" ELSE row[m].request
      BY DEF RequestFor
    <3>. QED BY <3>1, <3>2, <3>3
  <2>2. pc' = [pc EXCEPT ![m] = "turn"] /\ row' = [row EXCEPT ![m] = [row[m] EXCEPT !.request = q]]
    BY <1>5 DEF Goes
  <2>3. q \in Kinds
    BY <1>1, <2>1 DEF Row, Kinds
  <2> HIDE DEF q
  <2>4. [row[m] EXCEPT !.request = q] \in Row
    BY <1>1, <2>3 DEF Row
  <2>5. OtherRows(m) /\ pc'[m] = "turn"
    BY <1>1, <2>2 DEF OtherRows
  <2>6. /\ row'[m].request = q
        /\ row'[m].result = row[m].result
        /\ row'[m].outgoing = row[m].outgoing
        /\ row'[m].retries = row[m].retries
        /\ row'[m].refusals = row[m].refusals
        /\ row'[m].done = row[m].done
    BY <1>1, <2>2 DEF Row
  <2>7. TypeOK'
    BY <1>1, <2>2, <2>4 DEF IInv, TypeOK, turnVars, writeVars, worldVars
  <2>8. UNCHANGED <<turn, into, run, heard, write, posting, posted>>
    BY <1>1 DEF turnVars, writeVars
  <2>9. RunsOK' /\ HeardOK'
    BY <2>8 DEF IInv, RunsOK, HeardOK, Begun, First, Recovery
  <2>10. RequestsOK'
    <3>1. row[m].result.state = "absorbed" =>
             row[m].request = "recovery" \/ turn[First(m)] = "absorbed"
      BY <1>1 DEF IInv, ResultsOK, Row, Kinds
    <3>2. /\ q = "none" => turn[First(m)] = "none"
          /\ q # "recovery" => turn[Recovery(m)] = "none"
          /\ q = "recovery" => turn[First(m)] \in {"failed", "absorbed"}
          /\ row[m].retries > 0 => q = "recovery"
      BY <2>1, <2>3, <3>1 DEF IInv, RequestsOK, Kinds
    <3> SUFFICES ASSUME NEW c \in Messages
                 PROVE  /\ row'[c].request = "none" => turn'[First(c)] = "none"
                        /\ row'[c].request # "recovery" => turn'[Recovery(c)] = "none"
                        /\ row'[c].request = "recovery" => turn'[First(c)] \in {"failed", "absorbed"}
                        /\ row'[c].retries > 0 => row'[c].request = "recovery"
      BY DEF RequestsOK, First, Recovery
    <3>3. CASE c = m
      BY <2>6, <2>8, <3>2, <3>3
    <3>4. CASE c # m
      BY <2>5, <2>8, <3>4 DEF OtherRows, IInv, RequestsOK
    <3>. QED BY <3>3, <3>4
  <2>11. ResultsOK'
    <3> SUFFICES ASSUME NEW c \in Messages
                 PROVE  /\ row'[c].result.state \in {"settled", "silent", "failed"} =>
                              row'[c].request # "none" /\ turn'[<<c, row'[c].request>>] = row'[c].result.state
                        /\ row'[c].result.state = "absorbed" =>
                              /\ row'[c].request # "none"
                              /\ row'[c].request = "first" => turn'[First(c)] = "absorbed"
      BY DEF ResultsOK, Requested, First
    <3>1. CASE c = m
      BY <2>1, <2>3, <2>6, <2>8, <3>1 DEF Kinds
    <3>2. CASE c # m
      BY <2>5, <2>8, <3>2 DEF OtherRows, IInv, ResultsOK, Requested
    <3>. QED BY <3>1, <3>2
  <2>12. row[m].outgoing = "none"
    BY <2>1 DEF IInv, OutgoingOK, Owes
  <2>13. OutgoingOK' /\ StepsOK'
    BY <2>1, <2>3, <2>5, <2>6, <2>12 DEF OtherRows, IInv, OutgoingOK, StepsOK, Owes, ContentFor, Kinds
  <2>14. WritesOK' /\ CapOK' /\ ClosedIsAccountedFor'
    BY <1>1, <1>2, <2>5, <2>6, <2>8 DEF OtherRows, IInv, WritesOK, CapOK, ClosedIsAccountedFor
  <2>. QED BY <2>7, <2>9, <2>10, <2>11, <2>13, <2>14 DEF IInv
<1>. QED BY <1>3, <1>4, <1>5 DEF Handles

\* The captain's result reaches a row that waits for it.
LEMMA RecordedFacts ==
  ASSUME row \in [Messages -> Row], NEW m \in Messages, NEW result \in Result
  PROVE  /\ ResultSaved(m, result) \in [Messages -> Row]
         /\ ResultSaved(m, result)[m].result.state = result.state
         /\ ResultSaved(m, result)[m].request = row[m].request
         /\ ResultSaved(m, result)[m].outgoing = row[m].outgoing
         /\ ResultSaved(m, result)[m].retries = row[m].retries
         /\ ResultSaved(m, result)[m].refusals = row[m].refusals
         /\ \A c \in Messages :
               /\ ResultSaved(m, result)[c].done = row[c].done
               /\ ResultSaved(m, result)[c].acknowledged = row[c].acknowledged
         /\ \A c \in Messages \ {m} : ResultSaved(m, result)[c] = row[c]
         /\ Accounted(row) => Accounted(ResultSaved(m, result))
<1> DEFINE kept == Retained(row, result)
           saved == ResultSaved(m, result)
<1>1. kept \in Result /\ kept.state = result.state
  BY DEF Retained, Result
<1>2. saved = [row EXCEPT ![m] = [row[m] EXCEPT !.result = kept]]
  BY DEF ResultSaved
<1> HIDE DEF kept, saved
<1>3. [row[m] EXCEPT !.result = kept] \in Row
  BY <1>1 DEF Row
<1>4. saved \in [Messages -> Row] /\ \A c \in Messages \ {m} : saved[c] = row[c]
  BY <1>2, <1>3
<1>5. /\ saved[m].result = kept
      /\ saved[m].request = row[m].request
      /\ saved[m].outgoing = row[m].outgoing
      /\ saved[m].retries = row[m].retries
      /\ saved[m].refusals = row[m].refusals
      /\ saved[m].done = row[m].done
      /\ saved[m].acknowledged = row[m].acknowledged
      /\ saved[m].terminal = row[m].terminal
      /\ saved[m].reply = row[m].reply
  BY <1>2 DEF Row
<1>6. \A c \in Messages :
         saved[c].done = row[c].done /\ saved[c].acknowledged = row[c].acknowledged
  BY <1>4, <1>5
<1>7. Accounted(row) => Accounted(saved)
  BY <1>4, <1>5 DEF Accounted
<1>. QED BY <1>1, <1>4, <1>5, <1>6, <1>7 DEF saved

\* What the row of the message and the others hold once the result is saved,
\* whatever else is repaired with it.
ResultTaken(m, state) ==
    /\ row'[m].result.state = state
    /\ row'[m].request = row[m].request
    /\ row'[m].outgoing = row[m].outgoing
    /\ row'[m].retries = row[m].retries
    /\ row'[m].refusals = row[m].refusals
    /\ \A c \in Messages \ {m} :
          /\ CoreRow(row[c], row'[c])
          /\ row'[c].refusals = row[c].refusals
          /\ row[c].done /\ row[c].result.state # "absorbed" => row'[c].done
    /\ row' \in [Messages -> Row]
    /\ Accounted(row')

LEMMA TakesResult ==
  ASSUME IInv, NEW m \in Messages, pc[m] = "turn",
         turn[Requested(m)] \notin {"none", "begun"},
         ResultTaken(m, turn[Requested(m)]), UNCHANGED <<turnVars, writeVars>>, TypeOK',
         pc'[m] \in {"idle", "answered"},
         pc'[m] = "answered" => turn[Requested(m)] # "absorbed",
         \A c \in Messages \ {m} : pc'[c] \in {pc[c], "idle"}
  PROVE  IInv'
<1> DEFINE r == turn[Requested(m)]
<1>1. /\ r \in {"settled", "silent", "absorbed", "failed"}
      /\ row[m].request # "none" /\ row[m].result.state \in {"none", "absorbed"}
  BY RequestedTurn DEF IInv, StepsOK, TypeOK, Receipt
<1>2. UNCHANGED <<turn, into, run, heard, write, posting, posted>>
  BY DEF turnVars, writeVars
<1>3. /\ row'[m].result.state = r /\ row'[m].request = row[m].request
      /\ row'[m].outgoing = row[m].outgoing /\ row'[m].retries = row[m].retries
      /\ row'[m].refusals = row[m].refusals
  BY DEF ResultTaken
<1>4. \A c \in Messages \ {m} :
         /\ row'[c].request = row[c].request
         /\ row'[c].result.state = row[c].result.state
         /\ row'[c].outgoing = row[c].outgoing
         /\ row'[c].retries = row[c].retries
         /\ row'[c].refusals = row[c].refusals
  BY DEF ResultTaken, CoreRow
<1>5. row[m].outgoing = "none"
  BY <1>1 DEF IInv, OutgoingOK, Owes
<1>6. RunsOK' /\ HeardOK'
  BY <1>2 DEF IInv, RunsOK, HeardOK, Begun, First, Recovery
<1>7. RequestsOK'
  BY <1>2, <1>3, <1>4, RequestsFrame
<1>8. ResultsOK'
  <2> SUFFICES ASSUME NEW c \in Messages
               PROVE  /\ row'[c].result.state \in {"settled", "silent", "failed"} =>
                            row'[c].request # "none" /\ turn[<<c, row'[c].request>>] = row'[c].result.state
                      /\ row'[c].result.state = "absorbed" =>
                            /\ row'[c].request # "none"
                            /\ row'[c].request = "first" => turn[First(c)] = "absorbed"
    BY <1>2 DEF ResultsOK, Requested, First
  <2>1. CASE c = m
    BY <1>1, <1>3, <2>1 DEF Requested, First
  <2>2. CASE c # m
    BY <1>4, <2>2 DEF IInv, ResultsOK, Requested
  <2>. QED BY <2>1, <2>2
<1> HIDE DEF r
<1>9. OutgoingOK'
  BY <1>3, <1>4, <1>5 DEF IInv, OutgoingOK, Owes, ContentFor
<1>10. StepsOK'
  <2>1. pc'[m] = "answered" => r # "absorbed"
    BY DEF r
  <2>. QED BY <1>1, <1>3, <1>4, <2>1 DEF IInv, StepsOK, Owes
<1>11. WritesOK'
  BY <1>2, <1>3, <1>4 DEF IInv, WritesOK
<1>12. CapOK'
  <2>1. row[m].refusals # RefusalsMax
    BY CappedIdle
  <2>2. ASSUME NEW c \in Messages \ {m}, row[c].refusals = RefusalsMax
        PROVE  row'[c].done /\ pc'[c] = "idle"
    BY <2>2 DEF IInv, CapOK, ResultTaken
  <2>. QED BY <1>3, <1>4, <2>1, <2>2 DEF IInv, CapOK
<1>13. ClosedIsAccountedFor'
  BY DEF ResultTaken, Accounted, ClosedIsAccountedFor
<1>. QED BY <1>6, <1>7, <1>8, <1>9, <1>10, <1>11, <1>12, <1>13 DEF IInv

LEMMA StepTurnAnswers ==
  ASSUME IInv, NEW m \in Messages, TurnAnswers(m)
  PROVE  IInv'
<1> DEFINE t == Requested(m)
           result == [state |-> turn[t], owner |-> IF turn[t] = "absorbed" THEN {into[t]} ELSE {}]
           saved == ResultSaved(m, result)
<1>1. /\ pc[m] = "turn" /\ turn[t] \notin {"none", "begun"}
      /\ UNCHANGED <<turnVars, writeVars, unreadable, origin, deleted>>
      /\ row \in [Messages -> Row] /\ t \in Turns
      /\ pc \in [Messages -> {"idle", "precheck", "turn", "answered", "confirm", "sending", "sent"}]
  BY RequestedTurn DEF TurnAnswers, IInv, TypeOK
<1>2. result \in Result
  BY <1>1 DEF IInv, TypeOK, Receipt, Result
<1>3. result.state = turn[t]
  OBVIOUS
<1>4. \/ /\ row' = TurnRecorded(m, result)
         /\ \/ turn[t] = "absorbed" /\ Goes(m, "idle") /\ retained' = retained \cup {m}
            \/ turn[t] # "absorbed" /\ Goes(m, "answered") /\ retained' = retained
         /\ faults' = faults
      \/ Fault /\ StartsFrom(saved)
  BY DEF TurnAnswers
<1> HIDE DEF t, result
<1>6. /\ saved \in [Messages -> Row]
      /\ saved[m].result.state = result.state
      /\ saved[m].request = row[m].request
      /\ saved[m].outgoing = row[m].outgoing
      /\ saved[m].retries = row[m].retries
      /\ saved[m].refusals = row[m].refusals
      /\ \A c \in Messages : saved[c].done = row[c].done
      /\ \A c \in Messages \ {m} : saved[c] = row[c]
      /\ Accounted(saved)
  BY <1>1, <1>2, RecordedFacts, AccountedNow
<1> HIDE DEF saved
<1>7. ASSUME NEW new \in [Messages -> Row], row' = new,
             SameCore(saved, new), SameRefusals(saved, new), Accounted(new),
             \A c \in Messages : saved[c].done /\ saved[c].result.state # "absorbed" => new[c].done
      PROVE  ResultTaken(m, turn[t])
  BY <1>3, <1>6, <1>7 DEF ResultTaken, SameCore, SameRefusals, CoreRow
<1>8. CASE Fault /\ StartsFrom(saved)
  <2>1. row' = Reopened(saved) /\ pc' = [c \in Messages |-> "idle"] /\ retained' = {}
    BY <1>8 DEF StartsFrom
  <2>2. ResultTaken(m, turn[t])
    BY <1>6, <1>7, <2>1, ReopenedKeeps
  <2>3. faults' \in 0..MaxFaults
    BY <1>8, FaultTypes DEF IInv
  <2>4. pc' \in [Messages -> {"idle", "precheck", "turn", "answered", "confirm", "sending", "sent"}]
    BY <2>1
  <2>5. TypeOK'
    BY <1>1, <2>1, <2>2, <2>3, <2>4 DEF ResultTaken, IInv, TypeOK, turnVars, writeVars
  <2>. QED BY <1>1, <2>1, <2>2, <2>5, TakesResult DEF t
<1>9. CASE row' = TurnRecorded(m, result) /\ faults' = faults
           /\ \/ turn[t] = "absorbed" /\ Goes(m, "idle") /\ retained' = retained \cup {m}
              \/ turn[t] # "absorbed" /\ Goes(m, "answered") /\ retained' = retained
  <2>1. \/ row' = ChildrenReleased(saved, m)
        \/ row' = Finished(saved, m)
        \/ row' = saved
    BY <1>9 DEF TurnRecorded, saved
  <2>2. ResultTaken(m, turn[t])
    <3>1. CASE row' = ChildrenReleased(saved, m)
      BY <1>6, <1>7, <3>1, ReleasedKeeps
    <3>2. CASE row' = Finished(saved, m)
      BY <1>6, <1>7, <3>2, FinishedKeeps
    <3>3. CASE row' = saved
      BY <1>6, <1>7, <3>3, SameCoreReflexive
    <3>. QED BY <2>1, <3>1, <3>2, <3>3
  <2>3. /\ pc' = [pc EXCEPT ![m] = pc'[m]] /\ pc'[m] \in {"idle", "answered"}
        /\ pc'[m] = "answered" => turn[t] # "absorbed"
        /\ retained' \subseteq Messages
    BY <1>1, <1>9 DEF Goes, IInv, TypeOK
  <2>4. pc' \in [Messages -> {"idle", "precheck", "turn", "answered", "confirm", "sending", "sent"}]
    BY <1>1, <2>3
  <2>5. TypeOK'
    BY <1>1, <1>9, <2>2, <2>3, <2>4 DEF ResultTaken, IInv, TypeOK, turnVars, writeVars
  <2>6. \A c \in Messages \ {m} : pc'[c] \in {pc[c], "idle"}
    BY <1>1, <2>3
  <2>. QED BY <1>1, <2>2, <2>3, <2>5, <2>6, TakesResult DEF t
<1>. QED BY <1>4, <1>8, <1>9

-----------------------------------------------------------------------------
(* Posting the reply.                                                      *)

\* Only the handler of one message moves on, and its row keeps the text.
MovesOn(m, step) ==
    /\ SameCore(row, row') /\ pc' = [pc EXCEPT ![m] = step]
    /\ \A c \in Messages : row[c].done => row'[c].done
    /\ \A c \in Messages \ {m} : row'[c].refusals = row[c].refusals
    /\ Accounted(row')

\* The text owed is taken in hand, or in hand already.
LEMMA TakesText ==
  ASSUME IInv, NEW m \in Messages, Owes(m), row[m].refusals # RefusalsMax,
         row' = [row EXCEPT ![m].outgoing = ContentFor(m)], Goes(m, "sending"),
         UNCHANGED <<turnVars, posting, posted>>, write' \in [Messages -> Write],
         \A c \in Messages \ {m} : write'[c] = write[c],
         write'[m].content = write[m].content,
         write'[m].state = "none" <=> write[m].state = "none",
         posted[m] # <<>> => write'[m].state \in {"begun", "done"},
         write'[m].state = "done" => posted[m] # <<>>,
         posting[m] # "idle" => write' = write,
         retained' \subseteq Messages, unreadable' \in BOOLEAN,
         origin' \subseteq Messages, deleted' \subseteq Messages, faults' \in 0..MaxFaults
  PROVE  IInv'
<1> DEFINE content == ContentFor(m)
<1>1. /\ row \in [Messages -> Row]
      /\ pc \in [Messages -> {"idle", "precheck", "turn", "answered", "confirm", "sending", "sent"}]
  BY DEF IInv, TypeOK
<1>2. row[m].request # "none" /\ content \in Contents /\ content # "none"
  BY <1>1 DEF Owes, IInv, ResultsOK, ContentFor, Row, Contents, Kinds
<1>3. /\ pc' = [pc EXCEPT ![m] = "sending"]
      /\ row' = [row EXCEPT ![m] = [row[m] EXCEPT !.outgoing = content]]
  BY DEF Goes
<1>4. content = IF row[m].result.state = "failed" THEN "notice" ELSE row[m].request
  BY DEF ContentFor
<1>5. row[m].outgoing # "none" => row[m].outgoing = content
  BY DEF IInv, OutgoingOK
<1> HIDE DEF content
<1>6. [row[m] EXCEPT !.outgoing = content] \in Row
  <2>1. row[m] \in Row
    BY <1>1
  <2>. QED BY <1>2, <2>1 DEF Row
<1>7. TypeOK'
  <2>1. row' \in [Messages -> Row]
    BY <1>1, <1>3, <1>6
  <2>2. pc' \in [Messages -> {"idle", "precheck", "turn", "answered", "confirm", "sending", "sent"}]
    BY <1>1, <1>3
  <2>. QED BY <2>1, <2>2 DEF IInv, TypeOK, turnVars
<1>8. OtherRows(m) /\ pc'[m] = "sending"
  BY <1>1, <1>3 DEF OtherRows
<1>9. /\ row'[m].request = row[m].request
      /\ row'[m].result = row[m].result
      /\ row'[m].outgoing = content
      /\ row'[m].retries = row[m].retries
      /\ row'[m].refusals = row[m].refusals
      /\ row'[m].done = row[m].done
      /\ row'[m].acknowledged = row[m].acknowledged
      /\ row'[m].terminal = row[m].terminal
      /\ row'[m].reply = row[m].reply
  BY <1>1, <1>3 DEF Row
<1>10. UNCHANGED <<turn, into, run, heard>>
  BY DEF turnVars
<1>11. RunsOK' /\ HeardOK'
  BY <1>10 DEF IInv, RunsOK, HeardOK, Begun, First, Recovery
<1>12. RequestsOK'
  BY <1>8, <1>9, <1>10, RequestsFrame DEF OtherRows
<1>13. ResultsOK'
  <2> SUFFICES ASSUME NEW c \in Messages
               PROVE  /\ row'[c].result.state \in {"settled", "silent", "failed"} =>
                            row'[c].request # "none" /\ turn[<<c, row'[c].request>>] = row'[c].result.state
                      /\ row'[c].result.state = "absorbed" =>
                            /\ row'[c].request # "none"
                            /\ row'[c].request = "first" => turn[First(c)] = "absorbed"
    BY <1>10 DEF ResultsOK, Requested, First
  <2>. QED BY <1>8, <1>9 DEF OtherRows, IInv, ResultsOK, Requested
<1>14. OutgoingOK' /\ StepsOK'
  BY <1>2, <1>4, <1>8, <1>9 DEF OtherRows, IInv, OutgoingOK, StepsOK, Owes, ContentFor
<1>15. WritesOK'
  <2> SUFFICES ASSUME NEW c \in Messages
               PROVE  /\ write'[c].state # "none" =>
                            row'[c].outgoing # "none" /\ write'[c].content = row'[c].outgoing
                      /\ posted[c] # <<>> => write'[c].state \in {"begun", "done"}
                      /\ write'[c].state = "done" => posted[c] # <<>>
                      /\ posting[c] = "begun" => write'[c].state = "begun" /\ posted[c] = <<>>
                      /\ posting[c] = "landed" => write'[c].state = "begun" /\ posted[c] # <<>>
                      /\ posted[c] # <<>> => posted[c] = <<write'[c].content>>
    BY DEF WritesOK
  <2>1. CASE c = m
    BY <1>2, <1>5, <1>9, <2>1 DEF IInv, TypeOK, WritesOK
  <2>2. CASE c # m
    BY <1>8, <2>2 DEF OtherRows, IInv, WritesOK
  <2>. QED BY <2>1, <2>2
<1>16. CapOK' /\ ClosedIsAccountedFor'
  BY <1>8, <1>9 DEF OtherRows, IInv, CapOK, ClosedIsAccountedFor
<1>. QED BY <1>7, <1>11, <1>12, <1>13, <1>14, <1>15, <1>16 DEF IInv

LEMMA StepProceeds ==
  ASSUME IInv, NEW m \in Messages, Proceeds(m)
  PROVE  IInv'
<1>1. /\ pc[m] = "answered" /\ row \in [Messages -> Row]
      /\ UNCHANGED <<retained, turnVars, writeVars, worldVars>>
      /\ pc \in [Messages -> {"idle", "precheck", "turn", "answered", "confirm", "sending", "sent"}]
      /\ row[m].refusals # RefusalsMax
  BY CappedIdle DEF Proceeds, IInv, TypeOK
<1>2. ASSUME Goes(m, "idle"), row' = row \/ row' = Finished(row, m)
      PROVE  IInv'
  <2>1. pc' = [pc EXCEPT ![m] = "idle"] /\ row' \in [Messages -> Row]
    BY <1>1, <1>2, FinishedKeeps DEF Goes
  <2>2. TypeOK'
    BY <1>1, <2>1 DEF IInv, TypeOK, turnVars, writeVars, worldVars
  <2>3. /\ SameCore(row, row') /\ SameRefusals(row, row') /\ Accounted(row')
        /\ \A c \in Messages : row[c].done => row'[c].done
    BY <1>1, <1>2, FinishedKeeps, AccountedNow, SameCoreReflexive
  <2>4. \A c \in Messages : pc'[c] \in {pc[c], "idle"}
    BY <1>1, <2>1
  <2>. QED BY <1>1, <2>2, <2>3, <2>4, HandlerFrame
<1>3. CASE OwesReply(m) /\ ~row[m].reply /\ row[m].outgoing # "none" /\ Goes(m, "confirm") /\ row' = row
  <2>1. pc' = [pc EXCEPT ![m] = "confirm"]
    BY <1>3 DEF Goes
  <2>2. TypeOK'
    BY <1>1, <1>3, <2>1 DEF IInv, TypeOK, turnVars, writeVars, worldVars
  <2>3. StepsOK'
    BY <1>1, <1>3, <2>1 DEF IInv, StepsOK, Owes, OwesReply, TypeOK, Row
  <2>4. CapOK' /\ ClosedIsAccountedFor'
    BY <1>1, <1>3, <2>1 DEF IInv, CapOK, ClosedIsAccountedFor
  <2>5. WritesOK'
    BY <1>1, <1>3, WritesFrame, SameCoreReflexive
  <2>. QED BY <1>1, <1>3, <2>2, <2>3, <2>4, <2>5, CoreFrame, SameCoreReflexive DEF IInv
<1>4. CASE /\ OwesReply(m) /\ ~row[m].reply /\ row[m].outgoing = "none"
           /\ row' = [row EXCEPT ![m].outgoing = ContentFor(m)] /\ Goes(m, "sending")
  <2>1. Owes(m)
    BY <1>4 DEF Owes, OwesReply
  <2>2. /\ write' = write /\ UNCHANGED <<posting, posted>>
        /\ UNCHANGED <<unreadable, origin, deleted, faults>>
    BY <1>1 DEF writeVars, worldVars
  <2>3. /\ write \in [Messages -> Write] /\ retained' \subseteq Messages /\ faults' \in 0..MaxFaults
        /\ origin' \subseteq Messages /\ deleted' \subseteq Messages /\ unreadable' \in BOOLEAN
    BY <1>1, <2>2 DEF IInv, TypeOK
  <2>4. /\ posted[m] # <<>> => write[m].state \in {"begun", "done"}
        /\ write[m].state = "done" => posted[m] # <<>>
    BY DEF IInv, WritesOK
  <2>. QED BY <1>1, <1>4, <2>1, <2>2, <2>3, <2>4, TakesText
<1>. QED BY <1>2, <1>3, <1>4 DEF Proceeds

\* A receipt of a reply in which nothing but its end changes.
LEMMA WriteEnds ==
  ASSUME IInv, NEW m \in Messages,
         UNCHANGED <<bridgeVars, turnVars, unreadable, origin, deleted>>, faults' \in 0..MaxFaults,
         TypeOK', WritesOK'
  PROVE  IInv'
<1>1. row' = row /\ pc' = pc
  BY DEF bridgeVars
<1>2. StepsOK' /\ CapOK' /\ ClosedIsAccountedFor'
  BY <1>1 DEF IInv, StepsOK, Owes, CapOK, ClosedIsAccountedFor
<1>. QED BY <1>1, <1>2, CoreFrame, SameCoreReflexive DEF IInv

LEMMA StepLands ==
  ASSUME IInv, NEW m \in Messages, Lands(m)
  PROVE  IInv'
<1>1. /\ posting[m] = "begun" /\ posting' = [posting EXCEPT ![m] = "landed"]
      /\ posted' = [posted EXCEPT ![m] = Append(@, write[m].content)]
      /\ write' = write
      /\ UNCHANGED <<bridgeVars, turnVars, worldVars>>
      /\ posted \in [Messages -> Seq(Contents)] /\ posting \in [Messages -> {"idle", "begun", "landed"}]
      /\ write \in [Messages -> Write]
  BY DEF Lands, IInv, TypeOK
<1>2. /\ write[m].state = "begun" /\ posted[m] = <<>>
      /\ write[m].content # "none" /\ write[m].content \in Contents
  BY <1>1 DEF IInv, WritesOK, Write
<1>3. posted'[m] = <<write[m].content>> /\ \A c \in Messages \ {m} : posted'[c] = posted[c]
  BY <1>1, <1>2
<1>4. posted' \in [Messages -> Seq(Contents)]
  BY <1>1, <1>2
<1>5. TypeOK'
  BY <1>1, <1>4 DEF IInv, TypeOK, bridgeVars, turnVars, worldVars
<1>6. WritesOK'
  <2>1. row' = row /\ posting'[m] = "landed" /\ \A c \in Messages \ {m} : posting'[c] = posting[c]
    BY <1>1 DEF bridgeVars
  <2>2. <<write[m].content>> # <<>>
    OBVIOUS
  <2>. QED BY <1>1, <1>2, <1>3, <2>1, <2>2 DEF IInv, WritesOK
<1>7. faults' \in 0..MaxFaults
  BY <1>5 DEF TypeOK
<1>. QED BY <1>1, <1>5, <1>6, <1>7, WriteEnds DEF worldVars

LEMMA StepWriteSettles ==
  ASSUME IInv, NEW m \in Messages, WriteSettles(m)
  PROVE  IInv'
<1>1. /\ posting[m] = "landed" /\ posting' = [posting EXCEPT ![m] = "idle"]
      /\ write' = [write EXCEPT ![m] = [write[m] EXCEPT !.state = "done"]]
      /\ UNCHANGED <<bridgeVars, turnVars, posted, worldVars>>
      /\ posting \in [Messages -> {"idle", "begun", "landed"}]
      /\ write \in [Messages -> Write]
  BY DEF WriteSettles, IInv, TypeOK
<1>2. [write[m] EXCEPT !.state = "done"] \in Write
  BY <1>1 DEF Write
<1>3. /\ write'[m].state = "done" /\ write'[m].content = write[m].content
      /\ \A c \in Messages \ {m} : write'[c] = write[c] /\ posting'[c] = posting[c]
      /\ posting'[m] = "idle" /\ posted' = posted /\ row' = row
  BY <1>1 DEF Write, bridgeVars
<1>4. TypeOK'
  BY <1>1, <1>2 DEF IInv, TypeOK, bridgeVars, turnVars, worldVars
<1>5. WritesOK'
  BY <1>1, <1>3 DEF IInv, WritesOK
<1>6. faults' \in 0..MaxFaults
  BY <1>4 DEF TypeOK
<1>. QED BY <1>1, <1>4, <1>5, <1>6, WriteEnds DEF worldVars

LEMMA StepWriteFails ==
  ASSUME IInv, NEW m \in Messages, WriteFails(m)
  PROVE  IInv'
<1>1. /\ posting' = [posting EXCEPT ![m] = "idle"]
      /\ UNCHANGED <<bridgeVars, turnVars, write, posted, unreadable, origin, deleted>>
      /\ posting \in [Messages -> {"idle", "begun", "landed"}]
      /\ faults' \in 0..MaxFaults
  BY FaultTypes DEF WriteFails, IInv, TypeOK
<1>2. TypeOK'
  BY <1>1 DEF IInv, TypeOK, bridgeVars, turnVars
<1>3. /\ \A c \in Messages \ {m} : posting'[c] = posting[c]
      /\ posting'[m] = "idle" /\ write' = write /\ posted' = posted /\ row' = row
  BY <1>1 DEF bridgeVars
<1>4. WritesOK'
  BY <1>3 DEF IInv, WritesOK
<1>. QED BY <1>1, <1>2, <1>4, WriteEnds

\* A service that stops forgets its runs and the replies it was posting.
LEMMA StepServiceRestarts ==
  ASSUME IInv, ServiceRestarts
  PROVE  IInv'
<1>1. /\ run' = [t \in Turns |-> "none"] /\ posting' = [m \in Messages |-> "idle"]
      /\ unreadable' = FALSE /\ faults' \in 0..MaxFaults
      /\ UNCHANGED <<bridgeVars, turn, into, heard, write, posted, origin, deleted>>
      /\ into \in [Turns -> Turns]
  BY FaultTypes DEF ServiceRestarts, IInv, TypeOK
<1>2. TypeOK'
  BY <1>1 DEF IInv, TypeOK, bridgeVars
<1>3. row' = row /\ pc' = pc
  BY <1>1 DEF bridgeVars
<1>4. RunsOK' /\ WritesOK'
  BY <1>1, <1>3 DEF IInv, RunsOK, WritesOK
<1>5. RequestsOK' /\ ResultsOK' /\ HeardOK' /\ OutgoingOK'
  BY <1>1, <1>3 DEF IInv, RequestsOK, ResultsOK, HeardOK, OutgoingOK, Begun, Requested,
                    First, Recovery, Owes, ContentFor
<1>6. StepsOK' /\ CapOK' /\ ClosedIsAccountedFor'
  BY <1>3 DEF IInv, StepsOK, Owes, CapOK, ClosedIsAccountedFor
<1>. QED BY <1>2, <1>4, <1>5, <1>6 DEF IInv

\* What the service finds decides the receipt: done only if the reply is in
\* the channel, absent only if it is not.
LEMMA ReconciledReceipt ==
  ASSUME IInv, NEW m \in Messages, posting[m] = "idle", write' = WriteReconciled(m)
  PROVE  /\ write' \in [Messages -> Write]
         /\ \A c \in Messages \ {m} : write'[c] = write[c]
         /\ write'[m].content = write[m].content
         /\ write[m].state = "none" => write'[m].state = "none"
         /\ write'[m].state = "none" => write[m].state = "none"
         /\ posted[m] # <<>> => write'[m].state \in {"begun", "done"}
         /\ write'[m].state = "done" => posted[m] # <<>>
<1>1. write \in [Messages -> Write]
  BY DEF IInv, TypeOK
<1>2. /\ posted[m] # <<>> => write[m].state \in {"begun", "done"}
      /\ write[m].state = "done" => posted[m] # <<>>
  BY DEF IInv, WritesOK
<1>3. CASE write[m].state = "begun" /\ Reconciled(m) = "found"
  <2>1. write' = [write EXCEPT ![m] = [write[m] EXCEPT !.state = "done"]]
    BY <1>3 DEF WriteReconciled
  <2>2. posted[m] # <<>>
    BY <1>3 DEF Reconciled
  <2>3. [write[m] EXCEPT !.state = "done"] \in Write
    BY <1>1 DEF Write
  <2>4. write'[m].state = "done" /\ write'[m].content = write[m].content
    BY <1>1, <2>1 DEF Write
  <2>. QED BY <1>1, <1>3, <2>1, <2>2, <2>3, <2>4
<1>4. CASE write[m].state = "begun" /\ Reconciled(m) = "absent"
  <2>1. write' = [write EXCEPT ![m] = [write[m] EXCEPT !.state = "absent"]]
    BY <1>4 DEF WriteReconciled
  <2>2. posted[m] = <<>>
    BY <1>4 DEF Reconciled
  <2>3. [write[m] EXCEPT !.state = "absent"] \in Write
    BY <1>1 DEF Write
  <2>4. write'[m].state = "absent" /\ write'[m].content = write[m].content
    BY <1>1, <2>1 DEF Write
  <2>. QED BY <1>1, <1>4, <2>1, <2>2, <2>3, <2>4
<1>5. CASE ~(write[m].state = "begun" /\ Reconciled(m) \in {"found", "absent"})
  <2>1. write' = write
    BY <1>5 DEF WriteReconciled
  <2>. QED BY <1>1, <1>2, <2>1
<1>. QED BY <1>3, <1>4, <1>5

\* A step of one handler in which its row keeps its requests and its text.
LEMMA MovedFrame ==
  ASSUME IInv, NEW m \in Messages,
         NEW step \in {"idle", "sent"}, MovesOn(m, step), UNCHANGED turnVars,
         pc[m] # "idle",
         step = "sent" => pc[m] = "sending" /\ row'[m].refusals = row[m].refusals,
         row'[m].refusals = RefusalsMax =>
            row'[m].done /\ step = "idle" /\ row[m].result.state \in {"settled", "failed"},
         TypeOK', WritesOK'
  PROVE  IInv'
<1>1. /\ SameCore(row, row') /\ pc' = [pc EXCEPT ![m] = step]
      /\ pc \in [Messages -> {"idle", "precheck", "turn", "answered", "confirm", "sending", "sent"}]
  BY DEF MovesOn, IInv, TypeOK
<1>2. \A c \in Messages : CoreRow(row[c], row'[c])
  BY <1>1 DEF SameCore
<1>3. StepsOK'
  BY <1>1, <1>2 DEF IInv, StepsOK, CoreRow, Owes
<1>4. CapOK'
  <2> SUFFICES ASSUME NEW c \in Messages, row'[c].refusals = RefusalsMax
               PROVE  /\ row'[c].done /\ pc'[c] = "idle"
                      /\ row'[c].result.state \in {"settled", "failed"}
    BY DEF CapOK
  <2>1. CASE c = m
    BY <1>1, <1>2, <2>1 DEF CoreRow
  <2>2. CASE c # m
    BY <1>1, <1>2, <2>2 DEF CoreRow, MovesOn, IInv, CapOK
  <2>. QED BY <2>1, <2>2
<1>5. ClosedIsAccountedFor'
  BY DEF MovesOn, Accounted, ClosedIsAccountedFor
<1>. QED BY <1>1, <1>3, <1>4, <1>5, CoreFrame DEF IInv

\* Where a handler may be refused, an answer or a failure is in hand.
LEMMA InHand ==
  ASSUME IInv, NEW m \in Messages, pc[m] \in {"precheck", "confirm", "sending", "sent"}
  PROVE  row[m].result.state \in {"settled", "failed"} /\ row[m].refusals # RefusalsMax
  BY CappedIdle DEF IInv, StepsOK, Owes

LEMMA NoResultType == NoResult \in Result
  BY DEF NoResult, Result

LEMMA ClaimedType ==
  ASSUME NEW r \in Row
  PROVE  [r EXCEPT !.request = "recovery", !.retries = 1,
                   !.result = NoResult, !.outgoing = "none"] \in Row
<1>1. [r EXCEPT !.request = "recovery"] \in Row
  BY DEF Row, Kinds
<1>2. ASSUME NEW s \in Row
      PROVE  [s EXCEPT !.retries = 1] \in Row
  BY DEF Row
<1>3. ASSUME NEW s \in Row
      PROVE  [s EXCEPT !.result = NoResult, !.outgoing = "none"] \in Row
  BY NoResultType DEF Row
<1>. QED BY <1>1, <1>2, <1>3

LEMMA StepReconciles ==
  ASSUME IInv, NEW m \in Messages, Reconciles(m)
  PROVE  IInv'
<1>1. /\ pc[m] \in {"precheck", "confirm"} /\ posting[m] = "idle" /\ write' = WriteReconciled(m)
      /\ UNCHANGED <<retained, turnVars, posting, posted, unreadable, origin, deleted>>
      /\ row \in [Messages -> Row]
      /\ pc \in [Messages -> {"idle", "precheck", "turn", "answered", "confirm", "sending", "sent"}]
  BY DEF Reconciles, IInv, TypeOK
<1>2. /\ write' \in [Messages -> Write]
      /\ \A c \in Messages \ {m} : write'[c] = write[c]
      /\ write'[m].content = write[m].content
      /\ write[m].state = "none" => write'[m].state = "none"
      /\ write'[m].state = "none" => write[m].state = "none"
      /\ posted[m] # <<>> => write'[m].state \in {"begun", "done"}
      /\ write'[m].state = "done" => posted[m] # <<>>
  BY <1>1, ReconciledReceipt
<1>3. /\ row[m].result.state \in {"settled", "failed"} /\ row[m].refusals # RefusalsMax
      /\ pc[m] # "idle"
  BY <1>1, InHand
<1>4. faults' \in 0..MaxFaults
  BY FaultTypes DEF Reconciles, IInv, TypeOK
<1>5. \/ Goes(m, "idle") /\ row' = row
      \/ Goes(m, "idle") /\ row' = Refused(row, m)
      \/ Goes(m, "idle") /\ row' = Finished(ReplySaved(row, m), m)
      \/ Goes(m, "turn") /\ row' = RecoveryClaimed(m) /\ pc[m] = "precheck"
      \/ /\ Goes(m, "sending") /\ row' = [row EXCEPT ![m].outgoing = ContentFor(m)]
         /\ pc[m] = "confirm"
  <2>1. Reconciled(m) \in {"conflict", "refused", "found", "absent"}
    BY DEF Reconciled
  <2>. QED BY <1>1, <2>1 DEF Reconciles
<1>6. ASSUME NEW rows \in [Messages -> Row], row' = rows, SameCore(row, rows)
      PROVE  WritesOK'
  <2>1. \A c \in Messages : CoreRow(row[c], row'[c])
    BY <1>6 DEF SameCore
  <2>. QED BY <1>1, <1>2, <2>1 DEF IInv, WritesOK, CoreRow
<1>7. ASSUME NEW rows \in [Messages -> Row], row' = rows, Goes(m, "idle"), SameCore(row, rows),
             \A c \in Messages : row[c].done => rows[c].done,
             \A c \in Messages \ {m} : rows[c].refusals = row[c].refusals,
             rows[m].refusals = RefusalsMax => rows[m].done, Accounted(rows)
      PROVE  IInv'
  <2>1. pc' = [pc EXCEPT ![m] = "idle"]
    BY <1>7 DEF Goes
  <2>2. TypeOK'
    BY <1>1, <1>2, <1>4, <1>7, <2>1 DEF IInv, TypeOK, turnVars
  <2>3. MovesOn(m, "idle")
    BY <1>7, <2>1 DEF MovesOn
  <2>. QED BY <1>1, <1>3, <1>6, <1>7, <2>2, <2>3, MovedFrame
<1>8. CASE Goes(m, "idle") /\ row' = row
  BY <1>1, <1>3, <1>7, <1>8, AccountedNow, SameCoreReflexive
<1>9. CASE Goes(m, "idle") /\ row' = Refused(row, m)
  BY <1>1, <1>3, <1>7, <1>9, AccountedNow, RefusedKeeps DEF Capped
<1>10. CASE Goes(m, "idle") /\ row' = Finished(ReplySaved(row, m), m)
  <2> DEFINE saved == ReplySaved(row, m)
  <2>1. /\ saved \in [Messages -> Row] /\ SameCore(row, saved) /\ SameRefusals(row, saved)
        /\ \A c \in Messages : row[c].done => saved[c].done
        /\ Accounted(saved)
    BY <1>1, AccountedNow, ReplySavedKeeps
  <2> HIDE DEF saved
  <2>2. /\ Finished(saved, m) \in [Messages -> Row]
        /\ SameCore(saved, Finished(saved, m)) /\ SameRefusals(saved, Finished(saved, m))
        /\ \A c \in Messages : saved[c].done => Finished(saved, m)[c].done
        /\ Accounted(Finished(saved, m)) /\ Finished(saved, m)[m].done
    BY <2>1, FinishedKeeps
  <2>3. SameCore(row, Finished(saved, m))
    BY <2>1, <2>2, SameCoreTransitive
  <2>4. row' = Finished(saved, m)
    BY <1>10 DEF saved
  <2>. QED BY <1>7, <1>10, <2>1, <2>2, <2>3, <2>4 DEF SameRefusals
<1>11. CASE Goes(m, "turn") /\ row' = RecoveryClaimed(m) /\ pc[m] = "precheck"
  <2> DEFINE claimed == [row[m] EXCEPT !.request = "recovery", !.retries = 1,
                                       !.result = NoResult, !.outgoing = "none"]
  <2>1. row' = [row EXCEPT ![m] = claimed] /\ pc' = [pc EXCEPT ![m] = "turn"]
    BY <1>11 DEF RecoveryClaimed, Goes
  <2>2. claimed \in Row
    BY <1>1, ClaimedType
  <2>3. /\ row'[m].request = "recovery" /\ row'[m].retries = 1
        /\ row'[m].result.state = "none" /\ row'[m].outgoing = "none"
        /\ row'[m].refusals = row[m].refusals
        /\ row'[m].done = row[m].done /\ row'[m].acknowledged = row[m].acknowledged
        /\ row'[m].terminal = row[m].terminal /\ row'[m].reply = row[m].reply
    BY <1>1, <2>1 DEF Row, NoResult
  <2> HIDE DEF claimed
  <2>4. TypeOK'
    BY <1>1, <1>2, <1>4, <2>1, <2>2 DEF IInv, TypeOK, turnVars
  <2>5. OtherRows(m) /\ pc'[m] = "turn"
    BY <1>1, <2>1 DEF OtherRows
  <2>6. UNCHANGED <<turn, into, run, heard>>
    BY <1>1 DEF turnVars
  <2>7. row[m].result.state = "failed" /\ row[m].retries = 0
    BY <1>11 DEF IInv, StepsOK
  <2>8. turn[First(m)] \in {"failed", "absorbed"}
    <3>1. row[m].request # "none" /\ turn[Requested(m)] = "failed"
      BY <2>7 DEF IInv, ResultsOK
    <3>2. row[m].request \in Kinds
      BY <1>1, <3>1 DEF Row
    <3>. QED BY <3>1, <3>2 DEF Kinds, Requested, First, IInv, RequestsOK
  <2>9. write[m].state = "none"
    BY <2>7 DEF IInv, OutgoingOK, Owes, WritesOK
  <2>10. RunsOK' /\ HeardOK'
    BY <2>6 DEF IInv, RunsOK, HeardOK, Begun, First, Recovery
  <2>11. RequestsOK'
    <3> SUFFICES ASSUME NEW c \in Messages
                 PROVE  /\ row'[c].request = "none" => turn[First(c)] = "none"
                        /\ row'[c].request # "recovery" => turn[Recovery(c)] = "none"
                        /\ row'[c].request = "recovery" => turn[First(c)] \in {"failed", "absorbed"}
                        /\ row'[c].retries > 0 => row'[c].request = "recovery"
      BY <2>6 DEF RequestsOK, First, Recovery
    <3>. QED BY <2>3, <2>5, <2>8 DEF OtherRows, IInv, RequestsOK
  <2>12. ResultsOK'
    <3> SUFFICES ASSUME NEW c \in Messages
                 PROVE  /\ row'[c].result.state \in {"settled", "silent", "failed"} =>
                              row'[c].request # "none" /\ turn[<<c, row'[c].request>>] = row'[c].result.state
                        /\ row'[c].result.state = "absorbed" =>
                              /\ row'[c].request # "none"
                              /\ row'[c].request = "first" => turn[First(c)] = "absorbed"
      BY <2>6 DEF ResultsOK, Requested, First
    <3>. QED BY <2>3, <2>5 DEF OtherRows, IInv, ResultsOK, Requested
  <2>13. StepsOK' /\ OutgoingOK'
    BY <2>3, <2>5 DEF OtherRows, IInv, StepsOK, OutgoingOK, Owes, ContentFor
  <2>14. WritesOK'
    BY <1>1, <1>2, <2>3, <2>5, <2>9 DEF OtherRows, IInv, WritesOK
  <2>15. CapOK' /\ ClosedIsAccountedFor'
    BY <1>3, <2>3, <2>5 DEF OtherRows, IInv, CapOK, ClosedIsAccountedFor
  <2>. QED BY <2>4, <2>10, <2>11, <2>12, <2>13, <2>14, <2>15 DEF IInv
<1>12. CASE /\ Goes(m, "sending") /\ row' = [row EXCEPT ![m].outgoing = ContentFor(m)]
            /\ pc[m] = "confirm"
  <2>1. Owes(m)
    BY <1>12 DEF IInv, StepsOK
  <2>2. /\ retained' \subseteq Messages /\ UNCHANGED <<posting, posted>>
        /\ origin' \subseteq Messages /\ deleted' \subseteq Messages /\ unreadable' \in BOOLEAN
    BY <1>1 DEF IInv, TypeOK
  <2>. QED BY <1>1, <1>2, <1>3, <1>4, <1>12, <2>1, <2>2, TakesText
<1>. QED BY <1>5, <1>8, <1>9, <1>10, <1>11, <1>12

LEMMA StepWriteBegins ==
  ASSUME IInv, NEW m \in Messages, WriteBegins(m)
  PROVE  IInv'
<1>1. /\ pc[m] = "sending" /\ posting[m] = "idle"
      /\ UNCHANGED <<retained, turnVars, posted, worldVars>>
      /\ row \in [Messages -> Row] /\ write \in [Messages -> Write]
      /\ posting \in [Messages -> {"idle", "begun", "landed"}]
      /\ pc \in [Messages -> {"idle", "precheck", "turn", "answered", "confirm", "sending", "sent"}]
  BY DEF WriteBegins, IInv, TypeOK
<1>2. /\ row[m].result.state \in {"settled", "failed"} /\ row[m].refusals # RefusalsMax
      /\ row[m].outgoing # "none"
  BY <1>1, InHand DEF IInv, StepsOK
<1>3. \/ /\ Goes(m, "idle") \/ Goes(m, "sent")
         /\ UNCHANGED <<row, write, posting>>
      \/ Goes(m, "idle") /\ row' = Refused(row, m) /\ UNCHANGED <<write, posting>>
      \/ /\ Goes(m, "sent") /\ row' = row /\ ~Recorded(m)
         /\ write' = [write EXCEPT ![m] = [state |-> "begun", content |-> row[m].outgoing]]
         /\ posting' = [posting EXCEPT ![m] = "begun"]
  BY DEF WriteBegins
<1>4. CASE /\ Goes(m, "idle") \/ Goes(m, "sent")
           /\ UNCHANGED <<row, write, posting>>
  <2>1. PICK step \in {"idle", "sent"} : pc' = [pc EXCEPT ![m] = step]
    BY <1>4 DEF Goes
  <2>2. TypeOK'
    BY <1>1, <1>4, <2>1 DEF IInv, TypeOK, turnVars, worldVars
  <2>3. MovesOn(m, step) /\ WritesOK'
    BY <1>1, <1>4, <2>1, AccountedNow, SameCoreReflexive, WritesFrame DEF MovesOn, writeVars
  <2>. QED BY <1>1, <1>2, <1>4, <2>2, <2>3, MovedFrame
<1>5. CASE Goes(m, "idle") /\ row' = Refused(row, m) /\ UNCHANGED <<write, posting>>
  <2>1. pc' = [pc EXCEPT ![m] = "idle"]
    BY <1>5 DEF Goes
  <2>2. /\ row' \in [Messages -> Row] /\ SameCore(row, row')
        /\ \A c \in Messages \ {m} : row'[c].refusals = row[c].refusals
        /\ \A c \in Messages : row[c].done => row'[c].done
        /\ row'[m].refusals = RefusalsMax => row'[m].done
        /\ Accounted(row')
    BY <1>1, <1>2, <1>5, RefusedKeeps, AccountedNow DEF Capped
  <2>3. TypeOK'
    BY <1>1, <1>5, <2>1, <2>2 DEF IInv, TypeOK, turnVars, worldVars
  <2>4. MovesOn(m, "idle") /\ WritesOK'
    BY <1>1, <1>5, <2>1, <2>2, WritesFrame DEF MovesOn, writeVars
  <2>. QED BY <1>1, <1>2, <2>2, <2>3, <2>4, MovedFrame
<1>6. CASE /\ Goes(m, "sent") /\ row' = row /\ ~Recorded(m)
           /\ write' = [write EXCEPT ![m] = [state |-> "begun", content |-> row[m].outgoing]]
           /\ posting' = [posting EXCEPT ![m] = "begun"]
  <2>1. pc' = [pc EXCEPT ![m] = "sent"]
    BY <1>6 DEF Goes
  <2>2. [state |-> "begun", content |-> row[m].outgoing] \in Write
    BY <1>1 DEF Row, Write
  <2>3. /\ write' \in [Messages -> Write] /\ posting' \in [Messages -> {"idle", "begun", "landed"}]
        /\ write'[m].state = "begun" /\ write'[m].content = row[m].outgoing
        /\ posting'[m] = "begun"
        /\ \A c \in Messages \ {m} : write'[c] = write[c] /\ posting'[c] = posting[c]
    BY <1>1, <1>6, <2>2
  <2>4. TypeOK'
    BY <1>1, <1>6, <2>1, <2>3 DEF IInv, TypeOK, turnVars, worldVars
  <2>5. posted[m] = <<>>
    BY <1>6 DEF Recorded, IInv, WritesOK
  <2>6. WritesOK'
    BY <1>1, <1>2, <1>6, <2>3, <2>5 DEF IInv, WritesOK
  <2>7. MovesOn(m, "sent")
    BY <1>1, <1>6, <2>1, AccountedNow, SameCoreReflexive DEF MovesOn
  <2>. QED BY <1>1, <1>2, <1>6, <2>4, <2>6, <2>7, MovedFrame
<1>. QED BY <1>3, <1>4, <1>5, <1>6

\* The row closes once the reply is saved and everything it answers for.
LEMMA ClosedFacts ==
  ASSUME IInv, NEW m \in Messages
  PROVE  LET closed == Finished(ReplySaved(row, m), m)
         IN  /\ closed \in [Messages -> Row] /\ SameCore(row, closed)
             /\ SameRefusals(row, closed) /\ Accounted(closed)
             /\ \A c \in Messages : row[c].done => closed[c].done
<1> DEFINE saved == ReplySaved(row, m)
<1>1. row \in [Messages -> Row] /\ Accounted(row)
  BY AccountedNow DEF IInv, TypeOK
<1>2. /\ saved \in [Messages -> Row] /\ SameCore(row, saved) /\ SameRefusals(row, saved)
      /\ \A c \in Messages : row[c].done => saved[c].done
      /\ Accounted(saved)
  BY <1>1, ReplySavedKeeps
<1> HIDE DEF saved
<1>3. /\ Finished(saved, m) \in [Messages -> Row]
      /\ SameCore(saved, Finished(saved, m)) /\ SameRefusals(saved, Finished(saved, m))
      /\ \A c \in Messages : saved[c].done => Finished(saved, m)[c].done
      /\ Accounted(Finished(saved, m))
  BY <1>2, FinishedKeeps
<1>4. SameCore(row, Finished(saved, m))
  BY <1>2, <1>3, SameCoreTransitive
<1>5. SameRefusals(row, Finished(saved, m))
  BY <1>2, <1>3 DEF SameRefusals
<1>. QED BY <1>2, <1>3, <1>4, <1>5 DEF saved

LEMMA StepWriteAnswers ==
  ASSUME IInv, NEW m \in Messages, WriteAnswers(m)
  PROVE  IInv'
<1>1. /\ pc[m] = "sent"
      /\ UNCHANGED <<turnVars, writeVars, unreadable, origin, deleted>>
      /\ row \in [Messages -> Row]
      /\ pc \in [Messages -> {"idle", "precheck", "turn", "answered", "confirm", "sending", "sent"}]
  BY DEF WriteAnswers, IInv, TypeOK
<1>2. ASSUME Goes(m, "idle"), UNCHANGED <<retained, faults>>,
             row' = row \/ row' = Finished(ReplySaved(row, m), m)
      PROVE  IInv'
  <2>1. pc' = [pc EXCEPT ![m] = "idle"]
    BY <1>2 DEF Goes
  <2>2. /\ row' \in [Messages -> Row] /\ SameCore(row, row') /\ SameRefusals(row, row')
        /\ Accounted(row') /\ \A c \in Messages : row[c].done => row'[c].done
    BY <1>1, <1>2, ClosedFacts, AccountedNow, SameCoreReflexive
  <2>3. TypeOK'
    BY <1>1, <1>2, <2>1, <2>2 DEF IInv, TypeOK, turnVars, writeVars
  <2>4. \A c \in Messages : pc'[c] \in {pc[c], "idle"}
    BY <1>1, <2>1
  <2>. QED BY <1>1, <2>2, <2>3, <2>4, HandlerFrame
<1>3. CASE Fault /\ StartsFrom(ReplySaved(row, m))
  <2>1. /\ row' \in [Messages -> Row] /\ SameCore(row, row') /\ SameRefusals(row, row')
        /\ Accounted(row')
        /\ \A c \in Messages : row[c].done => row'[c].done
        /\ \A c \in Messages : pc'[c] = "idle"
        /\ retained' \subseteq Messages /\ pc' \in [Messages -> {"idle"}]
    BY <1>1, <1>3, StartFacts, AccountedNow, ReplySavedKeeps
  <2>2. faults' \in 0..MaxFaults
    BY <1>3, FaultTypes DEF IInv
  <2>3. pc' \in [Messages -> {"idle", "precheck", "turn", "answered", "confirm", "sending", "sent"}]
    BY <2>1
  <2>4. TypeOK'
    BY <1>1, <2>1, <2>2, <2>3 DEF IInv, TypeOK, turnVars, writeVars
  <2>. QED BY <1>1, <2>1, <2>4, HandlerFrame
<1>. QED BY <1>2, <1>3 DEF WriteAnswers

-----------------------------------------------------------------------------
(* The theorems.                                                           *)

LEMMA InitIInv == Init => IInv
<1> SUFFICES ASSUME Init PROVE IInv
  OBVIOUS
<1>1. NewRow \in Row
  BY BoundsAssumption DEF NewRow, Row, Result, NoResult
<1>2. <<>> \in Seq(Contents)
  OBVIOUS
<1>3. TypeOK
  <2>1. row \in [Messages -> Row] /\ posted \in [Messages -> Seq(Contents)]
    BY <1>1, <1>2 DEF Init
  <2>2. [state |-> "none", content |-> "none"] \in Write
    BY DEF Write
  <2>3. write \in [Messages -> Write]
    BY <2>2 DEF Init
  <2>4. faults \in 0..MaxFaults
    BY BoundsAssumption DEF Init
  <2>5. turn \in [Turns -> Receipt] /\ into \in [Turns -> Turns]
        /\ run \in [Turns -> {"none", "active"} \cup Outcomes]
    BY DEF Init, Receipt
  <2>. QED BY <2>1, <2>3, <2>4, <2>5 DEF Init, TypeOK
<1>4. \A m \in Messages : /\ row[m].request = "none" /\ row[m].result.state = "none"
                          /\ row[m].outgoing = "none" /\ row[m].retries = 0
                          /\ row[m].refusals = 0 /\ row[m].done = FALSE
  BY DEF Init, NewRow, NoResult
<1>5. RunsOK /\ HeardOK
  BY TurnFacts DEF Init, RunsOK, HeardOK, Begun
<1>6. RequestsOK /\ ResultsOK
  BY <1>4, TurnFacts DEF Init, RequestsOK, ResultsOK
<1>7. StepsOK /\ OutgoingOK /\ WritesOK
  BY <1>4 DEF Init, StepsOK, OutgoingOK, WritesOK
<1>8. CapOK /\ ClosedIsAccountedFor
  BY <1>4, BoundsAssumption DEF CapOK, ClosedIsAccountedFor
<1>. QED BY <1>3, <1>5, <1>6, <1>7, <1>8 DEF IInv

LEMMA StepIInv == IInv /\ [Next]_vars => IInv'
<1> SUFFICES ASSUME IInv, [Next]_vars PROVE IInv'
  OBVIOUS
<1>1. CASE \E m \in Messages : BridgeStep(m)
  BY <1>1, StepArrives, StepHandles, StepExpires, StepFinishesDeleted, StepTurnAnswers,
     StepProceeds, StepReconciles, StepWriteAnswers, StepScanConfirms DEF BridgeStep
<1>2. CASE \E m \in Messages : ServiceStep(m)
  BY <1>2, StepTurnBegins, StepTurnInterrupted, StepWriteBegins, StepLands,
     StepWriteSettles, StepWriteFails DEF ServiceStep
<1>3. CASE \E t \in Turns : RunStep(t)
  BY <1>3, StepTurnSettles, StepRunEnds DEF RunStep
<1>4. CASE Trouble
  BY <1>4, StepBridgeRestarts, StepServiceRestarts, StepCallFails, StepWorld DEF Trouble
<1>5. CASE UNCHANGED vars
  <2>1. UNCHANGED <<turnVars, writeVars>> /\ row' = row /\ pc' = pc
    BY <1>5 DEF vars, bridgeVars
  <2>2. TypeOK'
    BY <1>5 DEF vars, bridgeVars, turnVars, writeVars, worldVars, IInv, TypeOK
  <2>. QED BY <2>1, <2>2, AccountedNow, SameCoreReflexive, HandlerFrame
<1>. QED BY <1>1, <1>2, <1>3, <1>4, <1>5 DEF Next

\* The inductive invariant holds in every reachable state.
THEOREM Invariance == Spec => []IInv
  BY InitIInv, StepIInv, PTL DEF Spec

\* Rows, receipts, runs and replies keep their types, and no row is refused
\* more often than the cap.
THEOREM TypeCorrect == Spec => []TypeOK
<1>1. IInv => TypeOK
  BY DEF IInv
<1>. QED BY <1>1, Invariance, PTL

\* However often either side restarts or loses an answer, Discord shows one
\* reply to a message.
THEOREM RepliesOnce == Spec => []OneReply
<1>1. IInv => OneReply
  <2> SUFFICES ASSUME IInv, NEW m \in Messages
               PROVE  Len(posted[m]) <= 1
    BY DEF OneReply
  <2>1. posted[m] = <<>> \/ posted[m] = <<write[m].content>>
    BY DEF IInv, WritesOK
  <2>2. CASE posted[m] = <<>>
    BY <2>2
  <2>3. CASE posted[m] = <<write[m].content>>
    BY <2>3
  <2>. QED BY <2>1, <2>2, <2>3
<1>. QED BY <1>1, Invariance, PTL

\* The failure notice never stands under a message whose answer is recorded.
THEOREM NoticeNeverHidesAnAnswer == Spec => []NoticeOnlyWithoutAnswer
<1>1. IInv => NoticeOnlyWithoutAnswer
  <2> SUFFICES ASSUME IInv, NEW m \in Messages, NEW i \in DOMAIN posted[m],
                      posted[m][i] = "notice", NEW k \in Kinds
               PROVE  turn[<<m, k>>] # "settled"
    BY DEF NoticeOnlyWithoutAnswer
  <2>1. posted[m] # <<>>
    OBVIOUS
  <2>2. posted[m] = <<write[m].content>> /\ write[m].content = row[m].outgoing
        /\ row[m].outgoing # "none"
    BY <2>1 DEF IInv, WritesOK
  <2>3. row[m].outgoing = "notice"
    BY <2>2
  <2>4. row[m].result.state = "failed" /\ row[m].retries > 0
    <3>1. Owes(m) /\ ContentFor(m) = "notice"
      BY <2>3 DEF IInv, OutgoingOK
    <3>2. row[m].request # "notice"
      BY DEF IInv, TypeOK, Row, Kinds
    <3>. QED BY <3>1, <3>2 DEF Owes, ContentFor
  <2>5. row[m].request = "recovery" /\ turn[First(m)] \in {"failed", "absorbed"}
    BY <2>4 DEF IInv, RequestsOK
  <2>6. turn[Recovery(m)] = "failed"
    BY <2>4, <2>5 DEF IInv, ResultsOK, Requested, Recovery
  <2>. QED BY <2>5, <2>6 DEF Kinds, First, Recovery
<1>. QED BY <1>1, Invariance, PTL

\* No message is heard by a third run, however the bridge and the service
\* crash between handing it over and reading the result.
THEOREM HeardTwice == Spec => []HeardTwiceAtMost
<1>1. IInv => HeardTwiceAtMost
  <2> SUFFICES ASSUME IInv, NEW m \in Messages
               PROVE  heard[m] <= 2
    BY DEF HeardTwiceAtMost
  <2>1. Begun(First(m)) \in 0..1 /\ Begun(Recovery(m)) \in 0..1
    BY DEF Begun
  <2>2. heard[m] = Begun(First(m)) + Begun(Recovery(m))
    BY DEF IInv, HeardOK
  <2>. QED BY <2>1, <2>2
<1>. QED BY <1>1, Invariance, PTL

\* The recovery's run and the first run are never alive together.
THEOREM NeverTwoRuns == Spec => []OneRunAtATime
<1>1. IInv => OneRunAtATime
  <2> SUFFICES ASSUME IInv, NEW m \in Messages
               PROVE  \E k \in Kinds : run[into[<<m, k>>]] # "active"
    BY DEF OneRunAtATime
  <2>1. CASE turn[Recovery(m)] = "none"
    <3>1. run[into[Recovery(m)]] = "none"
      BY <2>1, TurnFacts DEF IInv, RunsOK
    <3>. QED BY <3>1 DEF Kinds, Recovery
  <2>2. CASE turn[Recovery(m)] # "none"
    <3>1. turn[First(m)] \in {"failed", "absorbed"}
      BY <2>2 DEF IInv, RequestsOK
    <3>2. run[into[First(m)]] # "active"
      BY <3>1, TurnFacts DEF IInv, RunsOK
    <3>. QED BY <3>2 DEF Kinds, First
  <2>. QED BY <2>1, <2>2
<1>. QED BY <1>1, Invariance, PTL

\* A closed row was acknowledged, holds the reply or was given up on record.
THEOREM ClosedRowsAreAccountedFor == Spec => []ClosedIsAccountedFor
<1>1. IInv => ClosedIsAccountedFor
  BY DEF IInv
<1>. QED BY <1>1, Invariance, PTL

-----------------------------------------------------------------------------
(* Acknowledgements.                                                       *)

\* A message closed with another one was folded into its run.
LEMMA ClosedWithOwner ==
  ASSUME NEW rows \in [Messages -> Row], NEW n \in Messages, NEW m \in Messages \ {n},
         row' = Finished(rows, n), ~rows[m].acknowledged, row'[m].acknowledged
  PROVE  Evidence(m)
<1>1. m \in AnswersFor(rows, n) /\ row'[n].done /\ row'[m].result = rows[m].result
  BY FinishedKeeps
<1>2. PICK t \in rows[m].result.owner : t[1] = n
  BY <1>1 DEF AnswersFor
<1>. QED BY <1>1, <1>2 DEF Evidence

\* A reply that is recorded or found is in the channel.
LEMMA RepliedTo ==
  ASSUME IInv, NEW m \in Messages,
         write[m].state = "done" \/ Reconciled(m) = "found"
  PROVE  posted[m] # <<>>
  BY DEF IInv, WritesOK, Reconciled

LEMMA AcknowledgedStep ==
  ASSUME IInv, [Next]_vars, NEW m \in Messages, ~row[m].acknowledged, row'[m].acknowledged
  PROVE  Evidence(m)
<1>1. row \in [Messages -> Row] /\ ~(row' = row)
  BY DEF IInv, TypeOK
<1>2. ASSUME NEW n \in Messages, row' = Finished(row, n), n = m => Evidence(m)
      PROVE  Evidence(m)
  BY <1>1, <1>2, ClosedWithOwner
<1>3. ASSUME NEW rows \in [Messages -> Row], \A c \in Messages : rows[c].acknowledged = row[c].acknowledged,
             row' = Reopened(rows)
      PROVE  FALSE
  BY <1>3, ReopenedKeeps
<1>4. ASSUME NEW n \in Messages, row' = Refused(row, n), row[n].refusals # RefusalsMax
      PROVE  FALSE
  BY <1>1, <1>4, RefusedKeeps
<1>5. ASSUME NEW n \in Messages, row' = Finished(ReplySaved(row, n), n),
             n = m => posted[m] # <<>>
      PROVE  Evidence(m)
  <2>1. /\ ReplySaved(row, n) \in [Messages -> Row]
        /\ ReplySaved(row, n)[m].acknowledged = row[m].acknowledged
    BY <1>1, ReplySavedKeeps
  <2>2. CASE n = m
    BY <1>5, <2>2 DEF Evidence
  <2>3. CASE n # m
    BY <1>5, <2>1, <2>3, ClosedWithOwner
  <2>. QED BY <2>2, <2>3
<1>6. ASSUME NEW n \in Messages, BridgeStep(n)
      PROVE  Evidence(m)
  <2>1. CASE Arrives(n)
    BY <1>1, <2>1 DEF Arrives, Row
  <2>2. CASE Handles(n)
    <3>1. CASE row[n].result.state = "absorbed" /\ (\E t \in LiveOwners(n) : row[t[1]].done)
               /\ row' = Finished(row, n)
      <4>1. PICK t \in LiveOwners(n) : row[t[1]].done
        BY <3>1
      <4>2. t \in row[n].result.owner /\ t[1] \in Messages
        BY <1>1, <4>1, TurnFacts DEF LiveOwners, Row, Result
      <4>3. row'[t[1]].done
        BY <1>1, <3>1, <4>1, <4>2, FinishedKeeps
      <4>. QED BY <1>2, <3>1, <4>2, <4>3 DEF Evidence
    <3>2. CASE row' = [row EXCEPT ![n].request = RequestFor(n)]
      BY <1>1, <3>2 DEF Row
    <3>. QED BY <1>1, <2>2, <3>1, <3>2 DEF Handles
  <2>3. CASE Expires(n)
    BY <1>1, <2>3 DEF Expires
  <2>4. CASE FinishesDeleted(n)
    BY <1>2, <2>4 DEF FinishesDeleted, Evidence
  <2>5. CASE TurnAnswers(n)
    <3> DEFINE t == Requested(n)
               result == [state |-> turn[t], owner |-> IF turn[t] = "absorbed" THEN {into[t]} ELSE {}]
               saved == ResultSaved(n, result)
    <3>1. t \in Turns /\ result \in Result /\ result.state = turn[t]
      BY <2>5, RequestedTurn DEF TurnAnswers, IInv, TypeOK, Receipt, Result
    <3>2. row' = TurnRecorded(n, result) \/ row' = Reopened(saved)
      BY <2>5 DEF TurnAnswers, StartsFrom
    <3> HIDE DEF result
    <3>3. /\ saved \in [Messages -> Row]
          /\ \A c \in Messages : saved[c].acknowledged = row[c].acknowledged
      BY <1>1, <3>1, RecordedFacts
    <3>4. \/ row' = ChildrenReleased(saved, n)
          \/ row' = saved
          \/ row' = Reopened(saved)
          \/ row' = Finished(saved, n) /\ \E o \in saved[n].result.owner : saved[o[1]].done
      BY <3>2 DEF TurnRecorded
    <3> HIDE DEF saved
    <3>5. CASE row' = ChildrenReleased(saved, n)
      BY <3>3, <3>5, ReleasedKeeps
    <3>6. CASE row' = saved \/ row' = Reopened(saved)
      BY <1>3, <3>3, <3>6
    <3>7. CASE row' = Finished(saved, n) /\ \E o \in saved[n].result.owner : saved[o[1]].done
      <4>1. CASE n = m
        <5>1. PICK o \in saved[n].result.owner : saved[o[1]].done
          BY <3>7
        <5>2. o[1] \in Messages
          BY <3>3, <5>1, TurnFacts DEF Row, Result
        <5>3. row'[o[1]].done /\ row'[n].result = saved[n].result
          BY <3>3, <3>7, <5>1, <5>2, FinishedKeeps
        <5>. QED BY <4>1, <5>1, <5>3 DEF Evidence
      <4>2. CASE n # m
        BY <3>3, <3>7, <4>2, ClosedWithOwner
      <4>. QED BY <4>1, <4>2
    <3>. QED BY <3>4, <3>5, <3>6, <3>7
  <2>6. CASE Proceeds(n)
    <3>1. CASE row[n].result.state = "silent" /\ row' = Finished(row, n)
      <4>1. row[n].request \in Kinds /\ turn[Requested(n)] = "silent"
        BY <1>1, <3>1 DEF IInv, ResultsOK, Row
      <4>. QED BY <1>2, <3>1, <4>1 DEF Evidence, Silent, Requested
    <3>2. CASE row' = [row EXCEPT ![n].outgoing = ContentFor(n)]
      BY <1>1, <3>2 DEF Row
    <3>. QED BY <1>1, <2>6, <3>1, <3>2 DEF Proceeds
  <2>7. CASE Reconciles(n)
    <3>1. row[n].refusals # RefusalsMax
      BY <2>7, InHand DEF Reconciles
    <3>2. \/ row' = row \/ row' = Refused(row, n)
          \/ Reconciled(n) = "found" /\ row' = Finished(ReplySaved(row, n), n)
          \/ row' = RecoveryClaimed(n)
          \/ row' = [row EXCEPT ![n].outgoing = ContentFor(n)]
      <4>1. Reconciled(n) \in {"conflict", "refused", "found", "absent"}
        BY DEF Reconciled
      <4>. QED BY <2>7, <4>1 DEF Reconciles
    <3>3. CASE row' = RecoveryClaimed(n) \/ row' = [row EXCEPT ![n].outgoing = ContentFor(n)]
      BY <1>1, <3>3 DEF RecoveryClaimed, Row
    <3>. QED BY <1>1, <1>4, <1>5, <3>1, <3>2, <3>3, RepliedTo
  <2>8. CASE WriteAnswers(n)
    <3>1. \/ row' = row
          \/ write[n].state = "done" /\ row' = Finished(ReplySaved(row, n), n)
          \/ row' = Reopened(ReplySaved(row, n))
      BY <2>8 DEF WriteAnswers, StartsFrom
    <3>. QED BY <1>1, <1>3, <1>5, <3>1, RepliedTo, ReplySavedKeeps
  <2>9. CASE ScanConfirms(n)
    BY <1>2, <2>9 DEF ScanConfirms, Evidence
  <2>. QED BY <1>6, <2>1, <2>2, <2>3, <2>4, <2>5, <2>6, <2>7, <2>8, <2>9 DEF BridgeStep
<1>7. ASSUME NEW n \in Messages, ServiceStep(n)
      PROVE  Evidence(m)
  <2>1. row' = row \/ (WriteBegins(n) /\ row' = Refused(row, n))
    BY <1>7 DEF ServiceStep, TurnBegins, TurnInterrupted, WriteBegins, Lands, WriteSettles,
                WriteFails, bridgeVars
  <2>2. WriteBegins(n) => row[n].refusals # RefusalsMax
    BY InHand DEF WriteBegins
  <2>. QED BY <1>1, <1>4, <2>1, <2>2
<1>8. CASE \E t \in Turns : RunStep(t)
  BY <1>1, <1>8 DEF RunStep, TurnSettles, RunEnds, bridgeVars
<1>9. CASE Trouble
  <2>1. row' = row \/ row' = Reopened(row)
    BY <1>9 DEF Trouble, BridgeRestarts, ServiceRestarts, SaveFails, CallFails, OriginChanges,
                Deletes, StartsFrom, bridgeVars
  <2>. QED BY <1>1, <1>3, <2>1
<1>10. CASE UNCHANGED vars
  BY <1>1, <1>10 DEF vars, bridgeVars
<1>. QED BY <1>6, <1>7, <1>8, <1>9, <1>10 DEF Next

\* No step of either process acknowledges a message without a reply under it,
\* a turn that chose silence, its deletion, or the closed row of the message
\* whose run it was folded into.
THEOREM AcknowledgesOnEvidence == Spec => AcknowledgedOnEvidence
<1>1. IInv /\ [Next]_vars =>
         [\A m \in Messages : ~row[m].acknowledged /\ row'[m].acknowledged => Evidence(m)]_vars
  BY AcknowledgedStep
<1>. QED BY <1>1, Invariance, PTL DEF Spec, AcknowledgedOnEvidence
=============================================================================
