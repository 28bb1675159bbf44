# Clankie: specifications and proofs

TLA+ modules for the parts of Clankie whose correctness depends on the order in
which several processes, machines or owners act and on what survives a crash.
Every definition is translated from the source in `src/`; the map from
definitions to source lines is in `PROJECT.json`, with the components, the runs,
what is hard to test and where, and the theorems.

## The system

Clankie is one agent that lives on an owner's machine. The **main service**
(`apps/clankie`) holds his memory, conversations, work tracker and settings on
disk, runs his model turns, supervises worker agents ("seats") in terminal panes
and serves HTTP routes. Around it:

| component | where | state it keeps | operations | talks to |
|---|---|---|---|---|
| body transfer | `apps/clankie/src/body-transfer*.ts`, `dormant-body.ts`, `apps/tui/src/command/transfer.ts` | `self.json`: self id, epoch, state, one record per transfer id; staged and outgoing bundles; archives | freeze, export, release, abort, reclaim, stage, apply, boot, discard, status, rebind | the same component on another machine, through the owner's command and a sealed peer exchange |
| body leases | `apps/clankie/src/body-leases.ts`, `body-lease-router.ts`, `body-voice-stays.ts` | per resource (voice, computer, ...) a claim with token, expiry, pending operations and recovery; stays; pending requests | acquire, renew, release, begin, finish, recovery, request/attempt/commit | Discord bridge, user session, desktop control |
| Discord text delivery | `apps/discord-bridge/src/text-inbox.ts`, `captain/discord-turn-receipts.ts`, `app/discord-routes.ts` | one record per message on each side of the call: request, result, outgoing reply, refusals; receipts of turns and of writes | receive, deliver, retry, reconcile, absorb, acknowledge, abandon | Discord's gateway and history, the captain's runs |
| delivery to the head's seat | `captain/seat-outbox.ts`, `captain/delivery-fence.ts`, `captain/conversations/native-seats.ts`, `apps/tui/src/command/mcp.ts` | queued input and its waiters; the durable fence of receipts; the seat's lane and presence; the bridge's page and receipts | choose a driver, queue, poll, show, acknowledge, reply, expire, settle | a native harness that holds the seat of the head conversation |
| worker seats' mailboxes | `captain/next-turn-mailbox.ts`, `captain/inbound-seat-receipts.ts`, `captain/captain-seat-delivery.ts` | notes and receipts per worker seat | enqueue, claim, submit, settle, retire | worker harnesses (Claude, Codex, OpenCode, Pi) |
| conversations | `captain/conversations/*`, `captain/pi-turn-journal.ts` | the durable conversation store, turn journal, inbox fences, worker reports, service hand-offs | append, claim turn, settle, replay | model turns, seats |
| review gate, deploy holds, routines, hired-seat restarts | `captain/review-gate.ts`, `deploy-holds.ts`, `captain/routines.ts`, `captain/hired-seat-restart.ts` | verdicts per revision; holds with owners; schedules; restart intents | request, decide, release; place, lift, expire; arm, fire; request, restart, resume | tracker, git, seats |
| fleet resources | `packages/fleet-resources` | per lane a journal of tickets and leases that every process of the machine shares; simulators, restart guards | admit, grant, release, reconcile, park | every heavy command a worker runs |
| foreign heavy permits | `apps/clankie/src/foreign-heavy-permits.ts` | the callers on a socket and their line; the holding commands | connect, hold, hang up, take back, turn off and on | another account of the machine; fleet resources |
| work items | `packages/work-items` | tracker journal, store lock, drops, review patches | claim, update, replay, compact | CLI, service, Linear |
| credential broker | `packages/credential-broker` | encrypted credentials, refresh locks | read, refresh, rotate | every sign-in |
| gateway, relay | `apps/gateway`, `apps/relay` | sessions, sealed envelopes, device pairing, sequence numbers | pair, connect, forward | phones, the hosted service |
| Discord presence | `packages/discord-presence-core`, `apps/discord-user-session`, `apps/vox` | voice session, floor, text ingress | join, speak, yield, leave | Discord, main service |
| terminal UI, CLI | `apps/tui` | views, update files | commands, update, install | main service |
| games, activity, docs site, plugins | `packages/play*`, `packages/game-extension`, `integrations/*`, `apps/discord-activity`, `apps/docs` | their own | | |

### Where it is hard

* **Body transfer.** Two or more installations, an owner's command in between
  that may be cut off, repeated or delayed at every call, processes that crash at
  every file operation, signed answers that never expire, and an owner who may
  force his way out. It must never leave two active Clankies, nor none.
* **The voice.** Holders in other processes, expiry by clock, operations that
  finish after their lease was lost, a service restart that must treat every
  effect in flight as uncertain, and a recovery that two processes take part in.
* **Text delivery.** Two stores in two processes, each saved before and after the
  call between them; a run that may have had effects and must not be repeated; a
  write to Discord whose outcome only Discord knows; messages folded into each
  other's runs. One reply to a message, and in the end an answer or a visible
  refusal.
* **Delivery to the seat.** The service and the seat may both drive the same
  conversation, and only one may at a time. The seat's bridge dies with events it
  has taken, and whether the harness read them is then unknown for good.
* **Permits.** Many processes share one file under a lock, and what each knows of
  the others is older than the lock. A command outlives whoever asked for it.
  Callers hang up at every step of getting a permit.

## What is modelled

### `BodyTransfer`: the protocol

One body is one installation. Its durable record `self.json`
(`BodySelfSchema`, `packages/protocol/src/body-transfer.ts:133`) is the function
values `selfId[b]`, `epoch[b]`, `state[b]`, `transferId[b]` and `transfers[b]`;
`body-transfer.ts` always writes it whole and fsyncs it, so each action changes
it atomically. `incoming` and `outgoing` are the verified bundles on disk,
`proc` is what the running process was fixed to be at boot (`bootedDormant`),
and `staging` is the admission that a running stage has decided and not yet
recorded. `activations` and `burns` are the signed proofs an owner has read:
they only grow and every step may use any of them, which is what delayed,
duplicated and reordered replies amount to.

| action | code | what it is |
|---|---|---|
| `Freeze` | `freeze` | the source stops being Clankie, in an idle cutover |
| `OutgoingBundle` | `outgoingBundle`, `prepareOutgoing` | the bundle of a body that booted dormant |
| `StageBegin`, `StageCommit`, `StageGivesUp`, `StageRefused` | `stageStream`, `admit` | the admission, and the record written many awaits later |
| `Apply` | `apply`, `stagedManifest` | the intent |
| `Boot`, `BootInstall`, `BootActivate` | `boot`, `applyStaged` | a boot finishes the intent, in two crash-separated steps |
| `ReadActivation`, `Release` | `authority`, `release` | the signed status, and the tombstone |
| `Discard`, `Abort` | `discard`, `abort` | the burned id, and Clankie's return |
| `Reclaim` | `reclaim` | the owner's forced escape |
| `Stop`, `TakeTurn` | cutover, restart, crash; a turn | the process and the history it gathers |

Abstractions. A self id is named after the body that mints it (a body mints at
most one). A transfer id is a model value. Signatures and seals are modelled by
what they prove: a release or abort finds the exact answer of the recorded
destination among the proofs. Every route may be called at any time with any
transfer id, which covers the command, its reruns, two commands at once and an
owner with `curl`; the command itself is `TransferCommand`. Uploaded, still sealed
chunks are not state here: an upload that does not verify changes nothing. A
repeated call that the code answers without a change (`freeze`, `release`,
`apply` of a settled id) is a stutter.
`forced` and `displaced` are specification variables: they record which selves an
owner forced, or overwrote with `--replace`, so that the properties can say
exactly what those acts give up.

### `SelfAuthority` and `BodyTransferRefinement`: what it promises

`SelfAuthority` has no bodies' records, bundles, processes or proofs: a self has
a holder or none, departs under a number above all issued for it, and arrives
under the last number issued. `BodyTransferRefinement` maps the detailed state to
it (`HoldersOf`, `IssuedTo`, `LivedBy`) and `ImplementsSelfAuthority` is checked
as a property: every step of the protocol is a departure, an arrival, a
displacement, a stutter, or moves only forced selves. It is proved as well.

### `BodyApply`: one apply, rename by rename

`BodyTransfer` takes everything a boot does before it removes the staged bundle
as one step. `BodyApply` takes it apart: for each path the manifest replaces, the
archive rename and the install rename, then the copy of the settings into the
archive, the merged settings, the removal, the record; a crash or a failing step may
come between any two, and the next boot starts from the top.

The renames, the merge of the settings and the record are each atomic in the code (the
last two write a file beside and rename it). The copy of the settings is not: it is
written at its final path, where the next boot looks only whether a file is there
(`body-transfer.ts:888-891`). So it is two steps: `KeepSettings` begins it (`kept` is
"partial") and `CopySettings` ends it. `torn` remembers that a boot was cut between
them. The removal of the staged bundle is one step: by then nothing staged is
left to install, so only whether the manifest is still there makes a difference.

### `TransferCommand`: the owner's two commands

`clankie transfer` and `clankie transfer abort`
(`apps/tui/src/command/transfer.ts`) over the bodies of `BodyTransfer`, which it
extends. `move[t]` and `undo[t]` say which call each command is at, `seen[t]` is
the destination's outcome the move read at its start and decides by later
(`AfterFreeze`), `faults` counts what goes wrong.

| action | code |
|---|---|
| `MoveStarts` | the two statuses (l. 205-243) and what an earlier run left to do |
| `AsksFreeze`, `SeesDormant`, `Downloads`, `Stages`, `IsStaged`, `AsksApply`, `SeesActive`, `AsksApplyAgain`, `AsksRelease` | the calls in their order; each is one action of `BodyTransfer` together with what the command does with the answer, or the refusal |
| `TimesOut`, `Unanswered` | the ten-minute waits; a body that is down |
| `UndoStarts`, `AsksDiscard`, `AsksAbort` | the abort: burn at the destination, then unfreeze the source |
| `LosesCall`, `LosesStage`, `GivesUpStage`, `LosesUndo` | a lost call or answer; a stage that runs on without its caller |
| `Crash`, `ShutsDown`, `Boots`, `FailsToBoot` | the bodies' restarts |

The two bodies of a transfer id are fixed (`From`, `To`), so the checks that a
rerun names the same peer are not here. A move of one id has one command at a
time, beside which an abort of the same id may run. A move that waits for a
dormant destination which never saw the apply waits in vain, as in the code; only
a rerun gets on. A body that is aborted before the shutdown
of its cutover goes on running in the model; in the code the shutdown's timer still
restarts it, into the same state.

### `VoiceBody`: who holds the voice

The voice is the lease with the most going on: a registry in the service, stays in
the Discord body's process, calls from a device, and a recovery that goes through
both. The state and where it lives:

| variable | code |
|---|---|
| `claim`, `issued` | the durable claim of `BodyLeaseStore` (`body-leases.ts`): who holds it, its token, its pinned operations |
| `stays` | the durable stay records of `BodyVoiceStays` (`body-voice-stays.ts`) |
| `restartClaims`, `authority`, `recovery`, `calls` | what the service only remembers: a crash loses it (`LosesMemory`) |
| `active`, `body` | the map and the presence session of the Discord body (`body-voice-lease.ts`) |
| `present` | the connections Discord shows |

| action | code |
|---|---|
| `Lapses` | a claim that nobody renewed for its time to live |
| `OperatorAcquires` | `POST /v1/body-leases` |
| `Crashes`, `Restarts` | the boot rotates the token, unpins and blocks the claim (`body-leases.ts:76-91`), and binds the unfinished stays to the new token (`body-voice-stays.ts:79-100`) |
| `Admits`, `AdmitIsCut` | `claim`: a stay shares the claim of its conversation's stays in one room, or acquires |
| `Starts`, `Loses`, `Leaves`, `BodyCrashes`, `Drops` | the gateway's join and leave, the heartbeat's refusals, the process, Discord |
| `Finishes`, `FinishIsCut`, `FinishFails` | the report of a confirmed leave and `finish` in the service |
| `CallStarts`, `CallEnds`, `CallReleases` | a device call (`voice-call.ts`, `voice-call-route.ts`) |
| `RecoveryBegins`, `RecoveryAsks`, `BodyConfirms`, `RecoveryFrees`, `RecoveryIsCut`, `RecoveryFails` | `recoverVerified`, `reconcile` and the body's verified stop (`body-lease-router.ts`, `body-voice-reconcile.ts`) |

Abstractions. Time is the one action `Lapses`. A claim that lapsed and one marked
for recovery are refused alike, and `expired` stands for both. A store that cannot
write refuses everything until the service restarts: the model takes it for a
service that is down. The last heartbeat's answer and the join it lets through are
one step. Discord is taken to confirm a leave also for someone in no room. The
sweep's own conditions (a known, service-owned holder whose turn has ended) are
taken to hold. Not modelled: the one-use tickets and what authorization asks, Go
Live stays, `router.run`, the queue of requests to a holder, the other resources
and the pruning of old records.
### `TextDelivery`: one reply to a Discord message

The bridge's inbox keeps a row for each message, the service keeps a receipt for
each turn and each write. A turn that is lost, or fails, is begun once more under
a second delivery id (`:recovery`); a second failure is answered with a notice. The
captain may fold a message into the live run of another one, whose reply then
answers both.

| variable | code |
|---|---|
| `row`, `retained` | the rows of `text-inbox.ts`, and the outcomes the ingress remembers (`text-ingress.ts`) |
| `pc` | which call of the handler (`deliver`) is under way for a message |
| `turn`, `into` | the receipts of turns (`discord-turn-receipts.ts`) and which run a turn was folded into |
| `run`, `heard` | the captain's runs, and how many of them heard the message (history) |
| `write`, `posting`, `posted` | the receipts of writes, a post on its way, and what Discord shows |
| `unreadable`, `origin`, `deleted` | a store that failed to save, whether the bridge's identity is still the message's, deletions |

| action | code |
|---|---|
| `Arrives`, `Handles`, `Expires`, `FinishesDeleted`, `TurnAnswers` | receipt, `deliver`, the end of the ingress's memory, a deleted message, the result saved in the row |
| `TurnBegins`, `TurnBeginsAgain`, `TurnSettles`, `TurnInterrupted`, `RunEnds` | the route of a turn (`discord-routes.ts`) and its receipt; `Orphaned` asks whether the recorded process lives |
| `Proceeds`, `Reconciles`, `WriteBegins`, `Lands`, `WriteSettles`, `WriteFails`, `WriteAnswers`, `ScanConfirms` | the reply: is one owed, was it posted, the post itself, Discord's answer, and the scan that finds it in the history |
| `BridgeRestarts`, `ServiceRestarts`, `CallFails`, `SaveFails`, `OriginChanges`, `Deletes` | what goes wrong |

Abstractions. A reply is one of three texts: the first turn's answer, the second
turn's, the notice. A reply that a dying service has already sent reaches Discord
before the next service reads the channel's history, or never. Turns with a saved
`recoveryRequest`, which resume after a restart instead of failing, are left out, as
are attention and buffering, progress posts, the scan's cursor and what a turn says.
Two things
to know of the code: a message folded into a run that then failed gets a turn of its
own only when the ingress forgets its first outcome, after up to seven hours
(`Expires`), or the bridge restarts; and an absorbed message whose owner's row was
given up after refusals is acknowledged all the same, for an owner's row that is done
counts as its answer.

### `HeavyPermits`: one lane of the machine

Every heavy command of every process asks for a permit in a journal file that they
share. A process changes it only in a transaction under an operating system lock
and looks at the processes the journal names before it takes the lock.

| variable | code |
|---|---|
| `place`, `lease` | the tickets and the leases of the journal (`governor.ts`, `store.ts`) |
| `client`, `aborted` | a requester (`acquire`, `holdLight`, `runHeavy`) and its cancellation |
| `seen` | what a requester found when it looked, which it reconciles by in its next transaction |
| `alive`, `runner`, `group`, `stopping` | the processes: requesters, runners (`holder.ts`, `native.py`) and the group a runner starts its command in |

| action | code |
|---|---|
| `Ask`, `LookFully`, `LookBlind` | a request, and the observation before each transaction, which may find nothing |
| `Enqueue`, `QueueFull`, `Pass`, `Withdraw`, `GivesUp` | `acquire`: a ticket, and a lease once it is the first and a slot is free |
| `Work`, `EndHold` | `holdLight`: the requester does the work |
| `SpawnRunner`, `Register`, `Go`, `Launch`, `RunnerIsGone`, `Close`, `RunnerReleases` | `runHeavy`: the runner takes the lease over under the lock, is told to start, and gives it back when its group is empty |
| `MissesRunner` | `runHeavy` again: the registered runner's identity cannot be read, or does not match (`governor.ts:934`); the request ends in an error and leaves the runner with its input open |
| `CommandEnds`, `StopLeftovers`, `KillGroup`, `Abort`, `Exit`, `RunnerDies`, `ProcessDies` | the world |

Each transaction (`Transact`) applies `QueueAfter` and `LeasesAfter`, the code's
`reconcile`, to what was seen before the lock, and is answered, or not: the helper
that holds the lock may end after the write and before its answer. An
observation keeps only what is final (an exited process, an ended or orphaned
group), so a stale one is a subset of the truth. A requester's own id and token are
one job, so tokens are not compared. Three things of a request that is over stay in the
journal (`LeftBehind`): a ticket and an unused lease of the live service, since the code
looks only at whether the owner lives, and the lease of a registered runner that is
never told to start nor sees its input end. The last may be a command's too: its process waits
for the runner it left (`Exit`), so it stays until somebody kills it. Left out: simulators, the restart guard, changes of policy, CPU
limits of servers, permits within permits, the governor's snapshot.

### `PermitLane` and `PermitLaneRefinement`: what a lane promises

The source says "Each lane is a FIFO of this many permits" (`governor.ts:606`).
`PermitLane` is that and no more: requests wait in the order they came, the first that
still waits is served while a slot is free, and a permit is taken back at any time after
its work, never under it. It has no journal, processes, looks or lost answers.
`PermitLaneRefinement` maps to it: a request waits while its requester does (a ticket of a
dead requester waits no more), its permit is its lease in the journal, its work is its
group or what its requester does itself. `ImplementsLane` is checked as a property, and
proved.

### `ForeignPermits`: another account asks over a socket

`foreign-heavy-permits.ts` composed with `HeavyPermits`, which it extends: a caller
holds a permit by a run of a command that does nothing but hold, and gives it back by
hanging up. `connected`, `started` (the callers with a holding run), `line` (those that
wait for one, in their order), `told` and `holder` are the service's memory; the code's
map of permits is `started` and `line` together. `known` is what its refresh knew.
`Connect` refuses a caller beyond the line, `HangUp`, `Granted`, `MaxHold`,
`HoldEnds` (quietly, or untold when the switch had cut the callers off), `TurnOff` and
`TurnOn` are the handlers, each with the `pump` at its end; `RefreshLooks` and
`RefreshReconciles` are the service's five-second refresh, two steps like every
transaction. Left out: who may connect, the parsing of requests, a changed number
of leases.

### `SeatOutbox`: what is said to the head's seat

While a native harness (Claude, Codex, ...) holds the seat of Clankie's head
conversation, worker reports, questions from a linked channel and owner turns sent
with "queue" go to the seat or to the service's own lane.

| variable | code |
|---|---|
| `call` | how far the run of each send has come, from the choice of a driver (`native-seats.ts`) to its outcome (`captain-conversation-runner.ts`) |
| `older`, `held`, `carries`, `busy` | the queue's order, the turns held behind the seat's own, what an event carries, the seat's turn (`seat-outbox.ts`) |
| `fence`, `delivered`, `abandoned` | the durable receipts (`delivery-fence.ts`) |
| `bound`, `lane` | 30 s of grace after a poll, 45 s of lane hold |
| `bridge`, `page`, `receipts` | the pump of `mcp.ts`: events taken and not shown, shown and not acknowledged |
| `given`, `shown`, `answered` | history: what a poll took, the harness saw, the harness answered |

| action | code |
|---|---|
| `Begins`, `Chooses`, `Delivers`, `GivesUp`, `LaneEnds` | a send, its driver, `deliver` to the outbox, a seat that left while it waited, a run of the service |
| `AckExpires`, `ReplyExpires`, `Aborts`, `AbandonUnknown` | the 2 s without an acknowledgment, the reply's deadline, a cancellation, the owner's `abandoned-unknown` |
| `BridgeStarts`, `Asks`, `AskFails`, `Polls`, `PollEmpty`, `PollAborted`, `Retries` | the bridge's poll, which waits for the service's run to end (admission), takes or parks |
| `Shows`, `ShowFails`, `AckReaches`, `AckGivesUp`, `Replies` | the page, its acknowledgments, the harness's answer |
| `TurnStarts`, `TurnEnds`, `BoundLapses`, `LaneLapses`, `Stalls`, `BridgeDies`, `ServiceRestarts` | the seat's own turns, the windows, a bridge that stalls or dies, the service |

Abstractions. Time is what the guards let happen: a timer may fire when nothing that
beats it is under way. The content of a send is compared, never looked at. A stop of
the service and its next start are one step, clean or not. Left out: Watch and usage
limits, event kinds and capabilities, recipients bound to one process, an unreadable
journal, alerts, superseded polls, the reports' pull path and remote workspaces.

### The `MC` modules

`MCBodyTransfer`, `MCTransferCommand`, `MCHeavyPermits`, `MCForeignPermits` and
`MCSeatOutbox` give TLC its model values, small sets and functions, and `MCBodyTransfer` the
symmetry of its transfer ids. `BodyApply`, `VoiceBody` and `TextDelivery` need none:
their constants are numbers and sets of model values, given in their configurations.

Definitions whose comment begins with "Mutant:" are never part of a specification.
Each is a form that a plausible bug would give a definition beside it;
`PROJECT.json` lists for every property the one that must violate it.

## Runs

| run | instance | shows |
|---|---|---|
| `roundtrips` | 2 bodies, 3 transfers, epochs up to 3; one body may reclaim and talk | `OneActiveSelf`, `AbortExcludesApply`, `ReleasedWasActivated`, `SnapshotIsFinal`, `HeldSomewhere`, `EpochNeverFallsBack`, `ImplementsSelfAuthority` |
| `apply_crashes` | 3 entries, 3 crashes | `OldIsKept`, `OldSettingsKeptUnlessTorn`, `NewIsKept`, `ReplacedWhenActive`, `EndsUnlessCutAtRecord` |
| `command` | one self moves there and back, the first move may be aborted at any time, 3 faults | `ReportsAgree`, `EveryFreezeSettles`, `MovesComplete` |
| `voice` | 2 conversations, 2 rooms, 2 stays, 1 call, 2 tokens, 3 faults | `StaysHoldTheVoice`, `EndedStaysHaveLeft`, `OneRoom`, `CallHoldsAlone`, `SweepFreesTheVoice` |
| `text_delivery` | 2 messages, 2 refusals, 1 fault | `OneReply`, `NoticeOnlyWithoutAnswer`, `HeardTwiceAtMost`, `OneRunAtATime`, `ClosedIsAccountedFor`, `AcknowledgedOnEvidence`, `EveryMessageCloses` |
| `permits` | 1 slot, a run and a hold of the service, a run of another process, queue of 2, 1 fault | `WorkKeepsItsPermit`, `LiveRequestsStay`, `WaitersAreServed`, `ImplementsLane` |
| `foreign_permits` | 2 callers, 1 permit and 1 place in line, 1 fault | `NoIdleRoom`, `LossIsTold`, `TurnsCome` |
| `seat` | 2 questions that say the same, 1 queued owner turn, 2 faults | `TakenOnce`, `HeldStays`, `OneDriver`, `GivenIsAccountedFor`, `AnswersCloseTheirBatch`, `EverySendSettles` |
| `crash_comes_back` | 2 entries, 1 crash | a comment of the source that the code does not keep |
| `voice_recovery_stuck` | 1 room, 2 stays, 1 call, 2 faults | a statement about the voice that the code does not keep |
| `text_folded` | 2 messages, no fault | a statement of a document that the code does not keep |
| `foreign_cap` | 3 callers, 1 permit and 1 place in line, no fault | a statement of a document that the code does not keep |

The type invariants are in no configuration: every module's is a theorem
(`CommandTypeOK` and `ForeignTypeOK` are in the proofs of the modules that extend
another).

### Bounds

`MaxEpoch` bounds the only unbounded counter of `BodyTransfer`, in the guards of
`Freeze` and `Reclaim`. Three transfers between two bodies are enough for every
confusion between an old and a current transfer of one body, and for a body that has
lived through an epoch, left and come back; one owner who forces and talks is enough
to overwrite a self and to leave one behind. `BodyApply`'s `MaxCrashes` bounds crashes
and failing steps together; three entries give a first, a middle and a last one, each
with or without a predecessor and a staged copy. `TransferCommand`'s `MaxFaults` counts
lost calls, abandoned stages and crashes: three let a second fault hit the repair of
the first at either body. In `VoiceBody` two stays are what sharing and a successor of a
dead body need; `MaxTokens` bounds the claims that are made (a restart rotates the token
beyond it), and three faults let the service stop twice around a crash of the body.

In `TextDelivery` two messages are what folding needs: an owner and a child, each in
either role, and a second message that a late result of the first could be mistaken
for. The code's three refusals are two here. One fault is one crash, lost answer, failed
post, failed save, changed identity or deletion; a second one makes the instance too
large for a run, and the proofs cover it. In `HeavyPermits` three jobs on one slot give
a holder and two waiters, and a service that lives on beside a command that dies; the
lanes differ in their number of slots, which the proofs leave open. One fault is a process
killed, a transaction without its answer or a runner's identity that cannot be read.
`ForeignPermits` with two callers
reaches every handler but the refusal of a third, which `foreign_cap` reaches; three
callers with a fault are too many for liveness. Two are enough for each way in which
something is left behind: `TurnsCome` fails in this instance without either part of
`LeftBehind`. `SeatOutbox`'s `MaxFaults` counts crashes,
lost calls, stalls, cancellations, the owner's settlements and the seat's own turns; two
questions make a batch, and their equal content makes the outbox compare them with
receipts that are not resolved; the queued turn is what may be held. Reports follow
the same path but for the choice of a driver (`Chooses`), whose exception is in the
proofs and not in the run: a fourth send with two faults is too large, and with one
fault the properties hold.

Deadlock is checked in `roundtrips`, `apply_crashes`, `command` and `seat`. Where it is
not, the system may stop: stays, calls, messages, jobs and callers are used up.

### Fairness

`BodyTransfer` states none: it has only safety properties. In
`BodyApply` a boot goes on taking its steps
(`WF(Step)`; nothing in `applyStaged` waits for anyone), the process is started
again after a crash (`WF(Boot)`; the supervisor the ADR relies on), and the owner
restarts a body that reports a boot error (`WF(Restart)`). Crashes are bounded,
not fair: an apply that is cut short forever never ends.
In `TransferCommand` a running command takes its next step or stops waiting after
ten minutes (`WF(MoveStep)`, `WF(TimesOut)`, `WF(UndoStep)`), the owner runs again
one that stopped (`WF` of a start after a failure: the command's own advice), a
body that should restart does and is started (`WF(ShutsDown)`, `WF(Boots)`: the
cutover's shutdown timer and the supervisor). Nobody has to begin a move or an
abort. In `VoiceBody` the service is started again (`WF(Restarts)`), the sweep runs
on its timer (`WF(RecoveryBegins(TRUE))`), a recovery has deadlines and takes its
steps (`WF(RecoveryStep)`), and the body reports a leave (`WF` per stay; the report
follows the confirmed leave in the same function). Nobody has to leave or hang up.
`PromptSpec` adds, for `voice_recovery_stuck` only, that the body gives up a stay
whose heartbeat is refused and that Discord confirms each leave: what is violated is
violated even so. What `voice` says of liveness has an exception in its statement
(`Blocked`): the sweep frees the voice unless the Discord body remembers a stay that
the service has ended. `voice_recovery_stuck` is why.

In `TextDelivery` what has been received is handled again and again, by the gateway's
event, the scan, or the recovery round once a minute; each call of a handler goes on, and
a run ends, since a watchdog stops a stalled one. `EveryMessageCloses` excepts a store
that cannot save any more, and a message whose second turn was again folded into
another message's run. In `HeavyPermits` requesters and runners go on
(`WF(ClientSteps)`), commands end and what a dead runner leaves behind can be stopped
(`WF(Ends)`), and among the looks that fail there are always again looks that find
what is there (`SF(LookFully)`). In `ForeignPermits` a holding command never ends by
itself; the longest hold, the kill of its group and the five-second refresh come. The
kill is sent after a look at the runner's identity, twice, two seconds apart
(`governor.ts:936-955`): fairness of `KillGroup` assumes that one of the two looks succeeds.
A failing look at a runner that has not started (`MissesRunner`) is a fault, and never fair. In
`SeatOutbox` the service's timers fire and its runs end, the seat's own turn ends or
is taken for ended after three quiet minutes (`WF(ServiceGoesOn)`), a live bridge goes
through its loop (`WF(BridgeGoesOn)`), and a driver is chosen between two polls
(`SF`: the choice waits only for a poll's admission). No bridge has to come, and the
harness has to answer nothing.

### What the violated runs say

1. `crash_comes_back`: the staged bundle goes before the record is written
   (`body-transfer.ts:894`, `:908`); a crash between the two leaves a body that no
   boot can finish.
2. `voice_recovery_stuck`: a leave is reported once. If the answer is lost, the body
   remembers the stay and from then on refuses every stop-check that does not name it
   (`body-voice-lease.ts:53`, `:139`).
3. `text_folded`: a message folded into a run that fails keeps that run as its owner
   when the failed row is claimed again before its result is saved
   (`text-inbox.ts:434`); the answer of the second run, which never heard it, closes
   both. ADR 0177 (l. 79-80) says it cannot.
4. `foreign_cap`: a request that is given up between its grant and its runner
   (`governor.ts:873`) leaves a lease that the journal keeps while the service lives;
   the next caller is started beside it, beyond the documented cap (`docs/cli.md:11753`).

### What the runs do not claim

Other disagreements between the code and what is written about it were met; the
properties are stated so that they do not deny them.

Body transfer.

* A body frozen as a source may apply another transfer (`body-transfer.ts:813`), which
  overwrites the record that said it holds its self in transit. `HeldSomewhere`
  excepts displaced selves for that reason.
* A new entry, installed where nothing was, is archived by the boot after a crash and
  not restored (`body-transfer.ts:877-885`): `ReplacedWhenActive` speaks of entries
  that had a predecessor.
* A boot cut while it copies the owner's settings leaves a part of them, or an empty
  file, in the archive. Every later boot takes it for the copy (`:888`), merges the
  bundle's settings over the only whole one (`:893`), and goes on: here a step that "is
  repeatable" (`:848`) does not repeat. `OldSettingsKeptUnlessTorn` excepts it,
  and nothing else.
* The epoch is compared when a bundle is staged and not again when it is applied
  (`:803`), so after a forced reclaim in between a body applies a bundle whose epoch
  is not above its own (ADR 0286, l. 106-107). Likewise for history gathered after the
  stage (l. 81-83).

The voice.

* A recovery that finds no stay on record asks nobody and frees the claim
  (`body-voice-stays.ts:411`), even when a device call holds it; a stay can join while
  the call still runs. `CallHoldsAlone` is about a call whose claim is its own.
* A device call whose claim has lapsed ends without releasing it (`body-leases.ts:296`;
  the refusal is ignored at `voice-call-route.ts:42-48`), where ADR 0288 (l. 80-85) has
  each way of ending a call release the lease; the sweep frees it later, which is part of
  `SweepFreesTheVoice`.

The permits.

* A request whose registered runner cannot be identified ends in an error without ending
  the runner's input (`governor.ts:934`, `:970-988`; the input is ended only at `:916`,
  before the runner is on record, `:957` and `:964`). The runner waits for its word to
  start and keeps its lease, for as long as the service, or the command that asked,
  lives; the lane has a slot less. `WaitersAreServed` and `TurnsCome` except it as
  `LeftBehind`, with the ticket or unused lease that the service's given-up request
  leaves (`foreign_cap`).

Text delivery.

* A message folded into a lost run is tried again under one recovery id
  (`text-inbox.ts:404`). If that turn is itself folded into a run that fails, every
  later try finds the receipt of the folding, and the message stays open although
  ADR 0177 (l. 77-79) has it reconsidered. `EveryMessageCloses` excepts it.

The seat.

* The outbox compares the content of a send with the unresolved receipts when it is
  queued and not when it is taken (`seat-outbox.ts:1278`; its comment at `:661-664` and
  ADR 0207, l. 152). A second message that says the same, queued while the first is in
  flight, is given to the seat after the first has become uncertain. `TakenOnce` is
  about each message of its own.
* A poll acknowledges what an earlier poll took (`:1005`; `docs/cli.md:8905-8906`). A
  bridge that replaces one which died before it showed the event confirms, within
  the window, what the harness never saw. `GivenIsAccountedFor` accepts that
  receipt. The same bridge's own polls come too late to matter: it asks again after 5 s,
  and the window is 2 s.
* To cancel the newest question of a batch cancels it alone: the older ones that its
  event carried wait on after the seat's one reply, for it names the newest (ADR 0218,
  l. 595, has one reply close the batch). A late acknowledgment or reply likewise
  resolves only the id it names. `AnswersCloseTheirBatch` speaks of replies that found
  their question waiting.

## Proofs

What TLC shows of a few bodies, messages or jobs, the theorems below show for every
value of the constants that satisfies the assumptions named. Each proof has one lemma
per action, or per part of the invariant, and combines them in its last theorem.

`BodyTransferProofs` proves, for every set of bodies and transfers, every bound
and any owners who reclaim or talk:

* `TypeCorrect`: `Spec => []TypeOK`;
* `OneActive`: `Spec => []OneActiveSelf`;
* `Invariance`: `Spec => []IInv`, from which both follow.

`OneActiveSelf` is not inductive: an abort makes a body active, and so does a
boot that applies, without looking at any other body. `IInv` says why that is
safe. For every self that no owner forced (`Fenced`): it is active on one body
and nothing else can make it active; or it is pending in one frozen source, and
the only claim to it (a running stage, a staged or an applying record) is held by
that source's recorded destination, for the same transfer. The supporting parts
are `RecordsOK` (roles and outcomes agree), `StagingOK` (a running stage's
transfer is still open, which is the serial queue's work), `BurnsOK` (a burn is
final) and `BootOK` (a boot applies what its record says). The proof states once
what each action changes (`FreezeEffect` and its like), then keeps each part of
`IInv` under every action: `StepTypeOK`, `StepRecordsOK`, `StepStagingOK`,
`StepBurnsOK`, `StepBootOK`, `StepFenced`. It rests on three assumptions about the
constants: `NoSelf` is no body, `NoTransfer` is no transfer id, and (for TLC only)
the actors are bodies.

The second part goes on from `IInv` to what the two bodies of a transfer
record of its end:

* `AbortExcludes`: `Spec => []AbortExcludesApply`;
* `ReleasedActivated`: `Spec => []ReleasedWasActivated`;
* `OutcomesInvariance`: `Spec => []OutcomesInv`, from which both follow.

Neither property is inductive, since the two records are written on two machines
at two times. `OutcomesInv` ties each to the signed answer in between: an aborted
record to a burn (`AbortedOK`), a tombstone to an activation of its self at its
epoch (`ReleasedOK`), and every activation that was ever read to a record that
still says `applied` of the same self and epoch (`AnswersOK`). An answer stays true
because a final record is never written over. `FrozenOK` and `ActivatedOK` say that
a body's own self and epoch are those of the record its state comes from, so that
what a body signs is what it recorded.

The third part proves, for the same constants, that nothing is lost on the way:

* `NeverLost`: `Spec => []HeldSomewhere`;
* `NeverFallsBack`: `Spec => EpochNeverFallsBack`, an action property;
* `SnapshotFinal`: `Spec => []SnapshotIsFinal`;
* `HeldInvariance`: `Spec => []HeldInv`, from which they follow.

The argument is about epochs. For every self that no owner forced (`Topped`), the
active body, the source that waits and every open claim stand at or above each epoch
that is recorded of the self, and only the freeze itself stands level with them. So
an apply rises above all that its body has lived through, and an activation that a
source may release on cannot be an old one: it would lie below the source's own
epoch. `Kept` is what this leaves for a self that was not displaced either: whoever
claims it has a source that waits, and some body is it or froze it at an epoch that
nobody has activated. `NamedOK` and `BundlesOK` say that a self which is carried
anywhere was minted by the body it is named after, and that a bundle is only built by
a dormant process.

The last part proves `ImplementsAuthority`: `Spec => ImplementsSelfAuthority`, the
refinement. The numbers of `SelfAuthority` are maxima
over the records, so `AuthorityInv` adds to `HeldInv` where each is attained: an
active body's epoch was issued and lived through, a claim's was issued and has not
been lived through (`ActiveNumbered`, `ClaimsIssued`, `ClaimsUnlived`). `StandsAt` gives
the two numbers from it in each of the three situations; one lemma per way of moving
(`FreezeDeparts`, `AbortArrives`, `ActivationArrives`, `ApplyDisplaces`) and one for
what a step leaves alone (`StepStays`) make up `StepMoves`. No finiteness of the bodies
or the transfers is assumed: that a bounded set of epochs has a maximum comes from
the library's least natural number (`WFMin`).

`TransferCommandProofs` proves of the owner's two commands, for any bodies, transfers,
faults and routes (`RoutesAssumption`: no transfer goes from a body to itself):

* `ReportsNeverContradict`: `CommandSpec => []ReportsAgree`;
* `CommandsDriveBodies`: `CommandSpec => Spec`, so that all that is proved of the
  bodies holds of bodies the commands drive: `CommandsImplementAuthority`, and
  `CommandsKeepOneSelf`, which has one active body for each self without exception,
  since no command forces one;
* `CommandInvariance`: `CommandSpec => []CommandInv`, from which the first follows.

`ReportsAgree` asks that a report of a finished move, or of a finished abort, be on record
at both bodies. A command sees one body at a time and the two records are written on
two machines, so the source's record is what carries it: `ReportsOK` has a finished
move leave a tombstone there and a finished abort an aborted record, both of which are
final. `RoutesOK` adds that a source only ever freezes for the destination its command
names, and then `OutcomesInv` of `BodyTransferProofs` gives what that destination has on
record. The refinement is shown step by step: each of the commands' actions, a
lost call or a crash, is one action of `BodyTransfer` or leaves the bodies alone
(`CommandsAreSteps`).

`BodyApplyProofs` proves `BodyApply`'s safety for any number of entries and of boots
cut short:

* `OldNeverLost`, `SettingsArchived`, `NewNeverLost`, `PredecessorsReplaced`:
  `OldIsKept`, `OldSettingsKeptUnlessTorn`, `NewIsKept` and `ReplacedWhenActive`;
* `ApplyTypes`: `TypeOK`;
* `ApplyInvariance`: `Spec => []AInv`, from which they follow.

`PredecessorsReplaced` is why `AInv` is needed: it speaks of the end, and holds because
of what every boot before it left. `PathOK` says where an entry can be (an old one in
one of two places, a copy staged exactly until it is installed); `HandledSoFar` that
the boot's entries behind it are done with, also those an earlier boot did;
`OrderOK` that the bundle goes, and after it the record changes, only when all are.
`SettingsOK` is for the settings: no copy begins once the bundle's are merged, and a part
of them in the archive means a copy under way or one that was cut.
It assumes only that the numbers are numbers and that there is an entry.

`VoiceBodyProofs` proves the safety properties of `VoiceBody` for any
conversations, rooms, stays and calls and any number of crashes:

* `VoiceTypeCorrect`, `StaysKeepTheVoice`, `EndsAreActual`, `InOneRoom` and
  `CallsHoldAlone`: `TypeOK`, `StaysHoldTheVoice`, `EndedStaysHaveLeft`, `OneRoom`
  and `CallHoldsAlone` in every reachable state;
* `VoiceInvariance`: `Spec => []VInv`, from which they follow.

`VInv` adds to the properties what they lean on. `RecoveryOK`: while a recovery is
under way the claim stays expired and pinned by it, so that no heartbeat is granted,
no stay joins and no finish or release frees the claim between the body's
confirmation and the record of it. `PresentOK`: a body that lives remembers each
stay it shows in a room, which is why its report of a leave, and its stop for a
recovery, end no stay that is still there. `AuthorityOK`: heartbeats are granted to
unfinished stays only, so that a join is never under an ended stay. `SameRoom`: the
stays on record are in one room; a new claim is made only when none is on record
(`StaysHoldTheVoice`), and a shared one is compared with the record. `CallsAlone` and
`CallsOK`: a call's token is older than any token given out after it, and a stay
shares only what a stay holds. `StaysKnown` and `TokensBounded` (every restart was
paid for by the fault that stopped the service) carry the types. TLC agreed with
`VInv` on the instance of `voice` before it was proved; no configuration keeps that
check, since the proof covers it. Its assumptions are that the main conversation is
a conversation, that the recovery's operation is no stay id, that the bounds are
numbers, and that `NoClaim`, `NoStay` and `NoRecovery` are none of what they stand in
for.

`TextDeliveryProofs` proves the safety properties of `TextDelivery` for any messages,
refusals and faults, from `BoundsAssumption` alone:

* `TypeCorrect`, `RepliesOnce`, `NoticeNeverHidesAnAnswer`, `HeardTwice`, `NeverTwoRuns`,
  `ClosedRowsAreAccountedFor`: the invariants of the run and `TypeOK`;
* `AcknowledgesOnEvidence`: the action property;
* `Invariance`: `Spec => []IInv`, from which they follow.

That a message gets one reply is a fact about four places: the row, the receipt of the
write, the post on its way and Discord. `WritesOK` relates the last three (a post
under way or landed has its receipt; an absent write was never posted), and
`OutgoingOK` and `StepsOK` say what each call of a handler may rely on when it goes
on, so that a second post begins only after the first is known to be absent. `RunsOK`
is why no two runs of a message go at once: a second turn is begun only when the
first's receipt is settled or its process is gone. `HeardOK` bounds by the two
receipts how often a message was heard. `ResultsOK` and `CapOK` tie a
row's request and result to the receipts.

`HeavyPermitsProofs` proves `HeavyPermits`' safety for any jobs, any number of slots
and faults, from `JobsAssumption` and `BoundsAssumption`:

* `PermitTypes`, `PermitLastsAsWork`, `LaneIsNeverOverfull`, `LiveRequestsAreKept`:
  `TypeOK`, `WorkKeepsItsPermit`, `WorkWithinSlots` and `LiveRequestsStay`;
* `InOnePlace`: nobody holds a lease and still waits for it;
* `PermitsInvariance`: `Spec => []HInv`, from which they follow;
* `PermitsImplementLane`: `Spec => ImplementsLane`, the refinement of `PermitLane`;
* `LanesKeepTheirSlots`, `ServedInOrder`: what the abstract lane is worth. Whatever
  implements it never has work without a permit nor more work than slots, and no step
  serves a request while a live one that came before it waits.

A transaction acts on what was seen before it took the lock, so the invariant has to
say why that is harmless. `SeenOK`: whatever a requester has seen and not used yet
stays true. A process that exited stays so, and a group found ended or orphaned
belongs to a dead runner whose lease nobody can take up again. `JobOK` says for each job where the
requester, the runner, the group and the lease can stand to each other, above all that
a lease counts as running from the runner's own entry under the lock on, before the
command starts. `LeasesOK` bounds the leases by the slots; with `JobOK` it bounds the work.

The refinement follows from the same invariant. Most steps only end something of the lane
(`LaneEnds`: nobody new waits, has a permit or works, and who waits keeps its place); a
request joins in `Enqueue`, is served in `Pass` and begins its work in `Work` or `Launch`
(`EnqueueInLane`, `PassInLane`, `BeginsInLane`). That the head of the journal's queue
is the first of those that live and wait is `WaitersKeepPlaces`: a reconciliation by an
old look drops nobody's ticket who waits. That a permit is taken back from no work is
`WorkKeepsItsPermit` after the step. A transaction whose helper fails may have written
its change: then a grant that nobody was told of is a lease of the lane that is still
starting, or, when the change was not written, the request just leaves.

`ForeignPermitsProofs` proves `ForeignPermits`' safety for any callers, leases (up to the
four the code allows), places, slots and faults, from `ForeignAssumption` and those of
`HeavyPermits`:

* `NoRoomIsIdle`: `ForeignSpec => []NoIdleRoom`;
* `CallersKeepWhatPermitsPromise`: under the callers' steps the permits keep
  `WorkKeepsItsPermit`, `WorkWithinSlots`, `LiveRequestsStay` and `OnePlace`;
* `RequestsWithinCap`: no more requests of callers are with the governor than the owner
  allows. What `foreign_cap` finds beyond the cap is only what they left in the journal;
* `BelieversAreStarted`: who believes he holds a permit was started, so that the end of
  his run is told to him. This is the safety half of `LossIsTold`;
* `CallersImplementLane`: `ForeignSpec => ImplementsLane`, the lane under callers;
* `ForeignTypes` and `ForeignInvariance`: `ForeignSpec => []ForeignInv`.

`ForeignSpec` is no instance of `HeavyPermits`' `Spec`: the switch cuts many runs in one
step, and the service reconciles with what its refresh found, outside any request. So
`HInv` is shown again for these steps (`CutKeeps`, `RefreshKeeps`; the others are steps of
`Next`), with `KnownOK`, which says of the refresh what `SeenOK` says of a requester.
`LineOK` and `StartedOK` relate the service's memory to the requests: who waits is
connected, idle and has not begun, each once; whoever is with the governor was started.
`PumpEffect` says what one pump does to any line: it takes a first part of it, as long as
there is room, so that either nobody waits or no room is left. The line is a sequence;
what leaving it does is `WithoutOne`.

`SeatOutboxProofs` proves `SeatOutbox`'s safety for any reports, questions, turns,
contents and faults, from `SendsAssumption`:

* `SeatTypes`, `NeverSentTwice`, `HeldTurnsAreTheSeats`, `OneDriverAtATime`,
  `ReceiptsAreKept`, `BatchesAreAnsweredAsOne`: `TypeOK`, `TakenOnce`, `HeldStays`,
  `OneDriver`, `GivenIsAccountedFor` and `AnswersCloseTheirBatch`;
* `SeatInvariance`: `Spec => []IInv`, from which they follow.

`GivenOK` and `HeldOK` carry `TakenOnce` and `HeldStays`: what was taken, or held, is at a
stage from which no step chooses a driver. `FenceOK` is the order of saving: the
receipt is durable before the send waits for a poll, and no step that drops it leaves
the send taken and unaccounted for. `PageOK` ties the bridge to the outbox: what it has
on its page or in its receipts was given to it. A batch is answered as one because what an
event carries was taken with it and is shown with it.

Every safety property that a passing run checks is a theorem. Only model-checked is
liveness under fairness, which is out of the prover's reach: `EndsUnlessCutAtRecord`,
`EveryFreezeSettles`, `MovesComplete`, `SweepFreesTheVoice`, `EveryMessageCloses`,
`WaitersAreServed`, `LossIsTold`, `TurnsCome` and `EverySendSettles`.

## Not modelled

The repository has some 450,000 lines, most of them terminal and device interfaces,
adapters to other programs, schemas, media, games and documentation. The modules cover
the protocols whose order of steps decides whether they are right. What is left:

* **Body requests** (`body-request-pump.ts`), **play and computer bodies**: further users
  of the leases behind the voice's. Requests are a queue of their own, and how a native
  session drains is decided by a game or a desktop outside the code.
* **Worker seats' mailboxes**, **agent messages**: deliveries that follow the fence
  modelled by `SeatOutbox`, over other transports.
* **Conversations and turns** (the store, the turn journal, hand-offs, wakes): the
  largest stateful part of the captain, as large as all that is modelled. `SeatOutbox` and
  `TextDelivery` take from it that a run begins once, and how it ends.
* **Work items**: the tracker's journal, its lock and its replay. The lock alone would
  say little without what 7,000 lines of operations do when they find it gone.
* **Review gate, deploy holds, draft-pull holds**: small sequential stores in one process.
* **Routines and wakes**, **harness accounts**, the **voice floor**: what they decide is
  arithmetic over clocks, quotas and audio, of which a bounded model shows little.
* **Seat restarts and failover, hiring and the fleet, agent hosts, plugins**: calls to
  terminals and other programs whose outcomes the code only observes.
* **Service updates**: an intent file around an installer that is not in the service.
* **Credential broker, identity and peers of a transfer, pairing, device doorway**:
  mostly cryptography. `BodyTransfer` models what a signature proves.
* **Gateway, relay, activity, media process, voice session, UI and CLI, games, settings,
  schemas, clients, docs, scripts**: connections, rendering, real-time media, types.
* **The captain's turns**: the decisions are a language model's.

Left out of the modelled components: rebinding a peer and the status command of a
transfer; the voice's one-use tickets, Go Live stays and authorization's details; and what
the sections above name for text delivery, the permits and the seat.

## Plan

Done:

1. `BodyTransfer`, `SelfAuthority`, `BodyTransferRefinement`, `BodyApply`,
   `TransferCommand` and their proofs;
2. `VoiceBody` and its proofs;
3. `TextDelivery` and its proofs;
4. `HeavyPermits`, `PermitLane`, `PermitLaneRefinement` and their proofs, and over it `ForeignPermits` and its proofs;
5. `SeatOutbox` and its proofs.

Worth doing next:

6. worker seats' mailboxes over `SeatOutbox`'s fence, and the conversation store's
   turns and hand-offs beneath both;
7. body requests behind the voice's lease; the tracker's journal under its lock.
