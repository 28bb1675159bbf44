---------------------------- MODULE ForeignPermits ----------------------------
(***************************************************************************)
(* Heavy permits for another account of the machine                        *)
(* (foreign-heavy-permits.ts) over the permits of the full lane            *)
(* (HeavyPermits).  A caller connects to the service's socket; at most     *)
(* MaxLeases of them reach the governor, as runs of a command that only    *)
(* holds its permit, and the others wait in order.  A caller gives its     *)
(* permit back by hanging up.  The service takes it back after the longest *)
(* hold, or when the owner turns foreign permits off.                      *)
(*                                                                         *)
(* A caller is named like its job.  It may hang up while it waits and      *)
(* connect again.  Who may connect, and what a request may say, is not     *)
(* modelled: a connected caller has been let in.  Every job of the lane is *)
(* a caller's here; how they share it with commands is HeavyPermits.       *)
(***************************************************************************)
EXTENDS HeavyPermits, SequencesExt

CONSTANTS
    MaxLeases,      \* callers that may hold or wait for a permit of the lane
    QueuePerLease   \* places to wait in, for each of these (4)

ASSUME ForeignAssumption ==
    /\ ServiceJobs = Jobs /\ Holds = {}
    /\ MaxLeases \in 1..4 /\ QueuePerLease \in Nat

VARIABLES
    listening,      \* foreign permits are on
    connected,      \* callers whose connection is open
    started,        \* admitted requests that reached the governor
    line,           \* those that have not, in the order they came
    told,           \* what each caller heard last
    holder,         \* whether its holding command has said so, and was heard
    known           \* what the service's refresh found, while it reconciles

foreignVars == <<listening, connected, started, line, told, holder, known>>

ForeignInit ==
    /\ Init
    /\ listening = TRUE /\ connected = {} /\ started = {} /\ line = <<>>
    /\ told = [f \in Jobs |-> "nothing"]
    /\ holder = [f \in Jobs |-> "silent"]
    /\ known = {}

Places == MaxLeases * (1 + QueuePerLease)

\* Mutant: every permit counts, not only those that were started.
PumpOfAll(waiting, begun) ==
    LET room == IF listening THEN MaxLeases - Cardinality(begun) - Len(waiting) ELSE 0
        n == Max({0, Min({room, Len(waiting)})})
    IN /\ started' = begun \cup {waiting[i] : i \in 1..n}
       /\ line' = SubSeq(waiting, n + 1, Len(waiting))
\* pump, over those that wait and those that have begun: the first in line fill
\* the room there is.  Nothing is started while the switch is off.
Pump(waiting, begun) ==
    LET room == IF listening THEN MaxLeases - Cardinality(begun) ELSE 0
        n == Min({room, Len(waiting)})
    IN /\ started' = begun \cup {waiting[i] : i \in 1..n}
       /\ line' = SubSeq(waiting, n + 1, Len(waiting))

-------------------------------------------------------------------------------
(* The socket *)

\* The socket takes Places connections; permits of callers that hung up while
\* their hold ends still count against the places.
Connect(f) ==
    /\ listening /\ f \notin connected \cup started /\ client[f] = "idle"
    /\ Cardinality(connected) < Places
    /\ IF Cardinality(started) + Len(line) >= Places
       THEN told' = [told EXCEPT ![f] = "refused"] /\ UNCHANGED <<connected, started, line>>
       ELSE /\ connected' = connected \cup {f}
            /\ Pump(Append(line, f), started)
            /\ told' = [told EXCEPT ![f] = "nothing"]
    /\ UNCHANGED <<vars, listening, holder, known>>

\* Runs that are told to stop: one that has not asked the journal yet just ends.
Cut(stopped) ==
    /\ aborted' = aborted \cup {f \in stopped : client[f] \in
                        {"asking", "waiting", "ready", "held", "spawned", "running"}}
    /\ client' = [j \in Jobs |-> IF j \in stopped /\ client[j] = "idle" THEN "over" ELSE client[j]]
    /\ UNCHANGED <<journal, seen, alive, runner, group, stopping, faults>>

\* A caller that waits leaves the line at once.
HangUp(f) ==
    /\ f \in connected /\ connected' = connected \ {f}
    /\ Cut({f} \cap started)
    /\ \/ f \in started /\ UNCHANGED line
       \/ \E i \in DOMAIN line : line[i] = f /\ line' = RemoveAt(line, i)
    /\ UNCHANGED <<listening, started, told, holder, known>>

TurnOff ==
    /\ listening /\ listening' = FALSE
    /\ told' = [f \in Jobs |-> IF f \in connected \cap started THEN "lost" ELSE told[f]]
    /\ connected' = {}
    /\ Cut(started)
    /\ line' = <<>>
    /\ UNCHANGED <<started, holder, known>>

TurnOn ==
    /\ ~listening /\ Service \in alive
    /\ listening' = TRUE
    /\ UNCHANGED <<vars, connected, started, line, told, holder, known>>

-------------------------------------------------------------------------------
(* hold: one run of a command that only holds *)

Prints(f) ==
    /\ group[f] = "command" /\ holder[f] = "silent"
    /\ holder' = [holder EXCEPT ![f] = "printed"]
    /\ UNCHANGED <<vars, listening, connected, started, line, told, known>>

Granted(f) ==
    /\ holder[f] = "printed" /\ f \in started
    /\ holder' = [holder EXCEPT ![f] = "heard"]
    /\ told' = [told EXCEPT ![f] = IF f \in connected THEN "granted" ELSE @]
    /\ UNCHANGED <<vars, listening, connected, started, line, known>>

\* The longest hold runs from the moment the holding command was heard.
MaxHold(f) ==
    /\ holder[f] = "heard" /\ f \in started
    /\ Abort(f)
    /\ UNCHANGED foreignVars

\* Mutant: nobody is started when a hold ends.
HoldEndsQuietly(f) ==
    /\ f \in started /\ client[f] = "over"
    /\ told' = [told EXCEPT ![f] = IF f \in connected THEN "lost" ELSE @]
    /\ connected' = connected \ {f}
    /\ started' = started \ {f}
    /\ UNCHANGED <<vars, listening, line, holder, known>>
\* Mutant: only a caller whose permit was taken back is told.
HoldEndsUntold(f) ==
    /\ f \in started /\ client[f] = "over"
    /\ told' = [told EXCEPT ![f] = IF f \in connected /\ holder[f] # "heard" THEN "lost" ELSE @]
    /\ connected' = connected
    /\ Pump(line, started \ {f})
    /\ UNCHANGED <<vars, listening, holder, known>>
\* The run has settled.  A caller that did not hang up is told that its permit
\* is lost; the next in line is started.
HoldEnds(f) ==
    /\ f \in started /\ client[f] = "over"
    /\ told' = [told EXCEPT ![f] = IF f \in connected THEN "lost" ELSE @]
    /\ connected' = connected \ {f}
    /\ Pump(line, started \ {f})
    /\ UNCHANGED <<vars, listening, holder, known>>

\* A run ends when its output has been read to its end, so not before its group
\* is gone and what it printed was heard.
OutputRead(f) ==
    client[f] = "running" /\ runner[f] = "dead" => group[f] = "empty" /\ holder[f] # "printed"
AsksForHold(f) == f \in started /\ Ask(f) /\ UNCHANGED foreignVars
HoldSteps(f) == OutputRead(f) /\ ClientSteps(f) /\ UNCHANGED foreignVars

-------------------------------------------------------------------------------
(* The service's refresh of what it shows, which reconciles the journal *)

RefreshLooks ==
    /\ Service \in alive /\ known = {} /\ Observed # {} /\ known' = Observed
    /\ UNCHANGED <<vars, listening, connected, started, line, told, holder>>
RefreshReconciles ==
    /\ known # {} /\ known' = {}
    /\ place' = QueueAfter(known) /\ lease' = LeasesAfter(known)
    /\ stopping' = stopping \cup Orphaned(known)
    /\ UNCHANGED <<client, seen, aborted, alive, runner, group, faults>>
    /\ UNCHANGED <<listening, connected, started, line, told, holder>>

ServiceDies ==
    /\ ProcessDies(Service)
    /\ listening' = FALSE /\ connected' = {} /\ started' = {} /\ line' = <<>> /\ known' = {}
    /\ UNCHANGED <<told, holder>>

ForeignSteps(f) ==
    \/ Connect(f) \/ HangUp(f) \/ Prints(f) \/ Granted(f) \/ MaxHold(f) \/ HoldEnds(f)
    \/ AsksForHold(f) \/ HoldSteps(f)
    \/ (Ends(f) \/ KillGroup(f) \/ MissesRunner(f) \/ RunnerDies(f)) /\ UNCHANGED foreignVars

ForeignNext ==
    \/ \E f \in Jobs : ForeignSteps(f)
    \/ TurnOff \/ TurnOn \/ RefreshLooks \/ RefreshReconciles \/ ServiceDies

allVars == <<vars, foreignVars>>
ForeignSpec == ForeignInit /\ [][ForeignNext]_allVars

\* As in HeavyPermits, but a holding command never ends of itself: a signal and
\* the longest hold end it.  The refresh runs every few seconds.
Proceeds(f) ==
    \/ Prints(f) \/ Granted(f) \/ MaxHold(f) \/ HoldEnds(f) \/ AsksForHold(f) \/ HoldSteps(f)
    \/ (RunnerSteps(f) \/ StopLeftovers(f) \/ KillGroup(f)) /\ UNCHANGED foreignVars
ForeignFairness ==
    /\ \A f \in Jobs :
          WF_allVars(Proceeds(f)) /\ SF_allVars(LookFully(f) /\ UNCHANGED foreignVars)
    /\ WF_allVars(RefreshLooks \/ RefreshReconciles)
FairForeignSpec == ForeignSpec /\ ForeignFairness

-------------------------------------------------------------------------------
(* What foreign permits promise *)

\* No caller waits beside room for it, whichever of the others hung up, lost
\* its permit or was refused, and whenever the switch was turned (pump).
NoIdleRoom ==
    listening => line = <<>> \/ Cardinality(started) = MaxLeases

\* A caller that believes it holds a permit while nothing is held for it is told,
\* so that it stops its build.
Believes(f) == f \in connected /\ told[f] = "granted"
LossIsTold ==
    \A f \in Jobs : Believes(f) /\ lease[f] = "none" ~> ~Believes(f)

\* A caller that stays connected gets its permit or hears that it has none, be
\* it in line or with the governor, unless a grant that nobody uses, or a runner
\* that nobody tells to start, was left behind and fills the lane.
Unanswered(f) == f \in connected /\ told[f] = "nothing"
TurnsCome == \A f \in Jobs : Unanswered(f) ~> (~Unanswered(f) \/ LeftBehind)

\* The documented cap: that many foreign permits are held or requested at once.
ForeignCap ==
    Service \in alive =>
        Cardinality({f \in Jobs : place[f] > 0 \/ lease[f] # "none"}) <= MaxLeases

=============================================================================
