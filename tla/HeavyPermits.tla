----------------------------- MODULE HeavyPermits -----------------------------
(***************************************************************************)
(* The permits for heavy commands on one machine (fleet-resources).  Each  *)
(* lane is a journal file that many processes share: a queue of tickets    *)
(* and the leases in force.  A process changes it in a transaction under   *)
(* an operating system lock, and looks at the processes the journal names  *)
(* before it takes the lock, so what it knows in the transaction may be    *)
(* old.  A permit follows a command that outlives its requester: a runner  *)
(* of its own holds the lease until its process group is empty.            *)
(*                                                                         *)
(* A job is one request with its own id and token.  The long-lived service *)
(* makes the jobs of ServiceJobs; any other job is a command of its own.   *)
(* One lane is modelled: the lanes differ in their number of slots.        *)
(* Nested commands run in their parent's group and under its lease.        *)
(***************************************************************************)
EXTENDS Naturals, FiniteSets

CONSTANTS
    Jobs,           \* requests for a permit
    ServiceJobs,    \* those made by the service
    Holds,          \* those that hold a permit around the requester's own work
    Service,        \* the service's process; a command's process is named like its job
    Slots,          \* the owner's policy for the lane
    MaxQueue,       \* tickets the journal takes (512)
    MaxFaults       \* processes killed, transactions and reads of a runner that fail

ASSUME JobsAssumption ==
    /\ IsFiniteSet(Jobs) /\ ServiceJobs \subseteq Jobs /\ Holds \subseteq Jobs
    /\ Service \notin Jobs
ASSUME BoundsAssumption == Slots \in Nat \ {0} /\ MaxQueue \in Nat \ {0} /\ MaxFaults \in Nat

Owner(j) == IF j \in ServiceJobs THEN Service ELSE j
Owners == {Owner(j) : j \in Jobs}

VARIABLES
    place,          \* each job's place in the journal's queue, 0 without a ticket
    lease,          \* each job's lease in the journal
    client,         \* what the requester of each job is doing
    seen,           \* what its last look at the processes found
    aborted,        \* jobs whose signal has been aborted
    alive,          \* requesting processes that live
    runner,         \* the runner process of each job
    group,          \* the runner's process group, the runner aside
    stopping,       \* groups a reconciliation is stopping
    faults

journal == <<place, lease>>
vars == <<journal, client, seen, aborted, alive, runner, group, stopping, faults>>

ClientStates == {"idle", "asking", "waiting", "ready", "withdrawing", "held", "working",
                 "spawned", "running", "settling", "closing", "over"}
RunnerStates == {"none", "spawned", "registered", "told", "ran", "dead"}

\* Facts about processes.  Each stays true: an exit is for good, and the group
\* of a dead runner gains no member once it is empty.
Facts == ({"exited"} \X Owners) \cup ({"ended", "orphaned"} \X Jobs)

TypeOK ==
    /\ place \in [Jobs -> Nat]
    /\ lease \in [Jobs -> {"none", "starting", "running"}]
    /\ client \in [Jobs -> ClientStates]
    /\ seen \in [Jobs -> SUBSET Facts]
    /\ aborted \subseteq Jobs /\ alive \subseteq Owners
    /\ runner \in [Jobs -> RunnerStates]
    /\ group \in [Jobs -> {"empty", "command", "leftovers"}]
    /\ stopping \subseteq Jobs
    /\ faults \in 0..MaxFaults

Init ==
    /\ place = [j \in Jobs |-> 0]
    /\ lease = [j \in Jobs |-> "none"]
    /\ client = [j \in Jobs |-> "idle"]
    /\ seen = [j \in Jobs |-> {}]
    /\ aborted = {} /\ alive = Owners
    /\ runner = [j \in Jobs |-> "none"]
    /\ group = [j \in Jobs |-> "empty"]
    /\ stopping = {}
    /\ faults = 0

-------------------------------------------------------------------------------
(* Looking at processes, and what a transaction does with it *)

\* A look at the processes the journal names in a read without the lock.  Only
\* the requesters of tickets and of leases without a runner are watched, and
\* the group of a dead runner.
\* Mutant: only the requesters of leases are watched.
WatchedStarting(o) == \E k \in Jobs : Owner(k) = o /\ lease[k] = "starting"
Watched(o) ==
    \E k \in Jobs : Owner(k) = o /\ (place[k] > 0 \/ lease[k] = "starting")
Observed ==
    {<<"exited", o>> : o \in {p \in Owners \ alive : Watched(p)}}
    \cup {<<"ended", k>> : k \in {i \in Jobs : lease[i] = "running" /\ runner[i] = "dead"
                                                                     /\ group[i] = "empty"}}
    \cup {<<"orphaned", k>> : k \in {i \in Jobs : lease[i] = "running" /\ runner[i] = "dead"
                                                                        /\ group[i] # "empty"}}

\* Mutant: what could not be observed counts as exited.
QueueAfterUnknown(facts) ==
    [k \in Jobs |-> IF facts = {} \/ <<"exited", Owner(k)>> \in facts THEN 0 ELSE place[k]]
\* Mutant: a lease ends with its runner, whatever is left of the group.
LeasesAfterRunner(facts) ==
    [k \in Jobs |-> IF \/ lease[k] = "starting" /\ <<"exited", Owner(k)>> \in facts
                       \/ lease[k] = "running" /\ {<<"ended", k>>, <<"orphaned", k>>} \cap facts # {}
                    THEN "none" ELSE lease[k]]
\* The journal's queue and leases after reconcile with those facts.
QueueAfter(facts) ==
    [k \in Jobs |-> IF <<"exited", Owner(k)>> \in facts THEN 0 ELSE place[k]]
LeasesAfter(facts) ==
    [k \in Jobs |-> IF \/ lease[k] = "starting" /\ <<"exited", Owner(k)>> \in facts
                       \/ lease[k] = "running" /\ <<"ended", k>> \in facts
                    THEN "none" ELSE lease[k]]
\* The groups it begins to stop: their command lost its runner.
Orphaned(facts) == {k \in Jobs : lease[k] = "running" /\ <<"orphaned", k>> \in facts}

LeasesIn(leases) == Cardinality({k \in Jobs : leases[k] # "none"})

Fault == faults < MaxFaults /\ faults' = faults + 1

\* Where an error from the journal leaves a requester.
AfterError ==
    [asking |-> "over", ready |-> "withdrawing", withdrawing |-> "over", working |-> "over",
     closing |-> "over"]

\* One transaction of the requester of j: it is answered, or its helper fails
\* and the change may still be on disk.  A helper that fails before it has read
\* the change is tried three times before the requester hears of it.
Transact(j, places, leases, next) ==
    /\ \/ /\ place' = places /\ lease' = leases
          /\ client' = [client EXCEPT ![j] = next]
          /\ UNCHANGED faults
       \/ /\ Fault
          /\ client' = [client EXCEPT ![j] = AfterError[client[j]]]
          /\ \/ place' = places /\ lease' = leases
             \/ UNCHANGED <<place, lease>>
    /\ seen' = [seen EXCEPT ![j] = {}]
    /\ UNCHANGED <<aborted, alive, runner, group>>

-------------------------------------------------------------------------------
(* acquire: a ticket, then a lease *)

LookWith(j, facts, next) ==
    /\ client' = [client EXCEPT ![j] = next]
    /\ seen' = [seen EXCEPT ![j] = facts]
    /\ UNCHANGED <<journal, aborted, alive, runner, group, stopping, faults>>

Ask(j) ==
    /\ client[j] = "idle"
    /\ \E facts \in {Observed, {}} : LookWith(j, facts, "asking")

\* The processes cannot always be observed: then nothing is known of them.
Looks(j, facts) ==
    \/ client[j] = "waiting" /\ j \notin aborted /\ LookWith(j, facts, "ready")
    \/ client[j] = "settling" /\ LookWith(j, facts, "closing")
LookFully(j) == Looks(j, Observed)
LookBlind(j) == Looks(j, {})

\* The signal is read until a change is sent.  A request that gave up does not
\* read it again.
Cancelled(j, next) ==
    /\ j \in aborted /\ aborted' = aborted \ {j}
    /\ client' = [client EXCEPT ![j] = next]
    /\ seen' = [seen EXCEPT ![j] = {}]
    /\ UNCHANGED <<journal, alive, runner, group, stopping, faults>>

\* A ticket goes to the end of the queue.  Each job takes one.
IsNextPlace(n, places) ==
    /\ \A k \in Jobs : places[k] < n
    /\ n = 1 \/ \E k \in Jobs : places[k] = n - 1

Enqueue(j) ==
    LET places == QueueAfter(seen[j]) IN
    /\ client[j] = "asking" /\ j \notin aborted
    /\ Cardinality({k \in Jobs : places[k] > 0}) < MaxQueue
    /\ \E n \in 1..Cardinality(Jobs) :
          /\ IsNextPlace(n, places)
          /\ Transact(j, [places EXCEPT ![j] = n], LeasesAfter(seen[j]), "waiting")
    /\ stopping' = stopping \cup Orphaned(seen[j])

QueueFull(j) ==
    /\ client[j] = "asking"
    /\ Cardinality({k \in Jobs : QueueAfter(seen[j])[k] > 0}) >= MaxQueue
    /\ client' = [client EXCEPT ![j] = "over"]
    /\ seen' = [seen EXCEPT ![j] = {}]
    /\ stopping' = stopping \cup Orphaned(seen[j])
    /\ UNCHANGED <<journal, aborted, alive, runner, group, faults>>

\* Mutant: a free slot goes to whoever looks first.
AdmitsAnyone(j, places, leases) == places[j] > 0 /\ LeasesIn(leases) < Slots
Admits(j, places, leases) ==
    /\ places[j] > 0 /\ \A k \in Jobs : places[k] > 0 => places[j] <= places[k]
    /\ LeasesIn(leases) < Slots

WithoutTicket(j, places) == [places EXCEPT ![j] = 0]

\* A waiter's pass under the lock: it is admitted, or reconciles and waits on.
Pass(j) ==
    LET places == QueueAfter(seen[j])
        leases == LeasesAfter(seen[j]) IN
    /\ client[j] = "ready" /\ j \notin aborted
    /\ IF Admits(j, places, leases)
       THEN Transact(j, WithoutTicket(j, places), [leases EXCEPT ![j] = "starting"], "held")
       ELSE Transact(j, places, leases, "waiting")
    /\ stopping' = stopping \cup Orphaned(seen[j])

Withdraw(j) ==
    /\ client[j] = "withdrawing"
    /\ Transact(j, WithoutTicket(j, place),
                [lease EXCEPT ![j] = IF @ = "starting" THEN "none" ELSE @], "over")
    /\ UNCHANGED stopping

GivesUp(j) ==
    \/ client[j] = "asking" /\ Cancelled(j, "over")
    \/ client[j] \in {"waiting", "ready"} /\ Cancelled(j, "withdrawing")
    \/ client[j] = "held" /\ j \notin Holds /\ Cancelled(j, "settling")

-------------------------------------------------------------------------------
(* holdLight: the requester works itself *)

Moves(j, from, to) ==
    /\ client[j] = from
    /\ client' = [client EXCEPT ![j] = to]
    /\ UNCHANGED <<journal, seen, alive, group, stopping, faults>>

Work(j) == j \in Holds /\ Moves(j, "held", "working") /\ UNCHANGED <<runner, aborted>>

EndHold(j) ==
    /\ client[j] = "working"
    /\ Transact(j, place, [lease EXCEPT ![j] = "none"], "over")
    /\ UNCHANGED stopping

-------------------------------------------------------------------------------
(* runHeavy: a runner of its own holds the lease *)

SpawnRunner(j) ==
    /\ j \notin Holds /\ j \notin aborted
    /\ Moves(j, "held", "spawned")
    /\ runner' = [runner EXCEPT ![j] = "spawned"] /\ UNCHANGED aborted

\* The command is let go once its runner is on record, unless it was cancelled:
\* then the runner's input just ends.
Go(j) ==
    /\ runner[j] = "registered" /\ Moves(j, "spawned", "running")
    /\ runner' = IF j \in aborted THEN runner ELSE [runner EXCEPT ![j] = "told"]
    /\ UNCHANGED aborted

RunnerIsGone(j) ==
    /\ runner[j] = "dead" /\ UNCHANGED runner /\ aborted' = aborted \ {j}
    /\ Moves(j, "spawned", "settling") \/ Moves(j, "running", "settling")

\* The runner is on record, but the read that should confirm who it is fails: the
\* request ends in an error and the runner lives on.  Its input stays open, unless
\* a signal ended it before the runner was on record.
MissesRunner(j) ==
    /\ Fault
    /\ client[j] = "spawned" /\ runner[j] = "registered"
    /\ client' = [client EXCEPT ![j] = "settling"]
    /\ aborted' \in {aborted, aborted \ {j}}
    /\ UNCHANGED <<journal, seen, alive, runner, group, stopping>>

\* The last transaction of runHeavy only reconciles: the lease is the runner's.
Close(j) ==
    /\ client[j] = "closing"
    /\ Transact(j, QueueAfter(seen[j]), LeasesAfter(seen[j]), "over")
    /\ stopping' = stopping \cup Orphaned(seen[j])

RunnerBecomes(j, state) ==
    /\ runner' = [runner EXCEPT ![j] = state]
    /\ UNCHANGED <<place, client, seen, aborted, alive, stopping>>

\* Under the lock: a runner registers on a lease still starting, of a live requester.
Register(j) ==
    /\ runner[j] = "spawned" /\ UNCHANGED <<group, faults>>
    /\ IF lease[j] = "starting" /\ Owner(j) \in alive
       THEN lease' = [lease EXCEPT ![j] = "running"] /\ RunnerBecomes(j, "registered")
       ELSE RunnerBecomes(j, "dead") /\ UNCHANGED lease

Launch(j) ==
    /\ runner[j] = "told" /\ RunnerBecomes(j, "ran")
    /\ group' = [group EXCEPT ![j] = "command"]
    /\ UNCHANGED <<lease, faults>>

\* The runner gives the lease back when nothing was launched (its input ended,
\* or the command could not start) or when its group is empty again.  Its input
\* ends by a signal, or with the requester's process.
InputEnded(j) == runner[j] = "registered" /\ (j \in aborted \/ Owner(j) \notin alive)
RunnerReleases(j) ==
    /\ InputEnded(j) \/ runner[j] = "told" \/ (runner[j] = "ran" /\ group[j] = "empty")
    /\ lease' = [lease EXCEPT ![j] = "none"] /\ RunnerBecomes(j, "dead")
    /\ UNCHANGED <<group, faults>>

GroupBecomes(j, state) ==
    /\ group' = [group EXCEPT ![j] = state]
    /\ UNCHANGED <<journal, client, seen, aborted, alive, runner, stopping, faults>>

CommandEnds(j) ==
    group[j] = "command" /\ \E state \in {"leftovers", "empty"} : GroupBecomes(j, state)

\* What is left of a group is stopped after a grace, by the runner or, when the
\* runner is dead, by a reconciliation; the latter stops the command as well.
StopLeftovers(j) ==
    /\ \/ runner[j] = "ran" /\ group[j] = "leftovers"
       \/ j \in stopping /\ group[j] # "empty"
    /\ GroupBecomes(j, "empty")

-------------------------------------------------------------------------------
(* The world *)

Abort(j) ==
    /\ client[j] \in {"asking", "waiting", "ready", "held", "spawned", "running"}
    /\ j \notin aborted /\ ~(client[j] = "held" /\ j \in Holds)
    /\ aborted' = aborted \cup {j}
    /\ UNCHANGED <<journal, client, seen, alive, runner, group, stopping, faults>>

\* A cancelled command is sent a signal, then killed with its runner; a runner
\* that has launched nothing dies of the signal.
KillGroup(j) ==
    /\ j \in aborted /\ client[j] = "running"
    /\ runner[j] \in {"registered", "told", "ran"} /\ RunnerBecomes(j, "dead")
    /\ group' = [group EXCEPT ![j] = "empty"]
    /\ UNCHANGED <<lease, faults>>

RunnerDies(j) ==
    /\ Fault
    /\ runner[j] \in {"spawned", "registered", "told", "ran"} /\ RunnerBecomes(j, "dead")
    /\ UNCHANGED <<lease, group>>

\* A process ends with all it knows; its tickets and leases stay in the journal.
ProcessEnds(o) ==
    /\ o \in alive /\ alive' = alive \ {o}
    /\ client' = [k \in Jobs |-> IF Owner(k) = o THEN "over" ELSE client[k]]
    /\ seen' = [k \in Jobs |-> IF Owner(k) = o THEN {} ELSE seen[k]]
    /\ aborted' = {k \in aborted : Owner(k) # o}
    /\ UNCHANGED <<journal, runner, group, stopping>>
\* A command's process ends with its request, and waits for a runner that lives.
Exit(j) ==
    /\ j \notin ServiceJobs /\ client[j] = "over" /\ runner[j] \in {"none", "dead"}
    /\ ProcessEnds(j) /\ UNCHANGED faults
ProcessDies(o) == Fault /\ ProcessEnds(o)

ClientSteps(j) ==
    \/ LookFully(j) \/ LookBlind(j) \/ Enqueue(j) \/ QueueFull(j) \/ Pass(j) \/ Withdraw(j)
    \/ GivesUp(j) \/ Work(j) \/ EndHold(j) \/ SpawnRunner(j) \/ Go(j) \/ RunnerIsGone(j)
    \/ Close(j)
RunnerSteps(j) == Register(j) \/ Launch(j) \/ RunnerReleases(j)
Ends(j) == RunnerSteps(j) \/ CommandEnds(j) \/ StopLeftovers(j) \/ Exit(j)

Next ==
    \/ \E j \in Jobs :
          \/ Ask(j) \/ ClientSteps(j) \/ Ends(j) \/ Abort(j) \/ KillGroup(j)
          \/ MissesRunner(j) \/ RunnerDies(j)
    \/ \E o \in Owners : ProcessDies(o)

Spec == Init /\ [][Next]_vars

\* Requesters and runners go on, commands end, leftovers can be stopped, and
\* the processes can be observed again and again.
Fairness ==
    \A j \in Jobs :
        WF_vars(ClientSteps(j)) /\ SF_vars(LookFully(j)) /\ WF_vars(Ends(j))
FairSpec == Spec /\ Fairness

-------------------------------------------------------------------------------
(* What the permits promise *)

\* The lease lasts as long as the work: neither an exit of the requester or of
\* the runner nor what another process saw earlier frees it (governor.ts, reconcile).
AtWork(j) == group[j] # "empty" \/ client[j] = "working"
WorkKeepsItsPermit == \A j \in Jobs : AtWork(j) => lease[j] # "none"

\* Never more work at once than the lane has slots.
WorkWithinSlots == Cardinality({j \in Jobs : AtWork(j)}) <= Slots

\* A live waiter keeps its ticket, and a live requester the lease it was told
\* of until a runner takes it, whatever others reconcile (governor.ts, look).
HasGrant(j) ==
    client[j] \in {"held", "working"} \/ (client[j] = "spawned" /\ runner[j] = "spawned")
LiveRequestsStay ==
    \A j \in Jobs :
        /\ client[j] \in {"waiting", "ready"} => place[j] > 0
        /\ HasGrant(j) => lease[j] = "starting"

\* Nobody holds a lease and waits for it.
OnePlace == \A j \in Jobs : place[j] > 0 => lease[j] = "none"

\* A request that is over, of a process that lives, has left something in the
\* journal: its ticket, a lease no runner took, or that of a runner which waits
\* to be told to start.
LeftBehind ==
    \E k \in Jobs :
        /\ client[k] = "over" /\ Owner(k) \in alive
        /\ \/ k \in ServiceJobs /\ (place[k] > 0 \/ lease[k] = "starting")
           \/ runner[k] = "registered" /\ ~InputEnded(k)
\* A live waiter that is not cancelled is served in the end, unless something
\* was left behind.
WaitersAreServed ==
    \A j \in Jobs :
        client[j] = "waiting" ~> (client[j] \notin {"waiting", "ready"} \/ LeftBehind)

=============================================================================
