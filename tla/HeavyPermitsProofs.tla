------------------------- MODULE HeavyPermitsProofs -------------------------
(***************************************************************************)
(* The permits of one machine, for any jobs, any number of slots and any   *)
(* number of processes killed and transactions left without an answer:     *)
(* work keeps its permit, there is never more work than slots, and nobody  *)
(* takes a live request out of the journal.                                *)
(***************************************************************************)
EXTENDS PermitLaneRefinement, FiniteSetTheorems, TLAPS

-----------------------------------------------------------------------------
(* What the properties rest on.                                            *)

\* The client has not started a runner yet.
BeforeRunner == {"idle", "asking", "waiting", "ready", "withdrawing", "held", "working"}

\* The journal's entries of one request agree with what its requester and its
\* runner are doing.
JobOK(j) ==
    /\ client[j] # "over" => Owner(j) \in alive
    /\ client[j] \in {"idle", "asking"} => place[j] = 0 /\ lease[j] = "none"
    /\ client[j] \in {"waiting", "ready"} => place[j] > 0
    /\ HasGrant(j) => lease[j] = "starting"
    /\ place[j] > 0 => lease[j] = "none"
    /\ client[j] \in BeforeRunner => runner[j] = "none"
    /\ runner[j] \in {"registered", "told", "ran"} => lease[j] = "running"
    /\ group[j] # "empty" => lease[j] = "running" /\ runner[j] \in {"ran", "dead"}

JobsOK == \A j \in Jobs : JobOK(j)

\* What a look has found is still true, however late it is used.
True(facts) ==
    /\ \A o \in Owners : <<"exited", o>> \in facts => o \notin alive
    /\ \A k \in Jobs :
          /\ <<"ended", k>> \in facts => runner[k] = "dead" /\ group[k] = "empty"
          /\ <<"orphaned", k>> \in facts => runner[k] = "dead"

SeenOK == \A j \in Jobs : True(seen[j])

LeasesOK == LeasesIn(lease) <= Slots

HInv == TypeOK /\ JobsOK /\ SeenOK /\ LeasesOK

-----------------------------------------------------------------------------
(* A look, and a reconciliation with what it found.                        *)

LEMMA OwnersOfJobs == \A j \in Jobs : Owner(j) \in Owners
  BY DEF Owners

LEMMA ObservedIsTrue ==
  ASSUME TypeOK
  PROVE  /\ Observed \subseteq Facts /\ {} \subseteq Facts
         /\ True(Observed) /\ True({})
<1>1. Observed \subseteq Facts
  BY DEF Observed, Facts
<1>2. \A o \in Owners : <<"exited", o>> \in Observed => o \notin alive
  BY DEF Observed
<1>3. \A k \in Jobs : <<"ended", k>> \in Observed => runner[k] = "dead" /\ group[k] = "empty"
  BY DEF Observed
<1>4. \A k \in Jobs : <<"orphaned", k>> \in Observed => runner[k] = "dead"
  BY DEF Observed
<1>5. QED
  BY <1>1, <1>2, <1>3, <1>4 DEF True

\* Reconciling with true facts takes nothing from a request whose requester or
\* whose work lives.
LEMMA Reconciling ==
  ASSUME TypeOK, NEW facts \in SUBSET Facts, True(facts)
  PROVE  /\ QueueAfter(facts) \in [Jobs -> Nat]
         /\ LeasesAfter(facts) \in [Jobs -> {"none", "starting", "running"}]
         /\ \A k \in Jobs :
               /\ QueueAfter(facts)[k] \in {0, place[k]}
               /\ LeasesAfter(facts)[k] \in {"none", lease[k]}
               /\ Owner(k) \in alive => QueueAfter(facts)[k] = place[k]
               /\ Owner(k) \in alive /\ lease[k] = "starting" => LeasesAfter(facts)[k] = lease[k]
               /\ lease[k] = "running" /\ (runner[k] # "dead" \/ group[k] # "empty")
                     => LeasesAfter(facts)[k] = lease[k]
<1>1. \A k \in Jobs :
          /\ <<"exited", Owner(k)>> \in facts => Owner(k) \notin alive
          /\ <<"ended", k>> \in facts => runner[k] = "dead" /\ group[k] = "empty"
  BY OwnersOfJobs DEF True
<1>2. QueueAfter(facts) \in [Jobs -> Nat]
  BY DEF QueueAfter, TypeOK
<1>3. LeasesAfter(facts) \in [Jobs -> {"none", "starting", "running"}]
  BY DEF LeasesAfter, TypeOK
<1>4. ASSUME NEW k \in Jobs
      PROVE  /\ QueueAfter(facts)[k] \in {0, place[k]}
             /\ LeasesAfter(facts)[k] \in {"none", lease[k]}
             /\ Owner(k) \in alive => QueueAfter(facts)[k] = place[k]
             /\ Owner(k) \in alive /\ lease[k] = "starting" => LeasesAfter(facts)[k] = lease[k]
             /\ lease[k] = "running" /\ (runner[k] # "dead" \/ group[k] # "empty")
                   => LeasesAfter(facts)[k] = lease[k]
  BY <1>1 DEF QueueAfter, LeasesAfter
<1>5. QED
  BY <1>2, <1>3, <1>4

-----------------------------------------------------------------------------
(* What keeps the parts that every step shares.                            *)

\* Facts outlive any step that brings no process back.
LEMMA FactsStay ==
  ASSUME TypeOK, NEW facts, True(facts),
         alive' \subseteq alive,
         \A k \in Jobs : runner[k] = "dead" =>
             runner'[k] = "dead" /\ (group[k] = "empty" => group'[k] = "empty")
  PROVE  True(facts)'
  BY DEF True

LEMMA SeenStays ==
  ASSUME TypeOK, SeenOK,
         \A k \in Jobs : seen'[k] \in {seen[k], {}, Observed},
         alive' \subseteq alive,
         \A k \in Jobs : runner[k] = "dead" =>
             runner'[k] = "dead" /\ (group[k] = "empty" => group'[k] = "empty")
  PROVE  SeenOK'
<1>1. ASSUME NEW k \in Jobs PROVE True(seen[k]) /\ True({}) /\ True(Observed)
  BY ObservedIsTrue DEF SeenOK
<1>2. ASSUME NEW k \in Jobs
      PROVE  /\ \A o \in Owners : <<"exited", o>> \in seen'[k] => o \notin alive
             /\ \A i \in Jobs :
                   /\ <<"ended", i>> \in seen'[k] => runner[i] = "dead" /\ group[i] = "empty"
                   /\ <<"orphaned", i>> \in seen'[k] => runner[i] = "dead"
  BY <1>1 DEF True
<1>3. QED
  BY <1>2 DEF SeenOK, True

\* The lane is no fuller when no job gets a lease it did not have.
LEMMA LeasesStay ==
  ASSUME TypeOK, LeasesOK,
         \A k \in Jobs : lease[k] = "none" => lease'[k] = "none"
  PROVE  LeasesOK'
<1> DEFINE before == {k \in Jobs : lease[k] # "none"}
           after == {k \in Jobs : lease'[k] # "none"}
<1>1. IsFiniteSet(before)
  BY JobsAssumption, FS_Subset
<1>2. after \subseteq before
  OBVIOUS
<1>3. Cardinality(after) <= Cardinality(before) /\ Cardinality(before) \in Nat
      /\ Cardinality(after) \in Nat
  BY <1>1, <1>2, FS_Subset, FS_CardinalityType
<1>4. QED
  BY <1>3, BoundsAssumption DEF LeasesOK, LeasesIn

-----------------------------------------------------------------------------
(* Each step keeps the types and, job by job, the journal's agreement.  First *)
(* the transactions.                                                          *)

LEMMA InitHolds == Init => HInv
<1> SUFFICES ASSUME Init PROVE HInv
  OBVIOUS
<1>1. TypeOK
  BY BoundsAssumption DEF Init, TypeOK, ClientStates, RunnerStates
<1>2. JobsOK
  BY OwnersOfJobs DEF Init, JobsOK, JobOK, HasGrant, BeforeRunner
<1>3. SeenOK
  BY DEF Init, SeenOK, True
<1>4. {k \in Jobs : lease[k] # "none"} = {}
  BY DEF Init
<1>5. LeasesOK
  BY <1>4, FS_EmptySet, BoundsAssumption DEF LeasesOK, LeasesIn
<1>6. QED
  BY <1>1, <1>2, <1>3, <1>5 DEF HInv

\* What a transaction changes: the journal, or nothing on disk and its
\* requester hears of an error.
LEMMA TransactEffect ==
  ASSUME TypeOK, NEW j \in Jobs, NEW places, NEW leases, NEW next,
         Transact(j, places, leases, next)
  PROVE  /\ \/ place' = places /\ lease' = leases
            \/ place' = place /\ lease' = lease /\ client'[j] = AfterError[client[j]]
         /\ client'[j] \in {next, AfterError[client[j]]}
         /\ client' = [client EXCEPT ![j] = client'[j]]
         /\ \A k \in Jobs \ {j} : client'[k] = client[k]
         /\ seen' = [seen EXCEPT ![j] = {}]
         /\ faults' \in 0..MaxFaults
         /\ aborted' = aborted /\ alive' = alive /\ runner' = runner /\ group' = group
  BY BoundsAssumption DEF Transact, TypeOK, Fault

LEMMA ErrorStates ==
  /\ AfterError["asking"] = "over" /\ AfterError["ready"] = "withdrawing"
  /\ AfterError["withdrawing"] = "over" /\ AfterError["working"] = "over"
  /\ AfterError["closing"] = "over"
  BY DEF AfterError

LEMMA TransactTypes ==
  ASSUME TypeOK, NEW j \in Jobs, NEW places \in [Jobs -> Nat],
         NEW leases \in [Jobs -> {"none", "starting", "running"}], NEW next \in ClientStates,
         client[j] \in {"asking", "ready", "withdrawing", "working", "closing"},
         Transact(j, places, leases, next), stopping' \subseteq Jobs
  PROVE  TypeOK'
<1>1. AfterError[client[j]] \in ClientStates
  BY DEF AfterError, ClientStates
<1>2. QED
  BY <1>1, TransactEffect DEF TypeOK

\* It changes no fact about a process.
LEMMA TransactSeen ==
  ASSUME TypeOK, SeenOK, NEW j \in Jobs, NEW places, NEW leases, NEW next,
         Transact(j, places, leases, next)
  PROVE  SeenOK'
<1>1. \A k \in Jobs : seen'[k] \in {seen[k], {}, Observed}
  BY TransactEffect DEF TypeOK
<1>2. QED
  BY <1>1, TransactEffect, SeenStays

LEMMA SeenFacts ==
  ASSUME TypeOK, SeenOK, NEW j \in Jobs
  PROVE  seen[j] \in SUBSET Facts /\ True(seen[j])
  BY DEF TypeOK, SeenOK

LEMMA EnqueueKeeps ==
  ASSUME HInv, NEW j \in Jobs, Enqueue(j)
  PROVE  HInv'
<1> DEFINE places == QueueAfter(seen[j])
           leases == LeasesAfter(seen[j])
<1>1. PICK n \in 1..Cardinality(Jobs) : 
          Transact(j, [places EXCEPT ![j] = n], leases, "waiting")
  BY DEF Enqueue
<1>2. n \in Nat /\ n > 0
  BY <1>1, JobsAssumption, FS_CardinalityType
<1>3. /\ places \in [Jobs -> Nat] /\ leases \in [Jobs -> {"none", "starting", "running"}]
      /\ \A k \in Jobs :
               /\ places[k] \in {0, place[k]}
               /\ leases[k] \in {"none", lease[k]}
               /\ Owner(k) \in alive => places[k] = place[k]
               /\ Owner(k) \in alive /\ lease[k] = "starting" => leases[k] = lease[k]
               /\ lease[k] = "running" /\ (runner[k] # "dead" \/ group[k] # "empty")
                     => leases[k] = lease[k]
  BY SeenFacts, Reconciling DEF HInv
<1> HIDE DEF places, leases
<1>4. client[j] = "asking" /\ stopping' \subseteq Jobs
  BY DEF Enqueue, Orphaned, HInv, TypeOK
<1>5. TypeOK'
  BY <1>1, <1>2, <1>3, <1>4, TransactTypes DEF HInv, ClientStates
<1>6. ASSUME NEW k \in Jobs PROVE JobOK(k)'
  <2>1. JobOK(k) /\ JobOK(j)
    BY DEF HInv, JobsOK
  <2>2. /\ place'[k] \in {place[k], IF k = j THEN n ELSE places[k]} /\ lease'[k] \in {lease[k], leases[k]}
        /\ k = j => client'[k] = "over" \/ (client'[k] = "waiting" /\ place'[k] = n)
        /\ k # j => client'[k] = client[k]
        /\ alive' = alive /\ runner' = runner /\ group' = group
    <3>1. [places EXCEPT ![j] = n][k] = (IF k = j THEN n ELSE places[k])
      BY <1>3
    <3>2. /\ \/ place' = [places EXCEPT ![j] = n] /\ lease' = leases
             \/ place' = place /\ lease' = lease /\ client'[j] = "over"
          /\ client'[j] \in {"waiting", "over"}
          /\ \A i \in Jobs \ {j} : client'[i] = client[i]
          /\ alive' = alive /\ runner' = runner /\ group' = group
      BY <1>1, <1>4, ErrorStates, TransactEffect DEF HInv
    <3>3. QED
      BY <3>1, <3>2
  <2>3. QED
    BY <2>1, <2>2, <1>2, <1>3, <1>4 DEF JobOK, HasGrant, BeforeRunner
<1>7. SeenOK'
  BY <1>1, TransactSeen DEF HInv
<1>8. \A k \in Jobs : lease[k] = "none" => lease'[k] = "none"
  BY <1>1, <1>3, TransactEffect DEF HInv
<1>9. QED
  BY <1>5, <1>6, <1>7, <1>8, LeasesStay DEF HInv, JobsOK

LEMMA QueueFullKeeps ==
  ASSUME HInv, NEW j \in Jobs, QueueFull(j)
  PROVE  HInv'
<1>1. client[j] = "asking" /\ client' = [client EXCEPT ![j] = "over"]
      /\ seen' = [seen EXCEPT ![j] = {}] /\ stopping' \subseteq Jobs
      /\ UNCHANGED <<place, lease, aborted, alive, runner, group, faults>>
  BY DEF QueueFull, Orphaned, HInv, TypeOK, journal
<1>2. TypeOK'
  BY <1>1 DEF HInv, TypeOK, ClientStates
<1>3. ASSUME NEW k \in Jobs PROVE JobOK(k)'
  BY <1>1 DEF HInv, TypeOK, JobsOK, JobOK, HasGrant, BeforeRunner
<1>4. SeenOK'
  BY <1>1, SeenStays DEF HInv, TypeOK
<1>5. QED
  BY <1>1, <1>2, <1>3, <1>4, LeasesStay DEF HInv, JobsOK

LEMMA WithdrawKeeps ==
  ASSUME HInv, NEW j \in Jobs, Withdraw(j)
  PROVE  HInv'
<1> DEFINE leases == [lease EXCEPT ![j] = IF @ = "starting" THEN "none" ELSE @]
<1>1. /\ client[j] = "withdrawing" /\ stopping' = stopping
      /\ Transact(j, WithoutTicket(j, place), leases, "over")
  BY DEF Withdraw
<1>2. /\ WithoutTicket(j, place) \in [Jobs -> Nat]
      /\ leases \in [Jobs -> {"none", "starting", "running"}]
      /\ \A k \in Jobs : /\ WithoutTicket(j, place)[k] = IF k = j THEN 0 ELSE place[k]
                         /\ leases[k] = IF k = j /\ lease[k] = "starting" THEN "none" ELSE lease[k]
  BY DEF WithoutTicket, HInv, TypeOK
<1> HIDE DEF leases
<1>3. TypeOK'
  BY <1>1, <1>2, TransactTypes DEF HInv, TypeOK, ClientStates
<1>4. ASSUME NEW k \in Jobs PROVE JobOK(k)'
  <2>1. /\ \/ place' = WithoutTicket(j, place) /\ lease' = leases
           \/ place' = place /\ lease' = lease
        /\ client'[j] = "over"
        /\ \A i \in Jobs \ {j} : client'[i] = client[i]
        /\ alive' = alive /\ runner' = runner /\ group' = group
    BY <1>1, ErrorStates, TransactEffect DEF HInv
  <2>2. QED
    BY <1>1, <1>2, <2>1 DEF HInv, JobsOK, JobOK, HasGrant, BeforeRunner
<1>5. SeenOK'
  BY <1>1, TransactSeen DEF HInv
<1>6. \A k \in Jobs : lease[k] = "none" => lease'[k] = "none"
  BY <1>1, <1>2, TransactEffect DEF HInv
<1>7. QED
  BY <1>3, <1>4, <1>5, <1>6, LeasesStay DEF HInv, JobsOK

LEMMA EndHoldKeeps ==
  ASSUME HInv, NEW j \in Jobs, EndHold(j)
  PROVE  HInv'
<1> DEFINE leases == [lease EXCEPT ![j] = "none"]
<1>1. /\ client[j] = "working" /\ stopping' = stopping
      /\ Transact(j, place, leases, "over")
  BY DEF EndHold
<1>2. /\ place \in [Jobs -> Nat] /\ leases \in [Jobs -> {"none", "starting", "running"}]
      /\ \A k \in Jobs : leases[k] = IF k = j THEN "none" ELSE lease[k]
  BY DEF HInv, TypeOK
<1> HIDE DEF leases
<1>3. TypeOK'
  BY <1>1, <1>2, TransactTypes DEF HInv, TypeOK, ClientStates
<1>4. ASSUME NEW k \in Jobs PROVE JobOK(k)'
  <2>1. /\ place' = place /\ (lease' = leases \/ lease' = lease)
        /\ client'[j] = "over"
        /\ \A i \in Jobs \ {j} : client'[i] = client[i]
        /\ alive' = alive /\ runner' = runner /\ group' = group
    BY <1>1, ErrorStates, TransactEffect DEF HInv
  <2>2. QED
    BY <1>1, <1>2, <2>1 DEF HInv, JobsOK, JobOK, HasGrant, BeforeRunner
<1>5. SeenOK'
  BY <1>1, TransactSeen DEF HInv
<1>6. \A k \in Jobs : lease[k] = "none" => lease'[k] = "none"
  BY <1>1, <1>2, TransactEffect DEF HInv
<1>7. QED
  BY <1>3, <1>4, <1>5, <1>6, LeasesStay DEF HInv, JobsOK

LEMMA CloseKeeps ==
  ASSUME HInv, NEW j \in Jobs, Close(j)
  PROVE  HInv'
<1> DEFINE places == QueueAfter(seen[j])
           leases == LeasesAfter(seen[j])
<1>1. /\ client[j] = "closing" /\ Transact(j, places, leases, "over")
      /\ stopping' \subseteq Jobs
  BY DEF Close, Orphaned, HInv, TypeOK
<1>2. /\ places \in [Jobs -> Nat] /\ leases \in [Jobs -> {"none", "starting", "running"}]
      /\ \A k \in Jobs :
               /\ places[k] \in {0, place[k]}
               /\ leases[k] \in {"none", lease[k]}
               /\ Owner(k) \in alive => places[k] = place[k]
               /\ Owner(k) \in alive /\ lease[k] = "starting" => leases[k] = lease[k]
               /\ lease[k] = "running" /\ (runner[k] # "dead" \/ group[k] # "empty")
                     => leases[k] = lease[k]
  BY SeenFacts, Reconciling DEF HInv
<1> HIDE DEF places, leases
<1>3. TypeOK'
  BY <1>1, <1>2, TransactTypes DEF HInv, ClientStates
<1>4. ASSUME NEW k \in Jobs PROVE JobOK(k)'
  <2>1. /\ (place' = places /\ lease' = leases) \/ (place' = place /\ lease' = lease)
        /\ client'[j] = "over"
        /\ \A i \in Jobs \ {j} : client'[i] = client[i]
        /\ alive' = alive /\ runner' = runner /\ group' = group
    BY <1>1, ErrorStates, TransactEffect DEF HInv
  <2>2. JobOK(k) /\ place[k] \in Nat
    BY DEF HInv, JobsOK, TypeOK
  <2>3. QED
    BY <1>1, <1>2, <2>1, <2>2 DEF JobOK, HasGrant, BeforeRunner
<1>5. SeenOK'
  BY <1>1, TransactSeen DEF HInv
<1>6. \A k \in Jobs : lease[k] = "none" => lease'[k] = "none"
  BY <1>1, <1>2, TransactEffect DEF HInv
<1>7. QED
  BY <1>3, <1>4, <1>5, <1>6, LeasesStay DEF HInv, JobsOK

\* A grant is the one step that fills the lane, and it looks at the leases
\* that are left under the lock.
LEMMA PassKeeps ==
  ASSUME HInv, NEW j \in Jobs, Pass(j)
  PROVE  HInv'
<1> DEFINE places == QueueAfter(seen[j])
           leases == LeasesAfter(seen[j])
           granted == [leases EXCEPT ![j] = "starting"]
<1>1. /\ client[j] = "ready" /\ stopping' \subseteq Jobs
      /\ \/ Admits(j, places, leases)
            /\ Transact(j, WithoutTicket(j, places), granted, "held")
         \/ Transact(j, places, leases, "waiting")
  BY DEF Pass, Orphaned, HInv, TypeOK
<1>2. /\ places \in [Jobs -> Nat] /\ leases \in [Jobs -> {"none", "starting", "running"}]
      /\ \A k \in Jobs :
               /\ places[k] \in {0, place[k]}
               /\ leases[k] \in {"none", lease[k]}
               /\ Owner(k) \in alive => places[k] = place[k]
               /\ Owner(k) \in alive /\ lease[k] = "starting" => leases[k] = lease[k]
               /\ lease[k] = "running" /\ (runner[k] # "dead" \/ group[k] # "empty")
                     => leases[k] = lease[k]
  BY SeenFacts, Reconciling DEF HInv
<1> HIDE DEF places, leases
<1>3. ASSUME NEW k \in Jobs PROVE JobOK(k) /\ place[k] \in Nat /\ lease[j] = "none"
  BY <1>1 DEF HInv, JobsOK, JobOK, TypeOK
<1>4. CASE Transact(j, places, leases, "waiting")
  <2>1. TypeOK'
    BY <1>1, <1>2, <1>4, TransactTypes DEF HInv, ClientStates
  <2>2. ASSUME NEW k \in Jobs PROVE JobOK(k)'
    <3>1. /\ (place' = places /\ lease' = leases) \/ (place' = place /\ lease' = lease)
          /\ client'[j] \in {"waiting", "withdrawing"}
          /\ \A i \in Jobs \ {j} : client'[i] = client[i]
          /\ alive' = alive /\ runner' = runner /\ group' = group
      BY <1>1, <1>4, ErrorStates, TransactEffect DEF HInv
    <3>2. QED
      BY <1>1, <1>2, <1>3, <3>1 DEF JobOK, HasGrant, BeforeRunner
  <2>3. SeenOK'
    BY <1>4, TransactSeen DEF HInv
  <2>4. \A k \in Jobs : lease[k] = "none" => lease'[k] = "none"
    BY <1>2, <1>4, TransactEffect DEF HInv
  <2>5. QED
    BY <2>1, <2>2, <2>3, <2>4, LeasesStay DEF HInv, JobsOK
<1>5. CASE Admits(j, places, leases) /\ Transact(j, WithoutTicket(j, places), granted, "held")
  <2>1. /\ WithoutTicket(j, places) \in [Jobs -> Nat]
        /\ granted \in [Jobs -> {"none", "starting", "running"}]
        /\ \A k \in Jobs : /\ WithoutTicket(j, places)[k] = IF k = j THEN 0 ELSE places[k]
                           /\ granted[k] = IF k = j THEN "starting" ELSE leases[k]
    BY <1>2 DEF WithoutTicket
  <2> HIDE DEF granted
  <2>2. TypeOK'
    BY <1>1, <1>5, <2>1, TransactTypes DEF HInv, ClientStates
  <2>3. /\ \/ place' = WithoutTicket(j, places) /\ lease' = granted
           \/ place' = place /\ lease' = lease /\ client'[j] = "withdrawing"
        /\ client'[j] \in {"held", "withdrawing"}
        /\ \A i \in Jobs \ {j} : client'[i] = client[i]
        /\ alive' = alive /\ runner' = runner /\ group' = group
    BY <1>1, <1>5, ErrorStates, TransactEffect DEF HInv
  <2>4. ASSUME NEW k \in Jobs PROVE JobOK(k)'
    BY <1>1, <1>2, <1>3, <2>1, <2>3 DEF JobOK, HasGrant, BeforeRunner
  <2>5. SeenOK'
    BY <1>5, TransactSeen DEF HInv
  <2>6. LeasesOK'
    <3> DEFINE left == {k \in Jobs : leases[k] # "none"}
               after == {k \in Jobs : lease'[k] # "none"}
    <3>1. CASE lease' = lease
      BY <3>1 DEF LeasesOK, LeasesIn, HInv
    <3>2. CASE lease' = granted
      <4>1. IsFiniteSet(left) /\ IsFiniteSet(left \cup {j})
        BY JobsAssumption, FS_Subset, FS_AddElement
      <4>2. after \subseteq left \cup {j}
        BY <2>1, <3>2
      <4>a. Cardinality(left) \in Nat
        BY <4>1, FS_CardinalityType
      <4>b. Cardinality(left \cup {j})
              = IF j \in left THEN Cardinality(left) ELSE Cardinality(left) + 1
        BY <4>1, FS_AddElement
      <4> HIDE DEF left
      <4>3. Cardinality(left \cup {j}) <= Cardinality(left) + 1 /\ Cardinality(left) \in Nat
        BY <4>a, <4>b
      <4>4. Cardinality(after) <= Cardinality(left \cup {j}) /\ Cardinality(after) \in Nat
            /\ Cardinality(left \cup {j}) \in Nat
        BY <4>1, <4>2, FS_Subset, FS_CardinalityType
      <4>5. Cardinality(left) < Slots
        BY <1>5 DEF Admits, LeasesIn, left
      <4>6. QED
        BY <4>3, <4>4, <4>5, BoundsAssumption DEF LeasesOK, LeasesIn
    <3>3. QED
      BY <2>3, <3>1, <3>2
  <2>7. QED
    BY <2>2, <2>4, <2>5, <2>6 DEF HInv, JobsOK
<1>6. QED
  BY <1>1, <1>4, <1>5

-----------------------------------------------------------------------------
(* Steps of a requester that leave the journal alone.                      *)

\* A requester looks, and what it finds is true.
LEMMA LookKeeps ==
  ASSUME HInv, NEW j \in Jobs, NEW facts \in {Observed, {}}, NEW next \in ClientStates,
         LookWith(j, facts, next),
         \/ client[j] = "idle" /\ next = "asking"
         \/ client[j] = "waiting" /\ next = "ready"
         \/ client[j] = "settling" /\ next = "closing"
  PROVE  HInv'
<1>1. /\ client' = [client EXCEPT ![j] = next] /\ seen' = [seen EXCEPT ![j] = facts]
      /\ UNCHANGED <<place, lease, aborted, alive, runner, group, stopping, faults>>
  BY DEF LookWith, journal
<1>2. TypeOK'
  BY <1>1, ObservedIsTrue DEF HInv, TypeOK
<1>3. ASSUME NEW k \in Jobs PROVE JobOK(k)'
  BY <1>1 DEF HInv, TypeOK, JobsOK, JobOK, HasGrant, BeforeRunner
<1>4. SeenOK'
  BY <1>1, SeenStays DEF HInv, TypeOK
<1>5. QED
  BY <1>1, <1>2, <1>3, <1>4, LeasesStay DEF HInv, JobsOK

LEMMA GivesUpKeeps ==
  ASSUME HInv, NEW j \in Jobs, GivesUp(j)
  PROVE  HInv'
<1>1. PICK next \in {"over", "withdrawing", "settling"} :
          /\ \/ client[j] = "asking" /\ next = "over"
             \/ client[j] \in {"waiting", "ready"} /\ next = "withdrawing"
             \/ client[j] = "held" /\ next = "settling"
          /\ aborted' = aborted \ {j}
          /\ client' = [client EXCEPT ![j] = next] /\ seen' = [seen EXCEPT ![j] = {}]
          /\ UNCHANGED <<place, lease, alive, runner, group, stopping, faults>>
  BY DEF GivesUp, Cancelled, journal
<1>2. TypeOK'
  BY <1>1 DEF HInv, TypeOK, ClientStates
<1>3. ASSUME NEW k \in Jobs PROVE JobOK(k)'
  BY <1>1 DEF HInv, TypeOK, JobsOK, JobOK, HasGrant, BeforeRunner
<1>4. SeenOK'
  BY <1>1, SeenStays DEF HInv, TypeOK
<1>5. QED
  BY <1>1, <1>2, <1>3, <1>4, LeasesStay DEF HInv, JobsOK

\* Work, the start of a runner, its go-ahead and its end, and a cancellation.
LEMMA MovesKeep ==
  ASSUME HInv, NEW j \in Jobs,
         Work(j) \/ SpawnRunner(j) \/ Go(j) \/ RunnerIsGone(j) \/ Abort(j)
  PROVE  HInv'
<1>1. /\ UNCHANGED <<place, lease, seen, alive, group, stopping, faults>>
      /\ aborted' \subseteq Jobs
      /\ \/ /\ client[j] = "held" /\ client' = [client EXCEPT ![j] = "working"]
            /\ runner' = runner
         \/ /\ client[j] = "held" /\ client' = [client EXCEPT ![j] = "spawned"]
            /\ runner' = [runner EXCEPT ![j] = "spawned"]
         \/ /\ client[j] = "spawned" /\ client' = [client EXCEPT ![j] = "running"]
            /\ runner[j] = "registered"
            /\ runner' = runner \/ runner' = [runner EXCEPT ![j] = "told"]
         \/ /\ runner[j] = "dead" /\ runner' = runner
            /\ client[j] \in {"spawned", "running"}
            /\ client' = [client EXCEPT ![j] = "settling"]
         \/ client' = client /\ runner' = runner
  BY DEF Work, SpawnRunner, Go, RunnerIsGone, Abort, Moves, journal, HInv, TypeOK
<1>2. JobOK(j)
  BY DEF HInv, JobsOK
<1>3. client[j] = "held" => runner[j] = "none"
  BY <1>2 DEF JobOK, BeforeRunner
<1>4. TypeOK'
  BY <1>1 DEF HInv, TypeOK, ClientStates, RunnerStates
<1>5. ASSUME NEW k \in Jobs PROVE JobOK(k)'
  BY <1>1, <1>2 DEF HInv, TypeOK, JobsOK, JobOK, HasGrant, BeforeRunner
<1>6. SeenOK'
  BY <1>1, <1>3, SeenStays DEF HInv, TypeOK
<1>7. QED
  BY <1>1, <1>4, <1>5, <1>6, LeasesStay DEF HInv, JobsOK

\* A request that ends beside its registered runner changes no entry.
LEMMA MissesRunnerKeeps ==
  ASSUME HInv, NEW j \in Jobs, MissesRunner(j)
  PROVE  HInv'
<1>1. /\ client[j] = "spawned" /\ runner[j] = "registered"
      /\ client' = [client EXCEPT ![j] = "settling"]
      /\ aborted' \subseteq Jobs /\ faults' \in 0..MaxFaults
      /\ UNCHANGED <<place, lease, seen, alive, runner, group, stopping>>
  BY BoundsAssumption DEF MissesRunner, Fault, journal, HInv, TypeOK
<1>2. TypeOK'
  BY <1>1 DEF HInv, TypeOK, ClientStates
<1>3. ASSUME NEW k \in Jobs PROVE JobOK(k)'
  BY <1>1 DEF HInv, TypeOK, JobsOK, JobOK, HasGrant, BeforeRunner
<1>4. SeenOK'
  BY <1>1, SeenStays DEF HInv, TypeOK
<1>5. QED
  BY <1>1, <1>2, <1>3, <1>4, LeasesStay DEF HInv, JobsOK

-----------------------------------------------------------------------------
(* Steps of runners, groups and processes.                                 *)

LEMMA RegisterKeeps ==
  ASSUME HInv, NEW j \in Jobs, Register(j)
  PROVE  HInv'
<1>1. /\ runner[j] = "spawned"
      /\ UNCHANGED <<place, client, seen, aborted, alive, stopping, group, faults>>
      /\ \/ /\ lease[j] = "starting" /\ lease' = [lease EXCEPT ![j] = "running"]
            /\ runner' = [runner EXCEPT ![j] = "registered"]
         \/ lease' = lease /\ runner' = [runner EXCEPT ![j] = "dead"]
  BY DEF Register, RunnerBecomes
<1>2. TypeOK'
  BY <1>1 DEF HInv, TypeOK, RunnerStates
<1>3. ASSUME NEW k \in Jobs PROVE JobOK(k)'
  BY <1>1 DEF HInv, TypeOK, JobsOK, JobOK, HasGrant, BeforeRunner
<1>4. SeenOK'
  BY <1>1, SeenStays DEF HInv, TypeOK
<1>5. \A k \in Jobs : lease[k] = "none" => lease'[k] = "none"
  BY <1>1 DEF HInv, TypeOK
<1>6. QED
  BY <1>2, <1>3, <1>4, <1>5, LeasesStay DEF HInv, JobsOK

LEMMA LaunchKeeps ==
  ASSUME HInv, NEW j \in Jobs, Launch(j)
  PROVE  HInv'
<1>1. /\ runner[j] = "told" /\ runner' = [runner EXCEPT ![j] = "ran"]
      /\ group' = [group EXCEPT ![j] = "command"]
      /\ UNCHANGED <<place, lease, client, seen, aborted, alive, stopping, faults>>
  BY DEF Launch, RunnerBecomes
<1>2. TypeOK'
  BY <1>1 DEF HInv, TypeOK, RunnerStates
<1>3. ASSUME NEW k \in Jobs PROVE JobOK(k)'
  BY <1>1 DEF HInv, TypeOK, JobsOK, JobOK, HasGrant, BeforeRunner
<1>4. SeenOK'
  BY <1>1, SeenStays DEF HInv, TypeOK
<1>5. QED
  BY <1>1, <1>2, <1>3, <1>4, LeasesStay DEF HInv, JobsOK

LEMMA RunnerReleasesKeeps ==
  ASSUME HInv, NEW j \in Jobs, RunnerReleases(j)
  PROVE  HInv'
<1>1. /\ runner[j] \in {"registered", "told"} \/ (runner[j] = "ran" /\ group[j] = "empty")
      /\ lease' = [lease EXCEPT ![j] = "none"] /\ runner' = [runner EXCEPT ![j] = "dead"]
      /\ UNCHANGED <<place, client, seen, aborted, alive, stopping, group, faults>>
  BY DEF RunnerReleases, InputEnded, RunnerBecomes
<1>2. TypeOK'
  BY <1>1 DEF HInv, TypeOK, RunnerStates
<1>3. ASSUME NEW k \in Jobs PROVE JobOK(k)'
  BY <1>1 DEF HInv, TypeOK, JobsOK, JobOK, HasGrant, BeforeRunner
<1>4. SeenOK'
  BY <1>1, SeenStays DEF HInv, TypeOK
<1>5. \A k \in Jobs : lease[k] = "none" => lease'[k] = "none"
  BY <1>1 DEF HInv, TypeOK
<1>6. QED
  BY <1>2, <1>3, <1>4, <1>5, LeasesStay DEF HInv, JobsOK

\* A group that is empty stays empty unless its runner launches a command.
LEMMA GroupKeeps ==
  ASSUME HInv, NEW j \in Jobs, CommandEnds(j) \/ StopLeftovers(j)
  PROVE  HInv'
<1>1. /\ group[j] # "empty"
      /\ \E state \in {"leftovers", "empty"} : group' = [group EXCEPT ![j] = state]
      /\ UNCHANGED <<place, lease, client, seen, aborted, alive, runner, stopping, faults>>
  BY DEF CommandEnds, StopLeftovers, GroupBecomes, journal
<1>2. TypeOK'
  BY <1>1 DEF HInv, TypeOK
<1>3. ASSUME NEW k \in Jobs PROVE JobOK(k)'
  BY <1>1 DEF HInv, TypeOK, JobsOK, JobOK, HasGrant, BeforeRunner
<1>4. SeenOK'
  BY <1>1, SeenStays DEF HInv, TypeOK
<1>5. QED
  BY <1>1, <1>2, <1>3, <1>4, LeasesStay DEF HInv, JobsOK

LEMMA RunnerEndsKeeps ==
  ASSUME HInv, NEW j \in Jobs, KillGroup(j) \/ RunnerDies(j)
  PROVE  HInv'
<1>1. /\ runner[j] \notin {"none", "dead"} /\ runner' = [runner EXCEPT ![j] = "dead"]
      /\ group' = group \/ group' = [group EXCEPT ![j] = "empty"]
      /\ faults' \in 0..MaxFaults
      /\ UNCHANGED <<place, lease, client, seen, aborted, alive, stopping>>
  BY BoundsAssumption DEF KillGroup, RunnerDies, RunnerBecomes, Fault, HInv, TypeOK
<1>2. TypeOK'
  BY <1>1 DEF HInv, TypeOK, RunnerStates
<1>3. ASSUME NEW k \in Jobs PROVE JobOK(k)'
  BY <1>1 DEF HInv, TypeOK, JobsOK, JobOK, HasGrant, BeforeRunner
<1>4. SeenOK'
  BY <1>1, SeenStays DEF HInv, TypeOK
<1>5. QED
  BY <1>1, <1>2, <1>3, <1>4, LeasesStay DEF HInv, JobsOK

LEMMA ProcessEndsKeeps ==
  ASSUME HInv, NEW o \in Owners, ProcessEnds(o), faults' \in 0..MaxFaults
  PROVE  HInv'
<1>1. /\ alive' = alive \ {o}
      /\ client' = [k \in Jobs |-> IF Owner(k) = o THEN "over" ELSE client[k]]
      /\ seen' = [k \in Jobs |-> IF Owner(k) = o THEN {} ELSE seen[k]]
      /\ aborted' \subseteq aborted
      /\ UNCHANGED <<place, lease, runner, group, stopping>>
  BY DEF ProcessEnds, journal
<1>2. TypeOK'
  BY <1>1 DEF HInv, TypeOK, ClientStates
<1>3. ASSUME NEW k \in Jobs PROVE JobOK(k)'
  <2>1. JobOK(k) /\ client'[k] = IF Owner(k) = o THEN "over" ELSE client[k]
    BY <1>1 DEF HInv, JobsOK
  <2>2. QED
    BY <1>1, <2>1 DEF JobOK, HasGrant, BeforeRunner
<1>4. SeenOK'
  BY <1>1, SeenStays DEF HInv, TypeOK
<1>5. QED
  BY <1>1, <1>2, <1>3, <1>4, LeasesStay DEF HInv, JobsOK

-----------------------------------------------------------------------------
(* The invariant, and what follows from it.                                *)

LEMMA StutterKeeps == HInv /\ UNCHANGED vars => HInv'
<1> SUFFICES ASSUME HInv, UNCHANGED vars PROVE HInv'
  OBVIOUS
<1>1. UNCHANGED <<place, lease, client, seen, aborted, alive, runner, group, stopping, faults>>
  BY DEF vars, journal
<1>2. QED
  BY <1>1 DEF HInv, TypeOK, JobsOK, JobOK, HasGrant, SeenOK, True, LeasesOK, LeasesIn

LEMMA StepKeeps == HInv /\ [Next]_vars => HInv'
<1> SUFFICES ASSUME HInv, [Next]_vars PROVE HInv'
  OBVIOUS
<1>1. CASE UNCHANGED vars
  BY <1>1, StutterKeeps
<1>2. ASSUME NEW j \in Jobs, Ask(j) PROVE HInv'
  BY <1>2, LookKeeps DEF Ask, ClientStates
<1>3. ASSUME NEW j \in Jobs, ClientSteps(j) PROVE HInv'
  <2>1. CASE LookFully(j) \/ LookBlind(j)
    BY <2>1, LookKeeps DEF LookFully, LookBlind, Looks, ClientStates
  <2>2. CASE Enqueue(j)      BY <2>2, EnqueueKeeps
  <2>3. CASE QueueFull(j)    BY <2>3, QueueFullKeeps
  <2>4. CASE Pass(j)         BY <2>4, PassKeeps
  <2>5. CASE Withdraw(j)     BY <2>5, WithdrawKeeps
  <2>6. CASE GivesUp(j)      BY <2>6, GivesUpKeeps
  <2>7. CASE EndHold(j)      BY <2>7, EndHoldKeeps
  <2>8. CASE Work(j) \/ SpawnRunner(j) \/ Go(j) \/ RunnerIsGone(j)
    BY <2>8, MovesKeep
  <2>9. CASE Close(j)        BY <2>9, CloseKeeps
  <2>10. QED
    BY <1>3, <2>1, <2>2, <2>3, <2>4, <2>5, <2>6, <2>7, <2>8, <2>9 DEF ClientSteps
<1>4. ASSUME NEW j \in Jobs, Ends(j) PROVE HInv'
  <2>1. CASE Register(j)         BY <2>1, RegisterKeeps
  <2>2. CASE Launch(j)           BY <2>2, LaunchKeeps
  <2>3. CASE RunnerReleases(j)   BY <2>3, RunnerReleasesKeeps
  <2>4. CASE CommandEnds(j) \/ StopLeftovers(j)  BY <2>4, GroupKeeps
  <2>5. CASE Exit(j)
    <3>1. j \in Owners /\ ProcessEnds(j) /\ faults' \in 0..MaxFaults
      BY <2>5 DEF Exit, Owners, Owner, HInv, TypeOK
    <3>2. QED
      BY <3>1, ProcessEndsKeeps
  <2>6. QED
    BY <1>4, <2>1, <2>2, <2>3, <2>4, <2>5 DEF Ends, RunnerSteps
<1>5. ASSUME NEW j \in Jobs, Abort(j) PROVE HInv'
  BY <1>5, MovesKeep
<1>6. ASSUME NEW j \in Jobs, KillGroup(j) \/ RunnerDies(j) PROVE HInv'
  BY <1>6, RunnerEndsKeeps
<1>7. ASSUME NEW o \in Owners, ProcessDies(o) PROVE HInv'
  <2>1. ProcessEnds(o) /\ faults' \in 0..MaxFaults
    BY <1>7, BoundsAssumption DEF ProcessDies, Fault, HInv, TypeOK
  <2>2. QED
    BY <2>1, ProcessEndsKeeps
<1>8. ASSUME NEW j \in Jobs, MissesRunner(j) PROVE HInv'
  BY <1>8, MissesRunnerKeeps
<1>9. QED
  BY <1>1, <1>2, <1>3, <1>4, <1>5, <1>6, <1>7, <1>8 DEF Next

\* The invariant of the journal, the requesters and the runners.
THEOREM PermitsInvariance == Spec => []HInv
<1>1. Init => HInv
  BY InitHolds
<1>2. HInv /\ [Next]_vars => HInv'
  BY StepKeeps
<1>3. QED
  BY <1>1, <1>2, PTL DEF Spec

\* The journal, the requesters, the runners and what was seen keep their types.
THEOREM PermitTypes == Spec => []TypeOK
<1>1. HInv => TypeOK
  BY DEF HInv
<1>2. QED
  BY <1>1, PermitsInvariance, PTL

\* What the permits promise, from the invariant alone.
LEMMA PermitsPromise ==
  HInv => WorkKeepsItsPermit /\ WorkWithinSlots /\ LiveRequestsStay /\ OnePlace
<1> SUFFICES ASSUME HInv
             PROVE  WorkKeepsItsPermit /\ WorkWithinSlots /\ LiveRequestsStay /\ OnePlace
  OBVIOUS
<1>1. WorkKeepsItsPermit
  BY DEF HInv, JobsOK, JobOK, WorkKeepsItsPermit, AtWork, HasGrant
<1>2. WorkWithinSlots
  <2> DEFINE work == {j \in Jobs : AtWork(j)}
             leased == {j \in Jobs : lease[j] # "none"}
  <2>1. work \subseteq leased
    BY <1>1 DEF WorkKeepsItsPermit
  <2>2. IsFiniteSet(leased)
    BY JobsAssumption, FS_Subset
  <2>3. Cardinality(work) <= Cardinality(leased) /\ Cardinality(work) \in Nat
        /\ Cardinality(leased) \in Nat
    BY <2>1, <2>2, FS_Subset, FS_CardinalityType
  <2>4. QED
    BY <2>3, BoundsAssumption DEF HInv, LeasesOK, LeasesIn, WorkWithinSlots
<1>3. LiveRequestsStay
  BY DEF HInv, JobsOK, JobOK, LiveRequestsStay
<1>4. OnePlace
  BY DEF HInv, JobsOK, JobOK, OnePlace
<1>5. QED
  BY <1>1, <1>2, <1>3, <1>4

\* Neither an exit of the requester or of the runner, nor what another process
\* saw before, frees the permit of work that goes on.
THEOREM PermitLastsAsWork == Spec => []WorkKeepsItsPermit
  BY PermitsPromise, PermitsInvariance, PTL

\* Never more work at once than the lane has slots, since each piece of work
\* has a lease and a grant counts the leases under the lock.
THEOREM LaneIsNeverOverfull == Spec => []WorkWithinSlots
  BY PermitsPromise, PermitsInvariance, PTL

\* Whatever others reconcile, a live waiter keeps its ticket and a live
\* requester the lease it was told of, until a runner takes it.
THEOREM LiveRequestsAreKept == Spec => []LiveRequestsStay
  BY PermitsPromise, PermitsInvariance, PTL

\* Nobody holds a lease and waits for it.
THEOREM InOnePlace == Spec => []OnePlace
  BY PermitsPromise, PermitsInvariance, PTL

-----------------------------------------------------------------------------
(* The permits implement PermitLane.  Most steps only end something of the *)
(* lane; a request joins it, is served or begins its work in four.         *)

\* The instance has a Cardinality of its own, with the same definition.
LEMMA SameCount == \A S : Lane!Cardinality(S) = Cardinality(S)
  BY Zenon DEF Lane!Cardinality, Cardinality

LEMMA WorkStaysPermitted == HInv' => Working' \subseteq Permitted'
<1>1. HInv => WorkKeepsItsPermit
  BY PermitsPromise
<1>2. HInv' => WorkKeepsItsPermit'
  BY <1>1, PTL
<1>. QED BY <1>2 DEF WorkKeepsItsPermit, Working, Permitted

LEMMA LaneEnds ==
  ASSUME HInv',
         \A k \in Jobs :
            /\ client'[k] \in {"waiting", "ready"} =>
                  client[k] \in {"waiting", "ready"} /\ place'[k] = place[k]
            /\ lease'[k] # "none" => lease[k] # "none"
            /\ AtWork(k)' => AtWork(k)
  PROVE  Lane!Next
<1> DEFINE gone == Waiting \ Waiting'
           stopped == Working \ Working'
           freed == Permitted \ Permitted'
<1>1. /\ Waiting' \subseteq Waiting /\ Permitted' \subseteq Permitted
      /\ Working' \subseteq Working /\ \A k \in Waiting' : place'[k] = place[k]
  BY DEF Waiting, Permitted, Working
<1>2. gone \in SUBSET Jobs /\ stopped \in SUBSET Jobs /\ freed \in SUBSET Jobs
  BY DEF Waiting, Permitted, Working
<1>3. Lane!TakesBack(freed)
  BY WorkStaysPermitted DEF Lane!TakesBack
<1>4. Waiting' = Waiting \ gone /\ Ahead' = {p \in Ahead : p[1] \in Waiting' /\ p[2] \in Waiting'}
  <2>1. Waiting' = Waiting \ gone
    BY <1>1
  <2>2. ASSUME NEW p \in Waiting' \X Waiting'
        PROVE  p \in Waiting \X Waiting /\ p[1] \in Waiting' /\ p[2] \in Waiting'
               /\ place'[p[1]] = place[p[1]] /\ place'[p[2]] = place[p[2]]
    BY <1>1
  <2>3. ASSUME NEW p \in Waiting \X Waiting, p[1] \in Waiting', p[2] \in Waiting'
        PROVE  p \in Waiting' \X Waiting'
    BY <2>3
  <2>. QED BY <2>1, <2>2, <2>3 DEF Ahead
<1>5. Working' = Working \ stopped /\ Permitted' = Permitted \ freed
  BY <1>1
<1>6. Lane!Ends(gone, stopped, freed)
  BY <1>4, <1>5 DEF Lane!Ends, Lane!Remain
<1>. QED BY <1>2, <1>3, <1>6 DEF Lane!Next

\* Who waits and lives keeps its place, whatever a reconciliation goes by.
LEMMA WaitersKeepPlaces ==
  ASSUME HInv, NEW facts \in SUBSET Facts, True(facts)
  PROVE  /\ \A k \in Waiting : QueueAfter(facts)[k] = place[k]
         /\ \A k \in Jobs : LeasesAfter(facts)[k] # "none" => lease[k] # "none"
<1>1. \A k \in Waiting : Owner(k) \in alive
  BY DEF Waiting, HInv, JobsOK, JobOK
<1>. QED BY <1>1, Reconciling DEF HInv, Waiting

LEMMA RequesterInLane ==
  ASSUME HInv, HInv', NEW j \in Jobs,
         \/ LookFully(j) \/ LookBlind(j) \/ Ask(j) \/ QueueFull(j) \/ GivesUp(j)
         \/ SpawnRunner(j) \/ Go(j) \/ RunnerIsGone(j) \/ MissesRunner(j) \/ Abort(j)
  PROVE  Lane!Next
<1>1. /\ UNCHANGED <<place, lease, group>>
      /\ \A k \in Jobs : /\ client'[k] \in {"waiting", "ready"} => client[k] \in {"waiting", "ready"}
                         /\ client'[k] = "working" => client[k] = "working"
  BY DEF LookFully, LookBlind, Looks, Ask, LookWith, QueueFull, GivesUp, Cancelled, SpawnRunner,
     Go, RunnerIsGone, Moves, MissesRunner, Abort, journal, HInv, TypeOK
<1>. QED BY <1>1, LaneEnds DEF AtWork

LEMMA ProcessesInLane ==
  ASSUME HInv, HInv', NEW j \in Jobs,
         \/ Register(j) \/ RunnerReleases(j) \/ CommandEnds(j) \/ StopLeftovers(j)
         \/ KillGroup(j) \/ RunnerDies(j)
  PROVE  Lane!Next
<1>1. /\ UNCHANGED <<place, client>>
      /\ \A k \in Jobs : /\ lease'[k] # "none" => lease[k] # "none"
                         /\ group'[k] # "empty" => group[k] # "empty"
  BY DEF Register, RunnerReleases, CommandEnds, StopLeftovers, GroupBecomes, KillGroup, RunnerDies,
     RunnerBecomes, journal, HInv, TypeOK
<1>. QED BY <1>1, LaneEnds DEF AtWork

LEMMA ProcessEndsInLane ==
  ASSUME HInv, HInv', NEW o, ProcessEnds(o)
  PROVE  Lane!Next
<1>1. /\ UNCHANGED <<place, lease, group>>
      /\ \A k \in Jobs : client'[k] \in {client[k], "over"}
  BY DEF ProcessEnds, journal
<1>. QED BY <1>1, LaneEnds DEF AtWork

LEMMA StutterInLane == HInv' /\ UNCHANGED vars => Lane!Next
<1> SUFFICES ASSUME HInv', UNCHANGED vars PROVE Lane!Next
  OBVIOUS
<1>1. UNCHANGED <<place, lease, client, group>>
  BY DEF vars, journal
<1>. QED BY <1>1, LaneEnds DEF AtWork

\* A transaction that gives no ticket and no lease only ends something.
LEMMA TransactEnds ==
  ASSUME HInv, HInv', NEW j \in Jobs, NEW places, NEW leases, NEW next,
         Transact(j, places, leases, next),
         next \in {"waiting", "over"}, next = "waiting" => client[j] = "ready",
         client[j] \in {"asking", "ready", "withdrawing", "working", "closing"},
         \A k \in Waiting : k # j \/ next = "waiting" => places[k] = place[k],
         \A k \in Jobs : leases[k] # "none" => lease[k] # "none"
  PROVE  Lane!Next
<1>1. AfterError[client[j]] \in {"over", "withdrawing"}
  BY ErrorStates
<1>2. /\ \/ place' = places /\ lease' = leases
         \/ place' = place /\ lease' = lease
      /\ client'[j] \in {next, "over", "withdrawing"}
      /\ \A k \in Jobs \ {j} : client'[k] = client[k]
      /\ group' = group
  BY <1>1, TransactEffect DEF HInv
<1>3. \A k \in Jobs : client[k] \in {"waiting", "ready"} => k \in Waiting
  BY DEF Waiting
<1>4. ASSUME NEW k \in Jobs
      PROVE  /\ client'[k] \in {"waiting", "ready"} =>
                  client[k] \in {"waiting", "ready"} /\ place'[k] = place[k]
             /\ lease'[k] # "none" => lease[k] # "none"
             /\ AtWork(k)' => AtWork(k)
  BY <1>2, <1>3 DEF AtWork
<1>. QED BY <1>4, LaneEnds

LEMMA EnqueueInLane ==
  ASSUME HInv, HInv', NEW j \in Jobs, Enqueue(j)
  PROVE  Lane!Next
<1> DEFINE places == QueueAfter(seen[j])
           leases == LeasesAfter(seen[j])
<1>1. client[j] = "asking" /\ seen[j] \in SUBSET Facts /\ True(seen[j])
  BY DEF Enqueue, HInv, TypeOK, SeenOK
<1>2. PICK n \in 1..Cardinality(Jobs) :
          IsNextPlace(n, places) /\ Transact(j, [places EXCEPT ![j] = n], leases, "waiting")
  BY DEF Enqueue
<1>3. /\ \A k \in Waiting : places[k] = place[k]
      /\ \A k \in Jobs : leases[k] # "none" => lease[k] # "none"
      /\ places \in [Jobs -> Nat]
      /\ \A k \in Jobs : places[k] < n
  BY <1>1, <1>2, WaitersKeepPlaces, Reconciling DEF IsNextPlace, HInv
<1> HIDE DEF places, leases
<1>4. /\ \/ place' = [places EXCEPT ![j] = n] /\ lease' = leases
         \/ place' = place /\ lease' = lease /\ client'[j] = "over"
      /\ client'[j] \in {"waiting", "over"}
      /\ \A k \in Jobs \ {j} : client'[k] = client[k]
      /\ group' = group
  BY <1>1, <1>2, ErrorStates, TransactEffect DEF HInv
<1>5. j \notin Waiting /\ lease[j] = "none" /\ client[j] # "working"
  BY <1>1 DEF Waiting, HInv, JobsOK, JobOK
<1>6. CASE client'[j] = "over"
  <2>1. ASSUME NEW k \in Jobs
        PROVE  /\ client'[k] \in {"waiting", "ready"} =>
                    client[k] \in {"waiting", "ready"} /\ place'[k] = place[k]
               /\ lease'[k] # "none" => lease[k] # "none"
               /\ AtWork(k)' => AtWork(k)
    <3>1. client[k] \in {"waiting", "ready"} => k \in Waiting /\ k # j
      BY <1>5 DEF Waiting
    <3>. QED BY <1>3, <1>4, <1>6, <3>1 DEF AtWork
  <2>. QED BY <2>1, LaneEnds
<1>7. CASE client'[j] = "waiting"
  <2> DEFINE freed == Permitted \ Permitted'
  <2>1. place' = [places EXCEPT ![j] = n] /\ lease' = leases
    BY <1>4, <1>7
  <2>2. Waiting' = Waiting \cup {j}
    BY <1>4, <1>7 DEF Waiting
  <2>3. Working' = Working
    BY <1>4, <1>5, <1>7 DEF Working, AtWork
  <2>4. freed \in SUBSET Jobs /\ Permitted' = Permitted \ freed /\ j \notin Permitted
    BY <1>3, <1>5, <2>1 DEF Permitted
  <2>5. Lane!TakesBack(freed)
    BY WorkStaysPermitted DEF Lane!TakesBack
  <2>6. Ahead' = Ahead \cup (Waiting \X {j})
    <3>1. \A k \in Waiting : place'[k] = place[k] /\ place[k] < n /\ k \in Jobs /\ place[k] \in Nat
      BY <1>3, <1>5, <2>1 DEF Waiting
    <3>2. place'[j] = n /\ n \in Nat
      BY <1>3, <2>1
    <3>3. ASSUME NEW a \in Waiting \cup {j}, NEW b \in Waiting \cup {j}
          PROVE  place'[a] < place'[b] <=> \/ a \in Waiting /\ b \in Waiting /\ place[a] < place[b]
                                           \/ a \in Waiting /\ b = j
      BY <1>5, <3>1, <3>2
    <3>4. Ahead' = {p \in (Waiting \cup {j}) \X (Waiting \cup {j}) : place'[p[1]] < place'[p[2]]}
      BY <2>2 DEF Ahead
    <3>. QED BY <3>3, <3>4 DEF Ahead
  <2>7. Lane!Joins(j, freed)
    BY <1>5, <2>2, <2>3, <2>4, <2>6 DEF Lane!Joins
  <2>. QED BY <2>4, <2>5, <2>7 DEF Lane!Next
<1>. QED BY <1>4, <1>6, <1>7

LEMMA PassInLane ==
  ASSUME HInv, HInv', NEW j \in Jobs, Pass(j)
  PROVE  Lane!Next
<1> DEFINE places == QueueAfter(seen[j])
           leases == LeasesAfter(seen[j])
           granted == [leases EXCEPT ![j] = "starting"]
<1>1. client[j] = "ready" /\ seen[j] \in SUBSET Facts /\ True(seen[j])
  BY DEF Pass, HInv, TypeOK, SeenOK
<1>2. /\ \A k \in Waiting : places[k] = place[k]
      /\ \A k \in Jobs : leases[k] # "none" => lease[k] # "none"
      /\ places \in [Jobs -> Nat]
      /\ leases \in [Jobs -> {"none", "starting", "running"}]
  BY <1>1, WaitersKeepPlaces, Reconciling DEF HInv
<1>3. j \in Waiting /\ lease[j] = "none" /\ place[j] > 0
  BY <1>1 DEF Waiting, HInv, JobsOK, JobOK
<1> HIDE DEF places, leases
<1>4. CASE ~Admits(j, places, leases) /\ Transact(j, places, leases, "waiting")
  BY <1>1, <1>2, <1>4, TransactEnds
<1>5. CASE Admits(j, places, leases) /\ Transact(j, WithoutTicket(j, places), granted, "held")
  <2> HIDE DEF granted
  <2>1. /\ \/ place' = WithoutTicket(j, places) /\ lease' = granted
           \/ place' = place /\ lease' = lease /\ client'[j] = "withdrawing"
        /\ client'[j] \in {"held", "withdrawing"}
        /\ \A k \in Jobs \ {j} : client'[k] = client[k]
        /\ group' = group
    BY <1>1, <1>5, ErrorStates, TransactEffect DEF HInv
  <2>2. Waiting' = Waiting \ {j} /\ Working' = Working
    BY <1>1, <2>1 DEF Waiting, Working, AtWork
  <2>3. CASE lease' = lease /\ place' = place
    <3>1. \A k \in Jobs : /\ client'[k] \in {"waiting", "ready"} => client[k] \in {"waiting", "ready"}
                          /\ AtWork(k)' => AtWork(k)
      BY <2>1 DEF AtWork
    <3>. QED BY <2>3, <3>1, LaneEnds
  <2>4. CASE place' = WithoutTicket(j, places) /\ lease' = granted
    <3> DEFINE left == {k \in Jobs : leases[k] # "none"}
               freed == Permitted \ left
    <3>1. left \subseteq Permitted \ {j} \/ leases[j] # "none"
      BY <1>2 DEF Permitted
    <3>2. left \subseteq Permitted /\ Permitted \ freed = left /\ freed \in SUBSET Jobs
      BY <1>2 DEF Permitted
    <3>3. Permitted' = left \cup {j}
      BY <1>2, <2>4 DEF Permitted, granted
    <3>4. j \notin Permitted
      BY <1>3 DEF Permitted
    <3>5. Lane!TakesBack(freed)
      BY <3>3, <3>4, WorkStaysPermitted DEF Lane!TakesBack
    <3>6. \A i \in Waiting : <<i, j>> \notin Ahead
      <4> SUFFICES ASSUME NEW i \in Waiting PROVE ~(place[i] < place[j])
        BY DEF Ahead
      <4>1. i \in Jobs /\ place[i] > 0 /\ place[i] \in Nat /\ place[j] \in Nat
        BY DEF Waiting, HInv, TypeOK, JobsOK, JobOK
      <4>2. places[i] = place[i] /\ places[j] = place[j]
        BY <1>2, <1>3
      <4>3. places[j] <= places[i]
        BY <1>5, <4>1, <4>2 DEF Admits
      <4>. QED BY <4>1, <4>2, <4>3
    <3>7. Cardinality(Permitted \ freed) < Slots
      BY <1>5, <3>2 DEF Admits, LeasesIn
    <3>8. Ahead' = {p \in Ahead : p[1] \in Waiting \ {j} /\ p[2] \in Waiting \ {j}}
      <4>1. \A k \in Waiting \ {j} : place'[k] = place[k] /\ k \in Jobs
        BY <1>2, <2>4 DEF WithoutTicket, Waiting
      <4>2. Ahead' = {p \in (Waiting \ {j}) \X (Waiting \ {j}) : place'[p[1]] < place'[p[2]]}
        BY <2>2 DEF Ahead
      <4>. QED BY <4>1, <4>2 DEF Ahead
    <3> HIDE DEF left, freed
    <3>9. Lane!IsServed(j, freed)
      <4>1. Lane!Remain(Waiting \ {j})
        BY <2>2, <3>8 DEF Lane!Remain
      <4>2. Permitted' = (Permitted \ freed) \cup {j} /\ j \in Waiting \ Permitted
        BY <1>3, <3>2, <3>3, <3>4
      <4>. QED BY <2>2, <3>6, <3>7, <4>1, <4>2, SameCount DEF Lane!IsServed
    <3>. QED BY <3>2, <3>5, <3>9 DEF Lane!Next
  <2>. QED BY <2>1, <2>3, <2>4
<1>. QED BY <1>4, <1>5 DEF Pass, places, leases, granted

LEMMA OtherTransactionsInLane ==
  ASSUME HInv, HInv', NEW j \in Jobs, Withdraw(j) \/ EndHold(j) \/ Close(j)
  PROVE  Lane!Next
<1>1. CASE Withdraw(j)
  <2> DEFINE kept == [lease EXCEPT ![j] = IF @ = "starting" THEN "none" ELSE @]
  <2>1. client[j] = "withdrawing" /\ Transact(j, WithoutTicket(j, place), kept, "over")
    BY <1>1 DEF Withdraw
  <2>2. /\ \A k \in Waiting : k # j => WithoutTicket(j, place)[k] = place[k]
        /\ \A k \in Jobs : kept[k] # "none" => lease[k] # "none"
    BY DEF Waiting, WithoutTicket, HInv, TypeOK
  <2> HIDE DEF kept
  <2>. QED BY <2>1, <2>2, TransactEnds
<1>2. CASE EndHold(j)
  <2>1. client[j] = "working" /\ Transact(j, place, [lease EXCEPT ![j] = "none"], "over")
    BY <1>2 DEF EndHold
  <2>2. \A k \in Jobs : [lease EXCEPT ![j] = "none"][k] # "none" => lease[k] # "none"
    BY DEF HInv, TypeOK
  <2>. QED BY <2>1, <2>2, TransactEnds
<1>3. CASE Close(j)
  <2>1. client[j] = "closing" /\ seen[j] \in SUBSET Facts /\ True(seen[j])
        /\ Transact(j, QueueAfter(seen[j]), LeasesAfter(seen[j]), "over")
    BY <1>3 DEF Close, HInv, TypeOK, SeenOK
  <2>. QED BY <2>1, WaitersKeepPlaces, TransactEnds
<1>. QED BY <1>1, <1>2, <1>3

\* Work and Launch are where work begins.
LEMMA BeginsInLane ==
  ASSUME HInv, NEW j \in Jobs, Work(j) \/ Launch(j)
  PROVE  Lane!Next
<1>1. CASE Work(j)
  <2>1. /\ client[j] = "held" /\ client' = [client EXCEPT ![j] = "working"]
        /\ UNCHANGED <<place, lease, group>> /\ lease[j] = "starting"
    BY <1>1 DEF Work, Moves, journal, HInv, JobsOK, JobOK, HasGrant
  <2>2. /\ j \in Permitted /\ Waiting' = Waiting /\ Permitted' = Permitted
        /\ Working' = Working \cup {j}
    BY <2>1 DEF Permitted, Waiting, Working, AtWork, HInv, TypeOK
  <2>3. Ahead' = Ahead
    BY <2>1, <2>2 DEF Ahead
  <2>. QED BY <2>2, <2>3 DEF Lane!Next, Lane!Begins
<1>2. CASE Launch(j)
  <2>1. /\ group' = [group EXCEPT ![j] = "command"]
        /\ UNCHANGED <<place, lease, client>> /\ lease[j] = "running"
    BY <1>2 DEF Launch, RunnerBecomes, HInv, JobsOK, JobOK
  <2>2. /\ j \in Permitted /\ Waiting' = Waiting /\ Permitted' = Permitted
        /\ Working' = Working \cup {j}
    BY <2>1 DEF Permitted, Waiting, Working, AtWork, HInv, TypeOK
  <2>3. Ahead' = Ahead
    BY <2>1, <2>2 DEF Ahead
  <2>. QED BY <2>2, <2>3 DEF Lane!Next, Lane!Begins
<1>. QED BY <1>1, <1>2

LEMMA StepInLane == HInv /\ HInv' /\ [Next]_vars => Lane!Next
<1> SUFFICES ASSUME HInv, HInv', [Next]_vars PROVE Lane!Next
  OBVIOUS
<1>1. CASE UNCHANGED vars
  BY <1>1, StutterInLane
<1>2. ASSUME NEW j \in Jobs, Ask(j) \/ MissesRunner(j) \/ Abort(j) PROVE Lane!Next
  BY <1>2, RequesterInLane
<1>3. ASSUME NEW j \in Jobs, ClientSteps(j) PROVE Lane!Next
  BY <1>3, RequesterInLane, EnqueueInLane, PassInLane, OtherTransactionsInLane, BeginsInLane
     DEF ClientSteps
<1>4. ASSUME NEW j \in Jobs, Ends(j) PROVE Lane!Next
  BY <1>4, ProcessesInLane, BeginsInLane, ProcessEndsInLane DEF Ends, RunnerSteps, Exit
<1>5. ASSUME NEW j \in Jobs, KillGroup(j) \/ RunnerDies(j) PROVE Lane!Next
  BY <1>5, ProcessesInLane
<1>6. ASSUME NEW o \in Owners, ProcessDies(o) PROVE Lane!Next
  BY <1>6, ProcessEndsInLane DEF ProcessDies
<1>. QED BY <1>1, <1>2, <1>3, <1>4, <1>5, <1>6 DEF Next

LEMMA InitInLane == Init => Lane!Init
  BY DEF Init, Lane!Init, Waiting, Ahead, Permitted, Working, AtWork

\* Whatever is observed late, left without an answer or dies, a permit goes to
\* the first of those that wait and live, never beyond the slots, and is taken
\* back only when its work is over.
THEOREM PermitsImplementLane == Spec => ImplementsLane
<1>1. Init => Lane!Init
  BY InitInLane
<1>2. HInv /\ HInv' /\ [Next]_vars => [Lane!Next]_Lane!vars
  BY StepInLane
<1>. QED BY <1>1, <1>2, PermitsInvariance, PTL DEF Spec, ImplementsLane, Lane!Spec

\* What PermitLane gives whoever implements it.
LaneKept == Working \subseteq Permitted /\ Cardinality(Permitted) <= Slots

LEMMA LaneStepKeeps == LaneKept /\ [Lane!Next]_Lane!vars => LaneKept'
<1> SUFFICES ASSUME LaneKept, [Lane!Next]_Lane!vars PROVE LaneKept'
  OBVIOUS
<1>1. CASE UNCHANGED Lane!vars
  BY <1>1 DEF Lane!vars, LaneKept
<1>2. ASSUME NEW S, S \subseteq Permitted
      PROVE  /\ IsFiniteSet(S) /\ Cardinality(S) \in Nat /\ Cardinality(S) <= Slots
             /\ \A j : IsFiniteSet(S \cup {j})
                       /\ Cardinality(S \cup {j}) \in {Cardinality(S), Cardinality(S) + 1}
  <2>1. IsFiniteSet(Permitted)
    BY JobsAssumption, FS_Subset DEF Permitted
  <2>2. IsFiniteSet(S) /\ Cardinality(S) <= Cardinality(Permitted)
    BY <1>2, <2>1, FS_Subset
  <2>3. Cardinality(S) \in Nat /\ Cardinality(Permitted) \in Nat
    BY <2>1, <2>2, FS_CardinalityType
  <2>4. \A j : IsFiniteSet(S \cup {j})
               /\ Cardinality(S \cup {j}) \in {Cardinality(S), Cardinality(S) + 1}
    BY <2>2, FS_AddElement
  <2>5. Cardinality(S) <= Slots
    BY <2>2, <2>3, BoundsAssumption DEF LaneKept
  <2>. QED BY <2>2, <2>3, <2>4, <2>5
<1>3. ASSUME NEW j \in Jobs, Lane!Begins(j) PROVE LaneKept'
  BY <1>3 DEF Lane!Begins, LaneKept
<1>4. ASSUME NEW freed \in SUBSET Jobs, Lane!TakesBack(freed),
             \/ \E j \in Jobs : Lane!Joins(j, freed)
             \/ \E gone, stopped \in SUBSET Jobs : Lane!Ends(gone, stopped, freed)
      PROVE  LaneKept'
  <2>1. Permitted' = Permitted \ freed /\ Working' \subseteq Working
    BY <1>4 DEF Lane!Joins, Lane!Ends
  <2>2. Cardinality(Permitted') <= Slots
    BY <1>2, <2>1
  <2>3. Working' \subseteq Permitted'
    BY <1>4, <2>1 DEF LaneKept, Lane!TakesBack
  <2>. QED BY <2>2, <2>3 DEF LaneKept
<1>5. ASSUME NEW freed \in SUBSET Jobs, Lane!TakesBack(freed),
             NEW j \in Jobs, Lane!IsServed(j, freed)
      PROVE  LaneKept'
  <2> DEFINE left == Permitted \ freed
  <2>1. /\ Permitted' = left \cup {j} /\ Working' = Working /\ Cardinality(left) < Slots
        /\ left \subseteq Permitted
    BY <1>5, SameCount DEF Lane!IsServed
  <2>2. Cardinality(left) \in Nat
        /\ Cardinality(left \cup {j}) \in {Cardinality(left), Cardinality(left) + 1}
    BY <1>2, <2>1
  <2>3. Working' \subseteq Permitted'
    BY <1>5, <2>1 DEF LaneKept, Lane!TakesBack
  <2> HIDE DEF left
  <2>4. Cardinality(Permitted') <= Slots
    BY <2>1, <2>2, BoundsAssumption
  <2>. QED BY <2>3, <2>4 DEF LaneKept
<1>. QED BY <1>1, <1>3, <1>4, <1>5 DEF Lane!Next

\* Whoever implements PermitLane never has more work than slots, nor work
\* without a permit.
THEOREM LanesKeepTheirSlots ==
  ImplementsLane => [](WorkKeepsItsPermit /\ WorkWithinSlots)
<1>1. Lane!Init => LaneKept
  BY FS_EmptySet, BoundsAssumption DEF Lane!Init, LaneKept
<1>2. LaneKept => WorkKeepsItsPermit /\ WorkWithinSlots
  <2> SUFFICES ASSUME LaneKept PROVE WorkKeepsItsPermit /\ WorkWithinSlots
    OBVIOUS
  <2>1. WorkKeepsItsPermit
    BY DEF LaneKept, Working, Permitted, WorkKeepsItsPermit
  <2>2. IsFiniteSet(Permitted)
    BY JobsAssumption, FS_Subset DEF Permitted
  <2>3. Working \subseteq Permitted /\ Cardinality(Permitted) <= Slots
    BY DEF LaneKept
  <2>4. Cardinality(Working) <= Cardinality(Permitted) /\ Cardinality(Working) \in Nat
        /\ Cardinality(Permitted) \in Nat
    BY <2>2, <2>3, FS_Subset, FS_CardinalityType
  <2>5. WorkWithinSlots
    BY <2>3, <2>4, BoundsAssumption DEF Working, WorkWithinSlots
  <2>. QED BY <2>1, <2>5
<1>. QED BY <1>1, <1>2, LaneStepKeeps, PTL DEF ImplementsLane, Lane!Spec

NobodyOvertakes ==
    \A i, j \in Jobs : <<i, j>> \in Ahead /\ j \in Permitted' => j \in Permitted

\* No step of whoever implements PermitLane serves a request while a live one
\* that came before it still waits (governor.ts, admits).
THEOREM ServedInOrder == ImplementsLane => [][NobodyOvertakes]_(Lane!vars)
<1>1. [Lane!Next]_(Lane!vars) => [NobodyOvertakes]_(Lane!vars)
  <2>1. ASSUME Lane!Next PROVE NobodyOvertakes
    <3>1. Ahead \subseteq Waiting \X Waiting
      BY DEF Ahead
    <3>2. ASSUME NEW freed \in SUBSET Jobs, NEW k \in Jobs, Lane!IsServed(k, freed),
                 NEW i \in Jobs, NEW j \in Jobs, <<i, j>> \in Ahead, j \in Permitted'
          PROVE  j \in Permitted
      <4>1. i \in Waiting /\ j \in Waiting
        BY <3>1, <3>2
      <4>2. j # k
        BY <3>2, <4>1 DEF Lane!IsServed
      <4>. QED BY <3>2, <4>2 DEF Lane!IsServed
    <3>3. CASE Permitted' \subseteq Permitted
      BY <3>3 DEF NobodyOvertakes
    <3>. QED BY <2>1, <3>2, <3>3
             DEF NobodyOvertakes, Lane!Next, Lane!Begins, Lane!Joins, Lane!Ends
  <2>. QED BY <2>1
<1>. QED BY <1>1, PTL DEF ImplementsLane, Lane!Spec

=============================================================================
