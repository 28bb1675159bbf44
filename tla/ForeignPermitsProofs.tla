------------------------- MODULE ForeignPermitsProofs -------------------------
(***************************************************************************)
(* Foreign heavy permits, for any callers, leases, slots and faults: the   *)
(* permits of the lane keep what they promise while callers drive them,    *)
(* only started callers are with the governor and never more than          *)
(* MaxLeases, no caller waits beside room for it, and one that believes it *)
(* holds a permit is among those whose end it will be told.                *)
(***************************************************************************)
EXTENDS ForeignPermits, HeavyPermitsProofs, SequenceTheorems

-----------------------------------------------------------------------------
(* The invariant.                                                          *)

ForeignTypeOK ==
    /\ listening \in BOOLEAN
    /\ connected \subseteq Jobs /\ started \subseteq Jobs
    /\ line \in Seq(Jobs)
    /\ told \in [Jobs -> {"nothing", "refused", "granted", "lost"}]
    /\ holder \in [Jobs -> {"silent", "printed", "heard"}]
    /\ known \in SUBSET Facts

\* Who waits is connected and has not begun, waits once, and only while the
\* switch is on; whoever is connected waits or was started.
LineOK ==
    /\ \A i \in 1..Len(line) :
          /\ line[i] \in connected \ started
          /\ client[line[i]] = "idle" /\ told[line[i]] = "nothing"
    /\ \A i, k \in 1..Len(line) : line[i] = line[k] => i = k
    /\ connected \subseteq started \cup {line[i] : i \in 1..Len(line)}
    /\ ~listening => line = <<>>

\* Only started callers are with the governor.
StartedOK ==
    /\ \A f \in Jobs : client[f] \notin {"idle", "over"} => f \in started
    /\ Cardinality(started) <= MaxLeases
    /\ started # {} => Service \in alive

\* What the refresh found is still true when it reconciles.
KnownOK == True(known)

ForeignInv ==
    /\ HInv /\ ForeignTypeOK /\ LineOK /\ StartedOK /\ KnownOK /\ NoIdleRoom

\* No more requests of callers are with the governor than the owner allows.
\* What they leave in the journal may outnumber them (ForeignCap).
LiveWithinCap == Cardinality({f \in Jobs : client[f] \notin {"idle", "over"}}) <= MaxLeases

\* Only a started caller believes that it holds a permit.
BelieversStarted == \A f \in Jobs : Believes(f) => f \in started

-----------------------------------------------------------------------------
(* The line.                                                               *)

LEMMA JobsFinite ==
  ASSUME NEW S \in SUBSET Jobs
  PROVE  IsFiniteSet(S) /\ Cardinality(S) \in Nat
  BY JobsAssumption, FS_Subset, FS_CardinalityType

LEMMA LeastOfTwo ==
  ASSUME NEW a \in Nat, NEW b \in Nat
  PROVE  Min({a, b}) \in {a, b} /\ Min({a, b}) <= a /\ Min({a, b}) <= b
<1>1. \E x \in {a, b} : \A y \in {a, b} : x <= y
  OBVIOUS
<1>2. Min({a, b}) \in {a, b} /\ \A y \in {a, b} : Min({a, b}) <= y
  BY <1>1 DEF Min
<1>. QED BY <1>2

\* n different ones that wait and have not begun are n more that have.
LEMMA FirstInLine ==
  ASSUME NEW waiting \in Seq(Jobs), NEW begun \in SUBSET Jobs, NEW n \in 0..Len(waiting),
         \A i \in 1..Len(waiting) : waiting[i] \notin begun,
         \A i, k \in 1..Len(waiting) : waiting[i] = waiting[k] => i = k
  PROVE  /\ begun \cup {waiting[i] : i \in 1..n} \in SUBSET Jobs
         /\ Cardinality(begun \cup {waiting[i] : i \in 1..n}) = Cardinality(begun) + n
<1> DEFINE first == {waiting[i] : i \in 1..n}
           f == [i \in 1..n |-> waiting[i]]
<1>1. n \in Nat /\ \A i \in 1..n : i \in 1..Len(waiting)
  BY LenProperties
<1>2. first \in SUBSET Jobs /\ first \cap begun = {}
  BY <1>1, ElementOfSeq
<1>3. f \in Bijection(1..n, first)
  <2>1. f \in [1..n -> first] /\ \A y \in first : \E i \in 1..n : f[i] = y
    OBVIOUS
  <2>2. \A i, k \in 1..n : f[i] = f[k] => i = k
    BY <1>1
  <2>. QED BY <2>1, <2>2 DEF Bijection, Injection, Surjection, IsInjective
<1>4. IsFiniteSet(1..n) /\ Cardinality(1..n) = n
  BY <1>1, FS_Interval
<1>5. Cardinality(first) = n
  BY <1>3, <1>4, FS_Bijection DEF ExistsBijection
<1>6. Cardinality(begun \cup first) = Cardinality(begun) + Cardinality(first)
  <2>1. Cardinality(begun \cap first) = 0
    BY <1>2, FS_EmptySet
  <2>2. /\ IsFiniteSet(begun) /\ Cardinality(begun) \in Nat
        /\ IsFiniteSet(first) /\ Cardinality(first) \in Nat
    BY <1>2, JobsFinite
  <2>3. Cardinality(begun \cup first) =
           Cardinality(begun) + Cardinality(first) - Cardinality(begun \cap first)
    BY <2>2, FS_Union
  <2>. QED BY <2>1, <2>2, <2>3
<1>. QED BY <1>2, <1>5, <1>6

\* pump starts the first n that wait: as many as there is room for, or all.
LEMMA PumpEffect ==
  ASSUME NEW waiting \in Seq(Jobs), NEW begun \in SUBSET Jobs,
         Cardinality(begun) <= MaxLeases,
         \A i \in 1..Len(waiting) : waiting[i] \notin begun,
         \A i, k \in 1..Len(waiting) : waiting[i] = waiting[k] => i = k,
         Pump(waiting, begun)
  PROVE  \E n \in 0..Len(waiting) :
            /\ started' = begun \cup {waiting[i] : i \in 1..n}
            /\ started' \in SUBSET Jobs
            /\ Cardinality(started') <= MaxLeases
            /\ line' \in Seq(Jobs) /\ Len(line') = Len(waiting) - n
            /\ \A i \in 1..Len(line') : line'[i] = waiting[i + n]
            /\ listening => n = Len(waiting) \/ Cardinality(started') = MaxLeases
            /\ ~listening => n = 0
<1> DEFINE room == IF listening THEN MaxLeases - Cardinality(begun) ELSE 0
           n == Min({room, Len(waiting)})
<1>1. room \in Nat /\ Len(waiting) \in Nat /\ Cardinality(begun) \in Nat /\ MaxLeases \in Nat
  BY JobsFinite, LenProperties, ForeignAssumption
<1>2. n \in {room, Len(waiting)} /\ n <= room /\ n <= Len(waiting)
  BY <1>1, LeastOfTwo
<1>3. /\ started' = begun \cup {waiting[i] : i \in 1..n}
      /\ line' = SubSeq(waiting, n + 1, Len(waiting))
  BY DEF Pump
<1>4. n \in 0..Len(waiting)
  BY <1>1, <1>2
<1> HIDE DEF n
<1>5. started' \in SUBSET Jobs /\ Cardinality(started') = Cardinality(begun) + n
  BY <1>3, <1>4, FirstInLine
<1>6. \A i \in n + 1 .. Len(waiting) : waiting[i] \in Jobs
  BY <1>1, <1>4, ElementOfSeq
<1>7. /\ line' \in Seq(Jobs)
      /\ Len(line') = Len(waiting) - n
      /\ \A i \in 1..Len(line') : line'[i] = waiting[i + n]
  <2>1. n + 1 \in Int /\ Len(waiting) \in Int
    BY <1>1, <1>4
  <2>2. /\ SubSeq(waiting, n + 1, Len(waiting)) \in Seq(Jobs)
        /\ Len(SubSeq(waiting, n + 1, Len(waiting))) =
              IF n + 1 <= Len(waiting) THEN Len(waiting) - (n + 1) + 1 ELSE 0
        /\ \A i \in 1 .. Len(waiting) - (n + 1) + 1 :
              SubSeq(waiting, n + 1, Len(waiting))[i] = waiting[(n + 1) + i - 1]
    BY <1>6, <2>1, SubSeqProperties
  <2>3. Len(line') = Len(waiting) - n
    BY <1>1, <1>3, <1>4, <2>2
  <2>4. ASSUME NEW i \in 1..Len(line') PROVE line'[i] = waiting[i + n]
    <3>1. i \in 1 .. Len(waiting) - (n + 1) + 1 /\ (n + 1) + i - 1 = i + n
      BY <1>1, <1>4, <2>3
    <3>. QED BY <1>3, <2>2, <3>1
  <2>. QED BY <1>3, <2>2, <2>3, <2>4
<1>8. Cardinality(started') <= MaxLeases
  BY <1>1, <1>2, <1>5
<1>9. /\ listening => n = Len(waiting) \/ Cardinality(started') = MaxLeases
      /\ ~listening => n = 0
  BY <1>1, <1>2, <1>4, <1>5
<1>. QED BY <1>3, <1>4, <1>5, <1>7, <1>8, <1>9

\* Without its i-th, the others wait as before.
LEMMA WithoutOne ==
  ASSUME NEW waiting \in Seq(Jobs), NEW i \in 1..Len(waiting)
  PROVE  /\ RemoveAt(waiting, i) \in Seq(Jobs)
         /\ Len(RemoveAt(waiting, i)) = Len(waiting) - 1
         /\ \A k \in 1..Len(waiting) - 1 :
               RemoveAt(waiting, i)[k] = waiting[IF k < i THEN k ELSE k + 1]
<1> DEFINE before == SubSeq(waiting, 1, i - 1)
           after == SubSeq(waiting, i + 1, Len(waiting))
<1>1. Len(waiting) \in Nat /\ i \in Nat /\ \A k \in 1..Len(waiting) : waiting[k] \in Jobs
  BY LenProperties, ElementOfSeq
<1>2. /\ before \in Seq(Jobs) /\ Len(before) = i - 1
      /\ \A k \in 1..i - 1 : before[k] = waiting[k]
  <2>1. \A k \in 1..i - 1 : waiting[k] \in Jobs
    BY <1>1
  <2>2. /\ before \in Seq(Jobs) /\ Len(before) = IF 1 <= i - 1 THEN (i - 1) - 1 + 1 ELSE 0
        /\ \A k \in 1 .. (i - 1) - 1 + 1 : before[k] = waiting[1 + k - 1]
    BY <1>1, <2>1, SubSeqProperties
  <2>. QED BY <1>1, <2>2
<1>3. /\ after \in Seq(Jobs) /\ Len(after) = Len(waiting) - i
      /\ \A k \in 1..Len(waiting) - i : after[k] = waiting[i + k]
  <2>1. \A k \in i + 1 .. Len(waiting) : waiting[k] \in Jobs
    BY <1>1
  <2>2. /\ after \in Seq(Jobs)
        /\ Len(after) = IF i + 1 <= Len(waiting) THEN Len(waiting) - (i + 1) + 1 ELSE 0
        /\ \A k \in 1 .. Len(waiting) - (i + 1) + 1 : after[k] = waiting[(i + 1) + k - 1]
    BY <1>1, <2>1, SubSeqProperties
  <2>3. \A k \in 1..Len(waiting) - i : after[k] = waiting[i + k]
    <3> SUFFICES ASSUME NEW k \in 1..Len(waiting) - i PROVE after[k] = waiting[i + k]
      OBVIOUS
    <3>1. k \in 1 .. Len(waiting) - (i + 1) + 1 /\ (i + 1) + k - 1 = i + k
      BY <1>1
    <3>. QED BY <2>2, <3>1
  <2>. QED BY <1>1, <2>2, <2>3
<1>4. RemoveAt(waiting, i) = before \o after
  BY DEF RemoveAt
<1> HIDE DEF before, after
<1>5. /\ before \o after \in Seq(Jobs)
      /\ Len(before \o after) = Len(before) + Len(after)
      /\ \A k \in 1 .. Len(before) + Len(after) :
            (before \o after)[k] = IF k <= Len(before) THEN before[k] ELSE after[k - Len(before)]
  BY <1>2, <1>3, ConcatProperties
<1>6. ASSUME NEW k \in 1..Len(waiting) - 1
      PROVE  (before \o after)[k] = waiting[IF k < i THEN k ELSE k + 1]
  <2>1. k \in 1 .. Len(before) + Len(after)
    BY <1>1, <1>2, <1>3
  <2>2. CASE k < i
    BY <1>1, <1>2, <1>5, <2>1, <2>2
  <2>3. CASE k >= i
    <3>1. k - (i - 1) \in 1..Len(waiting) - i /\ i + (k - (i - 1)) = k + 1
      BY <1>1, <2>3
    <3>2. after[k - (i - 1)] = waiting[k + 1]
      BY <1>3, <3>1
    <3>. QED BY <1>1, <1>2, <1>5, <2>1, <2>3, <3>2
  <2>4. k < i \/ k >= i
    BY <1>1
  <2>. QED BY <2>2, <2>3, <2>4
<1>. QED BY <1>1, <1>2, <1>3, <1>4, <1>5, <1>6

-----------------------------------------------------------------------------
(* The permits of the lane under the callers' steps.  All but two kinds of  *)
(* step are steps of HeavyPermits: several runs cut at once, and a refresh  *)
(* of the service that reconciles.                                          *)

LEMMA CutKeeps ==
  ASSUME HInv, NEW stopped \in SUBSET Jobs, Cut(stopped)
  PROVE  HInv'
<1>1. /\ UNCHANGED <<place, lease, seen, alive, runner, group, stopping, faults>>
      /\ aborted' \subseteq Jobs
      /\ client' = [j \in Jobs |-> IF j \in stopped /\ client[j] = "idle"
                                   THEN "over" ELSE client[j]]
  BY DEF Cut, journal, HInv, TypeOK
<1>2. TypeOK'
  BY <1>1 DEF HInv, TypeOK, ClientStates
<1>3. ASSUME NEW k \in Jobs PROVE JobOK(k)'
  <2>1. JobOK(k) /\ client'[k] \in {client[k], "over"}
    BY <1>1 DEF HInv, JobsOK
  <2>. QED BY <1>1, <2>1 DEF JobOK, HasGrant, BeforeRunner
<1>4. SeenOK'
  BY <1>1, SeenStays DEF HInv, TypeOK
<1>. QED BY <1>1, <1>2, <1>3, <1>4, LeasesStay DEF HInv, JobsOK

LEMMA RefreshKeeps ==
  ASSUME HInv, known \in SUBSET Facts, KnownOK, RefreshReconciles
  PROVE  HInv'
<1>1. /\ place' = QueueAfter(known) /\ lease' = LeasesAfter(known)
      /\ stopping' \subseteq Jobs
      /\ UNCHANGED <<client, seen, aborted, alive, runner, group, faults>>
  BY DEF RefreshReconciles, Orphaned, HInv, TypeOK
<1>2. /\ QueueAfter(known) \in [Jobs -> Nat]
      /\ LeasesAfter(known) \in [Jobs -> {"none", "starting", "running"}]
      /\ \A k \in Jobs :
            /\ QueueAfter(known)[k] \in {0, place[k]}
            /\ LeasesAfter(known)[k] \in {"none", lease[k]}
            /\ Owner(k) \in alive => QueueAfter(known)[k] = place[k]
            /\ Owner(k) \in alive /\ lease[k] = "starting" => LeasesAfter(known)[k] = lease[k]
            /\ lease[k] = "running" /\ (runner[k] # "dead" \/ group[k] # "empty")
                  => LeasesAfter(known)[k] = lease[k]
  BY Reconciling DEF HInv, KnownOK
<1>3. TypeOK'
  BY <1>1, <1>2 DEF HInv, TypeOK
<1>4. ASSUME NEW k \in Jobs PROVE JobOK(k)'
  <2>1. JobOK(k) /\ place[k] \in Nat
    BY DEF HInv, JobsOK, TypeOK
  <2>2. /\ place'[k] \in {0, place[k]} /\ lease'[k] \in {"none", lease[k]}
        /\ Owner(k) \in alive => place'[k] = place[k]
        /\ Owner(k) \in alive /\ lease[k] = "starting" => lease'[k] = lease[k]
        /\ lease[k] = "running" /\ (runner[k] # "dead" \/ group[k] # "empty")
              => lease'[k] = lease[k]
    BY <1>1, <1>2
  <2>. QED BY <1>1, <2>1, <2>2 DEF JobOK, HasGrant, BeforeRunner
<1>5. SeenOK'
  BY <1>1, SeenStays DEF HInv, TypeOK
<1>6. \A k \in Jobs : lease[k] = "none" => lease'[k] = "none"
  BY <1>1, <1>2
<1>. QED BY <1>3, <1>4, <1>5, <1>6, LeasesStay DEF HInv, JobsOK

\* The service's process is the requester of every job.
LEMMA ServiceOwns ==
  /\ \A f \in Jobs : Owner(f) = Service
  /\ Owners \subseteq {Service}
  BY ForeignAssumption DEF Owner, Owners

LEMMA CallersKeepPermits ==
  HInv /\ ForeignTypeOK /\ KnownOK /\ [ForeignNext]_allVars => HInv'
<1> SUFFICES ASSUME HInv, ForeignTypeOK, KnownOK, [ForeignNext]_allVars PROVE HInv'
  OBVIOUS
<1>1. CASE UNCHANGED allVars
  BY <1>1, StutterKeeps DEF allVars
<1>2. ASSUME NEW f \in Jobs, ForeignSteps(f) PROVE HInv'
  <2>1. CASE Connect(f) \/ Prints(f) \/ Granted(f) \/ HoldEnds(f)
    <3>1. UNCHANGED vars
      BY <2>1 DEF Connect, Prints, Granted, HoldEnds
    <3>. QED BY <3>1, StutterKeeps
  <2>2. CASE HangUp(f)
    <3>1. Cut({f} \cap started) /\ {f} \cap started \in SUBSET Jobs
      BY <2>2 DEF HangUp
    <3>. QED BY <3>1, CutKeeps
  <2>3. CASE MaxHold(f) \/ AsksForHold(f) \/ HoldSteps(f)
    <3>1. Next
      BY <2>3 DEF MaxHold, AsksForHold, HoldSteps, Next
    <3>. QED BY <3>1, StepKeeps
  <2>4. CASE Ends(f) \/ KillGroup(f) \/ MissesRunner(f) \/ RunnerDies(f)
    <3>1. Next
      BY <2>4 DEF Next
    <3>. QED BY <3>1, StepKeeps
  <2>. QED BY <1>2, <2>1, <2>2, <2>3, <2>4 DEF ForeignSteps
<1>3. CASE TurnOff
  <2>1. Cut(started) /\ started \in SUBSET Jobs
    BY <1>3 DEF TurnOff, ForeignTypeOK
  <2>. QED BY <2>1, CutKeeps
<1>4. CASE TurnOn \/ RefreshLooks
  <2>1. UNCHANGED vars
    BY <1>4 DEF TurnOn, RefreshLooks
  <2>. QED BY <2>1, StutterKeeps
<1>5. CASE RefreshReconciles
  BY <1>5, RefreshKeeps DEF ForeignTypeOK
<1>6. CASE ServiceDies
  <2>1. ProcessDies(Service) /\ ProcessEnds(Service) /\ faults' \in 0..MaxFaults
    BY <1>6, BoundsAssumption DEF ServiceDies, ProcessDies, Fault, HInv, TypeOK
  <2>2. Service \in Owners
    BY <2>1 DEF ProcessEnds, HInv, TypeOK
  <2>. QED BY <2>1, <2>2, ProcessEndsKeeps
<1>. QED BY <1>1, <1>2, <1>3, <1>4, <1>5, <1>6 DEF ForeignNext


-----------------------------------------------------------------------------
(* What the service keeps for its callers.                                 *)

CallersOK == ForeignTypeOK /\ LineOK /\ StartedOK /\ NoIdleRoom

\* After pump the line is in order again, and no room is idle beside it.
LEMMA PumpKeeps ==
  ASSUME NEW waiting \in Seq(Jobs), NEW begun \in SUBSET Jobs, NEW who,
         Cardinality(begun) <= MaxLeases,
         \A i \in 1..Len(waiting) : waiting[i] \in who \ begun,
         \A i, k \in 1..Len(waiting) : waiting[i] = waiting[k] => i = k,
         who \subseteq begun \cup {waiting[i] : i \in 1..Len(waiting)},
         listening \/ waiting = <<>>,
         Pump(waiting, begun)
  PROVE  /\ started' \in SUBSET Jobs /\ begun \subseteq started'
         /\ Cardinality(started') <= MaxLeases
         /\ line' \in Seq(Jobs)
         /\ \A i \in 1..Len(line') :
               /\ line'[i] \in who \ started'
               /\ \E k \in 1..Len(waiting) : line'[i] = waiting[k]
         /\ \A i, k \in 1..Len(line') : line'[i] = line'[k] => i = k
         /\ who \subseteq started' \cup {line'[i] : i \in 1..Len(line')}
         /\ ~listening => line' = <<>>
         /\ listening => line' = <<>> \/ Cardinality(started') = MaxLeases
<1>1. PICK n \in 0..Len(waiting) :
         /\ started' = begun \cup {waiting[i] : i \in 1..n}
         /\ started' \in SUBSET Jobs
         /\ Cardinality(started') <= MaxLeases
         /\ line' \in Seq(Jobs) /\ Len(line') = Len(waiting) - n
         /\ \A i \in 1..Len(line') : line'[i] = waiting[i + n]
         /\ listening => n = Len(waiting) \/ Cardinality(started') = MaxLeases
         /\ ~listening => n = 0
  BY PumpEffect
<1>2. Len(waiting) \in Nat /\ n \in Nat /\ Len(line') \in Nat
  BY <1>1, LenProperties
<1>3. ASSUME NEW i \in 1..Len(line') PROVE i + n \in 1..Len(waiting) /\ i + n \notin 1..n
  BY <1>1, <1>2
<1>4. ASSUME NEW i \in 1..Len(line')
      PROVE  /\ line'[i] \in who \ started'
             /\ \E k \in 1..Len(waiting) : line'[i] = waiting[k]
  <2>1. line'[i] = waiting[i + n] /\ i + n \in 1..Len(waiting) /\ i + n \notin 1..n
    BY <1>1, <1>3
  <2>2. \A k \in 1..n : k \in 1..Len(waiting)
    BY <1>2
  <2>. QED BY <1>1, <2>1, <2>2
<1>5. \A i, k \in 1..Len(line') : line'[i] = line'[k] => i = k
  <2> SUFFICES ASSUME NEW i \in 1..Len(line'), NEW k \in 1..Len(line'), line'[i] = line'[k]
               PROVE  i = k
    OBVIOUS
  <2>1. waiting[i + n] = waiting[k + n] /\ i + n \in 1..Len(waiting) /\ k + n \in 1..Len(waiting)
    BY <1>1, <1>3
  <2>2. i + n = k + n
    BY <2>1
  <2>. QED BY <1>2, <2>2
<1>6. who \subseteq started' \cup {line'[i] : i \in 1..Len(line')}
  <2> SUFFICES ASSUME NEW f \in who, f \notin started'
               PROVE  \E i \in 1..Len(line') : f = line'[i]
    OBVIOUS
  <2>1. PICK k \in 1..Len(waiting) : f = waiting[k]
    BY <1>1
  <2>2. k \notin 1..n
    BY <1>1, <2>1
  <2>3. k - n \in 1..Len(line') /\ (k - n) + n = k
    BY <1>1, <1>2, <2>2
  <2>4. line'[k - n] = waiting[(k - n) + n]
    BY <1>1, <2>3
  <2>. QED BY <2>1, <2>3, <2>4
<1>7. /\ ~listening => line' = <<>>
      /\ listening => line' = <<>> \/ Cardinality(started') = MaxLeases
  <2>1. Len(line') = 0 => line' = <<>>
    BY <1>1, EmptySeq
  <2>2. ~listening => Len(waiting) = 0
    BY EmptySeq
  <2>. QED BY <1>1, <1>2, <2>1, <2>2
<1>. QED BY <1>1, <1>4, <1>5, <1>6, <1>7

\* A step of a caller's run leaves the rest of the service alone.
LEMMA BesideKeeps ==
  ASSUME HInv, CallersOK,
         UNCHANGED <<listening, connected, started, line>>,
         ForeignTypeOK',
         \A f \in Jobs : told'[f] = told[f] \/ f \in started,
         \A f \in Jobs : client'[f] = client[f] \/ f \in started,
         alive' = alive
  PROVE  CallersOK'
<1>1. \A i \in 1..Len(line) : line[i] \in Jobs
  BY ElementOfSeq DEF CallersOK, ForeignTypeOK
<1>2. LineOK'
  BY <1>1 DEF CallersOK, LineOK
<1>3. StartedOK'
  BY DEF CallersOK, StartedOK
<1>4. NoIdleRoom'
  BY DEF CallersOK, NoIdleRoom
<1>. QED BY <1>2, <1>3, <1>4 DEF CallersOK

LEMMA LineFacts ==
  ASSUME CallersOK
  PROVE  /\ Len(line) \in Nat
         /\ \A i \in 1..Len(line) :
               /\ line[i] \in Jobs /\ line[i] \in connected \ started
               /\ client[line[i]] = "idle" /\ told[line[i]] = "nothing"
         /\ \A i, k \in 1..Len(line) : line[i] = line[k] => i = k
  BY LenProperties, ElementOfSeq DEF CallersOK, ForeignTypeOK, LineOK

LEMMA ConnectKeeps ==
  ASSUME HInv, CallersOK, NEW f \in Jobs, Connect(f)
  PROVE  CallersOK'
<1>1. /\ listening /\ f \notin connected /\ f \notin started /\ client[f] = "idle"
      /\ UNCHANGED <<client, alive, listening, holder, known>>
  BY DEF Connect, vars
<1>2. CASE told' = [told EXCEPT ![f] = "refused"] /\ UNCHANGED <<connected, started, line>>
  <2>1. ForeignTypeOK'
    BY <1>1, <1>2 DEF CallersOK, ForeignTypeOK
  <2>2. LineOK'
    BY <1>1, <1>2, LineFacts DEF CallersOK, LineOK, ForeignTypeOK
  <2>3. StartedOK' /\ NoIdleRoom'
    BY <1>1, <1>2 DEF CallersOK, StartedOK, NoIdleRoom
  <2>. QED BY <2>1, <2>2, <2>3 DEF CallersOK
<1>3. CASE /\ connected' = connected \cup {f}
           /\ Pump(Append(line, f), started)
           /\ told' = [told EXCEPT ![f] = "nothing"]
  <2> DEFINE waiting == Append(line, f)
  <2>1. /\ line \in Seq(Jobs) /\ Len(line) \in Nat /\ started \in SUBSET Jobs
        /\ connected \in SUBSET Jobs /\ Cardinality(started) <= MaxLeases
    BY LineFacts DEF CallersOK, ForeignTypeOK, StartedOK
  <2>2. /\ waiting \in Seq(Jobs) /\ Len(waiting) = Len(line) + 1
        /\ \A i \in 1..Len(line) : waiting[i] = line[i]
        /\ waiting[Len(line) + 1] = f
    BY <2>1, AppendProperties
  <2> HIDE DEF waiting
  <2>3. \A i \in 1..Len(waiting) : i \in 1..Len(line) \/ i = Len(line) + 1
    BY <2>1, <2>2
  <2>4. ASSUME NEW i \in 1..Len(waiting)
        PROVE  /\ waiting[i] \in Jobs /\ waiting[i] \in (connected \cup {f}) \ started
               /\ client[waiting[i]] = "idle"
               /\ waiting[i] = f \/ told[waiting[i]] = "nothing"
    BY <1>1, <2>2, <2>3, LineFacts
  <2>5. \A i, k \in 1..Len(waiting) : waiting[i] = waiting[k] => i = k
    <3> SUFFICES ASSUME NEW i \in 1..Len(waiting), NEW k \in 1..Len(waiting),
                        waiting[i] = waiting[k]
                 PROVE  i = k
      OBVIOUS
    <3>1. \A n \in 1..Len(line) : waiting[n] = line[n] /\ line[n] # f
      BY <1>1, <2>2, LineFacts
    <3>2. CASE i \in 1..Len(line) /\ k \in 1..Len(line)
      BY <3>1, <3>2, LineFacts
    <3>3. CASE i = Len(line) + 1 \/ k = Len(line) + 1
      BY <2>2, <2>3, <3>1, <3>3
    <3>. QED BY <2>3, <3>2, <3>3
  <2>6. connected \cup {f} \subseteq started \cup {waiting[i] : i \in 1..Len(waiting)}
    <3>1. \A i \in 1..Len(line) : i \in 1..Len(waiting)
      BY <2>1, <2>2
    <3>2. Len(line) + 1 \in 1..Len(waiting)
      BY <2>1, <2>2
    <3>3. connected \subseteq started \cup {line[i] : i \in 1..Len(line)}
      BY DEF CallersOK, LineOK
    <3>. QED BY <2>2, <3>1, <3>2, <3>3
  <2>7. Pump(waiting, started)
    BY <1>3 DEF waiting
  <2>8. /\ started' \in SUBSET Jobs /\ started \subseteq started'
        /\ Cardinality(started') <= MaxLeases
        /\ line' \in Seq(Jobs)
        /\ \A i \in 1..Len(line') :
              /\ line'[i] \in (connected \cup {f}) \ started'
              /\ \E k \in 1..Len(waiting) : line'[i] = waiting[k]
        /\ \A i, k \in 1..Len(line') : line'[i] = line'[k] => i = k
        /\ connected \cup {f} \subseteq started' \cup {line'[i] : i \in 1..Len(line')}
        /\ ~listening => line' = <<>>
        /\ listening => line' = <<>> \/ Cardinality(started') = MaxLeases
    BY <1>1, <2>1, <2>2, <2>4, <2>5, <2>6, <2>7, PumpKeeps
  <2>9. ForeignTypeOK'
    BY <1>1, <1>3, <2>1, <2>8 DEF CallersOK, ForeignTypeOK
  <2>10. \A i \in 1..Len(line') : client'[line'[i]] = "idle" /\ told'[line'[i]] = "nothing"
    BY <1>1, <1>3, <2>4, <2>8 DEF CallersOK, ForeignTypeOK
  <2>11. LineOK'
    BY <1>1, <1>3, <2>8, <2>10 DEF LineOK
  <2>12. Service \in alive
    BY <1>1, ServiceOwns DEF HInv, JobsOK, JobOK
  <2>13. StartedOK' /\ NoIdleRoom'
    BY <1>1, <2>8, <2>12 DEF CallersOK, StartedOK, NoIdleRoom
  <2>. QED BY <2>9, <2>11, <2>13 DEF CallersOK
<1>. QED BY <1>2, <1>3 DEF Connect

LEMMA CutEffect ==
  ASSUME HInv, NEW stopped \in SUBSET Jobs, Cut(stopped)
  PROVE  /\ alive' = alive
         /\ \A j \in Jobs : client'[j] = client[j] \/ j \in stopped
         /\ \A j \in Jobs : client'[j] \in {client[j], "over"}
  BY DEF Cut

LEMMA HangUpKeeps ==
  ASSUME HInv, CallersOK, NEW f \in Jobs, HangUp(f)
  PROVE  CallersOK'
<1>1. /\ f \in connected /\ connected' = connected \ {f}
      /\ UNCHANGED <<listening, started, told, holder, known>>
  BY DEF HangUp
<1>2. /\ alive' = alive
      /\ \A j \in Jobs : client'[j] = client[j] \/ j \in {f} \cap started
      /\ \A j \in Jobs : client'[j] \in {client[j], "over"}
  BY CutEffect DEF HangUp
<1>3. StartedOK'
  BY <1>1, <1>2 DEF CallersOK, StartedOK
<1>4. CASE f \in started /\ line' = line
  <2>1. ForeignTypeOK'
    BY <1>1, <1>4 DEF CallersOK, ForeignTypeOK
  <2>2. \A i \in 1..Len(line) : /\ line[i] \in connected' \ started'
                                /\ client'[line[i]] = "idle" /\ told'[line[i]] = "nothing"
    BY <1>1, <1>2, <1>4, LineFacts
  <2>3. LineOK'
    BY <1>1, <1>4, <2>2 DEF CallersOK, LineOK
  <2>4. NoIdleRoom'
    BY <1>1, <1>4 DEF CallersOK, NoIdleRoom
  <2>. QED BY <1>3, <2>1, <2>3, <2>4 DEF CallersOK
<1>5. ASSUME NEW i \in DOMAIN line, line[i] = f, line' = RemoveAt(line, i)
      PROVE  CallersOK'
  <2>1. i \in 1..Len(line) /\ line \in Seq(Jobs)
    BY LenProperties DEF CallersOK, ForeignTypeOK
  <2>2. /\ line' \in Seq(Jobs) /\ Len(line') = Len(line) - 1
        /\ \A k \in 1..Len(line) - 1 : line'[k] = line[IF k < i THEN k ELSE k + 1]
    BY <1>5, <2>1, WithoutOne
  <2>3. Len(line) \in Nat /\ i \in Nat
    BY <2>1, LineFacts
  <2>4. ForeignTypeOK'
    BY <1>1, <2>2 DEF CallersOK, ForeignTypeOK
  <2>5. ASSUME NEW k \in 1..Len(line')
        PROVE  \E n \in 1..Len(line) : n # i /\ line'[k] = line[n]
                                       /\ n = IF k < i THEN k ELSE k + 1
    <3>1. (IF k < i THEN k ELSE k + 1) \in 1..Len(line)
      BY <2>2, <2>3
    <3>2. (IF k < i THEN k ELSE k + 1) # i
      BY <2>2, <2>3
    <3>. QED BY <2>2, <3>1, <3>2
  <2>6. \A k \in 1..Len(line') : /\ line'[k] \in connected' \ started'
                                 /\ client'[line'[k]] = "idle" /\ told'[line'[k]] = "nothing"
    <3> SUFFICES ASSUME NEW k \in 1..Len(line')
                 PROVE  /\ line'[k] \in connected' \ started'
                        /\ client'[line'[k]] = "idle" /\ told'[line'[k]] = "nothing"
      OBVIOUS
    <3>1. PICK n \in 1..Len(line) : n # i /\ line'[k] = line[n]
      BY <2>5
    <3>2. /\ line[n] # f /\ line[n] \in Jobs /\ line[n] \in connected \ started
          /\ client[line[n]] = "idle" /\ told[line[n]] = "nothing"
      BY <1>5, <2>1, <3>1, LineFacts
    <3>. QED BY <1>1, <1>2, <3>1, <3>2
  <2>7. \A k, m \in 1..Len(line') : line'[k] = line'[m] => k = m
    <3> SUFFICES ASSUME NEW k \in 1..Len(line'), NEW m \in 1..Len(line'), line'[k] = line'[m]
                 PROVE  k = m
      OBVIOUS
    <3>1. PICK n \in 1..Len(line) : line'[k] = line[n] /\ n = IF k < i THEN k ELSE k + 1
      BY <2>5
    <3>2. PICK o \in 1..Len(line) : line'[m] = line[o] /\ o = IF m < i THEN m ELSE m + 1
      BY <2>5
    <3>3. n = o
      BY <3>1, <3>2, LineFacts
    <3>. QED BY <2>2, <2>3, <3>1, <3>2, <3>3
  <2>8. connected' \subseteq started' \cup {line'[k] : k \in 1..Len(line')}
    <3> SUFFICES ASSUME NEW g \in connected, g # f, g \notin started
                 PROVE  \E k \in 1..Len(line') : g = line'[k]
      BY <1>1
    <3>1. PICK n \in 1..Len(line) : g = line[n]
      BY DEF CallersOK, LineOK
    <3>2. n # i
      BY <1>5, <3>1
    <3>3. CASE n < i
      <4>1. n \in 1..Len(line') /\ line'[n] = line[n]
        BY <2>2, <2>3, <3>3
      <4>. QED BY <3>1, <4>1
    <3>4. CASE n > i
      <4>1. n - 1 \in 1..Len(line') /\ ~(n - 1 < i) /\ (n - 1) + 1 = n
        BY <2>2, <2>3, <3>4
      <4>2. line'[n - 1] = line[(n - 1) + 1]
        BY <2>2, <4>1
      <4>. QED BY <3>1, <4>1, <4>2
    <3>5. n < i \/ n > i
      BY <2>3, <3>2
    <3>. QED BY <3>3, <3>4, <3>5
  <2>9. listening
    <3>1. ~listening => Len(line) = 0
      BY EmptySeq DEF CallersOK, LineOK
    <3>. QED BY <2>1, <2>3, <3>1
  <2>10. LineOK'
    BY <1>1, <2>6, <2>7, <2>8, <2>9 DEF LineOK
  <2>11. NoIdleRoom'
    <3>1. line # <<>>
      BY <2>1, <2>3, EmptySeq
    <3>. QED BY <1>1, <2>9, <3>1 DEF CallersOK, NoIdleRoom
  <2>. QED BY <1>3, <2>4, <2>10, <2>11 DEF CallersOK
<1>. QED BY <1>4, <1>5 DEF HangUp

\* The switch is turned, or the service's process is gone.
LEMMA SwitchKeeps ==
  ASSUME HInv, CallersOK, TurnOff \/ TurnOn \/ ServiceDies
  PROVE  CallersOK'
<1>1. Len(<<>>) = 0 /\ <<>> \in Seq(Jobs)
  BY EmptySeq
<1>2. CASE TurnOff
  <2>1. /\ listening' = FALSE /\ connected' = {} /\ line' = <<>>
        /\ told' = [f \in Jobs |-> IF f \in connected \cap started THEN "lost" ELSE told[f]]
        /\ UNCHANGED <<started, holder, known>> /\ Cut(started)
    BY <1>2 DEF TurnOff
  <2>2. alive' = alive /\ \A j \in Jobs : client'[j] = client[j] \/ j \in started
    BY <2>1, CutEffect DEF CallersOK, ForeignTypeOK
  <2>3. ForeignTypeOK'
    BY <1>1, <2>1 DEF CallersOK, ForeignTypeOK
  <2>4. LineOK' /\ NoIdleRoom'
    BY <1>1, <2>1 DEF LineOK, NoIdleRoom
  <2>5. StartedOK'
    BY <2>1, <2>2 DEF CallersOK, StartedOK
  <2>. QED BY <2>3, <2>4, <2>5 DEF CallersOK
<1>3. CASE TurnOn
  <2>1. /\ Service \in alive /\ ~listening /\ listening' = TRUE
        /\ UNCHANGED <<client, alive, connected, started, line, told, holder, known>>
    BY <1>3 DEF TurnOn, vars
  <2>2. line = <<>>
    BY <2>1 DEF CallersOK, LineOK
  <2>3. ForeignTypeOK'
    BY <2>1 DEF CallersOK, ForeignTypeOK
  <2>4. LineOK'
    BY <2>1 DEF CallersOK, LineOK
  <2>5. StartedOK' /\ NoIdleRoom'
    BY <2>1, <2>2 DEF CallersOK, StartedOK, NoIdleRoom
  <2>. QED BY <2>3, <2>4, <2>5 DEF CallersOK
<1>4. CASE ServiceDies
  <2>1. /\ listening' = FALSE /\ connected' = {} /\ started' = {} /\ line' = <<>>
        /\ known' = {} /\ UNCHANGED <<told, holder>>
        /\ client' = [k \in Jobs |-> IF Owner(k) = Service THEN "over" ELSE client[k]]
    BY <1>4 DEF ServiceDies, ProcessDies, ProcessEnds
  <2>2. \A k \in Jobs : client'[k] = "over"
    BY <2>1, ServiceOwns
  <2>3. Cardinality({}) = 0
    BY FS_EmptySet
  <2>4. ForeignTypeOK'
    BY <1>1, <2>1 DEF CallersOK, ForeignTypeOK
  <2>5. LineOK' /\ NoIdleRoom'
    BY <1>1, <2>1 DEF LineOK, NoIdleRoom
  <2>6. StartedOK'
    BY <2>1, <2>2, <2>3, ForeignAssumption DEF StartedOK
  <2>. QED BY <2>4, <2>5, <2>6 DEF CallersOK
<1>. QED BY <1>2, <1>3, <1>4

LEMMA HoldEndsKeeps ==
  ASSUME HInv, CallersOK, NEW f \in Jobs, HoldEnds(f)
  PROVE  CallersOK'
<1>1. /\ f \in started /\ client[f] = "over" /\ Pump(line, started \ {f})
      /\ connected' = connected \ {f}
      /\ told' = [told EXCEPT ![f] = IF f \in connected THEN "lost" ELSE @]
      /\ UNCHANGED <<client, alive, listening, holder, known>>
  BY DEF HoldEnds, vars
<1>2. /\ line \in Seq(Jobs) /\ started \in SUBSET Jobs /\ connected \in SUBSET Jobs
      /\ listening \/ line = <<>>
      /\ connected \subseteq started \cup {line[i] : i \in 1..Len(line)}
  BY DEF CallersOK, ForeignTypeOK, LineOK
<1>3. Cardinality(started \ {f}) <= MaxLeases
  <2>1. IsFiniteSet(started) /\ Cardinality(started) \in Nat /\ Cardinality(started) <= MaxLeases
    BY <1>2, JobsFinite DEF CallersOK, StartedOK
  <2>2. Cardinality(started \ {f}) = Cardinality(started) - 1
    BY <1>1, <2>1, FS_RemoveElement
  <2>. QED BY <2>1, <2>2, ForeignAssumption
<1>4. \A i \in 1..Len(line) : line[i] # f /\ line[i] \in (connected \ {f}) \ (started \ {f})
  BY <1>1, LineFacts
<1>5. /\ started' \in SUBSET Jobs /\ started \ {f} \subseteq started'
      /\ Cardinality(started') <= MaxLeases
      /\ line' \in Seq(Jobs)
      /\ \A i \in 1..Len(line') :
            /\ line'[i] \in (connected \ {f}) \ started'
            /\ \E k \in 1..Len(line) : line'[i] = line[k]
      /\ \A i, k \in 1..Len(line') : line'[i] = line'[k] => i = k
      /\ connected \ {f} \subseteq started' \cup {line'[i] : i \in 1..Len(line')}
      /\ ~listening => line' = <<>>
      /\ listening => line' = <<>> \/ Cardinality(started') = MaxLeases
  <2>1. connected \ {f} \subseteq (started \ {f}) \cup {line[i] : i \in 1..Len(line)}
    BY <1>2
  <2>2. \A i, k \in 1..Len(line) : line[i] = line[k] => i = k
    BY LineFacts
  <2>. QED BY <1>1, <1>2, <1>3, <1>4, <2>1, <2>2, PumpKeeps
<1>6. ForeignTypeOK'
  BY <1>1, <1>2, <1>5 DEF CallersOK, ForeignTypeOK
<1>7. \A i \in 1..Len(line') : client'[line'[i]] = "idle" /\ told'[line'[i]] = "nothing"
  BY <1>1, <1>4, <1>5, LineFacts DEF CallersOK, ForeignTypeOK
<1>8. LineOK'
  BY <1>1, <1>5, <1>7 DEF LineOK
<1>9. StartedOK' /\ NoIdleRoom'
  <2>1. Service \in alive
    BY <1>1 DEF CallersOK, StartedOK
  <2>. QED BY <1>1, <1>5, <2>1 DEF CallersOK, StartedOK, NoIdleRoom
<1>. QED BY <1>6, <1>8, <1>9 DEF CallersOK

\* The requester of a run moves only while it is with the governor.
LEMMA RequesterMoves ==
  ASSUME HInv, NEW f \in Jobs, ClientSteps(f)
  PROVE  /\ client[f] \notin {"idle", "over"}
         /\ \A k \in Jobs \ {f} : client'[k] = client[k]
         /\ alive' = alive
<1>1. CASE LookFully(f) \/ LookBlind(f)
  BY <1>1 DEF LookFully, LookBlind, Looks, LookWith, HInv, TypeOK
<1>2. CASE Enqueue(f) \/ Pass(f) \/ Withdraw(f) \/ EndHold(f) \/ Close(f)
  <2>1. /\ client[f] \notin {"idle", "over"}
        /\ \E next : client' = [client EXCEPT ![f] = next]
        /\ alive' = alive
    BY <1>2 DEF Enqueue, Pass, Withdraw, EndHold, Close, Transact
  <2>. QED BY <2>1 DEF HInv, TypeOK
<1>3. CASE QueueFull(f) \/ GivesUp(f)
  BY <1>3 DEF QueueFull, GivesUp, Cancelled, HInv, TypeOK
<1>4. CASE Work(f) \/ SpawnRunner(f) \/ Go(f) \/ RunnerIsGone(f)
  BY <1>4 DEF Work, SpawnRunner, Go, RunnerIsGone, Moves, HInv, TypeOK
<1>. QED BY <1>1, <1>2, <1>3, <1>4 DEF ClientSteps

LEMMA RunStepsKeep ==
  ASSUME HInv, CallersOK, NEW f \in Jobs,
         \/ Prints(f) \/ Granted(f) \/ MaxHold(f) \/ AsksForHold(f) \/ HoldSteps(f)
         \/ (Ends(f) \/ KillGroup(f) \/ MissesRunner(f) \/ RunnerDies(f))
               /\ UNCHANGED foreignVars
  PROVE  CallersOK'
<1>1. CASE Prints(f) \/ Granted(f)
  <2>1. /\ UNCHANGED <<listening, connected, started, line, client, alive, known>>
        /\ \/ told' = told /\ holder' = [holder EXCEPT ![f] = "printed"]
           \/ /\ f \in started /\ holder' = [holder EXCEPT ![f] = "heard"]
              /\ told' = [told EXCEPT ![f] = IF f \in connected THEN "granted" ELSE @]
    BY <1>1 DEF Prints, Granted, vars
  <2>2. ForeignTypeOK'
    BY <2>1 DEF CallersOK, ForeignTypeOK
  <2>3. \A k \in Jobs : told'[k] = told[k] \/ k \in started
    BY <2>1 DEF CallersOK, ForeignTypeOK
  <2>. QED BY <2>1, <2>2, <2>3, BesideKeeps
<1>2. CASE /\ \/ MaxHold(f) \/ AsksForHold(f) \/ HoldSteps(f)
              \/ Ends(f) \/ KillGroup(f) \/ MissesRunner(f) \/ RunnerDies(f)
           /\ UNCHANGED foreignVars
  <2>1. UNCHANGED <<listening, connected, started, line, told, holder, known>>
    BY <1>2 DEF foreignVars
  <2>2. ForeignTypeOK'
    BY <2>1 DEF CallersOK, ForeignTypeOK
  <2>3. alive' = alive /\ \A k \in Jobs : client'[k] = client[k] \/ k \in started
    <3>1. CASE MaxHold(f)
      BY <3>1 DEF MaxHold, Abort
    <3>2. CASE AsksForHold(f)
      BY <3>2 DEF AsksForHold, Ask, LookWith, HInv, TypeOK
    <3>3. CASE HoldSteps(f)
      <4>1. client[f] \notin {"idle", "over"} /\ alive' = alive
            /\ \A k \in Jobs \ {f} : client'[k] = client[k]
        BY <3>3, RequesterMoves DEF HoldSteps
      <4>. QED BY <4>1 DEF CallersOK, StartedOK
    <3>4. CASE Ends(f)
      <4>1. ~Exit(f)
        BY ForeignAssumption DEF Exit
      <4>. QED BY <3>4, <4>1 DEF Ends, RunnerSteps, Register, Launch, RunnerReleases,
                    RunnerBecomes, CommandEnds, StopLeftovers, GroupBecomes
    <3>5. CASE KillGroup(f) \/ RunnerDies(f)
      BY <3>5 DEF KillGroup, RunnerDies, RunnerBecomes
    <3>6. CASE MissesRunner(f)
      <4>1. /\ client[f] = "spawned" /\ client' = [client EXCEPT ![f] = "settling"]
            /\ alive' = alive
        BY <3>6 DEF MissesRunner
      <4>. QED BY <4>1 DEF HInv, TypeOK, CallersOK, StartedOK
    <3>. QED BY <1>2, <3>1, <3>2, <3>3, <3>4, <3>5, <3>6
  <2>. QED BY <2>1, <2>2, <2>3, BesideKeeps
<1>. QED BY <1>1, <1>2 DEF MaxHold, AsksForHold, HoldSteps

LEMMA RefreshStepsKeep ==
  ASSUME HInv, CallersOK, RefreshLooks \/ RefreshReconciles
  PROVE  CallersOK'
<1>1. /\ UNCHANGED <<listening, connected, started, line, told, holder, client, alive>>
      /\ known' \in {Observed, {}}
  BY DEF RefreshLooks, RefreshReconciles, vars
<1>2. known' \in SUBSET Facts
  BY <1>1, ObservedIsTrue DEF HInv
<1>3. ForeignTypeOK'
  BY <1>1, <1>2 DEF CallersOK, ForeignTypeOK
<1>. QED BY <1>1, <1>3, BesideKeeps

\* What the service keeps for its callers stays in order.
LEMMA CallersKeep ==
  HInv /\ CallersOK /\ [ForeignNext]_allVars => CallersOK'
<1> SUFFICES ASSUME HInv, CallersOK, [ForeignNext]_allVars PROVE CallersOK'
  OBVIOUS
<1>1. CASE UNCHANGED allVars
  <2>1. /\ UNCHANGED <<listening, connected, started, line, told, holder, known>>
        /\ UNCHANGED <<client, alive>>
    BY <1>1 DEF allVars, vars, foreignVars
  <2>2. ForeignTypeOK'
    BY <2>1 DEF CallersOK, ForeignTypeOK
  <2>. QED BY <2>1, <2>2, BesideKeeps
<1>2. ASSUME NEW f \in Jobs, ForeignSteps(f) PROVE CallersOK'
  BY <1>2, ConnectKeeps, HangUpKeeps, HoldEndsKeeps, RunStepsKeep DEF ForeignSteps
<1>3. CASE TurnOff \/ TurnOn \/ ServiceDies
  BY <1>3, SwitchKeeps
<1>4. CASE RefreshLooks \/ RefreshReconciles
  BY <1>4, RefreshStepsKeep
<1>. QED BY <1>1, <1>2, <1>3, <1>4 DEF ForeignNext

-----------------------------------------------------------------------------
(* What the refresh found.                                                 *)

\* No step brings a process back, or fills the group of a dead runner again.
LEMMA NobodyComesBack ==
  ASSUME HInv, [ForeignNext]_allVars
  PROVE  /\ alive' \subseteq alive
         /\ \A k \in Jobs : runner[k] = "dead" =>
               runner'[k] = "dead" /\ (group[k] = "empty" => group'[k] = "empty")
<1>1. CASE UNCHANGED <<alive, runner, group>>
  BY <1>1
<1>2. ASSUME NEW f \in Jobs, ClientSteps(f)
      PROVE  /\ alive' = alive /\ group' = group
             /\ \A k \in Jobs : runner[k] = "dead" => runner'[k] = "dead"
  <2>1. alive' = alive
    BY <1>2, RequesterMoves
  <2>2. CASE SpawnRunner(f)
    <3>1. runner[f] = "none" /\ runner' = [runner EXCEPT ![f] = "spawned"] /\ group' = group
      BY <2>2 DEF SpawnRunner, Moves, HInv, JobsOK, JobOK, BeforeRunner
    <3>. QED BY <2>1, <3>1 DEF HInv, TypeOK
  <2>3. CASE Go(f)
    <3>1. /\ runner[f] = "registered" /\ group' = group
          /\ runner' = runner \/ runner' = [runner EXCEPT ![f] = "told"]
      BY <2>3 DEF Go, Moves
    <3>. QED BY <2>1, <3>1 DEF HInv, TypeOK
  <2>4. CASE ~SpawnRunner(f) /\ ~Go(f)
    <3>1. runner' = runner /\ group' = group
      BY <1>2, <2>4 DEF ClientSteps, LookFully, LookBlind, Looks, LookWith, Enqueue, QueueFull,
           Pass, Withdraw, GivesUp, Cancelled, Work, Moves, EndHold, RunnerIsGone, Close, Transact
    <3>. QED BY <2>1, <3>1
  <2>. QED BY <2>2, <2>3, <2>4
<1>3. ASSUME NEW f \in Jobs, Ends(f) \/ KillGroup(f) \/ RunnerDies(f)
      PROVE  /\ alive' = alive
             /\ \A k \in Jobs : runner[k] = "dead" =>
                   runner'[k] = "dead" /\ (group[k] = "empty" => group'[k] = "empty")
  <2>1. CASE Register(f) \/ RunnerReleases(f) \/ RunnerDies(f)
    <3>1. /\ runner[f] # "dead" /\ alive' = alive /\ group' = group
          /\ \E state : runner' = [runner EXCEPT ![f] = state]
      BY <2>1 DEF Register, RunnerReleases, InputEnded, RunnerDies, RunnerBecomes
    <3>. QED BY <3>1 DEF HInv, TypeOK
  <2>2. CASE Launch(f) \/ KillGroup(f)
    <3>1. /\ runner[f] # "dead" /\ alive' = alive
          /\ \E state : runner' = [runner EXCEPT ![f] = state]
          /\ \E state : group' = [group EXCEPT ![f] = state]
      BY <2>2 DEF Launch, KillGroup, RunnerBecomes
    <3>. QED BY <3>1 DEF HInv, TypeOK
  <2>3. CASE CommandEnds(f) \/ StopLeftovers(f)
    <3>1. /\ group[f] # "empty" /\ alive' = alive /\ runner' = runner
          /\ \E state : group' = [group EXCEPT ![f] = state]
      BY <2>3 DEF CommandEnds, StopLeftovers, GroupBecomes
    <3>. QED BY <3>1 DEF HInv, TypeOK
  <2>4. ~Exit(f)
    BY ForeignAssumption DEF Exit
  <2>. QED BY <1>3, <2>1, <2>2, <2>3, <2>4 DEF Ends, RunnerSteps
<1>4. ASSUME NEW f \in Jobs, ForeignSteps(f)
      PROVE  \/ UNCHANGED <<alive, runner, group>>
             \/ ClientSteps(f) \/ Ends(f) \/ KillGroup(f) \/ RunnerDies(f)
  BY <1>4 DEF ForeignSteps, MissesRunner, Connect, HangUp, Cut, Prints, Granted, MaxHold, Abort, HoldEnds,
       AsksForHold, Ask, LookWith, HoldSteps, vars
<1>5. CASE TurnOff \/ TurnOn \/ RefreshLooks \/ RefreshReconciles
  BY <1>5, <1>1 DEF TurnOff, TurnOn, Cut, RefreshLooks, RefreshReconciles, vars
<1>6. CASE ServiceDies
  BY <1>6 DEF ServiceDies, ProcessDies, ProcessEnds
<1>7. CASE UNCHANGED allVars
  BY <1>7, <1>1 DEF allVars, vars
<1>. QED BY <1>1, <1>2, <1>3, <1>4, <1>5, <1>6, <1>7 DEF ForeignNext

LEMMA KnownStays ==
  HInv /\ KnownOK /\ [ForeignNext]_allVars => KnownOK'
<1> SUFFICES ASSUME HInv, KnownOK, [ForeignNext]_allVars PROVE KnownOK'
  OBVIOUS
<1>1. True(known) /\ True(Observed) /\ True({})
  BY ObservedIsTrue DEF HInv, KnownOK
<1>2. known' \in {known, Observed, {}}
  BY DEF ForeignNext, ForeignSteps, Connect, HangUp, Prints, Granted, MaxHold, HoldEnds,
       AsksForHold, HoldSteps, TurnOff, TurnOn, RefreshLooks, RefreshReconciles, ServiceDies,
       allVars, foreignVars
<1>3. /\ \A o \in Owners : <<"exited", o>> \in known' => o \notin alive
      /\ \A k \in Jobs :
            /\ <<"ended", k>> \in known' => runner[k] = "dead" /\ group[k] = "empty"
            /\ <<"orphaned", k>> \in known' => runner[k] = "dead"
  BY <1>1, <1>2 DEF True
<1>. QED BY <1>3, NobodyComesBack DEF KnownOK, True

-----------------------------------------------------------------------------
(* The invariant, and what follows from it.                                *)

LEMMA InitForeign == ForeignInit => ForeignInv
<1> SUFFICES ASSUME ForeignInit PROVE ForeignInv
  OBVIOUS
<1>1. /\ listening = TRUE /\ connected = {} /\ started = {} /\ line = <<>> /\ known = {}
      /\ told = [f \in Jobs |-> "nothing"] /\ holder = [f \in Jobs |-> "silent"]
      /\ client = [j \in Jobs |-> "idle"] /\ alive = Owners
  BY DEF ForeignInit, Init
<1>2. Len(<<>>) = 0 /\ <<>> \in Seq(Jobs) /\ Cardinality({}) = 0
  BY EmptySeq, FS_EmptySet
<1>3. HInv
  BY InitHolds DEF ForeignInit
<1>4. ForeignTypeOK
  BY <1>1, <1>2 DEF ForeignTypeOK
<1>5. LineOK /\ NoIdleRoom
  BY <1>1, <1>2 DEF LineOK, NoIdleRoom
<1>6. StartedOK
  BY <1>1, <1>2, ForeignAssumption DEF StartedOK
<1>7. KnownOK
  BY <1>1 DEF KnownOK, True
<1>. QED BY <1>3, <1>4, <1>5, <1>6, <1>7 DEF ForeignInv

\* The invariant of the permits, the callers and the line.
THEOREM ForeignInvariance == ForeignSpec => []ForeignInv
<1>1. ForeignInit => ForeignInv
  BY InitForeign
<1>2. ForeignInv /\ [ForeignNext]_allVars => ForeignInv'
  <2> SUFFICES ASSUME ForeignInv, [ForeignNext]_allVars PROVE ForeignInv'
    OBVIOUS
  <2>1. HInv /\ CallersOK /\ KnownOK /\ ForeignTypeOK
    BY DEF ForeignInv, CallersOK
  <2>2. HInv'
    BY <2>1, CallersKeepPermits
  <2>3. CallersOK'
    BY <2>1, CallersKeep
  <2>4. KnownOK'
    BY <2>1, KnownStays
  <2>. QED BY <2>2, <2>3, <2>4 DEF ForeignInv, CallersOK
<1>. QED BY <1>1, <1>2, PTL DEF ForeignSpec

\* The switch, the callers, the line and what they heard keep their types.
THEOREM ForeignTypes == ForeignSpec => []ForeignTypeOK
<1>1. ForeignInv => ForeignTypeOK
  BY DEF ForeignInv
<1>. QED BY <1>1, ForeignInvariance, PTL

\* No caller waits beside room for it, whichever of the others hung up, lost
\* its permit or was refused, and whenever the switch was turned.
THEOREM NoRoomIsIdle == ForeignSpec => []NoIdleRoom
<1>1. ForeignInv => NoIdleRoom
  BY DEF ForeignInv
<1>. QED BY <1>1, ForeignInvariance, PTL

\* No more requests of callers are with the governor than the owner allows.
THEOREM RequestsWithinCap == ForeignSpec => []LiveWithinCap
<1>1. ForeignInv => LiveWithinCap
  <2> SUFFICES ASSUME ForeignInv PROVE LiveWithinCap
    OBVIOUS
  <2> DEFINE live == {f \in Jobs : client[f] \notin {"idle", "over"}}
  <2>1. /\ live \subseteq started /\ started \in SUBSET Jobs /\ live \in SUBSET Jobs
        /\ Cardinality(started) <= MaxLeases
    BY DEF ForeignInv, StartedOK, ForeignTypeOK
  <2>2. IsFiniteSet(started) /\ Cardinality(started) \in Nat /\ Cardinality(live) \in Nat
    BY <2>1, JobsFinite
  <2>3. Cardinality(live) <= Cardinality(started)
    BY <2>1, <2>2, FS_Subset
  <2>. QED BY <2>1, <2>2, <2>3, ForeignAssumption DEF LiveWithinCap
<1>. QED BY <1>1, ForeignInvariance, PTL

\* A caller that believes it holds a permit was started, so that the end of its
\* run, which frees its place, is told to it (HoldEnds).
THEOREM BelieversAreStarted == ForeignSpec => []BelieversStarted
<1>1. ForeignInv => BelieversStarted
  <2> SUFFICES ASSUME ForeignInv, NEW f \in Jobs, Believes(f) PROVE f \in started
    BY DEF BelieversStarted
  <2>1. f \in started \cup {line[i] : i \in 1..Len(line)} /\ told[f] = "granted"
    BY DEF Believes, ForeignInv, LineOK
  <2>2. \A i \in 1..Len(line) : told[line[i]] = "nothing"
    BY DEF ForeignInv, LineOK
  <2>. QED BY <2>1, <2>2
<1>. QED BY <1>1, ForeignInvariance, PTL

\* Under the callers' steps the permits of the lane keep what they promise:
\* work keeps its permit and stays within the slots, live requests stay, and
\* nobody is in two places.
THEOREM CallersKeepWhatPermitsPromise ==
  ForeignSpec => [](WorkKeepsItsPermit /\ WorkWithinSlots /\ LiveRequestsStay /\ OnePlace)
<1>1. ForeignInv => WorkKeepsItsPermit /\ WorkWithinSlots /\ LiveRequestsStay /\ OnePlace
  BY PermitsPromise DEF ForeignInv
<1>. QED BY <1>1, ForeignInvariance, PTL

\* Callers leave the lane in order as well: their steps are steps of PermitLane.
THEOREM CallersImplementLane == ForeignSpec => ImplementsLane
<1>1. ForeignInit => Lane!Init
  BY InitInLane DEF ForeignInit
<1>2. HInv /\ HInv' /\ known \in SUBSET Facts /\ KnownOK /\ [ForeignNext]_allVars
        => [Lane!Next]_(Lane!vars)
  <2> SUFFICES ASSUME HInv, HInv', known \in SUBSET Facts, KnownOK, [ForeignNext]_allVars
               PROVE  Lane!Next
    OBVIOUS
  <2>1. CASE UNCHANGED vars
    BY <2>1, StutterInLane
  <2>3. ASSUME NEW stopped, Cut(stopped) PROVE Lane!Next
    <3>1. /\ UNCHANGED <<place, lease, group>>
          /\ \A k \in Jobs : client'[k] \in {client[k], "over"}
      BY <2>3 DEF Cut, journal
    <3>. QED BY <3>1, LaneEnds DEF AtWork
  <2>4. CASE RefreshReconciles
    <3>1. place' = QueueAfter(known) /\ lease' = LeasesAfter(known) /\ UNCHANGED <<client, group>>
      BY <2>4 DEF RefreshReconciles
    <3>2. \A k \in Waiting : QueueAfter(known)[k] = place[k]
      BY WaitersKeepPlaces DEF KnownOK
    <3>3. \A k \in Jobs : LeasesAfter(known)[k] # "none" => lease[k] # "none"
      BY WaitersKeepPlaces DEF KnownOK
    <3>4. \A k \in Jobs : client[k] \in {"waiting", "ready"} => k \in Waiting
      BY DEF Waiting
    <3>. QED BY <3>1, <3>2, <3>3, <3>4, LaneEnds DEF AtWork
  <2>5. CASE ServiceDies
    BY <2>5, ProcessEndsInLane DEF ServiceDies, ProcessDies
  <2>6. CASE UNCHANGED allVars \/ TurnOn \/ RefreshLooks
    BY <2>1, <2>6 DEF allVars, TurnOn, RefreshLooks
  <2>7. CASE TurnOff
    BY <2>3, <2>7 DEF TurnOff
  <2>8. ASSUME NEW f \in Jobs, ForeignSteps(f) PROVE Lane!Next
    <3>1. CASE Connect(f) \/ Prints(f) \/ Granted(f) \/ HoldEnds(f)
      BY <2>1, <3>1 DEF Connect, Prints, Granted, HoldEnds
    <3>2. CASE HangUp(f)
      BY <2>3, <3>2 DEF HangUp
    <3>3. CASE \/ MaxHold(f) \/ AsksForHold(f) \/ HoldSteps(f)
               \/ Ends(f) \/ KillGroup(f) \/ MissesRunner(f) \/ RunnerDies(f)
      <4>1. Next
        BY <3>3 DEF MaxHold, AsksForHold, HoldSteps, Next
      <4>. QED BY <4>1, StepInLane
    <3>. QED BY <2>8, <3>1, <3>2, <3>3 DEF ForeignSteps
  <2>. QED BY <2>1, <2>4, <2>5, <2>6, <2>7, <2>8 DEF ForeignNext
<1>3. ForeignInv => HInv /\ known \in SUBSET Facts /\ KnownOK
  BY DEF ForeignInv, ForeignTypeOK
<1>. QED BY <1>1, <1>2, <1>3, ForeignInvariance, PTL
         DEF ForeignSpec, ImplementsLane, Lane!Spec

=============================================================================
