--------------------------- MODULE BodyApplyProofs ---------------------------
(***************************************************************************)
(* For any number of entries and of boots cut short, an apply loses        *)
(* nothing: what lay at a path, the owner's settings and what the transfer *)
(* brought are each somewhere, and what had a predecessor is replaced once *)
(* the body is active.                                                     *)
(***************************************************************************)
EXTENDS BodyApply, TLAPS

\* An entry moves from its path to the archive, and a copy from the staged
\* bundle to the path: each is in one place.
PathOK(e) ==
    /\ staged[e] <=> bundle[e] /\ target[e] # "new" /\ archived[e] # "new"
    /\ target[e] = "new" \/ archived[e] = "new" => bundle[e]
    /\ before[e] = "old" => (target[e] = "old" <=> archived[e] # "old")
    /\ before[e] = "old" => archived[e] # "new"
    /\ before[e] = "none" => target[e] # "old" /\ archived[e] # "old"
    /\ target[e] # "none" => archived[e] # target[e]

\* Nothing old is at the path and no copy waits for it.
Handled(e) == ~staged[e] /\ target[e] # "old"

\* The entries before the boot's own are done with, and all of them once the
\* staged bundle may go.
HandledSoFar ==
    /\ pc \in {"archive", "install"} =>
          entry \in Index /\ \A e \in Index : e < entry => Handled(e)
    /\ pc = "install" => target[entry] # "old"
    /\ pc \in {"keepSettings", "copySettings", "settings", "remove"} \/ ~manifest =>
          \A e \in Index : Handled(e)

\* The staged manifest is there until the bundle is removed, and the record is
\* the last thing written.
OrderOK ==
    /\ pc \in Steps \ {"activate"} => manifest /\ outcome = "applying"
    /\ pc = "activate" \/ outcome = "applied" => ~manifest
    /\ outcome = "applied" => pc = "active"

\* Only the settings in force before the apply are copied, and a part of them
\* lies in the archive during the copy or after one that was cut short.
SettingsOK ==
    /\ kept # "new"
    /\ kept = "partial" => pc = "copySettings" \/ torn
    /\ pc = "copySettings" => settings = "old"
    /\ settings = "new" \/ pc = "settings" => kept \in {"old", "partial"}

AInv ==
    /\ TypeOK
    /\ \A e \in Index : PathOK(e)
    /\ HandledSoFar
    /\ OrderOK
    /\ SettingsOK

-----------------------------------------------------------------------------
(* Each part is kept by every step.                                        *)

LEMMA InitAInv == Init => AInv
<1> SUFFICES ASSUME Init PROVE AInv
  OBVIOUS
<1>1. TypeOK
  <2>1. entry \in 1..(Entries + 1) /\ crashes \in 0..MaxCrashes
    BY BoundsAssumption DEF Init
  <2>2. target \in [Index -> {"none", "old", "new"}]
    BY DEF Init
  <2>. QED BY <2>1, <2>2 DEF Init, TypeOK
<1>2. \A e \in Index : PathOK(e)
  BY DEF Init, PathOK
<1>. QED BY <1>1, <1>2 DEF Init, AInv, HandledSoFar, OrderOK, SettingsOK, Steps

\* The boot is at an entry of the manifest while it is at one at all.
LEMMA AtAnEntry ==
  ASSUME TypeOK, HandledSoFar, Archive \/ Install
  PROVE  entry \in Index
  BY DEF HandledSoFar, Archive, Install

LEMMA StepTypeOK ==
  ASSUME AInv, [Next]_vars
  PROVE  TypeOK'
<1> USE BoundsAssumption DEF disk, cuts, start, Steps
<1>0. TypeOK /\ HandledSoFar
  BY DEF AInv
<1>1. CASE Archive
  <2>1. entry \in Index
    BY <1>0, <1>1, AtAnEntry
  <2>. QED BY <1>0, <1>1, <2>1 DEF Archive, TypeOK
<1>2. CASE Install
  <2>1. entry \in Index
    BY <1>0, <1>2, AtAnEntry
  <2>2. entry' \in 1..(Entries + 1)
    BY <1>2, <2>1 DEF Install, Index
  <2>. QED BY <1>0, <1>2, <2>1, <2>2 DEF Install, TypeOK
<1>3. CASE KeepSettings \/ CopySettings \/ UpdateSettings \/ RemoveIncoming \/ Activate
  BY <1>0, <1>3 DEF KeepSettings, CopySettings, UpdateSettings, RemoveIncoming, Activate,
     TypeOK
<1>4. CASE Boot \/ Restart \/ Done \/ UNCHANGED vars
  BY <1>0, <1>4 DEF Boot, Restart, Done, vars, TypeOK
<1>5. CASE Crash \/ Fail
  <2>1. crashes' \in 0..MaxCrashes
    BY <1>0, <1>5 DEF Crash, Fail, CutShort, TypeOK
  <2>2. kept' \in {"none", "partial", "old", "new"}
    BY <1>0, <1>5 DEF Crash, Fail, TypeOK
  <2>3. torn' \in BOOLEAN
    BY <1>5, Zenon DEF Crash, Fail, CutShort
  <2>. QED BY <1>0, <1>5, <2>1, <2>2, <2>3 DEF Crash, Fail, CutShort, TypeOK
<1>. QED BY <1>1, <1>2, <1>3, <1>4, <1>5 DEF Next, Step

LEMMA StepPathOK ==
  ASSUME AInv, [Next]_vars, NEW e \in Index
  PROVE  PathOK(e)'
<1> USE DEF disk, cuts, start
<1>0. TypeOK /\ HandledSoFar /\ OrderOK /\ PathOK(e)
  BY DEF AInv
<1>1. CASE Archive
  BY <1>0, <1>1 DEF Archive, TypeOK, PathOK
<1>2. CASE Install
  <2>1. target[entry] # "old"
    BY <1>0, <1>2 DEF HandledSoFar, Install
  <2>. QED BY <1>0, <1>2, <2>1 DEF Install, TypeOK, PathOK
<1>3. CASE RemoveIncoming
  <2>1. ~staged[e]
    BY <1>0, <1>3 DEF RemoveIncoming, HandledSoFar, Handled
  <2>. QED BY <1>0, <1>3, <2>1 DEF RemoveIncoming, PathOK
<1>4. CASE UNCHANGED <<target, archived, staged, before, bundle>>
  BY <1>0, <1>4 DEF PathOK
<1>. QED BY <1>1, <1>2, <1>3, <1>4
         DEF Next, Step, KeepSettings, CopySettings, UpdateSettings, Activate, Boot,
             Restart, Done, Crash, Fail, CutShort, vars

LEMMA StepHandledSoFar ==
  ASSUME AInv, [Next]_vars
  PROVE  HandledSoFar'
<1> USE DEF disk, cuts, start
<1>0. TypeOK /\ HandledSoFar /\ OrderOK /\ \A e \in Index : PathOK(e)
  BY DEF AInv
<1>1. CASE Archive
  <2>1. /\ pc = "archive" /\ pc' = "install" /\ entry' = entry /\ staged' = staged
        /\ manifest' = manifest /\ manifest = TRUE
    BY <1>0, <1>1 DEF Archive, OrderOK, Steps
  <2>2. entry \in Index /\ \A e \in Index : e < entry => Handled(e)
    BY <1>0, <2>1 DEF HandledSoFar
  <2>3. \A e \in Index : target'[e] # "old" \/ target'[e] = target[e]
    BY <1>0, <1>1, <2>2 DEF Archive, TypeOK
  <2>4. target'[entry] # "old"
    BY <1>0, <1>1, <2>2 DEF Archive, TypeOK, PathOK
  <2>. QED BY <2>1, <2>2, <2>3, <2>4 DEF HandledSoFar, Handled
<1>2. CASE Install
  <2>1. /\ pc = "install" /\ entry' = entry + 1
        /\ pc' = IF entry = Entries THEN "keepSettings" ELSE "archive"
        /\ manifest' = manifest /\ manifest = TRUE
    BY <1>0, <1>2 DEF Install, OrderOK, Steps
  <2>2. /\ entry \in Index /\ target[entry] # "old"
        /\ \A e \in Index : e < entry => Handled(e)
    BY <1>0, <2>1 DEF HandledSoFar
  <2>3. ~staged'[entry] /\ target'[entry] # "old"
    <3>1. CASE staged[entry] /\ target[entry] = "none"
      BY <1>0, <1>2, <2>2, <3>1 DEF Install, TypeOK
    <3>2. CASE ~(staged[entry] /\ target[entry] = "none")
      <4>1. UNCHANGED <<target, staged>>
        BY <1>2, <3>2 DEF Install
      <4>2. target[entry] = "new" => ~staged[entry]
        BY <1>0, <2>2 DEF PathOK
      <4>3. ~staged[entry]
        BY <1>0, <2>2, <3>2, <4>2 DEF TypeOK
      <4>. QED BY <2>2, <4>1, <4>3
    <3>. QED BY <3>1, <3>2
  <2>4. ASSUME NEW e \in Index, e < entry
        PROVE  ~staged'[e] /\ target'[e] # "old"
    <3>1. ~staged[e] /\ target[e] # "old" /\ e # entry
      BY <2>2, <2>4 DEF Handled, Index
    <3>2. staged'[e] = staged[e] /\ target'[e] = target[e]
      BY <1>0, <1>2, <3>1 DEF Install, TypeOK
    <3>. QED BY <3>1, <3>2
  <2>5. \A e \in Index : e <= entry => ~staged'[e] /\ target'[e] # "old"
    BY <2>2, <2>3, <2>4 DEF Index
  <2>. QED BY <2>1, <2>2, <2>5, BoundsAssumption DEF HandledSoFar, Handled, Index
<1>3. CASE KeepSettings \/ CopySettings \/ UpdateSettings \/ RemoveIncoming \/ Activate
  <2>1. \A e \in Index : Handled(e)
    BY <1>0, <1>3 DEF HandledSoFar, OrderOK, KeepSettings, CopySettings,
       UpdateSettings, RemoveIncoming, Activate
  <2>2. /\ target' = target /\ \A e \in Index : staged'[e] => staged[e]
        /\ pc' \notin {"archive", "install"}
    BY <1>3 DEF KeepSettings, CopySettings, UpdateSettings, RemoveIncoming, Activate
  <2>. QED BY <2>1, <2>2 DEF HandledSoFar, Handled
<1>4. CASE Boot
  <2>1. /\ UNCHANGED <<target, staged, manifest>> /\ entry' = 1
        /\ pc' \in {"archive", "active", "dormant"}
    BY <1>4 DEF Boot
  <2>2. 1 \in Index /\ \A e \in Index : ~(e < 1)
    BY BoundsAssumption DEF Index
  <2>. QED BY <1>0, <2>1, <2>2 DEF HandledSoFar, Handled
<1>5. CASE Crash \/ Fail \/ Restart
  BY <1>0, <1>5 DEF Crash, Fail, CutShort, Restart, HandledSoFar, Handled
<1>6. CASE Done \/ UNCHANGED vars
  BY <1>0, <1>6 DEF Done, vars, HandledSoFar, Handled
<1>. QED BY <1>1, <1>2, <1>3, <1>4, <1>5, <1>6 DEF Next, Step

LEMMA StepOrderOK ==
  ASSUME AInv, [Next]_vars
  PROVE  OrderOK'
<1>. USE DEF disk, cuts, start, Steps
<1>0. TypeOK /\ OrderOK
  BY DEF AInv
<1>1. CASE Archive \/ Install \/ KeepSettings \/ CopySettings \/ UpdateSettings
  BY <1>0, <1>1 DEF Archive, Install, KeepSettings, CopySettings, UpdateSettings, OrderOK
<1>2. CASE RemoveIncoming \/ Activate
  BY <1>0, <1>2 DEF RemoveIncoming, Activate, OrderOK
<1>3. CASE Boot
  BY <1>0, <1>3 DEF Boot, OrderOK, TypeOK
<1>4. CASE Crash \/ Fail \/ Restart \/ Done \/ UNCHANGED vars
  BY <1>0, <1>4 DEF Crash, Fail, CutShort, Restart, Done, vars, OrderOK
<1>. QED BY <1>1, <1>2, <1>3, <1>4 DEF Next, Step

LEMMA StepSettingsOK ==
  ASSUME AInv, [Next]_vars
  PROVE  SettingsOK'
<1> USE DEF disk, cuts, start
<1>0. TypeOK /\ SettingsOK
  BY DEF AInv
<1>1. CASE KeepSettings
  BY <1>0, <1>1 DEF KeepSettings, TypeOK, SettingsOK
<1>2. CASE CopySettings \/ UpdateSettings
  BY <1>0, <1>2 DEF CopySettings, UpdateSettings, SettingsOK
<1>3. CASE /\ UNCHANGED <<settings, kept, torn>>
           /\ pc # "copySettings" /\ pc' \notin {"copySettings", "settings"}
  BY <1>0, <1>3 DEF SettingsOK
<1>4. CASE Crash \/ Fail
  BY <1>0, <1>4 DEF Crash, Fail, CutShort, TypeOK, SettingsOK
<1>5. CASE Done \/ UNCHANGED vars
  BY <1>0, <1>5 DEF Done, vars, SettingsOK
<1>. QED BY <1>1, <1>2, <1>3, <1>4, <1>5
         DEF Next, Step, Archive, Install, RemoveIncoming, Activate, Boot, Restart

LEMMA StepAInv == AInv /\ [Next]_vars => AInv'
<1> SUFFICES ASSUME AInv, [Next]_vars PROVE AInv'
  OBVIOUS
<1>1. \A e \in Index : PathOK(e)'
  BY StepPathOK
<1>. QED BY <1>1, StepTypeOK, StepHandledSoFar, StepOrderOK, StepSettingsOK
         DEF AInv, Index

-----------------------------------------------------------------------------
(* What an apply keeps, however often it is cut short.                     *)

\* The invariant: every entry is where the steps so far have put it, whatever
\* boot was cut short at whatever rename (applyStaged in body-transfer.ts).
THEOREM ApplyInvariance == Spec => []AInv
  BY InitAInv, StepAInv, PTL DEF Spec

\* The files, the record and the boot's place keep their types.
THEOREM ApplyTypes == Spec => []TypeOK
<1>1. AInv => TypeOK
  BY DEF AInv
<1>. QED BY <1>1, ApplyInvariance, PTL

\* What lay at a path is at the path or in the archive: no rename goes over
\* an earlier copy (applyStaged archives only what has no archived copy).
THEOREM OldNeverLost == Spec => []OldIsKept
<1>1. AInv => OldIsKept
  BY DEF AInv, OldIsKept, PathOK
<1>. QED BY <1>1, ApplyInvariance, PTL

\* Once the bundle's settings are merged, the owner's are archived as they were,
\* also by boots that repeat the steps, unless a boot was cut while it copied
\* them: the copy is at its final path from the start, and a later boot leaves
\* alone what it finds there (applyStaged, archivedSettings).
THEOREM SettingsArchived == Spec => []OldSettingsKeptUnlessTorn
<1>1. AInv => OldSettingsKeptUnlessTorn
  BY DEF AInv, SettingsOK, OldSettingsKeptUnlessTorn
<1>. QED BY <1>1, ApplyInvariance, PTL

\* What the transfer brought is staged, in place or archived, also after the
\* staged bundle was removed (applyStaged, before its last record).
THEOREM NewNeverLost == Spec => []NewIsKept
<1>1. AInv => NewIsKept
  BY DEF AInv, NewIsKept, PathOK
<1>. QED BY <1>1, ApplyInvariance, PTL

\* Once active, whatever had a predecessor is the bundle's, and nothing old
\* is left in place where the bundle has nothing (applyStaged and boot).
THEOREM PredecessorsReplaced == Spec => []ReplacedWhenActive
<1>1. AInv => ReplacedWhenActive
  <2> SUFFICES ASSUME AInv, outcome = "applied",
                      NEW e \in Index, before[e] = "old"
               PROVE  target[e] = IF bundle[e] THEN "new" ELSE "none"
    BY DEF ReplacedWhenActive
  <2>1. PathOK(e) /\ Handled(e) /\ target[e] \in {"none", "old", "new"}
    BY DEF AInv, OrderOK, HandledSoFar, TypeOK
  <2>. QED BY <2>1 DEF PathOK, Handled
<1>. QED BY <1>1, ApplyInvariance, PTL

=============================================================================
