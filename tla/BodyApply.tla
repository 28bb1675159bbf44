------------------------------ MODULE BodyApply ------------------------------
(***************************************************************************)
(* How one boot, or several cut short by crashes, installs a staged        *)
(* transfer: each entry the bundle replaces is archived and the staged     *)
(* copy renamed into place, the settings follow, the staged bundle is      *)
(* removed, and last the self record says active.  BodyTransfer takes the  *)
(* steps before the removal as one; here every rename can be the last one  *)
(* before a crash.                                                         *)
(***************************************************************************)
EXTENDS Naturals, Sequences

CONSTANTS
    Entries,     \* how many paths the manifest replaces, in its order
    MaxCrashes   \* bound on the boots that are cut short

ASSUME BoundsAssumption == Entries \in Nat \ {0} /\ MaxCrashes \in Nat

VARIABLES
    target,      \* what lies at each entry's path: "none", "old" or "new"
    archived,    \* what lies in the transfer's archive for it
    staged,      \* is the bundle's copy still under transfer/incoming
    manifest,    \* is the staged manifest still there
    settings,    \* the settings in force: "old" or "new"
    kept,        \* the archived settings: "none", "partial" while they are copied
                 \* or once the copy was cut short, "old" or "new"
    outcome,     \* the transfer record: "applying" or "applied"
    pc,          \* the boot's next step, "down", "active" or "dormant"
    entry,       \* the entry the boot is at
    crashes,     \* boots cut short so far
    torn,        \* history: one of them was cut while it copied the settings
    before,      \* what lay at each path when the apply was committed
    bundle       \* which entries the bundle has a copy of

disk == <<target, archived, staged, manifest, settings, kept, outcome>>
cuts == <<crashes, torn>>
start == <<before, bundle>>
vars == <<disk, pc, entry, cuts, start>>

Index == 1..Entries

Steps == {"archive", "install", "keepSettings", "copySettings", "settings", "remove",
          "activate"}

TypeOK ==
    /\ target \in [Index -> {"none", "old", "new"}]
    /\ archived \in [Index -> {"none", "old", "new"}]
    /\ staged \in [Index -> BOOLEAN]
    /\ manifest \in BOOLEAN
    /\ settings \in {"old", "new"}
    /\ kept \in {"none", "partial", "old", "new"}
    /\ outcome \in {"applying", "applied"}
    /\ pc \in Steps \cup {"down", "active", "dormant"}
    /\ entry \in 1..(Entries + 1)
    /\ crashes \in 0..MaxCrashes
    /\ torn \in BOOLEAN
    /\ before \in [Index -> {"none", "old"}]
    /\ bundle \in [Index -> BOOLEAN]

\* An apply was just committed: a bundle is staged over whatever is there.
Init ==
    /\ before \in [Index -> {"none", "old"}]
    /\ bundle \in [Index -> BOOLEAN]
    /\ target = before
    /\ archived = [e \in Index |-> "none"]
    /\ staged = bundle
    /\ manifest = TRUE
    /\ settings = "old"
    /\ kept = "none"
    /\ outcome = "applying"
    /\ pc = "down"
    /\ entry = 1
    /\ crashes = 0
    /\ torn = FALSE

\* Mutant: a boot takes the record's word and finishes nothing.
BootFinishesNothing ==
    /\ pc = "down"
    /\ pc' = IF outcome = "applied" THEN "active" ELSE "dormant"
    /\ entry' = 1
    /\ UNCHANGED <<disk, cuts, start>>

\* A boot reads the staged manifest.  Without it the boot reports an error
\* and the body stays dormant.
Boot ==
    /\ pc = "down"
    /\ pc' = IF outcome = "applied" THEN "active"
             ELSE IF manifest THEN "archive" ELSE "dormant"
    /\ entry' = 1
    /\ UNCHANGED <<disk, cuts, start>>

\* Mutant: every existing target moves into the archive, over an earlier copy.
ArchiveAlways ==
    /\ pc = "archive"
    /\ IF target[entry] # "none"
       THEN /\ archived' = [archived EXCEPT ![entry] = target[entry]]
            /\ target' = [target EXCEPT ![entry] = "none"]
       ELSE UNCHANGED <<archived, target>>
    /\ pc' = "install"
    /\ UNCHANGED <<staged, manifest, settings, kept, outcome, entry, cuts,
                   start>>

\* An existing target without an archived copy moves into the archive.
Archive ==
    /\ pc = "archive"
    /\ IF target[entry] # "none" /\ archived[entry] = "none"
       THEN /\ archived' = [archived EXCEPT ![entry] = target[entry]]
            /\ target' = [target EXCEPT ![entry] = "none"]
       ELSE UNCHANGED <<archived, target>>
    /\ pc' = "install"
    /\ UNCHANGED <<staged, manifest, settings, kept, outcome, entry, cuts,
                   start>>

\* Mutant: the last entry is forgotten.
InstallStopsEarly ==
    /\ pc = "install"
    /\ IF staged[entry] /\ target[entry] = "none"
       THEN /\ target' = [target EXCEPT ![entry] = "new"]
            /\ staged' = [staged EXCEPT ![entry] = FALSE]
       ELSE UNCHANGED <<target, staged>>
    /\ entry' = entry + 1
    /\ pc' = IF entry + 1 >= Entries THEN "keepSettings" ELSE "archive"
    /\ UNCHANGED <<archived, manifest, settings, kept, outcome, cuts, start>>

\* A staged copy moves to a path that is free.
Install ==
    /\ pc = "install"
    /\ IF staged[entry] /\ target[entry] = "none"
       THEN /\ target' = [target EXCEPT ![entry] = "new"]
            /\ staged' = [staged EXCEPT ![entry] = FALSE]
       ELSE UNCHANGED <<target, staged>>
    /\ entry' = entry + 1
    /\ pc' = IF entry = Entries THEN "keepSettings" ELSE "archive"
    /\ UNCHANGED <<archived, manifest, settings, kept, outcome, cuts, start>>

\* Mutant: every boot archives the settings in force.
KeepSettingsAgain ==
    /\ pc = "keepSettings"
    /\ kept' = "partial"
    /\ pc' = "copySettings"
    /\ UNCHANGED <<target, archived, staged, manifest, settings, outcome,
                   entry, cuts, start>>

\* The settings are archived before the bundle's are merged in, unless there is
\* a file of that name already.  The copy is written at its final path, so it
\* is there, in part, from its first byte on.
KeepSettings ==
    /\ pc = "keepSettings"
    /\ IF kept = "none"
       THEN kept' = "partial" /\ pc' = "copySettings"
       ELSE pc' = "settings" /\ UNCHANGED kept
    /\ UNCHANGED <<target, archived, staged, manifest, settings, outcome,
                   entry, cuts, start>>

CopySettings ==
    /\ pc = "copySettings"
    /\ kept' = settings
    /\ pc' = "settings"
    /\ UNCHANGED <<target, archived, staged, manifest, settings, outcome,
                   entry, cuts, start>>

UpdateSettings ==
    /\ pc = "settings"
    /\ settings' = "new"
    /\ pc' = "remove"
    /\ UNCHANGED <<target, archived, staged, manifest, kept, outcome, entry,
                   cuts, start>>

RemoveIncoming ==
    /\ pc = "remove"
    /\ manifest' = FALSE
    /\ staged' = [e \in Index |-> FALSE]
    /\ pc' = "activate"
    /\ UNCHANGED <<target, archived, settings, kept, outcome, entry, cuts,
                   start>>

Activate ==
    /\ pc = "activate"
    /\ outcome' = "applied"
    /\ pc' = "active"
    /\ UNCHANGED <<target, archived, staged, manifest, settings, kept, entry,
                   cuts, start>>

\* A boot does not get to its end.
CutShort(next) ==
    /\ pc \in Steps
    /\ crashes < MaxCrashes
    /\ pc' = next
    /\ crashes' = crashes + 1
    /\ torn' = (torn \/ pc = "copySettings")
    /\ UNCHANGED <<target, archived, settings, outcome, entry, start>>

\* The process dies during the boot.
Crash == CutShort("down") /\ UNCHANGED <<staged, manifest, kept>>

\* Mutant: a failed boot cleans the staged bundle up, as a failed stage does.
FailCleansUp ==
    /\ CutShort("dormant")
    /\ manifest' = FALSE
    /\ staged' = [e \in Index |-> FALSE]
    /\ UNCHANGED kept

\* A step fails: the boot reports the error and the body stays dormant.  A copy
\* that fails may take its file away.
Fail ==
    /\ CutShort("dormant")
    /\ kept' \in {kept} \cup (IF pc = "copySettings" THEN {"none"} ELSE {})
    /\ UNCHANGED <<staged, manifest>>

\* The owner restarts a body that reports a boot error.
Restart ==
    /\ pc = "dormant"
    /\ pc' = "down"
    /\ UNCHANGED <<disk, entry, cuts, start>>

Step == Archive \/ Install \/ KeepSettings \/ CopySettings \/ UpdateSettings
            \/ RemoveIncoming \/ Activate

\* An active body has nothing left to apply.
Done == pc = "active" /\ UNCHANGED vars

Next == Boot \/ Step \/ Crash \/ Fail \/ Restart \/ Done

Spec == Init /\ [][Next]_vars

\* The boot keeps taking its steps, its supervisor starts the body again, and
\* an owner restarts one that reports an error.
FairSpec == Spec /\ WF_vars(Boot) /\ WF_vars(Step) /\ WF_vars(Restart)

-----------------------------------------------------------------------------
(* Properties.                                                             *)

\* However often the boot is cut short, what lay at a path is still at the
\* path or in the archive.
OldIsKept ==
    \A e \in Index : before[e] = "old" => "old" \in {target[e], archived[e]}

\* Once the bundle's settings are merged into the owner's, the archive has the
\* owner's as they were, also when the boot that merged them is repeated: what
\* is archived is never the merged ones.  Only a boot cut while it copied them
\* leaves a part instead, which every later boot takes for the whole.
OldSettingsKeptUnlessTorn ==
    settings = "new" => kept = "old" \/ (torn /\ kept = "partial")

\* What the transfer brought is somewhere: staged, in place or archived.
NewIsKept ==
    \A e \in Index :
        bundle[e] => staged[e] \/ "new" \in {target[e], archived[e]}

\* Once active, an entry that had a predecessor is the bundle's: its copy is
\* installed, and where the bundle has none nothing old is left behind.
ReplacedWhenActive ==
    outcome = "applied" =>
        \A e \in Index : before[e] = "old" =>
            target[e] = IF bundle[e] THEN "new" ELSE "none"

\* An apply ends with an active body unless the staged bundle was removed and
\* the record that follows was not written.
EndsUnlessCutAtRecord ==
    <>[](pc = "active" \/ (~manifest /\ outcome = "applying"))

-----------------------------------------------------------------------------
(* A claim of the source's comments that the code does not keep.           *)

\* "Every step is repeatable, so a crash part way comes back here": a body
\* that committed to an apply ends up active.
CrashComesBack == <>(pc = "active")

=============================================================================
