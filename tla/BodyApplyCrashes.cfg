SPECIFICATION FairSpec
CONSTANTS
    Entries = 3
    MaxCrashes = 3
INVARIANTS
    OldIsKept
    OldSettingsKeptUnlessTorn
    NewIsKept
    ReplacedWhenActive
PROPERTIES
    EndsUnlessCutAtRecord
