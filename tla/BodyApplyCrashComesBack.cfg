SPECIFICATION FairSpec
CONSTANTS
    Entries = 2
    MaxCrashes = 1
PROPERTY CrashComesBack
