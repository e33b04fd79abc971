CONSTANTS
    here = here
    there = there
    c1 = c1
    c2 = c2
    j1 = j1
    j2 = j2
    s1 = s1
    t1 = t1
    none = none
    noplan = noplan
    DataDir <- here
    NoValue <- none
    NoPlan <- noplan
    Latest = 2
    Limits <- MCLimits
    Roots <- MCRoots
    Sidecars <- MCSidecars
    Archives <- MCArchives
    Original = "good"
    MaxRestores = 2
    MaxFaults = 1
    MaxSpawns = 3
SPECIFICATION SFairSpec
CHECK_DEADLOCK FALSE
INVARIANTS RestoreSound
PROPERTIES ShellSafe CommitIsFinal RestoreSettles
