SPECIFICATION FairSpec
CONSTANTS
    Paths <- MCPaths
    ParentOf <- MCParentOf
    InodeType <- MCInodeType
    TargetType <- MCTargetType
    Absent <- MCAbsent
    NewDir <- MCNewDir
    Filtered = {}
    Uses <- MCUses
    Repos = {1, 2}
    MaxPresses = 3
    MaxFailures = 1
INVARIANTS ServerMeetsNoBug ListingIsCurrent
PROPERTIES BrowsesAsTold LoadingEnds
