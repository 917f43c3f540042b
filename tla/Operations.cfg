SPECIFICATION FairSpec
CONSTANTS
    Tags = {"main", "test", "merge", "biblio", "sessions", "close"}
    Readers = {"merge", "test"}
    Writers = {"merge"}
    Local = 1
    Repos = {1, 2}
    Defaults = {2}
    MaxPresses = 3
INVARIANTS OperationFindsItsParameters PathsBrowseTheRepository
PROPERTIES WaitingEnds
