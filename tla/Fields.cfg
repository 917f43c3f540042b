CONSTANTS
    Kinds = {"names", "paths", "relative paths", "action", "mounts", "links", "persons", "size", "date"}
    MaxSteps <- MCMaxSteps
    MaxRows = 2
    MaxNumber = 7
    Bases <- MCBases
    MaxPower = 2
    Months <- MCMonths
    Hours = 2
    Minutes = 4
    TypoMinute = 1
SPECIFICATION Spec
INVARIANTS
    ShownIsMeant
PROPERTIES
    NothingElseChanges
    ChangeOfMeaningIsTold
CHECK_DEADLOCK FALSE
