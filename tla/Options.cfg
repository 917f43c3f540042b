CONSTANTS
    Missing = Missing
    Classes = {"test", "compare", "extract", "repair", "isolate", "create", "merge", "read",
               "slicing", "ciphering", "compr", "recompr", "sig_block"}
    MaxSteps = 4
SPECIFICATION OptionsSpec
INVARIANTS
    FormIsCoherent
    DependenciesAreExact
    WhatIsShownIsUsed
PROPERTIES
    FormIsStored
CHECK_DEADLOCK FALSE
