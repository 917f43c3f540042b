SPECIFICATION Spec
CONSTANTS
    Nodes <- MCNodes
    Root = "root"
    Children <- MCChildren
    Kind <- MCKind
    Hidden <- MCHidden
    Reactions <- MCReactions
    Requests <- MCRequests
    MaxLoop = 6
INVARIANTS PageIsStable ActsOnce
PROPERTY PostIsKept
