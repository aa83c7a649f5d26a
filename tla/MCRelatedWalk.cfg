SPECIFICATION Spec
CONSTANTS
    Groups <- MCGroups
    RowUniverse <- MCRowUniverse
INVARIANTS
    WalkInv
    WalkExact
PROPERTY
    WalkEnds
