\* Five nodes on the way to two waypoints.
CONSTANTS
    MaxNodes = 5
    Goals = 2
    Lengths <- ThreeLengths
    Tries = 3
SPECIFICATION FairSpec
INVARIANTS
    IsTree
    CostsAreLengths
    SearchIsBelowHead
PROPERTIES
    CostsOnlyFall
    StarReturns
