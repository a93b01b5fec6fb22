SPECIFICATION FairSpec
CONSTANTS
    Width = 3
    Height = 2
INVARIANTS
    ListRight
PROPERTIES
    ImplementsDamage
    InsertReturns
