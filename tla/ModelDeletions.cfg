SPECIFICATION DeletionSpec
CONSTANTS
    MaxNodes = 5
    Sizes <- TwoSizes
INVARIANTS
    AlwaysAggregated
    TombstonesClosed
PROPERTY
    DeletionExact
