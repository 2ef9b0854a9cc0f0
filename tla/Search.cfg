SPECIFICATION Spec
CONSTANTS
    Lower <- MCLower
    AsciiUpper <- MCAsciiUpper
    Arenas <- MCArenas
    Texts <- MCTexts
    MaxScans = 3
    MaxTyped = 2
INVARIANTS
    NoFalseHits
    NoMissingHits
PROPERTY QueryServed
CHECK_DEADLOCK FALSE
