SPECIFICATION Spec
CONSTANTS
    Lower <- MCLower
    AsciiUpper <- MCAsciiUpper
    Arenas <- MCArenas
    Texts <- MCTexts
    MaxScans = 2
    MaxTyped = 3
INVARIANT HitsInArena
CHECK_DEADLOCK FALSE
