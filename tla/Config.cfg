SPECIFICATION ConfigSpec
CHECK_DEADLOCK FALSE
CONSTANTS
    None = None
    Options <- MCOptions
    MaxOptions = 4
    Alone <- MCAlone
    UIntBits = 27
    Chars <- MCChars
INVARIANTS ReadsAsWritten StartsIffUsable
