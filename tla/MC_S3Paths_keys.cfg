CONSTANTS
    Chars <- MC_Chars
    Root <- MC_Root

SPECIFICATION Spec

INVARIANT KeysListAsWritten
