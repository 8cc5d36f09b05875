CONSTANTS
    Programs <- MCPrograms
    Prefix <- MCPrefix
    NoTag = NoTag
    Dash = Dash
    Unset = Unset
SPECIFICATION Spec
INVARIANT FaultsAreReported
INVARIANT ValueIsWhole
PROPERTY WalkAdvances
