CONSTANTS
    Programs <- MCPrograms
    Prefix <- MCPrefix
    NoTag = NoTag
    Dash = Dash
    Unset = Unset
SPECIFICATION Spec
INVARIANT FaultsAreAsDocumented
