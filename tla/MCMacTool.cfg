SPECIFICATION Spec
CONSTANTS
    Chars <- MCChars
    Names <- MCNames
    Glyphs <- MCGlyphs
    Rank <- MCRank
    MaxText = 5
    MaxMacro = 4
    Macros <- AllWords
    Strange = {"odd"}
INVARIANTS
    RoundTrip
    DropsOnlyComments
    StripsOutsideQuotes
CHECK_DEADLOCK FALSE
