CONSTANTS
    v = v
    w = w
    Empty = Empty
    Absent = Absent
    None = None
    Separator = Separator
    Word = {v, w}
    MaxLines = 5
    MaxFeatLines = 7
    MAX_HEADING_BLOCK_LINES = 2
    Page <- MCPage
SPECIFICATION AdapterSpec
INVARIANTS HeadingsAreFound EntriesAreWhole AdapterInvariant OneCandidatePerEntry BlocksParseBack
