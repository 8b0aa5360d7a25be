CONSTANTS
    u = u
    v = v
    w = w
    Empty = Empty
    Absent = Absent
    None = None
    Word = {u, v, w}
    MAX_HEADING_BLOCK_LINES = 8
    Page <- MCPage
SPECIFICATION AdapterSpec
INVARIANT OrphansAreAbsorbed
