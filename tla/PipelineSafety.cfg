CONSTANTS
    w1 = w1
    w2 = w2
    v = v
    d1 = d1
    d2 = d2
    p1 = p1
    p2 = p2
    two = two
    none = none
    blank = blank
    b1 = b1
    b2 = b2
    NoSource = NoSource
    DocVersion = {v}
    Digest = {d1, d2}
    Fragment = {two, none, blank}
    ParserVersion = {p1, p2}
    Batch = {b1, b2}
    BlockCount <- MCBlockCount
    Blank = {blank}
    Source <- MCSource
    Worker = {w1, w2}
    VersionOf <- SameRelease
    NumRoutes = 3
    Request <- MalformedAndDuplicates
    Malformed = Malformed
    UnknownAction = UnknownAction
    Oversized = {}
    Nobody = Nobody
SYMMETRY PipelineSymmetry
SPECIFICATION PipelineSpec
INVARIANTS
    CompletedMeansAdmitted
    OneIdPerRule
    PipelineInvariant
PROPERTIES
    ImplementsRuleAdmission
