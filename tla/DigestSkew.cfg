CONSTANTS
    w1 = w1
    w2 = w2
    w3 = w3
    v = v
    d1 = d1
    d2 = d2
    p1 = p1
    p2 = p2
    two = two
    none = none
    blank = blank
    b1 = b1
    b2 = b2
    b3 = b3
    NoSource = NoSource
    DocVersion = {v}
    Digest = {d1, d2}
    Fragment = {two, none, blank}
    ParserVersion = {p1, p2}
    Batch = {b1, b2}
    BlockCount <- MCBlockCount
    Blank = {blank}
    Source <- MCSource
    Worker = {w1, w2}
    VersionOf <- SameRelease
SPECIFICATION Spec
INVARIANT OneDigestPerVersion
