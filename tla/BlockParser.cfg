CONSTANTS
    a = a
    b = b
    Empty = Empty
    Absent = Absent
    Separator = Separator
    Value = {a, b}
    MaxLines = 4
    Text <- MCText
SPECIFICATION ParserSpec
INVARIANTS ParserTypeOK FieldsComeFromLabels NoLineIsLost ConfidenceIsEarned ReadSoFar
