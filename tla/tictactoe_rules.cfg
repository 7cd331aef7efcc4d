SPECIFICATION Spec

CONSTANTS
    p1 = p1
    p2 = p2
    Hashes = {p1, p2}
    Coordinates = {0, 1, 2, 3}
    MaxQueued = 1

CONSTRAINT InOrder

VIEW MCView

INVARIANTS
    TypeOK
    NoStandingLine
    MarksAlternate

CHECK_DEADLOCK FALSE
