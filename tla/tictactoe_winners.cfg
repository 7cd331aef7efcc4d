SPECIFICATION Spec

CONSTANTS
    p1 = p1
    p2 = p2
    Hashes = {p1, p2}
    Coordinates = {0, 1, 2, 3}
    MaxQueued = 1

CONSTRAINT InOrder

VIEW MCView

INVARIANTS
    WinnersReturned

CHECK_DEADLOCK FALSE
