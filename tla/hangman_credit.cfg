SPECIFICATION Spec

CONSTANTS
    p1 = p1
    p2 = p2
    p3 = p3
    a = a
    b = b
    c = c
    Hashes = {p1, p2, p3}
    Letters = {a, b, c}
    Words <- MCWords
    NewNames = {}
    MaxGuesses = 2
    Ops = {"guess", "newWord", "exit"}
    MaxInputs = 3

SYMMETRY MCSymmetry

INVARIANTS
    CreditedPlayerWon

CHECK_DEADLOCK FALSE
