SPECIFICATION Spec

CONSTANTS
    p1 = p1
    p2 = p2
    p3 = p3
    a = a
    b = b
    c = c
    Hashes = {p1, p2, p3}
    Letters = {a, b, c}
    Words <- MCWords
    NewNames = {1, 2}
    MaxGuesses = 2
    Ops = {"guess", "newWord", "random", "chat", "username", "exit"}
    MaxInputs = 4

CONSTRAINT SecondRound

SYMMETRY MCSymmetry

INVARIANTS
    TypeOK
    SeatsInRange
    HostNeverGuesses
    OneWinPerRound
    FreshGuessCreditsSender
    LinesFollowRenames

CHECK_DEADLOCK FALSE
