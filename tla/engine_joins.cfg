SPECIFICATION Spec

CONSTANTS
    hangman = hangman
    seated = seated
    tictactoe = tictactoe
    whiteboard = whiteboard
    c1 = c1
    c2 = c2
    c3 = c3
    NoConn = NoConn
    Games = {hangman, seated, tictactoe, whiteboard}
    Conns = {c1, c2, c3}
    Kind <- MCKindOf
    MaxGames = 1
    MaxConns <- MCRaces
    MaxInputs = 2
    MaxTicks = 0

SYMMETRY MCSymmetry

INVARIANTS
    RegisteredHasConn
    ViewCurrent
    InitialImageAlone
    IndexOnlyShiftsLeft

PROPERTIES
    ViewsMoveForward

CHECK_DEADLOCK FALSE
