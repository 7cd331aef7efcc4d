SPECIFICATION Spec

CONSTANTS
    hangman = hangman
    seated = seated
    tictactoe = tictactoe
    whiteboard = whiteboard
    c1 = c1
    c2 = c2
    c3 = c3
    NoConn = NoConn
    Games = {hangman, seated}
    Conns = {c1}
    Kind <- MCKindOf
    MaxGames = 2
    MaxConns <- MCOne
    MaxInputs = 2
    MaxTicks = 3

INVARIANTS
    TypeOK
    OrphanOutputIsOld

CHECK_DEADLOCK FALSE
