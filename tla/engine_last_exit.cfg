SPECIFICATION FairSpec

CONSTANTS
    hangman = hangman
    seated = seated
    tictactoe = tictactoe
    whiteboard = whiteboard
    c1 = c1
    c2 = c2
    c3 = c3
    NoConn = NoConn
    Games = {hangman, seated}
    Conns = {c1, c2}
    Kind <- MCKindOf
    MaxGames = 2
    MaxConns <- MCTwo
    MaxInputs = 2
    MaxTicks = 0

PROPERTIES
    OtherGamesHandled

CHECK_DEADLOCK FALSE
