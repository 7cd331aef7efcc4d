SPECIFICATION RulesSpec

CONSTANTS
    p1 = p1
    Hashes = {p1, p2}
    Dots = 3
    BoardSize = 3
    Streak = 2
    Teams <- MCTeams
    Columns <- MCColumns
    Regions = {c1, c2}
    Colors = {White, Black}
    White = White
    MaxEvents = 4
    Width = 12
    Height = 8
    HalfPaddle = 2
    Depth = 1
    PaddleSpeed = 3
    Serves <- MCServes
    Dts = {1, 2}
    MaxScore = 2

INVARIANTS
    RulesTypeOK
    BoxesOwned
    CreditsAreBoxes
    Settled
    LinesAreFound
    BallInPlay
    BoardsAgree
    FullIsOwed

CONSTRAINT FewPieces

CHECK_DEADLOCK FALSE
