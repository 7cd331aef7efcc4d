------------------------------ MODULE MCRules -------------------------------
(* Instances of PongBall, ConnectTheDots, Connect4 and Whiteboard for TLC. *)
(* The games share nothing, so a behaviour plays one: game says which.     *)
EXTENDS PongBall, FiniteSets

CONSTANTS Hashes, p1,              \* player hashes
          Dots, BoardSize, Streak, \* connect-the-dots and connect4
          Teams, Columns,          \* what connect4 messages name
          Regions, Colors, White,  \* whiteboard
          MaxEvents

ASSUME DotsAssumption == Dots \in Nat /\ Dots >= 2
ASSUME LineAssumption == BoardSize \in Nat \ {0} /\ Streak \in Nat \ {0}
ASSUME InsertAssumption == Teams \subseteq Int /\ Columns \subseteq Int
ASSUME BoardAssumption == White \in Colors /\ MaxEvents \in Nat

VARIABLES
    game,
    drawn, owner, dotsTurn, dotsPlayers, panicked, dotsCredited,
    field, turn, seated, crashed, scanned, credited,
    img, lastChange, needsFull, artists, gamePc, change, events, pending, outPc,
    message, todo, joinPc, read, copy, loading, rushed

dotsVars == <<drawn, owner, dotsTurn, dotsPlayers, panicked, dotsCredited>>
connect4Vars == <<field, turn, seated, crashed, scanned, credited>>
boardVars == <<img, lastChange, needsFull, artists, gamePc, change, events,
               pending, outPc, message, todo, joinPc, read, copy, loading,
               rushed>>

\* A flat serve, and the steepest ones in both directions.
MCServes == {<<3, 0>>, <<2, 2>>, <<2, -2>>}

\* One team of nobody, whose number is negative, and none.
MCTeams == {-1, 0, 1, 2}
MCColumns == 0 .. BoardSize

CD == INSTANCE ConnectTheDots WITH
    Size <- Dots, turn <- dotsTurn, players <- dotsPlayers,
    credited <- dotsCredited
C4 == INSTANCE Connect4 WITH
    Size <- BoardSize, players <- seated, panicked <- crashed
WB == INSTANCE Whiteboard WITH
    players <- artists

\* A bound of connect4: p1 joins first, and the games go on from a board with
\* pieces of nobody's team while these are at most three of at most four.
PiecesOf(team) == {c \in C4!Cells : field[c] = team}
FewPieces ==
    /\ seated # <<>> => seated[1] = p1
    /\ PiecesOf(-1) # {} => /\ Cardinality(PiecesOf(-1)) <= 3
                            /\ Cardinality(C4!Cells \ PiecesOf(0)) <= 4

\* A game that is not played stays where it begins, pong with one of its serves.
RulesInit ==
    /\ game \in {"dots", "connect4", "pong", "whiteboard"}
    /\ CD!Init /\ C4!Init /\ WB!Init /\ Init
    /\ game # "pong" => vx = 3

RulesNext ==
    /\ \/ /\ game = "dots" /\ CD!Next
          /\ UNCHANGED <<connect4Vars, boardVars, vars>>
       \/ /\ game = "connect4" /\ C4!Next
          /\ UNCHANGED <<dotsVars, boardVars, vars>>
       \/ /\ game = "whiteboard" /\ WB!Next
          /\ UNCHANGED <<dotsVars, connect4Vars, vars>>
       \/ /\ game = "pong" /\ Next
          /\ UNCHANGED <<dotsVars, connect4Vars, boardVars>>
    /\ UNCHANGED game

RulesSpec ==
    RulesInit /\ [][RulesNext]_<<game, dotsVars, connect4Vars, boardVars, vars>>

\* Every variable of the four games stays in its type (the rules' code).
RulesTypeOK ==
    CASE game = "pong" -> TypeOK
      [] game = "dots" -> CD!TypeOK
      [] game = "connect4" -> C4!TypeOK
      [] game = "whiteboard" -> WB!TypeOK

\* ConnectTheDots: a box has an owner exactly when its four sides are drawn.
BoxesOwned == game = "dots" => CD!BoxesOwned

\* ConnectTheDots: a player was credited once for each box it owns.
CreditsAreBoxes == game = "dots" => CD!CreditsAreBoxes

\* Connect4: no piece is left above an empty cell.
Settled == game = "connect4" => C4!Settled

\* Connect4: what the scan clears and credits is a line, and it finds the lines
\* there are unless a column stands on a negative team's piece.
LinesAreFound == game = "connect4" => C4!LinesAreFound

\* Whiteboard: settled players see the image, unless inputs and joins overlapped.
BoardsAgree == game = "whiteboard" => WB!BoardsAgree

\* Whiteboard: an output that carries the full image needsFull asks for is on
\* its way.
FullIsOwed == game = "whiteboard" => WB!FullIsOwed
=============================================================================
