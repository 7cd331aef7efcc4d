----------------------------- MODULE TicTacToe ------------------------------
(***************************************************************************)
(* One tic-tac-toe game and its two players' handlers.  A handler decodes  *)
(* every message into the same moveInput and pushes a pointer to it, so    *)
(* what GameLoop applies is whatever the moveInput holds by then.  Engine  *)
(* models how the players join; here their seats are taken one by one.     *)
(***************************************************************************)
EXTENDS Integers, Sequences, FiniteSets

CONSTANTS Hashes,       \* player hashes
          Coordinates,  \* the x and y of messages, any integers
          MaxQueued     \* bound: pointers of one player waiting in inputChannel

ASSUME HashesAssumption == IsFiniteSet(Hashes)
ASSUME CoordinatesAssumption == Coordinates \subseteq Int
ASSUME MaxQueuedAssumption == MaxQueued \in Nat \ {0}

X == 1
O == 2
Index == 0 .. 2
Cells == Index \X Index

VARIABLES
    field, turn, scores,
    players,     \* players, filled from the left; its length is playersSize
    ui,          \* ui[p]: the moveInput of p's handler, <<X, Y>>
    decoding,    \* the players whose handler has decoded X and not yet Y
    queued,      \* queued[p]: the pointers to ui[p] in inputChannel
    pendingWinners,
    panicked,    \* GameLoop has panicked and ended the process
    returned,    \* history: what ConsumeWinners has returned, in order
    won          \* history: the players that completed a line, in order

gameVars == <<field, turn, scores, pendingWinners, panicked, returned, won>>
vars == <<gameVars, players, ui, decoding, queued>>

EmptyField == [c \in Cells |-> 0]

Init ==
    /\ field = EmptyField /\ turn = X /\ scores = <<0, 0>>
    /\ players = <<>>
    /\ ui = [p \in Hashes |-> <<0, 0>>] /\ decoding = {}
    /\ queued = [p \in Hashes |-> 0]
    /\ pendingWinners = <<>> /\ panicked = FALSE
    /\ returned = <<>> /\ won = <<>>

Seated(p) == \E i \in DOMAIN players : players[i] = p
Team(p) == CHOOSE i \in DOMAIN players : players[i] = p

NewPlayer(p) ==
    /\ ~panicked /\ Len(players) < 2 /\ ~Seated(p)
    /\ players' = Append(players, p)
    /\ UNCHANGED <<gameVars, ui, decoding, queued>>

\* conn.ReadJSON(ui): x, then y, while GameLoop may be reading both.
DecodeX(p, x) ==
    /\ ~panicked /\ Seated(p) /\ p \notin decoding
    /\ ui' = [ui EXCEPT ![p][1] = x]
    /\ decoding' = decoding \cup {p}
    /\ UNCHANGED <<gameVars, players, queued>>

DecodeYAndPush(p, y) ==
    /\ ~panicked /\ p \in decoding /\ queued[p] < MaxQueued
    /\ ui' = [ui EXCEPT ![p][2] = y]
    /\ decoding' = decoding \ {p}
    /\ queued' = [queued EXCEPT ![p] = @ + 1]
    /\ UNCHANGED <<gameVars, players>>

Lines_OneDiagonal ==
    {{<<i, j>> : j \in Index} : i \in Index}
    \cup {{<<i, j>> : i \in Index} : j \in Index}
    \cup {{<<i, i>> : i \in Index}}
\* possibleTicTacToes
Lines ==
    {{<<i, j>> : j \in Index} : i \in Index}
    \cup {{<<i, j>> : i \in Index} : j \in Index}
    \cup {{<<i, i>> : i \in Index}, {<<i, 2 - i>> : i \in Index}}

Scan(f) == \E line \in Lines, team \in {X, O} : \A c \in line : f[c] = team

Legal_AnyTurn(cell, team) == field[cell] = 0
Legal(cell, team) == turn = team /\ field[cell] = 0

NextTurn_NoModulo == turn + 1
NextTurn == (turn % 2) + 1

\* move, for a legal move that completes no line.
MoveOn(cell, team) ==
    /\ ~Scan([field EXCEPT ![cell] = team])
    /\ field' = [field EXCEPT ![cell] = team]
    /\ turn' = NextTurn
    /\ UNCHANGED <<scores, pendingWinners, panicked, returned, won>>

Winner(team) == players[team]

\* move, for a winning one, and GameLoop's ConsumeWinners.  scores has two
\* entries, counted from 0: scores[team]++ panics for team O.
Win(cell, team) ==
    /\ Scan([field EXCEPT ![cell] = team])
    /\ field' = EmptyField /\ turn' = X
    /\ won' = Append(won, Winner(team))
    /\ IF team = X
       THEN /\ scores' = [scores EXCEPT ![team + 1] = @ + 1]
            /\ returned' = Append(returned, Winner(team))
            /\ UNCHANGED <<pendingWinners, panicked>>
       ELSE /\ pendingWinners' = Append(pendingWinners, Winner(team))
            /\ panicked' = TRUE
            /\ UNCHANGED <<scores, returned>>

\* field[x][y], evaluated once turn = team: x or y is past the array.
OffField(cell, team) == turn = team /\ cell \notin Cells
Panic ==
    /\ panicked' = TRUE
    /\ UNCHANGED <<field, turn, scores, pendingWinners, returned, won>>

HandleInput(p) ==
    /\ ~panicked /\ queued[p] > 0
    /\ queued' = [queued EXCEPT ![p] = @ - 1]
    /\ LET cell == ui[p]
           team == Team(p)
       IN  \/ OffField(cell, team) /\ Panic
           \/ cell \in Cells /\ Legal(cell, team) /\ MoveOn(cell, team)
           \/ cell \in Cells /\ Legal(cell, team) /\ Win(cell, team)
           \/ ~OffField(cell, team) /\ ~Legal(cell, team) /\ UNCHANGED gameVars
    /\ UNCHANGED <<players, ui, decoding>>

Next ==
    \E p \in Hashes :
        \/ NewPlayer(p)
        \/ \E i \in Coordinates : DecodeX(p, i) \/ DecodeYAndPush(p, i)
        \/ HandleInput(p)

Spec == Init /\ [][Next]_vars

-----------------------------------------------------------------------------
(* Properties.                                                             *)

\* Every variable stays in its type (all of the modelled code).
TypeOK ==
    /\ field \in [Cells -> {0, X, O}] /\ turn \in {X, O}
    /\ scores \in Nat \X Nat
    /\ players \in Seq(Hashes) /\ Len(players) <= 2
    /\ ui \in [Hashes -> Int \X Int] /\ decoding \in SUBSET Hashes
    /\ queued \in [Hashes -> 0 .. MaxQueued]
    /\ pendingWinners \in Seq(Hashes) /\ panicked \in BOOLEAN
    /\ returned \in Seq(Hashes) /\ won \in Seq(Hashes)

Marks(team) == {c \in Cells : field[c] = team}

Directions == {<<0, 1>>, <<1, 0>>, <<1, 1>>, <<1, -1>>}

\* No mark is ever left between two marks of its player (by the geometry of the
\* board, not the code's table of lines): a win clears the board in its step.
NoStandingLine ==
    \A team \in {X, O} : \A c \in Marks(team), d \in Directions :
        ~(/\ <<c[1] - d[1], c[2] - d[2]>> \in Marks(team)
          /\ <<c[1] + d[1], c[2] + d[2]>> \in Marks(team))

\* The players take turns from X on, in every round: X's marks are as many as O's
\* when X is to move and one more when O is, although a moveInput may wait in the
\* channel several times, be overwritten while it waits and be read half-decoded,
\* and a win clears the board under moves that are still queued.
MarksAlternate ==
    Cardinality(Marks(X)) = Cardinality(Marks(O)) + (IF turn = X THEN 0 ELSE 1)

\* ticTacToe.go: "ConsumeWinners returns the players who won a round since the
\* last call".  Whenever GameLoop is between inputs, every winner was returned.
WinnersReturned == returned = won
=============================================================================
