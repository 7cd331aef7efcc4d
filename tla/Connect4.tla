------------------------------ MODULE Connect4 ------------------------------
(***************************************************************************)
(* One connect4 game: a piece is put on top of a column, or the board is   *)
(* rotated; the pieces fall; the board is scanned for lines, whose players *)
(* are credited; and a board with a line is cleared.  The field is a       *)
(* function of <<row, column>>, row 0 at the bottom.                       *)
(***************************************************************************)
EXTENDS Integers, Sequences

CONSTANTS Hashes,  \* player hashes
          Size,    \* rows and columns: 8 in the code, at least 1
          Streak,  \* steps in a line: 3 in the code (four pieces), at least 1
          Teams,   \* the teams and the columns that inserts name: any integers,
          Columns  \* the route takes what Atoi makes of the message

EMPTY == 0
BLUE == 1
RED == 2

Index == 0 .. Size - 1
Cells == Index \X Index

VARIABLES
    field, turn, players,
    panicked, \* GameLoop has panicked and ended the process
    scanned,  \* history: the board the last input scanned, and the seats then
    credited  \* history: how often it made ConsumeWinners return each team

vars == <<field, turn, players, panicked, scanned, credited>>

EmptyField == [c \in Cells |-> EMPTY]

Init ==
    /\ field = EmptyField /\ turn = BLUE /\ players = <<>> /\ panicked = FALSE
    /\ scanned = [field |-> EmptyField, seats |-> 0]
    /\ credited = [t \in {BLUE, RED} |-> 0]

\* The ws route seats two players; Engine models how they race for it.
NewPlayer(p) ==
    /\ ~panicked /\ Len(players) < 2
    /\ \A i \in DOMAIN players : players[i] # p
    /\ players' = Append(players, p)
    /\ UNCHANGED <<field, turn, panicked, scanned, credited>>

-----------------------------------------------------------------------------
(* Falling.                                                                *)

\* The row that the piece in c falls to: the lowest with nothing in between.
Landing(f, c) ==
    CHOOSE k \in 0 .. c[1] :
        /\ \A h \in k .. c[1] - 1 : f[<<h, c[2]>>] = EMPTY
        /\ k = 0 \/ f[<<k - 1, c[2]>>] # EMPTY

FallFrom(f, c) ==
    IF f[c] = EMPTY THEN f
    ELSE [f EXCEPT ![c] = EMPTY, ![<<Landing(f, c), c[2]>>] = f[c]]

\* The rows of a column in the order Fall looks at them: from the bottom up.
NthRow_TopDown(i) == Size - i
NthRow(i) == i - 1

\* The pieces of column j fall one after the other.
FallColumn(f, j) ==
    LET after[i \in 0 .. Size] ==
            IF i = 0 THEN f ELSE FallFrom(after[i - 1], <<NthRow(i), j>>)
    IN  after[Size]

\* Column by column.
Fall(f) ==
    LET after[j \in 0 .. Size] ==
            IF j = 0 THEN f ELSE FallColumn(after[j - 1], j - 1)
    IN  after[Size]

\* The piece is put in the top row of a column that has room.
Insert(f, team, column) ==
    IF f[<<Size - 1, column>>] = EMPTY
    THEN [f EXCEPT ![<<Size - 1, column>>] = team] ELSE f

\* newField[size-j-1] gets field[i][j] as its element i.
Rotate(f) == [c \in Cells |-> f[<<c[2], Size - 1 - c[1]>>]]

-----------------------------------------------------------------------------
(* scanForConnect4.  The queue starts with the pieces of the bottom row    *)
(* whose team is positive; a popped element pushes its four neighbours     *)
(* that hold a piece, of any team, with a streak of one more in the        *)
(* direction taken if the team is the same.                                *)

Steps_NoRightDown == {<<1, 0>>, <<0, 1>>, <<1, 1>>}
\* up, right, rightUp, rightDown
Steps == {<<1, 0>>, <<0, 1>>, <<1, 1>>, <<-1, 1>>}

From(c, step) == <<c[1] - step[1], c[2] - step[2]>>

\* The streak, as <<direction, length>>, of a neighbour of the same or the other
\* team that is reached from an element with the streak e.
Lengthened(same, step, e) ==
    <<step, IF ~same THEN 0 ELSE IF e[1] = step THEN e[2] + 1 ELSE 1>>

\* With the streaks of the elements pushed for the cells to the left and below.
Pushed(f, queue, c) ==
    (IF c[1] = 0 /\ f[c] > 0 THEN {<<<<1, 0>>, 0>>} ELSE {})
    \cup UNION {{Lengthened(f[From(c, step)] = f[c], step, e) : e \in queue[From(c, step)]} :
                    step \in {s \in Steps : From(c, s) \in Cells}}

\* Every element the queue ever holds: queue[c] is the streaks it had at c.  (The
\* cells to the left and below have been visited when c is.)
Queue(f) ==
    LET queue[c \in Cells] == IF f[c] = EMPTY THEN {} ELSE Pushed(f, queue, c)
    IN  queue

Winners(f) ==
    LET queue == Queue(f) IN
    {w \in UNION {{<<c, f[c], e>> : e \in queue[c]} : c \in Cells} : w[3][2] >= Streak}

\* recordWinners credits a team once, whatever it has in winners.
WinsOf(winners, team) == IF \E w \in winners : w[2] = team THEN 1 ELSE 0

-----------------------------------------------------------------------------
\* Fall, the scan, recordWinners, Clear, and GameLoop's ConsumeWinners.
Settle(f, turnAfter) ==
    LET fallen == Fall(f)
        winners == Winners(fallen)
    IN  /\ scanned' = [field |-> fallen, seats |-> Len(players)]
        /\ credited' = [t \in {BLUE, RED} |->
                           IF t <= Len(players) THEN WinsOf(winners, t) ELSE 0]
        /\ field' = IF winners = {} THEN fallen ELSE EmptyField
        /\ turn' = IF winners = {} THEN turnAfter ELSE BLUE
        /\ UNCHANGED <<players, panicked>>

\* (team % 2) + 1, where % takes the sign of team.
TurnAfter(team) ==
    IF team % 2 = 0 THEN BLUE ELSE IF team > 0 THEN RED ELSE 0

\* connect4InsertInput.ChangeState: any player may insert for any team (0 puts
\* nothing there), and turn is kept but never asked for.
InsertInput(team, column) ==
    /\ column \in Index
    /\ Settle(Insert(field, team, column),
              IF field[<<Size - 1, column>>] = EMPTY THEN TurnAfter(team) ELSE turn)

\* field[7][row] has no such row, and nothing recovers in GameLoop.
InsertOffBoard(column) ==
    /\ column \notin Index
    /\ panicked' = TRUE
    /\ UNCHANGED <<field, turn, players, scanned, credited>>

\* connect4RotateInput.ChangeState
RotateInput == Settle(Rotate(field), turn)

HandleInput ==
    /\ ~panicked /\ players # <<>>
    /\ \/ \E team \in Teams, column \in Columns : InsertInput(team, column)
       \/ \E column \in Columns : InsertOffBoard(column)
       \/ RotateInput

Next == HandleInput \/ \E p \in Hashes : NewPlayer(p)

Spec == Init /\ [][Next]_vars

-----------------------------------------------------------------------------
(* Properties.                                                             *)

Pieces == Teams \cup {EMPTY}
Boards == [Cells -> Pieces]

\* Every variable stays in its type (all of the modelled code).
TypeOK ==
    /\ field \in Boards /\ turn \in {0, BLUE, RED} /\ panicked \in BOOLEAN
    /\ players \in Seq(Hashes) /\ Len(players) <= 2
    /\ scanned \in [field : Boards, seats : 0 .. 2]
    /\ credited \in [{BLUE, RED} -> Nat]

\* Four in line, by the geometry of the board.
HasLine(f, team) ==
    \E c \in Cells, d \in {<<0, 1>>, <<1, 0>>, <<1, 1>>, <<1, -1>>} :
        \A k \in 0 .. Streak :
            LET at == <<c[1] + k * d[1], c[2] + k * d[2]>> IN
            at \in Cells /\ f[at] = team

\* No piece is left above an empty cell, whatever was inserted or rotated: the
\* one pass of Fall lets every piece fall all the way.
Settled ==
    \A c \in Cells : c[1] > 0 /\ field[c] # EMPTY => field[<<c[1] - 1, c[2]>>] # EMPTY

\* A line of a team, which need not be a player's.
HasSomeLine(f) == \E team \in Teams \ {EMPTY} : HasLine(f, team)

\* The scan starts in every column that holds a piece.
StartsEverywhere(f) == \A j \in Index : f[<<0, j>>] >= 0

\* What the scan finds is a line: the board is cleared, or a seated player is
\* credited, only for a line on it, and for one line once.
\*
\* And the scan, which only walks right and up from the bottom row, finds the
\* lines there are, unless a column stands on a piece of a negative team: the
\* board is cleared when any team has one, also a team of nobody, and each
\* seated player that has one (a rotation may give one to both) is credited.
LinesAreFound ==
    LET won == [t \in {BLUE, RED} |->
                   IF t <= scanned.seats /\ HasLine(scanned.field, t) THEN 1 ELSE 0]
    IN  /\ \A t \in {BLUE, RED} : credited[t] <= won[t]
        /\ \/ field = scanned.field
           \/ field = EmptyField /\ HasSomeLine(scanned.field)
        /\ StartsEverywhere(scanned.field) =>
              /\ credited = won
              /\ HasSomeLine(scanned.field) => field = EmptyField
=============================================================================
