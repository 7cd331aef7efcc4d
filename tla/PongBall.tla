------------------------------ MODULE PongBall ------------------------------
(***************************************************************************)
(* The physics of one pong game: step(dt), under the game's mu, between    *)
(* the players' setDirection and the players' joining and leaving.  The    *)
(* field, the speeds and dt are integers here (floats in the code): the    *)
(* constants are the code's, scaled down.                                  *)
(***************************************************************************)
EXTENDS Integers

CONSTANTS Width, Height,  \* fieldWidth, fieldHeight
          HalfPaddle,     \* paddleHeight / 2
          Depth,          \* paddleDepth
          PaddleSpeed,
          Serves,         \* the velocities <<vx, vy>> of a serve, vx towards 2
          Dts,            \* what a tick's dt can be; never 0
          MaxScore        \* bound: points counted

ASSUME FieldAssumption ==
    /\ {Width, Height, HalfPaddle, Depth, PaddleSpeed, MaxScore} \subseteq Nat
    /\ Depth > 0 /\ 2 * Depth < Width /\ 2 * HalfPaddle <= Height /\ Height > 0
ASSUME ServesAssumption ==
    /\ Dts \subseteq Nat \ {0}
    /\ Serves \subseteq (Nat \ {0}) \X Int

VARIABLES x, y, vx, vy,        \* the ball
          paddle1Y, paddle2Y, dir1, dir2,
          score1, score2,
          players              \* how many players are in

ballVars == <<x, y, vx, vy>>
paddleVars == <<paddle1Y, paddle2Y>>
dirVars == <<dir1, dir2>>
scoreVars == <<score1, score2>>
vars == <<ballVars, paddleVars, dirVars, scoreVars, players>>

Directions == {"stop", "up", "down"}

Clamp(v, lo, hi) == IF v < lo THEN lo ELSE IF v > hi THEN hi ELSE v

Moved(py, d, dt) ==
    CASE d = "up" -> py - PaddleSpeed * dt
      [] d = "down" -> py + PaddleSpeed * dt
      [] d = "stop" -> py

MovePaddle_NoClamp(py, d, dt) == Moved(py, d, dt)
MovePaddle(py, d, dt) ==
    Clamp(Moved(py, d, dt), HalfPaddle, Height - HalfPaddle)

WithinPaddle(by, py) == py - HalfPaddle <= by /\ by <= py + HalfPaddle

\* randSign and the random angle: which serve is left open.
Init ==
    /\ x = Width \div 2 /\ y = Height \div 2
    /\ \E s \in Serves, sign \in {-1, 1} : vx = sign * s[1] /\ vy = s[2]
    /\ paddle1Y = Height \div 2 /\ paddle2Y = Height \div 2
    /\ dir1 = "stop" /\ dir2 = "stop"
    /\ score1 = 0 /\ score2 = 0
    /\ players = 0

\* tryAddPlayer and removePlayer, as PongRegistry models them.
PlayersChange ==
    /\ players' \in 0 .. 2 /\ players' # players
    /\ UNCHANGED <<ballVars, paddleVars, dirVars, scoreVars>>

SetDirection ==
    /\ \E d \in Directions : \/ dir1' = d /\ UNCHANGED dir2
                             \/ dir2' = d /\ UNCHANGED dir1
    /\ UNCHANGED <<ballVars, paddleVars, scoreVars, players>>

\* resetBall(towards)
ResetBall(towards) ==
    /\ x' = Width \div 2 /\ y' = Height \div 2
    /\ \E s \in Serves : vx' = towards * s[1] /\ vy' = s[2]

AtWall(by) == by <= 0 \/ by >= Height

Rebound(v) == -v

\* The ball at the paddle of the side whose edge is at 0 (side -1) or at Width
\* (side 1): what the code's two cases ask, with the sides exchanged.
Reached(bx, side) == IF side = -1 THEN bx <= Depth ELSE bx >= Width - Depth
Out_Strict(bx, side) == IF side = -1 THEN bx < 0 ELSE bx > Width
Out(bx, side) == IF side = -1 THEN bx <= 0 ELSE bx >= Width
FaceOf(side) == IF side = -1 THEN Depth ELSE Width - Depth

ServeTo(side) == -side

\* The ball has moved to bx, by and its vertical speed is bvy.
MeetPaddle(bx, by, bvy) ==
    LET side == IF vx < 0 THEN -1 ELSE 1
        defended == WithinPaddle(by, IF side = -1 THEN paddle1Y' ELSE paddle2Y')
    IN  \/ /\ Reached(bx, side) /\ defended
           /\ vx' = -vx /\ x' = FaceOf(side) /\ y' = by /\ vy' = bvy
           /\ UNCHANGED scoreVars
        \/ /\ Reached(bx, side) /\ ~defended /\ Out(bx, side)
           /\ score1' = IF side = 1 THEN score1 + 1 ELSE score1
           /\ score2' = IF side = -1 THEN score2 + 1 ELSE score2
           /\ ResetBall(ServeTo(side))
        \/ /\ ~Reached(bx, side) \/ (~defended /\ ~Out(bx, side))
           /\ x' = bx /\ y' = by /\ vy' = bvy
           /\ UNCHANGED <<vx, scoreVars>>

Step(dt) ==
    LET by == y + vy * dt IN
    /\ players = 2 /\ score1 + score2 < MaxScore
    /\ paddle1Y' = MovePaddle(paddle1Y, dir1, dt)
    /\ paddle2Y' = MovePaddle(paddle2Y, dir2, dt)
    /\ IF AtWall(by) THEN MeetPaddle(x + vx * dt, Clamp(by, 0, Height), Rebound(vy))
       ELSE MeetPaddle(x + vx * dt, by, vy)
    /\ UNCHANGED <<dirVars, players>>

Next == PlayersChange \/ SetDirection \/ \E dt \in Dts : Step(dt)

Spec == Init /\ [][Next]_vars

-----------------------------------------------------------------------------
(* Properties.                                                             *)

\* Every variable stays in its type (all of the modelled code).
TypeOK ==
    /\ x \in Int /\ y \in Int /\ vx \in Int \ {0} /\ vy \in Int
    /\ {paddle1Y, paddle2Y} \subseteq HalfPaddle .. (Height - HalfPaddle)
    /\ {dir1, dir2} \subseteq Directions
    /\ score1 \in Nat /\ score2 \in Nat /\ players \in 0 .. 2

\* Between steps the ball is strictly between the two edges: a ball that gets
\* to an edge is returned or scored in the same step, however long dt was.
BallInPlay == 0 < x /\ x < Width /\ 0 <= y /\ y <= Height

=============================================================================
