---------------------------- MODULE RulesProofs -----------------------------
(* Connect-the-dots, the ball of pong and the whiteboard, for any fields,  *)
(* players and bounds.  (A behaviour of RulesSpec plays one game.)         *)
EXTENDS MCRules, FiniteSetTheorems, WellFoundedInduction, SlicesProofs

LEMMA SameCardinality == \A S : CD!Cardinality(S) = Cardinality(S)
  BY Zenon DEF CD!Cardinality, Cardinality, CD!IsFiniteSet, IsFiniteSet

-----------------------------------------------------------------------------
(* Connect-the-dots: the geometry of the field.                            *)

LEMMA Unit ==
    ASSUME NEW a \in Int, NEW b \in Int, a * a + b * b = 1
    PROVE  \/ a = 0 /\ b \in {-1, 1}
           \/ b = 0 /\ a \in {-1, 1}
  <1>1. \A n \in Int : n * n >= 0
    OBVIOUS
  <1>2. \A n \in Int : n >= 2 => n * n >= 2
    OBVIOUS
  <1>3. \A n \in Int : n <= -2 => n * n >= 2
    OBVIOUS
  <1>4. a * a <= 1 /\ b * b <= 1
    BY <1>1
  <1>5. a \in {-1, 0, 1} /\ b \in {-1, 0, 1}
    BY <1>2, <1>3, <1>4
  <1> QED
    BY <1>5

LEMMA Parity ==
    ASSUME NEW n \in Int
    PROVE  /\ n % 2 \in {0, 1}
           /\ (n + 1) % 2 = 1 - (n % 2)
           /\ (n - 1) % 2 = 1 - (n % 2)
  OBVIOUS

\* An odd coordinate is not at the border.
LEMMA Inside ==
    ASSUME NEW n \in 0 .. CD!Last, n % 2 = 1
    PROVE  n - 1 \in 0 .. CD!Last /\ n + 1 \in 0 .. CD!Last
  BY DotsAssumption DEF CD!Last

LEMMA Adjacent ==
    ASSUME NEW b \in CD!Boxes
    PROVE  /\ CD!Neighbours(b) \subseteq CD!Edges
           /\ \A e \in CD!Edges :
                 (e[1] - b[1]) * (e[1] - b[1]) + (e[2] - b[2]) * (e[2] - b[2]) = 1
                    <=> e \in CD!Neighbours(b)
  <1>0. CD!Last \in Int
    BY DotsAssumption DEF CD!Last
  <1>1. PICK r \in 0 .. CD!Last, q \in 0 .. CD!Last :
           b = <<r, q>> /\ r % 2 = 1 /\ q % 2 = 1
    BY DEF CD!Boxes, CD!Field
  <1>2. CD!Neighbours(b) = {<<r - 1, q>>, <<r + 1, q>>, <<r, q - 1>>, <<r, q + 1>>}
    BY <1>1 DEF CD!Neighbours
  <1>3. CD!Neighbours(b) \subseteq CD!Edges
    <2>1. /\ {r - 1, r + 1, q - 1, q + 1} \subseteq 0 .. CD!Last
          /\ (r - 1) % 2 = 0 /\ (r + 1) % 2 = 0 /\ (q - 1) % 2 = 0 /\ (q + 1) % 2 = 0
      BY <1>0, <1>1, Inside, Parity
    <2> QED
      BY <1>1, <1>2, <2>1 DEF CD!Edges, CD!Field
  <1>4. ASSUME NEW e \in CD!Edges
        PROVE  (e[1] - b[1]) * (e[1] - b[1]) + (e[2] - b[2]) * (e[2] - b[2]) = 1
                  <=> e \in CD!Neighbours(b)
    <2>1. PICK i \in 0 .. CD!Last, j \in 0 .. CD!Last : e = <<i, j>>
      BY DEF CD!Edges, CD!Field
    <2>2. i - r \in Int /\ j - q \in Int
      BY <1>0, <1>1
    <2>3. (i - r) * (i - r) + (j - q) * (j - q) = 1 <=>
             \/ i - r = 0 /\ j - q \in {-1, 1}
             \/ j - q = 0 /\ i - r \in {-1, 1}
      BY <2>2, Unit
    <2>4. e \in CD!Neighbours(b) <=> \/ i - r = 0 /\ j - q \in {-1, 1}
                                     \/ j - q = 0 /\ i - r \in {-1, 1}
      BY <1>0, <1>1, <1>2, <2>1
    <2> QED
      BY <1>1, <2>1, <2>3, <2>4
  <1> QED
    BY <1>3, <1>4

\* addEdge looks at every box that the edge is a side of.
LEMMA Affected ==
    ASSUME NEW c \in CD!Field, NEW b \in CD!Boxes, c \in CD!Neighbours(b)
    PROVE  b \in CD!AffectedCells(c)
  <1>0. CD!Last \in Int
    BY DotsAssumption DEF CD!Last
  <1>1. PICK r \in 0 .. CD!Last, q \in 0 .. CD!Last :
           b = <<r, q>> /\ r % 2 = 1 /\ q % 2 = 1
    BY DEF CD!Boxes, CD!Field
  <1>2. c \in {<<r - 1, q>>, <<r + 1, q>>, <<r, q - 1>>, <<r, q + 1>>}
    BY <1>1 DEF CD!Neighbours
  <1>3. (r - 1) % 2 = 0 /\ (r + 1) % 2 = 0
    BY <1>0, <1>1, Parity
  <1>4. CASE c \in {<<r - 1, q>>, <<r + 1, q>>}
    <2>1. c[1] % 2 = 0 /\ b \in {<<c[1] - 1, c[2]>>, <<c[1] + 1, c[2]>>}
      BY <1>0, <1>1, <1>3, <1>4
    <2> QED
      BY <2>1 DEF CD!AffectedCells
  <1>5. CASE c \in {<<r, q - 1>>, <<r, q + 1>>}
    <2>1. c[1] % 2 # 0 /\ b \in {<<c[1], c[2] - 1>>, <<c[1], c[2] + 1>>}
      BY <1>0, <1>1, <1>5
    <2> QED
      BY <2>1 DEF CD!AffectedCells
  <1> QED
    BY <1>2, <1>4, <1>5

LEMMA BoxesFinite == IsFiniteSet(CD!Boxes)
  <1>1. CD!Last \in Int
    BY DotsAssumption DEF CD!Last
  <1>2. IsFiniteSet(0 .. CD!Last)
    BY <1>1, FS_Interval
  <1>3. IsFiniteSet(CD!Field)
    BY <1>2, FS_Product DEF CD!Field
  <1> QED
    BY <1>3, FS_Subset DEF CD!Boxes

-----------------------------------------------------------------------------
(* Connect-the-dots: the game.                                             *)

\* A box is owned when its four sides are drawn, and only then.
OwnedWhenClosed ==
    \A b \in CD!Boxes : owner[b] # CD!EMPTY <=> CD!Neighbours(b) \subseteq drawn

DotsInv == CD!TypeOK /\ OwnedWhenClosed /\ CD!CreditsAreBoxes

LEMMA DotsInit == CD!Init => DotsInv
  <1> SUFFICES ASSUME CD!Init PROVE DotsInv
    OBVIOUS
  <1> USE DEF CD!Init, CD!EMPTY, CD!BLUE, CD!RED
  <1>1. CD!TypeOK
    <2>1. dotsPlayers \in Seq(Hashes) /\ Len(dotsPlayers) <= 2
      BY EmptySeq
    <2> QED
      BY <2>1 DEF CD!TypeOK
  <1>2. OwnedWhenClosed
    BY DEF OwnedWhenClosed, CD!Neighbours
  <1>3. CD!CreditsAreBoxes
    <2>1. \A t \in {1, 2} : {b \in CD!Boxes : owner[b] = t} = {}
      OBVIOUS
    <2> QED
      BY <2>1, FS_EmptySet, SameCardinality DEF CD!CreditsAreBoxes
  <1> QED
    BY <1>1, <1>2, <1>3 DEF DotsInv

LEMMA AddEdgeStep ==
    ASSUME DotsInv, NEW team, NEW c, CD!AddEdge(team, c)
    PROVE  DotsInv'
  <1> DEFINE claimed == CD!Claimed(c)
             mine == {b \in CD!Boxes : owner[b] = team}
  <1> USE DEF CD!EMPTY, CD!BLUE, CD!RED
  <1>1. /\ team \in {1, 2} /\ c \in CD!Field /\ c \in CD!Edges
        /\ drawn' = drawn \cup {c}
        /\ owner' = [b \in CD!Boxes |-> IF b \in claimed THEN team ELSE owner[b]]
        /\ dotsTurn' = IF claimed = {} THEN (dotsTurn % 2) + 1 ELSE dotsTurn
        /\ dotsCredited' = [dotsCredited EXCEPT ![team] = @ + Cardinality(claimed)]
        /\ UNCHANGED <<dotsPlayers, panicked>>
    <2>1. CD!Accepted(team, c) /\ c \in CD!Field
      BY DEF CD!AddEdge
    <2>2. team \in {1, 2} /\ c \in CD!Edges
      BY <2>1 DEF CD!Accepted, CD!IsEdge, CD!Edges, DotsInv, CD!TypeOK
    <2>3. CD!Credits(claimed) = Cardinality(claimed)
      BY SameCardinality DEF CD!Credits
    <2> QED
      BY <2>1, <2>2, <2>3 DEF CD!AddEdge
  <1>2. /\ claimed \subseteq CD!Boxes
        /\ \A b \in claimed : owner[b] = 0 /\ CD!Neighbours(b) \subseteq drawn \cup {c}
        /\ \A b \in CD!Boxes : /\ b \in CD!AffectedCells(c) /\ owner[b] = 0
                               /\ CD!Neighbours(b) \subseteq drawn \cup {c}
                               => b \in claimed
    BY DEF CD!Claimed, CD!AffectedCells
  <1> HIDE DEF claimed
  <1>3. OwnedWhenClosed'
    <2> SUFFICES ASSUME NEW b \in CD!Boxes
                 PROVE  owner'[b] # 0 <=> CD!Neighbours(b) \subseteq drawn \cup {c}
      BY <1>1 DEF OwnedWhenClosed
    <2>1. owner[b] # 0 <=> CD!Neighbours(b) \subseteq drawn
      BY DEF DotsInv, OwnedWhenClosed
    <2>2. CASE c \in CD!Neighbours(b)
      BY <1>1, <1>2, <2>1, <2>2, Affected
    <2>3. CASE c \notin CD!Neighbours(b)
      BY <1>1, <1>2, <2>1, <2>3
    <2> QED
      BY <2>2, <2>3
  <1>4. Cardinality(claimed) \in Nat /\ IsFiniteSet(claimed)
    BY <1>2, BoxesFinite, FS_Subset, FS_CardinalityType
  <1>5. CD!CreditsAreBoxes'
    <2> SUFFICES ASSUME NEW t \in {1, 2}
                 PROVE  dotsCredited'[t] = Cardinality({b \in CD!Boxes : owner'[b] = t})
      BY SameCardinality DEF CD!CreditsAreBoxes
    <2>1. dotsCredited[t] = Cardinality({b \in CD!Boxes : owner[b] = t})
      BY SameCardinality DEF DotsInv, CD!CreditsAreBoxes
    <2>2. CASE t = team
      <3>1. {b \in CD!Boxes : owner'[b] = t} = mine \cup claimed
        BY <1>1, <1>2, <2>2
      <3>2. mine \cap claimed = {} /\ IsFiniteSet(mine)
        BY <1>1, <1>2, BoxesFinite, FS_Subset
      <3>3. Cardinality(mine \cup claimed) = Cardinality(mine) + Cardinality(claimed)
        <4>1. Cardinality(mine \cup claimed) =
                 Cardinality(mine) + Cardinality(claimed) - Cardinality(mine \cap claimed)
          BY <1>4, <3>2, FS_Union
        <4>2. Cardinality(mine) \in Nat /\ Cardinality(mine \cap claimed) = 0
          BY <3>2, FS_EmptySet, FS_CardinalityType
        <4> QED
          BY <1>4, <4>1, <4>2
      <3> QED
        BY <1>1, <2>1, <2>2, <3>1, <3>3 DEF DotsInv, CD!TypeOK
    <2>3. CASE t # team
      <3>1. {b \in CD!Boxes : owner'[b] = t} = {b \in CD!Boxes : owner[b] = t}
        BY <1>1, <1>2, <2>3
      <3> QED
        BY <1>1, <2>1, <2>3, <3>1 DEF DotsInv, CD!TypeOK
    <2> QED
      BY <2>2, <2>3
  <1>6. CD!TypeOK'
    <2>1. drawn' \in SUBSET CD!Edges /\ owner' \in [CD!Boxes -> {0, 1, 2}]
      BY <1>1 DEF DotsInv, CD!TypeOK
    <2>2. dotsTurn' \in {1, 2}
      <3>1. dotsTurn \in {1, 2}
        BY DEF DotsInv, CD!TypeOK
      <3> QED
        BY <1>1, <3>1
    <2>3. dotsCredited' \in [{1, 2} -> Nat]
      <3>1. dotsCredited \in [{1, 2} -> Nat]
        BY DEF DotsInv, CD!TypeOK
      <3> QED
        BY <1>1, <1>4, <3>1
    <2> QED
      BY <1>1, <2>1, <2>2, <2>3 DEF DotsInv, CD!TypeOK
  <1> QED
    BY <1>3, <1>5, <1>6 DEF DotsInv

LEMMA DotsStep == DotsInv /\ [CD!Next]_dotsVars => DotsInv'
  <1> SUFFICES ASSUME DotsInv, [CD!Next]_dotsVars PROVE DotsInv'
    OBVIOUS
  <1>1. ASSUME NEW p \in Hashes, CD!NewPlayer(p) PROVE DotsInv'
    <2>1. dotsPlayers' \in Seq(Hashes) /\ Len(dotsPlayers') <= 2
      BY <1>1 DEF CD!NewPlayer, DotsInv, CD!TypeOK
    <2> QED
      BY <1>1, <2>1 DEF CD!NewPlayer, DotsInv, CD!TypeOK, OwnedWhenClosed,
                        CD!CreditsAreBoxes
  <1>2. ASSUME NEW team, NEW c, CD!HandleInput(team, c) PROVE DotsInv'
    <2>1. CASE CD!PastTheField(team, c) \/ CD!Ignored(team, c)
      BY <2>1 DEF CD!PastTheField, CD!Ignored, CD!vars, DotsInv, CD!TypeOK,
                  OwnedWhenClosed, CD!CreditsAreBoxes
    <2> QED
      BY <1>2, <2>1, AddEdgeStep DEF CD!HandleInput
  <1>3. CASE UNCHANGED dotsVars
    BY <1>3 DEF dotsVars, DotsInv, CD!TypeOK, OwnedWhenClosed, CD!CreditsAreBoxes
  <1> QED
    BY <1>1, <1>2, <1>3 DEF CD!Next

LEMMA DotsInvariant == RulesSpec => []DotsInv
  <1>1. RulesInit => DotsInv
    BY DotsInit DEF RulesInit
  <1>2. [RulesNext]_<<game, dotsVars, connect4Vars, boardVars, vars>>
           => [CD!Next]_dotsVars
    BY DEF RulesNext
  <1> QED
    BY <1>1, <1>2, DotsStep, PTL DEF RulesSpec

\* A box has an owner exactly when its four sides are drawn, for a field of any
\* size and any choices of the players (addEdge).
THEOREM ClosedBoxesAreOwned == RulesSpec => []BoxesOwned
  <1>1. DotsInv => BoxesOwned
    <2> SUFFICES ASSUME OwnedWhenClosed, NEW b \in CD!Boxes
                 PROVE  owner[b] # CD!EMPTY <=> \A e \in CD!Edges :
                           (e[1] - b[1]) * (e[1] - b[1])
                              + (e[2] - b[2]) * (e[2] - b[2]) = 1 => e \in drawn
      BY DEF DotsInv, BoxesOwned, CD!BoxesOwned
    <2> QED
      BY Adjacent DEF OwnedWhenClosed
  <1> QED
    BY <1>1, DotsInvariant, PTL

\* Each player was credited once for each box it owns, for a field of any size
\* (addEdge and ConsumeWinners).
THEOREM BoxesAreCredited == RulesSpec => []CreditsAreBoxes
  <1>1. DotsInv => CreditsAreBoxes
    BY DEF DotsInv, CreditsAreBoxes
  <1> QED
    BY <1>1, DotsInvariant, PTL

-----------------------------------------------------------------------------
(* The ball of pong.                                                       *)

BallInv == TypeOK /\ BallInPlay

\* The middle of the field.
LEMMA Middle ==
    /\ Width \div 2 \in Int /\ 0 < Width \div 2 /\ Width \div 2 < Width
    /\ Height \div 2 \in Int /\ 0 <= Height \div 2 /\ Height \div 2 <= Height
    /\ Height \div 2 \in HalfPaddle .. (Height - HalfPaddle)
  BY FieldAssumption

LEMMA ClampIn ==
    ASSUME NEW v \in Int, NEW lo \in Int, NEW hi \in Int, lo <= hi
    PROVE  Clamp(v, lo, hi) \in lo .. hi
  BY DEF Clamp

LEMMA PaddleMoves ==
    ASSUME NEW py \in Int, NEW d \in Directions, NEW dt \in Nat
    PROVE  MovePaddle(py, d, dt) \in HalfPaddle .. (Height - HalfPaddle)
  <1>1. /\ PaddleSpeed * dt \in Int
        /\ HalfPaddle \in Int /\ Height - HalfPaddle \in Int
        /\ HalfPaddle <= Height - HalfPaddle
    BY FieldAssumption
  <1>2. Moved(py, d, dt) \in Int
    BY <1>1 DEF Moved, Directions
  <1> QED
    BY <1>1, <1>2, ClampIn DEF MovePaddle

\* The ball moves on in the direction of its speed.
LEMMA Moves ==
    ASSUME NEW v \in Int \ {0}, NEW dt \in Dts
    PROVE  v * dt \in Int /\ (v < 0 => v * dt < 0) /\ (v > 0 => v * dt > 0)
  <1>1. dt \in Nat \ {0}
    BY ServesAssumption
  <1>2. \A a, b \in Nat \ {0} : a * b > 0
    OBVIOUS
  <1>3. v * dt \in Int /\ (-v) * dt = -(v * dt)
    BY <1>1
  <1> QED
    BY <1>1, <1>2, <1>3

LEMMA ServeType ==
    ASSUME NEW towards \in {-1, 1}, ResetBall(towards)
    PROVE  /\ x' \in Int /\ y' \in Int /\ vx' \in Int \ {0} /\ vy' \in Int
           /\ BallInPlay'
  <1>1. PICK s \in Serves : vx' = towards * s[1] /\ vy' = s[2]
    BY DEF ResetBall
  <1>2. s[1] \in Nat \ {0} /\ s[2] \in Int
    BY ServesAssumption
  <1> QED
    BY <1>1, <1>2, Middle DEF ResetBall, BallInPlay

LEMMA BallInit == Init => BallInv
  <1> SUFFICES ASSUME Init PROVE BallInv
    OBVIOUS
  <1>1. PICK s \in Serves, sign \in {-1, 1} : vx = sign * s[1] /\ vy = s[2]
    BY DEF Init
  <1>2. s[1] \in Nat \ {0} /\ s[2] \in Int
    BY ServesAssumption
  <1> QED
    BY <1>1, <1>2, Middle DEF Init, BallInv, TypeOK, BallInPlay, Directions

\* A ball that moves to bx, by, between the walls, stays between the edges.
LEMMA MeetStep ==
    ASSUME BallInv, NEW dt \in Dts, NEW by \in 0 .. Height, NEW bvy \in Int,
           MeetPaddle(x + vx * dt, by, bvy)
    PROVE  /\ x' \in Int /\ y' \in Int /\ vx' \in Int \ {0} /\ vy' \in Int
           /\ score1' \in Nat /\ score2' \in Nat
           /\ BallInPlay'
  <1> DEFINE bx == x + vx * dt
             side == IF vx < 0 THEN -1 ELSE 1
  <1>1. /\ x \in Int /\ vx \in Int \ {0} /\ 0 < x /\ x < Width
        /\ score1 \in Nat /\ score2 \in Nat
    BY DEF BallInv, TypeOK, BallInPlay
  <1>2. bx \in Int /\ (vx < 0 => bx < Width) /\ (vx > 0 => bx > 0)
    BY <1>1, Moves, FieldAssumption
  <1>3. PICK defended \in BOOLEAN :
           \/ /\ Reached(bx, side) /\ defended
              /\ vx' = -vx /\ x' = FaceOf(side) /\ y' = by /\ vy' = bvy
              /\ UNCHANGED scoreVars
           \/ /\ Reached(bx, side) /\ ~defended /\ Out(bx, side)
              /\ score1' = IF side = 1 THEN score1 + 1 ELSE score1
              /\ score2' = IF side = -1 THEN score2 + 1 ELSE score2
              /\ ResetBall(ServeTo(side))
           \/ /\ ~Reached(bx, side) \/ (~defended /\ ~Out(bx, side))
              /\ x' = bx /\ y' = by /\ vy' = bvy
              /\ UNCHANGED <<vx, scoreVars>>
    BY DEF MeetPaddle, WithinPaddle
  <1> HIDE DEF bx
  <1>4. CASE /\ x' = FaceOf(side) /\ vx' = -vx /\ y' = by /\ vy' = bvy
             /\ UNCHANGED scoreVars
    BY <1>1, <1>4, FieldAssumption DEF FaceOf, scoreVars, BallInPlay
  <1>5. CASE /\ score1' = IF side = 1 THEN score1 + 1 ELSE score1
             /\ score2' = IF side = -1 THEN score2 + 1 ELSE score2
             /\ ResetBall(ServeTo(side))
    <2>1. ServeTo(side) \in {-1, 1}
      <3>1. side \in {-1, 1}
        OBVIOUS
      <3> HIDE DEF side
      <3> QED
        BY <3>1 DEF ServeTo
    <2> QED
      BY <1>1, <1>5, <2>1, ServeType
  <1>6. CASE /\ ~Reached(bx, side) \/ ~Out(bx, side)
             /\ x' = bx /\ y' = by /\ vy' = bvy
             /\ UNCHANGED <<vx, scoreVars>>
    <2>1. 0 < bx /\ bx < Width
      BY <1>1, <1>2, <1>6, FieldAssumption DEF Reached, Out
    <2> QED
      BY <1>1, <1>2, <1>6, <2>1, FieldAssumption DEF scoreVars, BallInPlay
  <1> QED
    BY <1>3, <1>4, <1>5, <1>6

LEMMA BallStep == BallInv /\ [Next]_vars => BallInv'
  <1> SUFFICES ASSUME BallInv, [Next]_vars PROVE BallInv'
    OBVIOUS
  <1> USE DEF ballVars, paddleVars, dirVars, scoreVars
  <1>1. CASE PlayersChange
    BY <1>1 DEF PlayersChange, BallInv, TypeOK, BallInPlay
  <1>2. CASE SetDirection
    BY <1>2 DEF SetDirection, BallInv, TypeOK, BallInPlay
  <1>3. ASSUME NEW dt \in Dts, Step(dt) PROVE BallInv'
    <2> DEFINE by == y + vy * dt
    <2>1. by \in Int /\ dt \in Nat
      BY ServesAssumption DEF BallInv, TypeOK
    <2>2. PICK b \in 0 .. Height, v \in Int : MeetPaddle(x + vx * dt, b, v)
      <3>1. CASE AtWall(by)
        <4>1. Clamp(by, 0, Height) \in 0 .. Height /\ Rebound(vy) \in Int
          <5>1. 0 \in Int /\ Height \in Int /\ 0 <= Height /\ vy \in Int
            BY FieldAssumption DEF BallInv, TypeOK
          <5>2. Clamp(by, 0, Height) \in 0 .. Height
            BY <2>1, <5>1, ClampIn
          <5>3. Rebound(vy) \in Int
            BY <5>1 DEF Rebound
          <5> QED
            BY <5>2, <5>3
        <4> QED
          BY <1>3, <3>1, <4>1 DEF Step
      <3>2. CASE ~AtWall(by)
        <4>1. by \in 0 .. Height /\ vy \in Int
          BY <2>1, <3>2, FieldAssumption DEF AtWall, BallInv, TypeOK
        <4> QED
          BY <1>3, <3>2, <4>1 DEF Step
      <3> QED
        BY <3>1, <3>2
    <2>3. {paddle1Y', paddle2Y'} \subseteq HalfPaddle .. (Height - HalfPaddle)
      <3>1. /\ paddle1Y \in Int /\ paddle2Y \in Int
            /\ dir1 \in Directions /\ dir2 \in Directions
        BY FieldAssumption DEF BallInv, TypeOK
      <3> QED
        BY <1>3, <2>1, <3>1, PaddleMoves DEF Step
    <2>4. UNCHANGED <<dir1, dir2, players>>
      BY <1>3 DEF Step
    <2> QED
      BY <2>2, <2>3, <2>4, MeetStep DEF BallInv, TypeOK
  <1>4. CASE UNCHANGED vars
    BY <1>4 DEF vars, BallInv, TypeOK, BallInPlay
  <1> QED
    BY <1>1, <1>2, <1>3, <1>4 DEF Next

\* Between steps the ball is strictly between the two edges and within the walls,
\* for a field, speeds and delays of any size: what passes a paddle's face and
\* the edge in one step is returned or scored in it (game.step).
THEOREM BallStaysInPlay == RulesSpec => []BallInPlay
  <1>1. RulesInit => BallInv
    BY BallInit DEF RulesInit
  <1>2. [RulesNext]_<<game, dotsVars, connect4Vars, boardVars, vars>> => [Next]_vars
    BY DEF RulesNext
  <1>3. BallInv => BallInPlay
    BY DEF BallInv
  <1> QED
    BY <1>1, <1>2, <1>3, BallStep, PTL DEF RulesSpec


-----------------------------------------------------------------------------
(* The whiteboard: what holds of its state.                                *)

Seated == {p \in Hashes : joinPc[p] = "seated"}

\* An input that is being applied has not been pushed as an output yet.
OutputsCounted == pending + (IF gamePc = "pop" THEN 0 ELSE 1) <= events

BoardType ==
    /\ WB!TypeOK /\ OutputsCounted
    /\ outPc = "write" => todo # <<>>

\* Who is seated is in players, and only they are written to; a page that has
\* not been sent the first image has none to draw.
SeatsListed ==
    /\ \A i \in 1 .. Len(artists) : artists[i] \in Seated
    /\ \A i \in 1 .. Len(todo) : todo[i] \in Seated
    /\ \A p \in Seated : \E i \in 1 .. Len(artists) : artists[i] = p
    /\ \A p \in Hashes : joinPc[p] \in {"away", "encode"} => loading[p] = <<>>

\* Page p draws the image, or will when it has drawn what it has received.
Loads(p) == \A i \in 1 .. Len(loading[p]) : loading[p][i] = img
UpToDate(p) == Loads(p) /\ (loading[p] = <<>> => copy[p] = img)

\* Message m brings page p up to date.
Fixes(p, m) ==
    IF m.type = "full" THEN m.png = img
    ELSE loading[p] = <<>> /\ WB!Paint(copy[p], m.change) = img

\* The stages of a change that nothing has overlapped.
Applied == gamePc = "mark" /\ pending = 0 /\ outPc = "pop"
OnItsWay ==
    \/ gamePc = "push" /\ pending = 0 /\ outPc = "pop"
    \/ gamePc = "pop" /\ pending = 1 /\ outPc = "pop"
    \/ gamePc = "pop" /\ pending = 0 /\ outPc = "json"
Encoding == gamePc = "pop" /\ pending = 0 /\ outPc = "encode"
Sending == gamePc = "pop" /\ pending = 0 /\ outPc \in {"range", "write"}

\* Nobody joins and no page draws a full image.
NothingElse ==
    \A p \in Hashes : joinPc[p] \in {"away", "seated"} /\ loading[p] = <<>>

IdleOK ==
    \A p \in Hashes :
        /\ joinPc[p] = "encode" => \A c \in Regions : read[p][c] = {img[c]}
        /\ joinPc[p] \in {"append", "seated"} => UpToDate(p)
AppliedOK ==
    /\ NothingElse /\ ~needsFull
    /\ ~WB!AsksForFull(change) =>
          \A p \in Seated : WB!Paint(copy[p], change) = img
OnItsWayOK ==
    /\ NothingElse
    /\ ~needsFull => \A p \in Seated : WB!Paint(copy[p], lastChange) = img
EncodingOK ==
    NothingElse /\ \A c \in Regions : read[WB!Loop][c] = {img[c]}
SendingOK ==
    /\ \A p \in Hashes : joinPc[p] \in {"away", "seated"}
    /\ \A p \in Seated :
          /\ Loads(p) /\ Fixes(p, message)
          /\ outPc = "range" => loading[p] = <<>>
          /\ outPc = "write" =>
                UpToDate(p) \/ \E i \in 1 .. Len(todo) : todo[i] = p

\* As long as nothing has overlapped, a change goes through its stages alone.
Settling ==
    \/ WB!Idle /\ IdleOK
    \/ Applied /\ AppliedOK
    \/ OnItsWay /\ OnItsWayOK
    \/ Encoding /\ EncodingOK
    \/ Sending /\ SendingOK

BoardInv ==
    /\ BoardType /\ WB!FullIsOwed /\ SeatsListed
    /\ ~rushed => Settling

-----------------------------------------------------------------------------
(* The whiteboard: types.                                                  *)

LEMMA ChangeType ==
    ASSUME NEW ch \in WB!Changes \cup {WB!NoChange}
    PROVE  /\ ch.color \in Colors
           /\ ~WB!AsksForFull(ch) => ch \in WB!LastDraws
  BY BoardAssumption DEF WB!Changes, WB!NoChange, WB!LastDraws, WB!AsksForFull

LEMMA PaintType ==
    ASSUME NEW image \in WB!Images, NEW ch, ch.color \in Colors
    PROVE  WB!Paint(image, ch) \in WB!Images
  BY DEF WB!Images, WB!Paint

LEMMA LoopType == WB!Loop \in WB!Encoders /\ Hashes \subseteq WB!Encoders
  BY DEF WB!Encoders

LEMMA MessageType ==
    /\ \A ch \in WB!LastDraws : WB!Delta(ch) \in [type : {"full"}, png : WB!Images]
                   \cup [type : {"delta"}, change : WB!LastDraws]
    /\ \A image \in WB!Images : WB!Full(image) \in [type : {"full"}, png : WB!Images]
                   \cup [type : {"delta"}, change : WB!LastDraws]
    /\ WB!NoChange \in WB!LastDraws
  BY BoardAssumption DEF WB!Delta, WB!Full, WB!NoChange, WB!LastDraws

LEMMA RemoveType ==
    ASSUME NEW S, NEW s \in Seq(S), NEW i \in DOMAIN s
    PROVE  /\ WB!RemoveAt(s, i) \in Seq(S)
           /\ \A j \in 1 .. Len(WB!RemoveAt(s, i)) :
                 \E k \in 1 .. Len(s) : WB!RemoveAt(s, i)[j] = s[k]
  <1> DEFINE r == WB!RemoveAt(s, i)
  <1>1. r = SubSeq(s, 1, i - 1) \o SubSeq(s, i + 1, Len(s))
    BY DEF WB!RemoveAt
  <1> HIDE DEF r
  <1>2. r \in Seq(S) /\ Elements(r) \subseteq Elements(s)
    BY <1>1, CutOut, Zenon
  <1> QED
    BY <1>2 DEF r, Elements

LEMMA BoardTypeInit == WB!Init => BoardType
  <1> SUFFICES ASSUME WB!Init PROVE BoardType
    OBVIOUS
  <1>1. WB!Blank \in WB!Images
    BY BoardAssumption DEF WB!Blank, WB!Images
  <1>2. /\ artists \in Seq(Hashes) /\ todo \in Seq(Hashes)
        /\ loading \in [Hashes -> Seq(WB!Images)]
    BY EmptySeq DEF WB!Init
  <1>3. /\ lastChange \in WB!LastDraws
        /\ message \in [type : {"full"}, png : WB!Images]
                       \cup [type : {"delta"}, change : WB!LastDraws]
    BY MessageType DEF WB!Init
  <1>4. /\ events \in 0 .. MaxEvents /\ pending \in 0 .. MaxEvents /\ OutputsCounted
    BY BoardAssumption DEF WB!Init, OutputsCounted
  <1> QED
    BY <1>1, <1>2, <1>3, <1>4 DEF WB!Init, BoardType, WB!TypeOK
Messages == [type : {"full"}, png : WB!Images]
            \cup [type : {"delta"}, change : WB!LastDraws]

LEMMA ReceiveType ==
    ASSUME WB!TypeOK, NEW p \in Hashes, NEW m \in Messages, WB!Receive(p, m)
    PROVE  /\ copy' \in [Hashes -> WB!Images]
           /\ loading' \in [Hashes -> Seq(WB!Images)]
  <1>1. CASE m.type = "full"
    <2>1. m.png \in WB!Images
      BY <1>1 DEF Messages
    <2>2. Append(loading[p], m.png) \in Seq(WB!Images)
      BY <2>1, AppendProperties DEF WB!TypeOK
    <2>3. /\ loading' = [loading EXCEPT ![p] = Append(@, m.png)]
          /\ copy' = copy
      BY <1>1 DEF WB!Receive
    <2>4. loading' \in [Hashes -> Seq(WB!Images)]
      BY <2>2, <2>3 DEF WB!TypeOK
    <2> QED
      BY <2>3, <2>4 DEF WB!TypeOK
  <1>2. CASE m.type # "full"
    <2>1. m.change.color \in Colors
      BY <1>2 DEF Messages, WB!LastDraws
    <2>2. WB!Paint(copy[p], m.change) \in WB!Images
      BY <2>1, PaintType DEF WB!TypeOK
    <2> QED
      BY <1>2, <2>2 DEF WB!Receive, WB!TypeOK
  <1> QED
    BY <1>1, <1>2

LEMMA BoardTypeStep == BoardType /\ [WB!Next]_boardVars => BoardType'
  <1> SUFFICES ASSUME BoardType, [WB!Next]_boardVars PROVE BoardType'
    OBVIOUS
  <1> USE DEF BoardType, OutputsCounted
  <1>0. WB!TypeOK /\ OutputsCounted /\ MaxEvents \in Nat
    BY BoardAssumption
  <1>1. ASSUME NEW ch \in WB!Changes, WB!ChangeState(ch)
        PROVE  BoardType'
    <2>1. img' \in WB!Images
      BY <1>0, <1>1, ChangeType, PaintType DEF WB!TypeOK, WB!ChangeState
    <2>2. read' \in [WB!Encoders -> [Regions -> SUBSET Colors]]
      <3>1. \A c \in Regions : img'[c] \in Colors
        BY <2>1 DEF WB!Images
      <3> QED
        BY <1>0, <1>1, <3>1 DEF WB!TypeOK, WB!ChangeState
    <2>3. events' \in 0 .. MaxEvents /\ OutputsCounted'
      BY <1>0, <1>1 DEF WB!TypeOK, WB!ChangeState, WB!outputLoop
    <2>4. rushed' \in BOOLEAN
      BY <1>0, <1>1, Zenon DEF WB!TypeOK, WB!ChangeState
    <2> QED
      BY <1>0, <1>1, <2>1, <2>2, <2>3, <2>4
      DEF WB!TypeOK, WB!ChangeState, WB!outputLoop, WB!pages
  <1>2. ASSUME WB!Mark PROVE BoardType'
    <2>1. lastChange' \in WB!LastDraws /\ needsFull' \in BOOLEAN
      BY <1>0, <1>2, ChangeType DEF WB!TypeOK, WB!Mark
    <2> QED
      BY <1>0, <1>2, <2>1 DEF WB!TypeOK, WB!Mark, WB!outputLoop, WB!pages
  <1>3. ASSUME WB!PushOutput PROVE BoardType'
    BY <1>0, <1>3
    DEF WB!TypeOK, WB!PushOutput, WB!fields, WB!outputLoop, WB!pages
  <1>4. ASSUME WB!PopOutput PROVE BoardType'
    BY <1>0, <1>4
    DEF WB!TypeOK, WB!PopOutput, WB!fields, WB!gameLoop, WB!pages
  <1>5. ASSUME WB!JSON PROVE BoardType'
    <2>1. ASSUME NEW ch \in WB!LastChanges PROVE ch \in WB!LastDraws
      <3>1. lastChange \in WB!LastDraws
        BY <1>0 DEF WB!TypeOK
      <3>2. change.op = "draw" => change \in WB!LastDraws
        BY <1>0, ChangeType DEF WB!TypeOK, WB!AsksForFull
      <3> QED
        BY <3>1, <3>2 DEF WB!LastChanges, WB!LastDraws
    <2>2. message' \in [type : {"full"}, png : WB!Images]
                       \cup [type : {"delta"}, change : WB!LastDraws]
      BY <1>0, <1>5, <2>1, MessageType DEF WB!TypeOK, WB!JSON
    <2>3. read' \in [WB!Encoders -> [Regions -> SUBSET Colors]]
      <3>1. [c \in Regions |-> {img[c]}] \in [Regions -> SUBSET Colors]
        BY <1>0 DEF WB!TypeOK, WB!Images
      <3> QED
        BY <1>0, <1>5, <3>1 DEF WB!TypeOK, WB!JSON
    <2>4. needsFull' \in BOOLEAN
      BY <1>5 DEF WB!JSON, WB!NeedsFullAfterJSON
    <2> QED
      BY <1>0, <1>5, <2>2, <2>3, <2>4 DEF WB!TypeOK, WB!JSON, WB!gameLoop, WB!pages
  <1> DEFINE NoReads == [c \in Regions |-> {}]
  <1>6. NoReads \in [Regions -> SUBSET Colors]
    OBVIOUS
  <1> HIDE DEF NoReads
  <1>7. ASSUME WB!EncodedPNG PROVE BoardType'
    <2>1. message' \in [type : {"full"}, png : WB!Images]
                       \cup [type : {"delta"}, change : WB!LastDraws]
      BY <1>0, <1>7, MessageType DEF WB!TypeOK, WB!EncodedPNG, WB!Encoded
    <2>2. read' \in [WB!Encoders -> [Regions -> SUBSET Colors]]
      BY <1>0, <1>6, <1>7 DEF WB!TypeOK, WB!EncodedPNG, WB!Forget, NoReads
    <2> QED
      BY <1>0, <1>7, <2>1, <2>2
      DEF WB!TypeOK, WB!EncodedPNG, WB!fields, WB!gameLoop, WB!pages
  <1>8. ASSUME WB!RangePlayers PROVE BoardType'
    <2>1. message' \in [type : {"full"}, png : WB!Images]
                       \cup [type : {"delta"}, change : WB!LastDraws]
      BY <1>0, <1>8, MessageType DEF WB!TypeOK, WB!RangePlayers
    <2> QED
      BY <1>0, <1>8, <2>1
      DEF WB!TypeOK, WB!RangePlayers, WB!fields, WB!gameLoop, WB!pages
  <1>9. ASSUME WB!WriteNext PROVE BoardType'
    <2>0. /\ outPc = "write" /\ todo \in Seq(Hashes) /\ todo # <<>>
          /\ Head(todo) \in Hashes /\ Tail(todo) \in Seq(Hashes)
          /\ Len(Tail(todo)) = Len(todo) - 1 /\ Len(todo) \in Nat
      BY <1>0, <1>9, HeadTailProperties, LenProperties DEF WB!TypeOK, WB!WriteNext
    <2>1. message' \in Messages
      BY <1>0, <1>9, MessageType DEF WB!TypeOK, WB!WriteNext, Messages
    <2>2. /\ copy' \in [Hashes -> WB!Images]
          /\ loading' \in [Hashes -> Seq(WB!Images)]
      BY <1>0, <1>9, <2>0, ReceiveType DEF WB!TypeOK, WB!WriteNext, Messages
    <2>3. outPc' = "write" => todo' # <<>>
      <3>1. outPc' = IF Len(todo) > 1 THEN "write" ELSE "pop"
        BY <1>9 DEF WB!WriteNext
      <3>2. outPc' = "write" => Len(Tail(todo)) # 0
        BY <2>0, <3>1
      <3>3. Len(<<>>) = 0
        OBVIOUS
      <3>4. todo' = Tail(todo)
        BY <1>9 DEF WB!WriteNext
      <3> QED
        BY <3>2, <3>3, <3>4
    <2>4. /\ UNCHANGED <<img, lastChange, needsFull, artists, gamePc, change, events, pending,
                        joinPc, read, rushed>>
          /\ todo' = Tail(todo) /\ outPc' \in {"write", "pop"}
      BY <1>9 DEF WB!WriteNext, WB!fields, WB!gameLoop
    <2>5. OutputsCounted' /\ todo' \in Seq(Hashes)
      BY <1>0, <2>0, <2>4
    <2>6. WB!TypeOK'
      BY <1>0, <2>1, <2>2, <2>4, <2>5 DEF WB!TypeOK, Messages
    <2> QED
      BY <2>3, <2>5, <2>6
  <1>10. ASSUME NEW p \in Hashes, WB!OnLoad(p) PROVE BoardType'
    <2>1. PICK i \in DOMAIN loading[p] :
             /\ copy' = [copy EXCEPT ![p] = loading[p][i]]
             /\ loading' = [loading EXCEPT ![p] = WB!RemoveAt(@, i)]
      BY <1>10 DEF WB!OnLoad
    <2>2. /\ loading[p] \in Seq(WB!Images) /\ loading[p][i] \in WB!Images
          /\ WB!RemoveAt(loading[p], i) \in Seq(WB!Images)
      BY <1>0, RemoveType, ElementOfSeq DEF WB!TypeOK
    <2>3. copy' \in [Hashes -> WB!Images]
      BY <1>0, <2>1, <2>2 DEF WB!TypeOK
    <2>4. loading' \in [Hashes -> Seq(WB!Images)]
      BY <1>0, <2>1, <2>2 DEF WB!TypeOK
    <2> QED
      BY <1>0, <1>10, <2>3, <2>4
      DEF WB!TypeOK, WB!OnLoad, WB!fields, WB!gameLoop, WB!outputLoop
  <1>11. ASSUME NEW p \in Hashes, WB!BeginJoin(p) PROVE BoardType'
    <2>1. read' \in [WB!Encoders -> [Regions -> SUBSET Colors]]
      <3>1. [c \in Regions |-> {img[c]}] \in [Regions -> SUBSET Colors]
        BY <1>0 DEF WB!TypeOK, WB!Images
      <3> QED
        BY <1>0, <1>11, <3>1, LoopType DEF WB!TypeOK, WB!BeginJoin
    <2>2. /\ joinPc' \in [Hashes -> {"away", "encode", "append", "seated"}]
          /\ rushed' \in BOOLEAN
      BY <1>0, <1>11 DEF WB!TypeOK, WB!BeginJoin
    <2> QED
      BY <1>0, <1>11, <2>1, <2>2
      DEF WB!TypeOK, WB!BeginJoin, WB!fields, WB!gameLoop, WB!outputLoop, WB!pages
  <1>12. ASSUME NEW p \in Hashes, WB!SendImage(p) PROVE BoardType'
    <2>1. read' \in [WB!Encoders -> [Regions -> SUBSET Colors]]
      BY <1>0, <1>6, <1>12 DEF WB!TypeOK, WB!SendImage, WB!Forget, NoReads
    <2>2. joinPc' \in [Hashes -> {"away", "encode", "append", "seated"}]
      BY <1>0, <1>12 DEF WB!TypeOK, WB!SendImage
    <2>3. PICK image \in WB!Images : WB!Receive(p, WB!Full(image))
      BY <1>12 DEF WB!SendImage, WB!Encoded
    <2>4. WB!Full(image) \in Messages
      BY MessageType DEF Messages
    <2>5. /\ copy' \in [Hashes -> WB!Images]
          /\ loading' \in [Hashes -> Seq(WB!Images)]
      BY <1>0, <2>3, <2>4, ReceiveType
    <2> QED
      BY <1>0, <1>12, <2>1, <2>2, <2>5
      DEF WB!TypeOK, WB!SendImage, WB!fields, WB!gameLoop, WB!outputLoop
  <1>13. ASSUME NEW p \in Hashes, WB!Seat(p) PROVE BoardType'
    <2>1. artists' \in Seq(Hashes)
      BY <1>0, <1>13, AppendProperties DEF WB!TypeOK, WB!Seat
    <2>2. joinPc' \in [Hashes -> {"away", "encode", "append", "seated"}]
      BY <1>0, <1>13 DEF WB!TypeOK, WB!Seat
    <2> QED
      BY <1>0, <1>13, <2>1, <2>2
      DEF WB!TypeOK, WB!Seat, WB!gameLoop, WB!outputLoop, WB!pages
  <1>14. CASE UNCHANGED boardVars
    BY <1>0, <1>14 DEF WB!TypeOK, boardVars
  <1> QED
    BY <1>1, <1>2, <1>3, <1>4, <1>5, <1>7, <1>8, <1>9, <1>10, <1>11, <1>12,
       <1>13, <1>14 DEF WB!Next

-----------------------------------------------------------------------------
(* The whiteboard: the full image that is owed, and who is seated.         *)

LEMMA FullIsOwedStep ==
    BoardType /\ WB!FullIsOwed /\ [WB!Next]_boardVars => WB!FullIsOwed'
  <1> SUFFICES ASSUME BoardType, WB!FullIsOwed, [WB!Next]_boardVars
               PROVE  WB!FullIsOwed'
    OBVIOUS
  <1>0. /\ pending \in Nat /\ needsFull \in BOOLEAN
        /\ gamePc \in {"pop", "mark", "push"}
    BY BoardAssumption DEF BoardType, WB!TypeOK
  <1> USE DEF WB!FullIsOwed
  <1>1. CASE \E ch \in WB!Changes : WB!ChangeState(ch)
    BY <1>0, <1>1 DEF WB!ChangeState, WB!outputLoop
  <1>2. CASE WB!Mark
    BY <1>2 DEF WB!Mark
  <1>7. CASE WB!PushOutput
    <2>1. pending' = pending + 1
      BY <1>7 DEF WB!PushOutput
    <2> QED
      BY <1>0, <2>1
  <1>3. CASE WB!PopOutput \/ WB!JSON \/ WB!EncodedPNG
    BY <1>0, <1>3 DEF WB!PopOutput, WB!JSON, WB!EncodedPNG, WB!fields,
                      WB!gameLoop, WB!NeedsFullAfterJSON
  <1>4. CASE WB!RangePlayers \/ WB!WriteNext
    BY <1>0, <1>4 DEF WB!RangePlayers, WB!WriteNext, WB!fields, WB!gameLoop
  <1>5. ASSUME NEW p \in Hashes,
               WB!OnLoad(p) \/ WB!BeginJoin(p) \/ WB!SendImage(p) \/ WB!Seat(p)
        PROVE  WB!FullIsOwed'
    BY <1>0, <1>5 DEF WB!OnLoad, WB!BeginJoin, WB!SendImage, WB!Seat, WB!fields,
                      WB!gameLoop, WB!outputLoop
  <1>6. CASE UNCHANGED boardVars
    BY <1>6 DEF boardVars
  <1> QED
    BY <1>1, <1>2, <1>3, <1>4, <1>5, <1>6, <1>7 DEF WB!Next

LEMMA SeatsListedStep ==
    BoardType /\ SeatsListed /\ [WB!Next]_boardVars => SeatsListed'
  <1> SUFFICES ASSUME BoardType, SeatsListed, [WB!Next]_boardVars
               PROVE  SeatsListed'
    OBVIOUS
  <1>0. /\ artists \in Seq(Hashes) /\ todo \in Seq(Hashes)
        /\ joinPc \in [Hashes -> {"away", "encode", "append", "seated"}]
        /\ loading \in [Hashes -> Seq(WB!Images)]
        /\ outPc = "write" => todo # <<>>
    BY DEF BoardType, WB!TypeOK
  <1> DEFINE Same == UNCHANGED <<artists, todo, joinPc, loading>>
  <1>1. ASSUME Same PROVE SeatsListed'
    BY <1>1 DEF SeatsListed, Seated
  <1>2. CASE \E ch \in WB!Changes : WB!ChangeState(ch)
    BY <1>1, <1>2 DEF WB!ChangeState, WB!outputLoop, WB!pages
  <1>3. CASE WB!Mark \/ WB!PushOutput
    BY <1>1, <1>3 DEF WB!Mark, WB!PushOutput, WB!fields, WB!outputLoop, WB!pages
  <1>4. CASE WB!PopOutput \/ WB!JSON \/ WB!EncodedPNG
    BY <1>1, <1>4 DEF WB!PopOutput, WB!JSON, WB!EncodedPNG, WB!fields, WB!pages
  <1>5. CASE WB!RangePlayers
    BY <1>5 DEF WB!RangePlayers, WB!fields, WB!pages, SeatsListed, Seated
  <1>6. CASE WB!WriteNext
    <2>1. /\ todo # <<>> /\ Head(todo) = todo[1] /\ 1 \in 1 .. Len(todo)
          /\ Len(Tail(todo)) = Len(todo) - 1 /\ Len(todo) \in Nat
          /\ \A i \in 1 .. Len(Tail(todo)) : Tail(todo)[i] = todo[i + 1]
      BY <1>0, <1>6, HeadTailProperties, LenProperties, EmptySeq DEF WB!WriteNext
    <2>2. Head(todo) \in Seated
      BY <2>1 DEF SeatsListed
    <2>3. \A i \in 1 .. Len(todo') : todo'[i] \in Seated
      BY <1>6, <2>1 DEF SeatsListed, WB!WriteNext
    <2>4. /\ UNCHANGED <<artists, joinPc>>
          /\ \A p \in Hashes : p # Head(todo) => loading'[p] = loading[p]
      BY <1>0, <1>6 DEF WB!WriteNext, WB!Receive, WB!fields
    <2> QED
      BY <1>0, <2>2, <2>3, <2>4 DEF SeatsListed, Seated
  <1>7. ASSUME NEW p \in Hashes, WB!OnLoad(p) PROVE SeatsListed'
    <2>1. PICK i \in DOMAIN loading[p] :
             loading' = [loading EXCEPT ![p] = WB!RemoveAt(@, i)]
      BY <1>7 DEF WB!OnLoad
    <2>2. loading[p] # <<>>
      BY <2>1
    <2> QED
      BY <1>0, <1>7, <2>1, <2>2
      DEF WB!OnLoad, SeatsListed, Seated, WB!fields, WB!outputLoop
  <1>8. ASSUME NEW p \in Hashes, WB!BeginJoin(p) PROVE SeatsListed'
    BY <1>0, <1>8
    DEF WB!BeginJoin, SeatsListed, Seated, WB!fields, WB!outputLoop, WB!pages
  <1>9. ASSUME NEW p \in Hashes, WB!SendImage(p) PROVE SeatsListed'
    <2>1. /\ joinPc[p] = "encode" /\ joinPc' = [joinPc EXCEPT ![p] = "append"]
          /\ \A q \in Hashes : q # p => loading'[q] = loading[q]
          /\ UNCHANGED <<artists, todo>>
      BY <1>0, <1>9 DEF WB!SendImage, WB!Receive, WB!Full, WB!fields, WB!outputLoop
    <2> QED
      BY <1>0, <2>1 DEF SeatsListed, Seated
  <1>10. ASSUME NEW p \in Hashes, WB!Seat(p) PROVE SeatsListed'
    <2>1. /\ artists' = Append(artists, p) /\ joinPc' = [joinPc EXCEPT ![p] = "seated"]
          /\ UNCHANGED <<todo, loading>>
      BY <1>10 DEF WB!Seat, WB!outputLoop, WB!pages
    <2>2. /\ Len(artists') = Len(artists) + 1 /\ artists'[Len(artists) + 1] = p
          /\ \A i \in 1 .. Len(artists) : artists'[i] = artists[i]
          /\ Len(artists) \in Nat
      BY <1>0, <2>1, AppendProperties, LenProperties
    <2>3. Seated' = Seated \cup {p}
      BY <1>0, <2>1 DEF Seated
    <2>4. \A i \in 1 .. Len(artists') : artists'[i] \in Seated'
      BY <2>2, <2>3 DEF SeatsListed
    <2>5. \A i \in 1 .. Len(todo') : todo'[i] \in Seated'
      BY <2>1, <2>3 DEF SeatsListed
    <2>6. ASSUME NEW q \in Seated' PROVE \E i \in 1 .. Len(artists') : artists'[i] = q
      <3>1. CASE q = p
        BY <2>2, <3>1
      <3>2. CASE q # p
        BY <2>2, <2>3, <3>2 DEF SeatsListed
      <3> QED
        BY <3>1, <3>2
    <2>7. ASSUME NEW q \in Hashes, joinPc'[q] \in {"away", "encode"}
          PROVE  loading'[q] = <<>>
      BY <1>0, <2>1, <2>7 DEF SeatsListed
    <2> QED
      BY <2>4, <2>5, <2>6, <2>7 DEF SeatsListed
  <1>11. CASE UNCHANGED boardVars
    BY <1>1, <1>11 DEF boardVars
  <1> QED
    BY <1>2, <1>3, <1>4, <1>5, <1>6, <1>7, <1>8, <1>9, <1>10, <1>11 DEF WB!Next

-----------------------------------------------------------------------------
(* The whiteboard: a change that nothing overlaps reaches everybody.       *)

LEMMA PaintAgain ==
    ASSUME NEW image \in WB!Images, NEW ch
    PROVE  WB!Paint(WB!Paint(image, ch), ch) = WB!Paint(image, ch)
  BY DEF WB!Paint

\* An image that was encoded while nothing changed is the image.
LEMMA Sharp ==
    ASSUME NEW image \in WB!Images, img \in WB!Images, NEW e,
           \A c \in Regions : image[c] \in read[e][c],
           \A c \in Regions : read[e][c] = {img[c]}
    PROVE  image = img
  <1>1. \A c \in Regions : image[c] = img[c]
    OBVIOUS
  <1> QED
    BY <1>1 DEF WB!Images

LEMMA SettlingInit == WB!Init => Settling
  BY DEF WB!Init, Settling, WB!Idle, IdleOK

\* What GameLoop does to the stages.
LEMMA SettlingGameLoop ==
    ASSUME BoardType, WB!FullIsOwed, SeatsListed, ~rushed => Settling, ~rushed',
           (\E ch \in WB!Changes : WB!ChangeState(ch)) \/ WB!Mark \/ WB!PushOutput
    PROVE  Settling'
  <1>0. WB!TypeOK /\ MaxEvents \in Nat
    BY BoardAssumption DEF BoardType
  <1>1. ASSUME NEW ch \in WB!Changes, WB!ChangeState(ch) PROVE Settling'
    <2>1. WB!Still /\ (rushed => ch.op # "draw")
      BY <1>1 DEF WB!ChangeState
    <2>2. ~needsFull
      BY <2>1 DEF WB!FullIsOwed, WB!Still, WB!Idle
    <2>3. /\ gamePc' = "mark" /\ change' = ch /\ img' = WB!Paint(img, ch)
          /\ UNCHANGED <<needsFull, pending, outPc, joinPc, copy, loading>>
      BY <1>1 DEF WB!ChangeState, WB!outputLoop, WB!pages
    <2>4. ASSUME ~WB!AsksForFull(ch), NEW p \in Seated
          PROVE  WB!Paint(copy[p], ch) = img'
      <3>1. Settling
        BY <2>1, <2>4 DEF WB!AsksForFull
      <3>2. IdleOK
        BY <2>1, <3>1 DEF Settling, WB!Still, WB!Idle, Applied, OnItsWay, Encoding,
                          Sending
      <3>3. copy[p] = img
        BY <2>1, <3>2 DEF IdleOK, Seated, UpToDate, WB!Still
      <3> QED
        BY <2>3, <3>3
    <2>5. Applied'
      BY <2>1, <2>3 DEF Applied, WB!Still, WB!Idle
    <2>6. NothingElse'
      BY <2>1, <2>3 DEF NothingElse, WB!Still
    <2>7. AppliedOK'
      BY <2>2, <2>3, <2>4, <2>6 DEF AppliedOK, Seated
    <2> QED
      BY <2>5, <2>7 DEF Settling
  <1>2. CASE WB!Mark
    <2>1. gamePc = "mark" /\ gamePc' = "push" /\ ~rushed
      BY <1>2 DEF WB!Mark
    <2>2. Applied /\ AppliedOK
      BY <2>1 DEF Settling, WB!Idle, OnItsWay, Encoding, Sending
    <2>3. UNCHANGED <<img, pending, outPc, joinPc, copy, loading>>
      BY <1>2 DEF WB!Mark, WB!outputLoop, WB!pages
    <2>4. ~needsFull' => ~WB!AsksForFull(change) /\ lastChange' = change
      BY <1>2 DEF WB!Mark
    <2>5. OnItsWay' /\ NothingElse'
      BY <2>1, <2>2, <2>3 DEF OnItsWay, Applied, AppliedOK, NothingElse
    <2>6. ~needsFull' =>
             \A p \in Seated' : WB!Paint(copy[p], lastChange)' = img'
      BY <2>2, <2>3, <2>4 DEF AppliedOK, Seated, WB!Paint
    <2> QED
      BY <2>5, <2>6 DEF Settling, OnItsWayOK
  <1>3. CASE WB!PushOutput
    <2>1. gamePc = "push" /\ gamePc' = "pop" /\ ~rushed /\ pending' = pending + 1
      BY <1>3 DEF WB!PushOutput
    <2>2. OnItsWay /\ OnItsWayOK /\ pending = 0 /\ outPc = "pop"
      BY <2>1 DEF Settling, WB!Idle, Applied, OnItsWay, Encoding, Sending
    <2>3. UNCHANGED <<img, lastChange, needsFull, outPc, joinPc, copy, loading>>
      BY <1>3 DEF WB!PushOutput, WB!fields, WB!outputLoop, WB!pages
    <2>4. OnItsWay'
      BY <2>1, <2>2, <2>3 DEF OnItsWay
    <2>5. OnItsWayOK'
      BY <2>2, <2>3 DEF OnItsWayOK, NothingElse, Seated, WB!Paint
    <2> QED
      BY <2>4, <2>5 DEF Settling
  <1> QED
    BY <1>1, <1>2, <1>3

\* What OutputLoop does to the stages up to the writes.
LEMMA SettlingJSON ==
    ASSUME BoardType, SeatsListed, ~rushed => Settling, ~rushed',
           WB!PopOutput \/ WB!JSON \/ WB!EncodedPNG \/ WB!RangePlayers
    PROVE  Settling'
  <1>0. WB!TypeOK /\ MaxEvents \in Nat /\ WB!Loop \in WB!Encoders
    BY BoardAssumption, LoopType DEF BoardType
  <1>1. CASE WB!PopOutput
    <2>1. outPc = "pop" /\ pending > 0 /\ pending' = pending - 1 /\ outPc' = "json"
          /\ ~rushed
      BY <1>1 DEF WB!PopOutput
    <2>2. OnItsWay /\ OnItsWayOK /\ gamePc = "pop" /\ pending = 1
      BY <2>1 DEF Settling, WB!Idle, Applied, OnItsWay, Encoding, Sending
    <2>3. UNCHANGED <<img, lastChange, needsFull, gamePc, joinPc, copy, loading>>
      BY <1>1 DEF WB!PopOutput, WB!fields, WB!gameLoop, WB!pages
    <2>4. OnItsWay'
      BY <2>1, <2>2, <2>3 DEF OnItsWay
    <2>5. OnItsWayOK'
      BY <2>2, <2>3 DEF OnItsWayOK, NothingElse, Seated, WB!Paint
    <2> QED
      BY <2>4, <2>5 DEF Settling
  <1>2. CASE WB!JSON
    <2>1. outPc = "json" /\ ~rushed
      BY <1>2 DEF WB!JSON
    <2>2. OnItsWayOK /\ gamePc = "pop" /\ pending = 0
      BY <2>1 DEF Settling, WB!Idle, Applied, OnItsWay, Encoding, Sending
    <2>3. UNCHANGED <<img, gamePc, pending, joinPc, copy, loading>>
      BY <1>2 DEF WB!JSON, WB!gameLoop, WB!pages
    <2>4. NothingElse'
      BY <2>2, <2>3 DEF OnItsWayOK, NothingElse
    <2>5. CASE needsFull
      <3>1. /\ outPc' = "encode"
            /\ read' = [read EXCEPT ![WB!Loop] = [c \in Regions |-> {img[c]}]]
        BY <1>2, <2>5 DEF WB!JSON
      <3>2. \A c \in Regions : read'[WB!Loop][c] = {img'[c]}
        BY <1>0, <2>3, <3>1 DEF WB!TypeOK
      <3>3. Encoding' /\ EncodingOK'
        BY <2>2, <2>3, <2>4, <3>1, <3>2 DEF Encoding, EncodingOK
      <3> QED
        BY <3>3 DEF Settling
    <2>6. CASE ~needsFull
      <3>1. message' = WB!Delta(lastChange) /\ outPc' = "range"
        BY <1>2, <2>2, <2>6 DEF WB!JSON, WB!LastChanges
      <3>2. ASSUME NEW p \in Seated' PROVE loading'[p] = <<>> /\ Fixes(p, message)'
        <4>1. p \in Seated /\ loading[p] = <<>> /\ WB!Paint(copy[p], lastChange) = img
          BY <2>2, <2>3, <2>6 DEF OnItsWayOK, NothingElse, Seated
        <4> QED
          BY <2>3, <3>1, <4>1 DEF Fixes, WB!Delta, WB!Paint
      <3>3. Sending' /\ SendingOK'
        BY <2>2, <2>3, <2>4, <3>1, <3>2 DEF Sending, SendingOK, NothingElse, Loads
      <3> QED
        BY <3>3 DEF Settling
    <2> QED
      BY <1>0, <2>5, <2>6 DEF WB!TypeOK
  <1>3. CASE WB!EncodedPNG
    <2>1. outPc = "encode" /\ outPc' = "range" /\ ~rushed
      BY <1>3 DEF WB!EncodedPNG
    <2>2. Encoding /\ EncodingOK
      BY <2>1 DEF Settling, WB!Idle, Applied, OnItsWay, Encoding, Sending
    <2>3. UNCHANGED <<img, gamePc, pending, joinPc, copy, loading>>
      BY <1>3 DEF WB!EncodedPNG, WB!fields, WB!gameLoop, WB!pages
    <2>4. message' = WB!Full(img)
      <3>1. PICK image \in WB!Images :
               /\ \A c \in Regions : image[c] \in read[WB!Loop][c]
               /\ message' = WB!Full(image)
        BY <1>3 DEF WB!EncodedPNG, WB!Encoded
      <3>2. image = img
        BY <1>0, <2>2, <3>1, Sharp DEF EncodingOK, WB!TypeOK
      <3> QED
        BY <3>1, <3>2
    <2>5. ASSUME NEW p \in Seated' PROVE loading'[p] = <<>> /\ Fixes(p, message)'
      <3>1. loading'[p] = <<>>
        BY <2>2, <2>3 DEF EncodingOK, NothingElse, Seated
      <3> QED
        BY <2>3, <2>4, <3>1 DEF Fixes, WB!Full
    <2>6. Sending' /\ SendingOK'
      BY <2>1, <2>2, <2>3, <2>5
      DEF Sending, SendingOK, Encoding, EncodingOK, NothingElse, Loads
    <2> QED
      BY <2>6 DEF Settling
  <1>4. CASE WB!RangePlayers
    <2>1. outPc = "range" /\ ~rushed /\ todo' = artists
      BY <1>4 DEF WB!RangePlayers
    <2>2. Sending /\ SendingOK
      BY <2>1 DEF Settling, WB!Idle, Applied, OnItsWay, Encoding, Sending
    <2>3. UNCHANGED <<img, artists, gamePc, pending, joinPc, copy, loading>>
      BY <1>4 DEF WB!RangePlayers, WB!fields, WB!gameLoop, WB!pages
    <2>4. Seated' = Seated
      BY <2>3 DEF Seated
    <2>5. CASE artists = <<>>
      <3>1. Seated = {}
        BY <2>5 DEF SeatsListed
      <3>2. outPc' = "pop"
        BY <1>4, <2>5 DEF WB!RangePlayers
      <3>3. \A p \in Hashes : joinPc'[p] = "away"
        BY <2>2, <2>3, <3>1 DEF SendingOK, Seated
      <3>4. WB!Idle' /\ IdleOK'
        BY <2>2, <2>3, <3>2, <3>3 DEF Sending, WB!Idle, IdleOK
      <3> QED
        BY <3>4 DEF Settling
    <2>6. CASE artists # <<>>
      <3>1. outPc' = "write" /\ message' = message
        BY <1>4, <2>6 DEF WB!RangePlayers
      <3>2. ASSUME NEW p \in Seated'
            PROVE  /\ Loads(p)' /\ Fixes(p, message)'
                   /\ \E i \in 1 .. Len(todo') : todo'[i] = p
        <4>1. Loads(p)' /\ Fixes(p, message)'
          BY <2>2, <2>3, <2>4, <3>1 DEF SendingOK, Loads, Fixes, WB!Paint
        <4> QED
          BY <2>1, <2>4, <4>1 DEF SeatsListed
      <3>3. \A p \in Hashes : joinPc'[p] \in {"away", "seated"}
        BY <2>2, <2>3 DEF SendingOK
      <3>4. SendingOK'
        BY <3>1, <3>2, <3>3, Zenon DEF SendingOK
      <3>5. Sending'
        BY <2>2, <2>3, <3>1 DEF Sending
      <3> QED
        BY <3>4, <3>5 DEF Settling
    <2> QED
      BY <2>5, <2>6
  <1> QED
    BY <1>1, <1>2, <1>3, <1>4

\* Appending the image keeps it the only one a page has to draw.
LEMMA AppendImage ==
    ASSUME NEW s \in Seq(WB!Images), NEW image \in WB!Images,
           \A i \in 1 .. Len(s) : s[i] = image
    PROVE  /\ Append(s, image) # <<>>
           /\ \A i \in 1 .. Len(Append(s, image)) : Append(s, image)[i] = image
  <1>1. /\ Len(Append(s, image)) = Len(s) + 1 /\ Len(s) \in Nat
        /\ Append(s, image)[Len(s) + 1] = image
        /\ \A i \in 1 .. Len(s) : Append(s, image)[i] = s[i]
    BY AppendProperties, LenProperties
  <1>2. \A i \in 1 .. Len(s) + 1 : i \in 1 .. Len(s) \/ i = Len(s) + 1
    BY <1>1
  <1>3. \A i \in 1 .. Len(Append(s, image)) : Append(s, image)[i] = image
    BY <1>1, <1>2
  <1>4. Append(s, image) # <<>>
    BY <1>1
  <1> QED
    BY <1>3, <1>4

\* A write brings the page it goes to up to date.
LEMMA SettlingWrite ==
    ASSUME BoardType, SeatsListed, ~rushed => Settling, ~rushed', WB!WriteNext
    PROVE  Settling'
  <1>0. /\ WB!TypeOK /\ MaxEvents \in Nat /\ todo # <<>> /\ outPc = "write"
        /\ ~rushed
    BY BoardAssumption DEF BoardType, WB!WriteNext
  <1>h. PICK h : h = Head(todo)
    OBVIOUS
  <1>1. /\ h = todo[1] /\ h \in Hashes /\ Len(todo) \in Nat /\ Len(todo) >= 1
        /\ todo' = Tail(todo) /\ Len(todo') = Len(todo) - 1
        /\ \A i \in 1 .. Len(todo') : todo'[i] = todo[i + 1]
    BY <1>0, <1>h, HeadTailProperties, LenProperties, EmptySeq
    DEF WB!TypeOK, WB!WriteNext
  <1>2. Sending /\ SendingOK
    BY <1>0 DEF Settling, WB!Idle, Applied, OnItsWay, Encoding, Sending
  <1>3. UNCHANGED <<img, gamePc, pending, joinPc>> /\ WB!Receive(h, message)
    BY <1>h DEF WB!WriteNext, WB!fields, WB!gameLoop
  <1>4. h \in Seated /\ Seated' = Seated
    BY <1>1, <1>3 DEF SeatsListed, Seated
  <1>5. /\ Loads(h)' /\ UpToDate(h)'
        /\ message' = message => Fixes(h, message)'
    <2>1. /\ Loads(h) /\ Fixes(h, message) /\ img \in WB!Images
          /\ loading[h] \in Seq(WB!Images) /\ copy[h] \in WB!Images
      BY <1>0, <1>1, <1>2, <1>4 DEF SendingOK, WB!TypeOK
    <2>2. CASE message.type = "full"
      <3>1. /\ loading' = [loading EXCEPT ![h] = Append(@, message.png)]
            /\ copy' = copy /\ message.png = img
        BY <1>3, <2>1, <2>2 DEF WB!Receive, Fixes
      <3>2. loading'[h] = Append(loading[h], img)
        BY <1>0, <1>1, <3>1 DEF WB!TypeOK
      <3>3. /\ loading'[h] # <<>>
            /\ \A i \in 1 .. Len(loading'[h]) : loading'[h][i] = img
        BY <2>1, <3>2, AppendImage DEF Loads
      <3>4. Loads(h)' /\ UpToDate(h)'
        BY <1>3, <3>3 DEF Loads, UpToDate
      <3>5. message' = message => Fixes(h, message)'
        BY <1>3, <2>2, <3>1 DEF Fixes
      <3> QED
        BY <3>4, <3>5
    <2>3. CASE message.type # "full"
      <3>1. /\ copy' = [copy EXCEPT ![h] = WB!Paint(@, message.change)]
            /\ loading' = loading /\ loading[h] = <<>>
            /\ WB!Paint(copy[h], message.change) = img
        BY <1>3, <2>1, <2>3 DEF WB!Receive, Fixes
      <3>2. copy'[h] = img
        BY <1>0, <1>1, <3>1 DEF WB!TypeOK
      <3>3. Loads(h)' /\ UpToDate(h)'
        BY <1>3, <3>1, <3>2 DEF Loads, UpToDate
      <3>4. WB!Paint(img, message.change) = img
        BY <2>1, <3>1, PaintAgain
      <3>5. message' = message => Fixes(h, message)'
        BY <1>3, <2>3, <3>1, <3>2, <3>4 DEF Fixes, WB!Paint
      <3> QED
        BY <3>3, <3>5
    <2> QED
      BY <2>2, <2>3
  <1>6. ASSUME NEW q \in Seated, q # h
        PROVE  /\ loading'[q] = loading[q] /\ copy'[q] = copy[q]
               /\ UpToDate(q) \/ \E i \in 1 .. Len(todo') : todo'[i] = q
    <2>1. loading'[q] = loading[q] /\ copy'[q] = copy[q]
      BY <1>0, <1>3, <1>6 DEF WB!TypeOK, WB!Receive, Seated
    <2>2. ASSUME NEW i \in 1 .. Len(todo), todo[i] = q
          PROVE  \E j \in 1 .. Len(todo') : todo'[j] = q
      <3>1. i # 1
        BY <1>1, <1>6, <2>2
      <3>2. i - 1 \in 1 .. Len(todo') /\ (i - 1) + 1 = i
        BY <1>1, <3>1
      <3> QED
        BY <1>1, <2>2, <3>2
    <2> QED
      BY <1>0, <1>2, <2>1, <2>2 DEF SendingOK
  <1>7. \A q \in Seated : Loads(q)'
    BY <1>2, <1>3, <1>5, <1>6 DEF SendingOK, Loads
  <1>8. \A q \in Seated : UpToDate(q)' \/ \E i \in 1 .. Len(todo') : todo'[i] = q
    <2> TAKE q \in Seated
    <2>1. CASE q = h
      BY <1>5, <2>1
    <2>2. CASE q # h
      <3>1. UpToDate(q) => UpToDate(q)'
        BY <1>3, <1>6, <2>2 DEF UpToDate, Loads
      <3> QED
        BY <1>6, <2>2, <3>1
    <2> QED
      BY <2>1, <2>2
  <1>9. CASE Len(todo) > 1
    <2>1. outPc' = "write" /\ message' = message
      BY <1>9 DEF WB!WriteNext
    <2>2. \A q \in Seated : Fixes(q, message)'
      <3> TAKE q \in Seated
      <3>1. CASE q = h
        BY <1>5, <2>1, <3>1
      <3>2. CASE q # h
        <4>1. Fixes(q, message)
          BY <1>2 DEF SendingOK
        <4> QED
          BY <1>3, <1>6, <2>1, <3>2, <4>1 DEF Fixes, WB!Paint
      <3> QED
        BY <3>1, <3>2
    <2>3. Sending'
      BY <1>2, <1>3, <2>1 DEF Sending
    <2>4. \A p \in Hashes : joinPc'[p] \in {"away", "seated"}
      BY <1>2, <1>3 DEF SendingOK
    <2>5. SendingOK'
      BY <1>4, <1>7, <1>8, <2>1, <2>2, <2>4 DEF SendingOK
    <2> QED
      BY <2>3, <2>5 DEF Settling
  <1>10. CASE ~(Len(todo) > 1)
    <2>1. outPc' = "pop"
      BY <1>10 DEF WB!WriteNext
    <2>7. Len(todo') = 0
      <3>1. PICK n \in Nat : n = Len(todo)
        BY <1>1
      <3>2. n >= 1 /\ ~(n > 1)
        BY <1>1, <1>10, <3>1, Zenon
      <3>3. n = 1
        BY <3>2
      <3> QED
        BY <1>1, <3>1, <3>3
    <2>2. \A q \in Seated : UpToDate(q)'
      BY <1>8, <2>7
    <2>3. WB!Idle'
      BY <1>2, <1>3, <2>1 DEF WB!Idle, Sending
    <2>4. \A p \in Hashes : joinPc'[p] \in {"away", "seated"}
      BY <1>2, <1>3 DEF SendingOK
    <2>5. \A p \in Hashes : joinPc'[p] = "seated" => UpToDate(p)'
      BY <1>4, <2>2 DEF Seated
    <2>6. IdleOK'
      BY <2>4, <2>5 DEF IdleOK
    <2> QED
      BY <2>3, <2>6 DEF Settling
  <1> QED
    BY <1>9, <1>10

\* What the pages and the joins do to the stages.
LEMMA SettlingPages ==
    ASSUME BoardType, SeatsListed, ~rushed => Settling, ~rushed',
           NEW p \in Hashes,
           WB!OnLoad(p) \/ WB!BeginJoin(p) \/ WB!SendImage(p) \/ WB!Seat(p)
    PROVE  Settling'
  <1>0. WB!TypeOK /\ MaxEvents \in Nat /\ p \in WB!Encoders
    BY BoardAssumption, LoopType DEF BoardType
  <1>1. CASE WB!OnLoad(p)
    <2>1. PICK i \in DOMAIN loading[p] :
             /\ copy' = [copy EXCEPT ![p] = loading[p][i]]
             /\ loading' = [loading EXCEPT ![p] = WB!RemoveAt(@, i)]
      BY <1>1 DEF WB!OnLoad
    <2>2. /\ UNCHANGED <<img, lastChange, needsFull, artists, gamePc, change, pending,
                         outPc, message, todo, joinPc, read, rushed>>
          /\ Seated' = Seated
      BY <1>1 DEF WB!OnLoad, WB!fields, WB!gameLoop, WB!outputLoop, Seated
    <2>3. loading[p] # <<>> /\ i \in 1 .. Len(loading[p])
      BY <1>0, <2>1, LenProperties DEF WB!TypeOK
    <2>4. p \in Hashes /\ joinPc[p] \in {"append", "seated"}
      BY <1>0, <2>3 DEF SeatsListed, WB!TypeOK
    <2>5. ~NothingElse
      BY <2>3 DEF NothingElse
    <2>6. \/ WB!Idle /\ IdleOK
          \/ Sending /\ SendingOK
      BY <2>2, <2>5 DEF Settling, AppliedOK, OnItsWayOK, EncodingOK
    <2>7. Loads(p) => Loads(p)' /\ UpToDate(p)'
      <3>1. copy'[p] = loading[p][i] /\ loading'[p] = WB!RemoveAt(loading[p], i)
        BY <1>0, <2>1 DEF WB!TypeOK
      <3>2. \A j \in 1 .. Len(WB!RemoveAt(loading[p], i)) :
               \E k \in 1 .. Len(loading[p]) : WB!RemoveAt(loading[p], i)[j] = loading[p][k]
        <4>1. loading[p] \in Seq(WB!Images)
          BY <1>0 DEF WB!TypeOK
        <4> QED
          BY <2>1, <4>1, RemoveType, Zenon
      <3> QED
        BY <2>2, <2>3, <3>1, <3>2 DEF Loads, UpToDate
    <2>8. \A q \in Hashes : q # p => loading'[q] = loading[q] /\ copy'[q] = copy[q]
      BY <1>0, <2>1 DEF WB!TypeOK
    <2>9. CASE WB!Idle /\ IdleOK
      <3>1. UpToDate(p)'
        BY <2>4, <2>7, <2>9 DEF IdleOK, UpToDate
      <3>2. \A q \in Hashes : UpToDate(q) => UpToDate(q)'
        BY <2>2, <2>8, <3>1 DEF UpToDate, Loads
      <3>3. IdleOK' /\ WB!Idle'
        BY <2>2, <2>9, <3>2 DEF IdleOK, WB!Idle
      <3> QED
        BY <3>3 DEF Settling
    <2>10. CASE Sending /\ SendingOK
      <3>1. p \in Seated
        BY <2>4, <2>10 DEF SendingOK, Seated
      <3>2. Loads(p)' /\ UpToDate(p)' /\ Fixes(p, message)' /\ outPc # "range"
        BY <2>2, <2>3, <2>7, <2>10, <3>1 DEF SendingOK, Fixes
      <3>3. ASSUME NEW q \in Seated
            PROVE  /\ Loads(q)' /\ Fixes(q, message)'
                   /\ outPc' = "write" =>
                         UpToDate(q)' \/ \E j \in 1 .. Len(todo') : todo'[j] = q
        <4>1. CASE q = p
          BY <3>2, <4>1
        <4>2. CASE q # p
          <5>1. loading'[q] = loading[q] /\ copy'[q] = copy[q]
            BY <2>8, <4>2 DEF Seated
          <5>2. /\ Loads(q) => Loads(q)'
                /\ UpToDate(q) => UpToDate(q)'
                /\ Fixes(q, message) => Fixes(q, message)'
            BY <2>2, <5>1 DEF Loads, UpToDate, Fixes, WB!Paint
          <5> QED
            BY <2>2, <2>10, <5>2 DEF SendingOK
        <4> QED
          BY <4>1, <4>2
      <3>4. \A q \in Hashes : joinPc'[q] \in {"away", "seated"}
        BY <2>2, <2>10 DEF SendingOK
      <3>5. SendingOK'
        BY <2>2, <3>2, <3>3, <3>4 DEF SendingOK
      <3>6. Sending'
        BY <2>2, <2>10 DEF Sending
      <3> QED
        BY <3>5, <3>6 DEF Settling
    <2> QED
      BY <2>6, <2>9, <2>10
  <1>2. CASE WB!BeginJoin(p)
    <2>1. /\ joinPc[p] = "away" /\ joinPc' = [joinPc EXCEPT ![p] = "encode"]
          /\ read' = [read EXCEPT ![p] = [c \in Regions |-> {img[c]}]]
          /\ UNCHANGED <<img, gamePc, pending, outPc, copy, loading>>
          /\ WB!Idle /\ ~rushed
      BY <1>2 DEF WB!BeginJoin, WB!fields, WB!gameLoop, WB!outputLoop, WB!pages
    <2>2. IdleOK
      BY <2>1 DEF Settling, WB!Idle, Applied, OnItsWay, Encoding, Sending
    <2>3. ASSUME NEW q \in Hashes
          PROVE  /\ joinPc'[q] = "encode" => \A c \in Regions : read'[q][c] = {img'[c]}
                 /\ joinPc'[q] \in {"append", "seated"} => UpToDate(q)'
      <3>1. CASE q = p
        BY <1>0, <2>1, <3>1 DEF WB!TypeOK
      <3>2. CASE q # p
        <4>1. joinPc'[q] = joinPc[q] /\ read'[q] = read[q]
          BY <1>0, <2>1, <3>2, LoopType DEF WB!TypeOK
        <4>2. UpToDate(q) => UpToDate(q)'
          BY <2>1 DEF UpToDate, Loads
        <4> QED
          BY <2>1, <2>2, <4>1, <4>2 DEF IdleOK
      <3> QED
        BY <3>1, <3>2
    <2>4. IdleOK' /\ WB!Idle'
      BY <2>1, <2>3 DEF IdleOK, WB!Idle
    <2> QED
      BY <2>4 DEF Settling
  <1>3. CASE WB!SendImage(p)
    <2>1. /\ joinPc[p] = "encode" /\ joinPc' = [joinPc EXCEPT ![p] = "append"]
          /\ read' = WB!Forget(p) /\ ~rushed
          /\ UNCHANGED <<img, gamePc, pending, outPc>>
      BY <1>3 DEF WB!SendImage, WB!fields, WB!gameLoop, WB!outputLoop
    <2>2. WB!Idle /\ IdleOK
      BY <2>1
      DEF Settling, AppliedOK, OnItsWayOK, EncodingOK, SendingOK, NothingElse
    <2>3. WB!Receive(p, WB!Full(img))
      <3>1. PICK image \in WB!Images :
               /\ \A c \in Regions : image[c] \in read[p][c]
               /\ WB!Receive(p, WB!Full(image))
        BY <1>3 DEF WB!SendImage, WB!Encoded
      <3>2. image = img
        BY <1>0, <2>1, <2>2, <3>1, Sharp DEF IdleOK, WB!TypeOK
      <3> QED
        BY <3>1, <3>2
    <2>4. /\ loading[p] = <<>> /\ copy' = copy
          /\ loading' = [loading EXCEPT ![p] = Append(@, img)]
      BY <2>1, <2>3 DEF SeatsListed, WB!Receive, WB!Full
    <2>5. UpToDate(p)'
      <3>1. loading'[p] = Append(<<>>, img) /\ img \in WB!Images
        BY <1>0, <2>4 DEF WB!TypeOK
      <3>2. /\ loading'[p] # <<>>
            /\ \A i \in 1 .. Len(loading'[p]) : loading'[p][i] = img
        BY <3>1, AppendImage, EmptySeq
      <3> QED
        BY <2>1, <3>2 DEF UpToDate, Loads
    <2>6. ASSUME NEW q \in Hashes
          PROVE  /\ joinPc'[q] = "encode" => \A c \in Regions : read'[q][c] = {img'[c]}
                 /\ joinPc'[q] \in {"append", "seated"} => UpToDate(q)'
      <3>1. CASE q = p
        BY <1>0, <2>1, <2>5, <3>1 DEF WB!TypeOK
      <3>2. CASE q # p
        <4>1. joinPc'[q] = joinPc[q] /\ read'[q] = read[q] /\ loading'[q] = loading[q]
          BY <1>0, <2>1, <2>4, <3>2, LoopType DEF WB!TypeOK, WB!Forget
        <4>2. UpToDate(q) => UpToDate(q)'
          BY <2>1, <2>4, <4>1 DEF UpToDate, Loads
        <4> QED
          BY <2>1, <2>2, <4>1, <4>2 DEF IdleOK
      <3> QED
        BY <3>1, <3>2
    <2>7. IdleOK' /\ WB!Idle'
      BY <2>1, <2>2, <2>6 DEF IdleOK, WB!Idle
    <2> QED
      BY <2>7 DEF Settling
  <1>4. CASE WB!Seat(p)
    <2>1. /\ joinPc[p] = "append" /\ joinPc' = [joinPc EXCEPT ![p] = "seated"]
          /\ UNCHANGED <<img, gamePc, pending, outPc, read, copy, loading, rushed>>
      BY <1>4 DEF WB!Seat, WB!gameLoop, WB!outputLoop, WB!pages
    <2>2. WB!Idle /\ IdleOK
      BY <2>1
      DEF Settling, AppliedOK, OnItsWayOK, EncodingOK, SendingOK, NothingElse
    <2>3. ASSUME NEW q \in Hashes
          PROVE  /\ joinPc'[q] = "encode" => \A c \in Regions : read'[q][c] = {img'[c]}
                 /\ joinPc'[q] \in {"append", "seated"} => UpToDate(q)'
      <3>1. joinPc[q] \in {"append", "seated"} \/ joinPc'[q] = joinPc[q]
        BY <1>0, <2>1 DEF WB!TypeOK
      <3>2. joinPc'[q] = "encode" => joinPc[q] = "encode"
        BY <1>0, <2>1 DEF WB!TypeOK
      <3>3. UpToDate(q) => UpToDate(q)'
        BY <2>1 DEF UpToDate, Loads
      <3> QED
        BY <2>1, <2>2, <3>1, <3>2, <3>3 DEF IdleOK
    <2>4. IdleOK' /\ WB!Idle'
      BY <2>1, <2>2, <2>3 DEF IdleOK, WB!Idle
    <2> QED
      BY <2>4 DEF Settling
  <1> QED
    BY <1>1, <1>2, <1>3, <1>4

LEMMA BoardStep == BoardInv /\ [WB!Next]_boardVars => BoardInv'
  <1> SUFFICES ASSUME BoardInv, [WB!Next]_boardVars PROVE BoardInv'
    OBVIOUS
  <1>0. BoardType /\ WB!FullIsOwed /\ SeatsListed /\ (~rushed => Settling)
    BY DEF BoardInv
  <1>1. BoardType' /\ WB!FullIsOwed' /\ SeatsListed'
    BY <1>0, BoardTypeStep, FullIsOwedStep, SeatsListedStep
  <1>2. ASSUME ~rushed' PROVE Settling'
    <2>1. CASE (\E ch \in WB!Changes : WB!ChangeState(ch)) \/ WB!Mark \/ WB!PushOutput
      BY <1>0, <1>2, <2>1, SettlingGameLoop
    <2>2. CASE WB!PopOutput \/ WB!JSON \/ WB!EncodedPNG \/ WB!RangePlayers
      BY <1>0, <1>2, <2>2, SettlingJSON
    <2>3. CASE WB!WriteNext
      BY <1>0, <1>2, <2>3, SettlingWrite
    <2>4. ASSUME NEW p \in Hashes,
                 WB!OnLoad(p) \/ WB!BeginJoin(p) \/ WB!SendImage(p) \/ WB!Seat(p)
          PROVE  Settling'
      BY <1>0, <1>2, <2>4, SettlingPages
    <2>5. CASE UNCHANGED boardVars
      BY <1>0, <1>2, <2>5
      DEF boardVars, Settling, WB!Idle, IdleOK, Applied, AppliedOK, OnItsWay,
          OnItsWayOK, Encoding, EncodingOK, Sending, SendingOK, NothingElse, UpToDate,
          Loads, Fixes, Seated, WB!Paint
    <2> QED
      BY <2>1, <2>2, <2>3, <2>4, <2>5 DEF WB!Next
  <1> QED
    BY <1>1, <1>2 DEF BoardInv

LEMMA BoardInvariant == RulesSpec => []BoardInv
  <1>1. RulesInit => BoardInv
    <2> SUFFICES ASSUME WB!Init PROVE BoardInv
      BY DEF RulesInit
    <2>1. WB!FullIsOwed
      BY DEF WB!Init, WB!FullIsOwed
    <2>2. SeatsListed
      BY DEF WB!Init, SeatsListed, Seated
    <2> QED
      BY <2>1, <2>2, BoardTypeInit, SettlingInit DEF BoardInv
  <1>2. [RulesNext]_<<game, dotsVars, connect4Vars, boardVars, vars>>
           => [WB!Next]_boardVars
    BY DEF RulesNext
  <1> QED
    BY <1>1, <1>2, BoardStep, PTL DEF RulesSpec

\* An output that carries the full image needsFull asks for is on its way, for any
\* players, image and number of changes (ChangeState, JSON and GameLoop's push).
THEOREM FullImagesAreOwed == RulesSpec => []FullIsOwed
  <1>1. BoardInv => FullIsOwed
    BY DEF BoardInv, FullIsOwed
  <1> QED
    BY <1>1, BoardInvariant, PTL

\* When nothing has overlapped and everything has settled, all players see the
\* image, whatever was drawn and whoever joined (JSON, encodedPNG, the ws route).
THEOREM SettledBoardsAgree == RulesSpec => []BoardsAgree
  <1>1. BoardInv => BoardsAgree
    <2> SUFFICES ASSUME BoardInv, WB!Still, ~rushed, NEW i \in DOMAIN artists
                 PROVE  copy[artists[i]] = img
      BY DEF BoardsAgree, WB!BoardsAgree
    <2>1. IdleOK
      BY DEF BoardInv, Settling, WB!Still, WB!Idle, Applied, OnItsWay, Encoding,
             Sending
    <2>2. artists[i] \in Seated
      BY LenProperties DEF BoardInv, BoardType, WB!TypeOK, SeatsListed
    <2>3. UpToDate(artists[i]) /\ loading[artists[i]] = <<>>
      BY <2>1, <2>2 DEF IdleOK, Seated, WB!Still
    <2> QED
      BY <2>3 DEF UpToDate
  <1> QED
    BY <1>1, BoardInvariant, PTL

-----------------------------------------------------------------------------
(* Induction and recursion, from the least element of a set of numbers.    *)

\* A set of natural numbers that is not empty has a least one.
LEMMA LeastNat ==
    ASSUME NEW T \in SUBSET Nat, T # {}
    PROVE  \E n \in T : \A m \in T : n <= m
  <1> DEFINE R == OpToRel(<, Nat)
  <1>1. IsWellFoundedOn(R, Nat)
    BY NatLessThanWellFounded, Zenon
  <1> HIDE DEF R
  <1>2. PICK n \in T : \A m \in T : ~ (<<m, n>> \in R)
    BY <1>1, WFMin, Zenon
  <1>3. ASSUME NEW m \in T, m < n PROVE <<m, n>> \in R
    BY <1>3 DEF R, OpToRel
  <1>5. \A m \in T : ~ (m < n)
    BY <1>2, <1>3
  <1> QED
    BY <1>5

\* g[n] is the result of the first n steps from a.
Follows(g, N, S, a, step) ==
    g \in [0 .. N -> S] /\ g[0] = a /\ \A n \in 1 .. N : g[n] = step[n][g[n - 1]]

\* There is such a function: every prefix of it exists.
LEMMA RecursionExists ==
    ASSUME NEW N \in Nat, NEW S, NEW a \in S, NEW step \in [1 .. N -> [S -> S]]
    PROVE  \E g : Follows(g, N, S, a, step)
  <1> DEFINE Good(n) == \E h \in [0 .. n -> S] :
                           h[0] = a /\ \A i \in 1 .. n : h[i] = step[i][h[i - 1]]
             Bad == {n \in 0 .. N : ~Good(n)}
  <1>1. Good(0)
    <2> DEFINE h == [i \in 0 .. 0 |-> a]
    <2>1. h \in [0 .. 0 -> S] /\ h[0] = a /\ \A i \in 1 .. 0 : FALSE
      OBVIOUS
    <2> QED
      BY <2>1
  <1>2. ASSUME NEW n \in 0 .. N, n < N, Good(n) PROVE Good(n + 1)
    <2>1. PICK h \in [0 .. n -> S] :
             h[0] = a /\ \A i \in 1 .. n : h[i] = step[i][h[i - 1]]
      BY <1>2
    <2> DEFINE k == [i \in 0 .. n + 1 |-> IF i <= n THEN h[i] ELSE step[n + 1][h[n]]]
    <2>2. step[n + 1] \in [S -> S] /\ h[n] \in S
      BY <1>2, <2>1
    <2>3. step[n + 1][h[n]] \in S
      BY <2>2
    <2>4. k \in [0 .. n + 1 -> S]
      BY <2>1, <2>3
    <2>5. k[0] = a
      BY <2>1
    <2>6. ASSUME NEW i \in 1 .. n + 1 PROVE k[i] = step[i][k[i - 1]]
      BY <2>1
    <2> HIDE DEF k
    <2> QED
      BY <2>4, <2>5, <2>6
  <1> HIDE DEF Good
  <1>3. Bad = {}
    <2> SUFFICES ASSUME Bad # {} PROVE FALSE
      OBVIOUS
    <2>0. Bad \in SUBSET Nat /\ Bad \subseteq 0 .. N /\ 0 \notin Bad
      BY <1>1
    <2> HIDE DEF Bad
    <2>1. PICK n \in Bad : \A m \in Bad : n <= m
      BY <2>0, LeastNat
    <2>2. n # 0 /\ n \in 0 .. N
      BY <2>0
    <2>3. n - 1 \in 0 .. N /\ n - 1 < N /\ n - 1 + 1 = n /\ n - 1 \notin Bad
      BY <2>1, <2>2
    <2>4. Good(n - 1)
      BY <2>3 DEF Bad
    <2>5. Good(n - 1 + 1)
      BY <1>2, <2>3, <2>4
    <2> QED
      BY <2>3, <2>5 DEF Bad
  <1>4. Good(N)
    BY <1>3
  <1> QED
    BY <1>4 DEF Good, Follows

\* Induction up to N, for a set.
LEMMA Upwards ==
    ASSUME NEW N \in Nat, NEW G, 0 \in G, \A n \in 0 .. N - 1 : n \in G => n + 1 \in G
    PROVE  \A n \in 0 .. N : n \in G
  <1> DEFINE Bad == {n \in 0 .. N : n \notin G}
  <1> SUFFICES ASSUME Bad # {} PROVE FALSE
    OBVIOUS
  <1>1. Bad \in SUBSET Nat /\ Bad \subseteq 0 .. N /\ 0 \notin Bad
    OBVIOUS
  <1> HIDE DEF Bad
  <1>2. PICK n \in Bad : \A m \in Bad : n <= m
    BY <1>1, LeastNat
  <1>3. n - 1 \in 0 .. N - 1 /\ n - 1 + 1 = n /\ n - 1 \notin Bad
    BY <1>1, <1>2
  <1>4. n - 1 \in G
    BY <1>3 DEF Bad
  <1>5. n - 1 + 1 \in G
    BY <1>3, <1>4
  <1> QED
    BY <1>3, <1>5 DEF Bad

-----------------------------------------------------------------------------
(* Connect4: falling.                                                      *)

\* Rows and columns, and what is in a cell.
LEMMA CellsAre ==
    /\ \A r, j \in 0 .. BoardSize - 1 : <<r, j>> \in C4!Cells
    /\ \A c \in C4!Cells : /\ c = <<c[1], c[2]>>
                           /\ c[1] \in 0 .. BoardSize - 1 /\ c[2] \in 0 .. BoardSize - 1
    /\ \A r, j : <<r, j>> \in C4!Cells =>
                     r \in 0 .. BoardSize - 1 /\ j \in 0 .. BoardSize - 1
    /\ C4!EMPTY = 0 /\ C4!Boards = [C4!Cells -> C4!Pieces]
    /\ 0 \in C4!Pieces /\ Teams \subseteq C4!Pieces /\ C4!Pieces \subseteq Int
  BY InsertAssumption DEF C4!Cells, C4!Index, C4!Boards, C4!Pieces, C4!EMPTY

\* In the first n rows of column j no piece is above an empty cell.
SettledTo(f, n, j) ==
    \A r \in 1 .. n - 1 : f[<<r, j>>] # C4!EMPTY => f[<<r - 1, j>>] # C4!EMPTY

\* Boards that differ in column j only.
ApartFrom(f, g, j) == \A c \in C4!Cells : c[2] # j => g[c] = f[c]

\* A piece falls to the lowest row that it can reach.
LEMMA LandingIs ==
    ASSUME NEW f \in C4!Boards, NEW i \in 0 .. BoardSize - 1, NEW j \in 0 .. BoardSize - 1,
           NEW k, k = C4!Landing(f, <<i, j>>)
    PROVE  /\ k \in 0 .. i /\ \A h \in k .. i - 1 : f[<<h, j>>] = C4!EMPTY
           /\ k = 0 \/ f[<<k - 1, j>>] # C4!EMPTY
  <1> DEFINE Free == {r \in 0 .. i : \A h \in r .. i - 1 : f[<<h, j>>] = C4!EMPTY}
  <1>1. Free \in SUBSET Nat /\ i \in Free
    BY LineAssumption
  <1>2. PICK r \in Free : \A m \in Free : r <= m
    <2> HIDE DEF Free
    <2> QED
      BY <1>1, LeastNat
  <1>3. r = 0 \/ f[<<r - 1, j>>] # C4!EMPTY
    <2> SUFFICES ASSUME r # 0, f[<<r - 1, j>>] = C4!EMPTY PROVE FALSE
      OBVIOUS
    <2>1. r - 1 \in 0 .. i /\ r \in Nat /\ i \in Nat
      OBVIOUS
    <2>2. \A h \in r - 1 .. i - 1 : h = r - 1 \/ h \in r .. i - 1
      BY <2>1
    <2>3. r - 1 \in Free
      BY <2>1, <2>2
    <2> QED
      BY <1>2, <2>1, <2>3
  <1>4. \E q \in 0 .. <<i, j>>[1] :
           /\ \A h \in q .. <<i, j>>[1] - 1 : f[<<h, <<i, j>>[2]>>] = C4!EMPTY
           /\ q = 0 \/ f[<<q - 1, <<i, j>>[2]>>] # C4!EMPTY
    BY <1>3
  <1>5. /\ k \in 0 .. <<i, j>>[1]
        /\ \A h \in k .. <<i, j>>[1] - 1 : f[<<h, <<i, j>>[2]>>] = C4!EMPTY
        /\ k = 0 \/ f[<<k - 1, <<i, j>>[2]>>] # C4!EMPTY
    BY <1>4 DEF C4!Landing
  <1> QED
    BY <1>5

\* One piece falls on the settled part of its column.
LEMMA OneFalls ==
    ASSUME NEW f \in C4!Boards, NEW i \in 0 .. BoardSize - 1, NEW j \in 0 .. BoardSize - 1,
           SettledTo(f, i, j), NEW g, g = C4!FallFrom(f, <<i, j>>)
    PROVE  g \in C4!Boards /\ SettledTo(g, i + 1, j) /\ ApartFrom(f, g, j)
  <1>1. CASE f[<<i, j>>] = C4!EMPTY
    <2>1. g = f
      BY <1>1 DEF C4!FallFrom
    <2>2. ASSUME NEW r \in 1 .. i PROVE r = i \/ r \in 1 .. i - 1
      OBVIOUS
    <2>3. SettledTo(g, i + 1, j)
      <3> SUFFICES ASSUME NEW r \in 1 .. i, f[<<r, j>>] # C4!EMPTY
                   PROVE  f[<<r - 1, j>>] # C4!EMPTY
        BY <2>1, LineAssumption DEF SettledTo
      <3> QED
        BY <1>1, <2>2 DEF SettledTo
    <2> QED
      BY <2>1, <2>3 DEF ApartFrom
  <1>2. CASE f[<<i, j>>] # C4!EMPTY
    <2>1. PICK k : k = C4!Landing(f, <<i, j>>)
      OBVIOUS
    <2>2. /\ k \in 0 .. i /\ \A h \in k .. i - 1 : f[<<h, j>>] = C4!EMPTY
          /\ k = 0 \/ f[<<k - 1, j>>] # C4!EMPTY
      BY <2>1, LandingIs
    <2>3. /\ g = [f EXCEPT ![<<i, j>>] = C4!EMPTY, ![<<k, j>>] = f[<<i, j>>]]
          /\ f[<<i, j>>] \in C4!Pieces /\ f \in [C4!Cells -> C4!Pieces]
          /\ <<i, j>> \in C4!Cells /\ <<k, j>> \in C4!Cells
      BY <1>2, <2>1, <2>2, CellsAre, LineAssumption DEF C4!FallFrom
    <2>4. g \in C4!Boards
      <3>1. PICK b : b = [f EXCEPT ![<<i, j>>] = 0]
        OBVIOUS
      <3>2. b \in [C4!Cells -> C4!Pieces]
        <4>1. 0 \in C4!Pieces
          BY CellsAre
        <4> QED
          BY <2>3, <3>1, <4>1
      <3>3. g = [b EXCEPT ![<<k, j>>] = f[<<i, j>>]]
        BY <2>3, <3>1, CellsAre
      <3>4. g \in [C4!Cells -> C4!Pieces]
        BY <2>3, <3>2, <3>3
      <3> QED
        BY <3>4, CellsAre
    <2>5. /\ g[<<k, j>>] # C4!EMPTY
          /\ k # i => g[<<i, j>>] = C4!EMPTY
          /\ \A c \in C4!Cells : c # <<i, j>> /\ c # <<k, j>> => g[c] = f[c]
      BY <1>2, <2>3
    <2>6. ApartFrom(f, g, j)
      BY <2>5 DEF ApartFrom
    <2>7. ASSUME NEW r \in 1 .. i, g[<<r, j>>] # C4!EMPTY
          PROVE  g[<<r - 1, j>>] # C4!EMPTY
      <3>1. <<r, j>> \in C4!Cells /\ <<r - 1, j>> \in C4!Cells
        <4>1. r \in 0 .. BoardSize - 1 /\ r - 1 \in 0 .. BoardSize - 1
          BY LineAssumption
        <4> QED
          BY <4>1, CellsAre
      <3>2. CASE r < k
        <4>1. g[<<r, j>>] = f[<<r, j>>] /\ g[<<r - 1, j>>] = f[<<r - 1, j>>] /\ r \in 1 .. i - 1
          BY <2>2, <2>5, <3>1, <3>2
        <4> QED
          BY <2>7, <4>1 DEF SettledTo
      <3>3. CASE r = k
        <4>1. g[<<r - 1, j>>] = f[<<r - 1, j>>]
          BY <2>2, <2>5, <3>1, <3>3
        <4> QED
          BY <2>2, <3>3, <4>1
      <3>4. CASE r > k /\ r < i
        <4>1. g[<<r, j>>] = f[<<r, j>>] /\ r \in k .. i - 1
          BY <2>2, <2>5, <3>1, <3>4
        <4> QED
          BY <2>2, <2>7, <4>1
      <3>5. CASE r > k /\ r = i
        BY <2>2, <2>5, <2>7, <3>5
      <3> QED
        BY <2>2, <3>2, <3>3, <3>4, <3>5
    <2>8. SettledTo(g, i + 1, j)
      BY <2>7 DEF SettledTo
    <2> QED
      BY <2>4, <2>6, <2>8
  <1> QED
    BY <1>1, <1>2

\* The loop over the rows settles a column and leaves the others.
LEMMA ColumnFalls ==
    ASSUME NEW f \in C4!Boards, NEW j \in 0 .. BoardSize - 1, NEW g, g = C4!FallColumn(f, j)
    PROVE  g \in C4!Boards /\ SettledTo(g, BoardSize, j) /\ ApartFrom(f, g, j)
  <1> DEFINE step == [i \in 1 .. BoardSize |->
                         [b \in C4!Boards |-> C4!FallFrom(b, <<i - 1, j>>)]]
  <1>0. BoardSize \in Nat /\ BoardSize # 0
    BY LineAssumption
  <1>1. ASSUME NEW b \in C4!Boards, NEW i \in 1 .. BoardSize
        PROVE  C4!FallFrom(b, <<i - 1, j>>) \in C4!Boards
    <2>1. i - 1 \in 0 .. BoardSize - 1 /\ <<i - 1, j>> \in C4!Cells
      BY <1>0, CellsAre
    <2>2. PICK k : k = C4!Landing(b, <<i - 1, j>>)
      OBVIOUS
    <2>3. k \in 0 .. i - 1
      BY <2>1, <2>2, LandingIs
    <2>4. <<k, j>> \in C4!Cells
      BY <1>0, <2>1, <2>3, CellsAre
    <2>5. b \in [C4!Cells -> C4!Pieces] /\ b[<<i - 1, j>>] \in C4!Pieces
      BY <2>1, CellsAre
    <2>6. [b EXCEPT ![<<i - 1, j>>] = C4!EMPTY, ![<<k, j>>] = b[<<i - 1, j>>]]
             \in [C4!Cells -> C4!Pieces]
      BY <2>1, <2>4, <2>5, CellsAre
    <2> QED
      BY <2>1, <2>2, <2>5, <2>6, CellsAre DEF C4!FallFrom
  <1>2. step \in [1 .. BoardSize -> [C4!Boards -> C4!Boards]]
    BY <1>1
  <1>3. PICK h : Follows(h, BoardSize, C4!Boards, f, step)
    <2> HIDE DEF step
    <2> QED
      BY <1>0, <1>2, RecursionExists, Zenon
  <1>4. /\ h \in [0 .. BoardSize -> C4!Boards]
        /\ h[0] = f /\ \A i \in 1 .. BoardSize : h[i] = step[i][h[i - 1]]
    <2> HIDE DEF step
    <2> QED
      BY <1>3 DEF Follows
  <1>5. ASSUME NEW i \in 1 .. BoardSize
        PROVE  step[i][h[i - 1]] = C4!FallFrom(h[i - 1], <<C4!NthRow(i), j>>)
    <2>1. h[i - 1] \in C4!Boards
      BY <1>0, <1>4
    <2> QED
      BY <2>1 DEF C4!NthRow
  <1> HIDE DEF step
  <1>6. h = [i \in 0 .. BoardSize |->
                IF i = 0 THEN f ELSE C4!FallFrom(h[i - 1], <<C4!NthRow(i), j>>)]
    BY <1>0, <1>4, <1>5
  <1>7. \E a : /\ a = [i \in 0 .. BoardSize |-> IF i = 0 THEN f ELSE
                                  C4!FallFrom(a[i - 1], <<C4!NthRow(i), j>>)]
               /\ g = a[BoardSize]
    BY <1>6 DEF C4!FallColumn
  <1>8. PICK a : /\ a = [i \in 0 .. BoardSize |-> IF i = 0 THEN f ELSE
                                  C4!FallFrom(a[i - 1], <<C4!NthRow(i), j>>)]
                 /\ g = a[BoardSize]
    BY <1>7
  <1>9. /\ a[0] = f
        /\ \A i \in 1 .. BoardSize : a[i] = C4!FallFrom(a[i - 1], <<i - 1, j>>)
    BY <1>0, <1>8 DEF C4!NthRow
  <1> DEFINE Done == {i \in 0 .. BoardSize : a[i] \in C4!Boards /\ SettledTo(a[i], i, j)
                                                /\ ApartFrom(f, a[i], j)}
  <1>10. 0 \in Done
    BY <1>0, <1>9 DEF SettledTo, ApartFrom
  <1>11. ASSUME NEW i \in 0 .. BoardSize - 1, i \in Done PROVE i + 1 \in Done
    <2>1. a[i + 1] = C4!FallFrom(a[i], <<i, j>>)
      BY <1>0, <1>9
    <2>2. /\ a[i + 1] \in C4!Boards /\ SettledTo(a[i + 1], i + 1, j)
          /\ ApartFrom(a[i], a[i + 1], j)
      BY <1>11, <2>1, OneFalls
    <2>3. ApartFrom(f, a[i + 1], j)
      BY <1>11, <2>2 DEF ApartFrom
    <2> QED
      BY <1>0, <2>2, <2>3
  <1>12. \A i \in 0 .. BoardSize : i \in Done
    <2> HIDE DEF Done
    <2> QED
      BY <1>0, <1>10, <1>11, Upwards
  <1> QED
    BY <1>0, <1>8, <1>12

\* The whole board falls, one column after the other.
LEMMA BoardFalls ==
    ASSUME NEW f \in C4!Boards, NEW g, g = C4!Fall(f)
    PROVE  g \in C4!Boards /\ \A j \in 0 .. BoardSize - 1 : SettledTo(g, BoardSize, j)
  <1> DEFINE step == [i \in 1 .. BoardSize |-> [b \in C4!Boards |-> C4!FallColumn(b, i - 1)]]
  <1>0. BoardSize \in Nat /\ BoardSize # 0
    BY LineAssumption
  <1>1. ASSUME NEW b \in C4!Boards, NEW i \in 1 .. BoardSize
        PROVE  C4!FallColumn(b, i - 1) \in C4!Boards
    <2>1. i - 1 \in 0 .. BoardSize - 1
      BY <1>0
    <2> QED
      BY <2>1, ColumnFalls
  <1>2. step \in [1 .. BoardSize -> [C4!Boards -> C4!Boards]]
    BY <1>1
  <1>3. PICK h : Follows(h, BoardSize, C4!Boards, f, step)
    <2> HIDE DEF step
    <2> QED
      BY <1>0, <1>2, RecursionExists, Zenon
  <1>4. /\ h \in [0 .. BoardSize -> C4!Boards]
        /\ h[0] = f /\ \A i \in 1 .. BoardSize : h[i] = step[i][h[i - 1]]
    <2> HIDE DEF step
    <2> QED
      BY <1>3 DEF Follows
  <1>5. ASSUME NEW i \in 1 .. BoardSize
        PROVE  step[i][h[i - 1]] = C4!FallColumn(h[i - 1], i - 1)
    <2>1. h[i - 1] \in C4!Boards
      BY <1>0, <1>4
    <2> QED
      BY <2>1
  <1> HIDE DEF step
  <1>6. h = [i \in 0 .. BoardSize |-> IF i = 0 THEN f ELSE C4!FallColumn(h[i - 1], i - 1)]
    BY <1>0, <1>4, <1>5
  <1>7. \E a : /\ a = [i \in 0 .. BoardSize |->
                          IF i = 0 THEN f ELSE C4!FallColumn(a[i - 1], i - 1)]
               /\ g = a[BoardSize]
    BY <1>6 DEF C4!Fall
  <1>8. PICK a : /\ a = [i \in 0 .. BoardSize |->
                            IF i = 0 THEN f ELSE C4!FallColumn(a[i - 1], i - 1)]
                 /\ g = a[BoardSize]
    BY <1>7
  <1>9. /\ a[0] = f
        /\ \A i \in 1 .. BoardSize : a[i] = C4!FallColumn(a[i - 1], i - 1)
    BY <1>0, <1>8
  <1> DEFINE Done == {i \in 0 .. BoardSize :
                         /\ a[i] \in C4!Boards
                         /\ \A j \in 0 .. i - 1 : SettledTo(a[i], BoardSize, j)}
  <1>10. 0 \in Done
    BY <1>0, <1>9
  <1>11. ASSUME NEW i \in 0 .. BoardSize - 1, i \in Done PROVE i + 1 \in Done
    <2>1. a[i + 1] = C4!FallColumn(a[i], i)
      BY <1>0, <1>9
    <2>2. /\ a[i + 1] \in C4!Boards /\ SettledTo(a[i + 1], BoardSize, i)
          /\ ApartFrom(a[i], a[i + 1], i)
      BY <1>11, <2>1, ColumnFalls
    <2>3. ASSUME NEW j \in 0 .. i - 1 PROVE SettledTo(a[i + 1], BoardSize, j)
      <3>1. SettledTo(a[i], BoardSize, j) /\ j # i /\ j \in 0 .. BoardSize - 1
        BY <1>0, <1>11
      <3>2. ASSUME NEW r \in 0 .. BoardSize - 1 PROVE a[i + 1][<<r, j>>] = a[i][<<r, j>>]
        <4>1. <<r, j>> \in C4!Cells /\ <<r, j>>[2] # i
          BY <3>1, CellsAre
        <4> QED
          BY <2>2, <4>1 DEF ApartFrom
      <3>3. \A r \in 1 .. BoardSize - 1 : r \in 0 .. BoardSize - 1 /\ r - 1 \in 0 .. BoardSize - 1
        BY <1>0
      <3> QED
        BY <3>1, <3>2, <3>3 DEF SettledTo
    <2>4. \A j \in 0 .. i : j = i \/ j \in 0 .. i - 1
      OBVIOUS
    <2> QED
      BY <1>0, <2>2, <2>3, <2>4
  <1>12. \A i \in 0 .. BoardSize : i \in Done
    <2> HIDE DEF Done
    <2> QED
      BY <1>0, <1>10, <1>11, Upwards
  <1> QED
    BY <1>0, <1>8, <1>12

\* No piece of a settled board is above an empty cell.
LEMMA FallenIsSettled ==
    ASSUME NEW f \in C4!Boards, \A j \in 0 .. BoardSize - 1 : SettledTo(f, BoardSize, j),
           NEW c \in C4!Cells, c[1] > 0, f[c] # C4!EMPTY
    PROVE  f[<<c[1] - 1, c[2]>>] # C4!EMPTY
  <1>1. /\ c = <<c[1], c[2]>> /\ c[1] \in 1 .. BoardSize - 1 /\ c[2] \in 0 .. BoardSize - 1
    BY CellsAre
  <1>2. f[<<c[1], c[2]>>] # C4!EMPTY
    BY <1>1
  <1> QED
    BY <1>1, <1>2 DEF SettledTo

LEMMA EmptyIsABoard == C4!EmptyField \in C4!Boards
  BY CellsAre DEF C4!EmptyField

LEMMA InsertType ==
    ASSUME NEW f \in C4!Boards, NEW team \in Teams, NEW j \in 0 .. BoardSize - 1
    PROVE  C4!Insert(f, team, j) \in C4!Boards
  <1>1. <<BoardSize - 1, j>> \in C4!Cells
    BY CellsAre, LineAssumption
  <1> QED
    BY <1>1, CellsAre DEF C4!Insert

LEMMA RotateType ==
    ASSUME NEW f \in C4!Boards
    PROVE  C4!Rotate(f) \in C4!Boards
  <1>1. ASSUME NEW c \in C4!Cells PROVE <<c[2], BoardSize - 1 - c[1]>> \in C4!Cells
    <2>1. c[2] \in 0 .. BoardSize - 1 /\ BoardSize - 1 - c[1] \in 0 .. BoardSize - 1
      BY CellsAre, LineAssumption
    <2> QED
      BY <2>1, CellsAre
  <1>2. \A c \in C4!Cells : f[<<c[2], BoardSize - 1 - c[1]>>] \in C4!Pieces
    BY <1>1, CellsAre
  <1> QED
    BY <1>2, CellsAre DEF C4!Rotate

-----------------------------------------------------------------------------
(* Connect4: the scan.                                                     *)

LEMMA StepsAre == C4!Steps = {<<1, 0>>, <<0, 1>>, <<1, 1>>, <<-1, 1>>}
  BY DEF C4!Steps

\* The cells the scan comes from are below, or in the column to the left.
LEMMA FromIs ==
    ASSUME NEW c \in C4!Cells, NEW s \in C4!Steps, NEW p, p = C4!From(c, s)
    PROVE  /\ p \in C4!Cells => p[1] \in 0 .. BoardSize - 1 /\ p[2] \in 0 .. BoardSize - 1
           /\ p[2] = c[2] - 1 \/ (p[2] = c[2] /\ p[1] = c[1] - 1)
           /\ p # c
  <1>1. c[1] \in Int /\ c[2] \in Int
    BY CellsAre, LineAssumption
  <1>2. p = <<c[1] - s[1], c[2] - s[2]>>
    BY DEF C4!From
  <1>3. p[2] = c[2] - 1 \/ (p[2] = c[2] /\ p[1] = c[1] - 1)
    BY <1>1, <1>2, StepsAre
  <1>4. p # c
    BY <1>1, <1>3
  <1> QED
    BY <1>3, <1>4, CellsAre

\* Induction along the scan: from the left column to the right, upwards.
LEMMA AlongTheScan ==
    ASSUME NEW G,
           \A c \in C4!Cells :
              (\A s \in C4!Steps : C4!From(c, s) \in C4!Cells => C4!From(c, s) \in G) => c \in G
    PROVE  C4!Cells \subseteq G
  <1> DEFINE Unseen == {j \in 0 .. BoardSize - 1 :
                            \E i \in 0 .. BoardSize - 1 : <<i, j>> \notin G}
 <1>0. BoardSize \in Nat
    BY LineAssumption
  <1> SUFFICES ASSUME Unseen # {} PROVE FALSE
    <2>1. ASSUME NEW c \in C4!Cells, c \notin G PROVE c[2] \in Unseen
      <3>1. PICK i \in 0 .. BoardSize - 1, k \in 0 .. BoardSize - 1 : c = <<i, k>>
        BY CellsAre, Zenon
      <3> QED
        BY <2>1, <3>1
    <2> QED
      BY <2>1
  <1>1. Unseen \in SUBSET Nat
    BY <1>0
  <1>2. PICK j \in Unseen : \A m \in Unseen : j <= m
    <2> HIDE DEF Unseen
    <2> QED
      BY <1>1, LeastNat
  <1> DEFINE Rows == {i \in 0 .. BoardSize - 1 : <<i, j>> \notin G}
  <1>3. Rows \in SUBSET Nat /\ Rows # {}
    <2>1. PICK i \in 0 .. BoardSize - 1 : <<i, j>> \notin G
      BY <1>2
    <2>2. i \in Rows
      BY <2>1
    <2>3. Rows \in SUBSET Nat
      BY <1>0
    <2> QED
      BY <2>2, <2>3
  <1>4. PICK i \in Rows : \A m \in Rows : i <= m
    <2> HIDE DEF Rows
    <2> QED
      BY <1>3, LeastNat
  <1>5. <<i, j>> \in C4!Cells /\ <<i, j>> \notin G
    BY <1>0, CellsAre
  <1>6. ASSUME NEW s \in C4!Steps, C4!From(<<i, j>>, s) \in C4!Cells
        PROVE  C4!From(<<i, j>>, s) \in G
    <2>1. PICK p : p = C4!From(<<i, j>>, s)
      OBVIOUS
    <2>2. /\ p = <<p[1], p[2]>> /\ p[1] \in 0 .. BoardSize - 1 /\ p[2] \in 0 .. BoardSize - 1
          /\ p[2] = j - 1 \/ (p[2] = j /\ p[1] = i - 1)
      BY <1>5, <1>6, <2>1, FromIs, CellsAre
    <2>3. CASE p[2] = j - 1
      <3>1. p[2] \notin Unseen
        BY <1>0, <1>2, <2>2, <2>3
      <3> QED
        BY <2>1, <2>2, <3>1
    <2>4. CASE p[2] = j /\ p[1] = i - 1
      <3>1. p[1] \notin Rows
        BY <1>0, <1>4, <2>2, <2>4
      <3> QED
        BY <2>1, <2>2, <2>4, <3>1
    <2> QED
      BY <2>2, <2>3, <2>4
  <1> QED
    BY <1>5, <1>6

\* What the scan does at c, and that it has been done for the cells in D.
Visit(f, q, c) == IF f[c] = C4!EMPTY THEN {} ELSE C4!Pushed(f, q, c)

Visited(f, q, D) ==
    /\ q = [c \in C4!Cells |-> q[c]]
    /\ \A c \in D : q[c] = Visit(f, q, c)

\* A visit depends on what was found where the scan comes from.
LEMMA VisitSame ==
    ASSUME NEW f, NEW q, NEW r, NEW c \in C4!Cells,
           \A s \in C4!Steps : C4!From(c, s) \in C4!Cells =>
                                  q[C4!From(c, s)] = r[C4!From(c, s)]
    PROVE  Visit(f, q, c) = Visit(f, r, c)
  <1> DEFINE Found(h, s) == {C4!Lengthened(f[C4!From(c, s)] = f[c], s, e) :
                               e \in h[C4!From(c, s)]}
             Comes == {s \in C4!Steps : C4!From(c, s) \in C4!Cells}
  <1>1. \A s \in Comes : Found(q, s) = Found(r, s)
    OBVIOUS
  <1>2. {Found(q, s) : s \in Comes} = {Found(r, s) : s \in Comes}
    <2> HIDE DEF Found, Comes
    <2> QED
      BY <1>1
  <1> QED
    BY <1>2 DEF Visit, C4!Pushed

\* One more cell is visited.
LEMMA VisitNext ==
    ASSUME NEW f, NEW q, NEW D \in SUBSET C4!Cells, Visited(f, q, D), NEW c \in C4!Cells,
           c \notin D,
           \A d \in D : \A s \in C4!Steps : C4!From(d, s) # c
    PROVE  \E r : Visited(f, r, D \cup {c})
  <1> DEFINE r == [d \in C4!Cells |-> IF d = c THEN Visit(f, q, c) ELSE q[d]]
  <1>1. r = [d \in C4!Cells |-> r[d]]
    OBVIOUS
  <1>2. \A d \in C4!Cells : d # c => r[d] = q[d]
    OBVIOUS
  <1>3. r[c] = Visit(f, q, c)
    OBVIOUS
  <1> HIDE DEF r
  <1>4. Visit(f, q, c) = Visit(f, r, c)
    <2>1. \A s \in C4!Steps : C4!From(c, s) \in C4!Cells =>
                                 q[C4!From(c, s)] = r[C4!From(c, s)]
      BY <1>2, FromIs
    <2> QED
      BY <2>1, VisitSame
  <1>5. ASSUME NEW d \in D PROVE r[d] = Visit(f, r, d)
    <2>1. \A s \in C4!Steps : C4!From(d, s) \in C4!Cells =>
                                 q[C4!From(d, s)] = r[C4!From(d, s)]
      BY <1>2
    <2>2. Visit(f, q, d) = Visit(f, r, d)
      BY <2>1, VisitSame
    <2> QED
      BY <1>2, <2>2 DEF Visited
  <1>6. Visited(f, r, D \cup {c})
    BY <1>1, <1>3, <1>4, <1>5 DEF Visited
  <1> QED
    BY <1>6

\* The scan is defined: every cell can be visited.
LEMMA ScanExists ==
    ASSUME NEW f
    PROVE  \E q : Visited(f, q, C4!Cells)
  <1> DEFINE Before(j, i) == {c \in C4!Cells : c[2] < j \/ (c[2] = j /\ c[1] < i)}
             Some(j, i) == \E q : Visited(f, q, Before(j, i))
  <1>0. BoardSize \in Nat
    BY LineAssumption
  <1>1. Some(0, 0)
    <2>1. Before(0, 0) = {}
      BY <1>0, CellsAre
    <2>2. Visited(f, [c \in C4!Cells |-> {}], {})
      BY DEF Visited
    <2> QED
      BY <2>1, <2>2
  <1>2. ASSUME NEW j \in 0 .. BoardSize - 1, NEW i \in 0 .. BoardSize - 1, Some(j, i)
        PROVE  Some(j, i + 1)
    <2>1. PICK q : Visited(f, q, Before(j, i))
      BY <1>2
    <2>2. <<i, j>> \in C4!Cells /\ <<i, j>> \notin Before(j, i)
      BY <1>0, CellsAre
    <2>3. ASSUME NEW d \in Before(j, i), NEW s \in C4!Steps PROVE C4!From(d, s) # <<i, j>>
      <3>1. PICK p : p = C4!From(d, s)
        OBVIOUS
      <3>2. p[2] = d[2] - 1 \/ (p[2] = d[2] /\ p[1] = d[1] - 1)
        BY <3>1, FromIs
      <3>3. d[1] \in Int /\ d[2] \in Int /\ (d[2] < j \/ (d[2] = j /\ d[1] < i))
        BY <1>0, CellsAre
      <3>4. p # <<i, j>>
        BY <1>0, <3>2, <3>3
      <3> QED
        BY <3>1, <3>4
    <2>4. Before(j, i + 1) = Before(j, i) \cup {<<i, j>>}
      <3>1. \A c \in C4!Cells : /\ c[1] \in Int /\ c[2] \in Int /\ i \in Int /\ j \in Int
                                /\ c[1] = i /\ c[2] = j => c = <<i, j>>
        BY <1>0, CellsAre
      <3>2. \A c \in C4!Cells : c[1] < i + 1 <=> c[1] < i \/ c[1] = i
        BY <3>1
      <3> QED
        BY <2>2, <3>1, <3>2
    <2>5. Before(j, i) \in SUBSET C4!Cells
      OBVIOUS
    <2> HIDE DEF Before
    <2>6. \E r : Visited(f, r, Before(j, i) \cup {<<i, j>>})
      BY <2>1, <2>2, <2>3, <2>5, VisitNext
    <2> QED
      BY <2>4, <2>6
  <1>3. ASSUME NEW j \in 0 .. BoardSize - 1, Some(j, 0) PROVE Some(j + 1, 0)
    <2> DEFINE Done == {i \in 0 .. BoardSize : Some(j, i)}
    <2> HIDE DEF Some
    <2>1. 0 \in Done
      BY <1>0, <1>3
    <2>2. \A i \in 0 .. BoardSize - 1 : i \in Done => i + 1 \in Done
      BY <1>0, <1>2
    <2>3. \A i \in 0 .. BoardSize : i \in Done
      <3> HIDE DEF Done
      <3> QED
        BY <1>0, <2>1, <2>2, Upwards
    <2>4. Some(j, BoardSize)
      BY <1>0, <2>3
    <2>5. Before(j, BoardSize) = Before(j + 1, 0)
      <3>1. \A c \in C4!Cells : /\ c[1] \in 0 .. BoardSize - 1 /\ c[2] \in 0 .. BoardSize - 1
        BY CellsAre
      <3> QED
        BY <1>0, <3>1
    <2> HIDE DEF Before
    <2> QED
      BY <2>4, <2>5 DEF Some
  <1> DEFINE Done == {j \in 0 .. BoardSize : Some(j, 0)}
  <1>4. \A j \in 0 .. BoardSize : j \in Done
    <2> HIDE DEF Some
    <2>1. 0 \in Done
      BY <1>0, <1>1
    <2>2. \A j \in 0 .. BoardSize - 1 : j \in Done => j + 1 \in Done
      BY <1>0, <1>3
    <2> HIDE DEF Done
    <2> QED
      BY <1>0, <2>1, <2>2, Upwards
  <1>5. Before(BoardSize, 0) = C4!Cells
    <2>1. \A c \in C4!Cells : /\ c[1] \in 0 .. BoardSize - 1 /\ c[2] \in 0 .. BoardSize - 1
      BY CellsAre
    <2> QED
      BY <1>0, <2>1
  <1>6. Some(BoardSize, 0)
    <2> HIDE DEF Some
    <2> QED
      BY <1>0, <1>4
  <1> QED
    BY <1>5, <1>6

\* Hence the recursive definition of Queue says what it holds.
LEMMA QueueIs ==
    ASSUME NEW f, NEW q, q = C4!Queue(f), NEW c \in C4!Cells
    PROVE  q[c] = IF f[c] = C4!EMPTY THEN {} ELSE C4!Pushed(f, q, c)
  <1>1. PICK h : Visited(f, h, C4!Cells)
    BY ScanExists
  <1>2. h = [d \in C4!Cells |-> Visit(f, h, d)]
    BY <1>1 DEF Visited
  <1>3. h = [d \in C4!Cells |-> IF f[d] = C4!EMPTY THEN {} ELSE C4!Pushed(f, h, d)]
    BY <1>2 DEF Visit
  <1>4. q = [d \in C4!Cells |-> IF f[d] = C4!EMPTY THEN {} ELSE C4!Pushed(f, q, d)]
    BY <1>3 DEF C4!Queue
  <1> QED
    BY <1>4

\* k steps back from c, and k steps on.
Ago(c, d, k) == <<c[1] - k * d[1], c[2] - k * d[2]>>
Ahead(c, d, k) == <<c[1] + k * d[1], c[2] + k * d[2]>>

LEMMA Straight ==
    ASSUME NEW c \in C4!Cells, NEW d \in C4!Steps, NEW k \in Nat
    PROVE  /\ Ago(c, d, 0) = c /\ Ahead(c, d, 0) = c
           /\ k # 0 => Ago(c, d, k) = Ago(C4!From(c, d), d, k - 1)
           /\ k # 0 => C4!From(Ahead(c, d, k), d) = Ahead(c, d, k - 1)
  <1>1. PICK i \in Int, j \in Int : c = <<i, j>>
    <2>1. c = <<c[1], c[2]>> /\ c[1] \in Int /\ c[2] \in Int
      BY CellsAre, LineAssumption
    <2> QED
      BY <2>1, Zenon
  <1>2. d \in {<<1, 0>>, <<0, 1>>, <<1, 1>>, <<-1, 1>>}
    BY StepsAre
  <1>3. CASE d = <<1, 0>>
    BY <1>1, <1>3 DEF Ago, Ahead, C4!From
  <1>4. CASE d = <<0, 1>>
    BY <1>1, <1>4 DEF Ago, Ahead, C4!From
  <1>5. CASE d = <<1, 1>>
    BY <1>1, <1>5 DEF Ago, Ahead, C4!From
  <1>6. CASE d = <<-1, 1>>
    BY <1>1, <1>6 DEF Ago, Ahead, C4!From
  <1> QED
    BY <1>2, <1>3, <1>4, <1>5, <1>6

\* The streak e at c stands for pieces of one team in line behind c.
RunOf(f, c, e) ==
    /\ e \in C4!Steps \X Nat
    /\ \A k \in 0 .. e[2] : Ago(c, e[1], k) \in C4!Cells /\ f[Ago(c, e[1], k)] = f[c]

\* A run that is lengthened is a run.
LEMMA RunGrows ==
    ASSUME NEW f, NEW c \in C4!Cells, NEW s \in C4!Steps, NEW p \in C4!Cells,
           p = C4!From(c, s), NEW e, RunOf(f, p, e),
           NEW n, n = C4!Lengthened(f[p] = f[c], s, e)
    PROVE  RunOf(f, c, n)
  <1>1. e \in C4!Steps \X Nat /\ e[2] \in Nat /\ e[1] \in C4!Steps
    BY DEF RunOf
  <1>2. Ago(c, s, 0) = c /\ Ago(c, s, 1) = p
    BY Straight
  <1>3. CASE f[p] # f[c]
    <2>1. n = <<s, 0>>
      BY <1>3 DEF C4!Lengthened
    <2> QED
      BY <1>2, <2>1 DEF RunOf
  <1>4. CASE f[p] = f[c] /\ e[1] # s
    <2>1. n = <<s, 1>>
      BY <1>4 DEF C4!Lengthened
    <2>2. \A k \in 0 .. 1 : k = 0 \/ k = 1
      OBVIOUS
    <2> QED
      BY <1>2, <1>4, <2>1, <2>2 DEF RunOf
  <1>5. CASE f[p] = f[c] /\ e[1] = s
    <2>1. n = <<s, e[2] + 1>>
      BY <1>5 DEF C4!Lengthened
    <2>2. ASSUME NEW k \in 0 .. e[2] + 1
          PROVE  Ago(c, s, k) \in C4!Cells /\ f[Ago(c, s, k)] = f[c]
      <3>1. CASE k = 0
        BY <1>2, <3>1
      <3>2. CASE k # 0
        <4>1. k \in Nat /\ k - 1 \in 0 .. e[2]
          BY <1>1, <3>2
        <4>2. Ago(c, s, k) = Ago(p, s, k - 1)
          BY <3>2, <4>1, Straight
        <4>3. Ago(p, s, k - 1) \in C4!Cells /\ f[Ago(p, s, k - 1)] = f[p]
          BY <1>5, <4>1 DEF RunOf
        <4> QED
          BY <1>5, <4>2, <4>3
      <3> QED
        BY <3>1, <3>2
    <2>3. n \in C4!Steps \X Nat /\ n[1] = s /\ n[2] = e[2] + 1
      BY <1>1, <2>1
    <2> QED
      BY <2>2, <2>3 DEF RunOf
  <1> QED
    BY <1>3, <1>4, <1>5

\* What is pushed for c.
LEMMA PushedIs ==
    ASSUME NEW f, NEW q, NEW c \in C4!Cells
    PROVE  /\ c[1] = 0 /\ f[c] > 0 => <<<<1, 0>>, 0>> \in C4!Pushed(f, q, c)
           /\ \A s \in C4!Steps : C4!From(c, s) \in C4!Cells =>
                 \A e \in q[C4!From(c, s)] :
                    C4!Lengthened(f[C4!From(c, s)] = f[c], s, e) \in C4!Pushed(f, q, c)
           /\ \A n \in C4!Pushed(f, q, c) :
                 \/ n = <<<<1, 0>>, 0>>
                 \/ \E s \in C4!Steps :
                       /\ C4!From(c, s) \in C4!Cells
                       /\ \E e \in q[C4!From(c, s)] :
                             n = C4!Lengthened(f[C4!From(c, s)] = f[c], s, e)
  <1> DEFINE Found(s) == {C4!Lengthened(f[C4!From(c, s)] = f[c], s, e) :
                               e \in q[C4!From(c, s)]}
             Comes == {s \in C4!Steps : C4!From(c, s) \in C4!Cells}
  <1>1. C4!Pushed(f, q, c) = (IF c[1] = 0 /\ f[c] > 0 THEN {<<<<1, 0>>, 0>>} ELSE {})
                                \cup UNION {Found(s) : s \in Comes}
    BY DEF C4!Pushed
  <1>2. ASSUME NEW s \in Comes, NEW n \in Found(s) PROVE n \in C4!Pushed(f, q, c)
    <2> HIDE DEF Comes, Found
    <2> QED
      BY <1>1, <1>2
  <1>3. ASSUME NEW n \in C4!Pushed(f, q, c)
        PROVE  n = <<<<1, 0>>, 0>> \/ \E s \in Comes : n \in Found(s)
    <2> HIDE DEF Comes, Found
    <2> QED
      BY <1>1, <1>3
  <1>4. c[1] = 0 /\ f[c] > 0 => <<<<1, 0>>, 0>> \in C4!Pushed(f, q, c)
    <2> HIDE DEF Comes, Found
    <2> QED
      BY <1>1
  <1> QED
    BY <1>2, <1>3, <1>4

\* Every streak is a line of pieces.
LEMMA StreaksAreRuns ==
    ASSUME NEW f \in C4!Boards, NEW q, q = C4!Queue(f)
    PROVE  \A c \in C4!Cells : \A e \in q[c] : f[c] # C4!EMPTY /\ RunOf(f, c, e)
  <1> DEFINE G == {c \in C4!Cells : \A e \in q[c] : RunOf(f, c, e)}
  <1>1. ASSUME NEW c \in C4!Cells,
               \A s \in C4!Steps : C4!From(c, s) \in C4!Cells => C4!From(c, s) \in G
        PROVE  c \in G
    <2> SUFFICES ASSUME NEW n \in q[c] PROVE RunOf(f, c, n)
      OBVIOUS
    <2>1. n \in C4!Pushed(f, q, c)
      BY QueueIs
    <2>2. CASE n = <<<<1, 0>>, 0>>
      <3>1. <<1, 0>> \in C4!Steps
        BY StepsAre
      <3>2. Ago(c, <<1, 0>>, 0) = c
        BY <3>1, Straight
      <3>3. n \in C4!Steps \X Nat /\ n[1] = <<1, 0>> /\ n[2] = 0
        BY <2>2, <3>1
      <3> QED
        BY <3>2, <3>3 DEF RunOf
    <2>3. ASSUME NEW s \in C4!Steps, C4!From(c, s) \in C4!Cells,
                 NEW e \in q[C4!From(c, s)],
                 n = C4!Lengthened(f[C4!From(c, s)] = f[c], s, e)
          PROVE  RunOf(f, c, n)
      <3>1. PICK p \in C4!Cells : p = C4!From(c, s)
        BY <2>3
      <3>2. RunOf(f, p, e)
        BY <1>1, <2>3, <3>1
      <3>3. n = C4!Lengthened(f[p] = f[c], s, e)
        BY <2>3, <3>1
      <3> QED
        BY <3>1, <3>2, <3>3, RunGrows
    <2> QED
      BY <2>1, <2>2, <2>3, PushedIs
  <1>2. C4!Cells \subseteq G
    <2> HIDE DEF G
    <2> QED
      BY <1>1, AlongTheScan
  <1> QED
    BY <1>2, QueueIs

\* The pieces of a settled board are all found, when every column starts one.
LEMMA PiecesAreFound ==
    ASSUME NEW f \in C4!Boards, NEW q, q = C4!Queue(f), C4!StartsEverywhere(f),
           \A j \in 0 .. BoardSize - 1 : SettledTo(f, BoardSize, j)
    PROVE  \A c \in C4!Cells : f[c] # C4!EMPTY => q[c] # {}
  <1> DEFINE G == {c \in C4!Cells : f[c] # C4!EMPTY => q[c] # {}}
  <1>1. ASSUME NEW c \in C4!Cells,
               \A s \in C4!Steps : C4!From(c, s) \in C4!Cells => C4!From(c, s) \in G
        PROVE  c \in G
    <2> SUFFICES ASSUME f[c] # C4!EMPTY PROVE q[c] # {}
      OBVIOUS
    <2>1. q[c] = C4!Pushed(f, q, c)
      BY QueueIs
    <2>2. CASE c[1] = 0
      <3>1. f[c] \in Int /\ f[c] # 0
        BY CellsAre
      <3>2. c = <<0, c[2]>> /\ c[2] \in C4!Index
        BY <2>2, CellsAre DEF C4!Index
      <3>3. f[c] >= 0
        BY <3>2 DEF C4!StartsEverywhere
      <3>4. f[c] > 0
        BY <3>1, <3>3
      <3> QED
        BY <2>1, <2>2, <3>4, PushedIs
    <2>3. CASE c[1] # 0
      <3>1. c[1] \in 1 .. BoardSize - 1 /\ c[2] \in 0 .. BoardSize - 1
        BY <2>3, CellsAre, LineAssumption
      <3>2. f[<<c[1] - 1, c[2]>>] # C4!EMPTY
        BY <3>1, FallenIsSettled
      <3>3. <<1, 0>> \in C4!Steps /\ C4!From(c, <<1, 0>>) = <<c[1] - 1, c[2]>>
        BY <3>1, StepsAre, LineAssumption DEF C4!From
      <3>4. <<c[1] - 1, c[2]>> \in C4!Cells
        BY <3>1, CellsAre, LineAssumption
      <3>5. PICK e : e \in q[C4!From(c, <<1, 0>>)]
        BY <1>1, <3>2, <3>3, <3>4
      <3> QED
        BY <2>1, <3>3, <3>4, <3>5, PushedIs
    <2> QED
      BY <2>2, <2>3
  <1>2. C4!Cells \subseteq G
    <2> HIDE DEF G
    <2> QED
      BY <1>1, AlongTheScan
  <1> QED
    BY <1>2

\* Along a line of pieces of one team the streak grows.
LEMMA RunsAreFound ==
    ASSUME NEW f \in C4!Boards, NEW q, q = C4!Queue(f), C4!StartsEverywhere(f),
           \A j \in 0 .. BoardSize - 1 : SettledTo(f, BoardSize, j),
           NEW c \in C4!Cells, NEW d \in C4!Steps, NEW K \in Nat \ {0}, NEW t, t # C4!EMPTY,
           \A k \in 0 .. K : Ahead(c, d, k) \in C4!Cells /\ f[Ahead(c, d, k)] = t
    PROVE  \E e \in q[Ahead(c, d, K)] : e[2] >= K
  <1> DEFINE G == {k \in 0 .. K : k = 0 \/ \E e \in q[Ahead(c, d, k)] : e[1] = d /\ e[2] >= k}
  <1>1. 0 \in G
    OBVIOUS
  <1>2. ASSUME NEW k \in 0 .. K - 1, k \in G PROVE k + 1 \in G
    <2>1. PICK p \in C4!Cells : p = Ahead(c, d, k)
      OBVIOUS
    <2>2. PICK a \in C4!Cells : a = Ahead(c, d, k + 1)
      OBVIOUS
    <2>3. f[p] = t /\ f[a] = t
      BY <2>1, <2>2
    <2>4. C4!From(a, d) = p
      <3>1. k + 1 \in Nat /\ k + 1 # 0 /\ (k + 1) - 1 = k
        OBVIOUS
      <3> QED
        BY <2>1, <2>2, <3>1, Straight
    <2>5. PICK e \in q[p] : k = 0 \/ (e[1] = d /\ e[2] >= k)
      <3>1. CASE k = 0
        <4>1. q[p] # {}
          BY <2>3, PiecesAreFound
        <4> QED
          BY <3>1, <4>1
      <3>2. CASE k # 0
        BY <1>2, <2>1, <3>2
      <3> QED
        BY <3>1, <3>2
    <2>6. e[2] \in Nat
      <3>1. RunOf(f, p, e)
        BY StreaksAreRuns
      <3> QED
        BY <3>1 DEF RunOf
    <2>7. PICK n : n = C4!Lengthened(f[p] = f[a], d, e)
      OBVIOUS
    <2>8. n \in q[a]
      <3>1. q[a] = C4!Pushed(f, q, a)
        BY <2>3, QueueIs
      <3> QED
        BY <2>4, <2>7, <3>1, PushedIs
    <2>9. n[1] = d /\ n[2] >= k + 1
      BY <2>3, <2>5, <2>6, <2>7 DEF C4!Lengthened
    <2> QED
      BY <2>2, <2>8, <2>9
  <1>3. \A k \in 0 .. K : k \in G
    <2> HIDE DEF G
    <2> QED
      BY <1>1, <1>2, Upwards
  <1> QED
    BY <1>3

\* A line of a team, as steps ahead of its first piece.
LEMMA HasLineIs ==
    ASSUME NEW f, NEW t
    PROVE  C4!HasLine(f, t) <=>
              \E c \in C4!Cells, d \in {<<0, 1>>, <<1, 0>>, <<1, 1>>, <<1, -1>>} :
                 \A k \in 0 .. Streak : Ahead(c, d, k) \in C4!Cells /\ f[Ahead(c, d, k)] = t
  BY DEF C4!HasLine, Ahead

\* A line that goes down to the right is one that goes up to the left.
LEMMA RunIsLine ==
    ASSUME NEW f, NEW t, NEW c \in C4!Cells, NEW d \in C4!Steps,
           \A k \in 0 .. Streak : Ago(c, d, k) \in C4!Cells /\ f[Ago(c, d, k)] = t
    PROVE  C4!HasLine(f, t)
  <1>0. Streak \in Nat
    BY LineAssumption
  <1>1. PICK i \in Int, j \in Int : c = <<i, j>>
    <2>1. c = <<c[1], c[2]>> /\ c[1] \in Int /\ c[2] \in Int
      BY CellsAre, LineAssumption
    <2> QED
      BY <2>1, Zenon
  <1>2. CASE d = <<-1, 1>>
    <2>1. \A k \in 0 .. Streak : Ahead(c, <<1, -1>>, k) = Ago(c, d, k)
      BY <1>0, <1>1, <1>2 DEF Ahead, Ago
    <2> QED
      BY <2>1, HasLineIs
  <1>3. CASE d # <<-1, 1>>
    <2>1. d \in {<<1, 0>>, <<0, 1>>, <<1, 1>>}
      BY <1>3, StepsAre
    <2>2. PICK s \in C4!Cells : s = Ago(c, d, Streak)
      BY <1>0
    <2>3. ASSUME NEW k \in 0 .. Streak PROVE Ahead(s, d, k) = Ago(c, d, Streak - k)
      <3>1. CASE d = <<1, 0>>
        BY <1>0, <1>1, <2>2, <3>1 DEF Ahead, Ago
      <3>2. CASE d = <<0, 1>>
        BY <1>0, <1>1, <2>2, <3>2 DEF Ahead, Ago
      <3>3. CASE d = <<1, 1>>
        BY <1>0, <1>1, <2>2, <3>3 DEF Ahead, Ago
      <3> QED
        BY <2>1, <3>1, <3>2, <3>3
    <2>4. \A k \in 0 .. Streak : Streak - k \in 0 .. Streak
      BY <1>0
    <2>5. \A k \in 0 .. Streak : Ahead(s, d, k) \in C4!Cells /\ f[Ahead(s, d, k)] = t
      BY <2>3, <2>4
    <2> QED
      BY <2>1, <2>5, HasLineIs
  <1> QED
    BY <1>2, <1>3

\* And a line is a run in a direction the scan takes.
LEMMA LineIsRun ==
    ASSUME NEW f, NEW t, C4!HasLine(f, t)
    PROVE  \E c \in C4!Cells, d \in C4!Steps :
              \A k \in 0 .. Streak : Ahead(c, d, k) \in C4!Cells /\ f[Ahead(c, d, k)] = t
  <1>0. Streak \in Nat
    BY LineAssumption
  <1>1. PICK c \in C4!Cells, d \in {<<0, 1>>, <<1, 0>>, <<1, 1>>, <<1, -1>>} :
           \A k \in 0 .. Streak : Ahead(c, d, k) \in C4!Cells /\ f[Ahead(c, d, k)] = t
    BY HasLineIs
  <1>2. CASE d # <<1, -1>>
    BY <1>1, <1>2, StepsAre
  <1>3. CASE d = <<1, -1>>
    <2>1. PICK i \in Int, j \in Int : c = <<i, j>>
      <3>1. c = <<c[1], c[2]>> /\ c[1] \in Int /\ c[2] \in Int
        BY CellsAre, LineAssumption
      <3> QED
        BY <3>1, Zenon
    <2>2. PICK s \in C4!Cells : s = Ahead(c, d, Streak)
      BY <1>0, <1>1
    <2>3. \A k \in 0 .. Streak : Ahead(s, <<-1, 1>>, k) = Ahead(c, d, Streak - k)
      BY <1>0, <1>3, <2>1, <2>2 DEF Ahead
    <2>4. \A k \in 0 .. Streak : Streak - k \in 0 .. Streak
      BY <1>0
    <2>5. \A k \in 0 .. Streak : /\ Ahead(s, <<-1, 1>>, k) \in C4!Cells
                                 /\ f[Ahead(s, <<-1, 1>>, k)] = t
      BY <1>1, <2>3, <2>4
    <2> QED
      BY <2>5, StepsAre
  <1> QED
    BY <1>2, <1>3

\* The first piece of a line.
LEMMA LineStarts ==
    ASSUME NEW f, NEW t, C4!HasLine(f, t)
    PROVE  \E c \in C4!Cells : f[c] = t
  <1>1. PICK c \in C4!Cells, d \in {<<0, 1>>, <<1, 0>>, <<1, 1>>, <<1, -1>>} :
           \A k \in 0 .. Streak : Ahead(c, d, k) \in C4!Cells /\ f[Ahead(c, d, k)] = t
    BY HasLineIs
  <1>2. 0 \in 0 .. Streak
    BY LineAssumption
  <1> QED
    BY <1>1, <1>2

\* The scan finds a streak only for a team with a line, and one for each such team
\* when every column starts one.
LEMMA WinnersAre ==
    ASSUME NEW f \in C4!Boards, \A j \in 0 .. BoardSize - 1 : SettledTo(f, BoardSize, j),
           NEW winners, winners = C4!Winners(f)
    PROVE  /\ \A w \in winners : w[2] \in Teams \ {0} /\ C4!HasLine(f, w[2])
           /\ C4!StartsEverywhere(f) =>
                 \A t \in Teams \ {0} : C4!HasLine(f, t) => \E w \in winners : w[2] = t
  <1>1. PICK q : q = C4!Queue(f)
    OBVIOUS
  <1>2. \A w : w \in winners <=>
           \E c \in C4!Cells : \E e \in q[c] : w = <<c, f[c], e>> /\ e[2] >= Streak
    BY <1>1 DEF C4!Winners
  <1>3. Streak \in Nat \ {0}
    BY LineAssumption
  <1>4. ASSUME NEW w \in winners PROVE w[2] \in Teams \ {0} /\ C4!HasLine(f, w[2])
    <2>1. PICK c \in C4!Cells : \E e \in q[c] : w = <<c, f[c], e>> /\ e[2] >= Streak
      BY <1>2
    <2>2. PICK e \in q[c] : w = <<c, f[c], e>> /\ e[2] >= Streak
      BY <2>1
    <2>3. f[c] # C4!EMPTY /\ RunOf(f, c, e)
      BY <1>1, StreaksAreRuns
    <2>4. f[c] \in Teams \ {0}
      BY <2>3, CellsAre DEF C4!Pieces, C4!EMPTY
    <2>5. e[1] \in C4!Steps /\ e[2] \in Nat
      BY <2>3 DEF RunOf
    <2>6. \A k \in 0 .. Streak : Ago(c, e[1], k) \in C4!Cells /\ f[Ago(c, e[1], k)] = f[c]
      <3>1. \A k \in 0 .. Streak : k \in 0 .. e[2]
        BY <1>3, <2>2, <2>5
      <3> QED
        BY <2>3, <3>1 DEF RunOf
    <2>7. C4!HasLine(f, f[c])
      BY <2>5, <2>6, RunIsLine
    <2> QED
      BY <2>2, <2>4, <2>7
  <1>5. ASSUME C4!StartsEverywhere(f), NEW t \in Teams \ {0}, C4!HasLine(f, t)
        PROVE  \E w \in winners : w[2] = t
    <2>1. PICK c \in C4!Cells, d \in C4!Steps :
             \A k \in 0 .. Streak : Ahead(c, d, k) \in C4!Cells /\ f[Ahead(c, d, k)] = t
      BY <1>5, LineIsRun
    <2>2. t # C4!EMPTY
      BY CellsAre
    <2>3. PICK e \in q[Ahead(c, d, Streak)] : e[2] >= Streak
      BY <1>1, <1>3, <1>5, <2>1, <2>2, RunsAreFound
    <2>4. Ahead(c, d, Streak) \in C4!Cells /\ f[Ahead(c, d, Streak)] = t
      BY <1>3, <2>1
    <2>5. PICK w : w = <<Ahead(c, d, Streak), t, e>>
      OBVIOUS
    <2>6. w \in winners /\ w[2] = t
      BY <1>2, <2>3, <2>4, <2>5
    <2> QED
      BY <2>6
  <1> QED
    BY <1>4, <1>5

\* The invariant of connect4: a scan leaves it true whatever the board was before.
LineInv == C4!TypeOK /\ C4!Settled /\ C4!LinesAreFound

LEMMA TeamsAre == C4!BLUE = 1 /\ C4!RED = 2 /\ C4!EMPTY = 0
  BY DEF C4!BLUE, C4!RED, C4!EMPTY

LEMMA SettleStep ==
    ASSUME C4!TypeOK, NEW f \in C4!Boards, NEW t \in {0, 1, 2}, C4!Settle(f, t)
    PROVE  LineInv'
  <1>1. PICK fallen : fallen = C4!Fall(f)
    OBVIOUS
  <1>2. fallen \in C4!Boards /\ \A j \in 0 .. BoardSize - 1 : SettledTo(fallen, BoardSize, j)
    BY <1>1, BoardFalls
  <1>3. /\ scanned' = [field |-> fallen, seats |-> Len(seated)]
        /\ credited' = [u \in {1, 2} |-> IF u <= Len(seated)
                                         THEN C4!WinsOf(C4!Winners(fallen), u) ELSE 0]
        /\ field' \in {fallen, C4!EmptyField} /\ turn' \in {1, t} /\ seated' = seated
        /\ crashed' = crashed
    BY <1>1 DEF C4!Settle, C4!BLUE, C4!RED
  <1>4. seated \in Seq(Hashes) /\ Len(seated) \in 0 .. 2 /\ crashed \in BOOLEAN
    <2>1. seated \in Seq(Hashes) /\ Len(seated) <= 2 /\ crashed \in BOOLEAN
      BY DEF C4!TypeOK
    <2>2. PICK n \in Nat : n = Len(seated)
      BY <2>1
    <2>3. n \in 0 .. 2
      BY <2>1, <2>2
    <2> QED
      BY <2>1, <2>2, <2>3
  <1>5. field' \in C4!Boards /\ turn' \in {0, 1, 2}
    BY <1>2, <1>3, EmptyIsABoard
  <1>6. credited' \in [{1, 2} -> Nat]
    BY <1>3 DEF C4!WinsOf
  <1>7. scanned' \in [field : C4!Boards, seats : 0 .. 2]
    BY <1>2, <1>3, <1>4
  <1>8. C4!TypeOK'
    BY <1>3, <1>4, <1>5, <1>6, <1>7 DEF C4!TypeOK, C4!BLUE, C4!RED, C4!Boards, C4!Pieces
  <1>9. C4!Settled'
    <2>1. CASE field' = fallen
      <3>1. \A c \in C4!Cells : c[1] > 0 /\ fallen[c] # C4!EMPTY
                                  => fallen[<<c[1] - 1, c[2]>>] # C4!EMPTY
        BY <1>2, FallenIsSettled
      <3> QED
        BY <2>1, <3>1 DEF C4!Settled
    <2>2. CASE field' = C4!EmptyField
      BY <2>2 DEF C4!Settled, C4!EmptyField
    <2> QED
      BY <1>3, <2>1, <2>2
  <1>10. PICK winners : winners = C4!Winners(fallen)
    OBVIOUS
  <1>11. /\ \A w \in winners : w[2] \in Teams \ {0} /\ C4!HasLine(fallen, w[2])
         /\ C4!StartsEverywhere(fallen) =>
               \A u \in Teams \ {0} : C4!HasLine(fallen, u) => \E w \in winners : w[2] = u
    BY <1>2, <1>10, WinnersAre
  <1>12. scanned'.field = fallen /\ scanned'.seats = Len(seated)
    BY <1>3
  <1> DEFINE won == [u \in {1, 2} |->
                       IF u <= scanned'.seats /\ C4!HasLine(scanned'.field, u) THEN 1 ELSE 0]
  <1>13. ASSUME NEW u \in {1, 2}
         PROVE  /\ credited'[u] = IF u <= Len(seated) /\ \E w \in winners : w[2] = u
                                  THEN 1 ELSE 0
                /\ won[u] = IF u <= Len(seated) /\ C4!HasLine(fallen, u) THEN 1 ELSE 0
    BY <1>3, <1>10, <1>12 DEF C4!WinsOf
  <1>14. field' = IF winners = {} THEN fallen ELSE C4!EmptyField
    BY <1>1, <1>10 DEF C4!Settle
  <1>15. \A u \in {1, 2} : (\E w \in winners : w[2] = u) => C4!HasLine(fallen, u)
    BY <1>11
  <1>16. \A u \in {1, 2} : credited'[u] <= won[u]
    BY <1>13, <1>15
  <1>17. winners # {} => C4!HasSomeLine(fallen)
    BY <1>11, TeamsAre DEF C4!HasSomeLine
  <1>18. ASSUME C4!StartsEverywhere(fallen)
         PROVE  credited' = won /\ (C4!HasSomeLine(fallen) => field' = C4!EmptyField)
    <2>1. ASSUME NEW u \in {1, 2}, C4!HasLine(fallen, u) PROVE \E w \in winners : w[2] = u
      <3>1. u \in Teams \ {0}
        <4>1. PICK c \in C4!Cells : fallen[c] = u
          BY <2>1, LineStarts
        <4> QED
          BY <1>2, <4>1, CellsAre DEF C4!Pieces, C4!EMPTY
      <3> QED
        BY <1>11, <1>18, <2>1, <3>1
    <2>2. \A u \in {1, 2} : credited'[u] = won[u]
      BY <1>13, <1>15, <2>1
    <2>3. credited' = [u \in {1, 2} |-> credited'[u]]
      BY <1>6
    <2>4. credited' = won
      BY <2>2, <2>3
    <2>5. C4!HasSomeLine(fallen) => winners # {}
      BY <1>11, <1>18, TeamsAre DEF C4!HasSomeLine
    <2> QED
      BY <1>14, <2>4, <2>5
  <1> HIDE DEF won
  <1>19. /\ \A u \in {1, 2} : credited'[u] <= won[u]
         /\ field' = scanned'.field \/ (field' = C4!EmptyField /\ C4!HasSomeLine(scanned'.field))
         /\ C4!StartsEverywhere(scanned'.field) =>
               /\ credited' = won
               /\ C4!HasSomeLine(scanned'.field) => field' = C4!EmptyField
    BY <1>12, <1>14, <1>16, <1>17, <1>18
  <1>20. C4!LinesAreFound'
    BY <1>19, TeamsAre DEF won, C4!LinesAreFound
  <1> QED
    BY <1>8, <1>9, <1>20 DEF LineInv

LEMMA LineInit == C4!Init => LineInv
  <1> SUFFICES ASSUME C4!Init PROVE LineInv
    OBVIOUS
  <1>1. field \in C4!Boards /\ turn \in {0, 1, 2} /\ seated = <<>> /\ crashed = FALSE
    BY EmptyIsABoard DEF C4!Init, C4!BLUE
  <1>2. scanned \in [field : C4!Boards, seats : 0 .. 2] /\ credited \in [{1, 2} -> Nat]
    BY EmptyIsABoard DEF C4!Init, C4!BLUE, C4!RED
  <1>3. C4!TypeOK
    <2>1. seated \in Seq(Hashes) /\ Len(seated) <= 2
      BY <1>1
    <2>2. /\ turn \in {0, C4!BLUE, C4!RED} /\ crashed \in BOOLEAN
          /\ credited \in [{C4!BLUE, C4!RED} -> Nat]
      BY <1>1, <1>2, TeamsAre
    <2> QED
      BY <1>1, <1>2, <2>1, <2>2, Zenon DEF C4!TypeOK
  <1>4. C4!Settled
    BY DEF C4!Settled, C4!Init, C4!EmptyField
  <1>5. C4!LinesAreFound
    <2>1. /\ scanned.field = C4!EmptyField /\ scanned.seats = 0 /\ field = C4!EmptyField
          /\ credited = [u \in {1, 2} |-> 0]
      BY DEF C4!Init, C4!BLUE, C4!RED
    <2>2. \A u \in {1, 2} : credited[u] = 0 /\ ~(u <= scanned.seats)
      BY <2>1
    <2>3. credited = [u \in {1, 2} |->
              IF u <= scanned.seats /\ C4!HasLine(scanned.field, u) THEN 1 ELSE 0]
      BY <2>1, <2>2
    <2> QED
      BY <2>1, <2>2, <2>3, TeamsAre DEF C4!LinesAreFound
  <1> QED
    BY <1>3, <1>4, <1>5 DEF LineInv

\* A panic changes nothing that is shown.
LEMMA PanicStep ==
    ASSUME LineInv, NEW j, C4!InsertOffBoard(j)
    PROVE  LineInv'
  <1>1. C4!TypeOK'
    BY DEF LineInv, C4!TypeOK, C4!InsertOffBoard, C4!Boards, C4!Pieces
  <1>2. C4!Settled' /\ C4!LinesAreFound'
    BY DEF LineInv, C4!Settled, C4!LinesAreFound, C4!InsertOffBoard
  <1> QED
    BY <1>1, <1>2 DEF LineInv

LEMMA InputStep ==
    ASSUME LineInv, C4!HandleInput
    PROVE  \/ \E f \in C4!Boards, t \in {0, 1, 2} : C4!Settle(f, t)
           \/ \E j \in Columns : C4!InsertOffBoard(j)
  <1>1. field \in C4!Boards /\ turn \in {0, 1, 2}
    BY DEF LineInv, C4!TypeOK, C4!BLUE, C4!RED
  <1>2. CASE \E team \in Teams, j \in Columns : C4!InsertInput(team, j)
    <2>1. PICK team \in Teams, j \in Columns : C4!InsertInput(team, j)
      BY <1>2
    <2>2. PICK t : t = IF field[<<BoardSize - 1, j>>] = C4!EMPTY
                       THEN C4!TurnAfter(team) ELSE turn
      OBVIOUS
    <2>3. t \in {0, 1, 2}
      BY <1>1, <2>2 DEF C4!TurnAfter, C4!BLUE, C4!RED
    <2>4. j \in 0 .. BoardSize - 1
      BY <2>1 DEF C4!InsertInput, C4!Index
    <2>5. C4!Insert(field, team, j) \in C4!Boards
      BY <1>1, <2>4, InsertType
    <2>6. C4!Settle(C4!Insert(field, team, j), t)
      BY <2>1, <2>2 DEF C4!InsertInput
    <2> QED
      BY <2>3, <2>5, <2>6
  <1>3. CASE C4!RotateInput
    BY <1>1, <1>3, RotateType DEF C4!RotateInput
  <1> QED
    BY <1>2, <1>3 DEF C4!HandleInput

LEMMA LineStep == LineInv /\ [C4!Next]_connect4Vars => LineInv'
  <1> SUFFICES ASSUME LineInv, [C4!Next]_connect4Vars PROVE LineInv'
    OBVIOUS
  <1>1. CASE C4!HandleInput
    <2>1. CASE \E f \in C4!Boards, t \in {0, 1, 2} : C4!Settle(f, t)
      <3>1. PICK f \in C4!Boards, t \in {0, 1, 2} : C4!Settle(f, t)
        BY <2>1
      <3> QED
        BY <3>1, SettleStep DEF LineInv
    <2>2. CASE \E j \in Columns : C4!InsertOffBoard(j)
      BY <2>2, PanicStep
    <2> QED
      BY <1>1, <2>1, <2>2, InputStep
  <1>2. ASSUME NEW p \in Hashes, C4!NewPlayer(p) PROVE LineInv'
    <2>1. seated' \in Seq(Hashes) /\ Len(seated') <= 2
      BY <1>2 DEF LineInv, C4!TypeOK, C4!NewPlayer
    <2> QED
      BY <1>2, <2>1 DEF LineInv, C4!TypeOK, C4!Settled, C4!LinesAreFound, C4!NewPlayer
  <1>3. CASE UNCHANGED connect4Vars
    BY <1>3 DEF connect4Vars, LineInv, C4!TypeOK, C4!Settled, C4!LinesAreFound
  <1> QED
    BY <1>1, <1>2, <1>3 DEF C4!Next

LEMMA LineInvariant == RulesSpec => []LineInv
  <1>1. RulesInit => LineInv
    BY LineInit DEF RulesInit
  <1>2. [RulesNext]_<<game, dotsVars, connect4Vars, boardVars, vars>> => [C4!Next]_connect4Vars
    BY DEF RulesNext
  <1> QED
    BY <1>1, <1>2, LineStep, PTL DEF RulesSpec

\* No piece is left above an empty cell, on a board of any size: one pass of Fall
\* is enough, after an insertion and after a rotation (Fall, Insert, Rotate).
THEOREM BoardIsSettled == RulesSpec => []Settled
  <1>1. LineInv => Settled
    BY DEF LineInv, Settled
  <1> QED
    BY <1>1, LineInvariant, PTL

\* The board is cleared, and a seated player credited, only for a line on it; and
\* if no column stands on a piece of a negative team, it is cleared whenever any
\* team has a line, and each seated player that has one is credited once: for
\* boards and lines of any size, any integers as teams and any columns, the scan,
\* which only walks right and up, makes no line up and misses none it can reach
\* (scanForConnect4, recordWinners, ConsumeWinners, Clear).
THEOREM ScanFindsLines == RulesSpec => []LinesAreFound
  <1>1. LineInv => LinesAreFound
    BY DEF LineInv, LinesAreFound
  <1> QED
    BY <1>1, LineInvariant, PTL

-----------------------------------------------------------------------------
\* The variables of the four games stay in their types (their state and
\* everything that changes it).
THEOREM TypesOfTheGames == RulesSpec => []RulesTypeOK
  <1> DEFINE Playing == game \in {"dots", "connect4", "pong", "whiteboard"}
  <1>1. RulesInit => BallInv /\ Playing
    BY BallInit DEF RulesInit
  <1>2. [RulesNext]_<<game, dotsVars, connect4Vars, boardVars, vars>>
           => [Next]_vars /\ (Playing => Playing')
    BY DEF RulesNext
  <1>3. BallInv /\ DotsInv /\ LineInv /\ BoardInv /\ Playing => RulesTypeOK
    <2> SUFFICES ASSUME BallInv, DotsInv, LineInv, BoardInv, Playing PROVE RulesTypeOK
      OBVIOUS
    <2>1. TypeOK /\ CD!TypeOK /\ C4!TypeOK /\ WB!TypeOK
      BY DEF BallInv, DotsInv, LineInv, BoardInv, BoardType
    <2>2. game \in {"pong", "dots", "connect4", "whiteboard"}
      OBVIOUS
    <2> HIDE DEF Playing
    <2> QED
      BY <2>1, <2>2 DEF RulesTypeOK
  <1> HIDE DEF Playing
  <1> QED
    BY <1>1, <1>2, <1>3, BallStep, DotsInvariant, LineInvariant, BoardInvariant, PTL
       DEF RulesSpec
=============================================================================
