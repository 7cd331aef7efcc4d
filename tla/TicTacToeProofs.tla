-------------------------- MODULE TicTacToeProofs ---------------------------
(* TicTacToe, for any players and any number of queued moves.              *)
EXTENDS TicTacToe, SequenceTheorems, FiniteSetTheorems, TLAPS

\* Only a player that has a seat has moves under way.
SeatedMove == \A p \in Hashes : p \in decoding \/ queued[p] > 0 => Seated(p)

IInv ==
    /\ TypeOK /\ SeatedMove
    /\ ~Scan(field)
    /\ MarksAlternate

USE MaxQueuedAssumption

LEMMA SeatsType ==
    ASSUME TypeOK
    PROVE  /\ Len(players) \in {0, 1, 2} /\ DOMAIN players = 1 .. Len(players)
           /\ \A i \in 1 .. Len(players) : players[i] \in Hashes
  <1>1. players \in Seq(Hashes) /\ Len(players) <= 2
    BY DEF TypeOK
  <1>2. Len(players) \in Nat /\ DOMAIN players = 1 .. Len(players)
    BY <1>1, LenProperties
  <1>3. \A i \in 1 .. Len(players) : players[i] \in Hashes
    BY <1>1, ElementOfSeq
  <1> QED
    BY <1>1, <1>2, <1>3

\* The team of a player that has a seat is its seat.
LEMMA TeamType ==
    ASSUME TypeOK, NEW p \in Hashes, Seated(p)
    PROVE  Team(p) \in {X, O} /\ Team(p) \in 1 .. Len(players) /\ players[Team(p)] = p
  <1>1. PICK i \in DOMAIN players : players[i] = p
    BY DEF Seated
  <1>2. Team(p) \in DOMAIN players /\ players[Team(p)] = p
    BY <1>1 DEF Team
  <1> QED
    BY <1>2, SeatsType DEF X, O

\* An empty field holds no line, as no line is empty.
LEMMA EmptyScan == ~Scan(EmptyField)
  <1>1. \A line \in Lines : \E c \in line : c \in Cells
    <2>1. 0 \in Index /\ 2 - 0 \in Index
      BY DEF Index
    <2>2. \A i \in Index : <<i, 0>> \in Cells /\ <<0, i>> \in Cells
      BY <2>1 DEF Cells
    <2>3. <<0, 0>> \in Cells /\ <<0, 2 - 0>> \in Cells
      BY <2>1 DEF Cells
    <2>4. \A i \in Index : /\ <<i, 0>> \in {<<i, j>> : j \in Index}
                            /\ <<0, i>> \in {<<j, i>> : j \in Index}
      BY <2>1
    <2>5. /\ <<0, 0>> \in {<<i, i>> : i \in Index}
          /\ <<0, 2 - 0>> \in {<<i, 2 - i>> : i \in Index}
      BY <2>1
    <2> TAKE line \in Lines
    <2>6. \/ \E i \in Index : line = {<<i, j>> : j \in Index}
          \/ \E j \in Index : line = {<<i, j>> : i \in Index}
          \/ line = {<<i, i>> : i \in Index}
          \/ line = {<<i, 2 - i>> : i \in Index}
      BY DEF Lines
    <2> QED
      BY <2>2, <2>3, <2>4, <2>5, <2>6
  <1> QED
    BY <1>1 DEF Scan, EmptyField, X, O

LEMMA EmptyAlternates == field = EmptyField /\ turn = X => MarksAlternate
  <1> SUFFICES ASSUME field = EmptyField, turn = X PROVE MarksAlternate
    OBVIOUS
  <1>1. Marks(X) = {} /\ Marks(O) = {}
    BY DEF Marks, EmptyField, X, O
  <1>2. Cardinality({}) = 0
    BY FS_EmptySet
  <1> QED
    BY <1>1, <1>2 DEF MarksAlternate

LEMMA MarksFinite ==
    ASSUME NEW team
    PROVE  IsFiniteSet(Marks(team)) /\ Cardinality(Marks(team)) \in Nat
  <1>3. IsFiniteSet(Index)
    <2>1. 0 \in Int /\ 2 \in Int
      OBVIOUS
    <2> QED
      BY <2>1, FS_Interval, Zenon DEF Index
  <1>4. IsFiniteSet(Cells)
    BY <1>3, FS_Product DEF Cells
  <1>5. Marks(team) \subseteq Cells
    BY DEF Marks
  <1> QED
    BY <1>4, <1>5, FS_Subset, FS_CardinalityType

LEMMA InitInv == Init => IInv
  <1> SUFFICES ASSUME Init PROVE IInv
    OBVIOUS
  <1>1. TypeOK
    <2>1. /\ players \in Seq(Hashes) /\ pendingWinners \in Seq(Hashes)
          /\ returned \in Seq(Hashes) /\ won \in Seq(Hashes) /\ Len(players) = 0
      BY EmptySeq DEF Init
    <2>2. field \in [Cells -> {0, X, O}]
      BY DEF Init, EmptyField
    <2>3. ui \in [Hashes -> Int \X Int]
      BY DEF Init
    <2>4. /\ turn \in {X, O} /\ scores \in Nat \X Nat
          /\ queued \in [Hashes -> 0 .. MaxQueued]
      BY DEF Init
    <2>5. decoding \in SUBSET Hashes /\ panicked \in BOOLEAN
      BY DEF Init
    <2> QED
      BY <2>1, <2>2, <2>3, <2>4, <2>5 DEF TypeOK
  <1>2. SeatedMove
    BY DEF Init, SeatedMove
  <1>3. MarksAlternate
    BY EmptyAlternates DEF Init
  <1> QED
    BY <1>1, <1>2, <1>3, EmptyScan DEF Init, IInv

LEMMA NewPlayerStep ==
    ASSUME IInv, NEW p \in Hashes, NewPlayer(p)
    PROVE  IInv'
  <1>1. TypeOK /\ UNCHANGED <<gameVars, ui, decoding, queued>>
    BY DEF NewPlayer, IInv
  <1>2. /\ players' \in Seq(Hashes) /\ Len(players') = Len(players) + 1
        /\ Len(players') <= 2 /\ Len(players') \in Nat
        /\ \A i \in 1 .. Len(players) : players'[i] = players[i]
    BY <1>1, SeatsType, AppendProperties DEF NewPlayer, TypeOK
  <1>3. DOMAIN players' = 1 .. Len(players')
    BY <1>2, LenProperties
  <1>4. TypeOK'
    BY <1>1, <1>2 DEF TypeOK, gameVars
  <1>5. SeatedMove'
    <2> SUFFICES ASSUME NEW q \in Hashes, q \in decoding \/ queued[q] > 0
                 PROVE  Seated(q)'
      BY <1>1 DEF SeatedMove
    <2>1. PICK i \in 1 .. Len(players) : players[i] = q
      BY <1>1, SeatsType DEF IInv, SeatedMove, Seated
    <2> QED
      BY <1>1, <1>2, <1>3, <2>1, SeatsType DEF Seated
  <1> QED
    BY <1>1, <1>4, <1>5 DEF IInv, gameVars, MarksAlternate, Marks

LEMMA DecodeStep ==
    ASSUME IInv, NEW p \in Hashes, NEW i \in Coordinates,
           DecodeX(p, i) \/ DecodeYAndPush(p, i)
    PROVE  IInv'
  <1>1. TypeOK /\ SeatedMove /\ Seated(p) /\ UNCHANGED <<gameVars, players>>
    BY DEF DecodeX, DecodeYAndPush, IInv, SeatedMove
  <1>2. /\ decoding' \subseteq Hashes
        /\ decoding' \subseteq decoding \cup {p}
        /\ queued' \in [Hashes -> 0 .. MaxQueued]
        /\ \A q \in Hashes \ {p} : queued'[q] = queued[q]
    <2>1. CASE DecodeX(p, i)
      BY <1>1, <2>1 DEF DecodeX, TypeOK
    <2>2. CASE DecodeYAndPush(p, i)
      <3>1. queued[p] + 1 \in 0 .. MaxQueued
        BY <1>1, <2>2 DEF DecodeYAndPush, TypeOK
      <3>2. queued' = [queued EXCEPT ![p] = queued[p] + 1] /\ decoding' = decoding \ {p}
        BY <2>2 DEF DecodeYAndPush
      <3> QED
        BY <1>1, <3>1, <3>2 DEF TypeOK
    <2> QED
      BY <2>1, <2>2
  <1>3. ui' \in [Hashes -> Int \X Int]
    <2>1. ui[p] \in Int \X Int /\ i \in Int
      BY <1>1, CoordinatesAssumption DEF TypeOK
    <2>2. [ui[p] EXCEPT ![1] = i] \in Int \X Int
          /\ [ui[p] EXCEPT ![2] = i] \in Int \X Int
      BY <2>1
    <2> QED
      BY <1>1, <2>2 DEF DecodeX, DecodeYAndPush, TypeOK
  <1>4. TypeOK'
    BY <1>1, <1>2, <1>3 DEF TypeOK, gameVars
  <1>5. SeatedMove'
    BY <1>1, <1>2 DEF SeatedMove, Seated
  <1> QED
    BY <1>1, <1>4, <1>5 DEF IInv, gameVars, MarksAlternate, Marks

LEMMA MoveOnStep ==
    ASSUME IInv, NEW cell \in Cells, NEW team \in {X, O}, Legal(cell, team),
           MoveOn(cell, team)
    PROVE  /\ field' \in [Cells -> {0, X, O}] /\ turn' \in {X, O} /\ ~Scan(field')
           /\ MarksAlternate'
           /\ UNCHANGED <<scores, pendingWinners, panicked, returned, won>>
  <1>1. field' = [field EXCEPT ![cell] = team] /\ turn' = NextTurn
    BY DEF MoveOn
  <1>2. NextTurn \in {X, O}
    BY DEF IInv, TypeOK, NextTurn, X, O
  <1>3. field \in [Cells -> {0, X, O}] /\ turn = team /\ field[cell] = 0
    BY DEF Legal, IInv, TypeOK
  <1>4. /\ \A other \in {X, O} : other # team => Marks(other)' = Marks(other)
        /\ Marks(team)' = Marks(team) \cup {cell} /\ cell \notin Marks(team)
    BY <1>1, <1>3 DEF Marks, X, O
  <1>5. Cardinality(Marks(team)') = Cardinality(Marks(team)) + 1
    BY <1>4, MarksFinite, FS_AddElement
  <1>6. Cardinality(Marks(X)) \in Nat /\ Cardinality(Marks(O)) \in Nat
    BY MarksFinite
  <1>7. MarksAlternate'
    <2>1. CASE team = X
      <3>1. turn' = O /\ X # O
        BY <1>1, <1>3, <2>1 DEF NextTurn, X, O
      <3>2. Cardinality(Marks(X)) = Cardinality(Marks(O))
        BY <1>3, <1>6, <2>1 DEF IInv, MarksAlternate
      <3> QED
        BY <1>4, <1>5, <2>1, <3>1, <3>2 DEF MarksAlternate
    <2>2. CASE team = O
      <3>1. turn' = X /\ X # O
        BY <1>1, <1>3, <2>2 DEF NextTurn, X, O
      <3>2. Cardinality(Marks(X)) = Cardinality(Marks(O)) + 1
        BY <1>3, <1>6, <2>2, <3>1 DEF IInv, MarksAlternate
      <3>3. Cardinality(Marks(X)') = Cardinality(Marks(X))
        BY <1>4, <2>2, <3>1
      <3>4. Cardinality(Marks(X)') = Cardinality(Marks(O)')
        BY <1>5, <2>2, <3>2, <3>3
      <3>5. Cardinality(Marks(O)') + 0 = Cardinality(Marks(O)')
        BY <1>5, <1>6, <2>2
      <3> QED
        BY <3>1, <3>4, <3>5 DEF MarksAlternate
    <2> QED
      BY <2>1, <2>2
  <1> QED
    BY <1>1, <1>2, <1>7 DEF MoveOn, IInv, TypeOK

LEMMA WinStep ==
    ASSUME IInv, NEW cell \in Cells, NEW team \in {X, O}, team <= Len(players),
           Win(cell, team)
    PROVE  /\ field' \in [Cells -> {0, X, O}] /\ turn' \in {X, O} /\ ~Scan(field')
           /\ MarksAlternate' /\ scores' \in Nat \X Nat
           /\ pendingWinners' \in Seq(Hashes) /\ panicked' \in BOOLEAN
           /\ returned' \in Seq(Hashes) /\ won' \in Seq(Hashes)
  <1>1. TypeOK
    BY DEF IInv
  <1>2. Winner(team) \in Hashes
    <2>1. team \in 1 .. Len(players)
      BY <1>1, SeatsType DEF X, O
    <2> QED
      BY <1>1, <2>1, SeatsType DEF Winner
  <1>3. /\ field' \in [Cells -> {0, X, O}] /\ turn' \in {X, O} /\ ~Scan(field')
        /\ MarksAlternate'
    <2>1. field' = EmptyField /\ turn' = X
      BY DEF Win
    <2>2. EmptyField \in [Cells -> {0, X, O}] /\ X \in {X, O}
      BY DEF EmptyField
    <2>3. Marks(X)' = {} /\ Marks(O)' = {}
      BY <2>1 DEF Marks, EmptyField, X, O
    <2>4. MarksAlternate'
      BY <2>1, <2>3, FS_EmptySet DEF MarksAlternate
    <2> QED
      BY <2>1, <2>2, <2>4, EmptyScan
  <1>4. won' \in Seq(Hashes)
    BY <1>1, <1>2, AppendProperties DEF Win, TypeOK
  <1>5. CASE team = X
    <2>1. /\ scores' = [scores EXCEPT ![2] = @ + 1]
          /\ returned' = Append(returned, Winner(team))
          /\ UNCHANGED <<pendingWinners, panicked>>
      BY <1>5 DEF Win, X
    <2>2. returned' \in Seq(Hashes) /\ scores' \in Nat \X Nat
      BY <1>1, <1>2, <2>1, AppendProperties DEF TypeOK
    <2> QED
      BY <1>1, <1>3, <1>4, <2>1, <2>2 DEF TypeOK
  <1>6. CASE team # X
    <2>1. /\ pendingWinners' = Append(pendingWinners, Winner(team)) /\ panicked' = TRUE
          /\ UNCHANGED <<scores, returned>>
      BY <1>6 DEF Win
    <2>2. pendingWinners' \in Seq(Hashes)
      BY <1>1, <1>2, <2>1, AppendProperties DEF TypeOK
    <2> QED
      BY <1>1, <1>3, <1>4, <2>1, <2>2 DEF TypeOK
  <1> QED
    BY <1>5, <1>6

LEMMA HandleStep ==
    ASSUME IInv, NEW p \in Hashes, HandleInput(p)
    PROVE  IInv'
  <1>1. PICK cell : cell = ui[p]
    OBVIOUS
  <1>2. PICK team : team = Team(p)
    OBVIOUS
  <1>3. TypeOK /\ Seated(p)
    BY <1>1 DEF HandleInput, IInv, SeatedMove, TypeOK
  <1>4. team \in {X, O} /\ team <= Len(players)
    BY <1>2, <1>3, TeamType, SeatsType
  <1>5. /\ queued' = [queued EXCEPT ![p] = @ - 1] /\ queued[p] > 0
        /\ UNCHANGED <<players, ui, decoding>>
        /\ \/ cell \in Cells /\ Legal(cell, team) /\ MoveOn(cell, team)
           \/ cell \in Cells /\ Legal(cell, team) /\ Win(cell, team)
           \/ Panic
           \/ UNCHANGED gameVars
    BY <1>1, <1>2 DEF HandleInput
  <1>6. queued' \in [Hashes -> 0 .. MaxQueued]
        /\ \A q \in Hashes : queued'[q] > 0 => queued[q] > 0
    <2>1. queued \in [Hashes -> 0 .. MaxQueued] /\ MaxQueued \in Nat
      BY <1>3, MaxQueuedAssumption DEF TypeOK
    <2>2. queued' = [queued EXCEPT ![p] = @ - 1] /\ queued[p] > 0
      BY <1>5
    <2> QED
      BY <2>1, <2>2
  <1>7. SeatedMove'
    BY <1>5, <1>6 DEF IInv, SeatedMove, Seated
  <1>8. CASE cell \in Cells /\ Legal(cell, team) /\ MoveOn(cell, team)
    <2>1. /\ field' \in [Cells -> {0, X, O}] /\ turn' \in {X, O} /\ ~Scan(field')
          /\ MarksAlternate'
          /\ UNCHANGED <<scores, pendingWinners, panicked, returned, won>>
      BY <1>3, <1>4, <1>8, MoveOnStep
    <2>2. TypeOK'
      BY <1>3, <1>5, <1>6, <2>1 DEF TypeOK
    <2> QED
      BY <1>5, <1>7, <2>1, <2>2 DEF IInv
  <1>9. CASE cell \in Cells /\ Legal(cell, team) /\ Win(cell, team)
    <2>1. /\ field' \in [Cells -> {0, X, O}] /\ turn' \in {X, O} /\ ~Scan(field')
          /\ MarksAlternate' /\ scores' \in Nat \X Nat
          /\ pendingWinners' \in Seq(Hashes) /\ panicked' \in BOOLEAN
          /\ returned' \in Seq(Hashes) /\ won' \in Seq(Hashes)
      BY <1>3, <1>4, <1>9, WinStep
    <2>2. TypeOK'
      BY <1>3, <1>5, <1>6, <2>1 DEF TypeOK
    <2> QED
      BY <1>5, <1>7, <2>1, <2>2 DEF IInv
  <1>10. CASE Panic \/ UNCHANGED gameVars
    <2>1. /\ UNCHANGED <<field, turn, scores, pendingWinners, returned, won>>
          /\ panicked' \in BOOLEAN
      BY <1>3, <1>10 DEF Panic, gameVars, TypeOK
    <2>2. TypeOK'
      BY <1>3, <1>5, <1>6, <2>1 DEF TypeOK
    <2> QED
      BY <1>7, <2>1, <2>2 DEF IInv, MarksAlternate, Marks
  <1> QED
    BY <1>5, <1>8, <1>9, <1>10

LEMMA StepInv == IInv /\ [Next]_vars => IInv'
  <1> SUFFICES ASSUME IInv, [Next]_vars PROVE IInv'
    OBVIOUS
  <1>1. CASE UNCHANGED vars
    BY <1>1 DEF vars, gameVars, IInv, TypeOK, SeatedMove, Seated, MarksAlternate, Marks
  <1> QED
    BY <1>1, NewPlayerStep, DecodeStep, HandleStep DEF Next

LEMMA Invariance == Spec => []IInv
  BY InitInv, StepInv, PTL DEF Spec

\* Every variable stays in its type, for any players and queues (all of the
\* modelled code).
THEOREM TicTacToeTypeCorrect == Spec => []TypeOK
  <1>1. IInv => TypeOK
    BY DEF IInv
  <1> QED
    BY <1>1, Invariance, PTL

\* X and O take turns in every round, however many pointers to a moveInput wait
\* and whatever overwrites it meanwhile (move, reset, the handler's ReadJSON).
THEOREM TurnsAreTaken == Spec => []MarksAlternate
  <1>1. IInv => MarksAlternate
    BY DEF IInv
  <1> QED
    BY <1>1, Invariance, PTL

\* The marks in the three cells of a direction would be in possibleTicTacToes.
LEMMA LinesAreStraight ==
    ASSUME NEW c \in Cells, NEW d \in Directions,
           <<c[1] - d[1], c[2] - d[2]>> \in Cells,
           <<c[1] + d[1], c[2] + d[2]>> \in Cells
    PROVE  {<<c[1] - d[1], c[2] - d[2]>>, c, <<c[1] + d[1], c[2] + d[2]>>} \in Lines
  <1>1. PICK i \in Index, j \in Index : c = <<i, j>>
    BY DEF Cells
  <1>2. Index = {0, 1, 2}
    BY DEF Index
  <1>3. CASE d = <<0, 1>>
    <2>1. j = 1
      BY <1>1, <1>2, <1>3 DEF Cells
    <2>2. {<<i, k>> : k \in Index} = {<<i, 0>>, <<i, 1>>, <<i, 2>>}
      BY <1>2
    <2> QED
      BY <1>1, <1>2, <1>3, <2>1, <2>2 DEF Lines
  <1>4. CASE d = <<1, 0>>
    <2>1. i = 1
      BY <1>1, <1>2, <1>4 DEF Cells
    <2>2. {<<k, j>> : k \in Index} = {<<0, j>>, <<1, j>>, <<2, j>>}
      BY <1>2
    <2> QED
      BY <1>1, <1>2, <1>4, <2>1, <2>2 DEF Lines
  <1>5. CASE d = <<1, 1>>
    <2>1. i = 1 /\ j = 1
      BY <1>1, <1>2, <1>5 DEF Cells
    <2>2. {<<k, k>> : k \in Index} = {<<0, 0>>, <<1, 1>>, <<2, 2>>}
      BY <1>2
    <2> QED
      BY <1>1, <1>2, <1>5, <2>1, <2>2 DEF Lines
  <1>6. CASE d = <<1, -1>>
    <2>1. i = 1 /\ j = 1
      BY <1>1, <1>2, <1>6 DEF Cells
    <2>2. {<<k, 2 - k>> : k \in Index} = {<<0, 2>>, <<1, 1>>, <<2, 0>>}
      BY <1>2
    <2> QED
      BY <1>1, <1>2, <1>6, <2>1, <2>2 DEF Lines
  <1> QED
    BY <1>3, <1>4, <1>5, <1>6 DEF Directions

\* The table of lines misses none: no three marks in a row are left standing (move).
THEOREM NoLineStands == Spec => []NoStandingLine
  <1>1. IInv => NoStandingLine
    <2> SUFFICES ASSUME IInv, NEW team \in {X, O}, NEW c \in Marks(team),
                        NEW d \in Directions,
                        <<c[1] - d[1], c[2] - d[2]>> \in Marks(team),
                        <<c[1] + d[1], c[2] + d[2]>> \in Marks(team)
                 PROVE  FALSE
      BY DEF NoStandingLine
    <2>1. {<<c[1] - d[1], c[2] - d[2]>>, c, <<c[1] + d[1], c[2] + d[2]>>} \in Lines
      BY LinesAreStraight DEF Marks
    <2> QED
      BY <2>1 DEF IInv, Scan, Marks
  <1> QED
    BY <1>1, Invariance, PTL
=============================================================================
