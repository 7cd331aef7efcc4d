------------------------- MODULE PongRegistryProofs -------------------------
(* PongRegistry, for any games and any finite number of streams.           *)
EXTENDS PongRegistry, FiniteSetTheorems, TLAPS

IInv == TypeOK /\ PlayersCounted /\ OneFirstPlayer

\* What the invariant says of the streams at game g.
Counted(g) ==
    /\ players[g] = Cardinality(PlayersOf(g))
    /\ \A s, t \in PlayersOf(g) :
          playerIndex[s] = 0 /\ playerIndex[t] = 0 => s = t

LEMMA PerGame == PlayersCounted /\ OneFirstPlayer <=> \A g \in Games : Counted(g)
  BY DEF PlayersCounted, OneFirstPlayer, Counted

LEMMA PlayersFinite == \A g \in Games : IsFiniteSet(PlayersOf(g))
  <1>1. \A g \in Games : PlayersOf(g) \subseteq Streams
    BY DEF PlayersOf
  <1> QED
    BY <1>1, StreamsAssumption, FS_Subset

LEMMA InitInv == Init => IInv
  <1> SUFFICES ASSUME Init PROVE IInv
    OBVIOUS
  <1>1. TypeOK
    <2>1. (CHOOSE g \in Games : TRUE) \in Games
      BY GamesAssumption
    <2> QED
      BY <2>1 DEF Init, TypeOK, PCs, Directions
  <1>2. \A g \in Games : PlayersOf(g) = {}
    BY DEF Init, PlayersOf
  <1>3. \A g \in Games : Counted(g)
    BY <1>2, FS_EmptySet DEF Init, Counted
  <1> QED
    BY <1>1, <1>3, PerGame DEF IInv

\* A step that starts and ends nobody's playing leaves the count alone.
LEMMA SamePlayers ==
    ASSUME IInv, TypeOK', UNCHANGED <<players, playerIndex>>,
           \A s \in Streams : /\ pc'[s] = "playing" <=> pc[s] = "playing"
                              /\ pc[s] = "playing" => gameOf'[s] = gameOf[s]
    PROVE  IInv'
  <1>1. \A g \in Games : PlayersOf(g)' = PlayersOf(g)
    BY DEF PlayersOf
  <1> QED
    BY <1>1 DEF IInv, PlayersCounted, OneFirstPlayer

\* A claim of a slot: the count is right, so index 0 goes to a game without streams.
LEMMA TryAddPlayerStep ==
    ASSUME IInv, NEW s \in Streams, TryAddPlayer(s)
    PROVE  IInv'
  <1>0. PICK g \in Games : g = gameOf[s]
    BY DEF IInv, TypeOK
  <1>1. TypeOK /\ Counted(g) /\ IsFiniteSet(PlayersOf(g))
    BY PerGame, PlayersFinite DEF IInv
  <1>2. CASE HasRoom(g)
    <2>1. /\ pc[s] = "found"
          /\ pc' = [pc EXCEPT ![s] = "playing"]
          /\ playerIndex' = [playerIndex EXCEPT ![s] = players[g]]
          /\ players' = [players EXCEPT ![g] = players[g] + 1]
          /\ reading' = reading \cup {s}
          /\ UNCHANGED <<created, registered, stopClosed, running, gameOf, dirs>>
      BY <1>0, <1>2 DEF TryAddPlayer, SlotFor
    <2>2. players[g] \in {0, 1}
      BY <1>0, <1>1, <1>2 DEF HasRoom, TypeOK
    <2>3. TypeOK'
      BY <1>0, <1>1, <2>1, <2>2 DEF TypeOK, PCs
    <2>4. PlayersOf(g)' = PlayersOf(g) \cup {s} /\ s \notin PlayersOf(g)
      BY <1>0, <1>1, <2>1 DEF PlayersOf, TypeOK
    <2>5. \A h \in Games \ {g} : PlayersOf(h)' = PlayersOf(h) /\ s \notin PlayersOf(h)
      BY <1>0, <1>1, <2>1 DEF PlayersOf, TypeOK
    <2>6. Counted(g)'
      <3>1. players'[g] = Cardinality(PlayersOf(g)')
        <4>1. Cardinality(PlayersOf(g) \cup {s}) = Cardinality(PlayersOf(g)) + 1
          BY <1>0, <1>1, <2>4, FS_AddElement
        <4>2. players'[g] = players[g] + 1
          BY <1>0, <1>1, <2>1 DEF TypeOK
        <4> QED
          BY <1>0, <1>1, <2>4, <4>1, <4>2 DEF Counted
      <3>2. players[g] = 0 => PlayersOf(g) = {}
        BY <1>0, <1>1, FS_EmptySet DEF Counted
      <3> QED
        <4>1. \A t \in PlayersOf(g) : t # s /\ playerIndex'[t] = playerIndex[t]
          BY <1>0, <1>1, <2>1 DEF PlayersOf, TypeOK
        <4>2. playerIndex'[s] = players[g]
          BY <1>0, <1>1, <2>1 DEF TypeOK
        <4>3. PlayersOf(g) # {} => playerIndex'[s] # 0
          BY <3>2, <4>2
        <4>4. \A t, u \in PlayersOf(g)' :
                 playerIndex'[t] = 0 /\ playerIndex'[u] = 0 => t = u
          BY <1>0, <1>1, <2>4, <4>1, <4>3 DEF Counted
        <4> QED
          BY <3>1, <4>4 DEF Counted
    <2>7. \A h \in Games \ {g} : Counted(h)'
      <3> SUFFICES ASSUME NEW h \in Games \ {g} PROVE Counted(h)'
        OBVIOUS
      <3>1. Counted(h) /\ players'[h] = players[h]
        BY <1>0, <1>1, <2>1, PerGame DEF IInv, TypeOK
      <3>2. \A t \in PlayersOf(h) : playerIndex'[t] = playerIndex[t]
        BY <1>0, <1>1, <2>1, <2>5 DEF PlayersOf, TypeOK
      <3> QED
        BY <2>5, <3>1, <3>2 DEF Counted
    <2> QED
      <3>1. \A h \in Games : Counted(h)'
        BY <2>6, <2>7
      <3> QED
        BY <2>3, <3>1 DEF IInv, PlayersCounted, OneFirstPlayer, Counted
  <1>3. CASE ~HasRoom(g)
    <2>1. /\ pc[s] = "found" /\ pc' = [pc EXCEPT ![s] = "done"]
          /\ UNCHANGED <<gameVars, playerIndex, reading, gameOf, dirs>>
      BY <1>0, <1>3 DEF TryAddPlayer, gameVars
    <2>2. TypeOK'
      BY <1>0, <1>1, <2>1 DEF TypeOK, PCs, gameVars
    <2> QED
      BY <1>0, <1>1, <2>1, <2>2, SamePlayers DEF gameVars, TypeOK
  <1> QED
    BY <1>2, <1>3

LEMMA RemovePlayerStep ==
    ASSUME IInv, NEW s \in Streams, RemovePlayer(s)
    PROVE  IInv'
  <1>0. PICK g \in Games : g = gameOf[s]
    BY DEF IInv, TypeOK
  <1>1. TypeOK /\ Counted(g) /\ IsFiniteSet(PlayersOf(g))
    BY PerGame, PlayersFinite DEF IInv
  <1>2. /\ pc[s] = "playing"
        /\ players' = [players EXCEPT ![g] = players[g] - 1]
        /\ pc'[s] \in {"done", "left"}
        /\ pc' = [pc EXCEPT ![s] = pc'[s]]
        /\ UNCHANGED <<created, registered, stopClosed, running, gameOf,
                       playerIndex, reading, dirs>>
    BY <1>0, <1>1 DEF RemovePlayer, CountAfterLeave, TypeOK
  <1>3. PlayersOf(g)' = PlayersOf(g) \ {s} /\ s \in PlayersOf(g)
    BY <1>0, <1>1, <1>2 DEF PlayersOf, TypeOK
  <1>4. \A h \in Games \ {g} : PlayersOf(h)' = PlayersOf(h)
    BY <1>0, <1>1, <1>2 DEF PlayersOf, TypeOK
  <1>5. /\ Cardinality(PlayersOf(g) \ {s}) = players[g] - 1
        /\ players[g] - 1 >= 0
    <2>1. Cardinality(PlayersOf(g) \ {s}) = Cardinality(PlayersOf(g)) - 1
      BY <1>0, <1>1, <1>3, FS_RemoveElement
    <2>2. IsFiniteSet(PlayersOf(g) \ {s})
      BY <1>0, <1>1, FS_Subset, PlayersOf(g) \ {s} \subseteq PlayersOf(g)
    <2>3. Cardinality(PlayersOf(g) \ {s}) \in Nat
      BY <2>2, FS_CardinalityType
    <2> QED
      BY <1>0, <1>1, <2>1, <2>3 DEF Counted
  <1>6. TypeOK'
    <2>1. players[g] - 1 \in 0 .. 2
      BY <1>1, <1>5 DEF TypeOK
    <2>2. players' \in [Games -> 0 .. 2]
      BY <1>1, <1>2, <2>1 DEF TypeOK
    <2>3. pc' \in [Streams -> PCs]
      BY <1>1, <1>2 DEF TypeOK, PCs
    <2> QED
      BY <1>1, <1>2, <2>2, <2>3 DEF TypeOK
  <1>7. \A h \in Games : Counted(h)'
    <2>1. Counted(g)'
      BY <1>0, <1>1, <1>2, <1>3, <1>5 DEF Counted, TypeOK
    <2>2. \A h \in Games \ {g} : Counted(h)'
      BY <1>0, <1>1, <1>2, <1>4, PerGame DEF IInv, Counted, TypeOK
    <2> QED
      BY <2>1, <2>2
  <1> QED
    BY <1>6, <1>7 DEF IInv, PlayersCounted, OneFirstPlayer, Counted

\* The other actions start and end nobody's playing.
LEMMA StepInv == IInv /\ [Next]_vars => IInv'
  <1> SUFFICES ASSUME IInv, [Next]_vars PROVE IInv'
    OBVIOUS
  <1>1. TypeOK
    BY DEF IInv
  <1>2. ASSUME NEW g \in Games, Create(g) \/ RunReturns(g) PROVE IInv'
    <2>1. TypeOK' /\ UNCHANGED <<players, playerIndex, pc, gameOf>>
      BY <1>1, <1>2 DEF TypeOK, Create, RunReturns, streamVars
    <2> QED
      BY <2>1, SamePlayers
  <1>3. ASSUME NEW s \in Streams, NEW g \in Games, Lookup(s, g) PROVE IInv'
    <2>1. TypeOK' /\ UNCHANGED <<players, playerIndex>>
      BY <1>1, <1>3 DEF TypeOK, Lookup, gameVars, PCs
    <2>2. /\ pc[s] = "idle" /\ pc'[s] # "playing"
          /\ \A t \in Streams \ {s} : pc'[t] = pc[t] /\ gameOf'[t] = gameOf[t]
      BY <1>1, <1>3 DEF TypeOK, Lookup
    <2> QED
      BY <2>1, <2>2, SamePlayers
  <1>4. ASSUME NEW s \in Streams, Leave(s) PROVE IInv'
    <2>1. /\ UNCHANGED <<created, players, running, gameOf, playerIndex, reading, dirs>>
          /\ pc[s] \in {"left", "closed"}
          /\ pc' = [pc EXCEPT ![s] = pc'[s]] /\ pc'[s] \in {"done", "closed"}
          /\ registered' \subseteq registered
          /\ stopClosed' \subseteq stopClosed \cup {gameOf[s]}
      BY <1>1, <1>4 DEF TypeOK, Leave, CloseStop, Delete
    <2>2. TypeOK'
      BY <1>1, <2>1 DEF TypeOK, PCs
    <2>3. \A t \in Streams : pc'[t] = "playing" <=> pc[t] = "playing"
      BY <1>1, <2>1 DEF TypeOK
    <2> QED
      BY <2>1, <2>2, <2>3, SamePlayers
  <1>5. ASSUME NEW s \in Streams, StopsReading(s) PROVE IInv'
    <2>1. TypeOK' /\ UNCHANGED <<players, playerIndex, pc, gameOf>>
      BY <1>1, <1>5 DEF TypeOK, StopsReading, gameVars
    <2> QED
      BY <2>1, SamePlayers
  <1>6. ASSUME NEW s \in Streams, NEW d \in Directions, SetDirection(s, d) PROVE IInv'
    <2>1. UNCHANGED <<gameVars, streamVars>> /\ dirs' \in [Games -> Directions \X Directions]
      <3>1. gameOf[s] \in Games /\ playerIndex[s] + 1 \in {1, 2}
        BY <1>1 DEF TypeOK
      <3>2. dirs[gameOf[s]] \in Directions \X Directions
        BY <1>1, <3>1 DEF TypeOK
      <3>3. [dirs[gameOf[s]] EXCEPT ![playerIndex[s] + 1] = d] \in Directions \X Directions
        BY <3>1, <3>2
      <3> QED
        BY <1>1, <1>6, <3>3 DEF TypeOK, SetDirection
    <2>2. TypeOK'
      BY <1>1, <2>1 DEF TypeOK, gameVars, streamVars
    <2> QED
      BY <2>1, <2>2, SamePlayers DEF gameVars, streamVars
  <1>7. CASE UNCHANGED vars
    <2>1. TypeOK'
      BY <1>1, <1>7 DEF TypeOK, vars, gameVars, streamVars
    <2> QED
      BY <1>7, <2>1, SamePlayers DEF vars, gameVars, streamVars
  <1> QED
    BY <1>2, <1>3, <1>4, <1>5, <1>6, <1>7, TryAddPlayerStep, RemovePlayerStep DEF Next

LEMMA Invariance == Spec => []IInv
  BY InitInv, StepInv, PTL DEF Spec

\* Every variable stays in its type, and the count between 0 and 2, for any games
\* and streams (tryAddPlayer, removePlayer).
THEOREM PongTypeCorrect == Spec => []TypeOK
  <1>1. IInv => TypeOK
    BY DEF IInv
  <1> QED
    BY <1>1, Invariance, PTL

\* g.players is the number of streams that play the game, for any number of
\* streams that join and leave at once (tryAddPlayer, removePlayer).
THEOREM StreamsAreCounted == Spec => []PlayersCounted
  <1>1. IInv => PlayersCounted
    BY DEF IInv
  <1> QED
    BY <1>1, Invariance, PTL

\* No two streams of a game have index 0 (tryAddPlayer).
THEOREM FirstPlayerIsOne == Spec => []OneFirstPlayer
  <1>1. IInv => OneFirstPlayer
    BY DEF IInv
  <1> QED
    BY <1>1, Invariance, PTL
=============================================================================
