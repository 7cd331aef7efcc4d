---------------------------- MODULE PongRegistry ----------------------------
(***************************************************************************)
(* pong's games and the streams that play them: reg.games under reg.mu, a  *)
(* count of players under each game's mu, and the physics loop that runs   *)
(* until the game's stop channel is closed.  Join and Leave take the two   *)
(* mutexes one after the other, never together.  PongBall models the       *)
(* physics.                                                                *)
(***************************************************************************)
EXTENDS Integers, FiniteSets

CONSTANTS Games,   \* game ids; Create never gives one out twice
          Streams  \* gRPC streams and websockets, one Play each

ASSUME GamesAssumption == Games # {}
ASSUME StreamsAssumption == IsFiniteSet(Streams)

VARIABLES
    created,     \* the games created so far
    registered,  \* the keys of reg.games
    players,     \* players[g]: g.players
    stopClosed,  \* the games whose stop channel is closed
    running,     \* the games whose run goroutine has not returned
    pc,          \* pc[s]: where the handler of stream s is
    gameOf, playerIndex, \* what Join gave it
    reading,     \* the streams whose input goroutine still runs
    dirs         \* dirs[g]: <<dir1, dir2>>

gameVars == <<created, registered, players, stopClosed, running>>
streamVars == <<pc, gameOf, playerIndex, reading>>
vars == <<gameVars, streamVars, dirs>>

Directions == {"stop", "up", "down"}

\* "found": Join has looked the game up; "left": Leave has decremented players;
\* "closed": it has closed stop.  A close of a closed channel panics, and
\* net/http recovers the panic: the handler is over ("done") either way.
PCs == {"idle", "found", "playing", "left", "closed", "done"}

Init ==
    /\ created = {} /\ registered = {} /\ stopClosed = {} /\ running = {}
    /\ players = [g \in Games |-> 0]
    /\ pc = [s \in Streams |-> "idle"]
    /\ gameOf = [s \in Streams |-> CHOOSE g \in Games : TRUE]
    /\ playerIndex = [s \in Streams |-> 0]
    /\ reading = {}
    /\ dirs = [g \in Games |-> <<"stop", "stop">>]

\* Create, and newGame with its go g.run().
Create(g) ==
    /\ g \notin created
    /\ created' = created \cup {g}
    /\ registered' = registered \cup {g}
    /\ running' = running \cup {g}
    /\ UNCHANGED <<players, stopClosed, streamVars, dirs>>

\* The lookup of Join; with an empty id the client's Create comes first.
Lookup(s, g) ==
    /\ pc[s] = "idle" /\ g \in created
    /\ gameOf' = [gameOf EXCEPT ![s] = g]
    /\ pc' = [pc EXCEPT ![s] = IF g \in registered THEN "found" ELSE "done"]
    /\ UNCHANGED <<gameVars, playerIndex, reading, dirs>>

SlotFor_Always(g) == 0
SlotFor(g) == players[g]

HasRoom_OffByOne(g) == players[g] <= 2
HasRoom(g) == players[g] < 2

\* tryAddPlayer.
TryAddPlayer(s) ==
    LET g == gameOf[s] IN
    /\ pc[s] = "found"
    /\ IF HasRoom(g)
       THEN /\ playerIndex' = [playerIndex EXCEPT ![s] = SlotFor(g)]
            /\ players' = [players EXCEPT ![g] = @ + 1]
            /\ pc' = [pc EXCEPT ![s] = "playing"]
            /\ reading' = reading \cup {s}
       ELSE /\ pc' = [pc EXCEPT ![s] = "done"]
            /\ UNCHANGED <<playerIndex, players, reading>>
    /\ UNCHANGED <<created, registered, stopClosed, running, gameOf, dirs>>

\* The input goroutine, which outlives the handler's loop a little.
SetDirection(s, d) ==
    /\ s \in reading
    /\ dirs' = [dirs EXCEPT ![gameOf[s]][playerIndex[s] + 1] = d]
    /\ UNCHANGED <<gameVars, streamVars>>

StopsReading(s) ==
    /\ s \in reading /\ pc[s] # "playing"
    /\ reading' = reading \ {s}
    /\ UNCHANGED <<gameVars, pc, gameOf, playerIndex, dirs>>

CountAfterLeave_Zero(g) == 0
CountAfterLeave(g) == players[g] - 1

\* The stream ends; the deferred Leave begins with removePlayer.
RemovePlayer(s) ==
    LET g == gameOf[s] IN
    /\ pc[s] = "playing"
    /\ players' = [players EXCEPT ![g] = CountAfterLeave(g)]
    /\ pc' = [pc EXCEPT ![s] = IF CountAfterLeave(g) > 0 THEN "done" ELSE "left"]
    /\ UNCHANGED <<created, registered, stopClosed, running, gameOf,
                   playerIndex, reading, dirs>>

CloseStop(s) ==
    LET g == gameOf[s] IN
    /\ pc[s] = "left"
    /\ stopClosed' = stopClosed \cup {g}
    /\ pc' = [pc EXCEPT ![s] = IF g \in stopClosed THEN "done" ELSE "closed"]
    /\ UNCHANGED <<created, registered, players, running, gameOf, playerIndex,
                   reading, dirs>>

Delete(s) ==
    /\ pc[s] = "closed"
    /\ registered' = registered \ {gameOf[s]}
    /\ pc' = [pc EXCEPT ![s] = "done"]
    /\ UNCHANGED <<created, players, stopClosed, running, gameOf, playerIndex,
                   reading, dirs>>

\* run's select sees the closed channel.
RunReturns_WhenEmpty(g) ==
    /\ g \in running /\ g \in stopClosed /\ players[g] = 0
    /\ running' = running \ {g}
    /\ UNCHANGED <<created, registered, players, stopClosed, streamVars, dirs>>
RunReturns(g) ==
    /\ g \in running /\ g \in stopClosed
    /\ running' = running \ {g}
    /\ UNCHANGED <<created, registered, players, stopClosed, streamVars, dirs>>

Leave(s) == CloseStop(s) \/ Delete(s)

Next ==
    \/ \E g \in Games : Create(g) \/ RunReturns(g)
    \/ \E s \in Streams :
          \/ \E g \in Games : Lookup(s, g)
          \/ TryAddPlayer(s) \/ RemovePlayer(s) \/ Leave(s)
          \/ StopsReading(s) \/ \E d \in Directions : SetDirection(s, d)

Spec == Init /\ [][Next]_vars

\* A deferred Leave runs to its end, and run's goroutine is scheduled.
FairSpec ==
    /\ Spec
    /\ \A s \in Streams : WF_vars(Leave(s))
    /\ \A g \in Games : WF_vars(RunReturns(g))

-----------------------------------------------------------------------------
(* Properties.                                                             *)

\* Every variable stays in its type (all of the modelled code).
TypeOK ==
    /\ created \in SUBSET Games /\ registered \in SUBSET Games
    /\ players \in [Games -> 0 .. 2]
    /\ stopClosed \in SUBSET Games /\ running \in SUBSET Games
    /\ pc \in [Streams -> PCs] /\ gameOf \in [Streams -> Games]
    /\ playerIndex \in [Streams -> {0, 1}]
    /\ reading \in SUBSET Streams
    /\ dirs \in [Games -> Directions \X Directions]

PlayersOf(g) == {s \in Streams : pc[s] = "playing" /\ gameOf[s] = g}

\* g.players counts the streams that are playing the game, whatever joins and
\* leaves overlap: at most two, and the last one out sees zero.
PlayersCounted == \A g \in Games : players[g] = Cardinality(PlayersOf(g))

\* tryAddPlayer: "so two concurrent joins on the same game can't both succeed as
\* 'player 1'".  No two streams of a game have index 0.
OneFirstPlayer ==
    \A g \in Games : \A s, t \in PlayersOf(g) :
        playerIndex[s] = 0 /\ playerIndex[t] = 0 => s = t

\* A stopped game's loop returns, and the game leaves the registry, even when a
\* stream has joined between the last player's leaving and the close.
StoppedGamesEnd ==
    \A g \in Games : g \in stopClosed ~> (g \notin running /\ g \notin registered)

\* tryAddPlayer: "atomically checks for a free slot and claims it".  The slot a
\* player holds is nobody else's.
SlotsDistinct ==
    \A g \in Games : \A s, t \in PlayersOf(g) :
        playerIndex[s] = playerIndex[t] => s = t

\* Leave: "stopping and removing it once both players are gone".  Nobody is
\* playing a stopped game.
NobodyPlaysStopped == \A g \in stopClosed : PlayersOf(g) = {}
=============================================================================
