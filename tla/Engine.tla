------------------------------- MODULE Engine -------------------------------
(***************************************************************************)
(* The engine: the websocket handlers of the games, the input channel, the *)
(* one GameLoop thread that applies inputs, the output channel, the one    *)
(* OutputLoop thread that writes states to the players' connections, and   *)
(* the cleanup goroutine that sweeps idle games.                           *)
(*                                                                         *)
(* The maps games and playerHashes and the players slices are shared by    *)
(* all of them.  A game's rules are abstracted to a version number that    *)
(* every applied input advances; Hangman, TicTacToe and the other modules  *)
(* model the rules.  A player hash is named by the connection that drew it.*)
(***************************************************************************)
EXTENDS Integers, Sequences, FiniteSets, Slices

CONSTANTS Games,      \* ids of the games the new_game routes hand out
          Conns,      \* websocket connections; each can draw one player hash
          Kind,       \* the package of each game
          NoConn,     \* a nil *websocket.Conn
          MaxGames,   \* bound: games ever created
          MaxConns,   \* bound: MaxConns[g] connections reach game g
          MaxInputs,  \* bound: inputs ever pushed
          MaxTicks    \* bound: ticks of the 20 minute cleanup ticker

ASSUME GamesAssumption == Games # {}
ASSUME NoConnAssumption == NoConn \notin Conns
ASSUME KindAssumption ==
    Kind \in [Games -> {"hangman", "tictactoe", "seated", "whiteboard"}]
ASSUME BoundsAssumption ==
    /\ MaxGames \in Nat /\ MaxInputs \in Nat /\ MaxTicks \in Nat
    /\ MaxConns \in [Games -> Nat]

(* "seated" is connect4 and connect-the-dots, whose ws routes are alike.   *)

VARIABLES
    status,        \* status[g]: "none", "live" (in the games map), "swept"
    players,       \* players[g]: the hashes of the players slice, in order
    connected,     \* connected[g]: playersConnected, or playersSize
    lost,          \* history: the players an overlapping join overwrote
    joined,        \* history: joined[c]: the version at which c took its seat
    playerHashes,  \* the map from a hash to its connection
    open,          \* the connections neither side has closed
    pc,            \* pc[c]: where the handler of connection c is
    gameOf,        \* its game
    hashOf,        \* its player hash
    seats, seatCount,  \* players and playersConnected as its join loaded them
    todo, ver,     \* the players its broadcast still has to write to, and what
    writing,       \* the connection it is writing to, or NoConn
    inputs,        \* inputChannel
    pushed,        \* number of inputs pushed so far (a bound, and their ids)
    exits,         \* exits[h]: the exit_game requests of h past their check
    outputs,       \* outputChannel
    outPc, outGame, outTodo, outVer, outWriting,  \* the same for OutputLoop
    loop,          \* "running", or "stuck" inside ChangeState holding mu
    crashed,       \* "no", or the panic that ended the process
    now, tickC,    \* ticks fired so far; the ticker's channel (0 = empty)
    lastTick,      \* the cleanup goroutine's lastTick
    lastModified,  \* GameLoop's lastModified, -1 for the zero time
    version,       \* version[g]: how many inputs changed game g
    shown          \* shown[c]: the version last written to connection c

gameVars == <<status, players, connected, lost, joined, version>>
connVars == <<playerHashes, open, shown>>
joinVars == <<gameOf, hashOf, seats, seatCount>>
sendVars == <<todo, ver, writing>>
handlerVars == <<pc, joinVars, sendVars>>
outVars == <<outPc, outGame, outTodo, outVer, outWriting>>
queueVars == <<inputs, pushed, exits, outputs>>
clockVars == <<now, tickC, lastTick, lastModified>>
procVars == <<loop, crashed>>
vars == <<gameVars, connVars, handlerVars, queueVars, outVars, clockVars,
          procVars>>

PriorityNormal == 0
PriorityClose == 100

HandlerPCs == {"idle", "append", "register", "check", "load", "store",
               "hello", "reseat", "snapshot", "broadcast", "reading", "gone"}

InputRecord ==
    [id : 1 .. MaxInputs, game : Games, op : {"play", "chat", "exit"},
     idx : Int, from : Conns]
OutputRecord ==
    [id : 1 .. MaxInputs, game : Games, prio : {PriorityNormal, PriorityClose},
     at : 0 .. MaxTicks]  \* at (history): the ticks fired before the push

-----------------------------------------------------------------------------
(* Players slices and priorities.                                          *)

AppendPlayer_InFront(s, hash) == <<hash>> \o s
\* append(players, p)
AppendPlayer(s, hash) == Append(s, hash)

\* The players once hash has its seat: it is appended to the slice, read as base
\* some time before; in tictactoe it goes where playersSize, read as size, says,
\* which is taken if another increment of it was lost.
SeatIn(g, base, size, hash) ==
    IF Kind[g] # "tictactoe" THEN AppendPlayer(base, hash)
    ELSE IF size < Len(players[g]) THEN [players[g] EXCEPT ![size + 1] = hash]
         ELSE AppendPlayer(players[g], hash)

Priority(op) == IF op = "exit" THEN PriorityClose ELSE PriorityNormal

\* What PopBlocking may return: any entry of the highest priority waiting
\* (the heap promises no order among equals).
PoppableInputs ==
    {m \in inputs : \A n \in inputs : Priority(n.op) <= Priority(m.op)}
PoppableOutputs == {o \in outputs : \A n \in outputs : n.prio <= o.prio}

\* A WriteJSON is under way on connection c.
BeingWritten(c) == outWriting = c \/ \E h \in Conns : writing[h] = c

\* No panic outside a handler has ended the process yet.
Up == crashed = "no"

-----------------------------------------------------------------------------
Init ==
    /\ status = [g \in Games |-> "none"]
    /\ players = [g \in Games |-> <<>>]
    /\ connected = [g \in Games |-> 0] /\ lost = {} /\ joined = [c \in Conns |-> 0]
    /\ playerHashes = [h \in Conns |-> NoConn]
    /\ open = {}
    /\ pc = [c \in Conns |-> "idle"]
    /\ gameOf = [c \in Conns |-> CHOOSE g \in Games : TRUE]
    /\ hashOf = [c \in Conns |-> c]
    /\ seats = [c \in Conns |-> <<>>] /\ seatCount = [c \in Conns |-> 0]
    /\ todo = [c \in Conns |-> <<>>] /\ ver = [c \in Conns |-> 0]
    /\ writing = [c \in Conns |-> NoConn]
    /\ inputs = {} /\ pushed = 0 /\ exits = [c \in Conns |-> 0] /\ outputs = {}
    /\ outPc = "pop" /\ outGame = CHOOSE g \in Games : TRUE
    /\ outTodo = <<>> /\ outVer = 0 /\ outWriting = NoConn
    /\ loop = "running" /\ crashed = "no"
    /\ now = 0 /\ tickC = 0 /\ lastTick = 0
    /\ lastModified = [g \in Games |-> -1]
    /\ version = [g \in Games |-> 0]
    /\ shown = [c \in Conns |-> 0]

-----------------------------------------------------------------------------
(* The routes and the websocket handlers.                                  *)

\* GET /<game>/new_game
NewGame(g) ==
    /\ Up /\ status[g] = "none"
    /\ Cardinality({h \in Games : status[h] # "none"}) < MaxGames
    /\ status' = [status EXCEPT ![g] = "live"]
    /\ UNCHANGED <<players, connected, lost, joined, version, connVars,
                   handlerVars, queueVars, outVars, clockVars, procVars>>

JoinOrder_SeatedUnregistered == [
    hangman |-> [idle |-> "append", append |-> "register",
                 register |-> "hello", hello |-> "snapshot"],
    tictactoe |-> [idle |-> "check", store |-> "register",
                   register |-> "reading"],
    seated |-> [idle |-> "check", store |-> "reading"],
    whiteboard |-> [idle |-> "register", register |-> "hello",
                    hello |-> "load", store |-> "reading"]]
JoinOrder_SeatedSnapshots == [
    hangman |-> [idle |-> "append", append |-> "register",
                 register |-> "hello", hello |-> "snapshot"],
    tictactoe |-> [idle |-> "check", store |-> "register",
                   register |-> "reading"],
    seated |-> [idle |-> "register", register |-> "check",
                store |-> "snapshot"],
    whiteboard |-> [idle |-> "register", register |-> "hello",
                    hello |-> "load", store |-> "reading"]]
JoinOrder_ImageLast == [
    hangman |-> [idle |-> "append", append |-> "register",
                 register |-> "hello", hello |-> "snapshot"],
    tictactoe |-> [idle |-> "check", store |-> "register",
                   register |-> "reading"],
    seated |-> [idle |-> "register", register |-> "check",
                store |-> "reading"],
    whiteboard |-> [idle |-> "register", register |-> "load",
                    store |-> "hello", hello |-> "reading"]]
\* The order of each package's join sequence: what follows what.  (The checks
\* of the number of players, and load before store, are in the actions.)
JoinOrder == [
    hangman |-> [idle |-> "append", append |-> "register",
                 register |-> "hello", hello |-> "snapshot"],
    tictactoe |-> [idle |-> "check", store |-> "register",
                   register |-> "reading"],
    seated |-> [idle |-> "register", register |-> "check",
                store |-> "reading"],
    whiteboard |-> [idle |-> "register", register |-> "hello",
                    hello |-> "load", store |-> "reading"]]

After(g, step) == JoinOrder[Kind[g]][step]

\* The bound MaxConns lets one more connection reach game g.
MoreConns(g) ==
    Cardinality({c \in Conns : pc[c] # "idle" /\ gameOf[c] = g}) < MaxConns[g]

\* GET /<game>/ws/{gameID} up to the game lookup; without the game the handler
\* gives up (whiteboard closes the connection, the others leave it open).
Connect(c, g) ==
    /\ Up /\ pc[c] = "idle" /\ status[g] # "none" /\ MoreConns(g)
    /\ gameOf' = [gameOf EXCEPT ![c] = g]
    /\ pc' = [pc EXCEPT ![c] =
                IF status[g] = "live" THEN After(g, "idle") ELSE "gone"]
    /\ open' = IF status[g] = "live" \/ Kind[g] # "whiteboard"
               THEN open \cup {c} ELSE open
    /\ UNCHANGED <<hashOf, seats, seatCount, sendVars, gameVars, playerHashes,
                   shown, queueVars, outVars, clockVars, procVars>>

\* hangman newPlayer: the append is under the game's mutex.
NewPlayer(c) ==
    LET g == gameOf[c] IN
    /\ Up /\ pc[c] = "append"
    /\ players' = [players EXCEPT ![g] = AppendPlayer(@, c)]
    /\ pc' = [pc EXCEPT ![c] = After(g, "append")]
    /\ UNCHANGED <<joinVars, sendVars, status, connected, lost, joined, version,
                   connVars, queueVars, outVars, clockVars, procVars>>

\* playerHashes[playerHash] = conn
Register(c) ==
    /\ Up /\ pc[c] = "register"
    /\ playerHashes' = [playerHashes EXCEPT ![hashOf[c]] = c]
    /\ pc' = [pc EXCEPT ![c] = After(gameOf[c], "register")]
    /\ UNCHANGED <<joinVars, sendVars, gameVars, open, shown, queueVars,
                   outVars, clockVars, procVars>>

\* if game.playersConnected >= 2 { return }: the handler ends, the connection
\* stays open and, for the seated games, in playerHashes.
CheckSeats(c) ==
    /\ Up /\ pc[c] = "check"
    /\ pc' = [pc EXCEPT ![c] =
                     IF connected[gameOf[c]] >= 2 THEN "gone" ELSE "load"]
    /\ UNCHANGED <<joinVars, sendVars, gameVars, connVars, queueVars, outVars,
                   clockVars, procVars>>

\* The read half of the unsynchronised append and of playersConnected++.
\* tictactoe's newPlayer looks at playersSize once more; a handler it turns away
\* goes on without a seat.
LoadSeats(c) ==
    LET g == gameOf[c] IN
    /\ Up /\ pc[c] = "load"
    /\ pc' = [pc EXCEPT ![c] =
                IF Kind[g] = "tictactoe" /\ connected[g] >= 2
                THEN After(g, "store") ELSE "store"]
    /\ seats' = [seats EXCEPT ![c] = players[g]]
    /\ seatCount' = [seatCount EXCEPT ![c] = connected[g]]
    /\ UNCHANGED <<gameOf, hashOf, sendVars, gameVars, connVars, queueVars,
                   outVars, clockVars, procVars>>

\* The write half: whatever another handler stored since the load is lost from
\* the slice, and may or may not be lost from the counter; tictactoe may read its
\* counter again for the slot too.  Nothing is written to the new connection.
StoreSeats(c) ==
    LET g == gameOf[c] IN
    /\ Up /\ pc[c] = "store"
    /\ \E size \in {seatCount[c], connected[g]} :
          /\ Kind[g] = "tictactoe" => size < 2
          /\ players' = [players EXCEPT ![g] = SeatIn(g, seats[c], size, c)]
    /\ \E n \in {seatCount[c], connected[g]} :
          connected' = [connected EXCEPT ![g] = n + 1]
    /\ lost' = lost \cup (Elements(players[g]) \ Elements(players'[g]))
    /\ joined' = [joined EXCEPT ![c] = version[g]]
    /\ pc' = [pc EXCEPT ![c] = After(g, "store")]
    /\ UNCHANGED <<joinVars, sendVars, status, version, connVars, queueVars,
                   outVars, clockVars, procVars>>

\* tictactoe: both seats were taken since the load, and players[playersSize] is
\* out of range: the handler's panic is recovered, and its connection left open.
SeatPanics(c) ==
    /\ Up /\ pc[c] = "store"
    /\ Kind[gameOf[c]] = "tictactoe" /\ connected[gameOf[c]] >= 2
    /\ pc' = [pc EXCEPT ![c] = "gone"]
    /\ UNCHANGED <<joinVars, sendVars, gameVars, connVars, queueVars, outVars,
                   clockVars, procVars>>

\* hangman: the state and the player list the new (or reconnected) player's
\* handler is about to send to everybody.
Snapshot(c) ==
    LET g == gameOf[c] IN
    /\ Up /\ pc[c] = "snapshot"
    /\ ver' = [ver EXCEPT ![c] = version[g]]
    /\ todo' = [todo EXCEPT ![c] = players[g]]
    /\ pc' = [pc EXCEPT ![c] =
                IF players[g] = <<>> THEN "reading" ELSE "broadcast"]
    /\ UNCHANGED <<joinVars, writing, gameVars, connVars, queueVars, outVars,
                   clockVars, procVars>>

\* Where the next write of c's handler goes; NoConn is a nil dereference.
WriteTarget(c) ==
    IF pc[c] = "hello" THEN c
    ELSE playerHashes[Head(todo[c])]

\* conn.WriteJSON begins.  It panics on a nil connection, and on one that is
\* being written; net/http recovers a handler's panic, and the deferred
\* conn.Close only runs once the hello has been written.
HandlerBeginWrite(c) ==
    /\ Up /\ pc[c] \in {"hello", "broadcast"} /\ writing[c] = NoConn
    /\ IF WriteTarget(c) = NoConn \/ BeingWritten(WriteTarget(c))
       THEN /\ pc' = [pc EXCEPT ![c] = "gone"]
            /\ open' = IF pc[c] = "hello" THEN open ELSE open \ {c}
            /\ UNCHANGED <<writing, ver>>
       ELSE /\ writing' = [writing EXCEPT ![c] = WriteTarget(c)]
            /\ ver' = [ver EXCEPT ![c] =
                         IF pc[c] = "hello" THEN version[gameOf[c]] ELSE @]
            /\ UNCHANGED <<pc, open>>
    /\ UNCHANGED <<joinVars, todo, gameVars, playerHashes, shown, queueVars,
                   outVars, clockVars, procVars>>

\* Where the handler goes after a write.  whiteboard gives up when the write
\* fails; hangman logs the error and carries on.
AfterWrite(c) ==
    IF pc[c] = "broadcast"
    THEN IF Len(todo[c]) > 1 THEN "broadcast" ELSE "reading"
    ELSE IF Kind[gameOf[c]] = "hangman" \/ c \in open
         THEN After(gameOf[c], "hello") ELSE "gone"

\* conn.WriteJSON returns; on a closed connection nothing was shown.
HandlerEndWrite(c) ==
    /\ Up /\ writing[c] # NoConn
    /\ shown' = IF writing[c] \in open
                THEN [shown EXCEPT ![writing[c]] = ver[c]]
                ELSE shown
    /\ writing' = [writing EXCEPT ![c] = NoConn]
    /\ pc' = [pc EXCEPT ![c] = AfterWrite(c)]
    /\ todo' = [todo EXCEPT ![c] = IF @ = <<>> THEN @ ELSE Tail(@)]
    /\ UNCHANGED <<joinVars, ver, gameVars, playerHashes, open, queueVars,
                   outVars, clockVars, procVars>>

\* The handler reads a message and pushes it.  The sender's index is looked up
\* now and used when GameLoop gets to the input.
ReadInput(c, op) ==
    LET g == gameOf[c]
        idx == IF Kind[g] = "hangman"
               THEN IndexFunc(players[g], hashOf[c]) ELSE 0
    IN  /\ Up /\ pc[c] = "reading" /\ c \in open
        /\ pushed < MaxInputs
        /\ op = "play" \/ (op = "chat" /\ Kind[g] = "hangman")
        /\ pushed' = pushed + 1
        /\ inputs' = inputs \cup {[id |-> pushed + 1, game |-> g, op |-> op,
                                   idx |-> idx, from |-> hashOf[c]]}
        /\ UNCHANGED <<gameVars, connVars, handlerVars, exits, outputs, outVars,
                       clockVars, procVars>>

\* The client closes its end, or the network does.
Disconnect(c) ==
    /\ Up /\ c \in open
    /\ open' = open \ {c}
    /\ UNCHANGED <<gameVars, playerHashes, shown, handlerVars, queueVars,
                   outVars, clockVars, procVars>>

\* ReadMessage fails; the handler returns.  The player stays in players and
\* in playerHashes.
HandlerReturns(c) ==
    /\ Up /\ pc[c] = "reading" /\ c \notin open
    /\ pc' = [pc EXCEPT ![c] = "gone"]
    /\ UNCHANGED <<joinVars, sendVars, gameVars, connVars, queueVars, outVars,
                   clockVars, procVars>>

\* The hash h has been told to its client by the hello.
Known(h) == /\ Kind[gameOf[h]] = "hangman" /\ hashOf[h] = h
            /\ pc[h] \in {"snapshot", "broadcast", "reading", "gone"}

\* GET /hangman/reconnect/{playerHash}/{gameID} on a new connection c: the old
\* connection is closed.  A hash no longer registered skips to the broadcast.
Reconnect(c, h) ==
    LET g == gameOf[h] IN
    /\ Up /\ pc[c] = "idle" /\ Known(h) /\ MoreConns(g)
    /\ gameOf' = [gameOf EXCEPT ![c] = g]
    /\ hashOf' = [hashOf EXCEPT ![c] = h]
    /\ pc' = [pc EXCEPT ![c] =
                     IF status[g] # "live" THEN "gone"
                     ELSE IF playerHashes[h] = NoConn THEN "snapshot"
                          ELSE "reseat"]
    /\ open' = IF status[g] # "live" THEN open
               ELSE (open \ {playerHashes[h]}) \cup {c}
    /\ UNCHANGED <<seats, seatCount, sendVars, gameVars, playerHashes, shown,
                   queueVars, outVars, clockVars, procVars>>

\* The rest of the reconnect: the hash moves to the new connection, unless the
\* player has left the game meanwhile.
Reseat(c) ==
    LET member == hashOf[c] \in Elements(players[gameOf[c]]) IN
    /\ Up /\ pc[c] = "reseat"
    /\ playerHashes' = IF member
                       THEN [playerHashes EXCEPT ![hashOf[c]] = c]
                       ELSE playerHashes
    /\ open' = IF member THEN open ELSE open \ {c}
    /\ pc' = [pc EXCEPT ![c] = IF member THEN "snapshot" ELSE "gone"]
    /\ UNCHANGED <<joinVars, sendVars, gameVars, shown, queueVars, outVars,
                   clockVars, procVars>>

\* GET /hangman/exit_game/{playerHash}/{gameID}: the hash is registered and its
\* game is there.
AskExit(h) ==
    /\ Up /\ Known(h) /\ playerHashes[h] # NoConn /\ status[gameOf[h]] = "live"
    /\ pushed + exits[h] < MaxInputs
    /\ exits' = [exits EXCEPT ![h] = @ + 1]
    /\ UNCHANGED <<gameVars, connVars, handlerVars, inputs, pushed, outputs,
                   outVars, clockVars, procVars>>

\* The rest of the exit, which another exit of h may have overtaken.  It looks the
\* game up again, and panics (which is recovered) if it has been swept.
ExitGame(h) ==
    LET g == gameOf[h] IN
    /\ Up /\ exits[h] > 0
    /\ exits' = [exits EXCEPT ![h] = @ - 1]
    /\ \/ /\ status[g] = "live" /\ pushed < MaxInputs
          /\ playerHashes' = [playerHashes EXCEPT ![h] = NoConn]
          /\ pushed' = pushed + 1
          /\ inputs' = inputs \cup {[id |-> pushed + 1, game |-> g, op |-> "exit",
                                     idx |-> IndexFunc(players[g], h), from |-> h]}
       \/ status[g] # "live" /\ UNCHANGED <<playerHashes, pushed, inputs>>
    /\ UNCHANGED <<gameVars, open, shown, handlerVars, outputs, outVars,
                   clockVars, procVars>>

-----------------------------------------------------------------------------
(* GameLoop, one input per iteration: everything from PopBlocking to       *)
(* mu.Unlock is one step, since the cleanup goroutine is kept out by mu.   *)

\* Whether ChangeState(m) indexes players out of range.
OutOfRange(m) ==
    /\ m.op # "play"
    /\ m.op = "exit" => players[m.game] # <<>>
    /\ ~InRange(players[m.game], m.idx)

\* removePlayer takes the last player away and calls closeGame, which waits
\* for the mutex removePlayer already holds.
LastExit(m) == m.op = "exit" /\ Len(players[m.game]) = 1 /\ ~OutOfRange(m)

\* Without the game the input is dropped.
DropInput(m) ==
    /\ status[m.game] # "live"
    /\ UNCHANGED <<gameVars, outVars, outputs, clockVars, procVars>>

StaleIndexPanic(m) ==
    /\ status[m.game] = "live" /\ OutOfRange(m)
    /\ crashed' = "stale index"
    /\ UNCHANGED <<gameVars, outVars, outputs, clockVars, loop>>

LastPlayerLeaves(m) ==
    /\ status[m.game] = "live" /\ LastExit(m)
    /\ players' = [players EXCEPT ![m.game] = <<>>]
    /\ loop' = "stuck"
    /\ UNCHANGED <<status, connected, lost, joined, version, outVars, outputs,
                   clockVars, crashed>>

ModifiedAt_Ahead(g) == now + 1
ModifiedAt(g) == now

\* outputChannel.Push(gameID, priority)
OutputOf(m) ==
    {[id |-> m.id, game |-> m.game, prio |-> Priority(m.op), at |-> now]}

ApplyInput(m) ==
    LET g == m.game IN
    /\ status[g] = "live" /\ ~OutOfRange(m) /\ ~LastExit(m)
    /\ players' = IF m.op = "exit" /\ players[g] # <<>>
                  THEN [players EXCEPT ![g] = SliceDelete(@, m.idx)]
                  ELSE players
    /\ version' = [version EXCEPT ![g] = @ + 1]
    /\ lastModified' = [lastModified EXCEPT ![g] = ModifiedAt(g)]
    /\ outputs' = outputs \cup OutputOf(m)
    /\ UNCHANGED <<status, connected, lost, joined, outVars, now, tickC,
                   lastTick, procVars>>

HandleInput(m) ==
    /\ Up /\ loop = "running" /\ m \in PoppableInputs
    /\ inputs' = inputs \ {m}
    /\ \/ DropInput(m)
       \/ StaleIndexPanic(m)
       \/ LastPlayerLeaves(m)
       \/ ApplyInput(m)
    /\ UNCHANGED <<connVars, handlerVars, pushed, exits>>

-----------------------------------------------------------------------------
(* The cleanup goroutine.                                                  *)

\* The ticker's channel holds one tick; a tick that finds it full is lost.
Tick ==
    /\ Up /\ now < MaxTicks
    /\ now' = now + 1
    /\ tickC' = IF tickC = 0 THEN now + 1 ELSE tickC
    /\ UNCHANGED <<gameVars, connVars, handlerVars, queueVars, outVars,
                   lastTick, lastModified, procVars>>

Expired_NotYet(g) == lastTick >= lastModified[g]
\* lastTick.Compare(lastModified[game]) > 0
Expired(g) == lastTick > lastModified[g]

Sweep ==
    /\ Up /\ tickC # 0 /\ loop = "running"
    /\ status' = [g \in Games |->
                    IF status[g] = "live" /\ Expired(g) THEN "swept"
                    ELSE status[g]]
    /\ lastTick' = tickC
    /\ tickC' = 0
    /\ UNCHANGED <<players, connected, lost, joined, version, connVars,
                   handlerVars, queueVars, outVars, now, lastModified, procVars>>

-----------------------------------------------------------------------------
(* OutputLoop.                                                             *)

\* PopBlocking, games[gameID] and JSON(); a missing game is a nil call.
OutputPop(o) ==
    /\ Up /\ outPc = "pop" /\ o \in PoppableOutputs
    /\ outputs' = outputs \ {o}
    /\ IF status[o.game] = "live"
       THEN /\ outPc' = "players" /\ outGame' = o.game
            /\ outVer' = version[o.game] /\ crashed' = crashed
       ELSE /\ crashed' = "orphan output"
            /\ UNCHANGED <<outPc, outGame, outVer>>
    /\ UNCHANGED <<outTodo, outWriting, gameVars, connVars, handlerVars,
                   inputs, pushed, exits, clockVars, loop>>

\* game.Players()
OutputPlayers ==
    /\ Up /\ outPc = "players"
    /\ outTodo' = players[outGame]
    /\ outPc' = IF players[outGame] = <<>> THEN "pop" ELSE "write"
    /\ UNCHANGED <<outGame, outVer, outWriting, gameVars, connVars,
                   handlerVars, queueVars, clockVars, procVars>>

\* conn = playerHashes[p.PlayerID]; conn.WriteJSON begins.  Nothing recovers a
\* panic of this goroutine: it ends the process.
OutputBeginWrite ==
    LET target == playerHashes[Head(outTodo)] IN
    /\ Up /\ outPc = "write" /\ outWriting = NoConn
    /\ IF target = NoConn \/ BeingWritten(target)
       THEN /\ crashed' = IF target = NoConn THEN "nil connection"
                          ELSE "concurrent write"
            /\ UNCHANGED outWriting
       ELSE outWriting' = target /\ crashed' = crashed
    /\ UNCHANGED <<outPc, outGame, outTodo, outVer, gameVars, connVars,
                   handlerVars, queueVars, clockVars, loop>>

OutputEndWrite_OnePlayer ==
    /\ Up /\ outWriting # NoConn
    /\ shown' = IF outWriting \in open
                THEN [shown EXCEPT ![outWriting] = outVer] ELSE shown
    /\ outWriting' = NoConn /\ outTodo' = Tail(outTodo)
    /\ outPc' = "pop"
    /\ UNCHANGED <<outGame, outVer, gameVars, playerHashes, open, handlerVars,
                   queueVars, clockVars, procVars>>

OutputEndWrite ==
    /\ Up /\ outWriting # NoConn
    /\ shown' = IF outWriting \in open
                THEN [shown EXCEPT ![outWriting] = outVer] ELSE shown
    /\ outWriting' = NoConn /\ outTodo' = Tail(outTodo)
    /\ outPc' = IF Len(outTodo) > 1 THEN "write" ELSE "pop"
    /\ UNCHANGED <<outGame, outVer, gameVars, playerHashes, open, handlerVars,
                   queueVars, clockVars, procVars>>

-----------------------------------------------------------------------------
HandlerStep(c) ==
    \/ NewPlayer(c) \/ Register(c) \/ CheckSeats(c) \/ LoadSeats(c)
    \/ StoreSeats(c) \/ SeatPanics(c) \/ Snapshot(c) \/ HandlerBeginWrite(c)
    \/ HandlerEndWrite(c) \/ Reseat(c) \/ HandlerReturns(c)

Client ==
    \/ \E g \in Games : NewGame(g)
    \/ \E c \in Conns : \/ \E g \in Games : Connect(c, g)
                        \/ \E h \in Conns : Reconnect(c, h)
                        \/ \E op \in {"play", "chat"} : ReadInput(c, op)
                        \/ Disconnect(c)
                        \/ AskExit(c) \/ ExitGame(c)

GameLoop == \E m \in inputs : HandleInput(m)

OutputLoop ==
    \/ \E o \in outputs : OutputPop(o)
    \/ OutputPlayers \/ OutputBeginWrite \/ OutputEndWrite

Server == (\E c \in Conns : HandlerStep(c)) \/ GameLoop \/ OutputLoop \/ Sweep

Next == Client \/ Server \/ Tick

Spec == Init /\ [][Next]_vars

\* GameLoop and the cleanup goroutine run.  The others write to clients, and a
\* WriteJSON without a deadline may never return; clients and the clock owe nothing.
Fairness == WF_vars(GameLoop) /\ WF_vars(Sweep)

FairSpec == Spec /\ Fairness

-----------------------------------------------------------------------------
(* Properties.                                                             *)

\* Every variable stays in its type (all of the modelled code).
TypeOK ==
    /\ status \in [Games -> {"none", "live", "swept"}]
    /\ players \in [Games -> Seq(Conns)]
    /\ connected \in [Games -> Nat] /\ lost \in SUBSET Conns
    /\ joined \in [Conns -> Nat]
    /\ playerHashes \in [Conns -> Conns \cup {NoConn}]
    /\ open \in SUBSET Conns
    /\ pc \in [Conns -> HandlerPCs]
    /\ gameOf \in [Conns -> Games] /\ hashOf \in [Conns -> Conns]
    /\ seats \in [Conns -> Seq(Conns)] /\ seatCount \in [Conns -> Nat]
    /\ todo \in [Conns -> Seq(Conns)] /\ ver \in [Conns -> Nat]
    /\ writing \in [Conns -> Conns \cup {NoConn}]
    /\ inputs \subseteq InputRecord /\ pushed \in 0 .. MaxInputs
    /\ exits \in [Conns -> Nat]
    /\ outputs \subseteq OutputRecord
    /\ outPc \in {"pop", "players", "write"} /\ outGame \in Games
    /\ outTodo \in Seq(Conns) /\ outVer \in Nat
    /\ outWriting \in Conns \cup {NoConn}
    /\ loop \in {"running", "stuck"}
    /\ crashed \in {"no", "orphan output", "nil connection",
                    "concurrent write", "stale index"}
    /\ now \in 0 .. MaxTicks /\ tickC \in 0 .. MaxTicks
    /\ lastTick \in 0 .. MaxTicks
    /\ lastModified \in [Games -> -1 .. MaxTicks]
    /\ version \in [Games -> Nat] /\ shown \in [Conns -> Nat]

\* OutputLoop dereferences playerHashes[p.PlayerID] for every player of a game:
\* the entry may only be missing for a hangman or tictactoe player between its
\* append and its registration, or for a hangman player that was told its hash
\* (and so may have left).  Seated and whiteboard players always have one.
RegisteredHasConn ==
    \A g \in Games : \A h \in Elements(players[g]) :
        playerHashes[h] = NoConn =>
            \/ Kind[g] \in {"hangman", "tictactoe"} /\ pc[h] = "register"
            \/ Known(h)

\* An output that GameLoop pushed for a game the cleanup then deleted makes
\* OutputLoop call JSON() on nil.  Two ticks have fired since such an output was
\* pushed: a game is never deleted less than a whole interval after its input.
OrphanOutputIsOld ==
    \A o \in outputs : status[o.game] # "live" => o.at + 2 <= lastTick

\* "Send the full current image before registering the player so the output
\* loop doesn't race with this initial write": while a whiteboard handler is
\* sending that image nobody else writes on its connection.
InitialImageAlone ==
    \A c \in Conns :
        pc[c] = "hello" /\ Kind[gameOf[c]] = "whiteboard" =>
            outWriting # c /\ \A h \in Conns \ {c} : writing[h] # c

\* Everything pushed for the game has been handled and written out.
Quiescent(g) == /\ \A m \in inputs : m.game # g
                /\ \A o \in outputs : o.game # g
                /\ outPc = "pop"

\* No update is lost on a seated or tictactoe game: when nothing is queued or
\* being written, each connected player was shown the last state, unless no input
\* has changed the game since it took its seat.  (OutputLoop reads the state when
\* it pops, and reads the players after the state, so priorities and joins cannot
\* lose one.)  A player that an overlapping join overwrote in players is excepted.
ViewCurrent ==
    \A g \in Games :
        Kind[g] \in {"seated", "tictactoe"} /\ Quiescent(g) /\ crashed = "no" =>
            \A h \in Elements(players[g]) \ lost :
                playerHashes[h] = h /\ h \in open =>
                    shown[h] = version[g] \/ joined[h] = version[g]

\* And none comes late: on a seated or tictactoe game nobody is shown an older
\* state after a newer one, although outputs are not popped in order.
ViewsMoveForward ==
    [][\A c \in Conns : Kind[gameOf[c]] \in {"seated", "tictactoe"}
                          => shown'[c] >= shown[c]]_vars

\* A hangman input carries its sender's index from when it was read; by the time
\* it is applied, removals may have shifted the sender, but only to the left.
IndexOnlyShiftsLeft ==
    \A m \in inputs :
        Kind[m.game] = "hangman" /\ m.from \in Elements(players[m.game]) =>
            IndexFunc(players[m.game], m.from) <= m.idx

Waiting(i) == \E m \in inputs : m.id = i

\* README.md line 3: "games can be handled by the same thread despite being
\* different games".  An input to a game that is not hangman is handled,
\* whatever the hangman games do.
OtherGamesHandled ==
    \A i \in 1 .. MaxInputs :
        (\E m \in inputs : m.id = i /\ Kind[m.game] # "hangman")
            ~> (~Waiting(i) \/ crashed # "no")
=============================================================================
