---------------------------- MODULE EngineProofs ----------------------------
(* Theorems about Engine, for every set of games and connections.          *)
EXTENDS Engine, SlicesProofs

(***************************************************************************)
(* What the types alone do not say: a pending broadcast has somebody left  *)
(* to write to, only the right control points write, and a join goes       *)
(* through the steps of its game's package.                                *)
(***************************************************************************)
WritersShape ==
    /\ \A c \in Conns :
          /\ pc[c] = "broadcast" => todo[c] # <<>>
          /\ writing[c] # NoConn => pc[c] \in {"hello", "broadcast"}
          /\ pc[c] \in {"check", "load", "store"} => Kind[gameOf[c]] # "hangman"
          /\ pc[c] = "append" => Kind[gameOf[c]] = "hangman"
          /\ pc[c] = "hello" => Kind[gameOf[c]] \in {"hangman", "whiteboard"}
    /\ outPc = "write" => outTodo # <<>>
    /\ outWriting # NoConn => outPc = "write"

TypeInv == TypeOK /\ WritersShape

LEMMA TailType ==
    ASSUME NEW S, NEW s \in Seq(S), s # <<>>
    PROVE  /\ Tail(s) \in Seq(S)
           /\ Len(s) > 1 => Tail(s) # <<>>
  <1>1. Tail(s) \in Seq(S) /\ Len(Tail(s)) = Len(s) - 1
    BY HeadTailProperties
  <1>2. Len(s) \in Nat
    BY LenProperties
  <1>3. \A m \in Nat : m > 1 => m - 1 # 0
    OBVIOUS
  <1>4. Len(s) > 1 => Len(Tail(s)) # 0
    BY <1>1, <1>2, <1>3
  <1> QED
    BY <1>1, <1>4, EmptySeq

USE GamesAssumption, NoConnAssumption, KindAssumption, BoundsAssumption

LEMMA InitType == Init => TypeInv
  BY DEF Init, TypeInv, TypeOK, WritersShape, HandlerPCs, InputRecord, OutputRecord

\* A new input or output is well formed.
LEMMA InputType ==
    ASSUME NEW i \in 0 .. MaxInputs, i < MaxInputs, NEW g \in Games,
           NEW op \in {"play", "chat", "exit"}, NEW idx \in Int, NEW h \in Conns
    PROVE  /\ [id |-> i + 1, game |-> g, op |-> op, idx |-> idx, from |-> h]
                 \in InputRecord
           /\ i + 1 \in 0 .. MaxInputs
  BY DEF InputRecord

LEMMA OutputType ==
    ASSUME NEW m \in InputRecord
    PROVE  now \in 0 .. MaxTicks => OutputOf(m) \subseteq OutputRecord
  <1>1. Priority(m.op) \in {PriorityNormal, PriorityClose}
    BY DEF Priority
  <1>2. m.id \in 1 .. MaxInputs /\ m.game \in Games
    BY DEF InputRecord
  <1> QED
    BY <1>1, <1>2 DEF OutputOf, OutputRecord

\* Where a join goes next is a control point that does not broadcast, and that
\* takes a seat only outside hangman.
LEMMA JoinPCs ==
    \A g \in Games :
        /\ {After(g, "idle"), After(g, "register")} \subseteq
              CASE Kind[g] = "hangman" -> {"append", "hello"}
                [] Kind[g] = "whiteboard" -> {"register", "hello"}
                [] OTHER -> {"register", "check", "reading"}
        /\ Kind[g] = "hangman" =>
              After(g, "append") = "register" /\ After(g, "hello") = "snapshot"
        /\ Kind[g] # "hangman" => After(g, "store") \in {"register", "reading"}
        /\ Kind[g] = "whiteboard" => After(g, "hello") = "load"
  <1> TAKE g \in Games
  <1>1. Kind[g] \in {"hangman", "tictactoe", "seated", "whiteboard"}
    OBVIOUS
  <1> USE DEF After, JoinOrder
  <1>2. CASE Kind[g] = "hangman"
    BY <1>2
  <1>3. CASE Kind[g] = "tictactoe"
    BY <1>3
  <1>4. CASE Kind[g] = "seated"
    BY <1>4
  <1>5. CASE Kind[g] = "whiteboard"
    BY <1>5
  <1> QED
    BY <1>1, <1>2, <1>3, <1>4, <1>5

\* A player that takes a seat leaves a well-formed slice behind.
LEMMA SeatInType ==
    ASSUME players \in [Games -> Seq(Conns)], NEW g \in Games,
           NEW s \in Seq(Conns), NEW size \in Nat, NEW c \in Conns
    PROVE  SeatIn(g, s, size, c) \in Seq(Conns)
  <1>1. players[g] \in Seq(Conns) /\ Append(players[g], c) \in Seq(Conns)
        /\ Append(s, c) \in Seq(Conns)
    BY AppendProperties
  <1>2. ASSUME size < Len(players[g])
        PROVE  [players[g] EXCEPT ![size + 1] = c] \in Seq(Conns)
    <2>0. Len(players[g]) \in Nat
      BY <1>1, LenProperties
    <2>1. size + 1 \in 1 .. Len(players[g])
      BY <1>2, <2>0
    <2> QED
      BY <1>1, <2>1, ExceptSeq
  <1> QED
    BY <1>1, <1>2 DEF SeatIn, AppendPlayer

LEMMA StepType == TypeInv /\ [Next]_vars => TypeInv'
  <1> SUFFICES ASSUME TypeInv, [Next]_vars PROVE TypeInv'
    OBVIOUS
  <1> USE DEF TypeInv, TypeOK, WritersShape, HandlerPCs, gameVars, connVars,
              joinVars, sendVars, handlerVars, outVars, queueVars, clockVars,
              procVars
  <1>1. ASSUME NEW g \in Games, NewGame(g) PROVE TypeInv'
    BY <1>1 DEF NewGame
  <1>2. ASSUME NEW c \in Conns, NEW g \in Games, Connect(c, g) PROVE TypeInv'
    <2>1. /\ pc'[c] \in {"append", "register", "check", "hello", "reading", "gone"}
          /\ pc'[c] = "check" => Kind[g] # "hangman"
          /\ pc'[c] = "append" => Kind[g] = "hangman"
          /\ pc'[c] = "hello" => Kind[g] \in {"hangman", "whiteboard"}
      BY <1>2, JoinPCs DEF Connect
    <2> QED
      BY <1>2, <2>1, ZenonT(40) DEF Connect
  <1>3. ASSUME NEW c \in Conns, NewPlayer(c) PROVE TypeInv'
    <2>1. Append(players[gameOf[c]], c) \in Seq(Conns)
      <3>1. players[gameOf[c]] \in Seq(Conns)
        OBVIOUS
      <3> QED
        BY <3>1, AppendProperties
    <2>2. After(gameOf[c], "append") = "register"
      BY <1>3, JoinPCs DEF NewPlayer
    <2> QED
      BY <1>3, <2>1, <2>2 DEF NewPlayer, AppendPlayer
  <1>4. ASSUME NEW c \in Conns, Register(c) PROVE TypeInv'
    <2>1. /\ pc'[c] \in {"append", "register", "check", "hello", "reading", "gone"}
          /\ pc'[c] = "check" => Kind[gameOf[c]] # "hangman"
          /\ pc'[c] = "append" => Kind[gameOf[c]] = "hangman"
          /\ pc'[c] = "hello" => Kind[gameOf[c]] \in {"hangman", "whiteboard"}
      BY <1>4, JoinPCs DEF Register
    <2>2. TypeOK'
      BY <1>4, <2>1 DEF Register
    <2>3. WritersShape'
      BY <1>4, <2>1 DEF Register
    <2> QED
      BY <2>2, <2>3
  <1>5. ASSUME NEW c \in Conns, CheckSeats(c) PROVE TypeInv'
    BY <1>5 DEF CheckSeats
  <1>6. ASSUME NEW c \in Conns, LoadSeats(c) PROVE TypeInv'
    <2>1. Kind[gameOf[c]] # "hangman" =>
             After(gameOf[c], "store") \in {"register", "reading"}
      BY JoinPCs
    <2> QED
      BY <1>6, <2>1 DEF LoadSeats
  <1>7. ASSUME NEW c \in Conns, StoreSeats(c) PROVE TypeInv'
    <2> DEFINE g == gameOf[c]
    <2>0. PICK size \in {seatCount[c], connected[g]} :
             players' = [players EXCEPT ![g] = SeatIn(g, seats[c], size, c)]
      BY <1>7 DEF StoreSeats
    <2>1. /\ g \in Games /\ SeatIn(g, seats[c], size, c) \in Seq(Conns)
          /\ Elements(players'[g]) \in SUBSET Conns
          /\ Elements(players[g]) \in SUBSET Conns
      <3>0. size \in Nat
        <4>1. seatCount[c] \in Nat /\ connected[gameOf[c]] \in Nat
          OBVIOUS
        <4> QED
          BY <2>0, <4>1
      <3>1. /\ g \in Games /\ players[g] \in Seq(Conns)
            /\ seats[c] \in Seq(Conns)
        OBVIOUS
      <3>2. players \in [Games -> Seq(Conns)]
        OBVIOUS
      <3>3. SeatIn(g, seats[c], size, c) \in Seq(Conns)
        BY <3>0, <3>1, <3>2, SeatInType
      <3>4. players'[g] = SeatIn(g, seats[c], size, c)
        BY <2>0, <3>1, <3>2
      <3> HIDE DEF TypeInv, TypeOK, WritersShape
      <3>5. players'[g] \in Seq(Conns)
        BY <3>3, <3>4
      <3>6. /\ Elements(players'[g]) \in SUBSET Conns
            /\ Elements(players[g]) \in SUBSET Conns
        BY <3>1, <3>5, ElementsType, Zenon
      <3> QED
        BY <3>1, <3>3, <3>6
    <2>2. After(g, "store") \in {"register", "reading"}
      BY <1>7, JoinPCs DEF StoreSeats
    <2>3. PICK n \in {seatCount[c], connected[g]} :
             connected' = [connected EXCEPT ![g] = n + 1]
      BY <1>7 DEF StoreSeats
    <2>4. n \in Nat
      <3>1. seatCount[c] \in Nat /\ connected[gameOf[c]] \in Nat
        OBVIOUS
      <3> QED
        BY <2>3, <3>1
    <2>5. connected' \in [Games -> Nat]
      <3>1. connected \in [Games -> Nat]
        OBVIOUS
      <3> HIDE DEF TypeInv, TypeOK, WritersShape
      <3>2. n + 1 \in Nat
        BY <2>4
      <3> QED
        BY <2>3, <3>1, <3>2
    <2>6. lost' \in SUBSET Conns
      BY <1>7, <2>1 DEF StoreSeats
    <2>7. joined' \in [Conns -> Nat]
      <3>1. /\ joined' = [joined EXCEPT ![c] = version[gameOf[c]]]
            /\ joined \in [Conns -> Nat] /\ version[gameOf[c]] \in Nat
        BY <1>7 DEF StoreSeats
      <3> HIDE DEF TypeInv, TypeOK, WritersShape
      <3> QED
        BY <3>1
    <2>8. players' \in [Games -> Seq(Conns)]
      BY <2>0, <2>1
    <2> QED
      BY <1>7, <2>1, <2>2, <2>5, <2>6, <2>7, <2>8 DEF StoreSeats
  <1>8. ASSUME NEW c \in Conns, Snapshot(c) PROVE TypeInv'
    BY <1>8 DEF Snapshot
  <1>9. ASSUME NEW c \in Conns, HandlerBeginWrite(c) PROVE TypeInv'
    <2>1. WriteTarget(c) \in Conns \cup {NoConn}
      BY <1>9, HeadTailProperties DEF HandlerBeginWrite, WriteTarget
    <2>2. CASE WriteTarget(c) = NoConn \/ BeingWritten(WriteTarget(c))
      <3>1. /\ pc' = [pc EXCEPT ![c] = "gone"] /\ open' \in SUBSET Conns
            /\ UNCHANGED <<writing, ver, todo>>
        BY <1>9, <2>2 DEF HandlerBeginWrite
      <3>2. writing[c] = NoConn
        BY <1>9 DEF HandlerBeginWrite
      <3>3. UNCHANGED <<joinVars, gameVars, playerHashes, shown, queueVars, outVars,
                        clockVars, procVars>>
        BY <1>9 DEF HandlerBeginWrite
      <3>4. TypeOK'
        BY <3>1, <3>3
      <3>5. WritersShape'
        BY <3>1, <3>2, <3>3
      <3> QED
        BY <3>4, <3>5
    <2>3. CASE ~(WriteTarget(c) = NoConn \/ BeingWritten(WriteTarget(c)))
      <3>1. /\ writing' = [writing EXCEPT ![c] = WriteTarget(c)]
            /\ pc[c] \in {"hello", "broadcast"}
            /\ UNCHANGED <<pc, open, todo>>
        BY <1>9, <2>3 DEF HandlerBeginWrite
      <3>2. ver' \in [Conns -> Nat]
        <4>1. /\ ver' = [ver EXCEPT ![c] = IF pc[c] = "hello"
                                           THEN version[gameOf[c]] ELSE @]
              /\ ver \in [Conns -> Nat] /\ version[gameOf[c]] \in Nat
          BY <1>9, <2>3 DEF HandlerBeginWrite
        <4> HIDE DEF TypeInv, TypeOK, WritersShape
        <4> QED
          BY <4>1
      <3>3. writing' \in [Conns -> Conns \cup {NoConn}]
        BY <2>1, <3>1
      <3> QED
        BY <1>9, <3>1, <3>2, <3>3 DEF HandlerBeginWrite
    <2> QED
      BY <2>2, <2>3
  <1>10. ASSUME NEW c \in Conns, HandlerEndWrite(c) PROVE TypeInv'
    <2>1. /\ AfterWrite(c) \in
                {"snapshot", "broadcast", "reading", "load", "gone"}
          /\ AfterWrite(c) = "load" => Kind[gameOf[c]] # "hangman"
          /\ AfterWrite(c) = "broadcast" => todo[c] # <<>> /\ Len(todo[c]) > 1
      <3>1. pc[c] \in {"hello", "broadcast"}
        BY <1>10 DEF HandlerEndWrite
      <3>2. CASE pc[c] = "broadcast"
        BY <3>2 DEF AfterWrite
      <3>3. CASE pc[c] = "hello"
        BY <3>3, JoinPCs DEF AfterWrite
      <3> QED
        BY <3>1, <3>2, <3>3
    <2>2. todo[c] # <<>> => /\ Tail(todo[c]) \in Seq(Conns)
                            /\ Len(todo[c]) > 1 => Tail(todo[c]) # <<>>
      BY TailType
    <2>3. todo' \in [Conns -> Seq(Conns)]
      BY <1>10, <2>2 DEF HandlerEndWrite
    <2>4. shown' \in [Conns -> Nat]
      BY <1>10 DEF HandlerEndWrite
    <2> QED
      BY <1>10, <2>1, <2>2, <2>3, <2>4, ZenonT(40) DEF HandlerEndWrite
  <1>11. ASSUME NEW c \in Conns, NEW op \in {"play", "chat"}, ReadInput(c, op)
         PROVE  TypeInv'
    <2>1. PICK idx \in Int :
             inputs' = inputs \cup
                {[id |-> pushed + 1, game |-> gameOf[c], op |-> op,
                  idx |-> idx, from |-> hashOf[c]]}
      <3> DEFINE idx == IF Kind[gameOf[c]] = "hangman"
                        THEN IndexFunc(players[gameOf[c]], hashOf[c]) ELSE 0
      <3>1. players[gameOf[c]] \in Seq(Conns)
        OBVIOUS
      <3>2. idx \in Int
        <4> HIDE DEF TypeInv, TypeOK, WritersShape
        <4> QED
          BY <3>1, IndexFuncType
      <3>3. inputs' = inputs \cup
               {[id |-> pushed + 1, game |-> gameOf[c], op |-> op,
                 idx |-> idx, from |-> hashOf[c]]}
        BY <1>11 DEF ReadInput
      <3> HIDE DEF idx
      <3> QED
        BY <3>2, <3>3
    <2>2. pushed < MaxInputs /\ pushed' = pushed + 1
      BY <1>11 DEF ReadInput
    <2>3. inputs' \subseteq InputRecord /\ pushed' \in 0 .. MaxInputs
      <3>1. /\ pushed \in 0 .. MaxInputs /\ inputs \subseteq InputRecord
            /\ gameOf[c] \in Games /\ hashOf[c] \in Conns
            /\ op \in {"play", "chat", "exit"}
        OBVIOUS
      <3> HIDE DEF TypeInv, TypeOK, WritersShape
      <3> QED
        BY <2>1, <2>2, <3>1, InputType
    <2> QED
      BY <1>11, <2>3 DEF ReadInput
  <1>12. ASSUME NEW c \in Conns, Disconnect(c) PROVE TypeInv'
    BY <1>12 DEF Disconnect
  <1>13. ASSUME NEW c \in Conns, HandlerReturns(c) PROVE TypeInv'
    BY <1>13 DEF HandlerReturns
  <1>14. ASSUME NEW c \in Conns, NEW h \in Conns, Reconnect(c, h) PROVE TypeInv'
    BY <1>14 DEF Reconnect, Known
  <1>15. ASSUME NEW c \in Conns, Reseat(c) PROVE TypeInv'
    BY <1>15 DEF Reseat
  <1>28. ASSUME NEW c \in Conns, SeatPanics(c) PROVE TypeInv'
    BY <1>28 DEF SeatPanics
  <1>29. ASSUME NEW h \in Conns, AskExit(h) PROVE TypeInv'
    <2>1. exits' = [exits EXCEPT ![h] = exits[h] + 1] /\ exits \in [Conns -> Nat]
      BY <1>29 DEF AskExit
    <2>2. exits' \in [Conns -> Nat]
      <3> HIDE DEF TypeInv, TypeOK, WritersShape
      <3> QED
        BY <2>1
    <2> QED
      BY <1>29, <2>2 DEF AskExit
  <1>16. ASSUME NEW h \in Conns, ExitGame(h) PROVE TypeInv'
    <2>0. exits' \in [Conns -> Nat]
      <3>1. /\ exits' = [exits EXCEPT ![h] = exits[h] - 1] /\ exits[h] > 0
            /\ exits \in [Conns -> Nat]
        BY <1>16 DEF ExitGame
      <3> HIDE DEF TypeInv, TypeOK, WritersShape
      <3> QED
        BY <3>1
    <2>1. IndexFunc(players[gameOf[h]], h) \in Int
      <3>1. players[gameOf[h]] \in Seq(Conns)
        OBVIOUS
      <3> QED
        BY <3>1, IndexFuncType
    <2>2. \/ /\ pushed < MaxInputs /\ pushed' = pushed + 1
             /\ inputs' = inputs \cup
                   {[id |-> pushed + 1, game |-> gameOf[h], op |-> "exit",
                     idx |-> IndexFunc(players[gameOf[h]], h), from |-> h]}
          \/ UNCHANGED <<pushed, inputs>>
      BY <1>16 DEF ExitGame
    <2>3. inputs' \subseteq InputRecord /\ pushed' \in 0 .. MaxInputs
      <3>1. /\ pushed \in 0 .. MaxInputs /\ inputs \subseteq InputRecord
            /\ gameOf[h] \in Games
        OBVIOUS
      <3> HIDE DEF TypeInv, TypeOK, WritersShape
      <3> QED
        BY <2>1, <2>2, <3>1, InputType
    <2>4. playerHashes' \in [Conns -> Conns \cup {NoConn}]
      BY <1>16 DEF ExitGame
    <2> QED
      BY <1>16, <2>0, <2>3, <2>4 DEF ExitGame
  <1>17. ASSUME NEW m \in inputs, HandleInput(m) PROVE TypeInv'
    <2>1. m \in InputRecord /\ m.game \in Games /\ m.idx \in Int
      BY DEF InputRecord
    <2>2. CASE DropInput(m)
      BY <1>17, <2>2 DEF HandleInput, DropInput
    <2>3. CASE StaleIndexPanic(m)
      BY <1>17, <2>3 DEF HandleInput, StaleIndexPanic
    <2>4. CASE LastPlayerLeaves(m)
      <3>1. players' \in [Games -> Seq(Conns)]
        <4>1. <<>> \in Seq(Conns)
          BY EmptySeq
        <4>2. players' = [players EXCEPT ![m.game] = <<>>]
          BY <2>4 DEF LastPlayerLeaves
        <4> QED
          BY <2>1, <4>1, <4>2
      <3>2. /\ loop' = "stuck" /\ inputs' \subseteq InputRecord
            /\ UNCHANGED <<pushed, outputs>>
        BY <1>17, <2>4 DEF HandleInput, LastPlayerLeaves
      <3> QED
        BY <1>17, <2>4, <3>1, <3>2 DEF HandleInput, LastPlayerLeaves
    <2>5. CASE ApplyInput(m)
      <3>3. players' \in [Games -> Seq(Conns)]
        <4>1. CASE m.op = "exit" /\ players[m.game] # <<>>
          <5>1. SliceDelete(players[m.game], m.idx) \in Seq(Conns)
            BY <2>1, <2>5, <4>1, SliceDeleteType DEF ApplyInput, OutOfRange, InRange
          <5> QED
            BY <2>1, <2>5, <4>1, <5>1 DEF ApplyInput
        <4>2. CASE ~(m.op = "exit" /\ players[m.game] # <<>>)
          BY <2>5, <4>2 DEF ApplyInput
        <4> QED
          BY <4>1, <4>2
      <3>4. outputs' \subseteq OutputRecord
        <4>1. /\ outputs' = outputs \cup OutputOf(m) /\ now \in 0 .. MaxTicks
              /\ outputs \subseteq OutputRecord
          BY <2>5 DEF ApplyInput
        <4> HIDE DEF TypeInv, TypeOK, WritersShape
        <4> QED
          BY <2>1, <4>1, OutputType
      <3>5. lastModified' \in [Games -> -1 .. MaxTicks]
        <4>1. /\ lastModified' = [lastModified EXCEPT ![m.game] = now]
              /\ lastModified \in [Games -> -1 .. MaxTicks]
          BY <2>5 DEF ApplyInput, ModifiedAt
        <4>2. now \in -1 .. MaxTicks
          <5>1. now \in 0 .. MaxTicks
            OBVIOUS
          <5> HIDE DEF TypeInv, TypeOK, WritersShape
          <5> QED
            BY <5>1
        <4> QED
          BY <2>1, <4>1, <4>2
      <3>6. version' \in [Games -> Nat]
        <4>1. /\ version' = [version EXCEPT ![m.game] = version[m.game] + 1]
              /\ version \in [Games -> Nat]
          BY <2>1, <2>5 DEF ApplyInput
        <4> HIDE DEF TypeInv, TypeOK, WritersShape
        <4> QED
          BY <2>1, <4>1
      <3> QED
        BY <1>17, <2>5, <3>3, <3>4, <3>5, <3>6 DEF HandleInput, ApplyInput
    <2> QED
      BY <1>17, <2>2, <2>3, <2>4, <2>5 DEF HandleInput
  <1>18. ASSUME Tick PROVE TypeInv'
    <2>1. now < MaxTicks /\ now' = now + 1 /\ now \in 0 .. MaxTicks
          /\ tickC \in 0 .. MaxTicks
          /\ tickC' = IF tickC = 0 THEN now + 1 ELSE tickC
      BY <1>18 DEF Tick
    <2>2. now' \in 0 .. MaxTicks /\ tickC' \in 0 .. MaxTicks
      <3> HIDE DEF TypeInv, TypeOK, WritersShape
      <3> QED
        BY <2>1
    <2> QED
      BY <1>18, <2>2 DEF Tick
  <1>19. ASSUME Sweep PROVE TypeInv'
    <2>1. status' \in [Games -> {"none", "live", "swept"}]
      BY <1>19 DEF Sweep
    <2>2. lastTick' \in 0 .. MaxTicks /\ tickC' \in 0 .. MaxTicks
      <3>1. lastTick' = tickC /\ tickC' = 0 /\ tickC \in 0 .. MaxTicks
        BY <1>19 DEF Sweep
      <3> HIDE DEF TypeInv, TypeOK, WritersShape
      <3> QED
        BY <3>1
    <2> QED
      BY <1>19, <2>1, <2>2 DEF Sweep
  <1>20. ASSUME NEW o \in outputs, OutputPop(o) PROVE TypeInv'
    <2>1. o.game \in Games
      BY DEF OutputRecord
    <2> QED
      <3>1. /\ outPc' \in {"pop", "players"} /\ outGame' \in Games
            /\ outVer' \in Nat /\ outPc = "pop"
            /\ crashed' \in {"no", "orphan output"}
            /\ outputs' \subseteq OutputRecord
        <4>1. /\ IF status[o.game] = "live"
                 THEN /\ outPc' = "players" /\ outGame' = o.game
                      /\ outVer' = version[o.game] /\ crashed' = crashed
                 ELSE /\ crashed' = "orphan output"
                      /\ UNCHANGED <<outPc, outGame, outVer>>
              /\ outputs' = outputs \ {o} /\ outPc = "pop" /\ crashed = "no"
          BY <1>20 DEF OutputPop, Up
        <4>2. /\ outGame \in Games /\ outVer \in Nat
              /\ outputs \subseteq OutputRecord /\ version \in [Games -> Nat]
          OBVIOUS
        <4> HIDE DEF TypeInv, TypeOK, WritersShape
        <4> QED
          BY <2>1, <4>1, <4>2
      <3> QED
        BY <1>20, <3>1 DEF OutputPop
  <1>21. ASSUME OutputPlayers PROVE TypeInv'
    BY <1>21 DEF OutputPlayers
  <1>22. ASSUME OutputBeginWrite PROVE TypeInv'
    <2>1. playerHashes[Head(outTodo)] \in Conns \cup {NoConn}
      BY <1>22, HeadTailProperties DEF OutputBeginWrite
    <2> QED
      BY <1>22, <2>1 DEF OutputBeginWrite
  <1>23. ASSUME OutputEndWrite PROVE TypeInv'
    <2>1. /\ outTodo \in Seq(Conns) /\ outTodo # <<>>
          /\ outWriting \in Conns
      BY <1>23 DEF OutputEndWrite
    <2>2. /\ Tail(outTodo) \in Seq(Conns)
          /\ Len(outTodo) > 1 => Tail(outTodo) # <<>>
      BY <2>1, TailType
    <2> QED
      BY <1>23, <2>1, <2>2 DEF OutputEndWrite
  <1>24. CASE UNCHANGED vars
    BY <1>24 DEF vars
  <1> HIDE DEF TypeInv, TypeOK, WritersShape, gameVars, connVars, joinVars,
               sendVars, handlerVars, outVars, queueVars, clockVars, procVars
  <1>25. Client => TypeInv'
    BY <1>1, <1>2, <1>11, <1>12, <1>14, <1>16, <1>29 DEF Client
  <1>26. ASSUME NEW c \in Conns, HandlerStep(c) PROVE TypeInv'
    BY <1>3, <1>4, <1>5, <1>6, <1>7, <1>8, <1>9, <1>10, <1>13, <1>15, <1>26, <1>28
    DEF HandlerStep
  <1>27. GameLoop \/ OutputLoop => TypeInv'
    BY <1>17, <1>20, <1>21, <1>22, <1>23 DEF GameLoop, OutputLoop
  <1> QED
    BY <1>18, <1>19, <1>24, <1>25, <1>26, <1>27 DEF Next, Server

LEMMA TypeInvariant == Spec => []TypeInv
  BY InitType, StepType, PTL DEF Spec

\* The type invariant of the engine, whatever the games and connections.
THEOREM TypeCorrect == Spec => []TypeOK
  <1>1. TypeInv => TypeOK
    BY DEF TypeInv
  <1> QED
    BY <1>1, TypeInvariant, PTL

-----------------------------------------------------------------------------
(***************************************************************************)
(* Orphan outputs.  The sweep compares a game with the tick before the one *)
(* it received, so what makes OrphanOutputIsOld inductive is that ticks    *)
(* are swept in the order in which they fired.                             *)
(***************************************************************************)
TicksInOrder ==
    /\ lastTick <= now
    /\ tickC # 0 => lastTick < tickC /\ tickC <= now

\* The last input of a game is at least as recent as any output pushed for it.
OutputsDated ==
    \A o \in outputs : o.at <= lastModified[o.game] /\ lastModified[o.game] <= now

OrphanInv == TypeInv /\ TicksInOrder /\ OutputsDated /\ OrphanOutputIsOld

LEMMA InitOrphan == Init => OrphanInv
  <1>1. Init => TicksInOrder /\ OutputsDated /\ OrphanOutputIsOld
    BY DEF Init, TicksInOrder, OutputsDated, OrphanOutputIsOld
  <1> QED
    BY <1>1, InitType DEF OrphanInv

\* A step of a handler, a client or OutputLoop leaves the clock and the deleted
\* games alone, and pushes no output.
LEMMA ClockStep ==
    Client \/ (\E c \in Conns : HandlerStep(c)) \/ OutputLoop =>
        /\ UNCHANGED <<now, tickC, lastTick, lastModified>>
        /\ \A g \in Games : status[g] = "live" => status'[g] = "live"
        /\ outputs' \subseteq outputs
  <1> USE DEF gameVars, clockVars, queueVars
  <1>1. ASSUME NEW c \in Conns, HandlerStep(c)
        PROVE  UNCHANGED <<clockVars, status, outputs>>
    BY <1>1 DEF HandlerStep, NewPlayer, Register, CheckSeats, LoadSeats,
                StoreSeats, SeatPanics, Snapshot, HandlerBeginWrite, HandlerEndWrite,
                Reseat, HandlerReturns
  <1>2. ASSUME NEW g \in Games, NewGame(g)
        PROVE  /\ UNCHANGED <<clockVars, outputs>>
               /\ \A f \in Games : status[f] = "live" => status'[f] = "live"
    BY <1>2 DEF NewGame
  <1>3. ASSUME NEW c \in Conns, NEW g \in Games, Connect(c, g)
        PROVE  UNCHANGED <<clockVars, status, outputs>>
    BY <1>3 DEF Connect
  <1>4. ASSUME NEW c \in Conns,
               \/ \E h \in Conns : Reconnect(c, h)
               \/ \E op \in {"play", "chat"} : ReadInput(c, op)
               \/ Disconnect(c) \/ AskExit(c) \/ ExitGame(c)
        PROVE  UNCHANGED <<clockVars, status, outputs>>
    BY <1>4 DEF Reconnect, ReadInput, Disconnect, AskExit, ExitGame
  <1>5. OutputLoop => UNCHANGED <<clockVars, status>> /\ outputs' \subseteq outputs
    BY DEF OutputLoop, OutputPop, OutputPlayers, OutputBeginWrite, OutputEndWrite
  <1> QED
    BY <1>1, <1>2, <1>3, <1>4, <1>5 DEF Client

LEMMA StepOrphan == OrphanInv /\ [Next]_vars => OrphanInv'
  <1> DEFINE Clocked == TicksInOrder /\ OutputsDated /\ OrphanOutputIsOld
  <1> SUFFICES ASSUME OrphanInv, [Next]_vars PROVE Clocked'
    BY StepType DEF OrphanInv
  <1> USE DEF TicksInOrder, OutputsDated, OrphanOutputIsOld
  <1>1. /\ now \in Nat /\ tickC \in Nat /\ lastTick \in Nat
        /\ \A g \in Games : lastModified[g] \in Int
        /\ lastModified \in [Games -> -1 .. MaxTicks]
        /\ \A o \in outputs : o.game \in Games /\ o.at \in Nat
    <2>1. /\ now \in 0 .. MaxTicks /\ tickC \in 0 .. MaxTicks
          /\ lastTick \in 0 .. MaxTicks
          /\ lastModified \in [Games -> -1 .. MaxTicks]
          /\ outputs \subseteq OutputRecord
      BY DEF OrphanInv, TypeInv, TypeOK
    <2>2. \A o \in OutputRecord : o.game \in Games /\ o.at \in 0 .. MaxTicks
      BY DEF OutputRecord
    <2> QED
      BY <2>1, <2>2
  <1>2. Clocked
    BY DEF OrphanInv
  <1>3. CASE Client \/ (\E c \in Conns : HandlerStep(c)) \/ OutputLoop
    <2>1. /\ UNCHANGED <<now, tickC, lastTick, lastModified>>
          /\ \A g \in Games : status[g] = "live" => status'[g] = "live"
          /\ outputs' \subseteq outputs
      BY <1>3, ClockStep
    <2> QED
      BY <1>1, <1>2, <2>1
  <1>4. ASSUME NEW m \in inputs, HandleInput(m) PROVE Clocked'
    <2>1. UNCHANGED <<status, now, tickC, lastTick>>
      BY <1>4 DEF HandleInput, DropInput, StaleIndexPanic, LastPlayerLeaves,
                  ApplyInput, gameVars, clockVars
    <2>2. CASE ApplyInput(m)
      <3>1. /\ status[m.game] = "live"
            /\ \A g \in Games : g # m.game => lastModified'[g] = lastModified[g]
            /\ \A o \in outputs' :
                  o \in outputs \/ (o.game = m.game /\ o.at = now)
        BY <1>1, <2>2 DEF ApplyInput, OutputOf
      <3>2. m.game \in Games
        BY DEF OrphanInv, TypeInv, TypeOK, InputRecord
      <3>3. lastModified'[m.game] = now
        BY <1>1, <2>2, <3>2 DEF ApplyInput, ModifiedAt
      <3> QED
        BY <1>1, <1>2, <2>1, <3>1, <3>3
    <2>3. CASE ~ApplyInput(m)
      <3>1. UNCHANGED <<outputs, lastModified>>
        BY <1>4, <2>3 DEF HandleInput, DropInput, StaleIndexPanic,
                          LastPlayerLeaves, clockVars
      <3> QED
        BY <1>2, <2>1, <3>1
    <2> QED
      BY <2>2, <2>3
  <1>5. CASE Tick
    BY <1>1, <1>2, <1>5 DEF Tick, gameVars, queueVars
  <1>6. CASE Sweep
    <2>1. /\ lastTick' = tickC /\ tickC' = 0 /\ lastTick < tickC
          /\ now' = now /\ UNCHANGED <<lastModified, outputs>> /\ tickC <= now
      BY <1>2, <1>6 DEF Sweep, queueVars
    <2>2. ASSUME NEW o \in outputs, status'[o.game] # "live"
          PROVE  o.at + 2 <= lastTick'
      <3>1. status'[o.game] = IF status[o.game] = "live" /\ Expired(o.game)
                              THEN "swept" ELSE status[o.game]
        BY <1>1, <1>6 DEF Sweep
      <3> QED
        BY <1>1, <1>2, <2>1, <2>2, <3>1 DEF Expired
    <2> QED
      BY <1>1, <1>2, <2>1, <2>2
  <1>7. CASE UNCHANGED vars
    BY <1>2, <1>7 DEF vars, clockVars, gameVars, queueVars
  <1> QED
    BY <1>3, <1>4, <1>5, <1>6, <1>7 DEF Next, Server, GameLoop

\* Two ticks have fired since the push of an output whose game the cleanup has
\* deleted (gameLoop.go compares with the tick before the one it received).
THEOREM OrphanOutputsAreOld == Spec => []OrphanOutputIsOld
  <1>1. OrphanInv => OrphanOutputIsOld
    BY DEF OrphanInv
  <1> QED
    BY <1>1, InitOrphan, StepOrphan, PTL DEF Spec

-----------------------------------------------------------------------------
(***************************************************************************)
(* Joins: how far a handler has come says whether its player is in         *)
(* players and in playerHashes, and who may be writing to its connection.  *)
(***************************************************************************)

\* The control points of each package's handlers, as far as WritersShape does not
\* say; who a handler is that did not draw its hash (a reconnect), and who may exit.
JoinShape ==
    \A c \in Conns :
        /\ pc[c] \in {"reseat", "snapshot", "broadcast"} => Kind[gameOf[c]] = "hangman"
        /\ pc[c] = "check" => Kind[gameOf[c]] \in {"seated", "tictactoe"}
        /\ hashOf[c] # c =>
              /\ pc[c] \in {"reseat", "snapshot", "broadcast", "reading", "gone"}
              /\ Known(hashOf[c]) /\ gameOf[hashOf[c]] = gameOf[c]
        /\ exits[c] > 0 => Known(c)

\* x drew a hash and is past the point where its package appends to players.
InSeat(x) ==
    \/ pc[x] \in {"reading", "gone"}
    \/ pc[x] = "register" /\ Kind[gameOf[x]] \in {"hangman", "tictactoe"}
    \/ pc[x] \in {"hello", "snapshot", "broadcast"} /\ Kind[gameOf[x]] = "hangman"
Settled(x, g) == gameOf[x] = g /\ hashOf[x] = x /\ InSeat(x)

\* The players of a game, and those a handler is about to store, have seats; a
\* handler that gave up had none unless it was registered.
Placed(x, g) == Settled(x, g) /\ (pc[x] = "gone" => playerHashes[x] # NoConn \/ Known(x))
PlayersPlaced ==
    /\ \A g \in Games : \A x \in Elements(players[g]) : Placed(x, g)
    /\ \A c \in Conns : pc[c] = "store" =>
          \A x \in Elements(seats[c]) : Placed(x, gameOf[c])

\* The packages register before or after the append, but all before they read.
HashesOK ==
    /\ \A h \in Conns : playerHashes[h] # NoConn =>
          hashOf[playerHashes[h]] = h /\ pc[playerHashes[h]] # "idle"
    /\ \A h \in Conns : hashOf[h] = h /\ playerHashes[h] = NoConn =>
          \/ pc[h] \in {"idle", "append", "register", "gone"}
          \/ pc[h] \in {"check", "load", "store"} /\ Kind[gameOf[h]] = "tictactoe"
          \/ Known(h)

\* Who writes to whom: a hello to the handler's own connection, a broadcast
\* within a hangman game, an output within its game.
WritesOK ==
    /\ \A c \in Conns : pc[c] = "broadcast" =>
          \A x \in Elements(todo[c]) : Settled(x, gameOf[c])
    /\ \A c \in Conns : writing[c] # NoConn =>
          /\ pc[writing[c]] # "idle" /\ gameOf[writing[c]] = gameOf[c]
          /\ pc[c] = "hello" => writing[c] = c
    /\ outPc = "write" => \A x \in Elements(outTodo) : Settled(x, outGame)
    /\ outWriting # NoConn =>
          /\ pc[outWriting] # "idle" /\ gameOf[outWriting] = outGame
          /\ Kind[outGame] # "hangman" => outWriting = Head(outTodo)

JoinInv == TypeInv /\ JoinShape /\ PlayersPlaced /\ HashesOK /\ WritesOK

\* The order of the join steps, package by package.
LEMMA Order ==
    ASSUME NEW g \in Games
    PROVE  /\ Kind[g] = "hangman" =>
                 /\ After(g, "idle") = "append" /\ After(g, "append") = "register"
                 /\ After(g, "register") = "hello" /\ After(g, "hello") = "snapshot"
           /\ Kind[g] = "tictactoe" =>
                 /\ After(g, "idle") = "check" /\ After(g, "store") = "register"
                 /\ After(g, "register") = "reading"
           /\ Kind[g] = "seated" =>
                 /\ After(g, "idle") = "register" /\ After(g, "register") = "check"
                 /\ After(g, "store") = "reading"
           /\ Kind[g] = "whiteboard" =>
                 /\ After(g, "idle") = "register" /\ After(g, "register") = "hello"
                 /\ After(g, "hello") = "load" /\ After(g, "store") = "reading"
           /\ Kind[g] \in {"hangman", "tictactoe", "seated", "whiteboard"}
  <1> USE DEF After, JoinOrder
  <1>1. CASE Kind[g] = "hangman"
    BY <1>1
  <1>2. CASE Kind[g] = "tictactoe"
    BY <1>2
  <1>3. CASE Kind[g] = "seated"
    BY <1>3
  <1>4. CASE Kind[g] = "whiteboard"
    BY <1>4
  <1> QED
    BY <1>1, <1>2, <1>3, <1>4

\* What a step does to the handlers: nothing, or one goes on, or one begins.
Others(c) == \A d \in Conns \ {c} :
    pc'[d] = pc[d] /\ gameOf'[d] = gameOf[d] /\ hashOf'[d] = hashOf[d]
GoesOn(c) ==
    /\ Others(c) /\ gameOf'[c] = gameOf[c] /\ hashOf'[c] = hashOf[c]
    /\ \/ pc[c] = "append" /\ pc'[c] = "register"
       \/ /\ pc[c] = "register" /\ pc'[c] = After(gameOf[c], "register")
          /\ playerHashes'[hashOf[c]] = c
       \/ pc[c] = "store" /\ pc'[c] = After(gameOf[c], "store")
       \/ pc[c] = "store" /\ pc'[c] = "gone" /\ Kind[gameOf[c]] = "tictactoe"
       \/ pc[c] = "check" /\ pc'[c] \in {"load", "gone"}
       \/ pc[c] = "load" /\ pc'[c] = "store"
       \/ /\ pc[c] = "load" /\ Kind[gameOf[c]] = "tictactoe"
          /\ pc'[c] = After(gameOf[c], "store")
       \/ pc[c] = "hello" /\ pc'[c] \in {After(gameOf[c], "hello"), "gone"}
       \/ pc[c] = "snapshot" /\ pc'[c] \in {"broadcast", "reading"}
       \/ pc[c] = "broadcast" /\ pc'[c] \in {"broadcast", "reading", "gone"}
       \/ pc[c] = "reading" /\ pc'[c] = "gone"
       \/ pc[c] = "reseat" /\ pc'[c] \in {"snapshot", "gone"}
Begins(c) ==
    /\ Others(c) /\ pc[c] = "idle" /\ hashOf[c] = c
    /\ \/ /\ gameOf'[c] \in Games /\ hashOf'[c] = c
          /\ pc'[c] \in {After(gameOf'[c], "idle"), "gone"}
       \/ /\ Known(hashOf'[c]) /\ hashOf'[c] \in Conns
          /\ gameOf'[c] = gameOf[hashOf'[c]]
          /\ pc'[c] \in {"reseat", "snapshot", "gone"}

LEMMA HandlerMoves ==
    ASSUME TypeInv, JoinShape, [Next]_vars
    PROVE  \/ UNCHANGED <<pc, gameOf, hashOf>>
           \/ \E c \in Conns : GoesOn(c) \/ Begins(c)
  <1>0. /\ pc \in [Conns -> HandlerPCs] /\ gameOf \in [Conns -> Games]
        /\ hashOf \in [Conns -> Conns] /\ playerHashes \in [Conns -> Conns \cup {NoConn}]
        /\ \A c \in Conns : /\ pc[c] = "idle" => hashOf[c] = c
                            /\ pc[c] = "append" => Kind[gameOf[c]] = "hangman"
                            /\ writing[c] # NoConn => pc[c] \in {"hello", "broadcast"}
    BY DEF TypeInv, TypeOK, WritersShape, JoinShape
  <1> USE DEF joinVars, handlerVars, sendVars, Others, GoesOn, Begins
  <1>1. ASSUME NEW c \in Conns, HandlerStep(c)
        PROVE  GoesOn(c) \/ UNCHANGED <<pc, gameOf, hashOf>>
    <2>1. CASE NewPlayer(c)
      BY <1>0, <2>1, Order DEF NewPlayer
    <2>2. CASE Register(c)
      BY <1>0, <2>2 DEF Register
    <2>3. CASE CheckSeats(c)
      BY <1>0, <2>3 DEF CheckSeats
    <2>4. CASE LoadSeats(c)
      BY <1>0, <2>4 DEF LoadSeats
    <2>5. CASE StoreSeats(c)
      BY <1>0, <2>5 DEF StoreSeats
    <2>12. CASE SeatPanics(c)
      BY <1>0, <2>12 DEF SeatPanics
    <2>6. CASE Snapshot(c)
      BY <1>0, <2>6 DEF Snapshot
    <2>7. CASE HandlerBeginWrite(c) /\ pc' = pc
      BY <1>0, <2>7 DEF HandlerBeginWrite
    <2>8. CASE HandlerBeginWrite(c) /\ pc' # pc
      BY <1>0, <2>8 DEF HandlerBeginWrite
    <2>9. CASE HandlerEndWrite(c)
      BY <1>0, <2>9 DEF HandlerEndWrite, AfterWrite
    <2>10. CASE Reseat(c)
      BY <1>0, <2>10 DEF Reseat
    <2>11. CASE HandlerReturns(c)
      BY <1>0, <2>11 DEF HandlerReturns
    <2> QED
      BY <1>1, <2>1, <2>2, <2>3, <2>4, <2>5, <2>6, <2>7, <2>8, <2>9, <2>10, <2>11,
         <2>12
      DEF HandlerStep
  <1>2. ASSUME NEW c \in Conns, NEW g \in Games, Connect(c, g) PROVE Begins(c)
    BY <1>0, <1>2 DEF Connect
  <1>3. ASSUME NEW c \in Conns, NEW h \in Conns, Reconnect(c, h) PROVE Begins(c)
    BY <1>0, <1>3 DEF Reconnect
  <1> DEFINE Still == UNCHANGED <<pc, gameOf, hashOf>>
  <1>4. GameLoop \/ OutputLoop \/ Sweep \/ Tick \/ UNCHANGED vars => Still
    BY DEF GameLoop, HandleInput, OutputLoop, OutputPop, OutputPlayers,
       OutputBeginWrite, OutputEndWrite, Sweep, Tick, vars
  <1>5. ASSUME NEW c \in Conns,
               (\E op \in {"play", "chat"} : ReadInput(c, op)) \/ Disconnect(c) \/ AskExit(c) \/ ExitGame(c)
        PROVE  Still
    BY <1>5 DEF ReadInput, Disconnect, AskExit, ExitGame
  <1>6. ASSUME NEW g \in Games, NewGame(g) PROVE Still
    BY <1>6 DEF NewGame
  <1> HIDE DEF Still, Others, GoesOn, Begins
  <1>7. Still \/ \E c \in Conns : GoesOn(c) \/ Begins(c)
    BY <1>1, <1>2, <1>3, <1>4, <1>5, <1>6 DEF Next, Client, Server, Still
  <1> QED
    BY <1>7 DEF Still

\* Who has begun stays with its game and its hash, and does not lose its seat.
LEMMA Moves ==
    ASSUME TypeInv, JoinShape, [Next]_vars, NEW x \in Conns, pc[x] # "idle"
    PROVE  /\ gameOf'[x] = gameOf[x] /\ hashOf'[x] = hashOf[x] /\ pc'[x] # "idle"
           /\ InSeat(x) => InSeat(x)' 
           /\ Known(x) => Known(x)'
           /\ \A g \in Games : Settled(x, g) => Settled(x, g)'
  <1>1. /\ pc[x] \in HandlerPCs /\ gameOf[x] \in Games
        /\ pc[x] \in {"check", "load", "store"} => Kind[gameOf[x]] # "hangman"
        /\ pc[x] = "append" => Kind[gameOf[x]] = "hangman"
        /\ pc[x] = "hello" => Kind[gameOf[x]] \in {"hangman", "whiteboard"}
        /\ pc[x] \in {"reseat", "snapshot", "broadcast"} => Kind[gameOf[x]] = "hangman"
    BY DEF TypeInv, TypeOK, WritersShape, JoinShape
  <1>2. CASE UNCHANGED <<pc, gameOf, hashOf>>
    BY <1>2 DEF InSeat, Known, Settled
  <1>3. ASSUME NEW c \in Conns, c # x, GoesOn(c) \/ Begins(c)
        PROVE  pc'[x] = pc[x] /\ gameOf'[x] = gameOf[x] /\ hashOf'[x] = hashOf[x]
    BY <1>3 DEF GoesOn, Begins, Others
  <1>4. CASE GoesOn(x)
    <2> DEFINE k == Kind[gameOf[x]]
    <2>1. /\ gameOf'[x] = gameOf[x] /\ hashOf'[x] = hashOf[x]
          /\ pc'[x] # "idle"
          /\ k = "hangman" /\ pc[x] \in {"snapshot", "broadcast", "reading", "gone"}
                => pc'[x] \in {"broadcast", "reading", "gone"}
      BY <1>1, <1>4, Order DEF GoesOn
    <2>2. InSeat(x) => InSeat(x)'
      <3>1. CASE pc[x] \in {"reading", "gone"}
        BY <1>1, <1>4, <2>1, <3>1 DEF GoesOn, InSeat
      <3>2. CASE pc[x] = "register" /\ k \in {"hangman", "tictactoe"}
        BY <1>1, <1>4, <2>1, <3>2, Order DEF GoesOn, InSeat
      <3>3. CASE pc[x] \in {"hello", "snapshot", "broadcast"} /\ k = "hangman"
        BY <1>1, <1>4, <2>1, <3>3, Order DEF GoesOn, InSeat
      <3> QED
        BY <3>1, <3>2, <3>3 DEF InSeat
    <2>3. Known(x) => Known(x)'
      BY <2>1 DEF Known
    <2> QED
      BY <2>1, <2>2, <2>3 DEF Settled
  <1>5. ~Begins(x)
    BY DEF Begins
  <1>6. CASE \E c \in Conns : c # x /\ (GoesOn(c) \/ Begins(c))
    BY <1>3, <1>6 DEF InSeat, Known, Settled
  <1> QED
    BY <1>2, <1>4, <1>5, <1>6, HandlerMoves

\* Only who was told its hash asks to exit.
LEMMA ExitsMove ==
    ASSUME TypeInv, [Next]_vars, NEW x \in Conns, exits'[x] > 0
    PROVE  exits[x] > 0 \/ Known(x)
  <1>0. exits \in [Conns -> Nat]
    BY DEF TypeInv, TypeOK
  <1> USE DEF queueVars
  <1>1. ASSUME NEW h \in Conns, AskExit(h)
        PROVE  Known(h) /\ exits' = [exits EXCEPT ![h] = exits[h] + 1]
    BY <1>1 DEF AskExit
  <1>2. ASSUME NEW h \in Conns, ExitGame(h)
        PROVE  exits[h] > 0 /\ exits' = [exits EXCEPT ![h] = exits[h] - 1]
    BY <1>2 DEF ExitGame
  <1>3. ASSUME NEW c \in Conns,
               \/ \E g \in Games : Connect(c, g)
               \/ \E h \in Conns : Reconnect(c, h)
               \/ \E op \in {"play", "chat"} : ReadInput(c, op)
               \/ Disconnect(c) \/ HandlerStep(c)
        PROVE  exits' = exits
    BY <1>3 DEF Connect, Reconnect, ReadInput, Disconnect, HandlerStep, NewPlayer,
       Register, CheckSeats, LoadSeats, StoreSeats, SeatPanics, Snapshot,
       HandlerBeginWrite, HandlerEndWrite, Reseat, HandlerReturns
  <1>4. (\E g \in Games : NewGame(g)) \/ GameLoop \/ OutputLoop \/ Sweep \/ Tick
           \/ UNCHANGED vars => exits' = exits
    BY DEF NewGame, GameLoop, HandleInput, OutputLoop, OutputPop, OutputPlayers,
       OutputBeginWrite, OutputEndWrite, Sweep, Tick, vars
  <1>5. CASE exits' = exits
    BY <1>5
  <1>6. ASSUME NEW h \in Conns, AskExit(h) PROVE exits[x] > 0 \/ Known(x)
    BY <1>0, <1>1, <1>6
  <1>7. ASSUME NEW h \in Conns, ExitGame(h) PROVE exits[x] > 0 \/ Known(x)
    BY <1>0, <1>2, <1>7
  <1> QED
    BY <1>3, <1>4, <1>5, <1>6, <1>7 DEF Next, Client, Server

LEMMA ShapeStep ==
    ASSUME TypeInv, TypeInv', JoinShape, [Next]_vars
    PROVE  JoinShape'
  <1>8. ASSUME NEW x \in Conns, exits'[x] > 0 PROVE Known(x)'
    <2>1. Known(x)
      BY <1>8, ExitsMove DEF JoinShape
    <2>2. pc[x] # "idle"
      BY <2>1 DEF Known
    <2> QED
      BY <2>1, <2>2, Moves
  <1> SUFFICES ASSUME NEW x \in Conns
      PROVE  /\ pc'[x] \in {"reseat", "snapshot", "broadcast"}
                   => Kind[gameOf'[x]] = "hangman"
             /\ pc'[x] = "check" => Kind[gameOf'[x]] \in {"seated", "tictactoe"}
             /\ hashOf'[x] # x =>
                  /\ pc'[x] \in {"reseat", "snapshot", "broadcast", "reading", "gone"}
                  /\ \E h \in Conns :
                        hashOf'[x] = h /\ Known(h)' /\ gameOf'[h] = gameOf'[x]
    BY <1>8 DEF JoinShape, Known
  <1>1. /\ pc[x] \in HandlerPCs /\ gameOf[x] \in Games /\ hashOf[x] \in Conns
        /\ pc[x] \in {"check", "load", "store"} => Kind[gameOf[x]] # "hangman"
        /\ pc[x] = "append" => Kind[gameOf[x]] = "hangman"
        /\ pc[x] = "hello" => Kind[gameOf[x]] \in {"hangman", "whiteboard"}
        /\ pc[x] \in {"reseat", "snapshot", "broadcast"} => Kind[gameOf[x]] = "hangman"
        /\ pc[x] = "check" => Kind[gameOf[x]] \in {"seated", "tictactoe"}
    <2>1. /\ pc \in [Conns -> HandlerPCs] /\ gameOf \in [Conns -> Games]
          /\ hashOf \in [Conns -> Conns]
      BY DEF TypeInv, TypeOK
    <2>2. /\ pc[x] \in {"check", "load", "store"} => Kind[gameOf[x]] # "hangman"
          /\ pc[x] = "append" => Kind[gameOf[x]] = "hangman"
          /\ pc[x] = "hello" => Kind[gameOf[x]] \in {"hangman", "whiteboard"}
      BY DEF TypeInv, WritersShape
    <2> QED
      BY <2>1, <2>2 DEF JoinShape
  <1>0. hashOf[x] # x =>
              /\ pc[x] \in {"reseat", "snapshot", "broadcast", "reading", "gone"}
              /\ Known(hashOf[x]) /\ gameOf[hashOf[x]] = gameOf[x]
    BY DEF JoinShape
  <1>2. ASSUME NEW h \in Conns, Known(h)
        PROVE  Known(h)' /\ gameOf'[h] = gameOf[h] /\ Kind[gameOf[h]] = "hangman"
    <2>1. pc[h] # "idle"
      BY <1>2 DEF Known
    <2> QED
      BY <1>2, <2>1, Moves DEF Known
  <1>3. CASE pc'[x] = pc[x] /\ gameOf'[x] = gameOf[x] /\ hashOf'[x] = hashOf[x]
    BY <1>0, <1>1, <1>2, <1>3
  <1>4. CASE GoesOn(x)
    <2>1. /\ gameOf'[x] = gameOf[x] /\ hashOf'[x] = hashOf[x]
          /\ pc'[x] \in {"reseat", "snapshot", "broadcast"}
                   => Kind[gameOf[x]] = "hangman"
      BY <1>1, <1>4, Order DEF GoesOn
    <2>2. pc'[x] = "check" => Kind[gameOf[x]] \in {"seated", "tictactoe"}
      BY <1>1, <1>4, Order DEF GoesOn
    <2>3. hashOf[x] # x =>
             pc'[x] \in {"reseat", "snapshot", "broadcast", "reading", "gone"}
      BY <1>0, <1>1, <1>4, Order DEF GoesOn
    <2> QED
      BY <1>0, <1>1, <1>2, <2>1, <2>2, <2>3
  <1>5. CASE Begins(x)
    <2>1. CASE /\ gameOf'[x] \in Games /\ hashOf'[x] = x
               /\ pc'[x] \in {After(gameOf'[x], "idle"), "gone"}
      BY <2>1, Order
    <2>2. CASE /\ Known(hashOf'[x]) /\ hashOf'[x] \in Conns
               /\ gameOf'[x] = gameOf[hashOf'[x]]
               /\ pc'[x] \in {"reseat", "snapshot", "gone"}
      BY <1>2, <2>2
    <2> QED
      BY <1>5, <2>1, <2>2 DEF Begins
  <1>6. ASSUME NEW c \in Conns, c # x, GoesOn(c) \/ Begins(c)
        PROVE  pc'[x] = pc[x] /\ gameOf'[x] = gameOf[x] /\ hashOf'[x] = hashOf[x]
    BY <1>6 DEF GoesOn, Begins, Others
  <1> QED
    BY <1>3, <1>4, <1>5, <1>6, HandlerMoves

\* A player that has a seat keeps it and its place in playerHashes, unless it left.
LEMMA StillPlaced ==
    ASSUME TypeInv, JoinShape, HashesOK, [Next]_vars,
           \A h \in Conns : playerHashes[h] # NoConn => playerHashes'[h] # NoConn \/ Known(h),
           NEW x \in Conns, NEW g \in Games, Placed(x, g)
    PROVE  Placed(x, g)'
  <1>1. pc[x] # "idle" /\ Settled(x, g)
    BY DEF Placed, Settled, InSeat
  <1>2. Settled(x, g)' /\ (Known(x) => Known(x)')
    BY <1>1, Moves
  <1>3. pc'[x] = "gone" => playerHashes'[x] # NoConn \/ Known(x)'
    <2>1. CASE playerHashes[x] # NoConn \/ Known(x)
      BY <1>2, <2>1
    <2>2. CASE playerHashes[x] = NoConn /\ ~Known(x)
      <3>1. pc[x] = "register"
        BY <1>1, <2>2 DEF HashesOK, Placed, Settled, InSeat
      <3>2. pc'[x] # "gone"
        <4>1. CASE UNCHANGED <<pc, gameOf, hashOf>>
          BY <3>1, <4>1
        <4>2. ASSUME NEW c \in Conns, GoesOn(c) \/ Begins(c) PROVE pc'[x] # "gone"
          <5>1. gameOf[x] \in Games
            BY DEF TypeInv, TypeOK
          <5> QED
            BY <3>1, <4>2, <5>1, Order DEF GoesOn, Begins, Others
        <4> QED
          BY <4>1, <4>2, HandlerMoves
      <3> QED
        BY <3>2
    <2> QED
      BY <2>1, <2>2
  <1> QED
    BY <1>2, <1>3 DEF Placed

\* Entries of playerHashes are set by Register and Reseat, and removed by the exit
\* of a player that was told its hash.
LEMMA HashesStep ==
    ASSUME TypeInv, JoinShape, HashesOK, [Next]_vars
    PROVE  HashesOK' /\ \A h \in Conns : playerHashes[h] # NoConn =>
                           playerHashes'[h] # NoConn \/ Known(h)
  <1>0. /\ playerHashes \in [Conns -> Conns \cup {NoConn}] /\ hashOf \in [Conns -> Conns]
        /\ gameOf \in [Conns -> Games] /\ pc \in [Conns -> HandlerPCs]
    BY DEF TypeInv, TypeOK
  <1> USE DEF joinVars, sendVars, connVars, gameVars, queueVars, outVars, clockVars,
              procVars, handlerVars
  <1>1. \/ playerHashes' = playerHashes
        \/ \E c \in Conns : /\ pc[c] \in {"register", "reseat"}
                            /\ playerHashes' = [playerHashes EXCEPT ![hashOf[c]] = c]
        \/ \E h \in Conns : /\ Known(h) /\ UNCHANGED <<pc, hashOf, gameOf>>
                            /\ playerHashes' = [playerHashes EXCEPT ![h] = NoConn]
    <2>1. ASSUME NEW c \in Conns, HandlerStep(c)
          PROVE  \/ playerHashes' = playerHashes
                 \/ /\ pc[c] \in {"register", "reseat"}
                    /\ playerHashes' = [playerHashes EXCEPT ![hashOf[c]] = c]
      BY <2>1 DEF HandlerStep, NewPlayer, Register, CheckSeats, LoadSeats, StoreSeats,
         SeatPanics, Snapshot, HandlerBeginWrite, HandlerEndWrite, Reseat, HandlerReturns
    <2>2. ASSUME NEW c \in Conns,
                 \/ \E g \in Games : Connect(c, g)
                 \/ \E h \in Conns : Reconnect(c, h)
                 \/ \E op \in {"play", "chat"} : ReadInput(c, op)
                 \/ Disconnect(c) \/ AskExit(c)
          PROVE  playerHashes' = playerHashes
      BY <2>2 DEF Connect, Reconnect, ReadInput, Disconnect, AskExit
    <2>3. ASSUME NEW h \in Conns, ExitGame(h)
          PROVE  \/ playerHashes' = playerHashes
                 \/ /\ Known(h) /\ UNCHANGED <<pc, hashOf, gameOf>>
                    /\ playerHashes' = [playerHashes EXCEPT ![h] = NoConn]
      BY <2>3 DEF ExitGame, JoinShape
    <2>4. (\E g \in Games : NewGame(g)) \/ GameLoop \/ OutputLoop \/ Sweep \/ Tick
             \/ UNCHANGED vars => playerHashes' = playerHashes
      BY DEF NewGame, GameLoop, HandleInput, OutputLoop, OutputPop, OutputPlayers,
         OutputBeginWrite, OutputEndWrite, Sweep, Tick, vars
    <2> QED
      BY <2>1, <2>2, <2>3, <2>4 DEF Next, Client, Server
  <1>2. \A h \in Conns : playerHashes[h] # NoConn =>
           playerHashes'[h] # NoConn \/ Known(h)
    BY <1>0, <1>1
  <1>3. ASSUME NEW h \in Conns, playerHashes'[h] # NoConn
        PROVE  hashOf'[playerHashes'[h]] = h /\ pc'[playerHashes'[h]] # "idle"
    <2>1. PICK c \in Conns : playerHashes'[h] = c /\ hashOf[c] = h /\ pc[c] # "idle"
      <3>1. CASE playerHashes'[h] = playerHashes[h]
        BY <1>0, <1>3, <3>1 DEF HashesOK
      <3>2. CASE playerHashes'[h] # playerHashes[h]
        BY <1>0, <1>1, <1>3, <3>2
      <3> QED
        BY <3>1, <3>2
    <2> QED
      BY <2>1, Moves
  <1>4. ASSUME NEW h \in Conns, hashOf'[h] = h, playerHashes'[h] = NoConn
        PROVE  \/ pc'[h] \in {"idle", "append", "register", "gone"}
               \/ pc'[h] \in {"check", "load", "store"} /\ Kind[gameOf'[h]] = "tictactoe"
               \/ Known(h)'
    <2>1. CASE playerHashes[h] # NoConn
      <3>1. Known(h) /\ pc[h] # "idle"
        BY <1>2, <1>4, <2>1 DEF Known
      <3> QED
        BY <3>1, Moves
    <2>2. CASE playerHashes[h] = NoConn /\ pc'[h] = pc[h]
               /\ gameOf'[h] = gameOf[h] /\ hashOf'[h] = hashOf[h]
      BY <1>4, <2>2 DEF HashesOK, Known
    <2>3. CASE playerHashes[h] = NoConn /\ GoesOn(h)
      <3>1. hashOf[h] = h /\ gameOf'[h] = gameOf[h] /\ gameOf[h] \in Games
        BY <1>0, <1>4, <2>3 DEF GoesOn
      <3>2. CASE Known(h)
        <4>1. pc[h] # "idle"
          BY <3>2 DEF Known
        <4> QED
          BY <3>2, <4>1, Moves
      <3>3. CASE pc[h] \in {"check", "load", "store"} /\ Kind[gameOf[h]] = "tictactoe"
        BY <2>3, <3>1, <3>3, Order DEF GoesOn
      <3>4. CASE pc[h] = "append"
        BY <2>3, <3>4 DEF GoesOn
      <3>5. pc[h] # "register"
        BY <1>4, <2>3, <3>1, Order DEF GoesOn
      <3> QED
        BY <2>3, <3>1, <3>2, <3>3, <3>4, <3>5 DEF HashesOK, GoesOn
    <2>4. CASE Begins(h)
      <3>1. ~Known(h)
        BY <2>4 DEF Begins, Known
      <3>2. gameOf'[h] \in Games /\ pc'[h] \in {After(gameOf'[h], "idle"), "gone"}
        BY <1>4, <2>4, <3>1 DEF Begins
      <3> QED
        BY <3>2, Order
    <2>5. ASSUME NEW c \in Conns, c # h, GoesOn(c) \/ Begins(c)
          PROVE  pc'[h] = pc[h] /\ gameOf'[h] = gameOf[h] /\ hashOf'[h] = hashOf[h]
      BY <2>5 DEF GoesOn, Begins, Others
    <2> QED
      BY <2>1, <2>2, <2>3, <2>4, <2>5, HandlerMoves
  <1> QED
    BY <1>2, <1>3, <1>4 DEF HashesOK

\* What SeatIn leaves of what the handler loaded and of what is there.
LEMMA SeatInElements ==
    ASSUME players \in [Games -> Seq(Conns)], NEW g \in Games,
           NEW s \in Seq(Conns), NEW size \in Nat, NEW c \in Conns
    PROVE  /\ Elements(SeatIn(g, s, size, c))
                 \subseteq Elements(s) \cup Elements(players[g]) \cup {c}
           /\ c \in Elements(SeatIn(g, s, size, c))
  <1>1. players[g] \in Seq(Conns) /\ Len(players[g]) \in Nat
    BY LenProperties
  <1>2. /\ Elements(Append(players[g], c)) = Elements(players[g]) \cup {c}
        /\ Elements(Append(s, c)) = Elements(s) \cup {c}
    BY <1>1, ElementsAppend
  <1>3. ASSUME size < Len(players[g])
        PROVE  /\ Elements([players[g] EXCEPT ![size + 1] = c])
                     \subseteq Elements(players[g]) \cup {c}
               /\ c \in Elements([players[g] EXCEPT ![size + 1] = c])
    <2> DEFINE r == [players[g] EXCEPT ![size + 1] = c]
    <2>1. size + 1 \in 1 .. Len(players[g])
      BY <1>1, <1>3
    <2>2. Elements(r) \subseteq Elements(players[g]) \cup {c}
      BY <1>1, <2>1, ElementsExcept
    <2>3. Len(r) = Len(players[g]) /\ r[size + 1] = c
      <3>1. DOMAIN players[g] = 1 .. Len(players[g])
        BY <1>1, LenProperties
      <3> QED
        BY <1>1, <2>1, <3>1, ExceptSeq
    <2> HIDE DEF r
    <2>4. c \in Elements(r)
      BY <2>1, <2>3 DEF Elements
    <2> QED
      BY <2>2, <2>4 DEF r
  <1> QED
    BY <1>2, <1>3 DEF SeatIn, AppendPlayer

\* Who enters a players slice, and what a handler loads from it.
LEMMA PlayersMove ==
    ASSUME TypeInv, [Next]_vars
    PROVE  /\ \A g \in Games : \A x \in Elements(players'[g]) :
                 \/ x \in Elements(players[g])
                 \/ \E c \in Conns :
                       /\ gameOf[c] = g
                       /\ \/ pc[c] = "append" /\ pc'[c] = "register" /\ x = c
                          \/ /\ pc[c] = "store" /\ pc'[c] = After(g, "store")
                             /\ x = c \/ x \in Elements(seats[c])
           /\ \A c \in Conns : pc'[c] = "store" =>
                 \/ pc[c] = "store" /\ seats'[c] = seats[c]
                 \/ pc[c] = "load" /\ seats'[c] = players[gameOf[c]]
  <1> DEFINE Enters(g, x) ==
               \E c \in Conns :
                  /\ gameOf[c] = g
                  /\ \/ pc[c] = "append" /\ pc'[c] = "register" /\ x = c
                     \/ /\ pc[c] = "store" /\ pc'[c] = After(g, "store")
                        /\ x = c \/ x \in Elements(seats[c])
             Kept == \A g \in Games : \A x \in Elements(players'[g]) :
                        x \in Elements(players[g]) \/ Enters(g, x)
             Loads == \A c \in Conns : pc'[c] = "store" =>
                         \/ pc[c] = "store" /\ seats'[c] = seats[c]
                         \/ pc[c] = "load" /\ seats'[c] = players[gameOf[c]]
  <1>0. /\ players \in [Games -> Seq(Conns)] /\ seats \in [Conns -> Seq(Conns)]
        /\ gameOf \in [Conns -> Games] /\ pc \in [Conns -> HandlerPCs]
        /\ \A c \in Conns : /\ pc[c] = "append" => Kind[gameOf[c]] = "hangman"
                            /\ pc[c] = "store" => Kind[gameOf[c]] # "hangman"
                            /\ writing[c] # NoConn => pc[c] \in {"hello", "broadcast"}
                            /\ pc[c] = "hello" => Kind[gameOf[c]] \in {"hangman", "whiteboard"}
    BY DEF TypeInv, TypeOK, WritersShape
  <1> USE DEF joinVars, sendVars, connVars, gameVars, queueVars, outVars, clockVars,
              procVars, handlerVars
  <1>1. ASSUME NEW c \in Conns, NewPlayer(c) PROVE Kept /\ Loads
    <2>1. /\ gameOf[c] \in Games /\ players[gameOf[c]] \in Seq(Conns)
          /\ pc[c] = "append" /\ pc' = [pc EXCEPT ![c] = "register"] /\ seats' = seats
          /\ players' = [players EXCEPT ![gameOf[c]] = Append(players[gameOf[c]], c)]
      BY <1>0, <1>1, Order DEF NewPlayer, AppendPlayer
    <2>2. Elements(Append(players[gameOf[c]], c)) = Elements(players[gameOf[c]]) \cup {c}
      BY <2>1, ElementsAppend
    <2>3. Kept
      BY <1>0, <2>1, <2>2
    <2>4. Loads
      BY <1>0, <2>1
    <2> QED
      BY <2>3, <2>4
  <1>2. ASSUME NEW c \in Conns, StoreSeats(c) PROVE Kept /\ Loads
    <2> DEFINE g == gameOf[c]
    <2>1. /\ g \in Games /\ seats[c] \in Seq(Conns)
          /\ pc[c] = "store" /\ pc' = [pc EXCEPT ![c] = After(g, "store")]
          /\ seats' = seats
      BY <1>0, <1>2 DEF StoreSeats
    <2>6. PICK size \in {seatCount[c], connected[g]} :
             players' = [players EXCEPT ![g] = SeatIn(g, seats[c], size, c)]
      BY <1>2 DEF StoreSeats
    <2>7. size \in Nat
      <3>1. seatCount[c] \in Nat /\ connected[gameOf[c]] \in Nat
        BY DEF TypeInv, TypeOK
      <3> QED
        BY <2>6, <3>1
    <2>2. Elements(SeatIn(g, seats[c], size, c))
             \subseteq Elements(seats[c]) \cup Elements(players[g]) \cup {c}
      BY <1>0, <2>1, <2>7, SeatInElements
    <2>3. pc'[c] = After(g, "store")
      BY <1>0, <2>1
    <2>4. Kept
      <3> SUFFICES ASSUME NEW f \in Games, NEW x \in Elements(players'[f])
                   PROVE  x \in Elements(players[f]) \/ Enters(f, x)
        OBVIOUS
      <3>1. CASE f # g
        BY <1>0, <2>1, <2>6, <3>1
      <3>2. CASE f = g
        <4>1. x \in Elements(seats[c]) \cup Elements(players[g]) \cup {c}
          BY <1>0, <2>1, <2>2, <2>6, <3>2
        <4> QED
          BY <2>1, <2>3, <3>2, <4>1
      <3> QED
        BY <3>1, <3>2
    <2>5. Loads
      BY <1>0, <2>1, Order
    <2> QED
      BY <2>4, <2>5
  <1>3. ASSUME NEW c \in Conns, LoadSeats(c) PROVE Kept /\ Loads
    <2>1. players' = players /\ seats' = [seats EXCEPT ![c] = players[gameOf[c]]]
          /\ pc[c] = "load" /\ pc' = [pc EXCEPT ![c] = pc'[c]]
      BY <1>0, <1>3 DEF LoadSeats
    <2> QED
      BY <1>0, <2>1
  <1>12. ASSUME NEW c \in Conns, SeatPanics(c) PROVE players' = players /\ Loads
    BY <1>0, <1>12 DEF SeatPanics
  <1>4. ASSUME NEW c \in Conns, Register(c) \/ CheckSeats(c) \/ Snapshot(c)
                  \/ HandlerBeginWrite(c) \/ Reseat(c) \/ HandlerReturns(c)
        PROVE  players' = players /\ Loads
    BY <1>0, <1>4, Order DEF Register, CheckSeats, Snapshot,
       HandlerBeginWrite, Reseat, HandlerReturns
  <1>5. ASSUME NEW c \in Conns, HandlerEndWrite(c) PROVE players' = players /\ Loads
    <2>1. AfterWrite(c) # "store"
      BY <1>0, <1>5, Order DEF HandlerEndWrite, AfterWrite
    <2> QED
      BY <1>0, <1>5, <2>1 DEF HandlerEndWrite
  <1>6. ASSUME NEW c \in Conns, \/ \E g \in Games : Connect(c, g)
                                \/ \E h \in Conns : Reconnect(c, h)
        PROVE  players' = players /\ Loads
    <2>1. \A g \in Games : After(g, "idle") # "store"
      BY Order
    <2> QED
      BY <1>0, <1>6, <2>1 DEF Connect, Reconnect
  <1>13. ASSUME NEW c \in Conns, \/ \E op \in {"play", "chat"} : ReadInput(c, op)
                                 \/ Disconnect(c) \/ AskExit(c) \/ ExitGame(c)
         PROVE  UNCHANGED <<players, pc, seats>>
    BY <1>13 DEF ReadInput, Disconnect, AskExit, ExitGame
  <1>7. (\E g \in Games : NewGame(g)) \/ OutputLoop \/ Sweep \/ Tick
           \/ UNCHANGED vars => UNCHANGED <<players, pc, seats>>
    BY DEF NewGame, OutputLoop, OutputPop, OutputPlayers,
       OutputBeginWrite, OutputEndWrite, Sweep, Tick, vars
  <1>8. ASSUME NEW m \in inputs, HandleInput(m) PROVE Kept /\ Loads
    <2>1. UNCHANGED <<pc, seats>> /\ m.game \in Games /\ m.idx \in Int
      BY <1>8 DEF HandleInput, TypeInv, TypeOK, InputRecord
    <2>2. CASE players' = players
      BY <2>1, <2>2
    <2>3. CASE LastPlayerLeaves(m)
      <3>1. players' = [players EXCEPT ![m.game] = <<>>]
        BY <2>3 DEF LastPlayerLeaves
      <3> QED
        BY <1>0, <2>1, <3>1, ElementsEmpty
    <2>4. CASE ApplyInput(m) /\ m.op = "exit" /\ players[m.game] # <<>>
      <3>1. /\ players' = [players EXCEPT ![m.game] = SliceDelete(players[m.game], m.idx)]
            /\ 0 <= m.idx /\ m.idx < Len(players[m.game])
        BY <1>0, <2>1, <2>4 DEF ApplyInput, OutOfRange, InRange
      <3>2. Elements(SliceDelete(players[m.game], m.idx)) \subseteq Elements(players[m.game])
        <4>1. players[m.game] \in Seq(Conns)
          BY <1>0, <2>1
        <4> QED
          BY <2>1, <3>1, <4>1, ElementsDelete
      <3> QED
        BY <1>0, <2>1, <3>1, <3>2
    <2> QED
      BY <1>8, <2>2, <2>3, <2>4 DEF HandleInput, DropInput, StaleIndexPanic, ApplyInput
  <1> HIDE DEF Kept, Loads
  <1>9. players' = players => Kept
    BY DEF Kept
  <1>10. UNCHANGED <<pc, seats>> => Loads
    BY DEF Loads
  <1>11. Kept /\ Loads
    BY <1>1, <1>2, <1>3, <1>4, <1>5, <1>6, <1>7, <1>8, <1>9, <1>10, <1>12, <1>13
    DEF Next, Client, Server, HandlerStep, GameLoop
  <1> QED
    BY <1>11 DEF Kept, Loads

LEMMA PlacedStep ==
    ASSUME TypeInv, JoinShape, HashesOK, PlayersPlaced, [Next]_vars
    PROVE  PlayersPlaced'
  <1>0. /\ gameOf \in [Conns -> Games] /\ players \in [Games -> Seq(Conns)]
        /\ \A g \in Games : Elements(players[g]) \subseteq Conns
        /\ \A c \in Conns : Elements(seats[c]) \subseteq Conns
    <2>1. /\ gameOf \in [Conns -> Games] /\ players \in [Games -> Seq(Conns)]
          /\ seats \in [Conns -> Seq(Conns)]
      BY DEF TypeInv, TypeOK
    <2>2. ASSUME NEW s \in Seq(Conns) PROVE Elements(s) \subseteq Conns
      BY ElementsType, Zenon
    <2> QED
      BY <2>1, <2>2
  <1>1. ASSUME NEW x \in Conns, NEW g \in Games, Placed(x, g) PROVE Placed(x, g)'
    BY <1>1, HashesStep, StillPlaced
  <1>2. ASSUME NEW c \in Conns,
               \/ pc[c] = "append" /\ pc'[c] = "register"
               \/ pc[c] = "store" /\ pc'[c] = After(gameOf[c], "store")
        PROVE  Placed(c, gameOf[c])'
    <2>1. /\ hashOf[c] = c /\ gameOf[c] \in Games
          /\ pc[c] = "append" => Kind[gameOf[c]] = "hangman"
          /\ pc[c] = "store" => Kind[gameOf[c]] # "hangman"
      BY <1>0, <1>2 DEF JoinShape, TypeInv, WritersShape
    <2>2. gameOf'[c] = gameOf[c] /\ hashOf'[c] = hashOf[c]
      BY <1>2, Moves
    <2>3. PICK g \in Games : g = gameOf[c]
      BY <2>1
    <2>4. pc'[c] \in {"register", "reading"} /\
             (pc'[c] = "register" => Kind[g] \in {"hangman", "tictactoe"})
      BY <1>2, <2>1, <2>3, Order
    <2>5. Placed(c, g)'
      BY <2>1, <2>2, <2>3, <2>4 DEF Placed, Settled, InSeat
    <2> QED
      BY <2>2, <2>3, <2>5 DEF Placed, Settled
  <1>3. ASSUME NEW g \in Games, NEW x \in Elements(players'[g]) PROVE Placed(x, g)'
    <2>1. CASE x \in Elements(players[g])
      BY <1>0, <1>1, <2>1 DEF PlayersPlaced
    <2>2. ASSUME NEW c \in Conns, gameOf[c] = g,
                 \/ pc[c] = "append" /\ pc'[c] = "register" /\ x = c
                 \/ /\ pc[c] = "store" /\ pc'[c] = After(g, "store")
                    /\ x = c \/ x \in Elements(seats[c])
          PROVE  Placed(x, g)'
      <3>1. CASE x = c
        <4>1. Placed(c, gameOf[c])'
          BY <1>2, <2>2
        <4>2. gameOf'[c] = gameOf[c]
          BY <2>2, Moves
        <4> QED
          BY <2>2, <3>1, <4>1, <4>2 DEF Placed, Settled
      <3>2. CASE pc[c] = "store" /\ x \in Elements(seats[c])
        BY <1>0, <1>1, <2>2, <3>2 DEF PlayersPlaced
      <3> QED
        BY <2>2, <3>1, <3>2
    <2> QED
      BY <2>1, <2>2, PlayersMove
  <1>4. ASSUME NEW c \in Conns, pc'[c] = "store", NEW x \in Elements(seats'[c]),
               NEW g \in Games, g = gameOf[c]
        PROVE  Placed(x, g)' /\ gameOf'[c] = g
    <2>1. \/ pc[c] = "store" /\ seats'[c] = seats[c]
          \/ pc[c] = "load" /\ seats'[c] = players[g]
      BY <1>4, PlayersMove
    <2>2. Placed(x, g) /\ x \in Conns
      BY <1>0, <1>4, <2>1 DEF PlayersPlaced
    <2> QED
      BY <1>1, <1>4, <2>1, <2>2, Moves
  <1>5. ASSUME NEW c \in Conns, pc'[c] = "store", NEW x \in Elements(seats'[c])
        PROVE  \A g \in Games : g = gameOf'[c] => Placed(x, g)'
    BY <1>0, <1>4, <1>5
  <1> QED
    <2>1. gameOf' \in [Conns -> Games]
      BY StepType DEF TypeInv, TypeOK
    <2> QED
      BY <1>3, <1>5, <2>1 DEF PlayersPlaced, Placed, Settled, InSeat, Known

\* Who begins to write to whom, and what is left of a list of players to write to.
LEMMA WritesMove ==
    ASSUME TypeInv, [Next]_vars
    PROVE  /\ \A c \in Conns : pc'[c] = "broadcast" =>
                 \/ pc[c] = "broadcast" /\ Elements(todo'[c]) \subseteq Elements(todo[c])
                 \/ pc[c] = "snapshot" /\ todo'[c] = players[gameOf[c]]
           /\ \A c \in Conns : writing'[c] # NoConn =>
                 \/ writing'[c] = writing[c] /\ pc'[c] = pc[c]
                 \/ pc[c] = "hello" /\ pc'[c] = "hello" /\ writing'[c] = c
                 \/ /\ pc[c] = "broadcast" /\ pc'[c] = "broadcast"
                    /\ writing'[c] = playerHashes[Head(todo[c])]
  <1> DEFINE Lists == \A c \in Conns : pc'[c] = "broadcast" =>
                         \/ /\ pc[c] = "broadcast"
                            /\ Elements(todo'[c]) \subseteq Elements(todo[c])
                         \/ pc[c] = "snapshot" /\ todo'[c] = players[gameOf[c]]
             Targets == \A c \in Conns : writing'[c] # NoConn =>
                           \/ writing'[c] = writing[c] /\ pc'[c] = pc[c]
                           \/ pc[c] = "hello" /\ pc'[c] = "hello" /\ writing'[c] = c
                           \/ /\ pc[c] = "broadcast" /\ pc'[c] = "broadcast"
                              /\ writing'[c] = playerHashes[Head(todo[c])]
  <1>0. /\ todo \in [Conns -> Seq(Conns)] /\ writing \in [Conns -> Conns \cup {NoConn}]
        /\ gameOf \in [Conns -> Games] /\ pc \in [Conns -> HandlerPCs]
        /\ \A c \in Conns : /\ pc[c] = "broadcast" => todo[c] # <<>>
                            /\ writing[c] # NoConn => pc[c] \in {"hello", "broadcast"}
                            /\ pc[c] = "append" => Kind[gameOf[c]] = "hangman"
                            /\ pc[c] = "hello" => Kind[gameOf[c]] \in {"hangman", "whiteboard"}
                            /\ pc[c] \in {"load", "store"} => Kind[gameOf[c]] # "hangman"
    BY DEF TypeInv, TypeOK, WritersShape
  <1> USE DEF joinVars, sendVars, connVars, gameVars, queueVars, outVars, clockVars,
              procVars, handlerVars
  <1>1. ASSUME NEW c \in Conns, Snapshot(c) PROVE Lists /\ Targets
    BY <1>0, <1>1 DEF Snapshot
  <1>2. ASSUME NEW c \in Conns, HandlerBeginWrite(c) PROVE Lists /\ Targets
    <2>1. /\ todo' = todo /\ writing[c] = NoConn /\ pc[c] \in {"hello", "broadcast"}
          /\ \/ /\ pc' = [pc EXCEPT ![c] = "gone"] /\ writing' = writing
             \/ /\ pc' = pc /\ writing' = [writing EXCEPT ![c] = WriteTarget(c)]
      BY <1>0, <1>2 DEF HandlerBeginWrite
    <2>2. Lists
      BY <1>0, <2>1
    <2>3. Targets
      BY <1>0, <2>1 DEF WriteTarget
    <2> QED
      BY <2>2, <2>3
  <1>3. ASSUME NEW c \in Conns, HandlerEndWrite(c) PROVE Lists /\ Targets
    <2>1. /\ writing' = [writing EXCEPT ![c] = NoConn]
          /\ pc' = [pc EXCEPT ![c] = AfterWrite(c)]
          /\ todo' = [todo EXCEPT ![c] = IF todo[c] = <<>> THEN todo[c] ELSE Tail(todo[c])]
          /\ pc[c] \in {"hello", "broadcast"}
      BY <1>0, <1>3 DEF HandlerEndWrite
    <2>2. AfterWrite(c) = "broadcast" => pc[c] = "broadcast"
      BY <1>0, <2>1, Order DEF AfterWrite
    <2>3. pc[c] = "broadcast" => Elements(Tail(todo[c])) \subseteq Elements(todo[c])
      <3>1. todo[c] \in Seq(Conns) /\ (pc[c] = "broadcast" => todo[c] # <<>>)
        BY <1>0
      <3> QED
        BY <3>1, ElementsHeadTail
    <2>4. Lists
      BY <1>0, <2>1, <2>2, <2>3
    <2>5. Targets
      BY <1>0, <2>1
    <2> QED
      BY <2>4, <2>5
  <1>4. ASSUME NEW c \in Conns, NewPlayer(c) \/ Register(c) \/ CheckSeats(c)
                  \/ LoadSeats(c) \/ StoreSeats(c) \/ SeatPanics(c) \/ Reseat(c)
                  \/ HandlerReturns(c)
        PROVE  Lists /\ Targets
    <2>1. /\ UNCHANGED <<todo, writing>> /\ pc' = [pc EXCEPT ![c] = pc'[c]]
          /\ pc'[c] # "broadcast" /\ pc[c] \notin {"hello", "broadcast"}
      <3>1. CASE NewPlayer(c)
        BY <1>0, <3>1, Order DEF NewPlayer
      <3>2. CASE Register(c)
        BY <1>0, <3>2, Order DEF Register
      <3>3. CASE CheckSeats(c)
        BY <1>0, <3>3 DEF CheckSeats
      <3>4. CASE LoadSeats(c)
        BY <1>0, <3>4, Order DEF LoadSeats
      <3>5. CASE StoreSeats(c)
        BY <1>0, <3>5, Order DEF StoreSeats
      <3>8. CASE SeatPanics(c)
        BY <1>0, <3>8 DEF SeatPanics
      <3>6. CASE Reseat(c)
        BY <1>0, <3>6 DEF Reseat
      <3>7. CASE HandlerReturns(c)
        BY <1>0, <3>7 DEF HandlerReturns
      <3> QED
        BY <1>4, <3>1, <3>2, <3>3, <3>4, <3>5, <3>6, <3>7, <3>8
    <2> QED
      BY <1>0, <2>1
  <1>5. ASSUME NEW c \in Conns, \/ \E g \in Games : Connect(c, g)
                                \/ \E h \in Conns : Reconnect(c, h)
        PROVE  Lists /\ Targets
    <2>1. /\ UNCHANGED <<todo, writing>> /\ pc' = [pc EXCEPT ![c] = pc'[c]]
          /\ pc'[c] # "broadcast" /\ pc[c] = "idle"
      BY <1>0, <1>5, Order DEF Connect, Reconnect
    <2> QED
      BY <1>0, <2>1
  <1>6. ASSUME NEW c \in Conns, \/ \E op \in {"play", "chat"} : ReadInput(c, op)
                                \/ Disconnect(c) \/ AskExit(c) \/ ExitGame(c)
        PROVE  UNCHANGED <<pc, todo, writing>>
    BY <1>6 DEF ReadInput, Disconnect, AskExit, ExitGame
  <1>7. (\E g \in Games : NewGame(g)) \/ GameLoop \/ OutputLoop \/ Sweep \/ Tick
           \/ UNCHANGED vars => UNCHANGED <<pc, todo, writing>>
    BY DEF NewGame, GameLoop, HandleInput, OutputLoop, OutputPop, OutputPlayers,
       OutputBeginWrite, OutputEndWrite, Sweep, Tick, vars
  <1>8. UNCHANGED <<pc, todo, writing>> => Lists /\ Targets
    OBVIOUS
  <1> HIDE DEF Lists, Targets
  <1>9. Lists /\ Targets
    BY <1>1, <1>2, <1>3, <1>4, <1>5, <1>6, <1>7, <1>8
    DEF Next, Client, Server, HandlerStep
  <1> QED
    BY <1>9 DEF Lists, Targets

LEMMA OutputMoves ==
    ASSUME TypeInv, [Next]_vars
    PROVE  /\ outPc' = "write" =>
                 /\ outGame' = outGame
                 /\ \/ outPc = "write" /\ Elements(outTodo') \subseteq Elements(outTodo)
                    \/ outTodo' = players[outGame]
           /\ outWriting' # NoConn =>
                 /\ outPc = "write" /\ outGame' = outGame /\ outTodo' = outTodo
                 /\ outWriting' \in {outWriting, playerHashes[Head(outTodo)]}
  <1>0. /\ outTodo \in Seq(Conns) /\ (outPc = "write" => outTodo # <<>>)
        /\ outWriting # NoConn => outPc = "write"
    BY DEF TypeInv, TypeOK, WritersShape
  <1> USE DEF outVars
  <1>1. Client \/ (\E c \in Conns : HandlerStep(c)) \/ GameLoop \/ Sweep \/ Tick
           \/ UNCHANGED vars => UNCHANGED outVars
    <2>1. ASSUME NEW c \in Conns, HandlerStep(c) PROVE UNCHANGED outVars
      BY <2>1 DEF HandlerStep, NewPlayer, Register, CheckSeats, LoadSeats, StoreSeats,
         SeatPanics, Snapshot, HandlerBeginWrite, HandlerEndWrite, Reseat, HandlerReturns
    <2>2. Client => UNCHANGED outVars
      BY DEF Client, NewGame, Connect, Reconnect, ReadInput, Disconnect, AskExit, ExitGame
    <2>3. GameLoop \/ Sweep \/ Tick \/ UNCHANGED vars => UNCHANGED outVars
      BY DEF GameLoop, HandleInput, DropInput, StaleIndexPanic, LastPlayerLeaves,
         ApplyInput, Sweep, Tick, vars
    <2> QED
      BY <2>1, <2>2, <2>3
  <1>2. ASSUME NEW o \in outputs, OutputPop(o)
        PROVE  outPc' # "write" /\ outWriting' = NoConn
    BY <1>0, <1>2 DEF OutputPop
  <1>3. CASE OutputPlayers
    BY <1>0, <1>3 DEF OutputPlayers
  <1>4. CASE OutputBeginWrite
    BY <1>0, <1>4 DEF OutputBeginWrite
  <1>5. CASE OutputEndWrite
    <2>1. outTodo # <<>> /\ outPc = "write"
      BY <1>0, <1>5 DEF OutputEndWrite
    <2>2. Elements(Tail(outTodo)) \subseteq Elements(outTodo)
      BY <1>0, <2>1, ElementsHeadTail
    <2> QED
      BY <1>5, <2>1, <2>2 DEF OutputEndWrite
  <1>6. CASE UNCHANGED outVars
    BY <1>0, <1>6
  <1> QED
    BY <1>1, <1>2, <1>3, <1>4, <1>5, <1>6 DEF Next, Server, OutputLoop

\* The connection that playerHashes names for a player is in the player's game.
LEMMA TargetInGame ==
    ASSUME JoinShape, HashesOK, NEW h \in Conns, NEW g, Settled(h, g),
           NEW t \in Conns, playerHashes[h] = t
    PROVE  /\ pc[t] # "idle" /\ gameOf[t] = g
           /\ Kind[g] # "hangman" => t = h
  <1>1. hashOf[t] = h /\ pc[t] # "idle" /\ gameOf[h] = g
    BY NoConnAssumption DEF HashesOK, Settled
  <1>2. t # h => gameOf[h] = gameOf[t] /\ Kind[gameOf[h]] = "hangman"
    BY <1>1 DEF JoinShape, Known
  <1> QED
    BY <1>1, <1>2

LEMMA WritesStep ==
    ASSUME JoinInv, [Next]_vars
    PROVE  WritesOK'
  <1>0. /\ TypeInv /\ JoinShape /\ HashesOK /\ PlayersPlaced /\ WritesOK
        /\ gameOf \in [Conns -> Games] /\ outGame \in Games
        /\ writing' \in [Conns -> Conns \cup {NoConn}]
        /\ outWriting' \in Conns \cup {NoConn}
        /\ todo \in [Conns -> Seq(Conns)] /\ outTodo \in Seq(Conns)
        /\ \A c \in Conns : pc[c] = "broadcast" => todo[c] # <<>>
        /\ outPc = "write" => outTodo # <<>>
    BY StepType DEF JoinInv, TypeInv, TypeOK, WritersShape
  <1>1. /\ \A c \in Conns : Elements(todo[c]) \subseteq Conns
        /\ Elements(outTodo) \subseteq Conns
        /\ \A g \in Games : Elements(players[g]) \subseteq Conns
    <2>1. \A g \in Games : players[g] \in Seq(Conns)
      BY <1>0 DEF TypeInv, TypeOK
    <2>2. ASSUME NEW s \in Seq(Conns) PROVE Elements(s) \subseteq Conns
      BY ElementsType, Zenon
    <2> QED
      BY <1>0, <2>1, <2>2
  <1>2. ASSUME NEW x \in Conns, NEW g \in Games, Settled(x, g) PROVE Settled(x, g)'
    <2>1. pc[x] # "idle"
      BY <1>2 DEF Settled, InSeat
    <2> QED
      BY <1>0, <1>2, <2>1, Moves
  <1>3. ASSUME NEW c \in Conns, pc'[c] = "broadcast", NEW x \in Elements(todo'[c])
        PROVE  Settled(x, gameOf[c])' /\ gameOf'[c] = gameOf[c]
    <2>1. PICK g \in Games : g = gameOf[c]
      BY <1>0
    <2>2. Settled(x, g) /\ x \in Conns /\ pc[c] # "idle"
      BY <1>0, <1>1, <1>3, <2>1, WritesMove DEF WritesOK, PlayersPlaced, Placed
    <2>3. gameOf'[c] = g
      BY <1>0, <2>1, <2>2, Moves
    <2> QED
      BY <1>2, <2>1, <2>2, <2>3 DEF Settled
  <1>4. ASSUME NEW c \in Conns, writing'[c] # NoConn
        PROVE  /\ pc'[writing'[c]] # "idle" /\ gameOf'[writing'[c]] = gameOf'[c]
               /\ pc'[c] = "hello" => writing'[c] = c
    <2>1. PICK t \in Conns : t = writing'[c]
      BY <1>0, <1>4
    <2>2. /\ pc[t] # "idle" /\ gameOf[t] = gameOf[c] /\ pc[c] # "idle"
          /\ pc'[c] = "hello" => t = c
      <3>1. CASE writing[c] = t /\ pc'[c] = pc[c]
        <4>1. pc[c] \in {"hello", "broadcast"}
          BY <1>0, <1>4, <2>1, <3>1 DEF TypeInv, WritersShape
        <4> QED
          BY <1>0, <1>4, <2>1, <3>1, <4>1 DEF WritesOK
      <3>2. CASE pc[c] = "hello" /\ t = c
        BY <3>2
      <3>3. CASE pc[c] = "broadcast" /\ pc'[c] = "broadcast" /\ t = playerHashes[Head(todo[c])]
        <4>1. Head(todo[c]) \in Elements(todo[c])
          BY <1>0, <3>3, ElementsHeadTail
        <4>2. Head(todo[c]) \in Conns /\ Settled(Head(todo[c]), gameOf[c])
          BY <1>0, <1>1, <3>3, <4>1 DEF WritesOK
        <4>3. PICK h \in Conns : h = Head(todo[c])
          BY <4>2
        <4>4. JoinShape /\ HashesOK /\ Settled(h, gameOf[c]) /\ playerHashes[h] = t
          BY <1>0, <3>3, <4>2, <4>3
        <4>5. pc[t] # "idle" /\ gameOf[t] = gameOf[c]
          BY <4>4, TargetInGame
        <4> QED
          BY <3>3, <4>5
      <3> QED
        BY <1>0, <1>4, <2>1, <3>1, <3>2, <3>3, WritesMove
    <2>3. /\ pc'[t] # "idle" /\ gameOf'[t] = gameOf[t] /\ gameOf'[c] = gameOf[c]
      BY <1>0, <2>2, Moves
    <2> QED
      BY <2>1, <2>2, <2>3
  <1>5. ASSUME outPc' = "write", NEW x \in Elements(outTodo')
        PROVE  Settled(x, outGame)'
    <2>1. Settled(x, outGame) /\ x \in Conns /\ outGame' = outGame
      BY <1>0, <1>1, <1>5, OutputMoves DEF WritesOK, PlayersPlaced, Placed
    <2>2. PICK g \in Games : g = outGame
      BY <1>0
    <2> QED
      BY <1>2, <2>1, <2>2 DEF Settled
  <1>6. ASSUME outWriting' # NoConn
        PROVE  /\ pc'[outWriting'] # "idle" /\ gameOf'[outWriting'] = outGame'
               /\ Kind[outGame'] # "hangman" => outWriting' = Head(outTodo')
    <2>1. PICK t \in Conns : t = outWriting'
      BY <1>0, <1>6
    <2>2. /\ outPc = "write" /\ outGame' = outGame /\ outTodo' = outTodo
          /\ t \in {outWriting, playerHashes[Head(outTodo)]}
      BY <1>0, <1>6, <2>1, OutputMoves
    <2>3. /\ pc[t] # "idle" /\ gameOf[t] = outGame
          /\ Kind[outGame] # "hangman" => t = Head(outTodo)
      <3>1. CASE t = outWriting
        BY <1>0, <1>6, <2>1, <3>1 DEF WritesOK
      <3>2. CASE t = playerHashes[Head(outTodo)]
        <4>1. Head(outTodo) \in Elements(outTodo)
          BY <1>0, <2>2, ElementsHeadTail
        <4>2. Head(outTodo) \in Conns /\ Settled(Head(outTodo), outGame)
          BY <1>0, <1>1, <2>2, <4>1 DEF WritesOK
        <4>3. PICK h \in Conns : h = Head(outTodo)
          BY <4>2
        <4>4. PICK g \in Games : g = outGame
          BY <1>0
        <4>5. JoinShape /\ HashesOK /\ Settled(h, g) /\ playerHashes[h] = t
          BY <1>0, <3>2, <4>2, <4>3, <4>4
        <4>6. pc[t] # "idle" /\ gameOf[t] = g /\ (Kind[g] # "hangman" => t = h)
          BY <4>5, TargetInGame
        <4> QED
          BY <4>3, <4>4, <4>6
      <3> QED
        BY <2>2, <3>1, <3>2
    <2>4. pc'[t] # "idle" /\ gameOf'[t] = gameOf[t]
      BY <1>0, <2>3, Moves
    <2> QED
      BY <2>1, <2>2, <2>3, <2>4
  <1> QED
    BY <1>3, <1>4, <1>5, <1>6 DEF WritesOK, Settled, InSeat

LEMMA JoinStart == Init => JoinInv
  <1> SUFFICES ASSUME Init PROVE JoinInv
    OBVIOUS
  <1>1. /\ \A g \in Games : Elements(players[g]) = {}
        /\ \A c \in Conns : /\ pc[c] = "idle" /\ hashOf[c] = c
                            /\ playerHashes[c] = NoConn /\ writing[c] = NoConn
        /\ \A c \in Conns : exits[c] = 0
        /\ outPc = "pop" /\ outWriting = NoConn
    BY ElementsEmpty DEF Init
  <1>2. JoinShape /\ HashesOK /\ WritesOK
    BY <1>1 DEF JoinShape, HashesOK, WritesOK
  <1>3. PlayersPlaced
    BY <1>1 DEF PlayersPlaced
  <1> QED
    BY <1>2, <1>3, InitType DEF JoinInv

LEMMA JoinStep == JoinInv /\ [Next]_vars => JoinInv'
  <1> SUFFICES ASSUME JoinInv, [Next]_vars PROVE JoinInv'
    OBVIOUS
  <1>1. TypeInv /\ JoinShape /\ HashesOK /\ PlayersPlaced
    BY DEF JoinInv
  <1>2. TypeInv'
    BY <1>1, StepType
  <1> QED
    BY <1>1, <1>2, ShapeStep, HashesStep, PlacedStep, WritesStep DEF JoinInv

LEMMA JoinInvariant == Spec => []JoinInv
  BY JoinStart, JoinStep, PTL DEF Spec

\* OutputLoop finds a connection for every player of a game, for any number of
\* handlers that join, reconnect and leave at once, but for a hangman or tictactoe
\* player before it registers and a hangman player that was told its hash.
THEOREM PlayersHaveConns == Spec => []RegisteredHasConn
  <1>1. JoinInv => RegisteredHasConn
    <2> SUFFICES ASSUME JoinInv, NEW g \in Games, NEW h \in Elements(players[g]),
                        playerHashes[h] = NoConn
                 PROVE  \/ Kind[g] \in {"hangman", "tictactoe"} /\ pc[h] = "register"
                        \/ Known(h)
      BY DEF RegisteredHasConn
    <2>1. Placed(h, g) /\ h \in Conns
      <3>1. players[g] \in Seq(Conns)
        BY DEF JoinInv, TypeInv, TypeOK
      <3>2. Elements(players[g]) \in SUBSET Conns
        BY <3>1, ElementsType, Zenon
      <3> QED
        BY <3>2 DEF JoinInv, PlayersPlaced
    <2> QED
      BY <2>1 DEF JoinInv, HashesOK, Placed, Settled, InSeat
  <1> QED
    BY <1>1, JoinInvariant, PTL

\* Nobody else writes on a whiteboard connection while its handler sends the
\* initial image (whiteboardRoutes.go: "before registering the player so the
\* output loop doesn't race with this initial write"), for any number of
\* connections and games.
THEOREM ImagesAreSentAlone == Spec => []InitialImageAlone
  <1>1. JoinInv => InitialImageAlone
    <2> SUFFICES ASSUME JoinInv, NEW c \in Conns, pc[c] = "hello",
                        Kind[gameOf[c]] = "whiteboard"
                 PROVE  outWriting # c /\ \A h \in Conns \ {c} : writing[h] # c
      BY DEF InitialImageAlone
    <2>0. /\ outTodo \in Seq(Conns) /\ (outPc = "write" => outTodo # <<>>)
          /\ outWriting # NoConn => outPc = "write"
          /\ c # NoConn
      BY DEF JoinInv, TypeInv, TypeOK, WritersShape
    <2>1. outWriting # c
      <3> SUFFICES ASSUME outWriting = c PROVE FALSE
        OBVIOUS
      <3>1. outPc = "write" /\ c = Head(outTodo) /\ gameOf[c] = outGame
        BY <2>0 DEF JoinInv, WritesOK
      <3>2. c \in Elements(outTodo)
        BY <2>0, <3>1, ElementsHeadTail
      <3>3. Settled(c, outGame)
        BY <3>1, <3>2 DEF JoinInv, WritesOK
      <3> QED
        BY <3>3 DEF Settled, InSeat
    <2>2. ASSUME NEW h \in Conns, writing[h] = c PROVE h = c
      <3>1. pc[h] \in {"hello", "broadcast"} /\ gameOf[h] = gameOf[c]
        BY <2>0, <2>2 DEF JoinInv, TypeInv, WritersShape, WritesOK
      <3>2. pc[h] # "broadcast"
        BY <3>1 DEF JoinInv, JoinShape
      <3> QED
        BY <2>0, <2>2, <3>1, <3>2 DEF JoinInv, WritesOK
    <2> QED
      BY <2>1, <2>2
  <1> QED
    BY <1>1, JoinInvariant, PTL

-----------------------------------------------------------------------------
(***************************************************************************)
(* Indices: players of a hangman game are there once, and who sent an      *)
(* input never enters the slice again.                                     *)
(***************************************************************************)
SendersKnown ==
    \A m \in inputs :
        /\ m.op = "exit" => Kind[m.game] = "hangman"
        /\ Kind[m.game] = "hangman" => Known(m.from)
PlayersDistinct == \A g \in Games : Kind[g] = "hangman" => Distinct(players[g])

IndexInv == JoinInv /\ SendersKnown /\ PlayersDistinct /\ IndexOnlyShiftsLeft

-----------------------------------------------------------------------------
(***************************************************************************)

\* What a step does to the players of a hangman game.
LEMMA HangmanMoves ==
    ASSUME TypeInv, [Next]_vars, NEW g \in Games, Kind[g] = "hangman"
    PROVE  \/ players'[g] = players[g]
           \/ /\ inputs' \subseteq inputs
              /\ \/ \E c \in Conns : /\ pc[c] = "append"
                                     /\ players'[g] = Append(players[g], c)
                 \/ players'[g] = <<>>
                 \/ \E idx \in Int : /\ 0 <= idx /\ idx < Len(players[g])
                                     /\ players'[g] = SliceDelete(players[g], idx)
  <1> DEFINE Same == players'[g] = players[g]
             Append1 == /\ inputs' \subseteq inputs
                        /\ \E c \in Conns : /\ pc[c] = "append"
                                            /\ players'[g] = Append(players[g], c)
             Removal == /\ inputs' \subseteq inputs
                        /\ \/ players'[g] = <<>>
                           \/ \E idx \in Int :
                                 /\ 0 <= idx /\ idx < Len(players[g])
                                 /\ players'[g] = SliceDelete(players[g], idx)
  <1>0. /\ players \in [Games -> Seq(Conns)] /\ gameOf \in [Conns -> Games]
        /\ \A c \in Conns : pc[c] = "store" => Kind[gameOf[c]] # "hangman"
        /\ \A m \in inputs : m.game \in Games /\ m.idx \in Int
    BY DEF TypeInv, TypeOK, WritersShape, InputRecord
  <1> USE DEF gameVars, queueVars
  <1>1. ASSUME NEW c \in Conns, NewPlayer(c) PROVE Same \/ Append1
    BY <1>0, <1>1 DEF NewPlayer, AppendPlayer
  <1>2. ASSUME NEW c \in Conns, StoreSeats(c) PROVE Same
    BY <1>0, <1>2 DEF StoreSeats
  <1>3. ASSUME NEW c \in Conns, Register(c) \/ CheckSeats(c) \/ LoadSeats(c)
                  \/ SeatPanics(c) \/ Snapshot(c) \/ HandlerBeginWrite(c) \/ HandlerEndWrite(c)
                  \/ Reseat(c) \/ HandlerReturns(c)
        PROVE  Same
    BY <1>3 DEF Register, CheckSeats, LoadSeats, SeatPanics, Snapshot, HandlerBeginWrite,
       HandlerEndWrite, Reseat, HandlerReturns
  <1>4. Client \/ OutputLoop \/ Sweep \/ Tick \/ UNCHANGED vars => Same
    BY DEF Client, NewGame, Connect, Reconnect, ReadInput, Disconnect, AskExit, ExitGame,
       OutputLoop, OutputPop, OutputPlayers, OutputBeginWrite, OutputEndWrite,
       Sweep, Tick, vars
  <1>5. ASSUME NEW m \in inputs, HandleInput(m) PROVE Same \/ Removal
    <2>1. inputs' \subseteq inputs
      BY <1>5 DEF HandleInput
    <2>2. CASE players' = players
      BY <2>2
    <2>3. CASE LastPlayerLeaves(m)
      BY <1>0, <2>1, <2>3 DEF LastPlayerLeaves
    <2>4. CASE ApplyInput(m) /\ m.op = "exit" /\ players[m.game] # <<>>
      <3>1. /\ players' = [players EXCEPT ![m.game] = SliceDelete(players[m.game], m.idx)]
            /\ 0 <= m.idx /\ m.idx < Len(players[m.game])
        BY <1>0, <2>4 DEF ApplyInput, OutOfRange, InRange
      <3> QED
        BY <1>0, <2>1, <3>1
    <2> QED
      BY <1>5, <2>2, <2>3, <2>4 DEF HandleInput, DropInput, StaleIndexPanic, ApplyInput
  <1> HIDE DEF Same, Append1, Removal
  <1>6. Same \/ Append1 \/ Removal
    BY <1>1, <1>2, <1>3, <1>4, <1>5 DEF Next, Server, HandlerStep, GameLoop
  <1> QED
    BY <1>6 DEF Same, Append1, Removal

\* Who sends an input, and with which index.
LEMMA InputsMove ==
    ASSUME TypeInv, JoinShape, [Next]_vars, NEW m \in inputs', m \notin inputs
    PROVE  /\ UNCHANGED <<players, pc, gameOf, hashOf>>
           /\ Kind[m.game] = "hangman" => m.idx = IndexFunc(players[m.game], m.from)
           /\ \/ m.op # "exit" /\ \E c \in Conns :
                    pc[c] = "reading" /\ m.game = gameOf[c] /\ m.from = hashOf[c]
              \/ m.op = "exit" /\ Known(m.from) /\ m.game = gameOf[m.from]
  <1> USE DEF gameVars, queueVars, handlerVars, joinVars
  <1>1. ASSUME NEW c \in Conns, NEW op \in {"play", "chat"}, ReadInput(c, op)
        PROVE  /\ UNCHANGED <<players, pc, gameOf, hashOf>>
               /\ Kind[m.game] = "hangman" => m.idx = IndexFunc(players[m.game], m.from)
               /\ m.op # "exit" /\ pc[c] = "reading"
               /\ m.game = gameOf[c] /\ m.from = hashOf[c]
    BY <1>1 DEF ReadInput
  <1>2. ASSUME NEW h \in Conns, ExitGame(h)
        PROVE  /\ UNCHANGED <<players, pc, gameOf, hashOf>>
               /\ m.idx = IndexFunc(players[m.game], m.from)
               /\ m.op = "exit" /\ Known(m.from) /\ m.game = gameOf[m.from]
    BY <1>2 DEF ExitGame, JoinShape
  <1>3. ASSUME NEW c \in Conns, HandlerStep(c) PROVE inputs' = inputs
    BY <1>3 DEF HandlerStep, NewPlayer, Register, CheckSeats, LoadSeats, StoreSeats,
       SeatPanics, Snapshot, HandlerBeginWrite, HandlerEndWrite, Reseat, HandlerReturns
  <1>4. (\E g \in Games : NewGame(g)) \/ OutputLoop \/ Sweep \/ Tick \/ UNCHANGED vars
           => inputs' = inputs
    BY DEF NewGame, OutputLoop, OutputPop, OutputPlayers, OutputBeginWrite,
       OutputEndWrite, Sweep, Tick, vars
  <1>5. ASSUME NEW c \in Conns, \/ \E g \in Games : Connect(c, g)
                                \/ \E h \in Conns : Reconnect(c, h)
                                \/ Disconnect(c) \/ AskExit(c)
        PROVE  inputs' = inputs
    BY <1>5 DEF Connect, Reconnect, Disconnect, AskExit
  <1>6. GameLoop => inputs' \subseteq inputs
    BY DEF GameLoop, HandleInput
  <1> QED
    BY <1>1, <1>2, <1>3, <1>4, <1>5, <1>6 DEF Next, Client, Server

\* An input's sender has been told its hash, and does not forget it.
LEMMA SendersStep ==
    ASSUME TypeInv, TypeInv', JoinShape, SendersKnown, [Next]_vars
    PROVE  SendersKnown'
  <1> SUFFICES ASSUME NEW m \in inputs'
      PROVE  /\ m.op = "exit" => Kind[m.game] = "hangman"
             /\ Kind[m.game] = "hangman" => Known(m.from)'
    BY DEF SendersKnown
  <1>0. m.from \in Conns
    BY DEF TypeInv, TypeOK, InputRecord
  <1>1. Known(m.from) => Known(m.from)'
    <2>1. Known(m.from) => pc[m.from] # "idle"
      BY DEF Known
    <2> QED
      BY <1>0, <2>1, Moves
  <1>2. CASE m \in inputs
    BY <1>1, <1>2 DEF SendersKnown
  <1>3. CASE m \notin inputs
    <2>1. \/ m.op # "exit" /\ \E c \in Conns :
                pc[c] = "reading" /\ m.game = gameOf[c] /\ m.from = hashOf[c]
          \/ m.op = "exit" /\ Known(m.from) /\ m.game = gameOf[m.from]
      BY <1>3, InputsMove
    <2>2. ASSUME NEW c \in Conns, pc[c] = "reading", Kind[gameOf[c]] = "hangman"
          PROVE  Known(hashOf[c])
      <3>1. CASE hashOf[c] = c
        BY <2>2, <3>1 DEF Known
      <3>2. CASE hashOf[c] # c
        BY <3>2 DEF JoinShape
      <3> QED
        BY <3>1, <3>2
    <2> QED
      BY <1>1, <2>1, <2>2 DEF Known
  <1> QED
    BY <1>2, <1>3

LEMMA IndexStep == IndexInv /\ [Next]_vars => IndexInv'
  <1> SUFFICES ASSUME IndexInv, [Next]_vars PROVE IndexInv'
    OBVIOUS
  <1>0. /\ JoinInv /\ TypeInv /\ JoinShape /\ SendersKnown /\ JoinInv' /\ TypeInv'
        /\ players \in [Games -> Seq(Conns)]
        /\ inputs \subseteq InputRecord /\ inputs' \subseteq InputRecord
    BY JoinStep DEF IndexInv, JoinInv, TypeInv, TypeOK
  <1>1. SendersKnown'
    BY <1>0, SendersStep
  <1>2. ASSUME NEW g \in Games, Kind[g] = "hangman"
        PROVE  /\ players[g] \in Seq(Conns) /\ Distinct(players[g])
               /\ \A c \in Conns : pc[c] = "append" => c \notin Elements(players[g])
    BY <1>0, <1>2 DEF IndexInv, PlayersDistinct, JoinInv, PlayersPlaced, Placed,
       Settled, InSeat
  <1>3. ASSUME NEW g \in Games, Kind[g] = "hangman"
        PROVE  Distinct(players'[g])
    <2>1. CASE players'[g] = players[g]
      BY <1>2, <1>3, <2>1 DEF Distinct
    <2>2. CASE players'[g] = <<>>
      BY <2>2 DEF Distinct
    <2>3. ASSUME NEW c \in Conns, pc[c] = "append", players'[g] = Append(players[g], c)
          PROVE  Distinct(players'[g])
      <3>1. Distinct(Append(players[g], c))
        BY <1>2, <1>3, <2>3, IndexAppend
      <3> QED
        BY <2>3, <3>1
    <2>4. ASSUME NEW idx \in Int, 0 <= idx, idx < Len(players[g]),
                 players'[g] = SliceDelete(players[g], idx)
          PROVE  Distinct(players'[g])
      <3>1. Distinct(SliceDelete(players[g], idx))
        BY <1>2, <1>3, <2>4, IndexDelete
      <3> QED
        BY <2>4, <3>1
    <2> QED
      BY <1>0, <1>3, <2>1, <2>2, <2>3, <2>4, HangmanMoves
  <1>4. ASSUME NEW m \in inputs', Kind[m.game] = "hangman",
               m.from \in Elements(players'[m.game])
        PROVE  IndexFunc(players'[m.game], m.from) <= m.idx
    <2>0. PICK g \in Games : /\ g = m.game /\ Kind[g] = "hangman"
                             /\ m.from \in Conns /\ m.idx \in Int
      BY <1>0, <1>4 DEF InputRecord
    <2>1. CASE m \notin inputs
      <3>1. players' = players /\ m.idx = IndexFunc(players[m.game], m.from)
        BY <1>0, <1>4, <2>1, InputsMove
      <3> QED
        BY <2>0, <3>1
    <2>2. CASE m \in inputs
      <3>1. /\ m.from \in Elements(players[g]) => IndexFunc(players[g], m.from) <= m.idx
            /\ Known(m.from)
        BY <1>0, <2>0, <2>2 DEF IndexInv, IndexOnlyShiftsLeft, SendersKnown
      <3>2. CASE players'[g] = players[g]
        BY <1>4, <2>0, <3>1, <3>2
      <3>3. CASE players'[g] = <<>>
        BY <1>4, <2>0, <3>3, ElementsEmpty
      <3>4. ASSUME NEW c \in Conns, pc[c] = "append", players'[g] = Append(players[g], c)
            PROVE  IndexFunc(players'[g], m.from) <= m.idx
        <4>1. c # m.from
          BY <3>1, <3>4 DEF Known
        <4>2. Elements(Append(players[g], c)) = Elements(players[g]) \cup {c}
          BY <1>2, <2>0, ElementsAppend
        <4>3. m.from \in Elements(players[g])
          BY <1>4, <2>0, <3>4, <4>1, <4>2
        <4>4. IndexFunc(Append(players[g], c), m.from) = IndexFunc(players[g], m.from)
          BY <1>2, <2>0, <3>4, <4>3, IndexAppend
        <4> QED
          BY <3>1, <3>4, <4>3, <4>4
      <3>5. ASSUME NEW idx \in Int, 0 <= idx, idx < Len(players[g]),
                   players'[g] = SliceDelete(players[g], idx)
            PROVE  IndexFunc(players'[g], m.from) <= m.idx
        <4> DEFINE r == SliceDelete(players[g], idx)
        <4>1. /\ players[g] \in Seq(Conns) /\ Distinct(players[g])
              /\ m.from \in Elements(r)
          BY <1>2, <1>4, <2>0, <3>5
        <4>2. /\ m.from \in Elements(players[g])
              /\ IndexFunc(r, m.from) <= IndexFunc(players[g], m.from)
          BY <3>5, <4>1, IndexDelete
        <4>3. /\ IndexFunc(r, m.from) \in Int /\ IndexFunc(players[g], m.from) \in Int
          <5>1. r \in Seq(Conns)
            BY <3>5, <4>1, SliceDeleteType
          <5> QED
            BY <4>1, <5>1, IndexFuncType
        <4> QED
          BY <2>0, <3>1, <3>5, <4>2, <4>3
      <3> QED
        BY <1>0, <2>0, <3>2, <3>3, <3>4, <3>5, HangmanMoves
    <2> QED
      BY <2>1, <2>2
  <1> QED
    BY <1>0, <1>1, <1>3, <1>4 DEF IndexInv, PlayersDistinct, IndexOnlyShiftsLeft

\* The index an input was queued with is never to the left of its sender (GameLoop
\* uses it as it is, hangmanInputTypes.go), for any number of players that join,
\* reconnect and leave while the input waits.
THEOREM QueuedIndicesShiftLeft == Spec => []IndexOnlyShiftsLeft
  <1>1. Init => IndexInv
    <2> SUFFICES ASSUME Init PROVE IndexInv
      OBVIOUS
    <2>1. inputs = {} /\ \A g \in Games : players[g] = <<>>
      BY DEF Init
    <2>2. \A g \in Games : Distinct(players[g])
      BY <2>1 DEF Distinct
    <2> QED
      BY <2>1, <2>2, JoinStart DEF IndexInv, SendersKnown, PlayersDistinct,
         IndexOnlyShiftsLeft
  <1>2. IndexInv => IndexOnlyShiftsLeft
    BY DEF IndexInv
  <1> QED
    BY <1>1, <1>2, IndexStep, PTL DEF Spec

-----------------------------------------------------------------------------
(***************************************************************************)
(* Updates: a player that has not been shown the last version will be.     *)
(***************************************************************************)
OutputWaits(g) == \E o \in outputs : o.game = g
\* OutputLoop is about to show x the last version of g.
BeingShown(x, g) ==
    /\ outGame = g /\ outVer = version[g]
    /\ outPc = "players" \/ (outPc = "write" /\ x \in Elements(outTodo))
UpToDate(x, g) == \/ shown[x] = version[g] \/ joined[x] = version[g]
                  \/ OutputWaits(g) \/ BeingShown(x, g)

\* What OutputLoop is writing is the last version, or another output follows.
LastOutput == outPc # "pop" => outVer = version[outGame] \/ OutputWaits(outGame)
\* A join that is about to store an old slice restores nobody that was overwritten.
SeatsKept ==
    \A c \in Conns : pc[c] = "store" =>
        Elements(seats[c]) \subseteq Elements(players[gameOf[c]]) \cup lost
PlayersUpToDate ==
    crashed = "no" =>
        \A g \in Games : Kind[g] \in {"seated", "tictactoe"} =>
            \A x \in Elements(players[g]) \ lost : x \in open => UpToDate(x, g)

ViewInv == JoinInv /\ SendersKnown /\ SeatsKept /\ LastOutput /\ PlayersUpToDate

\* What is neither an input nor OutputLoop leaves the versions and the outputs alone,
\* and shows something only to whom a handler writes.
LEMMA QuietSteps ==
    ASSUME TypeInv, Client \/ (\E c \in Conns : HandlerStep(c)) \/ Sweep \/ Tick
                       \/ UNCHANGED vars
    PROVE  /\ UNCHANGED <<version, outputs, outVars>>
           /\ \A x \in Conns : /\ shown'[x] = shown[x] \/ \E c \in Conns : writing[c] = x
                               /\ joined'[x] = joined[x] \/ pc[x] = "store"
  <1> DEFINE Still == UNCHANGED <<version, outputs, outVars>>
             Shows == \A x \in Conns : shown'[x] = shown[x] \/ \E c \in Conns : writing[c] = x
             Joins == \A x \in Conns : joined'[x] = joined[x] \/ pc[x] = "store"
  <1>0. shown \in [Conns -> Nat] /\ joined \in [Conns -> Nat]
    BY DEF TypeInv, TypeOK
  <1> USE DEF gameVars, connVars, handlerVars, queueVars, outVars
  <1>1. ASSUME NEW c \in Conns, HandlerStep(c) PROVE Still /\ Shows /\ Joins
    <2>1. Still
      BY <1>1 DEF HandlerStep, NewPlayer, Register, CheckSeats, LoadSeats, StoreSeats,
         SeatPanics, Snapshot, HandlerBeginWrite, HandlerEndWrite, Reseat, HandlerReturns
    <2>2. CASE StoreSeats(c)
      BY <1>0, <2>1, <2>2 DEF StoreSeats
    <2>3. CASE HandlerEndWrite(c)
      BY <1>0, <2>1, <2>3 DEF HandlerEndWrite
    <2>4. ~StoreSeats(c) /\ ~HandlerEndWrite(c) => UNCHANGED <<shown, joined>>
      BY <1>1 DEF HandlerStep, NewPlayer, Register, CheckSeats, LoadSeats,
         SeatPanics, Snapshot, HandlerBeginWrite, Reseat, HandlerReturns
    <2> QED
      BY <2>1, <2>2, <2>3, <2>4
  <1>2. Client => Still /\ UNCHANGED <<shown, joined>>
    BY DEF Client, NewGame, Connect, Reconnect, ReadInput, Disconnect, AskExit, ExitGame
  <1>3. Sweep \/ Tick \/ UNCHANGED vars => Still /\ UNCHANGED <<shown, joined>>
    BY DEF Sweep, Tick, vars
  <1> HIDE DEF Still
  <1>4. Still /\ Shows /\ Joins
    BY <1>1, <1>2, <1>3
  <1> QED
    BY <1>4 DEF Still

\* What an input does to the versions: the game it changes gets an output.
LEMMA InputSteps ==
    ASSUME TypeInv, GameLoop
    PROVE  /\ UNCHANGED <<shown, joined, outVars>> /\ outputs \subseteq outputs'
           /\ \A g \in Games : /\ version'[g] = version[g] \/ OutputWaits(g)'
                               /\ version[g] <= version'[g]
  <1>0. version \in [Games -> Nat]
    BY DEF TypeInv, TypeOK
  <1>1. PICK m \in inputs : HandleInput(m)
    BY DEF GameLoop
  <1> USE DEF gameVars, connVars
  <1>2. CASE ApplyInput(m)
    <2>1. /\ outputs' = outputs \cup OutputOf(m) /\ UNCHANGED <<shown, joined, outVars>>
          /\ version' = [version EXCEPT ![m.game] = version[m.game] + 1]
      BY <1>1, <1>2 DEF ApplyInput, HandleInput
    <2>2. OutputWaits(m.game)'
      <3>1. PICK o \in outputs' : o = [id |-> m.id, game |-> m.game,
                                       prio |-> Priority(m.op), at |-> now]
        BY <2>1 DEF OutputOf
      <3>2. o.game = m.game
        BY <3>1
      <3> QED
        BY <3>2 DEF OutputWaits
    <2>3. \A g \in Games : version[g] <= version'[g]
      BY <1>0, <2>1
    <2> QED
      BY <1>0, <2>1, <2>2, <2>3
  <1>3. CASE DropInput(m) \/ StaleIndexPanic(m) \/ LastPlayerLeaves(m)
    <2>1. UNCHANGED <<shown, joined, outVars, outputs, version>>
      BY <1>1, <1>3 DEF HandleInput, DropInput, StaleIndexPanic, LastPlayerLeaves
    <2> QED
      BY <1>0, <2>1
  <1> QED
    BY <1>1, <1>2, <1>3 DEF HandleInput

LEMMA LastOutputStep ==
    ASSUME TypeInv, LastOutput, [Next]_vars
    PROVE  LastOutput'
  <1>0. outGame \in Games /\ (outWriting # NoConn => outPc = "write")
    BY DEF TypeInv, TypeOK, WritersShape
  <1>1. CASE Client \/ (\E c \in Conns : HandlerStep(c)) \/ Sweep \/ Tick \/ UNCHANGED vars
    BY <1>1, QuietSteps DEF LastOutput, OutputWaits, outVars
  <1>2. CASE GameLoop
    <2>1. /\ UNCHANGED <<outPc, outVer, outGame>> /\ outputs \subseteq outputs'
          /\ version'[outGame] = version[outGame] \/ OutputWaits(outGame)'
      BY <1>0, <1>2, InputSteps DEF outVars, OutputWaits
    <2> QED
      BY <2>1 DEF LastOutput, OutputWaits
  <1>3. ASSUME NEW o \in outputs, OutputPop(o) PROVE LastOutput'
    BY <1>3 DEF OutputPop, LastOutput, gameVars
  <1>4. CASE OutputPlayers \/ OutputBeginWrite \/ OutputEndWrite
    BY <1>0, <1>4 DEF OutputPlayers, OutputBeginWrite, OutputEndWrite, LastOutput,
       OutputWaits, gameVars, queueVars
  <1> QED
    BY <1>1, <1>2, <1>3, <1>4 DEF Next, Server, OutputLoop

\* A player that is up to date, or about to be, stays so.
LEMMA StaysUpToDate ==
    ASSUME JoinInv, LastOutput, [Next]_vars, crashed' = "no",
           NEW g \in Games, Kind[g] \in {"seated", "tictactoe"},
           NEW x \in Conns, x \in Elements(players[g]), x \in open, UpToDate(x, g)
    PROVE  UpToDate(x, g)'
  <1>0. /\ gameOf[x] = g /\ InSeat(x) /\ TypeInv
        /\ outTodo \in Seq(Conns) /\ (outPc = "write" => outTodo # <<>>)
        /\ outWriting # NoConn => outPc = "write"
        /\ shown \in [Conns -> Nat] /\ x # NoConn
    BY DEF JoinInv, PlayersPlaced, Placed, Settled, TypeInv, TypeOK, WritersShape
  <1>1. CASE Client \/ (\E c \in Conns : HandlerStep(c)) \/ Sweep \/ Tick \/ UNCHANGED vars
    <2>1. pc[x] # "store"
      BY <1>0 DEF InSeat
    <2>2. ASSUME NEW c \in Conns, writing[c] = x PROVE FALSE
      <3>1. gameOf[c] = g /\ pc[c] \in {"hello", "broadcast"}
        BY <1>0, <2>2 DEF JoinInv, WritesOK, TypeInv, WritersShape
      <3> QED
        BY <3>1 DEF JoinInv, JoinShape, TypeInv, WritersShape
    <2>3. /\ shown'[x] = shown[x] /\ joined'[x] = joined[x]
          /\ UNCHANGED <<version, outputs, outVars>>
      BY <1>0, <1>1, <2>1, <2>2, QuietSteps
    <2> QED
      BY <2>3 DEF UpToDate, OutputWaits, BeingShown, outVars
  <1>2. CASE GameLoop
    <2>1. /\ UNCHANGED <<shown, joined, outVars>> /\ outputs \subseteq outputs'
          /\ version'[g] = version[g] \/ OutputWaits(g)'
      BY <1>0, <1>2, InputSteps
    <2>2. OutputWaits(g) => OutputWaits(g)'
      BY <2>1 DEF OutputWaits
    <2> QED
      BY <2>1, <2>2 DEF UpToDate, BeingShown, outVars
  <1>3. ASSUME NEW o \in outputs, OutputPop(o) PROVE UpToDate(x, g)'
    <2>1. /\ outPc = "pop" /\ outputs' = outputs \ {o}
          /\ UNCHANGED <<version, shown, joined>>
          /\ o.game = g => outPc' = "players" /\ outGame' = g /\ outVer' = version[g]
      BY <1>3 DEF OutputPop, gameVars, connVars
    <2>2. ~BeingShown(x, g)
      BY <2>1 DEF BeingShown
    <2>3. CASE o.game = g
      BY <2>1, <2>3 DEF UpToDate, BeingShown
    <2>4. CASE o.game # g
      <3>1. OutputWaits(g) => OutputWaits(g)'
        BY <2>1, <2>4 DEF OutputWaits
      <3> QED
        BY <2>1, <2>2, <3>1 DEF UpToDate
    <2> QED
      BY <2>3, <2>4
  <1>4. CASE OutputPlayers
    <2>1. /\ UNCHANGED <<version, shown, joined, outputs, outGame, outVer>>
          /\ outTodo' = players[outGame]
          /\ players[outGame] # <<>> => outPc' = "write"
      BY <1>4 DEF OutputPlayers, gameVars, connVars, queueVars
    <2>2. outGame = g => players[outGame] # <<>>
      BY ElementsEmpty
    <2> QED
      BY <2>1, <2>2 DEF UpToDate, OutputWaits, BeingShown
  <1>5. CASE OutputBeginWrite
    BY <1>5 DEF OutputBeginWrite, gameVars, connVars, queueVars, UpToDate, OutputWaits,
       BeingShown
  <1>6. CASE OutputEndWrite
    <2>1. /\ UNCHANGED <<version, joined, outputs, outGame, outVer>> /\ outPc = "write"
          /\ outTodo' = Tail(outTodo) /\ (Len(outTodo) > 1 => outPc' = "write")
          /\ outWriting # NoConn
          /\ shown' = IF outWriting \in open
                      THEN [shown EXCEPT ![outWriting] = outVer] ELSE shown
      BY <1>0, <1>6 DEF OutputEndWrite, gameVars, queueVars
    <2>2. OutputWaits(g) => OutputWaits(g)'
      BY <2>1 DEF OutputWaits
    <2>3. CASE outWriting = x
      <3>1. outGame = g
        BY <1>0, <2>1, <2>3 DEF JoinInv, WritesOK
      <3>2. shown'[x] = outVer
        BY <1>0, <2>1, <2>3
      <3> QED
        BY <2>1, <2>2, <3>1, <3>2 DEF LastOutput, UpToDate
    <2>4. CASE outWriting # x
      <3>1. shown'[x] = shown[x]
        BY <1>0, <2>1, <2>4
      <3>2. CASE BeingShown(x, g)
        <4>1. outGame = g /\ outVer = version[g] /\ x \in Elements(outTodo)
          BY <2>1, <3>2 DEF BeingShown
        <4>2. x # Head(outTodo)
          BY <2>1, <2>4, <4>1 DEF JoinInv, WritesOK
        <4>3. x \in Elements(Tail(outTodo)) /\ ~(Len(outTodo) <= 1)
          BY <1>0, <2>1, <4>1, <4>2, ElementsHeadTail
        <4>4. Len(outTodo) > 1
          BY <1>0, <4>3, LenProperties
        <4> QED
          BY <2>1, <4>1, <4>3, <4>4 DEF UpToDate, BeingShown
      <3> QED
        BY <2>1, <2>2, <3>1, <3>2 DEF UpToDate
    <2> QED
      BY <2>3, <2>4
  <1> QED
    BY <1>1, <1>2, <1>3, <1>4, <1>5, <1>6 DEF Next, Server, OutputLoop

\* A handler leaves the store step by storing, or gives up.
LEMMA StoresOnce ==
    ASSUME TypeInv, [Next]_vars, NEW c \in Conns, pc[c] = "store",
           pc'[c] \notin {"store", "gone"}
    PROVE  StoreSeats(c)
  <1>0. pc \in [Conns -> HandlerPCs]
        /\ \A d \in Conns : writing[d] # NoConn => pc[d] \in {"hello", "broadcast"}
    BY DEF TypeInv, TypeOK, WritersShape
  <1> USE DEF handlerVars
  <1>6. ASSUME NEW d \in Conns, SeatPanics(d) PROVE d # c
    BY <1>0, <1>6 DEF SeatPanics
  <1>7. ASSUME NEW d \in Conns, SeatPanics(d) PROVE pc' = [pc EXCEPT ![d] = "gone"]
    BY <1>7 DEF SeatPanics
  <1>1. ASSUME NEW d \in Conns, HandlerStep(d), ~StoreSeats(d), ~SeatPanics(d)
        PROVE  pc' = pc \/ (pc[d] # "store" /\ pc' = [pc EXCEPT ![d] = pc'[d]])
    BY <1>0, <1>1 DEF HandlerStep, NewPlayer, Register, CheckSeats, LoadSeats,
       Snapshot, HandlerBeginWrite, HandlerEndWrite, Reseat, HandlerReturns
  <1>2. ASSUME NEW d \in Conns, StoreSeats(d) PROVE d = c
    BY <1>0, <1>2 DEF StoreSeats
  <1>3. ASSUME NEW d \in Conns, \/ \E g \in Games : Connect(d, g)
                                \/ \E h \in Conns : Reconnect(d, h)
        PROVE  pc[d] = "idle" /\ pc' = [pc EXCEPT ![d] = pc'[d]]
    BY <1>0, <1>3 DEF Connect, Reconnect
  <1>4. ASSUME NEW d \in Conns, \/ \E op \in {"play", "chat"} : ReadInput(d, op)
                                \/ Disconnect(d) \/ AskExit(d) \/ ExitGame(d)
        PROVE  pc' = pc
    BY <1>4 DEF ReadInput, Disconnect, AskExit, ExitGame
  <1>5. (\E g \in Games : NewGame(g)) \/ GameLoop \/ OutputLoop \/ Sweep \/ Tick
           \/ UNCHANGED vars => pc' = pc
    BY DEF NewGame, GameLoop, HandleInput, OutputLoop, OutputPop, OutputPlayers,
       OutputBeginWrite, OutputEndWrite, Sweep, Tick, vars
  <1> QED
    BY <1>0, <1>1, <1>2, <1>3, <1>4, <1>5, <1>6, <1>7 DEF Next, Client, Server

\* Outside hangman nobody leaves players, except to be overwritten.
LEMMA SeatsStay ==
    ASSUME TypeInv, SendersKnown, [Next]_vars
    PROVE  /\ lost \subseteq lost'
           /\ \A g \in Games : Kind[g] # "hangman" =>
                 Elements(players[g]) \subseteq Elements(players'[g]) \cup lost'
  <1> DEFINE Stay == /\ lost \subseteq lost'
                     /\ \A g \in Games : Kind[g] # "hangman" =>
                          Elements(players[g]) \subseteq Elements(players'[g]) \cup lost'
             Still == UNCHANGED <<players, lost>>
  <1>0. /\ players \in [Games -> Seq(Conns)] /\ gameOf \in [Conns -> Games]
        /\ \A c \in Conns : pc[c] = "append" => Kind[gameOf[c]] = "hangman"
    BY DEF TypeInv, TypeOK, WritersShape
  <1> USE DEF gameVars
  <1>1. ASSUME NEW c \in Conns, NewPlayer(c) PROVE Stay
    BY <1>0, <1>1 DEF NewPlayer
  <1>2. ASSUME NEW c \in Conns, StoreSeats(c) PROVE Stay
    <2>1. PICK g \in Games : g = gameOf[c]
      BY <1>0
    <2>2. /\ \E s : players' = [players EXCEPT ![g] = s]
          /\ lost' = lost \cup (Elements(players[g]) \ Elements(players'[g]))
      BY <1>2, <2>1 DEF StoreSeats
    <2> QED
      BY <1>0, <2>2
  <1>3. ASSUME NEW c \in Conns, Register(c) \/ CheckSeats(c) \/ LoadSeats(c)
                  \/ SeatPanics(c) \/ Snapshot(c) \/ HandlerBeginWrite(c) \/ HandlerEndWrite(c)
                  \/ Reseat(c) \/ HandlerReturns(c)
        PROVE  Still
    BY <1>3 DEF Register, CheckSeats, LoadSeats, SeatPanics, Snapshot, HandlerBeginWrite,
       HandlerEndWrite, Reseat, HandlerReturns
  <1>4. Client \/ OutputLoop \/ Sweep \/ Tick \/ UNCHANGED vars => Still
    BY DEF Client, NewGame, Connect, Reconnect, ReadInput, Disconnect, AskExit, ExitGame,
       OutputLoop, OutputPop, OutputPlayers, OutputBeginWrite, OutputEndWrite,
       Sweep, Tick, vars
  <1>5. ASSUME NEW m \in inputs, HandleInput(m) PROVE Stay
    <2>1. lost' = lost
      BY <1>5 DEF HandleInput, DropInput, StaleIndexPanic, LastPlayerLeaves, ApplyInput
    <2>2. m.op = "exit" => Kind[m.game] = "hangman"
      BY DEF SendersKnown
    <2>3. players' = players \/ (m.op = "exit" /\ \E s :
             players' = [players EXCEPT ![m.game] = s])
      BY <1>5 DEF HandleInput, DropInput, StaleIndexPanic, LastPlayerLeaves,
         ApplyInput, LastExit
    <2>4. \A g \in Games : Kind[g] # "hangman" => players'[g] = players[g]
      BY <1>0, <2>2, <2>3
    <2> QED
      BY <2>1, <2>4
  <1>6. Still => Stay
    OBVIOUS
  <1> HIDE DEF Still, Stay
  <1>7. Stay
    BY <1>1, <1>2, <1>3, <1>4, <1>5, <1>6 DEF Next, Server, HandlerStep, GameLoop
  <1> QED
    BY <1>7 DEF Stay

\* A connection opens as its handler begins, and a process that ended stays so.
LEMMA OpensAsItBegins ==
    ASSUME [Next]_vars
    PROVE  /\ \A x \in Conns : x \in open' => x \in open \/ pc[x] = "idle"
           /\ crashed' = "no" => crashed = "no"
  <1> USE DEF connVars, procVars, Up
  <1>1. ASSUME NEW c \in Conns, HandlerStep(c) PROVE open' \subseteq open /\ Up
    BY <1>1 DEF HandlerStep, NewPlayer, Register, CheckSeats, LoadSeats, StoreSeats,
       SeatPanics, Snapshot, HandlerBeginWrite, HandlerEndWrite, Reseat, HandlerReturns
  <1>2. ASSUME NEW c \in Conns, \/ \E g \in Games : Connect(c, g)
                                \/ \E h \in Conns : Reconnect(c, h)
        PROVE  pc[c] = "idle" /\ open' \subseteq open \cup {c} /\ Up
    BY <1>2 DEF Connect, Reconnect
  <1>3. ASSUME NEW c \in Conns, \/ \E op \in {"play", "chat"} : ReadInput(c, op)
                                \/ Disconnect(c) \/ AskExit(c) \/ ExitGame(c)
        PROVE  open' \subseteq open /\ Up
    BY <1>3 DEF ReadInput, Disconnect, AskExit, ExitGame
  <1>4. (\E g \in Games : NewGame(g)) \/ GameLoop \/ OutputLoop \/ Sweep \/ Tick
           => open' = open /\ Up
    BY DEF NewGame, GameLoop, HandleInput, OutputLoop, OutputPop, OutputPlayers,
       OutputBeginWrite, OutputEndWrite, Sweep, Tick
  <1>5. UNCHANGED vars => open' = open /\ crashed' = crashed
    BY DEF vars
  <1> QED
    BY <1>1, <1>2, <1>3, <1>4, <1>5 DEF Next, Client, Server

LEMMA ViewStep == ViewInv /\ [Next]_vars => ViewInv'
  <1> SUFFICES ASSUME ViewInv, [Next]_vars PROVE ViewInv'
    OBVIOUS
  <1>0. /\ JoinInv /\ JoinInv' /\ TypeInv /\ TypeInv' /\ JoinShape /\ SendersKnown
        /\ LastOutput /\ gameOf \in [Conns -> Games] /\ gameOf' \in [Conns -> Games]
    BY JoinStep DEF ViewInv, JoinInv, TypeInv, TypeOK
  <1>1. SendersKnown' /\ LastOutput'
    BY <1>0, SendersStep, LastOutputStep
  <1>2. ASSUME NEW c \in Conns, pc'[c] = "store"
        PROVE  Elements(seats'[c]) \subseteq Elements(players'[gameOf'[c]]) \cup lost'
    <2>1. PICK g \in Games : g = gameOf[c]
      BY <1>0
    <2>2. /\ pc[c] \in {"load", "store"}
          /\ Elements(seats'[c]) \subseteq Elements(players[g]) \cup lost
      BY <1>0, <1>2, <2>1, PlayersMove DEF ViewInv, SeatsKept
    <2>3. Kind[g] # "hangman" /\ gameOf'[c] = g
      BY <1>0, <2>1, <2>2, Moves DEF TypeInv, WritersShape
    <2> QED
      BY <1>0, <2>2, <2>3, SeatsStay
  <1>3. ASSUME crashed' = "no", NEW g \in Games, Kind[g] \in {"seated", "tictactoe"},
               NEW x \in Elements(players'[g]) \ lost', x \in open'
        PROVE  UpToDate(x, g)'
    <2>1. Placed(x, g)' /\ x \in Conns /\ lost \subseteq lost' /\ crashed = "no"
      <3>1. players' \in [Games -> Seq(Conns)]
        BY <1>0 DEF TypeInv, TypeOK
      <3>2. players'[g] \in Seq(Conns)
        BY <3>1
      <3>3. Elements(players'[g]) \in SUBSET Conns
        BY <3>2, ElementsType, Zenon
      <3> QED
        BY <1>0, <1>3, <3>3, SeatsStay, OpensAsItBegins DEF JoinInv, PlayersPlaced
    <2>2. CASE x \in Elements(players[g])
      <3>1. Settled(x, g) /\ pc[x] # "idle"
        BY <1>0, <2>2 DEF JoinInv, PlayersPlaced, Placed, Settled, InSeat
      <3>2. x \in open
        BY <1>3, <2>1, <3>1, OpensAsItBegins
      <3>3. UpToDate(x, g)
        BY <1>3, <2>1, <2>2, <3>2 DEF ViewInv, PlayersUpToDate
      <3> QED
        BY <1>0, <1>3, <2>1, <2>2, <3>2, <3>3, StaysUpToDate
    <2>3. CASE x \notin Elements(players[g])
      <3>1. PICK c \in Conns :
               /\ gameOf[c] = g
               /\ \/ pc[c] = "append" /\ pc'[c] = "register" /\ x = c
                  \/ /\ pc[c] = "store" /\ pc'[c] = After(g, "store")
                     /\ x = c \/ x \in Elements(seats[c])
        BY <1>0, <1>3, <2>3, PlayersMove
      <3>2. pc[c] = "store" /\ pc'[c] = After(g, "store")
        BY <1>0, <1>3, <3>1 DEF TypeInv, WritersShape
      <3>3. x = c
        BY <1>3, <2>1, <2>3, <3>1, <3>2 DEF ViewInv, SeatsKept
      <3>4. StoreSeats(c)
        <4>1. pc'[c] \notin {"store", "gone"}
          BY <1>3, <3>2, Order
        <4> QED
          BY <1>0, <3>2, <4>1, StoresOnce
      <3>5. joined' = [joined EXCEPT ![c] = version[g]] /\ version' = version
        BY <1>3, <3>1, <3>4 DEF StoreSeats
      <3>6. joined \in [Conns -> Nat]
        BY <1>0 DEF TypeInv, TypeOK
      <3> QED
        BY <3>3, <3>5, <3>6 DEF UpToDate
    <2> QED
      BY <2>2, <2>3
  <1> QED
    BY <1>0, <1>1, <1>2, <1>3 DEF ViewInv, SeatsKept, PlayersUpToDate

\* No update is lost on a seated or tictactoe game: once the channels are empty each
\* connected player that no overlapping join overwrote was shown the last state,
\* unless no input has changed the game since it took its seat (nothing is written to
\* a new seat), however inputs, joins and outputs were interleaved.
THEOREM UpdatesReachPlayers == Spec => []ViewCurrent
  <1>1. Init => ViewInv
    <2> SUFFICES ASSUME Init PROVE ViewInv
      OBVIOUS
    <2>1. /\ inputs = {} /\ outPc = "pop" /\ \A g \in Games : Elements(players[g]) = {}
          /\ \A c \in Conns : pc[c] = "idle"
      BY ElementsEmpty DEF Init
    <2> QED
      BY <2>1, JoinStart DEF ViewInv, SendersKnown, SeatsKept, LastOutput,
         PlayersUpToDate
  <1>2. ViewInv => ViewCurrent
    <2> SUFFICES ASSUME ViewInv, NEW g \in Games, Kind[g] \in {"seated", "tictactoe"},
                        Quiescent(g), crashed = "no",
                        NEW h \in Elements(players[g]) \ lost, h \in open
                 PROVE  shown[h] = version[g] \/ joined[h] = version[g]
      BY DEF ViewCurrent
    <2>1. UpToDate(h, g)
      BY DEF ViewInv, PlayersUpToDate
    <2> QED
      BY <2>1 DEF UpToDate, OutputWaits, BeingShown, Quiescent
  <1> QED
    BY <1>1, <1>2, ViewStep, PTL DEF Spec

-----------------------------------------------------------------------------
(***************************************************************************)
(* Order: what OutputLoop is writing is no older than what anybody in the  *)
(* game was shown, because only OutputLoop writes to such a game's players.*)
(***************************************************************************)
OutputNotAhead == outPc # "pop" => outVer <= version[outGame]
NotAhead(x, g) == /\ shown[x] <= version[g]
                  /\ outPc # "pop" /\ outGame = g => shown[x] <= outVer
ViewsNotAhead ==
    \A x \in Conns :
        /\ pc[x] = "idle" => shown[x] = 0
        /\ Kind[gameOf[x]] \in {"seated", "tictactoe"} => NotAhead(x, gameOf[x])

ForwardInv == JoinInv /\ OutputNotAhead /\ ViewsNotAhead

\* What is written to a player of such a game is what OutputLoop read.
LEMMA ShownMoves ==
    ASSUME JoinInv, [Next]_vars, NEW x \in Conns, shown'[x] # shown[x]
    PROVE  /\ pc[x] # "idle"
           /\ Kind[gameOf[x]] \in {"seated", "tictactoe"} =>
                 /\ outPc # "pop" /\ outGame = gameOf[x] /\ shown'[x] = outVer
                 /\ UNCHANGED <<version, outGame, outVer>>
  <1>0. /\ TypeInv /\ WritesOK /\ JoinShape /\ shown \in [Conns -> Nat] /\ x # NoConn
        /\ outWriting # NoConn => outPc = "write"
    BY DEF JoinInv, TypeInv, TypeOK, WritersShape
  <1>1. ASSUME NEW c \in Conns, writing[c] = x
        PROVE  pc[x] # "idle" /\ Kind[gameOf[x]] \notin {"seated", "tictactoe"}
    <2>1. /\ pc[x] # "idle" /\ gameOf[x] = gameOf[c]
          /\ pc[c] \in {"hello", "broadcast"}
      BY <1>0, <1>1 DEF WritesOK, TypeInv, WritersShape
    <2> QED
      BY <1>0, <2>1 DEF JoinShape, TypeInv, WritersShape
  <1>2. CASE Client \/ (\E c \in Conns : HandlerStep(c)) \/ Sweep \/ Tick \/ UNCHANGED vars
    BY <1>0, <1>1, <1>2, QuietSteps
  <1>3. CASE GameLoop
    BY <1>0, <1>3, InputSteps
  <1>4. ASSUME \/ \E o \in outputs : OutputPop(o)
               \/ OutputPlayers \/ OutputBeginWrite
        PROVE  shown' = shown
    BY <1>4 DEF OutputPop, OutputPlayers, OutputBeginWrite, connVars
  <1>5. CASE OutputEndWrite
    <2>1. /\ outWriting # NoConn /\ UNCHANGED <<version, outGame, outVer>>
          /\ shown' = IF outWriting \in open
                      THEN [shown EXCEPT ![outWriting] = outVer] ELSE shown
      BY <1>5 DEF OutputEndWrite, gameVars
    <2>2. outWriting = x /\ shown'[x] = outVer
      BY <1>0, <2>1
    <2>3. pc[x] # "idle" /\ gameOf[x] = outGame /\ outPc = "write"
      BY <1>0, <2>1, <2>2 DEF WritesOK
    <2> QED
      BY <2>1, <2>2, <2>3
  <1> QED
    BY <1>2, <1>3, <1>4, <1>5 DEF Next, Server, OutputLoop

\* The versions only grow, and an output carries a version of its game.
LEMMA VersionsMove ==
    ASSUME TypeInv, [Next]_vars
    PROVE  /\ \A g \in Games : version[g] <= version'[g]
           /\ \/ UNCHANGED <<outGame, outVer>> /\ (outPc = "pop" => outPc' = "pop")
              \/ outGame' \in Games /\ outVer' = version[outGame'] /\ version' = version
  <1>0. /\ version \in [Games -> Nat] /\ outPc \in {"pop", "players", "write"}
        /\ outWriting # NoConn => outPc = "write"
        /\ \A o \in outputs : o.game \in Games
    BY DEF TypeInv, TypeOK, WritersShape, OutputRecord
  <1>1. CASE Client \/ (\E c \in Conns : HandlerStep(c)) \/ Sweep \/ Tick \/ UNCHANGED vars
    <2>1. UNCHANGED <<version, outGame, outVer, outPc>>
      BY <1>1, QuietSteps DEF outVars
    <2> QED
      BY <1>0, <2>1
  <1>2. CASE GameLoop
    BY <1>0, <1>2, InputSteps DEF outVars
  <1>3. ASSUME NEW o \in outputs, OutputPop(o)
        PROVE  /\ version' = version
               /\ \/ UNCHANGED <<outGame, outVer, outPc>>
                  \/ outGame' \in Games /\ outVer' = version[outGame']
    BY <1>0, <1>3 DEF OutputPop, gameVars
  <1>4. CASE OutputPlayers \/ OutputBeginWrite \/ OutputEndWrite
    <2>1. UNCHANGED <<version, outGame, outVer>> /\ (outPc = "pop" => outPc' = "pop")
      BY <1>0, <1>4 DEF OutputPlayers, OutputBeginWrite, OutputEndWrite, gameVars
    <2> QED
      BY <1>0, <2>1
  <1>5. ASSUME NEW o \in outputs, OutputPop(o)
        PROVE  /\ \A g \in Games : version[g] <= version'[g]
               /\ \/ UNCHANGED <<outGame, outVer>> /\ (outPc = "pop" => outPc' = "pop")
                  \/ outGame' \in Games /\ outVer' = version[outGame'] /\ version' = version
    BY <1>0, <1>3, <1>5
  <1> QED
    BY <1>1, <1>2, <1>4, <1>5 DEF Next, Server, OutputLoop

LEMMA ForwardStep == ForwardInv /\ [Next]_vars => ForwardInv'
  <1> SUFFICES ASSUME ForwardInv, [Next]_vars PROVE ForwardInv'
    OBVIOUS
  <1>0. /\ JoinInv /\ JoinInv' /\ TypeInv /\ JoinShape
        /\ gameOf \in [Conns -> Games] /\ gameOf' \in [Conns -> Games]
        /\ version \in [Games -> Nat] /\ version' \in [Games -> Nat]
        /\ shown \in [Conns -> Nat] /\ shown' \in [Conns -> Nat]
        /\ outVer \in Nat /\ outVer' \in Nat /\ outGame \in Games
    BY JoinStep DEF ForwardInv, JoinInv, TypeInv, TypeOK
  <1>1. OutputNotAhead'
    <2>1. CASE UNCHANGED <<outGame, outVer>> /\ (outPc = "pop" => outPc' = "pop")
      <3>1. version[outGame] <= version'[outGame]
        BY <1>0, VersionsMove
      <3>2. version[outGame] \in Nat /\ version'[outGame] \in Nat
        BY <1>0
      <3> QED
        BY <1>0, <2>1, <3>1, <3>2 DEF ForwardInv, OutputNotAhead
    <2>2. CASE outGame' \in Games /\ outVer' = version[outGame'] /\ version' = version
      BY <1>0, <2>2 DEF OutputNotAhead
    <2> QED
      BY <1>0, <2>1, <2>2, VersionsMove
  <1>2. ASSUME NEW x \in Conns, pc'[x] = "idle" PROVE shown'[x] = 0
    <2>1. pc[x] = "idle"
      BY <1>0, <1>2, Moves
    <2>2. shown'[x] = shown[x]
      BY <1>0, <2>1, ShownMoves
    <2> QED
      BY <2>1, <2>2 DEF ForwardInv, ViewsNotAhead
  <1>3. ASSUME NEW x \in Conns, NEW g \in Games, gameOf'[x] = g,
               Kind[g] \in {"seated", "tictactoe"}
        PROVE  NotAhead(x, g)'
    <2>1. CASE pc[x] = "idle"
      <3>1. shown'[x] = 0
        <4>1. shown'[x] = shown[x]
          BY <1>0, <2>1, ShownMoves
        <4> QED
          BY <2>1, <4>1 DEF ForwardInv, ViewsNotAhead
      <3> QED
        BY <1>0, <3>1 DEF NotAhead
    <2>2. CASE pc[x] # "idle"
      <3>1. gameOf[x] = g /\ NotAhead(x, g)
        BY <1>0, <1>3, <2>2, Moves DEF ForwardInv, ViewsNotAhead
      <3>2. /\ version[g] \in Nat /\ version'[g] \in Nat
            /\ shown[x] \in Nat /\ shown'[x] \in Nat
            /\ version[g] <= version'[g]
        BY <1>0, VersionsMove
      <3>3. CASE shown'[x] # shown[x]
        <4>1. /\ outPc # "pop" /\ outGame = g /\ shown'[x] = outVer
              /\ UNCHANGED <<version, outGame, outVer>>
          BY <1>0, <1>3, <3>1, <3>3, ShownMoves
        <4>2. outVer <= version[g]
          BY <4>1 DEF ForwardInv, OutputNotAhead
        <4> QED
          BY <1>0, <3>2, <4>1, <4>2 DEF NotAhead
      <3>4. CASE shown'[x] = shown[x]
        <4>1. shown'[x] <= version'[g]
          BY <3>1, <3>2, <3>4 DEF NotAhead
        <4>2. ASSUME outPc' # "pop", outGame' = g PROVE shown'[x] <= outVer'
          <5>1. CASE UNCHANGED <<outGame, outVer>> /\ (outPc = "pop" => outPc' = "pop")
            BY <3>1, <3>4, <4>2, <5>1 DEF NotAhead
          <5>2. CASE outGame' \in Games /\ outVer' = version[outGame']
            BY <3>1, <3>4, <4>2, <5>2 DEF NotAhead
          <5> QED
            BY <1>0, <5>1, <5>2, VersionsMove
        <4> QED
          BY <4>1, <4>2 DEF NotAhead
      <3> QED
        BY <3>3, <3>4
    <2> QED
      BY <2>1, <2>2
  <1>4. ViewsNotAhead'
    BY <1>0, <1>2, <1>3 DEF ViewsNotAhead, NotAhead
  <1> QED
    BY <1>0, <1>1, <1>4 DEF ForwardInv

\* Nobody in a seated or tictactoe game is shown an older state after a newer one,
\* whatever order outputs are popped in: OutputLoop alone writes to such players,
\* and it reads the state when it pops.
THEOREM ViewsOnlyMoveForward == Spec => ViewsMoveForward
  <1> DEFINE Forward == \A c \in Conns :
                Kind[gameOf[c]] \in {"seated", "tictactoe"} => shown'[c] >= shown[c]
  <1>1. Init => ForwardInv
    <2> SUFFICES ASSUME Init PROVE ForwardInv
      OBVIOUS
    <2>1. /\ outPc = "pop" /\ gameOf \in [Conns -> Games]
          /\ \A c \in Conns : shown[c] = 0
          /\ \A g \in Games : version[g] = 0
      BY JoinStart DEF Init, JoinInv, TypeInv, TypeOK
    <2> QED
      BY <2>1, JoinStart DEF ForwardInv, OutputNotAhead, ViewsNotAhead, NotAhead
  <1>2. ForwardInv /\ [Next]_vars => [Forward]_vars
    <2> SUFFICES ASSUME ForwardInv, [Next]_vars, NEW x \in Conns,
                        Kind[gameOf[x]] \in {"seated", "tictactoe"}
                 PROVE  shown'[x] >= shown[x]
      OBVIOUS
    <2>1. JoinInv /\ shown[x] \in Nat /\ NotAhead(x, gameOf[x])
      BY DEF ForwardInv, JoinInv, TypeInv, TypeOK, ViewsNotAhead
    <2>2. CASE shown'[x] = shown[x]
      BY <2>1, <2>2
    <2>3. CASE shown'[x] # shown[x]
      <3>1. outPc # "pop" /\ outGame = gameOf[x] /\ shown'[x] = outVer
        BY <2>1, <2>3, ShownMoves
      <3>2. outVer \in Nat
        BY DEF ForwardInv, JoinInv, TypeInv, TypeOK
      <3> QED
        BY <2>1, <3>1, <3>2 DEF NotAhead
    <2> QED
      BY <2>2, <2>3
  <1> QED
    BY <1>1, <1>2, ForwardStep, PTL DEF Spec, ViewsMoveForward
=============================================================================
