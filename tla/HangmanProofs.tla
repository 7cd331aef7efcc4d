--------------------------- MODULE HangmanProofs ----------------------------
(* Hangman, for any players, words, names and inputs.                      *)
EXTENDS Hangman, SlicesProofs

LEMMA ModRange ==
    ASSUME NEW n \in Nat \ {0}, NEW i \in Nat
    PROVE  i % n \in 0 .. n - 1
  OBVIOUS

\* The next seat is another one, unless there is only one.
LEMMA NextSeat ==
    ASSUME NEW n \in Nat \ {0}, NEW i \in 0 .. n - 1
    PROVE  (i + 1) % n = IF i + 1 = n THEN 0 ELSE i + 1
  OBVIOUS
USE WordsAssumption, NumbersAssumption

-----------------------------------------------------------------------------
(* Seats and rounds.                                                       *)

\* Until the first player joins nothing has happened; after the last has left,
\* GameLoop does not run.
Populated ==
    gameLoop = "running" /\ players = <<>> =>
        /\ inputs = {} /\ needNewWord /\ turn = 0 /\ curHostIndex = 0
        /\ \A p \in Hashes : stage[p] \in {"new", "joining"}

\* In the round of a chosen word turn and curHostIndex differ.
TurnPassesHost ==
    ~needNewWord /\ ~randomlyChosen /\ N >= 2 => turn # curHostIndex

RoundInv ==
    /\ TypeOK /\ Populated
    /\ SeatsInRange /\ TurnPassesHost /\ OneWinPerRound

\* What SeatsInRange says, with types.
LEMMA Seats ==
    ASSUME RoundInv, players # <<>>
    PROVE  /\ N \in Nat \ {0}
           /\ turn \in 0 .. N - 1 /\ curHostIndex \in 0 .. N - 1
  <1>1. N \in Nat
    BY LenProperties DEF RoundInv, TypeOK, N
  <1>2. N # 0
    BY EmptySeq DEF RoundInv, TypeOK, N
  <1> QED
    BY <1>1, <1>2 DEF RoundInv, TypeOK, SeatsInRange, InRange, N

LEMMA InitRound == Init => RoundInv
  <1> SUFFICES ASSUME Init PROVE RoundInv
    OBVIOUS
  <1>1. TypeOK
    <2>1. guessesLeft \in 1 .. MaxGuesses /\ pushed \in 0 .. MaxInputs
      BY DEF Init
    <2>2. /\ players \in Seq(Hashes) /\ wins \in Seq(WinRecord)
          /\ chatLogs \in Seq([sender : NewNames \cup Nat, by : Hashes])
      BY EmptySeq DEF Init
    <2> QED
      BY <2>1, <2>2 DEF Init, TypeOK
  <1>2. Len(players) = 0 /\ Len(wins) = 0
    BY DEF Init
  <1> QED
    BY <1>1, <1>2 DEF Init, RoundInv, Populated, SeatsInRange, TurnPassesHost,
       OneWinPerRound, N

\* Appending a player keeps the slice, and the seats in range.
LEMMA AppendType ==
    ASSUME RoundInv, NEW p \in Hashes
    PROVE  /\ AppendPlayer(players, p) \in Seq(Hashes)
           /\ Len(AppendPlayer(players, p)) = N + 1 /\ N \in Nat
           /\ AppendPlayer(players, p) # <<>>
           /\ \A i \in 1 .. N : AppendPlayer(players, p)[i] = players[i]
           /\ AppendPlayer(players, p)[N + 1] = p
  BY AppendProperties, LenProperties DEF RoundInv, TypeOK, AppendPlayer, N

LEMMA NewPlayerRound ==
    ASSUME RoundInv, NEW p \in Hashes, NewPlayer(p)
    PROVE  RoundInv'
  <1>1. /\ stage' = [stage EXCEPT ![p] = "joined"]
        /\ players' = AppendPlayer(players, p) /\ turn' = TurnOnJoin
        /\ clashed' \in BOOLEAN
        /\ UNCHANGED <<username, curHostIndex, wordVars, chatLogs, channelVars,
                       gameLoop, wins, rounds, removals, ownerVars>>
    BY DEF NewPlayer, RoundInv, TypeOK
  <1>2. Len(players') = N + 1 /\ players' # <<>> /\ players' \in Seq(Hashes)
    BY <1>1, AppendType
  <1>3. turn' \in 0 .. N /\ curHostIndex \in 0 .. N /\ turn' \in Nat
    <2>1. CASE players = <<>>
      <3>1. N = 0 /\ turn = 0 /\ curHostIndex = 0
        BY <2>1, NewPlayer(p) DEF NewPlayer, RoundInv, Populated, N
      <3> QED
        BY <1>1, <3>1 DEF TurnOnJoin
    <2>2. CASE players # <<>>
      BY <1>1, <2>2, Seats DEF TurnOnJoin
    <2> QED
      BY <2>1, <2>2
  <1>4. TypeOK'
    BY <1>1, <1>2, <1>3 DEF RoundInv, TypeOK, wordVars, channelVars, ownerVars
  <1>5. Populated' /\ SeatsInRange'
    BY <1>1, <1>2, <1>3, AppendType DEF Populated, SeatsInRange, InRange
  <1>6. TurnPassesHost'
    <2> SUFFICES ASSUME ~needNewWord, ~randomlyChosen, N + 1 >= 2
                 PROVE  turn' # curHostIndex
      BY <1>1, <1>2 DEF TurnPassesHost, wordVars, N
    <2>1. players # <<>>
      BY NewPlayer(p) DEF NewPlayer, RoundInv, Populated
    <2>2. CASE N = 1
      BY <1>1, <2>1, <2>2, Seats DEF TurnOnJoin
    <2>3. CASE N # 1
      BY <1>1, <2>1, <2>3, Seats DEF TurnOnJoin, RoundInv, TurnPassesHost
    <2> QED
      BY <2>2, <2>3
  <1>7. OneWinPerRound'
    BY <1>1 DEF RoundInv, OneWinPerRound, wordVars
  <1> QED
    BY <1>4, <1>5, <1>6, <1>7 DEF RoundInv

\* The steps of a handler that change no seat.
LEMMA PushRound ==
    ASSUME RoundInv, NEW p \in Hashes, NEW msg \in Messages,
           PushInput(p, msg)
    PROVE  RoundInv'
  <1>1. /\ pushed' = pushed + 1 /\ pushed < MaxInputs
        /\ stage' \in [Hashes -> {"new", "joining", "joined", "exited"}]
        /\ gameLoop = "running" => players # <<>>
        /\ UNCHANGED <<players, username, wordVars, seatVars, chatLogs, gameLoop,
                       historyVars>>
    BY DEF PushInput, RoundInv, TypeOK, Populated
  <1>2. inputs' \subseteq InputRecord
    <2>1. pushed + 1 \in 1 .. MaxInputs /\ removals \in Nat
          /\ IndexFunc(players, p) \in Int
      BY <1>1, IndexFuncType DEF RoundInv, TypeOK
    <2>2. [id |-> pushed + 1, from |-> p, msg |-> msg, idx |-> IndexFunc(players, p),
           removalsSeen |-> removals] \in InputRecord
      BY <2>1 DEF InputRecord
    <2> QED
      BY <2>2 DEF PushInput, RoundInv, TypeOK
  <1>3. TypeOK'
    BY <1>1, <1>2 DEF RoundInv, TypeOK, wordVars, seatVars, historyVars, ownerVars
  <1> QED
    BY <1>1, <1>3 DEF RoundInv, Populated, SeatsInRange, TurnPassesHost,
       OneWinPerRound, wordVars, seatVars, historyVars, N

\* What a message carries, by its kind.
LEMMA MessageFields ==
    ASSUME NEW m \in InputRecord
    PROVE  /\ m.from \in Hashes /\ m.idx \in Int /\ m.removalsSeen \in Nat
           /\ m.msg.op = "guess" => m.msg.letter \in Letters
           /\ m.msg.op = "username" => m.msg.name \in NewNames
  <1>1. m.from \in Hashes /\ m.idx \in Int /\ m.removalsSeen \in Nat /\ m.msg \in Messages
    BY DEF InputRecord
  <1> QED
    BY <1>1 DEF Messages

\* An element of the slice, at an index in range.
LEMMA ElementType ==
    ASSUME TypeOK, NEW i \in Int, InRange(players, i)
    PROVE  players[i + 1] \in Hashes
  <1>1. Len(players) \in Nat /\ i + 1 \in 1 .. Len(players)
    BY LenProperties DEF TypeOK, InRange
  <1> QED
    BY <1>1, ElementOfSeq DEF TypeOK

\* What every input finds: GameLoop runs, and there are players.
LEMMA Popped ==
    ASSUME RoundInv, NEW m \in inputs, HandleInput(m)
    PROVE  /\ gameLoop = "running" /\ m \in InputRecord
           /\ inputs' \subseteq inputs /\ inputs' \subseteq InputRecord
           /\ UNCHANGED pushed
           /\ TypeOK /\ players # <<>>
  BY DEF HandleInput, RoundInv, TypeOK, Populated

\* Every input leaves the history of the word's owner in its type.
LEMMA OwnerType ==
    ASSUME TypeOK, NEW m \in inputs, HandleInput(m)
    PROVE  chooser' \in SUBSET Hashes /\ hostMoved' \in BOOLEAN
  <1>1. m.from \in Hashes
    BY MessageFields DEF TypeOK
  <1>2. chooser \in SUBSET Hashes /\ hostMoved \in BOOLEAN
    BY DEF TypeOK
  <1>3. CASE Guess(m)
    BY <1>2, <1>3 DEF Guess, EndRound, ownerVars
  <1>4. CASE \E word, random : StartRound(m, word, random)
    BY <1>1, <1>4 DEF StartRound
  <1>5. CASE RemovePlayer(m)
    BY <1>2, <1>5 DEF RemovePlayer
  <1>6. CASE ChangeUsername(m) \/ Chat(m) \/ Panic(m) \/ Ignored(m)
    BY <1>2, <1>6 DEF ChangeUsername, Chat, Panic, Ignored, historyVars, ownerVars
  <1> QED
    BY <1>3, <1>4, <1>5, <1>6 DEF HandleInput, NewWord, RandomNewWord

LEMMA GuessRound ==
    ASSUME RoundInv, NEW m \in inputs, HandleInput(m), Guess(m)
    PROVE  RoundInv'
  <1>1. /\ m \in InputRecord /\ inputs' \subseteq InputRecord /\ UNCHANGED pushed
        /\ TypeOK /\ players # <<>> /\ gameLoop = "running"
    BY Popped
  <1>2. /\ m.msg.letter \in Letters /\ m.from \in Hashes /\ m.idx = turn /\ ~needNewWord
        /\ m.removalsSeen \in Nat
    BY <1>1, MessageFields DEF Guess, GuessAccepted
  <1>3. /\ guessed' = guessed \cup {m.msg.letter}
        /\ UNCHANGED <<players, username, stage, currentWord, randomlyChosen,
                       chatLogs, gameLoop, rounds, removals, clashed>>
    BY DEF Guess
  <1>4. N \in Nat \ {0} /\ turn \in 0 .. N - 1 /\ curHostIndex \in 0 .. N - 1
    BY <1>1, Seats
  <1>5. players[turn + 1] \in Hashes /\ players[curHostIndex + 1] \in Hashes
    <2>1. InRange(players, turn) /\ InRange(players, curHostIndex)
      BY <1>4 DEF InRange, N
    <2> QED
      BY <1>1, <1>4, <2>1, ElementType
  <1>6. SUFFICES /\ turn' \in 0 .. N - 1 /\ curHostIndex' \in 0 .. N - 1
                 /\ guessesLeft' \in 1 .. MaxGuesses /\ needNewWord' \in BOOLEAN
                 /\ winner' \in {NoWinner, HostWins, HostLoses}
                 /\ wins' \in Seq(WinRecord)
                 /\ TurnPassesHost' /\ OneWinPerRound'
    <2>1. TypeOK'
      BY <1>1, <1>2, <1>3, <1>6, OwnerType DEF TypeOK
    <2>2. Populated' /\ SeatsInRange'
      BY <1>1, <1>3, <1>4, <1>6 DEF Populated, SeatsInRange, InRange, N
    <2> QED
      BY <1>6, <2>1, <2>2 DEF RoundInv
  <1>7. ASSUME NEW outcome \in {HostWins, HostLoses},
               NEW i \in {m.idx, curHostIndex},
               EndRound(outcome, i, m), UNCHANGED guessesLeft
        PROVE  /\ turn' \in 0 .. N - 1 /\ curHostIndex' \in 0 .. N - 1
               /\ guessesLeft' \in 1 .. MaxGuesses /\ needNewWord' = TRUE
               /\ winner' \in {NoWinner, HostWins, HostLoses}
               /\ wins' \in Seq(WinRecord) /\ Len(wins') = Len(wins) + 1
    <2>1. players[i + 1] \in Hashes
      BY <1>2, <1>5
    <2>2. [player |-> players[i + 1], by |-> m.from, outcome |-> outcome,
           fresh |-> m.removalsSeen = removals] \in WinRecord
      BY <1>2, <2>1 DEF WinRecord
    <2>3. wins' \in Seq(WinRecord) /\ Len(wins') = Len(wins) + 1
      BY <1>1, <1>7, <2>2, AppendProperties DEF EndRound, TypeOK
    <2>4. turn' \in 0 .. N - 1 /\ curHostIndex' \in 0 .. N - 1
      <3>1. curHostIndex + 2 \in Nat /\ curHostIndex + 1 \in Nat
        BY <1>4
      <3> QED
        BY <1>4, <1>7, <3>1, ModRange DEF EndRound, NextIndex
    <2> QED
      BY <1>1, <1>7, <2>3, <2>4 DEF EndRound, TypeOK
  <1>8. ASSUME UNCHANGED <<needNewWord, winner, curHostIndex, wins>>,
               guessesLeft' \in 1 .. MaxGuesses, turn' \in 0 .. N - 1,
               N >= 2 /\ ~randomlyChosen => turn' # curHostIndex
        PROVE  /\ turn' \in 0 .. N - 1 /\ curHostIndex' \in 0 .. N - 1
               /\ guessesLeft' \in 1 .. MaxGuesses /\ needNewWord' \in BOOLEAN
               /\ winner' \in {NoWinner, HostWins, HostLoses}
               /\ wins' \in Seq(WinRecord)
               /\ TurnPassesHost' /\ OneWinPerRound'
    BY <1>1, <1>3, <1>4, <1>8 DEF TypeOK, RoundInv, TurnPassesHost,
       OneWinPerRound, N
  <1>9. CASE \E outcome \in {HostWins, HostLoses}, i \in {m.idx, curHostIndex} :
                EndRound(outcome, i, m) /\ UNCHANGED guessesLeft
    <2>1. /\ turn' \in 0 .. N - 1 /\ curHostIndex' \in 0 .. N - 1
          /\ guessesLeft' \in 1 .. MaxGuesses /\ needNewWord' = TRUE
          /\ winner' \in {NoWinner, HostWins, HostLoses}
          /\ wins' \in Seq(WinRecord) /\ Len(wins') = Len(wins) + 1
      BY <1>7, <1>9
    <2>2. Len(wins) \in Nat /\ rounds \in Nat
      BY <1>1, LenProperties DEF TypeOK
    <2> QED
      BY <1>2, <1>3, <2>1, <2>2 DEF TurnPassesHost, RoundInv, OneWinPerRound
  <1>10. CASE /\ ~LastGuess /\ guessesLeft' = guessesLeft - 1 /\ turn' = NextTurn
              /\ UNCHANGED <<needNewWord, winner, curHostIndex, wins>>
    <2>1. guessesLeft' \in 1 .. MaxGuesses
      BY <1>1, <1>10 DEF TypeOK, LastGuess
    <2>2. \A i \in 0 .. N - 1 : NextIndex(i) = IF i + 1 = N THEN 0 ELSE i + 1
      BY <1>4, NextSeat DEF NextIndex
    <2>3. NextIndex(turn) \in 0 .. N - 1 /\ NextIndex(NextIndex(turn)) \in 0 .. N - 1
      BY <1>4, <2>2
    <2>4. N >= 2 => NextIndex(curHostIndex) # curHostIndex
      BY <1>4, <2>2
    <2>5. NextTurn \in 0 .. N - 1 /\ (N >= 2 /\ ~randomlyChosen => NextTurn # curHostIndex)
      BY <2>3, <2>4 DEF NextTurn
    <2> QED
      BY <1>8, <1>10, <2>1, <2>5
  <1>11. CASE UNCHANGED <<guessesLeft, seatVars, needNewWord, winner, wins>>
    <2>1. N >= 2 /\ ~randomlyChosen => turn' # curHostIndex
      BY <1>2, <1>11 DEF RoundInv, TurnPassesHost, seatVars
    <2> QED
      BY <1>1, <1>4, <1>8, <1>11, <2>1 DEF seatVars, TypeOK
  <1> QED
    BY <1>9, <1>10, <1>11 DEF Guess

LEMMA StartRoundRound ==
    ASSUME RoundInv, NEW m \in inputs, HandleInput(m),
           NEW word \in Words, NEW random \in BOOLEAN, StartRound(m, word, random)
    PROVE  RoundInv'
  <1>1. /\ inputs' \subseteq InputRecord /\ UNCHANGED pushed
        /\ TypeOK /\ players # <<>>
    BY Popped
  <1>2. N \in Nat \ {0} /\ turn \in 0 .. N - 1 /\ curHostIndex \in 0 .. N - 1
    BY <1>1, Seats
  <1>3. turn' = (IF curHostIndex + 1 = N THEN 0 ELSE curHostIndex + 1)
    BY <1>2, NextSeat DEF StartRound, NextIndex
  <1>4. TypeOK'
    <2>1. guessesLeft' \in 1 .. MaxGuesses
      BY DEF StartRound, GuessesAfterNewWord
    <2>2. turn' \in Nat /\ rounds' \in Nat
      BY <1>1, <1>2, <1>3 DEF StartRound, TypeOK
    <2> QED
      BY <1>1, <2>1, <2>2, OwnerType DEF StartRound, TypeOK
  <1>5. Populated' /\ SeatsInRange' /\ TurnPassesHost'
    BY <1>1, <1>2, <1>3 DEF StartRound, Populated, SeatsInRange, InRange,
       TurnPassesHost, N
  <1>6. OneWinPerRound'
    <2>1. Len(wins) \in Nat /\ rounds \in Nat
      BY <1>1, LenProperties DEF TypeOK
    <2> QED
      BY <2>1 DEF RoundInv, OneWinPerRound, StartRound
  <1> QED
    BY <1>4, <1>5, <1>6 DEF RoundInv

LEMMA RemovePlayerRound ==
    ASSUME RoundInv, NEW m \in inputs, HandleInput(m), RemovePlayer(m)
    PROVE  RoundInv'
  <1>1. /\ m \in InputRecord /\ inputs' \subseteq InputRecord /\ UNCHANGED pushed
        /\ TypeOK /\ players # <<>>
    BY Popped
  <1>2. N \in Nat \ {0} /\ turn \in 0 .. N - 1 /\ curHostIndex \in 0 .. N - 1
    BY <1>1, Seats
  <1>3. /\ players' \in Seq(Hashes) /\ Len(players') = N - 1
        /\ removals' \in Nat
        /\ UNCHANGED <<username, stage, wordVars, chatLogs, wins, rounds, clashed>>
    <2>1. m.idx \in Int /\ 0 <= m.idx /\ m.idx < Len(players)
      BY <1>1, MessageFields DEF RemovePlayer, Panics, InRange
    <2> QED
      BY <1>1, <2>1, SliceDeleteType DEF RemovePlayer, TypeOK, N
  <1>4. CASE N = 1
    <2>1. gameLoop' = "stuck" /\ UNCHANGED seatVars
      BY <1>4 DEF RemovePlayer
    <2>2. players' = <<>>
      BY <1>3, <1>4, EmptySeq
    <2>3. TypeOK'
      BY <1>1, <1>3, <2>1, OwnerType DEF TypeOK, wordVars, seatVars
    <2> QED
      BY <1>3, <1>4, <2>1, <2>2, <2>3 DEF RoundInv, Populated, SeatsInRange,
         TurnPassesHost, OneWinPerRound, wordVars, N
  <1>5. CASE N # 1
    <2> DEFINE n == N - 1
               host == curHostIndex % n
               next == turn % n
    <2>1. n \in Nat \ {0}
      BY <1>2, <1>5
    <2>2. /\ curHostIndex' = host /\ UNCHANGED gameLoop
          /\ turn' = IF needNewWord THEN host
                     ELSE IF host = next THEN (next + 1) % n ELSE next
      BY <1>5 DEF RemovePlayer, HostAfterRemoval
    <2>3. host \in 0 .. n - 1 /\ next \in 0 .. n - 1
      BY <1>2, <2>1, ModRange
    <2>4. (next + 1) % n = IF next + 1 = n THEN 0 ELSE next + 1
      BY <2>1, <2>3, NextSeat
    <2> HIDE DEF host, next, n
    <2>5. turn' \in 0 .. n - 1 /\ curHostIndex' \in 0 .. n - 1
          /\ (n >= 2 /\ ~needNewWord => turn' # curHostIndex')
      BY <2>1, <2>2, <2>3, <2>4
    <2>6. Len(players') = n /\ players' # <<>>
      BY <1>3, <2>1, EmptySeq DEF n
    <2>7. TypeOK'
      BY <1>1, <1>3, <2>1, <2>2, <2>5, OwnerType DEF TypeOK, wordVars
    <2> QED
      BY <1>3, <2>1, <2>5, <2>6, <2>7 DEF RoundInv, Populated, SeatsInRange,
         InRange, TurnPassesHost, OneWinPerRound, wordVars, N
  <1> QED
    BY <1>4, <1>5

\* Steps that move no seat and end no round.
LEMMA SeatsKept ==
    ASSUME RoundInv, TypeOK', UNCHANGED <<players, wordVars, seatVars, wins, rounds>>,
           gameLoop' = "running" => players # <<>>
    PROVE  RoundInv'
  BY DEF RoundInv, Populated, SeatsInRange, TurnPassesHost, OneWinPerRound,
         wordVars, seatVars, N

LEMMA BeginJoinRound ==
    ASSUME RoundInv, NEW p \in Hashes, BeginJoin(p)
    PROVE  RoundInv'
  <1>1. /\ stage' = [stage EXCEPT ![p] = "joining"]
        /\ username' = [username EXCEPT ![p] = N + 1]
        /\ UNCHANGED <<players, wordVars, seatVars, chatLogs, channelVars, gameLoop,
                       historyVars>>
    BY DEF BeginJoin
  <1>2. N + 1 \in Nat
    BY LenProperties DEF RoundInv, TypeOK, N
  <1>3. TypeOK'
    BY <1>1, <1>2 DEF RoundInv, TypeOK, wordVars, seatVars, channelVars, historyVars, ownerVars
  <1> QED
    BY <1>1, <1>3 DEF RoundInv, TypeOK, Populated, SeatsInRange, TurnPassesHost,
       OneWinPerRound, wordVars, seatVars, channelVars, historyVars, N

Line == [sender : NewNames \cup Nat, by : Hashes]

LEMMA LinesType ==
    ASSUME TypeOK
    PROVE  /\ Len(chatLogs) \in Nat /\ DOMAIN chatLogs = 1 .. Len(chatLogs)
           /\ \A i \in 1 .. Len(chatLogs) : chatLogs[i] \in Line
  <1>1. chatLogs \in Seq(Line)
    BY DEF TypeOK, Line
  <1>2. Len(chatLogs) \in Nat /\ DOMAIN chatLogs = 1 .. Len(chatLogs)
    BY <1>1, LenProperties
  <1>3. \A i \in 1 .. Len(chatLogs) : chatLogs[i] \in Line
    BY <1>1, ElementOfSeq
  <1> QED
    BY <1>2, <1>3

\* A rename rewrites lines in place.
LEMMA RenamedType ==
    ASSUME TypeOK, NEW old, NEW new \in NewNames
    PROVE  /\ RenamedLines(old, new) \in Seq(Line)
           /\ DOMAIN RenamedLines(old, new) = DOMAIN chatLogs
           /\ \A i \in DOMAIN chatLogs :
                 /\ RenamedLines(old, new)[i].by = chatLogs[i].by
                 /\ RenamedLines(old, new)[i].sender =
                       IF chatLogs[i].sender = old THEN new ELSE chatLogs[i].sender
  <1> DEFINE line(i) == IF chatLogs[i].sender = old
                        THEN [chatLogs[i] EXCEPT !.sender = new] ELSE chatLogs[i]
             n == Len(chatLogs)
  <1>1. n \in Nat /\ DOMAIN chatLogs = 1 .. n
        /\ \A i \in 1 .. n : chatLogs[i] \in Line
    BY LinesType
  <1>2. \A i \in 1 .. n :
           /\ line(i) \in Line /\ line(i).by = chatLogs[i].by
           /\ line(i).sender = IF chatLogs[i].sender = old THEN new
                               ELSE chatLogs[i].sender
    BY <1>1 DEF Line
  <1>3. RenamedLines(old, new) = [i \in 1 .. n |-> line(i)]
    BY <1>1 DEF RenamedLines
  <1> HIDE DEF line, n
  <1>4. RenamedLines(old, new) \in [1 .. n -> Line]
    BY <1>2, <1>3
  <1>5. RenamedLines(old, new) \in Seq(Line)
    BY <1>1, <1>4, SeqDef
  <1> QED
    BY <1>1, <1>2, <1>3, <1>5

\* Chat lines and usernames, and the inputs that change nothing or panic.
LEMMA TalkRound ==
    ASSUME RoundInv, NEW m \in inputs, HandleInput(m),
           ChangeUsername(m) \/ Chat(m) \/ Panic(m) \/ Ignored(m)
    PROVE  RoundInv'
  <1>1. /\ m \in InputRecord /\ inputs' \subseteq InputRecord /\ UNCHANGED pushed
        /\ TypeOK /\ players # <<>>
    BY Popped
  <1>2. m.idx \in Int
    BY <1>1, MessageFields
  <1>3. CASE ChangeUsername(m)
    <2>1. m.msg.name \in NewNames
      BY <1>1, <1>3, MessageFields DEF ChangeUsername
    <2>2. /\ username' = [username EXCEPT ![players[m.idx + 1]] = m.msg.name]
          /\ chatLogs' = RenamedLines(username[players[m.idx + 1]], m.msg.name)
          /\ UNCHANGED <<players, stage, wordVars, seatVars, gameLoop, historyVars>>
      BY <1>3 DEF ChangeUsername
    <2>3. username' \in [Hashes -> NewNames \cup Nat]
      BY <1>1, <2>1, <2>2 DEF TypeOK
    <2>4. chatLogs' \in Seq([sender : NewNames \cup Nat, by : Hashes])
      BY <1>1, <2>1, <2>2, RenamedType DEF Line
    <2>5. TypeOK'
      BY <1>1, <2>2, <2>3, <2>4 DEF TypeOK, wordVars, seatVars, historyVars, ownerVars
    <2> QED
      BY <1>1, <2>2, <2>5, SeatsKept DEF historyVars
  <1>4. CASE Chat(m)
    <2>1. /\ chatLogs' = Append(chatLogs, [sender |-> username[players[m.idx + 1]],
                                           by |-> players[m.idx + 1]])
          /\ InRange(players, m.idx)
          /\ UNCHANGED <<peopleVars, wordVars, seatVars, gameLoop, historyVars>>
      BY <1>4 DEF Chat, Panics
    <2>2. players[m.idx + 1] \in Hashes
      BY <1>1, <1>2, <2>1, ElementType
    <2>3. chatLogs' \in Seq([sender : NewNames \cup Nat, by : Hashes])
      BY <1>1, <2>1, <2>2, AppendProperties DEF TypeOK
    <2>4. TypeOK'
      BY <1>1, <2>1, <2>3 DEF TypeOK, peopleVars, wordVars, seatVars, historyVars, ownerVars
    <2> QED
      BY <1>1, <2>1, <2>4, SeatsKept DEF peopleVars, historyVars
  <1>5. CASE Panic(m) \/ Ignored(m)
    <2>1. /\ UNCHANGED <<peopleVars, wordVars, seatVars, chatLogs, historyVars>>
          /\ gameLoop' \in {gameLoop, "panicked"}
      BY <1>5 DEF Panic, Ignored
    <2>2. TypeOK'
      BY <1>1, <2>1 DEF TypeOK, peopleVars, wordVars, seatVars, historyVars, ownerVars
    <2> QED
      BY <1>1, <2>1, <2>2, SeatsKept DEF peopleVars, historyVars
  <1> QED
    BY <1>3, <1>4, <1>5

LEMMA StepRound == RoundInv /\ [Next]_vars => RoundInv'
  <1> SUFFICES ASSUME RoundInv, [Next]_vars PROVE RoundInv'
    OBVIOUS
  <1>1. ASSUME NEW m \in inputs, HandleInput(m) PROVE RoundInv'
    <2>1. CASE NewWord(m) \/ RandomNewWord(m)
      <3>1. \E word \in Words, random \in BOOLEAN : StartRound(m, word, random)
        BY <2>1 DEF NewWord, NewWordAccepted, RandomNewWord
      <3> QED
        BY <1>1, <3>1, StartRoundRound
    <2> QED
      BY <1>1, <2>1, GuessRound, RemovePlayerRound, TalkRound DEF HandleInput
  <1>2. CASE UNCHANGED vars
    <2>1. /\ UNCHANGED <<peopleVars, wordVars, seatVars, chatLogs, channelVars,
                         gameLoop, historyVars>>
      BY <1>2 DEF vars
    <2>2. TypeOK'
      BY <2>1 DEF RoundInv, TypeOK, peopleVars, wordVars, seatVars, channelVars, historyVars,
         ownerVars
    <2> QED
      BY <2>1, <2>2 DEF RoundInv, Populated, SeatsInRange, TurnPassesHost,
         OneWinPerRound, peopleVars, wordVars, seatVars, channelVars, historyVars, N
  <1> QED
    BY <1>1, <1>2, BeginJoinRound, NewPlayerRound, PushRound DEF Next

LEMMA RoundInvariant == Spec => []RoundInv
  BY InitRound, StepRound, PTL DEF Spec

\* Every variable stays in its type, for any players, words and inputs (all of the
\* modelled code).
THEOREM HangmanTypeCorrect == Spec => []TypeOK
  <1>1. RoundInv => TypeOK
    BY DEF RoundInv
  <1> QED
    BY <1>1, RoundInvariant, PTL

\* turn and curHostIndex index players as long as there are any (guess, newWord,
\* newPlayer, removePlayer).
THEOREM SeatsStayInRange == Spec => []SeatsInRange
  <1>1. RoundInv => SeatsInRange
    BY DEF RoundInv
  <1> QED
    BY <1>1, RoundInvariant, PTL

\* No round is won twice, or before it ends (guess, newWord, randomNewWord).
THEOREM RoundsAreWonOnce == Spec => []OneWinPerRound
  <1>1. RoundInv => OneWinPerRound
    BY DEF RoundInv
  <1> QED
    BY <1>1, RoundInvariant, PTL

-----------------------------------------------------------------------------
(* Credit.                                                                 *)

\* An input that was pushed after the last removal still names its sender.
FreshInputs ==
    \A m \in inputs :
        /\ m.removalsSeen <= removals
        /\ m.removalsSeen = removals /\ m.idx >= 0 =>
              InRange(players, m.idx) /\ players[m.idx + 1] = m.from

CreditInv == FreshInputs /\ FreshGuessCreditsSender

LEMMA InitCredit == Init => CreditInv
  BY DEF Init, CreditInv, FreshInputs, FreshGuessCreditsSender

\* Steps that push nothing, remove nobody and credit nobody.
LEMMA CreditKept ==
    ASSUME CreditInv, inputs' \subseteq inputs, UNCHANGED <<players, removals, wins>>
    PROVE  CreditInv'
  BY DEF CreditInv, FreshInputs, FreshGuessCreditsSender

LEMMA PushCredit ==
    ASSUME RoundInv, CreditInv, NEW p \in Hashes, NEW msg \in Messages,
           PushInput(p, msg)
    PROVE  CreditInv'
  <1> DEFINE new == [id |-> pushed + 1, from |-> p, msg |-> msg,
                     idx |-> IndexFunc(players, p), removalsSeen |-> removals]
  <1>1. inputs' = inputs \cup {new} /\ UNCHANGED <<players, removals, wins>>
    BY DEF PushInput, historyVars
  <1>2. players \in Seq(Hashes) /\ removals \in Nat
    BY DEF RoundInv, TypeOK
  <1>3. new.idx >= 0 => InRange(players, new.idx) /\ players[new.idx + 1] = new.from
    <2>1. IndexFunc(players, p) >= 0 => p \in Elements(players)
      BY <1>2, IndexFuncType
    <2> QED
      BY <1>2, <2>1, IndexFuncType DEF InRange
  <1>4. new.removalsSeen <= removals
    BY <1>2
  <1> QED
    BY <1>1, <1>3, <1>4 DEF CreditInv, FreshInputs, FreshGuessCreditsSender

LEMMA NewPlayerCredit ==
    ASSUME RoundInv, CreditInv, NEW p \in Hashes, NewPlayer(p)
    PROVE  CreditInv'
  <1>1. /\ players' = AppendPlayer(players, p)
        /\ UNCHANGED <<inputs, removals, wins>>
    BY DEF NewPlayer, channelVars
  <1>2. /\ N \in Nat /\ Len(players') = N + 1
        /\ \A i \in 1 .. N : players'[i] = players[i]
    BY <1>1, AppendType
  <1>3. \A i \in Int : InRange(players, i) =>
           InRange(players', i) /\ players'[i + 1] = players[i + 1]
    BY <1>2 DEF InRange, N
  <1>4. \A m \in inputs : m.idx \in Int
    BY MessageFields DEF RoundInv, TypeOK
  <1> QED
    BY <1>1, <1>3, <1>4 DEF CreditInv, FreshInputs, FreshGuessCreditsSender

\* A win that EndRound credits to index idx.
LEMMA EndRoundCredit ==
    ASSUME RoundInv, CreditInv, NEW m \in inputs, HandleInput(m),
           NEW outcome, NEW idx, EndRound(outcome, idx, m),
           UNCHANGED <<players, removals>>,
           outcome = HostLoses /\ m.removalsSeen = removals => players[idx + 1] = m.from
    PROVE  CreditInv'
  <1> DEFINE win == [player |-> players[idx + 1], by |-> m.from, outcome |-> outcome,
                     fresh |-> m.removalsSeen = removals]
  <1>1. wins' = Append(wins, win) /\ inputs' \subseteq inputs
    BY DEF EndRound, HandleInput
  <1>2. win.outcome = HostLoses /\ win.fresh => win.player = win.by
    OBVIOUS
  <1>3. Len(wins) \in Nat /\ DOMAIN wins = 1 .. Len(wins) /\ wins \in Seq(WinRecord)
    BY LenProperties DEF RoundInv, TypeOK
  <1> HIDE DEF win
  <1>4. /\ DOMAIN wins' = 1 .. Len(wins) + 1
        /\ wins'[Len(wins) + 1] = win
        /\ \A i \in 1 .. Len(wins) : wins'[i] = wins[i]
    BY <1>1, <1>3
  <1>5. FreshGuessCreditsSender'
    <2> SUFFICES ASSUME NEW i \in 1 .. Len(wins) + 1
                 PROVE  wins'[i].outcome = HostLoses /\ wins'[i].fresh =>
                            wins'[i].player = wins'[i].by
      BY <1>4 DEF FreshGuessCreditsSender
    <2>1. CASE i = Len(wins) + 1
      BY <1>2, <1>4, <2>1
    <2>2. CASE i \in 1 .. Len(wins)
      BY <1>3, <1>4, <2>2 DEF CreditInv, FreshGuessCreditsSender
    <2> QED
      BY <1>3, <2>1, <2>2
  <1> QED
    BY <1>1, <1>5 DEF CreditInv, FreshInputs

LEMMA HandleCredit ==
    ASSUME RoundInv, CreditInv, NEW m \in inputs, HandleInput(m)
    PROVE  CreditInv'
  <1>1. /\ inputs' \subseteq inputs /\ TypeOK /\ players # <<>>
        /\ m \in InputRecord
    BY Popped
  <1>2. CASE Guess(m)
    <2>1. m.idx = turn /\ turn >= 0 /\ UNCHANGED <<players, removals>>
      BY <1>1, <1>2, Seats DEF Guess, GuessAccepted
    <2>2. m.removalsSeen = removals => players[m.idx + 1] = m.from
      BY <2>1 DEF CreditInv, FreshInputs
    <2>3. \/ EndRound(HostLoses, m.idx, m)
          \/ EndRound(HostWins, curHostIndex, m)
          \/ UNCHANGED wins
      BY <1>2 DEF Guess
    <2>4. HostWins # HostLoses
      BY DEF HostWins, HostLoses
    <2> QED
      BY <1>1, <2>1, <2>2, <2>3, <2>4, EndRoundCredit, CreditKept
  <1>3. CASE RemovePlayer(m)
    <2>1. removals' = removals + 1 /\ UNCHANGED wins
      BY <1>3 DEF RemovePlayer
    <2>2. \A n \in inputs : n.removalsSeen \in Nat /\ n.removalsSeen <= removals
      BY <1>1, MessageFields DEF TypeOK, CreditInv, FreshInputs
    <2>3. removals \in Nat
      BY <1>1 DEF TypeOK
    <2>4. FreshInputs'
      BY <1>1, <2>1, <2>2, <2>3 DEF FreshInputs
    <2> QED
      BY <2>1, <2>4 DEF CreditInv, FreshGuessCreditsSender
  <1>4. CASE UNCHANGED <<players, removals, wins>>
    BY <1>1, <1>4, CreditKept
  <1>5. ASSUME ~Guess(m), ~RemovePlayer(m) PROVE UNCHANGED <<players, removals, wins>>
    BY <1>5 DEF HandleInput, NewWord, RandomNewWord, StartRound, ChangeUsername, Chat,
       Panic, Ignored, peopleVars, historyVars
  <1> QED
    BY <1>2, <1>3, <1>4, <1>5

LEMMA StepCredit == RoundInv /\ CreditInv /\ [Next]_vars => CreditInv'
  <1> SUFFICES ASSUME RoundInv, CreditInv, [Next]_vars PROVE CreditInv'
    OBVIOUS
  <1>1. ASSUME NEW p \in Hashes, BeginJoin(p) PROVE CreditInv'
    BY <1>1, CreditKept DEF BeginJoin, channelVars, historyVars
  <1>2. CASE UNCHANGED vars
    BY <1>2, CreditKept DEF vars, peopleVars, channelVars, historyVars
  <1> QED
    BY <1>1, <1>2, NewPlayerCredit, PushCredit, HandleCredit DEF Next

\* A word is credited to whoever sent the guess that solved it, unless somebody was
\* removed in between (the handlers' lookup, guess, ConsumeWinners).
THEOREM FreshGuessesAreCredited == Spec => []FreshGuessCreditsSender
  <1>1. CreditInv => FreshGuessCreditsSender
    BY DEF CreditInv
  <1> QED
    BY <1>1, InitCredit, StepCredit, RoundInvariant, PTL DEF Spec

-----------------------------------------------------------------------------
(* Names.                                                                  *)

\* Who sits in the game, or has said something, has joined.
Joined(p) == stage[p] \in {"joined", "exited"}

Present ==
    /\ \A p \in Elements(players) : Joined(p)
    /\ \A i \in DOMAIN chatLogs : Joined(chatLogs[i].by)

\* The players' names differ until a player has joined under a name in use.
NamesDiffer ==
    ~clashed => \A p, q \in Elements(players) : username[p] = username[q] => p = q

NameInv == Present /\ NamesDiffer /\ LinesFollowRenames

LEMMA InitNames == Init => NameInv
  BY DEF Init, NameInv, Present, NamesDiffer, LinesFollowRenames, Elements

\* Steps that change no name and no line, and only let players go.
LEMMA NamesKept ==
    ASSUME NameInv, UNCHANGED <<username, chatLogs, clashed>>,
           Elements(players)' \subseteq Elements(players),
           \A p : Joined(p) => Joined(p)'
    PROVE  NameInv'
  BY DEF NameInv, Present, NamesDiffer, LinesFollowRenames

LEMMA BeginJoinNames ==
    ASSUME RoundInv, NameInv, NEW p \in Hashes, BeginJoin(p)
    PROVE  NameInv'
  <1>1. /\ ~Joined(p) /\ stage' = [stage EXCEPT ![p] = "joining"]
        /\ username' = [username EXCEPT ![p] = N + 1]
        /\ UNCHANGED <<players, chatLogs, clashed>>
    BY DEF BeginJoin, Joined, historyVars
  <1>2. \A q : q # p => stage'[q] = stage[q] /\ username'[q] = username[q]
    BY <1>1 DEF RoundInv, TypeOK
  <1>3. p \notin Elements(players) /\ \A i \in DOMAIN chatLogs : chatLogs[i].by # p
    BY <1>1 DEF NameInv, Present
  <1>4. Elements(players)' = Elements(players)
    BY <1>1 DEF Elements
  <1> QED
    BY <1>1, <1>2, <1>3, <1>4 DEF NameInv, Present, Joined, NamesDiffer,
       LinesFollowRenames

LEMMA NewPlayerNames ==
    ASSUME RoundInv, NameInv, NEW p \in Hashes, NewPlayer(p)
    PROVE  NameInv'
  <1>1. /\ ~Joined(p) /\ stage' = [stage EXCEPT ![p] = "joined"]
        /\ players' = AppendPlayer(players, p)
        /\ clashed' = (clashed \/ NameTaken(username[p]))
        /\ UNCHANGED <<username, chatLogs>>
    BY DEF NewPlayer, Joined
  <1>2. /\ Joined(p)'
        /\ \A q : Joined(q) => Joined(q)'
    BY <1>1 DEF Joined, RoundInv, TypeOK
  <1>3. Elements(players)' = Elements(players) \cup {p}
    <2>1. /\ N \in Nat /\ Len(players') = N + 1 /\ players'[N + 1] = p
          /\ \A i \in 1 .. N : players'[i] = players[i]
      BY <1>1, AppendType
    <2> QED
      BY <2>1 DEF Elements, N
  <1>4. p \notin Elements(players) /\ \A i \in DOMAIN chatLogs : chatLogs[i].by # p
    BY <1>1 DEF NameInv, Present
  <1>5. ~clashed' => \A q \in Elements(players) : username[q] # username[p]
    BY <1>1 DEF NameTaken
  <1> QED
    BY <1>1, <1>2, <1>3, <1>4, <1>5 DEF NameInv, Present, NamesDiffer,
       LinesFollowRenames

LEMMA RenameNames ==
    ASSUME RoundInv, NameInv, NEW m \in inputs, HandleInput(m), ChangeUsername(m)
    PROVE  NameInv'
  <1>1. PICK p : p = players[m.idx + 1]
    OBVIOUS
  <1>2. TypeOK /\ m \in InputRecord /\ m.msg.name \in NewNames /\ m.idx \in Int
    BY Popped, MessageFields DEF ChangeUsername
  <1>3. /\ username' = [username EXCEPT ![p] = m.msg.name]
        /\ chatLogs' = RenamedLines(username[p], m.msg.name)
        /\ \A q \in Elements(players) : username[q] # m.msg.name
        /\ InRange(players, m.idx)
        /\ UNCHANGED <<players, stage, clashed>>
    BY <1>1 DEF ChangeUsername, Panics, NameTaken, historyVars
  <1>4. p \in Elements(players) /\ p \in Hashes
    <2>1. Len(players) \in Nat
      BY <1>2, LenProperties DEF TypeOK
    <2> QED
      BY <1>1, <1>2, <1>3, <2>1, ElementType DEF InRange, Elements
  <1>5. username'[p] = m.msg.name /\ \A q : q # p => username'[q] = username[q]
    BY <1>2, <1>3, <1>4 DEF TypeOK
  <1>6. /\ DOMAIN chatLogs' = DOMAIN chatLogs
        /\ \A i \in DOMAIN chatLogs :
              /\ chatLogs'[i].by = chatLogs[i].by
              /\ chatLogs'[i].sender = IF chatLogs[i].sender = username[p]
                                       THEN m.msg.name ELSE chatLogs[i].sender
    BY <1>2, <1>3, RenamedType
  <1>7. Elements(players)' = Elements(players) /\ \A q : Joined(q)' <=> Joined(q)
    BY <1>3 DEF Elements, Joined
  <1>8. Present'
    BY <1>6, <1>7 DEF NameInv, Present
  <1>9. NamesDiffer'
    BY <1>3, <1>5, <1>7 DEF NameInv, NamesDiffer
  <1>10. LinesFollowRenames'
    <2> SUFFICES ASSUME ~clashed, NEW i \in DOMAIN chatLogs,
                        chatLogs[i].by \in Elements(players)
                 PROVE  chatLogs'[i].sender = username'[chatLogs[i].by]
      BY <1>3, <1>6, <1>7 DEF LinesFollowRenames
    <2>1. chatLogs[i].sender = username[chatLogs[i].by]
      BY DEF NameInv, LinesFollowRenames
    <2>2. CASE chatLogs[i].by = p
      BY <1>5, <1>6, <2>1, <2>2
    <2>3. CASE chatLogs[i].by # p
      BY <1>4, <1>5, <1>6, <2>1, <2>3 DEF NameInv, NamesDiffer
    <2> QED
      BY <2>2, <2>3
  <1> QED
    BY <1>8, <1>9, <1>10 DEF NameInv

LEMMA ChatNames ==
    ASSUME RoundInv, NameInv, NEW m \in inputs, HandleInput(m), Chat(m)
    PROVE  NameInv'
  <1>1. PICK p : p = players[m.idx + 1]
    OBVIOUS
  <1>2. TypeOK /\ m.idx \in Int
    BY Popped, MessageFields
  <1>3. /\ chatLogs' = Append(chatLogs, [sender |-> username[p], by |-> p])
        /\ InRange(players, m.idx)
        /\ UNCHANGED <<players, username, stage, clashed>>
    BY <1>1 DEF Chat, Panics, peopleVars, historyVars
  <1>4. p \in Elements(players)
    <2>1. Len(players) \in Nat
      BY <1>2, LenProperties DEF TypeOK
    <2> QED
      BY <1>1, <1>2, <1>3, <2>1 DEF InRange, Elements
  <1> DEFINE line == [sender |-> username[p], by |-> p]
             n == Len(chatLogs)
  <1>5. line.by = p /\ line.sender = username[p]
    OBVIOUS
  <1>6. n \in Nat /\ DOMAIN chatLogs = 1 .. n /\ chatLogs \in Seq(Line)
    BY <1>2, LinesType DEF TypeOK, Line
  <1>7. /\ DOMAIN chatLogs' = 1 .. n + 1 /\ chatLogs'[n + 1] = line
        /\ \A i \in 1 .. n : chatLogs'[i] = chatLogs[i]
    BY <1>3, <1>6
  <1>8. \A i \in 1 .. n + 1 : i \in 1 .. n \/ i = n + 1
    BY <1>6
  <1>9. Elements(players)' = Elements(players) /\ \A q : Joined(q)' <=> Joined(q)
    BY <1>3 DEF Elements, Joined
  <1> HIDE DEF line, n
  <1>10. Present'
    BY <1>4, <1>5, <1>6, <1>7, <1>8, <1>9 DEF NameInv, Present
  <1>11. LinesFollowRenames'
    BY <1>3, <1>5, <1>6, <1>7, <1>8, <1>9 DEF NameInv, LinesFollowRenames
  <1> QED
    BY <1>3, <1>9, <1>10, <1>11 DEF NameInv, NamesDiffer

LEMMA RemovePlayerNames ==
    ASSUME RoundInv, NameInv, NEW m \in inputs, HandleInput(m), RemovePlayer(m)
    PROVE  NameInv'
  <1>1. TypeOK /\ m.idx \in Int
    BY Popped, MessageFields
  <1>2. /\ players' = SliceDelete(players, m.idx)
        /\ UNCHANGED <<username, stage, chatLogs, clashed>>
    BY DEF RemovePlayer
  <1>3. Elements(players)' \subseteq Elements(players)
    <2>1. Len(players) \in Nat
      BY <1>1, LenProperties DEF TypeOK
    <2>2. players \in Seq(Hashes) /\ 0 <= m.idx /\ m.idx < Len(players)
      BY <1>1 DEF TypeOK, RemovePlayer, Panics, InRange
    <2>3. Len(players') = Len(players) - 1
      BY <1>1, <1>2, <2>2, SliceDeleteType
    <2>4. \A i \in 1 .. Len(players) - 1 : players'[i] \in {players[i], players[i + 1]}
      BY <1>2, <2>1 DEF SliceDelete
    <2>5. \A i \in 1 .. Len(players) - 1 :
             i \in 1 .. Len(players) /\ i + 1 \in 1 .. Len(players)
      BY <2>1
    <2> QED
      BY <2>3, <2>4, <2>5 DEF Elements
  <1> QED
    BY <1>2, <1>3, NamesKept DEF Joined

LEMMA StepNames == RoundInv /\ NameInv /\ [Next]_vars => NameInv'
  <1> SUFFICES ASSUME RoundInv, NameInv, [Next]_vars PROVE NameInv'
    OBVIOUS
  <1>1. ASSUME NEW p \in Hashes, NEW msg \in Messages, PushInput(p, msg) PROVE NameInv'
    <2>1. UNCHANGED <<players, username, chatLogs, clashed>>
      BY <1>1 DEF PushInput, historyVars
    <2>2. \A q : Joined(q) => Joined(q)'
      BY <1>1 DEF PushInput, Joined, RoundInv, TypeOK
    <2> QED
      BY <2>1, <2>2, NamesKept DEF Elements
  <1>2. ASSUME NEW m \in inputs, HandleInput(m) PROVE NameInv'
    <2>1. CASE Guess(m) \/ NewWord(m) \/ RandomNewWord(m) \/ Panic(m) \/ Ignored(m)
      <3>1. UNCHANGED <<players, username, stage, chatLogs, clashed>>
        BY <2>1 DEF Guess, NewWord, RandomNewWord, StartRound, Panic, Ignored,
           peopleVars, historyVars
      <3> QED
        BY <3>1, NamesKept DEF Elements, Joined
    <2> QED
      BY <1>2, <2>1, RenameNames, ChatNames, RemovePlayerNames DEF HandleInput
  <1>3. CASE UNCHANGED vars
    BY <1>3, NamesKept DEF vars, peopleVars, historyVars, Elements, Joined
  <1> QED
    BY <1>1, <1>2, <1>3, BeginJoinNames, NewPlayerNames DEF Next

\* Chat lines carry the current name of whoever said them, for any number of
\* players, names and renames, unless two players have shared a name
\* (changeUsername, chat, newPlayer).
THEOREM LinesAreRenamed == Spec => []LinesFollowRenames
  <1>1. NameInv => LinesFollowRenames
    BY DEF NameInv
  <1> QED
    BY <1>1, InitNames, StepNames, RoundInvariant, PTL DEF Spec

-----------------------------------------------------------------------------
(* Who chose the word.                                                     *)

PlayersDistinct ==
    \A i, j \in DOMAIN players : players[i] = players[j] => i = j

\* The chooser, while it is there, is the player that curHostIndex names.
ChooserIsHost ==
    ~hostMoved => \A i \in DOMAIN players :
                     players[i] \in chooser => i = curHostIndex + 1

OwnerInv ==
    /\ PlayersDistinct /\ ChooserIsHost
    /\ \A m \in inputs : Joined(m.from)
    /\ \A p \in chooser : Joined(p)
    /\ chooser # {} => ~randomlyChosen

LEMMA InitOwner == Init => OwnerInv
  BY DEF Init, OwnerInv, PlayersDistinct, ChooserIsHost

\* Steps that move no player and no seat, and choose no word.
LEMMA OwnerKept ==
    ASSUME OwnerInv, UNCHANGED <<players, curHostIndex, randomlyChosen, ownerVars>>,
           inputs' \subseteq inputs, \A p : Joined(p) => Joined(p)'
    PROVE  OwnerInv'
  BY DEF OwnerInv, PlayersDistinct, ChooserIsHost, ownerVars

LEMMA BeginJoinOwner ==
    ASSUME RoundInv, OwnerInv, NEW p \in Hashes, BeginJoin(p)
    PROVE  OwnerInv'
  <1>1. \A q : Joined(q) => Joined(q)'
    BY DEF BeginJoin, Joined, RoundInv, TypeOK
  <1> QED
    BY <1>1, OwnerKept DEF BeginJoin, seatVars, wordVars, historyVars, channelVars

LEMMA PushOwner ==
    ASSUME RoundInv, OwnerInv, NEW p \in Hashes, NEW msg \in Messages,
           PushInput(p, msg)
    PROVE  OwnerInv'
  <1>1. /\ \A q : Joined(q) => Joined(q)'
        /\ Joined(p)'
    BY DEF PushInput, Joined, RoundInv, TypeOK
  <1>2. UNCHANGED <<players, curHostIndex, randomlyChosen, chooser, hostMoved>>
    BY DEF PushInput, seatVars, wordVars, historyVars, ownerVars
  <1>3. \A m \in inputs' : m \in inputs \/ m.from = p
    BY DEF PushInput
  <1> QED
    BY <1>1, <1>2, <1>3 DEF OwnerInv, PlayersDistinct, ChooserIsHost

LEMMA NewPlayerOwner ==
    ASSUME RoundInv, NameInv, OwnerInv, NEW p \in Hashes, NewPlayer(p)
    PROVE  OwnerInv'
  <1>1. /\ ~Joined(p) /\ stage' = [stage EXCEPT ![p] = "joined"]
        /\ players' = AppendPlayer(players, p)
        /\ UNCHANGED <<curHostIndex, randomlyChosen, inputs, chooser, hostMoved>>
    BY DEF NewPlayer, Joined, wordVars, channelVars, ownerVars
  <1>2. \A q : Joined(q) => Joined(q)'
    BY <1>1 DEF Joined, RoundInv, TypeOK
  <1>3. /\ N \in Nat /\ DOMAIN players = 1 .. N
        /\ DOMAIN players' = 1 .. N + 1 /\ players'[N + 1] = p
        /\ \A i \in 1 .. N : players'[i] = players[i]
    <2>1. players \in Seq(Hashes) /\ players' \in Seq(Hashes)
      BY <1>1, AppendType DEF RoundInv, TypeOK
    <2> QED
      BY <1>1, <2>1, AppendType, LenProperties DEF N
  <1>4. \A i \in 1 .. N : players[i] # p
    BY <1>1, <1>3 DEF NameInv, Present, Elements, N
  <1>5. p \notin chooser
    BY <1>1 DEF OwnerInv
  <1>6. \A i \in 1 .. N + 1 : i \in 1 .. N \/ i = N + 1
    BY <1>3
  <1>7. PlayersDistinct'
    BY <1>3, <1>4, <1>6 DEF OwnerInv, PlayersDistinct
  <1>8. ChooserIsHost'
    BY <1>1, <1>3, <1>5, <1>6 DEF OwnerInv, ChooserIsHost
  <1> QED
    BY <1>1, <1>2, <1>7, <1>8 DEF OwnerInv

LEMMA StartRoundOwner ==
    ASSUME RoundInv, CreditInv, OwnerInv, NEW m \in inputs, HandleInput(m),
           NEW word, NEW random \in BOOLEAN, StartRound(m, word, random),
           ~random => m.idx = curHostIndex
    PROVE  OwnerInv'
  <1>1. /\ inputs' \subseteq inputs /\ TypeOK /\ players # <<>>
        /\ Joined(m.from)
    BY Popped DEF OwnerInv
  <1>2. /\ chooser' = (IF random THEN {} ELSE {m.from}) /\ randomlyChosen' = random
        /\ hostMoved' = (~random /\ m.removalsSeen # removals)
        /\ UNCHANGED <<players, curHostIndex, stage>>
    BY DEF StartRound
  <1>3. ~random /\ ~hostMoved' =>
            InRange(players, curHostIndex) /\ players[curHostIndex + 1] = m.from
    <2> SUFFICES ASSUME ~random, ~hostMoved'
                 PROVE  InRange(players, curHostIndex) /\ players[curHostIndex + 1] = m.from
      OBVIOUS
    <2>1. m.removalsSeen = removals /\ m.idx = curHostIndex
      BY <1>2
    <2>2. m.idx >= 0
      BY <1>1, <2>1, Seats
    <2> QED
      BY <2>1, <2>2 DEF CreditInv, FreshInputs
  <1>4. ChooserIsHost'
    <2> SUFFICES ASSUME ~hostMoved', NEW i \in DOMAIN players, players[i] \in chooser'
                 PROVE  i = curHostIndex + 1
      BY <1>2 DEF ChooserIsHost
    <2>1. ~random /\ players[i] = m.from
      BY <1>2
    <2>2. InRange(players, curHostIndex) /\ players[curHostIndex + 1] = players[i]
      BY <1>3, <2>1
    <2>3. curHostIndex + 1 \in DOMAIN players
      BY <1>1, <2>2, LenProperties DEF TypeOK, InRange
    <2> QED
      BY <2>2, <2>3 DEF OwnerInv, PlayersDistinct
  <1> QED
    BY <1>1, <1>2, <1>4 DEF OwnerInv, PlayersDistinct, Joined

LEMMA RemovePlayerOwner ==
    ASSUME RoundInv, OwnerInv, NEW m \in inputs, HandleInput(m), RemovePlayer(m)
    PROVE  OwnerInv'
  <1>1. PICK n \in Nat, k \in Int : n = N /\ k = m.idx
    BY Popped, MessageFields, LenProperties DEF TypeOK, N
  <1>2. /\ inputs' \subseteq inputs /\ TypeOK
        /\ curHostIndex \in Nat /\ curHostIndex < n /\ 0 <= k /\ k < n
        /\ DOMAIN players = 1 .. n
    <2>1. players # <<>> /\ TypeOK /\ inputs' \subseteq inputs
      BY Popped
    <2>2. curHostIndex \in 0 .. N - 1 /\ N \in Nat \ {0}
      BY <2>1, Seats
    <2>3. InRange(players, m.idx)
      BY <2>1 DEF RemovePlayer, Panics
    <2> QED
      BY <1>1, <2>1, <2>2, <2>3, LenProperties DEF TypeOK, InRange, N
  <1>3. /\ DOMAIN players' = 1 .. n - 1
        /\ \A i \in 1 .. n - 1 :
              players'[i] = IF i <= k THEN players[i] ELSE players[i + 1]
    BY <1>1, <1>2 DEF RemovePlayer, SliceDelete, N
  <1>4. /\ hostMoved' = (hostMoved \/ (chooser # {} /\ k < curHostIndex))
        /\ n # 1 => curHostIndex' = curHostIndex % (n - 1)
        /\ UNCHANGED <<stage, randomlyChosen, chooser>>
    BY <1>1 DEF RemovePlayer, HostAfterRemoval, wordVars
  <1> DEFINE from(i) == IF i <= k THEN i ELSE i + 1
  <1>5. \A i \in 1 .. n - 1 : /\ from(i) \in 1 .. n
                              /\ players'[i] = players[from(i)]
                              /\ \A j \in 1 .. n - 1 : from(i) = from(j) => i = j
    BY <1>2, <1>3
  <1>6. PlayersDistinct'
    <2> HIDE DEF from
    <2> QED
      BY <1>2, <1>3, <1>5 DEF OwnerInv, PlayersDistinct
  <1>7. ChooserIsHost'
    <2> SUFFICES ASSUME ~hostMoved', NEW i \in 1 .. n - 1, players'[i] \in chooser
                 PROVE  i = curHostIndex' + 1
      BY <1>3, <1>4 DEF ChooserIsHost
    <2>1. ~hostMoved /\ curHostIndex <= k
      <3>1. chooser # {} /\ hostMoved \in BOOLEAN
        BY <1>2 DEF TypeOK
      <3>2. ~hostMoved /\ ~(k < curHostIndex)
        BY <1>4, <3>1
      <3> QED
        BY <1>2, <3>2
    <2>2. from(i) = curHostIndex + 1
      BY <1>2, <1>5, <2>1 DEF OwnerInv, ChooserIsHost
    <2>3. i = curHostIndex + 1
      BY <1>2, <2>1, <2>2
    <2>4. curHostIndex \in 0 .. (n - 1) - 1 /\ n - 1 \in Nat \ {0}
      BY <1>2, <2>3
    <2>5. curHostIndex % (n - 1) = curHostIndex
      BY <2>4
    <2> QED
      BY <1>4, <2>3, <2>4, <2>5
  <1> QED
    BY <1>2, <1>4, <1>6, <1>7 DEF OwnerInv, Joined

LEMMA HandleOwner ==
    ASSUME RoundInv, CreditInv, OwnerInv, NEW m \in inputs, HandleInput(m)
    PROVE  OwnerInv'
  <1>1. inputs' \subseteq inputs
    BY DEF HandleInput
  <1>2. CASE Guess(m)
    <2>1. UNCHANGED <<players, stage, randomlyChosen>>
      BY <1>2 DEF Guess
    <2>2. \/ chooser' = {}
          \/ UNCHANGED <<curHostIndex, chooser, hostMoved>>
      BY <1>2 DEF Guess, EndRound, ownerVars, seatVars
    <2> QED
      BY <1>1, <2>1, <2>2 DEF OwnerInv, PlayersDistinct, ChooserIsHost, Joined
  <1>3. CASE NewWord(m) \/ RandomNewWord(m)
    <2>1. CASE NewWord(m)
      <3>1. StartRound(m, m.msg.word, FALSE) /\ m.idx = curHostIndex
        BY <2>1 DEF NewWord, NewWordAccepted
      <3> QED
        BY <3>1, StartRoundOwner
    <2>2. CASE RandomNewWord(m)
      <3>1. PICK word \in Words : StartRound(m, word, TRUE)
        BY <2>2 DEF RandomNewWord
      <3> QED
        BY <3>1, StartRoundOwner
    <2> QED
      BY <1>3, <2>1, <2>2
  <1>4. CASE ChangeUsername(m) \/ Chat(m) \/ Panic(m) \/ Ignored(m)
    <2>1. UNCHANGED <<players, stage, curHostIndex, randomlyChosen, ownerVars>>
      BY <1>4 DEF ChangeUsername, Chat, Panic, Ignored, peopleVars, seatVars, wordVars,
         historyVars
    <2> QED
      BY <1>1, <2>1, OwnerKept DEF Joined
  <1> QED
    BY <1>2, <1>3, <1>4, RemovePlayerOwner DEF HandleInput

LEMMA StepOwner == RoundInv /\ CreditInv /\ NameInv /\ OwnerInv /\ [Next]_vars => OwnerInv'
  <1> SUFFICES ASSUME RoundInv, CreditInv, NameInv, OwnerInv, [Next]_vars
               PROVE  OwnerInv'
    OBVIOUS
  <1>1. CASE UNCHANGED vars
    BY <1>1, OwnerKept DEF vars, peopleVars, seatVars, wordVars, channelVars, historyVars,
       Joined
  <1> QED
    BY <1>1, BeginJoinOwner, PushOwner, NewPlayerOwner, HandleOwner DEF Next

\* Until a removal moves the host, whoever sent the word is not asked to guess it:
\* the seat that curHostIndex names is still the sender's, and the turn passes it
\* (newWord, guess, newPlayer, removePlayer).
THEOREM ChoosersDoNotGuess == Spec => []HostNeverGuesses
  <1>1. RoundInv /\ OwnerInv => HostNeverGuesses
    <2> SUFFICES ASSUME RoundInv, OwnerInv, ~needNewWord, N >= 2, ~hostMoved,
                        players[turn + 1] \in chooser
                 PROVE  FALSE
      BY DEF HostNeverGuesses
    <2>1. players # <<>>
      BY DEF N
    <2>2. /\ N \in Nat \ {0} /\ turn \in 0 .. N - 1 /\ curHostIndex \in 0 .. N - 1
          /\ turn # curHostIndex
      BY <2>1, Seats DEF OwnerInv, RoundInv, TurnPassesHost
    <2>3. turn + 1 \in DOMAIN players
      BY <2>2, LenProperties DEF RoundInv, TypeOK, N
    <2> QED
      BY <2>2, <2>3 DEF OwnerInv, ChooserIsHost
  <1> QED
    BY <1>1, InitOwner, StepOwner, RoundInvariant, InitCredit, StepCredit, InitNames,
       StepNames, PTL DEF Spec
=============================================================================
