------------------------------ MODULE Hangman -------------------------------
(***************************************************************************)
(* One hangman game: the handlers that append players and push inputs, and *)
(* GameLoop applying the inputs to the game.  An input names its player by *)
(* the index its handler looked up when it read the message.               *)
(*                                                                         *)
(* A word is the set of its letters, so the revealed word is what guessed  *)
(* and the word have in common.                                            *)
(***************************************************************************)
EXTENDS Integers, Sequences, FiniteSets, Slices

CONSTANTS Hashes,      \* player hashes, one per join
          Letters,
          Words,       \* the dictionary; what it does not hold is NotAWord
          NewNames,    \* usernames a client can ask for
          MaxGuesses,  \* wrong guesses a round allows, 6 in the code
          Ops,         \* the messages the clients of a run send
          MaxInputs    \* bound: inputs ever pushed

ASSUME WordsAssumption == Words \subseteq (SUBSET Letters) \ {{}}
ASSUME NumbersAssumption == MaxGuesses \in Nat \ {0} /\ MaxInputs \in Nat

NotAWord == {}
NoWinner == -1
HostWins == 1
HostLoses == 2

VARIABLES
    players,      \* the players slice
    username,     \* username[p]; "Player n" is n
    stage,        \* stage[p]: "new", "joining", "joined" or "exited"
    curHostIndex, turn,
    currentWord, guessed, guessesLeft,
    needNewWord, randomlyChosen, winner,
    chatLogs,     \* the lines, as [sender, by]; by (history) owns the username
    inputs, pushed, \* inputChannel, and the number of pushes (a bound)
    gameLoop,     \* "running"; "stuck" in closeGame; or "panicked"
    wins,         \* history: the wins credited, with the guess that did it
    rounds,       \* history: words chosen so far
    removals,     \* history: players removed so far
    clashed,      \* history: a player joined under a username in use
    chooser,      \* history: who sent the round's word; {} if it is random
    hostMoved     \* history: a removal moved the word's host from curHostIndex

peopleVars == <<players, username, stage>>
wordVars == <<currentWord, guessed, guessesLeft, needNewWord, randomlyChosen,
              winner>>
seatVars == <<curHostIndex, turn>>
channelVars == <<inputs, pushed>>
ownerVars == <<chooser, hostMoved>>
historyVars == <<wins, rounds, removals, clashed, ownerVars>>
vars == <<peopleVars, wordVars, seatVars, chatLogs, channelVars, gameLoop,
          historyVars>>

N == Len(players)

Init ==
    /\ players = <<>>
    /\ username = [p \in Hashes |-> 0]
    /\ stage = [p \in Hashes |-> "new"]
    /\ curHostIndex = 0 /\ turn = 0
    /\ currentWord = NotAWord /\ guessed = {} /\ guessesLeft = MaxGuesses
    /\ needNewWord = TRUE /\ randomlyChosen = FALSE /\ winner = NoWinner
    /\ chatLogs = <<>>
    /\ inputs = {} /\ pushed = 0
    /\ gameLoop = "running"
    /\ wins = <<>> /\ rounds = 0 /\ removals = 0 /\ clashed = FALSE
    /\ chooser = {} /\ hostMoved = FALSE

-----------------------------------------------------------------------------
(* The handlers.                                                           *)

\* playerIndex = len(gState.players), which names the player.
BeginJoin(p) ==
    /\ stage[p] = "new" /\ gameLoop # "panicked"
    /\ stage' = [stage EXCEPT ![p] = "joining"]
    /\ username' = [username EXCEPT ![p] = N + 1]
    /\ UNCHANGED <<players, wordVars, seatVars, chatLogs, channelVars, gameLoop,
                   historyVars>>

AppendPlayer_InFront(s, p) == <<p>> \o s
AppendPlayer(s, p) == Append(s, p)

NameTaken(name) == \E q \in Elements(players) : username[q] = name

\* The second player of a round that one player started alone gets the turn.
TurnOnJoin == IF N + 1 = 2 /\ ~needNewWord THEN 1 ELSE turn

\* gState.newPlayer, under mut, which a stuck closeGame never releases.
NewPlayer(p) ==
    /\ stage[p] = "joining" /\ gameLoop = "running"
    /\ stage' = [stage EXCEPT ![p] = "joined"]
    /\ players' = AppendPlayer(players, p)
    /\ turn' = TurnOnJoin
    /\ clashed' = (clashed \/ NameTaken(username[p]))
    /\ UNCHANGED <<username, curHostIndex, wordVars, chatLogs, channelVars,
                   gameLoop, wins, rounds, removals, ownerVars>>

Messages ==
    [op : {"guess"}, letter : Letters]
    \cup [op : {"newWord"}, word : Words \cup {NotAWord}]
    \cup [op : {"username"}, name : NewNames]
    \cup [op : {"random", "chat", "exit"}]

\* The websocket loop (and, for an exit, the exit_game route, which a player
\* can take once) looks the player up and pushes an input.
PushInput(p, msg) ==
    /\ gameLoop # "panicked" /\ pushed < MaxInputs
    /\ msg.op \in Ops
    /\ stage[p] = "joined" \/ (stage[p] = "exited" /\ msg.op # "exit")
    /\ stage' = IF msg.op = "exit" THEN [stage EXCEPT ![p] = "exited"]
                ELSE stage
    /\ pushed' = pushed + 1
    /\ inputs' = inputs \cup {[id |-> pushed + 1, from |-> p, msg |-> msg,
                               idx |-> IndexFunc(players, p),
                               removalsSeen |-> removals]}
    /\ UNCHANGED <<players, username, wordVars, seatVars, chatLogs, gameLoop,
                   historyVars>>

-----------------------------------------------------------------------------
(* GameLoop: ChangeState of each input.                                    *)

NextIndex(i) == (i + 1) % N

NextTurn_NoSkip == NextIndex(turn)
\* A wrong guess passes the turn on, past the host of a word the host chose.
NextTurn ==
    IF NextIndex(turn) = curHostIndex /\ ~randomlyChosen
    THEN NextIndex(NextIndex(turn)) ELSE NextIndex(turn)

GuessAccepted_AnyRound(m) == m.idx = turn /\ m.msg.letter \notin guessed
GuessAccepted(m) ==
    m.idx = turn /\ ~needNewWord /\ m.msg.letter \notin guessed

LastGuess_Zero == guessesLeft = 0
LastGuess == guessesLeft = 1

\* The round is over: the next host, and a turn two seats on from this one.
EndRound(outcome, creditedIdx, m) ==
    /\ needNewWord' = TRUE /\ winner' = outcome
    /\ turn' = (curHostIndex + 2) % N
    /\ curHostIndex' = NextIndex(curHostIndex)
    /\ wins' = Append(wins, [player |-> players[creditedIdx + 1], by |-> m.from,
                             outcome |-> outcome,
                             fresh |-> m.removalsSeen = removals])
    /\ chooser' = {} /\ hostMoved' = FALSE

Guess(m) ==
    LET good == m.msg.letter \in currentWord
        solved == currentWord \subseteq guessed \cup {m.msg.letter}
    IN  /\ m.msg.op = "guess" /\ GuessAccepted(m)
        /\ guessed' = guessed \cup {m.msg.letter}
        /\ \/ /\ solved
              /\ EndRound(HostLoses, m.idx, m)
              /\ UNCHANGED guessesLeft
           \/ /\ ~solved /\ ~good /\ LastGuess
              /\ EndRound(HostWins, curHostIndex, m)
              /\ UNCHANGED guessesLeft
           \/ /\ ~solved /\ ~good /\ ~LastGuess
              /\ guessesLeft' = guessesLeft - 1
              /\ turn' = NextTurn
              /\ UNCHANGED <<needNewWord, winner, curHostIndex, wins, ownerVars>>
           \/ /\ ~solved /\ good
              /\ UNCHANGED <<guessesLeft, seatVars, needNewWord, winner, wins,
                             ownerVars>>
        /\ UNCHANGED <<players, username, stage, currentWord, randomlyChosen,
                       chatLogs, gameLoop, rounds, removals, clashed>>

GuessesAfterNewWord == MaxGuesses

\* What newWord and randomNewWord do once they have a word.
StartRound(m, word, random) ==
    /\ currentWord' = word /\ guessed' = {}
    /\ guessesLeft' = GuessesAfterNewWord
    /\ needNewWord' = FALSE /\ winner' = NoWinner
    /\ randomlyChosen' = random
    /\ turn' = NextIndex(curHostIndex)
    /\ rounds' = rounds + 1
    /\ chooser' = IF random THEN {} ELSE {m.from}
    /\ hostMoved' = (~random /\ m.removalsSeen # removals)
    /\ UNCHANGED <<players, username, stage, curHostIndex, chatLogs, gameLoop,
                   wins, removals, clashed>>

NewWordAccepted(m) ==
    needNewWord /\ m.idx = curHostIndex /\ m.msg.word \in Words

NewWord(m) ==
    m.msg.op = "newWord" /\ NewWordAccepted(m) /\ StartRound(m, m.msg.word, FALSE)

\* Anybody can ask for a random word, at any time.
RandomNewWord(m) ==
    m.msg.op = "random" /\ \E word \in Words : StartRound(m, word, TRUE)

\* An index that is out of range panics in GameLoop, which nothing recovers.
Panics(m) ==
    /\ ~InRange(players, m.idx)
    /\ \/ m.msg.op = "chat"
       \/ m.msg.op = "exit" /\ players # <<>>
       \/ m.msg.op = "username" /\ ~NameTaken(m.msg.name)

Panic(m) ==
    /\ Panics(m)
    /\ gameLoop' = "panicked"
    /\ UNCHANGED <<peopleVars, wordVars, seatVars, chatLogs, historyVars>>

RenamedLines_Kept(old, new) == chatLogs
RenamedLines(old, new) ==
    [i \in DOMAIN chatLogs |->
        IF chatLogs[i].sender = old THEN [chatLogs[i] EXCEPT !.sender = new]
        ELSE chatLogs[i]]

ChangeUsername(m) ==
    LET p == players[m.idx + 1] IN
    /\ m.msg.op = "username" /\ ~NameTaken(m.msg.name) /\ ~Panics(m)
    /\ username' = [username EXCEPT ![p] = m.msg.name]
    /\ chatLogs' = RenamedLines(username[p], m.msg.name)
    /\ UNCHANGED <<players, stage, wordVars, seatVars, gameLoop, historyVars>>

Chat(m) ==
    LET p == players[m.idx + 1] IN
    /\ m.msg.op = "chat" /\ ~Panics(m)
    /\ chatLogs' = Append(chatLogs, [sender |-> username[p], by |-> p])
    /\ UNCHANGED <<peopleVars, wordVars, seatVars, gameLoop, historyVars>>

\* The host's index after a removal that leaves n players.
HostAfterRemoval_Kept(n) == curHostIndex
HostAfterRemoval(n) == curHostIndex % n

\* removePlayer; on the last player closeGame locks mut a second time.
RemovePlayer(m) ==
    /\ m.msg.op = "exit" /\ players # <<>> /\ ~Panics(m)
    /\ players' = SliceDelete(players, m.idx)
    /\ removals' = removals + 1
    /\ hostMoved' = (hostMoved \/ (chooser # {} /\ m.idx < curHostIndex))
    /\ LET host == HostAfterRemoval(N - 1)
           next == turn % (N - 1)
       IN  IF N = 1 THEN gameLoop' = "stuck" /\ UNCHANGED seatVars
           ELSE /\ curHostIndex' = host
                /\ turn' = IF needNewWord THEN host
                           ELSE IF host = next THEN (next + 1) % (N - 1)
                           ELSE next
                /\ UNCHANGED gameLoop
    /\ UNCHANGED <<username, stage, wordVars, chatLogs, wins, rounds, clashed,
                   chooser>>

\* The inputs that change nothing; a failing dictionary query is among them.
Ignored(m) ==
    /\ \/ m.msg.op = "guess" /\ ~GuessAccepted(m)
       \/ m.msg.op = "newWord"
       \/ m.msg.op = "random"
       \/ m.msg.op = "username" /\ NameTaken(m.msg.name)
    /\ UNCHANGED <<peopleVars, wordVars, seatVars, chatLogs, gameLoop,
                   historyVars>>

Priority(m) == IF m.msg.op = "exit" THEN 100 ELSE 0

\* The heap of the channel pops any input of the highest priority waiting.
Poppable == {m \in inputs : \A n \in inputs : Priority(n) <= Priority(m)}

HandleInput(m) ==
    /\ gameLoop = "running" /\ m \in Poppable
    /\ inputs' = inputs \ {m} /\ UNCHANGED pushed
    /\ \/ Guess(m) \/ NewWord(m) \/ RandomNewWord(m) \/ ChangeUsername(m)
       \/ Chat(m) \/ RemovePlayer(m) \/ Panic(m) \/ Ignored(m)

-----------------------------------------------------------------------------
Next ==
    \/ \E p \in Hashes : \/ BeginJoin(p) \/ NewPlayer(p)
                         \/ \E msg \in Messages : PushInput(p, msg)
    \/ \E m \in inputs : HandleInput(m)

Spec == Init /\ [][Next]_vars

-----------------------------------------------------------------------------
(* Properties.                                                             *)

InputRecord ==
    [id : 1 .. MaxInputs, from : Hashes, msg : Messages, idx : Int,
     removalsSeen : Nat]

WinRecord == [player : Hashes, by : Hashes, outcome : {HostWins, HostLoses},
              fresh : BOOLEAN]

\* Every variable stays in its type (all of the modelled code).
TypeOK ==
    /\ players \in Seq(Hashes)
    /\ username \in [Hashes -> NewNames \cup Nat]
    /\ stage \in [Hashes -> {"new", "joining", "joined", "exited"}]
    /\ curHostIndex \in Nat /\ turn \in Nat
    /\ currentWord \in Words \cup {NotAWord} /\ guessed \in SUBSET Letters
    /\ guessesLeft \in 1 .. MaxGuesses
    /\ needNewWord \in BOOLEAN /\ randomlyChosen \in BOOLEAN
    /\ winner \in {NoWinner, HostWins, HostLoses}
    /\ chatLogs \in Seq([sender : NewNames \cup Nat, by : Hashes])
    /\ inputs \subseteq InputRecord /\ pushed \in 0 .. MaxInputs
    /\ gameLoop \in {"running", "stuck", "panicked"}
    /\ wins \in Seq(WinRecord)
    /\ rounds \in Nat /\ removals \in Nat /\ clashed \in BOOLEAN
    /\ chooser \in SUBSET Hashes /\ hostMoved \in BOOLEAN

\* guess, newWord and JSON's readers index players with turn and curHostIndex:
\* joins, removals and round ends keep both in range while anybody is there.
SeatsInRange ==
    players # <<>> => InRange(players, turn) /\ InRange(players, curHostIndex)

\* Who chose the word is not asked to guess it while there is somebody else,
\* whatever joins, wrong guesses and removals do to turn and players, until a
\* removal leaves curHostIndex on another player: one in front of the host during
\* the round, or any between the reading of the word and its application.
HostNeverGuesses ==
    ~needNewWord /\ N >= 2 /\ ~hostMoved => players[turn + 1] \notin chooser

\* A round credits one win at most, however many guesses were queued when it
\* ended, and none before it ends.
OneWinPerRound ==
    Len(wins) <= rounds /\ (~needNewWord => Len(wins) < rounds)

\* The credit for solving a word goes to the player that sent the guess, when
\* nobody was removed between the reading of the guess and its application.
FreshGuessCreditsSender ==
    \A i \in DOMAIN wins :
        wins[i].outcome = HostLoses /\ wins[i].fresh => wins[i].player = wins[i].by

\* A chat line shows the current username of the player it was said under,
\* whatever renames were queued, unless two players have shared a name.
LinesFollowRenames ==
    ~clashed => \A i \in DOMAIN chatLogs :
        chatLogs[i].by \in Elements(players) =>
            chatLogs[i].sender = username[chatLogs[i].by]

\* accounts/gamesession/gamesession.go: "RecordWin records that the player behind
\* sessionID won a round".  Every credited solver is the player that guessed.
CreditedPlayerWon ==
    \A i \in DOMAIN wins :
        wins[i].outcome = HostLoses => wins[i].player = wins[i].by
=============================================================================
