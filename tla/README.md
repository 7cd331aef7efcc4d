# Verification of html_games_engine

TLA+ models of the games engine, checked with TLC and, where a result should
hold for every instance, proved with TLAPS. The models are written from the Go
code; paths below are relative to `src/`.

## 1. The system

One process serves seven kinds of pages over HTTP and websockets. Hangman,
tictactoe, connect4, connect-the-dots and whiteboard games go through one
*engine*; pong has its own loop per game and a gRPC service; *accounts* keep
users, sessions, presence and challenges in Postgres and Redis.

| component | state | operations | interacts with |
|---|---|---|---|
| engine loops (`engine/gameLoop.go`, `outputLoop.go`, `main.go`) | maps `games` and `playerHashes`, `inputChannel`, `outputChannel` (priority heaps), `lastModified`, `lastTick`, `mu` | GameLoop applies an input and pushes an output; OutputLoop pops one and writes the state to every player; the cleanup goroutine deletes idle games on a 20 minute ticker | shares both maps with every handler, without a lock |
| websocket handlers (`hangman/hangmanRoutes.go`, `ticTacToe/...Routes.go`, `connect4/...Routes.go`, `connectTheDots/...Routes.go`, `whiteboard/...Routes.go`) | per connection: its game, its player hash, where it is in its join | new_game, join (append, register, hello or broadcast), read and push, exit and reconnect (hangman) | write `players`, `playerHashes`, the connections |
| hangman (`hangman/hangman.go`, `hangmanInputTypes.go`) | players, host, turn, word, guesses, chat | guess, newWord, randomNewWord, changeUsername, chat, removePlayer | inputs name a player by index |
| tictactoe (`ticTacToe/`) | board, turn, scores, two players, the handlers' `moveInput` | move, scan, reset, ConsumeWinners | the handler overwrites the input it pushed |
| connect4, connect-the-dots, whiteboard | board, turn, scores; image | Insert/Rotate/Fall/scan; addEdge; draw/clear | as above |
| pong (`pong/pong.go`, `service.go`, `ws.go`) | `reg.games`, per game: players, stop channel, ball, paddles, score | Create, Join, Leave, setDirection, step on a ticker | streams call the registry; the loop runs alone |
| rate limiter (`engine/ratelimit.go`) | `visitors`: a limiter and lastSeen per address | getLimiter, Allow, cleanupLoop | in front of every route |
| sessions and presence (`accounts/cache/rediscache/redis_cache.go`) | in Redis: a session by key, a key by user, the hash of users online, the activity sorted set | SetSession, GetSession, DeleteSession, PurgeInactive, each several commands of which only one is atomic | every request of a logged-in user; cleanupLoop |
| websockets and challenges (`accounts/api.go`) | `conns` under `connsMu`, `challenges` under `challengesMu` | open and close a socket, log out, purge, push, challenge, accept, decline | accept creates a game over HTTP |
| game sessions (`accounts/gamesession/`) | a row per stay of a logged-in player in a game, its id in the game's player | Start, End, RecordWin | called by the games' handlers and by GameLoop |
| user store and account pages (`accounts/store/`, `accounts/db/`, `api.go`) | users and rows in Postgres | register, check a password, statistics, the online list | one statement each |

Hard behaviours, each at its line in `PROJECT.json` "hazards":

* an input is an *index* taken when the message is read, and used when GameLoop
  gets to it, after inputs of a higher priority (exits) have shifted players;
* handlers and both loops work on the same maps, slices and connections; a
  player may be in `players` before it has a connection, two goroutines may
  write on one connection, and joins read and write `players` and its counter
  without a lock;
* a game can be swept between the push of an output and its pop;
* the last player of a hangman game blocks the only GameLoop;
* pong's join and leave take two mutexes one after the other;
* the rate limiter's map may drop a limiter that a request holds;
* an operation on a user's session is a row of Redis commands that interleave
  with another request's, with the purge's and with expiry, and may stop half-way;
* a websocket is registered, replaced, closed and forgotten by different
  goroutines, and a logout may overtake the socket it should close;
* a win is recorded in the row its player has *now*, and joins, reconnects and
  exits move players and rows about meanwhile.

What makes each component correct: nobody misses the last state, or is shown an
older one after it, no first image is written over, and an output outlives its
game only when the game has been idle (engine); turn and host stay on
players, rounds are won once, and by who guessed (hangman); no line stands, X and O take turns
(tictactoe); boxes and lines are found and credited once, pieces fall
(connect-the-dots, connect4); the count is the number of streams, a stopped game
ends (pong registry); the ball stays in play (pong physics); a client is limited
as by one token bucket (rate limiter); a session that ended stays dead, a user
with a session is online, and off only in its last second, and an idle one goes
offline (presence); an open socket
is the one pushes go to and is cut at logout, a challenge is taken by one answer of
its target's (challenges); a win goes to the winner's row (game sessions).

## 2. Modules

| module | models | how its state and actions correspond |
|---|---|---|
| `Slices` | `slices.IndexFunc`, `slices.Delete`, index ranges of a Go slice | indices are counted from 0, as in Go; -1 is "not found" |
| `Engine` | loops, handlers of the five packages, cleanup | one action per step of a goroutine that another can interleave with; `pc[c]` is the place in connection c's handler; `JoinOrder` gives each package's order of joining; a game's rules are a version number; everything GameLoop does between PopBlocking and `mu.Unlock` is one step |
| `Hangman` | one game's rules, with the handlers' lookups | `PushInput` records the looked-up index; `HandleInput` is ChangeState; a word is its set of letters |
| `TicTacToe` | one game and the shared `moveInput` | `DecodeX`, `DecodeYAndPush` write the struct that `HandleInput` reads |
| `ConnectTheDots` | addEdge, the boxes and their credit | an edge is drawn or not (its colour is only shown); `AddEdge` is one call with the ConsumeWinners after it |
| `Connect4` | Insert, Rotate, Fall, the scan, recordWinners, Clear | `Fall` and `FallColumn` are the code's two loops, one piece's fall at a time; `Queue` is the set of elements the scan's queue ever holds; `Settle` is what both inputs do after the board changed; teams and columns are any integers, as the route takes them |
| `PongRegistry` | games, streams and the end of a game's loop | Join is `Lookup` and `TryAddPlayer`; Leave is `RemovePlayer`, `CloseStop` and `Delete` |
| `PongBall` | `step` and the paddles | integers for floats; the random serve is left open |
| `Whiteboard` | ChangeState of the inputs, JSON, the joins, the pages' canvases | an image is the colour of each cell; `ChangeState`, `Mark` and `PushOutput` are the steps GameLoop takes without a lock OutputLoop would wait for; `read` collects what an encoder may have seen of each cell; `OnLoad` is the page's `img.onload` |
| `RateLimiter` | `getLimiter`, `Allow`, `cleanupLoop` | a request holds its limiter between `GetLimiter` and `Allow` |
| `TokenBucket` | the promise of the rate limiter | `RateLimiter` implements it under `level <- Levels` |
| `Accounts` | who the users are | the constants that Presence and Challenges share |
| `Presence` | `redis_cache.go` and its callers in `api.go` | an action is one Redis command; `at[p]` is the next command of a request or of cleanupLoop; a time to live counts down and an activity's age up; `Fail` ends an operation where it is |
| `Challenges` | `wsHandler`, `removeConn`, `closeConn`, `push` and the challenge handlers | what is done under a mutex is one action, what is done outside is another; each accept or decline is a request of its own (`Clicks`), about any challenge and from any user; of the cache only its effect is left |
| `GameSessions` | `gamesession.go` and the places in the four packages and GameLoop that call it | `row[h]` is the row handler h started, `players[i].row` the id in the game's player; `RowGoesTo` is where it is written |
| `SlicesProofs` | lemmas on the functions of `Slices` | for the modules below |
| `EngineProofs`, `HangmanProofs`, `TicTacToeProofs`, `PongRegistryProofs`, `RateLimiterProofs` | theorems about one module each | section 5 |
| `RulesProofs` | theorems about the games that `MCRules` plays | section 5 |
| `ServicesProofs` | theorems about `Presence`, `Challenges`, `GameSessions`, and the types of all that `MCServices` runs | section 5 |
| `MC...` | instances for TLC | model values, symmetry, the small sets; `MCRules` plays one of four games that share nothing, `MCServices` one of four services |

Modelling decisions that a reader should know:

* **Panics.** net/http recovers a panic of a handler: the connection's `pc`
  becomes "gone". Nothing recovers one of GameLoop or OutputLoop: the process
  ends (`crashed`, `panicked`), and so does the behaviour.
* **Unsynchronised accesses** are split into a load and a store (`LoadSeats`,
  `StoreSeats`); a lost increment of `playersConnected` is a choice of the store.
  The Go runtime's own abort on concurrent map access is not modelled.
* **The heap** promises no order among equal priorities, so `PopBlocking` may
  return any waiting entry of the highest priority.
* **The ticker** holds one tick; one that finds the channel full is lost.
* **A closed connection.** A write shows nothing, and the loops log and go on.
* **Credit.** What GameLoop's ConsumeWinners returns is kept in history variables
  (`wins`, `returned`, `credited`); which row it is then added to is
  `GameSessions`' question.
* **Components apart.** Engine, games and accounts meet in few calls, and the
  modules meet where one's action is the other's input: an exit of `GameSessions`
  stands for Engine's, a session of `Challenges` for Presence's. A product of
  them would have far more states and hardly another behaviour.
* A `moveInput` is decoded field by field, so GameLoop may see a new X with an
  old Y.
* In `RateLimiter` time counts the units in which a limiter gains a token. That a
  handler goes from the lookup to Allow within `MaxDelay`, with
  `MaxDelay + Burst <= Idle`, is an assumption (20 tokens against three minutes
  leaves a handler 160 seconds for two statements).

## 3. Runs

Passing runs, and what they show:

| run | instance | shows |
|---|---|---|
| `engine_joins` | one game of each package in turn; two connections for hangman, three for the others; two inputs; no ticks | `RegisteredHasConn`, `ViewCurrent`, `ViewsMoveForward`, `InitialImageAlone`, `IndexOnlyShiftsLeft` |
| `engine_loops` | a hangman and a seated game, one connection, two inputs, three ticks | `OrphanOutputIsOld` |
| `hangman` | three players, three letters, two words, two names, three inputs of any kind and a fourth after a won round | seats, who chose the word does not guess it, rounds, credit of fresh guesses, chat lines |
| `tictactoe_rules` | two players, one queued pointer each, coordinates on the field and one off it, any number of rounds | no line stands, X and O take turns |
| `pong_registry` | one game, four streams, `FairSpec` | the count, one first player, and stopped games end (liveness) |
| `rules` | connect-the-dots with three dots a row (four boxes); connect4 on three columns with three in line, both players' teams, none and one of nobody, and a column off the board; pong on a field of 12 by 8, three serves, dt of 1 or 2, two points; a whiteboard of two cells, two players, four inputs or joins | boxes are owned exactly when closed and credited once each; pieces settle, what is cleared and credited is a line, and lines are found where the scan starts; the ball stays in play; `BoardsAgree`, `FullIsOwed` |
| `services` | one part in each behaviour. The limiter: one client, two requests, burst 2, idle 3, nine units of time. Presence: two users, two keys, two requests and the cleaner, one failure. Challenges: three sockets, two users, two challenges, two clicks. Game sessions: three handlers of a game of any kind | `HeldIsCurrent`, `RateBounded` and the refinement `ActsAsBucket`; `PresenceAgrees`, `SessionsStayDead` and `IdleUsersLeave` (liveness); `ConnsAreListed`, `LoggedOutIsCut`, `AnsweredOnce`; `WinsOnOwnRow` |

Bounds. `MaxGames` games are created, `MaxConns[g]` connections reach game g,
`MaxInputs` inputs are pushed and `MaxTicks` ticks fire (Engine). Two seats and
three connections are the least that race for a seat and lose; two inputs the
least of which one overtakes the other; three ticks the least in which a tick is
late, a sweep deletes a game and its output is still waiting. `MaxInputs` in
Hangman: a word, a guess that ends the round and one input more, or a word and
the two wrong guesses that lose it; the fourth, which `SecondRound` keeps for a
second round, lets a player in front of a host who is not the first one leave. `MaxQueued` in TicTacToe: one
pointer in the channel is enough for the handler to overwrite a move that waits.
Rounds are not bounded: `MCView` leaves out what only counts them. Three dots a row are the least in which one edge closes two boxes and
some edges are at a border; three columns and three in line give every direction
of line and lines of both teams after a rotation; `FewPieces` goes on from
boards with at most three pieces of the team of nobody among four, enough for it to
have a line and for the scan to miss one. `MaxEvents` of Whiteboard
counts inputs and joins: two overlapping draws and a clear that repairs them in
front of one player, or two players who join around two changes. `MaxScore` in PongBall counts points;
`MaxLimiters` and `MaxTime` bound the limiters and the clock, long enough for a
client's entry to be dropped and made again with requests on both sides. `MCView`
also identifies states of TicTacToe that differ in a coordinate which is overwritten
before it is read. Symmetry is used where no temporal property is checked; in
`services`, which checks some, `InOrder` takes requests, keys, sockets and
handlers that are alike in a fixed order instead.

The bounds of `services` are in MCServices. `overlaps`: two requests of one user
and the cleaner at once, no failure, not two logouts at once. `purges`: two users,
one request at a time, one command that fails (`MaxFails`), no logout, which is
what a purge that stops half-way needs. `sockets`: three tabs of one user, the
least in which one replaces another while a third is cleaned up. `challenges`: two
sockets, a challenge and a click, where no logout fails to delete its session (in
`sockets` one may), and a second challenge or a second click as long as both users
stay. `Second` is 2: an instant may be the first or the second half of a second,
the least in which Redis's expiry and a score of whole seconds differ. `TTL` and
`MaxAge` are 2 of these parts, the least in which a session can be refreshed
half-way; `MaxEnding` is one call of closeConn due for
a user at a time. Three handlers let a player reconnect while another exits.

Deadlock is not checked: a behaviour stops when its bounds are used up, and in
the code when every client has gone or the process has died.

Fairness. The games' and the services' safety properties assume none. In
`engine_last_exit`, `Engine!FairSpec` asks only that GameLoop and the cleanup
goroutine take a step they can always take: they never write to a client, and the
Go scheduler runs every runnable goroutine. Handlers and OutputLoop owe nothing: a
`WriteJSON` has no deadline (outputLoop.go:30) and may never return, so that the
engine keeps no promise that an output is ever written. Nor one that an input is
ever handled: GameLoop may stand still after a last exit, and an input may wait for
ever behind others of its priority. So no liveness property of the engine is
checked but the one the README states and the code breaks.
`PongRegistry!FairSpec` asks fairness of a deferred Leave and of `run`. Presence's
`Fairness` asks that time passes, that cleanupLoop's ticker lists and takes the
stale users, and that a command once begun returns or fails (its context ends
after ten seconds); users owe no request.

Each property has a mutant in `PROJECT.json`: a plausible slip in the code that
the run detects (the operator with a suffix, next to the one it replaces).

## 4. Where the code and its words differ

connect-the-dots also has an off-by-one that no comment contradicts: the bound at
connectTheDots.go:54 lets `2*size-1` through, and addEdge panics one past the
field (`PastTheField`).

Five runs each state what a comment or the README says, and TLC finds a
behaviour of the model in which the code does otherwise.

| run | said | done |
|---|---|---|
| `engine_last_exit` / `OtherGamesHandled` | README.md:3, games "can be handled by the same thread" | the last hangman player's exit locks `mut` twice (hangman.go:229, :233) and GameLoop stops for every game |
| `hangman_credit` / `CreditedPlayerWon` | gamesession.go:51, RecordWin records "that the player behind sessionID won" | an exit overtakes a queued guess and shifts its index onto another player |
| `tictactoe_winners` / `WinnersReturned` | ticTacToe.go:59, ConsumeWinners returns who won | `scores[2]++` on a `[2]int` panics when O wins |
| `pong_slots` / `SlotsDistinct` | pong.go:101, concurrent joins can't claim one slot | after player 0 leaves, the next one gets index 1 again |
| `pong_leave` / `NobodyPlaysStopped` | pong.go:271, stopped "once both players are gone" | a stream joins between removePlayer and the close of stop |

Elsewhere the code promises less than one may think, and no comment contradicts what it does;
the properties say what holds, and a history variable where it stops:

* A logout or a purge that overlaps another operation on the same user, a logout
  while the user has a second session, and an operation that stops half-way leave
  a session whose user is offline, or a user online whom no purge sees, until the
  next login (`crossed`; redis_cache.go:103-116).
* In hangman, a removal in front of the host during a round, or any removal between
  the reading of the host's word and its application, leaves `curHostIndex` on
  another player than the one who chose the word, and that one may be asked to
  guess it (`hostMoved`; hangman.go:236-242).
* A score and a purge's cutoff are whole seconds (redis_cache.go:59, :81, :147) and
  a session's end is exact: a purge may come up to a second before the session it
  ends, with nothing crossed. `PresenceAgrees` says that it comes no earlier.
* A new seat of connect4, connect-the-dots or tictactoe is sent nothing: between the
  page and the seat an input may have been written to the others only, and the
  player sees it with the next one (`joined`; connect4Routes.go:60-66). Two joins at
  once may leave a seated player out of `players`, or a third one panic
  (`lost`, `SeatPanics`; ticTacToe.go:119-121).
* A move of tictactoe names any square and is not checked: one off the field ends
  the process (`HandleInput` sets `panicked`; ticTacToe.go:44).
* Two exits of one player may both pass their check, and the second removes whoever has
  moved up, or panics (`AskExit`; hangmanRoutes.go:86-93).
* A socket authorized before a logout and registered after it stays open (`late`);
  the sockets of users that a failing purge did log out are not closed (`skipped`;
  api.go:496).
* connect4 takes any integer for a team and for a column: a line of a team nobody
  plays clears the board and credits nobody, the scan does not start from a negative
  team's piece and may miss lines over it (connect4.go:213), and a column that the
  board does not have ends the process (`InsertOffBoard`).
* A challenge whose game cannot be created is gone and its sender is not told
  (`CreateGame`; api.go:419).
* Two players who join a connect4 or connect-the-dots game at once may both write
  their row into the last player, and an exit between a reconnecting handler's
  lookup and its write moves the row to a neighbour (`overlapped`). A panic in a
  hangman or tictactoe handler skips `End`.
* The session cookie has the path `/games/accounts/` (api.go:174), and the games'
  websockets, where Tracker.Start looks for it, are not below it: a browser does
  not send it there. `GameSessions` leaves open who is tracked, and says what the
  code does for a client that does send it.

A whiteboard promises its players nothing, so none of its losses is a finding.
`BoardsAgree` says what they can count on: whoever waits for one change to settle
before the next sees the image, and a shape or a clear on a settled board repairs
every canvas. Changes that overlap can leave canvases wrong until then: of two
draws the first is not sent, and a clear that follows a draw quickly is undone by
a delta that repeats the draw.

## 5. Proofs

`EngineProofs`, for every finite or infinite set of games and connections and all
bounds, from the assumptions named in Engine:

* `TypeCorrect`: `Spec => []TypeOK`. The types alone are not inductive:
  `Head(todo[c])` is a player only if a broadcast has somebody left, and which
  step follows which depends on the package. `TypeInv` adds `WritersShape`, which
  says so; `StepType` has a step for each action.
* `OrphanOutputsAreOld`: `Spec => []OrphanOutputIsOld`. The invariant adds
  `TicksInOrder` (the tick in the channel is later than lastTick and not later
  than now) and `OutputsDated` (an output was pushed no later than its game's
  lastModified). A sweep deletes a game only when lastTick is later than
  lastModified, and then moves lastTick on by at least one: two ticks.
* `PlayersHaveConns`: `Spec => []RegisteredHasConn`, and `ImagesAreSentAlone`:
  `Spec => []InitialImageAlone`. A handler's place says what has been done for its
  player, but a player may be in the slice another handler has loaded and will
  store again, and a connection in a list of writes begun long ago. `JoinInv`
  therefore follows a player from its append on: `PlayersPlaced` for `players` and
  for every loaded copy, `HashesOK` for `playerHashes`, `WritesOK` for whom the
  pending lists and the writes under way can reach, and `JoinShape` for which
  steps belong to which package. The lemmas `HandlerMoves` and `Moves` say once
  what a step can do to a handler; each part is then preserved by a lemma of its
  own.
* `QueuedIndicesShiftLeft`: `Spec => []IndexOnlyShiftsLeft`. `IndexInv` adds to
  `JoinInv` that a hangman player is in the slice once (`PlayersDistinct`) and that
  a sender has been told its hash (`SendersKnown`), so that it never joins behind
  the others a second time.
* `UpdatesReachPlayers`: `Spec => []ViewCurrent`. `ViewInv` adds that what OutputLoop
  writes is the last version or another output waits (`LastOutput`), that each
  player was shown the last version, or joined at it, or is in what is being written
  or will be (`PlayersUpToDate`), and that an old slice brings back nobody who was
  overwritten (`SeatsKept`).
* `ViewsOnlyMoveForward`: `Spec => ViewsMoveForward`, an action property.
  `ForwardInv` adds to `JoinInv` that what OutputLoop writes is no later than its
  game's version (`OutputNotAhead`) and that nobody was shown more than that
  (`ViewsNotAhead`); outputs popped out of order all carry the state of their pop.

`RateLimiterProofs`, for all clients, requests and times with
`MaxDelay + Burst <= Idle`:

* `HeldLimiterIsCurrent`: `Spec => []HeldIsCurrent`. `IInv` adds that a held
  limiter was looked up at most MaxDelay ago and not after its client was last
  seen (`HeldInTime`), that no two clients share one (`OwnLimiter`), and that a
  limiter's last token was taken within MaxDelay of the last lookup
  (`LimitersInTime`). So what the cleanup drops is held by nobody and full again.
* `LimiterActsAsBucket`: `Spec => ActsAsBucket`. Cleanup and GetLimiter leave
  every client's level alone (`CleanupRefines`, `GetLimiterRefines`), Tick
  refills all buckets, Allow serves or changes nothing.
* `RateIsBounded`: `Spec => []RateBounded`, from `Budget`: what was served and
  what is left never exceed the burst and the time.

`ServicesProofs`, on Presence, for all users, keys, request slots and times with
`TTL <= MaxAge`, and any number of failures:

* `PresenceTypeCorrect`: `PSpec => []PTypeOK`. `PInv` adds `BusyHasUser`: whoever is
  in an operation knows its user, or the commands would write rows of nobody.
* `DeadSessionsStayDead`: `PSpec => SessionsStayDead`, an action property. Under
  `PInv`, each command is shown to leave a dead key dead (`CommandDead`): only
  SetKey stores one, and a process that is about to store k contradicts `Dead(k)`.
  EXPIRE is what makes it true of a GetSession whose session ended half-way.
* `SessionsAndPresenceAgree`: `PSpec => []PresenceAgrees`. The invariant says of
  every process half-way what its next commands will put right. Unless operations
  on u have crossed, u is either `Staying` (whoever has a session, is watched or
  worked on is online or a login under way will make it so; a session at rest ends
  at the latest in the second in which its user becomes stale) or `Leaving` by one process alone, which still has to
  delete what is left. `KeysOK` says that nobody else holds a key that is about to
  be stored, `JobsOK` which commands a login, a request, a logout and the cleaner
  send. Both clocks move together, hence `TTL <= MaxAge` (both are twenty minutes).

`ServicesProofs`, on Challenges, for all users, sockets and challenges:

* `ChallengesTypeCorrect`, `OpenSocketsAreListed`, `LoggedOutUsersAreCut` and
  `ChallengesAreAnsweredOnce`. `CInv` is the conjunction of `SocketsOK` and
  `ChallengesOK`, which no action disturbs together. The first adds `Owned` (a
  socket in use has a user), so that a socket is taken off its own user only;
  the second `Answers` (what is pending was stored and taken by nobody, anything
  else by one click of its target), `Takers` (who creates a game or tells the sender
  is that click, so that the sender is told at most once) and `Addressed` (a stored challenge has its two users, a click
  under way its challenge). A click's look and deletion are one step because
  takeChallenge holds challengesMu for both.

`ServicesProofs`, on GameSessions, for any number of handlers of a game of any kind:

* `WinsGoToTheWinner`: `Games!Spec => []WinsOnOwnRow`. `GamesInv` says, until an
  overlap, that every row in the slice is its player's own and that a handler's
  looked-up index, or the last place for a seated game, is still its player's
  (`RowsAreOwn`), and always that a row in the slice has a handler that serves
  somebody (`RowsAreServed`).
* `ServicesTypeCorrect`: the types of all four services side by side.

`RulesProofs`, for the games of `MCRules` with fields, players, delays and bounds of
any size:

* `ClosedBoxesAreOwned`, `BoxesAreCredited`: `BoxesOwned` and `CreditsAreBoxes`, from
  `DotsInv`. `Unit` and the lemmas after it show that an edge is a side of at most
  two boxes and that addEdge looks at exactly those.
* `BallStaysInPlay`: `BallInPlay`. Whatever dt, a ball that would leave at the end of
  a step is put back on the paddle's face, on the wall or in the middle.
* `FullImagesAreOwed`, `SettledBoardsAgree`: `FullIsOwed` and `BoardsAgree`. Until
  changes overlap, `Settling` takes a change through its stages: applied, on its
  way, encoded, sent to the players one by one; in each it says what every page
  shows or will show once it has drawn what it has received.
* `BoardIsSettled`: `Settled`. `LandingIs` finds the row a piece falls to, `OneFalls`
  adds a piece to the settled part of its column, `ColumnFalls` and `BoardFalls`
  follow the two loops; whatever was inserted or rotated, what they leave is settled.
* `ScanFindsLines`: `LinesAreFound`. `ScanExists` shows that the scan is defined: a
  cell can be visited once the cells it is reached from have been. `StreaksAreRuns`,
  by induction along the scan, that every streak is a run of one team's pieces;
  `PiecesAreFound`, that on a settled board every piece is reached, because the
  pieces below it are; `RunsAreFound`, that along a run the streak grows with every
  step. `RunIsLine` and `LineIsRun` relate the four directions of the scan to lines.
  The induction is made from `LeastNat`: a set of numbers that is not empty has a
  least one. Without `Settled` the second half is false, since a line that hangs in the
  air is not reached from the bottom row; nor is one that a column on a negative
  team's piece holds up, hence `StartsEverywhere`.
* `TypesOfTheGames`: the types of the four.

`PongRegistryProofs`, for all games and any finite set of streams:

* `PongTypeCorrect`: `Spec => []TypeOK`, `StreamsAreCounted`:
  `Spec => []PlayersCounted`, and `FirstPlayerIsOne`:
  `Spec => []OneFirstPlayer`, from the invariant that joins both to `TypeOK`: index
  0 is given out only when the count is 0, hence, the count being right, to the
  only stream there is. Each type bound on the count rests on the check and the
  increment being one step under the game's mutex.

`HangmanProofs`, for all players, words, names, numbers of guesses and inputs, every
invariant the run `hangman` checks:

* `HangmanTypeCorrect`, `SeatsStayInRange`, `RoundsAreWonOnce`.
  `RoundInv` joins them to `TurnPassesHost` (turn and curHostIndex differ in the round
  of a chosen word) and `Populated`: while GameLoop runs on an empty game nothing
  has happened yet, so that the first player finds turn and host at 0, and every
  input finds somebody. The arithmetic of the seats is in `ModRange` and `NextSeat`.
* `FreshGuessesAreCredited`: `CreditInv` adds `FreshInputs`: an input read after the
  last removal still names its sender, because a join appends behind everybody. A
  removal makes every queued input stale at once. The finding `hangman_credit` is
  what is lost without freshness.
* `ChoosersDoNotGuess`: `OwnerInv` adds that nobody sits twice (`PlayersDistinct`) and
  that, until a removal moves it, `curHostIndex` is the seat of the word's sender
  (`ChooserIsHost`): a word that is fresh names its sender, and joins go behind.
* `LinesAreRenamed`: `NameInv` adds that present players and authors have joined
  (`Present`) and that, until a join under a name in use, players' names differ
  (`NamesDiffer`), so that a rename takes along the lines of one player only.

`TicTacToeProofs`, for all players, coordinates, pointers and rounds:
`TicTacToeTypeCorrect`, `TurnsAreTaken` and `NoLineStands`. The invariant adds
that only a seated player has moves under way (`SeatedMove`) and that no line stands
by the code's table; `TurnsAreTaken` counts the marks of the two players;
`LinesAreStraight` shows that the table holds every three cells in a row.

Only model-checked: the liveness properties `StoppedGamesEnd` and `IdleUsersLeave`
and the findings of section 4 (fairness and ENABLED are beyond the prover).
Every invariant and every action property of a passing run is stated by a theorem.

## 6. Not modelled

* The user store and the account pages: register, the password check, statistics
  and the online list are one SQL statement or one read each, which the database
  makes atomic. The generated SQL and protobuf code likewise.
* Which pixels a whiteboard's shape covers: the `paint` library and the browser's
  canvas round differently.
* Metrics, ids, the dictionary's import and the templates: no behaviour over time
  that the rest depends on.
* Closing the engine's channels: `main` never does. The Go runtime's abort on
  concurrent map access: any step could be replaced by it.
* Length of texts (an empty guess panics at hangmanInputTypes.go:80): messages are
  model values.

## 7. Plan

Done: every component that has state of its own, a theorem for every invariant
the runs check, and for the action properties among them. What is left: stating
as invariants of their own what the proofs found on the way and a reader of the code
would ask for (`SeatsKept` of the engine, `SeatsListed` of the whiteboard, that
pieces are neither lost nor made by a fall), and a theorem for each.

Runs are few and each asks several questions of one instance; a new component
that needs a run shares one, or takes the place of a run in section 4 once its
finding is settled.
