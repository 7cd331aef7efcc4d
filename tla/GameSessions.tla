---------------------------- MODULE GameSessions ----------------------------
(***************************************************************************)
(* accounts/gamesession: the row of GameSessions that times a logged-in    *)
(* player's stay in a game, and that GameLoop's wins are added to.  The    *)
(* websocket handlers of one game start and end the rows, each package in  *)
(* an order of its own, and write a row's id into the players.             *)
(***************************************************************************)
EXTENDS Integers, Sequences

CONSTANTS Handlers,  \* connections to the game
          NoRow

\* The packages: connect4 and connect-the-dots are alike, "seated".
Kinds == {"hangman", "tictactoe", "seated"}

VARIABLES
    kind,       \* the game's package
    players,    \* the game's players: who they are and their GameSessionID
    pc,         \* each handler
    serves,     \* the player each handler serves, named by its first handler
    row,        \* the row each handler started, NoRow for an anonymous player
    index,      \* where a reconnecting handler found its player
    hashes,     \* hangman players with an entry in playerHashes
    exits,      \* the indices of the hangman exits that are queued
    ended,      \* rows with an end time
    misplaced,  \* history: a win was added to a row that is not the winner's
    overlapped  \* history: see AppendSeated and Exit

handlerVars == <<pc, serves, row, index>>
exitVars == <<hashes, exits>>
winVars == <<misplaced, overlapped>>
vars == <<kind, players, handlerVars, exitVars, ended, winVars>>

Init ==
    /\ kind \in Kinds /\ players = <<>>
    /\ pc = [h \in Handlers |-> "new"] /\ serves = [h \in Handlers |-> h]
    /\ row = [h \in Handlers |-> NoRow] /\ index = [h \in Handlers |-> 0]
    /\ hashes = {} /\ exits = {}
    /\ ended = {} /\ misplaced = FALSE /\ overlapped = FALSE

Goto(h, place) == pc' = [pc EXCEPT ![h] = place]
Player(h, r) == [is |-> h, row |-> r]

-----------------------------------------------------------------------------
(* Joining.                                                                *)

\* Tracker.Start: GetSession and StartGameSession.  Without a session, or when one
\* of them fails, the player is not tracked.  A row is named by its handler.
Start(h, tracked) ==
    row' = [row EXCEPT ![h] = IF tracked THEN h ELSE NoRow]

\* hangman and tictactoe start the row first.
StartFirst(h, tracked) ==
    /\ kind # "seated" /\ pc[h] = "new"
    /\ Start(h, tracked) /\ Goto(h, "started")
    /\ UNCHANGED <<kind, players, serves, index, exitVars, ended, winVars>>

\* A new player; a tictactoe game that has two is left at once.
AppendStarted(h) ==
    /\ pc[h] = "started"
    /\ IF kind = "tictactoe" /\ Len(players) = 2
       THEN Goto(h, "ending") /\ UNCHANGED <<players, hashes>>
       ELSE /\ Goto(h, "playing")
            /\ players' = Append(players, Player(h, row[h]))
            /\ hashes' = IF kind = "hangman" THEN hashes \cup {h} ELSE hashes
    /\ UNCHANGED <<kind, serves, row, index, exits, ended, winVars>>

Find(g) == {i \in DOMAIN players : players[i].is = g}

\* hangman's reconnect route, with the hash of player g: its socket is closed, so
\* that the handler it has ends, and its index looked up.
Lookup(h, g) ==
    /\ kind = "hangman" /\ pc[h] = "started" /\ g \in hashes
    /\ serves' = [serves EXCEPT ![h] = g]
    /\ pc' = [f \in Handlers |->
                 IF f = h THEN (IF Find(g) = {} THEN "ending" ELSE "found")
                 ELSE IF pc[f] = "playing" /\ serves[f] = g THEN "ending"
                 ELSE pc[f]]
    /\ \E i \in (IF Find(g) = {} THEN {0} ELSE Find(g)) :
          index' = [index EXCEPT ![h] = i]
    /\ UNCHANGED <<kind, players, row, exitVars, ended, winVars>>

\* The same for a hash that has left playerHashes: the handler reads on, and its
\* row is nobody's.
Unknown(h) ==
    /\ kind = "hangman" /\ pc[h] = "started"
    /\ \E g \in Handlers : pc[g] \notin {"new", "started"} /\ g \notin hashes
    /\ Goto(h, "playing")
    /\ UNCHANGED <<kind, players, serves, row, index, exitVars, ended, winVars>>

\* The index may be past the players by now: a panic, which the server recovers.
Reseat(h) ==
    /\ pc[h] = "found"
    /\ IF index[h] \in DOMAIN players
       THEN /\ players' = [players EXCEPT ![index[h]].row = row[h]]
            /\ Goto(h, "playing")
       ELSE Goto(h, "dead") /\ UNCHANGED players
    /\ index' = [index EXCEPT ![h] = 0]
    /\ UNCHANGED <<kind, serves, row, exitVars, ended, winVars>>

\* connect4 and connect-the-dots append the player, then start the row, and write
\* it into the last player there is.
AppendSeated(h) ==
    /\ kind = "seated" /\ pc[h] = "new"
    /\ IF Len(players) = 2
       THEN Goto(h, "done") /\ UNCHANGED <<players, overlapped>>
       ELSE /\ Goto(h, "seated")
            /\ players' = Append(players, Player(h, NoRow))
            /\ overlapped' = (overlapped \/ \E g \in Handlers : pc[g] = "seated")
    /\ UNCHANGED <<kind, serves, row, index, exitVars, ended, misplaced>>

RowGoesTo_First == 1
RowGoesTo == Len(players)

StartSeated(h, tracked) ==
    /\ pc[h] = "seated"
    /\ Start(h, tracked) /\ Goto(h, "playing")
    /\ players' = IF tracked THEN [players EXCEPT ![RowGoesTo].row = h] ELSE players
    /\ UNCHANGED <<kind, serves, index, exitVars, ended, winVars>>

-----------------------------------------------------------------------------
(* Leaving, and winning.                                                   *)

\* The socket closes, or the handler panics on a message: only the deferred End of
\* connect4 and connect-the-dots is called after a panic.
Leave(h, panics) ==
    /\ pc[h] = "playing"
    /\ Goto(h, IF panics /\ kind # "seated" THEN "dead" ELSE "ending")
    /\ UNCHANGED <<kind, players, serves, row, index, exitVars, ended, winVars>>

\* Tracker.End
End(h) ==
    /\ pc[h] = "ending"
    /\ Goto(h, "done")
    /\ ended' = ended \cup ({row[h]} \ {NoRow})
    /\ UNCHANGED <<kind, players, serves, row, index, exitVars, winVars>>

\* The exit_game route.
ExitGame(g) ==
    /\ g \in hashes
    /\ hashes' = hashes \ {g} /\ exits' = exits \cup Find(g)
    /\ UNCHANGED <<kind, players, handlerVars, ended, winVars>>

\* GameLoop applies a hangman exit; the last one stops GameLoop (module Engine).
Exit(i) ==
    /\ i \in exits /\ Len(players) > 1
    /\ exits' = exits \ {i}
    /\ players' = SubSeq(players, 1, i - 1) \o SubSeq(players, i + 1, Len(players))
    /\ overlapped' = (overlapped \/ \E h \in Handlers : pc[h] = "found")
    /\ UNCHANGED <<kind, handlerVars, hashes, ended, misplaced>>

\* GameLoop: ConsumeWinners names player i, and a goroutine of its own records the
\* win in the row that the player has now (Tracker.RecordWin).
Win(i) ==
    /\ players[i].row # NoRow
    /\ misplaced' = (misplaced \/ serves[players[i].row] # players[i].is)
    /\ UNCHANGED <<kind, players, handlerVars, exitVars, ended, overlapped>>

Next ==
    \/ \E h \in Handlers :
          \/ \E tracked \in BOOLEAN :
                StartFirst(h, tracked) \/ StartSeated(h, tracked)
          \/ \E g \in Handlers : Lookup(h, g)
          \/ \E panics \in BOOLEAN : Leave(h, panics)
          \/ AppendStarted(h) \/ Unknown(h) \/ Reseat(h) \/ AppendSeated(h)
          \/ End(h) \/ ExitGame(h)
    \/ \E i \in DOMAIN players : Exit(i) \/ Win(i)

Spec == Init /\ [][Next]_vars

-----------------------------------------------------------------------------
(* Properties.                                                             *)

\* Every variable stays in its type (all of the modelled code).
TypeOK ==
    /\ kind \in Kinds
    /\ players \in Seq([is : Handlers, row : Handlers \cup {NoRow}])
    /\ pc \in [Handlers -> {"new", "started", "found", "seated", "playing",
                            "ending", "done", "dead"}]
    /\ serves \in [Handlers -> Handlers]
    /\ row \in [Handlers -> Handlers \cup {NoRow}] /\ index \in [Handlers -> Nat]
    /\ hashes \subseteq Handlers /\ exits \subseteq Nat /\ ended \subseteq Handlers
    /\ {misplaced, overlapped} \subseteq BOOLEAN

\* A win is added to a row of the player who won it, through reconnects, exits and
\* wins recorded late: unless a seated game was joined by two at once, or an exit
\* was applied while a handler was writing its row into the players.
WinsOnOwnRow ==
    misplaced => overlapped
=============================================================================
