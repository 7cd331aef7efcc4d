------------------------------ MODULE MCEngine ------------------------------
(* Instances of Engine for TLC.  A run creates at most MaxGames of its     *)
(* games, so it goes through the packages one (or two) at a time.          *)
EXTENDS Engine, TLC

\* Game ids, named for the package that hands them out, and connections.
CONSTANTS hangman, seated, tictactoe, whiteboard, c1, c2, c3

\* The three connections of a run are interchangeable.
MCSymmetry == Permutations({c1, c2, c3})

MCKind == hangman :> "hangman" @@ seated :> "seated"
          @@ tictactoe :> "tictactoe" @@ whiteboard :> "whiteboard"
MCKindOf == [g \in Games |-> MCKind[g]]

\* Two players of hangman, three connections racing for the other games'
\* seats; or one player each; or two each.
MCRaces == [g \in Games |-> IF g = hangman THEN 2 ELSE 3]
MCOne == [g \in Games |-> 1]
MCTwo == [g \in Games |-> 2]
=============================================================================
