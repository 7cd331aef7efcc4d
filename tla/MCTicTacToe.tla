---------------------------- MODULE MCTicTacToe -----------------------------
(* Instances of TicTacToe for TLC.                                         *)
EXTENDS TicTacToe

CONSTANTS p1, p2

\* The players are alike: p1 takes the first seat.
InOrder == \A i \in DOMAIN players : players[i] = p2 => i > 1

\* Nothing reads the scores and histories but WinnersReturned, which compares two.
\* A moveInput that waits nowhere, and the Y that is about to be decoded for one,
\* is overwritten before anything reads it; nor is any read once GameLoop panicked.
\* States that differ in these alone are one.
MCView ==
    <<field, turn, pendingWinners, returned = won,
      IF panicked THEN <<>>
      ELSE <<players, decoding, queued,
             [p \in Hashes |-> IF queued[p] > 0 THEN ui[p]
                               ELSE IF p \in decoding THEN <<ui[p][1], 0>>
                               ELSE <<0, 0>>]>>>>
=============================================================================
