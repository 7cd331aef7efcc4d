----------------------------- MODULE MCHangman ------------------------------
(* Instances of Hangman for TLC.                                           *)
EXTENDS Hangman, TLC

CONSTANTS p1, p2, p3, a, b, c

MCWords == {{a}, {a, b}}
MCSymmetry == Permutations({p1, p2, p3})

\* The last input is kept for a second round, whose host has players in front.
SecondRound == pushed = MaxInputs => wins # <<>>
=============================================================================
