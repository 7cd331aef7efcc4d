------------------------------- MODULE Slices -------------------------------
(***************************************************************************)
(* The functions of Go's package slices that the games use on their players*)
(* slices.  Indices count from 0, as in the code.                          *)
(***************************************************************************)
EXTENDS Integers, Sequences

Elements(s) == {s[i] : i \in 1 .. Len(s)}

\* slices.IndexFunc: the index, counted from 0, or -1.  (It is the first index;
\* a hash enters a players slice once.)
IndexFunc(s, hash) ==
    IF hash \in Elements(s)
    THEN (CHOOSE i \in 1 .. Len(s) : s[i] = hash) - 1
    ELSE -1

\* slices.Delete(s, idx, idx+1) for an index in range.
SliceDelete(s, idx) ==
    [i \in 1 .. Len(s) - 1 |-> IF i <= idx THEN s[i] ELSE s[i + 1]]

\* s[idx] is an element; Go panics on any other index.
InRange(s, idx) == 0 <= idx /\ idx < Len(s)
=============================================================================
