---------------------------- MODULE TokenBucket -----------------------------
(***************************************************************************)
(* What the rate limiter promises: each client has one bucket of Burst     *)
(* tokens that gains one per unit of time and that every request it gets   *)
(* through takes one from.  RateLimiter implements it without keeping      *)
(* anything of the clients it has not seen for a while.                    *)
(***************************************************************************)
EXTENDS Integers

CONSTANTS Clients, Burst  \* Burst is a positive number

VARIABLES now,    \* in units of the time one token takes
          level,  \* level[c]: the tokens in the bucket of c
          served  \* served[c]: the requests of c that got through

vars == <<now, level, served>>

Init ==
    /\ now = 0
    /\ level = [c \in Clients |-> Burst] /\ served = [c \in Clients |-> 0]

Serve(c) ==
    /\ level[c] >= 1
    /\ level' = [level EXCEPT ![c] = @ - 1]
    /\ served' = [served EXCEPT ![c] = @ + 1]
    /\ UNCHANGED now

Refill(l) == IF l < Burst THEN l + 1 ELSE l

Tick ==
    /\ now' = now + 1
    /\ level' = [c \in Clients |-> Refill(level[c])]
    /\ UNCHANGED served

Next == Tick \/ \E c \in Clients : Serve(c)

Spec == Init /\ [][Next]_vars
=============================================================================
