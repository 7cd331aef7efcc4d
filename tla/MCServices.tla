----------------------------- MODULE MCServices -----------------------------
(* Instances of RateLimiter, Presence, Challenges and GameSessions for TLC. *)
(* They share no state here, so a behaviour exercises one: part says which, *)
(* and what of it; the bounds of each part are its conjuncts below.         *)
EXTENDS RateLimiter, Presence, Challenges, Sequences

CONSTANTS a1, r1, r2,  \* an address, and two requests
          u1, u2, k1, k2, c1, c2, c3, d1, d2, e1, e2,
          Handlers, NoRow, h1, h2, h3

MCClientOf == [r \in {r1, r2} |-> a1]

VARIABLES
    part,
    kind, players, gamePc, serves, row, index, hashes, exits, ended, misplaced,
    overlapped

gameVars == <<kind, players, gamePc, serves, row, index, hashes, exits, ended,
              misplaced, overlapped>>

Games == INSTANCE GameSessions WITH pc <- gamePc

ServicesInit ==
    /\ part \in {"limits", "overlaps", "purges", "sockets", "challenges", "games"}
    /\ Init /\ PInit /\ CInit /\ Games!Init
    /\ part # "games" => kind = "seated"

\* Which of the requests, keys, sockets, challenges and handlers that are alike
\* comes first makes no difference: they are taken in this order.
InOrder ==
    /\ at'[r2] # NoJob /\ at[r2] = NoJob => at[r1] # NoJob
    /\ k2 \in issued' => k1 \in issued'
    /\ pc'[c2] # "new" => pc'[c1] # "new"
    /\ pc'[c3] # "new" => pc'[c2] # "new"
    /\ stage'[d2] # "none" => stage'[d1] # "none"
    /\ stage'[e2] # "none" => stage'[e1] # "none"
    /\ gamePc'[h2] # "new" => gamePc'[h1] # "new"
    /\ gamePc'[h3] # "new" => gamePc'[h2] # "new"

\* Two operations on one user at once, two requests or a request and a purge, and
\* nothing fails; or two users, one request at a time, no logout, and one failure.
OfPresence ==
    /\ part = "overlaps" => /\ \A p \in {r1, r2, Cleaner} : at'[p].user # u2
                            /\ fails' = 0 /\ ~(at'[r1].logout /\ at'[r2].logout)
                            /\ at'[r2] = NoJob \/ (at'[Cleaner] = NoJob /\ todo' = {})
    /\ part = "purges" => at'[r2] = NoJob /\ ~at'[r1].logout

\* No challenge, and three sockets of u1; or two sockets and a challenge while u1
\* logs in and out (no logout fails), and a second challenge or a second click as
\* long as no session and no socket ends.
OfChallenges ==
    /\ part = "sockets" =>
          /\ stage'[d1] = "none"
          /\ \A c \in {c1, c2, c3} : owner'[c] # u2
          /\ u2 \notin skipped'
    /\ part = "challenges" =>
          /\ owner'[c3] = NoUser
          /\ loggedIn \ loggedIn' \subseteq {u1} /\ expired' = {}
          /\ \/ stage'[d2] = "none" /\ stage'[e2] = "none"
             \/ /\ stage'[d2] = "none" \/ stage'[e2] = "none"
                /\ loggedIn' = {u1, u2} /\ \A c \in {c1, c2} : pc'[c] \notin {"cut", "done"}
          /\ \A u \in loggedIn' : ending'[u] <= ending[u]

ServicesNext ==
    /\ \/ part = "limits" /\ Next /\ UNCHANGED <<pvars, cvars, gameVars>>
       \/ part \in {"overlaps", "purges"} /\ PNext /\ OfPresence
          /\ UNCHANGED <<vars, cvars, gameVars>>
       \/ part \in {"sockets", "challenges"} /\ CNext /\ OfChallenges
          /\ UNCHANGED <<vars, pvars, gameVars>>
       \/ part = "games" /\ Games!Next /\ UNCHANGED <<vars, pvars, cvars>>
    /\ InOrder
    /\ UNCHANGED part

ServicesSpec ==
    /\ ServicesInit
    /\ [][ServicesNext]_<<part, vars, pvars, cvars, gameVars>>
    /\ Fairness

\* GameSessions: a win is added to the winner's row.
WinsOnOwnRow == Games!WinsOnOwnRow

\* Every variable of the services stays in its type (all of their code).
ServicesTypeOK == TypeOK /\ PTypeOK /\ CTypeOK /\ Games!TypeOK
=============================================================================
