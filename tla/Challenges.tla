----------------------------- MODULE Challenges -----------------------------
(***************************************************************************)
(* accounts/api.go: the websocket of each user, kept in conns under        *)
(* connsMu, and the challenges pushed over it, kept in challenges under    *)
(* challengesMu.  Handlers of sockets, logouts, challenges and answers     *)
(* run interleaved with the purges of cleanupLoop; what is done outside a  *)
(* mutex is a step of its own.                                             *)
(*                                                                         *)
(* Of the cache (module Presence) only its effect is left: who has a       *)
(* session, one at a time here, and whom PurgeInactive will still find.    *)
(***************************************************************************)
EXTENDS Integers, FiniteSets, Accounts

CONSTANTS Conns,       \* websockets, each with the wsHandler that serves it
          Ids,         \* challenge ids, each drawn once
          Clicks,      \* requests to accept or decline a challenge
          NoConn, NoId,
          MaxEnding    \* bound: calls of closeConn due for a user at once

ASSUME ChallengesAssumption ==
    NoConn \notin Conns /\ NoId \notin Ids /\ Ids \cap Clicks = {} /\ MaxEnding \in Nat

VARIABLES
    loggedIn,      \* users with a session
    expired,       \* users whose session ran out, not yet purged
    ending,        \* ending[u]: calls closeConn(u) that are due
    conns,         \* the registered socket of each user
    pc, owner,     \* each wsHandler, and the user it was authorized for
    closing,       \* sockets taken from conns and about to be closed
    challenges,    \* the challenges that can be answered
    from, to,      \* the users of each challenge
    of, by, answer,\* each click under way: its challenge, the user it was
                   \* authorized for, and what it chose
    stage, via,    \* what the handler of a challenge or click does next, and the
                   \* socket that its push has looked up
    taken,         \* history: the clicks that took each challenge, with their users
    skipped, late  \* history: see PurgeFails and Register

sessionVars == <<loggedIn, expired, ending>>
socketVars == <<conns, pc, owner, closing>>
challengeVars == <<challenges, from, to, of, by, answer, stage, via, taken>>
Pushers == Ids \cup Clicks
cvars == <<sessionVars, socketVars, challengeVars, skipped, late>>

CInit ==
    /\ loggedIn = {} /\ expired = {} /\ ending = [u \in Users |-> 0]
    /\ conns = [u \in Users |-> NoConn]
    /\ pc = [c \in Conns |-> "new"] /\ owner = [c \in Conns |-> NoUser]
    /\ closing = {}
    /\ challenges = {} /\ taken = [h \in Ids |-> {}]
    /\ from = [h \in Ids |-> NoUser] /\ to = [h \in Ids |-> NoUser]
    /\ of = [k \in Clicks |-> NoId] /\ by = [k \in Clicks |-> NoUser]
    /\ answer = [k \in Clicks |-> "none"]
    /\ stage = [p \in Pushers |-> "none"] /\ via = [p \in Pushers |-> NoConn]
    /\ skipped = {} /\ late = {}

-----------------------------------------------------------------------------
(* Sessions.                                                               *)

LogIn(u) ==
    /\ u \notin loggedIn
    /\ loggedIn' = loggedIn \cup {u} /\ expired' = expired \ {u}
    /\ UNCHANGED <<ending, socketVars, challengeVars, skipped, late>>

\* logoutHandler has deleted the session, or failed to, and goes on to closeConn.
LogOut(u) ==
    /\ u \in loggedIn /\ ending[u] < MaxEnding
    /\ loggedIn' \in {loggedIn \ {u}, loggedIn}
    /\ ending' = [ending EXCEPT ![u] = @ + 1]
    /\ UNCHANGED <<expired, socketVars, challengeVars, skipped, late>>

\* The session runs out; nobody is told.
Expire(u) ==
    /\ u \in loggedIn
    /\ loggedIn' = loggedIn \ {u} /\ expired' = expired \cup {u}
    /\ UNCHANGED <<ending, socketVars, challengeVars, skipped, late>>

\* cleanupLoop: PurgeInactive returns those it logged out.
Purge ==
    /\ expired # {} /\ \A u \in expired : ending[u] < MaxEnding
    /\ expired' = {}
    /\ ending' = [u \in Users |-> ending[u] + (IF u \in expired THEN 1 ELSE 0)]
    /\ UNCHANGED <<loggedIn, socketVars, challengeVars, skipped, late>>

\* PurgeInactive fails after it has logged some out: cleanupLoop closes no socket,
\* and the next pass does not find them again.
PurgeFails ==
    \E some \in SUBSET expired \ {{}} :
        /\ expired' = expired \ some /\ skipped' = skipped \cup some
        /\ UNCHANGED <<loggedIn, ending, socketVars, challengeVars, late>>

-----------------------------------------------------------------------------
(* Sockets.                                                                *)

\* A handler is reading while its socket is open, then its read fails: cut.
Close(c) == IF c \in Conns /\ pc[c] = "reading" THEN [pc EXCEPT ![c] = "cut"] ELSE pc

\* A request to /accounts/ws that authorized lets through.
Connect(c, u) ==
    /\ pc[c] = "new" /\ u \in loggedIn
    /\ pc' = [pc EXCEPT ![c] = "authorized"]
    /\ owner' = [owner EXCEPT ![c] = u]
    /\ UNCHANGED <<sessionVars, conns, closing, challengeVars, skipped, late>>

\* wsHandler gives up: the upgrade or the first message failed.
GiveUp(c) ==
    /\ pc[c] = "authorized"
    /\ pc' = [pc EXCEPT ![c] = "done"] /\ owner' = [owner EXCEPT ![c] = NoUser]
    /\ UNCHANGED <<sessionVars, conns, closing, challengeVars, skipped, late>>

\* Under connsMu: the new socket takes the place of the user's old one.  It is
\* late when the user was logged out while it was being upgraded.
Register(c) ==
    LET u == owner[c] IN
    /\ pc[c] = "authorized"
    /\ pc' = [Close(conns[u]) EXCEPT ![c] = "reading"]
    /\ conns' = [conns EXCEPT ![u] = c]
    /\ late' = IF u \in loggedIn THEN late ELSE late \cup {c}
    /\ UNCHANGED <<sessionVars, owner, closing, challengeVars, skipped>>

\* The page goes away, or the network does.
Leave(c) ==
    /\ pc[c] = "reading"
    /\ pc' = Close(c)
    /\ UNCHANGED <<sessionVars, conns, owner, closing, challengeVars, skipped,
                   late>>

Forget_Any(c) == [conns EXCEPT ![owner[c]] = NoConn]
Forget(c) == [conns EXCEPT ![owner[c]] = IF @ = c THEN NoConn ELSE @]

\* ReadMessage has returned an error: removeConn.
RemoveConn(c) ==
    /\ pc[c] = "cut"
    /\ pc' = [pc EXCEPT ![c] = "done"] /\ owner' = [owner EXCEPT ![c] = NoUser]
    /\ conns' = Forget(c)
    /\ late' = late \ {c}
    /\ UNCHANGED <<sessionVars, closing, challengeVars, skipped>>

ToClose_None(u) == {}
ToClose(u) == {conns[u]} \ {NoConn}

\* closeConn under connsMu, then, in CloseTaken, outside of it.
CloseConn(u) ==
    /\ ending[u] > 0
    /\ ending' = [ending EXCEPT ![u] = @ - 1]
    /\ conns' = [conns EXCEPT ![u] = NoConn]
    /\ closing' = closing \cup ToClose(u)
    /\ skipped' = skipped \ {u}
    /\ UNCHANGED <<loggedIn, expired, pc, owner, challengeVars, late>>

CloseTaken(c) ==
    /\ c \in closing
    /\ closing' = closing \ {c} /\ pc' = Close(c)
    /\ UNCHANGED <<sessionVars, conns, owner, challengeVars, skipped, late>>

-----------------------------------------------------------------------------
(* Challenges.                                                             *)

\* IsOnline: PurgeInactive takes an expired user offline, a logout at once.
Online(u) == u \in loggedIn \cup expired

\* challengeHandler up to IsOnline, and from the map on.
Challenge(h, u, v) ==
    /\ stage[h] = "none" /\ u \in loggedIn /\ v # u /\ Online(v)
    /\ stage' = [stage EXCEPT ![h] = "store"]
    /\ from' = [from EXCEPT ![h] = u] /\ to' = [to EXCEPT ![h] = v]
    /\ UNCHANGED <<sessionVars, socketVars, challenges, of, by, answer, via, taken,
                   skipped, late>>

Store(h) ==
    /\ stage[h] = "store"
    /\ stage' = [stage EXCEPT ![h] = "push"]
    /\ challenges' = challenges \cup {h}
    /\ UNCHANGED <<sessionVars, socketVars, from, to, of, by, answer, via, taken,
                   skipped, late>>

\* A challenge is pushed to its target, an answer to the challenge's sender.
Addressee(p) == IF p \in Ids THEN to[p] ELSE from[of[p]]

\* The handler of a challenge or a click returns.
Return(p) ==
    /\ stage' = [stage EXCEPT ![p] = "over"]
    /\ via' = [via EXCEPT ![p] = NoConn]
    /\ of' = [k \in Clicks |-> IF k = p THEN NoId ELSE of[k]]
    /\ by' = [k \in Clicks |-> IF k = p THEN NoUser ELSE by[k]]
    /\ answer' = [k \in Clicks |-> IF k = p THEN "none" ELSE answer[k]]

Proceed(p, next) ==
    /\ stage' = [stage EXCEPT ![p] = next]
    /\ UNCHANGED <<of, by, answer>>

\* push under connsMu: without a socket nothing is sent.
LookupConn(p) ==
    LET c == conns[Addressee(p)] IN
    /\ stage[p] = "push"
    /\ \/ c # NoConn /\ via' = [via EXCEPT ![p] = c] /\ Proceed(p, "write")
       \/ c = NoConn /\ Return(p)
    /\ UNCHANGED <<sessionVars, socketVars, challenges, from, to, taken, skipped,
                   late>>

BeingWritten(c) == \E p \in Pushers : stage[p] = "writing" /\ via[p] = c

\* WriteJSON outside connsMu: it fails on a closed socket, and panics, which ends
\* the handler, on one that another push is writing.
BeginWrite(p) ==
    /\ stage[p] = "write"
    /\ IF pc[via[p]] # "reading" \/ BeingWritten(via[p]) THEN Return(p)
       ELSE Proceed(p, "writing") /\ UNCHANGED via
    /\ UNCHANGED <<sessionVars, socketVars, challenges, from, to, taken, skipped,
                   late>>

EndWrite(p) ==
    /\ stage[p] = "writing" /\ Return(p)
    /\ UNCHANGED <<sessionVars, socketVars, challenges, from, to, taken, skipped,
                   late>>

\* A request to accept or decline that authorized lets through, of whomever and
\* about any id there is.
Click(k, h, u, choice) ==
    /\ stage[k] = "none" /\ u \in loggedIn /\ stage[h] # "none"
    /\ of' = [of EXCEPT ![k] = h] /\ by' = [by EXCEPT ![k] = u]
    /\ answer' = [answer EXCEPT ![k] = choice]
    /\ stage' = [stage EXCEPT ![k] = "take"]
    /\ UNCHANGED <<sessionVars, socketVars, challenges, from, to, via, taken,
                   skipped, late>>

MayTake(h, u) == h \in challenges /\ to[h] = u

AfterAnswer_Kept(h) == challenges
AfterAnswer(h) == challenges \ {h}

\* takeChallenge, under challengesMu, in acceptChallengeHandler or
\* declineChallengeHandler.
TakeChallenge(k) ==
    LET h == of[k] IN
    /\ stage[k] = "take" /\ MayTake(h, by[k])
    /\ challenges' = AfterAnswer(h)
    /\ taken' = [taken EXCEPT ![h] = @ \cup {<<k, by[k]>>}]
    /\ Proceed(k, IF answer[k] = "accepted" THEN "create" ELSE "push")
    /\ UNCHANGED <<sessionVars, socketVars, from, to, via, skipped, late>>

\* Otherwise the answer is 404.
NotFound(k) ==
    /\ stage[k] = "take" /\ ~MayTake(of[k], by[k]) /\ Return(k)
    /\ UNCHANGED <<sessionVars, socketVars, challenges, from, to, taken, skipped,
                   late>>

\* createGame; if it fails the challenge is gone and its sender is not told.
CreateGame(k) ==
    /\ stage[k] = "create"
    /\ \/ Proceed(k, "push") /\ UNCHANGED via
       \/ Return(k)
    /\ UNCHANGED <<sessionVars, socketVars, challenges, from, to, taken, skipped,
                   late>>

SessionNext ==
    \/ \E u \in Users : LogIn(u) \/ LogOut(u) \/ Expire(u)
    \/ Purge \/ PurgeFails
SocketNext ==
    \/ \E c \in Conns, u \in Users : Connect(c, u)
    \/ \E c \in Conns : GiveUp(c) \/ Register(c) \/ Leave(c) \/ RemoveConn(c)
                        \/ CloseTaken(c)
    \/ \E u \in Users : CloseConn(u)
ChallengeNext ==
    \/ \E h \in Ids, u, v \in Users : Challenge(h, u, v)
    \/ \E h \in Ids : Store(h)
    \/ \E k \in Clicks, h \in Ids, u \in Users, choice \in {"accepted", "declined"} :
          Click(k, h, u, choice)
    \/ \E k \in Clicks : TakeChallenge(k) \/ NotFound(k) \/ CreateGame(k)
    \/ \E p \in Pushers : LookupConn(p) \/ BeginWrite(p) \/ EndWrite(p)

CNext == SessionNext \/ SocketNext \/ ChallengeNext

CSpec == CInit /\ [][CNext]_cvars

-----------------------------------------------------------------------------
(* Properties.                                                             *)

\* Every variable stays in its type (all of the modelled code).
CTypeOK ==
    /\ loggedIn \subseteq Users /\ expired \subseteq Users
    /\ ending \in [Users -> 0 .. MaxEnding]
    /\ conns \in [Users -> Conns \cup {NoConn}]
    /\ pc \in [Conns -> {"new", "authorized", "reading", "cut", "done"}]
    /\ owner \in [Conns -> Users \cup {NoUser}]
    /\ closing \subseteq Conns
    /\ challenges \subseteq Ids /\ taken \in [Ids -> SUBSET (Clicks \X Users)]
    /\ from \in [Ids -> Users \cup {NoUser}] /\ to \in [Ids -> Users \cup {NoUser}]
    /\ of \in [Clicks -> Ids \cup {NoId}] /\ by \in [Clicks -> Users \cup {NoUser}]
    /\ answer \in [Clicks -> {"none", "accepted", "declined"}]
    /\ stage \in [Pushers -> {"none", "store", "push", "write", "writing", "take",
                              "create", "over"}]
    /\ via \in [Pushers -> Conns \cup {NoConn}]
    /\ skipped \subseteq Users /\ late \subseteq Conns

\* However tabs replace each other's sockets and leave (wsHandler, removeConn,
\* closeConn), a socket that is read and stays open is the one its user's pushes
\* go to, and they go to no socket without a reader.
ConnsAreListed ==
    /\ \A c \in Conns \ closing : pc[c] = "reading" => conns[owner[c]] = c
    /\ \A u \in Users : conns[u] # NoConn =>
          pc[conns[u]] \in {"reading", "cut"} /\ owner[conns[u]] = u

\* A user who is logged out, and for whom closeConn is not about to be called, has
\* no socket that is open, so nothing more can be pushed: except one that was
\* registered too late for closeConn, and one that cleanupLoop skipped.
LoggedOutIsCut ==
    \A c \in Conns \ (closing \cup late) :
        pc[c] = "reading" => \/ owner[c] \in loggedIn \cup expired \cup skipped
                             \/ ending[owner[c]] > 0

\* A stored challenge is pending until one click takes it, and no second one does,
\* whatever accepts and declines of its target's tabs, and of others, are under way
\* at once (takeChallenge); that click is its target's; and nobody but the taker
\* creates a game for it or tells its sender, who is therefore told at most once.
\* (A sender may not be told at all, and a target without a socket not be asked.)
AnsweredOnce ==
    /\ \A h \in Ids :
          /\ Cardinality(taken[h]) =
                IF h \in challenges \/ stage[h] \in {"none", "store"} THEN 0 ELSE 1
          /\ \A t \in taken[h] : t[2] = to[h]
    /\ \A k \in Clicks :
          stage[k] \in {"create", "push", "write", "writing"} =>
              <<k, by[k]>> \in taken[of[k]]
=============================================================================
