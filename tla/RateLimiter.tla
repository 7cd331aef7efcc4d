---------------------------- MODULE RateLimiter -----------------------------
(***************************************************************************)
(* engine/ratelimit.go: a request looks its client's limiter up under mu   *)
(* (making one for a client it does not know), then asks it for a token    *)
(* outside mu, while the cleanup loop drops the visitors it has not seen   *)
(* for Idle.  Time counts the units in which a limiter gains one token, a  *)
(* second in server.go.                                                    *)
(***************************************************************************)
EXTENDS Integers, FiniteSets

CONSTANTS Clients, Requests,
          ClientOf,    \* the client (address) each request slot comes from
          Burst,       \* 20 in server.go
          Idle,        \* three minutes
          MaxDelay,    \* a handler gets from the lookup to Allow within this
          MaxLimiters, \* bound: limiters ever made
          MaxTime      \* bound on time

ASSUME BurstAssumption == Burst \in Nat \ {0}
ASSUME ClientOfAssumption == ClientOf \in [Requests -> Clients]
ASSUME TimesAssumption ==
    /\ {Idle, MaxDelay, MaxTime, MaxLimiters} \subseteq Nat
    /\ MaxDelay + Burst <= Idle

NoLimiter == 0
Limiters == 1 .. MaxLimiters

VARIABLES
    now,
    limiterOf,   \* visitors[c].limiter, or NoLimiter for no entry
    lastSeen,    \* visitors[c].lastSeen
    made,        \* limiters made so far
    tokens, last,  \* tokens of each limiter, as of the time last
    held, since, \* held[r]: the limiter request r has looked up, and when
    served       \* history: the requests of each client that got through

visitorVars == <<limiterOf, lastSeen, made>>
limiterVars == <<tokens, last>>
requestVars == <<held, since>>
vars == <<now, visitorVars, limiterVars, requestVars, served>>

Init ==
    /\ now = 0 /\ made = 0
    /\ limiterOf = [c \in Clients |-> NoLimiter]
    /\ lastSeen = [c \in Clients |-> 0]
    /\ tokens = [l \in Limiters |-> Burst] /\ last = [l \in Limiters |-> 0]
    /\ held = [r \in Requests |-> NoLimiter]
    /\ since = [r \in Requests |-> 0]
    /\ served = [c \in Clients |-> 0]

MadeAfter_Always(known) == made + 1
MadeAfter(known) == IF known THEN made ELSE made + 1

\* getLimiter
GetLimiter(r) ==
    LET c == ClientOf[r]
        known == limiterOf[c] # NoLimiter
    IN  /\ held[r] = NoLimiter
        /\ known \/ made < MaxLimiters
        /\ made' = MadeAfter(known)
        /\ limiterOf' = [limiterOf EXCEPT ![c] = IF known THEN @ ELSE made + 1]
        /\ lastSeen' = [lastSeen EXCEPT ![c] = now]
        /\ held' = [held EXCEPT ![r] = limiterOf'[c]]
        /\ since' = [since EXCEPT ![r] = now]
        /\ UNCHANGED <<now, limiterVars, served>>

\* The tokens of limiter l at this moment.
Available(l) ==
    IF tokens[l] + (now - last[l]) < Burst THEN tokens[l] + (now - last[l])
    ELSE Burst

\* limiter.Allow (package rate), and the request is served or refused.
Allow(r) ==
    LET l == held[r]
        c == ClientOf[r]
    IN  /\ l # NoLimiter
        /\ held' = [held EXCEPT ![r] = NoLimiter]
        /\ IF Available(l) >= 1
           THEN /\ tokens' = [tokens EXCEPT ![l] = Available(l) - 1]
                /\ last' = [last EXCEPT ![l] = now]
                /\ served' = [served EXCEPT ![c] = @ + 1]
           ELSE UNCHANGED <<limiterVars, served>>
        /\ UNCHANGED <<now, visitorVars, since>>

Expired_Always(c) == TRUE
Expired_BeforeRefill(c) == now - lastSeen[c] > MaxDelay
Expired(c) == now - lastSeen[c] > Idle

\* One pass of cleanupLoop, at any time (the code makes one every minute).
Cleanup ==
    /\ limiterOf' = [c \in Clients |-> IF Expired(c) THEN NoLimiter
                                       ELSE limiterOf[c]]
    /\ UNCHANGED <<now, lastSeen, made, limiterVars, requestVars, served>>

\* Time passes; a request that has its limiter gets to Allow within MaxDelay.
Tick ==
    /\ now < MaxTime
    /\ \A r \in Requests : held[r] # NoLimiter => now - since[r] < MaxDelay
    /\ now' = now + 1
    /\ UNCHANGED <<visitorVars, limiterVars, requestVars, served>>

Next == Tick \/ Cleanup \/ \E r \in Requests : GetLimiter(r) \/ Allow(r)

Spec == Init /\ [][Next]_vars

-----------------------------------------------------------------------------
(* Properties.                                                             *)

\* Every variable stays in its type (all of the modelled code).
TypeOK ==
    /\ now \in Nat /\ made \in 0 .. MaxLimiters
    /\ limiterOf \in [Clients -> {NoLimiter} \cup Limiters]
    /\ lastSeen \in [Clients -> Nat]
    /\ tokens \in [Limiters -> 0 .. Burst] /\ last \in [Limiters -> Nat]
    /\ held \in [Requests -> {NoLimiter} \cup Limiters]
    /\ since \in [Requests -> Nat] /\ served \in [Clients -> Nat]

\* The level of a client's bucket: a client without an entry has a full one.
Level(c) == IF limiterOf[c] = NoLimiter THEN Burst ELSE Available(limiterOf[c])

Levels == [c \in Clients |-> Level(c)]

Bucket == INSTANCE TokenBucket WITH level <- Levels

\* Dropping visitors never shows: whatever requests, lookups and cleanups
\* overlap, each client's requests are served as by a bucket of its own.
ActsAsBucket == Bucket!Spec

\* A request never asks a limiter that the cleanup has dropped from the map (and
\* that a new request of the client would not share).
HeldIsCurrent ==
    \A r \in Requests :
        held[r] # NoLimiter => held[r] = limiterOf[ClientOf[r]]

\* No client gets more than the burst and one request per unit of time through,
\* however often its visitor entry is dropped and made again (newRateLimiter's
\* rate and burst are what the server sets as its limit).
RateBounded == \A c \in Clients : served[c] <= Burst + now
=============================================================================
