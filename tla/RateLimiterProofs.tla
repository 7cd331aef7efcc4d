------------------------- MODULE RateLimiterProofs --------------------------
(* RateLimiter implements TokenBucket, for any clients, burst and delays.  *)
EXTENDS RateLimiter, TLAPS

USE BurstAssumption, ClientOfAssumption, TimesAssumption

(***************************************************************************)
(* Why dropping a visitor is not seen: its limiter was last asked within   *)
(* MaxDelay of its lastSeen, so by the time it expires it is full, and no  *)
(* request holds it any more.  Each client has a limiter of its own, and   *)
(* one that was not yet made is full.                                      *)
(***************************************************************************)
HeldInTime ==
    \A r \in Requests : held[r] # NoLimiter =>
        /\ held[r] = limiterOf[ClientOf[r]]
        /\ since[r] <= lastSeen[ClientOf[r]]
        /\ now <= since[r] + MaxDelay

OwnLimiter ==
    \A c \in Clients :
        /\ limiterOf[c] <= made
        /\ \A d \in Clients \ {c} :
              limiterOf[c] # NoLimiter => limiterOf[c] # limiterOf[d]

LimitersInTime ==
    /\ \A c \in Clients :
          limiterOf[c] # NoLimiter => last[limiterOf[c]] <= lastSeen[c] + MaxDelay
    /\ \A c \in Clients : lastSeen[c] <= now
    /\ \A l \in Limiters : last[l] <= now /\ (l > made => tokens[l] = Burst)

IInv == TypeOK /\ HeldInTime /\ OwnLimiter /\ LimitersInTime

LEMMA InitInv == Init => IInv
  BY DEF Init, IInv, TypeOK, HeldInTime, OwnLimiter, LimitersInTime, Limiters,
         NoLimiter

LEMMA AvailableType ==
    ASSUME IInv, NEW l \in Limiters
    PROVE  Available(l) \in 0 .. Burst
  <1>1. /\ tokens[l] \in 0 .. Burst /\ now - last[l] \in Nat
    BY DEF IInv, TypeOK, LimitersInTime
  <1> QED
    BY <1>1 DEF Available

\* A visitor that has expired has a full limiter that nobody holds.
LEMMA ExpiredIsFull ==
    ASSUME IInv, NEW c \in Clients, Expired(c), limiterOf[c] # NoLimiter
    PROVE  /\ Available(limiterOf[c]) = Burst
           /\ \A r \in Requests : ClientOf[r] = c => held[r] = NoLimiter
  <1>1. limiterOf[c] \in Limiters /\ lastSeen[c] \in Nat /\ now \in Nat
    BY DEF IInv, TypeOK
  <1>2. /\ tokens[limiterOf[c]] \in 0 .. Burst /\ last[limiterOf[c]] \in Nat
        /\ last[limiterOf[c]] <= lastSeen[c] + MaxDelay
        /\ now - lastSeen[c] > Idle
    BY <1>1 DEF IInv, TypeOK, LimitersInTime, Expired
  <1>3. now - last[limiterOf[c]] > Burst
    BY <1>1, <1>2
  <1>4. Available(limiterOf[c]) = Burst
    BY <1>1, <1>2, <1>3 DEF Available
  <1>5. ASSUME NEW r \in Requests, ClientOf[r] = c, held[r] # NoLimiter
        PROVE  FALSE
    <2>1. since[r] <= lastSeen[c] /\ now <= since[r] + MaxDelay /\ since[r] \in Nat
      BY <1>5 DEF IInv, TypeOK, HeldInTime
    <2> QED
      BY <1>1, <1>2, <2>1
  <1> QED
    BY <1>4, <1>5

LEMMA SeenInTime ==
    ASSUME IInv
    PROVE  /\ \A c \in Clients : lastSeen[c] \in Nat /\ lastSeen[c] <= now
           /\ \A l \in Limiters : last[l] \in Nat /\ last[l] <= now
  BY DEF IInv, TypeOK, LimitersInTime

LEMMA StepInv == IInv /\ [Next]_vars => IInv'
  <1> SUFFICES ASSUME IInv, [Next]_vars PROVE IInv'
    OBVIOUS
  <1> USE DEF visitorVars, limiterVars, requestVars, Limiters, NoLimiter
  <1>1. CASE Tick
    <2>1. /\ now' = now + 1 /\ now \in Nat
          /\ UNCHANGED <<limiterOf, lastSeen, made, tokens, last, held, since, served>>
          /\ \A r \in Requests : held[r] # NoLimiter => now - since[r] < MaxDelay
      BY <1>1 DEF Tick, IInv, TypeOK
    <2>2. TypeOK' /\ OwnLimiter'
      BY <2>1 DEF IInv, TypeOK, OwnLimiter
    <2>3. HeldInTime'
      BY <2>1 DEF IInv, TypeOK, HeldInTime
    <2>4. LimitersInTime'
      <3>1. \A c \in Clients : lastSeen[c] \in Nat /\ lastSeen[c] <= now
        BY DEF IInv, TypeOK, LimitersInTime
      <3>2. \A k \in Limiters : last[k] \in Nat /\ last[k] <= now
        BY DEF IInv, TypeOK, LimitersInTime
      <3>3. \A c \in Clients : limiterOf[c] # NoLimiter =>
               last[limiterOf[c]] <= lastSeen[c] + MaxDelay
        BY DEF IInv, LimitersInTime
      <3>4. \A k \in Limiters : k > made => tokens[k] = Burst
        BY DEF IInv, LimitersInTime
      <3> QED
        BY <2>1, <3>1, <3>2, <3>3, <3>4 DEF LimitersInTime
    <2> QED
      BY <2>2, <2>3, <2>4 DEF IInv
  <1>2. CASE Cleanup
    <2>1. \A r \in Requests : ClientOf[r] \in Clients
      OBVIOUS
    <2>2. TypeOK' /\ OwnLimiter' /\ LimitersInTime'
      BY <1>2 DEF Cleanup, IInv, TypeOK, OwnLimiter, LimitersInTime
    <2>3. ASSUME NEW r \in Requests, held'[r] # NoLimiter
          PROVE  limiterOf'[ClientOf[r]] = limiterOf[ClientOf[r]]
      <3>1. held[r] # NoLimiter /\ held[r] = limiterOf[ClientOf[r]]
        BY <1>2, <2>3 DEF Cleanup, IInv, HeldInTime
      <3>2. ~Expired(ClientOf[r])
        BY <2>1, <3>1, ExpiredIsFull
      <3> QED
        BY <1>2, <2>1, <3>2 DEF Cleanup
    <2>4. HeldInTime'
      BY <1>2, <2>3 DEF Cleanup, IInv, HeldInTime
    <2> QED
      BY <2>2, <2>4 DEF IInv
  <1>3. ASSUME NEW r \in Requests, GetLimiter(r) PROVE IInv'
    <2> DEFINE c == ClientOf[r]
    <2>1. c \in Clients /\ held[r] = NoLimiter
      BY <1>3 DEF GetLimiter
    <2>2. /\ UNCHANGED <<now, tokens, last, served>>
          /\ lastSeen' = [lastSeen EXCEPT ![c] = now]
          /\ since' = [since EXCEPT ![r] = now]
          /\ held' = [held EXCEPT ![r] = limiterOf'[c]]
      BY <1>3 DEF GetLimiter
    <2>3. CASE limiterOf[c] # NoLimiter
      <3>1. made' = made /\ limiterOf' = limiterOf
        BY <1>3, <2>1, <2>3 DEF GetLimiter, MadeAfter, IInv, TypeOK
      <3>2. TypeOK' /\ OwnLimiter'
        BY <2>1, <2>2, <2>3, <3>1 DEF IInv, TypeOK, OwnLimiter
      <3>2a. /\ lastSeen'[c] = now /\ lastSeen[c] <= now
             /\ \A d \in Clients \ {c} : lastSeen'[d] = lastSeen[d]
             /\ now \in Nat
             /\ \A d \in Clients : lastSeen[d] \in Nat
             /\ \A k \in Limiters : last[k] \in Nat
             /\ \A d \in Clients : limiterOf[d] # NoLimiter => limiterOf[d] \in Limiters
        BY <2>1, <2>2, SeenInTime DEF IInv, TypeOK
      <3>3. HeldInTime'
        <4>1. ASSUME NEW q \in Requests, q # r, held'[q] # NoLimiter
              PROVE  /\ held'[q] = limiterOf'[ClientOf[q]]
                     /\ since'[q] <= lastSeen'[ClientOf[q]]
                     /\ now' <= since'[q] + MaxDelay
          <5>1. held'[q] = held[q] /\ since'[q] = since[q] /\ since[q] \in Nat
            BY <2>2, <4>1 DEF IInv, TypeOK
          <5>2. /\ held[q] = limiterOf[ClientOf[q]]
                /\ since[q] <= lastSeen[ClientOf[q]]
                /\ now <= since[q] + MaxDelay
            BY <4>1, <5>1 DEF IInv, HeldInTime
          <5>3. ClientOf[q] \in Clients
            OBVIOUS
          <5>4. since[q] <= lastSeen'[ClientOf[q]]
            BY <3>2a, <5>1, <5>2, <5>3
          <5> QED
            BY <2>2, <3>1, <5>1, <5>2, <5>4
        <4>2. /\ held'[r] = limiterOf'[c] /\ since'[r] <= lastSeen'[c]
              /\ now' <= since'[r] + MaxDelay
          BY <2>2, <3>2a DEF IInv, TypeOK
        <4> QED
          BY <4>1, <4>2 DEF HeldInTime
      <3>4. LimitersInTime'
        <4>1. \A d \in Clients : limiterOf[d] # NoLimiter =>
                 last[limiterOf[d]] <= lastSeen'[d] + MaxDelay
          <5>1. \A d \in Clients : lastSeen[d] <= lastSeen'[d] /\ lastSeen'[d] \in Nat
            BY <3>2a
          <5> QED
            BY <3>2a, <5>1 DEF IInv, LimitersInTime
        <4>2. \A d \in Clients : lastSeen'[d] <= now
          BY <3>2a, SeenInTime
        <4> QED
          BY <2>2, <3>1, <4>1, <4>2 DEF IInv, LimitersInTime
      <3> QED
        BY <3>2, <3>3, <3>4 DEF IInv
    <2>4. CASE limiterOf[c] = NoLimiter
      <3>1. /\ made' = made + 1 /\ made < MaxLimiters
            /\ limiterOf' = [limiterOf EXCEPT ![c] = made + 1]
        BY <1>3, <2>4 DEF GetLimiter, MadeAfter
      <3>2. TypeOK'
        BY <2>1, <2>2, <3>1 DEF IInv, TypeOK
      <3>3. OwnLimiter'
        BY <2>1, <2>2, <3>1 DEF IInv, TypeOK, OwnLimiter
      <3>4. HeldInTime'
        BY <2>1, <2>2, <2>4, <3>1 DEF IInv, TypeOK, HeldInTime
      <3>5. LimitersInTime'
        <4>1. \A d \in Clients : limiterOf'[d] # NoLimiter =>
                 last[limiterOf'[d]] <= lastSeen'[d] + MaxDelay
          <5>1. made + 1 \in Limiters
            BY <3>1 DEF IInv, TypeOK
          <5>2. last[made + 1] <= now /\ last[made + 1] \in Nat /\ now \in Nat
            BY <5>1, SeenInTime DEF IInv, TypeOK
          <5>3. \A d \in Clients \ {c} :
                  limiterOf'[d] = limiterOf[d] /\ lastSeen'[d] = lastSeen[d]
            BY <2>1, <2>2, <3>1 DEF IInv, TypeOK
          <5>4. limiterOf'[c] = made + 1 /\ lastSeen'[c] = now
            BY <2>1, <2>2, <3>1 DEF IInv, TypeOK
          <5>5. last[made + 1] <= now + MaxDelay
            BY <5>2
          <5> QED
            BY <5>3, <5>4, <5>5 DEF IInv, LimitersInTime
        <4>2. \A d \in Clients : lastSeen'[d] <= now
          BY <2>1, <2>2, SeenInTime, SMTT(30) DEF IInv, TypeOK
        <4>3. \A k \in Limiters : last[k] <= now /\ (k > made' => tokens[k] = Burst)
          <5>1. \A k \in Limiters : k > made + 1 => k > made
            BY DEF IInv, TypeOK
          <5> QED
            BY <3>1, <5>1, SeenInTime DEF IInv, LimitersInTime
        <4> QED
          BY <2>2, <4>1, <4>2, <4>3 DEF LimitersInTime
      <3> QED
        BY <3>2, <3>3, <3>4, <3>5 DEF IInv
    <2> QED
      BY <2>3, <2>4
  <1>4. ASSUME NEW r \in Requests, Allow(r) PROVE IInv'
    <2> DEFINE c == ClientOf[r]
               l == held[r]
    <2>1. /\ c \in Clients /\ l \in Limiters /\ l = limiterOf[c] /\ l <= made
          /\ since[r] <= lastSeen[c] /\ now <= since[r] + MaxDelay
      BY <1>4 DEF Allow, IInv, TypeOK, HeldInTime, OwnLimiter
    <2>2. /\ held' = [held EXCEPT ![r] = NoLimiter]
          /\ UNCHANGED <<now, limiterOf, lastSeen, made, since>>
      BY <1>4 DEF Allow
    <2>3. Available(l) \in 0 .. Burst
      BY <2>1, AvailableType
    <2>4. CASE Available(l) >= 1
      <3>1. /\ tokens' = [tokens EXCEPT ![l] = Available(l) - 1]
            /\ last' = [last EXCEPT ![l] = now]
            /\ served' = [served EXCEPT ![c] = served[c] + 1]
        BY <1>4, <2>4 DEF Allow
      <3>2. TypeOK'
        <4>1. /\ Available(l) - 1 \in 0 .. Burst /\ now \in Nat
              /\ tokens \in [Limiters -> 0 .. Burst] /\ last \in [Limiters -> Nat]
              /\ served \in [Clients -> Nat] /\ served[c] + 1 \in Nat
          BY <2>1, <2>3, <2>4, SMTT(30) DEF IInv, TypeOK
        <4>2. /\ tokens' \in [Limiters -> 0 .. Burst] /\ last' \in [Limiters -> Nat]
              /\ served' \in [Clients -> Nat]
          BY <2>1, <3>1, <4>1
        <4>3. held' \in [Requests -> {NoLimiter} \cup Limiters]
          BY <2>2 DEF IInv, TypeOK
        <4> QED
          BY <2>2, <4>2, <4>3 DEF IInv, TypeOK
      <3>3. HeldInTime' /\ OwnLimiter'
        BY <2>2 DEF IInv, TypeOK, HeldInTime, OwnLimiter
      <3>4. now <= lastSeen[c] + MaxDelay
        BY <2>1 DEF IInv, TypeOK
      <3>5. \A d \in Clients :
               limiterOf'[d] # NoLimiter => last'[limiterOf'[d]] <= lastSeen'[d] + MaxDelay
        <4>1. last \in [Limiters -> Nat] /\ \A d \in Clients :
                 limiterOf[d] # NoLimiter => limiterOf[d] \in Limiters
          BY DEF IInv, TypeOK
        <4>2. \A d \in Clients \ {c} : limiterOf[d] # l
          BY <2>1 DEF IInv, OwnLimiter
        <4>3. \A k \in Limiters \ {l} : last'[k] = last[k]
          BY <3>1, <4>1
        <4>4. last'[l] = now
          BY <2>1, <3>1, <4>1
        <4> QED
          BY <2>1, <2>2, <3>4, <4>1, <4>2, <4>3, <4>4 DEF IInv, LimitersInTime
      <3>6. LimitersInTime'
        <4>1. \A k \in Limiters : last'[k] <= now /\ (k > made => tokens'[k] = Burst)
          <5>1. last \in [Limiters -> Nat] /\ tokens \in [Limiters -> 0 .. Burst]
                /\ now \in Nat /\ made \in Nat /\ l \in Nat
            BY <2>1 DEF IInv, TypeOK
          <5>2. ~(l > made)
            BY <2>1, <5>1
          <5>3. \A k \in Limiters : k # l => last'[k] = last[k] /\ tokens'[k] = tokens[k]
            BY <3>1, <5>1
          <5>4. last'[l] = now
            BY <2>1, <3>1, <5>1
          <5>5. \A k \in Limiters : last[k] <= now /\ (k > made => tokens[k] = Burst)
            BY DEF IInv, LimitersInTime
          <5>6. now <= now
            BY <5>1
          <5> QED
            BY <5>2, <5>3, <5>4, <5>5, <5>6
        <4> QED
          BY <2>2, <3>5, <4>1 DEF IInv, LimitersInTime
      <3> QED
        BY <3>2, <3>3, <3>6 DEF IInv
    <2>5. CASE ~(Available(l) >= 1)
      <3>1. UNCHANGED <<tokens, last, served>>
        BY <1>4, <2>5 DEF Allow
      <3>2. TypeOK' /\ HeldInTime'
        BY <2>2, <3>1 DEF IInv, TypeOK, HeldInTime
      <3>3. OwnLimiter' /\ LimitersInTime'
        BY <2>2, <3>1 DEF IInv, OwnLimiter, LimitersInTime
      <3> QED
        BY <3>2, <3>3 DEF IInv
    <2> QED
      BY <2>4, <2>5
  <1>5. CASE UNCHANGED vars
    <2>1. TypeOK' /\ HeldInTime'
      BY <1>5 DEF vars, IInv, TypeOK, HeldInTime
    <2>2. OwnLimiter' /\ LimitersInTime'
      BY <1>5 DEF vars, IInv, OwnLimiter, LimitersInTime
    <2> QED
      BY <2>1, <2>2 DEF IInv
  <1> QED
    BY <1>1, <1>2, <1>3, <1>4, <1>5 DEF Next

LEMMA Invariance == Spec => []IInv
  BY InitInv, StepInv, PTL DEF Spec

\* A request never asks a limiter that is no longer in the visitors map.
THEOREM HeldLimiterIsCurrent == Spec => []HeldIsCurrent
  <1>1. IInv => HeldIsCurrent
    BY DEF IInv, HeldInTime, HeldIsCurrent
  <1> QED
    BY <1>1, Invariance, PTL

-----------------------------------------------------------------------------
(***************************************************************************)
(* The refinement: Tick refills every bucket, the Allow of a served        *)
(* request takes a token of its client, and every other step leaves all    *)
(* levels as they are.                                                     *)
(***************************************************************************)

LEMMA LevelType ==
    ASSUME IInv, NEW c \in Clients
    PROVE  Level(c) \in 0 .. Burst
  <1>1. limiterOf[c] # NoLimiter => limiterOf[c] \in Limiters
    BY DEF IInv, TypeOK
  <1> QED
    BY <1>1, AvailableType DEF Level

LEMMA InitRefines == Init => Bucket!Init
  <1> SUFFICES ASSUME Init PROVE Bucket!Init
    OBVIOUS
  <1>1. \A c \in Clients : Level(c) = Burst
    BY DEF Init, Level
  <1> QED
    BY <1>1 DEF Init, Bucket!Init, Levels

LEMMA TickRefines == IInv /\ Tick => Bucket!Tick
  <1> SUFFICES ASSUME IInv, Tick PROVE Bucket!Tick
    OBVIOUS
  <1>1. /\ now' = now + 1 /\ now \in Nat
        /\ UNCHANGED <<limiterOf, tokens, last, served>>
    BY DEF Tick, IInv, TypeOK, visitorVars, limiterVars, requestVars
  <1>2. ASSUME NEW c \in Clients PROVE Level(c)' = Bucket!Refill(Level(c))
    <2>1. CASE limiterOf[c] = NoLimiter
      BY <1>1, <2>1 DEF Level, Bucket!Refill
    <2>2. CASE limiterOf[c] # NoLimiter
      <3>1. PICK l \in Limiters : l = limiterOf[c]
        BY <2>2 DEF IInv, TypeOK
      <3>2. tokens[l] \in 0 .. Burst /\ last[l] \in Nat /\ last[l] <= now
        BY <3>1, SeenInTime DEF IInv, TypeOK
      <3>3. Available(l)' = IF tokens[l] + (now + 1 - last[l]) < Burst
                            THEN tokens[l] + (now + 1 - last[l]) ELSE Burst
        BY <1>1, <3>2 DEF Available
      <3>4. Available(l)' = Bucket!Refill(Available(l))
        BY <1>1, <3>2, <3>3 DEF Available, Bucket!Refill
      <3>5. Level(c) = Available(l) /\ Level(c)' = Available(l)'
        BY <1>1, <2>2, <3>1 DEF Level
      <3> QED
        BY <3>4, <3>5
    <2> QED
      BY <2>1, <2>2
  <1>3. Levels' = [c \in Clients |-> Bucket!Refill(Levels[c])]
    BY <1>2 DEF Levels
  <1> QED
    BY <1>1, <1>3 DEF Bucket!Tick

LEMMA CleanupRefines == IInv /\ Cleanup => UNCHANGED Bucket!vars
  <1> SUFFICES ASSUME IInv, Cleanup PROVE UNCHANGED Bucket!vars
    OBVIOUS
  <1>1. UNCHANGED <<now, tokens, last, served>>
    BY DEF Cleanup, limiterVars
  <1>2. ASSUME NEW c \in Clients PROVE Level(c)' = Level(c)
    <2>1. CASE Expired(c)
      <3>1. limiterOf'[c] = NoLimiter
        BY <2>1 DEF Cleanup
      <3>2. Level(c) = Burst
        BY <2>1, ExpiredIsFull DEF Level
      <3> QED
        BY <3>1, <3>2 DEF Level
    <2>2. CASE ~Expired(c)
      <3>1. limiterOf'[c] = limiterOf[c]
        BY <2>2 DEF Cleanup
      <3> QED
        BY <1>1, <3>1 DEF Level, Available
    <2> QED
      BY <2>1, <2>2
  <1> QED
    BY <1>1, <1>2 DEF Bucket!vars, Levels

LEMMA GetLimiterRefines ==
    ASSUME IInv, NEW r \in Requests, GetLimiter(r)
    PROVE  UNCHANGED Bucket!vars
  <1> DEFINE c == ClientOf[r]
  <1>1. c \in Clients /\ UNCHANGED <<now, tokens, last, served>>
    BY DEF GetLimiter, limiterVars
  <1>2. limiterOf' = [limiterOf EXCEPT ![c] =
                         IF limiterOf[c] # NoLimiter THEN @ ELSE made + 1]
        /\ (limiterOf[c] # NoLimiter \/ made < MaxLimiters)
    BY DEF GetLimiter
  <1>3. limiterOf \in [Clients -> {NoLimiter} \cup Limiters] /\ made \in Nat
    BY DEF IInv, TypeOK
  <1>4. ASSUME NEW d \in Clients, limiterOf'[d] = limiterOf[d]
        PROVE  Level(d)' = Level(d)
    BY <1>1, <1>4 DEF Level, Available
  <1>5. ASSUME limiterOf[c] = NoLimiter PROVE Level(c)' = Level(c)
    <2>1. limiterOf'[c] = made + 1 /\ made + 1 \in Limiters /\ made + 1 # NoLimiter
      BY <1>1, <1>2, <1>3, <1>5 DEF Limiters, NoLimiter
    <2>2. /\ tokens[made + 1] = Burst /\ last[made + 1] \in Nat
          /\ last[made + 1] <= now /\ now \in Nat
      BY <1>3, <2>1, SeenInTime DEF IInv, TypeOK, LimitersInTime
    <2>3. Level(c)' = Available(made + 1)
      BY <1>1, <2>1 DEF Level, Available
    <2> QED
      BY <1>5, <2>2, <2>3 DEF Level, Available
  <1>6. \A d \in Clients : Level(d)' = Level(d)
    BY <1>1, <1>2, <1>3, <1>4, <1>5
  <1> QED
    BY <1>1, <1>6 DEF Bucket!vars, Levels

LEMMA AllowRefines ==
    ASSUME IInv, NEW r \in Requests, Allow(r)
    PROVE  Bucket!Serve(ClientOf[r]) \/ UNCHANGED Bucket!vars
  <1> DEFINE c == ClientOf[r]
  <1>0. PICK l \in Limiters : l = held[r]
    BY DEF Allow, IInv, TypeOK
  <1>1. /\ c \in Clients /\ l = limiterOf[c] /\ l # NoLimiter
        /\ UNCHANGED <<now, limiterOf>>
    BY <1>0 DEF Allow, IInv, TypeOK, HeldInTime, visitorVars
  <1>2. Available(l) \in 0 .. Burst /\ Level(c) = Available(l)
    BY <1>1, AvailableType DEF Level
  <1>3. CASE Available(l) >= 1
    <2>1. /\ tokens' = [tokens EXCEPT ![l] = Available(l) - 1]
          /\ last' = [last EXCEPT ![l] = now]
          /\ served' = [served EXCEPT ![c] = @ + 1]
      BY <1>0, <1>3 DEF Allow
    <2>2. /\ tokens \in [Limiters -> 0 .. Burst] /\ last \in [Limiters -> Nat]
          /\ now \in Nat
      BY DEF IInv, TypeOK
    <2>3. Level(c)' = Level(c) - 1
      <3>1. tokens'[l] = Available(l) - 1 /\ last'[l] = now
        BY <1>1, <2>1, <2>2
      <3>2. Available(l)' = Available(l) - 1
        BY <1>1, <1>2, <1>3, <2>2, <3>1 DEF Available
      <3>3. Level(c)' = Available(l)'
        BY <1>1 DEF Level, Available
      <3> QED
        BY <1>2, <3>2, <3>3
    <2>4. ASSUME NEW d \in Clients \ {c} PROVE Level(d)' = Level(d)
      <3>1. CASE limiterOf[d] = NoLimiter
        BY <1>1, <3>1 DEF Level
      <3>2. CASE limiterOf[d] # NoLimiter
        <4> DEFINE m == limiterOf[d]
        <4>1. m # l /\ m \in Limiters
          BY <1>1, <3>2 DEF IInv, TypeOK, OwnLimiter
        <4>2. tokens'[m] = tokens[m] /\ last'[m] = last[m]
          BY <2>1, <2>2, <4>1
        <4> QED
          BY <1>1, <3>2, <4>2 DEF Level, Available
      <3> QED
        BY <3>1, <3>2
    <2>5. Levels' = [Levels EXCEPT ![c] = @ - 1] /\ Levels[c] >= 1
      BY <1>1, <1>2, <1>3, <2>3, <2>4 DEF Levels
    <2> QED
      BY <1>1, <2>1, <2>5 DEF Bucket!Serve
  <1>4. CASE ~(Available(l) >= 1)
    <2>1. UNCHANGED <<tokens, last, served>>
      BY <1>0, <1>4 DEF Allow, limiterVars
    <2>2. \A d \in Clients : Level(d)' = Level(d)
      BY <1>1, <2>1 DEF Level, Available
    <2> QED
      BY <1>1, <2>1, <2>2 DEF Bucket!vars, Levels
  <1> QED
    BY <1>3, <1>4

LEMMA StepRefines == IInv /\ [Next]_vars => [Bucket!Next]_(Bucket!vars)
  <1> SUFFICES ASSUME IInv, [Next]_vars PROVE [Bucket!Next]_(Bucket!vars)
    OBVIOUS
  <1>1. CASE Tick
    BY <1>1, TickRefines DEF Bucket!Next
  <1>2. CASE Cleanup
    BY <1>2, CleanupRefines
  <1>3. ASSUME NEW r \in Requests, GetLimiter(r) PROVE UNCHANGED Bucket!vars
    BY <1>3, GetLimiterRefines
  <1>4. ASSUME NEW r \in Requests, Allow(r) PROVE [Bucket!Next]_(Bucket!vars)
    BY <1>4, AllowRefines DEF Bucket!Next
  <1>5. CASE UNCHANGED vars
    <2>1. \A d \in Clients : Level(d)' = Level(d)
      BY <1>5 DEF vars, visitorVars, limiterVars, Level, Available
    <2> QED
      BY <1>5, <2>1 DEF vars, Bucket!vars, Levels
  <1> QED
    BY <1>1, <1>2, <1>3, <1>4, <1>5 DEF Next

\* The limiter, whose visitors the cleanup loop drops, serves each client as a
\* bucket that is never dropped would.
THEOREM LimiterActsAsBucket == Spec => ActsAsBucket
  <1>1. Init => Bucket!Init
    BY InitRefines
  <1>2. IInv /\ [Next]_vars => [Bucket!Next]_(Bucket!vars)
    BY StepRefines
  <1> QED
    BY <1>1, <1>2, Invariance, PTL DEF Spec, ActsAsBucket, Bucket!Spec

-----------------------------------------------------------------------------
(* What a client has left and what it got through never exceed what its    *)
(* bucket has been given: the burst and a token per unit of time.          *)
Budget == \A c \in Clients : served[c] + Levels[c] <= Burst + now

LEMMA BudgetStep ==
    IInv /\ IInv' /\ Budget /\ [Bucket!Next]_(Bucket!vars) => Budget'
  <1> SUFFICES ASSUME IInv, IInv', Budget, [Bucket!Next]_(Bucket!vars),
                      NEW c \in Clients
               PROVE  served'[c] + Levels'[c] <= Burst + now'
    BY DEF Budget
  <1>1. /\ now \in Nat /\ served \in [Clients -> Nat] /\ Burst \in Nat
        /\ Levels \in [Clients -> 0 .. Burst]
        /\ served[c] + Levels[c] <= Burst + now
    BY LevelType DEF IInv, TypeOK, Levels, Budget
  <1>2. CASE Bucket!Tick
    BY <1>1, <1>2 DEF Bucket!Tick, Bucket!Refill
  <1>3. ASSUME NEW d \in Clients, Bucket!Serve(d)
        PROVE  served'[c] + Levels'[c] <= Burst + now'
    BY <1>1, <1>3 DEF Bucket!Serve
  <1>4. CASE UNCHANGED Bucket!vars
    BY <1>1, <1>4 DEF Bucket!vars
  <1> QED
    BY <1>2, <1>3, <1>4 DEF Bucket!Next

\* However its visitor entry is dropped and made again, a client never gets more
\* than the burst and one request per unit of time through the middleware.
THEOREM RateIsBounded == Spec => []RateBounded
  <1>1. Init => Budget
    BY InitRefines DEF Init, Budget, Bucket!Init
  <1>2. IInv /\ IInv' /\ Budget /\ [Next]_vars => Budget'
    BY StepRefines, BudgetStep
  <1>3. IInv /\ Budget => RateBounded
    BY LevelType DEF IInv, TypeOK, Levels, Budget, RateBounded
  <1> QED
    BY <1>1, <1>2, <1>3, Invariance, PTL DEF Spec
=============================================================================
