--------------------------- MODULE ServicesProofs ---------------------------
(* Presence, Challenges and GameSessions, for any users, keys, sockets,    *)
(* challenges, handlers and times.                                         *)
EXTENDS MCServices, RateLimiterProofs, FiniteSetTheorems, SlicesProofs

-----------------------------------------------------------------------------
(* Presence: types.                                                        *)

\* A process that is in an operation knows its user.
BusyHasUser == \A p \in Procs : at[p] = NoJob \/ at[p].user \in Users

PInv == PTypeOK /\ BusyHasUser

\* What the processes and the bookkeeping contribute to PInv.
ProcsOK ==
    /\ at \in [Procs -> Jobs] /\ BusyHasUser
    /\ todo \subseteq Users /\ issued \subseteq Keys /\ fails \in 0 .. MaxFails
    /\ crossed \in [Users -> BOOLEAN]

\* And what the keys in Redis do.
RedisOK ==
    /\ sessionUser \in [Keys -> Users \cup {NoUser}]
    /\ sessionLeft \in [Keys -> 0 .. TTL]
    /\ userKey \in [Users -> Keys \cup {NoKey}] /\ userLeft \in [Users -> 0 .. TTL]
    /\ online \subseteq Users /\ activity \in [Users -> Absent .. (MaxAge + Second)]
    /\ phase \in 0 .. (Second - 1)

LEMMA Parts == PInv <=> ProcsOK /\ RedisOK
  BY DEF PInv, PTypeOK, ProcsOK, RedisOK

LEMMA NoJobType == NoJob \in Jobs /\ NoJob.pc = "idle"
  BY DEF NoJob, Jobs, PCs

LEMMA PInitInv == PInit => PInv
  <1> SUFFICES ASSUME PInit PROVE PInv
    OBVIOUS
  <1>1. ProcsOK
    BY NoJobType, PresenceAssumption DEF PInit, ProcsOK, BusyHasUser
  <1>2. RedisOK
    BY PresenceAssumption DEF PInit, RedisOK, Absent
  <1> QED
    BY <1>1, <1>2, Parts

\* A command that is sent leaves its process with its user, or idle.
LEMMA SendType ==
    ASSUME NEW p \in Procs, NEW cmd, cmd # "idle", NEW next \in PCs, ProcsOK,
           Send(p, cmd, next)
    PROVE  ProcsOK' /\ at[p] \in Jobs /\ at[p].user \in Users /\ phase' = phase
  <1>1. at[p] \in Jobs /\ at[p].pc = cmd /\ phase' = phase
    BY DEF Send, ProcsOK
  <1>2. at[p].user \in Users
    BY <1>1, NoJobType DEF ProcsOK, BusyHasUser
  <1>3. [at[p] EXCEPT !.pc = next] \in Jobs
        /\ [at[p] EXCEPT !.pc = next].user = at[p].user
    BY <1>1 DEF Jobs
  <1>4. at' \in [Procs -> Jobs] /\ BusyHasUser'
    BY <1>2, <1>3, NoJobType DEF Send, ProcsOK, BusyHasUser
  <1> QED
    BY <1>1, <1>2, <1>4 DEF Send, ProcsOK, history

\* An operation starts with a user.
LEMMA StartType ==
    ASSUME NEW p \in Procs, NEW cmd \in PCs, NEW u \in Users,
           NEW k \in Keys \cup {NoKey}, NEW out \in BOOLEAN, ProcsOK,
           Start(p, cmd, u, k, out)
    PROVE  at' \in [Procs -> Jobs] /\ BusyHasUser'
  <1> DEFINE job == [pc |-> cmd, user |-> u, key |-> k, logout |-> out]
  <1>1. job \in Jobs /\ job.user = u
    BY DEF Jobs
  <1> HIDE DEF job
  <1>2. at' = [at EXCEPT ![p] = job]
    BY DEF Start, job
  <1> QED
    BY <1>1, <1>2 DEF ProcsOK, BusyHasUser

\* Every command leaves the processes in order and Redis typed.
LEMMA CommandInv ==
    ASSUME ProcsOK, RedisOK, NEW p \in Procs, Command(p)
    PROVE  ProcsOK' /\ RedisOK'
  <1> USE DEF RedisOK
  <1>0. TTL \in 0 .. TTL /\ 0 \in 0 .. TTL /\ 0 \in Absent .. (MaxAge + Second)
        /\ Absent \in Absent .. (MaxAge + Second)
    BY PresenceAssumption DEF Absent
  <1>1. CASE SetKey(p)
    BY <1>0, <1>1, SendType DEF SetKey, PCs
  <1>2. CASE SetUserKey(p)
    <2>1. ProcsOK' /\ at[p] \in Jobs /\ at[p].user \in Users /\ phase' = phase
      BY <1>2, SendType DEF SetUserKey, PCs
    <2>2. at[p].key \in Keys \cup {NoKey}
      BY <2>1 DEF Jobs
    <2> QED
      BY <1>0, <1>2, <2>1, <2>2 DEF SetUserKey
  <1>3. CASE HSetOnline(p)
    BY <1>3, SendType DEF HSetOnline, PCs
  <1>4. CASE ZAddActivity(p)
    <2>1. PICK next \in {"lookup", "idle"} : Send(p, "zadd", next)
      BY <1>4 DEF ZAddActivity
    <2> QED
      BY <1>0, <1>4, <2>1, SendType DEF ZAddActivity, PCs
  <1>5. CASE ExpireKey(p)
    BY <1>0, <1>5, SendType DEF ExpireKey, Refresh, PCs
  <1>6. CASE ExpireUserKey(p)
    BY <1>0, <1>6, SendType DEF ExpireUserKey, PCs
  <1>7. CASE LookupSession(p)
    <2>1. PICK next \in {"delGone", "del"} : Send(p, "lookup", next)
      BY <1>7 DEF LookupSession
    <2> QED
      BY <1>7, <2>1, SendType DEF LookupSession, PCs, redis
  <1>8. CASE DelKey(p)
    <2>1. PICK cmd \in {"del", "delGone"}, next \in {"delUser", "idle"} :
             Send(p, cmd, next)
      BY <1>8 DEF DelKey
    <2> QED
      BY <1>0, <1>8, <2>1, SendType DEF DelKey, PCs
  <1>9. CASE DelUserKey(p)
    BY <1>0, <1>9, SendType DEF DelUserKey, PCs
  <1>10. CASE HDelOnline(p)
    BY <1>10, SendType DEF HDelOnline, PCs
  <1>11. CASE ZRemActivity(p)
    BY <1>0, <1>11, SendType DEF ZRemActivity, PCs
  <1> QED
    BY <1>1, <1>2, <1>3, <1>4, <1>5, <1>6, <1>7, <1>8, <1>9, <1>10, <1>11
       DEF Command

LEMMA TickInv ==
    ASSUME ProcsOK, RedisOK, TimePasses
    PROVE  ProcsOK' /\ RedisOK'
  <1>1. ProcsOK'
    BY DEF TimePasses, ProcsOK, BusyHasUser, history
  <1>2. sessionLeft' \in [Keys -> 0 .. TTL] /\ userLeft' \in [Users -> 0 .. TTL]
    BY PresenceAssumption DEF TimePasses, RedisOK
  <1>3. sessionUser' \in [Keys -> Users \cup {NoUser}]
        /\ userKey' \in [Users -> Keys \cup {NoKey}]
    BY DEF TimePasses, RedisOK
  <1>4. activity' \in [Users -> Absent .. (MaxAge + Second)]
    BY PresenceAssumption DEF TimePasses, RedisOK, Absent
  <1>5. phase' \in 0 .. (Second - 1) /\ online' \subseteq Users
    BY PresenceAssumption DEF TimePasses, RedisOK
  <1> QED
    BY <1>1, <1>2, <1>3, <1>4, <1>5 DEF RedisOK

LEMMA PStepInv == PInv /\ [PNext]_pvars => PInv'
  <1> SUFFICES ASSUME ProcsOK, RedisOK, [PNext]_pvars
               PROVE  ProcsOK' /\ RedisOK'
    BY Parts DEF PInv, PTypeOK, ProcsOK, RedisOK
  <1> USE DEF redis, history
  <1>1. ASSUME NEW r \in Slots, NEW k \in Keys, NEW u \in Users, Login(r, u, k)
        PROVE  ProcsOK' /\ RedisOK'
    <2>1. at' \in [Procs -> Jobs] /\ BusyHasUser'
      BY <1>1, StartType DEF Login, Procs, PCs
    <2>2. crossed' \in [Users -> BOOLEAN]
      BY <1>1 DEF Login, ProcsOK, Crossing
    <2> QED
      BY <1>1, <2>1, <2>2 DEF Login, ProcsOK, RedisOK
  <1>2. ASSUME NEW r \in Slots, NEW k \in Keys, NEW logout \in BOOLEAN,
               Authorized(r, k, logout)
        PROVE  ProcsOK' /\ RedisOK'
    <2>1. sessionUser[k] \in Users
      BY <1>2 DEF Authorized, RedisOK
    <2>2. at' \in [Procs -> Jobs] /\ BusyHasUser'
      BY <1>2, <2>1, StartType DEF Authorized, Procs, PCs
    <2>3. crossed' \in [Users -> BOOLEAN]
      BY <1>2, <2>1 DEF Authorized, ProcsOK, Crossing
    <2> QED
      BY <1>2, <2>2, <2>3 DEF Authorized, ProcsOK, RedisOK
  <1>3. CASE ListStale
    <2>1. crossed' \in [Users -> BOOLEAN]
      BY <1>3 DEF ListStale, ProcsOK, Crossing
    <2> QED
      BY <1>3, <2>1 DEF ListStale, ProcsOK, RedisOK, BusyHasUser
  <1>4. ASSUME NEW u \in Users, PurgeNext(u)
        PROVE  ProcsOK' /\ RedisOK'
    <2>1. at' \in [Procs -> Jobs] /\ BusyHasUser'
      <3>1. PICK cmd \in {"delUser", "del"} : Start(Cleaner, cmd, u, userKey[u], TRUE)
        BY <1>4 DEF PurgeNext
      <3>2. userKey[u] \in Keys \cup {NoKey} /\ Cleaner \in Procs
        BY DEF RedisOK, Procs
      <3> QED
        BY <3>1, <3>2, StartType DEF PCs
    <2> QED
      BY <1>4, <2>1 DEF PurgeNext, ProcsOK, RedisOK
  <1>5. ASSUME NEW p \in Procs, Fail(p)
        PROVE  ProcsOK' /\ RedisOK'
    <2>1. at' \in [Procs -> Jobs] /\ BusyHasUser'
      BY <1>5, NoJobType DEF Fail, ProcsOK, BusyHasUser
    <2>2. crossed' \in [Users -> BOOLEAN] /\ fails' \in 0 .. MaxFails
          /\ todo' \subseteq Users
      BY <1>5, PresenceAssumption DEF Fail, ProcsOK
    <2> QED
      BY <1>5, <2>1, <2>2 DEF Fail, ProcsOK, RedisOK
  <1>6. CASE UNCHANGED pvars
    BY <1>6 DEF pvars, ProcsOK, RedisOK, BusyHasUser
  <1> QED
    BY <1>1, <1>2, <1>3, <1>4, <1>5, <1>6, CommandInv, TickInv DEF PNext, PurgeInactive

\* Every variable stays in its type, for any users, keys, requests and times
\* (all of redis_cache.go's operations).
THEOREM PresenceTypeCorrect == PSpec => []PTypeOK
  <1>1. PInit => PInv
    BY PInitInv
  <1>2. PInv /\ [PNext]_pvars => PInv'
    BY PStepInv
  <1>3. PInv => PTypeOK
    BY DEF PInv
  <1> QED
    BY <1>1, <1>2, <1>3, PTL DEF PSpec

-----------------------------------------------------------------------------
(* A session that ended stays dead.                                        *)

\* No process is about to store k.
Unset(k) == \A p \in Procs : ~(at[p].pc = "set" /\ at[p].key = k)

\* A command is followed by one that stores no session.
LEMMA SendUnset ==
    ASSUME NEW p \in Procs, NEW cmd, cmd # "idle", NEW next \in PCs \ {"set"},
           ProcsOK, Send(p, cmd, next), NEW k, Unset(k)
    PROVE  Unset(k)' /\ issued' = issued
  <1>1. at[p] \in Jobs
    BY DEF ProcsOK
  <1>2. [at[p] EXCEPT !.pc = next].pc = next
    BY <1>1 DEF Jobs
  <1>3. at'[p].pc # "set" /\ \A q \in Procs \ {p} : at'[q] = at[q]
    BY <1>2, NoJobType DEF Send, ProcsOK
  <1> QED
    BY <1>3 DEF Unset, Send, history

\* An operation that stores no session starts.
LEMMA StartUnset ==
    ASSUME NEW p \in Procs, NEW cmd \in PCs, NEW u, NEW j, NEW out, ProcsOK,
           Start(p, cmd, u, j, out), NEW k, Unset(k), cmd # "set" \/ j # k
    PROVE  Unset(k)'
  <1>1. /\ at'[p].pc = cmd /\ at'[p].key = j
        /\ \A q \in Procs \ {p} : at'[q] = at[q]
    BY DEF Start, ProcsOK
  <1> QED
    BY <1>1 DEF Unset

\* Each command leaves a dead session dead: only SetKey stores one, and its key
\* is not dead.
LEMMA CommandDead ==
    ASSUME ProcsOK, RedisOK, NEW k \in Keys, Dead(k),
           NEW p \in Procs, Command(p)
    PROVE  Dead(k)'
  <1>1. k \in issued /\ sessionUser[k] = NoUser /\ Unset(k)
    BY DEF Dead, Unset
  <1>2. SUFFICES sessionUser'[k] = NoUser /\ Unset(k)' /\ issued' = issued
    BY <1>1 DEF Dead, Unset
  <1>3. CASE SetKey(p)
    <2>1. at[p].key # k /\ Unset(k)' /\ issued' = issued
      BY <1>1, <1>3, SendUnset DEF SetKey, Send, Unset, PCs
    <2> QED
      BY <1>1, <1>3, <2>1 DEF SetKey, RedisOK
  <1>4. CASE SetUserKey(p)
    BY <1>1, <1>4, SendUnset DEF SetUserKey, PCs
  <1>5. CASE HSetOnline(p)
    BY <1>1, <1>5, SendUnset DEF HSetOnline, PCs
  <1>6. CASE ZAddActivity(p)
    <2>1. PICK next \in {"lookup", "idle"} : Send(p, "zadd", next)
      BY <1>6 DEF ZAddActivity
    <2> QED
      BY <1>1, <1>6, <2>1, SendUnset DEF ZAddActivity, PCs
  <1>7. CASE ExpireKey(p)
    BY <1>1, <1>7, SendUnset DEF ExpireKey, Refresh, PCs
  <1>8. CASE ExpireUserKey(p)
    BY <1>1, <1>8, SendUnset DEF ExpireUserKey, PCs
  <1>9. CASE LookupSession(p)
    <2>1. PICK next \in {"delGone", "del"} : Send(p, "lookup", next)
      BY <1>9 DEF LookupSession
    <2> QED
      BY <1>1, <1>9, <2>1, SendUnset DEF LookupSession, PCs, redis
  <1>10. CASE DelKey(p)
    <2>1. PICK cmd \in {"del", "delGone"}, next \in {"delUser", "idle"} :
             Send(p, cmd, next)
      BY <1>10 DEF DelKey
    <2>2. sessionUser'[k] = NoUser
      BY <1>1, <1>10 DEF DelKey, RedisOK
    <2> QED
      BY <1>1, <2>1, <2>2, SendUnset DEF PCs
  <1>11. CASE DelUserKey(p)
    BY <1>1, <1>11, SendUnset DEF DelUserKey, PCs
  <1>12. CASE HDelOnline(p)
    BY <1>1, <1>12, SendUnset DEF HDelOnline, PCs
  <1>13. CASE ZRemActivity(p)
    BY <1>1, <1>13, SendUnset DEF ZRemActivity, PCs
  <1> QED
    BY <1>3, <1>4, <1>5, <1>6, <1>7, <1>8, <1>9, <1>10, <1>11, <1>12, <1>13
       DEF Command

LEMMA StepDead ==
    ASSUME PInv, [PNext]_pvars, NEW k \in Keys, Dead(k)
    PROVE  Dead(k)'
  <1>1. ProcsOK /\ RedisOK /\ k \in issued /\ sessionUser[k] = NoUser /\ Unset(k)
    BY Parts DEF Dead, Unset
  <1>2. ASSUME k \in issued', sessionUser'[k] = NoUser, Unset(k)'
        PROVE  Dead(k)'
    BY <1>2 DEF Dead, Unset
  <1> USE DEF redis, history
  <1>3. ASSUME NEW r \in Slots, NEW j \in Keys, NEW u \in Users, Login(r, u, j)
        PROVE  Dead(k)'
    BY <1>1, <1>2, <1>3, StartUnset DEF Login, Procs, PCs
  <1>4. ASSUME NEW r \in Slots, NEW j \in Keys, NEW logout \in BOOLEAN,
               Authorized(r, j, logout)
        PROVE  Dead(k)'
    BY <1>1, <1>2, <1>4, StartUnset DEF Authorized, Procs, PCs
  <1>5. CASE ListStale
    BY <1>1, <1>2, <1>5 DEF ListStale, Unset
  <1>6. ASSUME NEW u \in Users, PurgeNext(u)
        PROVE  Dead(k)'
    <2>1. PICK cmd \in {"delUser", "del"} : Start(Cleaner, cmd, u, userKey[u], TRUE)
      BY <1>6 DEF PurgeNext
    <2> QED
      BY <1>1, <1>2, <1>6, <2>1, StartUnset DEF PurgeNext, Procs, PCs
  <1>7. ASSUME NEW p \in Procs, Fail(p)
        PROVE  Dead(k)'
    <2>1. at'[p].pc = "idle" /\ \A q \in Procs \ {p} : at'[q] = at[q]
      BY <1>1, <1>7, NoJobType DEF Fail, ProcsOK
    <2> QED
      BY <1>1, <1>2, <1>7, <2>1 DEF Fail, Unset
  <1>8. CASE TimePasses
    BY <1>1, <1>2, <1>8 DEF TimePasses, Unset
  <1>9. CASE UNCHANGED pvars
    BY <1>1, <1>2, <1>9 DEF pvars, Unset
  <1> QED
    BY <1>1, <1>3, <1>4, <1>5, <1>6, <1>7, <1>8, <1>9, CommandDead
       DEF PNext, PurgeInactive

\* A session that was deleted or has expired authorizes nobody again, whatever
\* commands of whatever requests are under way (GetSession, DeleteSession,
\* PurgeInactive).
THEOREM DeadSessionsStayDead == PSpec => SessionsStayDead
  <1>1. PInit => PInv
    BY PInitInv
  <1>2. PInv /\ [PNext]_pvars => PInv'
    BY PStepInv
  <1>3. PInv /\ [PNext]_pvars =>
           [\A k \in Keys : Dead(k) => Dead(k)']_pvars
    BY StepDead
  <1> QED
    BY <1>1, <1>2, <1>3, PTL DEF PSpec, SessionsStayDead

-----------------------------------------------------------------------------
(* Presence: sessions and who is online agree.                             *)

InPCs == {"set", "setUser", "hset", "expire", "expireUser", "zadd"}
PurgePCs == {"del", "delUser", "hdel", "zrem"}
OutPCs == {"expire", "expireUser", "zadd", "lookup", "delGone"} \cup PurgePCs

\* Who sends which commands.
JobsOK ==
    /\ \A p \in Slots :
          at[p] = NoJob \/ at[p].pc \in (IF at[p].logout THEN OutPCs ELSE InPCs)
    /\ at[Cleaner] # NoJob => at[Cleaner].pc \in PurgePCs /\ at[Cleaner].logout
    /\ at[Cleaner].user \notin todo

\* A key that is about to be stored is in nobody else's hands, and a session is
\* refreshed for its own user.
KeysOK ==
    /\ \A k \in Keys : sessionUser[k] # NoUser => sessionLeft[k] > 0 /\ k \in issued
    /\ \A u \in Users : userKey[u] # NoKey => userKey[u] \in issued
    /\ \A p \in Procs : at[p].key # NoKey => at[p].key \in issued
    /\ \A p \in Procs : at[p].pc = "set" =>
          /\ at[p].key \in Keys /\ sessionUser[at[p].key] = NoUser
          /\ \A q \in Procs \ {p} : at[q].key # at[p].key
          /\ \A u \in Users : userKey[u] # at[p].key
    /\ \A p \in Procs : at[p].pc = "expire" =>
          at[p].key \in Keys /\ sessionUser[at[p].key] \in {NoUser, at[p].user}

Worked(u) == \E p \in Procs : WorksOn(p, u)
LoginComes(u) ==
    \E p \in Procs : at[p].user = u /\ at[p].pc \in {"set", "setUser", "hset"}

KeyComes(u) ==
    \E p \in Procs : at[p].user = u /\ at[p].pc \in {"set", "setUser", "expireUser"}

\* When its user is stale, a session ends within the second.
Aging(u) ==
    \A k \in LiveKeys(u) : sessionLeft[k] + activity[u] + phase < TTL + Second
\* The session a purge finds outlasts none of the keys it finds it by.
Outlasted(u) ==
    userKey[u] \in LiveKeys(u) => sessionLeft[userKey[u]] <= userLeft[u]

\* Nobody logs u out: who has a session or is watched or worked on is online or
\* will be; who is online is watched or will be; and without work a session ends
\* soon after its user is stale, and the key that leads to it no sooner.
Staying(u) ==
    /\ \A p \in Procs : ~LogsOut(p, u)
    /\ LiveKeys(u) # {} \/ activity[u] # Absent \/ Worked(u)
          => u \in online \/ LoginComes(u)
    /\ u \in online => activity[u] # Absent \/ Worked(u)
    /\ Worked(u) \/ Aging(u)
    /\ KeyComes(u) \/ Outlasted(u)

\* Process p, and nobody else, logs u out.
Leaving(p, u) ==
    /\ LogsOut(p, u) /\ \A q \in Procs : WorksOn(q, u) => q = p
    /\ activity[u] # Absent
    /\ IF at[p].user = u
       THEN /\ u \in online <=> at[p].pc # "zrem"
            /\ \A k \in LiveKeys(u) :
                  k = at[p].key /\ at[p].pc \in {"expire", "expireUser", "zadd",
                                                 "lookup", "del"}
       ELSE /\ u \in online /\ LiveKeys(u) \subseteq {userKey[u]}
            /\ activity[u] >= MaxAge /\ Aging(u) /\ Outlasted(u)

UserOK(u) == crossed[u] \/ Staying(u) \/ \E p \in Procs : Leaving(p, u)

PresenceInv == PInv /\ JobsOK /\ KeysOK /\ \A u \in Users : UserOK(u)

LEMMA NobodysJob ==
    /\ NoJob \in Jobs /\ NoJob.pc = "idle" /\ NoJob.user = NoUser /\ NoJob.key = NoKey
    /\ NoJob.logout = FALSE /\ NoUser \notin Users /\ NoKey \notin Keys
    /\ Cleaner \notin Slots /\ Cleaner \in Procs /\ Slots \subseteq Procs
  BY NoUserAssumption, PresenceAssumption DEF NoJob, Jobs, PCs, Procs

\* What sending a command does to the jobs.
LEMMA SendJob ==
    ASSUME PInv, NEW p \in Procs, NEW cmd, cmd # "idle", NEW next \in PCs,
           Send(p, cmd, next)
    PROVE  /\ at[p] \in Jobs /\ at[p].pc = cmd /\ at[p] # NoJob /\ at[p].user \in Users
           /\ at' \in [Procs -> Jobs]
           /\ \A q \in Procs : q # p => at'[q] = at[q]
           /\ next = "idle" => at'[p] = NoJob
           /\ next # "idle" => /\ at'[p].pc = next /\ at'[p].user = at[p].user
                               /\ at'[p].key = at[p].key
                               /\ at'[p].logout = at[p].logout /\ at'[p] # NoJob
           /\ UNCHANGED <<phase, todo, issued, fails, crossed>>
  <1>1. /\ at[p] \in Jobs /\ at[p].pc = cmd /\ at[p] # NoJob /\ at[p].user \in Users
        /\ UNCHANGED <<phase, todo, issued, fails, crossed>>
    BY NobodysJob DEF PInv, PTypeOK, BusyHasUser, Send, history
  <1> DEFINE job == [at[p] EXCEPT !.pc = next]
  <1>2. /\ job \in Jobs /\ job.pc = next /\ job.user = at[p].user
        /\ job.key = at[p].key /\ job.logout = at[p].logout
    BY <1>1 DEF Jobs
  <1>3. at' = [at EXCEPT ![p] = IF next = "idle" THEN NoJob ELSE job]
    BY DEF Send
  <1> HIDE DEF job
  <1>4. at' \in [Procs -> Jobs] /\ \A q \in Procs : q # p => at'[q] = at[q]
    BY <1>2, <1>3, NobodysJob DEF PInv, PTypeOK
  <1>5. at'[p] = IF next = "idle" THEN NoJob ELSE job
    BY <1>3 DEF PInv, PTypeOK
  <1> QED
    BY <1>1, <1>2, <1>4, <1>5, NobodysJob

\* What starting an operation does to the jobs.
LEMMA StartJob ==
    ASSUME PInv, NEW p \in Procs, NEW cmd \in PCs, cmd # "idle", NEW u \in Users,
           NEW k \in Keys \cup {NoKey}, NEW out \in BOOLEAN, Start(p, cmd, u, k, out)
    PROVE  /\ at[p] = NoJob /\ at' \in [Procs -> Jobs] /\ at'[p] # NoJob
           /\ at'[p].pc = cmd /\ at'[p].user = u /\ at'[p].key = k /\ at'[p].logout = out
           /\ \A q \in Procs : q # p => at'[q] = at[q]
  <1> DEFINE job == [pc |-> cmd, user |-> u, key |-> k, logout |-> out]
  <1>1. /\ job \in Jobs /\ job.pc = cmd /\ job.user = u /\ job.key = k
        /\ job.logout = out
    BY DEF Jobs
  <1>2. at[p] = NoJob /\ at' = [at EXCEPT ![p] = job]
    BY DEF Start
  <1> HIDE DEF job
  <1> QED
    BY <1>1, <1>2, NobodysJob DEF PInv, PTypeOK

LEMMA JobsSend ==
    ASSUME PInv, JobsOK, NEW p \in Procs, NEW cmd, cmd # "idle", NEW next \in PCs,
           Send(p, cmd, next),
           p \in Slots => \/ next = "idle"
                          \/ next \in (IF at[p].logout THEN OutPCs ELSE InPCs),
           p = Cleaner => next = "idle" \/ next \in PurgePCs
    PROVE  JobsOK'
  <1>1. /\ \A q \in Procs : q # p => at'[q] = at[q]
        /\ next = "idle" => at'[p] = NoJob
        /\ next # "idle" => /\ at'[p].pc = next /\ at'[p].user = at[p].user
                            /\ at'[p].logout = at[p].logout
        /\ at[p] # NoJob /\ todo' = todo /\ todo \subseteq Users
    BY SendJob DEF PInv, PTypeOK
  <1>2. ASSUME NEW q \in Slots
        PROVE  \/ at'[q] = NoJob
               \/ at'[q].pc \in (IF at'[q].logout THEN OutPCs ELSE InPCs)
    BY <1>1, NobodysJob DEF JobsOK
  <1>3. at'[Cleaner] # NoJob => at'[Cleaner].pc \in PurgePCs /\ at'[Cleaner].logout
    BY <1>1, NobodysJob DEF JobsOK
  <1>4. at'[Cleaner].user \notin todo'
    BY <1>1, NobodysJob DEF JobsOK
  <1> QED
    BY <1>2, <1>3, <1>4 DEF JobsOK

\* A logout goes on with its commands.
LEMMA JobsOut ==
    ASSUME PInv, JobsOK, NEW p \in Procs, NEW cmd, cmd # "idle",
           NEW next \in PurgePCs \cup {"idle"}, Send(p, cmd, next),
           p # Cleaner => at[p].logout
    PROVE  JobsOK'
  <1>1. next \in PCs /\ (next \in PurgePCs => next \in OutPCs)
    BY DEF PurgePCs, OutPCs, PCs
  <1>2. p \in Slots => at[p].logout
    BY NobodysJob
  <1> QED
    BY <1>1, <1>2, JobsSend

\* The command a process sends tells what kind of operation it is in.
LEMMA KindOfJob ==
    ASSUME JobsOK, NEW p \in Procs, at[p] # NoJob
    PROVE  /\ p = Cleaner => at[p].pc \in PurgePCs /\ at[p].logout
           /\ p # Cleaner => p \in Slots
           /\ p # Cleaner /\ at[p].logout => at[p].pc \in OutPCs
           /\ p # Cleaner /\ ~at[p].logout => at[p].pc \in InPCs
  BY DEF JobsOK, Procs

LEMMA JobsStep ==
    ASSUME PInv, JobsOK, [PNext]_pvars
    PROVE  JobsOK'
  <1> USE DEF PCs, InPCs, OutPCs, PurgePCs
  <1>1. ASSUME NEW p \in Procs, Command(p) PROVE JobsOK'
    <2>0. at[p].pc # "idle" => at[p] # NoJob
      BY NobodysJob
    <2>1. CASE SetKey(p)
      <3>1. Send(p, "set", "setUser")
        BY <2>1 DEF SetKey
      <3>2. p # Cleaner /\ ~at[p].logout
        BY <3>1, <2>0, KindOfJob DEF Send
      <3> QED
        BY <3>1, <3>2, JobsSend
    <2>2. CASE SetUserKey(p)
      <3>1. Send(p, "setUser", "hset")
        BY <2>2 DEF SetUserKey
      <3>2. p # Cleaner /\ ~at[p].logout
        BY <3>1, <2>0, KindOfJob DEF Send
      <3> QED
        BY <3>1, <3>2, JobsSend
    <2>3. CASE HSetOnline(p)
      <3>1. Send(p, "hset", "zadd")
        BY <2>3 DEF HSetOnline
      <3>2. p # Cleaner /\ ~at[p].logout
        BY <3>1, <2>0, KindOfJob DEF Send
      <3> QED
        BY <3>1, <3>2, JobsSend
    <2>4. CASE ZAddActivity(p)
      <3>1. PICK next \in {"lookup", "idle"} :
               Send(p, "zadd", next) /\ (next = "lookup" <=> at[p].logout)
        BY <2>4 DEF ZAddActivity
      <3>2. p # Cleaner
        BY <3>1, <2>0, KindOfJob DEF Send
      <3> QED
        BY <3>1, <3>2, JobsSend
    <2>5. CASE ExpireKey(p)
      <3>1. Send(p, "expire", "expireUser")
        BY <2>5 DEF ExpireKey
      <3>2. p # Cleaner
        BY <3>1, <2>0, KindOfJob DEF Send
      <3> QED
        BY <3>1, <3>2, JobsSend
    <2>6. CASE ExpireUserKey(p)
      <3>1. Send(p, "expireUser", "zadd")
        BY <2>6 DEF ExpireUserKey
      <3>2. p # Cleaner
        BY <3>1, <2>0, KindOfJob DEF Send
      <3> QED
        BY <3>1, <3>2, JobsSend
    <2>7. CASE LookupSession(p)
      <3>1. PICK next \in {"delGone", "del"} : Send(p, "lookup", next)
        BY <2>7 DEF LookupSession
      <3>2. p # Cleaner /\ at[p].logout
        BY <3>1, <2>0, KindOfJob DEF Send
      <3> QED
        BY <3>1, <3>2, JobsSend
    <2>8. CASE DelKey(p)
      <3>1. Send(p, "del", "delUser") \/ Send(p, "delGone", "idle")
        BY <2>8 DEF DelKey
      <3>2. p # Cleaner => at[p].logout
        BY <3>1, <2>0, KindOfJob DEF Send
      <3> QED
        BY <3>1, <3>2, JobsOut
    <2>9. CASE DelUserKey(p)
      <3>1. Send(p, "delUser", "hdel")
        BY <2>9 DEF DelUserKey
      <3>2. p # Cleaner => at[p].logout
        BY <3>1, <2>0, KindOfJob DEF Send
      <3> QED
        BY <3>1, <3>2, JobsOut
    <2>10. CASE HDelOnline(p)
      <3>1. Send(p, "hdel", "zrem")
        BY <2>10 DEF HDelOnline
      <3>2. p # Cleaner => at[p].logout
        BY <3>1, <2>0, KindOfJob DEF Send
      <3> QED
        BY <3>1, <3>2, JobsOut
    <2>11. CASE ZRemActivity(p)
      <3>1. Send(p, "zrem", "idle")
        BY <2>11 DEF ZRemActivity
      <3> QED
        BY <3>1, JobsSend
    <2> QED
      BY <1>1, <2>1, <2>2, <2>3, <2>4, <2>5, <2>6, <2>7, <2>8, <2>9, <2>10, <2>11
      DEF Command
  <1>2. ASSUME NEW r \in Slots, NEW k \in Keys, NEW u \in Users, Login(r, u, k)
        PROVE  JobsOK'
    <2>1. Start(r, "set", u, k, FALSE) /\ todo' = todo
      BY <1>2 DEF Login
    <2> QED
      BY <2>1, StartJob, NobodysJob, ZenonT(40) DEF JobsOK
  <1>3. ASSUME NEW r \in Slots, NEW k \in Keys, NEW logout \in BOOLEAN,
               Authorized(r, k, logout)
        PROVE  JobsOK'
    <2>1. Start(r, "expire", sessionUser[k], k, logout) /\ todo' = todo
          /\ sessionUser[k] \in Users
      BY <1>3 DEF Authorized, PInv, PTypeOK
    <2> QED
      BY <2>1, StartJob, NobodysJob DEF JobsOK
  <1>4. CASE ListStale
    <2>1. at' = at /\ at[Cleaner] = NoJob /\ todo' \subseteq Users
      BY <1>4 DEF ListStale
    <2> QED
      BY <2>1, NobodysJob DEF JobsOK
  <1>5. ASSUME NEW u \in Users, PurgeNext(u) PROVE JobsOK'
    <2>1. PICK cmd \in {"delUser", "del"} : Start(Cleaner, cmd, u, userKey[u], TRUE)
      BY <1>5 DEF PurgeNext
    <2>2. todo' = todo \ {u} /\ userKey[u] \in Keys \cup {NoKey}
      BY <1>5 DEF PurgeNext, PInv, PTypeOK
    <2>3. /\ at'[Cleaner].pc = cmd /\ at'[Cleaner].user = u
          /\ at'[Cleaner].logout = TRUE
          /\ \A q \in Procs : q # Cleaner => at'[q] = at[q]
      <3>1. cmd \in PCs /\ cmd # "idle" /\ Cleaner \in Procs /\ TRUE \in BOOLEAN
        BY NobodysJob
      <3> HIDE DEF PCs
      <3> QED
        BY <2>1, <2>2, <3>1, StartJob
    <2>4. \A q \in Slots : at'[q] = at[q]
      BY <2>3, NobodysJob
    <2> HIDE DEF PCs, InPCs, OutPCs
    <2> QED
      BY <2>2, <2>3, <2>4 DEF JobsOK
  <1>6. ASSUME NEW p \in Procs, Fail(p) PROVE JobsOK'
    <2>1. /\ at' = [at EXCEPT ![p] = NoJob] /\ at \in [Procs -> Jobs]
          /\ todo' = IF p = Cleaner THEN {} ELSE todo
      BY <1>6 DEF Fail, PInv, PTypeOK
    <2> QED
      BY <2>1, NobodysJob DEF JobsOK
  <1>7. CASE TimePasses \/ UNCHANGED pvars
    BY <1>7 DEF TimePasses, pvars, JobsOK
  <1> QED
    BY <1>1, <1>2, <1>3, <1>4, <1>5, <1>6, <1>7 DEF PNext, PurgeInactive


\* Who is about to store a session under k.
Setting(q, k) == at[q].pc = "set" /\ at[q].key = k

\* Keys stay in hand when no new session is stored and none is drawn.
LEMMA KeysKept ==
    ASSUME PInv, KeysOK, issued \subseteq issued',
           \A k \in Keys : sessionUser'[k] # NoUser =>
              sessionUser'[k] = sessionUser[k] /\ sessionLeft'[k] > 0,
           \A u \in Users : \/ userKey'[u] \in {NoKey, userKey[u]}
                            \/ \E q \in Procs : /\ at[q].pc # "set"
                                                /\ userKey'[u] = at[q].key,
           \A q \in Procs :
              \/ at'[q] = at[q]
              \/ /\ at'[q].pc # "set"
                 /\ \/ at'[q].key \in {NoKey, at[q].key}
                    \/ /\ at'[q].key \in issued
                       /\ \A r \in Procs : ~Setting(r, at'[q].key)
                 /\ at'[q].pc = "expire" =>
                       /\ at'[q].key \in Keys
                       /\ sessionUser'[at'[q].key] \in {NoUser, at'[q].user}
    PROVE  KeysOK'
  <1>0. /\ \A p \in Procs : at[p] \in Jobs
        /\ issued \subseteq Keys /\ NoKey \notin Keys
    BY PresenceAssumption DEF PInv, PTypeOK
  <1>1. \A k \in Keys : sessionUser'[k] # NoUser => sessionLeft'[k] > 0 /\ k \in issued'
    BY DEF KeysOK
  <1>2. \A u \in Users : userKey'[u] # NoKey => userKey'[u] \in issued'
    BY DEF KeysOK
  <1>3. \A p \in Procs : at'[p].key # NoKey => at'[p].key \in issued'
    BY DEF KeysOK
  <1>4. ASSUME NEW p \in Procs, at'[p].pc = "set"
        PROVE  /\ at'[p].key \in Keys /\ sessionUser'[at'[p].key] = NoUser
               /\ \A q \in Procs \ {p} : at'[q].key # at'[p].key
               /\ \A u \in Users : userKey'[u] # at'[p].key
    <2>1. at'[p] = at[p] /\ Setting(p, at[p].key) /\ at[p].key \in Keys
      BY <1>4 DEF Setting, KeysOK
    <2>2. sessionUser'[at'[p].key] = NoUser
      BY <2>1, <1>4 DEF KeysOK
    <2>3. ASSUME NEW q \in Procs \ {p} PROVE at'[q].key # at'[p].key
      BY <2>1, <1>0, <1>4 DEF KeysOK
    <2>4. ASSUME NEW u \in Users PROVE userKey'[u] # at'[p].key
      BY <2>1, <1>0, <1>4 DEF KeysOK
    <2> QED
      BY <2>1, <2>2, <2>3, <2>4
  <1>5. \A p \in Procs : at'[p].pc = "expire" =>
          at'[p].key \in Keys /\ sessionUser'[at'[p].key] \in {NoUser, at'[p].user}
    BY DEF KeysOK
  <1> QED
    BY <1>1, <1>2, <1>3, <1>4, <1>5 DEF KeysOK

\* A command other than SetKey draws no key, and stores a session for nobody.
LEMMA KeysSend ==
    ASSUME PInv, KeysOK, NEW p \in Procs, NEW cmd, cmd # "idle",
           NEW next \in PCs \ {"set", "expire"}, Send(p, cmd, next),
           \A k \in Keys : sessionUser'[k] # NoUser =>
              sessionUser'[k] = sessionUser[k] /\ sessionLeft'[k] > 0,
           \A u \in Users : \/ userKey'[u] \in {NoKey, userKey[u]}
                            \/ cmd # "set" /\ userKey'[u] = at[p].key
    PROVE  KeysOK'
  <1>1. /\ at[p].pc = cmd /\ issued' = issued
        /\ \A q \in Procs : q # p => at'[q] = at[q]
        /\ next = "idle" => at'[p] = NoJob
        /\ next # "idle" => at'[p].pc = next /\ at'[p].key = at[p].key
    BY SendJob
  <1>2. ASSUME NEW q \in Procs
        PROVE  at'[q] = at[q] \/ /\ at'[q].pc \notin {"set", "expire"}
                                 /\ at'[q].key \in {NoKey, at[q].key}
    BY <1>1, NobodysJob
  <1>3. ASSUME NEW u \in Users
        PROVE  \/ userKey'[u] \in {NoKey, userKey[u]}
               \/ \E q \in Procs : at[q].pc # "set" /\ userKey'[u] = at[q].key
    BY <1>1
  <1> QED
    BY <1>1, <1>2, <1>3, KeysKept

LEMMA KeysCommand ==
    ASSUME PInv, KeysOK, NEW p \in Procs, Command(p)
    PROVE  KeysOK'
  <1>0. /\ sessionUser \in [Keys -> Users \cup {NoUser}]
        /\ sessionLeft \in [Keys -> 0 .. TTL] /\ TTL \in Nat /\ TTL > 0
        /\ userKey \in [Users -> Keys \cup {NoKey}]
        /\ \A k \in Keys : sessionUser[k] # NoUser => sessionLeft[k] > 0
    BY PresenceAssumption DEF PInv, PTypeOK, KeysOK
  <1>1. CASE SetKey(p)
    <2> DEFINE k0 == at[p].key
    <2>1. Send(p, "set", "setUser") /\ k0 \in Keys
      BY <1>1 DEF SetKey, Send, KeysOK
    <2>2. /\ at[p].pc = "set" /\ issued' = issued
          /\ \A q \in Procs : q # p => at'[q] = at[q]
          /\ at'[p].pc = "setUser" /\ at'[p].key = k0 /\ at[p].user \in Users
      BY <2>1, SendJob DEF PCs
    <2>3. /\ sessionUser'[k0] = at[p].user /\ sessionLeft'[k0] = TTL
          /\ \A k \in Keys \ {k0} : /\ sessionUser'[k] = sessionUser[k]
                                    /\ sessionLeft'[k] = sessionLeft[k]
          /\ userKey' = userKey
      BY <1>0, <1>1, <2>1 DEF SetKey
    <2>4. k0 \in issued
      BY <2>1, PresenceAssumption DEF KeysOK
    <2> HIDE DEF k0
    <2>5. \A k \in Keys : sessionUser'[k] # NoUser => sessionLeft'[k] > 0 /\ k \in issued'
      BY <1>0, <2>2, <2>3, <2>4 DEF KeysOK
    <2>6. /\ \A u \in Users : userKey'[u] # NoKey => userKey'[u] \in issued'
          /\ \A q \in Procs : at'[q].key # NoKey => at'[q].key \in issued'
      BY <2>2, <2>3, <2>4 DEF KeysOK
    <2>7. ASSUME NEW q \in Procs, at'[q].pc = "set"
          PROVE  /\ at'[q].key \in Keys /\ sessionUser'[at'[q].key] = NoUser
                 /\ \A r \in Procs \ {q} : at'[r].key # at'[q].key
                 /\ \A u \in Users : userKey'[u] # at'[q].key
      <3>1. q # p /\ at'[q] = at[q] /\ at[q].key \in Keys /\ at[q].key # k0
        BY <2>2, <2>7 DEF KeysOK, k0
      <3>2. \A r \in Procs : at'[r].key = at[r].key
        BY <2>2 DEF k0
      <3> QED
        BY <2>3, <2>7, <3>1, <3>2 DEF KeysOK
    <2>8. ASSUME NEW q \in Procs, at'[q].pc = "expire"
          PROVE  at'[q].key \in Keys /\ sessionUser'[at'[q].key] \in {NoUser, at'[q].user}
      <3>1. q # p /\ at'[q] = at[q] /\ at[q].key # at[p].key
        BY <2>2, <2>8 DEF KeysOK
      <3> QED
        BY <2>3, <2>8, <3>1 DEF KeysOK, k0
    <2> QED
      BY <2>5, <2>6, <2>7, <2>8 DEF KeysOK
  <1>2. CASE SetUserKey(p)
    <2>1. Send(p, "setUser", "hset") /\ at[p].user \in Users
      BY <1>2, SendJob DEF SetUserKey, PCs
    <2>2. \A u \in Users : userKey'[u] \in {userKey[u], at[p].key}
      BY <1>0, <1>2, <2>1 DEF SetUserKey
    <2> QED
      BY <1>0, <1>2, <2>1, <2>2, KeysSend DEF SetUserKey, PCs
  <1>3. CASE HSetOnline(p)
    BY <1>0, <1>3, KeysSend DEF HSetOnline, PCs
  <1>4. CASE ZAddActivity(p)
    <2>1. PICK next \in {"lookup", "idle"} : Send(p, "zadd", next)
      BY <1>4 DEF ZAddActivity
    <2> QED
      BY <1>0, <1>4, <2>1, KeysSend DEF ZAddActivity, PCs
  <1>5. CASE ExpireKey(p)
    BY <1>0, <1>5, KeysSend DEF ExpireKey, Refresh, PCs
  <1>6. CASE ExpireUserKey(p)
    BY <1>0, <1>6, KeysSend DEF ExpireUserKey, PCs
  <1>7. CASE LookupSession(p)
    <2>1. PICK next \in {"delGone", "del"} : Send(p, "lookup", next)
      BY <1>7 DEF LookupSession
    <2> QED
      BY <1>0, <1>7, <2>1, KeysSend DEF LookupSession, PCs, redis
  <1>8. CASE DelKey(p)
    <2>1. PICK cmd \in {"del", "delGone"}, next \in {"delUser", "idle"} :
             Send(p, cmd, next)
      BY <1>8 DEF DelKey
    <2> QED
      BY <1>0, <1>8, <2>1, KeysSend DEF DelKey, PCs
  <1>9. CASE DelUserKey(p)
    <2>1. \A u \in Users : userKey'[u] \in {userKey[u], NoKey}
      BY <1>0, <1>9 DEF DelUserKey
    <2> QED
      BY <1>0, <1>9, <2>1, KeysSend DEF DelUserKey, PCs
  <1>10. CASE HDelOnline(p)
    BY <1>0, <1>10, KeysSend DEF HDelOnline, PCs
  <1>11. CASE ZRemActivity(p)
    BY <1>0, <1>11, KeysSend DEF ZRemActivity, PCs
  <1> QED
    BY <1>1, <1>2, <1>3, <1>4, <1>5, <1>6, <1>7, <1>8, <1>9, <1>10, <1>11
       DEF Command

LEMMA KeysStep ==
    ASSUME PInv, KeysOK, [PNext]_pvars
    PROVE  KeysOK'
  <1>0. /\ sessionUser \in [Keys -> Users \cup {NoUser}]
        /\ sessionLeft \in [Keys -> 0 .. TTL] /\ TTL \in Nat /\ TTL > 0
        /\ userKey \in [Users -> Keys \cup {NoKey}] /\ at \in [Procs -> Jobs]
        /\ \A k \in Keys : sessionUser[k] # NoUser => sessionLeft[k] > 0
    BY PresenceAssumption DEF PInv, PTypeOK, KeysOK
  <1>1. ASSUME NEW r \in Slots, NEW k \in Keys, NEW u \in Users, Login(r, u, k)
        PROVE  KeysOK'
    <2>1. /\ Start(r, "set", u, k, FALSE) /\ UNCHANGED redis
          /\ k \notin issued /\ issued' = issued \cup {k}
      BY <1>1 DEF Login
    <2>2. /\ at'[r].pc = "set" /\ at'[r].key = k /\ at[r].key = NoKey
          /\ \A q \in Procs : q # r => at'[q] = at[q]
      BY <2>1, StartJob, NobodysJob DEF PCs
    <2>3. /\ sessionUser[k] = NoUser /\ NoKey # k
          /\ \A q \in Procs : at[q].key # k
          /\ \A v \in Users : userKey[v] # k
      BY <2>1, PresenceAssumption DEF KeysOK
    <2>4. /\ \A j \in Keys : sessionUser'[j] # NoUser => sessionLeft'[j] > 0 /\ j \in issued'
          /\ \A v \in Users : userKey'[v] # NoKey => userKey'[v] \in issued'
      BY <2>1 DEF KeysOK, redis
    <2>5. \A q \in Procs : at'[q].key # NoKey => at'[q].key \in issued'
      BY <2>1, <2>2 DEF KeysOK
    <2>6. ASSUME NEW q \in Procs, at'[q].pc = "set"
          PROVE  /\ at'[q].key \in Keys /\ sessionUser'[at'[q].key] = NoUser
                 /\ \A s \in Procs \ {q} : at'[s].key # at'[q].key
                 /\ \A v \in Users : userKey'[v] # at'[q].key
      <3>1. sessionUser' = sessionUser /\ userKey' = userKey
        BY <2>1 DEF redis
      <3>2. CASE q = r
        BY <2>2, <2>3, <3>1, <3>2
      <3>3. CASE q # r
        BY <2>2, <2>3, <2>6, <3>1, <3>3 DEF KeysOK
      <3> QED
        BY <3>2, <3>3
    <2>7. \A q \in Procs : at'[q].pc = "expire" =>
             at'[q].key \in Keys /\ sessionUser'[at'[q].key] \in {NoUser, at'[q].user}
      BY <2>1, <2>2 DEF KeysOK, redis
    <2> QED
      BY <2>4, <2>5, <2>6, <2>7 DEF KeysOK
  <1>2. ASSUME NEW r \in Slots, NEW k \in Keys, NEW logout \in BOOLEAN,
               Authorized(r, k, logout)
        PROVE  KeysOK'
    <2>1. /\ Start(r, "expire", sessionUser[k], k, logout) /\ UNCHANGED redis
          /\ sessionUser[k] \in Users /\ issued' = issued
      BY <1>0, <1>2 DEF Authorized
    <2>2. /\ at'[r].pc = "expire" /\ at'[r].key = k /\ at'[r].user = sessionUser[k]
          /\ \A q \in Procs : q # r => at'[q] = at[q]
      BY <2>1, StartJob, NobodysJob DEF PCs
    <2>3. k \in issued /\ \A q \in Procs : ~Setting(q, k)
      BY <2>1, NoUserAssumption DEF KeysOK, Setting
    <2> QED
      BY <1>0, <2>1, <2>2, <2>3, KeysKept DEF redis
  <1>3. CASE ListStale
    BY <1>0, <1>3, KeysKept DEF ListStale, redis
  <1>4. ASSUME NEW u \in Users, PurgeNext(u) PROVE KeysOK'
    <2>1. PICK cmd \in {"delUser", "del"} : Start(Cleaner, cmd, u, userKey[u], TRUE)
      BY <1>4 DEF PurgeNext
    <2>2. /\ at'[Cleaner].pc \notin {"set", "expire"} /\ at'[Cleaner].key = userKey[u]
          /\ \A q \in Procs : q # Cleaner => at'[q] = at[q]
      <3>1. /\ cmd \in PCs /\ cmd \notin {"idle", "set", "expire"}
            /\ userKey[u] \in Keys \cup {NoKey} /\ TRUE \in BOOLEAN /\ Cleaner \in Procs
        BY <1>0, NobodysJob DEF PCs
      <3> QED
        BY <2>1, <3>1, StartJob
    <2>3. \/ userKey[u] = NoKey
          \/ userKey[u] \in issued /\ \A q \in Procs : ~Setting(q, userKey[u])
      BY DEF KeysOK, Setting
    <2>4. UNCHANGED redis /\ issued' = issued
      BY <1>4 DEF PurgeNext, history
    <2> QED
      BY <1>0, <2>2, <2>3, <2>4, KeysKept DEF redis
  <1>5. ASSUME NEW p \in Procs, Fail(p) PROVE KeysOK'
    <2>1. /\ at'[p] = NoJob /\ UNCHANGED <<redis, issued>>
          /\ \A q \in Procs : q # p => at'[q] = at[q]
      BY <1>0, <1>5 DEF Fail
    <2> QED
      BY <1>0, <2>1, NobodysJob, KeysKept DEF redis
  <1>6. CASE TimePasses
    <2>1. /\ \A k \in Keys : sessionUser'[k] # NoUser =>
                sessionUser'[k] = sessionUser[k] /\ sessionLeft'[k] > 0
          /\ \A u \in Users : userKey'[u] \in {NoKey, userKey[u]}
          /\ at' = at /\ issued' = issued
      BY <1>0, <1>6 DEF TimePasses, history
    <2> QED
      BY <2>1, KeysKept
  <1>7. CASE UNCHANGED pvars
    BY <1>0, <1>7, KeysKept DEF pvars, redis, history
  <1> QED
    BY <1>1, <1>2, <1>3, <1>4, <1>5, <1>6, <1>7, KeysCommand DEF PNext, PurgeInactive

LEMMA WorkTypes ==
    ASSUME PInv, KeysOK
    PROVE  /\ sessionUser \in [Keys -> Users \cup {NoUser}]
           /\ sessionLeft \in [Keys -> 0 .. TTL] /\ TTL \in Nat /\ TTL > 0
           /\ MaxAge \in Nat /\ TTL <= MaxAge
           /\ Second \in Nat /\ phase \in Nat /\ phase < Second
           /\ userKey \in [Users -> Keys \cup {NoKey}] /\ userLeft \in [Users -> 0 .. TTL]
           /\ online \subseteq Users
           /\ activity \in [Users -> Absent .. (MaxAge + Second)]
           /\ at \in [Procs -> Jobs] /\ crossed \in [Users -> BOOLEAN]
           /\ \A k \in Keys : sessionUser[k] # NoUser => sessionLeft[k] > 0
  BY PresenceAssumption DEF PInv, PTypeOK, KeysOK

\* A step that leaves u's work alone, and at most takes sessions from u or lets
\* them age, leaves u in order.
LEMMA Undisturbed ==
    ASSUME PInv, PInv', NEW u \in Users, UserOK(u),
           crossed[u] => crossed'[u],
           \A q \in Procs : WorksOn(q, u)' <=> WorksOn(q, u),
           \A q \in Procs : at[q].user = u \/ at'[q].user = u => at'[q] = at[q],
           u \in online' <=> u \in online,
           activity'[u] = Absent <=> activity[u] = Absent,
           activity'[u] >= activity[u],
           Outlasted(u) => Outlasted(u)',
           LiveKeys(u) \subseteq {userKey[u]} /\ Outlasted(u)
              => LiveKeys(u)' \subseteq {userKey'[u]},
           \A k \in Keys : sessionUser'[k] = u =>
              /\ sessionUser[k] = u
              /\ sessionLeft'[k] + activity'[u] + phase'
                    <= sessionLeft[k] + activity[u] + phase
    PROVE  UserOK(u)'
  <1>1. \A q \in Procs : LogsOut(q, u)' <=> LogsOut(q, u)
    BY DEF LogsOut, WorksOn
  <1>2. LiveKeys(u)' \subseteq LiveKeys(u)
    BY DEF LiveKeys
  <1>3. /\ sessionLeft \in [Keys -> 0 .. TTL] /\ TTL \in Nat /\ MaxAge \in Nat
        /\ activity \in [Users -> Absent .. (MaxAge + Second)]
        /\ sessionLeft' \in [Keys -> 0 .. TTL]
        /\ activity' \in [Users -> Absent .. (MaxAge + Second)]
        /\ phase \in Int /\ phase' \in Int /\ Second \in Nat
    BY PresenceAssumption DEF PInv, PTypeOK
  <1>4. CASE crossed[u]
    BY <1>4 DEF UserOK
  <1>0. ASSUME Aging(u) PROVE Aging(u)'
    <2>1. ASSUME NEW k \in LiveKeys(u)'
          PROVE  sessionLeft'[k] + activity'[u] + phase' < TTL + Second
      <3>1. /\ sessionLeft[k] + activity[u] + phase < TTL + Second
            /\ k \in Keys /\ sessionUser'[k] = u
        BY <1>0, <1>2, <2>1 DEF Aging, LiveKeys
      <3>2. sessionLeft'[k] + activity'[u] + phase'
               <= sessionLeft[k] + activity[u] + phase
        BY <3>1
      <3>3. /\ sessionLeft[k] \in Int /\ activity[u] \in Int
            /\ sessionLeft'[k] \in Int /\ activity'[u] \in Int
        BY <1>3, <3>1 DEF Absent
      <3> QED
        BY <1>3, <3>1, <3>2, <3>3
    <2> QED
      BY <2>1 DEF Aging
  <1>5. CASE Staying(u)
    <2>1. \A q \in Procs : ~LogsOut(q, u)'
      BY <1>1, <1>5 DEF Staying
    <2>2. Worked(u)' <=> Worked(u)
      BY DEF Worked
    <2>3. LoginComes(u)' <=> LoginComes(u)
      BY DEF LoginComes
    <2>4. LiveKeys(u)' # {} \/ activity'[u] # Absent \/ Worked(u)'
             => u \in online' \/ LoginComes(u)'
      BY <1>2, <1>5, <2>2, <2>3 DEF Staying
    <2>5. u \in online' => activity'[u] # Absent \/ Worked(u)'
      BY <1>5, <2>2 DEF Staying
    <2>6. Worked(u)' \/ Aging(u)'
      BY <1>0, <1>5, <2>2 DEF Staying
    <2>7. KeyComes(u)' <=> KeyComes(u)
      BY DEF KeyComes
    <2>8. KeyComes(u)' \/ Outlasted(u)'
      BY <1>5, <2>7 DEF Staying
    <2> QED
      BY <2>1, <2>4, <2>5, <2>6, <2>8 DEF UserOK, Staying
  <1>6. ASSUME NEW p \in Procs, Leaving(p, u) PROVE UserOK(u)'
    <2>1. LogsOut(p, u)' /\ \A q \in Procs : WorksOn(q, u)' => q = p
      BY <1>1, <1>6 DEF Leaving
    <2>2. /\ at'[p].user = u <=> at[p].user = u
          /\ at[p].user = u => at'[p] = at[p]
      OBVIOUS
    <2>3. CASE at[p].user = u
      <3>1. /\ u \in online' <=> at'[p].pc # "zrem"
            /\ \A k \in LiveKeys(u)' :
                  k = at'[p].key /\ at'[p].pc \in {"expire", "expireUser", "zadd",
                                                 "lookup", "del"}
        BY <1>2, <1>6, <2>2, <2>3 DEF Leaving
      <3> QED
        BY <1>6, <2>1, <2>2, <2>3, <3>1 DEF UserOK, Leaving
    <2>4. CASE at[p].user # u
      <3>1. /\ u \in online' /\ Aging(u)' /\ Outlasted(u)'
            /\ LiveKeys(u)' \subseteq {userKey'[u]}
        BY <1>0, <1>6, <2>4 DEF Leaving
      <3>2. activity[u] \in Int /\ activity'[u] \in Int /\ activity[u] >= MaxAge
        BY <1>3, <1>6, <2>4 DEF Leaving, Absent
      <3>3. activity'[u] >= MaxAge
        BY <1>3, <3>2
      <3> QED
        BY <1>6, <2>1, <2>2, <2>4, <3>1, <3>3 DEF UserOK, Leaving
    <2> QED
      BY <2>3, <2>4
  <1> QED
    BY <1>4, <1>5, <1>6 DEF UserOK

\* The session that leads to u stays as it is found.
LEMMA KeyStays ==
    ASSUME NEW u \in Users, userKey'[u] = userKey[u], userLeft'[u] = userLeft[u],
           sessionLeft \in [Keys -> 0 .. TTL], sessionLeft' \in [Keys -> 0 .. TTL],
           userLeft[u] \in Int,
           \A k \in Keys : sessionUser'[k] = u =>
              sessionUser[k] = u /\ sessionLeft'[k] <= sessionLeft[k]
    PROVE  /\ Outlasted(u) => Outlasted(u)'
           /\ LiveKeys(u) \subseteq {userKey[u]} => LiveKeys(u)' \subseteq {userKey'[u]}
  <1>1. ASSUME Outlasted(u), userKey[u] \in LiveKeys(u)'
        PROVE  sessionLeft'[userKey[u]] <= userLeft[u]
    <2>1. userKey[u] \in Keys /\ sessionUser'[userKey[u]] = u
      BY <1>1 DEF LiveKeys
    <2>2. /\ sessionUser[userKey[u]] = u
          /\ sessionLeft'[userKey[u]] <= sessionLeft[userKey[u]]
      BY <2>1
    <2>3. sessionLeft[userKey[u]] <= userLeft[u]
      BY <1>1, <2>1, <2>2 DEF Outlasted, LiveKeys
    <2>4. sessionLeft[userKey[u]] \in Int /\ sessionLeft'[userKey[u]] \in Int
      BY <2>1
    <2> QED
      BY <2>2, <2>3, <2>4
  <1>2. LiveKeys(u)' \subseteq LiveKeys(u)
    BY DEF LiveKeys
  <1> QED
    BY <1>1, <1>2 DEF Outlasted

\* A command of an operation on somebody else leaves u in order.
LEMMA SendOther ==
    ASSUME PInv, PInv', NEW p \in Procs, NEW cmd, cmd # "idle", NEW next \in PCs,
           Send(p, cmd, next), NEW u \in Users, u # at[p].user, UserOK(u),
           u \in online' <=> u \in online, activity'[u] = activity[u],
           userKey'[u] = userKey[u], userLeft'[u] = userLeft[u],
           \A k \in Keys : sessionUser'[k] = u =>
              sessionUser[k] = u /\ sessionLeft'[k] <= sessionLeft[k]
    PROVE  UserOK(u)'
  <1>1. /\ \A q \in Procs : q # p => at'[q] = at[q]
        /\ at'[p].user # u /\ todo' = todo /\ crossed' = crossed /\ phase' = phase
    BY SendJob, NobodysJob
  <1>2. \A q \in Procs : WorksOn(q, u)' <=> WorksOn(q, u)
    BY <1>1 DEF WorksOn
  <1>3. ASSUME NEW k \in Keys, sessionUser'[k] = u
        PROVE  /\ sessionUser[k] = u
               /\ sessionLeft'[k] + activity'[u] + phase'
                     <= sessionLeft[k] + activity[u] + phase
    <2>1. /\ sessionLeft[k] \in Int /\ sessionLeft'[k] \in Int /\ activity[u] \in Int
          /\ phase \in Int
      BY PresenceAssumption DEF PInv, PTypeOK, Absent
    <2> QED
      BY <1>1, <1>3, <2>1
  <1>4. /\ Outlasted(u) => Outlasted(u)'
        /\ LiveKeys(u) \subseteq {userKey[u]} => LiveKeys(u)' \subseteq {userKey'[u]}
    <2>1. /\ sessionLeft \in [Keys -> 0 .. TTL] /\ sessionLeft' \in [Keys -> 0 .. TTL]
          /\ userLeft[u] \in Int
      BY DEF PInv, PTypeOK
    <2> QED
      BY <2>1, KeyStays
  <1>5. activity'[u] >= activity[u]
    <2>1. activity[u] \in Int
      BY DEF PInv, PTypeOK, Absent
    <2> QED
      BY <2>1
  <1> QED
    BY <1>1, <1>2, <1>3, <1>4, <1>5, Undisturbed

\* The user of a command: nobody logs it out but the command's process, which
\* has it to itself if it does.
LEMMA OwnUser ==
    ASSUME PInv, JobsOK, NEW p \in Procs, NEW u \in Users, at[p].user = u,
           UserOK(u), ~crossed[u]
    PROVE  /\ WorksOn(p, u) /\ at[p] # NoJob
           /\ at[p].logout => Leaving(p, u)
           /\ ~at[p].logout => Staying(u) /\ p # Cleaner
  <1>1. WorksOn(p, u) /\ at[p] # NoJob /\ (p = Cleaner => at[p].logout)
    BY NobodysJob DEF WorksOn, JobsOK
  <1>2. CASE Staying(u)
    BY <1>1, <1>2 DEF Staying, LogsOut
  <1>3. ASSUME NEW q \in Procs, Leaving(q, u) PROVE q = p /\ at[p].logout
    BY <1>1, <1>3 DEF Leaving, LogsOut
  <1> QED
    BY <1>1, <1>2, <1>3 DEF UserOK

\* A request of a user that stays goes on.
LEMMA StayOn ==
    ASSUME PInv, NEW p \in Procs, NEW cmd, cmd # "idle", NEW next \in PCs,
           Send(p, cmd, next), p # Cleaner, ~at[p].logout,
           NEW u \in Users, at[p].user = u, Staying(u),
           u \in online => u \in online',
           cmd \in {"set", "setUser", "hset"}
              => next \in {"set", "setUser", "hset"} \/ u \in online',
           next # "idle" \/ (activity'[u] # Absent /\ Aging(u)'),
           \/ next \in {"setUser", "expireUser"} \/ Outlasted(u)'
           \/ /\ cmd \notin {"set", "setUser", "expireUser"}
              /\ Outlasted(u) => Outlasted(u)'
    PROVE  Staying(u)'
  <1>1. /\ \A q \in Procs : q # p => at'[q] = at[q]
        /\ next = "idle" => at'[p] = NoJob
        /\ next # "idle" => /\ at'[p].pc = next /\ at'[p].user = u
                            /\ at'[p].logout = at[p].logout
        /\ todo' = todo /\ at[p].pc = cmd
    BY SendJob
  <1>2. ASSUME NEW q \in Procs PROVE ~LogsOut(q, u)'
    <2>1. ~LogsOut(q, u)
      BY DEF Staying
    <2>2. CASE q = p
      BY <1>1, <2>2, NobodysJob DEF LogsOut
    <2>3. CASE q # p
      BY <1>1, <2>1, <2>3 DEF LogsOut, WorksOn
    <2> QED
      BY <2>2, <2>3
  <1>3. u \in online' \/ LoginComes(u)'
    <2>1. u \in online \/ LoginComes(u)
      BY DEF Staying, Worked, WorksOn
    <2>2. ASSUME NEW q \in Procs, at[q].user = u, at[q].pc \in {"set", "setUser", "hset"}
          PROVE  u \in online' \/ LoginComes(u)'
      <3>1. CASE q = p
        BY <1>1, <2>2, <3>1 DEF LoginComes
      <3>2. CASE q # p
        BY <1>1, <2>2, <3>2 DEF LoginComes
      <3> QED
        BY <3>1, <3>2
    <2> QED
      BY <2>1, <2>2 DEF LoginComes
  <1>4. next # "idle" => Worked(u)'
    BY <1>1 DEF Worked, WorksOn
  <1>5. KeyComes(u)' \/ Outlasted(u)'
    <2>1. CASE next \in {"setUser", "expireUser"}
      BY <1>1, <2>1 DEF KeyComes
    <2>2. CASE cmd \notin {"set", "setUser", "expireUser"} /\ KeyComes(u)
      <3>1. PICK q \in Procs : /\ at[q].user = u
                               /\ at[q].pc \in {"set", "setUser", "expireUser"}
        BY <2>2 DEF KeyComes
      <3>2. at'[q] = at[q]
        BY <1>1, <2>2, <3>1
      <3> QED
        BY <3>1, <3>2 DEF KeyComes
    <2> QED
      BY <2>1, <2>2 DEF Staying
  <1> QED
    BY <1>2, <1>3, <1>4, <1>5 DEF Staying

\* A logout goes on.
LEMMA LeaveOn ==
    ASSUME PInv, NEW p \in Procs, NEW cmd, cmd # "idle", NEW next \in PCs \ {"idle"},
           Send(p, cmd, next), NEW u \in Users, at[p].user = u, Leaving(p, u),
           activity'[u] # Absent, u \in online' <=> next # "zrem",
           \A k \in LiveKeys(u)' : k = at[p].key /\
              next \in {"expire", "expireUser", "zadd", "lookup", "del"}
    PROVE  Leaving(p, u)'
  <1>1. /\ \A q \in Procs : q # p => at'[q] = at[q]
        /\ at'[p].pc = next /\ at'[p].user = u
        /\ at'[p].logout = at[p].logout /\ at'[p].key = at[p].key
        /\ todo' = todo
    BY SendJob
  <1>2. LogsOut(p, u)'
    BY <1>1 DEF Leaving, LogsOut, WorksOn
  <1>3. ASSUME NEW q \in Procs, WorksOn(q, u)' PROVE q = p
    BY <1>1, <1>3 DEF Leaving, WorksOn
  <1> QED
    BY <1>1, <1>2, <1>3 DEF Leaving

\* A logout is over.
LEMMA LeaveDone ==
    ASSUME PInv, JobsOK, NEW p \in Procs, NEW cmd, cmd # "idle",
           Send(p, cmd, "idle"), NEW u \in Users, at[p].user = u, Leaving(p, u),
           u \in online' <=> activity'[u] # Absent, LiveKeys(u)' = {}
    PROVE  Staying(u)'
  <1>1. /\ \A q \in Procs : q # p => at'[q] = at[q]
        /\ at'[p].user = NoUser /\ todo' = todo
    BY SendJob, NobodysJob DEF PCs
  <1>2. ASSUME NEW q \in Procs PROVE ~WorksOn(q, u)'
    <2>1. WorksOn(q, u) => q = p
      BY DEF Leaving
    <2>2. p = Cleaner => u \notin todo
      BY DEF JobsOK
    <2> QED
      BY <1>1, <2>1, <2>2, NobodysJob DEF WorksOn
  <1>3. Aging(u)' /\ Outlasted(u)'
    BY DEF Aging, Outlasted
  <1> QED
    BY <1>2, <1>3 DEF Staying, LogsOut, Worked

\* The user of a command stays in order.
LEMMA CommandOwn ==
    ASSUME PInv, PInv', JobsOK, KeysOK, NEW p \in Procs, Command(p),
           NEW u \in Users, at[p].user = u, UserOK(u)
    PROVE  UserOK(u)'
  <1>0. /\ crossed' = crossed
        /\ LiveKeys(u) = {k \in Keys : sessionUser[k] = u}
        /\ LiveKeys(u)' = {k \in Keys : sessionUser'[k] = u}
    BY DEF Command, Send, history, SetKey, SetUserKey, HSetOnline, ZAddActivity,
       ExpireKey, ExpireUserKey, LookupSession, DelKey, DelUserKey, HDelOnline,
       ZRemActivity, LiveKeys
  <1>1. SUFFICES ASSUME ~crossed[u]
                 PROVE  Staying(u)' \/ Leaving(p, u)'
    BY <1>0 DEF UserOK
  <1>2. /\ at[p].logout => Leaving(p, u)
        /\ ~at[p].logout => Staying(u) /\ p # Cleaner
        /\ at[p] # NoJob
    BY <1>1, OwnUser
  <1>3. /\ p = Cleaner => at[p].pc \in PurgePCs /\ at[p].logout
        /\ p # Cleaner /\ at[p].logout => at[p].pc \in OutPCs
        /\ ~at[p].logout => at[p].pc \in InPCs
    BY <1>2, KindOfJob
  <1>4. /\ at[p].logout => /\ u \in online <=> at[p].pc # "zrem"
                           /\ \A k \in LiveKeys(u) :
                                k = at[p].key /\ at[p].pc \in {"expire", "expireUser",
                                                          "zadd", "lookup", "del"}
                           /\ activity[u] # Absent
    BY <1>2 DEF Leaving
  <1>5. SetKey(p) => Staying(u)'
    <2> SUFFICES ASSUME SetKey(p) PROVE Staying(u)'
      OBVIOUS
    <2>1. Send(p, "set", "setUser") /\ online' = online /\ at[p].pc = "set"
      BY DEF SetKey, Send
    <2>2. ~at[p].logout
      BY <1>3, <2>1 DEF OutPCs, PurgePCs
    <2> QED
      BY <1>2, <2>1, <2>2, StayOn DEF PCs
  <1>6. SetUserKey(p) => Staying(u)'
    <2> SUFFICES ASSUME SetUserKey(p) PROVE Staying(u)'
      OBVIOUS
    <2>1. Send(p, "setUser", "hset") /\ online' = online /\ at[p].pc = "setUser"
      BY DEF SetUserKey, Send
    <2>2. ~at[p].logout
      BY <1>3, <2>1 DEF OutPCs, PurgePCs
    <2>3. userLeft'[u] = TTL
      BY WorkTypes DEF SetUserKey
    <2>4. Outlasted(u)'
      BY <2>3 DEF Outlasted, LiveKeys, PInv, PTypeOK
    <2> QED
      BY <1>2, <2>1, <2>2, <2>4, StayOn DEF PCs
  <1>7. HSetOnline(p) => Staying(u)'
    <2> SUFFICES ASSUME HSetOnline(p) PROVE Staying(u)'
      OBVIOUS
    <2>1. Send(p, "hset", "zadd") /\ u \in online' /\ at[p].pc = "hset"
      BY DEF HSetOnline, Send
    <2>2. ~at[p].logout
      BY <1>3, <2>1 DEF OutPCs, PurgePCs
    <2>3. Outlasted(u) => Outlasted(u)'
      BY DEF HSetOnline, Outlasted, LiveKeys
    <2> QED
      BY <1>2, <2>1, <2>2, <2>3, StayOn DEF PCs
  <1>8. ZAddActivity(p) => Staying(u)' \/ Leaving(p, u)'
    <2> SUFFICES ASSUME ZAddActivity(p) PROVE Staying(u)' \/ Leaving(p, u)'
      OBVIOUS
    <2>1. /\ activity'[u] = 0 /\ online' = online /\ at[p].pc = "zadd"
          /\ sessionUser' = sessionUser /\ sessionLeft' = sessionLeft
          /\ Send(p, "zadd", IF at[p].logout THEN "lookup" ELSE "idle")
      BY WorkTypes DEF ZAddActivity, Send
    <2>2. CASE at[p].logout
      <3>1. Send(p, "zadd", "lookup")
        BY <2>1, <2>2
      <3> QED
        BY <1>0, <1>2, <1>4, <2>1, <2>2, <3>1, LeaveOn DEF PCs, Absent
    <2>3. CASE ~at[p].logout
      <3>1. Send(p, "zadd", "idle")
        BY <2>1, <2>3
      <3>2. Aging(u)'
        <4>1. phase' = phase
          BY <3>1 DEF Send
        <4> QED
          BY <2>1, <4>1, WorkTypes DEF Aging, LiveKeys
      <3>3. activity'[u] # Absent
        BY <2>1 DEF Absent
      <3>4. Outlasted(u) => Outlasted(u)'
        BY DEF ZAddActivity, Outlasted, LiveKeys
      <3> QED
        BY <1>2, <2>1, <2>3, <3>1, <3>2, <3>3, <3>4, StayOn DEF PCs
    <2> QED
      BY <2>2, <2>3
  <1>9. ASSUME NEW cmd \in {"expire", "expireUser"}, NEW next \in {"expireUser", "zadd"},
               Send(p, cmd, next), next = "expireUser" \/ Outlasted(u)',
               UNCHANGED <<sessionUser, online, activity>>
        PROVE  Staying(u)' \/ Leaving(p, u)'
    <2>1. next \in PCs /\ next # "idle" /\ cmd # "idle" /\ at[p].pc = cmd
      BY <1>9 DEF PCs, Send
    <2>2. CASE at[p].logout
      BY <1>0, <1>2, <1>4, <1>9, <2>1, <2>2, LeaveOn
    <2>3. CASE ~at[p].logout
      BY <1>2, <1>9, <2>1, <2>3, StayOn
    <2> QED
      BY <2>2, <2>3
  <1>10. ExpireKey(p) => Staying(u)' \/ Leaving(p, u)'
    BY <1>9 DEF ExpireKey, Refresh
  <1>11. ExpireUserKey(p) => Staying(u)' \/ Leaving(p, u)'
    <2> SUFFICES ASSUME ExpireUserKey(p) PROVE Staying(u)' \/ Leaving(p, u)'
      OBVIOUS
    <2>1. /\ userLeft'[u] = IF userKey[u] = NoKey THEN 0 ELSE TTL
          /\ UNCHANGED <<sessionUser, sessionLeft, userKey>>
      BY WorkTypes DEF ExpireUserKey
    <2>2. Outlasted(u)'
      BY <2>1, WorkTypes, NobodysJob DEF Outlasted, LiveKeys
    <2> QED
      BY <1>9, <2>2 DEF ExpireUserKey
  <1>12. LookupSession(p) => Leaving(p, u)'
    <2> SUFFICES ASSUME LookupSession(p) PROVE Leaving(p, u)'
      OBVIOUS
    <2>1. /\ UNCHANGED redis /\ at[p].pc = "lookup"
          /\ Send(p, "lookup", IF sessionUser[at[p].key] = NoUser THEN "delGone" ELSE "del")
      BY DEF LookupSession, Send
    <2>2. at[p].logout
      BY <1>3, <2>1 DEF InPCs
    <2>3. CASE sessionUser[at[p].key] = NoUser
      <3>1. Send(p, "lookup", "delGone")
        BY <2>1, <2>3
      <3>2. LiveKeys(u)' = {}
        BY <1>0, <1>4, <2>1, <2>2, <2>3, NobodysJob DEF redis
      <3> QED
        BY <1>2, <1>4, <2>1, <2>2, <3>1, <3>2, LeaveOn DEF PCs, redis
    <2>4. CASE sessionUser[at[p].key] # NoUser
      <3>1. Send(p, "lookup", "del")
        BY <2>1, <2>4
      <3> QED
        BY <1>0, <1>2, <1>4, <2>1, <2>2, <3>1, LeaveOn DEF PCs, redis
    <2> QED
      BY <2>3, <2>4
  <1>13. DelKey(p) => Staying(u)' \/ Leaving(p, u)'
    <2> SUFFICES ASSUME DelKey(p) PROVE Staying(u)' \/ Leaving(p, u)'
      OBVIOUS
    <2>1. /\ online' = online /\ activity' = activity
          /\ sessionUser' = [sessionUser EXCEPT ![at[p].key] = NoUser]
          /\ at[p].pc \in {"del", "delGone"}
          /\ Send(p, "del", "delUser") \/ Send(p, "delGone", "idle")
      BY DEF DelKey, Send
    <2>2. at[p].logout
      BY <1>3, <2>1 DEF InPCs
    <2>3. LiveKeys(u)' = {}
      BY <1>0, <1>4, <2>1, <2>2, NobodysJob, WorkTypes
    <2>4. CASE Send(p, "del", "delUser")
      BY <1>2, <1>4, <2>1, <2>2, <2>3, <2>4, LeaveOn DEF PCs
    <2>5. CASE Send(p, "delGone", "idle")
      BY <1>2, <1>4, <2>1, <2>2, <2>3, <2>5, LeaveDone DEF PCs
    <2> QED
      BY <2>1, <2>4, <2>5
  <1>14. DelUserKey(p) => Leaving(p, u)'
    <2> SUFFICES ASSUME DelUserKey(p) PROVE Leaving(p, u)'
      OBVIOUS
    <2>1. /\ UNCHANGED <<sessionUser, online, activity>>
          /\ Send(p, "delUser", "hdel") /\ at[p].pc = "delUser"
      BY DEF DelUserKey, Send
    <2>2. at[p].logout
      BY <1>3, <2>1 DEF InPCs
    <2>3. LiveKeys(u)' = {}
      BY <1>0, <1>4, <2>1, <2>2
    <2> QED
      BY <1>2, <1>4, <2>1, <2>2, <2>3, LeaveOn DEF PCs
  <1>15. HDelOnline(p) => Leaving(p, u)'
    <2> SUFFICES ASSUME HDelOnline(p) PROVE Leaving(p, u)'
      OBVIOUS
    <2>1. /\ UNCHANGED <<sessionUser, activity>> /\ u \notin online'
          /\ Send(p, "hdel", "zrem") /\ at[p].pc = "hdel"
      BY DEF HDelOnline, Send
    <2>2. at[p].logout
      BY <1>3, <2>1 DEF InPCs
    <2>3. LiveKeys(u)' = {}
      BY <1>0, <1>4, <2>1, <2>2
    <2> QED
      BY <1>2, <1>4, <2>1, <2>2, <2>3, LeaveOn DEF PCs
  <1>16. ZRemActivity(p) => Staying(u)'
    <2> SUFFICES ASSUME ZRemActivity(p) PROVE Staying(u)'
      OBVIOUS
    <2>1. /\ UNCHANGED <<sessionUser, online>> /\ activity'[u] = Absent
          /\ Send(p, "zrem", "idle") /\ at[p].pc = "zrem"
      BY WorkTypes DEF ZRemActivity, Send
    <2>2. at[p].logout
      BY <1>3, <2>1 DEF InPCs
    <2>3. LiveKeys(u)' = {}
      BY <1>0, <1>4, <2>1, <2>2
    <2> QED
      BY <1>2, <1>4, <2>1, <2>2, <2>3, LeaveDone
  <1> QED
    BY <1>5, <1>6, <1>7, <1>8, <1>10, <1>11, <1>12, <1>13, <1>14, <1>15, <1>16
       DEF Command

\* Every other user stays in order.
LEMMA CommandOther ==
    ASSUME PInv, PInv', KeysOK, NEW p \in Procs, Command(p),
           NEW u \in Users, at[p].user # u, UserOK(u)
    PROVE  UserOK(u)'
  <1>0. /\ sessionUser \in [Keys -> Users \cup {NoUser}]
        /\ sessionLeft \in [Keys -> 0 .. TTL] /\ sessionLeft' \in [Keys -> 0 .. TTL]
        /\ activity \in [Users -> Absent .. (MaxAge + Second)] /\ u # NoUser
        /\ userKey \in [Users -> Keys \cup {NoKey}] /\ userLeft \in [Users -> 0 .. TTL]
        /\ TTL \in Nat
        /\ \A v \in Keys : sessionLeft[v] <= sessionLeft[v]
    BY WorkTypes, NoUserAssumption DEF PInv, PTypeOK
  <1>1. CASE SetKey(p)
    <2>1. Send(p, "set", "setUser") /\ at[p].key \in Keys
      BY <1>1 DEF SetKey, Send, KeysOK
    <2> QED
      BY <1>0, <1>1, <2>1, SendOther DEF SetKey, PCs
  <1>2. CASE SetUserKey(p)
    BY <1>0, <1>2, SendOther DEF SetUserKey, PCs
  <1>3. CASE HSetOnline(p)
    BY <1>0, <1>3, SendOther DEF HSetOnline, PCs
  <1>4. CASE ZAddActivity(p)
    <2>1. PICK next \in {"lookup", "idle"} : Send(p, "zadd", next)
      BY <1>4 DEF ZAddActivity
    <2> QED
      BY <1>0, <1>4, <2>1, SendOther DEF ZAddActivity, PCs
  <1>5. CASE ExpireKey(p)
    <2>1. /\ Send(p, "expire", "expireUser") /\ at[p].key \in Keys
          /\ sessionUser[at[p].key] \in {NoUser, at[p].user}
      BY <1>5 DEF ExpireKey, Send, KeysOK
    <2>2. /\ sessionUser' = sessionUser
          /\ \A k \in Keys : sessionUser[k] = u => sessionLeft'[k] = sessionLeft[k]
          /\ UNCHANGED <<online, activity, userKey, userLeft>>
      BY <1>0, <1>5, <2>1 DEF ExpireKey, Refresh
    <2> QED
      BY <1>0, <2>1, <2>2, SendOther DEF PCs
  <1>6. CASE ExpireUserKey(p)
    BY <1>0, <1>6, SendOther DEF ExpireUserKey, PCs
  <1>7. CASE LookupSession(p)
    <2>1. PICK next \in {"delGone", "del"} : Send(p, "lookup", next)
      BY <1>7 DEF LookupSession
    <2> QED
      BY <1>0, <1>7, <2>1, SendOther DEF LookupSession, PCs, redis
  <1>8. CASE DelKey(p)
    <2>1. PICK cmd \in {"del", "delGone"}, next \in {"delUser", "idle"} :
             Send(p, cmd, next)
      BY <1>8 DEF DelKey
    <2> QED
      BY <1>0, <1>8, <2>1, SendOther DEF DelKey, PCs
  <1>9. CASE DelUserKey(p)
    BY <1>0, <1>9, SendOther DEF DelUserKey, PCs
  <1>10. CASE HDelOnline(p)
    BY <1>0, <1>10, SendOther DEF HDelOnline, PCs
  <1>11. CASE ZRemActivity(p)
    BY <1>0, <1>11, SendOther DEF ZRemActivity, PCs
  <1> QED
    BY <1>1, <1>2, <1>3, <1>4, <1>5, <1>6, <1>7, <1>8, <1>9, <1>10, <1>11
       DEF Command

\* A step that leaves Redis alone and starts or ends nothing of u's.
LEMMA NotMine ==
    ASSUME PInv, PInv', NEW u \in Users, UserOK(u), UNCHANGED <<redis, phase>>,
           crossed[u] => crossed'[u],
           \A q \in Procs : WorksOn(q, u)' <=> WorksOn(q, u),
           \A q \in Procs : at[q].user = u \/ at'[q].user = u => at'[q] = at[q]
    PROVE  UserOK(u)'
  <1>1. ASSUME NEW k \in Keys, sessionUser'[k] = u
        PROVE  /\ sessionUser[k] = u
               /\ sessionLeft'[k] + activity'[u] + phase'
                     <= sessionLeft[k] + activity[u] + phase
    <2>1. sessionLeft[k] \in Int /\ activity[u] \in Int /\ phase \in Int
      BY PresenceAssumption DEF PInv, PTypeOK, Absent
    <2> QED
      BY <1>1, <2>1 DEF redis
  <1>2. /\ Outlasted(u) => Outlasted(u)'
        /\ LiveKeys(u) \subseteq {userKey[u]} => LiveKeys(u)' \subseteq {userKey'[u]}
    BY DEF redis, Outlasted, LiveKeys
  <1>3. activity'[u] >= activity[u]
    <2>1. activity[u] \in Int
      BY DEF PInv, PTypeOK, Absent
    <2> QED
      BY <2>1 DEF redis
  <1> QED
    BY <1>1, <1>2, <1>3, Undisturbed DEF redis

LEMMA LoginUser ==
    ASSUME PInv, PInv', NEW r \in Slots, NEW k \in Keys, NEW v \in Users,
           Login(r, v, k), NEW u \in Users, UserOK(u)
    PROVE  UserOK(u)'
  <1>1. /\ Start(r, "set", v, k, FALSE) /\ UNCHANGED <<redis, phase, todo>>
        /\ crossed' = [crossed EXCEPT ![v] = Crossing(v, FALSE)]
    BY DEF Login
  <1>2. /\ at[r] = NoJob /\ at'[r].user = v /\ at'[r].pc = "set" /\ ~at'[r].logout
        /\ r # Cleaner /\ r \in Procs
        /\ \A q \in Procs : q # r => at'[q] = at[q]
    BY <1>1, StartJob, NobodysJob DEF PCs
  <1>3. CASE u # v
    <2>1. \A q \in Procs : /\ WorksOn(q, u)' <=> WorksOn(q, u)
                           /\ at[q].user = u \/ at'[q].user = u => at'[q] = at[q]
      BY <1>1, <1>2, <1>3, NobodysJob DEF WorksOn
    <2>2. crossed'[u] = crossed[u]
      BY <1>1, <1>3 DEF PInv, PTypeOK
    <2> QED
      BY <1>1, <2>1, <2>2, NotMine
  <1>4. CASE u = v
    <2> SUFFICES ASSUME ~crossed'[u] PROVE Staying(u)'
      BY DEF UserOK
    <2>1. \A q \in Procs : ~LogsOut(q, u)
      BY <1>1, <1>4 DEF PInv, PTypeOK, Crossing
    <2>2. ASSUME NEW q \in Procs PROVE ~LogsOut(q, u)'
      <3>1. CASE q = r
        BY <1>2, <3>1 DEF LogsOut
      <3>2. CASE q # r
        BY <1>1, <1>2, <2>1, <3>2 DEF LogsOut, WorksOn
      <3> QED
        BY <3>1, <3>2
    <2>3. LoginComes(u)' /\ Worked(u)' /\ KeyComes(u)'
      BY <1>2, <1>4 DEF LoginComes, Worked, WorksOn, KeyComes
    <2> QED
      BY <2>2, <2>3 DEF Staying
  <1> QED
    BY <1>3, <1>4

LEMMA AuthorizedUser ==
    ASSUME PInv, PInv', KeysOK, NEW r \in Slots, NEW k \in Keys, NEW logout \in BOOLEAN,
           Authorized(r, k, logout), NEW u \in Users, UserOK(u)
    PROVE  UserOK(u)'
  <1> DEFINE v == sessionUser[k]
  <1>1. /\ v \in Users /\ Start(r, "expire", v, k, logout) /\ UNCHANGED <<redis, phase, todo>>
        /\ crossed' = [crossed EXCEPT ![v] =
                          \/ @ \/ Crossing(v, logout)
                          \/ logout /\ LiveKeys(v) # {k}]
    BY DEF Authorized, PInv, PTypeOK
  <1>2. /\ at[r] = NoJob /\ at'[r].user = v /\ at'[r].pc = "expire" /\ at'[r].key = k
        /\ at'[r].logout = logout /\ r # Cleaner /\ r \in Procs
        /\ \A q \in Procs : q # r => at'[q] = at[q]
    <2>1. r \in Procs /\ r # Cleaner /\ "expire" \in PCs /\ "expire" # "idle"
      BY NobodysJob DEF PCs
    <2> QED
      BY <1>1, <2>1, StartJob
  <1>3. k \in LiveKeys(v) /\ LiveKeys(u)' = LiveKeys(u)
    BY <1>1 DEF LiveKeys, redis
  <1> HIDE DEF v
  <1>4. CASE u # v
    <2>1. \A q \in Procs : /\ WorksOn(q, u)' <=> WorksOn(q, u)
                           /\ at[q].user = u \/ at'[q].user = u => at'[q] = at[q]
      BY <1>1, <1>2, <1>4, NobodysJob DEF WorksOn
    <2>2. crossed'[u] = crossed[u]
      BY <1>1, <1>4 DEF PInv, PTypeOK
    <2> QED
      BY <1>1, <2>1, <2>2, NotMine
  <1>5. CASE u = v
    <2> SUFFICES ASSUME ~crossed'[u]
                 PROVE  Staying(u)' \/ \E q \in Procs : Leaving(q, u)'
      BY DEF UserOK
    <2>1. ~crossed[u] /\ ~Crossing(u, logout) /\ (logout => LiveKeys(u) = {k})
      BY <1>1, <1>5 DEF PInv, PTypeOK
    <2>2. \A q \in Procs : ~LogsOut(q, u)
      BY <2>1 DEF Crossing, LogsOut
    <2>3. Staying(u)
      BY <2>1, <2>2 DEF UserOK, Leaving
    <2>4. u \in online \/ LoginComes(u)
      BY <1>3, <1>5, <2>3 DEF Staying
    <2>5. CASE logout
      <3>1. \A q \in Procs : ~WorksOn(q, u)
        BY <2>1, <2>5 DEF Crossing
      <3>2. u \in online /\ activity[u] # Absent
        BY <2>3, <2>4, <3>1 DEF Staying, LoginComes, Worked, WorksOn
      <3>3. LogsOut(r, u)' /\ \A q \in Procs : WorksOn(q, u)' => q = r
        BY <1>1, <1>2, <1>5, <2>5, <3>1 DEF LogsOut, WorksOn
      <3>4. UNCHANGED <<online, activity>>
        BY <1>1 DEF redis
      <3> QED
        BY <1>2, <1>3, <1>5, <2>1, <2>5, <3>2, <3>3, <3>4 DEF Leaving
    <2>6. CASE ~logout
      <3>1. ASSUME NEW q \in Procs PROVE ~LogsOut(q, u)'
        <4>1. CASE q = r
          BY <1>2, <2>6, <4>1 DEF LogsOut
        <4>2. CASE q # r
          BY <1>1, <1>2, <2>2, <4>2 DEF LogsOut, WorksOn
        <4> QED
          BY <4>1, <4>2
      <3>2. u \in online' \/ LoginComes(u)'
        <4>1. LoginComes(u) => LoginComes(u)'
          BY <1>2, NobodysJob DEF LoginComes
        <4> QED
          BY <1>1, <2>4, <4>1 DEF redis
      <3>3. Worked(u)'
        BY <1>2, <1>5 DEF Worked, WorksOn
      <3>4. KeyComes(u)' \/ Outlasted(u)'
        <4>1. KeyComes(u) => KeyComes(u)'
          BY <1>2, NobodysJob DEF KeyComes
        <4>2. Outlasted(u) => Outlasted(u)'
          BY <1>1 DEF Outlasted, LiveKeys, redis
        <4> QED
          BY <2>3, <4>1, <4>2 DEF Staying
      <3> QED
        BY <3>1, <3>2, <3>3, <3>4 DEF Staying
    <2> QED
      BY <2>5, <2>6
  <1> QED
    BY <1>4, <1>5

\* Who is stale has at most the session that the purge ends, for less than a second
\* more, and nobody works on it, unless it crosses.
LEMMA ListStaleUser ==
    ASSUME PInv, PInv', KeysOK, ListStale, NEW u \in Users, UserOK(u)
    PROVE  UserOK(u)'
  <1>1. /\ at' = at /\ at[Cleaner] = NoJob /\ todo = {} /\ UNCHANGED <<redis, phase>>
        /\ todo' = {v \in Users : Stale(v)}
        /\ crossed' = [v \in Users |->
                          \/ crossed[v]
                          \/ /\ v \in todo'
                             /\ \/ Crossing(v, TRUE)
                                \/ ~(LiveKeys(v) \subseteq {userKey[v]})]
    BY DEF ListStale
  <1>2. CASE u \notin todo'
    <2>1. \A q \in Procs : WorksOn(q, u)' <=> WorksOn(q, u)
      BY <1>1, <1>2 DEF WorksOn
    <2> QED
      BY <1>1, <2>1, NotMine
  <1>3. CASE u \in todo'
    <2> SUFFICES ASSUME ~crossed'[u] PROVE Leaving(Cleaner, u)'
      BY NobodysJob DEF UserOK
    <2>1. /\ ~crossed[u] /\ \A q \in Procs : ~WorksOn(q, u)
          /\ LiveKeys(u) \subseteq {userKey[u]}
      BY <1>1, <1>3 DEF Crossing
    <2>2. Staying(u) /\ ~Worked(u) /\ ~LoginComes(u) /\ ~KeyComes(u)
      BY <2>1 DEF UserOK, Leaving, LogsOut, Worked, LoginComes, WorksOn, KeyComes
    <2>3. activity[u] # Absent /\ activity[u] >= MaxAge
      BY <1>1, <1>3 DEF Stale
    <2>4. u \in online /\ Aging(u) /\ Outlasted(u)
      BY <2>2, <2>3 DEF Staying
    <2>5. LogsOut(Cleaner, u)' /\ \A q \in Procs : WorksOn(q, u)' => q = Cleaner
      BY <1>1, <1>3, <2>1 DEF LogsOut, WorksOn
    <2>6. at'[Cleaner].user # u
      BY <1>1, NobodysJob
    <2>7. /\ u \in online' /\ activity'[u] = activity[u] /\ Aging(u)' /\ Outlasted(u)'
          /\ LiveKeys(u)' \subseteq {userKey'[u]}
      BY <1>1, <2>1, <2>4 DEF redis, LiveKeys, Aging, Outlasted
    <2> QED
      BY <2>3, <2>5, <2>6, <2>7 DEF Leaving
  <1> QED
    BY <1>2, <1>3

LEMMA PurgeNextUser ==
    ASSUME PInv, PInv', NEW v \in Users, PurgeNext(v), NEW u \in Users, UserOK(u)
    PROVE  UserOK(u)'
  <1>1. PICK cmd \in {"delUser", "del"} :
           /\ Start(Cleaner, cmd, v, userKey[v], TRUE)
           /\ userKey[v] # NoKey => cmd = "del"
    BY DEF PurgeNext
  <1>2. /\ v \in todo /\ todo' = todo \ {v} /\ UNCHANGED <<redis, phase, crossed>>
        /\ userKey[v] \in Keys \cup {NoKey}
    BY DEF PurgeNext, history, PInv, PTypeOK
  <1>3. /\ at[Cleaner] = NoJob /\ at'[Cleaner].user = v /\ at'[Cleaner].pc = cmd
        /\ at'[Cleaner].key = userKey[v] /\ (userKey[v] # NoKey => cmd = "del")
        /\ \A q \in Procs : q # Cleaner => at'[q] = at[q]
    <2>1. cmd \in PCs /\ cmd # "idle" /\ TRUE \in BOOLEAN /\ Cleaner \in Procs
      BY NobodysJob DEF PCs
    <2> QED
      BY <1>1, <1>2, <2>1, StartJob
  <1>4. \A q \in Procs : WorksOn(q, u)' <=> WorksOn(q, u)
    BY <1>2, <1>3, NobodysJob DEF WorksOn
  <1>5. CASE u # v
    <2>1. \A q \in Procs : at[q].user = u \/ at'[q].user = u => at'[q] = at[q]
      BY <1>3, <1>5, NobodysJob
    <2> QED
      BY <1>2, <1>4, <2>1, NotMine
  <1>6. CASE u = v
    <2> SUFFICES ASSUME ~crossed[u] PROVE Leaving(Cleaner, u)'
      BY <1>2, NobodysJob DEF UserOK
    <2>1. WorksOn(Cleaner, u) /\ LogsOut(Cleaner, u)
      BY <1>2, <1>6 DEF WorksOn, LogsOut
    <2>2. Leaving(Cleaner, u)
      BY <2>1, NobodysJob DEF UserOK, Staying, Leaving
    <2>3. at[Cleaner].user # u
      BY <1>3, NobodysJob
    <2>4. u \in online /\ LiveKeys(u) \subseteq {userKey[u]} /\ activity[u] # Absent
      BY <2>2, <2>3 DEF Leaving
    <2>5. LogsOut(Cleaner, u)' /\ \A q \in Procs : WorksOn(q, u)' => q = Cleaner
      BY <1>4, <2>1, <2>2, NobodysJob DEF LogsOut, Leaving
    <2>6. /\ u \in online' /\ activity'[u] # Absent
          /\ LiveKeys(u)' \subseteq {userKey[u]} /\ LiveKeys(u)' \subseteq Keys
      BY <1>2, <2>4 DEF redis, LiveKeys
    <2>7. /\ at'[Cleaner].key = userKey[u]
          /\ userKey[u] # NoKey => at'[Cleaner].pc = "del"
          /\ at'[Cleaner].pc # "zrem"
      BY <1>3, <1>6
    <2>8. ASSUME NEW k \in LiveKeys(u)'
          PROVE  k = at'[Cleaner].key /\ at'[Cleaner].pc = "del"
      BY <2>6, <2>7, NobodysJob
    <2> QED
      BY <1>3, <1>6, <2>5, <2>6, <2>7, <2>8 DEF Leaving
  <1> QED
    BY <1>5, <1>6

LEMMA FailUser ==
    ASSUME PInv, PInv', NEW p \in Procs, Fail(p), NEW u \in Users, UserOK(u)
    PROVE  UserOK(u)'
  <1>1. /\ at' = [at EXCEPT ![p] = NoJob] /\ at \in [Procs -> Jobs]
        /\ UNCHANGED <<redis, phase>>
        /\ todo' = IF p = Cleaner THEN {} ELSE todo
        /\ crossed' = [v \in Users |-> crossed[v] \/ at[p].user = v]
    BY DEF Fail, PInv, PTypeOK
  <1>2. at'[p] = NoJob /\ \A q \in Procs : q # p => at'[q] = at[q]
    BY <1>1
  <1>3. CASE at[p].user = u \/ crossed[u]
    BY <1>1, <1>3 DEF UserOK
  <1>4. CASE at[p].user # u /\ ~(p = Cleaner /\ u \in todo)
    <2>1. \A q \in Procs : /\ WorksOn(q, u)' <=> WorksOn(q, u)
                           /\ at[q].user = u \/ at'[q].user = u => at'[q] = at[q]
      BY <1>1, <1>2, <1>4, NobodysJob DEF WorksOn
    <2> QED
      BY <1>1, <2>1, NotMine
  <1>5. CASE at[p].user # u /\ p = Cleaner /\ u \in todo /\ ~crossed[u]
    <2>1. LogsOut(Cleaner, u) /\ WorksOn(Cleaner, u)
      BY <1>5 DEF LogsOut, WorksOn
    <2>2. Leaving(Cleaner, u)
      BY <1>5, <2>1, NobodysJob DEF UserOK, Staying, Leaving
    <2>3. u \in online /\ activity[u] # Absent /\ Aging(u) /\ Outlasted(u)
      BY <1>5, <2>2 DEF Leaving
    <2>4. ASSUME NEW q \in Procs PROVE ~WorksOn(q, u)'
      BY <1>1, <1>2, <1>5, <2>2, NobodysJob DEF WorksOn, Leaving
    <2>5. u \in online' /\ activity'[u] # Absent /\ Aging(u)' /\ Outlasted(u)'
      BY <1>1, <2>3 DEF redis, LiveKeys, Aging, Outlasted
    <2> QED
      BY <2>4, <2>5 DEF UserOK, Staying, LogsOut
  <1> QED
    BY <1>3, <1>4, <1>5

\* Time takes from a session what it adds to its user's age and to the second of
\* now, and from the key that leads to it no more.
LEMMA TimeUser ==
    ASSUME PInv, PInv', KeysOK, TimePasses, NEW u \in Users, UserOK(u)
    PROVE  UserOK(u)'
  <1>1. /\ UNCHANGED <<online, at, todo, crossed>>
        /\ phase' = IF phase + 1 = Second THEN 0 ELSE phase + 1
        /\ activity'[u] = IF phase' # 0 \/ activity[u] = Absent \/ activity[u] >= MaxAge
                          THEN activity[u] ELSE activity[u] + Second
        /\ activity[u] \in Absent .. (MaxAge + Second) /\ MaxAge \in Nat
        /\ phase \in Nat /\ phase < Second /\ Second \in Nat
    BY WorkTypes DEF TimePasses, history
  <1>2. /\ activity'[u] = Absent <=> activity[u] = Absent
        /\ activity'[u] \in Int /\ activity[u] \in Int
        /\ activity'[u] >= activity[u]
        /\ activity'[u] + phase' <= activity[u] + phase + 1 /\ phase' \in Int
    BY <1>1 DEF Absent
  <1>3. ASSUME NEW k \in Keys, sessionUser'[k] = u
        PROVE  /\ sessionUser[k] = u /\ sessionLeft[k] \in Int
               /\ sessionLeft'[k] = sessionLeft[k] - 1 /\ sessionLeft'[k] # 0
    <2>1. sessionUser[k] = u /\ sessionLeft'[k] # 0
      BY <1>3, NobodysJob DEF TimePasses
    <2> QED
      BY <2>1, WorkTypes DEF TimePasses
  <1>4. ASSUME NEW k \in Keys, sessionUser'[k] = u
        PROVE  /\ sessionUser[k] = u
               /\ sessionLeft'[k] + activity'[u] + phase'
                     <= sessionLeft[k] + activity[u] + phase
    <2>1. /\ sessionUser[k] = u /\ sessionLeft[k] \in Int
          /\ sessionLeft'[k] = sessionLeft[k] - 1
      BY <1>3, <1>4
    <2> QED
      BY <1>1, <1>2, <2>1
  <1>5. ASSUME NEW k \in LiveKeys(u)', Outlasted(u), userKey[u] = k
        PROVE  userKey'[u] = k /\ sessionLeft'[k] <= userLeft'[u]
    <2>1. /\ k \in Keys /\ k \in LiveKeys(u) /\ sessionLeft[k] \in Int
          /\ sessionLeft'[k] = sessionLeft[k] - 1 /\ sessionLeft'[k] # 0
          /\ sessionLeft[k] > 0
      BY <1>3, <1>5, WorkTypes, NobodysJob DEF LiveKeys
    <2>2. sessionLeft[k] <= userLeft[u] /\ userLeft[u] \in Int
      BY <1>5, <2>1, WorkTypes DEF Outlasted
    <2>3. /\ userLeft'[u] = IF userLeft[u] = 0 THEN 0 ELSE userLeft[u] - 1
          /\ userKey'[u] = IF userLeft'[u] = 0 THEN NoKey ELSE userKey[u]
      BY DEF TimePasses
    <2> QED
      BY <1>5, <2>1, <2>2, <2>3
  <1>6. LiveKeys(u)' \subseteq LiveKeys(u) /\ LiveKeys(u)' \subseteq Keys
    BY <1>3 DEF LiveKeys
  <1>7. userKey'[u] \in {userKey[u], NoKey}
    BY DEF TimePasses
  <1>8. ASSUME Outlasted(u) PROVE Outlasted(u)'
    BY <1>5, <1>6, <1>7, <1>8, NobodysJob DEF Outlasted
  <1>9. ASSUME LiveKeys(u) \subseteq {userKey[u]}, Outlasted(u)
        PROVE  LiveKeys(u)' \subseteq {userKey'[u]}
    BY <1>5, <1>6, <1>9
  <1>10. \A q \in Procs : WorksOn(q, u)' <=> WorksOn(q, u)
    BY <1>1 DEF WorksOn
  <1> QED
    BY <1>1, <1>2, <1>4, <1>8, <1>9, <1>10, Undisturbed

LEMMA PresenceStep == PresenceInv /\ [PNext]_pvars => PresenceInv'
  <1> SUFFICES ASSUME PInv, JobsOK, KeysOK, \A u \in Users : UserOK(u), [PNext]_pvars
               PROVE  PresenceInv'
    BY DEF PresenceInv
  <1>1. PInv' /\ JobsOK' /\ KeysOK'
    BY PStepInv, JobsStep, KeysStep
  <1>2. ASSUME NEW u \in Users PROVE UserOK(u)'
    <2>1. UserOK(u)
      OBVIOUS
    <2>2. ASSUME NEW p \in Procs, Command(p) PROVE UserOK(u)'
      BY <1>1, <2>1, <2>2, CommandOwn, CommandOther
    <2>3. CASE UNCHANGED pvars
      <3>1. UNCHANGED <<redis, phase, at, todo, crossed>>
        BY <2>3 DEF pvars, history
      <3>2. \A q \in Procs : WorksOn(q, u)' <=> WorksOn(q, u)
        BY <3>1 DEF WorksOn
      <3> QED
        BY <1>1, <2>1, <3>1, <3>2, NotMine
    <2> QED
      BY <1>1, <2>1, <2>2, <2>3, LoginUser, AuthorizedUser, ListStaleUser,
         PurgeNextUser, FailUser, TimeUser DEF PNext, PurgeInactive
  <1> QED
    BY <1>1, <1>2 DEF PresenceInv

LEMMA PresenceStart == PInit => PresenceInv
  <1> SUFFICES ASSUME PInit PROVE PresenceInv
    OBVIOUS
  <1>1. PInv
    BY PInitInv
  <1>2. /\ \A p \in Procs : at[p] = NoJob
        /\ todo = {} /\ online = {}
        /\ \A k \in Keys : sessionUser[k] = NoUser
        /\ \A u \in Users : userKey[u] = NoKey /\ activity[u] = Absent
    BY DEF PInit
  <1>3. JobsOK
    BY <1>2, NobodysJob DEF JobsOK
  <1>4. KeysOK
    BY <1>2, NobodysJob DEF KeysOK
  <1>5. ASSUME NEW u \in Users PROVE UserOK(u)
    <2>1. LiveKeys(u) = {} /\ \A p \in Procs : ~WorksOn(p, u)
      BY <1>2, NobodysJob DEF LiveKeys, WorksOn
    <2>2. Aging(u) /\ Outlasted(u)
      BY <2>1 DEF Aging, Outlasted
    <2> QED
      BY <1>2, <2>1, <2>2 DEF UserOK, Staying, LogsOut, Worked
  <1> QED
    BY <1>1, <1>3, <1>4, <1>5 DEF PresenceInv

\* With nobody working on a user, a user with a session is online and who is
\* online is exactly who PurgeInactive watches, and PurgeInactive lists nobody with a
\* session that would outlast the second, unless operations crossed: for any users,
\* keys, requests, failures, parts of a second, and a sessionTTL up to sessionMaxAge
\* (all of redis_cache.go's operations).
THEOREM SessionsAndPresenceAgree == PSpec => []PresenceAgrees
  <1>1. PresenceInv => PresenceAgrees
    <2> SUFFICES ASSUME PresenceInv, NEW u \in Users, ~crossed[u]
                 PROVE  /\ Quiet(u) => /\ LiveKeys(u) # {} => u \in online
                                       /\ u \in online <=> activity[u] # Absent
                        /\ u \in todo => \A k \in LiveKeys(u) :
                                            sessionLeft[k] + phase < Second
      BY DEF PresenceAgrees
    <2>1. ASSUME Quiet(u)
          PROVE  /\ LiveKeys(u) # {} => u \in online
                 /\ u \in online <=> activity[u] # Absent
      <3>1. Staying(u) /\ ~Worked(u) /\ ~LoginComes(u)
        BY <2>1 DEF PresenceInv, UserOK, Leaving, LogsOut, Quiet, Worked, LoginComes,
           WorksOn
      <3> QED
        BY <3>1 DEF Staying
    <2>2. ASSUME u \in todo, NEW k \in LiveKeys(u)
          PROVE  sessionLeft[k] + phase < Second
      <3>1. LogsOut(Cleaner, u) /\ WorksOn(Cleaner, u) /\ at[Cleaner].user # u
        BY <2>2 DEF PresenceInv, JobsOK, LogsOut, WorksOn
      <3>2. Leaving(Cleaner, u)
        BY <3>1, NobodysJob DEF PresenceInv, UserOK, Staying, Leaving
      <3>3. activity[u] >= MaxAge /\ Aging(u)
        BY <3>1, <3>2 DEF Leaving
      <3>4. sessionLeft[k] + activity[u] + phase < TTL + Second /\ k \in Keys
        BY <2>2, <3>3 DEF Aging, LiveKeys
      <3>5. /\ sessionLeft[k] \in Int /\ activity[u] \in Int /\ phase \in Int
            /\ TTL \in Int /\ MaxAge \in Int /\ Second \in Int /\ TTL <= MaxAge
        BY <3>4, WorkTypes DEF PresenceInv, Absent
      <3> QED
        BY <3>3, <3>4, <3>5
    <2> QED
      BY <2>1, <2>2
  <1> QED
    BY <1>1, PresenceStart, PresenceStep, PTL DEF PSpec

-----------------------------------------------------------------------------
(* Challenges.                                                             *)

Answer == {"accepted", "declined"}

\* The handler of a socket in use knows its user.
Owned ==
    \A c \in Conns :
        pc[c] \in {"authorized", "reading", "cut"} => owner[c] \in Users

Stages == {"none", "store", "push", "write", "writing", "take", "create", "over"}

\* AnsweredOnce, without counting; and what is pending has been stored.
Answers ==
    \A h \in Ids :
        /\ h \in challenges => stage[h] \notin {"none", "store"}
        /\ IF h \in challenges \/ stage[h] \in {"none", "store"} THEN taken[h] = {}
           ELSE \E k \in Clicks : taken[h] = {<<k, to[h]>>}

Takers ==
    \A k \in Clicks :
        stage[k] \in {"create", "push", "write", "writing"} => <<k, by[k]>> \in taken[of[k]]

\* A challenge that was made has its two users, and a click under way its challenge.
Addressed ==
    /\ \A h \in Ids : stage[h] # "none" => from[h] \in Users /\ to[h] \in Users
    /\ \A k \in Clicks : stage[k] \notin {"none", "over"} =>
          of[k] \in Ids /\ by[k] \in Users /\ stage[of[k]] # "none"

\* What the actions on sockets and sessions can disturb.
SocketsOK ==
    /\ loggedIn \subseteq Users /\ expired \subseteq Users
    /\ ending \in [Users -> 0 .. MaxEnding]
    /\ conns \in [Users -> Conns \cup {NoConn}]
    /\ pc \in [Conns -> {"new", "authorized", "reading", "cut", "done"}]
    /\ owner \in [Conns -> Users \cup {NoUser}]
    /\ closing \subseteq Conns
    /\ skipped \subseteq Users /\ late \subseteq Conns
    /\ Owned /\ ConnsAreListed /\ LoggedOutIsCut

\* And what those on challenges can.
ChallengesOK ==
    /\ challenges \subseteq Ids /\ taken \in [Ids -> SUBSET (Clicks \X Users)]
    /\ from \in [Ids -> Users \cup {NoUser}] /\ to \in [Ids -> Users \cup {NoUser}]
    /\ of \in [Clicks -> Ids \cup {NoId}] /\ by \in [Clicks -> Users \cup {NoUser}]
    /\ answer \in [Clicks -> Answer \cup {"none"}]
    /\ stage \in [Pushers -> Stages] /\ via \in [Pushers -> Conns \cup {NoConn}]
    /\ Answers /\ Takers /\ Addressed

CInv == SocketsOK /\ ChallengesOK

LEMMA CInitInv == CInit => CInv
  <1> SUFFICES ASSUME CInit PROVE CInv
    OBVIOUS
  <1>1. SocketsOK
    BY NoUserAssumption, ChallengesAssumption
       DEF CInit, SocketsOK, Owned, ConnsAreListed, LoggedOutIsCut
  <1>2. ChallengesOK
    BY DEF CInit, ChallengesOK, Answers, Takers, Addressed, Pushers, Stages
  <1> QED
    BY <1>1, <1>2 DEF CInv

\* Sessions come and go, and leave the sockets alone.
LEMMA SessionStep == SocketsOK /\ SessionNext => SocketsOK'
  <1> SUFFICES ASSUME SocketsOK, SessionNext PROVE SocketsOK'
    OBVIOUS
  <1> USE ChallengesAssumption DEF SocketsOK, socketVars
  <1>1. ASSUME NEW u \in Users, LogIn(u) PROVE SocketsOK'
    BY <1>1 DEF LogIn, Owned, ConnsAreListed, LoggedOutIsCut
  <1>2. ASSUME NEW u \in Users, LogOut(u) PROVE SocketsOK'
    BY <1>2 DEF LogOut, Owned, ConnsAreListed, LoggedOutIsCut
  <1>3. ASSUME NEW u \in Users, Expire(u) PROVE SocketsOK'
    BY <1>3 DEF Expire, Owned, ConnsAreListed, LoggedOutIsCut
  <1>4. CASE Purge
    <2>1. \A u \in Users : /\ ending'[u] \in 0 .. MaxEnding
                           /\ u \in expired => ending'[u] > 0
                           /\ ending[u] > 0 => ending'[u] > 0
      BY <1>4 DEF Purge
    <2>2. ending' \in [Users -> 0 .. MaxEnding]
      BY <1>4, <2>1 DEF Purge
    <2>3. LoggedOutIsCut'
      BY <1>4, <2>1 DEF Purge, LoggedOutIsCut, Owned
    <2> QED
      BY <1>4, <2>2, <2>3 DEF Purge, Owned, ConnsAreListed
  <1>5. CASE PurgeFails
    BY <1>5 DEF PurgeFails, Owned, ConnsAreListed, LoggedOutIsCut
  <1> QED
    BY <1>1, <1>2, <1>3, <1>4, <1>5 DEF SessionNext

\* A socket that is closed stays in place, and no other changes.
LEMMA CloseType ==
    ASSUME SocketsOK, NEW c \in Conns \cup {NoConn}
    PROVE  /\ Close(c) \in [Conns -> {"new", "authorized", "reading", "cut", "done"}]
           /\ \A d \in Conns :
                 Close(c)[d] = IF d = c /\ pc[d] = "reading" THEN "cut" ELSE pc[d]
  BY DEF SocketsOK, Close

LEMMA RegisterStep ==
    ASSUME SocketsOK, NEW c \in Conns, Register(c)
    PROVE  SocketsOK'
  <1> DEFINE u == owner[c]
             old == conns[u]
  <1>1. u \in Users /\ pc[c] = "authorized" /\ old \in Conns \cup {NoConn}
    BY DEF SocketsOK, Owned, Register
  <1>2. /\ pc' \in [Conns -> {"new", "authorized", "reading", "cut", "done"}]
        /\ pc'[c] = "reading"
        /\ \A d \in Conns \ {c} :
              pc'[d] = IF d = old /\ pc[d] = "reading" THEN "cut" ELSE pc[d]
    BY <1>1, CloseType DEF Register, SocketsOK
  <1>3. /\ conns' = [conns EXCEPT ![u] = c]
        /\ late' = IF u \in loggedIn THEN late ELSE late \cup {c}
        /\ UNCHANGED <<sessionVars, owner, closing, skipped>>
    BY DEF Register
  <1> HIDE DEF u, old
  <1>4. Owned'
    BY <1>1, <1>2, <1>3 DEF SocketsOK, Owned, u
  <1>5. ConnsAreListed'
    <2>1. ASSUME NEW d \in Conns, d \notin closing', pc'[d] = "reading"
          PROVE  conns'[owner'[d]] = d
      BY <1>1, <1>2, <1>3, <2>1 DEF SocketsOK, Owned, ConnsAreListed, u, old
    <2>2. ASSUME NEW v \in Users, conns'[v] # NoConn
          PROVE  pc'[conns'[v]] \in {"reading", "cut"} /\ owner'[conns'[v]] = v
      <3>1. CASE v = u
        BY <1>1, <1>2, <1>3, <3>1 DEF SocketsOK, u
      <3>2. CASE v # u
        BY <1>1, <1>2, <1>3, <2>2, <3>2 DEF SocketsOK, ConnsAreListed
      <3> QED
        BY <3>1, <3>2
    <2> QED
      BY <2>1, <2>2 DEF ConnsAreListed
  <1>6. LoggedOutIsCut'
    BY <1>1, <1>2, <1>3 DEF SocketsOK, LoggedOutIsCut, sessionVars, u
  <1> QED
    BY <1>1, <1>2, <1>3, <1>4, <1>5, <1>6 DEF SocketsOK, sessionVars

\* closeConn takes the one socket of u that may be open out of conns, and no open
\* socket of u is left that it does not close.
LEMMA CloseConnStep ==
    ASSUME SocketsOK, NEW u \in Users, CloseConn(u)
    PROVE  SocketsOK'
  <1> USE DEF CloseConn, SocketsOK
  <1>1. ASSUME NEW d \in Conns, d \notin closing', pc[d] = "reading"
        PROVE  owner[d] # u /\ d \notin closing
    BY <1>1, ChallengesAssumption DEF ConnsAreListed, ToClose, Owned
  <1>2. Owned'
    BY DEF Owned
  <1>3. ConnsAreListed'
    BY <1>1 DEF ConnsAreListed, Owned
  <1>4. LoggedOutIsCut'
    BY <1>1 DEF LoggedOutIsCut, Owned
  <1>5. ending' \in [Users -> 0 .. MaxEnding] /\ closing' \subseteq Conns
    BY ChallengesAssumption DEF ToClose
  <1> QED
    BY <1>2, <1>3, <1>4, <1>5

LEMMA SocketStep == SocketsOK /\ SocketNext => SocketsOK'
  <1> SUFFICES ASSUME SocketsOK, SocketNext PROVE SocketsOK'
    OBVIOUS
  <1> USE DEF sessionVars
  <1>1. ASSUME NEW c \in Conns, NEW u \in Users, Connect(c, u) PROVE SocketsOK'
    BY <1>1, ChallengesAssumption
       DEF Connect, SocketsOK, Owned, ConnsAreListed, LoggedOutIsCut
  <1>2. ASSUME NEW c \in Conns, GiveUp(c) PROVE SocketsOK'
    BY <1>2, ChallengesAssumption
       DEF GiveUp, SocketsOK, Owned, ConnsAreListed, LoggedOutIsCut
  <1>3. ASSUME NEW c \in Conns, Leave(c) PROVE SocketsOK'
    <2>1. /\ pc' = Close(c)
          /\ UNCHANGED <<sessionVars, conns, owner, closing, skipped, late>>
      BY <1>3 DEF Leave
    <2> QED
      BY <2>1, CloseType DEF SocketsOK, Owned, ConnsAreListed, LoggedOutIsCut
  <1>4. ASSUME NEW c \in Conns, RemoveConn(c) PROVE SocketsOK'
    BY <1>4, ChallengesAssumption
       DEF RemoveConn, Forget, SocketsOK, Owned, ConnsAreListed, LoggedOutIsCut
  <1>5. ASSUME NEW c \in Conns, CloseTaken(c) PROVE SocketsOK'
    <2>1. /\ pc' = Close(c) /\ closing' = closing \ {c}
          /\ UNCHANGED <<sessionVars, conns, owner, skipped, late>>
      BY <1>5 DEF CloseTaken
    <2> QED
      BY <2>1, CloseType DEF SocketsOK, Owned, ConnsAreListed, LoggedOutIsCut
  <1> QED
    BY <1>1, <1>2, <1>3, <1>4, <1>5, RegisterStep, CloseConnStep DEF SocketNext

LEMMA ProceedType ==
    ASSUME ChallengesOK, NEW p \in Pushers, NEW next \in Stages, Proceed(p, next)
    PROVE  /\ stage' \in [Pushers -> Stages] /\ stage'[p] = next
           /\ \A q \in Pushers : q # p => stage'[q] = stage[q]
           /\ UNCHANGED <<of, by, answer>>
  BY DEF ChallengesOK, Proceed

LEMMA ReturnType ==
    ASSUME ChallengesOK, NEW p \in Pushers, Return(p)
    PROVE  /\ stage' \in [Pushers -> Stages] /\ stage'[p] = "over"
           /\ \A q \in Pushers : q # p => stage'[q] = stage[q]
           /\ via' \in [Pushers -> Conns \cup {NoConn}]
           /\ of' \in [Clicks -> Ids \cup {NoId}] /\ by' \in [Clicks -> Users \cup {NoUser}]
           /\ answer' \in [Clicks -> Answer \cup {"none"}]
           /\ \A k \in Clicks : k # p => of'[k] = of[k] /\ by'[k] = by[k]
  BY DEF ChallengesOK, Return, Stages

LEMMA PushersAre ==
    /\ \A h \in Ids : h \in Pushers /\ h \notin Clicks
    /\ \A k \in Clicks : k \in Pushers /\ k \notin Ids
    /\ NoId \notin Ids
  BY ChallengesAssumption DEF Pushers

\* A handler that returns, of a challenge that is stored or of a click.
LEMMA ReturnKeeps ==
    ASSUME ChallengesOK, NEW p \in Pushers, Return(p), stage[p] \notin {"none", "store"},
           UNCHANGED <<challenges, from, to, taken>>
    PROVE  ChallengesOK'
  <1>1. Answers'
    BY ReturnType, PushersAre DEF ChallengesOK, Answers
  <1>2. Takers'
    BY ReturnType, PushersAre DEF ChallengesOK, Takers
  <1>3. Addressed'
    <2>1. \A h \in Ids : stage'[h] # "none" => stage[h] # "none"
      BY ReturnType, PushersAre
    <2>2. \A h \in Ids : stage[h] # "none" => stage'[h] # "none"
      BY ReturnType, PushersAre
    <2>3. ASSUME NEW k \in Clicks, stage'[k] \notin {"none", "over"}
          PROVE  of'[k] \in Ids /\ by'[k] \in Users /\ stage'[of'[k]] # "none"
      <3>1. k # p /\ stage[k] = stage'[k] /\ of'[k] = of[k] /\ by'[k] = by[k]
        BY <2>3, ReturnType, PushersAre
      <3> QED
        BY <2>2, <2>3, <3>1 DEF ChallengesOK, Addressed
    <2> QED
      BY <2>1, <2>3 DEF ChallengesOK, Addressed
  <1> QED
    BY <1>1, <1>2, <1>3, ReturnType DEF ChallengesOK

\* One that goes on to the next step of its push.
LEMMA ProceedKeeps ==
    ASSUME ChallengesOK, NEW p \in Pushers, NEW next \in {"push", "write", "writing"},
           Proceed(p, next), stage[p] \in {"create", "push", "write"},
           via' \in [Pushers -> Conns \cup {NoConn}],
           UNCHANGED <<challenges, from, to, taken>>
    PROVE  ChallengesOK'
  <1>0. /\ stage' \in [Pushers -> Stages] /\ stage'[p] = next
        /\ \A q \in Pushers : q # p => stage'[q] = stage[q]
        /\ UNCHANGED <<of, by, answer>>
    BY ProceedType DEF Stages
  <1>1. Answers'
    BY <1>0, PushersAre DEF ChallengesOK, Answers
  <1>2. Takers'
    BY <1>0, PushersAre DEF ChallengesOK, Takers
  <1>3. Addressed'
    <2>1. \A h \in Ids : stage'[h] # "none" <=> stage[h] # "none"
      BY <1>0, PushersAre
    <2>2. \A k \in Clicks : stage'[k] \notin {"none", "over"} => stage[k] \notin {"none", "over"}
      BY <1>0, PushersAre
    <2> QED
      BY <1>0, <2>1, <2>2 DEF ChallengesOK, Addressed
  <1> QED
    BY <1>0, <1>1, <1>2, <1>3 DEF ChallengesOK

LEMMA TakeStep ==
    ASSUME CInv, NEW k \in Clicks, TakeChallenge(k)
    PROVE  ChallengesOK'
  <1> USE DEF CInv
  <1>1. PICK h : h = of[k]
    OBVIOUS
  <1>2. /\ stage[k] = "take" /\ h \in challenges /\ to[h] = by[k]
        /\ challenges' = challenges \ {h}
        /\ taken' = [taken EXCEPT ![h] = @ \cup {<<k, by[k]>>}]
        /\ UNCHANGED <<from, to, via>>
    BY <1>1 DEF TakeChallenge, MayTake, AfterAnswer
  <1>3. PICK next \in {"create", "push"} : Proceed(k, next)
    BY DEF TakeChallenge
  <1>4. /\ stage' \in [Pushers -> Stages] /\ stage'[k] = next
        /\ \A q \in Pushers : q # k => stage'[q] = stage[q]
        /\ UNCHANGED <<of, by, answer>>
    BY <1>3, ProceedType, PushersAre DEF Stages, ChallengesOK
  <1>5. h \in Ids /\ by[k] \in Users /\ taken[h] = {}
    BY <1>1, <1>2 DEF ChallengesOK, Addressed, Answers
  <1>6. /\ taken' \in [Ids -> SUBSET (Clicks \X Users)]
        /\ taken'[h] = {<<k, to[h]>>}
        /\ \A i \in Ids : i # h => taken'[i] = taken[i]
    BY <1>2, <1>5 DEF ChallengesOK
  <1>7. Answers'
    <2>1. ASSUME NEW i \in Ids PROVE stage'[i] = stage[i]
      BY <1>4, PushersAre
    <2>2. stage[h] \notin {"none", "store"}
      BY <1>2, <1>5 DEF ChallengesOK, Answers
    <2> QED
      BY <1>2, <1>5, <1>6, <2>1, <2>2 DEF ChallengesOK, Answers
  <1>8. Takers'
    <2>1. ASSUME NEW j \in Clicks, j # k,
                 stage'[j] \in {"create", "push", "write", "writing"}
          PROVE  <<j, by'[j]>> \in taken'[of'[j]]
      <3>1. stage[j] = stage'[j]
        BY <1>4, <2>1, PushersAre
      <3>2. <<j, by[j]>> \in taken[of[j]] /\ of[j] \in Ids
        BY <2>1, <3>1 DEF ChallengesOK, Takers, Addressed
      <3>3. of[j] # h
        BY <1>5, <3>2
      <3> QED
        BY <1>4, <1>6, <3>2, <3>3
    <2>2. <<k, by'[k]>> \in taken'[of'[k]]
      BY <1>1, <1>2, <1>4, <1>6
    <2> QED
      BY <2>1, <2>2 DEF Takers
  <1>9. Addressed'
    <2>1. \A i \in Ids : stage'[i] = stage[i]
      BY <1>4, PushersAre
    <2>2. \A j \in Clicks : stage'[j] \notin {"none", "over"} => stage[j] \notin {"none", "over"}
      BY <1>2, <1>4, PushersAre
    <2> QED
      BY <1>2, <1>4, <2>1, <2>2 DEF ChallengesOK, Addressed
  <1> QED
    BY <1>2, <1>4, <1>5, <1>6, <1>7, <1>8, <1>9 DEF ChallengesOK

LEMMA ClickStep ==
    ASSUME CInv, NEW k \in Clicks, NEW h \in Ids, NEW u \in Users, NEW choice \in Answer,
           Click(k, h, u, choice)
    PROVE  ChallengesOK'
  <1> USE DEF CInv
  <1>1. /\ stage[k] = "none" /\ stage[h] # "none"
        /\ stage' = [stage EXCEPT ![k] = "take"]
        /\ of' = [of EXCEPT ![k] = h] /\ by' = [by EXCEPT ![k] = u]
        /\ answer' = [answer EXCEPT ![k] = choice]
        /\ UNCHANGED <<challenges, from, to, via, taken>>
    BY DEF Click
  <1>2. /\ stage' \in [Pushers -> Stages] /\ stage'[k] = "take"
        /\ \A q \in Pushers : q # k => stage'[q] = stage[q]
        /\ of' \in [Clicks -> Ids \cup {NoId}] /\ by' \in [Clicks -> Users \cup {NoUser}]
        /\ of'[k] = h /\ by'[k] = u
        /\ \A j \in Clicks : j # k => of'[j] = of[j] /\ by'[j] = by[j]
        /\ answer' \in [Clicks -> Answer \cup {"none"}]
    BY <1>1, PushersAre DEF ChallengesOK, Stages
  <1>3. \A i \in Ids : stage'[i] = stage[i]
    BY <1>2, PushersAre
  <1>4. Answers'
    BY <1>1, <1>3 DEF ChallengesOK, Answers
  <1>5. Takers'
    BY <1>1, <1>2, PushersAre DEF ChallengesOK, Takers
  <1>6. Addressed'
    <2>1. ASSUME NEW j \in Clicks, stage'[j] \notin {"none", "over"}
          PROVE  of'[j] \in Ids /\ by'[j] \in Users /\ stage'[of'[j]] # "none"
      <3>1. CASE j = k
        BY <1>1, <1>2, <1>3, <3>1
      <3>2. CASE j # k
        <4>1. stage[j] = stage'[j] /\ of'[j] = of[j] /\ by'[j] = by[j]
          BY <1>2, <3>2, PushersAre
        <4> QED
          BY <1>3, <2>1, <4>1 DEF ChallengesOK, Addressed
      <3> QED
        BY <3>1, <3>2
    <2> QED
      BY <1>1, <1>3, <2>1 DEF ChallengesOK, Addressed
  <1> QED
    BY <1>1, <1>2, <1>4, <1>5, <1>6 DEF ChallengesOK

\* Challenge and Store, which leave the clicks alone.
LEMMA ChallengeKeeps ==
    ASSUME CInv, NEW h \in Ids,
           (\E u, v \in Users : Challenge(h, u, v)) \/ Store(h)
    PROVE  ChallengesOK'
  <1> USE DEF CInv
  <1>1. PICK next \in {"store", "push"} : stage' = [stage EXCEPT ![h] = next]
    BY DEF Challenge, Store
  <1>2. /\ stage' \in [Pushers -> Stages] /\ stage'[h] = next
        /\ \A q \in Pushers : q # h => stage'[q] = stage[q]
        /\ stage[h] \in {"none", "store"} /\ taken[h] = {}
        /\ UNCHANGED <<of, by, answer, via, taken>>
    BY <1>1, PushersAre DEF ChallengesOK, Stages, Challenge, Store, Answers
  <1>3. /\ from' \in [Ids -> Users \cup {NoUser}] /\ to' \in [Ids -> Users \cup {NoUser}]
        /\ from'[h] \in Users /\ to'[h] \in Users
        /\ \A i \in Ids : i # h => from'[i] = from[i] /\ to'[i] = to[i]
    BY DEF ChallengesOK, Challenge, Store, Addressed
  <1>4. \/ challenges' = challenges /\ next = "store"
        \/ challenges' = challenges \cup {h} /\ next = "push"
    BY <1>1, <1>2, PushersAre DEF Challenge, Store, ChallengesOK
  <1>5. Answers'
    <2>1. ASSUME NEW i \in Ids, i # h
          PROVE  /\ stage'[i] = stage[i] /\ (i \in challenges' <=> i \in challenges)
                 /\ to'[i] = to[i] /\ taken'[i] = taken[i]
      BY <1>2, <1>3, <1>4, <2>1, PushersAre
    <2>2. /\ h \in challenges' => stage'[h] \notin {"none", "store"}
          /\ h \in challenges' \/ stage'[h] \in {"none", "store"}
          /\ taken'[h] = {}
      BY <1>2, <1>4 DEF ChallengesOK, Answers
    <2> QED
      BY <2>1, <2>2 DEF ChallengesOK, Answers
  <1>6. Takers'
    BY <1>2, PushersAre DEF ChallengesOK, Takers
  <1>7. Addressed'
    <2>1. \A k \in Clicks : stage'[k] = stage[k]
      BY <1>2, PushersAre
    <2>2. \A i \in Ids : i # h => stage'[i] = stage[i]
      BY <1>2, PushersAre
    <2>3. stage'[h] # "none"
      BY <1>2
    <2> QED
      BY <1>2, <1>3, <2>1, <2>2, <2>3 DEF ChallengesOK, Addressed
  <1> QED
    BY <1>2, <1>3, <1>4, <1>5, <1>6, <1>7 DEF ChallengesOK

LEMMA ChallengeStep == CInv /\ ChallengeNext => ChallengesOK'
  <1> SUFFICES ASSUME CInv, ChallengeNext PROVE ChallengesOK'
    OBVIOUS
  <1> USE DEF CInv
  <1>1. ASSUME NEW p \in Pushers, LookupConn(p) PROVE ChallengesOK'
    <2>1. Addressee(p) \in Users /\ stage[p] = "push"
      <3>1. stage[p] = "push"
        BY <1>1 DEF LookupConn
      <3>2. CASE p \in Ids
        BY <3>1, <3>2 DEF ChallengesOK, Addressed, Addressee
      <3>3. CASE p \notin Ids
        <4>1. p \in Clicks
          BY <3>3 DEF Pushers
        <4>2. of[p] \in Ids /\ stage[of[p]] # "none"
          BY <3>1, <4>1 DEF ChallengesOK, Addressed
        <4> QED
          BY <3>1, <3>3, <4>2 DEF ChallengesOK, Addressed, Addressee
      <3> QED
        BY <3>1, <3>2, <3>3
    <2>2. CASE Return(p)
      BY <1>1, <2>1, <2>2, ReturnKeeps DEF LookupConn
    <2>3. CASE Proceed(p, "write") /\ via' = [via EXCEPT ![p] = conns[Addressee(p)]]
      <3>1. via' \in [Pushers -> Conns \cup {NoConn}]
        BY <2>1, <2>3 DEF ChallengesOK, SocketsOK
      <3> QED
        BY <1>1, <2>1, <2>3, <3>1, ProceedKeeps DEF LookupConn
    <2> QED
      BY <1>1, <2>2, <2>3 DEF LookupConn
  <1>2. ASSUME NEW p \in Pushers, BeginWrite(p) PROVE ChallengesOK'
    <2>1. stage[p] = "write" /\ UNCHANGED <<challenges, from, to, taken>>
      BY <1>2 DEF BeginWrite
    <2>2. CASE Return(p)
      BY <2>1, <2>2, ReturnKeeps
    <2>3. CASE Proceed(p, "writing") /\ UNCHANGED via
      <3>1. via' \in [Pushers -> Conns \cup {NoConn}]
        BY <2>3 DEF ChallengesOK
      <3> QED
        BY <2>1, <2>3, <3>1, ProceedKeeps
    <2> QED
      BY <1>2, <2>2, <2>3 DEF BeginWrite
  <1>3. ASSUME NEW p \in Pushers, EndWrite(p) PROVE ChallengesOK'
    BY <1>3, ReturnKeeps DEF EndWrite
  <1>4. ASSUME NEW k \in Clicks, NotFound(k) PROVE ChallengesOK'
    BY <1>4, ReturnKeeps, PushersAre DEF NotFound
  <1>5. ASSUME NEW k \in Clicks, CreateGame(k) PROVE ChallengesOK'
    <2>1. k \in Pushers /\ stage[k] = "create" /\ UNCHANGED <<challenges, from, to, taken>>
      BY <1>5, PushersAre DEF CreateGame
    <2>2. CASE Return(k)
      BY <2>1, <2>2, ReturnKeeps
    <2>3. CASE Proceed(k, "push") /\ UNCHANGED via
      <3>1. via' \in [Pushers -> Conns \cup {NoConn}]
        BY <2>3 DEF ChallengesOK
      <3> QED
        BY <2>1, <2>3, <3>1, ProceedKeeps
    <2> QED
      BY <1>5, <2>2, <2>3 DEF CreateGame
  <1> QED
    BY <1>1, <1>2, <1>3, <1>4, <1>5, TakeStep, ClickStep, ChallengeKeeps, Zenon
       DEF ChallengeNext, Answer

LEMMA CStepInv == CInv /\ [CNext]_cvars => CInv'
  <1> SUFFICES ASSUME CInv, [CNext]_cvars PROVE CInv'
    OBVIOUS
  <1>1. ASSUME UNCHANGED challengeVars PROVE ChallengesOK'
    BY <1>1 DEF CInv, ChallengesOK, Answers, Takers, Addressed, challengeVars
  <1>2. ASSUME UNCHANGED <<sessionVars, socketVars, skipped, late>> PROVE SocketsOK'
    BY <1>2 DEF CInv, SocketsOK, Owned, ConnsAreListed, LoggedOutIsCut,
                sessionVars, socketVars
  <1>3. CASE SessionNext
    <2>1. UNCHANGED challengeVars
      BY <1>3 DEF SessionNext, LogIn, LogOut, Expire, Purge, PurgeFails
    <2> QED
      BY <1>1, <1>3, <2>1, SessionStep DEF CInv
  <1>4. CASE SocketNext
    <2>1. UNCHANGED challengeVars
      BY <1>4 DEF SocketNext, Connect, GiveUp, Register, Leave, RemoveConn,
                  CloseTaken, CloseConn
    <2> QED
      BY <1>1, <1>4, <2>1, SocketStep DEF CInv
  <1>5. CASE ChallengeNext
    <2>1. UNCHANGED <<sessionVars, socketVars, skipped, late>>
      BY <1>5 DEF ChallengeNext, Challenge, Store, LookupConn, BeginWrite, EndWrite,
                  Click, TakeChallenge, NotFound, CreateGame
    <2> QED
      BY <1>2, <1>5, <2>1, ChallengeStep DEF CInv
  <1>6. CASE UNCHANGED cvars
    BY <1>1, <1>2, <1>6 DEF cvars, CInv
  <1> QED
    BY <1>3, <1>4, <1>5, <1>6 DEF CNext

LEMMA CInvariant == CSpec => []CInv
  BY CInitInv, CStepInv, PTL DEF CSpec

\* Every variable stays in its type, for any users, sockets and challenges.
THEOREM ChallengesTypeCorrect == CSpec => []CTypeOK
  <1>1. CInv => CTypeOK
    BY DEF CInv, SocketsOK, ChallengesOK, CTypeOK, Answer, Stages
  <1> QED
    BY <1>1, CInvariant, PTL

\* However many tabs a user opens, and whichever of them close, a socket that is
\* open and not about to be closed is the one in conns (wsHandler, removeConn,
\* closeConn).
THEOREM OpenSocketsAreListed == CSpec => []ConnsAreListed
  <1>1. CInv => ConnsAreListed
    BY DEF CInv, SocketsOK
  <1> QED
    BY <1>1, CInvariant, PTL

\* A logout or a purge that comes to closeConn leaves its user no open socket, but
\* for the late and the skipped.
THEOREM LoggedOutUsersAreCut == CSpec => []LoggedOutIsCut
  <1>1. CInv => LoggedOutIsCut
    BY DEF CInv, SocketsOK
  <1> QED
    BY <1>1, CInvariant, PTL

\* A stored challenge is pending until one click of its target takes it, and no
\* second one does, however many are under way; only the taker goes on to create a
\* game and to tell the sender (takeChallenge and its callers).
THEOREM ChallengesAreAnsweredOnce == CSpec => []AnsweredOnce
  <1>1. CInv => AnsweredOnce
    <2> SUFFICES ASSUME CInv PROVE AnsweredOnce
      OBVIOUS
    <2>1. ASSUME NEW h \in Ids
          PROVE  /\ Cardinality(taken[h]) =
                       IF h \in challenges \/ stage[h] \in {"none", "store"} THEN 0 ELSE 1
                 /\ \A t \in taken[h] : t[2] = to[h]
      <3>1. CASE h \in challenges \/ stage[h] \in {"none", "store"}
        <4>1. taken[h] = {}
          BY <3>1 DEF CInv, ChallengesOK, Answers
        <4> QED
          BY <3>1, <4>1, FS_EmptySet
      <3>2. CASE ~(h \in challenges \/ stage[h] \in {"none", "store"})
        <4>1. PICK k \in Clicks : taken[h] = {<<k, to[h]>>}
          BY <3>2 DEF CInv, ChallengesOK, Answers
        <4>2. Cardinality(taken[h]) = 1
          BY <4>1, FS_Singleton
        <4> QED
          BY <3>2, <4>1, <4>2
      <3> QED
        BY <3>1, <3>2
    <2>2. Takers
      BY DEF CInv, ChallengesOK
    <2> QED
      BY <2>1, <2>2 DEF AnsweredOnce, Takers
  <1> QED
    BY <1>1, CInvariant, PTL

-----------------------------------------------------------------------------
(* Game sessions.                                                          *)

\* A handler that has not found another player serves its own, and the row it
\* started bears its name.
ServesItself ==
    \A h \in Handlers :
        /\ gamePc[h] \in {"new", "started", "seated"} => serves[h] = h
        /\ row[h] \in {h, NoRow}

\* What the packages do not share.
OneKind ==
    IF kind = "seated"
    THEN /\ \A h \in Handlers : gamePc[h] \notin {"started", "found"}
         /\ hashes = {} /\ exits = {}
    ELSE \A h \in Handlers : gamePc[h] # "seated"

Rows == {i \in DOMAIN players : players[i].row # NoRow}

\* A row in players has been started by a handler that serves somebody now.
RowsAreServed ==
    \A i \in Rows : gamePc[players[i].row] \notin {"new", "started"}

\* The rows are their players' own, and so is what a handler is about to write.
RowsAreOwn ==
    /\ \A i \in Rows : serves[players[i].row] = players[i].is
    /\ \A h \in Handlers :
          /\ gamePc[h] = "found" => /\ index[h] \in DOMAIN players
                                    /\ players[index[h]].is = serves[h]
          /\ gamePc[h] = "seated" => /\ players # <<>>
                                     /\ players[Len(players)].is = h

GamesInv ==
    /\ Games!TypeOK /\ ServesItself /\ OneKind /\ RowsAreServed
    /\ ~overlapped => RowsAreOwn /\ ~misplaced
LEMMA GamesInit == Games!Init => GamesInv
  <1> SUFFICES ASSUME Games!Init PROVE GamesInv
    OBVIOUS
  <1>1. players \in Seq([is : Handlers, row : Handlers \cup {NoRow}])
    BY EmptySeq DEF Games!Init
  <1>2. ServesItself /\ OneKind /\ RowsAreServed
    BY DEF Games!Init, ServesItself, OneKind, RowsAreServed, Rows
  <1>3. RowsAreOwn
    BY DEF Games!Init, RowsAreOwn, Rows
  <1> QED
    BY <1>1, <1>2, <1>3 DEF Games!Init, Games!TypeOK, GamesInv

\* Appending a player keeps the players before it.
LEMMA AppendPlayer ==
    ASSUME GamesInv, NEW h \in Handlers, NEW r \in Handlers \cup {NoRow},
           players' = Append(players, Games!Player(h, r))
    PROVE  /\ players' \in Seq([is : Handlers, row : Handlers \cup {NoRow}])
           /\ DOMAIN players' = DOMAIN players \cup {Len(players')} /\ players' # <<>>
           /\ \A i \in DOMAIN players : players'[i] = players[i]
           /\ players'[Len(players')].is = h /\ players'[Len(players')].row = r
           /\ Rows' = Rows \cup (IF r = NoRow THEN {} ELSE {Len(players')})
  <1> DEFINE T == [is : Handlers, row : Handlers \cup {NoRow}]
             new == Games!Player(h, r)
  <1>1. players \in Seq(T) /\ new \in T /\ new.is = h /\ new.row = r
    BY DEF GamesInv, Games!TypeOK, Games!Player
  <1> HIDE DEF T, new
  <1>2. Len(players) \in Nat /\ DOMAIN players = 1 .. Len(players)
    BY <1>1, LenProperties
  <1>3. /\ players' \in Seq(T) /\ Len(players') = Len(players) + 1
        /\ \A i \in 1 .. Len(players) : players'[i] = players[i]
        /\ players'[Len(players) + 1] = new
    BY <1>1, AppendProperties DEF new
  <1>4. DOMAIN players' = 1 .. Len(players) + 1
    BY <1>3, LenProperties
  <1>5. DOMAIN players' = DOMAIN players \cup {Len(players')} /\ players' # <<>>
    BY <1>2, <1>3, <1>4
  <1>6. players'[Len(players')].is = h /\ players'[Len(players')].row = r
    BY <1>1, <1>3
  <1>7. \A i \in DOMAIN players : players'[i] = players[i]
    BY <1>2, <1>3
  <1>8. Rows' = Rows \cup (IF r = NoRow THEN {} ELSE {Len(players')})
    <2>1. Len(players') \notin DOMAIN players
      BY <1>2, <1>3
    <2> QED
      BY <1>5, <1>6, <1>7, <2>1 DEF Rows
  <1> QED
    BY <1>3, <1>5, <1>6, <1>7, <1>8 DEF T

LEMMA PlayerType ==
    ASSUME Games!TypeOK, NEW i \in DOMAIN players
    PROVE  players[i] \in [is : Handlers, row : Handlers \cup {NoRow}] /\ i \in Nat
  <1> DEFINE T == [is : Handlers, row : Handlers \cup {NoRow}]
  <1>1. players \in Seq(T)
    BY DEF Games!TypeOK
  <1> HIDE DEF T
  <1>2. players[i] \in T /\ i \in Nat
    BY <1>1, ElementOfSeq, LenProperties
  <1> QED
    BY <1>2 DEF T

\* A handler that only goes on disturbs nothing.
LEMMA GoOn ==
    ASSUME GamesInv, NEW h \in Handlers,
           NEW place \in {"playing", "ending", "done", "dead"},
           gamePc' = [gamePc EXCEPT ![h] = place],
           index' = [index EXCEPT ![h] = 0] \/ index' = index, ended' \subseteq Handlers,
           UNCHANGED <<kind, players, serves, row, hashes, exits, misplaced, overlapped>>
    PROVE  GamesInv'
  <1>1. Games!TypeOK'
    <2>1. gamePc' \in [Handlers -> {"new", "started", "found", "seated", "playing",
                                     "ending", "done", "dead"}]
      BY DEF GamesInv, Games!TypeOK
    <2>2. index' \in [Handlers -> Nat]
      BY DEF GamesInv, Games!TypeOK
    <2> QED
      BY <2>1, <2>2 DEF GamesInv, Games!TypeOK
  <1>2. ServesItself' /\ OneKind'
    BY DEF GamesInv, ServesItself, OneKind, Games!TypeOK
  <1>3. RowsAreServed'
    BY DEF GamesInv, RowsAreServed, Rows, Games!TypeOK
  <1>4. ~overlapped' => RowsAreOwn' /\ ~misplaced'
    BY DEF GamesInv, RowsAreOwn, Rows, Games!TypeOK
  <1> QED
    BY <1>1, <1>2, <1>3, <1>4 DEF GamesInv

\* Joining: the route that starts the row first, and hangman's reconnect.
LEMMA JoinStep ==
    ASSUME GamesInv, NEW h \in Handlers,
           \/ \E tracked \in BOOLEAN : Games!StartFirst(h, tracked)
           \/ Games!AppendStarted(h) \/ Games!Unknown(h) \/ Games!Reseat(h)
           \/ \E g \in Handlers : Games!Lookup(h, g)
    PROVE  GamesInv'
  <1> USE DEF GamesInv, Games!handlerVars, Games!exitVars, Games!winVars, Games!Goto
  <1>1. ASSUME NEW tracked \in BOOLEAN, Games!StartFirst(h, tracked) PROVE GamesInv'
    <2>1. Games!TypeOK'
      BY <1>1 DEF Games!StartFirst, Games!Start, Games!TypeOK
    <2>2. ServesItself' /\ OneKind'
      BY <1>1 DEF Games!StartFirst, Games!Start, Games!TypeOK, ServesItself, OneKind
    <2>3. RowsAreServed'
      BY <1>1 DEF Games!StartFirst, Games!TypeOK, RowsAreServed, Rows
    <2>4. ~overlapped' => RowsAreOwn' /\ ~misplaced'
      BY <1>1 DEF Games!StartFirst, Games!TypeOK, RowsAreOwn, Rows
    <2> QED
      BY <2>1, <2>2, <2>3, <2>4
  <1>2. CASE Games!AppendStarted(h)
    <2>1. CASE kind = "tictactoe" /\ Len(players) = 2
      <3>1. /\ gamePc' = [gamePc EXCEPT ![h] = "ending"]
            /\ UNCHANGED <<kind, players, serves, row, index, hashes, exits, ended,
                           misplaced, overlapped>>
        BY <1>2, <2>1 DEF Games!AppendStarted
      <3> QED
        BY <3>1, GoOn DEF Games!TypeOK
    <2>2. CASE ~(kind = "tictactoe" /\ Len(players) = 2)
      <3>1. /\ players' = Append(players, Games!Player(h, row[h]))
            /\ gamePc[h] = "started" /\ gamePc' = [gamePc EXCEPT ![h] = "playing"]
            /\ hashes' = IF kind = "hangman" THEN hashes \cup {h} ELSE hashes
            /\ UNCHANGED <<kind, serves, row, index, exits, ended, misplaced,
                           overlapped>>
        BY <1>2, <2>2 DEF Games!AppendStarted
      <3>2. row[h] \in {h, NoRow} /\ serves[h] = h /\ kind # "seated"
        BY <3>1 DEF ServesItself, OneKind
      <3>3. Games!TypeOK'
        BY <3>1, <3>2, AppendPlayer DEF Games!TypeOK
      <3>4. ServesItself' /\ OneKind'
        BY <3>1, <3>2 DEF ServesItself, OneKind, Games!TypeOK
      <3>5. RowsAreServed'
        BY <3>1, <3>2, AppendPlayer DEF RowsAreServed, Rows, Games!TypeOK
      <3>6. ~overlapped' => RowsAreOwn' /\ ~misplaced'
        BY <3>1, <3>2, AppendPlayer DEF RowsAreOwn, OneKind, Rows, Games!TypeOK
      <3> QED
        BY <3>3, <3>4, <3>5, <3>6
    <2> QED
      BY <2>1, <2>2
  <1>3. CASE Games!Unknown(h)
    <2>1. /\ gamePc' = [gamePc EXCEPT ![h] = "playing"]
          /\ UNCHANGED <<kind, players, serves, row, index, hashes, exits, ended,
                         misplaced, overlapped>>
      BY <1>3 DEF Games!Unknown
    <2> QED
      BY <2>1, GoOn DEF Games!TypeOK
  <1>4. CASE Games!Reseat(h)
    <2>1. CASE index[h] \in DOMAIN players
      <3>1. /\ players' = [players EXCEPT ![index[h]].row = row[h]]
            /\ gamePc[h] = "found" /\ gamePc' = [gamePc EXCEPT ![h] = "playing"]
            /\ index' = [index EXCEPT ![h] = 0]
            /\ UNCHANGED <<kind, serves, row, hashes, exits, ended, misplaced,
                           overlapped>>
        BY <1>4, <2>1 DEF Games!Reseat
      <3>2. /\ DOMAIN players' = DOMAIN players
            /\ players'[index[h]].row = row[h]
            /\ \A i \in DOMAIN players : players'[i].is = players[i].is
            /\ \A i \in DOMAIN players \ {index[h]} : players'[i] = players[i]
            /\ players' \in Seq([is : Handlers, row : Handlers \cup {NoRow}])
        <4> DEFINE T == [is : Handlers, row : Handlers \cup {NoRow}]
                   old == players[index[h]]
                   new == [old EXCEPT !.row = row[h]]
        <4>0. players \in Seq(T)
          BY DEF Games!TypeOK
        <4>1. old \in T
          BY <2>1, PlayerType
        <4>2. new \in T /\ new.row = row[h] /\ new.is = old.is
          <5> HIDE DEF old
          <5> QED
            BY <4>1 DEF Games!TypeOK
        <4>3. players' = [players EXCEPT ![index[h]] = new]
          BY <3>1
        <4> HIDE DEF T, new
        <4>4. players' \in Seq(T) /\ DOMAIN players' = DOMAIN players
          BY <2>1, <4>0, <4>2, <4>3, ExceptSeq
        <4>5. /\ players'[index[h]] = new
              /\ \A i \in DOMAIN players \ {index[h]} : players'[i] = players[i]
          BY <2>1, <4>3
        <4> QED
          BY <4>2, <4>4, <4>5 DEF T
      <3>3. Games!TypeOK'
        BY <3>1, <3>2 DEF Games!TypeOK
      <3>4. ServesItself' /\ OneKind' /\ kind # "seated"
        BY <3>1 DEF ServesItself, OneKind, Games!TypeOK
      <3>5. RowsAreServed'
        BY <3>1, <3>2 DEF RowsAreServed, ServesItself, Rows, Games!TypeOK
      <3>6. ASSUME ~overlapped' PROVE RowsAreOwn' /\ ~misplaced'
        <4>1. RowsAreOwn /\ ~misplaced /\ players[index[h]].is = serves[h]
          BY <3>1, <3>6 DEF RowsAreOwn
        <4>2. ASSUME NEW i \in Rows' PROVE serves'[players'[i].row] = players'[i].is
          <5>1. CASE i = index[h]
            BY <2>1, <3>1, <3>2, <4>1, <4>2, <5>1 DEF ServesItself, Rows
          <5>2. CASE i # index[h]
            BY <3>1, <3>2, <4>1, <4>2, <5>2 DEF RowsAreOwn, Rows
          <5> QED
            BY <5>1, <5>2
        <4>3. ASSUME NEW g \in Handlers, gamePc'[g] = "found"
              PROVE  index'[g] \in DOMAIN players' /\ players'[index'[g]].is = serves'[g]
          BY <3>1, <3>2, <4>1, <4>3 DEF RowsAreOwn, Games!TypeOK
        <4>4. \A g \in Handlers : gamePc'[g] # "seated"
          BY <3>1, <3>4 DEF OneKind, Games!TypeOK
        <4> QED
          BY <3>1, <4>1, <4>2, <4>3, <4>4 DEF RowsAreOwn
      <3> QED
        BY <3>3, <3>4, <3>5, <3>6
    <2>2. CASE index[h] \notin DOMAIN players
      <3>1. /\ gamePc' = [gamePc EXCEPT ![h] = "dead"]
            /\ index' = [index EXCEPT ![h] = 0]
            /\ UNCHANGED <<kind, players, serves, row, hashes, exits, ended, misplaced,
                           overlapped>>
        BY <1>4, <2>2 DEF Games!Reseat
      <3> QED
        BY <3>1, GoOn DEF Games!TypeOK
    <2> QED
      BY <2>1, <2>2
  <1>5. ASSUME NEW g \in Handlers, Games!Lookup(h, g) PROVE GamesInv'
    <2>1. /\ kind = "hangman" /\ gamePc[h] = "started"
          /\ serves' = [serves EXCEPT ![h] = g]
          /\ UNCHANGED <<kind, players, row, hashes, exits, ended, misplaced, overlapped>>
      BY <1>5 DEF Games!Lookup
    <2>2. /\ gamePc' \in [Handlers -> {"new", "started", "found", "seated", "playing",
                                       "ending", "done", "dead"}]
          /\ gamePc'[h] = IF Games!Find(g) = {} THEN "ending" ELSE "found"
          /\ \A f \in Handlers \ {h} :
                gamePc'[f] = gamePc[f] \/ (gamePc[f] = "playing" /\ gamePc'[f] = "ending")
      BY <1>5 DEF Games!Lookup, Games!TypeOK
    <2>3. /\ index' \in [Handlers -> Nat]
          /\ \A f \in Handlers \ {h} : index'[f] = index[f]
          /\ Games!Find(g) # {} => index'[h] \in Games!Find(g)
      <3>1. PICK i \in (IF Games!Find(g) = {} THEN {0} ELSE Games!Find(g)) :
               index' = [index EXCEPT ![h] = i]
        BY <1>5 DEF Games!Lookup
      <3>2. i \in Nat
        BY LenProperties DEF Games!Find, Games!TypeOK
      <3> QED
        BY <3>1, <3>2 DEF Games!TypeOK
    <2>4. Games!TypeOK'
      BY <2>1, <2>2, <2>3 DEF Games!TypeOK
    <2>5. ServesItself' /\ OneKind'
      BY <2>1, <2>2 DEF ServesItself, OneKind, Games!TypeOK
    <2>6. RowsAreServed' /\ \A i \in Rows' : players'[i].row # h
      <3>1. ASSUME NEW i \in Rows'
            PROVE  players'[i].row # h /\ gamePc'[players'[i].row] \notin {"new", "started"}
        <4> DEFINE f == players[i].row
        <4>1. f \in Handlers /\ gamePc[f] \notin {"new", "started"} /\ players'[i].row = f
          <5>1. players[i] \in [is : Handlers, row : Handlers \cup {NoRow}]
            BY <2>1, <3>1, PlayerType DEF Rows
          <5> QED
            BY <2>1, <3>1, <5>1 DEF Rows, RowsAreServed
        <4>2. f # h
          BY <2>1, <4>1
        <4> QED
          BY <2>2, <4>1, <4>2
      <3> QED
        BY <3>1 DEF RowsAreServed
    <2>7. ASSUME ~overlapped' PROVE RowsAreOwn' /\ ~misplaced'
      <3>1. RowsAreOwn /\ ~misplaced
        BY <2>1, <2>7
      <3>2. \A i \in Rows' : serves'[players'[i].row] = players'[i].is
        BY <2>1, <2>6, <3>1 DEF RowsAreOwn, Rows
      <3>3. ASSUME NEW f \in Handlers, gamePc'[f] = "found"
            PROVE  index'[f] \in DOMAIN players' /\ players'[index'[f]].is = serves'[f]
        <4>1. CASE f = h
          BY <2>1, <2>2, <2>3, <3>3, <4>1 DEF Games!Find, Games!TypeOK
        <4>2. CASE f # h
          BY <2>1, <2>2, <2>3, <3>1, <3>3, <4>2 DEF RowsAreOwn, Games!TypeOK
        <4> QED
          BY <4>1, <4>2
      <3>4. \A f \in Handlers : gamePc'[f] # "seated"
        BY <2>1, <2>5 DEF OneKind
      <3> QED
        BY <2>1, <3>1, <3>2, <3>3, <3>4 DEF RowsAreOwn
    <2> QED
      BY <2>4, <2>5, <2>6, <2>7
  <1> QED
    BY <1>1, <1>2, <1>3, <1>4, <1>5

\* Joining: connect4 and connect-the-dots, which start the row last.
LEMMA SeatStep ==
    ASSUME GamesInv, NEW h \in Handlers,
           \/ Games!AppendSeated(h)
           \/ \E tracked \in BOOLEAN : Games!StartSeated(h, tracked)
    PROVE  GamesInv'
  <1> USE DEF GamesInv, Games!handlerVars, Games!exitVars, Games!winVars, Games!Goto
  <1>1. CASE Games!AppendSeated(h)
    <2>1. CASE Len(players) = 2
      <3>1. /\ gamePc' = [gamePc EXCEPT ![h] = "done"]
            /\ UNCHANGED <<kind, players, serves, row, index, hashes, exits, ended,
                           misplaced, overlapped>>
        BY <1>1, <2>1 DEF Games!AppendSeated
      <3> QED
        BY <3>1, GoOn DEF Games!TypeOK
    <2>2. CASE Len(players) # 2
      <3>1. /\ kind = "seated" /\ gamePc[h] = "new"
            /\ players' = Append(players, Games!Player(h, NoRow))
            /\ gamePc' = [gamePc EXCEPT ![h] = "seated"]
            /\ overlapped' = (overlapped \/ \E g \in Handlers : gamePc[g] = "seated")
            /\ UNCHANGED <<kind, serves, row, index, hashes, exits, ended, misplaced>>
        BY <1>1, <2>2 DEF Games!AppendSeated
      <3>2. Games!TypeOK'
        BY <3>1, AppendPlayer DEF Games!TypeOK
      <3>3. ServesItself' /\ OneKind'
        BY <3>1 DEF ServesItself, OneKind, Games!TypeOK
      <3>4. Rows' = Rows /\ \A i \in Rows : players'[i] = players[i]
        BY <3>1, AppendPlayer DEF Rows
      <3>5. RowsAreServed'
        <4>1. \A i \in Rows : /\ players[i].row \in Handlers
                              /\ gamePc[players[i].row] \notin {"new", "started"}
          BY PlayerType DEF Rows, RowsAreServed
        <4> QED
          BY <3>1, <3>4, <4>1 DEF RowsAreServed, Games!TypeOK
      <3>6. ASSUME ~overlapped' PROVE RowsAreOwn' /\ ~misplaced'
        <4>1. RowsAreOwn /\ ~misplaced /\ \A g \in Handlers : gamePc[g] # "seated"
          BY <3>1, <3>6
        <4>2. \A i \in Rows' : serves'[players'[i].row] = players'[i].is
          BY <3>1, <3>4, <4>1 DEF RowsAreOwn
        <4>3. \A g \in Handlers : gamePc'[g] # "found"
          BY <3>1, <3>3 DEF OneKind
        <4>4. \A g \in Handlers : gamePc'[g] = "seated" => g = h
          BY <3>1, <4>1 DEF Games!TypeOK
        <4>5. players' # <<>> /\ players'[Len(players')].is = h
          BY <3>1, AppendPlayer
        <4> QED
          BY <3>1, <4>1, <4>2, <4>3, <4>4, <4>5 DEF RowsAreOwn
      <3> QED
        BY <3>2, <3>3, <3>5, <3>6
    <2> QED
      BY <2>1, <2>2
  <1>2. ASSUME NEW tracked \in BOOLEAN, Games!StartSeated(h, tracked) PROVE GamesInv'
    <2> DEFINE top == Len(players)
    <2>1. /\ gamePc[h] = "seated" /\ gamePc' = [gamePc EXCEPT ![h] = "playing"]
          /\ row' = [row EXCEPT ![h] = IF tracked THEN h ELSE NoRow]
          /\ players' = IF tracked THEN [players EXCEPT ![top].row = h] ELSE players
          /\ UNCHANGED <<kind, serves, index, hashes, exits, ended, misplaced, overlapped>>
      BY <1>2 DEF Games!StartSeated, Games!Start, Games!RowGoesTo
    <2>2. kind = "seated" /\ serves[h] = h
      BY <2>1 DEF OneKind, ServesItself
    <2> DEFINE T == [is : Handlers, row : Handlers \cup {NoRow}]
    <2>3. players \in Seq(T) /\ top \in Nat /\ DOMAIN players = 1 .. top
      BY LenProperties DEF Games!TypeOK
    <2>4. /\ players' \in Seq(T) /\ DOMAIN players' = DOMAIN players
          /\ Len(players') = Len(players)
          /\ \A i \in DOMAIN players :
                /\ players'[i].is = players[i].is
                /\ players'[i].row = IF tracked /\ i = top THEN h ELSE players[i].row
      <3>1. CASE tracked /\ top \in DOMAIN players
        <4> DEFINE new == [players[top] EXCEPT !.row = h]
        <4>1. players[top] \in T
          BY <3>1, PlayerType
        <4>2. new \in T /\ new.row = h /\ new.is = players[top].is
          <5> DEFINE old == players[top]
          <5>1. old \in T
            BY <4>1
          <5> HIDE DEF old
          <5>2. [old EXCEPT !.row = h] \in T /\ [old EXCEPT !.row = h].row = h
                /\ [old EXCEPT !.row = h].is = old.is
            BY <5>1
          <5> QED
            BY <5>2 DEF old
        <4>3. players' = [players EXCEPT ![top] = new]
          BY <2>1, <3>1
        <4> HIDE DEF T, new, top
        <4>4. players' \in Seq(T) /\ Len(players') = Len(players)
              /\ DOMAIN players' = DOMAIN players
          BY <2>3, <3>1, <4>2, <4>3, ExceptSeq, LenProperties
        <4>5. /\ players'[top] = new
              /\ \A i \in DOMAIN players \ {top} : players'[i] = players[i]
          BY <3>1, <4>3
        <4> QED
          BY <3>1, <4>2, <4>4, <4>5
      <3>2. CASE tracked /\ top \notin DOMAIN players
        <4>1. players = <<>>
          BY <2>3, <3>2, EmptySeq
        <4>2. players' = players
          BY <2>1, <2>3, <3>2, <4>1
        <4> QED
          BY <2>3, <3>2, <4>2
      <3>3. CASE ~tracked
        BY <2>1, <2>3, <3>3
      <3> QED
        BY <3>1, <3>2, <3>3
    <2>5. Games!TypeOK'
      BY <2>1, <2>4 DEF Games!TypeOK
    <2>6. ServesItself' /\ OneKind'
      BY <2>1 DEF ServesItself, OneKind, Games!TypeOK
    <2>7. ASSUME NEW i \in Rows'
          PROVE  gamePc'[players'[i].row] \notin {"new", "started"}
      <3>1. CASE tracked /\ i = top
        BY <2>1, <2>4, <2>7, <3>1 DEF Rows, Games!TypeOK
      <3>2. CASE ~(tracked /\ i = top)
        <4>1. i \in Rows /\ players'[i].row = players[i].row
          BY <2>4, <2>7, <3>2 DEF Rows
        <4> QED
          BY <2>1, <4>1 DEF RowsAreServed, Games!TypeOK
      <3> QED
        BY <3>1, <3>2
    <2>8. ASSUME ~overlapped' PROVE RowsAreOwn' /\ ~misplaced'
      <3>1. RowsAreOwn /\ ~misplaced /\ players # <<>> /\ players[top].is = h
        BY <2>1, <2>8 DEF RowsAreOwn
      <3>2. top \in DOMAIN players /\ players' # <<>>
        BY <2>3, <2>4, <3>1, EmptySeq
      <3>3. ASSUME NEW i \in Rows' PROVE serves'[players'[i].row] = players'[i].is
        <4>1. CASE tracked /\ i = top
          BY <2>1, <2>2, <2>4, <3>1, <3>2, <4>1
        <4>2. CASE ~(tracked /\ i = top)
          <5>1. i \in Rows /\ players'[i].row = players[i].row /\ players'[i].is = players[i].is
            BY <2>4, <3>3, <4>2 DEF Rows
          <5> QED
            BY <2>1, <3>1, <5>1 DEF RowsAreOwn
        <4> QED
          BY <4>1, <4>2
      <3>4. \A g \in Handlers : gamePc'[g] # "found"
        BY <2>1, <2>2, <2>6 DEF OneKind
      <3>5. ASSUME NEW g \in Handlers, gamePc'[g] = "seated"
            PROVE  players'[Len(players')].is = g
        <4>1. gamePc[g] = "seated"
          BY <2>1, <3>5 DEF Games!TypeOK
        <4> QED
          BY <2>4, <3>1, <3>2, <4>1 DEF RowsAreOwn
      <3> QED
        BY <2>1, <3>1, <3>2, <3>3, <3>4, <3>5 DEF RowsAreOwn
    <2> QED
      BY <2>5, <2>6, <2>7, <2>8 DEF RowsAreServed
  <1> QED
    BY <1>1, <1>2

\* Leaving and winning.
LEMMA LeaveStep ==
    ASSUME GamesInv, NEW h \in Handlers,
           \/ \E panics \in BOOLEAN : Games!Leave(h, panics)
           \/ Games!End(h) \/ Games!ExitGame(h)
           \/ \E i \in DOMAIN players : Games!Exit(i) \/ Games!Win(i)
    PROVE  GamesInv'
  <1> USE DEF Games!handlerVars, Games!exitVars, Games!winVars, Games!Goto
  <1>0. Games!TypeOK /\ ServesItself /\ OneKind /\ RowsAreServed
    BY DEF GamesInv
  <1>1. ASSUME NEW panics \in BOOLEAN, Games!Leave(h, panics) PROVE GamesInv'
    BY <1>0, <1>1, GoOn DEF Games!Leave, Games!TypeOK
  <1>2. CASE Games!End(h)
    <2>1. ended' \subseteq Handlers
      BY <1>0, <1>2 DEF Games!End, Games!TypeOK
    <2> QED
      BY <1>2, <2>1, GoOn DEF Games!End
  <1>3. CASE Games!ExitGame(h)
    <2>1. /\ h \in hashes /\ hashes' = hashes \ {h}
          /\ exits' = exits \cup Games!Find(h)
          /\ UNCHANGED <<kind, players, gamePc, serves, row, index, ended, misplaced,
                         overlapped>>
      BY <1>3 DEF Games!ExitGame
    <2>2. exits' \subseteq Nat /\ hashes' \subseteq Handlers
      BY <1>0, <2>1, PlayerType DEF Games!TypeOK, Games!Find
    <2> QED
      BY <1>0, <2>1, <2>2 DEF GamesInv, Games!TypeOK, ServesItself, OneKind,
                              RowsAreServed, RowsAreOwn, Rows
  <1>4. ASSUME NEW i \in DOMAIN players, Games!Exit(i) PROVE GamesInv'
    <2> DEFINE T == [is : Handlers, row : Handlers \cup {NoRow}]
    <2>1. /\ i \in exits /\ exits' = exits \ {i}
          /\ players' = SubSeq(players, 1, i - 1) \o SubSeq(players, i + 1, Len(players))
          /\ overlapped' = (overlapped \/ \E g \in Handlers : gamePc[g] = "found")
          /\ UNCHANGED <<kind, gamePc, serves, row, index, hashes, ended, misplaced>>
      BY <1>4 DEF Games!Exit
    <2>2. players \in Seq(T)
      BY <1>0 DEF Games!TypeOK
    <2>3. players' \in Seq(T) /\ Elements(players') \subseteq Elements(players)
      <3> HIDE DEF T
      <3> QED
        BY <2>1, <2>2, CutOut, Zenon
    <2>4. ASSUME NEW j \in Rows'
          PROVE  \E k \in Rows : players'[j] = players[k]
      <3>1. j \in 1 .. Len(players') /\ players'[j].row # NoRow
        BY <2>3, <2>4, LenProperties DEF Rows
      <3>2. PICK k \in 1 .. Len(players) : players'[j] = players[k]
        BY <2>3, <3>1 DEF Elements
      <3> QED
        BY <2>2, <3>1, <3>2, LenProperties DEF Rows
    <2>5. Games!TypeOK'
      BY <1>0, <2>1, <2>3 DEF Games!TypeOK
    <2>6. kind # "seated"
      BY <1>0, <2>1 DEF OneKind
    <2>7. ServesItself' /\ OneKind' /\ RowsAreServed'
      BY <1>0, <2>1, <2>4, <2>6 DEF ServesItself, OneKind, RowsAreServed
    <2>8. ASSUME ~overlapped' PROVE RowsAreOwn' /\ ~misplaced'
      <3>1. RowsAreOwn /\ ~misplaced /\ \A g \in Handlers : gamePc[g] \notin {"found", "seated"}
        BY <1>0, <2>1, <2>6, <2>8 DEF GamesInv, OneKind
      <3>2. ASSUME NEW j \in Rows' PROVE serves'[players'[j].row] = players'[j].is
        <4>1. PICK k \in Rows : players'[j] = players[k]
          BY <2>4
        <4> QED
          BY <2>1, <3>1, <4>1 DEF RowsAreOwn
      <3> QED
        BY <2>1, <3>1, <3>2 DEF RowsAreOwn
    <2> QED
      BY <2>5, <2>7, <2>8 DEF GamesInv
  <1>5. ASSUME NEW i \in DOMAIN players, Games!Win(i) PROVE GamesInv'
    <2>1. /\ i \in Rows
          /\ misplaced' = (misplaced \/ serves[players[i].row] # players[i].is)
          /\ UNCHANGED <<kind, players, gamePc, serves, row, index, hashes, exits, ended,
                         overlapped>>
      BY <1>5 DEF Games!Win, Rows
    <2>2. Games!TypeOK' /\ ServesItself' /\ OneKind' /\ RowsAreServed'
      BY <1>0, <2>1 DEF Games!TypeOK, ServesItself, OneKind, RowsAreServed, Rows
    <2>3. ~overlapped' => RowsAreOwn' /\ ~misplaced'
      BY <2>1 DEF GamesInv, RowsAreOwn, Rows
    <2> QED
      BY <2>2, <2>3 DEF GamesInv
  <1> QED
    BY <1>1, <1>2, <1>3, <1>4, <1>5

LEMMA GamesStep == GamesInv /\ [Games!Next]_(Games!vars) => GamesInv'
  <1>1. ASSUME GamesInv, Games!Next PROVE GamesInv'
    <2>1. CASE \E h \in Handlers :
                  \/ \E tracked \in BOOLEAN : Games!StartFirst(h, tracked)
                  \/ Games!AppendStarted(h) \/ Games!Unknown(h) \/ Games!Reseat(h)
                  \/ \E g \in Handlers : Games!Lookup(h, g)
      BY <1>1, <2>1, JoinStep
    <2>2. CASE \E h \in Handlers :
                  \/ Games!AppendSeated(h)
                  \/ \E tracked \in BOOLEAN : Games!StartSeated(h, tracked)
      BY <1>1, <2>2, SeatStep
    <2>3. CASE \E h \in Handlers :
                  \/ \E panics \in BOOLEAN : Games!Leave(h, panics)
                  \/ Games!End(h) \/ Games!ExitGame(h)
      BY <1>1, <2>3, LeaveStep
    <2>4. ASSUME NEW i \in DOMAIN players, Games!Exit(i) \/ Games!Win(i)
          PROVE  GamesInv'
      <3>1. \E h : h \in Handlers
        <4>1. players[i].is \in Handlers
          BY <1>1, PlayerType DEF GamesInv
        <4> QED
          BY <4>1
      <3> QED
        BY <1>1, <2>4, <3>1, LeaveStep
    <2> QED
      BY <1>1, <2>1, <2>2, <2>3, <2>4 DEF Games!Next
  <1>2. ASSUME GamesInv, UNCHANGED Games!vars PROVE GamesInv'
    BY <1>2 DEF Games!vars, Games!handlerVars, Games!exitVars, Games!winVars, GamesInv,
                Games!TypeOK, ServesItself, OneKind, RowsAreServed, RowsAreOwn, Rows
  <1> QED
    BY <1>1, <1>2

LEMMA GamesInvariant == Games!Spec => []GamesInv
  BY GamesInit, GamesStep, PTL DEF Games!Spec

\* A win is added to a row of its winner, for any number of connections, unless a
\* seated game was joined by two at once or an exit overlapped a reconnect
\* (Tracker.Start, RecordWin and the packages' routes).
THEOREM WinsGoToTheWinner == Games!Spec => []WinsOnOwnRow
  <1>1. GamesInv => WinsOnOwnRow
    BY DEF GamesInv, WinsOnOwnRow, Games!WinsOnOwnRow, Games!TypeOK
  <1> QED
    BY <1>1, GamesInvariant, PTL

-----------------------------------------------------------------------------
(* The services side by side.                                              *)

\* The variables of the services stay in their types, for any users, requests,
\* sockets and games, whatever the services do at the same time (all their code).
THEOREM ServicesTypeCorrect ==
    Spec /\ PSpec /\ CSpec /\ Games!Spec => []ServicesTypeOK
  <1>1. IInv /\ PTypeOK /\ CTypeOK /\ GamesInv => ServicesTypeOK
    BY DEF IInv, GamesInv, ServicesTypeOK
  <1> QED
    BY <1>1, Invariance, PresenceTypeCorrect, ChallengesTypeCorrect, GamesInvariant, PTL
=============================================================================
