------------------------------ MODULE Presence ------------------------------
(***************************************************************************)
(* accounts/cache/rediscache: sessions by key and presence by user, kept   *)
(* in Redis under four kinds of keys.  Each operation of the cache is      *)
(* several Redis commands, and only a command is atomic; requests and the  *)
(* cleanup goroutine run their commands interleaved, and a command may     *)
(* fail, which ends the operation where it is.                             *)
(*                                                                         *)
(* Time counts in parts of a second.  What Redis and the code compare with *)
(* now is kept as an age or as what is left, so that time needs no bound.  *)
(* Redis ends a key to the part; the scores of the activity and the cutoff *)
(* of a purge are whole seconds (time.Now().Unix()).                       *)
(***************************************************************************)
EXTENDS Integers, FiniteSets, Accounts

CONSTANTS Keys,         \* a login draws a key that was never drawn before
          Slots,        \* slots for requests that are served at once
          Cleaner,      \* the goroutine of cleanupLoop
          NoKey,
          Second,       \* parts of a second
          TTL,          \* sessionTTL
          MaxAge,       \* sessionMaxAge, which cleanupLoop purges by
          MaxFails      \* bound: commands that fail

ASSUME PresenceAssumption ==
    /\ NoKey \notin Keys /\ Cleaner \notin Slots
    /\ Second \in Nat \ {0}
    /\ TTL \in Nat \ {0} /\ MaxAge \in Nat /\ TTL <= MaxAge
    /\ MaxFails \in Nat

VARIABLES
    sessionUser, sessionLeft,  \* "session:" k: its value, and its time to live
    userKey, userLeft,         \* "usersession:" u: the same
    online,    \* the keys of the hash online_users
    activity,  \* the age of u's score in online_activity, from the second of the
               \* score to that of now; Absent if it has none
    phase,     \* the parts of now's second that have passed
    at,        \* each process: its next command, its user and session key, and
               \* whether it logs out after GetSession
    todo,      \* the stale ids PurgeInactive has still to log out
    issued,    \* session keys ever drawn
    fails,     \* commands that failed
    crossed    \* history: crossed[u], see Crossing

redis == <<sessionUser, sessionLeft, userKey, userLeft, online, activity>>
history == <<issued, fails, crossed>>
pvars == <<redis, phase, at, todo, history>>

Absent == -1
Procs == Slots \cup {Cleaner}
PCs == {"idle", "set", "setUser", "hset", "expire", "expireUser", "zadd",
        "lookup", "del", "delGone", "delUser", "hdel", "zrem"}
NoJob == [pc |-> "idle", user |-> NoUser, key |-> NoKey, logout |-> FALSE]

PInit ==
    /\ sessionUser = [k \in Keys |-> NoUser] /\ sessionLeft = [k \in Keys |-> 0]
    /\ userKey = [u \in Users |-> NoKey] /\ userLeft = [u \in Users |-> 0]
    /\ online = {} /\ activity = [u \in Users |-> Absent]
    /\ phase = 0 /\ at = [p \in Procs |-> NoJob] /\ todo = {}
    /\ issued = {} /\ fails = 0 /\ crossed = [u \in Users |-> FALSE]

-----------------------------------------------------------------------------
(* Who is working on a user.                                               *)

\* Process p is in an operation on u; and in one that takes u's presence away.
WorksOn(p, u) == at[p].user = u \/ (p = Cleaner /\ u \in todo)
LogsOut(p, u) == WorksOn(p, u) /\ (p = Cleaner \/ at[p].logout)

Quiet(u) == \A p \in Procs : ~WorksOn(p, u)
LiveKeys(u) == {k \in Keys : sessionUser[k] = u}

\* What lets a user's session and presence part: a logout or a purge of u that
\* overlaps another operation on u, a logout or a purge while u has another session
\* than the one it ends, and an operation that fails half-way.  A login with none of
\* it puts them right.
Crossing(u, logsOut) ==
    IF logsOut THEN \E p \in Procs : WorksOn(p, u)
    ELSE \E p \in Procs : LogsOut(p, u)

Start(p, cmd, u, k, out) ==
    /\ at[p] = NoJob
    /\ at' = [at EXCEPT ![p] = [pc |-> cmd, user |-> u, key |-> k, logout |-> out]]

\* Process p sends cmd, and goes on with next or is done.
Send(p, cmd, next) ==
    /\ at[p].pc = cmd
    /\ at' = [at EXCEPT ![p] = IF next = "idle" THEN NoJob ELSE [@ EXCEPT !.pc = next]]
    /\ UNCHANGED <<phase, todo, history>>

-----------------------------------------------------------------------------
(* SetSession.                                                             *)

\* loginHandler: the store has found the user and checked the password.
Login(r, u, k) ==
    /\ k \notin issued
    /\ issued' = issued \cup {k}
    /\ Start(r, "set", u, k, FALSE)
    /\ crossed' = [crossed EXCEPT ![u] = Crossing(u, FALSE)]
    /\ UNCHANGED <<redis, phase, todo, fails>>

SetKey(r) ==
    /\ Send(r, "set", "setUser")
    /\ sessionUser' = [sessionUser EXCEPT ![at[r].key] = at[r].user]
    /\ sessionLeft' = [sessionLeft EXCEPT ![at[r].key] = TTL]
    /\ UNCHANGED <<userKey, userLeft, online, activity>>

SetUserKey(r) ==
    /\ Send(r, "setUser", "hset")
    /\ userKey' = [userKey EXCEPT ![at[r].user] = at[r].key]
    /\ userLeft' = [userLeft EXCEPT ![at[r].user] = TTL]
    /\ UNCHANGED <<sessionUser, sessionLeft, online, activity>>

HSetOnline(r) ==
    /\ Send(r, "hset", "zadd")
    /\ online' = online \cup {at[r].user}
    /\ UNCHANGED <<sessionUser, sessionLeft, userKey, userLeft, activity>>

\* The last command of SetSession and of GetSession.
ZAddActivity(r) ==
    /\ Send(r, "zadd", IF at[r].logout THEN "lookup" ELSE "idle")
    /\ activity' = [activity EXCEPT ![at[r].user] = 0]
    /\ UNCHANGED <<sessionUser, sessionLeft, userKey, userLeft, online>>

-----------------------------------------------------------------------------
(* GetSession.                                                             *)

\* authorized: a request with the cookie k, for a logout or for something that
\* leaves the cache alone.  Without a session it is answered 401.
Authorized(r, k, logout) ==
    LET u == sessionUser[k] IN
    /\ u # NoUser
    /\ Start(r, "expire", u, k, logout)
    /\ crossed' = [crossed EXCEPT ![u] =
                      \/ @ \/ Crossing(u, logout)
                      \/ logout /\ LiveKeys(u) # {k}]
    /\ UNCHANGED <<redis, phase, todo, issued, fails>>

\* SET instead of EXPIRE.
Refresh_Set(k, u) ==
    /\ sessionUser' = [sessionUser EXCEPT ![k] = u]
    /\ sessionLeft' = [sessionLeft EXCEPT ![k] = TTL]
\* EXPIRE does nothing to a key that is no longer there.
Refresh(k, u) ==
    /\ sessionLeft' = [sessionLeft EXCEPT ![k] =
                          IF sessionUser[k] = NoUser THEN 0 ELSE TTL]
    /\ UNCHANGED sessionUser

ExpireKey(r) ==
    /\ Send(r, "expire", "expireUser")
    /\ Refresh(at[r].key, at[r].user)
    /\ UNCHANGED <<userKey, userLeft, online, activity>>

ExpireUserKey(r) ==
    /\ Send(r, "expireUser", "zadd")
    /\ userLeft' = [userLeft EXCEPT ![at[r].user] = IF userKey[at[r].user] = NoKey
                                                    THEN 0 ELSE TTL]
    /\ UNCHANGED <<sessionUser, sessionLeft, userKey, online, activity>>

-----------------------------------------------------------------------------
(* DeleteSession, PurgeInactive, and the logout they share.                *)

\* logoutHandler's DeleteSession asks again whose session it is: nobody's, if it
\* has just been deleted or has expired.
LookupSession(r) ==
    /\ Send(r, "lookup", IF sessionUser[at[r].key] = NoUser THEN "delGone" ELSE "del")
    /\ UNCHANGED redis

\* A cutoff rounded up.
Stale_Early(u) == activity[u] # Absent /\ activity[u] + Second >= MaxAge
Stale_WithKey(u) == activity[u] >= MaxAge /\ userKey[u] # NoKey
\* The score is up to the cutoff.
Stale(u) == activity[u] # Absent /\ activity[u] >= MaxAge

\* ZRANGE ... -inf to cutoff
ListStale ==
    /\ at[Cleaner] = NoJob /\ todo = {}
    /\ todo' = {u \in Users : Stale(u)}
    /\ todo' # {}
    /\ crossed' = [u \in Users |->
                      \/ crossed[u]
                      \/ /\ u \in todo'
                         /\ Crossing(u, TRUE) \/ ~(LiveKeys(u) \subseteq {userKey[u]})]
    /\ UNCHANGED <<redis, phase, at, issued, fails>>

\* The next stale id: GET "usersession:" u, and DEL if there is one.
PurgeNext(u) ==
    /\ u \in todo
    /\ todo' = todo \ {u}
    /\ Start(Cleaner, IF userKey[u] = NoKey THEN "delUser" ELSE "del",
             u, userKey[u], TRUE)
    /\ UNCHANGED <<redis, phase, history>>

\* DEL "session:" k; for a session that LookupSession did not find, the last
\* command.
DelKey(p) ==
    /\ \/ Send(p, "del", "delUser")
       \/ Send(p, "delGone", "idle")
    /\ sessionUser' = [sessionUser EXCEPT ![at[p].key] = NoUser]
    /\ sessionLeft' = [sessionLeft EXCEPT ![at[p].key] = 0]
    /\ UNCHANGED <<userKey, userLeft, online, activity>>

\* logout, a command at a time.
DelUserKey(p) ==
    /\ Send(p, "delUser", "hdel")
    /\ userKey' = [userKey EXCEPT ![at[p].user] = NoKey]
    /\ userLeft' = [userLeft EXCEPT ![at[p].user] = 0]
    /\ UNCHANGED <<sessionUser, sessionLeft, online, activity>>

HDelOnline(p) ==
    /\ Send(p, "hdel", "zrem")
    /\ online' = online \ {at[p].user}
    /\ UNCHANGED <<sessionUser, sessionLeft, userKey, userLeft, activity>>

ZRemActivity(p) ==
    /\ Send(p, "zrem", "idle")
    /\ activity' = [activity EXCEPT ![at[p].user] = Absent]
    /\ UNCHANGED <<sessionUser, sessionLeft, userKey, userLeft, online>>

-----------------------------------------------------------------------------
(* Failures and time.                                                      *)

\* A command returns an error (Redis, or the operation's ten seconds are over),
\* or the process ends: the commands after it are not sent.  PurgeInactive leaves
\* its list, and the next pass makes another.
Fail(p) ==
    /\ at[p] # NoJob /\ fails < MaxFails
    /\ fails' = fails + 1
    /\ at' = [at EXCEPT ![p] = NoJob]
    /\ todo' = IF p = Cleaner THEN {} ELSE todo
    /\ crossed' = [u \in Users |-> crossed[u] \/ at[p].user = u]
    /\ UNCHANGED <<redis, phase, issued>>

TimePasses ==
    /\ phase' = IF phase + 1 = Second THEN 0 ELSE phase + 1
    /\ sessionLeft' = [k \in Keys |->
                          IF sessionLeft[k] = 0 THEN 0 ELSE sessionLeft[k] - 1]
    /\ sessionUser' = [k \in Keys |->
                          IF sessionLeft'[k] = 0 THEN NoUser ELSE sessionUser[k]]
    /\ userLeft' = [u \in Users |->
                       IF userLeft[u] = 0 THEN 0 ELSE userLeft[u] - 1]
    /\ userKey' = [u \in Users |->
                      IF userLeft'[u] = 0 THEN NoKey ELSE userKey[u]]
    /\ activity' = [u \in Users |->
                       IF phase' # 0 \/ activity[u] = Absent \/ activity[u] >= MaxAge
                       THEN activity[u] ELSE activity[u] + Second]
    /\ UNCHANGED <<online, at, todo, history>>

PurgeInactive == ListStale \/ \E u \in Users : PurgeNext(u)
Command(p) ==
    \/ SetKey(p) \/ SetUserKey(p) \/ HSetOnline(p) \/ ZAddActivity(p)
    \/ ExpireKey(p) \/ ExpireUserKey(p)
    \/ LookupSession(p) \/ DelKey(p)
    \/ DelUserKey(p) \/ HDelOnline(p) \/ ZRemActivity(p)

PNext ==
    \/ \E r \in Slots, k \in Keys :
          \/ \E u \in Users : Login(r, u, k)
          \/ \E logout \in BOOLEAN : Authorized(r, k, logout)
    \/ PurgeInactive
    \/ \E p \in Procs : Command(p) \/ Fail(p)
    \/ TimePasses

PSpec == PInit /\ [][PNext]_pvars

\* The ticker fires, commands return, and time passes; users owe nothing.
Fairness ==
    /\ WF_pvars(TimePasses) /\ WF_pvars(PurgeInactive)
    /\ \A p \in Procs : WF_pvars(Command(p))

PFairSpec == PSpec /\ Fairness

-----------------------------------------------------------------------------
(* Properties.                                                             *)

Jobs == [pc : PCs, user : Users \cup {NoUser}, key : Keys \cup {NoKey},
         logout : BOOLEAN]

\* Every variable stays in its type (all of the modelled code).
PTypeOK ==
    /\ sessionUser \in [Keys -> Users \cup {NoUser}]
    /\ sessionLeft \in [Keys -> 0 .. TTL]
    /\ userKey \in [Users -> Keys \cup {NoKey}] /\ userLeft \in [Users -> 0 .. TTL]
    /\ online \subseteq Users /\ activity \in [Users -> Absent .. (MaxAge + Second)]
    /\ phase \in 0 .. (Second - 1)
    /\ at \in [Procs -> Jobs]
    /\ todo \subseteq Users /\ issued \subseteq Keys /\ fails \in 0 .. MaxFails
    /\ crossed \in [Users -> BOOLEAN]

\* What cache.go promises, as far as the commands keep it: when nothing is being
\* done for a user, a user with a session is online, and PurgeInactive watches
\* exactly the users who are online, so that nobody stays online for ever; and
\* PurgeInactive lists nobody with a session that would outlast the second of now,
\* for which sessionTTL and sessionMaxAge must agree.  (It lists users up to a
\* second before their session ends: a score is older than its request.)  Crossing
\* says when this may fail, until the next login.
PresenceAgrees ==
    \A u \in Users : ~crossed[u] =>
        /\ Quiet(u) => /\ LiveKeys(u) # {} => u \in online
                       /\ u \in online <=> activity[u] # Absent
        /\ u \in todo => \A k \in LiveKeys(u) : sessionLeft[k] + phase < Second

\* A session key that was drawn and is not about to be stored authorizes nobody.
Dead(k) ==
    /\ k \in issued /\ sessionUser[k] = NoUser
    /\ \A p \in Procs : ~(at[p].pc = "set" /\ at[p].key = k)

\* A session that was deleted or has expired stays dead, also when a request it
\* authorized just before goes on to refresh it (GetSession).
SessionsStayDead == [][\A k \in Keys : Dead(k) => Dead(k)']_pvars

\* Someone who sends no more requests goes offline, whatever failed and whoever
\* else was purged, unless operations crossed.
IdleUsersLeave ==
    \A u \in Users : []<>(u \notin online \/ crossed[u] \/ activity[u] = 0)
=============================================================================
