---------------------------- MODULE TokenRefresher ----------------------------
(***************************************************************************)
(* TokenRefresher (packages/aula-auth/src/token-refresh.ts): the object    *)
(* all sessions of one process share.  It answers from its cache, joins    *)
(* the load in flight, or starts one.                                      *)
(*                                                                         *)
(* A load is one call of withFreshTokens, reduced to what the refresher    *)
(* sees of it: the store is read, the record is fresh or is refreshed and  *)
(* saved, or it throws (FreshTokens has the detail).  JavaScript runs a    *)
(* promise's continuations before anything else, so answering every waiter *)
(* is one step with the completion of the load they wait for.              *)
(* A record is the number of the version the store held; other processes   *)
(* replace it (login) and remove it (logout).                              *)
(***************************************************************************)
EXTENDS Integers, FiniteSets

CONSTANTS
    Callers,       \* concurrent callers of getFresh
    None,          \* undefined / no record
    RecheckMs,     \* recheckIntervalMs, in ticks
    MaxLoad,       \* the longest a load takes, in ticks (environment)
    MaxVer,        \* bound: versions of the record
    Commands       \* what happens outside: "login", "logout", "invalidate"

TokenRefresherAssumption ==
    /\ None \notin Callers /\ None \notin Nat /\ "cache" \notin Callers
    /\ RecheckMs \in Nat /\ MaxLoad \in Nat /\ MaxVer \in Nat \ {0}
    /\ Commands \subseteq {"login", "logout", "invalidate"}

Version == 1..MaxVer
Horizon == RecheckMs + MaxLoad + 1

VARIABLES
    store,      \* the version on disk, or None
    versions,   \* versions written so far
    expired,    \* versions whose access token has expired
    left,       \* ticks since each version left the store (saturating)
    inFlight,   \* the caller whose load the field inFlight holds, or None
    cached,     \* the field cached
    cachedAge,  \* Date.now() - cachedAt (saturating at RecheckMs)
    lastError,  \* is the field lastError set?
    load,       \* the load each caller has started: off, or how far it is
    loaded,     \* what that load will answer
    loadAge,    \* how long it has been running
    waitsOn,    \* whose load each caller awaits, or None
    outdated,   \* history: loads, and the cache, that read before the last invalidate()
    missed      \* history: it met a load that had read the store already

external == <<store, versions, expired, left>>
fields == <<inFlight, cached, cachedAge, lastError>>
loads == <<load, loaded, loadAge>>
history == <<outdated, missed>>
vars == <<external, fields, loads, waitsOn, history>>

Init == /\ store = 1 /\ versions = 1 /\ expired = {}
        /\ left = [v \in Version |-> 0]
        /\ inFlight = None /\ cached = None /\ cachedAge = 0 /\ lastError = FALSE
        /\ load = [c \in Callers |-> "off"]
        /\ loaded = [c \in Callers |-> None]
        /\ loadAge = [c \in Callers |-> 0]
        /\ waitsOn = [c \in Callers |-> None]
        /\ outdated = {} /\ missed = FALSE

Fresh(v) == v \notin expired

\* The cached record may be handed out without touching the store.
UsableForever == cached # None /\ Fresh(cached)
Usable == cached # None /\ Fresh(cached) /\ cachedAge < RecheckMs

-----------------------------------------------------------------------------
(* getFresh                                                                *)

\* A load is in flight: await it.
Join(c) == /\ waitsOn[c] = None /\ inFlight # None
           /\ waitsOn' = [waitsOn EXCEPT ![c] = inFlight]
           /\ UNCHANGED <<external, fields, loads, history>>

\* The answer is the cached record, at once.
CacheHit(c) == /\ waitsOn[c] = None /\ inFlight = None /\ Usable
               /\ UNCHANGED vars

\* Start a load and await it.
NothingInFlight == inFlight = None
StartLoad(c) == /\ waitsOn[c] = None /\ load[c] = "off"
                /\ NothingInFlight /\ ~Usable
                /\ inFlight' = c
                /\ load' = [load EXCEPT ![c] = "reading"]
                /\ loadAge' = [loadAge EXCEPT ![c] = 0]
                /\ waitsOn' = [waitsOn EXCEPT ![c] = c]
                /\ UNCHANGED <<external, cached, cachedAge, lastError, loaded, history>>

-----------------------------------------------------------------------------
(* the load, and what it does to the fields when it settles                *)

Readable == store # None /\ Fresh(store)

\* store.load() finds a fresh record: that will be the answer.
ReadFresh(c) == /\ load[c] = "reading" /\ Readable
                /\ load' = [load EXCEPT ![c] = "done"]
                /\ loaded' = [loaded EXCEPT ![c] = store]
                /\ outdated' = outdated \ {c}
                /\ UNCHANGED <<external, fields, loadAge, waitsOn, missed>>

ReadExpired(c) == /\ load[c] = "reading" /\ store # None /\ ~Fresh(store)
                  /\ load' = [load EXCEPT ![c] = "refreshing"]
                  /\ UNCHANGED <<external, fields, loaded, loadAge, waitsOn, history>>

\* The refresh succeeded and its tokens were saved.
Refreshed(c) == /\ load[c] = "refreshing" /\ store # None /\ ~Fresh(store)
                /\ versions < MaxVer
                /\ versions' = versions + 1
                /\ store' = versions + 1
                /\ load' = [load EXCEPT ![c] = "done"]
                /\ loaded' = [loaded EXCEPT ![c] = versions + 1]
                /\ outdated' = outdated \ {c}
                /\ UNCHANGED <<expired, left, fields, loadAge, waitsOn, missed>>

\* Another process got there first; its record is adopted.
Adopted(c) == /\ load[c] = "refreshing" /\ store # None /\ Fresh(store)
              /\ load' = [load EXCEPT ![c] = "done"]
              /\ loaded' = [loaded EXCEPT ![c] = store]
              /\ outdated' = outdated \ {c}
              /\ UNCHANGED <<external, fields, loadAge, waitsOn, missed>>

SettleWithoutFinally(c) ==
             /\ load' = [load EXCEPT ![c] = "off"]
             /\ loaded' = [loaded EXCEPT ![c] = None]
             /\ loadAge' = [loadAge EXCEPT ![c] = 0]
             /\ waitsOn' = [w \in Callers |->
                              IF waitsOn[w] = c THEN None ELSE waitsOn[w]]
             /\ UNCHANGED inFlight
Settle(c) == /\ inFlight' = None
             /\ load' = [load EXCEPT ![c] = "off"]
             /\ loaded' = [loaded EXCEPT ![c] = None]
             /\ loadAge' = [loadAge EXCEPT ![c] = 0]
             /\ waitsOn' = [w \in Callers |->
                              IF waitsOn[w] = c THEN None ELSE waitsOn[w]]

\* withFreshTokens returned: cache the record, answer every waiter, and (in
\* `finally`) clear inFlight.
Succeed(c) == /\ load[c] = "done"
              /\ cached' = loaded[c] /\ cachedAge' = 0 /\ lastError' = FALSE
              /\ outdated' = (outdated \ {c, "cache"})
                             \cup (IF c \in outdated THEN {"cache"} ELSE {})
              /\ Settle(c)
              /\ UNCHANGED <<external, missed>>

\* withFreshTokens threw (no record, lock timeout, refused, network): drop the
\* cache, remember the failure, reject every waiter.
CacheAfterFailure == None
Fail(c) == /\ \/ load[c] = "reading" /\ store = None
              \/ load[c] = "refreshing"
           /\ cached' = CacheAfterFailure /\ lastError' = TRUE
           /\ cachedAge' = IF CacheAfterFailure = None THEN 0 ELSE cachedAge
           /\ outdated' = outdated \ {c}
           /\ Settle(c)
           /\ UNCHANGED <<external, missed>>

-----------------------------------------------------------------------------
(* around it                                                               *)

Forget == cached' = None /\ cachedAge' = 0

\* invalidate(): the next getFresh() is to re-read the store.
Invalidate == /\ "invalidate" \in Commands
              /\ Forget
              /\ missed' = (\E c \in Callers : load[c] = "done")
              /\ outdated' = {c \in Callers : load[c] = "done"} \cup {"cache"}
              /\ UNCHANGED <<external, inFlight, lastError, loads, waitsOn>>

Login == /\ "login" \in Commands /\ versions < MaxVer
         /\ versions' = versions + 1
         /\ store' = versions + 1
         /\ UNCHANGED <<expired, left, fields, loads, waitsOn, history>>

Logout == /\ "logout" \in Commands /\ store # None
          /\ store' = None
          /\ UNCHANGED <<versions, expired, left, fields, loads, waitsOn, history>>

Expire(v) == /\ v <= versions /\ v \notin expired
             /\ expired' = expired \cup {v}
             /\ UNCHANGED <<store, versions, left, fields, loads, waitsOn, history>>

Tick == /\ \A c \in Callers : load[c] # "off" => loadAge[c] < MaxLoad
        /\ left' = [v \in Version |->
                      IF v <= versions /\ v # store /\ left[v] < Horizon
                      THEN left[v] + 1 ELSE left[v]]
        /\ cachedAge' = IF cached # None /\ cachedAge < RecheckMs
                        THEN cachedAge + 1 ELSE cachedAge
        /\ loadAge' = [c \in Callers |->
                         IF load[c] # "off" THEN loadAge[c] + 1 ELSE loadAge[c]]
        /\ UNCHANGED <<store, versions, expired, inFlight, cached, lastError,
                       load, loaded, waitsOn, history>>

LoadStep(c) == \/ ReadFresh(c) \/ ReadExpired(c) \/ Refreshed(c) \/ Adopted(c)
               \/ Succeed(c) \/ Fail(c)

Next == \/ \E c \in Callers : Join(c) \/ CacheHit(c) \/ StartLoad(c) \/ LoadStep(c)
        \/ Invalidate \/ Login \/ Logout \/ Tick
        \/ \E v \in Version : Expire(v)

Spec == Init /\ [][Next]_vars
FairSpec == Spec /\ \A c \in Callers : WF_vars(LoadStep(c))

-----------------------------------------------------------------------------
TypeOK ==
    /\ store \in Version \cup {None} /\ versions \in Version
    /\ expired \subseteq Version
    /\ left \in [Version -> 0..Horizon]
    /\ inFlight \in Callers \cup {None}
    /\ cached \in Version \cup {None} /\ cachedAge \in 0..RecheckMs
    /\ lastError \in BOOLEAN
    /\ load \in [Callers -> {"off", "reading", "refreshing", "done"}]
    /\ loaded \in [Callers -> Version \cup {None}]
    /\ \A c \in Callers : (load[c] = "done") = (loaded[c] # None)
    /\ loadAge \in [Callers -> 0..MaxLoad]
    /\ waitsOn \in [Callers -> Callers \cup {None}]
    /\ outdated \subseteq Callers \cup {"cache"} /\ missed \in BOOLEAN

\* What the cache may hand out was on disk at most a load and the time since
\* then ago: a logout or a new login is noticed within recheckIntervalMs plus
\* the length of one load (token-refresh.ts:16-19).
CacheIsRecent == Usable => left[cached] <= cachedAge + MaxLoad

\* After an invalidate() nothing answers with a record read from the store before it,
\* neither the cache nor a load in flight ("Force the next getFresh() to re-read the
\* store", token-refresh.ts:107), unless a load had read the store by then and not settled.
InvalidateForcesReread == ~missed => /\ outdated \subseteq {"cache"}
                                     /\ "cache" \in outdated => cached = None

\* Every caller is answered (token-refresh.ts:99-101: inFlight is cleared
\* whatever the load did).
Answered == \A c \in Callers : []<>(waitsOn[c] = None)
=============================================================================
