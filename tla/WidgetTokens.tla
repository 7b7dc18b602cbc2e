----------------------------- MODULE WidgetTokens -----------------------------
(***************************************************************************)
(* WidgetTokenManager (packages/aula-client/src/widget-token-manager.ts)   *)
(* for one widget id: concurrent integration calls through withRetry share *)
(* the cached token and the request in flight.                             *)
(*                                                                         *)
(* Tokens are numbers in the order Aula issues them.  Aula and the third   *)
(* party are external: Aula may fail to issue one, and the third party may *)
(* reject any token at any time.                                           *)
(***************************************************************************)
EXTENDS Integers

CONSTANTS
    Callers,     \* concurrent calls of withRetry
    MaxTok       \* bound: tokens issued

WidgetTokensAssumption == MaxTok \in Nat

VARIABLES
    issued,      \* tokens issued so far
    cache,       \* the cached token, 0: none
    live,        \* cached.expiresAt > Date.now()
    flight,      \* inFlight: "none", "asked", "answered"
    carried,     \* the token an answered request carries
    stage,       \* where each withRetry is
    tok,         \* the token it uses now
    first        \* the token of its first attempt

vars == <<issued, cache, live, flight, carried, stage, tok, first>>

Init == /\ issued = 0 /\ cache = 0 /\ live = FALSE
        /\ flight = "none" /\ carried = 0
        /\ stage = [c \in Callers |-> "idle"]
        /\ tok = [c \in Callers |-> 0]
        /\ first = [c \in Callers |-> 0]

Cached == cache # 0 /\ live

\* refresh(): join the request in flight or make one.
Refresh == IF flight = "none" THEN flight' = "asked" ELSE UNCHANGED flight

\* withRetry starts with get(): the cached token ...
GetCached(c) == /\ stage[c] = "idle" /\ Cached
                /\ stage' = [stage EXCEPT ![c] = "first"]
                /\ tok' = [tok EXCEPT ![c] = cache]
                /\ UNCHANGED <<issued, cache, live, flight, carried, first>>

\* ... or a refresh.
GetRefreshed(c) == /\ stage[c] = "idle" /\ ~Cached
                   /\ Refresh
                   /\ stage' = [stage EXCEPT ![c] = "awaitFirst"]
                   /\ UNCHANGED <<issued, cache, live, carried, tok, first>>

\* Aula issues the token of the request in flight; the answer is under way.
Issue == /\ flight = "asked" /\ issued < MaxTok
         /\ issued' = issued + 1
         /\ flight' = "answered" /\ carried' = issued + 1
         /\ UNCHANGED <<cache, live, stage, tok, first>>

Awaiting(c) == stage[c] \in {"awaitFirst", "awaitSecond"}

\* The finally of refresh().
StaysInFlight == UNCHANGED flight /\ carried' = 0
Landed == flight' = "none" /\ carried' = 0

\* What a caller that joined goes on with.
UsesFirstToken(c) == IF stage[c] = "awaitSecond" THEN tok[c] ELSE carried
TokenFor(c) == carried

\* The answer arrives: it is cached, and every caller that joined goes on.
Cache == cache' = carried /\ live' = TRUE
Arrive == /\ flight = "answered"
          /\ Cache
          /\ Landed
          /\ stage' = [c \in Callers |->
                         IF stage[c] = "awaitFirst" THEN "first"
                         ELSE IF stage[c] = "awaitSecond" THEN "second" ELSE stage[c]]
          /\ tok' = [c \in Callers |-> IF Awaiting(c) THEN TokenFor(c) ELSE tok[c]]
          /\ UNCHANGED <<issued, first>>

\* getWidgetToken throws: so does every withRetry that joined it.
RefreshFails == /\ flight # "none"
                /\ Landed
                /\ stage' = [c \in Callers |-> IF Awaiting(c) THEN "idle" ELSE stage[c]]
                /\ first' = [c \in Callers |-> IF Awaiting(c) THEN 0 ELSE first[c]]
                /\ tok' = [c \in Callers |-> IF Awaiting(c) THEN 0 ELSE tok[c]]
                /\ UNCHANGED <<issued, cache, live>>

\* The first attempt is rejected: drop the cached token, whichever it is by now,
\* and refresh.
Invalidate == cache' = 0 /\ live' = FALSE
Rejected(c) == /\ stage[c] = "first"
               /\ Invalidate
               /\ Refresh
               /\ first' = [first EXCEPT ![c] = tok[c]]
               /\ stage' = [stage EXCEPT ![c] = "awaitSecond"]
               /\ UNCHANGED <<issued, carried, tok>>

\* Either attempt succeeds, or the second is rejected as well: throw.
Done(c) == /\ stage[c] \in {"first", "second"}
           /\ stage' = [stage EXCEPT ![c] = "idle"]
           /\ tok' = [tok EXCEPT ![c] = 0]
           /\ first' = [first EXCEPT ![c] = 0]
           /\ UNCHANGED <<issued, cache, live, flight, carried>>

\* ttlMs after it was cached.
TtlElapses == /\ live
              /\ live' = FALSE
              /\ UNCHANGED <<issued, cache, flight, carried, stage, tok, first>>

Next == \/ \E c \in Callers : GetCached(c) \/ GetRefreshed(c) \/ Rejected(c) \/ Done(c)
        \/ Issue \/ Arrive \/ RefreshFails \/ TtlElapses

Spec == Init /\ [][Next]_vars

-----------------------------------------------------------------------------
TypeOK == /\ issued \in 0..MaxTok
          /\ cache \in 0..MaxTok /\ live \in BOOLEAN
          /\ flight \in {"none", "asked", "answered"} /\ carried \in 0..MaxTok
          /\ flight = "answered" <=> carried # 0
          /\ stage \in [Callers -> {"idle", "awaitFirst", "first", "awaitSecond", "second"}]
          /\ tok \in [Callers -> 0..MaxTok]
          /\ first \in [Callers -> 0..MaxTok]

\* The retry is made with a token issued after the rejected one, also when the
\* refresh joins a request another caller had in flight
\* (widget-token-manager.ts:9-13, 64-79, 99-116).
RetryIsNewer == \A c \in Callers : stage[c] = "second" => tok[c] > first[c]
=============================================================================
