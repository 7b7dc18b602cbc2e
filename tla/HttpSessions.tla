----------------------------- MODULE HttpSessions -----------------------------
(***************************************************************************)
(* The HTTP MCP server (packages/mcp-server/src/http-app.ts, and shutdown  *)
(* of server.ts): the slots of boundedPost, the Streamable HTTP sessions,  *)
(* the legacy SSE sessions with their streaming routes, idle eviction and  *)
(* shutdown.                                                               *)
(*                                                                         *)
(* An app is the McpServer, AulaContext and transport built for a session; *)
(* its identity is reused once nothing refers to it.  Every await of a     *)
(* handler separates two steps.  The MCP SDK's transport is external: it   *)
(* answers, calls onsessioninitialized and onsessionclosed when it likes.  *)
(* A request that is turned away before it gets a slot changes nothing and *)
(* is not modelled; RateLimits has the request budgets.                    *)
(***************************************************************************)
EXTENDS Integers, FiniteSets

CONSTANTS
    Req,            \* requests that may be under way at once
    App,            \* bound: apps that may exist at once
    None,           \* a request that refers to no app
    HttpMax,        \* config.httpMaxSessions
    SseMax,         \* config.sseMaxSessions; 0: legacySse is off
    MaxConcurrent,  \* config.maxConcurrentRequests
    IdleMs,         \* httpIdleMs and sseIdleMs, in ticks
    Faults          \* "init": initialize is refused or throws; "connect"

ASSUME HttpSessionsAssumption ==
    /\ None \notin App
    /\ HttpMax \in Nat \ {0} /\ SseMax \in Nat /\ MaxConcurrent \in Nat \ {0}
    /\ IdleMs \in Nat
    /\ Faults \subseteq {"init", "connect"}

VARIABLES
    phase,      \* of each app: none, new, live (in its map), closing
    kind,       \* "http" or "sse"
    age,        \* now - lastActivityAt (saturating)
    disposals,  \* history: context.dispose() calls on this app
    running,    \* a tool call of an SSE session is running
    route,      \* the streaming route of an SSE app: none, connect, await
    stage,      \* where each request is
    on,         \* the app it works with
    slot,       \* it went through boundedPost
    inFlight,
    overlapped, \* history: two initialize requests were under way at once
    server      \* up, closing (httpApp.shutdown), stopped (server.stop)

apps == <<phase, kind, age, disposals, running, route>>
requests == <<stage, on, slot, inFlight>>
system == <<overlapped, server>>
vars == <<apps, requests, system>>

Live(k) == {a \in App : phase[a] = "live" /\ kind[a] = k}
Initialising == {r \in Req : stage[r] = "init"}
Free(a) == phase[a] = "none" /\ route[a] = "none" /\ \A r \in Req : on[r] # a

Init == /\ phase = [a \in App |-> "none"]
        /\ kind = [a \in App |-> "http"]
        /\ age = [a \in App |-> 0]
        /\ disposals = [a \in App |-> 0]
        /\ running = [a \in App |-> FALSE]
        /\ route = [a \in App |-> "none"]
        /\ stage = [r \in Req |-> "idle"]
        /\ on = [r \in Req |-> None]
        /\ slot = [r \in Req |-> FALSE]
        /\ inFlight = 0
        /\ overlapped = FALSE /\ server = "up"

Goto(r, label, a) == /\ stage' = [stage EXCEPT ![r] = label]
                     /\ on' = [on EXCEPT ![r] = a]

\* The handler returns or throws; boundedPost's `finally` frees its slot.
FreesAlways(r) == TRUE
FreesSlot(r) == slot[r]
Finish(r) == /\ Goto(r, "idle", None)
             /\ slot' = [slot EXCEPT ![r] = FALSE]
             /\ inFlight' = IF FreesSlot(r) THEN inFlight - 1 ELSE inFlight

Touch(a) == age' = [age EXCEPT ![a] = 0]
NewApp(a, k, state) == /\ Free(a)
                       /\ phase' = [phase EXCEPT ![a] = state]
                       /\ kind' = [kind EXCEPT ![a] = k]
                       /\ disposals' = [disposals EXCEPT ![a] = 0]
                       /\ Touch(a)

-----------------------------------------------------------------------------
(* closing                                                                 *)

\* closeHttpSession / closeSseSession up to their first await: out of the map,
\* transport closing.  Closing what is not in the map does nothing.
StartClose(A) ==
    phase' = [a \in App |-> IF a \in A /\ phase[a] = "live" THEN "closing" ELSE phase[a]]

\* disposeApp is done: the McpServer is closed, the context disposed, the
\* streaming route settled.
ForgetsToSettle(a) == UNCHANGED route
Settle(a) == route' = [route EXCEPT ![a] = IF @ = "await" THEN "none" ELSE @]
Closed(a) == /\ phase[a] = "closing"
             /\ phase' = [phase EXCEPT ![a] = "none"]
             /\ disposals' = [disposals EXCEPT ![a] = @ + 1]
             /\ running' = [running EXCEPT ![a] = FALSE]
             /\ Settle(a)
             /\ UNCHANGED <<kind, age, requests, system>>

\* The sweeper.
IdleHttpOnly == {a \in Live("http") : age[a] > IdleMs}
Idle == {a \in App : phase[a] = "live" /\ age[a] > IdleMs}
Sweep == /\ server = "up" /\ Idle # {}
         /\ StartClose(Idle)
         /\ UNCHANGED <<kind, age, disposals, running, route, requests, system>>

\* SIGTERM: httpApp.shutdown closes every session, then server.stop.
Shutdown == /\ server = "up"
            /\ server' = "closing"
            /\ StartClose(App)
            /\ UNCHANGED <<kind, age, disposals, running, route, requests, overlapped>>

Stop == /\ server = "closing" /\ \A a \in App : phase[a] # "closing"
        /\ server' = "stopped"
        /\ UNCHANGED <<apps, requests, overlapped>>

-----------------------------------------------------------------------------
(* POST /mcp, and GET and DELETE /mcp                                      *)

\* boundedPost: take a slot, then read the body.
SlotLeft == inFlight < MaxConcurrent
PostArrives(r) == /\ stage[r] = "idle" /\ server # "stopped"
                  /\ SlotLeft
                  /\ inFlight' = inFlight + 1
                  /\ slot' = [slot EXCEPT ![r] = TRUE]
                  /\ Goto(r, "reading", None)
                  /\ UNCHANGED <<apps, system>>

\* 413, unknown session, malformed body, too many sessions.
TurnedAway(r) == /\ stage[r] \in {"reading", "parse"}
                 /\ Finish(r)
                 /\ UNCHANGED <<apps, system>>

\* A request of a session: from here until the transport answers.  A GET comes
\* without a slot.
ToSession(r, a) == /\ \/ stage[r] = "reading"
                      \/ stage[r] = "idle" /\ server # "stopped"
                   /\ a \in Live("http")
                   /\ Goto(r, "call", a)
                   /\ Touch(a)
                   /\ UNCHANGED <<phase, kind, disposals, running, route, slot,
                                  inFlight, system>>

\* No session id: the cap is looked at, then the app is built and connected.
AnyRoom == TRUE
RoomForHttp == Cardinality(Live("http")) < HttpMax
Initialize(r, a) == /\ stage[r] = "reading" /\ RoomForHttp
                    /\ NewApp(a, "http", "new")
                    /\ Goto(r, "init", a)
                    /\ overlapped' = (overlapped \/ Initialising # {})
                    /\ UNCHANGED <<running, route, slot, inFlight, server>>

\* A GET or DELETE without a session id takes the same path, without a slot,
\* and the transport refuses it.
Stray(r, a) == /\ stage[r] = "idle" /\ server # "stopped" /\ "init" \in Faults
               /\ RoomForHttp
               /\ NewApp(a, "http", "new")
               /\ Goto(r, "doomed", a)
               /\ UNCHANGED <<running, route, slot, inFlight, system>>

\* onsessioninitialized: the session enters the map, whatever its size by now.
Initialized(r) == /\ stage[r] = "init"
                  /\ phase' = [phase EXCEPT ![on[r]] = "live"]
                  /\ Touch(on[r])
                  /\ Goto(r, "call", on[r])
                  /\ UNCHANGED <<kind, disposals, running, route, slot, inFlight, system>>

\* The transport answered without a session, or threw: close and dispose the
\* pair, then return.
LeavesPair(r) == phase[on[r]]
ClosesPair(r) == "closing"
InitFails(r) == /\ "init" \in Faults /\ stage[r] \in {"init", "doomed"}
                /\ phase' = [phase EXCEPT ![on[r]] = ClosesPair(r)]
                /\ Goto(r, "dropping", on[r])
                /\ UNCHANGED <<kind, age, disposals, running, route, slot, inFlight, system>>

Dropped(r) == /\ stage[r] = "dropping" /\ phase[on[r]] = "none"
              /\ Finish(r)
              /\ UNCHANGED <<apps, system>>

\* The transport answers.  It may keep a request for ever once it is closed, so only
\* a live session's calls are assumed to end.
OnLive(r) == stage[r] = "call" /\ phase[on[r]] = "live"
CallDone(r) == /\ stage[r] = "call"
               /\ Finish(r)
               /\ UNCHANGED <<apps, system>>

\* DELETE /mcp reaches the transport of a live session ...
Delete(r, a) == /\ stage[r] = "idle" /\ server # "stopped" /\ a \in Live("http")
                /\ Goto(r, "delete", a)
                /\ Touch(a)
                /\ UNCHANGED <<phase, kind, disposals, running, route, slot,
                               inFlight, system>>

\* ... which calls onsessionclosed: dispose the app if the map still has it.
DisposesAnyway(r) == disposals' = [disposals EXCEPT ![on[r]] = @ + 1]
DisposesOnce(r) == UNCHANGED disposals
SessionClosed(r) == /\ stage[r] = "delete"
                    /\ StartClose({on[r]})
                    /\ DisposesOnce(r)
                    /\ Finish(r)
                    /\ UNCHANGED <<kind, age, running, route, system>>

-----------------------------------------------------------------------------
(* GET /sse and POST /messages                                             *)

\* The cap is looked at and the map written in one turn.
RoomForSse == Cardinality(Live("sse")) < SseMax
OpenSse(a) == /\ server # "stopped" /\ RoomForSse
              /\ NewApp(a, "sse", "live")
              /\ route' = [route EXCEPT ![a] = "connect"]
              /\ UNCHANGED <<running, requests, system>>

\* mcp.connect is done; `await closed` is over at once if the session is.
Connected(a) == /\ route[a] = "connect"
                /\ route' = [route EXCEPT ![a] = IF phase[a] = "none" THEN "none" ELSE "await"]
                /\ UNCHANGED <<phase, kind, age, disposals, running, requests, system>>

\* mcp.connect throws: close the session, unless somebody else has begun to.
ConnectFails(a) == /\ "connect" \in Faults /\ route[a] = "connect"
                   /\ StartClose({a})
                   /\ route' = [route EXCEPT ![a] = IF phase[a] = "live" THEN "await" ELSE "none"]
                   /\ UNCHANGED <<kind, age, disposals, running, requests, system>>

\* stream.onAbort
Abort(a) == /\ a \in Live("sse")
            /\ StartClose({a})
            /\ UNCHANGED <<kind, age, disposals, running, route, requests, system>>

\* POST /messages finds its session, then parses the body ...
Message(r, a) == /\ stage[r] = "reading" /\ a \in Live("sse")
                 /\ Goto(r, "parse", a)
                 /\ UNCHANGED <<apps, slot, inFlight, system>>

\* ... and hands it to the transport, which drops it if it has been closed.
Received(r) == /\ stage[r] = "parse"
               /\ running' = [running EXCEPT ![on[r]] = @ \/ phase[on[r]] = "live"]
               /\ Touch(on[r])
               /\ Finish(r)
               /\ UNCHANGED <<phase, kind, disposals, route, system>>

\* The answer goes out on the stream; a closed transport drops it.
AnswerSse(a) == /\ running[a]
                /\ running' = [running EXCEPT ![a] = FALSE]
                /\ age' = [age EXCEPT ![a] = IF phase[a] = "live" THEN 0 ELSE @]
                /\ UNCHANGED <<phase, kind, disposals, route, requests, system>>

Tick == /\ \E a \in App : phase[a] = "live" /\ age[a] <= IdleMs
        /\ age' = [a \in App |-> IF phase[a] = "live" /\ age[a] <= IdleMs
                                 THEN age[a] + 1 ELSE age[a]]
        /\ UNCHANGED <<phase, kind, disposals, running, route, requests, system>>

-----------------------------------------------------------------------------
\* What a request that is under way does next, while the server runs it.
Progress(r) == \/ TurnedAway(r) \/ Initialized(r) \/ InitFails(r) \/ Dropped(r)
               \/ SessionClosed(r) \/ Received(r)
               \/ \E a \in App : Initialize(r, a) \/ Message(r, a)
               \/ stage[r] = "reading" /\ \E a \in App : ToSession(r, a)

AppStep(a) == Closed(a) \/ Connected(a) \/ ConnectFails(a) \/ AnswerSse(a)

Next == \/ \E r \in Req : PostArrives(r) \/ Progress(r) \/ CallDone(r)
        \/ \E r \in Req, a \in App : ToSession(r, a) \/ Stray(r, a) \/ Delete(r, a)
        \/ \E a \in App : AppStep(a) \/ OpenSse(a) \/ Abort(a)
        \/ Sweep \/ Shutdown \/ Stop \/ Tick

Spec == Init /\ [][Next]_vars
FairSpec == /\ Spec /\ WF_vars(Tick) /\ WF_vars(Sweep)
            /\ \A r \in Req : /\ WF_vars(Progress(r))
                             /\ WF_vars(OnLive(r) /\ CallDone(r))
            /\ \A a \in App : WF_vars(Closed(a)) /\ WF_vars(Connected(a) \/ ConnectFails(a))

-----------------------------------------------------------------------------
TypeOK ==
    /\ phase \in [App -> {"none", "new", "live", "closing"}]
    /\ kind \in [App -> {"http", "sse"}]
    /\ age \in [App -> 0..(IdleMs + 1)]
    /\ disposals \in [App -> Nat]
    /\ running \in [App -> BOOLEAN]
    /\ route \in [App -> {"none", "connect", "await"}]
    /\ stage \in [Req -> {"idle", "reading", "call", "init", "doomed", "dropping",
                          "delete", "parse"}]
    /\ on \in [Req -> App \cup {None}]
    /\ slot \in [Req -> BOOLEAN]
    /\ inFlight \in 0..MaxConcurrent
    /\ overlapped \in BOOLEAN /\ server \in {"up", "closing", "stopped"}

\* Both caps hold.  Initialize requests that overlap overshoot theirs, together by no
\* more than boundedPost lets in (http-app.ts:267, 284-292, 329, 352-380).
SessionsCapped ==
    /\ Cardinality(Live("sse")) <= SseMax
    /\ Cardinality(Live("http")) + Cardinality(Initialising)
          <= HttpMax + IF overlapped THEN MaxConcurrent - 1 ELSE 0

\* No app, and so no file watcher, is lost: it is in a map, being closed, or the
\* business of one initialize request (http-app.ts:23-25, 308-321).  And its context is
\* disposed at most once, never while its session is in the map or being set up
\* (http-app.ts:119-152, 293-303).
AppsAccountedFor == \A a \in App :
    /\ phase[a] = "new" =>
          Cardinality({r \in Req : on[r] = a /\ stage[r] \in {"init", "doomed"}}) = 1
    /\ disposals[a] <= 1 /\ (disposals[a] = 1 => phase[a] = "none")

\* A session that nobody uses is evicted, until the sweeper stops
\* (http-app.ts:154-174).
IdleSessionsEnd == \A a \in App :
    phase[a] = "live" /\ age[a] > IdleMs
       ~> phase[a] # "live" \/ age[a] = 0 \/ server # "up"

\* The handler of an SSE stream returns once its session is closed, also when the
\* client leaves during connect (http-app.ts:75-76, 381-395).
\* And every request that got a slot gives it back, unless its session's transport was
\* closed under it (http-app.ts:324-342).
RoutesReturn ==
    /\ \A a \in App : route[a] # "none" /\ phase[a] # "live" ~> route[a] = "none"
    /\ \A r \in Req : slot[r] ~> ~slot[r] \/ (stage[r] = "call" /\ ~OnLive(r))
=============================================================================
