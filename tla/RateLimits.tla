------------------------------ MODULE RateLimits ------------------------------
(***************************************************************************)
(* The budgets of the HTTP pipeline (packages/mcp-server/src/http-app.ts): *)
(* every request takes from requestWindow, a request that fails to         *)
(* authenticate also from authFailureWindow.  Both are FixedWindow         *)
(* counters that restart at the first request after windowMs.              *)
(* Time is in ticks of which a window has WindowMs.                        *)
(***************************************************************************)
EXTENDS Integers, FiniteSets

CONSTANTS
    WindowMs,     \* 60 000 ms
    Limit,        \* config.requestsPerMinute
    FailLimit     \* config.authFailuresPerMinute

RateLimitsAssumption == WindowMs \in Nat \ {0} /\ Limit \in Nat /\ FailLimit \in Nat

VARIABLES
    requestWindow, authFailureWindow,   \* count, and t - windowStart (saturating)
    admitted,     \* history: requests admitted less than WindowMs ticks ago, each
                  \* <<its age, its number among those of its tick>>
    answered401   \* history: 401s answered, likewise

vars == <<requestWindow, authFailureWindow, admitted, answered401>>

Age == 0..WindowMs
Recent == 0..(WindowMs - 1)
Fresh == [count |-> 0, age |-> 0]

Init == /\ requestWindow = Fresh /\ authFailureWindow = Fresh
        /\ admitted = {} /\ answered401 = {}

Now(recent) == {r \in recent : r[1] = 0}
OneMore(recent) == recent \cup {<<0, Cardinality(Now(recent)) + 1>>}

\* roll(): a window that is over starts anew at this request.
RollForgetsStart(w) == IF w.age >= WindowMs THEN [w EXCEPT !.count = 0] ELSE w
Roll(w) == IF w.age >= WindowMs THEN Fresh ELSE w

\* take(): one unit, unless the window is exhausted.
Exhausted(w, limit) == Roll(w).count >= limit
Taken(w, limit) == IF Exhausted(w, limit) THEN Roll(w)
                   ELSE [Roll(w) EXCEPT !.count = @ + 1]

\* 429 rate_limited, before the credential is looked at.
Limited == /\ Exhausted(requestWindow, Limit)
           /\ requestWindow' = Taken(requestWindow, Limit)
           /\ UNCHANGED <<authFailureWindow, admitted, answered401>>

Admit == /\ ~Exhausted(requestWindow, Limit)
         /\ requestWindow' = Taken(requestWindow, Limit)
         /\ admitted' = OneMore(admitted)

\* A request that authenticates; a health check takes from the same budget.
Serve == /\ Admit
         /\ UNCHANGED <<authFailureWindow, answered401>>

\* The credential is wrong: 401 within the failure budget, ...
Unauthorized == /\ Admit
                /\ ~Exhausted(authFailureWindow, FailLimit)
                /\ authFailureWindow' = Taken(authFailureWindow, FailLimit)
                /\ answered401' = OneMore(answered401)

\* ... and 429 past it.
TooManyFailures == /\ Admit
                   /\ Exhausted(authFailureWindow, FailLimit)
                   /\ authFailureWindow' = Taken(authFailureWindow, FailLimit)
                   /\ UNCHANGED answered401

Older(recent) == {<<r[1] + 1, r[2]>> : r \in {q \in recent : q[1] + 1 \in Recent}}
Aged(w) == [w EXCEPT !.age = IF @ < WindowMs THEN @ + 1 ELSE @]
Tick == /\ requestWindow' = Aged(requestWindow)
        /\ authFailureWindow' = Aged(authFailureWindow)
        /\ admitted' = Older(admitted)
        /\ answered401' = Older(answered401)

Next == Limited \/ Serve \/ Unauthorized \/ TooManyFailures \/ Tick
Spec == Init /\ [][Next]_vars

-----------------------------------------------------------------------------
Window(limit) == [count : 0..limit, age : Age]

TypeOK == /\ requestWindow \in Window(Limit)
          /\ authFailureWindow \in Window(FailLimit)
          /\ admitted \subseteq Recent \X (1..Limit)
          /\ answered401 \subseteq Recent \X (1..FailLimit)

\* However requests fall around the restart of a window, any stretch of windowMs
\* admits at most twice the limit, and sees at most twice the failure budget
\* answered with 401 (http-app.ts:93-94, 552-583).
AnySpanBounded == /\ Cardinality(admitted) <= 2 * Limit
                  /\ Cardinality(answered401) <= 2 * FailLimit
=============================================================================
