------------------------------- MODULE Readiness -------------------------------
(***************************************************************************)
(* readiness() of AulaContext (packages/mcp-server/src/aula-context.ts),   *)
(* which /readyz asks: a look at the store, and only where that finds an   *)
(* expired record a load through the refresher every session shares        *)
(* (TokenRefresher).  A caller of the refresher is a tool call or a probe. *)
(***************************************************************************)
EXTENDS TokenRefresher

CONSTANTS
    Probes,        \* the callers that may be /readyz requests
    GraceMs        \* REFRESH_FAILURE_GRACE_MS, in ticks

ReadinessAssumption == /\ TokenRefresherAssumption
                       /\ Probes \subseteq Callers /\ GraceMs \in Nat \ {0}

VARIABLES
    probe,      \* each probe: off, reading, expired, asking
    errorAge,   \* Date.now() - lastError.at (saturating at GraceMs)
    quiet       \* history: ticks since a probe's own load failed, with no success since

probing == <<probe, errorAge, quiet>>
rvars == <<vars, probing>>

RInit == /\ Init
         /\ probe = [p \in Probes |-> "off"]
         /\ errorAge = 0 /\ quiet = GraceMs

-----------------------------------------------------------------------------
Goes(p, there) == probe' = [probe EXCEPT ![p] = there]

Ask(p) == /\ probe[p] = "off" /\ waitsOn[p] = None
          /\ Goes(p, "reading")
          /\ UNCHANGED <<vars, errorAge, quiet>>

\* store.load() throws, finds nothing, or finds a record that is fresh: answered.
Looked(p) == /\ probe[p] = "reading"
             /\ Goes(p, "off")
             /\ UNCHANGED <<vars, errorAge, quiet>>

FoundExpired(p) == /\ probe[p] = "reading" /\ store # None /\ ~Fresh(store)
                   /\ Goes(p, "expired")
                   /\ UNCHANGED <<vars, errorAge, quiet>>

\* The failure memory of the refresher, whoever's load failed: refresh_failing.
RecentlyFailed == lastError /\ errorAge < GraceMs
StillFailing(p) == /\ probe[p] = "expired" /\ RecentlyFailed
                   /\ Goes(p, "off")
                   /\ UNCHANGED <<vars, errorAge, quiet>>

\* getFresh(): ready at once from the cache, or after the load of this caller or another.
Refreshes(p) == /\ probe[p] = "expired" /\ ~RecentlyFailed
                /\ \/ CacheHit(p) /\ Goes(p, "off")
                   \/ (Join(p) \/ StartLoad(p)) /\ Goes(p, "asking")
                /\ UNCHANGED <<errorAge, quiet>>

-----------------------------------------------------------------------------
\* A load settles: whoever awaits it is answered, probes too.
Answers == probe' = [p \in Probes |-> IF waitsOn[p] # None /\ waitsOn'[p] = None
                                      THEN "off" ELSE probe[p]]

Succeeds(c) == /\ Succeed(c)
               /\ errorAge' = 0 /\ quiet' = GraceMs
               /\ Answers

\* lastError is set anew by every failure.
FirstFailureAge == IF lastError THEN errorAge ELSE 0
FailureAge == 0
Throws(c) == /\ Fail(c)
             /\ errorAge' = FailureAge
             /\ quiet' = IF c \in Probes /\ probe[c] = "asking" THEN 0 ELSE quiet
             /\ Answers

LoadGoesOn(c) == /\ ReadFresh(c) \/ ReadExpired(c) \/ Refreshed(c) \/ Adopted(c)
                 /\ UNCHANGED probing

ToolCalls(c) == /\ c \in Probes => probe[c] = "off"
                /\ Join(c) \/ CacheHit(c) \/ StartLoad(c)
                /\ UNCHANGED probing

\* invalidate() leaves the failure memory alone.
Outside == /\ Invalidate \/ Login \/ Logout \/ \E v \in Version : Expire(v)
           /\ UNCHANGED probing

Older(age) == IF age < GraceMs THEN age + 1 ELSE age
Time == /\ Tick
        /\ errorAge' = IF lastError THEN Older(errorAge) ELSE 0
        /\ quiet' = Older(quiet)
        /\ UNCHANGED probe

Progress(c) == LoadGoesOn(c) \/ Succeeds(c) \/ Throws(c)
Serve(p) == Looked(p) \/ FoundExpired(p) \/ StillFailing(p) \/ Refreshes(p)

RNext == \/ \E c \in Callers : ToolCalls(c) \/ Progress(c)
         \/ \E p \in Probes : Ask(p) \/ Serve(p)
         \/ Outside \/ Time

RSpec == RInit /\ [][RNext]_rvars
RFairSpec == /\ RSpec /\ \A c \in Callers : WF_rvars(Progress(c))
             /\ \A p \in Probes : WF_rvars(Serve(p))

-----------------------------------------------------------------------------
RTypeOK == /\ TypeOK
           /\ probe \in [Probes -> {"off", "reading", "expired", "asking"}]
           /\ errorAge \in 0..GraceMs /\ quiet \in 0..GraceMs

\* /readyz does not hammer Aula while refreshing keeps failing: a probe starts a load at
\* most once per grace window, unless some load succeeded since the last one a probe
\* started, whatever the tool calls, logins and invalidations between them do to the
\* failure memory (aula-context.ts:205-211, 225-228).
ProbesAreSpaced ==
    [][\A p \in Probes : probe[p] = "expired" /\ StartLoad(p) => quiet = GraceMs]_rvars

\* Every probe is answered (aula-context.ts:229-234).
ProbesAnswered == \A p \in Probes : []<>(probe[p] = "off")
=============================================================================
