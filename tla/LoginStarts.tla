------------------------------ MODULE LoginStarts ------------------------------
(***************************************************************************)
(* The limit on POST /login/start of the setup page (packages/mcp-server/  *)
(* src/setup-ui.ts): a list of the accepted starts, unlike the counters of *)
(* RateLimits.  A start is known by its age, in ticks.                     *)
(***************************************************************************)
EXTENDS Integers, Sequences, FiniteSets

CONSTANTS
    LoginWindowMs,          \* limits.loginWindowMs, in ticks
    LoginStartsPerWindow    \* limits.loginStartsPerWindow

StartsAssumption == LoginWindowMs \in Nat /\ LoginStartsPerWindow \in Nat

VARIABLES
    loginStarts,    \* the ages of the starts on the list, oldest first (saturating)
    accepted        \* history: the starts accepted at most LoginWindowMs ticks ago, each
                    \* <<its age, its number among those of its tick>>

vars == <<loginStarts, accepted>>

Ages == 0..LoginWindowMs

Init == loginStarts = <<>> /\ accepted = {}

Now(recent) == {r \in recent : r[1] = 0}
OneMore(recent) == recent \cup {<<0, Cardinality(Now(recent)) + 1>>}
Older(recent) == {<<r[1] + 1, r[2]>> : r \in {q \in recent : q[1] + 1 \in Ages}}

-----------------------------------------------------------------------------
\* A request with a proper username shifts the starts that are over off the list.
Counts(age) == age <= LoginWindowMs
Oldest == CHOOSE k \in 1..(Len(loginStarts) + 1) :
             /\ \A i \in 1..(k - 1) : ~Counts(loginStarts[i])
             /\ k \in DOMAIN loginStarts => Counts(loginStarts[k])
Shifted == SubSeq(loginStarts, Oldest, Len(loginStarts))

\* 429, with the oldest start in Retry-After.
TooMany == /\ Len(Shifted) >= LoginStartsPerWindow
           /\ loginStarts' = Shifted
           /\ UNCHANGED accepted

\* 409: a login is active (SetupLogin's ActiveLogins); the attempt is not counted.
InProgress == /\ Len(Shifted) < LoginStartsPerWindow
              /\ loginStarts' = Shifted
              /\ UNCHANGED accepted

Accepted == /\ Len(Shifted) < LoginStartsPerWindow
            /\ loginStarts' = Append(Shifted, 0)
            /\ accepted' = OneMore(accepted)

Tick == /\ loginStarts' = [i \in DOMAIN loginStarts |->
                              IF Counts(loginStarts[i]) THEN loginStarts[i] + 1
                              ELSE loginStarts[i]]
        /\ accepted' = Older(accepted)

Next == TooMany \/ InProgress \/ Accepted \/ Tick
Spec == Init /\ [][Next]_vars

-----------------------------------------------------------------------------
TypeOK == /\ loginStarts \in Seq(0..LoginWindowMs + 1)
          /\ accepted \subseteq Ages \X (1..LoginStartsPerWindow)

\* Any stretch of loginWindowMs, both ends included, has at most the starts allowed; and
\* no start is refused before that many were accepted in the stretch that ends with it
\* (setup-ui.ts:364-379).
SpanHoldsStarts == /\ Cardinality(accepted) <= LoginStartsPerWindow
                   /\ Len(Shifted) = Cardinality(accepted)
=============================================================================
