------------------------------- MODULE AulaApi -------------------------------
(***************************************************************************)
(* The request path of AulaClient (packages/aula-client/src/               *)
(* aula-client.ts) shared by concurrent tool calls: the API version probe, *)
(* the bootstrap of the acting profile before the first POST, and the      *)
(* re-probe when a version is withdrawn under a running session (HTTP 410).*)
(*                                                                         *)
(* The Aula server is external: it serves the versions oldest..newest,     *)
(* answers 410 below them and `beyond` above, withdraws and releases       *)
(* versions at any time, and answers a GET of any method.                  *)
(***************************************************************************)
EXTENDS Integers

CONSTANTS
    Calls,        \* concurrent API calls
    Boot,         \* the getProfileContext call a POST starts
    Kinds,        \* which calls are made: "get", "profile", "thread", "post"
    MaxApi,       \* maxApiVersion
    MaxNewest,    \* bound: the newest version the server ever releases
    Faults        \* "net": a request may fail

AulaApiAssumption ==
    /\ Boot \notin Calls
    /\ Kinds \subseteq {"get", "profile", "thread", "post"}
    /\ MaxApi \in Nat /\ MaxNewest \in Nat \ {0} /\ MaxNewest < MaxApi
    /\ Faults \subseteq {"net"}

All == Calls \cup {Boot}

VARIABLES
    oldest, newest,  \* the versions Aula serves
    beyond,          \* what it answers for a version it does not serve yet
    apiVersion, versionVerified,
    probing,         \* the version versionPromise's probe tries next, 0: none
    context,         \* profileContextPromise: none, pending or done
    selected,        \* the server session has an acting profile
    kind, stage,     \* of each call
    ver,             \* the version its URL was built with
    result,          \* how its last run ended
    performed,       \* a POST of this run reached a live version
    excused,         \* this POST's bootstrap failed
    mixed            \* history: a re-probe met a call built with the old version

server == <<oldest, newest, beyond, selected>>
fields == <<apiVersion, versionVerified, probing, context>>
calls == <<kind, stage, ver, result, performed, excused>>
vars == <<server, fields, calls, mixed>>

Init == /\ oldest = 1 /\ newest \in 1..MaxNewest /\ beyond \in {404, 410}
        /\ apiVersion = 1 /\ versionVerified = FALSE /\ probing = 0
        /\ context = "none" /\ selected = FALSE
        /\ kind = [c \in All |-> "get"]
        /\ stage = [c \in All |-> "idle"]
        /\ ver = [c \in All |-> 0]
        /\ result = [c \in All |-> "none"]
        /\ performed = [c \in All |-> FALSE]
        /\ excused = [c \in All |-> FALSE]
        /\ mixed = FALSE

Status(v) == IF v < oldest THEN 410 ELSE IF v <= newest THEN 200 ELSE beyond

\* What a call does once it has a verified version.
AfterProbe(c) == IF stage[c] = "reprobe" THEN "resend"
                 ELSE IF kind[c] = "post" THEN "context" ELSE "send"

-----------------------------------------------------------------------------
\* A call starts: ensureApiVersion, which shares a probe already running.
Start(c, k) ==
    /\ stage[c] = "idle"
    /\ kind' = [kind EXCEPT ![c] = k]
    /\ result' = [result EXCEPT ![c] = "none"]
    /\ performed' = [performed EXCEPT ![c] = FALSE]
    /\ excused' = [excused EXCEPT ![c] = FALSE]
    /\ IF versionVerified
       THEN /\ stage' = [stage EXCEPT ![c] = IF k = "post" THEN "context" ELSE "send"]
            /\ ver' = [ver EXCEPT ![c] = apiVersion]
            /\ UNCHANGED probing
       ELSE /\ stage' = [stage EXCEPT ![c] = "probe"]
            /\ probing' = IF probing = 0 THEN apiVersion ELSE probing
            /\ UNCHANGED ver
    /\ UNCHANGED <<server, apiVersion, versionVerified, context, mixed>>

Probing(c) == stage[c] \in {"probe", "reprobe"}

\* How the calls in C end: a failed bootstrap lets the POSTs behind it go on.
End(C, how) ==
    LET failed == Boot \in C /\ how # "ok"
        behind == IF Boot \in C THEN {c \in Calls : stage[c] = "behind"} ELSE {} IN
    /\ stage' = [c \in All |-> IF c \in C THEN "idle"
                               ELSE IF c \in behind THEN "send" ELSE stage[c]]
    /\ result' = [c \in All |-> IF c \in C THEN how ELSE result[c]]
    /\ excused' = [c \in All |-> excused[c] \/ (failed /\ c \in behind)]
    /\ context' = IF Boot \in C THEN IF failed THEN "none" ELSE "done"
                  ELSE IF how = "ok" /\ context = "none"
                          /\ \E c \in C : kind[c] = "profile"
                       THEN "done" ELSE context

\* The probe asks for version `probing`: 200, it is the one.
VersionWorks == Status(probing) = 200
ProbeFinds ==
    /\ probing # 0 /\ probing <= MaxApi /\ VersionWorks
    /\ apiVersion' = probing /\ versionVerified' = TRUE /\ probing' = 0
    /\ ver' = [c \in All |-> IF Probing(c) THEN probing ELSE ver[c]]
    /\ stage' = [c \in All |-> IF Probing(c) THEN AfterProbe(c) ELSE stage[c]]
    /\ UNCHANGED <<server, context, kind, result, performed, excused, mixed>>

\* 410: try the next one.
NextVersion == probing + 1
VersionsLeft == probing <= MaxApi
ProbeBumps ==
    /\ probing # 0 /\ VersionsLeft /\ Status(probing) = 410
    /\ probing' = NextVersion
    /\ UNCHANGED <<server, apiVersion, versionVerified, context, calls, mixed>>

NoneFound == probing > MaxApi \/ Status(probing) = 404

\* Any other answer, a failed request, or no version left: every waiter fails.
ProbeFails ==
    /\ probing # 0
    /\ NoneFound \/ "net" \in Faults
    /\ probing' = 0
    /\ End({c \in All : Probing(c)}, "error")
    /\ UNCHANGED <<server, apiVersion, versionVerified, kind, ver, performed, mixed>>

\* postJson: wait for the profile context, bootstrapping it if nobody has.
ContextStarted == context # "none"
ContextKnown == context = "done"
Bootstrap(c) ==
    /\ stage[c] = "context" /\ context = "none"
    /\ context' = "pending"
    /\ kind' = [kind EXCEPT ![Boot] = "profile"]
    /\ result' = [result EXCEPT ![Boot] = "none"]
    /\ IF versionVerified
       THEN /\ stage' = [stage EXCEPT ![c] = "behind", ![Boot] = "send"]
            /\ ver' = [ver EXCEPT ![Boot] = apiVersion]
            /\ UNCHANGED probing
       ELSE /\ stage' = [stage EXCEPT ![c] = "behind", ![Boot] = "probe"]
            /\ probing' = IF probing = 0 THEN apiVersion ELSE probing
            /\ UNCHANGED ver
    /\ UNCHANGED <<server, apiVersion, versionVerified, performed, excused, mixed>>

AwaitContext(c) ==
    /\ stage[c] = "context" /\ context = "pending" /\ ~ContextKnown
    /\ stage' = [stage EXCEPT ![c] = "behind"]
    /\ UNCHANGED <<server, fields, kind, ver, result, performed, excused, mixed>>

HasContext(c) ==
    /\ stage[c] = "context" /\ ContextKnown
    /\ stage' = [stage EXCEPT ![c] = "send"]
    /\ UNCHANGED <<server, fields, kind, ver, result, performed, excused, mixed>>

-----------------------------------------------------------------------------
\* The request and parseEnvelope / getMessagesForThread on its answer.
Sending(c) == stage[c] \in {"send", "resend"}
IsPost(c) == kind[c] = "post" /\ stage[c] = "send"   \* the retry is a GET

Answered(c) ==
    /\ Sending(c) /\ Status(ver[c]) = 200
    /\ performed' = [performed EXCEPT ![c] = IsPost(c)]
    /\ selected' = (selected \/ kind[c] = "profile")
    /\ End({c}, "ok")
    /\ UNCHANGED <<oldest, newest, beyond, apiVersion, versionVerified, probing, kind, ver,
                   mixed>>

\* 410 under a verified version: bump it, probe again, then resend.
RetriesGone(c) == kind[c] # "thread" /\ versionVerified
BumpsByTwo == apiVersion + 2
Bumped == apiVersion + 1
Gone(c) ==
    /\ Sending(c) /\ Status(ver[c]) = 410 /\ RetriesGone(c)
    /\ versionVerified' = FALSE
    /\ apiVersion' = Bumped
    /\ probing' = Bumped
    /\ stage' = [stage EXCEPT ![c] = "reprobe"]
    /\ mixed' = (mixed \/ \E d \in All \ {c} : stage[d] \notin {"idle", "probe"})
    /\ UNCHANGED <<server, context, kind, ver, result, performed, excused>>

\* 410 otherwise (getMessagesForThread, or a re-probe is under way): throw.
GoneThrows(c) ==
    /\ Sending(c) /\ Status(ver[c]) = 410 /\ ~RetriesGone(c)
    /\ End({c}, "gone")
    /\ UNCHANGED <<server, apiVersion, versionVerified, probing, kind, ver, performed,
                   mixed>>

RequestFails(c) ==
    /\ Sending(c)
    /\ "net" \in Faults \/ Status(ver[c]) = 404
    /\ End({c}, "error")
    /\ UNCHANGED <<server, apiVersion, versionVerified, probing, kind, ver, performed,
                   mixed>>

-----------------------------------------------------------------------------
Withdraw == /\ oldest < newest /\ oldest' = oldest + 1
            /\ UNCHANGED <<newest, beyond, selected, fields, calls, mixed>>

Release == /\ newest < MaxNewest /\ newest' = newest + 1
           /\ UNCHANGED <<oldest, beyond, selected, fields, calls, mixed>>

Probe == ProbeFinds \/ ProbeBumps \/ ProbeFails
Probed == ProbeFinds \/ ProbeBumps \/ (NoneFound /\ ProbeFails)
Progress(c) == \/ Bootstrap(c) \/ AwaitContext(c) \/ HasContext(c)
               \/ Answered(c) \/ Gone(c) \/ GoneThrows(c) \/ RequestFails(c)

Next == \/ \E c \in Calls, k \in Kinds : Start(c, k)
        \/ Probe
        \/ \E c \in All : Progress(c)
        \/ Withdraw \/ Release

Spec == Init /\ [][Next]_vars
FairSpec == Spec /\ WF_vars(Probed) /\ \A c \in All : WF_vars(Progress(c))

-----------------------------------------------------------------------------
TypeOK ==
    /\ oldest \in 1..MaxNewest /\ newest \in 1..MaxNewest
    /\ apiVersion \in 1..(MaxApi + 1) /\ versionVerified \in BOOLEAN
    /\ probing \in 0..(MaxApi + 1)
    /\ context \in {"none", "pending", "done"} /\ selected \in BOOLEAN
    /\ kind \in [All -> {"get", "profile", "thread", "post"}]
    /\ stage \in [All -> {"idle", "probe", "context", "behind", "send", "reprobe",
                          "resend"}]
    /\ ver \in [All -> 0..MaxApi]
    /\ result \in [All -> {"none", "ok", "gone", "error"}]
    /\ performed \in [All -> BOOLEAN] /\ excused \in [All -> BOOLEAN]
    /\ beyond \in {404, 410} /\ mixed \in BOOLEAN

\* Unless a version was withdrawn under several calls at once, the client follows it: it
\* never moves past the versions Aula serves, so that from apiVersion on a probe still
\* finds one, and no call but getMessagesForThread fails with the 410: it is retried
\* (aula-client.ts:482-484, 494-497).
FollowsWithdrawals == ~mixed => /\ apiVersion <= newest
                                /\ \A c \in All : result[c] = "gone" => kind[c] = "thread"

\* No POST is answered before getProfileContext has run on the session, unless the
\* bootstrap this POST waited for failed (aula-client.ts:447-464).
PostHasContext ==
    [][\A c \in Calls : Answered(c) /\ IsPost(c) => selected \/ excused[c]]_vars

\* A write reported as done has reached Aula (aula-client.ts:441, 482-501).
DoneMeansWritten == \A c \in Calls :
    kind[c] = "post" /\ result[c] = "ok" => performed[c]

\* Every call ends, however often versions are withdrawn under it
\* (aula-client.ts:492-501 recurs).
CallsEnd == \A c \in Calls : []<>(stage[c] = "idle")
=============================================================================
