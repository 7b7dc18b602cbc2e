------------------------------- MODULE MCParts -------------------------------
(***************************************************************************)
(* One TLC model of nine components that share no state: the token side    *)
(* (KeyFile, Readiness on TokenRefresher, AulaLogin on MitidClient, Srp),  *)
(* the Aula side (AulaApi, WidgetTokens) and three of the server's         *)
(* (RateLimits, LoginStarts, Download).  A behaviour picks one of them     *)
(* (`part`, which never changes) and runs it; the others rest in an        *)
(* initial state.                                                          *)
(***************************************************************************)
EXTENDS Integers, FiniteSets

CONSTANTS None, Faults,
          Proc, Given, MaxKeys,
          Callers, RecheckMs, MaxLoad, MaxVer, Commands, Probes, GraceMs,
          MaxTok,
          WindowMs, Limit, FailLimit, LoginWindowMs, LoginStartsPerWindow,
          MaxRedirects, MaxBytes, MaxBody,
          Calls, Boot, Kinds, MaxApi, MaxNewest, ApiFaults,
          MaxPoll, MaxIssued, ChainHops, IdpTries, FollowHops, AcsHops,
          N, g, MaxExponent

VARIABLES part,
          keyFile, tokenFile, generated, cachedKey, own, sealed, pc, raced,
          store, versions, expired, left, inFlight, cached, cachedAge, lastError, load,
          loaded, loadAge, waitsOn, outdated, missed, probe, errorAge, quiet,
          issued, cache, live, flight, carried, stage, tok, first,
          requestWindow, authFailureWindow, admitted, answered401,
          loginStarts, starts,
          phase, hop, body, wire, bytes, queued, written, settled, result, file, lost,
          oldest, newest, beyond, apiVersion, versionVerified, probing, context, selected,
          kind, apiStage, ver, apiResult, performed, excused, mixed,
          loc, method, cur, response, peerKnown, final, clock, aborted, server, approved,
          accepted, asksIdentity, loginHop, tries, host, verb, answers,
          secretA, x, registered, u, k, secretB, serverB, sessionKey, step

Keys == INSTANCE KeyFile
Refresher == INSTANCE Readiness
Widget == INSTANCE WidgetTokens
Limits == INSTANCE RateLimits
Starts == INSTANCE LoginStarts WITH accepted <- starts
Download == INSTANCE Download
Api == INSTANCE AulaApi WITH Faults <- ApiFaults, stage <- apiStage, result <- apiResult
Login == INSTANCE AulaLogin WITH hop <- loginHop
Handshake == INSTANCE Srp

ASSUME PartsAssumption ==
       /\ Refresher!ReadinessAssumption /\ Api!AulaApiAssumption
       /\ Login!BoundsAssumption /\ Login!LimitsAssumption /\ Handshake!SrpAssumption
       /\ Limits!RateLimitsAssumption /\ Starts!StartsAssumption
       /\ Keys!KeyFileAssumption
       /\ Widget!WidgetTokensAssumption /\ Download!DownloadAssumption

keyVars == <<keyFile, tokenFile, generated, cachedKey, own, sealed, pc, raced>>
refresherVars == <<store, versions, expired, left, inFlight, cached, cachedAge, lastError,
                   load, loaded, loadAge, waitsOn, outdated, missed, probe,
                   errorAge, quiet>>
widgetVars == <<issued, cache, live, flight, carried, stage, tok, first>>
limitVars == <<requestWindow, authFailureWindow, admitted, answered401>>
startVars == <<loginStarts, starts>>
downloadVars == <<phase, hop, body, wire, bytes, queued, written, settled, result, file,
                  lost>>
apiVars == <<oldest, newest, beyond, apiVersion, versionVerified, probing, context,
             selected, kind, apiStage, ver, apiResult, performed, excused, mixed>>
loginVars == <<loc, method, cur, response, peerKnown, final, clock, aborted, server,
               approved, accepted, asksIdentity, loginHop, tries, host, verb, answers>>
handshakeVars == <<secretA, x, registered, u, k, secretB, serverB, sessionKey, step>>
vars == <<part, keyVars, refresherVars, widgetVars, limitVars, startVars, downloadVars,
          apiVars, loginVars, handshakeVars>>

Init == /\ part \in {"keys", "refresher", "widget", "limits", "starts", "download", "api",
                     "login", "handshake"}
        /\ Keys!Init /\ Refresher!RInit /\ Widget!Init /\ Limits!Init
        /\ Starts!Init /\ Download!Init
        /\ part # "download" => body = 0
        /\ Api!Init
        /\ part # "api" => newest = 1 /\ beyond = 404
        /\ Login!Init
        /\ part # "login" => method = "silent" /\ asksIdentity
        /\ IF part = "handshake" THEN Handshake!Init
           ELSE /\ secretA = 0 /\ x = 0 /\ registered = 0 /\ u = 0 /\ k = 0 /\ secretB = 0
                /\ serverB = 0 /\ sessionKey = -1 /\ step = "stage1"

\* Only part p moves.
Only(p) == /\ part = p /\ UNCHANGED part
           /\ p # "keys" => UNCHANGED keyVars
           /\ p # "refresher" => UNCHANGED refresherVars
           /\ p # "widget" => UNCHANGED widgetVars
           /\ p # "limits" => UNCHANGED limitVars
           /\ p # "starts" => UNCHANGED startVars
           /\ p # "download" => UNCHANGED downloadVars
           /\ p # "api" => UNCHANGED apiVars
           /\ p # "login" => UNCHANGED loginVars
           /\ p # "handshake" => UNCHANGED handshakeVars

\* A download that has been answered is over, and so is a login.
Over == /\ \/ part = "download" /\ phase = "done"
           \/ part = "login" /\ loc \in {"done", "failed"}
        /\ UNCHANGED vars

Next == \/ Only("keys") /\ Keys!Next
        \/ Only("refresher") /\ Refresher!RNext
        \/ Only("widget") /\ Widget!Next
        \/ Only("limits") /\ Limits!Next
        \/ Only("starts") /\ Starts!Next
        \/ Only("download") /\ Download!Next
        \/ Only("api") /\ Api!Next
        \/ Only("login") /\ Login!Next
        \/ Only("handshake") /\ Handshake!Next
        \/ Over

\* withFreshTokens always returns or throws, the timers of a download fire, and every
\* request to Aula and to MitID is answered or fails.
Spec == /\ Init /\ [][Next]_vars
        /\ \A c \in Callers : WF_vars(Only("refresher") /\ Refresher!Progress(c))
        /\ \A p \in Probes : WF_vars(Only("refresher") /\ Refresher!Serve(p))
        /\ WF_vars(Only("download") /\ Download!Progress)
        /\ WF_vars(Only("api") /\ Api!Probed)
        /\ \A c \in Calls \cup {Boot} : WF_vars(Only("api") /\ Api!Progress(c))
        /\ WF_vars(Only("login") /\ Login!Answer)

-----------------------------------------------------------------------------
\* The type invariants of the nine components.
PartsTypeOK == /\ Keys!TypeOK /\ Refresher!RTypeOK /\ Widget!TypeOK
               /\ Limits!TypeOK /\ Starts!TypeOK /\ Download!TypeOK
               /\ Api!TypeOK /\ Login!TypeOK /\ Handshake!TypeOK

\* A process that starts now can decrypt the tokens on disk, wherever the one that
\* saved them died (token-store.ts:202-252), unless two generated a key at once.
TokensStayReadable == Keys!TokensStayReadable

\* A logout or login elsewhere is noticed within recheckIntervalMs plus the length of
\* one load (token-refresh.ts:16-19), and an invalidate() forces a re-read unless it meets a
\* load that has read the store already (token-refresh.ts:107).
AnswersAreRecent == Refresher!CacheIsRecent /\ Refresher!InvalidateForcesReread

\* While refreshing keeps failing, /readyz tries at most once per grace window
\* (aula-context.ts:205-211, 225-228).
ProbesAreSpaced == Refresher!ProbesAreSpaced

\* A retry uses a newer token than the rejected one, also when it joins another
\* caller's request (widget-token-manager.ts:99-116).
RetryIsNewer == Widget!RetryIsNewer

\* No stretch of one window admits more than twice the budget (http-app.ts:552-583), and
\* none has more starts of a login than allowed, nor fewer when one is refused
\* (setup-ui.ts:364-379).
AnySpanBounded == Limits!AnySpanBounded /\ Starts!SpanHoldsStarts

\* The answer of a download says what is on disk, unless a write failed after end
\* (attachments.ts:365-367, 497-561).
AnswerMatchesFile == Download!AnswerMatchesFile

\* The client follows the versions Aula withdraws and releases, unless one was withdrawn
\* under several calls at once (aula-client.ts:482-484, 494-497).
FollowsWithdrawals == Api!FollowsWithdrawals

\* No POST is answered before getProfileContext has run on the session, unless the
\* bootstrap it waited for failed (aula-client.ts:447-464).
PostHasContext == Api!PostHasContext

\* A proof sent to MitID is all of the authenticator MitID is waiting for
\* (mitid-client.ts:654-662).
InStep == Login!InStep

\* Tokens only after every factor in order and for the own authorization request
\* (aula-login-client.ts:166-268, 314-337).
ImplementsPromise == Login!ImplementsPromise

\* Client and MitID derive the same secret from the same password
\* (srp.ts:125-130, 203-210).
SecretsAgree == Handshake!SecretsAgree

\* Nothing hangs: every caller of getFresh is answered (token-refresh.ts:99-101), every
\* /readyz (aula-context.ts:229-234), every download (attachments.ts:17-19), every call of
\* the API, however often versions are withdrawn under it (aula-client.ts:492-501), and
\* every login that waits for no human, whatever its peers answer
\* (mitid-client.ts:414-456, aula-login-client.ts:300, 392).
EveryCallEnds == /\ Refresher!Answered /\ Refresher!ProbesAnswered
                 /\ []<>(part = "download" => phase = "done")
                 /\ Api!CallsEnd
                 /\ <>[](part = "login" => loc \in Login!Ended \cup Login!Human)
=============================================================================
