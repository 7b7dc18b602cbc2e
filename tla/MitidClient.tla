------------------------------ MODULE MitidClient ------------------------------
(***************************************************************************)
(* The MitID part of one login: MitidClient (packages/aula-auth/src/       *)
(* mitid-client.ts), from the authentication session to the authorization  *)
(* code.  `loc` names the request or wait login() is suspended at; every   *)
(* action is one answer.  An authenticator is known by the number MitID    *)
(* gave it; its session id, flow key and eafe hash are that number.  The   *)
(* MitID server and the user's app are external.                           *)
(***************************************************************************)
EXTENDS Integers, Sequences

CONSTANTS
    MaxPoll,        \* maxPollMs, in poll intervals
    MaxIssued       \* bound: authenticators MitID issues in one session

BoundsAssumption == MaxPoll \in Nat /\ MaxIssued \in Nat

VARIABLES
    loc,            \* where login() is suspended
    method,         \* AulaLoginOptions.method, or "silent"
    cur,            \* currentAuthenticatorType, SessionId, SessionFlowKey, EafeHash
    response,       \* authResponse: the authenticator whose approval it carries
    peerKnown,      \* M2 was checked
    final,          \* finalizationSessionId is set
    clock,          \* poll intervals since authenticateWithApp began
    aborted,        \* AulaLoginOptions.signal
    server,         \* MitID: its current authenticator
    approved,       \* the user approved in the app
    accepted        \* MitID: the factors it accepted, in order

Methods == {"APP", "CODE_TOKEN"}
Labels == {"APP", "TOKEN", "PASSWORD"}
NoAuthenticator == [type |-> "none", session |-> 0, key |-> 0, eafe |-> 0]
asked == <<response, peerKnown, final>>
mitid == <<server, approved, accepted>>
mitidVars == <<method, cur, asked, clock, aborted, mitid>>

MitidInit == /\ cur = NoAuthenticator /\ response = 0 /\ peerKnown = FALSE
             /\ final = FALSE /\ clock = 0 /\ aborted = FALSE
             /\ server = [type |-> "none", id |-> 0] /\ approved = FALSE /\ accepted = <<>>

-----------------------------------------------------------------------------
(* POST /next                                                               *)

\* The hardware token is labelled TOKEN on the wire.
Normalized(label) == IF label = "TOKEN" THEN "CODE_TOKEN" ELSE label

Issues(label) == /\ server.id < MaxIssued
                 /\ server' = [type |-> label, id |-> server.id + 1]

\* applyNextAuthenticator: the four fields are taken together.
KeepsFlowKey(a) == [type |-> Normalized(a.type), session |-> a.id, key |-> cur.key,
                    eafe |-> a.id]
Applied(a) == [type |-> Normalized(a.type), session |-> a.id, key |-> a.id, eafe |-> a.id]

\* The authenticator MitID names next becomes the client's.
NextAuthenticator(label) == Issues(label) /\ cur' = Applied(server')

\* flowProofContext, and the SRP secret of the step: all of the server's authenticator.
ProofFits == /\ {cur.session, cur.key, cur.eafe} = {server.id}
             /\ cur.type = "APP" => response = cur.session

-----------------------------------------------------------------------------
(* create, identifyAsUser, assertMethodAvailable, selectAuthenticator        *)

SessionLoaded == /\ loc = "session"
                 /\ loc' = "claim" /\ UNCHANGED mitidVars

ClaimAccepted == /\ loc = "claim"
                 /\ loc' = "next_identified" /\ UNCHANGED mitidVars

\* What authenticateWithApp and authenticateWithToken do before their first own
\* request; the poll deadline runs from here.
Begin(type) == IF method = "CODE_TOKEN" THEN "prompt"
               ELSE IF type = "APP" THEN "app_start" ELSE "next_select"

Identified(label, offered) ==
    /\ loc = "next_identified"
    /\ NextAuthenticator(label)
    /\ loc' = IF method \in offered THEN Begin(cur'.type) ELSE "failed"
    /\ clock' = 0
    /\ UNCHANGED <<method, asked, aborted, approved, accepted>>

\* The user typed the digits of the hardware token.
Prompted == /\ loc = "prompt"
            /\ loc' = IF cur.type = "CODE_TOKEN" THEN "token_init" ELSE "next_select"
            /\ UNCHANGED mitidVars

Selected(label) ==
    /\ loc = "next_select"
    /\ NextAuthenticator(label)
    /\ loc' = IF cur'.type # method THEN "failed"
              ELSE IF method = "APP" THEN "app_start" ELSE "token_init"
    /\ UNCHANGED <<method, asked, clock, aborted, approved, accepted>>

-----------------------------------------------------------------------------
(* authenticateWithApp                                                      *)

\* The head of the loop.
PollOrStop == IF aborted \/ clock' > MaxPoll THEN "failed" ELSE "poll"

AppStarted == /\ loc = "app_start"
              /\ clock' \in {clock, clock + 1}
              /\ loc' = PollOrStop
              /\ UNCHANGED <<method, cur, asked, aborted, mitid>>

\* interpretPollResponse: timeout, channel_validation_otp, _tqr and channel_verified
\* go round the loop; anything else but OK with a payload is an error.
PollGoesOn == /\ loc = "poll"
              /\ loc' = "sleep"
              /\ UNCHANGED mitidVars

PollCompleted == /\ loc = "poll" /\ approved
                 /\ response' = server.id
                 /\ loc' = "app_init"
                 /\ UNCHANGED <<method, cur, peerKnown, final, clock, aborted, mitid>>

SleepEnds == /\ loc = "sleep" /\ ~aborted
             /\ clock' = clock + 1
             /\ loc' = PollOrStop
             /\ UNCHANGED <<method, cur, asked, aborted, mitid>>

\* sleep() rejects, whether the abort came before or during it.
SleepAborted == /\ loc = "sleep" /\ aborted
                /\ loc' = "failed" /\ UNCHANGED mitidVars

AppInit == /\ loc = "app_init"
           /\ loc' = "app_prove" /\ UNCHANGED mitidVars

\* 200; srp.stage5 accepts M2 only from a server that knows the same secret.
AppProved(knowsSecret) ==
    /\ loc = "app_prove" /\ ProofFits
    /\ peerKnown' = knowsSecret
    /\ loc' = IF knowsSecret THEN "app_verify" ELSE "failed"
    /\ UNCHANGED <<method, cur, response, final, clock, aborted, mitid>>

\* 204: the approval's signature, encrypted for this server.
AppVerified == /\ loc = "app_verify"
               /\ accepted' = Append(accepted, "APP")
               /\ loc' = "next_proved"
               /\ UNCHANGED <<method, cur, asked, clock, aborted, server, approved>>

-----------------------------------------------------------------------------
(* authenticateWithToken, authenticateWithPassword                          *)

TokenInit == /\ loc = "token_init"
             /\ loc' = "token_prove" /\ UNCHANGED mitidVars

Proved(factor) == /\ ProofFits
                  /\ accepted' = Append(accepted, factor)
                  /\ UNCHANGED <<method, cur, asked, clock, aborted, server, approved>>

TokenProved == loc = "token_prove" /\ Proved("CODE_TOKEN") /\ loc' = "next_token"

\* The label itself must be PASSWORD.
PasswordAsked(label) ==
    /\ loc = "next_token"
    /\ IF label = "PASSWORD"
       THEN NextAuthenticator(label) /\ loc' = "pass_init"
       ELSE Issues(label) /\ loc' = "failed" /\ UNCHANGED cur
    /\ UNCHANGED <<method, asked, clock, aborted, approved, accepted>>

PasswordInit == /\ loc = "pass_init"
                /\ loc' = "pass_prove" /\ UNCHANGED mitidVars

PasswordProved == loc = "pass_prove" /\ Proved("PASSWORD") /\ loc' = "next_proved"

-----------------------------------------------------------------------------
(* After the last factor                                                    *)

FactorsOf(m) == IF m = "CODE_TOKEN" THEN <<"CODE_TOKEN", "PASSWORD">> ELSE <<"APP">>

\* nextSessionId: MitID has seen every factor.
FactorsDone == /\ loc = "next_proved" /\ accepted = FactorsOf(method)
               /\ final' = TRUE
               /\ loc' = "finalize"
               /\ UNCHANGED <<method, cur, response, peerKnown, clock, aborted, mitid>>

-----------------------------------------------------------------------------
(* The user                                                                 *)

Approve == /\ loc \in {"poll", "sleep"} /\ ~approved
           /\ approved' = TRUE
           /\ UNCHANGED <<loc, method, cur, asked, clock, aborted, server, accepted>>

Abort == /\ ~aborted /\ loc \notin {"done", "failed"}
         /\ aborted' = TRUE
         /\ UNCHANGED <<loc, method, cur, asked, clock, mitid>>

MitidAnswer ==
    \/ SessionLoaded \/ ClaimAccepted
    \/ \E label \in Labels, offered \in SUBSET Methods : Identified(label, offered)
    \/ \E label \in Labels : Selected(label) \/ PasswordAsked(label)
    \/ AppStarted \/ PollGoesOn \/ PollCompleted \/ SleepEnds \/ SleepAborted
    \/ AppInit \/ \E m2 \in BOOLEAN : AppProved(m2)
    \/ AppVerified \/ TokenInit \/ TokenProved \/ PasswordInit \/ PasswordProved
    \/ FactorsDone
=============================================================================
