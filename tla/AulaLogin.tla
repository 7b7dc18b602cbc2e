------------------------------- MODULE AulaLogin -------------------------------
(***************************************************************************)
(* One call of AulaLoginClient.login or attemptSilentReauthorize           *)
(* (packages/aula-auth/src/aula-login-client.ts): the redirect chains, the *)
(* broker, the SAML hand-offs, the callback and the code exchange around   *)
(* the MitID part (MitidClient).  A page is the set of the features its    *)
(* parsers look for; the peers, which are external, answer anything.       *)
(***************************************************************************)
EXTENDS MitidClient

CONSTANTS
    ChainHops,      \* hops of walkOauthChain and attemptSilentReauthorize
    IdpTries,       \* field and value combinations of tryBrokerIdpCombinations
    FollowHops,     \* followRedirects.maxHops
    AcsHops         \* hops of postAulaSamlAcs

LimitsAssumption == {ChainHops, IdpTries, FollowHops, AcsHops} \subseteq Nat \ {0}

VARIABLES
    asksIdentity,   \* AulaLoginOptions.selectIdentity was given
    hop,            \* of the current loop
    tries,          \* IdP combinations sent for the current broker page
    host,           \* whose page the request in flight asks for
    verb,           \* its HTTP method
    answers         \* the state of the callback: none, own, other

chain == <<asksIdentity, hop, tries, host, verb, answers>>
vars == <<loc, mitidVars, chain>>

\* "aula": any host that is neither the broker's nor MitID's.
Hosts == {"aula", "broker", "mitid"}
Features == {"token", "form", "meta", "saml", "options", "params", "button"}
Pages == {{}} \cup {{f} : f \in Features} \cup {{"button", "form"}}
Ended == {"done", "failed"}
\* A human decides; nothing in the client ends these waits.
Human == {"prompt", "identity"}

Init == /\ MitidInit
        /\ method \in Methods \cup {"silent"} /\ asksIdentity \in BOOLEAN
        /\ loc = IF method = "silent" THEN "silent" ELSE "walk"
        /\ hop = 0 /\ tries = 0 /\ host = "aula" /\ verb = "GET" /\ answers = "none"

-----------------------------------------------------------------------------
(* Requests and pages                                                       *)

HasVerificationToken(page) == "token" \in page
HasIdpForm(page) == "form" \in page
HasMetaRefresh(page) == "meta" \in page
\* RelayState and the form's action may be missing.
HasSamlForm(page) == "saml" \in page
HasIdentities(page) == "options" \in page
\* session_code and execution, from the URL or from the form's action.
HasBrokerParams(page) == "params" \in page
HasConfirmation(page) == {"button", "form"} \subseteq page

Goes(there) == loc' = there /\ UNCHANGED <<mitidVars, asksIdentity, answers>>
Enters(there, h, v) == /\ Goes(there)
                       /\ hop' = 0 /\ tries' = 0 /\ host' = h /\ verb' = v

\* A network failure, or a status or body the caller throws on, at any request.
RequestFails == /\ loc \notin Ended \cup Human \cup {"sleep"}
                /\ Goes("failed") /\ UNCHANGED <<hop, tries, host, verb>>

\* One more round of a loop of `limit` rounds, on a page of host h.
Hop(limit, h) == /\ hop' = hop + 1 /\ host' = h /\ tries' = 0
                 /\ Goes(IF hop + 1 < limit
                         THEN IF loc = "idp" THEN "walk" ELSE loc
                         ELSE "failed")

-----------------------------------------------------------------------------
(* walkOauthChain, tryBrokerIdpCombinations                                 *)

WalkRedirected(h) == loc = "walk" /\ Hop(ChainHops, h) /\ UNCHANGED verb

WalkRefreshed(h, page) == /\ loc = "walk" /\ host \notin {"broker", "mitid"}
                          /\ HasMetaRefresh(page)
                          /\ Hop(ChainHops, h) /\ UNCHANGED verb

BrokerPage(page) == /\ loc = "walk" /\ host = "broker" /\ HasIdpForm(page)
                    /\ Goes("idp") /\ UNCHANGED <<hop, tries, host, verb>>

\* The first combination that redirects wins.
IdpRedirected(h) == loc = "idp" /\ Hop(ChainHops, h) /\ UNCHANGED verb

IdpIgnored == /\ loc = "idp"
              /\ tries' = tries + 1
              /\ Goes(IF tries + 1 < IdpTries THEN "idp" ELSE "failed")
              /\ UNCHANGED <<hop, host, verb>>

MitidPage(page) == /\ loc = "walk" /\ host = "mitid" /\ HasVerificationToken(page)
                   /\ Enters("initialize", "mitid", "POST")

\* The Aux field names the authentication session and the client hash.
AuxParsed == loc = "initialize" /\ Enters("session", "mitid", "GET")

-----------------------------------------------------------------------------
(* finalize, completeMitidAndGetSamlForm                                    *)

Finalized == loc = "finalize" /\ final /\ Enters("complete", "mitid", "POST")

\* followRedirects: 307 and 308 repeat the request the call was made with.
Followed(status) == /\ loc \in {"complete", "option"}
                    /\ verb' = IF status \in {307, 308} THEN "POST" ELSE "GET"
                    /\ Hop(FollowHops, host)

IdentityPage(page) == /\ loc = "complete"
                      /\ Goes(IF HasIdentities(page) /\ asksIdentity THEN "identity"
                              ELSE "failed")
                      /\ UNCHANGED <<hop, tries, host, verb>>

IdentityChosen == loc = "identity" /\ Enters("option", "mitid", "POST")
IdentityRefused == /\ loc = "identity"
                   /\ Goes("failed") /\ UNCHANGED <<hop, tries, host, verb>>

SamlFormRead(page) == /\ loc \in {"complete", "option"} /\ HasSamlForm(page)
                      /\ Enters("saml", "broker", "POST")

-----------------------------------------------------------------------------
(* runBrokerHandoff                                                         *)

SamlRedirected == loc = "saml" /\ Enters("saml_page", "broker", "GET")

BrokerParamsRead(page) == /\ loc \in {"saml", "saml_page"} /\ HasBrokerParams(page)
                          /\ Enters("post_broker", "broker", "POST")

ConfirmationAsked(page) == /\ loc = "post_broker" /\ HasConfirmation(page)
                           /\ Enters("confirm", "broker", "POST")

BrokerRedirected == /\ loc \in {"post_broker", "confirm"}
                    /\ Enters("after", "broker", "GET")

FinalSamlForm(page) == /\ loc = "after" /\ HasSamlForm(page)
                       /\ Enters("acs", "aula", "POST")

-----------------------------------------------------------------------------
(* postAulaSamlAcs, attemptSilentReauthorize, the callback                  *)

\* The request of the last round is sent, and its answer not looked at.
AcsRedirected == /\ loc = "acs" /\ hop < AcsHops
                 /\ hop' = hop + 1 /\ verb' = "GET"
                 /\ Goes("acs") /\ UNCHANGED <<tries, host>>
AcsExhausted == /\ loc = "acs" /\ hop = AcsHops
                /\ Goes("failed") /\ UNCHANGED <<hop, tries, host, verb>>

\* The redirect URI with a code: only the state this call sent is taken.
TakesAnyState(state) ==
    /\ loc = "silent" \/ (loc = "acs" /\ hop < AcsHops)
    /\ answers' = state /\ loc' = "token"
    /\ UNCHANGED <<mitidVars, asksIdentity, hop, tries, host, verb>>
Callback(state) ==
    /\ loc = "silent" \/ (loc = "acs" /\ hop < AcsHops)
    /\ answers' = state
    /\ loc' = IF state = "own" THEN "token" ELSE "failed"
    /\ UNCHANGED <<mitidVars, asksIdentity, hop, tries, host, verb>>

SilentRedirected(h) == loc = "silent" /\ Hop(ChainHops, h) /\ UNCHANGED verb

SilentRefreshed(h, page) == /\ loc = "silent" /\ host \notin {"broker", "mitid"}
                            /\ HasMetaRefresh(page)
                            /\ Hop(ChainHops, h) /\ UNCHANGED verb

\* exchangeAuthorizationCode.
TokensIssued == /\ loc = "token"
                /\ Goes("done") /\ UNCHANGED <<hop, tries, host, verb>>

-----------------------------------------------------------------------------
LoginAnswer ==
    \/ RequestFails
    \/ \E h \in Hosts : WalkRedirected(h) \/ IdpRedirected(h) \/ SilentRedirected(h)
    \/ \E h \in Hosts, page \in Pages : WalkRefreshed(h, page) \/ SilentRefreshed(h, page)
    \/ \E page \in Pages :
          \/ BrokerPage(page) \/ MitidPage(page) \/ IdentityPage(page) \/ SamlFormRead(page)
          \/ BrokerParamsRead(page) \/ ConfirmationAsked(page) \/ FinalSamlForm(page)
    \/ IdpIgnored \/ AuxParsed \/ Finalized
    \/ \E status \in {302, 303, 307} : Followed(status)
    \/ SamlRedirected \/ BrokerRedirected \/ AcsRedirected \/ AcsExhausted
    \/ \E state \in {"own", "other"} : Callback(state)
    \/ TokensIssued

Answer == \/ LoginAnswer
          \/ MitidAnswer /\ UNCHANGED chain
User == \/ (Prompted \/ Approve \/ Abort) /\ UNCHANGED chain
        \/ IdentityChosen \/ IdentityRefused
Next == Answer \/ User

\* Every request is answered or fails, and sleep's timer fires; the user may do nothing.
Spec == Init /\ [][Next]_vars /\ WF_vars(Answer)

-----------------------------------------------------------------------------
(* Properties                                                               *)

Locs == Ended \cup Human \cup
        {"walk", "idp", "initialize", "session", "claim", "next_identified", "next_select",
         "app_start", "poll", "sleep", "app_init", "app_prove", "app_verify", "token_init",
         "token_prove", "next_token", "pass_init", "pass_prove", "next_proved", "finalize",
         "complete", "option", "saml", "saml_page", "post_broker", "confirm", "after",
         "acs", "silent", "token"}

TypeOK == /\ loc \in Locs /\ method \in Methods \cup {"silent"} /\ asksIdentity \in BOOLEAN
          /\ cur.type \in Methods \cup {"none", "PASSWORD"}
          /\ {cur.session, cur.key, cur.eafe, response} \subseteq 0..MaxIssued
          /\ {peerKnown, final, aborted, approved} \subseteq BOOLEAN
          /\ clock \in 0..MaxPoll + 2 /\ server.id \in 0..MaxIssued
          /\ accepted \in Seq(Methods \cup {"PASSWORD"})
          /\ hop \in 0..ChainHops \cup 0..FollowHops \cup 0..AcsHops
          /\ tries \in 0..IdpTries
          /\ host \in Hosts /\ verb \in {"GET", "POST"} /\ answers \in {"none", "own", "other"}

\* What the client sends in a proof is all of the authenticator MitID is waiting for,
\* also after MitID moved on: a proof for an earlier one would be refused, however right
\* the secret (mitid-client.ts:654-662).  And the approval's signature is encrypted only
\* for a server that proved it knows the approval (mitid-client.ts:377-381).
InStep == /\ loc \in {"app_prove", "app_verify", "token_prove", "pass_prove"} => ProofFits
          /\ loc = "app_verify" => peerKnown

\* Every login ends, whatever the peers answer, unless a human is asked: no chain of
\* redirects, broker page or poll keeps it going (mitid-client.ts:414-456,
\* aula-login-client.ts:300, 392, 668).
LoginEnds == <>[](loc \in Ended \cup Human)

\* How far the call is for who made it.
Outcome == IF loc = "done" THEN "granted"
           ELSE IF loc = "failed" THEN "failed"
           ELSE IF loc = "token" THEN IF answers = "own" THEN "asserted" ELSE "crossed"
           ELSE "open"

\* Tokens only after every factor in order and for the own authorization request
\* (aula-login-client.ts:166-268, 314-337).
Promise == INSTANCE LoginPromise WITH factors <- accepted, stage <- Outcome
ImplementsPromise == Promise!Spec

=============================================================================
