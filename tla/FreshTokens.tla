----------------------------- MODULE FreshTokens -----------------------------
(***************************************************************************)
(* withFreshTokens (packages/aula-auth/src/token-store.ts) run by several  *)
(* processes on one token store, beside the CLI commands that write the    *)
(* store without taking the lock: login, logout and refresh-stepup.        *)
(*                                                                         *)
(* The section a process enters to refresh is Mutex, which FileLock        *)
(* implements (theorem Refinement of FileLock_proofs); a process that dies *)
(* inside it leaves it when its stale lock is reclaimed.  Every load, save *)
(* and request of the code is a step.  Tokens are numbers in the order the *)
(* authorization server issues them; the server is external, modelled from *)
(* what aula-oauth.ts sends and accepts.                                   *)
(***************************************************************************)
EXTENDS Integers, Mutex

CONSTANTS
    Users,        \* the guardians who may log in on this installation
    None,         \* no record on disk, no cookie jar, nothing remembered
    Locked,       \* the store has a lock path (file) or not (keychain)
    Rotations,    \* does a refresh answer carry a new refresh token? the choices
    Cli,          \* which CLI commands run beside the refreshers
    Persist,      \* values of AULA_MCP_PERSIST_COOKIES the logins run with
    Faults,       \* "lost": the HTTP exchange breaks; "disk"; "crash"
    MaxTok,       \* bound: tokens the server ever issues
    MaxCalls      \* bound: calls of withFreshTokens by each process

ASSUME FreshTokensAssumption ==
    /\ None \notin Users
    /\ Locked \in BOOLEAN /\ Rotations \subseteq BOOLEAN
    /\ Cli \subseteq {"login", "logout", "stepup"}
    /\ Persist \subseteq BOOLEAN
    /\ Faults \subseteq {"lost", "disk", "crash"}
    /\ MaxTok \in Nat \ {0} /\ MaxCalls \in Nat

Tok == 1..MaxTok
Record == [user : Users, at : Tok, rt : Tok]
NoPair == [at |-> 0, rt |-> 0]
Pair == [at : Tok, rt : Tok] \cup {NoPair}

VARIABLES
    store,     \* StoredTokenRecord on disk, or None
    cookies,   \* whose broker session cookies.json holds, or None
    issued,    \* tokens issued so far: 1..issued
    owner,     \* whose session each token belongs to
    expired,   \* access tokens within the refresh buffer of their expiry
    spent,     \* refresh tokens that have been replaced by rotation
    replayed,  \* history: a spent refresh token was presented
    happened,  \* history: what has gone wrong or against the grain
    pc,        \* where each process is in withFreshTokens
    cur,       \* `current`, as re-read under the lock
    lat,       \* `latest`, the final read before the save
    new,       \* `refreshed`, the answer of the token endpoint
    stepup,    \* username refresh-stepup has loaded, or None
    calls

server == <<issued, owner, expired, spent, replayed>>
cli == <<cookies, stepup>>
vars == <<holders, store, server, cli, pc, cur, lat, new, calls, happened>>

Init == /\ MutexInit
        /\ \E u \in Users : /\ store = [user |-> u, at |-> 1, rt |-> 1]
                            /\ owner = [t \in Tok |-> u]
        /\ issued = 1 /\ expired = {} /\ spent = {} /\ replayed = FALSE
        /\ cookies = None /\ stepup = None /\ happened = {}
        /\ pc = [p \in Proc |-> "idle"]
        /\ cur = [p \in Proc |-> None]
        /\ lat = [p \in Proc |-> None]
        /\ new = [p \in Proc |-> NoPair]
        /\ calls = [p \in Proc |-> 0]

Fresh(r) == r.at \notin expired        \* ~isTokenExpired(r.tokens, buffer)
Happens(what) == happened' = happened \cup {what}
Goto(p, label) == pc' = [pc EXCEPT ![p] = label]

\* `finally`: leave the section if there is one, whether fn returned or threw.
LeaveSection(p) == IF Locked THEN Leave(p) ELSE UNCHANGED holders
Return(p) == /\ Goto(p, "idle")
             /\ cur' = [cur EXCEPT ![p] = None]
             /\ lat' = [lat EXCEPT ![p] = None]
             /\ new' = [new EXCEPT ![p] = NoPair]

Issue(u) == /\ issued < MaxTok
            /\ issued' = issued + 1
            /\ owner' = [owner EXCEPT ![issued + 1] = u]

-----------------------------------------------------------------------------
(* withFreshTokens                                                         *)

Call(p) == /\ pc[p] = "idle" /\ calls[p] < MaxCalls
           /\ calls' = [calls EXCEPT ![p] = @ + 1]
           /\ Goto(p, "load")
           /\ UNCHANGED <<holders, store, server, cli, cur, lat, new, happened>>

\* First load: throw without a record, return a fresh one without locking.
LoadDone(p) == /\ pc[p] = "load"
               /\ (store # None => Fresh(store))
               /\ Goto(p, "idle")
               /\ UNCHANGED <<holders, store, server, cli, cur, lat, new, calls, happened>>

LoadExpired(p) == /\ pc[p] = "load"
                  /\ store # None /\ ~Fresh(store)
                  /\ Goto(p, IF Locked THEN "lock" ELSE "reload")
                  /\ UNCHANGED <<holders, store, server, cli, cur, lat, new, calls, happened>>

EnterShared(p) == holders' = holders \cup {p}
EnterSection(p) == Enter(p)
Lock(p) == /\ pc[p] = "lock"
           /\ EnterSection(p)
           /\ Goto(p, "reload")
           /\ UNCHANGED <<store, server, cli, cur, lat, new, calls, happened>>

\* acquireFileLock throws FileLockError: somebody else kept the lock too long.
LockTimesOut(p) == /\ pc[p] = "lock" /\ holders # {}
                   /\ Goto(p, "idle")
                   /\ UNCHANGED <<holders, store, server, cli, cur, lat, new, calls, happened>>

\* Logged out while waiting (throw), or somebody refreshed (adopt).
ReloadDone(p) == /\ pc[p] = "reload"
                 /\ (store # None => Fresh(store))
                 /\ LeaveSection(p) /\ Return(p)
                 /\ UNCHANGED <<store, server, cli, calls, happened>>

ReloadExpired(p) == /\ pc[p] = "reload"
                    /\ store # None /\ ~Fresh(store)
                    /\ cur' = [cur EXCEPT ![p] = store]
                    /\ Goto(p, "send")
                    /\ UNCHANGED <<holders, store, server, cli, lat, new, calls, happened>>

\* The refresh grant is redeemed: refreshAccessToken returns a new pair.
\* When it does not rotate, the answer has no refresh_token and ours is kept.
KeepsOldRefresh(old, fresh, rotates) == [at |-> fresh, rt |-> old]
AnswerPair(old, fresh, rotates) == [at |-> fresh, rt |-> IF rotates THEN fresh ELSE old]
Granted(p, rotates) ==
    /\ cur[p].rt \notin spent
    /\ Issue(owner[cur[p].rt])
    /\ spent' = IF rotates THEN spent \cup {cur[p].rt} ELSE spent
    /\ UNCHANGED <<expired, replayed>>

Refreshed(p, rotates) ==
    /\ pc[p] = "send"
    /\ Granted(p, rotates)
    /\ new' = [new EXCEPT ![p] = AnswerPair(cur[p].rt, issued + 1, rotates)]
    /\ Goto(p, "reread")
    /\ UNCHANGED <<holders, store, cli, cur, lat, calls, happened>>

\* The token endpoint answers anything but 200 to a spent refresh token.
Refused(p) == /\ pc[p] = "send" /\ cur[p].rt \in spent
              /\ replayed' = TRUE
              /\ LeaveSection(p) /\ Return(p)
              /\ UNCHANGED <<store, issued, owner, expired, spent, cli, calls, happened>>

\* The exchange breaks: before the server sees it, or after it has rotated.
RequestLost(p) == /\ "lost" \in Faults /\ pc[p] = "send"
                  /\ LeaveSection(p) /\ Return(p)
                  /\ Happens("fault")
                  /\ UNCHANGED <<store, server, cli, calls>>

AnswerLost(p, rotates) ==
    /\ "lost" \in Faults /\ pc[p] = "send"
    /\ Granted(p, rotates)
    /\ LeaveSection(p) /\ Return(p)
    /\ Happens("fault")
    /\ UNCHANGED <<store, cli, calls>>

\* Final read: logged out mid-refresh (throw), or somebody else's newer valid
\* tokens win and ours are discarded.
OursWins(p) == FALSE
NewerWins(p) == store.at # cur[p].at /\ Fresh(store)
RereadDone(p) == /\ pc[p] = "reread"
                 /\ (store # None => NewerWins(p))
                 /\ LeaveSection(p) /\ Return(p)
                 /\ UNCHANGED <<store, server, cli, calls, happened>>

RereadOurs(p) == /\ pc[p] = "reread"
                 /\ store # None /\ ~NewerWins(p)
                 /\ lat' = [lat EXCEPT ![p] = store]
                 /\ Goto(p, "save")
                 /\ UNCHANGED <<holders, store, server, cli, cur, new, calls, happened>>

\* store.save({...latest, tokens: refreshed}): an atomic rename.
Updated(p) == [user |-> lat[p].user, at |-> new[p].at, rt |-> new[p].rt]
Save(p) == /\ pc[p] = "save"
           /\ store' = Updated(p)
           /\ LeaveSection(p) /\ Return(p)
           /\ UNCHANGED <<server, cli, calls, happened>>

SaveFails(p) == /\ "disk" \in Faults /\ pc[p] = "save"
                /\ LeaveSection(p) /\ Return(p)
                /\ Happens("fault")
                /\ UNCHANGED <<store, server, cli, calls>>

\* The process dies; a lock it holds lingers until somebody reclaims it.
Crash(p) == /\ "crash" \in Faults /\ pc[p] \notin {"idle", "dead"}
            /\ Goto(p, IF p \in holders THEN "dead" ELSE "idle")
            /\ cur' = [cur EXCEPT ![p] = None]
            /\ lat' = [lat EXCEPT ![p] = None]
            /\ new' = [new EXCEPT ![p] = NoPair]
            /\ Happens("fault")
            /\ UNCHANGED <<holders, store, server, cli, calls>>

LockReclaimed(p) == /\ pc[p] = "dead"
                    /\ Leave(p) /\ Goto(p, "idle")
                    /\ UNCHANGED <<store, server, cli, cur, lat, new, calls, happened>>

-----------------------------------------------------------------------------
(* The commands that write the store without the lock                      *)

\* aula login (or the setup page): a new session's record replaces the store;
\* the cookie jar is written only on request and never removed.
Login(u, keepCookies) ==
    /\ "login" \in Cli
    /\ Issue(u)
    /\ store' = [user |-> u, at |-> issued + 1, rt |-> issued + 1]
    /\ cookies' = IF keepCookies THEN u ELSE cookies
    /\ UNCHANGED <<holders, expired, spent, replayed, stepup, pc, cur, lat, new, calls, happened>>

\* aula logout: store.clear(), then the cookie jar is unlinked.
Logout == /\ "logout" \in Cli /\ (store # None \/ cookies # None)
          /\ store' = None /\ cookies' = None
          /\ UNCHANGED <<holders, server, stepup, pc, cur, lat, new, calls, happened>>

\* POST /logout of the setup page: the cookie jar stays.
PageLogout == /\ "logout" \in Cli /\ store # None
              /\ store' = None
              /\ UNCHANGED <<holders, server, cli, pc, cur, lat, new, calls, happened>>

\* aula refresh-stepup: load the record, ...
StepupLoad == /\ "stepup" \in Cli /\ stepup = None /\ store # None
              /\ stepup' = [user |-> store.user, session |-> None]
              /\ UNCHANGED <<holders, store, server, cookies, pc, cur, lat, new, calls, happened>>

\* ... then the cookies (none: exit), ...
StepupCookies == /\ stepup # None /\ stepup.session = None
                 /\ stepup' = IF cookies = None THEN None
                              ELSE [stepup EXCEPT !.session = cookies]
                 /\ UNCHANGED <<holders, store, server, cookies, pc, cur, lat, new, calls, happened>>

\* ... and save what the broker issues to that session (or exit without it)
\* under the username loaded before; cookies.json is written back.
StepupSave == /\ stepup # None /\ stepup.session # None
              /\ Issue(stepup.session)
              /\ store' = [user |-> stepup.user, at |-> issued + 1, rt |-> issued + 1]
              /\ cookies' = stepup.session
              /\ stepup' = None
              /\ IF stepup.user = stepup.session
                 THEN UNCHANGED happened ELSE Happens("foreign")
              /\ UNCHANGED <<holders, expired, spent, replayed, pc, cur, lat, new, calls>>

\* An access token nears its expiry; "hasty" if a refresh begun before its issue is
\* still going on.
Expire(t) == /\ t <= issued /\ t \notin expired
             /\ expired' = expired \cup {t}
             /\ IF \A p \in Proc : cur[p] # None => t <= cur[p].at
                THEN UNCHANGED happened ELSE Happens("hasty")
             /\ UNCHANGED <<holders, store, issued, owner, spent, replayed, cli,
                            pc, cur, lat, new, calls>>

Step(p) == \/ LoadDone(p) \/ LoadExpired(p)
           \/ Lock(p) \/ LockTimesOut(p)
           \/ ReloadDone(p) \/ ReloadExpired(p)
           \/ (\E r \in Rotations : Refreshed(p, r)) \/ Refused(p)
           \/ RereadDone(p) \/ RereadOurs(p) \/ Save(p)
           \/ LockReclaimed(p)

Fault(p) == \/ RequestLost(p) \/ SaveFails(p) \/ Crash(p)
            \/ \E r \in Rotations : AnswerLost(p, r)

Command == \/ \E u \in Users, k \in Persist : Login(u, k)
           \/ Logout \/ PageLogout \/ StepupLoad \/ StepupCookies \/ StepupSave

Next == \/ \E p \in Proc : Call(p) \/ Step(p) \/ Fault(p)
        \/ Command
        \/ \E t \in Tok : Expire(t)

Spec == Init /\ [][Next]_vars

-----------------------------------------------------------------------------
TypeOK ==
    /\ MutexTypeOK
    /\ store \in Record \cup {None}
    /\ cookies \in Users \cup {None}
    /\ issued \in Tok
    /\ owner \in [Tok -> Users]
    /\ expired \subseteq Tok /\ spent \subseteq Tok
    /\ replayed \in BOOLEAN
    /\ pc \in [Proc -> {"idle", "load", "lock", "reload", "send", "reread", "save",
                        "dead"}]
    /\ cur \in [Proc -> Record \cup {None}]
    /\ lat \in [Proc -> Record \cup {None}]
    /\ new \in [Proc -> Pair]
    /\ stepup \in [user : Users, session : Users \cup {None}] \cup {None}
    /\ calls \in [Proc -> 0..MaxCalls]
    /\ happened \subseteq {"fault", "foreign", "hasty"}

\* As long as nothing fails, no refresh token is presented after it has been spent:
\* a process that queued behind a refresh adopts its result instead
\* (token-store.ts:396-399).
SingleUse == replayed => "fault" \in happened

\* As long as nothing fails, the refresh token on disk can be redeemed, except while
\* the process that has just redeemed it is on its way to save the new one
\* (token-store.ts:429-454).
StoreRedeemable ==
    store # None =>
        \/ store.rt \notin spent
        \/ \E p \in Proc : pc[p] \in {"reread", "save"} /\ cur[p].rt = store.rt
        \/ "fault" \in happened

\* The username of the record is the guardian the tokens act for (`...latest` merged
\* with `refreshed`, token-store.ts:449-453), unless refresh-stepup has used another
\* guardian's cookies, or a login during a refresh has expired before its end.
RecordConsistent ==
    store # None => store.user = owner[store.at] \/ happened \cap {"foreign", "hasty"} # {}

\* Once logged out, only a login puts credentials back on disk
\* (token-store.ts:437-438, "do not resurrect the credentials on disk").
LogoutSticks ==
    [][store = None /\ store' # None =>
        \E u \in Users, k \in Persist : Login(u, k)]_vars
=============================================================================
