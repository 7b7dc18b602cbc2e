----------------------------- MODULE AulaContext -----------------------------
(***************************************************************************)
(* AulaContext (packages/mcp-server/src/aula-context.ts): what each MCP    *)
(* session keeps of the Aula session, on top of the refresher all contexts *)
(* share (TokenRefresher; its callers are the contexts).                   *)
(*                                                                         *)
(* A client, its record, a widget manager and a guardian id are named by   *)
(* the version of the tokens they were built from or asked with.           *)
(* loadClient and the continuations of getClient run in the same turn of   *)
(* the event loop as the answer of getFresh, so they are one step with it; *)
(* only the load itself and the getProfileContext request of               *)
(* getGuardianUserId take time.                                            *)
(***************************************************************************)
EXTENDS TokenRefresher

CONSTANTS
    Watched,      \* is there a token file with a working watcher?
    Wish          \* what tool calls need getClient for

AulaContextAssumption ==
    /\ Watched \in BOOLEAN
    /\ Wish \subseteq {"client", "widget", "guardian"}

VARIABLES
    client,     \* this.client
    record,     \* this.cachedRecord
    widget,     \* this.widgetManager, by the client it is bound to
    guardian,   \* this.cachedGuardianUserId
    wishes,     \* the continuations waiting for getClient in each context
    asking,     \* the clients whose getProfileContext is in flight
    disposed

session == <<client, record, widget, guardian, wishes, asking, disposed>>
cvars == <<vars, session>>

CInit == /\ Init
         /\ client = [x \in Callers |-> None]
         /\ record = [x \in Callers |-> None]
         /\ widget = [x \in Callers |-> None]
         /\ guardian = [x \in Callers |-> None]
         /\ wishes = [x \in Callers |-> {}]
         /\ asking = [x \in Callers |-> {}]
         /\ disposed = [x \in Callers |-> FALSE]

-----------------------------------------------------------------------------
\* loadClient after getFresh answered v: `sameTokens` keeps what there is, and a
\* rotation drops the widget manager with the old client.
KeepsWidget(x, v) == widget[x]
WidgetAfter(x, v) == IF client[x] # None /\ record[x] # v THEN None ELSE widget[x]

\* The context was disposed while the load was in flight: throw.
RefusesToLoad(x) == disposed[x]

\* The contexts in X get the record v, with their wishes W(x).
Answer(X, v, W(_)) ==
    LET up == {x \in X : ~RefusesToLoad(x)} IN
    /\ client' = [x \in Callers |-> IF x \in up THEN v ELSE client[x]]
    /\ record' = [x \in Callers |-> IF x \in up THEN v ELSE record[x]]
    /\ widget' = [x \in Callers |->
                    IF x \notin up THEN widget[x]
                    ELSE IF "widget" \in W(x) /\ WidgetAfter(x, v) = None
                         THEN v ELSE WidgetAfter(x, v)]
    /\ asking' = [x \in Callers |->
                    IF x \in up /\ "guardian" \in W(x)
                    THEN asking[x] \cup {v} ELSE asking[x]]
    /\ wishes' = [x \in Callers |-> IF x \in X THEN {} ELSE wishes[x]]
    /\ UNCHANGED <<guardian, disposed>>

\* A tool call needs the client; getGuardianUserId returns its cached id first.
MayAsk(x, w) == ~disposed[x] /\ (w = "guardian" => guardian[x] = None)

AskCached(x, w) == /\ MayAsk(x, w)
                   /\ CacheHit(x)
                   /\ Answer({x}, cached, LAMBDA y : {w})

AskLoad(x, w) == /\ MayAsk(x, w)
                 /\ Join(x) \/ StartLoad(x)
                 /\ wishes' = [wishes EXCEPT ![x] = @ \cup {w}]
                 /\ UNCHANGED <<client, record, widget, guardian, asking, disposed>>

\* A load is in flight for this context already: share clientPromise.
AskShared(x, w) == /\ MayAsk(x, w) /\ waitsOn[x] # None
                   /\ wishes' = [wishes EXCEPT ![x] = @ \cup {w}]
                   /\ UNCHANGED <<vars, client, record, widget, guardian, asking, disposed>>

LoadSucceeds(c) == /\ Succeed(c)
                   /\ Answer({x \in Callers : waitsOn[x] = c}, loaded[c],
                             LAMBDA y : wishes[y])

\* clientPromise is cleared, so the wishes of its callers are over.
WishesKept(c) == wishes
WishesAfterFailure(c) == [x \in Callers |-> IF waitsOn[x] = c THEN {} ELSE wishes[x]]
LoadFails(c) == /\ Fail(c)
                /\ wishes' = WishesAfterFailure(c)
                /\ UNCHANGED <<client, record, widget, guardian, asking, disposed>>

LoadProgress(c) == /\ ReadFresh(c) \/ ReadExpired(c) \/ Refreshed(c) \/ Adopted(c)
                   /\ UNCHANGED session

\* getProfileContext answers: the user id of that client's session is cached.
GuardianKnown(x, v) == /\ v \in asking[x]
                       /\ guardian' = [guardian EXCEPT ![x] = v]
                       /\ asking' = [asking EXCEPT ![x] = @ \ {v}]
                       /\ UNCHANGED <<vars, client, record, widget, wishes, disposed>>

\* The token file changed and the debounce elapsed: invalidate() this context
\* and the refresher.
WatchFires(x) == /\ Watched /\ ~disposed[x]
                 /\ Invalidate
                 /\ client' = [client EXCEPT ![x] = None]
                 /\ record' = [record EXCEPT ![x] = None]
                 /\ widget' = [widget EXCEPT ![x] = None]
                 /\ guardian' = [guardian EXCEPT ![x] = None]
                 /\ UNCHANGED <<wishes, asking, disposed>>

\* The owning MCP session closed; its loads and requests go on.
Dispose(x) == /\ ~disposed[x]
              /\ disposed' = [disposed EXCEPT ![x] = TRUE]
              /\ client' = [client EXCEPT ![x] = None]
              /\ record' = [record EXCEPT ![x] = None]
              /\ widget' = [widget EXCEPT ![x] = None]
              /\ UNCHANGED <<vars, guardian, wishes, asking>>

Outside == /\ Login \/ Logout \/ Tick \/ (\E v \in Version : Expire(v))
           /\ UNCHANGED session

CNext == \/ \E x \in Callers, w \in Wish :
                AskCached(x, w) \/ AskLoad(x, w) \/ AskShared(x, w)
         \/ \E x \in Callers : \/ LoadSucceeds(x) \/ LoadFails(x)
                               \/ LoadProgress(x) \/ WatchFires(x) \/ Dispose(x)
         \/ \E x \in Callers, v \in Version : GuardianKnown(x, v)
         \/ Outside

CSpec == CInit /\ [][CNext]_cvars

-----------------------------------------------------------------------------
CTypeOK ==
    /\ TypeOK
    /\ client \in [Callers -> Version \cup {None}]
    /\ record \in [Callers -> Version \cup {None}]
    /\ widget \in [Callers -> Version \cup {None}]
    /\ guardian \in [Callers -> Version \cup {None}]
    /\ wishes \in [Callers -> SUBSET Wish]
    /\ \A x \in Callers : (wishes[x] # {}) = (waitsOn[x] # None)
    /\ asking \in [Callers -> SUBSET Version]
    /\ disposed \in [Callers -> BOOLEAN]

\* Client, record and widget manager of a context come from one set of tokens:
\* a widget token minted under a previous session is never reused after a
\* rotation (aula-context.ts:269-273, 342-353).  A disposed context has none of them,
\* though a load begun before may still answer it (aula-context.ts:161-173, 330).
OneSession == \A x \in Callers :
    /\ client[x] = record[x]
    /\ widget[x] # None => widget[x] = client[x]
    /\ disposed[x] => client[x] = None /\ widget[x] = None
=============================================================================
