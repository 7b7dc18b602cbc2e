------------------------------- MODULE ToolCalls -------------------------------
(***************************************************************************)
(* What the handlers of packages/mcp-server/src/tools.ts ask of the Aula   *)
(* session, and in which order.  A handler is the sequence of its awaited  *)
(* steps; several calls of one MCP session interleave at every await, and  *)
(* the tokens may be rotated (a refresh, a login) between any two.         *)
(*                                                                         *)
(* Sessions are numbered by the tokens they belong to.  `primed` is what   *)
(* Aula remembers (external): the sessions profiles.getProfileContext ran  *)
(* on, without which it answers 403 to the messaging endpoints.            *)
(***************************************************************************)
EXTENDS Integers, Sequences, FiniteSets

CONSTANTS
    ToolCall,       \* concurrent tool calls of one MCP session
    MaxRotations,   \* bound: rotations of the tokens
    Watched         \* a token file is watched: a rotation calls invalidate()

ToolCallsAssumption == MaxRotations \in Nat /\ Watched \in BOOLEAN

VARIABLES
    current,        \* the session of the newest tokens
    memo,           \* cachedGuardianUserId: the session it was asked with, 0: none
    primed,
    todo,           \* the steps left of each call
    holds,          \* the client the call took from the context, by its session
    asking,         \* its getProfileContext request, by its session, 0: none
    fresh,          \* history: the watcher fired after the last rotation, with no
                    \* getProfileContext of older tokens under way
    settled         \* history: the calls begun when fresh, with no rotation since

vars == <<current, memo, primed, todo, holds, asking, fresh, settled>>

-----------------------------------------------------------------------------
(* The handlers, as the awaits they go through: "client" is getClient,      *)
(* "prime" getGuardianUserId, "widgets" getWidgetManager, "get" a request   *)
(* that needs no acting profile, "feed" one that does, "post" a write,      *)
(* "context" discover's own getProfileContext, "local" work outside Aula.   *)

Discover == {<<"client", "get", "context">>}
ProfilesList == {<<"client", "get">>}
PresenceToday == {<<"client", "get">>}
PresenceTemplates == {<<"client", "get">>}
SetTemplate == {<<>>, <<"client", "post">>}
\* Own children, then today's status unless a report is made.
ReportSick == {<<"client", "get">>, <<"client", "get", "post">>,
               <<"client", "get", "get">>, <<"client", "get", "get", "post">>}
\* The walk over the pages, unless the caller names the message.
MarkRead == {<<"client", "prime", "post">>, <<"client", "prime", "feed">>,
             <<"client", "prime", "feed", "post">>}
CalendarEvents == {<<"client", "post">>}
Notifications == {<<"client", "prime", "feed">>}
ListPosts == {<<"client", "prime", "feed">>, <<"client", "prime", "get", "feed">>}
RawRequest == {<<"client", "get">>, <<"client", "post">>}
ListThreads == {<<"client", "prime", "feed">>}
\* buildIntegrationCtx: the record, the guardian id, the children's user ids.
IntegrationCtx == <<"client", "prime", "get">>
Integration == {<<"widgets">> \o IntegrationCtx \o <<"local">>}
GetThread == {<<"client", "prime", "feed">>}
GetAttachment == {<<"client", "prime", "feed">>, <<"client", "prime", "feed", "local">>}
\* resolveFamilyProfileIds, unless profileIds were given.
PostAttachment == {<<"client", "prime">> \o family \o feed :
                      family \in {<<>>, <<"get">>},
                      feed \in {<<"feed">>, <<"feed", "local">>}}
ExtractPdf == {<<"local">>, <<"local", "local">>}

Handlers == Discover \cup ProfilesList \cup PresenceToday \cup PresenceTemplates
            \cup SetTemplate \cup ReportSick \cup MarkRead \cup CalendarEvents
            \cup Notifications \cup ListPosts \cup RawRequest \cup ListThreads
            \cup Integration \cup GetThread \cup GetAttachment \cup PostAttachment
            \cup ExtractPdf

Init == /\ current = 1 /\ memo = 0 /\ primed = {}
        /\ todo = [c \in ToolCall |-> <<>>]
        /\ holds = [c \in ToolCall |-> 0] /\ asking = [c \in ToolCall |-> 0]
        /\ fresh = TRUE /\ settled = {}

-----------------------------------------------------------------------------
At(c, steps) == todo[c] # <<>> /\ Head(todo[c]) \in steps
Done(c) == todo' = [todo EXCEPT ![c] = Tail(@)]

Begin(c, handler) == /\ todo[c] = <<>>
                     /\ todo' = [todo EXCEPT ![c] = handler]
                     /\ holds' = [holds EXCEPT ![c] = 0]
                     /\ settled' = IF fresh THEN settled \cup {c} ELSE settled \ {c}
                     /\ UNCHANGED <<current, memo, primed, asking, fresh>>

\* getClient answers a client of the newest tokens, replacing one of older tokens; the
\* memoised guardian id is kept.
TakeClient(c) == /\ At(c, {"client"})
                 /\ holds' = [holds EXCEPT ![c] = current]
                 /\ Done(c)
                 /\ UNCHANGED <<current, memo, primed, asking, fresh, settled>>

\* The manager is bound to the context's client, not to the one the call takes later.
TakeWidgets(c) == /\ At(c, {"widgets"})
                  /\ Done(c)
                  /\ UNCHANGED <<current, memo, primed, holds, asking, fresh, settled>>

MemoHit(c) == /\ At(c, {"prime"}) /\ memo # 0 /\ asking[c] = 0
              /\ Done(c)
              /\ UNCHANGED <<current, memo, primed, holds, asking, fresh, settled>>

\* getGuardianUserId asks with the client getClient answers now.
AskContext(c) == /\ At(c, {"prime"}) /\ memo = 0 /\ asking[c] = 0
                 /\ asking' = [asking EXCEPT ![c] = current]
                 /\ UNCHANGED <<current, memo, primed, todo, holds, fresh, settled>>

ContextAnswers(c) == /\ asking[c] # 0
                     /\ primed' = primed \cup {asking[c]}
                     /\ memo' = asking[c]
                     /\ asking' = [asking EXCEPT ![c] = 0]
                     /\ Done(c)
                     /\ UNCHANGED <<current, holds, fresh, settled>>

\* discover asks with its own client and memoises nothing; its failure is ignored.
DiscoverContext(c, answered) ==
    /\ At(c, {"context"})
    /\ primed' = IF answered THEN primed \cup {holds[c]} ELSE primed
    /\ Done(c)
    /\ UNCHANGED <<current, memo, holds, asking, fresh, settled>>

\* postJson runs getProfileContext first, once per client.
Post(c) == /\ At(c, {"post"})
           /\ primed' = primed \cup {holds[c]}
           /\ Done(c)
           /\ UNCHANGED <<current, memo, holds, asking, fresh, settled>>

Request(c) == /\ At(c, {"get", "feed", "local"})
              /\ Done(c)
              /\ UNCHANGED <<current, memo, primed, holds, asking, fresh, settled>>

\* Any await may reject, and the call with it.
Throws(c) == /\ todo[c] # <<>>
             /\ todo' = [todo EXCEPT ![c] = <<>>]
             /\ asking' = [asking EXCEPT ![c] = 0]
             /\ UNCHANGED <<current, memo, primed, holds, fresh, settled>>

\* External: a refresh elsewhere, or a login.
Rotate == /\ current <= MaxRotations
          /\ current' = current + 1
          /\ fresh' = FALSE /\ settled' = {}
          /\ UNCHANGED <<memo, primed, todo, holds, asking>>

\* invalidate(): the memoised guardian id, beside the client.
ForgetsTheClientAlone == memo' = memo
Forgotten == memo' = 0

\* The token file's watcher.
WatchFires == /\ Watched
              /\ Forgotten
              /\ fresh' = \A c \in ToolCall : asking[c] \in {0, current}
              /\ UNCHANGED <<current, primed, todo, holds, asking, settled>>

Serve(c) == \/ TakeClient(c) \/ TakeWidgets(c) \/ MemoHit(c) \/ AskContext(c)
            \/ ContextAnswers(c) \/ Post(c) \/ Request(c) \/ Throws(c)
            \/ \E answered \in BOOLEAN : DiscoverContext(c, answered)

Next == \/ \E c \in ToolCall : Serve(c) \/ \E handler \in Handlers : Begin(c, handler)
        \/ Rotate \/ WatchFires

Spec == Init /\ [][Next]_vars /\ \A c \in ToolCall : WF_vars(Serve(c))

-----------------------------------------------------------------------------
TypeOK ==
    /\ current \in 1..MaxRotations + 1 /\ memo \in 0..current
    /\ primed \subseteq 1..current
    /\ todo \in [ToolCall -> Seq({"client", "prime", "widgets", "get", "feed", "post",
                                  "context", "local"})]
    /\ holds \in [ToolCall -> 0..current] /\ asking \in [ToolCall -> 0..current]
    /\ fresh \in BOOLEAN /\ settled \subseteq ToolCall

\* No messaging or feed request is sent on a session without an acting profile, which
\* Aula refuses (tools.ts:1013-1020), memoised or not, answered to this call or another: by
\* the calls begun before any rotation, or after one that the watcher has followed up
\* (aula-context.ts:138, 240-247) when no getProfileContext of older tokens was under way,
\* until the next rotation.
PrimedBeforeFeed == \A c \in settled : At(c, {"feed"}) => holds[c] \in primed

\* The same whoever follows a rotation up, for a call that took the client built after it
\* (aula-context.ts:186-188, 345-350).
PrimedAfterRotation == \A c \in ToolCall :
    At(c, {"feed"}) /\ holds[c] = current => holds[c] \in primed

\* Every call ends, whatever rotations and rejections meet it (tools.ts:265-1223).
CallsEnd == \A c \in ToolCall : []<>(todo[c] = <<>>)
=============================================================================
