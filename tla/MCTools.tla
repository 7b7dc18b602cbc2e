-------------------------------- MODULE MCTools --------------------------------
(***************************************************************************)
(* One TLC model of seven modules that share no state: those about the     *)
(* tools of the MCP server (ToolCalls, PresenceTools, FeedTools,           *)
(* PdfExtract, CalendarRange, IsoWeeks) and FileLock, which is extended    *)
(* for its assumption to be evaluated.  A behaviour picks one of them      *)
(* (`part`, which never changes); the others rest in an initial state.     *)
(***************************************************************************)
EXTENDS FileLock

CONSTANTS None,
          ToolCall, MaxRotations, Watched,
          ReportCall, Own, Others,
          Entry, Bare, PageSize, MaxPages, MaxNews,
          PipeCap, MaxStdout, MaxChatter,
          Weeks, SpringWeek, AutumnWeek,
          FirstYear, LastYear

VARIABLES part,
          current, memo, primed, todo, holds, asking, fresh, settled,
          status, ids, sick, at, overview, outcome,
          feed, flagged, news, walker, tool, target, page, moved, lookup,
          document, state, worker, parse, left, objects, pipe, errors, chatter, read, timer,
          overflowed, answer,
          now, range, start, end,
          today, isoWeek, monday

Calls == INSTANCE ToolCalls
Presence == INSTANCE PresenceTools
Feed == INSTANCE FeedTools WITH outcome <- lookup
Pdf == INSTANCE PdfExtract WITH file <- document
Calendar == INSTANCE CalendarRange
Iso == INSTANCE IsoWeeks

ASSUME ToolsAssumption ==
    /\ Calls!ToolCallsAssumption /\ Presence!PresenceAssumption
    /\ Feed!FeedAssumption /\ Pdf!PdfAssumption
    /\ Calendar!CalendarAssumption /\ Iso!YearsAssumption

callVars == <<current, memo, primed, todo, holds, asking, fresh, settled>>
presenceVars == <<status, ids, sick, at, overview, outcome>>
feedVars == <<feed, flagged, news, walker, tool, target, page, moved, lookup>>
pdfVars == <<document, state, worker, parse, left, objects, pipe, errors, chatter, read,
             timer, overflowed, answer>>
calendarVars == <<now, range, start, end>>
isoVars == <<today, isoWeek, monday>>
toolsVars == <<part, vars, callVars, presenceVars, feedVars, pdfVars, calendarVars,
               isoVars>>

ToolsInit ==
        /\ part \in {"lock", "calls", "presence", "feed", "pdf", "calendar", "iso"}
        /\ Init /\ Calls!Init /\ Presence!Init /\ Feed!Init /\ Pdf!Init
        /\ Calendar!Init /\ Iso!Init
        /\ part # "presence" => status = [i \in Own |-> "present"]
        /\ part # "feed" => flagged
        /\ part # "pdf" => document = "pdf"
        /\ part # "calendar" => now = 0

\* Only part p moves.
Only(p) == /\ part = p /\ UNCHANGED part
           /\ p # "lock" => UNCHANGED vars
           /\ p # "calls" => UNCHANGED callVars
           /\ p # "presence" => UNCHANGED presenceVars
           /\ p # "feed" => UNCHANGED feedVars
           /\ p # "pdf" => UNCHANGED pdfVars
           /\ p # "calendar" => UNCHANGED calendarVars
           /\ p # "iso" => UNCHANGED isoVars

\* An extraction that was answered, with its worker gone, and a calendar run to its end.
Over == /\ \/ part = "pdf" /\ state = "answered"
           \/ part = "iso" /\ ~ENABLED Iso!Next
        /\ UNCHANGED toolsVars

ToolsNext ==
        \/ Only("lock") /\ Next
        \/ Only("calls") /\ Calls!Next
        \/ Only("presence") /\ Presence!Next
        \/ Only("feed") /\ Feed!Next
        \/ Only("pdf") /\ Pdf!Next
        \/ Only("calendar") /\ Calendar!Next
        \/ Only("iso") /\ Iso!Next
        \/ Over

\* The clock ticks and the file system answers; requests are answered or fail; the parent
\* of the worker reads and its timer fires.
ToolsSpec ==
        /\ ToolsInit /\ [][ToolsNext]_toolsVars
        /\ WF_toolsVars(Only("lock") /\ Tick)
        /\ \A p \in Proc : WF_toolsVars(Only("lock") /\ Step(p))
        /\ \A c \in ToolCall : WF_toolsVars(Only("calls") /\ Calls!Serve(c))
        /\ \A c \in ReportCall : WF_toolsVars(Only("presence") /\ Presence!Serve(c))
        /\ WF_toolsVars(Only("feed") /\ Feed!Serve)
        /\ WF_toolsVars(Only("pdf") /\ Pdf!CallStep)
        /\ WF_toolsVars(Only("pdf") /\ Pdf!TimerFires)

-----------------------------------------------------------------------------
\* The type invariants of the seven modules.
ToolsTypeOK == /\ TypeOK /\ Calls!TypeOK /\ Presence!TypeOK /\ Feed!TypeOK
               /\ Pdf!TypeOK /\ Calendar!TypeOK /\ Iso!TypeOK

\* No messaging or feed request is sent on a session without an acting profile, by the calls
\* begun before any rotation, or after one the watcher has followed up with no
\* getProfileContext of older tokens under way, until the next (tools.ts:1013-1020,
\* aula-context.ts:240-261).
PrimedBeforeFeed == Calls!PrimedBeforeFeed

\* A sick report, or its taking back, is written for own children only, and taken back
\* only where Aula said sick (tools.ts:508-558).
WritesAreVetted == Presence!WritesAreVetted

\* A walk over the pages misses nothing that stood still (tools.ts:607-637, 1133-1155).
MissIsExplained == Feed!MissIsExplained

\* Text is answered for a whole output of a worker nobody killed, and no worker or
\* deadline is left behind (pdf-extract.ts:106-162).
AnswerIsWhole == Pdf!AnswerIsWhole

\* The windows of aula.calendar.events begin and end at the local midnights they name, or
\* within an hour of them where the clocks change before (calendar-range.ts:26-50, 93-100).
\* The weekly tools speak of the same week as the calendar, except in the first hours of a
\* Copenhagen Monday (tools.ts:94-100); and the week the integrations ask for leads back to
\* its Monday, on both sides of every New Year (types.ts:67-97).
DatesAgree == Calendar!WindowsAreExact /\ Calendar!WeeksAgree /\ Iso!WeeksRoundTrip

\* Whoever waits for the lock gets it or gives up (file-lock.ts:12-15), and every tool
\* call is answered, whatever rotations, walks and workers do meanwhile
\* (pdf-extract.ts:106-125).
EveryCallEnds == /\ WaitEnds
                 /\ Calls!CallsEnd /\ Presence!CallsEnd /\ Feed!CallsEnd
                 /\ []<>(part = "pdf" => state = "answered")
=============================================================================
