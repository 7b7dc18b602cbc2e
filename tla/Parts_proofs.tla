---------------------------- MODULE Parts_proofs ----------------------------
(***************************************************************************)
(* Theorems about the components of MCParts, for all values of their       *)
(* constants.  Each is proved from an inductive invariant of its own       *)
(* component; PartSteps carries it over to the model that runs one of them.*)
(***************************************************************************)
EXTENDS MCParts, SequenceTheorems, FiniteSetTheorems, WellFoundedInduction, TLAPS

\* A step of the whole is a step, or none, of each component.
LEMMA PartSteps == [Next]_vars => /\ [Widget!Next]_widgetVars
                                  /\ [Keys!Next]_keyVars
                                  /\ [Download!Next]_downloadVars
                                  /\ [Api!Next]_apiVars
                                  /\ [Login!Next]_loginVars
                                  /\ [Refresher!RNext]_refresherVars
                                  /\ [Limits!Next]_limitVars
                                  /\ [Starts!Next]_startVars
                                  /\ [Handshake!Next]_handshakeVars
BY DEF Next, Only, Over, vars

\* What the assumptions on the constants say of each component.
LEMMA Bounds == /\ MaxTok \in Nat
                /\ MaxKeys \in Nat /\ None \notin Nat
                /\ MaxRedirects \in Nat /\ MaxBytes \in Nat /\ MaxBody \in Nat
                /\ Boot \notin Calls /\ Kinds \subseteq {"get", "profile", "thread", "post"}
BY PartsAssumption
   DEF PartsAssumption, Widget!WidgetTokensAssumption, Keys!KeyFileAssumption,
       Download!DownloadAssumption, Api!AulaApiAssumption

-----------------------------------------------------------------------------
(* Widget tokens                                                            *)

\* The token of an answer under way is the newest, and nobody has it yet.
Newest == /\ flight = "answered" => carried = issued
          /\ LET held == IF flight = "answered" THEN issued - 1 ELSE issued IN
             /\ cache <= held
             /\ \A c \in Callers : tok[c] <= held /\ first[c] <= held

WidgetInv == Widget!TypeOK /\ Newest /\ Widget!RetryIsNewer

LEMMA WidgetStep == WidgetInv /\ [Widget!Next]_widgetVars => WidgetInv'
<1> SUFFICES ASSUME WidgetInv, [Widget!Next]_widgetVars PROVE WidgetInv'
  OBVIOUS
<1> USE Bounds DEF WidgetInv, Widget!TypeOK, Newest, Widget!RetryIsNewer
<1>1. ASSUME NEW c \in Callers, Widget!GetCached(c) PROVE WidgetInv'
  BY <1>1 DEF Widget!GetCached, Widget!Cached
<1>2. ASSUME NEW c \in Callers, Widget!GetRefreshed(c) PROVE WidgetInv'
  BY <1>2 DEF Widget!GetRefreshed, Widget!Refresh
<1>3. ASSUME NEW c \in Callers, Widget!Rejected(c) PROVE WidgetInv'
  <2>1. live' \in BOOLEAN
    BY <1>3 DEF Widget!Rejected, Widget!Invalidate
  <2> QED
    BY <1>3, <2>1 DEF Widget!Rejected, Widget!Refresh, Widget!Invalidate
<1>4. ASSUME NEW c \in Callers, Widget!Done(c) PROVE WidgetInv'
  <2>1. Widget!TypeOK' /\ Widget!RetryIsNewer'
    BY <1>4 DEF Widget!Done
  <2>2. Newest'
    BY <1>4 DEF Widget!Done
  <2> QED
    BY <2>1, <2>2
<1>5. CASE Widget!Issue
  BY <1>5 DEF Widget!Issue
<1>6. CASE Widget!Arrive
  BY <1>6 DEF Widget!Arrive, Widget!Cache, Widget!Landed, Widget!Awaiting, Widget!TokenFor
<1>7. CASE Widget!RefreshFails
  BY <1>7 DEF Widget!RefreshFails, Widget!Landed, Widget!Awaiting
<1>8. CASE Widget!TtlElapses
  BY <1>8 DEF Widget!TtlElapses
<1>9. CASE UNCHANGED widgetVars
  BY <1>9 DEF widgetVars
<1> QED
  BY <1>1, <1>2, <1>3, <1>4, <1>5, <1>6, <1>7, <1>8, <1>9 DEF Widget!Next

LEMMA WidgetStart == Init => WidgetInv
<1> SUFFICES ASSUME Widget!Init PROVE WidgetInv
  BY DEF Init
<1>1. live \in BOOLEAN
  BY DEF Widget!Init
<1> QED
  BY <1>1, Bounds DEF Widget!Init, WidgetInv, Widget!TypeOK, Newest, Widget!RetryIsNewer

\* The retry is made with a newer token than the rejected one, for any number of calls
\* (widget-token-manager.ts:99-116).
THEOREM RetriesUseNewerTokens == Spec => []RetryIsNewer
<1>1. WidgetInv => RetryIsNewer
  BY DEF WidgetInv, RetryIsNewer
<1> QED
  BY <1>1, WidgetStart, PartSteps, WidgetStep, PTL DEF Spec

-----------------------------------------------------------------------------
(* The key file                                                             *)

\* Until there is a key file, one process at a time is inside load or save.
OneFirstUse == ~raced /\ keyFile = None =>
                   \A p, q \in Proc : pc[p] # "idle" /\ pc[q] # "idle" => p = q

\* A process generates a key only where there is none.
WritesTheFirst == \A p \in Proc : pc[p] = "writeKey" => /\ p \notin Given
                                                        /\ ~raced => keyFile = None

\* What a process has cached is the key that the others will read.
CachesTheKey == ~raced => \A p \in Proc : cachedKey[p] \in {None, Keys!KeyOf(p)}

KeyInv == /\ Keys!TypeOK /\ OneFirstUse /\ WritesTheFirst /\ CachesTheKey
          /\ Keys!TokensStayReadable

LEMMA KeyStep == ASSUME Given \in {{}, Proc}, KeyInv, [Keys!Next]_keyVars PROVE KeyInv'
<1> USE Bounds DEF KeyInv, Keys!TypeOK, Keys!Key, OneFirstUse, WritesTheFirst, CachesTheKey,
                   Keys!TokensStayReadable, Keys!KeyOf, Keys!Goto, Keys!files
<1>1. ASSUME NEW p \in Proc, Keys!Load(p) \/ Keys!Save(p) PROVE KeyInv'
  <2>1. raced' \in BOOLEAN /\ (~raced' => ~raced)
    BY <1>1 DEF Keys!Load, Keys!Save, Keys!Begins
  <2>2. OneFirstUse'
    BY <1>1, <2>1 DEF Keys!Load, Keys!Save, Keys!Begins
  <2>3. Keys!TypeOK'
    BY <1>1, <2>1 DEF Keys!Load, Keys!Save, Keys!Begins
  <2>4. WritesTheFirst' /\ CachesTheKey' /\ Keys!TokensStayReadable'
    BY <1>1, <2>1 DEF Keys!Load, Keys!Save, Keys!Begins
  <2> QED
    BY <2>2, <2>3, <2>4
<1>2. ASSUME NEW p \in Proc, Keys!KeyAtHand(p) PROVE KeyInv'
  BY <1>2 DEF Keys!KeyAtHand, Keys!Resolving, Keys!Resolved
<1>3. ASSUME NEW p \in Proc, Keys!KeyRead(p) PROVE KeyInv'
  BY <1>3 DEF Keys!KeyRead, Keys!Resolving, Keys!Resolved
<1>4. ASSUME NEW p \in Proc, Keys!KeyGenerated(p) PROVE KeyInv'
  BY <1>4 DEF Keys!KeyGenerated, Keys!Resolving, Keys!NoKeyFile
<1>5. ASSUME NEW p \in Proc, Keys!KeyWritten(p) PROVE KeyInv'
  BY <1>5 DEF Keys!KeyWritten, Keys!KeyReplaced, Keys!Resolved
<1>6. ASSUME NEW p \in Proc, Keys!Opened(p) \/ Keys!WriteFails(p) PROVE KeyInv'
  BY <1>6 DEF Keys!Opened, Keys!WriteFails, Keys!Return
<1>7. ASSUME NEW p \in Proc, Keys!Sealed(p) PROVE KeyInv'
  BY <1>7 DEF Keys!Sealed, Keys!Return
<1>8. ASSUME NEW p \in Proc, Keys!Clear(p) PROVE KeyInv'
  BY <1>8 DEF Keys!Clear
<1>9. ASSUME NEW p \in Proc, Keys!Restart(p) PROVE KeyInv'
  BY <1>9 DEF Keys!Restart, Keys!Return
<1>10. CASE UNCHANGED keyVars
  BY <1>10 DEF keyVars
<1> QED
  BY <1>1, <1>2, <1>3, <1>4, <1>5, <1>6, <1>7, <1>8, <1>9, <1>10 DEF Keys!Next

\* Any process that starts can decrypt the tokens on disk, wherever those that wrote the
\* key and the tokens died, unless two generated a key at once
\* (token-store.ts:202-252); for processes that all have the key, or all look for it in
\* the key file.
THEOREM TokensStayDecryptable ==
    ASSUME Given \in {{}, Proc} PROVE Spec => []TokensStayReadable
<1>1. Init => KeyInv
  <2> SUFFICES ASSUME Keys!Init PROVE KeyInv
    BY DEF Init
  <2>1. raced \in BOOLEAN
    BY DEF Keys!Init
  <2> QED
    BY <2>1, Bounds DEF Keys!Init, KeyInv, Keys!TypeOK, OneFirstUse, WritesTheFirst,
       CachesTheKey, Keys!TokensStayReadable
<1>2. KeyInv => TokensStayReadable
  BY DEF KeyInv, TokensStayReadable
<1> QED
  BY <1>1, <1>2, PartSteps, KeyStep, PTL DEF Spec

-----------------------------------------------------------------------------
(* A download                                                               *)

\* Where the call is, what it will answer, and what is on disk.
Phases == /\ phase \in {"connect", "open"} =>
                 /\ bytes = 0 /\ queued = 0 /\ written = 0
                 /\ wire = "open" /\ result = "none" /\ file = "none"
          /\ phase = "flow" => result \in {"none", "ok", "failed"}
          /\ phase = "closed" => result \in {"ok", "failed"}

\* Every chunk accepted is written, waits to be, or met a write that failed: before end that
\* fails the download, after it the chunk is lost.
Chunks == /\ body \in Nat /\ bytes \in Nat /\ queued \in Nat /\ written \in Nat
          /\ written + queued <= bytes /\ bytes <= MaxBytes
          /\ wire \in {"open", "ended", "closed"} /\ (wire = "open" => ~settled)
          /\ phase = "flow" /\ wire = "closed" => result = "failed"
          /\ phase = "flow" /\ ~lost /\ result # "failed" => written + queued = bytes
          /\ wire = "ended" => bytes = body
          /\ result = "ok" => /\ wire = "ended" /\ queued = 0
                              /\ lost \/ written = body

DownloadInv == Phases /\ Chunks /\ Download!AnswerMatchesFile

LEMMA DownloadStep == DownloadInv /\ [Download!Next]_downloadVars => DownloadInv'
<1> SUFFICES ASSUME DownloadInv, [Download!Next]_downloadVars PROVE DownloadInv'
  OBVIOUS
<1> USE Bounds DEF DownloadInv, Phases, Chunks, Download!AnswerMatchesFile,
                   Download!OkIsWhole, Download!stream, Download!Answer, Download!Fail
<1>1. CASE Download!HopFails \/ Download!Redirect \/ Download!Body
           \/ Download!OpenPart \/ Download!OpenThrows
  BY <1>1 DEF Download!HopFails, Download!Redirect, Download!Body, Download!OpenPart,
     Download!OpenThrows
<1>2. CASE Download!Data
  BY <1>2 DEF Download!Data, Download!TooLarge
<1>3. CASE Download!Write
  BY <1>3 DEF Download!Write
<1>4. CASE Download!WriteFails
  <2>1. /\ phase = "flow" /\ queued > 0 /\ queued' = queued - 1
        /\ UNCHANGED <<phase, body, bytes, written, file>>
        /\ lost' = (lost \/ wire = "ended")
    BY <1>4 DEF Download!WriteFails
  <2>2. lost' <=> lost \/ wire = "ended"
    BY <2>1
  <2>3. CASE settled
    <3>1. UNCHANGED <<result, settled, wire>>
      BY <1>4, <2>3 DEF Download!WriteFails
    <3> QED
      BY <2>1, <2>2, <2>3, <3>1
  <2>4. CASE ~settled
    <3>1. result' = "failed" /\ settled' /\ wire' = "closed"
      BY <1>4, <2>4 DEF Download!WriteFails
    <3> QED
      BY <2>1, <2>2, <3>1
  <2> QED
    BY <2>3, <2>4
<1>5. CASE Download!End
  BY <1>5 DEF Download!End
<1>6. CASE Download!PeerClosed \/ Download!Timeout
  BY <1>6 DEF Download!PeerClosed, Download!Timeout, Download!TimerArmed
<1>7. CASE Download!Drained
  BY <1>7 DEF Download!Drained, Download!ChainDone
<1>8. CASE Download!CloseFile \/ Download!CloseThrows
  BY <1>8 DEF Download!CloseFile, Download!CloseThrows
<1>9. CASE Download!RemovePart \/ Download!RenameThrows
  BY <1>9 DEF Download!RemovePart, Download!RenameThrows
<1>10. CASE Download!Rename
  BY <1>10 DEF Download!Rename
<1>11. CASE UNCHANGED downloadVars
  BY <1>11 DEF downloadVars
<1> QED
  BY <1>1, <1>2, <1>3, <1>4, <1>5, <1>6, <1>7, <1>8, <1>9, <1>10, <1>11 DEF Download!Next

\* An answer ok is the whole body on disk, unless a write failed after end, and within the
\* cap in any case; an answer failed leaves no file, and a write failing before end makes it
\* one, in whichever order the handlers run (attachments.ts:365-367, 497-561).
THEOREM DownloadsAnswerTruly == Spec => []AnswerMatchesFile
<1>1. Init => DownloadInv
  BY Bounds DEF Init, Download!Init, DownloadInv, Phases, Chunks,
     Download!AnswerMatchesFile, Download!OkIsWhole
<1>2. DownloadInv => AnswerMatchesFile
  BY DEF DownloadInv, AnswerMatchesFile
<1> QED
  BY <1>1, <1>2, PartSteps, DownloadStep, PTL DEF Spec

-----------------------------------------------------------------------------
(* The API client                                                           *)

ApiShape == /\ oldest \in Nat /\ newest \in Nat /\ oldest <= newest
            /\ beyond \in {404, 410}
            /\ apiVersion \in Nat /\ probing \in Nat
            /\ apiStage \in [Api!All -> {"idle", "probe", "context", "behind", "send",
                                         "reprobe", "resend"}]
            /\ kind \in [Api!All -> {"get", "profile", "thread", "post"}]
            /\ ver \in [Api!All -> Nat]
            /\ apiResult \in [Api!All -> {"none", "ok", "gone", "error"}]

\* Whoever is past the probe uses the version verified last; while there is none, and no
\* call had been sent when it was withdrawn, all others wait for the probe.
Together ==
    /\ versionVerified => probing = 0
    /\ ~mixed /\ ~versionVerified =>
          \A c \in Api!All : apiStage[c] \in {"idle", "probe", "reprobe"}
    /\ ~mixed => \A c \in Api!All :
          apiStage[c] \in {"context", "behind", "send", "resend"} => ver[c] = apiVersion

ApiInv == ApiShape /\ Together /\ Api!FollowsWithdrawals

LEMMA ApiStep == ApiInv /\ [Api!Next]_apiVars => ApiInv'
<1> SUFFICES ASSUME ApiInv, [Api!Next]_apiVars PROVE ApiInv'
  OBVIOUS
<1> USE Bounds DEF ApiInv, ApiShape, Together, Api!FollowsWithdrawals, Api!All,
                   Api!server, Api!fields, Api!calls
<1>1. ASSUME NEW c \in Calls, NEW m \in Kinds, Api!Start(c, m) PROVE ApiInv'
  BY <1>1 DEF Api!Start
<1>2. CASE Api!ProbeFinds
  <2> USE <1>2 DEF Api!ProbeFinds, Api!Probing, Api!AfterProbe
  <2>1. probing <= newest
    BY DEF Api!VersionWorks, Api!Status
  <2>2. ApiShape'
    OBVIOUS
  <2>3. Together'
    OBVIOUS
  <2>4. Api!FollowsWithdrawals'
    BY <2>1
  <2> QED
    BY <2>2, <2>3, <2>4
<1>3. CASE Api!ProbeBumps
  BY <1>3 DEF Api!ProbeBumps, Api!NextVersion
<1>4. CASE Api!ProbeFails
  BY <1>4 DEF Api!ProbeFails, Api!End, Api!Probing
<1>5. ASSUME NEW c \in Api!All, Api!Bootstrap(c) PROVE ApiInv'
  BY <1>5 DEF Api!Bootstrap
<1>6. ASSUME NEW c \in Api!All, Api!AwaitContext(c) \/ Api!HasContext(c) PROVE ApiInv'
  BY <1>6 DEF Api!AwaitContext, Api!HasContext
<1>7. ASSUME NEW c \in Api!All, Api!Answered(c) PROVE ApiInv'
  BY <1>7 DEF Api!Answered, Api!Sending, Api!End
<1>8. ASSUME NEW c \in Api!All, Api!Gone(c) PROVE ApiInv'
  <2> USE <1>8 DEF Api!Gone, Api!Sending, Api!RetriesGone, Api!Bumped
  <2>1. ~mixed => apiVersion < oldest
    BY DEF Api!Status
  <2>2. ~mixed' => /\ ~mixed
                   /\ \A d \in Api!All : apiStage'[d] \in {"idle", "probe", "reprobe"}
    BY ZenonT(60)
  <2>3. ApiShape'
    OBVIOUS
  <2>4. Together'
    BY <2>2
  <2>5. Api!FollowsWithdrawals'
    BY <2>1, <2>2
  <2> QED
    BY <2>3, <2>4, <2>5
<1>9. ASSUME NEW c \in Api!All, Api!GoneThrows(c) PROVE ApiInv'
  BY <1>9 DEF Api!GoneThrows, Api!Sending, Api!RetriesGone, Api!End
<1>10. ASSUME NEW c \in Api!All, Api!RequestFails(c) PROVE ApiInv'
  BY <1>10 DEF Api!RequestFails, Api!Sending, Api!End
<1>11. CASE Api!Withdraw \/ Api!Release
  BY <1>11 DEF Api!Withdraw, Api!Release
<1>12. CASE UNCHANGED apiVars
  BY <1>12 DEF apiVars
<1> QED
  BY <1>1, <1>2, <1>3, <1>4, <1>5, <1>6, <1>7, <1>8, <1>9, <1>10, <1>11, <1>12
     DEF Api!Next, Api!Probe, Api!Progress

\* Unless a version was withdrawn under several calls at once, the client neither moves
\* past the versions Aula serves nor lets a call fail with the 410 it should retry
\* (aula-client.ts:482-484, 494-497), for any number of calls and of versions.
THEOREM WithdrawalsAreFollowed == Spec => []FollowsWithdrawals
<1>1. Init => ApiInv
  BY Bounds DEF Init, Api!Init, ApiInv, ApiShape, Together, Api!FollowsWithdrawals, Api!All
<1>2. ApiInv => FollowsWithdrawals
  BY DEF ApiInv, FollowsWithdrawals
<1> QED
  BY <1>1, <1>2, PartSteps, ApiStep, PTL DEF Spec

\* A POST is sent once a profile has been selected on the session, or the bootstrap that
\* was to select it has failed.
Selection == /\ context = "done" => selected
             /\ apiStage[Boot] # "idle" => kind[Boot] = "profile"
             /\ \A c \in Calls : kind[c] = "post" /\ apiStage[c] = "send"
                                     => selected \/ excused[c]

ContextInv == ApiInv /\ excused \in [Api!All -> BOOLEAN] /\ Selection

LEMMA ContextStep == ContextInv /\ [Api!Next]_apiVars => ContextInv'
<1> SUFFICES ASSUME ContextInv, [Api!Next]_apiVars
             PROVE (excused \in [Api!All -> BOOLEAN])' /\ Selection'
  BY ApiStep DEF ContextInv
<1> USE Bounds DEF ContextInv, ApiInv, ApiShape, Selection, Api!All,
                   Api!server, Api!fields, Api!calls
<1> DEFINE Goal == (excused \in [Api!All -> BOOLEAN])' /\ Selection'
<1>1. ASSUME NEW c \in Calls, NEW m \in Kinds, Api!Start(c, m) PROVE Goal
  BY <1>1 DEF Api!Start
<1>2. CASE Api!ProbeFinds
  BY <1>2 DEF Api!ProbeFinds, Api!Probing, Api!AfterProbe
<1>3. CASE Api!ProbeBumps
  BY <1>3 DEF Api!ProbeBumps, Api!NextVersion
<1>4. CASE Api!ProbeFails
  BY ZenonT(60), <1>4 DEF Api!ProbeFails, Api!End, Api!Probing
<1>5. ASSUME NEW c \in Api!All, Api!Bootstrap(c) PROVE Goal
  BY <1>5 DEF Api!Bootstrap
<1>6. ASSUME NEW c \in Api!All, Api!AwaitContext(c) \/ Api!HasContext(c) PROVE Goal
  BY <1>6 DEF Api!AwaitContext, Api!HasContext, Api!ContextKnown
<1>7. ASSUME NEW c \in Api!All, Api!Answered(c) PROVE Goal
  <2>1. selected \/ kind[c] = "profile" => selected'
    BY <1>7 DEF Api!Answered
  <2>2. Api!Sending(c) /\ Api!End({c}, "ok") /\ UNCHANGED kind
    BY <1>7 DEF Api!Answered
  <2>3. (excused \in [Api!All -> BOOLEAN])'
    BY <2>2 DEF Api!End
  <2>4. context' = "done" => selected'
    BY <2>1, <2>2 DEF Api!Sending, Api!End
  <2>5. apiStage'[Boot] # "idle" => kind'[Boot] = "profile"
    BY <2>2 DEF Api!End
  <2>6. ASSUME NEW d \in Calls, kind'[d] = "post", apiStage'[d] = "send"
        PROVE selected' \/ excused'[d]
    BY <2>1, <2>2, <2>6 DEF Api!Sending, Api!End
  <2> QED
    BY <2>3, <2>4, <2>5, <2>6
<1>8. ASSUME NEW c \in Api!All, Api!Gone(c) PROVE Goal
  BY <1>8 DEF Api!Gone, Api!Sending
<1>9. ASSUME NEW c \in Api!All, Api!GoneThrows(c) PROVE Goal
  BY ZenonT(60), <1>9 DEF Api!GoneThrows, Api!Sending, Api!End
<1>10. ASSUME NEW c \in Api!All, Api!RequestFails(c) PROVE Goal
  BY ZenonT(60), <1>10 DEF Api!RequestFails, Api!Sending, Api!End
<1>11. CASE Api!Withdraw \/ Api!Release
  BY <1>11 DEF Api!Withdraw, Api!Release
<1>12. CASE UNCHANGED apiVars
  BY <1>12 DEF apiVars
<1> QED
  BY <1>1, <1>2, <1>3, <1>4, <1>5, <1>6, <1>7, <1>8, <1>9, <1>10, <1>11, <1>12
     DEF Api!Next, Api!Probe, Api!Progress

\* No POST is answered before a profile has been selected on the session, unless the
\* bootstrap it waited for failed (aula-client.ts:447-464), for any number of calls.
THEOREM PostsHaveContext == Spec => PostHasContext
<1>1. Init => ContextInv
  <2>1. Init => ApiInv
    BY Bounds DEF Init, Api!Init, ApiInv, ApiShape, Together, Api!FollowsWithdrawals,
       Api!All
  <2> QED
    BY <2>1, Bounds DEF Init, Api!Init, ContextInv, Selection, Api!All
<1>2. ContextInv => (\A c \in Calls : Api!Answered(c) /\ Api!IsPost(c)
                                          => selected \/ excused[c])
  BY DEF ContextInv, Selection, Api!IsPost
<1> QED
  BY <1>1, <1>2, PartSteps, ContextStep, PTL DEF Spec, PostHasContext, Api!PostHasContext

-----------------------------------------------------------------------------
(* The token refresher, and the probes of /readyz                           *)

\* What the assumptions say of the refresher.
LEMMA RefresherBounds == /\ None \notin Callers /\ None \notin Nat /\ "cache" \notin Callers
                /\ RecheckMs \in Nat /\ MaxLoad \in Nat /\ MaxVer \in Nat \ {0}
                /\ Probes \subseteq Callers /\ GraceMs \in Nat \ {0}
BY PartsAssumption DEF PartsAssumption, Refresher!ReadinessAssumption,
   Refresher!TokenRefresherAssumption

Shape == /\ store \in Refresher!Version \cup {None} /\ versions \in Refresher!Version
         /\ left \in [Refresher!Version -> Nat]
         /\ inFlight \in Callers \cup {None}
         /\ cached \in Refresher!Version \cup {None} /\ cachedAge \in Nat
         /\ load \in [Callers -> {"off", "reading", "refreshing", "done"}]
         /\ loaded \in [Callers -> Refresher!Version \cup {None}]
         /\ loadAge \in [Callers -> 0..MaxLoad]
         /\ waitsOn \in [Callers -> Callers \cup {None}]

\* The load in flight is the only one there is, and the only one anybody waits for.
OneLoad == \A c \in Callers : /\ load[c] # "off" <=> inFlight = c
                              /\ waitsOn[c] \in {None, inFlight}
                              /\ load[c] = "done" <=> loaded[c] # None

\* What is on disk, or yet to be written, has not left it; what a load has read left the
\* disk, if it did, after the load began; what is cached, at most a load before that.
Recent == /\ store # None => store <= versions /\ left[store] = 0
          /\ \A v \in Refresher!Version : v > versions => left[v] = 0
          /\ \A c \in Callers : load[c] = "done" => left[loaded[c]] <= loadAge[c]
          /\ cached # None /\ cachedAge < RecheckMs => left[cached] <= cachedAge + MaxLoad

\* After an invalidate() that met no load with an answer, none is of before it.
Reread == ~missed => /\ outdated \subseteq {"cache"}
                     /\ "cache" \in outdated => cached = None

RefresherInv == Shape /\ OneLoad /\ Recent /\ Reread

LEMMA RefresherStep == RefresherInv /\ Refresher!Next => RefresherInv'
<1> SUFFICES ASSUME RefresherInv, Refresher!Next PROVE RefresherInv'
  OBVIOUS
<1> USE RefresherBounds DEF RefresherInv, Shape, OneLoad, Recent, Reread, Refresher!Version,
        Refresher!external, Refresher!fields, Refresher!loads, Refresher!history
<1>1. ASSUME NEW c \in Callers, Refresher!Join(c) PROVE RefresherInv'
  BY <1>1 DEF Refresher!Join
<1>2. ASSUME NEW c \in Callers, Refresher!StartLoad(c) PROVE RefresherInv'
  BY <1>2 DEF Refresher!StartLoad, Refresher!NothingInFlight
<1>3. ASSUME NEW c \in Callers, Refresher!ReadFresh(c) PROVE RefresherInv'
  BY <1>3 DEF Refresher!ReadFresh, Refresher!Readable
<1>adopted. ASSUME NEW c \in Callers, Refresher!Adopted(c) PROVE RefresherInv'
  BY <1>adopted DEF Refresher!Adopted
<1>4. ASSUME NEW c \in Callers, Refresher!ReadExpired(c) PROVE RefresherInv'
  BY <1>4 DEF Refresher!ReadExpired
<1>5. ASSUME NEW c \in Callers, Refresher!Refreshed(c) PROVE RefresherInv'
  BY <1>5 DEF Refresher!Refreshed
<1>6. ASSUME NEW c \in Callers, Refresher!Succeed(c) PROVE RefresherInv'
  BY <1>6 DEF Refresher!Succeed, Refresher!Settle
<1>7. ASSUME NEW c \in Callers, Refresher!Fail(c) PROVE RefresherInv'
  BY <1>7 DEF Refresher!Fail, Refresher!Settle, Refresher!CacheAfterFailure
<1>8. CASE Refresher!Invalidate
  <2>1. Shape' /\ OneLoad'
    BY <1>8 DEF Refresher!Invalidate, Refresher!Forget
  <2>2. Recent'
    BY <1>8 DEF Refresher!Invalidate, Refresher!Forget
  <2>3. Reread'
    <3>1. CASE \E c \in Callers : load[c] = "done"
      BY <1>8, <3>1 DEF Refresher!Invalidate
    <3>2. CASE ~\E c \in Callers : load[c] = "done"
      <4>1. {c \in Callers : load[c] = "done"} = {}
        BY <3>2
      <4> QED
        BY <1>8, <4>1 DEF Refresher!Invalidate, Refresher!Forget
    <3> QED
      BY <3>1, <3>2
  <2> QED
    BY <2>1, <2>2, <2>3
<1>9. CASE Refresher!Login
  BY <1>9 DEF Refresher!Login
<1>logout. CASE Refresher!Logout
  BY <1>logout DEF Refresher!Logout
<1>10. CASE Refresher!Tick
  <2>1. Shape' /\ OneLoad'
    BY SMTT(40), <1>10 DEF Refresher!Tick, Refresher!Horizon
  <2>2. UNCHANGED store /\ UNCHANGED versions /\ UNCHANGED cached
    BY <1>10 DEF Refresher!Tick
  <2>3. store # None => store <= versions /\ left'[store] = 0
    BY <1>10 DEF Refresher!Tick
  <2>4. \A v \in Refresher!Version : v > versions => left'[v] = 0
    BY <1>10 DEF Refresher!Tick
  <2>5. \A c \in Callers : load'[c] = "done" => left'[loaded'[c]] <= loadAge'[c]
    BY <1>10 DEF Refresher!Tick
  <2>6. cached # None /\ cachedAge' < RecheckMs => left'[cached] <= cachedAge' + MaxLoad
    BY <1>10 DEF Refresher!Tick
  <2>7. Reread'
    BY <1>10 DEF Refresher!Tick
  <2> QED
    BY <2>1, <2>2, <2>3, <2>4, <2>5, <2>6, <2>7
<1>11. ASSUME NEW v \in Refresher!Version, Refresher!Expire(v) PROVE RefresherInv'
  BY <1>11 DEF Refresher!Expire
<1>hit. ASSUME NEW c \in Callers, Refresher!CacheHit(c) PROVE RefresherInv'
  BY <1>hit DEF Refresher!CacheHit, Refresher!vars
<1> QED
  BY <1>1, <1>2, <1>3, <1>4, <1>5, <1>6, <1>7, <1>8, <1>9, <1>10, <1>11, <1>hit,
     <1>adopted, <1>logout DEF Refresher!Next, Refresher!LoadStep

\* The probes add to what the refresher does, and change none of it.
LEMMA Underneath == [Refresher!RNext]_refresherVars =>
                        Refresher!Next \/ UNCHANGED Refresher!vars
BY RefresherBounds
   DEF Refresher!RNext, Refresher!ToolCalls, Refresher!Progress, Refresher!LoadGoesOn,
   Refresher!Succeeds, Refresher!Throws, Refresher!Ask, Refresher!Serve, Refresher!Looked,
   Refresher!FoundExpired, Refresher!StillFailing, Refresher!Refreshes, Refresher!Outside,
   Refresher!Time, Refresher!Next, Refresher!LoadStep, Refresher!vars, Refresher!external,
   Refresher!fields, Refresher!loads, Refresher!history, refresherVars

LEMMA RefresherKept == RefresherInv /\ [Refresher!RNext]_refresherVars => RefresherInv'
<1>1. RefresherInv /\ UNCHANGED Refresher!vars => RefresherInv'
  BY DEF RefresherInv, Shape, OneLoad, Recent, Reread, Refresher!vars, Refresher!external,
     Refresher!fields, Refresher!loads, Refresher!history
<1> QED
  BY <1>1, Underneath, RefresherStep

LEMMA RefresherStarts == Init => RefresherInv
BY RefresherBounds DEF Init, Refresher!RInit, Refresher!Init, RefresherInv, Shape, OneLoad, Recent,
   Reread, Refresher!Version

\* A logout or a login elsewhere is noticed within recheckIntervalMs plus the length of
\* one load (token-refresh.ts:16-19); and after an invalidate() nothing is answered that was
\* read from the store before it (token-refresh.ts:107), unless a load had read the store by
\* then and not settled, whose answer is bounded by the first part alone; however callers,
\* loads, other processes and the clock interleave.
THEOREM AnswersFollowTheStore == Spec => []AnswersAreRecent
<1>1. RefresherInv => AnswersAreRecent
  BY RefresherBounds DEF RefresherInv, Shape, Recent, Reread, AnswersAreRecent,
     Refresher!CacheIsRecent, Refresher!Usable, Refresher!InvalidateForcesReread
<1> QED
  BY <1>1, RefresherStarts, PartSteps, RefresherKept, PTL DEF Spec

-----------------------------------------------------------------------------
(* Probes                                                                   *)

\* Since a probe's own load failed, nothing has succeeded: the failure memory is at
\* least as young as that.
FailureKnown == /\ errorAge \in Nat /\ quiet \in 0..GraceMs
                /\ probe \in [Probes -> {"off", "reading", "expired", "asking"}]
                /\ quiet < GraceMs => lastError /\ errorAge <= quiet

LEMMA FailureKnownKept ==
    FailureKnown /\ [Refresher!RNext]_refresherVars => FailureKnown'
<1> SUFFICES ASSUME FailureKnown, [Refresher!RNext]_refresherVars PROVE FailureKnown'
  OBVIOUS
<1> USE RefresherBounds DEF FailureKnown, Refresher!vars, Refresher!external, Refresher!fields,
        Refresher!loads, Refresher!history, Refresher!probing, Refresher!Goes
<1>1. ASSUME NEW c \in Callers, Refresher!ToolCalls(c) PROVE FailureKnown'
  BY <1>1 DEF Refresher!ToolCalls, Refresher!Join, Refresher!CacheHit, Refresher!StartLoad
<1>2. ASSUME NEW c \in Callers, Refresher!LoadGoesOn(c) PROVE FailureKnown'
  BY <1>2 DEF Refresher!LoadGoesOn, Refresher!ReadFresh, Refresher!ReadExpired,
     Refresher!Refreshed, Refresher!Adopted
<1>3. ASSUME NEW c \in Callers, Refresher!Succeeds(c) PROVE FailureKnown'
  BY <1>3 DEF Refresher!Succeeds, Refresher!Answers
<1>4. ASSUME NEW c \in Callers, Refresher!Throws(c) PROVE FailureKnown'
  BY <1>4 DEF Refresher!Throws, Refresher!Fail, Refresher!FailureAge, Refresher!Answers
<1>5. ASSUME NEW p \in Probes, Refresher!Ask(p) \/ Refresher!Looked(p)
             \/ Refresher!FoundExpired(p) \/ Refresher!StillFailing(p)
      PROVE FailureKnown'
  BY <1>5 DEF Refresher!Ask, Refresher!Looked, Refresher!FoundExpired,
     Refresher!StillFailing
<1>6. ASSUME NEW p \in Probes, Refresher!Refreshes(p) PROVE FailureKnown'
  BY <1>6 DEF Refresher!Refreshes, Refresher!Join, Refresher!CacheHit, Refresher!StartLoad
<1>7. CASE Refresher!Outside
  BY <1>7 DEF Refresher!Outside, Refresher!Invalidate, Refresher!Login, Refresher!Logout,
     Refresher!Expire
<1>8. CASE Refresher!Time
  BY <1>8 DEF Refresher!Time, Refresher!Tick, Refresher!Older
<1>9. CASE UNCHANGED refresherVars
  BY <1>9 DEF refresherVars
<1> QED
  BY <1>1, <1>2, <1>3, <1>4, <1>5, <1>6, <1>7, <1>8, <1>9
     DEF Refresher!RNext, Refresher!Progress, Refresher!Serve

\* The only step that starts a load for a probe that has found an expired record is its
\* own, which asks the failure memory first.
LEMMA OnlyRefreshesStarts ==
    ASSUME [Refresher!RNext]_refresherVars, NEW p \in Probes, probe[p] = "expired",
           Refresher!StartLoad(p)
    PROVE  Refresher!Refreshes(p)
<1>1. inFlight = None /\ inFlight' = p /\ p \in Callers /\ p # None
  BY RefresherBounds DEF Refresher!StartLoad, Refresher!NothingInFlight
<1> USE DEF Refresher!vars, Refresher!fields
<1>2. ASSUME NEW c \in Callers, Refresher!ToolCalls(c) PROVE FALSE
  <2>1. Refresher!StartLoad(c)
    BY <1>1, <1>2 DEF Refresher!ToolCalls, Refresher!Join, Refresher!CacheHit
  <2>2. c = p
    BY <1>1, <2>1 DEF Refresher!StartLoad
  <2> QED
    BY <1>2, <2>2 DEF Refresher!ToolCalls
<1>3. ASSUME NEW c \in Callers, Refresher!Progress(c) PROVE FALSE
  BY <1>1, <1>3 DEF Refresher!Progress, Refresher!LoadGoesOn, Refresher!ReadFresh,
     Refresher!ReadExpired, Refresher!Refreshed, Refresher!Adopted, Refresher!Succeeds,
     Refresher!Succeed, Refresher!Throws, Refresher!Fail, Refresher!Settle
<1>4. ASSUME NEW q \in Probes, Refresher!Ask(q) \/ Refresher!Looked(q)
             \/ Refresher!FoundExpired(q) \/ Refresher!StillFailing(q)
      PROVE FALSE
  BY <1>1, <1>4 DEF Refresher!Ask, Refresher!Looked, Refresher!FoundExpired,
     Refresher!StillFailing
<1>5. ASSUME NEW q \in Probes, Refresher!Refreshes(q) PROVE Refresher!Refreshes(p)
  <2>1. Refresher!StartLoad(q)
    BY <1>1, <1>5 DEF Refresher!Refreshes, Refresher!Join, Refresher!CacheHit
  <2>2. q = p
    BY <1>1, <2>1 DEF Refresher!StartLoad
  <2> QED
    BY <1>5, <2>2
<1>6. ~Refresher!Outside /\ ~Refresher!Time
  BY <1>1 DEF Refresher!Outside, Refresher!Time, Refresher!Invalidate, Refresher!Login,
     Refresher!Logout, Refresher!Expire, Refresher!Tick
<1>7. ~UNCHANGED refresherVars
  BY <1>1 DEF refresherVars
<1> QED
  BY <1>2, <1>3, <1>4, <1>5, <1>6, <1>7 DEF Refresher!RNext, Refresher!Serve

\* While refreshing keeps failing, /readyz tries at most once per grace window
\* (aula-context.ts:205-211, 225-228), whatever tool calls, logins and invalidations do
\* between two of them.
THEOREM ProbesKeepTheirDistance == Spec => ProbesAreSpaced
<1>1. Init => FailureKnown
  BY RefresherBounds DEF Init, Refresher!RInit, FailureKnown
<1>2. FailureKnown /\ [Refresher!RNext]_refresherVars =>
          \A p \in Probes : probe[p] = "expired" /\ Refresher!StartLoad(p)
                                => quiet = GraceMs
  BY OnlyRefreshesStarts, RefresherBounds DEF FailureKnown, Refresher!Refreshes,
     Refresher!RecentlyFailed
<1> QED
  BY <1>1, <1>2, PartSteps, FailureKnownKept, PTL
     DEF Spec, ProbesAreSpaced, Refresher!ProbesAreSpaced

-----------------------------------------------------------------------------
(* The login                                                                *)

\* Where the call is tells which factors MitID has accepted.
Approving == {"app_start", "poll", "sleep", "app_init", "app_prove", "app_verify"}
Typing == {"token_init", "token_prove"}
Entering == {"next_token", "pass_init", "pass_prove"}
Opening == {"walk", "idp", "initialize", "session", "claim", "next_identified", "prompt",
            "next_select"} \cup Approving \cup Typing
Closing == {"finalize", "complete", "identity", "option", "saml", "saml_page",
            "post_broker", "confirm", "after", "acs"}

Factors ==
    /\ method \in {"APP", "CODE_TOKEN", "silent"}
    /\ loc \in Opening \cup Entering \cup Closing \cup
               {"next_proved", "silent", "token", "done", "failed"}
    /\ loc \in Opening => accepted = <<>> /\ method # "silent"
    /\ loc \in {"prompt"} \cup Typing \cup Entering => method = "CODE_TOKEN"
    /\ loc \in Approving => method = "APP"
    /\ loc \in Entering => accepted = <<"CODE_TOKEN">>
    /\ loc \in Closing \cup {"next_proved"} => /\ accepted = Login!FactorsOf(method)
                                               /\ method # "silent"
    /\ loc = "silent" => accepted = <<>> /\ method = "silent"
    /\ loc \in {"token", "done"} => /\ accepted = Login!Promise!Required(method)
                                    /\ answers = "own"

\* The client's authenticator is the one MitID waits for, of the kind the step needs.
Fits ==
    /\ loc # "failed" => /\ cur.session = server.id
                         /\ cur.key = server.id
                         /\ cur.eafe = server.id
    /\ loc \in Typing => cur.type = "CODE_TOKEN"
    /\ loc \in {"pass_init", "pass_prove"} => cur.type = "PASSWORD"
    /\ loc \in {"app_init", "app_prove", "app_verify"} => response = server.id

PeerKnown == loc = "app_verify" => peerKnown

LEMMA LoginStarts == Init => Factors /\ Fits /\ PeerKnown
BY DEF Init, Login!Init, Login!MitidInit, Login!Methods, Login!NoAuthenticator, Factors,
   Fits, PeerKnown, Opening, Approving, Typing, Entering, Closing, Login!FactorsOf,
   Login!Promise!Required

\* Outside MitID's part the call moves within what comes before it, within what comes
\* after it, or ends.
Bystanders == UNCHANGED Login!mitidVars
LEMMA ChainMoves ==
    Factors /\ Login!LoginAnswer =>
      /\ Bystanders
      /\ \/ loc' = "failed" /\ loc # "done"
         \/ loc \in Opening /\ loc' \in {"walk", "idp", "initialize", "session"}
         \/ loc \in Closing /\ loc' \in Closing
         \/ loc = "silent" /\ loc' = "silent"
         \/ loc \in Closing \cup {"silent"} /\ loc' = "token" /\ answers' = "own"
         \/ loc = "token" /\ loc' = "done" /\ answers' = answers
<1> SUFFICES ASSUME Factors, Login!LoginAnswer
             PROVE  /\ Bystanders
                    /\ \/ loc' = "failed" /\ loc # "done"
                       \/ loc \in Opening /\ loc' \in {"walk", "idp", "initialize", "session"}
                       \/ loc \in Closing /\ loc' \in Closing
                       \/ loc = "silent" /\ loc' = "silent"
                       \/ loc \in Closing \cup {"silent"} /\ loc' = "token"
                          /\ answers' = "own"
                       \/ loc = "token" /\ loc' = "done" /\ answers' = answers
  OBVIOUS
<1> USE DEF Bystanders, Opening, Closing, Approving, Typing, Login!Goes, Login!Enters,
        Login!Hop
<1>1. CASE Login!RequestFails
  BY <1>1 DEF Login!RequestFails, Login!Ended
<1>2. ASSUME NEW h \in Login!Hosts,
             Login!WalkRedirected(h) \/ Login!IdpRedirected(h) \/ Login!SilentRedirected(h)
      PROVE  /\ Bystanders
             /\ \/ loc' = "failed" /\ loc # "done"
                \/ loc \in Opening /\ loc' = "walk"
                \/ loc = "silent" /\ loc' = "silent"
  BY <1>2 DEF Login!WalkRedirected, Login!IdpRedirected, Login!SilentRedirected
<1>3. ASSUME NEW h \in Login!Hosts, NEW page \in Login!Pages,
             Login!WalkRefreshed(h, page) \/ Login!SilentRefreshed(h, page)
      PROVE  /\ Bystanders
             /\ \/ loc' = "failed" /\ loc # "done"
                \/ loc \in Opening /\ loc' = "walk"
                \/ loc = "silent" /\ loc' = "silent"
  BY <1>3 DEF Login!WalkRefreshed, Login!SilentRefreshed
<1>4. ASSUME NEW page \in Login!Pages, Login!BrokerPage(page) \/ Login!MitidPage(page)
      PROVE  Bystanders /\ loc \in Opening /\ loc' \in {"idp", "initialize"}
  BY <1>4 DEF Login!BrokerPage, Login!MitidPage
<1>5. ASSUME NEW page \in Login!Pages,
             \/ Login!IdentityPage(page) \/ Login!SamlFormRead(page)
             \/ Login!BrokerParamsRead(page) \/ Login!ConfirmationAsked(page)
             \/ Login!FinalSamlForm(page)
      PROVE  /\ Bystanders
             /\ \/ loc' = "failed" /\ loc # "done"
                \/ loc \in Closing /\ loc' \in Closing
  BY <1>5 DEF Login!IdentityPage, Login!SamlFormRead, Login!BrokerParamsRead,
     Login!ConfirmationAsked, Login!FinalSamlForm
<1>6. CASE Login!IdpIgnored \/ Login!AuxParsed
  BY <1>6 DEF Login!IdpIgnored, Login!AuxParsed
<1>7. CASE Login!Finalized \/ Login!SamlRedirected \/ Login!BrokerRedirected
           \/ Login!AcsRedirected \/ Login!AcsExhausted
  BY <1>7 DEF Login!Finalized, Login!SamlRedirected, Login!BrokerRedirected,
     Login!AcsRedirected, Login!AcsExhausted
<1>8. ASSUME NEW status \in {302, 303, 307}, Login!Followed(status)
      PROVE  /\ Bystanders
             /\ \/ loc' = "failed" /\ loc # "done"
                \/ loc \in Closing /\ loc' \in Closing
  BY <1>8 DEF Login!Followed
<1>9. ASSUME NEW state \in {"own", "other"}, Login!Callback(state)
      PROVE  /\ Bystanders
             /\ \/ loc' = "failed" /\ loc # "done"
                \/ loc \in Closing \cup {"silent"} /\ loc' = "token" /\ answers' = "own"
  BY <1>9 DEF Login!Callback
<1>10. CASE Login!TokensIssued
  BY <1>10 DEF Login!TokensIssued
<1> QED
  BY <1>1, <1>2, <1>3, <1>4, <1>5, <1>6, <1>7, <1>8, <1>9, <1>10 DEF Login!LoginAnswer

LEMMA ChainKeeps == Factors /\ Fits /\ PeerKnown /\ Login!LoginAnswer =>
                        Factors' /\ Fits' /\ PeerKnown'
<1> SUFFICES ASSUME Factors, Fits, PeerKnown, Login!LoginAnswer
             PROVE  Factors' /\ Fits' /\ PeerKnown'
  OBVIOUS
<1>1. /\ UNCHANGED <<method, cur, response, peerKnown, server, accepted>>
      /\ \/ loc' = "failed"
         \/ loc \in Opening /\ loc' \in {"walk", "idp", "initialize", "session"}
         \/ loc \in Closing /\ loc' \in Closing
         \/ loc = "silent" /\ loc' = "silent"
         \/ loc \in Closing \cup {"silent"} /\ loc' = "token" /\ answers' = "own"
         \/ loc = "token" /\ loc' = "done" /\ answers' = answers
  BY ChainMoves DEF Bystanders, Login!mitidVars, Login!asked, Login!mitid
<1>2. Factors'
  BY <1>1 DEF Factors, Opening, Approving, Typing, Entering, Closing, Login!FactorsOf,
     Login!Promise!Required
<1>3. Fits'
  BY <1>1 DEF Factors, Fits, Opening, Approving, Typing, Entering, Closing
<1>4. PeerKnown'
  BY <1>1 DEF PeerKnown, Closing
<1> QED
  BY <1>2, <1>3, <1>4

LEMMA BothFactors ==
    Append(<<"CODE_TOKEN">>, "PASSWORD") = <<"CODE_TOKEN", "PASSWORD">>
<1> DEFINE both == <<"CODE_TOKEN", "PASSWORD">>
           added == Append(<<"CODE_TOKEN">>, "PASSWORD")
<1>1. both \in Seq({"CODE_TOKEN", "PASSWORD"}) /\ Len(both) = 2
  OBVIOUS
<1>2. <<"CODE_TOKEN">> \in Seq({"CODE_TOKEN", "PASSWORD"}) /\ Len(<<"CODE_TOKEN">>) = 1
  OBVIOUS
<1>3. /\ added \in Seq({"CODE_TOKEN", "PASSWORD"}) /\ Len(added) = Len(both)
      /\ added[1] = "CODE_TOKEN" /\ added[2] = "PASSWORD"
  BY <1>1, <1>2, AppendProperties
<1>4. \A i \in 1 .. Len(added) : added[i] = both[i]
  BY <1>1, <1>3
<1> HIDE DEF added, both
<1>5. added = both
  BY <1>1, <1>3, <1>4, SeqEqual, Zenon
<1> QED
  BY <1>5 DEF added, both

LEMMA MitidKeeps == Factors /\ Fits /\ PeerKnown /\ Login!MitidAnswer /\ UNCHANGED answers =>
                        Factors' /\ Fits' /\ PeerKnown'
<1> SUFFICES ASSUME Factors, Fits, PeerKnown, Login!MitidAnswer, UNCHANGED answers
             PROVE  Factors' /\ Fits' /\ PeerKnown'
  OBVIOUS
<1> USE DEF Factors, Fits, PeerKnown, Opening, Approving, Typing, Entering, Closing,
        Login!mitidVars, Login!asked, Login!mitid
<1>1. CASE Login!SessionLoaded \/ Login!ClaimAccepted
  BY <1>1 DEF Login!SessionLoaded, Login!ClaimAccepted
<1>2. ASSUME NEW label \in Login!Labels, NEW offered \in SUBSET Login!Methods,
             Login!Identified(label, offered)
      PROVE  Factors' /\ Fits' /\ PeerKnown'
  BY <1>2 DEF Login!Identified, Login!NextAuthenticator, Login!Issues, Login!Applied,
     Login!Normalized, Login!Begin
<1>3. ASSUME NEW label \in Login!Labels, Login!Selected(label)
      PROVE  Factors' /\ Fits' /\ PeerKnown'
  BY <1>3 DEF Login!Selected, Login!NextAuthenticator, Login!Issues, Login!Applied,
     Login!Normalized
<1>4. ASSUME NEW label \in Login!Labels, Login!PasswordAsked(label)
      PROVE  Factors' /\ Fits' /\ PeerKnown'
  BY <1>4 DEF Login!PasswordAsked, Login!NextAuthenticator, Login!Issues, Login!Applied,
     Login!Normalized
<1>5. CASE Login!AppStarted \/ Login!SleepEnds
  BY <1>5 DEF Login!AppStarted, Login!SleepEnds, Login!PollOrStop
<1>6. CASE Login!PollGoesOn \/ Login!PollCompleted \/ Login!SleepAborted
  BY <1>6 DEF Login!PollGoesOn, Login!PollCompleted, Login!SleepAborted
<1>7. CASE Login!AppInit
  BY <1>7 DEF Login!AppInit
<1>8. ASSUME NEW m2 \in BOOLEAN, Login!AppProved(m2)
      PROVE  Factors' /\ Fits' /\ PeerKnown'
  BY <1>8 DEF Login!AppProved
<1>9. CASE Login!AppVerified
  BY <1>9 DEF Login!AppVerified, Login!FactorsOf
<1>10. CASE Login!TokenInit \/ Login!PasswordInit
  BY <1>10 DEF Login!TokenInit, Login!PasswordInit
<1>11. CASE Login!TokenProved
  BY <1>11 DEF Login!TokenProved, Login!Proved
<1>12. CASE Login!PasswordProved
  BY <1>12, BothFactors DEF Login!PasswordProved, Login!Proved, Login!FactorsOf
<1>13. CASE Login!FactorsDone
  BY <1>13 DEF Login!FactorsDone, Login!FactorsOf
<1> QED
  BY <1>1, <1>2, <1>3, <1>4, <1>5, <1>6, <1>7, <1>8, <1>9, <1>10, <1>11, <1>12, <1>13
  DEF Login!MitidAnswer

LEMMA UserKeeps == Factors /\ Fits /\ PeerKnown /\ Login!User => Factors' /\ Fits' /\ PeerKnown'
<1> SUFFICES ASSUME Factors, Fits, PeerKnown, Login!User PROVE Factors' /\ Fits' /\ PeerKnown'
  OBVIOUS
<1> USE DEF Factors, Fits, PeerKnown, Opening, Approving, Typing, Entering, Closing,
        Login!mitidVars, Login!asked, Login!mitid, Login!chain
<1>1. CASE Login!Prompted /\ UNCHANGED Login!chain
  BY <1>1 DEF Login!Prompted
<1>2. CASE Login!Approve /\ UNCHANGED Login!chain
  BY <1>2 DEF Login!Approve
<1>abort. CASE Login!Abort /\ UNCHANGED Login!chain
  BY <1>abort DEF Login!Abort
<1>3. CASE Login!IdentityChosen \/ Login!IdentityRefused
  BY <1>3 DEF Login!IdentityChosen, Login!IdentityRefused, Login!Enters, Login!Goes
<1> QED
  BY <1>1, <1>2, <1>3, <1>abort DEF Login!User

LEMMA LoginKept == Factors /\ Fits /\ PeerKnown /\ [Login!Next]_loginVars =>
                       Factors' /\ Fits' /\ PeerKnown'
<1>1. Factors /\ Fits /\ PeerKnown /\ UNCHANGED loginVars => Factors' /\ Fits' /\ PeerKnown'
  BY DEF Factors, Fits, PeerKnown, loginVars
<1>2. Login!MitidAnswer /\ UNCHANGED Login!chain => UNCHANGED answers
  BY DEF Login!chain
<1> QED
  BY <1>1, <1>2, ChainKeeps, MitidKeeps, UserKeeps DEF Login!Next, Login!Answer

-----------------------------------------------------------------------------
\* What the client sends in a proof is all of the authenticator MitID is waiting for,
\* and an approval is encrypted only for a server that proved it knows it
\* (mitid-client.ts:654-662, 377-381).
THEOREM ProofsFit == Spec => []InStep
<1>1. Factors /\ Fits /\ PeerKnown => InStep
  BY DEF Factors, Fits, PeerKnown, InStep, Login!InStep, Login!ProofFits, Approving, Typing,
     Entering
<1> QED
  BY <1>1, LoginStarts, PartSteps, LoginKept, PTL DEF Spec

-----------------------------------------------------------------------------
(* LoginPromise: each step of the login is one of the promise's, or none.   *)

LEMMA PromiseStarts == Init => Login!Promise!Init
BY LoginStarts DEF Init, Login!Init, Login!MitidInit, Login!Methods, Login!Promise!Init,
   Login!Promise!Methods, Login!Outcome

Fulfils == [Login!Promise!Next]_<<method, Login!Outcome, accepted>>

LEMMA ChainFulfils == Factors /\ Login!LoginAnswer => Fulfils
<1> SUFFICES ASSUME Factors, Login!LoginAnswer PROVE Fulfils
  OBVIOUS
<1>1. UNCHANGED <<method, accepted>>
  BY ChainMoves DEF Bystanders, Login!mitidVars, Login!mitid
<1> USE <1>1 DEF Fulfils, Login!Promise!Next, Login!Outcome
<1>2. CASE loc' = "failed" /\ loc # "done"
  BY <1>2 DEF Factors, Login!Promise!Fail
<1>3. CASE \/ loc \in Opening /\ loc' \in {"walk", "idp", "initialize", "session"}
           \/ loc \in Closing /\ loc' \in Closing
           \/ loc = "silent" /\ loc' = "silent"
  BY <1>3 DEF Opening, Approving, Typing, Closing
<1>4. CASE loc \in Closing \cup {"silent"} /\ loc' = "token" /\ answers' = "own"
  <2>1. accepted = Login!Promise!Required(method)
    BY <1>4 DEF Factors, Login!FactorsOf, Login!Promise!Required
  <2> QED
    BY <1>4, <2>1 DEF Closing, Login!Promise!Assert
<1>5. CASE loc = "token" /\ loc' = "done" /\ answers' = answers
  BY <1>5 DEF Factors, Login!Promise!Grant
<1> QED
  BY <1>2, <1>3, <1>4, <1>5, ChainMoves

Before == loc \notin {"silent", "token", "done", "failed"}
LEMMA MitidMoves ==
    Factors /\ Login!MitidAnswer =>
      /\ UNCHANGED method
      /\ Before /\ loc' \notin {"token", "done"}
      /\ \/ UNCHANGED accepted
         \/ /\ loc' # "failed" /\ accepted' = Append(accepted, "APP")
            /\ method = "APP" /\ accepted = <<>>
         \/ /\ loc' # "failed" /\ accepted' = Append(accepted, "CODE_TOKEN")
            /\ method = "CODE_TOKEN" /\ accepted = <<>>
         \/ /\ loc' # "failed" /\ accepted' = Append(accepted, "PASSWORD")
            /\ method = "CODE_TOKEN" /\ accepted = <<"CODE_TOKEN">>
<1> SUFFICES ASSUME Factors, Login!MitidAnswer
             PROVE  /\ UNCHANGED method
                    /\ Before /\ loc' \notin {"token", "done"}
                    /\ \/ UNCHANGED accepted
                       \/ /\ loc' # "failed" /\ accepted' = Append(accepted, "APP")
                          /\ method = "APP" /\ accepted = <<>>
                       \/ /\ loc' # "failed"
                          /\ accepted' = Append(accepted, "CODE_TOKEN")
                          /\ method = "CODE_TOKEN" /\ accepted = <<>>
                       \/ /\ loc' # "failed"
                          /\ accepted' = Append(accepted, "PASSWORD")
                          /\ method = "CODE_TOKEN" /\ accepted = <<"CODE_TOKEN">>
  OBVIOUS
<1> USE DEF Before, Login!mitidVars, Login!asked, Login!mitid
<1>1. CASE \/ Login!SessionLoaded \/ Login!ClaimAccepted \/ Login!AppStarted
           \/ Login!PollGoesOn \/ Login!PollCompleted \/ Login!SleepEnds
           \/ Login!SleepAborted
  BY <1>1 DEF Login!SessionLoaded, Login!ClaimAccepted, Login!AppStarted,
     Login!PollGoesOn, Login!PollCompleted, Login!SleepEnds, Login!SleepAborted,
     Login!PollOrStop
<1>2. CASE \E label \in Login!Labels, offered \in SUBSET Login!Methods :
              Login!Identified(label, offered)
  BY <1>2 DEF Login!Identified, Login!Begin
<1>3. CASE \E label \in Login!Labels : Login!Selected(label) \/ Login!PasswordAsked(label)
  BY <1>3 DEF Login!Selected, Login!PasswordAsked
<1>4. CASE \/ Login!AppInit \/ Login!TokenInit \/ Login!PasswordInit
           \/ \E m2 \in BOOLEAN : Login!AppProved(m2)
  BY <1>4 DEF Login!AppInit, Login!TokenInit, Login!PasswordInit, Login!AppProved
<1>5. CASE Login!AppVerified
  BY <1>5 DEF Login!AppVerified, Factors, Approving, Opening
<1>6. CASE Login!TokenProved
  BY <1>6 DEF Login!TokenProved, Login!Proved, Factors, Opening, Typing
<1>7. CASE Login!PasswordProved
  BY <1>7 DEF Login!PasswordProved, Login!Proved, Factors, Entering
<1>8. CASE Login!FactorsDone
  BY <1>8 DEF Login!FactorsDone
<1> QED
  BY <1>1, <1>2, <1>3, <1>4, <1>5, <1>6, <1>7, <1>8 DEF Login!MitidAnswer

LEMMA MitidFulfils == Factors /\ Login!MitidAnswer /\ UNCHANGED answers => Fulfils
<1> SUFFICES ASSUME Factors, Login!MitidAnswer, UNCHANGED answers PROVE Fulfils
  OBVIOUS
<1>1. Before /\ loc' \notin {"token", "done"} /\ UNCHANGED method
  BY MitidMoves
<1> USE <1>1 DEF Fulfils, Before, Login!Promise!Next, Login!Outcome
<1>2. CASE UNCHANGED accepted
  BY <1>2 DEF Login!Promise!Fail
<1>3. CASE /\ loc' # "failed" /\ accepted' = Append(accepted, "APP")
           /\ method = "APP" /\ accepted = <<>>
  <2>1. /\ Len(accepted) = 0 /\ Len(Login!Promise!Required(method)) = 1
        /\ Login!Promise!Required(method)[Len(accepted) + 1] = "APP"
    BY <1>3 DEF Login!Promise!Required
  <2> QED
    BY <1>3, <2>1 DEF Login!Promise!Accept
<1>4. CASE /\ loc' # "failed" /\ accepted' = Append(accepted, "CODE_TOKEN")
           /\ method = "CODE_TOKEN" /\ accepted = <<>>
  <2>1. /\ Len(accepted) = 0 /\ Len(Login!Promise!Required(method)) = 2
        /\ Login!Promise!Required(method)[Len(accepted) + 1] = "CODE_TOKEN"
    BY <1>4 DEF Login!Promise!Required
  <2> QED
    BY <1>4, <2>1 DEF Login!Promise!Accept
<1>5. CASE /\ loc' # "failed" /\ accepted' = Append(accepted, "PASSWORD")
           /\ method = "CODE_TOKEN" /\ accepted = <<"CODE_TOKEN">>
  <2>1. /\ Len(accepted) = 1 /\ Len(Login!Promise!Required(method)) = 2
        /\ Login!Promise!Required(method)[Len(accepted) + 1] = "PASSWORD"
    BY <1>5 DEF Login!Promise!Required
  <2> QED
    BY <1>5, <2>1 DEF Login!Promise!Accept
<1> QED
  BY <1>2, <1>3, <1>4, <1>5, MitidMoves

LEMMA UserFulfils == Login!User => Fulfils
<1> SUFFICES ASSUME Login!User PROVE Fulfils
  OBVIOUS
<1> USE DEF Fulfils, Login!Promise!Next, Login!Promise!Fail, Login!Outcome,
        Login!mitidVars, Login!asked, Login!mitid, Login!chain
<1>1. CASE Login!Prompted /\ UNCHANGED Login!chain
  BY <1>1 DEF Login!Prompted
<1>2. CASE Login!Approve /\ UNCHANGED Login!chain
  BY <1>2 DEF Login!Approve
<1>3. CASE Login!Abort /\ UNCHANGED Login!chain
  BY <1>3 DEF Login!Abort
<1>4. CASE Login!IdentityChosen \/ Login!IdentityRefused
  BY <1>4 DEF Login!IdentityChosen, Login!IdentityRefused, Login!Enters, Login!Goes
<1> QED
  BY <1>1, <1>2, <1>3, <1>4 DEF Login!User

LEMMA PromiseStep == Factors /\ [Login!Next]_loginVars => Fulfils
<1>1. UNCHANGED loginVars => Fulfils
  BY DEF loginVars, Fulfils, Login!Outcome
<1>2. Login!MitidAnswer /\ UNCHANGED Login!chain => UNCHANGED answers
  BY DEF Login!chain
<1> QED
  BY <1>1, <1>2, ChainFulfils, MitidFulfils, UserFulfils DEF Login!Next, Login!Answer

\* Tokens only after every factor MitID asks of the method was accepted, in order, and
\* for the authorization request this call made; and one outcome per call
\* (aula-login-client.ts:166-268, 314-337).
THEOREM LoginsKeepThePromise == Spec => ImplementsPromise
<1>1. Fulfils => [Login!Promise!Next]_<<method, Login!Outcome, accepted>>
  BY DEF Fulfils
<1> QED
  BY <1>1, LoginStarts, PartSteps, LoginKept, PromiseStarts, PromiseStep, PTL
  DEF Spec, ImplementsPromise, Login!ImplementsPromise, Login!Promise!Spec

-----------------------------------------------------------------------------
(* The budgets of requests and failures                                     *)

LEMMA Budgets == /\ WindowMs \in Nat \ {0} /\ Limit \in Nat /\ FailLimit \in Nat
                 /\ LoginWindowMs \in Nat /\ LoginStartsPerWindow \in Nat
BY PartsAssumption
   DEF PartsAssumption, Limits!RateLimitsAssumption, Starts!StartsAssumption

\* What a window w has admitted within the last windowMs, h, was admitted by the current
\* window, which has counted it, or by the one before it, which had the same limit.
Current(w, h) == {r \in h : r[1] <= w.age}
Earlier(w, h) == {r \in h : r[1] > w.age}
Spans(w, h, limit) ==
    /\ w \in [count : 0..limit, age : Limits!Age]
    /\ IsFiniteSet(h) /\ h \subseteq Limits!Recent \X Nat
    /\ Cardinality(Current(w, h)) <= w.count /\ Cardinality(Earlier(w, h)) <= limit
    /\ w.age = WindowMs => \A r \in h : r[1] # 0

\* Two windows make up all that was admitted.
LEMMA SpansBound ==
  ASSUME NEW w, NEW h, NEW limit \in Nat, Spans(w, h, limit)
  PROVE  Cardinality(h) <= 2 * limit
<1> DEFINE c == Current(w, h)
           b == Earlier(w, h)
<1>1. IsFiniteSet(c) /\ IsFiniteSet(b)
  BY FS_Subset DEF Spans, Current, Earlier
<1>2. h = c \cup b /\ c \cap b = {}
  BY Budgets DEF Spans, Current, Earlier, Limits!Age, Limits!Recent
<1>3. Cardinality(c) <= limit /\ Cardinality(b) <= limit
  BY <1>1, FS_CardinalityType DEF Spans
<1> HIDE DEF c, b
<1>4. Cardinality(c \cup b) = Cardinality(c) + Cardinality(b) - Cardinality(c \cap b)
  BY <1>1, FS_Union
<1>5. Cardinality(c \cap b) = 0
  BY <1>2, FS_EmptySet
<1> QED
  BY <1>1, <1>2, <1>3, <1>4, <1>5, FS_CardinalityType

\* roll(): what a window that is over has admitted is what the one before has.
LEMMA Rolled ==
  ASSUME NEW w, NEW h, NEW limit \in Nat, Spans(w, h, limit)
  PROVE  /\ Spans(Limits!Roll(w), h, limit) /\ Limits!Roll(w).age < WindowMs
         /\ Limits!Roll(w) \in [count : 0..limit, age : Limits!Age]
<1>1. CASE w.age >= WindowMs
  <2>1. Limits!Roll(w) = [count |-> 0, age |-> 0] /\ w.age = WindowMs
    BY <1>1, Budgets DEF Limits!Roll, Limits!Fresh, Spans, Limits!Age
  <2>2. Current(Limits!Roll(w), h) = {}
    BY <2>1 DEF Current, Spans, Limits!Recent
  <2>3. Earlier(Limits!Roll(w), h) \subseteq h /\ Current(w, h) = h
    BY <2>1, Budgets DEF Current, Earlier, Spans, Limits!Recent
  <2>4. Cardinality(Earlier(Limits!Roll(w), h)) <= Cardinality(h)
    BY <2>3, FS_Subset DEF Spans
  <2>5. Cardinality(Earlier(Limits!Roll(w), h)) \in Nat /\ Cardinality(h) \in Nat
    BY <2>3, FS_Subset, FS_CardinalityType DEF Spans
  <2>6. Cardinality(h) <= limit
    BY <2>3, <2>5 DEF Spans
  <2>7. Cardinality({}) = 0
    BY FS_EmptySet
  <2>8. Limits!Roll(w) \in [count : 0..limit, age : Limits!Age]
    BY <2>1, Budgets DEF Limits!Age
  <2>9. Limits!Roll(w).count = 0 /\ Limits!Roll(w).age = 0
    BY <2>1
  <2> QED
    BY <2>2, <2>4, <2>5, <2>6, <2>7, <2>8, <2>9, Budgets DEF Spans
<1>2. CASE w.age < WindowMs
  <2>1. Limits!Roll(w) = w
    BY <1>2, Budgets DEF Limits!Roll, Spans, Limits!Age
  <2> QED
    BY <1>2, <2>1 DEF Spans
<1> QED
  BY <1>1, <1>2, Budgets DEF Spans, Limits!Age

\* take(), of a request that is admitted.
LEMMA Took ==
  ASSUME NEW w, NEW h, NEW limit \in Nat, Spans(w, h, limit), ~Limits!Exhausted(w, limit)
  PROVE  Spans(Limits!Taken(w, limit), Limits!OneMore(h), limit)
<1> DEFINE v == Limits!Roll(w)
           n == [v EXCEPT !.count = @ + 1]
           e == <<0, Limits!Cardinality(Limits!Now(h)) + 1>>
<1>1. Spans(v, h, limit) /\ v.age < WindowMs /\ v \in [count : 0..limit, age : Limits!Age]
  BY Rolled
<1>2. Limits!Taken(w, limit) = n /\ ~(v.count >= limit)
  BY DEF Limits!Taken, Limits!Exhausted
<1>3. Limits!OneMore(h) = h \cup {e}
  BY DEF Limits!OneMore
<1>4. e \in Limits!Recent \X Nat
  <2>1. Limits!Now(h) \subseteq h
    BY DEF Limits!Now
  <2>2. Cardinality(Limits!Now(h)) \in Nat
    BY <2>1, FS_Subset, FS_CardinalityType DEF Spans
  <2>3. Limits!Cardinality(Limits!Now(h)) = Cardinality(Limits!Now(h))
    BY DEF Limits!Cardinality, Limits!IsFiniteSet, Cardinality, IsFiniteSet
  <2> QED
    BY <2>2, <2>3, Budgets DEF Limits!Recent
<1> HIDE DEF v
<1>5. n \in [count : 0..limit, age : Limits!Age] /\ n.age = v.age /\ n.count = v.count + 1
  BY <1>1, <1>2
<1> HIDE DEF e, n
<1>6. /\ Current(n, h \cup {e}) \subseteq Current(v, h) \cup {e}
      /\ Earlier(n, h \cup {e}) = Earlier(v, h)
  <2>1. e[1] = 0
    BY DEF e
  <2>2. v.age \in Nat
    BY <1>1 DEF Limits!Age
  <2> QED
    BY <1>5, <2>1, <2>2 DEF Current, Earlier
<1>7. IsFiniteSet(h \cup {e}) /\ IsFiniteSet(Current(v, h))
  BY FS_AddElement, FS_Subset DEF Spans, Current
<1>8. Cardinality(Current(n, h \cup {e})) <= n.count
  <2>1. /\ IsFiniteSet(Current(v, h) \cup {e})
        /\ Cardinality(Current(v, h) \cup {e}) <= Cardinality(Current(v, h)) + 1
    <3> DEFINE c == Current(v, h)
    <3>1. IsFiniteSet(c) /\ Cardinality(c) \in Nat
      BY <1>7, FS_CardinalityType
    <3> HIDE DEF c
    <3>2. /\ IsFiniteSet(c \cup {e})
          /\ Cardinality(c \cup {e}) = IF e \in c THEN Cardinality(c) ELSE Cardinality(c) + 1
      BY <3>1, FS_AddElement
    <3> QED
      BY <3>1, <3>2 DEF c
  <2>2. /\ IsFiniteSet(Current(n, h \cup {e}))
        /\ Cardinality(Current(n, h \cup {e})) <= Cardinality(Current(v, h) \cup {e})
    BY <1>6, <2>1, FS_Subset
  <2>3. /\ Cardinality(Current(n, h \cup {e})) \in Nat /\ Cardinality(Current(v, h)) \in Nat
        /\ Cardinality(Current(v, h) \cup {e}) \in Nat
    BY <1>7, <2>1, <2>2, FS_CardinalityType
  <2>4. Cardinality(Current(v, h)) <= v.count /\ v.count \in Nat
    BY <1>1 DEF Spans
  <2> QED
    BY <1>5, <2>1, <2>2, <2>3, <2>4
<1>9. Spans(n, h \cup {e}, limit)
  <2>1. n.age # WindowMs
    BY <1>1, <1>5, Budgets DEF Limits!Age
  <2> QED
    BY <1>1, <1>4, <1>5, <1>6, <1>7, <1>8, <2>1 DEF Spans
<1> QED
  BY <1>2, <1>3, <1>9

\* take(), when the window is exhausted.
LEMMA TookNothing ==
  ASSUME NEW w, NEW h, NEW limit \in Nat, Spans(w, h, limit), Limits!Exhausted(w, limit)
  PROVE  Spans(Limits!Taken(w, limit), h, limit)
BY Rolled DEF Limits!Taken

\* A tick ages the window and what it has admitted alike.
LEMMA Ticked ==
  ASSUME NEW w, NEW h, NEW limit \in Nat, Spans(w, h, limit)
  PROVE  Spans(Limits!Aged(w), Limits!Older(h), limit)
<1> DEFINE v == Limits!Aged(w)
           n == Limits!Older(h)
<1>1. /\ v \in [count : 0..limit, age : Limits!Age] /\ v.count = w.count
      /\ v.age = IF w.age < WindowMs THEN w.age + 1 ELSE w.age
  BY Budgets DEF Spans, Limits!Aged, Limits!Age
<1>2. \A r \in h : r \in Limits!Recent \X Nat
  BY DEF Spans
<1>3. ASSUME NEW S \in SUBSET h, NEW T \in SUBSET {<<r[1] + 1, r[2]>> : r \in S}
      PROVE  IsFiniteSet(T) /\ Cardinality(T) <= Cardinality(S)
  <2> DEFINE U == {<<r[1] + 1, r[2]>> : r \in S}
             f == [r \in S |-> <<r[1] + 1, r[2]>>]
  <2>1. f \in Surjection(S, U)
    BY DEF Surjection
  <2>2. IsFiniteSet(S)
    BY FS_Subset DEF Spans
  <2>3. IsFiniteSet(U) /\ Cardinality(U) <= Cardinality(S)
    BY <2>1, <2>2, FS_Surjection
  <2> HIDE DEF U
  <2>4. T \in SUBSET U
    BY DEF U
  <2>5. IsFiniteSet(T) /\ Cardinality(T) <= Cardinality(U)
    BY <2>3, <2>4, FS_Subset
  <2> QED
    BY <2>2, <2>3, <2>5, FS_CardinalityType
<1>4. IsFiniteSet(n) /\ n \subseteq Limits!Recent \X Nat
  <2>1. n \in SUBSET {<<r[1] + 1, r[2]>> : r \in h}
    BY DEF Limits!Older
  <2>2. n \subseteq Limits!Recent \X Nat
    BY <1>2 DEF Limits!Older
  <2> QED
    BY <1>3, <2>1, <2>2
<1>5. Cardinality(Current(v, n)) <= v.count
  <2> DEFINE S == Current(w, h)
             T == Current(v, n)
  <2>1. T \in SUBSET {<<r[1] + 1, r[2]>> : r \in S}
    BY <1>1, <1>2, Budgets DEF Current, Limits!Older, Limits!Recent, Limits!Age, Spans
  <2>2. S \in SUBSET h
    BY DEF Current
  <2> HIDE DEF S, T
  <2>3. IsFiniteSet(T) /\ Cardinality(T) <= Cardinality(S)
    BY <1>3, <2>1, <2>2
  <2>4. IsFiniteSet(S) /\ Cardinality(S) <= w.count /\ w.count \in Nat
    BY <2>2, FS_Subset DEF S, Spans
  <2> QED
    BY <1>1, <2>3, <2>4, FS_CardinalityType DEF T
<1>6. Cardinality(Earlier(v, n)) <= limit
  <2> DEFINE S == Earlier(w, h)
             T == Earlier(v, n)
  <2>1. T \in SUBSET {<<r[1] + 1, r[2]>> : r \in S}
    BY <1>1, <1>2, Budgets DEF Earlier, Limits!Older, Limits!Recent, Limits!Age, Spans
  <2>2. S \in SUBSET h
    BY DEF Earlier
  <2> HIDE DEF S, T
  <2>3. IsFiniteSet(T) /\ Cardinality(T) <= Cardinality(S)
    BY <1>3, <2>1, <2>2
  <2>4. IsFiniteSet(S) /\ Cardinality(S) <= limit
    BY <2>2, FS_Subset DEF S, Spans
  <2> QED
    BY <2>3, <2>4, FS_CardinalityType DEF T
<1>7. \A r \in n : r[1] # 0
  BY <1>2 DEF Limits!Older, Limits!Recent
<1> QED
  BY <1>1, <1>4, <1>5, <1>6, <1>7 DEF Spans

LimitInv == Spans(requestWindow, admitted, Limit)
            /\ Spans(authFailureWindow, answered401, FailLimit)

LEMMA LimitStep == LimitInv /\ [Limits!Next]_limitVars => LimitInv'
<1> SUFFICES ASSUME LimitInv, [Limits!Next]_limitVars PROVE LimitInv'
  OBVIOUS
<1> USE Budgets DEF LimitInv
<1>1. CASE Limits!Limited
  BY <1>1, TookNothing DEF Limits!Limited
<1>2. ASSUME Limits!Admit PROVE Spans(requestWindow, admitted, Limit)'
  BY <1>2, Took DEF Limits!Admit
<1>3. CASE Limits!Serve
  BY <1>2, <1>3 DEF Limits!Serve
<1>4. CASE Limits!Unauthorized
  BY <1>2, <1>4, Took DEF Limits!Unauthorized
<1>5. CASE Limits!TooManyFailures
  BY <1>2, <1>5, TookNothing DEF Limits!TooManyFailures
<1>6. CASE Limits!Tick
  BY <1>6, Ticked DEF Limits!Tick
<1>7. CASE UNCHANGED limitVars
  BY <1>7 DEF limitVars
<1> QED
  BY <1>1, <1>3, <1>4, <1>5, <1>6, <1>7 DEF Limits!Next

LEMMA LimitStart == Init => LimitInv
<1> SUFFICES ASSUME Limits!Init PROVE LimitInv
  BY DEF Init
<1>1. IsFiniteSet({}) /\ Cardinality({}) = 0
  BY FS_EmptySet
<1>2. \A w : Current(w, {}) = {} /\ Earlier(w, {}) = {}
  BY DEF Current, Earlier
<1> QED
  BY <1>1, <1>2, Budgets DEF Limits!Init, Limits!Fresh, LimitInv, Spans, Limits!Age

-----------------------------------------------------------------------------
(* The starts of logins                                                     *)

\* The starts on the list that still count, and the starts of the last loginWindowMs, are
\* the same ones.
Living(list) == {i \in DOMAIN list : Starts!Counts(list[i])}
Ordered(list) == /\ list \in Seq(0..(LoginWindowMs + 1))
                 /\ \A i, j \in DOMAIN list : i <= j => list[i] >= list[j]
Matched(list, recent) == \E f \in Bijection(Living(list), recent) :
                            \A i \in Living(list) : f[i][1] = list[i]
Numbered(recent) ==
    /\ IsFiniteSet(recent) /\ recent \subseteq Starts!Ages \X Nat
    /\ \A r \in recent : r[1] = 0 => r[2] <= Cardinality(Starts!Now(recent))

StartsInv == /\ Ordered(loginStarts) /\ Len(loginStarts) <= LoginStartsPerWindow
             /\ Matched(loginStarts, starts) /\ Numbered(starts)

\* There are n numbers from 1 to n.
LEMMA UpToN == ASSUME NEW n \in Nat
               PROVE IsFiniteSet(1..n) /\ Cardinality(1..n) = n
<1>1. /\ IsFiniteSet(1..n)
      /\ Cardinality(1..n) = IF 1 > n THEN 0 ELSE n - 1 + 1
  BY FS_Interval
<1>2. CASE n = 0
  BY <1>1, <1>2
<1>3. CASE n >= 1
  BY <1>1, <1>3
<1> QED
  BY <1>2, <1>3

\* As the list is in order, what counts is its end.
LEMMA OldestFound ==
  ASSUME Ordered(loginStarts)
  PROVE  /\ Starts!Oldest \in 1..(Len(loginStarts) + 1)
         /\ Living(loginStarts) = Starts!Oldest..Len(loginStarts)
<1> DEFINE n == Len(loginStarts)
           Leads(v) == /\ \A i \in 1..(v - 1) : ~Starts!Counts(loginStarts[i])
                       /\ v \in DOMAIN loginStarts => Starts!Counts(loginStarts[v])
<1>1. n \in Nat /\ DOMAIN loginStarts = 1..n
  BY LenProperties DEF Ordered
<1>2. \E v \in 1..(n + 1) : Leads(v)
  <2>1. CASE Living(loginStarts) = {}
    BY <1>1, <2>1 DEF Living
  <2>2. CASE Living(loginStarts) # {}
    <3>1. Living(loginStarts) \subseteq Nat
      BY <1>1 DEF Living
    <3>2. PICK v \in Living(loginStarts) :
             \A i \in Living(loginStarts) : ~(<<i, v>> \in OpToRel(<, Nat))
      BY <2>2, <3>1, NatLessThanWellFounded, WFMin
    <3>3. \A i \in Living(loginStarts) : ~(i < v)
      BY <3>1, <3>2 DEF OpToRel
    <3> QED
      BY <1>1, <3>1, <3>3 DEF Living
  <2> QED
    BY <2>1, <2>2
<1>3. Starts!Oldest \in 1..(n + 1) /\ Leads(Starts!Oldest)
  BY <1>2 DEF Starts!Oldest
<1> DEFINE v == Starts!Oldest
<1> HIDE DEF v
<1>4. ASSUME NEW i \in v..n PROVE i \in Living(loginStarts)
  <2>1. v \in 1..n /\ i \in 1..n /\ v <= i
    BY <1>3, <1>4 DEF v
  <2>2. loginStarts[v] <= LoginWindowMs /\ loginStarts[v] >= loginStarts[i]
    BY <1>1, <1>3, <2>1 DEF Ordered, Starts!Counts, v
  <2>3. \A j \in 1..n : loginStarts[j] \in 0..(LoginWindowMs + 1)
    BY <1>1, ElementOfSeq DEF Ordered
  <2> QED
    BY <1>1, <2>1, <2>2, <2>3, Budgets DEF Living, Starts!Counts
<1>5. ASSUME NEW i \in Living(loginStarts) PROVE i \in v..n
  BY <1>1, <1>3, <1>5 DEF Living, v
<1> QED
  BY <1>3, <1>4, <1>5 DEF v

\* Shifting takes off exactly what no longer counts.
LEMMA ShiftedMatches ==
  ASSUME StartsInv
  PROVE  /\ Ordered(Starts!Shifted) /\ Len(Starts!Shifted) <= Len(loginStarts)
         /\ Living(Starts!Shifted) = 1..Len(Starts!Shifted)
         /\ Matched(Starts!Shifted, starts)
         /\ Len(Starts!Shifted) = Cardinality(starts)
<1> DEFINE n == Len(loginStarts)
           v == Starts!Oldest
           t == Starts!Shifted
<1>1. n \in Nat /\ DOMAIN loginStarts = 1..n /\ loginStarts \in Seq(0..(LoginWindowMs + 1))
  BY LenProperties DEF StartsInv, Ordered
<1>2. v \in 1..(n + 1) /\ Living(loginStarts) = v..n
  BY OldestFound DEF StartsInv
<1>3. t = SubSeq(loginStarts, v, n)
  BY DEF Starts!Shifted
<1> HIDE DEF v, t, n
<1>4. /\ t \in Seq(0..(LoginWindowMs + 1)) /\ Len(t) = n - v + 1
      /\ \A i \in 1..(n - v + 1) : t[i] = loginStarts[v + i - 1]
  <2>1. \A i \in v..n : loginStarts[i] \in 0..(LoginWindowMs + 1)
    <3>1. \A i \in 1..n : loginStarts[i] \in 0..(LoginWindowMs + 1)
      BY <1>1, ElementOfSeq DEF n
    <3>2. v..n \subseteq 1..n
      BY <1>1, <1>2
    <3> QED
      BY <3>1, <3>2
  <2>2. v \in Int /\ n \in Int
    BY <1>1, <1>2
  <2>3. /\ SubSeq(loginStarts, v, n) \in Seq(0..(LoginWindowMs + 1))
        /\ Len(SubSeq(loginStarts, v, n)) = IF v <= n THEN n - v + 1 ELSE 0
        /\ \A i \in 1..(n - v + 1) : SubSeq(loginStarts, v, n)[i] = loginStarts[v + i - 1]
    BY <2>1, <2>2, SubSeqProperties
  <2> QED
    BY <1>1, <1>2, <1>3, <2>3
<1>5. DOMAIN t = 1..Len(t)
  BY <1>4, LenProperties
<1>6. Ordered(t)
  <2>1. \A i \in 1..Len(t) : v + i - 1 \in DOMAIN loginStarts
    BY <1>1, <1>2, <1>4
  <2>2. \A i, j \in DOMAIN loginStarts : i <= j => loginStarts[i] >= loginStarts[j]
    BY DEF StartsInv, Ordered
  <2>3. ASSUME NEW i \in 1..Len(t), NEW j \in 1..Len(t), i <= j PROVE t[i] >= t[j]
    <3>1. v + i - 1 <= v + j - 1
      BY <1>2, <2>3
    <3> QED
      BY <1>4, <2>1, <2>2, <2>3, <3>1
  <2> QED
    BY <1>4, <1>5, <2>3 DEF Ordered
<1>7. \A i \in 1..Len(t) : v + i - 1 \in Living(loginStarts)
  BY <1>1, <1>2, <1>4
<1>8. Living(t) = 1..Len(t)
  BY <1>4, <1>5, <1>7 DEF Living
<1>9. PICK f \in Bijection(Living(loginStarts), starts) :
         \A i \in Living(loginStarts) : f[i][1] = loginStarts[i]
  BY DEF StartsInv, Matched
<1> DEFINE h == [i \in 1..Len(t) |-> f[v + i - 1]]
<1>10. h \in Bijection(1..Len(t), starts)
  <2>1. /\ f \in [Living(loginStarts) -> starts]
        /\ \A i, j \in Living(loginStarts) : f[i] = f[j] => i = j
        /\ \A r \in starts : \E i \in Living(loginStarts) : f[i] = r
    BY <1>9 DEF Bijection, Injection, Surjection, IsInjective
  <2>2. h \in [1..Len(t) -> starts]
    BY <1>7, <2>1
  <2>3. ASSUME NEW i \in 1..Len(t), NEW j \in 1..Len(t), h[i] = h[j] PROVE i = j
    <3>1. v + i - 1 = v + j - 1
      BY <1>7, <2>1, <2>3
    <3> QED
      BY <1>2, <3>1
  <2>4. ASSUME NEW r \in starts PROVE \E i \in 1..Len(t) : h[i] = r
    <3>1. PICK j \in Living(loginStarts) : f[j] = r
      BY <2>1
    <3>2. j - v + 1 \in 1..Len(t) /\ v + (j - v + 1) - 1 = j
      BY <1>1, <1>2, <1>4
    <3> QED
      BY <3>1, <3>2
  <2> QED
    BY <2>2, <2>3, <2>4 DEF Bijection, Injection, Surjection, IsInjective
<1>11. \A i \in 1..Len(t) : h[i][1] = t[i]
  BY <1>4, <1>7, <1>9
<1>12. Matched(t, starts)
  BY <1>8, <1>10, <1>11 DEF Matched
<1>13. Len(t) = Cardinality(starts)
  <2>1. Len(t) \in Nat
    BY <1>4, LenProperties
  <2>2. IsFiniteSet(1..Len(t)) /\ Cardinality(1..Len(t)) = Len(t)
    BY <2>1, UpToN
  <2>3. ExistsBijection(1..Len(t), starts)
    BY <1>10 DEF ExistsBijection
  <2> QED
    BY <2>2, <2>3, FS_Bijection
<1>14. Len(t) <= n
  BY <1>1, <1>2, <1>4
<1> QED
  BY <1>6, <1>8, <1>12, <1>13, <1>14 DEF t, n

LEMMA StartsStep == StartsInv /\ [Starts!Next]_startVars => StartsInv'
<1> SUFFICES ASSUME StartsInv, [Starts!Next]_startVars PROVE StartsInv'
  OBVIOUS
<1> DEFINE t == Starts!Shifted
<1>t. /\ Ordered(t) /\ Len(t) <= Len(loginStarts) /\ Living(t) = 1..Len(t)
      /\ Matched(t, starts) /\ Len(t) = Cardinality(starts)
      /\ t \in Seq(0..(LoginWindowMs + 1)) /\ DOMAIN t = 1..Len(t) /\ Len(t) \in Nat
      /\ \A i \in 1..Len(t) : t[i] \in 0..(LoginWindowMs + 1)
  BY ShiftedMatches, LenProperties, ElementOfSeq DEF Ordered
<1>n. Len(loginStarts) \in Nat /\ DOMAIN loginStarts = 1..Len(loginStarts)
  BY LenProperties DEF StartsInv, Ordered
<1>1. CASE Starts!TooMany \/ Starts!InProgress
  <2>1. loginStarts' = t /\ starts' = starts
    BY <1>1 DEF Starts!TooMany, Starts!InProgress
  <2> HIDE DEF t
  <2> QED
    BY <1>t, <1>n, <2>1, Budgets DEF StartsInv
<1>2. CASE Starts!Accepted
  <2> DEFINE e == <<0, Starts!Cardinality(Starts!Now(starts)) + 1>>
             l == Append(t, 0)
  <2>1. loginStarts' = l /\ starts' = starts \cup {e} /\ Len(t) < LoginStartsPerWindow
    BY <1>2 DEF Starts!Accepted, Starts!OneMore
  <2> HIDE DEF t
  <2>2. /\ l \in Seq(0..(LoginWindowMs + 1)) /\ Len(l) = Len(t) + 1
        /\ \A i \in 1..Len(t) : l[i] = t[i]
        /\ l[Len(t) + 1] = 0
    BY <1>t, AppendProperties, Budgets
  <2> HIDE DEF l
  <2>3. DOMAIN l = 1..(Len(t) + 1)
    BY <2>2, LenProperties
  <2>4. Ordered(l)
    BY <1>t, <2>2, <2>3 DEF Ordered
  <2>5. Living(l) = 1..(Len(t) + 1)
    BY <1>t, <2>2, <2>3, Budgets DEF Living, Starts!Counts
  <2>6. /\ IsFiniteSet(Starts!Now(starts)) /\ Cardinality(Starts!Now(starts)) \in Nat
        /\ e = <<0, Cardinality(Starts!Now(starts)) + 1>>
    <3>1. Starts!Now(starts) \in SUBSET starts
      BY DEF Starts!Now
    <3>2. IsFiniteSet(Starts!Now(starts)) /\ Cardinality(Starts!Now(starts)) \in Nat
      BY <3>1, FS_Subset, FS_CardinalityType DEF StartsInv, Numbered
    <3> QED
      BY <3>2 DEF Starts!Cardinality, Starts!IsFiniteSet, Cardinality, IsFiniteSet
  <2> HIDE DEF e
  <2>7. e \notin starts
    BY <2>6 DEF StartsInv, Numbered
  <2>8. Numbered(starts \cup {e})
    <3>1. IsFiniteSet(starts \cup {e})
      BY FS_AddElement DEF StartsInv, Numbered
    <3>2. starts \cup {e} \subseteq Starts!Ages \X Nat
      BY <2>6, Budgets DEF StartsInv, Numbered, Starts!Ages
    <3>3. Starts!Now(starts \cup {e}) = Starts!Now(starts) \cup {e} /\ e \notin Starts!Now(starts)
      BY <2>6, <2>7 DEF Starts!Now
    <3> DEFINE m == Starts!Now(starts)
    <3> HIDE DEF m
    <3>4. Cardinality(m \cup {e}) = Cardinality(m) + 1
      BY <2>6, <3>3, FS_AddElement DEF m
    <3>5. ASSUME NEW r \in starts, r[1] = 0 PROVE r[2] <= Cardinality(m) + 1
      <4>1. r[2] <= Cardinality(m) /\ r[2] \in Nat
        BY <3>5 DEF StartsInv, Numbered, m
      <4> QED
        BY <2>6, <4>1 DEF m
    <3>6. e[2] <= Cardinality(m) + 1
      BY <2>6 DEF m
    <3> QED
      BY <3>1, <3>2, <3>3, <3>4, <3>5, <3>6 DEF Numbered, m
  <2>9. Matched(l, starts \cup {e})
    <3>1. PICK f \in Bijection(1..Len(t), starts) : \A i \in 1..Len(t) : f[i][1] = t[i]
      BY <1>t DEF Matched
    <3> DEFINE h == [i \in 1..(Len(t) + 1) |-> IF i <= Len(t) THEN f[i] ELSE e]
    <3>2. /\ f \in [1..Len(t) -> starts]
          /\ \A i, j \in 1..Len(t) : f[i] = f[j] => i = j
          /\ \A r \in starts : \E i \in 1..Len(t) : f[i] = r
      BY <3>1 DEF Bijection, Injection, Surjection, IsInjective
    <3>3. /\ h \in [1..(Len(t) + 1) -> starts \cup {e}]
          /\ \A i, j \in 1..(Len(t) + 1) : h[i] = h[j] => i = j
      BY <1>t, <2>7, <3>2
    <3>4. \A r \in starts \cup {e} : \E i \in 1..(Len(t) + 1) : h[i] = r
      <4>1. h[Len(t) + 1] = e /\ Len(t) + 1 \in 1..(Len(t) + 1)
        BY <1>t
      <4>2. \A i \in 1..Len(t) : i \in 1..(Len(t) + 1) /\ h[i] = f[i]
        BY <1>t
      <4> QED
        BY <3>2, <4>1, <4>2
    <3>5. h \in Bijection(1..(Len(t) + 1), starts \cup {e})
      BY <3>3, <3>4 DEF Bijection, Injection, Surjection, IsInjective
    <3>6. \A i \in 1..(Len(t) + 1) : h[i][1] = l[i]
      BY <1>t, <2>2, <2>6, <3>1
    <3> HIDE DEF h
    <3> QED
      BY <2>5, <3>5, <3>6 DEF Matched
  <2>10. Len(l) <= LoginStartsPerWindow
    BY <1>t, <2>1, <2>2, Budgets
  <2> QED
    BY <2>1, <2>4, <2>8, <2>9, <2>10 DEF StartsInv
<1>3. CASE Starts!Tick
  <2> DEFINE n == Len(loginStarts)
             l == [i \in 1..n |-> IF Starts!Counts(loginStarts[i]) THEN loginStarts[i] + 1
                                  ELSE loginStarts[i]]
             o == Starts!Older(starts)
  <2>1. loginStarts' = l /\ starts' = o
    BY <1>n, <1>3 DEF Starts!Tick
  <2>2. \A i \in 1..n : loginStarts[i] \in 0..(LoginWindowMs + 1)
    BY <1>n, ElementOfSeq DEF StartsInv, Ordered
  <2>3. \A i \in 1..n : /\ l[i] \in 0..(LoginWindowMs + 1)
                        /\ Starts!Counts(l[i]) => /\ Starts!Counts(loginStarts[i])
                                                  /\ l[i] = loginStarts[i] + 1
    BY <2>2, Budgets DEF Starts!Counts
  <2>4. \A i \in 1..n : loginStarts[i] + 1 \in Starts!Ages => Starts!Counts(l[i])
    BY <2>2, Budgets DEF Starts!Counts, Starts!Ages
  <2>5. \A i, j \in 1..n : loginStarts[i] >= loginStarts[j] => l[i] >= l[j]
    BY <2>2, Budgets DEF Starts!Counts
  <2>6. DOMAIN l = 1..n /\ l \in Seq(0..(LoginWindowMs + 1)) /\ Len(l) = n
    <3>1. l \in [1..n -> 0..(LoginWindowMs + 1)]
      BY <2>3
    <3> HIDE DEF l, n
    <3>2. n \in Nat
      BY <1>n DEF n
    <3>3. l \in Seq(0..(LoginWindowMs + 1))
      BY <3>1, <3>2, SeqDef
    <3> QED
      BY <3>1, <3>2, <3>3, LenProperties
  <2> HIDE DEF l
  <2>7. Ordered(l)
    BY <1>n, <2>5, <2>6 DEF StartsInv, Ordered
  <2>8. Living(l) \subseteq Living(loginStarts)
    BY <1>n, <2>3, <2>6 DEF Living
  <2>9. PICK f \in Bijection(Living(loginStarts), starts) :
           \A i \in Living(loginStarts) : f[i][1] = loginStarts[i]
    BY DEF StartsInv, Matched
  <2>10. /\ f \in [Living(loginStarts) -> starts]
         /\ \A i, j \in Living(loginStarts) : f[i] = f[j] => i = j
         /\ \A r \in starts : \E i \in Living(loginStarts) : f[i] = r
    BY <2>9 DEF Bijection, Injection, Surjection, IsInjective
  <2>11. \A r \in starts : r \in Starts!Ages \X Nat /\ r = <<r[1], r[2]>>
    BY DEF StartsInv, Numbered
  <2> DEFINE h == [i \in Living(l) |-> <<f[i][1] + 1, f[i][2]>>]
  <2>12. \A i \in Living(l) : /\ f[i] \in starts /\ f[i][1] = loginStarts[i]
                              /\ f[i][1] + 1 = l[i] /\ l[i] \in Starts!Ages
    BY <2>3, <2>6, <2>8, <2>9, <2>10, Budgets DEF Living, Starts!Ages, Starts!Counts
  <2>13. h \in [Living(l) -> o]
    BY <2>12 DEF Starts!Older
  <2>14. ASSUME NEW i \in Living(l), NEW j \in Living(l), h[i] = h[j] PROVE i = j
    <3>1. f[i][1] + 1 = f[j][1] + 1 /\ f[i][2] = f[j][2]
      BY <2>14
    <3>2. f[i][1] \in Starts!Ages /\ f[j][1] \in Starts!Ages
      BY <2>11, <2>12
    <3>3. f[i][1] = f[j][1]
      BY <3>1, <3>2 DEF Starts!Ages
    <3>4. f[i] = f[j]
      BY <2>11, <2>12, <3>1, <3>3
    <3> QED
      BY <2>8, <2>10, <3>4
  <2>15. ASSUME NEW r \in o PROVE \E i \in Living(l) : h[i] = r
    <3>1. PICK q \in starts : q[1] + 1 \in Starts!Ages /\ r = <<q[1] + 1, q[2]>>
      BY DEF Starts!Older
    <3>2. PICK i \in Living(loginStarts) : f[i] = q
      BY <2>10
    <3>3. i \in 1..n /\ loginStarts[i] = q[1]
      BY <1>n, <2>9, <3>2 DEF Living
    <3>4. i \in Living(l)
      BY <2>4, <2>6, <3>1, <3>3 DEF Living
    <3> QED
      BY <3>1, <3>2, <3>4
  <2>16. h \in Bijection(Living(l), o)
    BY <2>13, <2>14, <2>15 DEF Bijection, Injection, Surjection, IsInjective
  <2>17. \A i \in Living(l) : h[i][1] = l[i]
    BY <2>12
  <2> HIDE DEF h
  <2>18. Matched(l, o)
    BY <2>16, <2>17 DEF Matched
  <2>19. Numbered(o)
    <3>1. Living(l) \in SUBSET (1..n)
      BY <2>6 DEF Living
    <3>2. IsFiniteSet(Living(l))
      <4>1. IsFiniteSet(1..n)
        BY <1>n, UpToN
      <4> QED
        BY <3>1, <4>1, FS_Subset
    <3>3. IsFiniteSet(o)
      BY <2>16, <3>2, FS_Bijection DEF ExistsBijection
    <3>4. \A r \in o : r \in Starts!Ages \X Nat /\ r[1] # 0
      BY <2>11 DEF Starts!Older, Starts!Ages
    <3> QED
      BY <3>3, <3>4 DEF Numbered
  <2>20. Len(l) <= LoginStartsPerWindow
    BY <2>6 DEF StartsInv
  <2> HIDE DEF o
  <2> QED
    BY <2>1, <2>7, <2>18, <2>19, <2>20 DEF StartsInv
<1>4. CASE UNCHANGED startVars
  BY <1>4 DEF startVars, StartsInv
<1> QED
  BY <1>1, <1>2, <1>3, <1>4 DEF Starts!Next

LEMMA StartsStart == Init => StartsInv
<1> SUFFICES ASSUME Starts!Init PROVE StartsInv
  BY DEF Init
<1>1. loginStarts = <<>> /\ starts = {}
  BY DEF Starts!Init
<1>2. IsFiniteSet({}) /\ Cardinality({}) = 0
  BY FS_EmptySet
<1>3. loginStarts \in Seq(0..(LoginWindowMs + 1)) /\ Len(loginStarts) = 0
      /\ DOMAIN loginStarts = {}
  BY <1>1, EmptySeq
<1>4. Living(loginStarts) = {}
  BY <1>3 DEF Living
<1>5. Matched(loginStarts, starts)
  <2>1. [i \in {} |-> 0] \in Bijection({}, {})
    BY DEF Bijection, Injection, Surjection, IsInjective
  <2> QED
    BY <1>1, <1>4, <2>1 DEF Matched
<1> QED
  BY <1>1, <1>2, <1>3, <1>5, Budgets DEF StartsInv, Ordered, Numbered

\* For every length of the windows and all limits: any stretch of windowMs admits at most
\* twice a budget, whichever window its requests fell in (http-app.ts:93-94, 552-583), and
\* any stretch of loginWindowMs has at most the starts of a login allowed, all of which the
\* list still holds when it decides on the next (setup-ui.ts:364-379).
THEOREM SpansAreBounded == Spec => []AnySpanBounded
<1>1. LimitInv => Limits!AnySpanBounded
  <2> SUFFICES ASSUME LimitInv PROVE Limits!AnySpanBounded
    OBVIOUS
  <2>1. Cardinality(admitted) <= 2 * Limit /\ Cardinality(answered401) <= 2 * FailLimit
    BY SpansBound, Budgets DEF LimitInv
  <2>2. \A S : Limits!Cardinality(S) = Cardinality(S)
    BY DEF Limits!Cardinality, Limits!IsFiniteSet, Cardinality, IsFiniteSet
  <2> QED
    BY <2>1, <2>2 DEF Limits!AnySpanBounded
<1>2. StartsInv => Starts!SpanHoldsStarts
  <2> SUFFICES ASSUME StartsInv PROVE Starts!SpanHoldsStarts
    OBVIOUS
  <2>1. /\ Len(Starts!Shifted) = Cardinality(starts) /\ Len(Starts!Shifted) <= Len(loginStarts)
        /\ Len(loginStarts) <= LoginStartsPerWindow
        /\ Len(loginStarts) \in Nat /\ Len(Starts!Shifted) \in Nat
    BY ShiftedMatches, LenProperties DEF StartsInv, Ordered
  <2>2. \A S : Starts!Cardinality(S) = Cardinality(S)
    BY DEF Starts!Cardinality, Starts!IsFiniteSet, Cardinality, IsFiniteSet
  <2>3. Cardinality(starts) <= LoginStartsPerWindow
    BY <2>1, Budgets
  <2> QED
    BY <2>1, <2>2, <2>3 DEF Starts!SpanHoldsStarts
<1>3. LimitInv /\ StartsInv => AnySpanBounded
  BY <1>1, <1>2 DEF AnySpanBounded
<1> QED
  BY <1>3, PartSteps, LimitStart, LimitStep, StartsStart, StartsStep, PTL DEF Spec

-----------------------------------------------------------------------------
(* The SRP handshake: arithmetic modulo d                                  *)

\* What % and \div of an integer by a positive one are.
LEMMA Division ==
  ASSUME NEW a \in Int, NEW d \in Nat \ {0}
  PROVE  /\ a % d \in 0..(d - 1) /\ a \div d \in Int
         /\ a = d * (a \div d) + (a % d)
<1>1. a % d \in 0..(d - 1)
  BY Z3
<1>2. a \div d \in Int
  BY Z3
<1>3. a = d * (a \div d) + (a % d)
  BY Z3
<1> QED
  BY <1>1, <1>2, <1>3

LEMMA UniqueRest ==
  ASSUME NEW d \in Nat \ {0}, NEW q \in Int, NEW p \in Int,
         NEW r \in 0..(d - 1), NEW s \in 0..(d - 1), d * q + r = d * p + s
  PROVE  r = s
<1>1. d * (q - p) = s - r
  OBVIOUS
<1>2. q - p > -1 /\ q - p < 1
  <2>1. CASE q - p >= 1
    <3>1. d * (q - p) >= d
      BY <2>1
    <3> QED
      BY <1>1, <3>1
  <2>2. CASE q - p <= -1
    <3>1. d * (q - p) <= -d
      BY <2>2
    <3> QED
      BY <1>1, <3>1
  <2> QED
    BY <2>1, <2>2
<1> QED
  BY <1>1, <1>2

\* The rest of d * q + r by d, and so the rules of % for sums and products.
LEMMA RestOf ==
  ASSUME NEW d \in Nat \ {0}, NEW q \in Int, NEW r \in 0..(d - 1)
  PROVE  (d * q + r) % d = r
<1>1. d * q + r \in Int
  OBVIOUS
<1>2. /\ (d * q + r) % d \in 0..(d - 1) /\ (d * q + r) \div d \in Int
      /\ d * q + r = d * ((d * q + r) \div d) + ((d * q + r) % d)
  BY <1>1, Division
<1> QED
  BY <1>2, UniqueRest

LEMMA ModAdd ==
  ASSUME NEW d \in Nat \ {0}, NEW c \in Int, NEW z \in Int
  PROVE  (d * c + z) % d = z % d
<1>1. z % d \in 0..(d - 1) /\ z \div d \in Int /\ z = d * (z \div d) + (z % d)
  BY Division
<1> DEFINE p == z \div d
           r == z % d
<1>2. p \in Int /\ r \in 0..(d - 1) /\ z = d * p + r
  BY <1>1
<1> HIDE DEF p, r
<1>3. d * c + z = d * (c + p) + r /\ c + p \in Int
  BY <1>2
<1>4. (d * (c + p) + r) % d = r
  BY <1>2, <1>3, RestOf
<1>5. (d * c + z) % d = r
  BY <1>3, <1>4
<1> QED
  BY <1>5 DEF r

LEMMA SumMod ==
  ASSUME NEW d \in Nat \ {0}, NEW a \in Int, NEW y \in Int
  PROVE  ((a % d) + y) % d = (a + y) % d
<1>1. a % d \in 0..(d - 1) /\ a \div d \in Int /\ a = d * (a \div d) + (a % d)
  BY Division
<1> DEFINE p == a \div d
           z == (a % d) + y
<1>2. p \in Int /\ z \in Int /\ a + y = d * p + z
  BY <1>1
<1> HIDE DEF p, z
<1>3. (d * p + z) % d = z % d
  BY <1>2, ModAdd
<1>4. (a + y) % d = z % d
  BY <1>2, <1>3
<1> QED
  BY <1>4 DEF z

LEMMA ModTimes ==
  ASSUME NEW d \in Nat \ {0}, NEW a \in Int, NEW y \in Int
  PROVE  ((a % d) * y) % d = (a * y) % d
<1>1. a % d \in 0..(d - 1) /\ a \div d \in Int /\ a = d * (a \div d) + (a % d)
  BY Division
<1>2. a * y = d * ((a \div d) * y) + (a % d) * y
  BY <1>1
<1>3. (a \div d) * y \in Int /\ (a % d) * y \in Int
  BY <1>1
<1> DEFINE m == (a \div d) * y
           z == (a % d) * y
<1>4. a * y = d * m + z /\ m \in Int /\ z \in Int
  BY <1>2, <1>3
<1> HIDE DEF m, z
<1>5. (d * m + z) % d = z % d
  BY <1>4, ModAdd
<1>6. (a * y) % d = z % d
  BY <1>4, <1>5
<1> QED
  BY <1>6 DEF z

\* Induction over the naturals, on a set.
LEMMA Induction ==
  ASSUME NEW T, 0 \in T, \A n \in Nat : n \in T => n + 1 \in T
  PROVE  Nat \subseteq T
<1> SUFFICES ASSUME NEW n \in Nat, n \notin T
             PROVE  FALSE
  OBVIOUS
<1> DEFINE Out == {i \in Nat : i \notin T}
<1>1. \E m \in Out : \A y \in Out : ~(<<y, m>> \in OpToRel(<, Nat))
  <2>1. IsWellFoundedOn(OpToRel(<, Nat), Nat)
    BY NatLessThanWellFounded
  <2>2. Out \subseteq Nat /\ n \in Out
    OBVIOUS
  <2> QED
    BY <2>1, <2>2, WFMin
<1>2. PICK m \in Out : \A y \in Out : ~(<<y, m>> \in OpToRel(<, Nat))
  BY <1>1
<1>3. m \in Nat /\ m # 0 /\ m - 1 \in Nat
  OBVIOUS
<1>4. m - 1 \in T
  <2>1. m - 1 < m
    BY <1>3
  <2>2. <<m - 1, m>> \in OpToRel(<, Nat)
    BY <1>3, <2>1 DEF OpToRel
  <2> QED
    BY <1>2, <1>3, <2>2
<1>5. (m - 1) + 1 \in T
  BY <1>3, <1>4
<1>6. m \in T
  BY <1>3, <1>5
<1> QED
  BY <1>2, <1>6

IsPower(f, b, n, d) ==
    f = [i \in 0..n |-> IF i = 0 THEN 1 % d ELSE (b * f[i - 1]) % d]
Power(b, n, d) == (CHOOSE f : IsPower(f, b, n, d))[n]

\* Powers modulo d: the table of the first n exists, is unique, and obeys the two laws.
LEMMA PowersExist ==
  ASSUME NEW d \in Nat \ {0}, NEW b \in Int, NEW n \in Nat
  PROVE  \E f : IsPower(f, b, n, d)
<1> DEFINE T == {m \in Nat : \E f : IsPower(f, b, m, d)}
<1>1. 0 \in T
  <2> DEFINE f == [i \in 0..0 |-> 1 % d]
  <2>1. IsPower(f, b, 0, d)
    <3>1. \A i \in 0..0 : i = 0
      OBVIOUS
    <3> QED
      BY <3>1 DEF IsPower
  <2> QED
    BY <2>1
<1>2. ASSUME NEW m \in Nat, m \in T
      PROVE  m + 1 \in T
  <2>1. PICK f : IsPower(f, b, m, d)
    BY <1>2
  <2> DEFINE h == [i \in 0..(m + 1) |-> IF i = m + 1 THEN (b * f[m]) % d ELSE f[i]]
  <2>2. ASSUME NEW i \in 0..(m + 1)
        PROVE  h[i] = IF i = 0 THEN 1 % d ELSE (b * h[i - 1]) % d
    <3>1. CASE i = m + 1
      <4>1. i # 0 /\ i - 1 = m /\ m \in 0..(m + 1) /\ m # m + 1
        BY <3>1
      <4>2. h[i] = (b * f[m]) % d /\ h[i - 1] = f[m]
        BY <3>1, <4>1
      <4> QED
        BY <4>1, <4>2
    <3>2. CASE i # m + 1
      <4>1. i \in 0..m /\ h[i] = f[i]
        BY <3>2
      <4>2. f[i] = IF i = 0 THEN 1 % d ELSE (b * f[i - 1]) % d
        BY <2>1, <4>1 DEF IsPower
      <4>3. i # 0 => i - 1 \in 0..(m + 1) /\ i - 1 # m + 1 /\ h[i - 1] = f[i - 1]
        BY <4>1
      <4> QED
        BY <4>1, <4>2, <4>3
    <3> QED
      BY <3>1, <3>2
  <2>3. h = [i \in 0..(m + 1) |-> h[i]]
    OBVIOUS
  <2> HIDE DEF h
  <2>4. IsPower(h, b, m + 1, d)
    BY <2>2, <2>3 DEF IsPower
  <2> QED
    BY <2>4
<1> HIDE DEF T
<1>3. n \in T
  BY <1>1, <1>2, Induction
<1> QED
  BY <1>3 DEF T

LEMMA PowersAgree ==
  ASSUME NEW d \in Nat \ {0}, NEW b \in Int, NEW n \in Nat, NEW m \in Nat,
         NEW f, NEW h, IsPower(f, b, n, d), IsPower(h, b, m, d),
         NEW j \in Nat, j \in 0..n, j \in 0..m
  PROVE  f[j] = h[j]
<1> DEFINE T == {i \in Nat : i \in 0..n /\ i \in 0..m => f[i] = h[i]}
<1>1. 0 \in T
  BY DEF IsPower
<1>2. ASSUME NEW i \in Nat, i \in T
      PROVE  i + 1 \in T
  <2> SUFFICES ASSUME i + 1 \in 0..n, i + 1 \in 0..m
               PROVE  f[i + 1] = h[i + 1]
    OBVIOUS
  <2>1. f[i] = h[i]
    BY <1>2
  <2>2. i + 1 # 0 /\ (i + 1) - 1 = i
    OBVIOUS
  <2>3. f[i + 1] = (b * f[i]) % d
    BY <2>2 DEF IsPower
  <2>4. h[i + 1] = (b * h[i]) % d
    BY <2>2 DEF IsPower
  <2> QED
    BY <2>1, <2>3, <2>4
<1> HIDE DEF T
<1>3. j \in T
  BY <1>1, <1>2, Induction
<1> QED
  BY <1>3 DEF T

LEMMA PowerLaw ==
  ASSUME NEW d \in Nat \ {0}, NEW b \in Int, NEW n \in Nat
  PROVE  /\ Power(b, 0, d) = 1 % d
         /\ Power(b, n + 1, d) = (b * Power(b, n, d)) % d
<1> DEFINE P(m) == CHOOSE f : IsPower(f, b, m, d)
<1>1. ASSUME NEW m \in Nat
      PROVE  IsPower(P(m), b, m, d) /\ Power(b, m, d) = P(m)[m]
  BY PowersExist DEF Power
<1> HIDE DEF P
<1>2. Power(b, 0, d) = 1 % d
  BY <1>1 DEF IsPower
<1>3. P(n + 1)[n + 1] = (b * P(n + 1)[n]) % d
  <2>1. n + 1 \in Nat /\ n + 1 \in 0..(n + 1) /\ n + 1 # 0 /\ (n + 1) - 1 = n
    OBVIOUS
  <2>2. IsPower(P(n + 1), b, n + 1, d)
    BY <1>1, <2>1
  <2> QED
    BY <2>1, <2>2 DEF IsPower
<1>4. P(n + 1)[n] = P(n)[n]
  <2>1. n + 1 \in Nat /\ n \in 0..n /\ n \in 0..(n + 1)
    OBVIOUS
  <2>2. IsPower(P(n + 1), b, n + 1, d) /\ IsPower(P(n), b, n, d)
    BY <1>1, <2>1
  <2> QED
    BY <2>1, <2>2, PowersAgree
<1>5. Power(b, n + 1, d) = P(n + 1)[n + 1] /\ Power(b, n, d) = P(n)[n]
  BY <1>1
<1> QED
  BY <1>2, <1>3, <1>4, <1>5

LEMMA PowerRange ==
  ASSUME NEW d \in Nat \ {0}, NEW b \in Int, NEW n \in Nat
  PROVE  Power(b, n, d) \in 0..(d - 1)
<1> DEFINE T == {m \in Nat : Power(b, m, d) \in 0..(d - 1)}
<1>1. 0 \in T
  <2>1. Power(b, 0, d) = 1 % d
    BY PowerLaw
  <2>2. 1 % d \in 0..(d - 1)
    BY Division
  <2> QED
    BY <2>1, <2>2
<1>2. ASSUME NEW m \in Nat, m \in T
      PROVE  m + 1 \in T
  <2> DEFINE p == Power(b, m, d)
  <2>1. p \in Int
    BY <1>2
  <2>2. Power(b, m + 1, d) = (b * p) % d
    BY PowerLaw
  <2> HIDE DEF p
  <2>3. (b * p) % d \in 0..(d - 1)
    BY <2>1, Division
  <2> QED
    BY <2>2, <2>3
<1> HIDE DEF T
<1>3. n \in T
  BY <1>1, <1>2, Induction
<1> QED
  BY <1>3 DEF T

LEMMA ModTimesRight ==
  ASSUME NEW d \in Nat \ {0}, NEW a \in Int, NEW y \in Int
  PROVE  (y * (a % d)) % d = (y * a) % d
<1>1. ((a % d) * y) % d = (a * y) % d
  BY ModTimes
<1>2. a % d \in Int
  BY Division
<1> DEFINE r == a % d
<1>3. r \in Int
  BY <1>2
<1> HIDE DEF r
<1>4. y * r = r * y /\ y * a = a * y
  BY <1>3
<1>5. y * (a % d) = (a % d) * y
  BY <1>4 DEF r
<1> QED
  BY <1>1, <1>4, <1>5

LEMMA One ==
  ASSUME NEW d \in Nat \ {0}
  PROVE  \A y \in Int : (y * (1 % d)) % d = (y * 1) % d
<1> SUFFICES ASSUME NEW y \in Int
             PROVE  (y * (1 % d)) % d = (y * 1) % d
  OBVIOUS
<1> DEFINE a == 1
<1>1. a \in Int
  OBVIOUS
<1> HIDE DEF a
<1>2. (y * (a % d)) % d = (y * a) % d
  BY <1>1, ModTimesRight
<1> QED
  BY <1>2 DEF a

LEMMA ModOfRest ==
  ASSUME NEW d \in Nat \ {0}, NEW r \in 0..(d - 1)
  PROVE  r % d = r
<1>1. d * 0 + r = r
  OBVIOUS
<1>2. (d * 0 + r) % d = r
  BY RestOf
<1> QED
  BY <1>1, <1>2

\* The laws of powers.
LEMMA PowerReduces ==
  ASSUME NEW d \in Nat \ {0}, NEW b \in Int, NEW n \in Nat
  PROVE  Power(b % d, n, d) = Power(b, n, d)
<1> DEFINE T == {m \in Nat : Power(b % d, m, d) = Power(b, m, d)}
<1>0. b % d \in Int
  BY Division
<1>1. 0 \in T
  BY <1>0, PowerLaw
<1>2. ASSUME NEW m \in Nat, m \in T
      PROVE  m + 1 \in T
  <2>1. Power(b % d, m + 1, d) = ((b % d) * Power(b, m, d)) % d
    BY <1>0, <1>2, PowerLaw
  <2>2. Power(b, m, d) \in Int
    BY PowerRange
  <2>3. ((b % d) * Power(b, m, d)) % d = (b * Power(b, m, d)) % d
    BY <2>2, ModTimes
  <2>4. Power(b, m + 1, d) = (b * Power(b, m, d)) % d
    BY PowerLaw
  <2>5. Power(b % d, m + 1, d) = Power(b, m + 1, d)
    BY <2>1, <2>3, <2>4
  <2> QED
    BY <2>5
<1> HIDE DEF T
<1>3. n \in T
  BY <1>1, <1>2, Induction
<1> QED
  BY <1>3 DEF T

LEMMA PowerSum ==
  ASSUME NEW d \in Nat \ {0}, NEW b \in Int, NEW m \in Nat, NEW n \in Nat
  PROVE  (Power(b, m, d) * Power(b, n, d)) % d = Power(b, m + n, d)
<1> DEFINE T == {i \in Nat : (Power(b, m, d) * Power(b, i, d)) % d = Power(b, m + i, d)}
           p == Power(b, m, d)
<1>0. p \in 0..(d - 1) /\ p \in Int
  <2>1. p \in 0..(d - 1)
    BY PowerRange
  <2> QED
    BY <2>1
<1>1. 0 \in T
  <2>1. Power(b, 0, d) = 1 % d /\ m + 0 = m
    BY PowerLaw
  <2>2. (p * (1 % d)) % d = p
    <3> HIDE DEF p
    <3>1. (p * (1 % d)) % d = (p * 1) % d
      BY <1>0, One
    <3>2. p * 1 = p /\ p % d = p
      BY <1>0, ModOfRest
    <3> QED
      BY <3>1, <3>2
  <2>3. (Power(b, m, d) * Power(b, 0, d)) % d = Power(b, m + 0, d)
    BY <2>1, <2>2
  <2> QED
    BY <2>3
<1>2. ASSUME NEW i \in Nat, i \in T
      PROVE  i + 1 \in T
  <2> DEFINE q == Power(b, i, d)
  <2>1. q \in Int /\ (p * q) % d = Power(b, m + i, d)
    <3>1. (p * q) % d = Power(b, m + i, d)
      BY <1>2
    <3>2. q \in 0..(d - 1)
      BY PowerRange
    <3> QED
      BY <3>1, <3>2
  <2>2. Power(b, i + 1, d) = (b * q) % d
    BY PowerLaw
  <2>3. Power(b, m + (i + 1), d) = (b * ((p * q) % d)) % d
    <3>1. m + i \in Nat /\ (m + i) + 1 = m + (i + 1)
      OBVIOUS
    <3>2. Power(b, (m + i) + 1, d) = (b * Power(b, m + i, d)) % d
      BY <3>1, PowerLaw
    <3> QED
      BY <2>1, <3>1, <3>2
  <2>4. (p * ((b * q) % d)) % d = (b * ((p * q) % d)) % d
    <3> HIDE DEF p, q
    <3>1. b * q \in Int /\ p * q \in Int /\ p * (b * q) = b * (p * q)
      BY <1>0, <2>1
    <3>2. (p * ((b * q) % d)) % d = (p * (b * q)) % d
      BY <1>0, <3>1, ModTimesRight
    <3>3. (b * ((p * q) % d)) % d = (b * (p * q)) % d
      BY <3>1, ModTimesRight
    <3> QED
      BY <3>1, <3>2, <3>3
  <2>5. (Power(b, m, d) * Power(b, i + 1, d)) % d = Power(b, m + (i + 1), d)
    BY <2>2, <2>3, <2>4
  <2> QED
    BY <2>5
<1> HIDE DEF T
<1>3. n \in T
  BY <1>1, <1>2, Induction
<1> QED
  BY <1>3 DEF T

LEMMA PowerPower ==
  ASSUME NEW d \in Nat \ {0}, NEW b \in Int, NEW m \in Nat, NEW n \in Nat
  PROVE  Power(Power(b, m, d), n, d) = Power(b, m * n, d)
<1> DEFINE p == Power(b, m, d)
<1>0. p \in Int
  BY PowerRange
<1>a. \A i \in Nat : (p * Power(b, m * i, d)) % d = Power(b, m + m * i, d)
  <2> SUFFICES ASSUME NEW i \in Nat
               PROVE  (p * Power(b, m * i, d)) % d = Power(b, m + m * i, d)
    OBVIOUS
  <2> DEFINE z == m * i
  <2>1. z \in Nat
    OBVIOUS
  <2>2. (p * Power(b, z, d)) % d = Power(b, m + z, d)
    <3> HIDE DEF z
    <3> QED
      BY <2>1, PowerSum
  <2> QED
    BY <2>2
<1> HIDE DEF p
<1> DEFINE T == {i \in Nat : Power(p, i, d) = Power(b, m * i, d)}
<1>1. 0 \in T
  <2>1. Power(p, 0, d) = 1 % d
    BY <1>0, PowerLaw
  <2>2. Power(b, 0, d) = 1 % d
    BY PowerLaw
  <2>3. m * 0 = 0
    OBVIOUS
  <2> QED
    BY <2>1, <2>2, <2>3
<1>2. ASSUME NEW i \in Nat, i \in T
      PROVE  i + 1 \in T
  <2>1. m * (i + 1) = m + m * i
    OBVIOUS
  <2>2. (p * Power(b, m * i, d)) % d = Power(b, m + m * i, d)
    BY <1>a
  <2>3. Power(p, i + 1, d) = (p * Power(p, i, d)) % d
    BY <1>0, PowerLaw
  <2>4. Power(p, i, d) = Power(b, m * i, d)
    BY <1>2
  <2>5. Power(p, i + 1, d) = Power(b, m * (i + 1), d)
    BY <2>1, <2>2, <2>3, <2>4
  <2> QED
    BY <2>5
<1> HIDE DEF T
<1>3. n \in T
  BY <1>1, <1>2, Induction
<1>4. Power(p, n, d) = Power(b, m * n, d)
  BY <1>3 DEF T
<1> QED
  BY <1>4 DEF p

LEMMA PowerTwice ==
  ASSUME NEW d \in Nat \ {0}, NEW b \in Int, NEW q \in Nat
  PROVE  Power((b * b) % d, q, d) = Power(b, 2 * q, d)
<1>1. Power(b, 0, d) = 1 % d /\ Power(b, 1, d) = (b * (1 % d)) % d
  <2>1. 0 + 1 = 1
    OBVIOUS
  <2> QED
    BY ZenonT(60), <2>1, PowerLaw
<1>2. Power(b, 1, d) = b % d
  <2>1. (b * (1 % d)) % d = (b * 1) % d
    BY One
  <2> QED
    BY <1>1, <2>1
<1>3. Power(b, 2, d) = (b * b) % d
  <2>1. 1 + 1 = 2
    OBVIOUS
  <2>2. Power(b, 2, d) = (b * Power(b, 1, d)) % d
    BY <2>1, PowerLaw
  <2>3. (b * (b % d)) % d = (b * b) % d
    BY ModTimesRight
  <2> QED
    BY <1>2, <2>2, <2>3
<1>4. Power(Power(b, 2, d), q, d) = Power(b, 2 * q, d)
  <2> DEFINE two == 2
  <2>1. two \in Nat
    OBVIOUS
  <2> HIDE DEF two
  <2>2. Power(Power(b, two, d), q, d) = Power(b, two * q, d)
    BY <2>1, PowerPower
  <2> QED
    BY <2>2 DEF two
<1> QED
  BY <1>3, <1>4

HalfIs ==
    \A n \in Nat : n \div 2 \in Nat /\ n % 2 \in {0, 1} /\ n = 2 * (n \div 2) + (n % 2)

LEMMA Halves == HalfIs
<1> SUFFICES ASSUME NEW n \in Nat
             PROVE  n \div 2 \in Nat /\ n % 2 \in {0, 1} /\ n = 2 * (n \div 2) + (n % 2)
  BY DEF HalfIs
<1> QED
  BY Z3

\* JavaScript's remainder stays in the range its loop is defined on.
LEMMA RemRange ==
  ASSUME NEW d \in Nat \ {0}, NEW z \in Int
  PROVE  Handshake!Rem(z, d) \in (1 - d)..(d - 1)
<1>1. z % d \in 0..(d - 1)
  BY Division
<1>2. (-z) % d \in 0..(d - 1)
  <2> DEFINE w == -z
  <2>1. w \in Int
    OBVIOUS
  <2> HIDE DEF w
  <2>2. w % d \in 0..(d - 1)
    BY <2>1, Division
  <2> QED
    BY <2>2 DEF w
<1>3. CASE z < 0
  <2> DEFINE r == (-z) % d
  <2>1. r \in 0..(d - 1) /\ Handshake!Rem(z, d) = -r
    BY <1>2, <1>3 DEF Handshake!Rem
  <2> HIDE DEF r
  <2> QED
    BY <2>1
<1>4. CASE ~(z < 0)
  <2>1. Handshake!Rem(z, d) = z % d
    BY <1>4 DEF Handshake!Rem
  <2> DEFINE r == z % d
  <2>2. r \in 0..(d - 1) /\ Handshake!Rem(z, d) = r
    BY <2>1, <1>1
  <2> HIDE DEF r
  <2> QED
    BY <2>2
<1> QED
  BY <1>3, <1>4

\* The loop of modPow ends: it is defined for every exponent up to a bound.
LEMMA LoopsExist ==
  ASSUME NEW d \in Nat \ {0}, NEW n \in Nat
  PROVE  LET R == (1 - d)..(d - 1)
         IN  \E f : f = [s \in [e : 0..n, b : R, result : R] |->
               IF s.e = 0 THEN s.result
               ELSE f[[e |-> s.e \div 2, b |-> Handshake!Rem(s.b * s.b, d),
                       result |-> IF s.e % 2 = 1 THEN Handshake!Rem(s.result * s.b, d)
                                  ELSE s.result]]]
<1> DEFINE R == (1 - d)..(d - 1)
           D(m) == [e : 0..m, b : R, result : R]
           Then(s) == [e |-> s.e \div 2, b |-> Handshake!Rem(s.b * s.b, d),
                       result |-> IF s.e % 2 = 1 THEN Handshake!Rem(s.result * s.b, d)
                                  ELSE s.result]
           Is(f, m) == f = [s \in D(m) |-> IF s.e = 0 THEN s.result ELSE f[Then(s)]]
           T == {m \in Nat : \E f : Is(f, m)}
<1>0. ASSUME NEW m \in Nat, NEW s \in D(m), s.e # 0
      PROVE  Then(s).e = s.e \div 2 /\ \A j \in Nat : s.e <= j + 1 => Then(s) \in D(j)
  <2>1. s.e \in 0..m /\ s.b \in R /\ s.result \in R
    OBVIOUS
  <2>2. s.b * s.b \in Int /\ s.result * s.b \in Int
    BY <2>1
  <2>3. Handshake!Rem(s.b * s.b, d) \in R /\ Handshake!Rem(s.result * s.b, d) \in R
    BY <2>2, RemRange
  <2>4. s.e \div 2 \in Nat /\ s.e % 2 \in {0, 1} /\ s.e = 2 * (s.e \div 2) + (s.e % 2)
    BY <2>1, Halves DEF HalfIs
  <2>5. \A j \in Nat : s.e <= j + 1 => s.e \div 2 \in 0..j
    BY <2>1, <2>4, <1>0
  <2>6. (IF s.e % 2 = 1 THEN Handshake!Rem(s.result * s.b, d) ELSE s.result) \in R
    BY <2>1, <2>3
  <2> HIDE DEF R
  <2> QED
    BY <2>3, <2>5, <2>6
<1>1. 0 \in T
  <2> DEFINE f == [s \in D(0) |-> s.result]
  <2>1. \A s \in D(0) : s.e = 0
    OBVIOUS
  <2>2. Is(f, 0)
    BY <2>1
  <2> HIDE DEF f
  <2> QED
    BY <2>2
<1>2. ASSUME NEW m \in Nat, m \in T
      PROVE  m + 1 \in T
  <2>1. PICK f : Is(f, m)
    BY <1>2
  <2> DEFINE h == [s \in D(m + 1) |-> IF s.e = m + 1 THEN f[Then(s)] ELSE f[s]]
  <2>2. ASSUME NEW s \in D(m + 1)
        PROVE  h[s] = IF s.e = 0 THEN s.result ELSE h[Then(s)]
    <3>1. s.e \in 0..(m + 1) /\ s.b \in R /\ s.result \in R
      OBVIOUS
    <3>2. s.e # 0 => Then(s) \in D(m)
      BY <3>1, <1>0
    <3>3. ASSUME NEW q \in D(m)
          PROVE  q \in D(m + 1) /\ q.e # m + 1 /\ h[q] = f[q]
      OBVIOUS
    <3>4. CASE s.e = m + 1
      <4>1. s.e # 0
        BY <3>4
      <4>2. h[s] = f[Then(s)]
        BY <3>4
      <4> QED
        BY <4>1, <4>2, <3>2, <3>3
    <3>5. CASE s.e # m + 1
      <4>1. s \in D(m)
        BY <3>1, <3>5
      <4>2. f[s] = IF s.e = 0 THEN s.result ELSE f[Then(s)]
        BY <2>1, <4>1
      <4> QED
        BY <4>1, <4>2, <3>2, <3>3
    <3> QED
      BY <3>4, <3>5
  <2>3. h = [s \in D(m + 1) |-> h[s]]
    OBVIOUS
  <2> HIDE DEF h
  <2>4. Is(h, m + 1)
    BY <2>2, <2>3
  <2> HIDE DEF Is
  <2>5. m + 1 \in Nat /\ \E q : Is(q, m + 1)
    BY <2>4
  <2> QED
    BY <2>5
<1> HIDE DEF T
<1>3. n \in T
  BY <1>1, <1>2, Induction
<1>4. \E f : Is(f, n)
  BY <1>3 DEF T
<1> QED
  BY <1>4

\* Square and multiply computes powers, of a base that is already reduced
\* (srp.ts:54-62); result * b^e does not change along the loop.
LEMMA SquaresAndMultiplies ==
  ASSUME NEW d \in Nat \ {0, 1}, NEW base \in 0..(d - 1), NEW exp \in Nat
  PROVE  Handshake!SquareMultiply(base, exp, d) = Power(base, exp, d)
<1> DEFINE R == (1 - d)..(d - 1)
           D == [e : 0..exp, b : R, result : R]
           Then(s) == [e |-> s.e \div 2, b |-> Handshake!Rem(s.b * s.b, d),
                       result |-> IF s.e % 2 = 1 THEN Handshake!Rem(s.result * s.b, d)
                                  ELSE s.result]
           Body(f) == [s \in D |-> IF s.e = 0 THEN s.result ELSE f[Then(s)]]
           loop == CHOOSE f : f = Body(f)
<1>1. loop = Body(loop)
  <2>1. \E f : f = Body(f)
    BY LoopsExist
  <2> HIDE DEF Body
  <2> QED
    BY <2>1
<1>2. Handshake!SquareMultiply(base, exp, d) =
          loop[[e |-> exp, b |-> base, result |-> Handshake!Rem(1, d)]]
  BY Zenon DEF Handshake!SquareMultiply
<1> DEFINE First == [e |-> exp, b |-> base, result |-> Handshake!Rem(1, d)]
           Good(s) == s.b \in 0..(d - 1) /\ s.result \in 0..(d - 1)
           T == {n \in Nat : \A s \in D : s.e <= n /\ Good(s) =>
                   loop[s] = (s.result * Power(s.b, s.e, d)) % d}
<1> HIDE DEF loop
<1>3. ASSUME NEW s \in D, s.e = 0, Good(s)
      PROVE  loop[s] = (s.result * Power(s.b, s.e, d)) % d
  <2>1. loop[s] = s.result
    BY <1>1, <1>3
  <2> DEFINE r == s.result
             b == s.b
  <2>2. r \in 0..(d - 1) /\ r \in Int /\ b \in Int
    BY <1>3
  <2> HIDE DEF r, b
  <2>3. Power(b, 0, d) = 1 % d
    BY <2>2, PowerLaw
  <2>4. (r * (1 % d)) % d = (r * 1) % d
    BY <2>2, One
  <2>5. r % d = r
    BY <2>2, ModOfRest
  <2>6. r * 1 = r
    BY <2>2
  <2>7. r = (r * Power(b, 0, d)) % d
    BY <2>3, <2>4, <2>5, <2>6
  <2> QED
    BY <2>1, <2>7, <1>3 DEF r, b
<1>4. 0 \in T
  BY <1>3
<1>5. ASSUME NEW n \in Nat, n \in T
      PROVE  n + 1 \in T
  <2> SUFFICES ASSUME NEW s \in D, s.e = n + 1, Good(s)
               PROVE  loop[s] = (s.result * Power(s.b, s.e, d)) % d
    BY <1>5
  <2> DEFINE e == s.e
             b == s.b
             r == s.result
             q == e \div 2
             p == Power(b, 2 * q, d)
  <2>1. e \in Nat /\ e # 0 /\ b \in 0..(d - 1) /\ r \in 0..(d - 1) /\ e = n + 1 /\ e <= exp
    OBVIOUS
  <2>2. loop[s] = loop[Then(s)]
    <3> HIDE DEF Then, D
    <3> QED
      BY <1>1, <2>1
  <2>3. q \in Nat /\ e % 2 \in {0, 1} /\ e = 2 * q + (e % 2) /\ q <= n
    <3>1. q \in Nat /\ e % 2 \in {0, 1} /\ e = 2 * q + (e % 2)
      BY <2>1, Halves DEF HalfIs
    <3> HIDE DEF e, q
    <3> QED
      BY <3>1, <2>1
  <2>4. Handshake!Rem(b * b, d) = (b * b) % d /\ (b * b) % d \in 0..(d - 1)
    <3> HIDE DEF b
    <3> DEFINE z == b * b
    <3>1. z \in Int /\ ~(z < 0)
      BY <2>1
    <3> HIDE DEF z
    <3>2. Handshake!Rem(z, d) = z % d /\ z % d \in 0..(d - 1)
      BY <3>1, Division DEF Handshake!Rem
    <3> QED
      BY <3>2 DEF z
  <2>5. Handshake!Rem(r * b, d) = (r * b) % d /\ (r * b) % d \in 0..(d - 1)
    <3> HIDE DEF b, r
    <3> DEFINE z == r * b
    <3>1. z \in Int /\ ~(z < 0)
      BY <2>1
    <3> HIDE DEF z
    <3>2. Handshake!Rem(z, d) = z % d /\ z % d \in 0..(d - 1)
      BY <3>1, Division DEF Handshake!Rem
    <3> QED
      BY <3>2 DEF z
  <2>6. p \in Int /\ Power((b * b) % d, q, d) = p /\ Power(b, 2 * q + 1, d) = (b * p) % d
    <3> HIDE DEF b, q
    <3>1. b \in Int /\ 2 * q \in Nat
      BY <2>1, <2>3
    <3> DEFINE n2 == 2 * q
    <3>2. n2 \in Nat
      BY <3>1
    <3>3. Power((b * b) % d, q, d) = Power(b, 2 * q, d)
      BY <3>1, <2>3, PowerTwice
    <3> HIDE DEF n2
    <3>4. Power(b, n2, d) \in 0..(d - 1)
      BY <3>1, <3>2, PowerRange
    <3>5. Power(b, n2 + 1, d) = (b * Power(b, n2, d)) % d
      BY <3>1, <3>2, PowerLaw
    <3>6. Power(b, n2, d) \in Int
      BY <3>4
    <3> QED
      BY <3>3, <3>5, <3>6 DEF n2
  <2> DEFINE t == Then(s)
  <2>7. t \in D /\ t.e = q /\ t.b = (b * b) % d
        /\ t.result = (IF e % 2 = 1 THEN (r * b) % d ELSE r) /\ Good(t)
    <3>1. t.e = q /\ t.b = (b * b) % d
          /\ t.result = (IF e % 2 = 1 THEN (r * b) % d ELSE r)
      BY <2>4, <2>5
    <3>2. t.e \in 0..exp
      <4> HIDE DEF e, q, t
      <4> QED
        BY <3>1, <2>1, <2>3
    <3>3. t.b \in 0..(d - 1) /\ t.result \in 0..(d - 1)
      <4> HIDE DEF e, b, r, t
      <4> QED
        BY <3>1, <2>1, <2>4, <2>5
    <3>4. t = [e |-> t.e, b |-> t.b, result |-> t.result]
      OBVIOUS
    <3>5. \A i \in 0..(d - 1) : i \in R
      OBVIOUS
    <3> HIDE DEF t, R
    <3> QED
      BY <3>1, <3>2, <3>3, <3>4, <3>5
  <2>8. loop[t] = (t.result * Power(t.b, t.e, d)) % d
    <3> HIDE DEF t, Good, D
    <3> QED
      BY <1>5, <2>3, <2>7
  <2>9. loop[s] = (t.result * p) % d
    <3> HIDE DEF t, p, b, q
    <3> QED
      BY <2>2, <2>6, <2>7, <2>8 DEF t
  <2>10. CASE e % 2 = 1
    <3>1. loop[s] = (((r * b) % d) * p) % d
      <4> HIDE DEF t, p, b, q, r, e
      <4> QED
        BY <2>9, <2>7, <2>10
    <3>2. (((r * b) % d) * p) % d = (r * ((b * p) % d)) % d
      <4> HIDE DEF p, b, r
      <4>1. r * b \in Int /\ b * p \in Int /\ (r * b) * p = r * (b * p) /\ r \in Int
        BY <2>1, <2>6
      <4>2. (((r * b) % d) * p) % d = ((r * b) * p) % d
        BY <4>1, <2>6, ModTimes
      <4>3. (r * ((b * p) % d)) % d = (r * (b * p)) % d
        BY <4>1, ModTimesRight
      <4> QED
        BY <4>1, <4>2, <4>3
    <3>3. (b * p) % d = Power(b, e, d)
      <4> HIDE DEF p, b, q, e
      <4>1. 2 * q + 1 = e
        BY <2>3, <2>10
      <4> QED
        BY <2>6, <4>1
    <3> QED
      BY <3>1, <3>2, <3>3
  <2>11. CASE e % 2 = 0
    <3>1. 2 * q = e
      <4> HIDE DEF q, e
      <4> QED
        BY <2>3, <2>11
    <3>2. loop[s] = (r * p) % d
      <4>1. e % 2 # 1
        BY <2>11
      <4> HIDE DEF t, p, b, q, r, e
      <4> QED
        BY <2>9, <2>7, <4>1
    <3> QED
      BY <3>1, <3>2
  <2> QED
    BY <2>3, <2>10, <2>11
<1> HIDE DEF T
<1>6. exp \in T
  BY <1>4, <1>5, Induction
<1>7. Handshake!Rem(1, d) = 1 % d /\ 1 % d \in 0..(d - 1)
  BY Division DEF Handshake!Rem
<1>8. First \in D /\ First.e <= exp /\ Good(First)
  BY <1>7
<1>9. loop[First] = (First.result * Power(First.b, First.e, d)) % d
  <2> HIDE DEF First, Good, D
  <2> QED
    BY <1>6, <1>8 DEF T
<1>10. loop[First] = ((1 % d) * Power(base, exp, d)) % d
  BY <1>9, <1>7
<1>11. ((1 % d) * Power(base, exp, d)) % d = Power(base, exp, d)
  <2> DEFINE p == Power(base, exp, d)
             one == 1
  <2>1. p \in 0..(d - 1) /\ p \in Int /\ one \in Int
    <3>1. base \in Int
      OBVIOUS
    <3>2. p \in 0..(d - 1)
      BY <3>1, PowerRange
    <3> QED
      BY <3>2
  <2>2. one * p = p
    <3> HIDE DEF p
    <3> QED
      BY <2>1
  <2> HIDE DEF p, one
  <2>3. ((one % d) * p) % d = (one * p) % d /\ p % d = p
    BY <2>1, ModTimes, ModOfRest
  <2> QED
    BY <2>2, <2>3 DEF p, one
<1> QED
  BY <1>2, <1>10, <1>11

\* modPow computes powers, of negative bases too (srp.ts:51-63).
LEMMA ModPows ==
  ASSUME Handshake!SrpAssumption, NEW b \in Int, NEW e \in Nat
  PROVE  Handshake!ModPow(b, e, N) = Power(b, e, N)
<1>1. N \in Nat \ {0, 1} /\ N \in Nat \ {0} /\ N # 1
  BY DEF Handshake!SrpAssumption
<1> DEFINE c == Handshake!Rem(Handshake!Rem(b, N) + N, N)
<1>2. c = b % N
  <2>1. CASE b < 0
    <3> DEFINE w == -b
               r == w % N
    <3>1. w \in Int /\ r \in 0..(N - 1) /\ r \in Int
      <4>1. w \in Int
        OBVIOUS
      <4> HIDE DEF w
      <4>2. r \in 0..(N - 1)
        BY <1>1, <4>1, Division
      <4> QED
        BY <1>1, <4>1, <4>2
    <3>2. Handshake!Rem(b, N) = -r
      BY <2>1 DEF Handshake!Rem
    <3>3. w = N * (w \div N) + r /\ w \div N \in Int
      <4> HIDE DEF w
      <4> QED
        BY <1>1, <3>1, Division
    <3> DEFINE p == w \div N
    <3>4. w = N * p + r /\ p \in Int /\ b = -w
      BY <3>3, <3>1
    <3> HIDE DEF p, r, w
    <3> DEFINE z == (-r) + N
    <3>5. z \in Int /\ ~(z < 0) /\ c = Handshake!Rem(z, N)
      BY <1>1, <3>1, <3>2
    <3>6. z = N * (p + 1) + b /\ p + 1 \in Int
      BY <1>1, <3>1, <3>4
    <3> HIDE DEF z, c
    <3>7. c = z % N
      BY <3>5 DEF Handshake!Rem
    <3> DEFINE m == p + 1
    <3>8. m \in Int /\ z = N * m + b
      BY <3>6
    <3> HIDE DEF m
    <3>9. (N * m + b) % N = b % N
      BY <1>1, <3>8, ModAdd
    <3> QED
      BY <3>7, <3>8, <3>9
  <2>2. CASE ~(b < 0)
    <3> DEFINE r == b % N
    <3>1. r \in 0..(N - 1) /\ r \in Int
      <4>1. r \in 0..(N - 1)
        BY <1>1, Division
      <4> QED
        BY <1>1, <4>1
    <3>2. Handshake!Rem(b, N) = r
      BY <2>2 DEF Handshake!Rem
    <3> HIDE DEF r
    <3> DEFINE z == r + N
    <3>3. z \in Int /\ ~(z < 0) /\ z = N * 1 + r /\ c = Handshake!Rem(z, N)
      BY <1>1, <3>1, <3>2
    <3> HIDE DEF z, c
    <3>4. c = z % N
      BY <3>3 DEF Handshake!Rem
    <3>5. (N * 1 + r) % N = r
      <4> DEFINE m == 1
      <4>1. m \in Int
        OBVIOUS
      <4> HIDE DEF m
      <4>2. (N * m + r) % N = r
        BY <1>1, <3>1, <4>1, RestOf
      <4> QED
        BY <4>2 DEF m
    <3> QED
      BY <3>3, <3>4, <3>5 DEF r
  <2> QED
    BY <2>1, <2>2
<1>3. c \in 0..(N - 1)
  BY <1>1, <1>2, Division
<1>4. Handshake!ModPow(b, e, N) = Handshake!SquareMultiply(c, e, N)
  BY <1>1 DEF Handshake!ModPow
<1> HIDE DEF c
<1>5. Handshake!SquareMultiply(c, e, N) = Power(c, e, N)
  BY <1>1, <1>3, SquaresAndMultiplies
<1>6. Power(b % N, e, N) = Power(b, e, N)
  BY <1>1, PowerReduces
<1> QED
  BY <1>2, <1>4, <1>5, <1>6

\* So does the definition on MitID's side.
LEMMA Pows ==
  ASSUME Handshake!SrpAssumption, NEW b \in Int, NEW e \in Handshake!Hash
  PROVE  Handshake!Pow(b, e) = Power(b, e, N)
<1>1. N \in Nat \ {0} /\ MaxExponent \in Nat /\ e \in Nat
  BY DEF Handshake!SrpAssumption, Handshake!Hash
<1> DEFINE Body(f) == [i \in Handshake!Hash |-> IF i = 0 THEN 1 % N ELSE (b * f[i - 1]) % N]
           power == CHOOSE f : f = Body(f)
<1>2. Handshake!Pow(b, e) = power[e]
  BY Zenon DEF Handshake!Pow
<1>3. power = Body(power)
  <2>1. \E f : f = Body(f)
    <3>1. \E f : IsPower(f, b, MaxExponent, N)
      BY <1>1, PowersExist
    <3> QED
      BY <3>1 DEF IsPower, Handshake!Hash
  <2> HIDE DEF Body
  <2> QED
    BY <2>1
<1> HIDE DEF power
<1> DEFINE T == {i \in Nat : i \in Handshake!Hash => power[i] = Power(b, i, N)}
<1>4. 0 \in T
  <2>1. 0 \in Handshake!Hash /\ power[0] = 1 % N
    BY <1>1, <1>3 DEF Handshake!Hash
  <2>2. Power(b, 0, N) = 1 % N
    BY <1>1, PowerLaw
  <2> QED
    BY <2>1, <2>2
<1>5. ASSUME NEW n \in Nat, n \in T
      PROVE  n + 1 \in T
  <2> SUFFICES ASSUME n + 1 \in Handshake!Hash
               PROVE  power[n + 1] = Power(b, n + 1, N)
    OBVIOUS
  <2>1. n \in Handshake!Hash /\ n + 1 # 0 /\ (n + 1) - 1 = n
    BY <1>1 DEF Handshake!Hash
  <2>2. power[n + 1] = (b * power[n]) % N
    BY <1>3, <2>1
  <2>3. power[n] = Power(b, n, N)
    BY <1>5, <2>1
  <2>4. Power(b, n + 1, N) = (b * Power(b, n, N)) % N
    BY <1>1, PowerLaw
  <2> QED
    BY <2>2, <2>3, <2>4
<1> HIDE DEF T
<1>6. e \in T
  BY <1>1, <1>4, <1>5, Induction
<1> QED
  BY <1>2, <1>6 DEF T

\* Client and MitID derive the same secret: (k * v + g^b - k * v)^(u * x + a) is
\* (g^a * v^u)^b when v = g^x (srp.ts:203-210).
LEMMA SecretsMeet ==
  ASSUME Handshake!SrpAssumption, {secretA, secretB, x, registered, u, k} \subseteq Handshake!Hash,
         x = registered
  PROVE  Handshake!SessionSecret(Handshake!ServerPublic) = Handshake!ServerSecret
<1>1. N \in Nat \ {0} /\ Handshake!Hash \subseteq Nat /\ g \in Int
  BY DEF Handshake!SrpAssumption, Handshake!Hash
<1>2. /\ secretA \in Handshake!Hash /\ secretB \in Handshake!Hash
      /\ x \in Handshake!Hash /\ u \in Handshake!Hash /\ k \in Handshake!Hash
      /\ secretA \in Nat /\ secretB \in Nat /\ x \in Nat /\ u \in Nat /\ k \in Nat
  BY <1>1
<1> DEFINE v == Power(g, x, N)
           A == Power(g, secretA, N)
           y == Power(g, secretB, N)
           e == u * x + secretA
<1>3. v \in Int /\ A \in Int /\ y \in Int /\ y \in 0..(N - 1) /\ e \in Nat
  <2>1. v \in 0..(N - 1) /\ A \in 0..(N - 1) /\ y \in 0..(N - 1)
    BY <1>1, <1>2, PowerRange
  <2> HIDE DEF v, A, y
  <2> QED
    BY <1>1, <1>2, <2>1
<1>4. Handshake!Verifier = v
  BY <1>1, <1>2, Pows DEF Handshake!Verifier
<1>5. Handshake!ModPow(g, x, N) = v
  BY <1>1, <1>2, ModPows
<1>6. Handshake!PublicA = A
  BY <1>1, <1>2, ModPows DEF Handshake!PublicA
<1>7. Handshake!ServerPublic = (k * v + y) % N
  <2>1. Handshake!Pow(g, secretB) = y
    BY <1>1, <1>2, Pows
  <2> QED
    BY <1>4, <2>1 DEF Handshake!ServerPublic
<1>8. Handshake!SessionSecret(Handshake!ServerPublic) = Power(y, e, N)
  <2> DEFINE S == k * v + y
             B == S % N
             c == B - v * k
  <2>1. S \in Int /\ v * k \in Int /\ -(v * k) \in Int /\ S + (-(v * k)) = y
    <3> HIDE DEF v, y
    <3> QED
      BY <1>2, <1>3
  <2>2. B \in Int
    <3> HIDE DEF S
    <3>1. B \in 0..(N - 1)
      BY <1>1, <2>1, Division
    <3> QED
      BY <1>1, <3>1
  <2>3. c \in Int /\ c = B + (-(v * k))
    <3> HIDE DEF B
    <3> QED
      BY <2>1, <2>2
  <2>4. c % N = y % N
    <3> DEFINE t == -(v * k)
    <3>1. t \in Int /\ S + t = y /\ c = B + t
      BY <2>1, <2>3
    <3> HIDE DEF S, t, c
    <3>2. (B + t) % N = (S + t) % N
      BY <1>1, <2>1, <3>1, SumMod
    <3> QED
      BY <3>1, <3>2
  <2>5. Handshake!SessionSecret(Handshake!ServerPublic) = Handshake!ModPow(c, e, N)
    BY <1>5, <1>7 DEF Handshake!SessionSecret
  <2> HIDE DEF c, e, y
  <2>6. Handshake!ModPow(c, e, N) = Power(c, e, N)
    BY <1>3, <2>3, ModPows
  <2>7. Power(c % N, e, N) = Power(c, e, N) /\ Power(y % N, e, N) = Power(y, e, N)
    BY <1>1, <1>3, <2>3, PowerReduces
  <2> QED
    BY <2>4, <2>5, <2>6, <2>7
<1>9. Power(y, e, N) = Power(g, secretB * e, N)
  <2> HIDE DEF e
  <2> QED
    BY SMTT(40), <1>1, <1>2, <1>3, PowerPower
<1>10. Handshake!ServerSecret = Power(g, e * secretB, N)
  <2>1. Handshake!Pow(Handshake!Verifier, u) = Power(v, u, N)
    <3> HIDE DEF v
    <3> QED
      BY <1>2, <1>3, <1>4, Pows
  <2>2. Power(v, u, N) = Power(g, x * u, N)
    BY ZenonT(60), <1>1, <1>2, PowerPower
  <2> DEFINE w == Power(g, x * u, N)
             s == (A * w) % N
             n == x * u
  <2>3. n \in Nat /\ secretA + n = e
    BY <1>2
  <2>4. s = Power(g, e, N)
    <3> HIDE DEF n, e
    <3>1. (Power(g, secretA, N) * Power(g, n, N)) % N = Power(g, secretA + n, N)
      BY <1>1, <1>2, <2>3, PowerSum
    <3> QED
      BY <2>3, <3>1 DEF n
  <2>5. Handshake!ServerSecret = Handshake!Pow(s, secretB)
    <3>1. Handshake!Pow(Handshake!Verifier, u) = w
      BY <2>1, <2>2
    <3> HIDE DEF w, A
    <3> QED
      BY <1>6, <3>1 DEF Handshake!ServerSecret
  <2> HIDE DEF s, e
  <2>6. Power(g, e, N) \in Int
    <3>1. Power(g, e, N) \in 0..(N - 1)
      BY <1>1, <1>3, PowerRange
    <3> QED
      BY <1>1, <3>1
  <2>7. Handshake!Pow(s, secretB) = Power(s, secretB, N)
    BY <1>2, <2>4, <2>6, Pows
  <2>8. Power(Power(g, e, N), secretB, N) = Power(g, e * secretB, N)
    <3>1. e \in Nat /\ secretB \in Nat /\ g \in Int /\ N \in Nat \ {0}
      BY <1>1, <1>2, <1>3
    <3> QED
      BY <3>1, PowerPower
  <2> QED
    BY <2>4, <2>5, <2>7, <2>8
<1>11. secretB * e = e * secretB
  <2> HIDE DEF e
  <2> QED
    BY <1>2, <1>3
<1> QED
  BY <1>8, <1>9, <1>10, <1>11

Inputs == <<secretA, x, registered, u, k, secretB>>

\* What was drawn at the start stays.
LEMMA InputsFixed ==
  ASSUME UNCHANGED Inputs
  PROVE  /\ Handshake!ServerPublic' = Handshake!ServerPublic
         /\ Handshake!ServerSecret' = Handshake!ServerSecret
         /\ \A B : Handshake!SessionSecret(B)' = Handshake!SessionSecret(B)
BY DEF Inputs, Handshake!ServerPublic, Handshake!ServerSecret, Handshake!SessionSecret,
       Handshake!ModPow, Handshake!Pow, Handshake!Verifier, Handshake!PublicA

\* The public value and the secret are elements of the group.
LEMMA InTheGroup ==
  ASSUME Handshake!TypeOK
  PROVE  /\ Handshake!ServerPublic \in 0..(N - 1)
         /\ \A B \in Int : Handshake!SessionSecret(B) \in 0..(N - 1)
<1>1. Handshake!SrpAssumption
  BY PartsAssumption DEF PartsAssumption
<1>2. N \in Nat \ {0} /\ Handshake!Hash \subseteq Nat /\ g \in Int
  BY <1>1 DEF Handshake!SrpAssumption, Handshake!Hash
<1>3. /\ {secretA, secretB, x, registered, u, k} \subseteq Handshake!Hash
      /\ {secretA, secretB, x, registered, u, k} \subseteq Nat
  BY <1>2 DEF Handshake!TypeOK
<1> DEFINE v == Power(g, registered, N)
           y == Power(g, secretB, N)
           w == Power(g, x, N)
           e == u * x + secretA
<1>4. v \in 0..(N - 1) /\ y \in 0..(N - 1) /\ w \in 0..(N - 1) /\ e \in Nat
  <2>1. v \in 0..(N - 1) /\ y \in 0..(N - 1) /\ w \in 0..(N - 1)
    BY <1>2, <1>3, PowerRange
  <2> HIDE DEF v, y, w
  <2> QED
    BY <2>1, <1>3
<1>5. Handshake!ServerPublic \in 0..(N - 1)
  <2>1. Handshake!ServerPublic = (k * v + y) % N
    BY <1>1, <1>2, <1>3, Pows DEF Handshake!ServerPublic, Handshake!Verifier
  <2> DEFINE s == k * v + y
  <2>2. s \in Int
    <3> HIDE DEF v, y
    <3> QED
      BY <1>2, <1>3, <1>4
  <2> HIDE DEF s
  <2>3. s % N \in 0..(N - 1)
    BY <1>2, <2>2, Division
  <2> QED
    BY <2>1, <2>3 DEF s
<1>6. ASSUME NEW B \in Int
      PROVE  Handshake!SessionSecret(B) \in 0..(N - 1)
  <2> DEFINE c == B - w * k
  <2>1. Handshake!SessionSecret(B) = Handshake!ModPow(c, e, N)
    BY <1>1, <1>2, <1>3, ModPows DEF Handshake!SessionSecret
  <2>2. c \in Int
    <3> HIDE DEF w
    <3> QED
      BY <1>2, <1>3, <1>4
  <2> HIDE DEF c, e
  <2>3. Handshake!ModPow(c, e, N) = Power(c, e, N)
    BY <1>1, <1>4, <2>2, ModPows
  <2>4. Power(c, e, N) \in 0..(N - 1)
    BY <1>2, <1>4, <2>2, PowerRange
  <2> QED
    BY <2>1, <2>3, <2>4
<1> QED
  BY <1>5, <1>6

HandshakeInv == /\ Handshake!TypeOK
                /\ step = "sent" => serverB \in {0, Handshake!ServerPublic}
                /\ step = "proved" => /\ serverB = Handshake!ServerPublic /\ serverB # 0
                                      /\ sessionKey = Handshake!SessionSecret(serverB)

LEMMA HandshakeStep == HandshakeInv /\ [Handshake!Next]_handshakeVars => HandshakeInv'
<1> SUFFICES ASSUME HandshakeInv, [Handshake!Next]_handshakeVars PROVE HandshakeInv'
  OBVIOUS
<1>1. UNCHANGED Inputs
  BY DEF handshakeVars, Handshake!vars, Handshake!Next, Handshake!ServerAnswers,
         Handshake!Stage3, Handshake!Stage5, Handshake!Over, Inputs
<1>2. /\ Handshake!ServerPublic' = Handshake!ServerPublic
      /\ \A B : Handshake!SessionSecret(B)' = Handshake!SessionSecret(B)
  BY <1>1, InputsFixed
<1>3. /\ Handshake!ServerPublic \in 0..(N - 1)
      /\ \A B \in Int : Handshake!SessionSecret(B) \in 0..(N - 1)
  BY InTheGroup DEF HandshakeInv
<1>4. N \in Nat \ {0, 1} /\ Handshake!Hash' = Handshake!Hash
  BY PartsAssumption DEF PartsAssumption, Handshake!SrpAssumption, Handshake!Hash
<1> USE DEF HandshakeInv, Handshake!TypeOK
<1>5. ASSUME NEW B \in {0, Handshake!ServerPublic}, Handshake!ServerAnswers(B)
      PROVE  HandshakeInv'
  <2>1. B \in 0..(N - 1)
    BY <1>3, <1>4
  <2> QED
    BY <1>1, <1>2, <1>4, <1>5, <2>1 DEF Handshake!ServerAnswers, Inputs
<1>6. CASE Handshake!Stage3
  <2>1. serverB' = serverB /\ serverB \in Int /\ step = "sent"
    BY <1>4, <1>6 DEF Handshake!Stage3
  <2>2. Handshake!SessionSecret(serverB) \in 0..(N - 1)
        /\ Handshake!SessionSecret(serverB)' = Handshake!SessionSecret(serverB')
    BY <1>3, <2>1, <1>1 DEF Inputs, Handshake!SessionSecret
  <2>3. CASE Handshake!Safe(serverB)
    <3>1. /\ serverB # 0 /\ serverB = Handshake!ServerPublic
          /\ sessionKey' = Handshake!SessionSecret(serverB) /\ step' = "proved"
      BY <1>6, <2>1, <2>3 DEF Handshake!Stage3, Handshake!Safe
    <3>2. sessionKey' \in (1 - N)..(N - 1)
      BY <1>4, <2>2, <3>1
    <3>3. (Handshake!SessionSecret(serverB))' = Handshake!SessionSecret(serverB)
      BY <1>1, <2>1 DEF Inputs, Handshake!SessionSecret, Handshake!ModPow
    <3> QED
      BY <1>1, <1>2, <1>4, <2>1, <3>1, <3>2, <3>3 DEF Inputs
  <2>4. CASE ~Handshake!Safe(serverB)
    BY <1>1, <1>2, <1>4, <1>6, <2>1, <2>4 DEF Handshake!Stage3, Inputs
  <2> QED
    BY <2>3, <2>4
<1>7. CASE Handshake!Stage5
  BY <1>1, <1>2, <1>4, <1>7 DEF Handshake!Stage5, Inputs
<1>8. CASE UNCHANGED handshakeVars
  <2>1. serverB' = serverB /\ sessionKey' = sessionKey /\ step' = step
    BY <1>8 DEF handshakeVars
  <2>2. (Handshake!SessionSecret(serverB))' = Handshake!SessionSecret(serverB)
    BY <1>1, <2>1 DEF Inputs, Handshake!SessionSecret, Handshake!ModPow
  <2> QED
    BY <1>1, <1>2, <1>4, <2>1, <2>2 DEF Inputs
<1>9. Handshake!Over => UNCHANGED handshakeVars
  BY DEF Handshake!Over, Handshake!vars, handshakeVars
<1> QED
  BY <1>5, <1>6, <1>7, <1>8, <1>9 DEF Handshake!Next

LEMMA HandshakeStart == Init => HandshakeInv
<1>1. Handshake!SrpAssumption
  BY PartsAssumption DEF PartsAssumption
<1>2. 0 \in Handshake!Hash /\ N \in Nat \ {0, 1} /\ 0 \in 0..(N - 1) /\ -1 \in (1 - N)..(N - 1)
  BY <1>1 DEF Handshake!SrpAssumption, Handshake!Hash
<1> QED
  BY <1>2 DEF Init, Handshake!Init, HandshakeInv, Handshake!TypeOK

\* For every group, every base and all secrets and hashes: when the password is the one
\* MitID knows, both sides derive the same secret, and the client proves nothing to a B
\* that is 0 (srp.ts:125-130, 203-210).
THEOREM BothDeriveTheSecret == Spec => []SecretsAgree
<1>1. HandshakeInv => SecretsAgree
  <2>1. Handshake!SrpAssumption
    BY PartsAssumption DEF PartsAssumption
  <2> QED
    BY <2>1, SecretsMeet DEF HandshakeInv, Handshake!TypeOK, SecretsAgree,
       Handshake!SecretsAgree
<1> QED
  BY <1>1, PartSteps, HandshakeStart, HandshakeStep, PTL DEF Spec

-----------------------------------------------------------------------------
(* The types of all nine                                                   *)

LEMMA KeysTyped == Keys!TypeOK /\ [Keys!Next]_keyVars => Keys!TypeOK'
<1> SUFFICES ASSUME Keys!TypeOK, [Keys!Next]_keyVars PROVE Keys!TypeOK'
  OBVIOUS
<1> USE Bounds DEF Keys!TypeOK, Keys!Key, Keys!Goto, Keys!files
<1>1. ASSUME NEW p \in Proc, Keys!Load(p) \/ Keys!Save(p) PROVE Keys!TypeOK'
  <2>1. raced' \in BOOLEAN
    BY <1>1 DEF Keys!Load, Keys!Save, Keys!Begins
  <2> QED
    BY <1>1, <2>1 DEF Keys!Load, Keys!Save, Keys!Begins
<1>2. ASSUME NEW p \in Proc, Keys!KeyAtHand(p) PROVE Keys!TypeOK'
  BY <1>2 DEF Keys!KeyAtHand, Keys!Resolving, Keys!Resolved
<1>3. ASSUME NEW p \in Proc, Keys!KeyRead(p) PROVE Keys!TypeOK'
  BY <1>3 DEF Keys!KeyRead, Keys!Resolving, Keys!Resolved
<1>4. ASSUME NEW p \in Proc, Keys!KeyGenerated(p) PROVE Keys!TypeOK'
  BY <1>4 DEF Keys!KeyGenerated, Keys!Resolving, Keys!NoKeyFile
<1>5. ASSUME NEW p \in Proc, Keys!KeyWritten(p) PROVE Keys!TypeOK'
  BY <1>5 DEF Keys!KeyWritten, Keys!KeyReplaced, Keys!Resolved
<1>6. ASSUME NEW p \in Proc, Keys!Opened(p) \/ Keys!WriteFails(p) \/ Keys!Sealed(p)
      PROVE  Keys!TypeOK'
  BY <1>6 DEF Keys!Opened, Keys!WriteFails, Keys!Sealed, Keys!Return
<1>7. ASSUME NEW p \in Proc, Keys!Clear(p) \/ Keys!Restart(p) PROVE Keys!TypeOK'
  BY <1>7 DEF Keys!Clear, Keys!Restart, Keys!Return
<1>8. CASE UNCHANGED keyVars
  BY <1>8 DEF keyVars
<1> QED
  BY <1>1, <1>2, <1>3, <1>4, <1>5, <1>6, <1>7, <1>8 DEF Keys!Next

LEMMA ProbesTyped == Refresher!TypeOK /\ Refresher!Next => Refresher!TypeOK'
<1> SUFFICES ASSUME Refresher!TypeOK, Refresher!Next PROVE Refresher!TypeOK'
  OBVIOUS
<1> USE RefresherBounds DEF Refresher!TypeOK, Refresher!Version, Refresher!external,
        Refresher!fields, Refresher!loads, Refresher!history
<1>1. ASSUME NEW c \in Callers, Refresher!Join(c) PROVE Refresher!TypeOK'
  BY <1>1 DEF Refresher!Join
<1>hit. ASSUME NEW c \in Callers, Refresher!CacheHit(c) PROVE Refresher!TypeOK'
  BY <1>hit DEF Refresher!CacheHit, Refresher!vars
<1>2. ASSUME NEW c \in Callers, Refresher!StartLoad(c) PROVE Refresher!TypeOK'
  BY <1>2 DEF Refresher!StartLoad
<1>3. ASSUME NEW c \in Callers, Refresher!ReadFresh(c) PROVE Refresher!TypeOK'
  BY <1>3 DEF Refresher!ReadFresh, Refresher!Readable
<1>adopted. ASSUME NEW c \in Callers, Refresher!Adopted(c) PROVE Refresher!TypeOK'
  BY <1>adopted DEF Refresher!Adopted
<1>4. ASSUME NEW c \in Callers, Refresher!ReadExpired(c) PROVE Refresher!TypeOK'
  BY <1>4 DEF Refresher!ReadExpired
<1>5. ASSUME NEW c \in Callers, Refresher!Refreshed(c) PROVE Refresher!TypeOK'
  BY SMTT(40), <1>5 DEF Refresher!Refreshed
<1>6. ASSUME NEW c \in Callers, Refresher!Succeed(c) PROVE Refresher!TypeOK'
  <2>1. outdated' \subseteq Callers \cup {"cache"}
    BY <1>6 DEF Refresher!Succeed
  <2>2. lastError' \in BOOLEAN
    BY <1>6 DEF Refresher!Succeed, Refresher!Settle
  <2> QED
    BY <1>6, <2>1, <2>2 DEF Refresher!Succeed, Refresher!Settle
<1>7. ASSUME NEW c \in Callers, Refresher!Fail(c) PROVE Refresher!TypeOK'
  BY <1>7 DEF Refresher!Fail, Refresher!Settle, Refresher!CacheAfterFailure
<1>8. CASE Refresher!Invalidate
  BY <1>8 DEF Refresher!Invalidate, Refresher!Forget
<1>9. CASE Refresher!Login
  BY <1>9 DEF Refresher!Login
<1>logout. CASE Refresher!Logout
  BY <1>logout DEF Refresher!Logout
<1>10. CASE Refresher!Tick
  BY <1>10 DEF Refresher!Tick, Refresher!Horizon
<1>11. ASSUME NEW v \in Refresher!Version, Refresher!Expire(v) PROVE Refresher!TypeOK'
  BY <1>11 DEF Refresher!Expire
<1> QED
  BY <1>1, <1>2, <1>3, <1>4, <1>5, <1>6, <1>7, <1>8, <1>9, <1>10, <1>11,
     <1>hit, <1>adopted, <1>logout DEF Refresher!Next, Refresher!LoadStep

\* The failure memory's age saturates.
LEMMA FailureAges == FailureKnown /\ errorAge <= GraceMs /\ [Refresher!RNext]_refresherVars =>
                        errorAge' <= GraceMs
<1> SUFFICES ASSUME FailureKnown, errorAge <= GraceMs, [Refresher!RNext]_refresherVars
             PROVE  errorAge' <= GraceMs
  OBVIOUS
<1> USE RefresherBounds DEF FailureKnown, Refresher!probing
<1>1. ASSUME NEW c \in Callers, Refresher!ToolCalls(c) \/ Refresher!Progress(c)
      PROVE  errorAge' <= GraceMs
  BY <1>1 DEF Refresher!ToolCalls, Refresher!Progress, Refresher!LoadGoesOn,
     Refresher!Succeeds, Refresher!Throws, Refresher!FailureAge
<1>2. ASSUME NEW p \in Probes, Refresher!Ask(p) \/ Refresher!Serve(p)
      PROVE  errorAge' <= GraceMs
  BY <1>2 DEF Refresher!Ask, Refresher!Serve, Refresher!Looked, Refresher!FoundExpired,
     Refresher!StillFailing, Refresher!Refreshes
<1>3. CASE Refresher!Outside \/ Refresher!Time
  BY <1>3 DEF Refresher!Outside, Refresher!Time, Refresher!Older
<1>4. CASE UNCHANGED refresherVars
  BY <1>4 DEF refresherVars
<1> QED
  BY <1>1, <1>2, <1>3, <1>4 DEF Refresher!RNext

LEMMA ReadinessTyped ==
    Refresher!RTypeOK /\ FailureKnown /\ [Refresher!RNext]_refresherVars => Refresher!RTypeOK'
<1> SUFFICES ASSUME Refresher!RTypeOK, FailureKnown, [Refresher!RNext]_refresherVars
             PROVE  Refresher!RTypeOK'
  OBVIOUS
<1>1. Refresher!TypeOK'
  <2>1. Refresher!TypeOK /\ UNCHANGED Refresher!vars => Refresher!TypeOK'
    BY DEF Refresher!TypeOK, Refresher!vars, Refresher!external, Refresher!fields,
       Refresher!loads, Refresher!history
  <2> QED
    BY <2>1, Underneath, ProbesTyped DEF Refresher!RTypeOK
<1>2. FailureKnown'
  BY FailureKnownKept
<1>3. errorAge' <= GraceMs
  BY FailureAges, RefresherBounds DEF Refresher!RTypeOK
<1> QED
  BY <1>1, <1>2, <1>3, RefresherBounds DEF FailureKnown, Refresher!RTypeOK

LEMMA DownloadTyped == Download!TypeOK /\ [Download!Next]_downloadVars => Download!TypeOK'
<1> SUFFICES ASSUME Download!TypeOK, [Download!Next]_downloadVars PROVE Download!TypeOK'
  OBVIOUS
<1> DEFINE Agree == settled \in BOOLEAN /\ settled = (wire # "open")
           Rest == /\ phase \in {"connect", "open", "flow", "closed", "done"}
                   /\ hop \in 0..MaxRedirects /\ body \in 0..MaxBody
                   /\ wire \in {"open", "ended", "closed"}
                   /\ bytes \in Nat /\ queued \in Nat /\ written \in Nat
                   /\ result \in {"none", "ok", "failed", "thrown"}
                   /\ file \in {"none", "part", "final"} /\ lost \in BOOLEAN
<1>1. Agree /\ Rest
  BY DEF Download!TypeOK
<1>2. Agree /\ UNCHANGED <<wire, settled>> => Agree'
  OBVIOUS
<1>3. Download!Fail => /\ Agree' /\ wire' \in {"open", "ended", "closed"}
                       /\ result' \in {"none", "ok", "failed", "thrown"}
  BY <1>1, <1>2 DEF Download!Fail
<1> USE Bounds DEF Download!stream, Download!Answer
<1>4. CASE Download!HopFails \/ Download!Redirect \/ Download!Body
           \/ Download!OpenPart \/ Download!OpenThrows
  <2>1. Rest' /\ UNCHANGED <<wire, settled>>
    BY <1>1, <1>4 DEF Download!HopFails, Download!Redirect, Download!Body,
       Download!OpenPart, Download!OpenThrows
  <2> QED
    BY <1>1, <1>2, <2>1 DEF Download!TypeOK
<1>5. CASE Download!Data \/ Download!WriteFails
  <2>1. Download!Fail \/ UNCHANGED <<wire, settled, result>>
    BY <1>5 DEF Download!Data, Download!WriteFails
  <2>2. Agree'
    BY <1>1, <1>2, <1>3, <2>1
  <2>3. Rest'
    <3> HIDE DEF Agree
    <3>1. wire' \in {"open", "ended", "closed"}
          /\ result' \in {"none", "ok", "failed", "thrown"}
      BY <1>1, <1>3, <2>1
    <3>2. CASE Download!Data
      BY <1>1, <3>1, <3>2 DEF Download!Data
    <3>3. CASE Download!WriteFails
      BY <1>1, <3>1, <3>3 DEF Download!WriteFails
    <3> QED
      BY <1>5, <3>2, <3>3
  <2> QED
    BY <2>2, <2>3 DEF Download!TypeOK
<1>6. CASE Download!Write \/ Download!Drained \/ Download!CloseFile \/ Download!CloseThrows
           \/ Download!RemovePart \/ Download!Rename \/ Download!RenameThrows
  <2>1. Rest' /\ UNCHANGED <<wire, settled>>
    BY <1>1, <1>6 DEF Download!Write, Download!Drained, Download!CloseFile,
       Download!CloseThrows, Download!RemovePart, Download!Rename, Download!RenameThrows
  <2> QED
    BY <1>1, <1>2, <2>1 DEF Download!TypeOK
<1>7. CASE Download!End
  <2>1. Rest' /\ wire' = "ended" /\ settled' = TRUE
    BY <1>1, <1>7 DEF Download!End
  <2> QED
    BY <2>1 DEF Download!TypeOK
<1>8. CASE Download!PeerClosed \/ Download!Timeout
  <2>1. Download!Fail
    BY <1>8 DEF Download!PeerClosed, Download!Timeout
  <2>2. Rest'
    BY <1>1, <1>3, <1>8, <2>1 DEF Download!PeerClosed, Download!Timeout
  <2> QED
    BY <1>3, <2>1, <2>2 DEF Download!TypeOK
<1>9. CASE UNCHANGED downloadVars
  <2>1. Rest' /\ UNCHANGED <<wire, settled>>
    BY <1>1, <1>9 DEF downloadVars
  <2> QED
    BY <1>1, <1>2, <2>1 DEF Download!TypeOK
<1> QED
  BY <1>4, <1>5, <1>6, <1>7, <1>8, <1>9 DEF Download!Next

\* A verified version is one that Aula serves, and the probe looks one past the others.
ApiBounds == MaxApi \in Nat /\ MaxNewest \in Nat \ {0} /\ MaxNewest < MaxApi
ApiTypes == /\ Api!TypeOK /\ oldest <= newest /\ apiVersion <= MaxApi
            /\ versionVerified => apiVersion <= newest

LEMMA ApiLimits == ApiBounds
BY PartsAssumption DEF PartsAssumption, Api!AulaApiAssumption, ApiBounds

LEMMA ApiTyped == ApiTypes /\ [Api!Next]_apiVars => ApiTypes'
<1> SUFFICES ASSUME ApiTypes, [Api!Next]_apiVars PROVE ApiTypes'
  OBVIOUS
<1> USE ApiLimits, Bounds DEF ApiBounds, ApiTypes, Api!TypeOK, Api!All, Api!server,
                              Api!fields, Api!calls
<1>1. ASSUME NEW c \in Calls, NEW m \in Kinds, Api!Start(c, m) PROVE ApiTypes'
  BY <1>1 DEF Api!Start
<1>2. ASSUME NEW C \in SUBSET Api!All, NEW how \in {"ok", "gone", "error"}, Api!End(C, how)
      PROVE  /\ apiStage' \in [Api!All -> {"idle", "probe", "context", "behind", "send",
                                           "reprobe", "resend"}]
             /\ apiResult' \in [Api!All -> {"none", "ok", "gone", "error"}]
             /\ excused' \in [Api!All -> BOOLEAN]
             /\ context' \in {"none", "pending", "done"}
  BY <1>2 DEF Api!End
<1>3. CASE Api!ProbeFinds
  <2>1. probing <= newest
    BY <1>3 DEF Api!ProbeFinds, Api!VersionWorks, Api!Status
  <2> QED
    BY <1>3, <2>1 DEF Api!ProbeFinds, Api!Probing, Api!AfterProbe
<1>4. CASE Api!ProbeBumps
  BY <1>4 DEF Api!ProbeBumps, Api!NextVersion, Api!VersionsLeft
<1>5. CASE Api!ProbeFails
  BY <1>2, <1>5 DEF Api!ProbeFails
<1>6. ASSUME NEW c \in Api!All, Api!Bootstrap(c) PROVE ApiTypes'
  BY <1>6 DEF Api!Bootstrap
<1>7. ASSUME NEW c \in Api!All, Api!AwaitContext(c) \/ Api!HasContext(c) PROVE ApiTypes'
  BY <1>7 DEF Api!AwaitContext, Api!HasContext
<1>8. ASSUME NEW c \in Api!All, Api!Answered(c) PROVE ApiTypes'
  <2>1. {c} \in SUBSET Api!All /\ Api!End({c}, "ok")
    BY <1>8 DEF Api!Answered
  <2>2. selected' \in BOOLEAN
    BY <1>8 DEF Api!Answered
  <2>3. performed' \in [Api!All -> BOOLEAN]
    BY <1>8 DEF Api!Answered, Api!IsPost
  <2> QED
    BY <1>2, <1>8, <2>1, <2>2, <2>3 DEF Api!Answered
<1>9. ASSUME NEW c \in Api!All, Api!Gone(c) PROVE ApiTypes'
  <2>1. mixed' \in BOOLEAN
    BY <1>9 DEF Api!Gone
  <2>2. apiVersion' \in 1..MaxApi /\ probing' \in 1..MaxApi /\ versionVerified' = FALSE
    BY <1>9 DEF Api!Gone, Api!RetriesGone, Api!Bumped
  <2>3. apiStage' \in [Api!All -> {"idle", "probe", "context", "behind", "send",
                                  "reprobe", "resend"}]
    BY <1>9 DEF Api!Gone
  <2>4. UNCHANGED <<oldest, newest, beyond, selected, context, kind, ver, apiResult,
                    performed, excused>>
    BY <1>9 DEF Api!Gone
  <2>5. Api!TypeOK'
    <3>1. apiVersion' \in 1..(MaxApi + 1) /\ probing' \in 0..(MaxApi + 1)
      BY <2>2
    <3>2. versionVerified' \in BOOLEAN
      BY <2>2
    <3>3. kind' \in [Api!All -> {"get", "profile", "thread", "post"}]
      BY <2>4
    <3>4. ver' \in [Api!All -> 0..MaxApi]
      BY <2>4
    <3> QED
      BY <2>1, <2>3, <2>4, <3>1, <3>2, <3>3, <3>4
  <2>6. oldest' <= newest' /\ apiVersion' <= MaxApi
    BY <2>2, <2>4
  <2> QED
    BY <2>2, <2>5, <2>6
<1>10. ASSUME NEW c \in Api!All, Api!GoneThrows(c) \/ Api!RequestFails(c) PROVE ApiTypes'
  <2>1. {c} \in SUBSET Api!All /\ \E how \in {"gone", "error"} : Api!End({c}, how)
    BY <1>10 DEF Api!GoneThrows, Api!RequestFails
  <2> QED
    BY <1>2, <1>10, <2>1 DEF Api!GoneThrows, Api!RequestFails
<1>11. CASE Api!Withdraw \/ Api!Release
  BY <1>11 DEF Api!Withdraw, Api!Release
<1>12. CASE UNCHANGED apiVars
  BY <1>12 DEF apiVars
<1> QED
  BY <1>1, <1>3, <1>4, <1>5, <1>6, <1>7, <1>8, <1>9, <1>10, <1>11, <1>12
     DEF Api!Next, Api!Probe, Api!Progress

\* How far each loop of the login may still go: rounds of redirects, combinations of a
\* broker page, and polls before the deadline.
Rounds ==
    /\ loc \in {"walk", "idp", "silent"} => loginHop < ChainHops
    /\ loc \in {"complete", "option"} => loginHop < FollowHops
    /\ loc = "walk" => tries = 0
    /\ loc = "idp" => tries < IdpTries
    /\ loc \in {"prompt", "next_select", "app_start"} => clock = 0
    /\ loc \in {"poll", "sleep"} => clock <= MaxPoll
LoginTypes == Login!TypeOK /\ Rounds

LoginLimits == /\ {ChainHops, IdpTries, FollowHops, AcsHops} \subseteq Nat \ {0}
               /\ MaxPoll \in Nat /\ MaxIssued \in Nat

\* The part of the types outside MitID's.
ChainTypes == /\ asksIdentity \in BOOLEAN
              /\ loginHop \in 0..ChainHops \cup 0..FollowHops \cup 0..AcsHops
              /\ tries \in 0..IdpTries
              /\ host \in Login!Hosts /\ verb \in {"GET", "POST"}
              /\ answers \in {"none", "own", "other"}

LEMMA Ranges == LoginLimits
BY PartsAssumption
   DEF PartsAssumption, Login!BoundsAssumption, Login!LimitsAssumption, LoginLimits

LEMMA HopTyped ==
  ASSUME NEW limit \in Nat \ {0}, NEW h, Login!Hop(limit, h), loginHop < limit, loginHop \in Nat
  PROVE  /\ UNCHANGED <<Login!mitidVars, asksIdentity, answers>>
         /\ loginHop' \in 0..limit /\ host' = h /\ tries' = 0
         /\ \/ loc' = "failed"
            \/ loginHop' < limit /\ loc' = IF loc = "idp" THEN "walk" ELSE loc
BY DEF Login!Hop, Login!Goes

LEMMA EntersTyped ==
  ASSUME NEW there, NEW h, NEW v, Login!Enters(there, h, v)
  PROVE  /\ UNCHANGED <<Login!mitidVars, asksIdentity, answers>>
         /\ loc' = there /\ loginHop' = 0 /\ tries' = 0 /\ host' = h /\ verb' = v
BY DEF Login!Enters, Login!Goes

LEMMA ChainTyped == LoginTypes /\ Login!LoginAnswer => LoginTypes'
<1> SUFFICES ASSUME LoginTypes, Login!LoginAnswer PROVE LoginTypes'
  OBVIOUS
<1> DEFINE Good == UNCHANGED Login!mitidVars /\ loc' \in Login!Locs /\ ChainTypes' /\ Rounds'
<1>0. ChainTypes /\ Rounds /\ loginHop \in Nat
  BY Ranges DEF LoginTypes, Login!TypeOK, ChainTypes, LoginLimits
<1> USE Ranges DEF LoginLimits
<1>failed. ASSUME Login!Goes("failed"), ChainTypes' PROVE Good
  BY <1>failed DEF Login!Goes, Rounds, Login!Locs, Login!Ended
<1>1. ASSUME Login!RequestFails PROVE Good
  BY <1>0, <1>1, <1>failed DEF Login!RequestFails, ChainTypes, Login!Goes
<1>hop. ASSUME NEW h \in Login!Hosts, Login!Hop(ChainHops, h), UNCHANGED verb,
               loc \in {"walk", "idp", "silent"}
        PROVE  Good
  <2>1. loginHop < ChainHops /\ ChainHops \in Nat \ {0}
    BY <1>0, <1>hop DEF Rounds
  <2>2. /\ UNCHANGED <<Login!mitidVars, asksIdentity, answers>>
        /\ loginHop' \in 0..ChainHops /\ host' = h /\ tries' = 0
        /\ \/ loc' = "failed"
           \/ loginHop' < ChainHops /\ loc' = IF loc = "idp" THEN "walk" ELSE loc
    BY <1>0, <1>hop, <2>1, HopTyped
  <2>3. ChainTypes'
    BY <1>0, <1>hop, <2>2 DEF ChainTypes
  <2>4. loc' \in {"failed", "walk", "silent"}
    BY <1>hop, <2>2
  <2>5. Rounds'
    BY <2>2, <2>4 DEF Rounds
  <2>6. loc' \in Login!Locs
    BY <2>4 DEF Login!Locs, Login!Ended
  <2> QED
    BY <2>2, <2>3, <2>5, <2>6
<1>2. ASSUME NEW h \in Login!Hosts,
             Login!WalkRedirected(h) \/ Login!IdpRedirected(h) \/ Login!SilentRedirected(h)
      PROVE  Good
  BY <1>2, <1>hop DEF Login!WalkRedirected, Login!IdpRedirected, Login!SilentRedirected
<1>3. ASSUME NEW h \in Login!Hosts, NEW page \in Login!Pages,
             Login!WalkRefreshed(h, page) \/ Login!SilentRefreshed(h, page)
      PROVE  Good
  BY <1>3, <1>hop DEF Login!WalkRefreshed, Login!SilentRefreshed
<1>enters. ASSUME NEW there, NEW h \in Login!Hosts, NEW v \in {"GET", "POST"},
                  Login!Enters(there, h, v),
                  there \in {"initialize", "session", "complete", "option", "saml",
                            "saml_page", "post_broker", "confirm", "after", "acs"}
           PROVE  Good
  <2>1. /\ UNCHANGED <<Login!mitidVars, asksIdentity, answers>>
        /\ loc' = there /\ loginHop' = 0 /\ tries' = 0 /\ host' = h /\ verb' = v
    BY <1>enters, EntersTyped
  <2>2. ChainTypes' /\ Rounds'
    BY <1>0, <1>enters, <2>1 DEF ChainTypes, Rounds
  <2>3. loc' \in Login!Locs
    BY <1>enters, <2>1 DEF Login!Locs
  <2> QED
    BY <2>1, <2>2, <2>3
<1>hosts. /\ "broker" \in Login!Hosts /\ "mitid" \in Login!Hosts /\ "aula" \in Login!Hosts
          /\ "GET" \in {"GET", "POST"} /\ "POST" \in {"GET", "POST"}
  BY DEF Login!Hosts
<1>4. ASSUME NEW page \in Login!Pages, Login!BrokerPage(page) PROVE Good
  BY <1>0, <1>4 DEF Login!BrokerPage, Login!Goes, ChainTypes, Rounds, Login!Locs
<1>5. ASSUME NEW page \in Login!Pages,
             \/ Login!MitidPage(page) \/ Login!SamlFormRead(page)
             \/ Login!BrokerParamsRead(page) \/ Login!ConfirmationAsked(page)
             \/ Login!FinalSamlForm(page)
      PROVE  Good
  BY <1>5, <1>enters, <1>hosts DEF Login!MitidPage, Login!SamlFormRead,
     Login!BrokerParamsRead, Login!ConfirmationAsked, Login!FinalSamlForm
<1>6. ASSUME NEW page \in Login!Pages, Login!IdentityPage(page) PROVE Good
  <2>1. UNCHANGED <<Login!mitidVars, asksIdentity, answers, loginHop, tries, host, verb>>
        /\ loc' \in {"identity", "failed"}
    BY <1>6 DEF Login!IdentityPage, Login!Goes
  <2> QED
    BY <1>0, <2>1 DEF ChainTypes, Rounds, Login!Locs, Login!Ended, Login!Human
<1>7. ASSUME Login!IdpIgnored PROVE Good
  BY <1>0, <1>7 DEF Login!IdpIgnored, Login!Goes, ChainTypes, Rounds, Login!Locs, Login!Ended
<1>8. ASSUME Login!AuxParsed \/ Login!Finalized \/ Login!SamlRedirected
             \/ Login!BrokerRedirected PROVE Good
  BY <1>8, <1>enters, <1>hosts DEF Login!AuxParsed, Login!Finalized, Login!SamlRedirected,
     Login!BrokerRedirected
<1>9. ASSUME Login!AcsRedirected PROVE Good
  <2>1. /\ UNCHANGED <<Login!mitidVars, asksIdentity, answers, tries, host>>
        /\ loc' = "acs" /\ verb' = "GET" /\ loginHop' = loginHop + 1 /\ loginHop < AcsHops
    BY <1>9 DEF Login!AcsRedirected, Login!Goes
  <2>2. loginHop' \in 0..AcsHops
    BY <1>0, <2>1
  <2> QED
    BY <1>0, <2>1, <2>2 DEF ChainTypes, Rounds, Login!Locs
<1>10. ASSUME Login!AcsExhausted PROVE Good
  BY <1>0, <1>10, <1>failed DEF Login!AcsExhausted, ChainTypes, Login!Goes
<1>11. ASSUME NEW status \in {302, 303, 307}, Login!Followed(status) PROVE Good
  <2>1. loc \in {"complete", "option"} /\ loginHop < FollowHops /\ FollowHops \in Nat \ {0}
        /\ verb' \in {"GET", "POST"} /\ Login!Hop(FollowHops, host)
    BY <1>0, <1>11 DEF Login!Followed, Rounds
  <2>2. /\ UNCHANGED <<Login!mitidVars, asksIdentity, answers>>
        /\ loginHop' \in 0..FollowHops /\ host' = host /\ tries' = 0
        /\ \/ loc' = "failed"
           \/ loginHop' < FollowHops /\ loc' = IF loc = "idp" THEN "walk" ELSE loc
    BY <1>0, <2>1, HopTyped
  <2>3. loc' \in {"failed", "complete", "option"}
    BY <2>1, <2>2
  <2>4. ChainTypes' /\ Rounds'
    BY <1>0, <2>1, <2>2, <2>3 DEF ChainTypes, Rounds
  <2>5. loc' \in Login!Locs
    BY <2>3 DEF Login!Locs, Login!Ended
  <2> QED
    BY <2>2, <2>4, <2>5
<1>12. ASSUME NEW state \in {"own", "other"}, Login!Callback(state) PROVE Good
  BY <1>0, <1>12 DEF Login!Callback, ChainTypes, Rounds, Login!Locs, Login!Ended
<1>13. ASSUME Login!TokensIssued PROVE Good
  BY <1>0, <1>13 DEF Login!TokensIssued, Login!Goes, ChainTypes, Rounds, Login!Locs,
     Login!Ended
<1>14. Good
  BY <1>1, <1>2, <1>3, <1>4, <1>5, <1>6, <1>7, <1>8, <1>9, <1>10, <1>11, <1>12, <1>13
     DEF Login!LoginAnswer
<1> QED
  BY <1>14 DEF LoginTypes, Login!TypeOK, ChainTypes, Login!mitidVars, Login!asked,
     Login!mitid

\* The part of the types that is MitID's.
CurOK == /\ cur.type \in Login!Methods \cup {"none", "PASSWORD"}
         /\ {cur.session, cur.key, cur.eafe} \subseteq 0..MaxIssued
ServerOK == server.id \in 0..MaxIssued
MitidTypes == /\ CurOK /\ ServerOK /\ response \in 0..MaxIssued
              /\ {peerKnown, final, aborted, approved} \subseteq BOOLEAN
              /\ clock \in 0..MaxPoll + 2
              /\ accepted \in Seq(Login!Methods \cup {"PASSWORD"})

LEMMA NextTyped ==
  ASSUME NEW label \in Login!Labels, ServerOK, Login!NextAuthenticator(label)
  PROVE  CurOK' /\ ServerOK'
<1>1. server' = [type |-> label, id |-> server.id + 1] /\ server.id < MaxIssued
  BY DEF Login!NextAuthenticator, Login!Issues
<1>2. server'.id = server.id + 1 /\ server'.type = label /\ server'.id \in 0..MaxIssued
  BY <1>1, Ranges DEF ServerOK, LoginLimits
<1>3. cur' = [type |-> Login!Normalized(label), session |-> server'.id, key |-> server'.id,
              eafe |-> server'.id]
  BY <1>2 DEF Login!NextAuthenticator, Login!Applied
<1>4. Login!Normalized(label) \in Login!Methods \cup {"PASSWORD"}
  BY DEF Login!Normalized, Login!Methods, Login!Labels
<1> QED
  BY <1>2, <1>3, <1>4 DEF CurOK, ServerOK

LEMMA MitidTyped == LoginTypes /\ Login!MitidAnswer /\ UNCHANGED Login!chain => LoginTypes'
<1> SUFFICES ASSUME LoginTypes, Login!MitidAnswer, UNCHANGED Login!chain PROVE LoginTypes'
  OBVIOUS
<1> DEFINE Good == /\ loc' \in Login!Locs \ {"walk", "idp", "silent", "complete", "option"}
                   /\ loc' \in {"prompt", "next_select", "app_start"} => clock' = 0
                   /\ loc' \in {"poll", "sleep"} => clock' <= MaxPoll
                   /\ MitidTypes' /\ UNCHANGED method
<1>0. MitidTypes /\ Rounds /\ loc \in Login!Locs
  BY DEF LoginTypes, Login!TypeOK, MitidTypes, CurOK, ServerOK
<1> USE Ranges DEF LoginLimits, Login!asked, Login!mitid
<1>same. ASSUME UNCHANGED Login!mitidVars
         PROVE  MitidTypes' /\ UNCHANGED <<method, clock>>
  BY <1>0, <1>same DEF MitidTypes, CurOK, ServerOK, Login!mitidVars
<1>1. ASSUME Login!SessionLoaded \/ Login!ClaimAccepted \/ Login!AppInit
             \/ Login!TokenInit \/ Login!PasswordInit
      PROVE  Good
  <2>1. UNCHANGED Login!mitidVars
        /\ loc' \in {"claim", "next_identified", "app_prove", "token_prove", "pass_prove"}
    BY <1>1 DEF Login!SessionLoaded, Login!ClaimAccepted, Login!AppInit, Login!TokenInit,
       Login!PasswordInit
  <2> QED
    BY <1>same, <2>1 DEF Login!Locs
<1>2. ASSUME NEW label \in Login!Labels, NEW offered \in SUBSET Login!Methods,
             Login!Identified(label, offered)
      PROVE  Good
  <2>1. CurOK' /\ ServerOK'
    BY <1>0, <1>2, NextTyped DEF Login!Identified, MitidTypes
  <2>2. loc' \in {"prompt", "app_start", "next_select", "failed"} /\ clock' = 0
    BY <1>2 DEF Login!Identified, Login!Begin
  <2> QED
    BY <1>0, <1>2, <2>1, <2>2 DEF Login!Identified, MitidTypes, Login!Locs, Login!Human,
       Login!Ended
<1>3. ASSUME NEW label \in Login!Labels, Login!Selected(label) PROVE Good
  <2>1. CurOK' /\ ServerOK'
    BY <1>0, <1>3, NextTyped DEF Login!Selected, MitidTypes
  <2>2. loc' \in {"app_start", "token_init", "failed"} /\ clock' = clock /\ clock = 0
    BY <1>0, <1>3 DEF Login!Selected, Rounds
  <2> QED
    BY <1>0, <1>3, <2>1, <2>2 DEF Login!Selected, MitidTypes, Login!Locs, Login!Ended
<1>4. ASSUME NEW label \in Login!Labels, Login!PasswordAsked(label) PROVE Good
  <2>1. CurOK' /\ ServerOK'
    <3>1. CASE label = "PASSWORD"
      BY <1>0, <1>4, <3>1, NextTyped DEF Login!PasswordAsked, MitidTypes
    <3>2. CASE label # "PASSWORD"
      BY <1>0, <1>4, <3>2 DEF Login!PasswordAsked, Login!Issues, MitidTypes, CurOK, ServerOK
    <3> QED
      BY <3>1, <3>2
  <2>2. loc' \in {"pass_init", "failed"}
    BY <1>4 DEF Login!PasswordAsked
  <2> QED
    BY <1>0, <1>4, <2>1, <2>2 DEF Login!PasswordAsked, MitidTypes, Login!Locs, Login!Ended
<1>5. ASSUME Login!AppStarted \/ Login!SleepEnds PROVE Good
  <2>1. UNCHANGED <<method, cur, Login!asked, aborted, Login!mitid>>
        /\ clock' \in {clock, clock + 1} /\ loc' = Login!PollOrStop /\ clock <= MaxPoll
    BY <1>0, <1>5 DEF Login!AppStarted, Login!SleepEnds, Rounds, MitidTypes
  <2>2. clock' \in 0..MaxPoll + 2 /\ MaxPoll \in Nat
    BY <1>0, <2>1 DEF MitidTypes
  <2>3. CASE aborted \/ clock' > MaxPoll
    <3>1. loc' = "failed"
      BY <2>1, <2>3 DEF Login!PollOrStop
    <3> QED
      BY <1>0, <2>1, <2>2, <3>1 DEF MitidTypes, CurOK, ServerOK, Login!Locs, Login!Ended
  <2>4. CASE ~aborted /\ ~(clock' > MaxPoll)
    <3>1. loc' = "poll"
      BY <2>1, <2>4 DEF Login!PollOrStop
    <3>2. clock' <= MaxPoll
      BY <2>2, <2>4
    <3> QED
      BY <1>0, <2>1, <2>2, <3>1, <3>2 DEF MitidTypes, CurOK, ServerOK, Login!Locs
  <2> QED
    BY <2>3, <2>4
<1>6. ASSUME Login!PollGoesOn PROVE Good
  <2>1. UNCHANGED Login!mitidVars /\ loc' = "sleep" /\ clock <= MaxPoll
    BY <1>0, <1>6 DEF Login!PollGoesOn, Rounds
  <2> QED
    BY <1>same, <2>1 DEF Login!Locs
<1>7. ASSUME Login!PollCompleted PROVE Good
  BY <1>0, <1>7 DEF Login!PollCompleted, MitidTypes, CurOK, ServerOK, Login!Locs
<1>8. ASSUME Login!SleepAborted PROVE Good
  <2>1. UNCHANGED Login!mitidVars /\ loc' = "failed"
    BY <1>8 DEF Login!SleepAborted
  <2> QED
    BY <1>same, <2>1 DEF Login!Locs, Login!Ended
<1>9. ASSUME NEW m2 \in BOOLEAN, Login!AppProved(m2) PROVE Good
  <2>1. peerKnown' \in BOOLEAN /\ loc' \in {"app_verify", "failed"}
    BY <1>9 DEF Login!AppProved
  <2> QED
    BY <1>0, <1>9, <2>1 DEF Login!AppProved, MitidTypes, CurOK, ServerOK, Login!Locs,
       Login!Ended
<1>10. ASSUME NEW f \in Login!Methods \cup {"PASSWORD"}, accepted' = Append(accepted, f)
       PROVE  accepted' \in Seq(Login!Methods \cup {"PASSWORD"})
  BY <1>0, <1>10, AppendProperties DEF MitidTypes
<1>11. ASSUME Login!AppVerified \/ Login!TokenProved \/ Login!PasswordProved PROVE Good
  <2>1. \E f \in Login!Methods \cup {"PASSWORD"} : accepted' = Append(accepted, f)
    BY <1>11 DEF Login!AppVerified, Login!TokenProved, Login!PasswordProved, Login!Proved,
       Login!Methods
  <2>2. accepted' \in Seq(Login!Methods \cup {"PASSWORD"})
    BY <1>10, <2>1
  <2>3. UNCHANGED <<method, cur, Login!asked, clock, aborted, server, approved>>
        /\ loc' \in {"next_proved", "next_token"}
    BY <1>11 DEF Login!AppVerified, Login!TokenProved, Login!PasswordProved, Login!Proved
  <2> QED
    BY <1>0, <2>2, <2>3 DEF MitidTypes, CurOK, ServerOK, Login!Locs
<1>12. ASSUME Login!FactorsDone PROVE Good
  BY <1>0, <1>12 DEF Login!FactorsDone, MitidTypes, CurOK, ServerOK, Login!Locs
<1>13. Good
  BY <1>1, <1>2, <1>3, <1>4, <1>5, <1>6, <1>7, <1>8, <1>9, <1>11, <1>12
     DEF Login!MitidAnswer
<1> QED
  BY <1>13 DEF LoginTypes, Login!TypeOK, MitidTypes, CurOK, ServerOK, Rounds, Login!chain

LEMMA UserTyped == LoginTypes /\ Login!User => LoginTypes'
<1> SUFFICES ASSUME LoginTypes, Login!User PROVE LoginTypes'
  OBVIOUS
<1> USE Ranges DEF LoginLimits, Login!asked, Login!mitid
<1>1. CASE Login!Prompted /\ UNCHANGED Login!chain
  <2>1. UNCHANGED <<Login!mitidVars, Login!chain>> /\ loc = "prompt"
        /\ loc' \in {"token_init", "next_select"}
    BY <1>1 DEF Login!Prompted
  <2> QED
    BY <2>1 DEF LoginTypes, Login!TypeOK, Rounds, Login!mitidVars, Login!chain, Login!Locs
<1>2. CASE (Login!Approve \/ Login!Abort) /\ UNCHANGED Login!chain
  <2>1. UNCHANGED <<loc, method, cur, response, peerKnown, final, clock, server, accepted>>
        /\ UNCHANGED Login!chain
    BY <1>2 DEF Login!Approve, Login!Abort
  <2>2. approved \in BOOLEAN /\ aborted \in BOOLEAN
    BY DEF LoginTypes, Login!TypeOK
  <2>3. approved' \in BOOLEAN /\ aborted' \in BOOLEAN
    BY <1>2, <2>2 DEF Login!Approve, Login!Abort
  <2> QED
    BY <2>1, <2>3 DEF LoginTypes, Login!TypeOK, Rounds, Login!chain
<1>3. CASE Login!IdentityChosen
  <2>1. Login!Enters("option", "mitid", "POST")
    BY <1>3 DEF Login!IdentityChosen
  <2>2. /\ UNCHANGED <<Login!mitidVars, asksIdentity, answers>>
        /\ loc' = "option" /\ loginHop' = 0 /\ tries' = 0 /\ host' = "mitid" /\ verb' = "POST"
    BY <2>1, EntersTyped
  <2> QED
    BY <2>2 DEF LoginTypes, Login!TypeOK, Rounds, Login!mitidVars, Login!Locs, Login!Hosts
<1>4. CASE Login!IdentityRefused
  BY <1>4 DEF Login!IdentityRefused, Login!Goes, LoginTypes, Login!TypeOK, Rounds,
     Login!mitidVars, Login!Locs, Login!Ended
<1> QED
  BY <1>1, <1>2, <1>3, <1>4 DEF Login!User

LEMMA LoginTyped == LoginTypes /\ [Login!Next]_loginVars => LoginTypes'
<1>1. LoginTypes /\ UNCHANGED loginVars => LoginTypes'
  BY DEF LoginTypes, Login!TypeOK, Rounds, loginVars
<1> QED
  BY <1>1, ChainTyped, MitidTyped, UserTyped DEF Login!Next, Login!Answer

\* The number of what was admitted in this tick is within the budget.
WithinLimit(h, limit) == h \subseteq Limits!Recent \X (1..limit)
LEMMA OneMoreTyped ==
  ASSUME NEW w, NEW h, NEW limit \in Nat, Spans(w, h, limit), WithinLimit(h, limit),
         ~Limits!Exhausted(w, limit)
  PROVE  WithinLimit(Limits!OneMore(h), limit)
<1> DEFINE r == Limits!Roll(w)
<1>1. Spans(r, h, limit) /\ r.count < limit /\ r.count \in Nat /\ r.age \in Nat
  BY Rolled, Budgets DEF Limits!Exhausted, Spans, Limits!Age
<1>2. Limits!Now(h) \subseteq Current(r, h) /\ Current(r, h) \subseteq h
  BY <1>1 DEF Limits!Now, Current
<1>3. /\ IsFiniteSet(Current(r, h)) /\ IsFiniteSet(Limits!Now(h))
      /\ Cardinality(Limits!Now(h)) <= Cardinality(Current(r, h))
      /\ Cardinality(Limits!Now(h)) \in Nat /\ Cardinality(Current(r, h)) \in Nat
  BY <1>1, <1>2, FS_Subset, FS_CardinalityType DEF Spans
<1>4. Cardinality(Limits!Now(h)) + 1 \in 1..limit
  BY <1>1, <1>3 DEF Spans
<1>5. Limits!Cardinality(Limits!Now(h)) = Cardinality(Limits!Now(h))
  BY DEF Limits!Cardinality, Limits!IsFiniteSet, Cardinality, IsFiniteSet
<1>6. <<0, Cardinality(Limits!Now(h)) + 1>> \in Limits!Recent \X (1..limit)
  BY <1>4, Budgets DEF Limits!Recent
<1> QED
  BY <1>5, <1>6 DEF WithinLimit, Limits!OneMore

LEMMA OlderTyped ==
  ASSUME NEW h, NEW limit, WithinLimit(h, limit)
  PROVE  WithinLimit(Limits!Older(h), limit)
BY DEF WithinLimit, Limits!Older

LimitTypes == WithinLimit(admitted, Limit) /\ WithinLimit(answered401, FailLimit)
LEMMA LimitsTyped == LimitInv /\ LimitTypes /\ [Limits!Next]_limitVars => LimitTypes'
<1> SUFFICES ASSUME LimitInv, LimitTypes, [Limits!Next]_limitVars PROVE LimitTypes'
  OBVIOUS
<1> USE Budgets DEF LimitInv, LimitTypes
<1>1. Limits!Admit => WithinLimit(admitted, Limit)'
  BY OneMoreTyped DEF Limits!Admit
<1>2. CASE Limits!Limited
  BY <1>2 DEF Limits!Limited
<1>3. CASE Limits!Serve \/ Limits!TooManyFailures
  BY <1>1, <1>3 DEF Limits!Serve, Limits!TooManyFailures
<1>4. CASE Limits!Unauthorized
  BY <1>1, <1>4, OneMoreTyped DEF Limits!Unauthorized
<1>5. CASE Limits!Tick
  BY <1>5, OlderTyped DEF Limits!Tick
<1>6. CASE UNCHANGED limitVars
  BY <1>6 DEF limitVars
<1> QED
  BY <1>2, <1>3, <1>4, <1>5, <1>6 DEF Limits!Next

StartTypes == starts \subseteq Starts!Ages \X (1..LoginStartsPerWindow)
LEMMA StartsTyped == StartsInv /\ StartTypes /\ [Starts!Next]_startVars => StartTypes'
<1> SUFFICES ASSUME StartsInv, StartTypes, [Starts!Next]_startVars PROVE StartTypes'
  OBVIOUS
<1> USE Budgets DEF StartTypes
<1>1. CASE Starts!Accepted
  <2>1. Len(Starts!Shifted) < LoginStartsPerWindow /\ starts' = Starts!OneMore(starts)
    BY <1>1 DEF Starts!Accepted
  <2>2. Cardinality(starts) < LoginStartsPerWindow /\ IsFiniteSet(starts)
    BY <2>1, ShiftedMatches DEF StartsInv, Numbered
  <2>3. Starts!Now(starts) \subseteq starts
    BY DEF Starts!Now
  <2>4. /\ Cardinality(Starts!Now(starts)) <= Cardinality(starts)
        /\ Cardinality(Starts!Now(starts)) \in Nat /\ Cardinality(starts) \in Nat
    BY <2>2, <2>3, FS_Subset, FS_CardinalityType
  <2>5. Cardinality(Starts!Now(starts)) + 1 \in 1..LoginStartsPerWindow
    BY <2>2, <2>4
  <2>6. Starts!Cardinality(Starts!Now(starts)) = Cardinality(Starts!Now(starts))
    BY DEF Starts!Cardinality, Starts!IsFiniteSet, Cardinality, IsFiniteSet
  <2>7. <<0, Cardinality(Starts!Now(starts)) + 1>> \in Starts!Ages \X (1..LoginStartsPerWindow)
    BY <2>5 DEF Starts!Ages
  <2> QED
    BY <2>1, <2>6, <2>7 DEF Starts!OneMore
<1>2. CASE Starts!Tick
  BY <1>2 DEF Starts!Tick, Starts!Older
<1>3. CASE Starts!TooMany \/ Starts!InProgress \/ UNCHANGED startVars
  BY <1>3 DEF Starts!TooMany, Starts!InProgress, startVars
<1> QED
  BY <1>1, <1>2, <1>3 DEF Starts!Next

LEMMA TypesStart == Init => /\ Keys!TypeOK /\ Refresher!RTypeOK /\ FailureKnown /\ WidgetInv
                            /\ LimitTypes /\ StartTypes /\ Download!TypeOK /\ ApiTypes
                            /\ LoginTypes
<1> SUFFICES ASSUME Init
             PROVE  /\ Keys!TypeOK /\ Refresher!RTypeOK /\ FailureKnown /\ WidgetInv
                    /\ LimitTypes /\ StartTypes /\ Download!TypeOK /\ ApiTypes
                    /\ LoginTypes
  OBVIOUS
<1>0. /\ Keys!Init /\ Refresher!RInit /\ Limits!Init /\ Starts!Init /\ Download!Init
      /\ Api!Init /\ Login!Init
  BY DEF Init
<1>1. Keys!TypeOK
  <2>1. raced \in BOOLEAN
    BY <1>0 DEF Keys!Init
  <2> QED
    BY <1>0, <2>1, Bounds DEF Keys!Init, Keys!TypeOK, Keys!Key
<1>2. Refresher!RTypeOK /\ FailureKnown
  <2>1. lastError \in BOOLEAN /\ missed \in BOOLEAN
    BY <1>0 DEF Refresher!RInit, Refresher!Init
  <2> QED
   BY <1>0, <2>1, RefresherBounds DEF Refresher!RInit, Refresher!Init, Refresher!RTypeOK,
     Refresher!TypeOK, Refresher!Version, Refresher!Horizon, FailureKnown
<1>3. WidgetInv
  BY WidgetStart
<1>4. LimitTypes /\ StartTypes
  BY <1>0 DEF Limits!Init, Starts!Init, LimitTypes, StartTypes, WithinLimit
<1>5. Download!TypeOK
  <2>1. body \in 0..MaxBody /\ settled = FALSE /\ lost = FALSE /\ wire = "open"
    BY <1>0 DEF Download!Init
  <2>2. settled = (wire # "open") /\ settled \in BOOLEAN /\ lost \in BOOLEAN
    BY <2>1
  <2> QED
    BY <1>0, <2>1, <2>2, Bounds DEF Download!Init, Download!TypeOK
<1>6. ApiTypes
  <2>1. versionVerified \in BOOLEAN /\ ~versionVerified /\ selected \in BOOLEAN /\ mixed \in BOOLEAN
    BY <1>0 DEF Api!Init
  <2> QED
    BY <1>0, <2>1, ApiLimits, Bounds DEF Api!Init, ApiTypes, Api!TypeOK, ApiBounds
<1>7. LoginTypes
  <2>1. /\ method \in Login!Methods \cup {"silent"} /\ asksIdentity \in BOOLEAN
        /\ loc \in {"silent", "walk"}
        /\ loginHop = 0 /\ tries = 0 /\ host = "aula" /\ verb = "GET" /\ answers = "none"
    BY <1>0 DEF Login!Init
  <2>2. /\ cur = Login!NoAuthenticator /\ response = 0 /\ peerKnown = FALSE
        /\ final = FALSE /\ clock = 0 /\ aborted = FALSE
        /\ server = [type |-> "none", id |-> 0] /\ approved = FALSE /\ accepted = <<>>
    BY <1>0 DEF Login!Init, Login!MitidInit
  <2>3. accepted \in Seq(Login!Methods \cup {"PASSWORD"})
    BY <2>2, EmptySeq
  <2>0. peerKnown \in BOOLEAN /\ final \in BOOLEAN /\ aborted \in BOOLEAN /\ approved \in BOOLEAN
    BY <2>2
  <2>4. /\ cur.type = "none" /\ {cur.session, cur.key, cur.eafe, response} \subseteq 0..MaxIssued
        /\ server.id \in 0..MaxIssued /\ {peerKnown, final, aborted, approved} \subseteq BOOLEAN
        /\ clock \in 0..MaxPoll + 2 /\ 0 <= MaxPoll
    BY <2>0, <2>2, Ranges DEF LoginLimits, Login!NoAuthenticator
  <2>5. /\ 0 < ChainHops /\ loginHop \in 0..ChainHops /\ tries \in 0..IdpTries
        /\ loc \in Login!Locs /\ host \in Login!Hosts
    BY <2>1, Ranges DEF LoginLimits, Login!Locs, Login!Hosts
  <2> QED
    BY <2>1, <2>2, <2>3, <2>4, <2>5 DEF LoginTypes, Login!TypeOK, Rounds
<1> QED
  BY <1>1, <1>2, <1>3, <1>4, <1>5, <1>6, <1>7

\* The nine components never leave their types, whatever the values of the constants: no
\* budget is counted past its limit, no list, hop, try or poll past its bound, and no
\* number of a token, key, version or residue past those there are.
THEOREM PartsTyped == Spec => []PartsTypeOK
<1>1. LimitInv /\ LimitTypes => Limits!TypeOK
  BY Budgets DEF LimitInv, LimitTypes, WithinLimit, Spans, Limits!TypeOK, Limits!Window
<1>2. StartsInv /\ StartTypes => Starts!TypeOK
  BY DEF StartsInv, StartTypes, Ordered, Starts!TypeOK
<1>3. /\ Keys!TypeOK /\ Refresher!RTypeOK /\ WidgetInv /\ Limits!TypeOK /\ Starts!TypeOK
      /\ Download!TypeOK /\ ApiTypes /\ LoginTypes /\ HandshakeInv
      => PartsTypeOK
  BY DEF PartsTypeOK, WidgetInv, ApiTypes, LoginTypes, HandshakeInv
<1> QED
  BY <1>1, <1>2, <1>3, PartSteps, TypesStart, LimitStart, StartsStart, HandshakeStart,
     KeysTyped, ReadinessTyped, FailureKnownKept, WidgetStep, LimitStep, LimitsTyped,
     StartsStep, StartsTyped, DownloadTyped, ApiTyped, LoginTyped, HandshakeStep, PTL
     DEF Spec
=============================================================================
