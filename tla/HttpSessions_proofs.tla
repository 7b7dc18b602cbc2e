-------------------------- MODULE HttpSessions_proofs --------------------------
(***************************************************************************)
(* Theorems about the sessions of the HTTP server (HttpSessions), for any  *)
(* number of requests and of apps, and all caps.                           *)
(***************************************************************************)
EXTENDS HttpSessions, FiniteSetTheorems, TLAPS

LEMMA Bounds == /\ None \notin App /\ IdleMs \in Nat
                /\ HttpMax \in Nat \ {0} /\ SseMax \in Nat /\ MaxConcurrent \in Nat \ {0}
BY HttpSessionsAssumption

-----------------------------------------------------------------------------
Shape == /\ phase \in [App -> {"none", "new", "live", "closing"}]
         /\ kind \in [App -> {"http", "sse"}]
         /\ disposals \in [App -> Nat]
         /\ route \in [App -> {"none", "connect", "await"}]
         /\ stage \in [Req -> {"idle", "reading", "call", "init", "doomed", "dropping",
                               "delete", "parse"}]
         /\ on \in [Req -> App \cup {None}]

\* Who builds a session's app, or hands it a message.
Building(r) == stage[r] \in {"init", "doomed"}
Owned == /\ \A r \in Req : stage[r] \in {"init", "doomed", "dropping", "delete", "parse",
                                         "call"} => on[r] \in App
         /\ \A r \in Req : Building(r) => phase[on[r]] = "new" /\ kind[on[r]] = "http"
         /\ \A q, r \in Req : Building(q) /\ Building(r) /\ on[q] = on[r] => q = r
         /\ \A a \in App : phase[a] = "new" => \E r \in Req : Building(r) /\ on[r] = a
         /\ \A a \in App : disposals[a] = 0 \/ (disposals[a] = 1 /\ phase[a] = "none")

OwnInv == Shape /\ Owned

LEMMA OwnKept == OwnInv /\ [Next]_vars => OwnInv'
<1> SUFFICES ASSUME OwnInv, [Next]_vars PROVE OwnInv'
  OBVIOUS
<1> USE Bounds DEF OwnInv, Shape, Owned, Building, Goto, Finish, StartClose, requests, system,
        apps
<1>1. ASSUME NEW r \in Req, PostArrives(r) PROVE OwnInv'
  BY <1>1 DEF PostArrives
<1>2. ASSUME NEW r \in Req, TurnedAway(r) PROVE OwnInv'
  BY <1>2 DEF TurnedAway
<1>3. ASSUME NEW r \in Req, CallDone(r) PROVE OwnInv'
  BY <1>3 DEF CallDone
<1>4. ASSUME NEW r \in Req, NEW a \in App, ToSession(r, a) PROVE OwnInv'
  BY <1>4 DEF ToSession, Touch, Live
<1>5. ASSUME NEW r \in Req, NEW a \in App, Initialize(r, a) PROVE OwnInv'
  BY <1>5 DEF Initialize, NewApp, Free
<1>6. ASSUME NEW r \in Req, NEW a \in App, Stray(r, a) PROVE OwnInv'
  BY <1>6 DEF Stray, NewApp, Free
<1>7. ASSUME NEW r \in Req, Initialized(r) PROVE OwnInv'
  BY <1>7 DEF Initialized
<1>8. ASSUME NEW r \in Req, InitFails(r) PROVE OwnInv'
  BY <1>8 DEF InitFails, ClosesPair
<1>9. ASSUME NEW r \in Req, Dropped(r) PROVE OwnInv'
  BY <1>9 DEF Dropped
<1>10. ASSUME NEW r \in Req, NEW a \in App, Delete(r, a) PROVE OwnInv'
  BY <1>10 DEF Delete, Live
<1>11. ASSUME NEW r \in Req, SessionClosed(r) PROVE OwnInv'
  BY <1>11 DEF SessionClosed, DisposesOnce
<1>12. ASSUME NEW a \in App, OpenSse(a) PROVE OwnInv'
  BY <1>12 DEF OpenSse, NewApp, Free
<1>13. ASSUME NEW a \in App, Connected(a) \/ ConnectFails(a) PROVE OwnInv'
  BY <1>13 DEF Connected, ConnectFails
<1>14. ASSUME NEW a \in App, Abort(a) PROVE OwnInv'
  BY <1>14 DEF Abort
<1>15. ASSUME NEW r \in Req, NEW a \in App, Message(r, a) PROVE OwnInv'
  BY <1>15 DEF Message, Live
<1>16. ASSUME NEW r \in Req, Received(r) PROVE OwnInv'
  BY <1>16 DEF Received
<1>17. ASSUME NEW a \in App, AnswerSse(a) PROVE OwnInv'
  BY <1>17 DEF AnswerSse
<1>18. ASSUME NEW a \in App, Closed(a) PROVE OwnInv'
  BY <1>18 DEF Closed, Settle
<1>19. CASE Sweep \/ Shutdown
  BY <1>19 DEF Sweep, Shutdown
<1>20. CASE Stop \/ Tick \/ UNCHANGED vars
  BY <1>20 DEF Stop, Tick, vars
<1> QED
  BY <1>1, <1>2, <1>3, <1>4, <1>5, <1>6, <1>7, <1>8, <1>9, <1>10, <1>11, <1>12, <1>13,
     <1>14, <1>15, <1>16, <1>17, <1>18, <1>19, <1>20 DEF Next, Progress, AppStep

LEMMA OwnStart == Init => OwnInv
BY Bounds DEF Init, OwnInv, Shape, Owned, Building

\* For every number of requests and apps, no app is lost: one that is being built has
\* exactly one request that builds it, and its context is disposed at most once, after
\* its session has left the map (http-app.ts:119-152, 293-321).
THEOREM AppsAreAccountedFor == Spec => []AppsAccountedFor
<1>1. OwnInv => AppsAccountedFor
  <2> SUFFICES ASSUME OwnInv, NEW a \in App
               PROVE  /\ phase[a] = "new" =>
                           Cardinality({r \in Req : on[r] = a
                                                    /\ stage[r] \in {"init", "doomed"}}) = 1
                      /\ disposals[a] <= 1 /\ (disposals[a] = 1 => phase[a] = "none")
    BY DEF AppsAccountedFor
  <2>1. disposals[a] <= 1 /\ (disposals[a] = 1 => phase[a] = "none")
    BY DEF OwnInv, Owned
  <2>2. ASSUME phase[a] = "new"
        PROVE  Cardinality({r \in Req : on[r] = a /\ stage[r] \in {"init", "doomed"}}) = 1
    <3>1. PICK r \in Req : Building(r) /\ on[r] = a
      BY <2>2 DEF OwnInv, Owned
    <3>2. {q \in Req : on[q] = a /\ stage[q] \in {"init", "doomed"}} = {r}
      BY <3>1 DEF OwnInv, Owned, Building
    <3> QED
      BY <3>2, FS_Singleton
  <2> QED
    BY <2>1, <2>2
<1> QED
  BY <1>1, OwnStart, OwnKept, PTL DEF Spec

-----------------------------------------------------------------------------
(* The slots of boundedPost                                                *)

Holders == {r \in Req : slot[r]}
Slots == /\ slot \in [Req -> BOOLEAN]
         /\ IsFiniteSet(Holders)
         /\ inFlight = Cardinality(Holders) /\ inFlight <= MaxConcurrent
         /\ \A r \in Req : stage[r] \in {"reading", "init"} => slot[r]
         /\ \A r \in Req : stage[r] = "idle" => ~slot[r]

LEMMA SlotTaken ==
  ASSUME Slots, NEW r \in Req, PostArrives(r), OwnInv PROVE Slots'
<1>1. Holders' = Holders \cup {r} /\ r \notin Holders
  BY DEF Slots, PostArrives, Holders, Goto
<1>2. IsFiniteSet(Holders') /\ Cardinality(Holders') = Cardinality(Holders) + 1
  BY <1>1, FS_AddElement DEF Slots
<1>3. inFlight \in Nat
  BY FS_CardinalityType DEF Slots
<1>4. inFlight' = Cardinality(Holders') /\ inFlight' <= MaxConcurrent
  BY <1>2, <1>3, Bounds DEF Slots, PostArrives, SlotLeft
<1>5. slot' \in [Req -> BOOLEAN]
  BY DEF Slots, PostArrives
<1>6. /\ \A q \in Req : stage'[q] \in {"reading", "init"} => slot'[q]
      /\ \A q \in Req : stage'[q] = "idle" => ~slot'[q]
  BY DEF Slots, PostArrives, Goto, OwnInv, Shape
<1> QED
  BY <1>2, <1>4, <1>5, <1>6 DEF Slots

\* Whoever finishes gives back the slot it had, and no other.
LEMMA SlotFreed ==
  ASSUME Slots, NEW r \in Req, Finish(r), OwnInv PROVE Slots'
<1>1. Holders' = Holders \ {r}
  BY DEF Slots, Finish, Holders
<1>2. IsFiniteSet(Holders')
      /\ Cardinality(Holders') = IF r \in Holders THEN Cardinality(Holders) - 1
                                                  ELSE Cardinality(Holders)
  BY <1>1, FS_RemoveElement DEF Slots
<1>3. inFlight \in Nat
  BY FS_CardinalityType DEF Slots
<1>4. inFlight' = Cardinality(Holders') /\ inFlight' <= MaxConcurrent
  BY <1>2, <1>3, Bounds DEF Slots, Finish, FreesSlot, Holders
<1>5. slot' \in [Req -> BOOLEAN]
  BY DEF Slots, Finish
<1>6. /\ \A q \in Req : stage'[q] \in {"reading", "init"} => slot'[q]
      /\ \A q \in Req : stage'[q] = "idle" => ~slot'[q]
  BY DEF Slots, Finish, Goto, OwnInv, Shape
<1> QED
  BY <1>2, <1>4, <1>5, <1>6 DEF Slots

LEMMA SlotsKept == OwnInv /\ Slots /\ [Next]_vars => Slots'
<1> SUFFICES ASSUME OwnInv, Slots, [Next]_vars PROVE Slots'
  OBVIOUS
<1>1. ASSUME NEW r \in Req, PostArrives(r) PROVE Slots'
  BY <1>1, SlotTaken
<1>2. ASSUME NEW r \in Req, Finish(r) PROVE Slots'
  BY <1>2, SlotFreed
<1>3. ASSUME UNCHANGED requests PROVE Slots'
  BY <1>3 DEF Slots, Holders, requests
<1>4. ASSUME NEW r \in Req, UNCHANGED <<slot, inFlight>>,
             NEW label \in {"call", "init", "doomed", "dropping", "delete", "parse"},
             stage' = [stage EXCEPT ![r] = label],
             label = "init" => stage[r] \in {"reading"}
      PROVE  Slots'
  BY <1>4 DEF Slots, Holders, OwnInv, Shape
<1>5. ASSUME NEW r \in Req, NEW a \in App, ToSession(r, a) \/ Delete(r, a) \/ Stray(r, a)
      PROVE  Slots'
  BY <1>5, <1>4 DEF ToSession, Delete, Stray, Goto
<1>6. ASSUME NEW r \in Req, NEW a \in App, Initialize(r, a) \/ Message(r, a)
      PROVE  Slots'
  BY <1>6, <1>4 DEF Initialize, Message, Goto
<1>7. ASSUME NEW r \in Req, Initialized(r) \/ InitFails(r) PROVE Slots'
  BY <1>7, <1>4 DEF Initialized, InitFails, Goto
<1>8. ASSUME NEW r \in Req,
             TurnedAway(r) \/ Dropped(r) \/ CallDone(r) \/ SessionClosed(r) \/ Received(r)
      PROVE  Slots'
  BY <1>8, <1>2 DEF TurnedAway, Dropped, CallDone, SessionClosed, Received
<1>9. ASSUME NEW a \in App, AppStep(a) \/ OpenSse(a) \/ Abort(a) PROVE Slots'
  BY <1>9, <1>3 DEF AppStep, OpenSse, Abort, Closed, Connected, ConnectFails, AnswerSse
<1>10. CASE Sweep \/ Shutdown \/ Stop \/ Tick \/ UNCHANGED vars
  BY <1>10, <1>3 DEF Sweep, Shutdown, Stop, Tick, vars
<1> QED
  BY <1>1, <1>5, <1>6, <1>7, <1>8, <1>9, <1>10 DEF Next, Progress

-----------------------------------------------------------------------------
(* The caps                                                                *)

\* Of either kind of session, and of the requests that are building one.
Streams == Live("sse")
Sessions == Live("http")
Finite == IsFiniteSet(Streams) /\ IsFiniteSet(Sessions) /\ IsFiniteSet(Initialising)
Overshoot == IF overlapped THEN MaxConcurrent - 1 ELSE 0
Counted == Cardinality(Sessions) + Cardinality(Initialising)
Capped == /\ Finite
          /\ Cardinality(Streams) <= SseMax
          /\ Counted <= HttpMax + Overshoot
          /\ overlapped \in BOOLEAN

\* A request that builds a session holds a slot, so they are never more than the slots.
LEMMA BuildersHoldSlots == Slots => Cardinality(Initialising) <= MaxConcurrent
<1> SUFFICES ASSUME Slots PROVE Cardinality(Initialising) <= MaxConcurrent
  OBVIOUS
<1>1. Initialising \in SUBSET Holders
  BY DEF Slots, Holders, Initialising
<1>2. IsFiniteSet(Initialising) /\ Cardinality(Initialising) <= Cardinality(Holders)
  BY <1>1, FS_Subset DEF Slots
<1>3. Cardinality(Initialising) \in Nat /\ Cardinality(Holders) \in Nat
  BY <1>2, FS_CardinalityType DEF Slots
<1> QED
  BY <1>2, <1>3, Bounds DEF Slots

\* A step that adds nothing to any of the three sets keeps the caps.
LEMMA ShrinkingKeepsCaps ==
  ASSUME Capped, Streams' \subseteq Streams, Sessions' \subseteq Sessions,
         Initialising' \subseteq Initialising, overlapped' = overlapped
  PROVE  Capped'
<1>1. /\ IsFiniteSet(Streams') /\ Cardinality(Streams') <= Cardinality(Streams)
      /\ IsFiniteSet(Sessions') /\ Cardinality(Sessions') <= Cardinality(Sessions)
      /\ IsFiniteSet(Initialising')
      /\ Cardinality(Initialising') <= Cardinality(Initialising)
  BY FS_Subset DEF Capped, Finite
<1>2. /\ Cardinality(Streams) \in Nat /\ Cardinality(Streams') \in Nat
      /\ Cardinality(Sessions) \in Nat /\ Cardinality(Sessions') \in Nat
      /\ Cardinality(Initialising) \in Nat /\ Cardinality(Initialising') \in Nat
  BY <1>1, FS_CardinalityType DEF Capped, Finite
<1>3. Overshoot' = Overshoot /\ Overshoot \in Int
  BY Bounds DEF Overshoot
<1>4. Cardinality(Streams') <= SseMax
  BY <1>1, <1>2, Bounds DEF Capped
<1>5. Counted' <= HttpMax + Overshoot'
  BY <1>1, <1>2, <1>3, Bounds DEF Capped, Counted
<1> QED
  BY <1>1, <1>4, <1>5 DEF Capped, Finite

LEMMA StreamOpened == ASSUME OwnInv, Capped, NEW a \in App, OpenSse(a) PROVE Capped'
<1>1. /\ Streams' = Streams \cup {a} /\ a \notin Streams
      /\ Sessions' = Sessions /\ Initialising' = Initialising
  BY DEF OwnInv, Shape, OpenSse, NewApp, Free, Streams, Sessions, Live, Initialising,
         requests
<1>2. IsFiniteSet(Streams') /\ Cardinality(Streams') = Cardinality(Streams) + 1
  BY <1>1, FS_AddElement DEF Capped, Finite
<1>3. Cardinality(Streams) \in Nat
  BY FS_CardinalityType DEF Capped, Finite
<1>4. Cardinality(Streams') <= SseMax
  BY <1>2, <1>3, Bounds DEF OpenSse, RoomForSse, Streams
<1> QED
  BY <1>1, <1>2, <1>4 DEF Capped, Finite, Counted, Overshoot, OpenSse, system

\* The look at the cap and the write to the map are two steps.  The request that looked
\* while nobody else was between them is within the cap; any other leaves at most
\* MaxConcurrent - 1 besides itself.
LEMMA SessionBegun ==
  ASSUME OwnInv, Capped, Slots', NEW r \in Req, NEW a \in App, Initialize(r, a)
  PROVE  Capped'
<1>1. /\ Initialising' = Initialising \cup {r} /\ r \notin Initialising
      /\ Sessions' = Sessions /\ Streams' = Streams
  BY DEF OwnInv, Shape, Initialize, NewApp, Free, Goto, Streams, Sessions, Live,
         Initialising
<1>2. IsFiniteSet(Initialising') /\ Cardinality(Initialising') = Cardinality(Initialising) + 1
  BY <1>1, FS_AddElement DEF Capped, Finite
<1>3. Cardinality(Initialising) \in Nat /\ Cardinality(Sessions) \in Nat
  BY FS_CardinalityType DEF Capped, Finite
<1>4. Cardinality(Sessions) < HttpMax
  BY DEF Initialize, RoomForHttp, Sessions
<1>5. (Cardinality(Initialising) <= MaxConcurrent)'
  BY BuildersHoldSlots, PTL
<1>6. overlapped' = (overlapped \/ Initialising # {})
  BY DEF Initialize
<1>7. CASE Initialising = {}
  <2>1. Cardinality(Initialising) = 0
    BY <1>7, FS_EmptySet
  <2>2. Overshoot' >= 0
    BY Bounds DEF Overshoot
  <2>3. Overshoot' \in Int /\ Counted' <= HttpMax + Overshoot'
    BY <1>1, <1>2, <1>3, <1>4, <2>1, <2>2, Bounds DEF Counted, Overshoot
  <2> QED
    BY <1>1, <1>2, <1>6, <2>3 DEF Capped, Finite
<1>8. CASE Initialising # {}
  <2>1. Overshoot' = MaxConcurrent - 1
    BY <1>6, <1>8 DEF Overshoot
  <2>2. Counted' <= HttpMax + Overshoot'
    BY <1>1, <1>2, <1>3, <1>4, <1>5, <2>1, Bounds DEF Counted
  <2> QED
    BY <1>1, <1>2, <1>6, <2>2 DEF Capped, Finite
<1> QED
  BY <1>7, <1>8

\* The session that is initialised moves from one set to the other.
LEMMA SessionEntered == ASSUME OwnInv, Capped, NEW r \in Req, Initialized(r) PROVE Capped'
<1> DEFINE a == on[r]
<1>1. a \in App /\ phase[a] = "new" /\ kind[a] = "http" /\ stage[r] = "init"
  BY DEF OwnInv, Owned, Building, Initialized
<1>2. /\ Initialising' = Initialising \ {r} /\ r \in Initialising
      /\ Sessions' = Sessions \cup {a} /\ a \notin Sessions
      /\ Streams' = Streams
  BY <1>1 DEF OwnInv, Shape, Initialized, Goto, Streams, Sessions, Live, Initialising
<1>3. /\ IsFiniteSet(Initialising')
      /\ Cardinality(Initialising') = Cardinality(Initialising) - 1
      /\ IsFiniteSet(Sessions') /\ Cardinality(Sessions') = Cardinality(Sessions) + 1
  BY <1>2, FS_AddElement, FS_RemoveElement DEF Capped, Finite
<1>4. Cardinality(Initialising) \in Nat /\ Cardinality(Sessions) \in Nat
  BY FS_CardinalityType DEF Capped, Finite
<1>5. Counted' = Counted /\ overlapped' = overlapped
  BY <1>3, <1>4 DEF Counted, Initialized, system
<1> QED
  BY <1>2, <1>3, <1>5 DEF Capped, Finite, Overshoot

LEMMA CapsKept == OwnInv /\ Slots' /\ Capped /\ [Next]_vars => Capped'
<1> SUFFICES ASSUME OwnInv, Slots', Capped, [Next]_vars PROVE Capped'
  OBVIOUS
<1> DEFINE Nothing == /\ Streams' \subseteq Streams /\ Sessions' \subseteq Sessions
                      /\ Initialising' \subseteq Initialising /\ overlapped' = overlapped
<1>0. Nothing => Capped'
  BY ShrinkingKeepsCaps
<1> HIDE DEF Nothing
<1>1. ASSUME NEW a \in App, OpenSse(a) PROVE Capped'
  BY <1>1, StreamOpened
<1>2. ASSUME NEW r \in Req, NEW a \in App, Initialize(r, a) PROVE Capped'
  BY <1>2, SessionBegun
<1>3. ASSUME NEW r \in Req, Initialized(r) PROVE Capped'
  BY <1>3, SessionEntered
<1> USE DEF Nothing, OwnInv, Shape, Streams, Sessions, Live, Initialising, Goto, Finish,
        apps, requests, system
<1>4. ASSUME NEW r \in Req, PostArrives(r) \/ TurnedAway(r) \/ Dropped(r) \/ CallDone(r)
      PROVE  Nothing
  BY <1>4 DEF PostArrives, TurnedAway, Dropped, CallDone
<1>5. ASSUME NEW r \in Req, InitFails(r) PROVE Nothing
  BY <1>5 DEF InitFails, ClosesPair, Owned, Building
<1>6. ASSUME NEW r \in Req, SessionClosed(r) PROVE Nothing
  BY <1>6 DEF SessionClosed, StartClose
<1>7. ASSUME NEW r \in Req, Received(r) PROVE Nothing
  BY <1>7 DEF Received
<1>8. ASSUME NEW r \in Req, NEW a \in App, ToSession(r, a) \/ Delete(r, a) \/ Message(r, a)
      PROVE  Nothing
  BY <1>8 DEF ToSession, Delete, Message
<1>9. ASSUME NEW r \in Req, NEW a \in App, Stray(r, a) PROVE Nothing
  BY <1>9 DEF Stray, NewApp, Free
<1>10. ASSUME NEW a \in App, AppStep(a) PROVE Nothing
  BY <1>10 DEF AppStep, Closed, Connected, ConnectFails, AnswerSse, StartClose
<1>11. ASSUME NEW a \in App, Abort(a) PROVE Nothing
  BY <1>11 DEF Abort, StartClose
<1>12. ASSUME Sweep \/ Shutdown PROVE Nothing
  BY <1>12 DEF Sweep, Shutdown, StartClose
<1>13. ASSUME Stop \/ Tick \/ UNCHANGED vars PROVE Nothing
  BY <1>13 DEF Stop, Tick, vars
<1> QED
  BY <1>0, <1>1, <1>2, <1>3, <1>4, <1>5, <1>6, <1>7, <1>8, <1>9, <1>10, <1>11, <1>12,
     <1>13 DEF Next, Progress

LEMMA CountsStart == Init => OwnInv /\ Slots /\ Capped
<1> SUFFICES ASSUME Init PROVE OwnInv /\ Slots /\ Capped
  OBVIOUS
<1>1. OwnInv
  BY OwnStart
<1>2. Holders = {} /\ Streams = {} /\ Sessions = {} /\ Initialising = {}
  BY DEF Init, Holders, Streams, Sessions, Initialising, Live
<1>3. IsFiniteSet({}) /\ Cardinality({}) = 0
  BY FS_EmptySet
<1>4. Slots
  BY <1>2, <1>3, Bounds DEF Init, Slots
<1>5. Finite /\ Cardinality(Streams) = 0 /\ Counted = 0
  BY <1>2, <1>3 DEF Finite, Counted
<1>6. overlapped = FALSE
  BY DEF Init
<1>7. Overshoot = 0 /\ overlapped \in BOOLEAN
  BY <1>6 DEF Overshoot
<1>8. Capped
  BY <1>5, <1>7, Bounds DEF Capped
<1> QED
  BY <1>1, <1>4, <1>8

\* For every number of requests and apps and all caps, the legacy streams stay within
\* theirs, and the Streamable HTTP sessions with those being built exceed theirs by at
\* most MaxConcurrent - 1, and only after two requests have looked at the cap before
\* either had entered the map (http-app.ts:267, 284-292, 329, 352-380).
THEOREM SessionsStayCapped == Spec => []SessionsCapped
<1>1. Capped => SessionsCapped
  BY DEF Capped, SessionsCapped, Streams, Sessions, Counted, Overshoot
<1> QED
  BY <1>1, CountsStart, OwnKept, SlotsKept, CapsKept, PTL DEF Spec

-----------------------------------------------------------------------------
(* Types                                                                   *)

Aged == age \in [App -> 0..(IdleMs + 1)]
Runs == running \in [App -> BOOLEAN]
Serves == server \in {"up", "closing", "stopped"}

LEMMA AgedKept == OwnInv /\ Aged /\ [Next]_vars => Aged'
<1> SUFFICES ASSUME OwnInv, Aged, [Next]_vars PROVE Aged'
  OBVIOUS
<1> USE Bounds DEF Aged
<1>1. ASSUME UNCHANGED age PROVE Aged'
  BY <1>1
<1>2. ASSUME NEW a \in App, Touch(a) PROVE Aged'
  BY <1>2 DEF Touch
<1>3. CASE Tick
  BY <1>3 DEF Tick
<1>4. ASSUME NEW a \in App, AnswerSse(a) PROVE Aged'
  BY <1>4 DEF AnswerSse
<1>5. ASSUME NEW r \in Req, Initialized(r) \/ Received(r) PROVE Aged'
  <2>1. on[r] \in App
    BY <1>5 DEF OwnInv, Owned, Initialized, Received
  <2> QED
    BY <1>2, <1>5, <2>1 DEF Initialized, Received
<1>6. ASSUME NEW r \in Req, NEW a \in App,
             ToSession(r, a) \/ Delete(r, a) \/ Initialize(r, a) \/ Stray(r, a)
      PROVE  Aged'
  BY <1>2, <1>6 DEF ToSession, Delete, Initialize, Stray, NewApp
<1>7. ASSUME NEW r \in Req,
             \/ PostArrives(r) \/ TurnedAway(r) \/ InitFails(r) \/ Dropped(r)
             \/ CallDone(r) \/ SessionClosed(r)
      PROVE  Aged'
  BY <1>1, <1>7 DEF PostArrives, TurnedAway, InitFails, Dropped, CallDone, SessionClosed,
     apps
<1>8. ASSUME NEW r \in Req, NEW a \in App, Message(r, a) PROVE Aged'
  BY <1>1, <1>8 DEF Message, apps
<1>9. ASSUME NEW a \in App,
             OpenSse(a) \/ Closed(a) \/ Connected(a) \/ ConnectFails(a) \/ Abort(a)
      PROVE  Aged'
  BY <1>1, <1>2, <1>9 DEF OpenSse, NewApp, Closed, Connected, ConnectFails, Abort
<1>10. CASE Sweep \/ Shutdown \/ Stop \/ UNCHANGED vars
  BY <1>1, <1>10 DEF Sweep, Shutdown, Stop, vars, apps
<1> QED
  BY <1>3, <1>4, <1>5, <1>6, <1>7, <1>8, <1>9, <1>10 DEF Next, Progress, AppStep

LEMMA RunsKept == Runs /\ Serves /\ [Next]_vars => Runs' /\ Serves'
<1> SUFFICES ASSUME Runs, Serves, [Next]_vars PROVE Runs' /\ Serves'
  OBVIOUS
<1> USE DEF Runs, Serves
<1>1. ASSUME UNCHANGED running PROVE Runs'
  BY <1>1
<1>2. ASSUME NEW r \in Req, Received(r) PROVE Runs'
  BY <1>2 DEF Received
<1>3. ASSUME NEW a \in App, AnswerSse(a) \/ Closed(a) PROVE Runs'
  BY <1>3 DEF AnswerSse, Closed
<1>4. ASSUME NEW r \in Req, NEW a \in App,
             \/ ToSession(r, a) \/ Delete(r, a) \/ Initialize(r, a) \/ Stray(r, a)
             \/ Message(r, a)
      PROVE  Runs' /\ Serves'
  BY <1>1, <1>4 DEF ToSession, Delete, Initialize, Stray, Message, apps, system
<1>5. ASSUME NEW r \in Req,
             \/ PostArrives(r) \/ TurnedAway(r) \/ InitFails(r) \/ Dropped(r)
             \/ CallDone(r) \/ SessionClosed(r) \/ Initialized(r)
      PROVE  Runs' /\ Serves'
  BY <1>1, <1>5 DEF PostArrives, TurnedAway, InitFails, Dropped, CallDone, SessionClosed,
     Initialized, apps, system
<1>6. ASSUME NEW a \in App, OpenSse(a) \/ Connected(a) \/ ConnectFails(a) \/ Abort(a)
      PROVE  Runs' /\ Serves'
  BY <1>1, <1>6 DEF OpenSse, Connected, ConnectFails, Abort, system
<1>7. CASE Sweep \/ Shutdown \/ Stop \/ Tick \/ UNCHANGED vars
  BY <1>1, <1>7 DEF Sweep, Shutdown, Stop, Tick, vars, apps, system
<1>8. ASSUME NEW r \in Req, Received(r) PROVE Serves'
  BY <1>8 DEF Received, system
<1>9. ASSUME NEW a \in App, AnswerSse(a) \/ Closed(a) PROVE Serves'
  BY <1>9 DEF AnswerSse, Closed, system
<1> QED
  BY <1>2, <1>3, <1>4, <1>5, <1>6, <1>7, <1>8, <1>9 DEF Next, Progress, AppStep

\* For every number of requests and apps, every variable of the server has its type:
\* the requests that hold a slot are counted exactly, so inFlight never goes below zero
\* nor above MaxConcurrent (http-app.ts:324-342).
THEOREM ServerTyped == Spec => []TypeOK
<1>1. Init => Aged /\ Runs /\ Serves
  BY Bounds DEF Init, Aged, Runs, Serves
<1>2. Slots => inFlight \in 0..MaxConcurrent
  BY FS_CardinalityType, Bounds DEF Slots
<1>3. OwnInv /\ Slots /\ Capped /\ Aged /\ Runs /\ Serves => TypeOK
  BY <1>2 DEF TypeOK, OwnInv, Shape, Slots, Capped, Aged, Runs, Serves
<1> QED
  BY <1>1, <1>3, CountsStart, OwnKept, SlotsKept, CapsKept, AgedKept, RunsKept,
     PTL DEF Spec
=============================================================================
