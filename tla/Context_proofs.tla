---------------------------- MODULE Context_proofs ----------------------------
(***************************************************************************)
(* Theorems about the sessions' contexts (AulaContext on TokenRefresher),  *)
(* for any number of contexts and of versions.                             *)
(***************************************************************************)
EXTENDS MCAulaContext, TLAPS

LEMMA Bounds == /\ None \notin Callers /\ None \notin Nat /\ "cache" \notin Callers
                /\ RecheckMs \in Nat /\ MaxLoad \in Nat /\ MaxVer \in Nat \ {0}
BY ContextAssumption DEF ContextAssumption, TokenRefresherAssumption

-----------------------------------------------------------------------------
(* Client, record and widget manager                                        *)

Kept == /\ client = [x \in Callers |-> client[x]]
        /\ record = [x \in Callers |-> record[x]]
        /\ widget = [x \in Callers |-> widget[x]]
        /\ disposed \in [Callers -> BOOLEAN]

LEMMA AnswerKeepsOne ==
  ASSUME Kept, OneSession, NEW X \in SUBSET Callers, NEW v, NEW W(_), Answer(X, v, W)
  PROVE  Kept' /\ OneSession'
BY DEF Kept, OneSession, Answer, RefusesToLoad, WidgetAfter

LEMMA OneKept == Kept /\ OneSession /\ [CNext]_cvars => Kept' /\ OneSession'
<1> SUFFICES ASSUME Kept, OneSession, [CNext]_cvars PROVE Kept' /\ OneSession'
  OBVIOUS
<1>1. ASSUME NEW x \in Callers, NEW w \in Wish, AskCached(x, w)
      PROVE  Kept' /\ OneSession'
  BY <1>1, AnswerKeepsOne DEF AskCached
<1>2. ASSUME NEW x \in Callers, NEW w \in Wish, AskLoad(x, w) \/ AskShared(x, w)
      PROVE  Kept' /\ OneSession'
  BY <1>2 DEF AskLoad, AskShared, Kept, OneSession
<1>3. ASSUME NEW c \in Callers, LoadSucceeds(c) PROVE Kept' /\ OneSession'
  BY <1>3, AnswerKeepsOne DEF LoadSucceeds
<1>4. ASSUME NEW c \in Callers, LoadFails(c) \/ LoadProgress(c) PROVE Kept' /\ OneSession'
  BY <1>4 DEF LoadFails, LoadProgress, session, Kept, OneSession
<1>5. ASSUME NEW x \in Callers, WatchFires(x) PROVE Kept' /\ OneSession'
  BY <1>5 DEF WatchFires, Kept, OneSession
<1>6. ASSUME NEW x \in Callers, Dispose(x) PROVE Kept' /\ OneSession'
  BY <1>6 DEF Dispose, Kept, OneSession
<1>7. ASSUME NEW x \in Callers, NEW v \in Version, GuardianKnown(x, v)
      PROVE  Kept' /\ OneSession'
  BY <1>7 DEF GuardianKnown, Kept, OneSession
<1>8. CASE Outside \/ UNCHANGED cvars
  BY <1>8 DEF Outside, cvars, session, Kept, OneSession
<1> QED
  BY <1>1, <1>2, <1>3, <1>4, <1>5, <1>6, <1>7, <1>8 DEF CNext

\* Client, record and widget manager of a context come from one set of tokens, and a
\* disposed context has none of them (aula-context.ts:161-173, 269-273, 330, 342-353).
THEOREM ContextsKeepOneSession == CSpec => []OneSession
<1>1. CInit => Kept /\ OneSession
  BY DEF CInit, Kept, OneSession
<1> QED
  BY <1>1, OneKept, PTL DEF CSpec

-----------------------------------------------------------------------------
(* Types, and who waits for what                                            *)

LEMMA RefresherTyped == TypeOK /\ Next => TypeOK'
<1> SUFFICES ASSUME TypeOK, Next PROVE TypeOK'
  OBVIOUS
<1> USE Bounds DEF TypeOK, Version, external, fields, loads, history
<1>1. ASSUME NEW c \in Callers, Join(c) PROVE TypeOK'
  BY <1>1 DEF Join
<1>2. ASSUME NEW c \in Callers, CacheHit(c) PROVE TypeOK'
  BY <1>2 DEF CacheHit, vars
<1>3. ASSUME NEW c \in Callers, StartLoad(c) PROVE TypeOK'
  BY <1>3 DEF StartLoad
<1>4. ASSUME NEW c \in Callers, ReadFresh(c) PROVE TypeOK'
  BY <1>4 DEF ReadFresh, Readable
<1>5. ASSUME NEW c \in Callers, ReadExpired(c) PROVE TypeOK'
  BY <1>5 DEF ReadExpired
<1>6. ASSUME NEW c \in Callers, Refreshed(c) PROVE TypeOK'
  BY SMTT(40), <1>6 DEF Refreshed
<1>7. ASSUME NEW c \in Callers, Adopted(c) PROVE TypeOK'
  BY <1>7 DEF Adopted
<1>8. ASSUME NEW c \in Callers, Succeed(c) PROVE TypeOK'
  <2>1. outdated' \subseteq Callers \cup {"cache"}
    BY <1>8 DEF Succeed
  <2>2. lastError' \in BOOLEAN
    BY <1>8 DEF Succeed, Settle
  <2> QED
    BY SMTT(40), <1>8, <2>1, <2>2 DEF Succeed, Settle
<1>9. ASSUME NEW c \in Callers, Fail(c) PROVE TypeOK'
  BY <1>9 DEF Fail, Settle, CacheAfterFailure
<1>10. CASE Invalidate
  BY <1>10 DEF Invalidate, Forget
<1>11. CASE Login
  BY <1>11 DEF Login
<1>12. CASE Logout
  BY <1>12 DEF Logout
<1>13. CASE Tick
  BY <1>13 DEF Tick, Horizon
<1>14. ASSUME NEW v \in Version, Expire(v) PROVE TypeOK'
  BY <1>14 DEF Expire
<1> QED
  BY <1>1, <1>2, <1>3, <1>4, <1>5, <1>6, <1>7, <1>8, <1>9, <1>10, <1>11, <1>12, <1>13,
     <1>14 DEF Next, LoadStep

SessionOK ==
    /\ client \in [Callers -> Version \cup {None}]
    /\ record \in [Callers -> Version \cup {None}]
    /\ widget \in [Callers -> Version \cup {None}]
    /\ guardian \in [Callers -> Version \cup {None}]
    /\ wishes \in [Callers -> SUBSET Wish]
    /\ asking \in [Callers -> SUBSET Version]
    /\ disposed \in [Callers -> BOOLEAN]
\* A context waits for getClient exactly while somebody wants something of it.
Waits == \A x \in Callers : wishes[x] # {} <=> waitsOn[x] # None

LEMMA AnswerTyped ==
  ASSUME SessionOK, NEW X \in SUBSET Callers, NEW v \in Version, NEW W(_),
         Answer(X, v, W)
  PROVE  SessionOK'
<1> USE DEF SessionOK, Answer, RefusesToLoad, WidgetAfter
<1>1. UNCHANGED <<guardian, disposed>> /\ wishes' \in [Callers -> SUBSET Wish]
  OBVIOUS
<1>2. /\ client' \in [Callers -> Version \cup {None}]
      /\ record' \in [Callers -> Version \cup {None}]
  OBVIOUS
<1>3. widget' \in [Callers -> Version \cup {None}]
  OBVIOUS
<1>4. asking' \in [Callers -> SUBSET Version]
  OBVIOUS
<1> QED
  BY <1>1, <1>2, <1>3, <1>4

LEMMA SessionTyped ==
    TypeOK /\ SessionOK /\ Waits /\ CNext => TypeOK' /\ SessionOK' /\ Waits'
<1> SUFFICES ASSUME TypeOK, SessionOK, Waits, CNext PROVE TypeOK' /\ SessionOK' /\ Waits'
  OBVIOUS
<1> USE Bounds
<1>1. ASSUME NEW x \in Callers, NEW w \in Wish, AskCached(x, w)
      PROVE  TypeOK' /\ SessionOK' /\ Waits'
  <2>1. cached \in Version /\ wishes[x] = {}
    BY <1>1 DEF AskCached, CacheHit, Usable, TypeOK, Waits, SessionOK
  <2>2. TypeOK' /\ UNCHANGED waitsOn
    BY <1>1, RefresherTyped DEF AskCached, Next, CacheHit, vars
  <2>3. SessionOK'
    BY <1>1, <2>1, AnswerTyped DEF AskCached
  <2>4. wishes' = wishes
    BY <1>1, <2>1 DEF AskCached, Answer, SessionOK
  <2> QED
    BY <2>2, <2>3, <2>4 DEF Waits
<1>2. ASSUME NEW x \in Callers, NEW w \in Wish, AskLoad(x, w)
      PROVE  TypeOK' /\ SessionOK' /\ Waits'
  <2>1. TypeOK'
    BY <1>2, RefresherTyped DEF AskLoad, Next
  <2>2. SessionOK'
    BY <1>2 DEF AskLoad, SessionOK
  <2>3. waitsOn'[x] # None
    BY <1>2 DEF AskLoad, Join, StartLoad, TypeOK
  <2>4. \A y \in Callers \ {x} : wishes'[y] = wishes[y] /\ waitsOn'[y] = waitsOn[y]
    BY <1>2 DEF AskLoad, Join, StartLoad, SessionOK, TypeOK
  <2>5. wishes'[x] # {}
    BY <1>2 DEF AskLoad, SessionOK
  <2>6. Waits'
    BY <2>3, <2>4, <2>5 DEF Waits
  <2> QED
    BY <2>1, <2>2, <2>6
<1>3. ASSUME NEW x \in Callers, NEW w \in Wish, AskShared(x, w)
      PROVE  TypeOK' /\ SessionOK' /\ Waits'
  <2>1. TypeOK'
    BY <1>3 DEF AskShared, vars, TypeOK, external, fields, loads, history
  <2>2. UNCHANGED <<versions, cached, loaded, waitsOn>>
    BY <1>3 DEF AskShared, vars, external, fields, loads
  <2>3. SessionOK'
    BY <1>3, <2>2 DEF AskShared, SessionOK
  <2>4. Waits'
    BY <1>3, <2>2 DEF AskShared, SessionOK, Waits
  <2> QED
    BY <2>1, <2>3, <2>4
<1>4. ASSUME NEW c \in Callers, LoadSucceeds(c)
      PROVE  TypeOK' /\ SessionOK' /\ Waits'
  <2>1. TypeOK'
    BY <1>4, RefresherTyped DEF LoadSucceeds, Next, LoadStep
  <2>2. loaded[c] \in Version
    BY <1>4 DEF LoadSucceeds, Succeed, TypeOK
  <2>3. SessionOK'
    BY <1>4, <2>2, AnswerTyped DEF LoadSucceeds
  <2>4. Waits'
    BY <1>4 DEF LoadSucceeds, Succeed, Settle, Answer, Waits, SessionOK, TypeOK
  <2> QED
    BY <2>1, <2>3, <2>4
<1>5. ASSUME NEW c \in Callers, LoadFails(c)
      PROVE  TypeOK' /\ SessionOK' /\ Waits'
  <2>1. TypeOK'
    BY <1>5, RefresherTyped DEF LoadFails, Next, LoadStep
  <2>2. SessionOK'
    BY <1>5 DEF LoadFails, WishesAfterFailure, SessionOK
  <2>3. Waits'
    BY <1>5 DEF LoadFails, WishesAfterFailure, Fail, Settle, Waits, SessionOK, TypeOK
  <2> QED
    BY <2>1, <2>2, <2>3
<1>6. ASSUME NEW c \in Callers, LoadProgress(c)
      PROVE  TypeOK' /\ SessionOK' /\ Waits'
  <2>1. TypeOK' /\ UNCHANGED waitsOn
    BY <1>6, RefresherTyped DEF LoadProgress, Next, LoadStep, ReadFresh, ReadExpired,
       Refreshed, Adopted
  <2> QED
    BY <1>6, <2>1 DEF LoadProgress, session, SessionOK, Waits
<1>7. ASSUME NEW x \in Callers, WatchFires(x)
      PROVE  TypeOK' /\ SessionOK' /\ Waits'
  <2>1. TypeOK' /\ UNCHANGED waitsOn
    BY <1>7, RefresherTyped DEF WatchFires, Next, Invalidate
  <2> QED
    BY <1>7, <2>1 DEF WatchFires, SessionOK, Waits
<1>8. ASSUME NEW x \in Callers, Dispose(x)
      PROVE  TypeOK' /\ SessionOK' /\ Waits'
  <2>1. TypeOK' /\ UNCHANGED waitsOn
    BY <1>8 DEF Dispose, vars, TypeOK, external, fields, loads, history
  <2> QED
    BY <1>8, <2>1 DEF Dispose, SessionOK, Waits
<1>9. ASSUME NEW x \in Callers, NEW v \in Version, GuardianKnown(x, v)
      PROVE  TypeOK' /\ SessionOK' /\ Waits'
  <2>1. TypeOK' /\ UNCHANGED waitsOn
    BY <1>9 DEF GuardianKnown, vars, TypeOK, external, fields, loads, history
  <2> QED
    BY <1>9, <2>1 DEF GuardianKnown, SessionOK, Waits
<1>10. CASE Outside
  <2>1. TypeOK' /\ UNCHANGED waitsOn
    BY <1>10, RefresherTyped DEF Outside, Next, Login, Logout, Tick, Expire
  <2> QED
    BY <1>10, <2>1 DEF Outside, session, SessionOK, Waits
<1> QED
  BY <1>1, <1>2, <1>3, <1>4, <1>5, <1>6, <1>7, <1>8, <1>9, <1>10 DEF CNext

\* A context only ever holds what tokens that were saved gave it, and waits for getClient
\* exactly while a tool call wants something of it: none is forgotten when a load settles,
\* and none is answered twice (aula-context.ts:286-330).
THEOREM ContextsTyped == CSpec => []CTypeOK
<1>1. CInit => TypeOK /\ SessionOK /\ Waits
  <2>1. Init => TypeOK
    <3>1. Init => left \in [Version -> 0..Horizon]
      BY Bounds DEF Init, Horizon
    <3>2. Init => lastError \in BOOLEAN /\ missed \in BOOLEAN
      BY DEF Init
    <3> QED
      BY <3>1, <3>2, Bounds DEF Init, TypeOK, Version
  <2>2. CInit => SessionOK /\ Waits
    BY DEF CInit, Init, SessionOK, Waits
  <2> QED
    BY <2>1, <2>2 DEF CInit
<1>2. TypeOK /\ SessionOK /\ Waits /\ UNCHANGED cvars => TypeOK' /\ SessionOK' /\ Waits'
  BY DEF cvars, vars, session, TypeOK, external, fields, loads, history, SessionOK, Waits
<1>3. TypeOK /\ SessionOK /\ Waits => CTypeOK
  BY DEF CTypeOK, SessionOK, Waits
<1> QED
  BY <1>1, <1>2, <1>3, SessionTyped, PTL DEF CSpec
=============================================================================
