--------------------------- MODULE SetupLogin_proofs ---------------------------
(***************************************************************************)
(* Theorems about the logins of the setup page (SetupLogin), for any       *)
(* number of sessions, of streams and of concurrent logins.                *)
(***************************************************************************)
EXTENDS SetupLogin, SequenceTheorems, FiniteSetTheorems, TLAPS

Steps == {"off", "reading", "walk", "poll", "polled", "complete", "offer", "pick", "finish",
          "save", "giveup", "ending", "done"}
Event == 1..(MaxProgress + 3)

-----------------------------------------------------------------------------
(* Types.  What a login may still emit bounds the numbers of its events.    *)

LoginOK == /\ known \subseteq Session
           /\ runner \in [Session -> Steps]
           /\ emitted \in [Session -> Nat] /\ terminal \in [Session -> Nat]
           /\ aborted \in [Session -> BOOLEAN]
           /\ posting \in [Session -> BOOLEAN]

StreamsOK == /\ stream \in [Session -> Stream \cup {NoStream}]
             /\ streams \in [Session -> [Stream -> {"none", "drain", "hold", "ended",
                                                    "closed"}]]
             /\ pos \in [Session -> [Stream -> Nat \ {0}]]
             /\ gone \in [Session -> [Stream -> BOOLEAN]]

EventsOK == /\ buffered \in [Session -> Seq(Event)]
            /\ got \in [Session -> [Stream -> SUBSET Event]]

AtMost(step) == IF step \in {"pick", "giveup"} THEN MaxProgress + 1
                ELSE IF step \in {"finish", "save"} THEN MaxProgress + 2
                ELSE IF step \in {"ending", "done"} THEN MaxProgress + 3
                ELSE MaxProgress
Counted == \A s \in Session : /\ emitted[s] <= AtMost(runner[s])
                              /\ terminal[s] <= emitted[s]
                              /\ Len(buffered[s]) <= emitted[s]
                              /\ \A t \in Stream : pos[s][t] <= emitted[s] + 1

SetupInv == LoginOK /\ StreamsOK /\ EventsOK /\ Counted /\ closed \in BOOLEAN

LEMMA Bounds == MaxProgress \in Nat /\ MaxConcurrentLogins \in Nat \ {0}
                /\ NoStream \notin Stream
BY SetupLoginAssumption

LEMMA EmitTyped ==
  ASSUME SetupInv, NEW s \in Session, Emit(s), emitted[s] < MaxProgress + 3
  PROVE  /\ EventsOK' /\ StreamsOK'
         /\ emitted' = [emitted EXCEPT ![s] = emitted[s] + 1]
         /\ \A z \in Session : Len(buffered'[z]) <= emitted'[z]
<1> DEFINE e == emitted[s] + 1
<1>1. e \in Event
  BY Bounds DEF SetupInv, LoginOK, Event
<1>2. StreamsOK' /\ emitted' = [emitted EXCEPT ![s] = emitted[s] + 1]
  BY DEF Emit, SetupInv, StreamsOK
<1>3. CASE Attached(s)
  <2>1. stream[s] \in Stream
    BY <1>3 DEF Attached, SetupInv, StreamsOK
  <2>2. UNCHANGED buffered /\ \E X \in SUBSET Event :
                                 got' = [got EXCEPT ![s][stream[s]] = X]
    <3>1. got[s][stream[s]] \in SUBSET Event
      BY <2>1 DEF SetupInv, EventsOK
    <3> QED
      BY <1>1, <1>3, <3>1 DEF Emit
  <2>3. EventsOK'
    BY <2>1, <2>2 DEF SetupInv, EventsOK
  <2>4. \A z \in Session : Len(buffered'[z]) <= emitted'[z]
    BY <1>2, <2>2 DEF SetupInv, EventsOK, LoginOK, Counted
  <2> QED
    BY <1>2, <2>3, <2>4
<1>4. CASE ~Attached(s)
  <2>1. UNCHANGED got /\ buffered' = [buffered EXCEPT ![s] = Append(@, e)]
    BY <1>4 DEF Emit
  <2>2. /\ Append(buffered[s], e) \in Seq(Event)
        /\ Len(Append(buffered[s], e)) = Len(buffered[s]) + 1
    BY <1>1, AppendProperties DEF SetupInv, EventsOK
  <2>3. buffered' \in [Session -> Seq(Event)]
    BY <2>1, <2>2 DEF SetupInv, EventsOK
  <2>4. \A z \in Session : Len(buffered'[z]) <= emitted'[z]
    BY <1>2, <2>1, <2>2 DEF SetupInv, EventsOK, LoginOK, Counted
  <2> QED
    BY <1>2, <2>1, <2>3, <2>4 DEF SetupInv, EventsOK
<1> QED
  BY <1>3, <1>4

\* The runner emits an event and goes on to `label`.
LEMMA Emits ==
  ASSUME SetupInv, NEW s \in Session, NEW label \in Steps,
         Emit(s), Goto(s, label), emitted[s] + 1 <= AtMost(label),
         terminal' \in {terminal, [terminal EXCEPT ![s] = emitted[s] + 1]},
         UNCHANGED <<known, aborted, closed>>, posting' \in [Session -> BOOLEAN]
  PROVE  SetupInv'
<1>1. emitted[s] < MaxProgress + 3
  BY Bounds DEF SetupInv, LoginOK, AtMost
<1>2. /\ EventsOK' /\ StreamsOK'
      /\ emitted' = [emitted EXCEPT ![s] = emitted[s] + 1]
      /\ \A z \in Session : Len(buffered'[z]) <= emitted'[z]
  BY <1>1, EmitTyped
<1>3. LoginOK'
  <2>1. terminal' \in [Session -> Nat]
    BY DEF SetupInv, LoginOK
  <2>2. emitted' \in [Session -> Nat] /\ runner' \in [Session -> Steps]
    BY <1>2 DEF SetupInv, LoginOK, Goto
  <2> QED
    BY <2>1, <2>2 DEF SetupInv, LoginOK
<1>4. UNCHANGED pos
  BY DEF Emit
<1>5. ASSUME NEW z \in Session
      PROVE  /\ emitted'[z] <= AtMost(runner'[z])
             /\ terminal'[z] <= emitted'[z]
             /\ \A t \in Stream : pos'[z][t] <= emitted'[z] + 1
  <2>1. runner' = [runner EXCEPT ![s] = label]
    BY DEF Goto
  <2>2. CASE z = s
    BY <1>2, <1>4, <2>1, <2>2 DEF SetupInv, LoginOK, StreamsOK, Counted
  <2>3. CASE z # s
    BY <1>2, <1>4, <2>1, <2>3 DEF SetupInv, LoginOK, Counted
  <2> QED
    BY <2>2, <2>3
<1> QED
  BY <1>2, <1>3, <1>5 DEF SetupInv, Counted

\* The runner of some sessions goes on without a word.
LEMMA Quietly ==
  ASSUME SetupInv, runner' \in [Session -> Steps],
         \A s \in Session : AtMost(runner[s]) <= AtMost(runner'[s]),
         known' \subseteq Session,
         aborted' \in [Session -> BOOLEAN],
         posting' \in [Session -> BOOLEAN], closed' \in BOOLEAN,
         UNCHANGED <<emitted, terminal, buffered, pos, got>>, StreamsOK'
  PROVE  SetupInv'
<1>1. LoginOK' /\ EventsOK'
  BY DEF SetupInv, LoginOK, EventsOK
<1>2. \A s \in Session : AtMost(runner[s]) \in Nat /\ AtMost(runner'[s]) \in Nat
  BY Bounds DEF AtMost
<1>3. Counted'
  BY <1>2 DEF SetupInv, LoginOK, Counted
<1> QED
  BY <1>1, <1>3 DEF SetupInv

LEMMA RunTyped == ASSUME SetupInv, NEW s \in Session, Run(s) PROVE SetupInv'
<1> USE Bounds
<1>typed. /\ known \subseteq Session /\ closed \in BOOLEAN
          /\ runner \in [Session -> Steps] /\ runner[s] \in Steps
          /\ aborted \in [Session -> BOOLEAN]
          /\ posting \in [Session -> BOOLEAN]
          /\ emitted[s] \in Nat /\ emitted[s] <= AtMost(runner[s])
  BY DEF SetupInv, LoginOK, Counted
<1>1. CASE Walk(s) \/ Poll(s) \/ Slept(s) \/ SignalDone(s)
  <2>1. /\ UNCHANGED <<known, aborted, posting, closed>>
        /\ UNCHANGED <<emitted, terminal, events>>
        /\ \E label \in Steps : /\ runner' = [runner EXCEPT ![s] = label]
                               /\ AtMost(runner[s]) <= AtMost(label)
    BY <1>1 DEF Walk, Poll, Slept, SignalDone, Goto, Steps, AtMost
  <2>2. PICK label \in Steps : /\ runner' = [runner EXCEPT ![s] = label]
                               /\ AtMost(runner[s]) <= AtMost(label)
    BY <2>1
  <2>3. \A z \in Session : AtMost(runner[z]) <= AtMost(runner'[z])
    BY <1>typed, <2>2 DEF AtMost
  <2>4. runner' \in [Session -> Steps]
    BY <1>typed, <2>2
  <2>5. StreamsOK' /\ UNCHANGED <<buffered, pos, got>>
    BY <2>1 DEF SetupInv, StreamsOK, events
  <2> QED
    BY <1>typed, <2>1, <2>3, <2>4, <2>5, Quietly
<1>2. CASE Progress(s)
  <2>1. /\ Emit(s) /\ Goto(s, "poll") /\ UNCHANGED terminal
        /\ UNCHANGED <<known, aborted, posting, closed>>
    BY <1>2 DEF Progress
  <2>2. emitted[s] + 1 <= AtMost("poll") /\ "poll" \in Steps
    BY <1>2, <1>typed DEF Progress, AtMost, Steps
  <2> QED
    BY <1>typed, <2>1, <2>2, Emits
<1>3. CASE Offer(s)
  <2>1. /\ Emit(s) /\ Goto(s, "pick") /\ UNCHANGED terminal
        /\ UNCHANGED <<known, aborted, posting, closed>>
    BY <1>3 DEF Offer
  <2>2. emitted[s] + 1 <= AtMost("pick") /\ "pick" \in Steps
    BY <1>3, <1>typed DEF Offer, AtMost, Steps
  <2> QED
    BY <1>typed, <2>1, <2>2, Emits
<1>4. CASE Choose(s)
  <2>1. posting' \in [Session -> BOOLEAN]
    BY <1>4, <1>typed DEF Choose
  <2>2. CASE runner[s] = "pick"
    <3>1. /\ Emit(s) /\ Goto(s, "finish")
          /\ UNCHANGED <<known, aborted, closed>> /\ UNCHANGED terminal
      BY <1>4, <2>2 DEF Choose
    <3>2. emitted[s] + 1 <= AtMost("finish") /\ "finish" \in Steps
      BY <1>typed, <2>2 DEF AtMost, Steps
    <3> QED
      BY <1>typed, <2>1, <3>1, <3>2, Emits
  <2>3. CASE runner[s] # "pick"
    <3>1. UNCHANGED <<known, runner, aborted, emitted, terminal, events, closed>>
      BY <1>4, <2>3 DEF Choose
    <3>2. StreamsOK' /\ UNCHANGED <<buffered, pos, got>>
      BY <3>1 DEF SetupInv, StreamsOK, events
    <3>3. \A z \in Session : AtMost(runner[z]) <= AtMost(runner'[z])
      BY <3>1 DEF AtMost
    <3> QED
      BY <1>typed, <2>1, <3>1, <3>2, <3>3, Quietly
  <2> QED
    BY <2>2, <2>3
<1>5. CASE Failed(s)
  <2>1. /\ Emit(s) /\ Goto(s, "ending") /\ terminal' = [terminal EXCEPT ![s] = emitted[s] + 1]
        /\ UNCHANGED <<known, aborted, posting, closed>>
    BY <1>5 DEF Failed
  <2>2. emitted[s] + 1 <= AtMost("ending") /\ "ending" \in Steps
    BY <1>5, <1>typed DEF Failed, MayThrow, AtMost, Steps
  <2> QED
    BY <1>typed, <2>1, <2>2, Emits
<1>6. CASE GivesUp(s)
  <2>1. /\ Emit(s) /\ Goto(s, "ending") /\ terminal' = [terminal EXCEPT ![s] = emitted[s] + 1]
        /\ UNCHANGED <<known, aborted, posting, closed>>
    BY <1>6 DEF GivesUp
  <2>2. emitted[s] + 1 <= AtMost("ending") /\ "ending" \in Steps
    BY <1>6, <1>typed DEF GivesUp, AtMost, Steps
  <2> QED
    BY <1>typed, <2>1, <2>2, Emits
<1>7. CASE Save(s)
  <2>1. /\ Emit(s) /\ Goto(s, "ending") /\ terminal' = [terminal EXCEPT ![s] = emitted[s] + 1]
        /\ UNCHANGED <<known, aborted, posting, closed>>
    BY <1>7 DEF Save
  <2>2. emitted[s] + 1 <= AtMost("ending") /\ "ending" \in Steps
    BY <1>7, <1>typed DEF Save, AtMost, Steps
  <2> QED
    BY <1>typed, <2>1, <2>2, Emits
<1> QED
  BY <1>1, <1>2, <1>3, <1>4, <1>5, <1>6, <1>7 DEF Run

LEMMA RequestTyped == ASSUME SetupInv, NEW s \in Session, RequestStart(s) PROVE SetupInv'
<1> USE Bounds
<1>1. LoginOK'
  BY DEF SetupInv, LoginOK, RequestStart, Goto, Steps
<1>2. pos' = [pos EXCEPT ![s] = [t \in Stream |-> 1]]
  BY DEF RequestStart
<1>3. pos' \in [Session -> [Stream -> Nat \ {0}]]
  BY <1>2 DEF SetupInv, StreamsOK
<1>4. StreamsOK'
  <2>1. gone' \in [Session -> [Stream -> BOOLEAN]]
    BY DEF SetupInv, StreamsOK, RequestStart
  <2>2. stream' \in [Session -> Stream \cup {NoStream}]
    BY DEF SetupInv, StreamsOK, RequestStart
  <2>3. streams' \in [Session -> [Stream -> {"none", "drain", "hold", "ended", "closed"}]]
    BY DEF SetupInv, StreamsOK, RequestStart
  <2> QED
    BY <1>3, <2>1, <2>2, <2>3 DEF StreamsOK
<1>5. EventsOK'
  <2>1. << >> \in Seq(Event) /\ [t \in Stream |-> {}] \in [Stream -> SUBSET Event]
    OBVIOUS
  <2>2. /\ buffered' = [buffered EXCEPT ![s] = << >>]
        /\ got' = [got EXCEPT ![s] = [t \in Stream |-> {}]]
    BY DEF RequestStart
  <2> QED
    BY <2>1, <2>2 DEF SetupInv, EventsOK
<1>6. Counted'
  <2>1. ASSUME NEW z \in Session, z # s
        PROVE  /\ emitted'[z] = emitted[z] /\ runner'[z] = runner[z]
               /\ terminal'[z] = terminal[z] /\ buffered'[z] = buffered[z]
               /\ pos'[z] = pos[z]
    BY <2>1 DEF SetupInv, LoginOK, EventsOK, StreamsOK, RequestStart, Goto
  <2>2. /\ emitted'[s] = 0 /\ runner'[s] = "reading" /\ terminal'[s] = 0
        /\ buffered'[s] = << >> /\ \A t \in Stream : pos'[s][t] = 1
    BY DEF SetupInv, LoginOK, EventsOK, StreamsOK, RequestStart, Goto
  <2>3. Len(buffered'[s]) = 0
    BY <2>2
  <2> QED
    BY <2>1, <2>2, <2>3 DEF SetupInv, Counted, AtMost
<1> QED
  BY <1>1, <1>4, <1>5, <1>6 DEF SetupInv, RequestStart

LEMMA StartTyped ==
  ASSUME SetupInv, NEW s \in Session, RefuseStart(s) \/ Start(s) PROVE SetupInv'
<1>typed. /\ known \subseteq Session /\ closed \in BOOLEAN
          /\ runner \in [Session -> Steps]
          /\ aborted \in [Session -> BOOLEAN] /\ posting \in [Session -> BOOLEAN]
  BY DEF SetupInv, LoginOK
<1>1. /\ UNCHANGED <<emitted, terminal, aborted, posting, events, closed>>
      /\ runner[s] = "reading" /\ known' \in {known, known \cup {s}}
      /\ \E label \in {"off", "walk"} : runner' = [runner EXCEPT ![s] = label]
  BY DEF RefuseStart, Start, Goto
<1>2. runner' \in [Session -> Steps]
  BY <1>typed, <1>1 DEF Steps
<1>3. \A z \in Session : AtMost(runner[z]) <= AtMost(runner'[z])
  BY <1>typed, <1>1, Bounds DEF AtMost
<1>4. StreamsOK' /\ UNCHANGED <<buffered, pos, got>>
  BY <1>1 DEF SetupInv, StreamsOK, events
<1> QED
  BY <1>typed, <1>1, <1>2, <1>3, <1>4, Quietly

LEMMA AbortTyped ==
  ASSUME SetupInv, NEW S \in SUBSET Session, AbortAll(S)
  PROVE  /\ runner' \in [Session -> Steps]
         /\ \A s \in Session : AtMost(runner[s]) <= AtMost(runner'[s])
         /\ aborted' \in [Session -> BOOLEAN]
<1>1. aborted' \in [Session -> BOOLEAN]
  BY DEF AbortAll
<1>2. runner' \in [Session -> Steps]
  BY DEF AbortAll, SetupInv, LoginOK, Steps
<1>3. \A s \in Session : AtMost(runner[s]) <= AtMost(runner'[s])
  BY Bounds DEF AbortAll, AtMost
<1> QED
  BY <1>1, <1>2, <1>3

LEMMA HandleTyped ==
  ASSUME SetupInv, NEW s \in Session, NEW t \in Stream,
         Attach(s, t) \/ Handle(s, t) \/ Leaves(s, t) \/ LeavesEarly(s, t)
  PROVE  SetupInv'
<1> USE Bounds
<1>1. CASE Attach(s, t)
  BY <1>1 DEF Attach, SetupInv, login, LoginOK, StreamsOK, EventsOK, Counted
<1>2. CASE DrainOne(s, t)
  <2>1. /\ UNCHANGED <<login, buffered, stream, streams, gone, closed>>
        /\ pos[s][t] <= Len(buffered[s]) /\ pos' = [pos EXCEPT ![s][t] = @ + 1]
    BY <1>2 DEF DrainOne
  <2>2. pos[s][t] \in Nat \ {0} /\ buffered[s] \in Seq(Event)
    BY DEF SetupInv, StreamsOK, EventsOK
  <2>3. pos[s][t] \in 1 .. Len(buffered[s]) /\ buffered[s][pos[s][t]] \in Event
    BY <2>1, <2>2, LenProperties
  <2>4. EventsOK'
    <3>1. \E X \in SUBSET Event : got' = [got EXCEPT ![s][t] = X]
      <4>1. got[s][t] \in SUBSET Event
        BY DEF SetupInv, EventsOK
      <4> QED
        BY <1>2, <2>3, <4>1 DEF DrainOne
    <3> QED
      BY <2>1, <3>1 DEF SetupInv, EventsOK
  <2>5. StreamsOK' /\ LoginOK'
    BY <2>1 DEF SetupInv, StreamsOK, LoginOK, login
  <2>6. Counted'
    <3>1. UNCHANGED <<emitted, runner, terminal>>
      BY <2>1 DEF login
    <3> QED
      BY <2>1, <2>2, <3>1 DEF SetupInv, Counted, StreamsOK, LoginOK
  <2> QED
    BY <2>1, <2>4, <2>5, <2>6 DEF SetupInv
<1>3. CASE Drained(s, t)
  <2>1. << >> \in Seq(Event) /\ Len(<< >>) = 0
    OBVIOUS
  <2>2. /\ UNCHANGED <<login, stream, pos, gone, got, closed>>
        /\ buffered' = [buffered EXCEPT ![s] = << >>]
        /\ streams' = [streams EXCEPT ![s][t] = "hold"]
    BY <1>3 DEF Drained
  <2>3. LoginOK' /\ StreamsOK' /\ EventsOK'
    BY <2>1, <2>2 DEF SetupInv, StreamsOK, EventsOK, LoginOK, login
  <2>4. Counted'
    BY <2>1, <2>2 DEF SetupInv, EventsOK, LoginOK, login, Counted
  <2> QED
    BY <2>2, <2>3, <2>4 DEF SetupInv
<1>4. CASE Ended(s, t)
  BY <1>4 DEF Ended, SetupInv, login, LoginOK, StreamsOK, EventsOK, Counted
<1>5. CASE LeavesEarly(s, t)
  BY <1>5 DEF LeavesEarly, SetupInv, login, LoginOK, StreamsOK, EventsOK, Counted
<1>6. CASE Leaves(s, t)
  <2>1. /\ runner' \in [Session -> Steps]
        /\ \A z \in Session : AtMost(runner[z]) <= AtMost(runner'[z])
        /\ aborted' \in [Session -> BOOLEAN]
    BY <1>6, AbortTyped DEF Leaves
  <2>2. StreamsOK'
    BY <1>6 DEF Leaves, SetupInv, StreamsOK
  <2>3. UNCHANGED <<known, emitted, terminal, posting, buffered, pos, got, closed>>
    BY <1>6 DEF Leaves
  <2> QED
    BY <2>1, <2>2, <2>3, Quietly DEF SetupInv, LoginOK
<1> QED
  BY <1>1, <1>2, <1>3, <1>4, <1>5, <1>6 DEF Handle

LEMMA SetupTyped == SetupInv /\ [Next]_vars => SetupInv'
<1> SUFFICES ASSUME SetupInv, [Next]_vars PROVE SetupInv'
  OBVIOUS
<1>typed. /\ known \subseteq Session /\ runner \in [Session -> Steps]
          /\ aborted \in [Session -> BOOLEAN]
          /\ posting \in [Session -> BOOLEAN] /\ closed \in BOOLEAN
          /\ \A s \in Session : AtMost(runner[s]) \in Nat
  BY Bounds DEF SetupInv, LoginOK, AtMost
<1>1. ASSUME NEW s \in Session, RequestStart(s) \/ RefuseStart(s) \/ Start(s) \/ Run(s)
      PROVE  SetupInv'
  BY <1>1, RequestTyped, StartTyped, RunTyped
<1>2. ASSUME NEW s \in Session, PostIdentity(s) \/ Retention(s) PROVE SetupInv'
  <2>1. /\ known' \subseteq Session /\ posting' \in [Session -> BOOLEAN]
        /\ UNCHANGED <<runner, emitted, terminal, aborted, events, closed>>
    BY <1>2, <1>typed DEF PostIdentity, Retention
  <2>2. StreamsOK' /\ UNCHANGED <<buffered, pos, got>>
    BY <2>1 DEF events, SetupInv, StreamsOK
  <2> QED
    BY <1>typed, <2>1, <2>2, Quietly
<1>3. ASSUME NEW s \in Session, TimeBox(s) PROVE SetupInv'
  <2>1. /\ runner' \in [Session -> Steps]
        /\ \A z \in Session : AtMost(runner[z]) <= AtMost(runner'[z])
        /\ aborted' \in [Session -> BOOLEAN]
    BY <1>3, AbortTyped DEF TimeBox
  <2>2. UNCHANGED <<known, emitted, terminal, posting, events, closed>>
    BY <1>3 DEF TimeBox
  <2>3. StreamsOK' /\ UNCHANGED <<buffered, pos, got>>
    BY <2>2 DEF events, SetupInv, StreamsOK
  <2> QED
    BY <1>typed, <2>1, <2>2, <2>3, Quietly
<1>4. ASSUME NEW s \in Session, NEW t \in Stream,
             Attach(s, t) \/ Handle(s, t) \/ Leaves(s, t) \/ LeavesEarly(s, t)
      PROVE  SetupInv'
  BY <1>4, HandleTyped
<1>5. CASE Close
  <2>1. /\ runner' \in [Session -> Steps]
        /\ \A z \in Session : AtMost(runner[z]) <= AtMost(runner'[z])
        /\ aborted' \in [Session -> BOOLEAN]
    <3>1. ActiveLogins \in SUBSET Session
      BY <1>typed DEF ActiveLogins
    <3> QED
      BY <1>5, <3>1, AbortTyped DEF Close
  <2>2. /\ UNCHANGED <<emitted, terminal, posting, events>>
        /\ known' \subseteq Session /\ closed' \in BOOLEAN
    BY <1>5 DEF Close
  <2>3. StreamsOK' /\ UNCHANGED <<buffered, pos, got>>
    BY <2>2 DEF events, SetupInv, StreamsOK
  <2> QED
    BY <1>typed, <2>1, <2>2, <2>3, Quietly
<1>6. CASE UNCHANGED vars
  BY <1>6 DEF vars, login, events, SetupInv, LoginOK, StreamsOK, EventsOK, Counted
<1> QED
  BY <1>1, <1>2, <1>3, <1>4, <1>5, <1>6 DEF Next

LEMMA SetupStarts == Init => SetupInv
<1> SUFFICES ASSUME Init PROVE SetupInv
  OBVIOUS
<1>1. LoginOK /\ closed \in BOOLEAN
  BY DEF Init, LoginOK, Steps
<1>2. StreamsOK
  BY DEF Init, StreamsOK
<1>3. << >> \in Seq(Event) /\ Len(<< >>) = 0
  OBVIOUS
<1>4. EventsOK
  BY <1>3 DEF Init, EventsOK
<1>5. Counted
  BY <1>3, Bounds DEF Init, Counted, AtMost
<1> QED
  BY <1>1, <1>2, <1>4, <1>5 DEF SetupInv

\* No login emits more events than its steps have, and no event stream reads past them:
\* the buffer and the streams of a login are bounded (setup-ui.ts:77-91).
THEOREM LoginsTyped == Spec => []TypeOK
<1>1. SetupInv => TypeOK
  <2> SUFFICES ASSUME SetupInv PROVE TypeOK
    OBVIOUS
  <2>1. \A s \in Session : AtMost(runner[s]) \in Nat /\ AtMost(runner[s]) <= MaxProgress + 3
    BY Bounds DEF AtMost
  <2>2. \A s \in Session : emitted[s] <= MaxProgress + 3 /\ terminal[s] <= MaxProgress + 3
    BY <2>1, Bounds DEF SetupInv, LoginOK, Counted
  <2>3. /\ emitted \in [Session -> 0..(MaxProgress + 3)]
        /\ terminal \in [Session -> 0..(MaxProgress + 3)]
    BY <2>2, Bounds DEF SetupInv, LoginOK
  <2>4. \A s \in Session, t \in Stream : pos[s][t] \in 1..(MaxProgress + 4)
    BY <2>2, Bounds DEF SetupInv, LoginOK, StreamsOK, Counted
  <2>5. pos \in [Session -> [Stream -> 1..(MaxProgress + 4)]]
    BY <2>4 DEF SetupInv, StreamsOK
  <2> QED
    BY <2>3, <2>5 DEF SetupInv, TypeOK, LoginOK, StreamsOK, EventsOK, Event, Steps
<1> QED
  BY <1>1, SetupStarts, SetupTyped, PTL DEF Spec

-----------------------------------------------------------------------------
(* How many logins walk MitID                                               *)

Walking == {s \in known : Walks(s)}

\* A login that walks MitID is one activeLogins() counts, or close() aborted it.
Counting == /\ IsFiniteSet(known)
            /\ Cardinality(Walking) <= MaxConcurrentLogins
            /\ \A s \in Session \ known : Walks(s) => closed /\ aborted[s]

\* Only Start makes a login walk, and only Retention and Close forget one.
Moves == /\ \A s \in Session : /\ Walks(s)' => Walks(s)
                               /\ aborted[s] => aborted'[s] \/ ~Walks(s)'
         /\ closed => closed'
         /\ known' \subseteq known
         /\ \A s \in known \ known' : Walks(s)' => closed' /\ aborted'[s]

LEMMA NobodyWalksAnew ==
  ASSUME SetupInv, [Next]_vars, \A s \in Session : ~Start(s)
  PROVE  Moves
<1> USE DEF Moves, Walks
<1>typed. /\ runner \in [Session -> Steps] /\ emitted \in [Session -> Nat]
          /\ terminal \in [Session -> Nat] /\ aborted \in [Session -> BOOLEAN]
          /\ known \subseteq Session
  BY DEF SetupInv, LoginOK
<1>1. ASSUME NEW s \in Session, RequestStart(s) PROVE Moves
  <2>1. UNCHANGED <<known, closed>>
    BY <1>1 DEF RequestStart
  <2>2. runner'[s] = "reading"
    BY <1>1, <1>typed DEF RequestStart, Goto
  <2>3. \A z \in Session \ {s} : /\ runner'[z] = runner[z] /\ terminal'[z] = terminal[z]
                                 /\ aborted'[z] = aborted[z]
    BY <1>1, <1>typed DEF RequestStart, Goto
  <2> QED
    BY <2>1, <2>2, <2>3
<1>2. ASSUME NEW s \in Session, RefuseStart(s) PROVE Moves
  BY <1>2, <1>typed DEF RefuseStart, Goto
<1>3. ASSUME NEW s \in Session, Walk(s) \/ Poll(s) \/ Slept(s) \/ SignalDone(s)
      PROVE  Moves
  <2>1. /\ UNCHANGED <<known, terminal, aborted, closed>>
        /\ runner[s] \notin {"off", "reading", "done"}
    BY <1>3 DEF Walk, Poll, Slept, SignalDone
  <2>2. \E label \in Steps : runner' = [runner EXCEPT ![s] = label]
    BY <1>3 DEF Walk, Poll, Slept, SignalDone, Goto, Steps
  <2> QED
    BY <1>typed, <2>1, <2>2
<1>4. ASSUME NEW s \in Session, Progress(s) \/ Offer(s) \/ Choose(s) PROVE Moves
  <2>1. UNCHANGED <<known, terminal, aborted, closed>>
    BY <1>4 DEF Progress, Offer, Choose
  <2>2. \/ UNCHANGED runner
        \/ /\ runner[s] \notin {"off", "reading", "done"}
           /\ \E label \in Steps : runner' = [runner EXCEPT ![s] = label]
    BY <1>4 DEF Progress, Offer, Choose, Goto, Steps
  <2> QED
    BY <1>typed, <2>1, <2>2
<1>5. ASSUME NEW s \in Session, Failed(s) \/ GivesUp(s) \/ Save(s) PROVE Moves
  <2>1. /\ UNCHANGED <<known, aborted, closed>>
        /\ terminal' = [terminal EXCEPT ![s] = emitted[s] + 1]
        /\ runner' = [runner EXCEPT ![s] = "ending"]
    BY <1>5 DEF Failed, GivesUp, Save, Goto
  <2> QED
    BY <1>typed, <2>1
<1>6. ASSUME NEW s \in Session, PostIdentity(s) \/ Retention(s) PROVE Moves
  BY <1>6 DEF PostIdentity, Retention
<1>7. ASSUME NEW s \in Session, TimeBox(s) PROVE Moves
  BY <1>7, <1>typed DEF TimeBox, AbortAll
<1>8. ASSUME NEW s \in Session, NEW t \in Stream, Attach(s, t) \/ Handle(s, t) \/ LeavesEarly(s, t)
      PROVE  Moves
  BY <1>8 DEF Attach, Handle, DrainOne, Drained, Ended, LeavesEarly, login
<1>9. ASSUME NEW s \in Session, NEW t \in Stream, Leaves(s, t) PROVE Moves
  BY <1>9, <1>typed DEF Leaves, AbortAll
<1>10. CASE Close
  <2>1. /\ closed' = TRUE /\ known' = {} /\ AbortAll(ActiveLogins) /\ UNCHANGED terminal
    BY <1>10 DEF Close
  <2>2. ASSUME NEW s \in Session, Walks(s)' PROVE Walks(s)
    BY <1>typed, <2>1, <2>2 DEF AbortAll
  <2>3. ASSUME NEW s \in known, Walks(s) PROVE aborted'[s]
    BY <1>typed, <2>1, <2>3 DEF AbortAll, ActiveLogins
  <2>4. \A s \in Session : aborted[s] => aborted'[s]
    BY <1>typed, <2>1 DEF AbortAll
  <2> QED
    BY <1>typed, <2>1, <2>2, <2>3, <2>4
<1>11. CASE UNCHANGED vars
  BY <1>11 DEF vars, login
<1> QED
  BY <1>1, <1>2, <1>3, <1>4, <1>5, <1>6, <1>7, <1>8, <1>9, <1>10, <1>11 DEF Next, Run

LEMMA CountingKept == SetupInv /\ Counting /\ [Next]_vars => Counting'
<1> SUFFICES ASSUME SetupInv, Counting, [Next]_vars PROVE Counting'
  OBVIOUS
<1>typed. /\ runner \in [Session -> Steps] /\ terminal \in [Session -> Nat]
          /\ known \subseteq Session
  BY DEF SetupInv, LoginOK
<1>1. ASSUME NEW s \in Session, Start(s) PROVE Counting'
  <2>1. Walking' \subseteq Walking \cup {s} /\ Walking \subseteq ActiveLogins
    BY <1>1, <1>typed DEF Start, Walking, Walks, Goto, ActiveLogins
  <2>2. IsFiniteSet(ActiveLogins)
    BY FS_Subset DEF Counting, ActiveLogins
  <2>3. /\ IsFiniteSet(Walking) /\ Cardinality(Walking) <= Cardinality(ActiveLogins)
        /\ Cardinality(ActiveLogins) < MaxConcurrentLogins
        /\ Cardinality(ActiveLogins) \in Nat /\ Cardinality(Walking) \in Nat
    BY <1>1, <2>1, <2>2, FS_Subset, FS_CardinalityType DEF Start
  <2>4. /\ IsFiniteSet(Walking \cup {s})
        /\ Cardinality(Walking \cup {s}) <= Cardinality(Walking) + 1
        /\ Cardinality(Walking \cup {s}) \in Nat
    BY <2>3, FS_AddElement, FS_CardinalityType
  <2>5. /\ Cardinality(Walking') <= Cardinality(Walking \cup {s})
        /\ Cardinality(Walking') \in Nat
    BY <2>1, <2>4, FS_Subset, FS_CardinalityType
  <2>6. known' = known \cup {s} /\ IsFiniteSet(known')
    BY <1>1, FS_AddElement DEF Start, Counting
  <2>7. \A z \in Session \ known' : Walks(z)' => closed' /\ aborted'[z]
    BY <1>1, <1>typed, <2>6 DEF Start, Walks, Goto, Counting
  <2> QED
    BY <2>3, <2>4, <2>5, <2>6, <2>7, Bounds DEF Counting
<1>2. CASE \A s \in Session : ~Start(s)
  <2>1. Moves
    BY <1>2, NobodyWalksAnew
  <2>2. Walking' \subseteq Walking /\ known' \subseteq known
    BY <1>typed, <2>1 DEF Moves, Walking
  <2>3. IsFiniteSet(Walking)
    BY FS_Subset DEF Counting, Walking
  <2>4. /\ IsFiniteSet(known') /\ Cardinality(Walking') <= Cardinality(Walking)
        /\ Cardinality(Walking') \in Nat /\ Cardinality(Walking) \in Nat
    BY <2>2, <2>3, FS_Subset, FS_CardinalityType DEF Counting
  <2>5. \A z \in Session \ known' : Walks(z)' => closed' /\ aborted'[z]
    BY <2>1 DEF Moves, Counting
  <2> QED
    BY <2>4, <2>5, Bounds DEF Counting
<1> QED
  BY <1>1, <1>2

\* No more logins of the page walk MitID at once than allowed, attached to a browser or
\* not, one whose body arrived after close() included; a login that still walks but is
\* no longer the page's was dropped, and aborted, by close()
\* (setup-ui.ts:39, 263-274, 351-354, 375-396, 492-497).
THEOREM LoginsStayBounded == Spec => []LoginsBounded
<1>1. Init => Counting
  <2> SUFFICES ASSUME Init PROVE Counting
    OBVIOUS
  <2>1. known = {} /\ Walking = {} /\ \A s \in Session : ~Walks(s)
    BY DEF Init, Walking, Walks
  <2> QED
    BY <2>1, FS_EmptySet, Bounds DEF Counting
<1>2. Counting => LoginsBounded
  BY DEF Counting, LoginsBounded, Walking
<1> QED
  BY <1>1, <1>2, SetupStarts, SetupTyped, CountingKept, PTL DEF Spec

-----------------------------------------------------------------------------
(* What a session's only stream has been sent                               *)

Only(s, t) == \A u \in Stream \ {t} : streams[s][u] = "none"
InBuffer(s, from) == \E i \in from .. Len(buffered[s]) : buffered[s][i] = terminal[s]

\* The terminal event is the last, and the runner is then ending or done.
LastWord(s) == /\ terminal[s] # 0 => runner[s] \in {"ending", "done"}
               /\ runner[s] \in {"ending", "done"} => terminal[s] # 0

\* Until the stream attaches, the terminal event is buffered; then it is sent, or still
\* to be drained; once the stream holds, it is sent.
Sees(s, t) ==
    /\ streams[s][t] = "none" => /\ stream[s] = NoStream /\ pos[s][t] = 1
                                 /\ terminal[s] # 0 => InBuffer(s, 1)
    /\ streams[s][t] = "drain" =>
          /\ stream[s] = t
          /\ ~gone[s][t] /\ terminal[s] # 0 =>
                 terminal[s] \in got[s][t] \/ InBuffer(s, pos[s][t])
    /\ streams[s][t] = "hold" =>
          /\ stream[s] = t
          /\ ~gone[s][t] /\ terminal[s] # 0 => terminal[s] \in got[s][t]
    /\ streams[s][t] = "ended" => terminal[s] \in got[s][t] /\ runner[s] = "done"

AllSee == \A s \in Session : LastWord(s) /\ \A t \in Stream : Only(s, t) => Sees(s, t)

\* Nothing these speak of changed for session z.
Rests(z) == /\ terminal'[z] = terminal[z] /\ buffered'[z] = buffered[z]
            /\ stream'[z] = stream[z] /\ streams'[z] = streams[z]
            /\ pos'[z] = pos[z] /\ gone'[z] = gone[z] /\ got'[z] = got[z]
            /\ \/ runner'[z] = runner[z]
               \/ runner[z] \notin {"ending", "done"} /\ runner'[z] \notin {"ending", "done"}

LEMMA RestsKeep ==
  ASSUME AllSee, NEW z \in Session, Rests(z)
  PROVE  LastWord(z)' /\ \A t \in Stream : Only(z, t)' => Sees(z, t)'
BY DEF AllSee, Rests, LastWord, Only, Sees, InBuffer

\* The runner of s emits an event, the last one if it ends.
LEMMA EmitsSeen ==
  ASSUME SetupInv, AllSee, NEW s \in Session, Emit(s),
         runner[s] \notin {"off", "ending", "done"},
         \/ /\ UNCHANGED terminal
            /\ \E label \in Steps \ {"ending", "done"} :
                  runner' = [runner EXCEPT ![s] = label]
         \/ /\ terminal' = [terminal EXCEPT ![s] = emitted[s] + 1]
            /\ runner' = [runner EXCEPT ![s] = "ending"]
  PROVE  AllSee'
<1> DEFINE e == emitted[s] + 1
<1>typed. /\ runner \in [Session -> Steps] /\ terminal \in [Session -> Nat]
          /\ emitted \in [Session -> Nat] /\ stream \in [Session -> Stream \cup {NoStream}]
          /\ buffered \in [Session -> Seq(Event)]
          /\ got \in [Session -> [Stream -> SUBSET Event]]
          /\ gone \in [Session -> [Stream -> BOOLEAN]]
  BY DEF SetupInv, LoginOK, StreamsOK, EventsOK
<1>0. UNCHANGED <<stream, streams, pos, gone>>
  BY DEF Emit
<1>1. terminal[s] = 0 /\ e # 0
  BY <1>typed DEF AllSee, LastWord
<1>2. ASSUME NEW z \in Session, z # s
      PROVE  LastWord(z)' /\ \A t \in Stream : Only(z, t)' => Sees(z, t)'
  <2>1. terminal'[z] = terminal[z] /\ runner'[z] = runner[z]
    BY <1>2, <1>typed
  <2>2. buffered'[z] = buffered[z] /\ got'[z] = got[z]
    BY <1>2, <1>typed DEF Emit
  <2> QED
    BY <1>0, <2>1, <2>2, RestsKeep DEF Rests
<1>3. LastWord(s)' /\ terminal'[s] \in {0, e}
  BY <1>1, <1>typed DEF LastWord
<1>4. ASSUME NEW t \in Stream, Only(s, t)' PROVE Sees(s, t)'
  <2>1. Only(s, t) /\ Sees(s, t)
    BY <1>4, <1>0 DEF Only, AllSee
  <2>2. streams[s][t] # "ended"
    BY <2>1 DEF Sees
  <2>3. CASE streams[s][t] = "none"
    <3>1. stream[s] = NoStream /\ pos[s][t] = 1
      BY <2>1, <2>3 DEF Sees
    <3>2. buffered' = [buffered EXCEPT ![s] = Append(buffered[s], e)]
      BY <3>1 DEF Emit, Attached
    <3>3. e \in Event
      <4>0. emitted[s] <= AtMost(runner[s])
        BY DEF SetupInv, Counted
      <4>1. emitted[s] <= MaxProgress + 2
        BY <4>0, <1>typed, Bounds DEF AtMost
      <4> QED
        BY <4>1, <1>typed, Bounds DEF Event
    <3>4. Len(buffered'[s]) = Len(buffered[s]) + 1 /\ buffered'[s][Len(buffered[s]) + 1] = e
      <4>1. buffered[s] \in Seq(Event) /\ buffered'[s] = Append(buffered[s], e)
        BY <1>typed, <3>2
      <4> QED
        BY <4>1, <3>3, AppendProperties
    <3>5. terminal'[s] # 0 => InBuffer(s, 1)'
      BY <1>3, <1>typed, <3>4, LenProperties DEF InBuffer
    <3> QED
      BY <1>0, <2>3, <3>1, <3>5 DEF Sees
  <2>4. CASE streams[s][t] \in {"drain", "hold"}
    <3>1. stream[s] = t
      BY <2>1, <2>4 DEF Sees
    <3>2. ~gone[s][t] => e \in got'[s][t]
      BY <1>typed, <3>1, Bounds DEF Emit, Attached
    <3> QED
      BY <1>0, <1>3, <2>4, <3>1, <3>2 DEF Sees
  <2>5. CASE streams[s][t] \notin {"none", "drain", "hold"}
    BY <1>0, <2>2, <2>5 DEF Sees
  <2> QED
    BY <2>3, <2>4, <2>5
<1> QED
  BY <1>2, <1>3, <1>4 DEF AllSee

LEMMA RunSeen == ASSUME SetupInv, AllSee, NEW s \in Session, Run(s) PROVE AllSee'
<1>typed. runner \in [Session -> Steps]
  BY DEF SetupInv, LoginOK
<1>1. CASE Walk(s) \/ Poll(s) \/ Slept(s)
  <2>1. UNCHANGED <<terminal, events>>
    BY <1>1 DEF Walk, Poll, Slept
  <2>2. /\ runner[s] \notin {"ending", "done"}
        /\ \E label \in Steps \ {"ending", "done"} : runner' = [runner EXCEPT ![s] = label]
    BY <1>1 DEF Walk, Poll, Slept, Goto, Steps
  <2>3. \A z \in Session : Rests(z)
    BY <1>typed, <2>1, <2>2 DEF Rests, events
  <2> QED
    BY <2>3, RestsKeep DEF AllSee
<1>2. CASE Progress(s) \/ Offer(s)
  <2>1. /\ Emit(s) /\ UNCHANGED terminal /\ runner[s] \notin {"off", "ending", "done"}
        /\ \E label \in Steps \ {"ending", "done"} : runner' = [runner EXCEPT ![s] = label]
    BY <1>2 DEF Progress, Offer, Goto, Steps
  <2> QED
    BY <2>1, EmitsSeen
<1>3. CASE Choose(s)
  <2>1. CASE runner[s] = "pick"
    <3>1. /\ Emit(s) /\ UNCHANGED terminal /\ runner[s] \notin {"off", "ending", "done"}
          /\ \E label \in Steps \ {"ending", "done"} : runner' = [runner EXCEPT ![s] = label]
      BY <1>3, <2>1 DEF Choose, Goto, Steps
    <3> QED
      BY <3>1, EmitsSeen
  <2>2. CASE runner[s] # "pick"
    <3>1. \A z \in Session : Rests(z)
      BY <1>3, <2>2 DEF Choose, Rests, events
    <3> QED
      BY <3>1, RestsKeep DEF AllSee
  <2> QED
    BY <2>1, <2>2
<1>4. CASE Failed(s) \/ GivesUp(s) \/ Save(s)
  <2>1. /\ Emit(s) /\ runner[s] \notin {"off", "ending", "done"}
        /\ terminal' = [terminal EXCEPT ![s] = emitted[s] + 1]
        /\ runner' = [runner EXCEPT ![s] = "ending"]
    BY <1>4 DEF Failed, MayThrow, GivesUp, Save, Goto
  <2> QED
    BY <2>1, EmitsSeen
<1>5. CASE SignalDone(s)
  <2>1. /\ UNCHANGED <<terminal, events>> /\ runner[s] = "ending"
        /\ runner' = [runner EXCEPT ![s] = "done"]
    BY <1>5 DEF SignalDone, Goto
  <2>2. \A z \in Session \ {s} : Rests(z)
    BY <1>typed, <2>1 DEF Rests, events
  <2>3. LastWord(s)' /\ \A t \in Stream : Only(s, t)' => Sees(s, t)'
    BY <1>typed, <2>1 DEF AllSee, LastWord, Only, Sees, InBuffer, events
  <2> QED
    BY <2>2, <2>3, RestsKeep DEF AllSee
<1> QED
  BY <1>1, <1>2, <1>3, <1>4, <1>5 DEF Run

LEMMA RequestSeen == ASSUME SetupInv, AllSee, NEW s \in Session, RequestStart(s) PROVE AllSee'
<1>1. ASSUME NEW z \in Session \ {s} PROVE Rests(z)
  BY <1>1 DEF Rests, RequestStart, Goto, SetupInv, LoginOK, StreamsOK, EventsOK
<1>2. /\ terminal'[s] = 0 /\ runner'[s] = "reading" /\ stream'[s] = NoStream
      /\ streams'[s] = [t \in Stream |-> "none"] /\ pos'[s] = [t \in Stream |-> 1]
  BY DEF RequestStart, Goto, SetupInv, LoginOK, StreamsOK, EventsOK
<1>3. LastWord(s)' /\ \A t \in Stream : Sees(s, t)'
  BY <1>2 DEF LastWord, Sees
<1> QED
  BY <1>1, <1>3, RestsKeep DEF AllSee

LEMMA StartSeen ==
  ASSUME SetupInv, AllSee, NEW s \in Session, RefuseStart(s) \/ Start(s) PROVE AllSee'
<1>1. /\ UNCHANGED <<terminal, events>> /\ runner[s] = "reading"
      /\ \E label \in {"off", "walk"} : runner' = [runner EXCEPT ![s] = label]
  BY DEF RefuseStart, Start, Goto
<1>2. \A z \in Session : Rests(z)
  BY <1>1 DEF SetupInv, LoginOK, Rests, events
<1> QED
  BY <1>2, RestsKeep DEF AllSee

LEMMA AbortRests ==
  ASSUME SetupInv, NEW S \in SUBSET Session, AbortAll(S), NEW z \in Session
  PROVE  \/ runner'[z] = runner[z]
         \/ runner[z] \notin {"ending", "done"} /\ runner'[z] \notin {"ending", "done"}
BY DEF AbortAll, SetupInv, LoginOK

LEMMA HandleSeen ==
  ASSUME SetupInv, AllSee, NEW s \in Session, NEW t \in Stream,
         Attach(s, t) \/ Handle(s, t) \/ Leaves(s, t) \/ LeavesEarly(s, t)
  PROVE  AllSee'
<1>typed. /\ stream \in [Session -> Stream \cup {NoStream}]
          /\ streams \in [Session -> [Stream -> {"none", "drain", "hold", "ended",
                                                  "closed"}]]
          /\ pos \in [Session -> [Stream -> Nat \ {0}]]
          /\ gone \in [Session -> [Stream -> BOOLEAN]]
          /\ buffered \in [Session -> Seq(Event)]
          /\ got \in [Session -> [Stream -> SUBSET Event]]
          /\ runner \in [Session -> Steps]
  BY DEF SetupInv, LoginOK, StreamsOK, EventsOK
<1>1. CASE Attach(s, t)
  <2>1. \A z \in Session \ {s} : Rests(z)
    BY <1>1, <1>typed DEF Attach, Rests, login
  <2>2. LastWord(s)'
    BY <1>1 DEF Attach, login, AllSee, LastWord
  <2>3. ASSUME NEW u \in Stream, Only(s, u)' PROVE Sees(s, u)'
    <3>1. u = t /\ Only(s, t)
      BY <1>1, <1>typed, <2>3 DEF Attach, Only
    <3>2. Sees(s, t)
      BY <3>1 DEF AllSee
    <3> QED
      BY <1>1, <1>typed, <3>1, <3>2 DEF Attach, login, Sees, InBuffer
  <2> QED
    BY <2>1, <2>2, <2>3, RestsKeep DEF AllSee
<1>2. CASE DrainOne(s, t)
  <2>1. \A z \in Session \ {s} : Rests(z)
    BY <1>2, <1>typed DEF DrainOne, Rests, login
  <2>2. LastWord(s)'
    BY <1>2 DEF DrainOne, login, AllSee, LastWord
  <2>3. ASSUME NEW u \in Stream, Only(s, u)' PROVE Sees(s, u)'
    <3>1. u = t /\ Only(s, t)
      BY <1>2, <1>typed, <2>3 DEF DrainOne, Only
    <3>2. Sees(s, t)
      BY <3>1 DEF AllSee
    <3>3. ASSUME ~gone[s][t], terminal[s] # 0
          PROVE  terminal[s] \in got'[s][t] \/ InBuffer(s, pos[s][t] + 1)
      BY <1>2, <1>typed, <3>2, <3>3, LenProperties DEF DrainOne, Sees, InBuffer
    <3>4. pos'[s][t] = pos[s][t] + 1
      BY <1>2, <1>typed DEF DrainOne
    <3> QED
      BY <1>2, <1>typed, <3>1, <3>2, <3>3, <3>4 DEF DrainOne, login, Sees, InBuffer
  <2> QED
    BY <2>1, <2>2, <2>3, RestsKeep DEF AllSee
<1>3. CASE Drained(s, t)
  <2>1. \A z \in Session \ {s} : Rests(z)
    BY <1>3, <1>typed DEF Drained, Rests, login
  <2>2. LastWord(s)'
    BY <1>3 DEF Drained, login, AllSee, LastWord
  <2>3. ASSUME NEW u \in Stream, Only(s, u)' PROVE Sees(s, u)'
    <3>1. u = t /\ Only(s, t)
      BY <1>3, <1>typed, <2>3 DEF Drained, Only
    <3>2. Sees(s, t)
      BY <3>1 DEF AllSee
    <3>3. ~InBuffer(s, pos[s][t])
      BY <1>3, <1>typed DEF Drained, AllWritten, InBuffer
    <3> QED
      BY <1>3, <1>typed, <3>1, <3>2, <3>3 DEF Drained, login, Sees
  <2> QED
    BY <2>1, <2>2, <2>3, RestsKeep DEF AllSee
<1>4. CASE Ended(s, t)
  <2>1. \A z \in Session \ {s} : Rests(z)
    BY <1>4, <1>typed DEF Ended, Rests, login
  <2>2. LastWord(s) /\ LastWord(s)'
    BY <1>4 DEF Ended, login, AllSee, LastWord
  <2>3. ASSUME NEW u \in Stream, Only(s, u)' PROVE Sees(s, u)'
    <3>1. u = t /\ Only(s, t)
      BY <1>4, <1>typed, <2>3 DEF Ended, Only
    <3>2. Sees(s, t)
      BY <3>1 DEF AllSee
    <3> QED
      BY <1>4, <1>typed, <2>2, <3>1, <3>2 DEF Ended, login, Sees, LastWord
  <2> QED
    BY <2>1, <2>2, <2>3, RestsKeep DEF AllSee
<1>5. CASE LeavesEarly(s, t)
  <2>1. \A z \in Session \ {s} : Rests(z)
    BY <1>5, <1>typed DEF LeavesEarly, Rests, login
  <2>2. LastWord(s)'
    BY <1>5 DEF LeavesEarly, login, AllSee, LastWord
  <2>3. ASSUME NEW u \in Stream, Only(s, u)' PROVE Sees(s, u)'
    <3>1. u = t /\ Only(s, t)
      BY <1>5, <1>typed, <2>3 DEF LeavesEarly, Only
    <3>2. Sees(s, t)
      BY <3>1 DEF AllSee
    <3> QED
      BY <1>5, <1>typed, <3>1, <3>2 DEF LeavesEarly, login, Sees
  <2> QED
    BY <2>1, <2>2, <2>3, RestsKeep DEF AllSee
<1>6. CASE Leaves(s, t)
  <2>1. \A z \in Session : \/ runner'[z] = runner[z]
                           \/ /\ runner[z] \notin {"ending", "done"}
                              /\ runner'[z] \notin {"ending", "done"}
    BY <1>6, AbortRests DEF Leaves
  <2>2. \A z \in Session \ {s} : Rests(z)
    BY <1>6, <1>typed, <2>1 DEF Leaves, Rests
  <2>3. LastWord(s)'
    BY <1>6, <2>1 DEF Leaves, AllSee, LastWord
  <2>4. ASSUME NEW u \in Stream, Only(s, u)' PROVE Sees(s, u)'
    <3>1. u = t /\ streams'[s][t] = "closed"
      BY <1>6, <1>typed, <2>4 DEF Leaves, Only
    <3> QED
      BY <3>1 DEF Sees
  <2> QED
    BY <2>2, <2>3, <2>4, RestsKeep DEF AllSee
<1> QED
  BY <1>1, <1>2, <1>3, <1>4, <1>5, <1>6 DEF Handle

LEMMA SeenKept == SetupInv /\ AllSee /\ [Next]_vars => AllSee'
<1> SUFFICES ASSUME SetupInv, AllSee, [Next]_vars PROVE AllSee'
  OBVIOUS
<1>1. ASSUME NEW s \in Session, RequestStart(s) \/ RefuseStart(s) \/ Start(s) \/ Run(s)
      PROVE  AllSee'
  BY <1>1, RequestSeen, StartSeen, RunSeen
<1>2. ASSUME NEW s \in Session, NEW t \in Stream,
             Attach(s, t) \/ Handle(s, t) \/ Leaves(s, t) \/ LeavesEarly(s, t)
      PROVE  AllSee'
  BY <1>2, HandleSeen
<1>3. CASE (\E s \in Session : PostIdentity(s) \/ Retention(s)) \/ UNCHANGED vars
  <2>1. \A z \in Session : Rests(z)
    BY <1>3 DEF PostIdentity, Retention, Rests, vars, login, events
  <2> QED
    BY <2>1, RestsKeep DEF AllSee
<1>4. CASE (\E s \in Session : TimeBox(s)) \/ Close
  <2>1. \E S \in SUBSET Session : AbortAll(S)
    BY <1>4 DEF TimeBox, Close, ActiveLogins, SetupInv, LoginOK
  <2>2. UNCHANGED <<terminal, events>>
    BY <1>4 DEF TimeBox, Close
  <2>3. \A z \in Session : Rests(z)
    BY <2>1, <2>2, AbortRests DEF Rests, events
  <2> QED
    BY <2>3, RestsKeep DEF AllSee
<1> QED
  BY <1>1, <1>2, <1>3, <1>4 DEF Next

\* The only stream of a session, if it stays until the login has ended, has been sent
\* the result, whether it attached before, during or after the end and whatever was
\* buffered by then (setup-ui.ts:89-91).
THEOREM LateStreamsSeeTheEnd == Spec => []StreamsSeeTheEnd
<1>1. Init => AllSee
  BY DEF Init, AllSee, LastWord, Sees
<1>2. AllSee => StreamsSeeTheEnd
  BY DEF AllSee, Only, Sees, StreamsSeeTheEnd
<1> QED
  BY <1>1, <1>2, SetupStarts, SetupTyped, SeenKept, PTL DEF Spec
=============================================================================
