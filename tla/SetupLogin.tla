------------------------------ MODULE SetupLogin ------------------------------
(***************************************************************************)
(* The login sessions of the setup page (packages/mcp-server/src/          *)
(* setup-ui.ts): POST /login/start, the runner that walks MitID, the event *)
(* streams that attach to it, the identity choice, and the timers.         *)
(*                                                                         *)
(* The runner is runLogin with what AulaLoginClient.login and MitidClient  *)
(* .authenticateWithApp do between its callbacks: only the poll loop and   *)
(* the identity choice look at the abort signal.  MitID and Aula are       *)
(* external: any of their requests may fail.  Events are numbers in the    *)
(* order the runner emits them; the timers may fire at any time once set.  *)
(* A session's identity is used again once nothing of it is left; it is    *)
(* given to a POST /login/start as the session that request may become.    *)
(***************************************************************************)
EXTENDS Integers, Sequences, FiniteSets

CONSTANTS
    Session,
    Watched,         \* bound: the sessions whose browser opens event streams
    Stream,          \* GET /login/events of one session, in the order made
    NoStream,
    MaxConcurrentLogins,
    MaxProgress      \* bound: otp, qr and verified events of one login

ASSUME SetupLoginAssumption ==
    /\ Watched \subseteq Session /\ NoStream \notin Stream
    /\ MaxConcurrentLogins \in Nat \ {0} /\ MaxProgress \in Nat

VARIABLES
    known,       \* loginSessions
    runner,      \* where runLogin is; "reading": POST /login/start awaits its body
    emitted,     \* events emitted so far
    terminal,    \* the number of the terminal event, 0: not yet
    aborted,     \* session.abort.signal.aborted
    posting,     \* POST /login/identity has seen a pending choice
    buffered,    \* session.bufferedEvents
    stream,      \* session.stream
    streams,     \* each stream's handler: none, drain, hold, ended (its client
                 \* saw the end), closed
    pos,         \* the next buffered event it writes
    gone,        \* its client has disconnected
    got,         \* the events written to it
    closed

login == <<known, runner, emitted, terminal, aborted, posting>>
events == <<buffered, stream, streams, pos, gone, got>>
vars == <<login, events, closed>>

Init == /\ known = {}
        /\ runner = [s \in Session |-> "off"]
        /\ emitted = [s \in Session |-> 0]
        /\ terminal = [s \in Session |-> 0]
        /\ aborted = [s \in Session |-> FALSE]
        /\ posting = [s \in Session |-> FALSE]
        /\ buffered = [s \in Session |-> << >>]
        /\ stream = [s \in Session |-> NoStream]
        /\ streams = [s \in Session |-> [t \in Stream |-> "none"]]
        /\ pos = [s \in Session |-> [t \in Stream |-> 1]]
        /\ gone = [s \in Session |-> [t \in Stream |-> FALSE]]
        /\ got = [s \in Session |-> [t \in Stream |-> {}]]
        /\ closed = FALSE

Over(s) == runner[s] \in {"off", "done"}
Walks(s) == runner[s] \notin {"off", "reading", "done"} /\ terminal[s] = 0
Goto(s, label) == runner' = [runner EXCEPT ![s] = label]

-----------------------------------------------------------------------------
\* activeLogins()
AttachedLogins == {s \in known : terminal[s] = 0 /\ stream[s] # NoStream}
ActiveLogins == {s \in known : terminal[s] = 0}

\* POST /login/start: refused once the page is closed; else its body is awaited ...
RequestStart(s) ==
    /\ ~closed /\ s \notin known /\ Over(s)
    /\ \A t \in Stream : streams[s][t] \in {"none", "ended", "closed"}
    /\ Goto(s, "reading")
    /\ emitted' = [emitted EXCEPT ![s] = 0]
    /\ terminal' = [terminal EXCEPT ![s] = 0]
    /\ aborted' = [aborted EXCEPT ![s] = FALSE]
    /\ posting' = [posting EXCEPT ![s] = FALSE]
    /\ buffered' = [buffered EXCEPT ![s] = << >>]
    /\ stream' = [stream EXCEPT ![s] = NoStream]
    /\ streams' = [streams EXCEPT ![s] = [t \in Stream |-> "none"]]
    /\ pos' = [pos EXCEPT ![s] = [t \in Stream |-> 1]]
    /\ gone' = [gone EXCEPT ![s] = [t \in Stream |-> FALSE]]
    /\ got' = [got EXCEPT ![s] = [t \in Stream |-> {}]]
    /\ UNCHANGED <<known, closed>>

\* ... which is no JSON or names no user, or comes too often or beside too many logins ...
RefuseStart(s) == /\ runner[s] = "reading"
                  /\ Goto(s, "off")
                  /\ UNCHANGED <<known, emitted, terminal, aborted, posting,
                                 events, closed>>

\* ... or starts the login, though the page may have been closed meanwhile.
Start(s) == /\ runner[s] = "reading"
            /\ Cardinality(ActiveLogins) < MaxConcurrentLogins
            /\ known' = known \cup {s}
            /\ Goto(s, "walk")
            /\ UNCHANGED <<emitted, terminal, aborted, posting, events, closed>>

-----------------------------------------------------------------------------
(* the runner                                                              *)

\* emit(): to the attached stream, or to the buffer.
Attached(s) == stream[s] # NoStream /\ ~gone[s][stream[s]]
Emit(s) == LET e == emitted[s] + 1 IN
    /\ emitted' = [emitted EXCEPT ![s] = e]
    /\ IF Attached(s)
       THEN /\ got' = [got EXCEPT ![s][stream[s]] =
                         IF gone[s][stream[s]] THEN @ ELSE @ \cup {e}]
            /\ UNCHANGED buffered
       ELSE /\ buffered' = [buffered EXCEPT ![s] = Append(@, e)]
            /\ UNCHANGED got
    /\ UNCHANGED <<stream, streams, pos, gone>>

\* Requests that never look at the abort signal: the OAuth chain, and SRP,
\* finalize, SAML and the token exchange.  Aula may offer identities on the way.
Walk(s) == /\ \/ runner[s] = "walk" /\ Goto(s, "poll")
              \/ runner[s] = "complete" /\ (Goto(s, "offer") \/ Goto(s, "save"))
              \/ runner[s] = "finish" /\ Goto(s, "save")
           /\ UNCHANGED <<known, emitted, terminal, aborted, posting,
                          events, closed>>

\* The head of the poll loop and the sleep at its end look at the signal.
Poll(s) == /\ runner[s] = "poll" /\ ~aborted[s]
           /\ Goto(s, "complete") \/ Goto(s, "polled")
           /\ UNCHANGED <<known, emitted, terminal, aborted, posting,
                          events, closed>>

Slept(s) == /\ runner[s] = "polled" /\ ~aborted[s]
            /\ Goto(s, "poll")
            /\ UNCHANGED <<known, emitted, terminal, aborted, posting,
                           events, closed>>

\* onOtp, onQr, onVerified
Progress(s) == /\ runner[s] = "polled" /\ emitted[s] < MaxProgress
               /\ Emit(s)
               /\ Goto(s, "poll")
               /\ UNCHANGED <<known, terminal, aborted, posting, closed>>

\* selectIdentity: show the options, then wait for the choice.
Offer(s) == /\ runner[s] = "offer"
            /\ Emit(s)
            /\ Goto(s, "pick")
            /\ UNCHANGED <<known, terminal, aborted, posting, closed>>

\* POST /login/identity sees a pending choice, then reads its body ...
PostIdentity(s) == /\ s \in known /\ runner[s] = "pick" /\ ~posting[s]
                   /\ posting' = [posting EXCEPT ![s] = TRUE]
                   /\ UNCHANGED <<known, runner, emitted, terminal, aborted,
                                  events, closed>>

\* ... and settles the choice, unless it has been settled meanwhile.
Choose(s) == /\ posting[s]
             /\ posting' = [posting EXCEPT ![s] = FALSE]
             /\ IF runner[s] = "pick" THEN Emit(s) /\ Goto(s, "finish")
                ELSE UNCHANGED <<runner, emitted, events>>
             /\ UNCHANGED <<known, terminal, aborted, closed>>

\* The login throws: a request failed, MitID said no, the loop noticed the abort
\* or its deadline, or nobody chose an identity in time.
MayThrowLate(s) == runner[s] \notin {"off", "reading", "offer", "giveup", "done"}
MayThrow(s) == runner[s] \in {"walk", "poll", "polled", "complete", "pick", "finish", "save"}
Failed(s) == /\ MayThrow(s)
             /\ terminal' = [terminal EXCEPT ![s] = emitted[s] + 1]
             /\ Emit(s)
             /\ Goto(s, "ending")
             /\ UNCHANGED <<known, aborted, posting, closed>>

\* store.save(record), whatever the signal says by now; then the terminal event.
Save(s) == /\ runner[s] = "save"
           /\ terminal' = [terminal EXCEPT ![s] = emitted[s] + 1]
           /\ Emit(s)
           /\ Goto(s, "ending")
           /\ UNCHANGED <<known, aborted, posting, closed>>

\* signalDone(), on every path.
SignalDone(s) == /\ runner[s] = "ending"
                 /\ Goto(s, "done")
                 /\ UNCHANGED <<known, emitted, terminal, aborted,
                                posting, events, closed>>

-----------------------------------------------------------------------------
(* aborts and timers                                                       *)

\* abort() of the sessions in S: a choice being waited for is given up at once;
\* an abort before that wait is not noticed by it.
AbortsChoiceOnly(S) ==
    /\ runner' = [s \in Session |-> IF s \in S /\ runner[s] = "pick" THEN "giveup" ELSE runner[s]]
    /\ UNCHANGED aborted
AbortAll(S) ==
    LET waiting == {s \in S : runner[s] = "pick" /\ ~aborted[s]} IN
    /\ aborted' = [s \in Session |-> aborted[s] \/ s \in S]
    /\ runner' = [s \in Session |-> IF s \in waiting THEN "giveup" ELSE runner[s]]

GivesUp(s) == /\ runner[s] = "giveup"
              /\ terminal' = [terminal EXCEPT ![s] = emitted[s] + 1]
              /\ Emit(s)
              /\ Goto(s, "ending")
              /\ UNCHANGED <<known, aborted, posting, closed>>

\* loginTimeoutMs after the start.  close() clears the timers of the sessions it drops;
\* that of a login started later still fires.  On an aborted login it does nothing.
TimeBox(s) == /\ s \in known /\ ~aborted[s] /\ terminal[s] = 0
              /\ AbortAll({s})
              /\ UNCHANGED <<known, emitted, terminal, posting, events, closed>>

\* sessionRetentionMs after it is done.
Retention(s) == /\ s \in known /\ runner[s] = "done"
                /\ known' = known \ {s}
                /\ UNCHANGED <<runner, emitted, terminal, aborted,
                               posting, events, closed>>

\* close()
Close == /\ ~closed
         /\ closed' = TRUE /\ known' = {}
         /\ AbortAll(ActiveLogins)
         /\ UNCHANGED <<emitted, terminal, posting, events>>

-----------------------------------------------------------------------------
(* GET /login/events                                                       *)

Attach(s, t) == /\ s \in known \cap Watched /\ streams[s][t] = "none"
                /\ stream' = [stream EXCEPT ![s] = t]
                /\ streams' = [streams EXCEPT ![s][t] = "drain"]
                /\ UNCHANGED <<login, buffered, pos, gone, got, closed>>

DrainOne(s, t) == /\ streams[s][t] = "drain" /\ pos[s][t] <= Len(buffered[s])
                  /\ got' = [got EXCEPT ![s][t] =
                               IF gone[s][t] THEN @ ELSE @ \cup {buffered[s][pos[s][t]]}]
                  /\ pos' = [pos EXCEPT ![s][t] = @ + 1]
                  /\ UNCHANGED <<login, buffered, stream, streams, gone, closed>>

\* The buffer is emptied, and the handler waits for the login's end or the
\* client's.
DropsUnwritten(s, t) == TRUE
AllWritten(s, t) == pos[s][t] > Len(buffered[s])
Drained(s, t) == /\ streams[s][t] = "drain" /\ AllWritten(s, t)
                 /\ buffered' = [buffered EXCEPT ![s] = << >>]
                 /\ streams' = [streams EXCEPT ![s][t] = "hold"]
                 /\ UNCHANGED <<login, stream, pos, gone, got, closed>>

\* The login is done: session.stream is reset, whichever stream that is.
Ended(s, t) == /\ streams[s][t] = "hold" /\ runner[s] = "done"
               /\ streams' = [streams EXCEPT ![s][t] =
                                IF gone[s][t] THEN "closed" ELSE "ended"]
               /\ stream' = [stream EXCEPT ![s] = NoStream]
               /\ UNCHANGED <<login, buffered, pos, gone, got, closed>>

\* The client leaves while the handler holds: that aborts the login.
Leaves(s, t) == /\ streams[s][t] = "hold" /\ ~gone[s][t]
                /\ gone' = [gone EXCEPT ![s][t] = TRUE]
                /\ streams' = [streams EXCEPT ![s][t] = "closed"]
                /\ stream' = [stream EXCEPT ![s] = NoStream]
                /\ AbortAll({s})
                /\ UNCHANGED <<known, emitted, terminal, posting,
                               buffered, pos, got, closed>>

\* It leaves while the buffer is drained: no one listens yet.
LeavesEarly(s, t) == /\ streams[s][t] = "drain" /\ ~gone[s][t]
                     /\ gone' = [gone EXCEPT ![s][t] = TRUE]
                     /\ UNCHANGED <<login, buffered, stream, streams, pos, got, closed>>

-----------------------------------------------------------------------------
Run(s) == \/ Walk(s) \/ Poll(s) \/ Slept(s) \/ Progress(s) \/ Offer(s) \/ Choose(s)
          \/ Failed(s) \/ GivesUp(s) \/ Save(s) \/ SignalDone(s)
Handle(s, t) == DrainOne(s, t) \/ Drained(s, t) \/ Ended(s, t)

Next == \/ \E s \in Session : RequestStart(s) \/ RefuseStart(s) \/ Start(s)
        \/ \E s \in Session : Run(s) \/ PostIdentity(s) \/ TimeBox(s) \/ Retention(s)
        \/ \E s \in Session, t \in Stream :
              Attach(s, t) \/ Handle(s, t) \/ Leaves(s, t) \/ LeavesEarly(s, t)
        \/ Close

Spec == Init /\ [][Next]_vars

\* Requests are answered, timers fire, handlers run; the poll loop is left
\* because its time box aborts it.
FairSpec ==
    /\ Spec
    /\ \A s \in Session : WF_vars(Run(s)) /\ WF_vars(TimeBox(s) \/ Retention(s))

-----------------------------------------------------------------------------
TypeOK ==
    /\ known \subseteq Session
    /\ runner \in [Session -> {"off", "reading", "walk", "poll", "polled", "complete", "offer",
                               "pick", "finish", "save", "giveup", "ending", "done"}]
    /\ emitted \in [Session -> 0..(MaxProgress + 3)]
    /\ terminal \in [Session -> 0..(MaxProgress + 3)]
    /\ aborted \in [Session -> BOOLEAN]
    /\ posting \in [Session -> BOOLEAN]
    /\ buffered \in [Session -> Seq(1..(MaxProgress + 3))]
    /\ stream \in [Session -> Stream \cup {NoStream}]
    /\ streams \in [Session -> [Stream -> {"none", "drain", "hold", "ended", "closed"}]]
    /\ pos \in [Session -> [Stream -> 1..(MaxProgress + 4)]]
    /\ gone \in [Session -> [Stream -> BOOLEAN]]
    /\ got \in [Session -> [Stream -> SUBSET (1..(MaxProgress + 3))]]
    /\ closed \in BOOLEAN

\* No more logins of the page walk MitID at once than allowed, attached to a browser or
\* not, one whose body arrived after close() included; a login that still walks but is
\* no longer the page's was dropped, and aborted, by close()
\* (setup-ui.ts:39, 263-274, 351-354, 375-396, 492-497).
LoginsBounded ==
    /\ Cardinality({s \in known : Walks(s)}) <= MaxConcurrentLogins
    /\ \A s \in Session \ known : Walks(s) => closed /\ aborted[s]

\* The only stream of a session, if it stays until the login has ended, has been sent
\* the result, whether it attached before, during or after the end and whatever was
\* buffered by then (setup-ui.ts:89-91, "a late event stream can replay the terminal
\* event").
StreamsSeeTheEnd == \A s \in Session, t \in Stream :
    /\ streams[s][t] = "ended"
    /\ \A u \in Stream \ {t} : streams[s][u] = "none"
    => terminal[s] \in got[s][t]

\* Every session is removed, whether a stream ever attached or not
\* (setup-ui.ts:39-40).
SessionsRemoved == \A s \in Session : s \in known ~> s \notin known
=============================================================================
