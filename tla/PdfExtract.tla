------------------------------ MODULE PdfExtract ------------------------------
(***************************************************************************)
(* One call of extractPdfText (packages/mcp-server/src/pdf-extract.ts):    *)
(* the checks, the worker process it spawns (pdf-worker.ts), the deadline, *)
(* the two pipes it drains and the answer it makes of them.  What pdf.js   *)
(* does with the file is external: it may answer, fail, hang or die.       *)
(***************************************************************************)
EXTENDS Integers

CONSTANTS
    PipeCap,        \* chunks a pipe holds before its writer blocks
    MaxStdout,      \* MAX_WORKER_STDOUT, in chunks
    MaxChatter      \* bound: chunks the worker writes to stderr

PdfAssumption == PipeCap \in Nat \ {0} /\ MaxStdout \in Nat /\ MaxChatter \in Nat

VARIABLES
    file,           \* too_large, no_magic, pdf
    state,          \* of the call: check, running, answered
    worker,         \* none, parsing, writing, second, exited, killed
    parse,          \* what pdf.js made of the file: none, text, failed
    left,           \* chunks of its JSON object the worker has yet to write
    objects,        \* JSON objects it has written whole
    pipe, errors,   \* chunks in the stdout and stderr pipes
    chatter,        \* chunks written to stderr
    read,           \* chunks of stdout the parent kept
    timer,          \* armed, fired, cleared, none
    overflowed,
    answer          \* none, ok, or the error of the result

parent == <<file, state, read, timer, overflowed, answer>>
child == <<worker, parse, left, objects, pipe, errors, chatter>>
vars == <<parent, child>>

Init == /\ file \in {"too_large", "no_magic", "pdf"}
        /\ state = "check" /\ worker = "none" /\ parse = "none"
        /\ left = 0 /\ objects = 0 /\ pipe = 0 /\ errors = 0 /\ chatter = 0
        /\ read = 0 /\ timer = "none" /\ overflowed = FALSE /\ answer = "none"

Alive == worker \in {"parsing", "writing", "second"}
TimedOut == timer = "fired"
Answers(how) == state' = "answered" /\ answer' = how

-----------------------------------------------------------------------------
(* The call                                                                 *)

TooLarge == /\ state = "check" /\ file = "too_large"
            /\ Answers("pdf_too_large")
            /\ UNCHANGED <<child, file, read, timer, overflowed>>
NoMagic == /\ state = "check" /\ file = "no_magic"
           /\ Answers("not_a_pdf")
           /\ UNCHANGED <<child, file, read, timer, overflowed>>
Spawn == /\ state = "check" /\ file = "pdf"
         /\ state' = "running" /\ timer' = "armed" /\ worker' = "parsing"
         /\ UNCHANGED <<file, read, overflowed, answer, parse, left, objects, pipe, errors,
                        chatter>>

\* SIGKILL; what is in the pipes stays there.
KillsNobody == UNCHANGED worker
Kill == worker' = IF Alive THEN "killed" ELSE worker

TimerFires == /\ timer = "armed"
              /\ timer' = "fired" /\ Kill
              /\ UNCHANGED <<file, state, read, overflowed, answer, parse, left, objects,
                             pipe, errors, chatter>>

\* readBoundedStream: past the cap the rest is read and discarded.
CapOffByOne == read <= MaxStdout
WithinCap == read < MaxStdout
ReadStdout == /\ state = "running" /\ pipe > 0
              /\ pipe' = pipe - 1
              /\ IF WithinCap
                 THEN read' = read + 1 /\ UNCHANGED <<overflowed, worker>>
                 ELSE /\ overflowed' = TRUE /\ UNCHANGED read
                      /\ IF overflowed THEN UNCHANGED worker ELSE Kill
              /\ UNCHANGED <<file, state, timer, answer, parse, left, objects, errors,
                             chatter>>

ReadStderr == /\ state = "running" /\ errors > 0
              /\ errors' = errors - 1
              /\ UNCHANGED <<parent, worker, parse, left, objects, pipe, chatter>>

\* Both streams at their end, and the process gone.
Drained == worker \in {"exited", "killed"} /\ pipe = 0 /\ errors = 0

\* JSON.parse of everything kept: one whole object, or an error.
ParsesSome == IF objects > 0 /\ parse = "text" THEN "ok" ELSE "pdf_parse_failed"
Parsed == IF objects = 1 /\ parse = "text" THEN "ok" ELSE "pdf_parse_failed"

Result == IF TimedOut THEN "pdf_timeout"
          ELSE IF overflowed THEN "pdf_parse_failed" ELSE Parsed

Settle == /\ state = "running" /\ Drained
          /\ Answers(Result)
          /\ timer' = IF timer = "armed" THEN "cleared" ELSE timer
          /\ UNCHANGED <<child, file, read, overflowed>>

-----------------------------------------------------------------------------
(* The worker                                                               *)

\* getText settles: the text, cut to maxChars, or an exception.
ParseEnds(how, size) == /\ worker = "parsing"
                        /\ worker' = "writing" /\ parse' = how /\ left' = size
                        /\ UNCHANGED <<parent, objects, pipe, errors, chatter>>

\* process.stdout.write blocks the worker while the pipe is full.
Writes == /\ worker \in {"writing", "second"} /\ left > 0 /\ pipe < PipeCap
          /\ left' = left - 1 /\ pipe' = pipe + 1
          /\ objects' = IF left = 1 THEN objects + 1 ELSE objects
          /\ UNCHANGED <<parent, worker, parse, errors, chatter>>

Chatters == /\ Alive /\ chatter < MaxChatter /\ errors < PipeCap
            /\ chatter' = chatter + 1 /\ errors' = errors + 1
            /\ UNCHANGED <<parent, worker, parse, left, objects, pipe>>

\* destroy() throws after the text was written: the catch of main writes a second object.
DestroyFails == /\ worker = "writing" /\ parse = "text" /\ left = 0
                /\ worker' = "second" /\ left' = 1
                /\ UNCHANGED <<parent, parse, objects, pipe, errors, chatter>>

Exits == /\ worker \in {"writing", "second"} /\ left = 0
         /\ worker' = "exited"
         /\ UNCHANGED <<parent, parse, left, objects, pipe, errors, chatter>>

\* Out of memory, a crash of pdf.js: at any point.
Dies == /\ Alive
        /\ worker' = "exited"
        /\ UNCHANGED <<parent, parse, left, objects, pipe, errors, chatter>>

-----------------------------------------------------------------------------
CallStep == TooLarge \/ NoMagic \/ Spawn \/ TimerFires \/ ReadStdout \/ ReadStderr \/ Settle
WorkerStep == \/ \E size \in 1..MaxStdout + 2 : ParseEnds("text", size)
              \/ ParseEnds("failed", 1)
              \/ Writes \/ Chatters \/ DestroyFails \/ Exits \/ Dies
Next == CallStep \/ WorkerStep

\* The parent reads and its timer fires; nothing is assumed of the worker.
Spec == Init /\ [][Next]_vars /\ WF_vars(CallStep) /\ WF_vars(TimerFires)

-----------------------------------------------------------------------------
TypeOK == /\ file \in {"too_large", "no_magic", "pdf"}
          /\ state \in {"check", "running", "answered"}
          /\ worker \in {"none", "parsing", "writing", "second", "exited", "killed"}
          /\ parse \in {"none", "text", "failed"} /\ left \in 0..MaxStdout + 2
          /\ objects \in 0..2 /\ pipe \in 0..PipeCap /\ errors \in 0..PipeCap
          /\ chatter \in 0..MaxChatter /\ read \in 0..MaxStdout
          /\ timer \in {"none", "armed", "fired", "cleared"} /\ overflowed \in BOOLEAN
          /\ answer \in {"none", "ok", "pdf_too_large", "not_a_pdf", "pdf_timeout",
                         "pdf_parse_failed"}

\* Text is only answered for a worker that was never killed and whose whole output was
\* kept and is one object, whichever of its end, the deadline and the cap came first; and no call
\* leaves a worker or a deadline behind (pdf-extract.ts:106-162).
AnswerIsWhole ==
    state = "answered" =>
        /\ answer = "ok" => worker = "exited" /\ objects = 1 /\ ~overflowed
        /\ ~Alive /\ timer # "armed"

\* Every extraction ends, also when the worker hangs, blocks on a full pipe or will not
\* stop talking (pdf-extract.ts:106-125).
Answered == <>(state = "answered")
=============================================================================
