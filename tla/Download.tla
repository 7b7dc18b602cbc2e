-------------------------------- MODULE Download --------------------------------
(***************************************************************************)
(* One call of downloadAttachment (packages/mcp-server/src/attachments.ts):*)
(* redirects, then a body streamed to <name>.part by event handlers that   *)
(* race each other: data, end, error, close, the idle and the total timer, *)
(* and the chain of writes.  Sizes are counted in chunks.                  *)
(***************************************************************************)
EXTENDS Integers

CONSTANTS
    MaxRedirects,    \* policy.maxRedirects
    MaxBytes,        \* policy.maxBytes
    MaxBody,         \* bound: the longest body a server sends
    Faults           \* "write": a write may fail; "fs": open, close or rename may throw

DownloadAssumption == {MaxRedirects, MaxBytes, MaxBody} \subseteq Nat

VARIABLES
    phase,      \* connect, open, flow, closed, done
    hop,        \* redirects followed
    body,       \* chunks the server has for us
    wire,       \* res: open, ended, closed
    bytes,      \* chunks accepted
    queued,     \* chunks in writeChain
    written,    \* chunks in the file
    settled,
    result,     \* none, ok, failed, thrown
    file,       \* none, part, final
    lost        \* history: a write failed after end, and nobody heard of it

stream == <<body, wire, bytes, queued, written, settled, lost>>
vars == <<phase, hop, stream, result, file>>

Init == /\ phase = "connect" /\ hop = 0 /\ body \in 0..MaxBody
        /\ wire = "open" /\ bytes = 0 /\ queued = 0 /\ written = 0
        /\ settled = FALSE /\ result = "none" /\ file = "none" /\ lost = FALSE

-----------------------------------------------------------------------------
(* downloadAttachment: one hop                                              *)

Answer(r) == phase' = "done" /\ result' = r /\ UNCHANGED <<hop, file, stream>>

\* Rejected, timed out, unreachable, an error status, or declared too large.
HopFails == phase = "connect" /\ Answer("failed")

Redirect == /\ phase = "connect" /\ hop < MaxRedirects
            /\ hop' = hop + 1
            /\ UNCHANGED <<phase, result, file, stream>>

Body == /\ phase = "connect"
        /\ phase' = "open"
        /\ UNCHANGED <<hop, result, file, stream>>

OpenPart == /\ phase = "open"
            /\ phase' = "flow" /\ file' = "part"
            /\ UNCHANGED <<hop, result, stream>>

OpenThrows == phase = "open" /\ "fs" \in Faults /\ Answer("thrown")

-----------------------------------------------------------------------------
(* streamToFile: the handlers                                               *)

\* fail(): the first to settle decides; res is destroyed.
Fail == IF settled THEN UNCHANGED <<result, settled, wire>>
                   ELSE result' = "failed" /\ settled' = TRUE /\ wire' = "closed"

TooLarge == bytes + 1 > MaxBytes
Data == /\ phase = "flow" /\ wire = "open" /\ bytes < body
        /\ \/ TooLarge /\ Fail /\ UNCHANGED <<bytes, queued>>
           \/ ~TooLarge /\ bytes' = bytes + 1 /\ queued' = queued + 1
              /\ UNCHANGED <<wire, settled, result>>
        /\ UNCHANGED <<phase, hop, body, written, file, lost>>

Write == /\ phase = "flow" /\ queued > 0
         /\ queued' = queued - 1 /\ written' = written + 1
         /\ UNCHANGED <<phase, hop, body, wire, bytes, settled, result, file, lost>>

WriteFails == /\ phase = "flow" /\ queued > 0 /\ "write" \in Faults
              /\ queued' = queued - 1
              /\ Fail /\ lost' = (lost \/ wire = "ended")
              /\ UNCHANGED <<phase, hop, body, bytes, written, file>>

End == /\ phase = "flow" /\ wire = "open" /\ bytes = body
       /\ wire' = "ended" /\ settled' = TRUE
       /\ UNCHANGED <<phase, hop, body, bytes, queued, written, result, file, lost>>

\* error, or close without an end.
PeerClosed == /\ phase = "flow" /\ wire = "open"
              /\ Fail
              /\ UNCHANGED <<phase, hop, body, bytes, queued, written, file, lost>>

\* The idle timer, or the total one; settling stops both.
ArmedUntilData == ~settled /\ bytes = 0
TimerArmed == ~settled
Timeout == /\ phase = "flow" /\ TimerArmed
           /\ Fail
           /\ UNCHANGED <<phase, hop, body, bytes, queued, written, file, lost>>

\* After end, the answer waits for the chain of writes.
WaitsNotForWrites == wire = "ended"
ChainDone == wire = "ended" /\ queued = 0
Drained == /\ phase = "flow" /\ ChainDone /\ result = "none"
           /\ result' = "ok"
           /\ UNCHANGED <<phase, hop, file, stream>>

-----------------------------------------------------------------------------
(* streamToFile: the end                                                    *)

\* handle.close(); writes still in the chain fail unheard.
CloseFile == /\ phase = "flow" /\ result # "none"
             /\ phase' = "closed" /\ queued' = 0
             /\ UNCHANGED <<hop, body, wire, bytes, written, settled, result, file, lost>>

CloseThrows == phase = "flow" /\ result # "none" /\ "fs" \in Faults /\ Answer("thrown")

RemovePart == phase = "closed" /\ result = "failed"
              /\ phase' = "done" /\ file' = "none" /\ UNCHANGED <<hop, result, stream>>

Rename == phase = "closed" /\ result = "ok"
          /\ phase' = "done" /\ file' = "final" /\ UNCHANGED <<hop, result, stream>>

RenameThrows == phase = "closed" /\ "fs" \in Faults /\ Answer("thrown")

Next == \/ HopFails \/ Redirect \/ Body \/ OpenPart \/ OpenThrows
        \/ Data \/ Write \/ WriteFails \/ End \/ PeerClosed \/ Timeout \/ Drained
        \/ CloseFile \/ CloseThrows \/ RemovePart \/ Rename \/ RenameThrows

Spec == Init /\ [][Next]_vars

\* The headers timer and the body timers fire, writes finish, the code runs on.
Progress == \/ HopFails \/ OpenPart \/ Write \/ Timeout \/ Drained
            \/ CloseFile \/ RemovePart \/ Rename
FairSpec == Spec /\ WF_vars(Progress)

-----------------------------------------------------------------------------
TypeOK ==
    /\ phase \in {"connect", "open", "flow", "closed", "done"}
    /\ hop \in 0..MaxRedirects /\ body \in 0..MaxBody
    /\ wire \in {"open", "ended", "closed"}
    /\ bytes \in Nat /\ queued \in Nat /\ written \in Nat
    /\ settled \in BOOLEAN /\ settled = (wire # "open")
    /\ result \in {"none", "ok", "failed", "thrown"}
    /\ file \in {"none", "part", "final"} /\ lost \in BOOLEAN

\* A download reported ok is complete on disk (attachments.ts:365-367, 550-561).
OkIsWhole == phase = "done" /\ result = "ok" => file = "final" /\ written = body

\* The answer says what is on disk, whichever of end, close, error, the timers and the
\* writes came first: ok is the whole body, unless a write failed after end, and never more
\* than the cap; failed, which every write failing before end leads to, is no file
\* (attachments.ts:365-367, 497-556).
AnswerMatchesFile ==
    /\ lost \/ OkIsWhole
    /\ phase = "done" /\ result = "ok" => written <= MaxBytes
    /\ phase = "done" /\ result = "failed" => file = "none"

\* Silent servers, lost connections and slow writes all come to an answer
\* (attachments.ts:17-19, "connect / idle / total deadlines").
DownloadEnds == <>(phase = "done")
=============================================================================
