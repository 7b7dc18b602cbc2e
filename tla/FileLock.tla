------------------------------ MODULE FileLock ------------------------------
(***************************************************************************)
(* acquireFileLock / withFileLock of packages/aula-auth/src/file-lock.ts:  *)
(* a lock file created with O_EXCL, polled by waiters, reclaimed by them   *)
(* once its mtime is older than staleMs, and removed by path on release.   *)
(*                                                                         *)
(* Every await of the loop is a step of its own: open, writeFile, stat,    *)
(* unlink, sleep.  Time is a Tick that ages the lock file, the waits and   *)
(* the holds together; one tick stands for 20 s of the real defaults       *)
(* (timeoutMs = 20 s, staleMs = 60 s).  Ages saturate one past the bound   *)
(* they are compared with, so the model is finite without a clock bound.   *)
(***************************************************************************)
EXTENDS Integers

CONSTANTS
    Proc,        \* processes sharing the token store: MCP server, CLI, ...
    NoFile,      \* the value of lockFile when the path does not exist
    TimeoutMs,   \* FileLockOptions.timeoutMs
    StaleMs,     \* FileLockOptions.staleMs
    MaxHold,     \* the longest a process stays inside fn (environment)
    MaxCalls,    \* bound: acquisitions attempted by each process
    Faults       \* which failures the environment may inject

ASSUME FileLockAssumption ==
    /\ NoFile \notin Proc
    /\ TimeoutMs \in Nat /\ StaleMs \in Nat
    /\ MaxHold \in Nat /\ MaxCalls \in Nat
    /\ Faults \subseteq {"crash", "write", "unlink"}

VARIABLES
    lockFile,    \* the process whose open('wx') created the file, or NoFile
    lockAge,     \* Date.now() - mtime of the file
    pc,          \* where each process is in acquireFileLock
    waited,      \* Date.now() - started of the current call
    held,        \* time since this process created its lock file
    calls,       \* calls made so far (bounds the model)
    reclaimed,   \* history: file-lock.reclaiming_stale has been logged
    disturbed,   \* history: a process died, a file operation failed, or a hold
                 \* has outlived staleMs
    undeletable  \* history: an unlink has failed

file == <<lockFile, lockAge>>
history == <<reclaimed, disturbed, undeletable>>
vars == <<file, pc, waited, held, calls, history>>

Where == {"idle", "open", "write", "stat", "reclaim", "sleep", "held"}

Inside(p) == pc[p] \in {"write", "held"}
Waiting(p) == pc[p] \in {"open", "stat", "reclaim", "sleep"}

Init == /\ lockFile = NoFile
        /\ lockAge = 0
        /\ pc = [p \in Proc |-> "idle"]
        /\ waited = [p \in Proc |-> 0]
        /\ held = [p \in Proc |-> 0]
        /\ calls = [p \in Proc |-> 0]
        /\ reclaimed = FALSE /\ disturbed = FALSE /\ undeletable = FALSE

Goto(p, label) == pc' = [pc EXCEPT ![p] = label]

\* The call is over: its timers are forgotten.
Done(p) == /\ Goto(p, "idle")
           /\ waited' = [waited EXCEPT ![p] = 0]
           /\ held' = [held EXCEPT ![p] = 0]

StaleAtBound == lockAge >= StaleMs
Stale == lockAge > StaleMs

PathIsFree == lockFile = NoFile

\* unlink(lockPath).catch(() => {}): whatever file is at the path goes, or the
\* failure is not heard of.
UnlinkNeverWorks == UNCHANGED <<file, disturbed, undeletable>>
Unlink == \/ /\ lockFile' = NoFile /\ lockAge' = 0
             /\ UNCHANGED <<disturbed, undeletable>>
          \/ /\ "unlink" \in Faults
             /\ disturbed' = TRUE /\ undeletable' = TRUE
             /\ UNCHANGED file

-----------------------------------------------------------------------------
\* A caller enters withFileLock; `started` is taken.
Call(p) == /\ pc[p] = "idle" /\ calls[p] < MaxCalls
           /\ calls' = [calls EXCEPT ![p] = @ + 1]
           /\ Goto(p, "open")
           /\ UNCHANGED <<file, waited, held, history>>

\* open(lockPath, 'wx') creates the file.
OpenCreates(p) ==
    /\ pc[p] = "open" /\ PathIsFree
    /\ lockFile' = p /\ lockAge' = 0
    /\ waited' = [waited EXCEPT ![p] = 0]
    /\ Goto(p, "write")
    /\ UNCHANGED <<held, calls, history>>

\* open(lockPath, 'wx') fails with EEXIST.
OpenExists(p) ==
    /\ pc[p] = "open" /\ lockFile # NoFile
    /\ Goto(p, "stat")
    /\ UNCHANGED <<file, waited, held, calls, history>>

\* writeFile and close succeed; the write sets the mtime of p's own inode.
WriteOk(p) ==
    /\ pc[p] = "write"
    /\ Goto(p, "held")
    /\ lockAge' = IF lockFile = p THEN 0 ELSE lockAge
    /\ UNCHANGED <<lockFile, waited, held, calls, history>>

\* writeFile throws (no space, I/O error): the error is not EEXIST, so it is
\* rethrown, and the file just created stays behind.
WriteFails(p) ==
    /\ "write" \in Faults /\ pc[p] = "write"
    /\ Done(p)
    /\ disturbed' = TRUE
    /\ UNCHANGED <<file, calls, reclaimed, undeletable>>

\* stat() fails with ENOENT: retry at once.
StatGone(p) ==
    /\ pc[p] = "stat" /\ lockFile = NoFile
    /\ Goto(p, "open")
    /\ UNCHANGED <<file, waited, held, calls, history>>

\* stat() says the lock is older than staleMs: log, and go on to unlink it.
StatStale(p) ==
    /\ pc[p] = "stat" /\ lockFile # NoFile /\ Stale
    /\ reclaimed' = TRUE
    /\ Goto(p, "reclaim")
    /\ UNCHANGED <<file, waited, held, calls, disturbed, undeletable>>

\* The lock is live and there is time left: sleep.
StatWait(p) ==
    /\ pc[p] = "stat" /\ lockFile # NoFile /\ ~Stale
    /\ waited[p] <= TimeoutMs
    /\ Goto(p, "sleep")
    /\ UNCHANGED <<file, waited, held, calls, history>>

\* A waiter that gives up by going on without the lock.
ProceedsUnlocked(p) ==
    /\ pc[p] = "stat" /\ lockFile # NoFile /\ ~Stale
    /\ waited[p] > TimeoutMs
    /\ Goto(p, "held")
    /\ waited' = [waited EXCEPT ![p] = 0]
    /\ UNCHANGED <<file, held, calls, history>>

\* The lock is live and the wait is over: FileLockError.
StatTimesOut(p) ==
    /\ pc[p] = "stat" /\ lockFile # NoFile /\ ~Stale
    /\ waited[p] > TimeoutMs
    /\ Done(p)
    /\ UNCHANGED <<file, calls, history>>

\* The unlink of a lock found stale, by path, however much later it runs.
Reclaim(p) ==
    /\ pc[p] = "reclaim"
    /\ Unlink
    /\ Goto(p, "open")
    /\ UNCHANGED <<waited, held, calls, reclaimed>>

Wake(p) ==
    /\ pc[p] = "sleep"
    /\ Goto(p, "open")
    /\ UNCHANGED <<file, waited, held, calls, history>>

\* fn settled; `finally` unlinks the path, whoever's file is there by now.
Release(p) ==
    /\ pc[p] = "held"
    /\ Unlink
    /\ Done(p)
    /\ UNCHANGED <<calls, reclaimed>>

\* The process dies anywhere inside the call; its file, if any, stays.
Crash(p) ==
    /\ "crash" \in Faults /\ pc[p] # "idle"
    /\ Done(p)
    /\ disturbed' = TRUE
    /\ UNCHANGED <<file, calls, reclaimed, undeletable>>

\* Time passes; nobody stays inside longer than MaxHold.
Tick ==
    /\ \A p \in Proc : Inside(p) => held[p] < MaxHold
    /\ lockAge' = IF lockFile # NoFile /\ lockAge <= StaleMs
                  THEN lockAge + 1 ELSE lockAge
    /\ waited' = [p \in Proc |->
                    IF Waiting(p) /\ waited[p] <= TimeoutMs
                    THEN waited[p] + 1 ELSE waited[p]]
    /\ held' = [p \in Proc |-> IF Inside(p) THEN held[p] + 1 ELSE held[p]]
    /\ IF \E p \in Proc : Inside(p) /\ held[p] >= StaleMs
       THEN disturbed' = TRUE ELSE UNCHANGED disturbed
    /\ UNCHANGED <<lockFile, pc, calls, reclaimed, undeletable>>

\* What a process that is inside acquireFileLock or fn does next by itself.
Step(p) == \/ OpenCreates(p) \/ OpenExists(p) \/ WriteOk(p)
           \/ StatGone(p) \/ StatStale(p) \/ StatWait(p) \/ StatTimesOut(p)
           \/ Reclaim(p) \/ Wake(p) \/ Release(p)

Next == \/ Tick
        \/ \E p \in Proc : Call(p) \/ Step(p) \/ WriteFails(p) \/ Crash(p)

Fairness == WF_vars(Tick) /\ \A p \in Proc : WF_vars(Step(p))

Spec == Init /\ [][Next]_vars
FairSpec == Spec /\ Fairness

-----------------------------------------------------------------------------
TypeOK ==
    /\ lockFile \in Proc \cup {NoFile}
    /\ lockAge \in 0..(StaleMs + 1)
    /\ pc \in [Proc -> Where]
    /\ waited \in [Proc -> 0..(TimeoutMs + 1)]
    /\ held \in [Proc -> 0..MaxHold]
    /\ calls \in [Proc -> 0..MaxCalls]
    /\ reclaimed \in BOOLEAN /\ disturbed \in BOOLEAN /\ undeletable \in BOOLEAN

\* No two processes are inside the section the lock protects (file-lock.ts:2,
\* "Minimal cross-process mutex").
MutualExclusion == \A p, q \in Proc : Inside(p) /\ Inside(q) => p = q

\* Whatever crashes and failed writes leave behind, two processes are inside
\* at once only if some process has logged a reclaim of a stale lock
\* (file-lock.ts:79-84): acquisition, release and the timeout never do it.
ExclusiveUnlessReclaimed == reclaimed \/ MutualExclusion

\* As long as nothing fails and no hold outlives staleMs, no waiter takes a lock
\* for abandoned (file-lock.ts:80), however its stat and a release interleave.
NoReclaimUndisturbed == reclaimed => disturbed

\* A caller that waits for the lock gets it or gives up, whatever dead holders have
\* left, as long as files can be unlinked (file-lock.ts:12-15).
WaitEnds == \A p \in Proc : []<>(~Waiting(p) \/ undeletable)

\* The lock file implements the mutex its comment promises (file-lock.ts:2) up to
\* the first disturbance; from then on it promises nothing.
Section == INSTANCE Mutex WITH
              holders <- IF disturbed THEN {} ELSE {p \in Proc : Inside(p)}
ImplementsMutex == Section!MutexSpec
=============================================================================
