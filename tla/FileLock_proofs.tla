--------------------------- MODULE FileLock_proofs ---------------------------
(***************************************************************************)
(* Theorems about the lock file, for any set of processes, any timeouts    *)
(* and any set of faults: typing, exclusion as long as no stale lock has   *)
(* been reclaimed, and, as long as nothing has failed and no hold has      *)
(* outlived staleMs, that nothing is reclaimed and the lock implements     *)
(* Mutex.                                                                  *)
(***************************************************************************)
EXTENDS FileLock, TLAPS

LEMMA TypeInit == Init => TypeOK
<1>1. /\ 0 \in 0..(StaleMs + 1) /\ 0 \in 0..(TimeoutMs + 1)
      /\ 0 \in 0..MaxHold /\ 0 \in 0..MaxCalls
  BY FileLockAssumption
<1> QED
  BY <1>1 DEF Init, TypeOK, Where

LEMMA TypeStep == TypeOK /\ [Next]_vars => TypeOK'
<1> SUFFICES ASSUME TypeOK, [Next]_vars PROVE TypeOK'
  OBVIOUS
<1> USE FileLockAssumption DEF TypeOK, Where, file, history
<1>1. ASSUME NEW p \in Proc, Call(p) PROVE TypeOK'
  BY <1>1 DEF Call, Goto
<1>2. ASSUME NEW p \in Proc, OpenCreates(p) PROVE TypeOK'
  BY <1>2 DEF OpenCreates, Goto
<1>3. ASSUME NEW p \in Proc,
             OpenExists(p) \/ StatGone(p) \/ StatStale(p) \/ StatWait(p) \/ Wake(p)
      PROVE TypeOK'
  BY <1>3 DEF OpenExists, StatGone, StatStale, StatWait, Wake, Goto
<1>4. ASSUME NEW p \in Proc, WriteOk(p) PROVE TypeOK'
  BY <1>4 DEF WriteOk, Goto
<1>5. ASSUME NEW p \in Proc, StatTimesOut(p) \/ WriteFails(p) \/ Crash(p)
      PROVE TypeOK'
  <2>1. Done(p) /\ UNCHANGED <<file, calls, reclaimed, undeletable>> /\ disturbed' \in BOOLEAN
    BY <1>5 DEF StatTimesOut, WriteFails, Crash
  <2> QED
    BY <2>1 DEF Done, Goto
<1>6. ASSUME NEW p \in Proc, Reclaim(p) \/ Release(p) PROVE TypeOK'
  <2>1. /\ lockFile' \in Proc \cup {NoFile} /\ lockAge' \in 0..(StaleMs + 1)
        /\ disturbed' \in BOOLEAN /\ undeletable' \in BOOLEAN
    <3>1. Unlink
      BY <1>6 DEF Reclaim, Release
    <3>2. disturbed' \in BOOLEAN /\ undeletable' \in BOOLEAN
      BY <3>1, Zenon DEF Unlink
    <3>3. lockFile' \in Proc \cup {NoFile} /\ (lockAge' = 0 \/ lockAge' = lockAge)
      BY <3>1, Zenon DEF Unlink
    <3>4. lockAge' \in 0..(StaleMs + 1)
      BY <3>3
    <3> QED
      BY <3>2, <3>3, <3>4
  <2>2. CASE Reclaim(p)
    BY <2>1, <2>2 DEF Reclaim, Goto
  <2>3. CASE Release(p)
    BY <2>1, <2>3 DEF Release, Done, Goto
  <2> QED
    BY <1>6, <2>2, <2>3
<1>7. CASE Tick
  <2>1. disturbed' \in BOOLEAN
    BY <1>7 DEF Tick
  <2> QED
    BY <1>7, <2>1 DEF Tick, Inside, Waiting
<1>8. CASE UNCHANGED vars
  BY <1>8 DEF vars
<1> QED
  BY <1>1, <1>2, <1>3, <1>4, <1>5, <1>6, <1>7, <1>8 DEF Next, Step

\* The lock file keeps its type: the ages saturate and every label is known
\* (acquireFileLock, file-lock.ts:50-99).
THEOREM TypeCorrect == Spec => []TypeOK
BY TypeInit, TypeStep, PTL DEF Spec

-----------------------------------------------------------------------------
\* Until a stale lock is reclaimed, whoever is inside created the file that is
\* there, and nobody is about to unlink it.
OwnsFile == ~reclaimed => /\ \A p \in Proc : Inside(p) => lockFile = p
                          /\ \A p \in Proc : pc[p] # "reclaim"

LEMMA OwnsFileInit == Init => OwnsFile
  BY DEF Init, OwnsFile, Inside

LEMMA OwnsFileStep == TypeOK /\ OwnsFile /\ [Next]_vars => OwnsFile'
<1> SUFFICES ASSUME TypeOK, OwnsFile, [Next]_vars PROVE OwnsFile'
  OBVIOUS
<1> USE FileLockAssumption DEF TypeOK, OwnsFile, Inside, file, history
<1>1. ASSUME NEW p \in Proc, Call(p) PROVE OwnsFile'
  BY <1>1 DEF Call, Goto
<1>2. ASSUME NEW p \in Proc, OpenCreates(p) PROVE OwnsFile'
  BY <1>2 DEF OpenCreates, PathIsFree, Goto
<1>3. ASSUME NEW p \in Proc,
             OpenExists(p) \/ StatGone(p) \/ StatStale(p) \/ StatWait(p) \/ Wake(p)
      PROVE OwnsFile'
  BY <1>3 DEF OpenExists, StatGone, StatStale, StatWait, Wake, Goto
<1>4. ASSUME NEW p \in Proc, WriteOk(p) PROVE OwnsFile'
  BY <1>4 DEF WriteOk, Goto
<1>5. ASSUME NEW p \in Proc, StatTimesOut(p) \/ WriteFails(p) \/ Crash(p)
      PROVE OwnsFile'
  BY <1>5 DEF StatTimesOut, WriteFails, Crash, Done, Goto
<1>6. ASSUME NEW p \in Proc, Reclaim(p) PROVE OwnsFile'
  BY <1>6 DEF Reclaim, Unlink, Goto
<1>7. ASSUME NEW p \in Proc, Release(p) PROVE OwnsFile'
  BY <1>7 DEF Release, Unlink, Done, Goto
<1>8. CASE Tick
  BY <1>8 DEF Tick
<1>9. CASE UNCHANGED vars
  BY <1>9 DEF vars
<1> QED
  BY <1>1, <1>2, <1>3, <1>4, <1>5, <1>6, <1>7, <1>8, <1>9 DEF Next, Step

\* Crashes, failed writes and failed unlinks included, two processes are in the
\* section at once only after a reclaim has been logged (file-lock.ts:79-84).
THEOREM Exclusion == Spec => []ExclusiveUnlessReclaimed
<1>1. OwnsFile => ExclusiveUnlessReclaimed
  BY DEF OwnsFile, ExclusiveUnlessReclaimed, MutualExclusion
<1> QED
  BY <1>1, OwnsFileInit, OwnsFileStep, TypeCorrect, PTL DEF Spec

-----------------------------------------------------------------------------
\* Undisturbed, a lock file always has a live holder and is no older than its
\* holder's stay, which has not outlived staleMs.
FileIsLive ==
    ~disturbed => /\ lockFile # NoFile => Inside(lockFile) /\ lockAge <= held[lockFile]
                  /\ \A p \in Proc : IF Inside(p) THEN held[p] <= StaleMs ELSE held[p] = 0

UndisturbedInv == NoReclaimUndisturbed /\ OwnsFile /\ FileIsLive

LEMMA UndisturbedInit == Init => UndisturbedInv
  BY OwnsFileInit DEF Init, UndisturbedInv, NoReclaimUndisturbed, FileIsLive, Inside

LEMMA UndisturbedStep == TypeOK /\ UndisturbedInv /\ [Next]_vars => UndisturbedInv'
<1> SUFFICES ASSUME TypeOK, UndisturbedInv, [Next]_vars, ~disturbed'
             PROVE  FileIsLive' /\ NoReclaimUndisturbed'
  BY OwnsFileStep DEF UndisturbedInv, FileIsLive, NoReclaimUndisturbed
<1> USE FileLockAssumption
    DEF TypeOK, UndisturbedInv, OwnsFile, FileIsLive, NoReclaimUndisturbed, Inside, file,
        history
<1>1. ASSUME NEW p \in Proc, Call(p) PROVE FileIsLive' /\ NoReclaimUndisturbed'
  BY <1>1 DEF Call, Goto
<1>2. ASSUME NEW p \in Proc, OpenCreates(p) PROVE FileIsLive' /\ NoReclaimUndisturbed'
  BY <1>2 DEF OpenCreates, PathIsFree, Goto
<1>3. ASSUME NEW p \in Proc, OpenExists(p) \/ StatGone(p) \/ StatWait(p) \/ Wake(p)
      PROVE FileIsLive' /\ NoReclaimUndisturbed'
  BY <1>3 DEF OpenExists, StatGone, StatWait, Wake, Goto
<1>4. ASSUME NEW p \in Proc, StatStale(p) PROVE FALSE
  BY <1>4 DEF StatStale, Stale
<1>5. ASSUME NEW p \in Proc, WriteOk(p) PROVE FileIsLive' /\ NoReclaimUndisturbed'
  BY <1>5 DEF WriteOk, Goto
<1>6. ASSUME NEW p \in Proc, StatTimesOut(p) PROVE FileIsLive' /\ NoReclaimUndisturbed'
  BY <1>6 DEF StatTimesOut, Done, Goto
<1>7. ASSUME NEW p \in Proc, WriteFails(p) \/ Crash(p) \/ Reclaim(p) PROVE FALSE
  BY <1>7 DEF WriteFails, Crash, Reclaim, Unlink
<1>8. ASSUME NEW p \in Proc, Release(p) PROVE FileIsLive' /\ NoReclaimUndisturbed'
  BY <1>8 DEF Release, Unlink, Done, Goto
<1>9. CASE Tick
  <2>1. ~disturbed /\ \A p \in Proc : Inside(p) => held[p] < StaleMs
    <3>1. ~ \E p \in Proc : Inside(p) /\ held[p] >= StaleMs
      BY <1>9 DEF Tick
    <3>2. ~disturbed
      BY <1>9, <3>1 DEF Tick
    <3> QED
      BY <3>1, <3>2
  <2>2. NoReclaimUndisturbed'
    BY <1>9, <2>1 DEF Tick
  <2>3. FileIsLive'
    BY <1>9, <2>1 DEF Tick
  <2> QED
    BY <2>2, <2>3
<1>10. CASE UNCHANGED vars
  BY <1>10 DEF vars
<1> QED
  BY <1>1, <1>2, <1>3, <1>4, <1>5, <1>6, <1>7, <1>8, <1>9, <1>10 DEF Next, Step

\* As long as nothing fails and no hold outlives staleMs, no lock is taken for
\* abandoned, however stat, unlink and release interleave (file-lock.ts:79-84).
THEOREM NoReclaim == Spec => []NoReclaimUndisturbed
<1>1. UndisturbedInv => NoReclaimUndisturbed
  BY DEF UndisturbedInv
<1> QED
  BY <1>1, UndisturbedInit, UndisturbedStep, TypeCorrect, PTL DEF Spec

\* Up to the first disturbance the lock file implements the cross-process mutex
\* that withFreshTokens relies on (file-lock.ts:2).
THEOREM Refinement == Spec => ImplementsMutex
<1> DEFINE inside == IF disturbed THEN {} ELSE {p \in Proc : Inside(p)}
<1>1. Init => Section!MutexInit
  BY DEF Init, Section!MutexInit, Inside
<1>2. TypeOK /\ UndisturbedInv /\ [Next]_vars => [Section!MutexNext]_inside
  <2> SUFFICES ASSUME TypeOK, UndisturbedInv, [Next]_vars
               PROVE  Section!MutexNext \/ inside' = inside
    OBVIOUS
  <2> USE FileLockAssumption DEF TypeOK, Inside, file, history
  <2>alone. ASSUME ~disturbed, NEW p \in Proc, Inside(p) PROVE inside = {p}
    BY <2>alone DEF UndisturbedInv, OwnsFile, NoReclaimUndisturbed
  \* The first disturbance empties the section, which at most one process occupies.
  <2>first. ASSUME disturbed' PROVE Section!MutexNext \/ inside' = inside
    <3>1. inside' = {}
      BY <2>first
    <3>2. CASE inside # {}
      <4>1. PICK p \in Proc : p \in inside
        BY <3>2
      <4>2. Section!Leave(p)
        BY <3>1, <4>1, <2>alone DEF Section!Leave
      <4> QED BY <4>1, <4>2 DEF Section!MutexNext
    <3> QED BY <3>1, <3>2
  <2>1. ASSUME ~disturbed', NEW p \in Proc, OpenCreates(p) PROVE Section!Enter(p)
    <3>1. inside = {} /\ ~disturbed
      BY <2>1 DEF OpenCreates, PathIsFree, UndisturbedInv, OwnsFile, NoReclaimUndisturbed
    <3>2. inside' = {p}
      BY <2>1, <3>1 DEF OpenCreates, Goto
    <3> QED BY <3>1, <3>2 DEF Section!Enter
  <2>2. ASSUME ~disturbed', NEW p \in Proc, Release(p) PROVE Section!Leave(p)
    BY <2>2 DEF Release, Unlink, Done, Goto, Section!Leave
  <2>3. ASSUME ~disturbed', NEW p \in Proc, WriteOk(p) PROVE inside' = inside
    BY <2>3 DEF WriteOk, Goto
  <2>4. ASSUME ~disturbed', NEW p \in Proc,
               Call(p) \/ OpenExists(p) \/ StatGone(p) \/ StatStale(p) \/ StatWait(p)
               \/ Wake(p) \/ Reclaim(p)
        PROVE inside' = inside
    BY <2>4 DEF Call, OpenExists, StatGone, StatStale, StatWait, Wake, Reclaim, Unlink, Goto
  <2>5. ASSUME ~disturbed', NEW p \in Proc, StatTimesOut(p) PROVE inside' = inside
    BY <2>5 DEF StatTimesOut, Done, Goto
  <2>6. ASSUME NEW p \in Proc, WriteFails(p) \/ Crash(p) PROVE disturbed'
    BY <2>6 DEF WriteFails, Crash
  <2>7. CASE ~disturbed' /\ Tick
    BY <2>7 DEF Tick
  <2>8. CASE UNCHANGED vars
    BY <2>8 DEF vars
  <2> QED
    BY <2>first, <2>1, <2>2, <2>3, <2>4, <2>5, <2>6, <2>7, <2>8
       DEF Next, Step, Section!MutexNext
<1> QED
  BY <1>1, <1>2, UndisturbedInit, UndisturbedStep, TypeCorrect, PTL
     DEF Spec, ImplementsMutex, Section!MutexSpec
=============================================================================
