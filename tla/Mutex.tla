------------------------------- MODULE Mutex -------------------------------
(***************************************************************************)
(* What packages/aula-auth/src/file-lock.ts promises its callers: "a       *)
(* minimal cross-process mutex".  A process enters the section only while  *)
(* nobody is in it, and leaves it when its function has settled.           *)
(* FileLock is the mechanism; FreshTokens is the client.                   *)
(***************************************************************************)
CONSTANT Proc

VARIABLE holders   \* the processes inside withFileLock's fn

MutexTypeOK == holders \in SUBSET Proc

MutexInit == holders = {}

Enter(p) == /\ holders = {}
            /\ holders' = {p}

Leave(p) == /\ p \in holders
            /\ holders' = holders \ {p}

MutexNext == \E p \in Proc : Enter(p) \/ Leave(p)

MutexSpec == MutexInit /\ [][MutexNext]_holders
=============================================================================
