------------------------------- MODULE KeyFile -------------------------------
(***************************************************************************)
(* The encryption key of EncryptedFileTokenStore (packages/aula-auth/src/  *)
(* token-store.ts): load and save resolve it from the constructor or the   *)
(* environment, or else from the key file, which the first use creates.    *)
(* Both files are replaced by an atomic rename; nothing locks them.        *)
(*                                                                         *)
(* A key is a number, 0 the one handed to a process; a token file is known *)
(* by the key it is sealed with.  Each await of load and save is a step.   *)
(***************************************************************************)
EXTENDS Integers

CONSTANTS
    Proc,         \* processes with the same files
    Given,        \* those that have the key from the constructor or AULA_MCP_KEY
    None,         \* no such file, no cached key
    MaxKeys,      \* bound: keys ever generated
    Faults        \* "disk": a write may fail; "crash"

KeyFileAssumption == MaxKeys \in Nat /\ None \notin Nat

Key == 0..MaxKeys

VARIABLES
    keyFile,     \* the key in .key, or None
    tokenFile,   \* the key tokens.json is sealed with, or None
    generated,   \* keys generated so far
    cachedKey,   \* this.cachedKey of each process
    own,         \* the key it has just generated
    sealed,      \* the envelope its load has read
    pc,          \* idle, load or save: resolving the key; writeKey; opening; sealing
    raced        \* history: two processes were in their first use at once

files == <<keyFile, tokenFile, generated>>
vars == <<files, cachedKey, own, sealed, pc, raced>>

Init == /\ keyFile = None /\ tokenFile = None /\ generated = 0
        /\ cachedKey = [p \in Proc |-> None]
        /\ own = [p \in Proc |-> None]
        /\ sealed = [p \in Proc |-> None]
        /\ pc = [p \in Proc |-> "idle"]
        /\ raced = FALSE

\* What a process that starts now would decrypt with.
KeyOf(p) == IF p \in Given THEN 0 ELSE keyFile

Goto(p, label) == pc' = [pc EXCEPT ![p] = label]
Begins(p) == /\ pc[p] = "idle"
             /\ raced' = (raced \/ (keyFile = None /\ \E q \in Proc : pc[q] # "idle"))
Return(p) == /\ Goto(p, "idle")
             /\ own' = [own EXCEPT ![p] = None]
             /\ sealed' = [sealed EXCEPT ![p] = None]

-----------------------------------------------------------------------------
(* load and save, up to the key                                            *)

\* load() reads the envelope first; without a file it answers null.
Load(p) == /\ Begins(p) /\ tokenFile # None
           /\ sealed' = [sealed EXCEPT ![p] = tokenFile]
           /\ Goto(p, "load")
           /\ UNCHANGED <<files, cachedKey, own>>

Save(p) == /\ Begins(p)
           /\ Goto(p, "save")
           /\ UNCHANGED <<files, cachedKey, own, sealed>>

Resolving(p) == pc[p] \in {"load", "save"}
Resolved(p, k) == /\ cachedKey' = [cachedKey EXCEPT ![p] = k]
                  /\ Goto(p, IF sealed[p] # None THEN "opening" ELSE "sealing")

\* resolveKey: the cached key, the one given, ...
KeyAtHand(p) == /\ Resolving(p)
                /\ cachedKey[p] # None \/ p \in Given
                /\ Resolved(p, IF cachedKey[p] # None THEN cachedKey[p] ELSE 0)
                /\ UNCHANGED <<files, own, sealed, raced>>

\* ... the key file, ...
KeyRead(p) == /\ Resolving(p) /\ cachedKey[p] = None /\ p \notin Given
              /\ keyFile # None
              /\ Resolved(p, keyFile)
              /\ UNCHANGED <<files, own, sealed, raced>>

\* ... or, when reading it fails with ENOENT, a new one ...
NoKeyFile == keyFile = None
KeyGenerated(p) == /\ Resolving(p) /\ cachedKey[p] = None /\ p \notin Given
                   /\ NoKeyFile
                   /\ generated < MaxKeys
                   /\ generated' = generated + 1
                   /\ own' = [own EXCEPT ![p] = generated + 1]
                   /\ Goto(p, "writeKey")
                   /\ UNCHANGED <<keyFile, tokenFile, cachedKey, sealed, raced>>

\* ... that writeKeyFile renames over whatever is at the path by now.
KeptInMemory(p) == UNCHANGED keyFile
KeyReplaced(p) == keyFile' = own[p]
KeyWritten(p) == /\ pc[p] = "writeKey"
                 /\ KeyReplaced(p)
                 /\ Resolved(p, own[p])
                 /\ UNCHANGED <<tokenFile, generated, own, sealed, raced>>

-----------------------------------------------------------------------------
(* load and save, with the key                                             *)

Opened(p) == /\ pc[p] = "opening"
             /\ Return(p)
             /\ UNCHANGED <<files, cachedKey, raced>>

\* The envelope is renamed into place.
Sealed(p) == /\ pc[p] = "sealing"
             /\ tokenFile' = cachedKey[p]
             /\ Return(p)
             /\ UNCHANGED <<keyFile, generated, cachedKey, raced>>

\* writeFileAtomic throws: what was there stays.
WriteFails(p) == /\ "disk" \in Faults /\ pc[p] \in {"writeKey", "sealing"}
                 /\ Return(p)
                 /\ UNCHANGED <<files, cachedKey, raced>>

\* clear(): the key file stays.
Clear(p) == /\ pc[p] = "idle" /\ tokenFile # None
            /\ tokenFile' = None
            /\ UNCHANGED <<keyFile, generated, cachedKey, own, sealed, pc, raced>>

\* A process ends, or dies inside load or save, and another starts in its place.
Restart(p) == /\ pc[p] = "idle" \/ "crash" \in Faults
              /\ cachedKey' = [cachedKey EXCEPT ![p] = None]
              /\ Return(p)
              /\ UNCHANGED <<files, raced>>

Next == \E p \in Proc :
    \/ Load(p) \/ Save(p) \/ KeyAtHand(p) \/ KeyRead(p) \/ KeyGenerated(p) \/ KeyWritten(p)
    \/ Opened(p) \/ Sealed(p) \/ WriteFails(p) \/ Clear(p) \/ Restart(p)

Spec == Init /\ [][Next]_vars

-----------------------------------------------------------------------------
TypeOK == /\ keyFile \in Key \cup {None} /\ tokenFile \in Key \cup {None}
          /\ generated \in 0..MaxKeys
          /\ cachedKey \in [Proc -> Key \cup {None}]
          /\ own \in [Proc -> Key \cup {None}] /\ sealed \in [Proc -> Key \cup {None}]
          /\ \A p \in Proc : pc[p] = "writeKey" => own[p] # None
          /\ \A p \in Proc : pc[p] \in {"opening", "sealing"} => cachedKey[p] # None
          /\ pc \in [Proc -> {"idle", "load", "save", "writeKey", "opening", "sealing"}]
          /\ raced \in BOOLEAN

\* Any process that starts now can decrypt the tokens on disk, whichever process
\* saved them and wherever it died, unless two of them made a key at once
\* (token-store.ts:2-3, "so we don't make the user re-do MitID for every process").
TokensStayReadable == \A p \in Proc : tokenFile # None /\ ~raced => tokenFile = KeyOf(p)
=============================================================================
