---------------------------- MODULE AttachmentStore ----------------------------
(***************************************************************************)
(* AttachmentStore (packages/mcp-server/src/attachments.ts): downloads in  *)
(* a directory per attachment, a registry with a quota on bytes and on     *)
(* entries, expiry, and the purge at start-up.                             *)
(*                                                                         *)
(* A task is one call of fetch or resolve, or one run of the sweeper, of   *)
(* one of the processes that share rootDir.  Each awaited file system call *)
(* is a step; what runs between two of them is one step.  Registry order   *)
(* is creation order (oldestFirst is a stable sort of the Map).            *)
(***************************************************************************)
EXTENDS Integers, Sequences, SequencesExt, FiniteSetsExt

CONSTANTS
    Proc,            \* processes with the same rootDir
    Task,            \* concurrent calls in each process
    Att,             \* bound: attachment directories at once
    NoAtt,
    Sizes,           \* how large attachments are
    MaxTotalBytes, MaxEntries, MaxConcurrent,
    Faults           \* "rm": removing a directory may fail; "fs": opening, closing or
                     \* renaming the downloaded file may

ASSUME AttachmentStoreAssumption ==
    /\ NoAtt \notin Att
    /\ Sizes \subseteq Nat \ {0} /\ Sizes # {}
    /\ MaxTotalBytes \in Nat /\ MaxEntries \in Nat \ {0} /\ MaxConcurrent \in Nat \ {0}
    /\ Faults \subseteq {"rm", "fs"}

VARIABLES
    entries,     \* the registry of each process, in the order of creation
    expired,     \* attachments past their expiresAt
    active,      \* downloads counted by each process
    ready,       \* init(): no, listing, purging, yes
    purge,       \* directories init() has still to remove
    disk,        \* att-* directories that exist
    bytes,       \* size of each attachment
    stage, at,   \* where each task is, and the directory it downloads to
    victim,      \* the attachment it is removing
    due,         \* what its sweep found expired when it began
    failed       \* history: removing a directory failed, or a download threw

vars == <<entries, expired, active, ready, purge, disk, bytes, stage, at, victim, due,
          failed>>

Registered(p) == ToSet(entries[p])
Held(p) == UNION {{a} \X (1..bytes[a]) : a \in Registered(p)}   \* byte by byte
Total(p) == Cardinality(Held(p))
Unused(a) == /\ a \notin disk
             /\ \A p \in Proc : a \notin Registered(p)
             /\ \A p \in Proc, t \in Task : 
                   at[p][t] # a /\ victim[p][t] # a /\ a \notin due[p][t]

Init == /\ entries = [p \in Proc |-> << >>]
        /\ expired = {}
        /\ active = [p \in Proc |-> 0]
        /\ ready = [p \in Proc |-> "no"]
        /\ purge = [p \in Proc |-> {}]
        /\ disk \in SUBSET Att          \* what an earlier process left behind
        /\ bytes = [a \in Att |-> 0]
        /\ stage = [p \in Proc |-> [t \in Task |-> "idle"]]
        /\ at = [p \in Proc |-> [t \in Task |-> NoAtt]]
        /\ victim = [p \in Proc |-> [t \in Task |-> NoAtt]]
        /\ due = [p \in Proc |-> [t \in Task |-> {}]]
        /\ failed = FALSE

Goto(p, t, label, a) == /\ stage' = [stage EXCEPT ![p][t] = label]
                        /\ at' = [at EXCEPT ![p][t] = a]

\* entries.delete(id), of an id that is registered.
Unlist(p, a) == \E i \in DOMAIN entries[p] :
    entries[p][i] = a /\ entries' = [entries EXCEPT ![p] = RemoveAt(@, i)]
RemoveDir(a) == \/ disk' = disk \ {a} /\ UNCHANGED failed
                \/ "rm" \in Faults /\ failed' = TRUE /\ UNCHANGED disk

-----------------------------------------------------------------------------
(* init                                                                    *)

\* fetch() begins; the first one starts init().
Fetch(p, t) == /\ stage[p][t] = "idle"
               /\ Goto(p, t, "init", NoAtt)
               /\ ready' = [ready EXCEPT ![p] = IF @ = "no" THEN "listing" ELSE @]
               /\ UNCHANGED <<entries, expired, active, purge, disk, bytes, victim,
                              due, failed>>

\* readdir: every att-* directory is taken for a leftover.
ListDirs(p) == /\ ready[p] = "listing"
               /\ ready' = [ready EXCEPT ![p] = "purging"]
               /\ purge' = [purge EXCEPT ![p] = disk]
               /\ UNCHANGED <<entries, expired, active, disk, bytes, stage, at, victim,
                              due, failed>>

PurgeDir(p, a) == /\ a \in purge[p]
                  /\ purge' = [purge EXCEPT ![p] = @ \ {a}]
                  /\ RemoveDir(a)
                  /\ UNCHANGED <<entries, expired, active, ready, bytes, stage, at,
                                 victim, due>>

Purged(p) == /\ ready[p] = "purging" /\ purge[p] = {}
             /\ ready' = [ready EXCEPT ![p] = "yes"]
             /\ UNCHANGED <<entries, expired, active, purge, disk, bytes, stage, at,
                            victim, due, failed>>

-----------------------------------------------------------------------------
(* sweep, and resolve of an expired attachment                             *)

ExpiredOf(p) == Registered(p) \cap expired

\* sweep() compares with the time it began.
BeginSweep(p, t, label) == /\ Goto(p, t, label, NoAtt)
                           /\ due' = [due EXCEPT ![p][t] = ExpiredOf(p)]
                           /\ UNCHANGED <<entries, expired, active, ready, purge, disk,
                                          bytes,
                                          victim, failed>>

SkipsInit(p) == TRUE
InitDone(p) == ready[p] = "yes"
Sweep(p, t) == stage[p][t] = "init" /\ InitDone(p) /\ BeginSweep(p, t, "sweep")

\* The interval timer sweeps as well.
Interval(p, t) == stage[p][t] = "idle" /\ ready[p] = "yes" /\ BeginSweep(p, t, "timer")

\* remove(id): out of the registry first ...
RemoveEntry(p, t, a) ==
    /\ victim[p][t] = NoAtt
    /\ Unlist(p, a)
    /\ victim' = [victim EXCEPT ![p][t] = a]
    /\ UNCHANGED <<expired, active, ready, purge, disk, bytes, due, failed>>

\* ... then its directory.
Removed(p, t) == /\ victim[p][t] # NoAtt
                 /\ RemoveDir(victim[p][t])
                 /\ victim' = [victim EXCEPT ![p][t] = NoAtt]
                 /\ stage' = [stage EXCEPT ![p][t] = IF @ = "resolve" THEN "idle" ELSE @]
                 /\ UNCHANGED <<entries, expired, active, ready, purge, bytes, at, due>>

SweepOne(p, t, a) == /\ stage[p][t] \in {"sweep", "timer"} /\ a \in due[p][t] \cap Registered(p)
                     /\ RemoveEntry(p, t, a)
                     /\ UNCHANGED <<stage, at>>

ResolveExpired(p, t, a) == /\ stage[p][t] = "idle" /\ a \in ExpiredOf(p)
                           /\ RemoveEntry(p, t, a)
                           /\ Goto(p, t, "resolve", NoAtt)

EndSweep(p, t) == /\ victim[p][t] = NoAtt /\ due[p][t] \cap Registered(p) = {}
                  /\ due' = [due EXCEPT ![p][t] = {}]
Swept(p, t) == /\ stage[p][t] = "timer" /\ EndSweep(p, t)
               /\ Goto(p, t, "idle", NoAtt)
               /\ UNCHANGED <<entries, expired, active, ready, purge, disk, bytes,
                              victim, failed>>

-----------------------------------------------------------------------------
(* fetch                                                                   *)

\* The sweep is over: take a download slot, or give up.
SlotOffByOne(p) == active[p] <= MaxConcurrent
SlotLeft(p) == active[p] < MaxConcurrent
TakeSlot(p, t) == /\ stage[p][t] = "sweep" /\ EndSweep(p, t)
                  /\ SlotLeft(p)
                  /\ active' = [active EXCEPT ![p] = @ + 1]
                  /\ Goto(p, t, "mkdir", NoAtt)
                  /\ UNCHANGED <<entries, expired, ready, purge, disk, bytes, victim,
                                 failed>>

TooMany(p, t) == /\ stage[p][t] = "sweep" /\ EndSweep(p, t)
                 /\ ~SlotLeft(p)
                 /\ Goto(p, t, "idle", NoAtt)
                 /\ UNCHANGED <<entries, expired, active, ready, purge, disk, bytes,
                                victim, failed>>

\* A fresh directory; n is what the download will turn out to be.
Mkdir(p, t, a, n) == /\ stage[p][t] = "mkdir" /\ Unused(a)
                     /\ disk' = disk \cup {a}
                     /\ bytes' = [bytes EXCEPT ![a] = n]
                     /\ expired' = expired \ {a}
                     /\ Goto(p, t, "download", a)
                     /\ UNCHANGED <<entries, active, ready, purge, victim, due, failed>>

\* mkdir throws; the slot is given back.
MkdirFails(p, t) == /\ stage[p][t] = "mkdir"
                    /\ active' = [active EXCEPT ![p] = @ - 1]
                    /\ Goto(p, t, "idle", NoAtt)
                    /\ UNCHANGED <<entries, expired, ready, purge, disk, bytes, victim,
                                   due, failed>>

\* Should the directory be purged meanwhile, the open file takes the bytes still.
Downloaded(p, t) == /\ stage[p][t] = "download"
                    /\ Goto(p, t, "room", at[p][t])
                    /\ UNCHANGED <<entries, expired, active, ready, purge, disk, bytes,
                                   victim, due, failed>>

\* makeRoom
IgnoresNewcomer(p, a) == Total(p) <= MaxTotalBytes /\ Len(entries[p]) < MaxEntries
Fits(p, a) == Total(p) + bytes[a] <= MaxTotalBytes /\ Len(entries[p]) < MaxEntries

KeepsDirectory(a) == UNCHANGED <<disk, failed>>
DropDirectory(a) == RemoveDir(a)

\* The download failed, or its bytes can never fit: drop the directory.
Drop(p, t) == /\ \/ stage[p][t] = "download"
                 \/ stage[p][t] = "room" /\ bytes[at[p][t]] > MaxTotalBytes
              /\ DropDirectory(at[p][t])
              /\ active' = [active EXCEPT ![p] = @ - 1]
              /\ Goto(p, t, "idle", NoAtt)
              /\ UNCHANGED <<entries, expired, ready, purge, bytes, victim, due>>

\* downloadAttachment throws: there is no catch, only the finally that frees the slot.
DownloadThrows(p, t) == /\ stage[p][t] = "download" /\ "fs" \in Faults
                        /\ active' = [active EXCEPT ![p] = @ - 1]
                        /\ Goto(p, t, "idle", NoAtt)
                        /\ failed' = TRUE
                        /\ UNCHANGED <<entries, expired, ready, purge, disk, bytes,
                                       victim, due>>

\* The oldest entry is removed, and makeRoom looks again.
Evict(p, t) == /\ stage[p][t] = "room" /\ bytes[at[p][t]] <= MaxTotalBytes
               /\ ~Fits(p, at[p][t]) /\ entries[p] # << >>
               /\ RemoveEntry(p, t, Head(entries[p]))
               /\ UNCHANGED <<stage, at>>

\* There is room: the attachment is registered in the same turn.
Register(p, t) == /\ stage[p][t] = "room" /\ victim[p][t] = NoAtt /\ Fits(p, at[p][t])
                  /\ entries' = [entries EXCEPT ![p] = Append(@, at[p][t])]
                  /\ active' = [active EXCEPT ![p] = @ - 1]
                  /\ Goto(p, t, "idle", NoAtt)
                  /\ UNCHANGED <<expired, ready, purge, disk, bytes, victim, due, failed>>

Expire(a) == /\ a \notin expired /\ \E p \in Proc : a \in Registered(p)
             /\ expired' = expired \cup {a}
             /\ UNCHANGED <<entries, active, ready, purge, disk, bytes, stage, at,
                            victim, due, failed>>

Next == \/ \E p \in Proc : ListDirs(p) \/ Purged(p)
        \/ \E p \in Proc, a \in Att : PurgeDir(p, a)
        \/ \E p \in Proc, t \in Task :
              \/ Fetch(p, t) \/ Sweep(p, t) \/ Interval(p, t) \/ Removed(p, t)
              \/ Swept(p, t) \/ TakeSlot(p, t) \/ TooMany(p, t) \/ MkdirFails(p, t)
              \/ Downloaded(p, t) \/ DownloadThrows(p, t)
              \/ Drop(p, t) \/ Evict(p, t) \/ Register(p, t)
        \/ \E p \in Proc, t \in Task, a \in Att :
              \/ SweepOne(p, t, a) \/ ResolveExpired(p, t, a)
              \/ \E n \in Sizes : Mkdir(p, t, a, n)
        \/ \E a \in Att : Expire(a)

Spec == Init /\ [][Next]_vars

-----------------------------------------------------------------------------
TypeOK ==
    /\ entries \in [Proc -> Seq(Att)]
    /\ expired \subseteq Att /\ disk \subseteq Att
    /\ active \in [Proc -> 0..MaxConcurrent]
    /\ ready \in [Proc -> {"no", "listing", "purging", "yes"}]
    /\ purge \in [Proc -> SUBSET Att]
    /\ bytes \in [Att -> Sizes \cup {0}]
    /\ stage \in [Proc -> [Task -> {"idle", "init", "sweep", "timer", "resolve", "mkdir",
                                    "download", "room"}]]
    /\ at \in [Proc -> [Task -> Att \cup {NoAtt}]]
    /\ victim \in [Proc -> [Task -> Att \cup {NoAtt}]]
    /\ due \in [Proc -> [Task -> SUBSET Att]]
    /\ failed \in BOOLEAN

\* The registry stays within its quotas, however downloads finish while others
\* wait for evictions (attachments.ts:22-24, makeRoom 806-820).
QuotaHeld == \A p \in Proc : Total(p) <= MaxTotalBytes /\ Len(entries[p]) <= MaxEntries

\* Of one process, every registered attachment is on disk: the purge of init(),
\* an eviction and an expiry never take the directory of another
\* (attachments.ts:655-679, 788-797).
RegisteredIsOnDisk == \A p \in Proc : Registered(p) \subseteq disk

\* No directory is left behind unless removing one failed or a download threw: once
\* init() is over, each is registered, or some task's (attachments.ts:22-24, "so the
\* temp dir cannot grow without bound").
NothingLeaks == \A p \in Proc : ready[p] = "yes" /\ ~failed => \A a \in disk :
    \E q \in Proc : a \in Registered(q) \/ \E t \in Task : a \in {at[q][t], victim[q][t]}
=============================================================================
