------------------------ MODULE AttachmentStore_proofs ------------------------
(***************************************************************************)
(* Theorems about the attachment store (AttachmentStore), for any number   *)
(* of calls, any sizes and all quotas.                                     *)
(***************************************************************************)
EXTENDS AttachmentStore, SequenceTheorems, FiniteSetTheorems, TLAPS

LEMMA Quotas == /\ NoAtt \notin Att /\ Sizes \subseteq Nat \ {0}
                /\ MaxConcurrent \in Nat \ {0}
BY AttachmentStoreAssumption

-----------------------------------------------------------------------------
(* The registry as a sequence without duplicates                           *)

Distinct(s) == \A i, j \in DOMAIN s : s[i] = s[j] => i = j

\* Deleting one entry takes one id out of the registry, and keeps the others in order.
LEMMA Deleted ==
  ASSUME NEW S, NEW s \in Seq(S), Distinct(s), NEW i \in DOMAIN s
  PROVE  /\ RemoveAt(s, i) \in Seq(S)
         /\ Distinct(RemoveAt(s, i))
         /\ ToSet(RemoveAt(s, i)) = ToSet(s) \ {s[i]}
         /\ Len(RemoveAt(s, i)) = Len(s) - 1
<1> DEFINE l == SubSeq(s, 1, i - 1)
           r == SubSeq(s, i + 1, Len(s))
           d == RemoveAt(s, i)
<1>1. i \in 1..Len(s) /\ DOMAIN s = 1..Len(s) /\ Len(s) \in Nat
  BY LenProperties
<1>2. /\ l \in Seq(S) /\ Len(l) = i - 1 /\ \A j \in 1..(i - 1) : l[j] = s[j]
  BY <1>1, SubSeqProperties
<1>3. /\ r \in Seq(S) /\ Len(r) = Len(s) - i
      /\ \A j \in 1..(Len(s) - i) : r[j] = s[i + j]
  BY <1>1, SubSeqProperties
<1> HIDE DEF l, r
<1>4. /\ l \o r \in Seq(S) /\ Len(l \o r) = Len(l) + Len(r)
      /\ \A j \in 1..(Len(l) + Len(r)) :
            (l \o r)[j] = IF j <= Len(l) THEN l[j] ELSE r[j - Len(l)]
  BY <1>2, <1>3, ConcatProperties
<1>d. d = l \o r
  BY DEF RemoveAt, l, r
<1> HIDE DEF d
<1>5. d \in Seq(S) /\ Len(d) = Len(s) - 1 /\ DOMAIN d = 1..(Len(s) - 1)
  <2>1. d \in Seq(S)
    BY <1>d, <1>4
  <2>2. Len(d) = Len(s) - 1
    BY <1>1, <1>2, <1>3, <1>d, <1>4
  <2> QED
    BY <2>1, <2>2, LenProperties
<1>6. \A j \in 1..(Len(s) - 1) : d[j] = IF j < i THEN s[j] ELSE s[j + 1]
  <2> SUFFICES ASSUME NEW j \in 1..(Len(s) - 1)
               PROVE  d[j] = IF j < i THEN s[j] ELSE s[j + 1]
    OBVIOUS
  <2>1. d[j] = IF j <= i - 1 THEN l[j] ELSE r[j - (i - 1)]
    BY SMTT(40), <1>1, <1>2, <1>3, <1>d, <1>4
  <2>2. CASE j < i
    BY <1>1, <1>2, <2>1, <2>2
  <2>3. CASE j >= i
    <3>1. j - (i - 1) \in 1..(Len(s) - i) /\ i + (j - (i - 1)) = j + 1
      BY <1>1, <2>3
    <3>2. r[j - (i - 1)] = s[j + 1]
      BY <1>3, <3>1
    <3> QED
      BY <1>1, <2>1, <2>3, <3>2
  <2> QED
    BY <1>1, <2>2, <2>3
<1>7. Distinct(d)
  BY SMTT(40), <1>1, <1>5, <1>6 DEF Distinct
<1>8. ASSUME NEW x \in ToSet(d) PROVE x \in ToSet(s) \ {s[i]}
  BY <1>1, <1>5, <1>6, <1>8 DEF Distinct, ToSet
<1>9. ASSUME NEW x \in ToSet(s) \ {s[i]} PROVE x \in ToSet(d)
  <2>1. PICK k \in 1..Len(s) : x = s[k] /\ k # i
    BY <1>1, <1>9 DEF ToSet
  <2>2. CASE k < i
    BY <1>1, <1>5, <1>6, <2>1, <2>2 DEF ToSet
  <2>3. CASE k > i
    <3>1. k - 1 \in DOMAIN d /\ d[k - 1] = s[k]
      BY <1>1, <1>5, <1>6, <2>1, <2>3
    <3> QED
      BY <2>1, <3>1 DEF ToSet
  <2> QED
    BY <1>1, <2>1, <2>2, <2>3
<1> QED
  BY <1>5, <1>7, <1>8, <1>9 DEF d

LEMMA Added ==
  ASSUME NEW S, NEW s \in Seq(S), Distinct(s), NEW x \in S, x \notin ToSet(s)
  PROVE  /\ Append(s, x) \in Seq(S)
         /\ Distinct(Append(s, x))
         /\ ToSet(Append(s, x)) = ToSet(s) \cup {x}
<1> DEFINE d == Append(s, x)
<1>1. DOMAIN s = 1..Len(s) /\ Len(s) \in Nat
  BY LenProperties
<1>2. /\ d \in Seq(S) /\ DOMAIN d = 1..(Len(s) + 1)
      /\ \A j \in 1..Len(s) : d[j] = s[j]
      /\ d[Len(s) + 1] = x
  BY <1>1, AppendProperties, LenProperties
<1> HIDE DEF d
<1>3. Distinct(d)
  BY <1>1, <1>2 DEF Distinct, ToSet
<1>4. ToSet(d) = ToSet(s) \cup {x}
  BY <1>1, <1>2 DEF ToSet
<1> QED
  BY <1>2, <1>3, <1>4 DEF d

-----------------------------------------------------------------------------
(* Every id has one owner                                                  *)

Stages == {"idle", "init", "sweep", "timer", "resolve", "mkdir", "download", "room"}
Ids == [p \in Proc |-> Registered(p)]

Listed == /\ entries \in [Proc -> Seq(Att)]
          /\ \A p \in Proc : Distinct(entries[p])
Shape == /\ stage \in [Proc -> [Task -> Stages]]
         /\ at \in [Proc -> [Task -> Att \cup {NoAtt}]]
         /\ victim \in [Proc -> [Task -> Att \cup {NoAtt}]]
         /\ ready \in [Proc -> {"no", "listing", "purging", "yes"}]
         /\ purge \in [Proc -> SUBSET Att]
         /\ disk \subseteq Att /\ expired \subseteq Att

\* A directory that is being filled belongs to one call and is not registered; one that
\* is being removed is neither; an id is registered by one process.
Loading(p, t) == stage[p][t] \in {"download", "room"}
Owned == /\ \A p \in Proc, t \in Task : Loading(p, t) <=> at[p][t] # NoAtt
         /\ \A p, q \in Proc, t, u \in Task :
               at[p][t] = at[q][u] /\ at[p][t] # NoAtt => p = q /\ t = u
         /\ \A p, q \in Proc, t \in Task : at[p][t] \notin Ids[q] /\ victim[p][t] \notin Ids[q]
         /\ \A p, q \in Proc, t, u \in Task : victim[p][t] = at[q][u] => at[q][u] = NoAtt
         /\ \A p, q \in Proc : Ids[p] \cap Ids[q] # {} => p = q

OwnInv == Listed /\ Shape /\ Owned

\* What the steps do to the registry, seen as sets of ids.
LEMMA IdsAreAttachments == Listed => Ids \in [Proc -> SUBSET Att]
<1> SUFFICES ASSUME Listed, NEW p \in Proc PROVE Registered(p) \subseteq Att
  BY DEF Ids
<1>1. entries[p] \in Seq(Att)
  BY DEF Listed
<1> QED
  BY <1>1, LenProperties DEF Registered, ToSet

LEMMA IdsStay == ASSUME Listed, UNCHANGED entries PROVE Listed' /\ Ids' = Ids
BY DEF Listed, Ids, Registered

LEMMA IdLeaves ==
  ASSUME Listed, NEW p \in Proc, NEW a, Unlist(p, a)
  PROVE  Listed' /\ a \in Ids[p] /\ Ids' = [Ids EXCEPT ![p] = @ \ {a}]
<1>1. PICK i \in DOMAIN entries[p] :
         entries[p][i] = a /\ entries' = [entries EXCEPT ![p] = RemoveAt(@, i)]
  BY DEF Unlist
<1>2. entries[p] \in Seq(Att) /\ Distinct(entries[p])
  BY DEF Listed
<1>3. /\ RemoveAt(entries[p], i) \in Seq(Att) /\ Distinct(RemoveAt(entries[p], i))
      /\ ToSet(RemoveAt(entries[p], i)) = ToSet(entries[p]) \ {a}
  BY <1>1, <1>2, Deleted
<1>4. Listed'
  BY <1>1, <1>3 DEF Listed
<1>5. a \in Ids[p]
  BY <1>1 DEF Ids, Registered, ToSet
<1>6. \A q \in Proc : Ids'[q] = IF q = p THEN Ids[p] \ {a} ELSE Ids[q]
  BY <1>1, <1>3 DEF Listed, Ids, Registered
<1>7. Ids' = [Ids EXCEPT ![p] = @ \ {a}]
  BY <1>6 DEF Ids
<1> QED
  BY <1>4, <1>5, <1>7

LEMMA IdEnters ==
  ASSUME Listed, NEW p \in Proc, NEW a \in Att, a \notin Ids[p],
         entries' = [entries EXCEPT ![p] = Append(@, a)]
  PROVE  Listed' /\ Ids' = [Ids EXCEPT ![p] = @ \cup {a}]
<1>1. entries[p] \in Seq(Att) /\ Distinct(entries[p]) /\ a \notin ToSet(entries[p])
  BY DEF Listed, Ids, Registered
<1>2. /\ Append(entries[p], a) \in Seq(Att) /\ Distinct(Append(entries[p], a))
      /\ ToSet(Append(entries[p], a)) = ToSet(entries[p]) \cup {a}
  BY <1>1, Added
<1>3. Listed'
  BY <1>2 DEF Listed
<1>4. \A q \in Proc : Ids'[q] = IF q = p THEN Ids[p] \cup {a} ELSE Ids[q]
  BY <1>2 DEF Listed, Ids, Registered
<1>5. Ids' = [Ids EXCEPT ![p] = @ \cup {a}]
  BY <1>4 DEF Ids
<1> QED
  BY <1>3, <1>5

LEMMA OwnStart == Init => OwnInv
<1> SUFFICES ASSUME Init PROVE OwnInv
  OBVIOUS
<1>1. Listed
  BY EmptySeq DEF Init, Listed, Distinct
<1>2. Shape
  BY DEF Init, Shape, Stages
<1>3. \A p \in Proc : Ids[p] = {}
  BY DEF Init, Ids, Registered, ToSet
<1>4. Owned
  BY <1>3 DEF Init, Owned, Loading
<1> QED
  BY <1>1, <1>2, <1>4 DEF OwnInv

LEMMA OwnKept == OwnInv /\ [Next]_vars => OwnInv'
<1> SUFFICES ASSUME OwnInv, [Next]_vars PROVE OwnInv'
  OBVIOUS
<1>i. Listed /\ Ids \in [Proc -> SUBSET Att]
  BY IdsAreAttachments DEF OwnInv
<1>u. ASSUME UNCHANGED entries PROVE Listed' /\ Ids' = Ids
  BY <1>i, <1>u, IdsStay
<1>r. ASSUME NEW p \in Proc, NEW a, Unlist(p, a)
      PROVE  Listed' /\ a \in Ids[p] /\ Ids' = [Ids EXCEPT ![p] = @ \ {a}]
  BY <1>i, <1>r, IdLeaves
<1> USE Quotas, <1>i DEF OwnInv, Shape, Owned, Stages, Loading, Goto
<1>1. ASSUME NEW p \in Proc, ListDirs(p) \/ Purged(p) PROVE OwnInv'
  <2>1. Listed' /\ Ids' = Ids
    BY <1>1, <1>u DEF ListDirs, Purged
  <2>2. CASE ListDirs(p)
    BY <2>1, <2>2 DEF ListDirs
  <2>3. CASE Purged(p)
    BY <2>1, <2>3 DEF Purged
  <2> QED
    BY <1>1, <2>2, <2>3
<1>2. ASSUME NEW p \in Proc, NEW a \in Att, PurgeDir(p, a) PROVE OwnInv'
  BY <1>2, <1>u DEF PurgeDir, RemoveDir
\* A call that waits for nothing and downloads nothing moves on.
<1>m. ASSUME NEW p \in Proc, NEW t \in Task, ~Loading(p, t),
             NEW label \in Stages \ {"download", "room"}, Goto(p, t, label, NoAtt),
             UNCHANGED <<entries, victim, purge, disk, expired>>,
             ready' \in [Proc -> {"no", "listing", "purging", "yes"}]
      PROVE  OwnInv'
  BY <1>m, <1>u
<1>3. ASSUME NEW p \in Proc, NEW t \in Task, Fetch(p, t) PROVE OwnInv'
  BY <1>3, <1>m DEF Fetch
<1>4. ASSUME NEW p \in Proc, NEW t \in Task, Sweep(p, t) \/ Interval(p, t) PROVE OwnInv'
  <2>1. CASE Sweep(p, t)
    BY <1>m, <2>1 DEF Sweep, BeginSweep
  <2>2. CASE Interval(p, t)
    BY <1>m, <2>2 DEF Interval, BeginSweep
  <2> QED
    BY <1>4, <2>1, <2>2
<1>5. ASSUME NEW p \in Proc, NEW t \in Task, Removed(p, t) PROVE OwnInv'
  BY <1>5, <1>u DEF Removed, RemoveDir
<1>6. ASSUME NEW p \in Proc, NEW t \in Task, Swept(p, t) PROVE OwnInv'
  BY <1>6, <1>m DEF Swept, EndSweep
<1>7. ASSUME NEW p \in Proc, NEW t \in Task, TakeSlot(p, t) \/ TooMany(p, t) PROVE OwnInv'
  <2>1. CASE TakeSlot(p, t)
    BY <1>m, <2>1 DEF TakeSlot, EndSweep
  <2>2. CASE TooMany(p, t)
    BY <1>m, <2>2 DEF TooMany, EndSweep
  <2> QED
    BY <1>7, <2>1, <2>2
<1>8. ASSUME NEW p \in Proc, NEW t \in Task, MkdirFails(p, t) PROVE OwnInv'
  BY <1>8, <1>m DEF MkdirFails
<1>9. ASSUME NEW p \in Proc, NEW t \in Task, NEW a \in Att, NEW n \in Sizes, Mkdir(p, t, a, n)
      PROVE  OwnInv'
  <2>1. Listed' /\ Ids' = Ids
    BY <1>9, <1>u DEF Mkdir
  <2>2. Shape'
    BY <1>9 DEF Mkdir
  <2>3. \A q \in Proc : a \notin Ids[q] /\ \A u \in Task : at[q][u] # a /\ victim[q][u] # a
    BY <1>9 DEF Mkdir, Unused, Ids
  <2>4. Owned'
    BY <1>9, <2>1, <2>2, <2>3 DEF Mkdir
  <2> QED
    BY <2>1, <2>2, <2>4
<1>10. ASSUME NEW p \in Proc, NEW t \in Task, Downloaded(p, t) PROVE OwnInv'
  BY <1>10, <1>u DEF Downloaded
<1>11. ASSUME NEW p \in Proc, NEW t \in Task, Drop(p, t) \/ DownloadThrows(p, t) PROVE OwnInv'
  <2>1. Listed' /\ Ids' = Ids
    BY <1>11, <1>u DEF Drop, DownloadThrows
  <2>2. /\ Goto(p, t, "idle", NoAtt) /\ disk' \subseteq disk
        /\ UNCHANGED <<ready, purge, expired, victim>>
    BY <1>11 DEF Drop, DropDirectory, RemoveDir, DownloadThrows
  <2>3. Shape'
    BY <2>2
  <2>4. Owned'
    BY <2>1, <2>2
  <2> QED
    BY <2>1, <2>3, <2>4
\* An entry leaves the registry, and its id is what the call removes.
<1>v. ASSUME NEW p \in Proc, NEW t \in Task, NEW a, RemoveEntry(p, t, a) PROVE
      /\ Listed' /\ victim' \in [Proc -> [Task -> Att \cup {NoAtt}]]
      /\ \A q, r \in Proc, u \in Task : victim'[q][u] \notin Ids'[r]
      /\ \A q, r \in Proc, u, v \in Task :
            victim'[q][u] = at[r][v] => at[r][v] = NoAtt
      /\ \A q \in Proc : Ids'[q] \subseteq Ids[q]
      /\ UNCHANGED <<ready, purge, disk, expired>>
  <2>1. Listed' /\ a \in Ids[p] /\ Ids' = [Ids EXCEPT ![p] = @ \ {a}]
    BY <1>v, <1>r DEF RemoveEntry
  <2>2. a \in Att /\ victim' = [victim EXCEPT ![p][t] = a]
    BY <1>v, <2>1 DEF RemoveEntry
  <2>3. \A q \in Proc : a \notin Ids'[q]
    BY <2>1
  <2> QED
    BY <1>v, <2>1, <2>2, <2>3 DEF RemoveEntry
<1>12. ASSUME NEW p \in Proc, NEW t \in Task, Evict(p, t) PROVE OwnInv'
  BY <1>12, <1>v DEF Evict
<1>13. ASSUME NEW p \in Proc, NEW t \in Task, Register(p, t) PROVE OwnInv'
  <2>1. at[p][t] \in Att /\ at[p][t] \notin Ids[p]
    BY <1>13 DEF Register
  <2>2. Listed' /\ Ids' = [Ids EXCEPT ![p] = @ \cup {at[p][t]}]
    BY <1>13, <2>1, IdEnters DEF Register
  <2>3. Shape'
    BY <1>13 DEF Register
  <2>4. Owned'
    BY <1>13, <2>1, <2>2, <2>3 DEF Register
  <2> QED
    BY <2>2, <2>3, <2>4
<1>14. ASSUME NEW p \in Proc, NEW t \in Task, NEW a \in Att, SweepOne(p, t, a) PROVE OwnInv'
  BY <1>14, <1>v DEF SweepOne
<1>15. ASSUME NEW p \in Proc, NEW t \in Task, NEW a \in Att, ResolveExpired(p, t, a)
       PROVE  OwnInv'
  <2>1. Shape'
    BY <1>15, <1>v DEF ResolveExpired
  <2>2. \A q \in Proc, u \in Task : at'[q][u] = at[q][u]
    <3>1. stage[p][t] = "idle"
      BY <1>15 DEF ResolveExpired
    <3>2. at[p][t] = NoAtt
      BY <3>1
    <3> QED
      BY <1>15, <3>2 DEF ResolveExpired
  <2>3. /\ Listed' /\ \A q \in Proc : Ids'[q] \subseteq Ids[q]
        /\ \A q, r \in Proc, u \in Task : victim'[q][u] \notin Ids'[r]
        /\ \A q, r \in Proc, u, v \in Task :
              victim'[q][u] = at[r][v] => at[r][v] = NoAtt
    BY <1>15, <1>v DEF ResolveExpired
  <2>4. \A q \in Proc, u \in Task : Loading(q, u)' <=> Loading(q, u)
    BY <1>15 DEF ResolveExpired
  <2>5. Owned'
    BY <2>2, <2>3, <2>4
  <2> QED
    BY <2>1, <2>3, <2>5
<1>16. ASSUME NEW a \in Att, Expire(a) PROVE OwnInv'
  BY <1>16, <1>u DEF Expire
<1>17. CASE UNCHANGED vars
  BY <1>17, <1>u DEF vars
<1> QED
  BY <1>1, <1>2, <1>3, <1>4, <1>5, <1>6, <1>7, <1>8, <1>9, <1>10, <1>11, <1>12, <1>13,
     <1>14, <1>15, <1>16, <1>17 DEF Next

\* The half of QuotaHeld that counts: for every number of processes and calls the
\* registry never holds more than MaxEntries, since a newcomer is registered in the turn
\* that found room for it (attachments.ts:738, 806-820).
Counted == \A p \in Proc : Len(entries[p]) <= MaxEntries
LEMMA EntriesStayCapped == Spec => []Counted
<1>1. Init => Counted
  BY AttachmentStoreAssumption, EmptySeq DEF Init, Counted
<1>2. OwnInv /\ Counted /\ [Next]_vars => Counted'
  <2> SUFFICES ASSUME OwnInv, Counted, [Next]_vars PROVE Counted'
    OBVIOUS
  <2>i. \A p \in Proc : entries[p] \in Seq(Att) /\ Len(entries[p]) \in Nat
    BY LenProperties DEF OwnInv, Listed
  <2>1. ASSUME UNCHANGED entries PROVE Counted'
    BY <2>1 DEF Counted
  <2>2. ASSUME NEW p \in Proc, NEW a, Unlist(p, a) PROVE Counted'
    <3>1. PICK i \in DOMAIN entries[p] : entries' = [entries EXCEPT ![p] = RemoveAt(@, i)]
      BY <2>2 DEF Unlist
    <3>2. Len(RemoveAt(entries[p], i)) = Len(entries[p]) - 1
      BY <2>i, Deleted DEF OwnInv, Listed
    <3>3. entries \in [Proc -> Seq(Att)]
      BY DEF OwnInv, Listed
    <3> QED
      BY <2>i, <3>1, <3>2, <3>3, AttachmentStoreAssumption DEF Counted
  <2>3. ASSUME NEW p \in Proc, NEW t \in Task, Register(p, t) PROVE Counted'
    <3>1. Len(Append(entries[p], at[p][t])) = Len(entries[p]) + 1
      <4>1. at[p][t] \in Att
        BY <2>3, Quotas DEF OwnInv, Shape, Owned, Loading, Register
      <4> QED
        BY <2>i, <4>1, AppendProperties
    <3>2. entries \in [Proc -> Seq(Att)]
      BY DEF OwnInv, Listed
    <3> QED
      BY <2>i, <2>3, <3>1, <3>2, AttachmentStoreAssumption DEF Counted, Register, Fits
  <2>4. ASSUME NEW p \in Proc, NEW t \in Task,
               \/ Fetch(p, t) \/ Sweep(p, t) \/ Interval(p, t) \/ Removed(p, t)
               \/ Swept(p, t) \/ TakeSlot(p, t) \/ TooMany(p, t) \/ MkdirFails(p, t)
               \/ Downloaded(p, t) \/ DownloadThrows(p, t) \/ Drop(p, t)
        PROVE  UNCHANGED entries
    BY <2>4 DEF Fetch, Sweep, Interval, BeginSweep, Removed, Swept, TakeSlot, TooMany,
       MkdirFails, Downloaded, DownloadThrows, Drop
  <2>5. ASSUME NEW p \in Proc, NEW t \in Task, Evict(p, t) PROVE Counted'
    BY <2>2, <2>5 DEF Evict, RemoveEntry
  <2>6. ASSUME NEW p \in Proc, NEW t \in Task, NEW a \in Att,
               SweepOne(p, t, a) \/ ResolveExpired(p, t, a)
        PROVE  Counted'
    BY <2>2, <2>6 DEF SweepOne, ResolveExpired, RemoveEntry
  <2>7. ASSUME NEW p \in Proc, NEW t \in Task, NEW a \in Att, NEW n \in Sizes,
               Mkdir(p, t, a, n)
        PROVE  UNCHANGED entries
    BY <2>7 DEF Mkdir
  <2>8. ASSUME NEW p \in Proc, NEW a \in Att,
               PurgeDir(p, a)
        PROVE  UNCHANGED entries
    BY <2>8 DEF PurgeDir
  <2>9. ASSUME NEW p \in Proc, ListDirs(p) \/ Purged(p) PROVE UNCHANGED entries
    BY <2>9 DEF ListDirs, Purged
  <2>10. ASSUME NEW a \in Att, Expire(a) PROVE UNCHANGED entries
    BY <2>10 DEF Expire
  <2>11. CASE UNCHANGED vars
    BY <2>1, <2>11 DEF vars
  <2> QED
    BY <2>1, <2>3, <2>4, <2>5, <2>6, <2>7, <2>8, <2>9, <2>10, <2>11 DEF Next
<1> QED
  BY <1>1, <1>2, OwnStart, OwnKept, PTL DEF Spec

-----------------------------------------------------------------------------
(* Nothing leaks                                                           *)

\* The directories that somebody will still remove or keep.
Homes == {a \in Att : \E p \in Proc :
             a \in Ids[p] \/ \E t \in Task : a = at[p][t] \/ a = victim[p][t]}
Homed == ~failed => \A p \in Proc :
            /\ ready[p] = "purging" => disk \subseteq Homes \cup purge[p]
            /\ ready[p] = "yes" => disk \subseteq Homes

LEMMA HomedKept == OwnInv /\ Homed /\ [Next]_vars => Homed'
<1> SUFFICES ASSUME OwnInv, Homed, [Next]_vars PROVE Homed'
  OBVIOUS
<1>i. Listed /\ Shape /\ Owned /\ Ids \in [Proc -> SUBSET Att]
  BY IdsAreAttachments DEF OwnInv
<1>u. ASSUME UNCHANGED entries PROVE Ids' = Ids
  BY <1>i, <1>u, IdsStay
<1>h. ASSUME UNCHANGED <<ready, purge>>, failed' \/ failed' = failed,
             disk' \subseteq disk, disk' \cap Homes \subseteq Homes'
      PROVE  Homed'
  BY <1>h, <1>i DEF Homed, Shape
\* A call that downloads nothing moves on.
<1>m. ASSUME NEW p \in Proc, NEW t \in Task, ~Loading(p, t), NEW label,
             Goto(p, t, label, NoAtt), UNCHANGED <<entries, victim, purge, disk, failed, ready>>
      PROVE  Homed'
  <2>1. at[p][t] = NoAtt /\ Ids' = Ids
    BY <1>m, <1>i, <1>u DEF Owned
  <2>2. \A q \in Proc, u \in Task : at'[q][u] = at[q][u]
    BY <1>m, <1>i, <2>1 DEF Goto, Shape
  <2>3. Homes \subseteq Homes'
    BY <1>m, <2>1, <2>2 DEF Homes
  <2> QED
    BY <1>m, <1>h, <2>3
\* An entry leaves the registry, and its id is what the call removes.
<1>v. ASSUME NEW p \in Proc, NEW t \in Task, NEW a, RemoveEntry(p, t, a),
             \A q \in Proc, u \in Task : at'[q][u] = at[q][u]
      PROVE  Homed'
  <2>1. a \in Ids[p] /\ Ids' = [Ids EXCEPT ![p] = @ \ {a}]
    BY <1>v, <1>i, IdLeaves DEF RemoveEntry
  <2>2. victim[p][t] = NoAtt /\ victim' = [victim EXCEPT ![p][t] = a]
    BY <1>v DEF RemoveEntry
  <2>3. ASSUME NEW b \in Homes PROVE b \in Homes'
    <3>1. PICK q \in Proc : b \in Ids[q] \/ \E u \in Task : b = at[q][u] \/ b = victim[q][u]
      BY <2>3 DEF Homes
    <3>2. b \in Att /\ b # NoAtt
      BY <2>3, Quotas DEF Homes
    <3>3. CASE b = a
      BY <1>i, <2>2, <3>2, <3>3 DEF Homes, Shape
    <3>4. CASE b # a /\ b \in Ids[q]
      BY <1>i, <2>1, <3>2, <3>4 DEF Homes
    <3>5. ASSUME NEW u \in Task, b = at[q][u] PROVE b \in Homes'
      BY <1>v, <3>2, <3>5 DEF Homes
    <3>6. ASSUME NEW u \in Task, b = victim[q][u] PROVE b \in Homes'
      <4>1. victim'[q][u] = b
        BY <1>i, <2>2, <3>2, <3>6 DEF Shape
      <4> QED
        BY <3>2, <4>1 DEF Homes
    <3> QED
      BY <3>1, <3>3, <3>4, <3>5, <3>6
  <2> QED
    BY <1>v, <1>h, <2>3 DEF RemoveEntry
<1>1. ASSUME NEW p \in Proc, ListDirs(p) PROVE Homed'
  <2>1. Homes' = Homes
    BY <1>1, <1>u DEF ListDirs, Homes
  <2> QED
    BY <1>1, <1>i, <2>1 DEF ListDirs, Homed, Shape
<1>2. ASSUME NEW p \in Proc, Purged(p) PROVE Homed'
  <2>1. Homes' = Homes
    BY <1>2, <1>u DEF Purged, Homes
  <2> QED
    BY <1>2, <1>i, <2>1 DEF Purged, Homed, Shape
<1>3. ASSUME NEW p \in Proc, NEW a \in Att, PurgeDir(p, a) PROVE Homed'
  <2>1. Homes' = Homes
    BY <1>3, <1>u DEF PurgeDir, Homes
  <2> QED
    BY <1>3, <1>i, <2>1 DEF PurgeDir, RemoveDir, Homed, Shape
<1>4. ASSUME NEW p \in Proc, NEW t \in Task, Fetch(p, t) PROVE Homed'
  <2>1. at[p][t] = NoAtt /\ Ids' = Ids
    BY <1>4, <1>i, <1>u DEF Fetch, Owned, Loading
  <2>2. \A q \in Proc, u \in Task : at'[q][u] = at[q][u]
    BY <1>4, <1>i, <2>1 DEF Fetch, Goto, Shape
  <2>3. Homes' = Homes
    BY <1>4, <2>1, <2>2 DEF Homes, Fetch
  <2> QED
    BY <1>4, <1>i, <2>3 DEF Fetch, Homed, Shape
<1>5. ASSUME NEW p \in Proc, NEW t \in Task, Sweep(p, t) \/ Interval(p, t) PROVE Homed'
  <2>1. CASE Sweep(p, t)
    BY <1>m, <2>1 DEF Sweep, BeginSweep, Loading
  <2>2. CASE Interval(p, t)
    BY <1>m, <2>2 DEF Interval, BeginSweep, Loading
  <2> QED
    BY <1>5, <2>1, <2>2
<1>6. ASSUME NEW p \in Proc, NEW t \in Task, Removed(p, t) PROVE Homed'
  <2>1. Ids' = Ids /\ at' = at /\ victim' = [victim EXCEPT ![p][t] = NoAtt]
    BY <1>6, <1>u DEF Removed
  <2>2. CASE failed'
    BY <2>2 DEF Homed
  <2>3. CASE disk' = disk \ {victim[p][t]} /\ UNCHANGED failed
    <3>1. disk' \cap Homes \subseteq Homes'
      BY <1>i, <2>1, <2>3 DEF Homes, Shape
    <3> QED
      BY <1>6, <1>h, <2>3, <3>1 DEF Removed
  <2> QED
    BY <1>6, <2>2, <2>3 DEF Removed, RemoveDir
<1>7. ASSUME NEW p \in Proc, NEW t \in Task, Swept(p, t) PROVE Homed'
  BY <1>7, <1>m DEF Swept, EndSweep, Loading
<1>8. ASSUME NEW p \in Proc, NEW t \in Task, TakeSlot(p, t) PROVE Homed'
  BY <1>8, <1>m DEF TakeSlot, EndSweep, Loading
<1>9. ASSUME NEW p \in Proc, NEW t \in Task, TooMany(p, t) PROVE Homed'
  BY <1>9, <1>m DEF TooMany, EndSweep, Loading
<1>10. ASSUME NEW p \in Proc, NEW t \in Task, MkdirFails(p, t) PROVE Homed'
  BY <1>10, <1>m DEF MkdirFails, Loading
<1>11. ASSUME NEW p \in Proc, NEW t \in Task, NEW a \in Att, NEW n \in Sizes,
              Mkdir(p, t, a, n)
       PROVE  Homed'
  <2>1. at[p][t] = NoAtt /\ Ids' = Ids
    BY <1>11, <1>i, <1>u DEF Mkdir, Owned, Loading
  <2>2. at' = [at EXCEPT ![p][t] = a]
    BY <1>11 DEF Mkdir, Goto
  <2>3. Homes \cup {a} \subseteq Homes'
    BY <1>11, <1>i, <2>1, <2>2, Quotas DEF Homes, Mkdir, Shape
  <2> QED
    BY <1>11, <1>i, <2>3 DEF Mkdir, Homed, Shape
<1>12. ASSUME NEW p \in Proc, NEW t \in Task, Downloaded(p, t) PROVE Homed'
  <2>1. Ids' = Ids /\ \A q \in Proc, u \in Task : at'[q][u] = at[q][u]
    BY <1>12, <1>i, <1>u DEF Downloaded, Goto, Shape
  <2>2. Homes \subseteq Homes'
    BY <1>12, <2>1 DEF Downloaded, Homes
  <2> QED
    BY <1>12, <1>h, <2>2 DEF Downloaded
<1>13. ASSUME NEW p \in Proc, NEW t \in Task, Drop(p, t) PROVE Homed'
  <2>1. Ids' = Ids /\ victim' = victim /\ at' = [at EXCEPT ![p][t] = NoAtt]
    BY <1>13, <1>u DEF Drop, Goto
  <2>2. CASE failed'
    BY <2>2 DEF Homed
  <2>3. CASE disk' = disk \ {at[p][t]} /\ UNCHANGED failed
    <3>1. disk' \cap Homes \subseteq Homes'
      BY <1>i, <2>1, <2>3 DEF Homes, Shape
    <3> QED
      BY <1>13, <1>h, <2>3, <3>1 DEF Drop
  <2> QED
    BY <1>13, <2>2, <2>3 DEF Drop, DropDirectory, RemoveDir
<1>14. ASSUME NEW p \in Proc, NEW t \in Task, DownloadThrows(p, t) PROVE Homed'
  BY <1>14 DEF DownloadThrows, Homed
<1>15. ASSUME NEW p \in Proc, NEW t \in Task, Register(p, t) PROVE Homed'
  <2>1. at[p][t] \in Att /\ at[p][t] \notin Ids[p]
    BY <1>15, <1>i DEF Register, Owned, Shape, Loading
  <2>2. Ids' = [Ids EXCEPT ![p] = @ \cup {at[p][t]}]
    BY <1>15, <1>i, <2>1, IdEnters DEF Register
  <2>3. at' = [at EXCEPT ![p][t] = NoAtt] /\ victim' = victim
    BY <1>15 DEF Register, Goto
  <2>4. Homes \subseteq Homes'
    BY <1>i, <2>1, <2>2, <2>3, Quotas DEF Homes, Shape
  <2> QED
    BY <1>15, <1>h, <2>4 DEF Register
<1>16. ASSUME NEW p \in Proc, NEW t \in Task, Evict(p, t) PROVE Homed'
  BY <1>16, <1>v DEF Evict
<1>17. ASSUME NEW p \in Proc, NEW t \in Task, NEW a \in Att, SweepOne(p, t, a) PROVE Homed'
  BY <1>17, <1>v DEF SweepOne
<1>18. ASSUME NEW p \in Proc, NEW t \in Task, NEW a \in Att, ResolveExpired(p, t, a)
       PROVE  Homed'
  <2>1. at[p][t] = NoAtt
    BY <1>18, <1>i DEF ResolveExpired, Owned, Loading
  <2>2. \A q \in Proc, u \in Task : at'[q][u] = at[q][u]
    BY <1>18, <1>i, <2>1 DEF ResolveExpired, Goto, Shape
  <2> QED
    BY <1>18, <1>v, <2>2 DEF ResolveExpired
<1>19. CASE (\E a \in Att : Expire(a)) \/ UNCHANGED vars
  <2>1. UNCHANGED <<entries, at, victim, disk, ready, purge, failed>>
    BY <1>19 DEF Expire, vars
  <2>2. Homes' = Homes
    BY <2>1, <1>u DEF Homes
  <2> QED
    BY <2>1, <2>2, <1>h
<1> QED
  BY <1>1, <1>2, <1>3, <1>4, <1>5, <1>6, <1>7, <1>8, <1>9, <1>10, <1>11, <1>12, <1>13,
     <1>14, <1>15, <1>16, <1>17, <1>18, <1>19 DEF Next

\* For every number of processes and calls: once a process has purged what it found,
\* and while no removal or download has failed, each directory is registered, being
\* filled or being removed (attachments.ts:22-24, 655-679, 701-757, 788-820).
THEOREM NoDirectoryIsForgotten == Spec => []NothingLeaks
<1>1. Init => Homed
  BY DEF Init, Homed
<1>2. OwnInv /\ Homed => NothingLeaks
  BY DEF OwnInv, Shape, Homed, Homes, Ids, NothingLeaks
<1> QED
  BY <1>1, <1>2, OwnStart, OwnKept, HomedKept, PTL DEF Spec

-----------------------------------------------------------------------------
(* What is registered is on disk                                           *)

\* Before init() is over a process has nothing that its purge could take: every call
\* waits for it.
Alone == \A p, q \in Proc : p = q
Waiting(p) == /\ Ids[p] = {}
              /\ \A t \in Task : stage[p][t] \in {"idle", "init"} /\ victim[p][t] = NoAtt
Stored == /\ \A p \in Proc : Ids[p] \subseteq disk
          /\ \A p \in Proc, t \in Task : at[p][t] # NoAtt => at[p][t] \in disk
          /\ \A p \in Proc : ready[p] # "yes" => Waiting(p)
          /\ \A p \in Proc : purge[p] # {} => ready[p] = "purging"

LEMMA StoredKept == ASSUME Alone PROVE OwnInv /\ Stored /\ [Next]_vars => Stored'
<1> SUFFICES ASSUME OwnInv, Stored, [Next]_vars PROVE Stored'
  OBVIOUS
<1>i. Listed /\ Shape /\ Owned /\ Ids \in [Proc -> SUBSET Att]
  BY IdsAreAttachments DEF OwnInv
<1>u. ASSUME UNCHANGED entries PROVE Ids' = Ids
  BY <1>i, <1>u, IdsStay
<1> USE <1>i, Quotas DEF Shape, Stored, Waiting, Goto
\* A call that has got past init().
<1>p. ASSUME NEW p \in Proc, NEW t \in Task, stage[p][t] \notin {"idle", "init"}
      PROVE  ready[p] = "yes"
  BY <1>p
<1>1. ASSUME NEW p \in Proc, ListDirs(p) PROVE Stored'
  BY <1>1, <1>u DEF ListDirs
<1>2. ASSUME NEW p \in Proc, Purged(p) PROVE Stored'
  BY <1>2, <1>u DEF Purged
<1>3. ASSUME NEW p \in Proc, NEW a \in Att, PurgeDir(p, a) PROVE Stored'
  <2>1. ready[p] = "purging"
    BY <1>3 DEF PurgeDir
  <2>2. ASSUME NEW q \in Proc PROVE Ids[q] = {} /\ \A t \in Task : at[q][t] = NoAtt
    <3>1. q = p
      BY DEF Alone
    <3>2. Ids[p] = {} /\ \A t \in Task : stage[p][t] \in {"idle", "init"}
      BY <2>1
    <3>3. \A t \in Task : at[p][t] = NoAtt
      BY <3>2 DEF Owned, Loading
    <3> QED
      BY <3>1, <3>2, <3>3
  <2>3. Ids' = Ids /\ at' = at
    BY <1>3, <1>u DEF PurgeDir
  <2> QED
    BY <1>3, <2>2, <2>3 DEF PurgeDir
\* A call that downloads nothing moves on.
<1>m. ASSUME NEW p \in Proc, NEW t \in Task, ~Loading(p, t), NEW label,
             ready[p] # "yes" => label \in {"idle", "init"},
             Goto(p, t, label, NoAtt), UNCHANGED <<entries, victim, purge, disk, ready>>
      PROVE  Stored'
  <2>1. at[p][t] = NoAtt /\ Ids' = Ids
    BY <1>m, <1>u DEF Owned
  <2>2. \A q \in Proc, u \in Task : at'[q][u] = at[q][u]
    BY <1>m, <2>1
  <2> QED
    BY <1>m, <2>1, <2>2
\* An entry leaves the registry, and its id is what the call removes.
<1>v. ASSUME NEW p \in Proc, NEW t \in Task, NEW a, NEW label, RemoveEntry(p, t, a),
             ready[p] = "yes", UNCHANGED at
      PROVE  /\ \A q \in Proc : Ids'[q] \subseteq disk'
             /\ \A q \in Proc, u \in Task : at'[q][u] # NoAtt => at'[q][u] \in disk'
             /\ \A q \in Proc : ready'[q] = "yes"
             /\ \A q \in Proc : purge'[q] # {} => ready'[q] = "purging"
  <2>1. a \in Ids[p] /\ Ids' = [Ids EXCEPT ![p] = @ \ {a}]
    BY <1>v, IdLeaves DEF RemoveEntry
  <2> QED
    BY <1>v, <2>1 DEF RemoveEntry, Alone
<1>4. ASSUME NEW p \in Proc, NEW t \in Task, Fetch(p, t) PROVE Stored'
  <2>1. at[p][t] = NoAtt /\ Ids' = Ids
    BY <1>4, <1>u DEF Fetch, Owned, Loading
  <2>2. \A q \in Proc, u \in Task : at'[q][u] = at[q][u]
    BY <1>4, <2>1 DEF Fetch
  <2> QED
    BY <1>4, <2>1, <2>2 DEF Fetch
<1>5. ASSUME NEW p \in Proc, NEW t \in Task, Sweep(p, t) \/ Interval(p, t) PROVE Stored'
  <2>1. CASE Sweep(p, t)
    BY <1>m, <2>1 DEF Sweep, BeginSweep, Loading, InitDone
  <2>2. CASE Interval(p, t)
    BY <1>m, <2>2 DEF Interval, BeginSweep, Loading
  <2> QED
    BY <1>5, <2>1, <2>2
<1>6. ASSUME NEW p \in Proc, NEW t \in Task, Removed(p, t) PROVE Stored'
  <2>1. Ids' = Ids /\ at' = at /\ victim' = [victim EXCEPT ![p][t] = NoAtt]
    BY <1>6, <1>u DEF Removed
  <2>2. /\ \A q \in Proc : victim[p][t] \notin Ids[q]
        /\ \A q \in Proc, u \in Task : at[q][u] # NoAtt => at[q][u] # victim[p][t]
    BY DEF Owned
  <2>3. disk \ {victim[p][t]} \subseteq disk'
    BY <1>6 DEF Removed, RemoveDir
  <2>4. ready[p] = "yes"
    BY <1>6 DEF Removed
  <2> QED
    BY <1>6, <2>1, <2>2, <2>3, <2>4 DEF Removed, Alone
<1>7. ASSUME NEW p \in Proc, NEW t \in Task, Swept(p, t) PROVE Stored'
  BY <1>7, <1>m DEF Swept, EndSweep, Loading
<1>8. ASSUME NEW p \in Proc, NEW t \in Task, TakeSlot(p, t) PROVE Stored'
  BY <1>8, <1>m, <1>p DEF TakeSlot, EndSweep, Loading
<1>9. ASSUME NEW p \in Proc, NEW t \in Task, TooMany(p, t) PROVE Stored'
  BY <1>9, <1>m DEF TooMany, EndSweep, Loading
<1>10. ASSUME NEW p \in Proc, NEW t \in Task, MkdirFails(p, t) PROVE Stored'
  BY <1>10, <1>m DEF MkdirFails, Loading
<1>11. ASSUME NEW p \in Proc, NEW t \in Task, NEW a \in Att, NEW n \in Sizes,
              Mkdir(p, t, a, n)
       PROVE  Stored'
  <2>1. ready[p] = "yes" /\ Ids' = Ids
    BY <1>11, <1>u, <1>p DEF Mkdir
  <2> QED
    BY <1>11, <2>1 DEF Mkdir
<1>12. ASSUME NEW p \in Proc, NEW t \in Task, Downloaded(p, t) PROVE Stored'
  <2>1. ready[p] = "yes" /\ Ids' = Ids
    BY <1>12, <1>u, <1>p DEF Downloaded
  <2> QED
    BY <1>12, <2>1 DEF Downloaded
<1>13. ASSUME NEW p \in Proc, NEW t \in Task, Drop(p, t) \/ DownloadThrows(p, t)
       PROVE  Stored'
  <2>1. Ids' = Ids /\ Goto(p, t, "idle", NoAtt) /\ UNCHANGED <<victim, ready, purge>>
    BY <1>13, <1>u DEF Drop, DownloadThrows
  <2>2. disk \ {at[p][t]} \subseteq disk'
    BY <1>13 DEF Drop, DropDirectory, RemoveDir, DownloadThrows
  <2>3. /\ \A q \in Proc : at[p][t] \notin Ids[q]
        /\ \A q \in Proc, u \in Task : at'[q][u] # NoAtt =>
              at'[q][u] = at[q][u] /\ at[q][u] # at[p][t]
    BY <2>1 DEF Owned
  <2>4. \A q \in Proc : Ids'[q] \subseteq disk'
    BY <2>1, <2>2, <2>3
  <2>5. \A q \in Proc, u \in Task : at'[q][u] # NoAtt => at'[q][u] \in disk'
    BY <2>2, <2>3
  <2>6. \A q \in Proc : ready'[q] # "yes" => Waiting(q)'
    BY <2>1
  <2> QED
    BY <2>1, <2>4, <2>5, <2>6
<1>14. ASSUME NEW p \in Proc, NEW t \in Task, Register(p, t) PROVE Stored'
  <2>1. at[p][t] \in Att /\ at[p][t] \notin Ids[p] /\ at[p][t] \in disk /\ ready[p] = "yes"
    BY <1>14, <1>p DEF Register, Owned, Loading
  <2>2. Ids' = [Ids EXCEPT ![p] = @ \cup {at[p][t]}]
    BY <1>14, <2>1, IdEnters DEF Register
  <2> QED
    BY <1>14, <2>1, <2>2 DEF Register
<1>15. ASSUME NEW p \in Proc, NEW t \in Task, Evict(p, t) PROVE Stored'
  BY <1>15, <1>v, <1>p DEF Evict
<1>16. ASSUME NEW p \in Proc, NEW t \in Task, NEW a \in Att, SweepOne(p, t, a) PROVE Stored'
  BY <1>16, <1>v, <1>p DEF SweepOne
<1>17. ASSUME NEW p \in Proc, NEW t \in Task, NEW a \in Att, ResolveExpired(p, t, a)
       PROVE  Stored'
  <2>1. a \in Ids[p] /\ ready[p] = "yes"
    BY <1>17 DEF ResolveExpired, ExpiredOf, Ids
  <2>2. at[p][t] = NoAtt
    BY <1>17 DEF ResolveExpired, Owned, Loading
  <2>3. at' = at
    BY <1>17, <2>2 DEF ResolveExpired
  <2> QED
    BY <1>17, <1>v, <2>1, <2>3 DEF ResolveExpired
<1>18. CASE (\E a \in Att : Expire(a)) \/ UNCHANGED vars
  BY <1>18, <1>u DEF Expire, vars
<1> QED
  BY <1>1, <1>2, <1>3, <1>4, <1>5, <1>6, <1>7, <1>8, <1>9, <1>10, <1>11, <1>12, <1>13,
     <1>14, <1>15, <1>16, <1>17, <1>18 DEF Next

\* For every number of calls of one process: every registered attachment is on disk.
\* A second process of the same directory breaks it, since its purge takes every
\* directory it finds (attachments.ts:655-679, 788-797).
THEOREM RegisteredStaysOnDisk == ASSUME Alone PROVE Spec => []RegisteredIsOnDisk
<1>1. Init => Stored
  <2> SUFFICES ASSUME Init PROVE Stored
    OBVIOUS
  <2>1. \A p \in Proc : Ids[p] = {}
    BY DEF Init, Ids, Registered, ToSet
  <2> QED
    BY <2>1 DEF Init, Stored, Waiting
<1>2. Stored => RegisteredIsOnDisk
  BY DEF Stored, Ids, RegisteredIsOnDisk
<1>3. OwnInv /\ Stored /\ [Next]_vars => Stored'
  BY StoredKept
<1> QED
  BY <1>1, <1>2, <1>3, OwnStart, OwnKept, PTL DEF Spec

-----------------------------------------------------------------------------
(* Types; the downloads are counted exactly                                *)

Busy == {"mkdir", "download", "room"}
Loaders == [p \in Proc |-> {t \in Task : stage[p][t] \in Busy}]
Slotted == /\ active \in [Proc -> 0..MaxConcurrent]
           /\ \A p \in Proc : /\ IsFiniteSet(Loaders[p])
                              /\ active[p] = Cardinality(Loaders[p])

LEMMA SlottedKept == OwnInv /\ Slotted /\ [Next]_vars => Slotted'
<1> SUFFICES ASSUME OwnInv, Slotted, [Next]_vars PROVE Slotted'
  OBVIOUS
<1>i. Shape
  BY DEF OwnInv
\* A slot is taken, given back, or neither.
<1>a. ASSUME NEW p \in Proc, NEW t \in Task, stage[p][t] = "sweep",
             stage' = [stage EXCEPT ![p][t] = "mkdir"], SlotLeft(p),
             active' = [active EXCEPT ![p] = @ + 1]
      PROVE  Slotted'
  <2>1. /\ Loaders'[p] = Loaders[p] \cup {t} /\ t \notin Loaders[p]
        /\ \A q \in Proc \ {p} : Loaders'[q] = Loaders[q]
    BY <1>a, <1>i DEF Loaders, Busy, Shape
  <2>0. IsFiniteSet(Loaders[p])
    BY DEF Slotted
  <2>2. IsFiniteSet(Loaders'[p]) /\ Cardinality(Loaders'[p]) = Cardinality(Loaders[p]) + 1
    BY <2>0, <2>1, FS_AddElement
  <2>3. active' \in [Proc -> 0..MaxConcurrent]
    BY <1>a, Quotas DEF Slotted, SlotLeft
  <2> QED
    BY <1>a, <2>1, <2>2, <2>3 DEF Slotted
<1>r. ASSUME NEW p \in Proc, NEW t \in Task, stage[p][t] \in Busy,
             stage' = [stage EXCEPT ![p][t] = "idle"],
             active' = [active EXCEPT ![p] = @ - 1]
      PROVE  Slotted'
  <2>1. /\ Loaders'[p] = Loaders[p] \ {t} /\ t \in Loaders[p]
        /\ \A q \in Proc \ {p} : Loaders'[q] = Loaders[q]
    BY <1>r, <1>i DEF Loaders, Busy, Shape
  <2>2. IsFiniteSet(Loaders'[p]) /\ Cardinality(Loaders'[p]) = Cardinality(Loaders[p]) - 1
    BY SMTT(40), <2>1, FS_RemoveElement DEF Slotted
  <2>3. Cardinality(Loaders'[p]) \in Nat
    BY <2>2, FS_CardinalityType
  <2>4. active' \in [Proc -> 0..MaxConcurrent]
    BY <1>r, <2>2, <2>3, Quotas DEF Slotted
  <2> QED
    BY <1>r, <2>1, <2>2, <2>4 DEF Slotted
<1>u. ASSUME UNCHANGED active,
             \A p \in Proc, t \in Task : stage'[p][t] \in Busy <=> stage[p][t] \in Busy
      PROVE  Slotted'
  <2>1. Loaders' = Loaders
    BY <1>u DEF Loaders
  <2> QED
    BY <1>u, <2>1 DEF Slotted
<1>g. ASSUME NEW p \in Proc, NEW t \in Task, NEW label, stage[p][t] \in Busy <=> label \in Busy,
             stage' = [stage EXCEPT ![p][t] = label], UNCHANGED active
      PROVE  Slotted'
  BY <1>g, <1>u, <1>i DEF Shape
<1> USE DEF Goto, Busy
<1>1. ASSUME NEW p \in Proc, NEW t \in Task, TakeSlot(p, t) PROVE Slotted'
  BY <1>1, <1>a DEF TakeSlot
<1>2. ASSUME NEW p \in Proc, NEW t \in Task,
             MkdirFails(p, t) \/ Drop(p, t) \/ DownloadThrows(p, t) \/ Register(p, t)
      PROVE  Slotted'
  BY <1>2, <1>r DEF MkdirFails, Drop, DownloadThrows, Register
<1>3. ASSUME NEW p \in Proc, NEW t \in Task, Fetch(p, t) \/ Swept(p, t) \/ TooMany(p, t)
      PROVE  Slotted'
  BY <1>3, <1>g DEF Fetch, Swept, TooMany
<1>4. ASSUME NEW p \in Proc, NEW t \in Task, Sweep(p, t) \/ Interval(p, t) PROVE Slotted'
  BY <1>4, <1>g DEF Sweep, Interval, BeginSweep
<1>5. ASSUME NEW p \in Proc, NEW t \in Task, Removed(p, t) PROVE Slotted'
  BY <1>5, <1>u, <1>i DEF Removed, Shape
<1>6. ASSUME NEW p \in Proc, NEW t \in Task, Downloaded(p, t) PROVE Slotted'
  BY <1>6, <1>g DEF Downloaded
<1>7. ASSUME NEW p \in Proc, NEW t \in Task, NEW a \in Att, NEW n \in Sizes, Mkdir(p, t, a, n)
      PROVE  Slotted'
  BY <1>7, <1>g DEF Mkdir
<1>8. ASSUME NEW p \in Proc, NEW t \in Task, NEW a \in Att, ResolveExpired(p, t, a)
      PROVE  Slotted'
  BY <1>8, <1>g DEF ResolveExpired, RemoveEntry
<1>9. ASSUME UNCHANGED <<stage, active>> PROVE Slotted'
  BY <1>9, <1>u
<1>10. ASSUME NEW p \in Proc, NEW t \in Task, NEW a \in Att, SweepOne(p, t, a)
       PROVE  Slotted'
  BY <1>9, <1>10 DEF SweepOne, RemoveEntry
<1>11. ASSUME NEW p \in Proc, NEW t \in Task, Evict(p, t) PROVE Slotted'
  BY <1>9, <1>11 DEF Evict, RemoveEntry
<1>12. ASSUME NEW p \in Proc, ListDirs(p) \/ Purged(p) PROVE Slotted'
  BY <1>9, <1>12 DEF ListDirs, Purged
<1>13. ASSUME NEW p \in Proc, NEW a \in Att, PurgeDir(p, a) PROVE Slotted'
  BY <1>9, <1>13 DEF PurgeDir
<1>14. ASSUME NEW a \in Att, Expire(a) PROVE Slotted'
  BY <1>9, <1>14 DEF Expire
<1>15. CASE UNCHANGED vars
  BY <1>9, <1>15 DEF vars
<1> QED
  BY <1>1, <1>2, <1>3, <1>4, <1>5, <1>6, <1>7, <1>8, <1>10, <1>11, <1>12, <1>13, <1>14,
     <1>15 DEF Next

Known == /\ due \in [Proc -> [Task -> SUBSET Att]]
         /\ bytes \in [Att -> Sizes \cup {0}]
         /\ failed \in BOOLEAN

LEMMA KnownKept == OwnInv /\ Known /\ [Next]_vars => Known'
<1> SUFFICES ASSUME OwnInv, Known, [Next]_vars PROVE Known'
  OBVIOUS
<1>i. Shape /\ Ids \in [Proc -> SUBSET Att]
  BY IdsAreAttachments DEF OwnInv
<1>d. ASSUME NEW p \in Proc, NEW t \in Task, NEW S \in SUBSET Att,
             due' = [due EXCEPT ![p][t] = S]
      PROVE  due' \in [Proc -> [Task -> SUBSET Att]]
  BY <1>d DEF Known
<1>1. ASSUME NEW p \in Proc, NEW t \in Task, Sweep(p, t) \/ Interval(p, t) PROVE Known'
  <2>1. ExpiredOf(p) \in SUBSET Att
    BY <1>i DEF ExpiredOf, Ids
  <2>2. due' = [due EXCEPT ![p][t] = ExpiredOf(p)] /\ UNCHANGED <<bytes, failed>>
    BY <1>1 DEF Sweep, Interval, BeginSweep
  <2> QED
    BY <1>d, <2>1, <2>2 DEF Known
<1>2. ASSUME NEW p \in Proc, NEW t \in Task, Swept(p, t) \/ TakeSlot(p, t) \/ TooMany(p, t)
      PROVE  Known'
  <2>1. due' = [due EXCEPT ![p][t] = {}] /\ UNCHANGED <<bytes, failed>>
    BY <1>2 DEF Swept, TakeSlot, TooMany, EndSweep
  <2> QED
    BY <1>d, <2>1 DEF Known
<1>3. ASSUME NEW p \in Proc, NEW t \in Task, NEW a \in Att, NEW n \in Sizes, Mkdir(p, t, a, n)
      PROVE  Known'
  BY <1>3 DEF Mkdir, Known
\* Every other step leaves both, and may only see a failure.
<1>f. ASSUME UNCHANGED <<due, bytes>>, failed' = TRUE \/ UNCHANGED failed PROVE Known'
  BY <1>f DEF Known
<1>4. ASSUME NEW p \in Proc, NEW t \in Task,
             \/ Removed(p, t) \/ Drop(p, t) \/ DownloadThrows(p, t) \/ MkdirFails(p, t)
             \/ Fetch(p, t) \/ Downloaded(p, t) \/ Evict(p, t) \/ Register(p, t)
      PROVE  Known'
  BY <1>4, <1>f DEF Removed, Drop, DropDirectory, RemoveDir, DownloadThrows, MkdirFails, Fetch,
     Downloaded, Evict, RemoveEntry, Register
<1>5. ASSUME NEW p \in Proc, ListDirs(p) \/ Purged(p) PROVE Known'
  BY <1>5, <1>f DEF ListDirs, Purged
<1>6. ASSUME NEW p \in Proc, NEW a \in Att, PurgeDir(p, a) PROVE Known'
  BY <1>6, <1>f DEF PurgeDir, RemoveDir
<1>7. ASSUME NEW p \in Proc, NEW t \in Task, NEW a \in Att,
             SweepOne(p, t, a) \/ ResolveExpired(p, t, a)
      PROVE  Known'
  BY <1>7, <1>f DEF SweepOne, ResolveExpired, RemoveEntry
<1>8. ASSUME NEW a \in Att, Expire(a) PROVE Known'
  BY <1>8, <1>f DEF Expire
<1>9. CASE UNCHANGED vars
  BY <1>9, <1>f DEF vars
<1> QED
  BY <1>1, <1>2, <1>3, <1>4, <1>5, <1>6, <1>7, <1>8, <1>9 DEF Next

\* For every number of processes and calls, every variable of the store has its type:
\* the downloads of a process are counted exactly, so `active` comes back to zero on
\* every path and never passes the limit (attachments.ts:708-757).
THEOREM StoreTyped == Spec => []TypeOK
<1>1. Init => Slotted /\ Known
  <2> SUFFICES ASSUME Init PROVE Slotted /\ Known
    OBVIOUS
  <2>1. \A p \in Proc : Loaders[p] = {}
    BY DEF Init, Loaders, Busy
  <2>2. Slotted
    <3>1. IsFiniteSet({}) /\ Cardinality({}) = 0
      BY FS_EmptySet
    <3>2. active = [p \in Proc |-> 0] /\ 0 \in 0..MaxConcurrent
      BY Quotas DEF Init
    <3> QED
      BY <2>1, <3>1, <3>2 DEF Slotted
  <2>3. Known
    BY DEF Init, Known
  <2> QED
    BY <2>2, <2>3
<1>2. OwnInv /\ Slotted /\ Known => TypeOK
  BY DEF OwnInv, Listed, Shape, Stages, Slotted, Known, TypeOK
<1> QED
  BY <1>1, <1>2, OwnStart, OwnKept, SlottedKept, KnownKept, PTL DEF Spec
-----------------------------------------------------------------------------
(* Bytes                                                                   *)

Sized == \A p \in Proc : IsFiniteSet(Held(p)) /\ Total(p) <= MaxTotalBytes

\* Fewer entries hold fewer bytes.
LEMMA HoldsLess ==
  ASSUME NEW p \in Proc, NEW q \in Proc, Sized,
         Ids'[p] \subseteq Ids[p], \A a \in Ids'[p] : bytes'[a] = bytes[a]
  PROVE  IsFiniteSet(Held(p))' /\ (Total(p) <= MaxTotalBytes)'
<1>1. Held(p)' \subseteq Held(p)
  BY DEF Held, Ids
<1>2. IsFiniteSet(Held(p)) /\ Total(p) <= MaxTotalBytes /\ MaxTotalBytes \in Nat
  BY AttachmentStoreAssumption DEF Sized
<1>3. IsFiniteSet(Held(p)') /\ Cardinality(Held(p)') <= Cardinality(Held(p))
  BY <1>1, <1>2, FS_Subset
<1>4. Cardinality(Held(p)') \in Nat /\ Cardinality(Held(p)) \in Nat
  BY <1>2, <1>3, FS_CardinalityType
<1> QED
  BY <1>2, <1>3, <1>4 DEF Total

\* A newcomer adds its own bytes.
LEMMA HoldsOneMore ==
  ASSUME NEW p \in Proc, NEW a \in Att, Sized, a \notin Ids[p], bytes[a] \in Nat,
         Total(p) + bytes[a] <= MaxTotalBytes,
         Ids'[p] = Ids[p] \cup {a}, bytes' = bytes
  PROVE  IsFiniteSet(Held(p))' /\ (Total(p) <= MaxTotalBytes)'
<1> DEFINE own == {a} \X (1..bytes[a])
<1>1. IsFiniteSet(own) /\ Cardinality(own) = bytes[a]
  <2>1. IsFiniteSet({a}) /\ Cardinality({a}) = 1
    BY FS_Singleton
  <2>2. IsFiniteSet(1..bytes[a]) /\ Cardinality(1..bytes[a]) = bytes[a]
    BY SMTT(40), FS_Interval
  <2>3. /\ IsFiniteSet(own)
        /\ Cardinality(own) = Cardinality({a}) * Cardinality(1..bytes[a])
    BY <2>1, <2>2, FS_Product
  <2> HIDE DEF own
  <2> QED
    BY <2>1, <2>2, <2>3
<1>2. Held(p)' = Held(p) \cup own
  BY DEF Held, Ids
<1>3. Held(p) \cap own = {}
  BY DEF Held, Ids
<1>4. IsFiniteSet(Held(p)) /\ Cardinality(Held(p)) \in Nat
  BY FS_CardinalityType DEF Sized
<1> HIDE DEF own
<1>5. /\ IsFiniteSet(Held(p) \cup own)
      /\ Cardinality(Held(p) \cup own) = Cardinality(Held(p)) + bytes[a]
  <2>1. /\ IsFiniteSet(Held(p) \cup own)
        /\ Cardinality(Held(p) \cup own)
              = Cardinality(Held(p)) + Cardinality(own) - Cardinality(Held(p) \cap own)
    BY <1>1, <1>4, FS_Union
  <2>2. Cardinality(Held(p) \cap own) = 0
    BY <1>3, FS_EmptySet
  <2> QED
    BY <1>1, <1>4, <2>1, <2>2
<1> QED
  BY <1>2, <1>5 DEF Total

LEMMA SizedKept == OwnInv /\ Known /\ Sized /\ [Next]_vars => Sized'
<1> SUFFICES ASSUME OwnInv, Known, Sized, [Next]_vars PROVE Sized'
  OBVIOUS
<1>i. Listed /\ Ids \in [Proc -> SUBSET Att] /\ bytes \in [Att -> Nat]
  <2>1. Listed
    BY DEF OwnInv
  <2>2. Sizes \cup {0} \subseteq Nat
    BY Quotas
  <2> QED
    BY <2>1, <2>2, IdsAreAttachments DEF Known
<1>1. ASSUME UNCHANGED <<entries, bytes>> PROVE Sized'
  BY <1>1 DEF Sized, Held, Total, Registered
<1>2. ASSUME NEW p \in Proc, NEW t \in Task, NEW a, RemoveEntry(p, t, a) PROVE Sized'
  <2>1. Ids' = [Ids EXCEPT ![p] = @ \ {a}] /\ bytes' = bytes
    BY <1>i, <1>2, IdLeaves DEF RemoveEntry
  <2>2. \A q \in Proc : Ids'[q] \subseteq Ids[q]
    BY <1>i, <2>1
  <2> QED
    BY <2>1, <2>2, HoldsLess DEF Sized
<1>3. ASSUME NEW p \in Proc, NEW t \in Task, Register(p, t) PROVE Sized'
  <2> DEFINE a == at[p][t]
  <2>1. a \in Att /\ a \notin Ids[p]
    BY <1>3, Quotas DEF OwnInv, Shape, Owned, Loading, Register
  <2>2. /\ Ids' = [Ids EXCEPT ![p] = @ \cup {a}]
        /\ bytes' = bytes /\ Total(p) + bytes[a] <= MaxTotalBytes
    BY <1>i, <1>3, <2>1, IdEnters DEF Register, Fits
  <2> HIDE DEF a
  <2>3. IsFiniteSet(Held(p))' /\ (Total(p) <= MaxTotalBytes)'
    BY <1>i, <2>1, <2>2, HoldsOneMore
  <2>4. \A q \in Proc \ {p} : Ids'[q] \subseteq Ids[q]
    BY <1>i, <2>2
  <2> QED
    BY <2>2, <2>3, <2>4, HoldsLess DEF Sized
<1>4. ASSUME NEW p \in Proc, NEW t \in Task, NEW a \in Att, NEW n \in Sizes, Mkdir(p, t, a, n)
      PROVE  Sized'
  <2>1. Ids' = Ids /\ \A q \in Proc : a \notin Ids[q]
    BY <1>i, <1>4, IdsStay DEF Mkdir, Unused, Ids
  <2>2. \A q \in Proc : \A b \in Ids'[q] : bytes'[b] = bytes[b]
    BY <1>i, <1>4, <2>1 DEF Mkdir
  <2> QED
    BY <2>1, <2>2, HoldsLess DEF Sized
<1>5. ASSUME NEW p \in Proc, NEW t \in Task,
             \/ Fetch(p, t) \/ Sweep(p, t) \/ Interval(p, t) \/ Removed(p, t)
             \/ Swept(p, t) \/ TakeSlot(p, t) \/ TooMany(p, t) \/ MkdirFails(p, t)
             \/ Downloaded(p, t) \/ DownloadThrows(p, t) \/ Drop(p, t)
      PROVE  Sized'
  BY <1>1, <1>5 DEF Fetch, Sweep, Interval, BeginSweep, Removed, Swept, TakeSlot, TooMany,
     MkdirFails, Downloaded, DownloadThrows, Drop
<1>6. ASSUME NEW p \in Proc, NEW t \in Task, Evict(p, t) PROVE Sized'
  BY <1>2, <1>6 DEF Evict
<1>7. ASSUME NEW p \in Proc, NEW t \in Task, NEW a \in Att,
             SweepOne(p, t, a) \/ ResolveExpired(p, t, a)
      PROVE  Sized'
  BY <1>2, <1>7 DEF SweepOne, ResolveExpired
<1>8. ASSUME NEW p \in Proc, ListDirs(p) \/ Purged(p) PROVE Sized'
  BY <1>1, <1>8 DEF ListDirs, Purged
<1>9. ASSUME NEW p \in Proc, NEW a \in Att, PurgeDir(p, a) PROVE Sized'
  BY <1>1, <1>9 DEF PurgeDir
<1>10. ASSUME NEW a \in Att, Expire(a) PROVE Sized'
  BY <1>1, <1>10 DEF Expire
<1>11. CASE UNCHANGED vars
  BY <1>1, <1>11 DEF vars
<1> QED
  BY <1>3, <1>4, <1>5, <1>6, <1>7, <1>8, <1>9, <1>10, <1>11 DEF Next

\* For every number of processes and calls, all sizes and both quotas: the registry holds
\* at most maxTotalBytes in at most maxEntries entries, however downloads of unknown size
\* end while others wait for evictions (attachments.ts:22-24, 738, 806-820).  makeRoom's
\* last comparison and the registration run in one turn; that an id is registered once and
\* keeps its size while it is (OwnInv) is what makes the comparison enough.
THEOREM QuotasAreHeld == Spec => []QuotaHeld
<1>1. Init => Sized /\ Known
  <2> SUFFICES ASSUME Init PROVE Sized /\ Known
    OBVIOUS
  <2>1. \A p \in Proc : Held(p) = {}
    BY DEF Init, Held, Registered, ToSet
  <2>2. Sized
    BY <2>1, FS_EmptySet, AttachmentStoreAssumption DEF Sized, Total
  <2> QED
    BY <2>2 DEF Init, Known
<1>2. Counted /\ Sized => QuotaHeld
  BY DEF Counted, Sized, QuotaHeld
<1> QED
  BY <1>1, <1>2, OwnStart, OwnKept, KnownKept, SizedKept, EntriesStayCapped, PTL DEF Spec
=============================================================================
