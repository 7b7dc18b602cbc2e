----------------------------- MODULE Tools_proofs -----------------------------
(***************************************************************************)
(* Theorems about the tools of the MCP server (the components of MCTools), *)
(* for all values of their constants.  Each is proved from an inductive    *)
(* invariant of its own component; ToolSteps carries it over to the model  *)
(* that runs one of them.                                                  *)
(***************************************************************************)
EXTENDS MCTools, FileLock_proofs, SequenceTheorems, FiniteSetTheorems, TLAPS

\* A step of the whole is a step, or none, of each component.
LEMMA ToolSteps == [ToolsNext]_toolsVars => /\ [Calls!Next]_callVars
                                            /\ [Presence!Next]_presenceVars
                                            /\ [Feed!Next]_feedVars
                                            /\ [Pdf!Next]_pdfVars
                                            /\ [Calendar!Next]_calendarVars
                                            /\ [Iso!Next]_isoVars
<1> SUFFICES ASSUME [ToolsNext]_toolsVars
             PROVE  /\ [Calls!Next]_callVars
                    /\ [Presence!Next]_presenceVars
                    /\ [Feed!Next]_feedVars
                    /\ [Pdf!Next]_pdfVars
                    /\ [Calendar!Next]_calendarVars
                    /\ [Iso!Next]_isoVars
  OBVIOUS
<1>1. CASE UNCHANGED toolsVars
  BY <1>1 DEF toolsVars
<1>2. CASE ToolsNext
  BY <1>2 DEF ToolsNext, Only, Over, toolsVars
<1> QED
  BY <1>1, <1>2

-----------------------------------------------------------------------------
(* Sick reports                                                             *)

\* A call that is about to write has had its children and, if it takes back a report,
\* the statuses checked; the arguments cannot change under it.
Vetted == \A c \in ReportCall :
    /\ at[c] \in {"overview", "write"} => ids[c] \subseteq Own
    /\ at[c] = "overview" => ~sick[c]
    /\ at[c] = "write" /\ ~sick[c] => \A i \in ids[c] : overview[c][i] = "sick"

LEMMA PresenceTyped == Presence!TypeOK /\ [Presence!Next]_presenceVars => Presence!TypeOK'
<1> SUFFICES ASSUME Presence!TypeOK, [Presence!Next]_presenceVars PROVE Presence!TypeOK'
  OBVIOUS
<1> USE DEF Presence!TypeOK, Presence!Goes, Presence!Ids, Presence!Status, Presence!args
<1>1. ASSUME NEW c \in ReportCall, NEW wanted \in SUBSET Presence!Ids \ {{}}, NEW ill \in BOOLEAN,
             Presence!Report(c, wanted, ill)
      PROVE  Presence!TypeOK'
  <2>1. [i \in Own \cup Others |-> None] \in [Own \cup Others -> {"absent", "sick", "present"} \cup {None}]
    OBVIOUS
  <2> QED
    BY <1>1, <2>1 DEF Presence!Report
<1>2. ASSUME NEW c \in ReportCall, Presence!ProfilesAnswered(c) PROVE Presence!TypeOK'
  BY <1>2 DEF Presence!ProfilesAnswered
<1>3. ASSUME NEW c \in ReportCall, NEW covered \in SUBSET Own,
             Presence!OverviewAnswered(c, covered)
      PROVE  Presence!TypeOK'
  <2> DEFINE seen == [i \in Own \cup Others |-> IF i \in covered THEN status[i] ELSE None]
  <2>1. seen \in [Own \cup Others -> {"absent", "sick", "present"} \cup {None}]
    OBVIOUS
  <2>2. overview' = [overview EXCEPT ![c] = seen] /\ UNCHANGED <<status, ids, sick>>
    BY <1>3 DEF Presence!OverviewAnswered
  <2>3. \E there \in {"write", "idle"}, how \in {"none", "refused"} : Presence!Goes(c, there, how)
    BY <1>3 DEF Presence!OverviewAnswered
  <2> HIDE DEF seen
  <2> QED
    BY <2>1, <2>2, <2>3
<1>4. ASSUME NEW c \in ReportCall, Presence!Performed(c)
      PROVE  status' \in [Own -> Presence!Status]
  BY <1>4 DEF Presence!Performed, Presence!Written
<1>5. ASSUME NEW c \in ReportCall, Presence!WriteAnswered(c) PROVE Presence!TypeOK'
  BY <1>4, <1>5 DEF Presence!WriteAnswered
<1>6. ASSUME NEW c \in ReportCall, NEW performed \in BOOLEAN, Presence!WriteLost(c, performed)
      PROVE  Presence!TypeOK'
  BY <1>4, <1>6 DEF Presence!WriteLost
<1>7. ASSUME NEW c \in ReportCall, Presence!ReadFails(c) PROVE Presence!TypeOK'
  BY <1>7 DEF Presence!ReadFails
<1>8. ASSUME NEW i \in Own, NEW s \in Presence!Status, Presence!Staff(i, s)
      PROVE  Presence!TypeOK'
  BY <1>8 DEF Presence!Staff
<1>9. CASE UNCHANGED presenceVars
  BY <1>9 DEF presenceVars
<1> QED
  BY <1>1, <1>2, <1>3, <1>5, <1>6, <1>7, <1>8, <1>9 DEF Presence!Next, Presence!Serve

LEMMA VettedKept ==
  Presence!TypeOK /\ Vetted /\ [Presence!Next]_presenceVars => Vetted'
<1> SUFFICES ASSUME Presence!TypeOK, Vetted, [Presence!Next]_presenceVars PROVE Vetted'
  OBVIOUS
<1> USE DEF Presence!TypeOK, Vetted, Presence!Goes, Presence!args
<1>1. ASSUME NEW c \in ReportCall, NEW wanted \in SUBSET Presence!Ids \ {{}}, NEW ill \in BOOLEAN,
             Presence!Report(c, wanted, ill)
      PROVE  Vetted'
  BY <1>1 DEF Presence!Report
<1>2. ASSUME NEW c \in ReportCall, Presence!ProfilesAnswered(c) PROVE Vetted'
  BY <1>2 DEF Presence!ProfilesAnswered, Presence!Known
<1>3. ASSUME NEW c \in ReportCall, NEW covered \in SUBSET Own,
             Presence!OverviewAnswered(c, covered)
      PROVE  Vetted'
  <2> DEFINE seen == [i \in Own \cup Others |-> IF i \in covered THEN status[i] ELSE None]
             fit == \A i \in ids[c] : seen[i] = "sick"
  <2>1. /\ at[c] = "overview" /\ UNCHANGED <<ids, sick>>
        /\ overview' = [overview EXCEPT ![c] = seen]
        /\ at' = [at EXCEPT ![c] = IF fit THEN "write" ELSE "idle"]
    BY <1>3 DEF Presence!OverviewAnswered, Presence!Unreportable, Presence!Ids
  <2>2. overview'[c] = seen
    BY <2>1
  <2>3. fit => \A i \in ids'[c] : overview'[c][i] = "sick"
    BY <2>1, <2>2
  <2>4. at'[c] = IF fit THEN "write" ELSE "idle"
    BY <2>1
  <2> HIDE DEF seen, fit
  <2>5. ids[c] \subseteq Own
    BY <2>1
  <2>6. ASSUME NEW d \in ReportCall, d # c
        PROVE  at'[d] = at[d] /\ overview'[d] = overview[d]
    BY <2>1, <2>6
  <2> QED
    BY <2>1, <2>3, <2>4, <2>5, <2>6
<1>4. ASSUME NEW c \in ReportCall, Presence!WriteAnswered(c) \/ Presence!ReadFails(c)
      PROVE  Vetted'
  BY <1>4 DEF Presence!WriteAnswered, Presence!ReadFails
<1>7. ASSUME NEW c \in ReportCall, NEW performed \in BOOLEAN, Presence!WriteLost(c, performed)
      PROVE  Vetted'
  BY <1>7 DEF Presence!WriteLost
<1>5. ASSUME NEW i \in Own, NEW s \in Presence!Status, Presence!Staff(i, s) PROVE Vetted'
  BY <1>5 DEF Presence!Staff
<1>6. CASE UNCHANGED presenceVars
  BY <1>6 DEF presenceVars
<1> HIDE DEF Presence!TypeOK, Vetted, Presence!Goes
<1> QED
  BY <1>1, <1>2, <1>3, <1>4, <1>5, <1>6, <1>7 DEF Presence!Next, Presence!Serve

LEMMA PresenceStart == ToolsInit => Presence!TypeOK /\ Vetted
BY DEF ToolsInit, Presence!Init, Presence!TypeOK, Presence!Status, Presence!Ids, Vetted

\* For every number of calls and children: a write is for own children only, and takes
\* back only what the overview of the same call said was sick, whatever other calls and
\* the staff do between its requests (tools.ts:508-558).
THEOREM ReportsAreVetted == ToolsSpec => WritesAreVetted
<1> DEFINE Good == \A c \in ReportCall : at[c] = "write" /\ at'[c] = "idle" =>
          /\ ids[c] \subseteq Own
          /\ ~sick[c] => \A i \in ids[c] : overview[c][i] = "sick"
<1>1. Vetted => Good
  BY DEF Vetted
<1>2. Vetted /\ [ToolsNext]_toolsVars => [Good]_(Presence!vars)
  BY <1>1
<1> QED
  BY <1>2, PresenceStart, PresenceTyped, VettedKept, ToolSteps, PTL
     DEF ToolsSpec, WritesAreVetted, Presence!WritesAreVetted

-----------------------------------------------------------------------------
(* Text of a PDF                                                            *)

\* What the two processes know of each other.  A worker is killed by the deadline or by
\* the cap; it writes its second object only after the first; until the call has an
\* answer its deadline has fired or is to come.
PipesHold ==
    /\ state = "check" => worker = "none" /\ timer = "none" /\ answer = "none"
    /\ state = "running" => worker # "none" /\ timer \in {"armed", "fired"}
    /\ worker = "killed" => timer = "fired" \/ overflowed
    /\ worker \in {"none", "parsing"} => objects = 0 /\ left = 0
    /\ worker = "writing" => objects = 0 \/ (objects = 1 /\ left = 0)
    /\ worker = "second" => objects + left <= 2
    /\ Pdf!AnswerIsWhole

PdfInv == Pdf!TypeOK /\ PipesHold

LEMMA PdfStart == ToolsInit => PdfInv
<1> SUFFICES ASSUME ToolsInit PROVE PdfInv
  OBVIOUS
<1>1. PipeCap \in Nat \ {0} /\ MaxStdout \in Nat /\ MaxChatter \in Nat
  BY ToolsAssumption DEF Pdf!PdfAssumption
<1>2. Pdf!Init
  BY DEF ToolsInit
<1>3. document \in {"too_large", "no_magic", "pdf"} /\ overflowed \in BOOLEAN
  BY <1>2 DEF Pdf!Init
<1>4. Pdf!TypeOK
  BY <1>1, <1>2, <1>3 DEF Pdf!Init, Pdf!TypeOK
<1>5. PipesHold
  BY <1>2 DEF Pdf!Init, PipesHold, Pdf!AnswerIsWhole
<1> QED
  BY <1>4, <1>5 DEF PdfInv

LEMMA PdfKept == PdfInv /\ [Pdf!Next]_pdfVars => PdfInv'
<1> SUFFICES ASSUME PdfInv, [Pdf!Next]_pdfVars PROVE PdfInv'
  OBVIOUS
<1>0. PipeCap \in Nat \ {0} /\ MaxStdout \in Nat /\ MaxChatter \in Nat
  BY ToolsAssumption DEF Pdf!PdfAssumption
<1> USE <1>0 DEF PdfInv, Pdf!TypeOK, PipesHold, Pdf!AnswerIsWhole, Pdf!Alive, Pdf!child,
                 Pdf!parent, Pdf!Answers
<1>1. CASE Pdf!TooLarge
  BY <1>1 DEF Pdf!TooLarge
<1>2. CASE Pdf!NoMagic
  BY <1>2 DEF Pdf!NoMagic
<1>3. CASE Pdf!Spawn
  BY <1>3 DEF Pdf!Spawn
<1>4. CASE Pdf!TimerFires
  BY <1>4 DEF Pdf!TimerFires, Pdf!Kill
<1>5. CASE Pdf!ReadStdout
  <2>1. /\ state = "running" /\ pipe' = pipe - 1 /\ pipe > 0
        /\ UNCHANGED <<document, state, timer, answer, parse, left, objects, errors, chatter>>
    BY <1>5 DEF Pdf!ReadStdout
  <2>2. CASE read < MaxStdout
    BY <1>5, <2>1, <2>2 DEF Pdf!ReadStdout, Pdf!WithinCap
  <2>3. CASE ~(read < MaxStdout)
    BY <1>5, <2>1, <2>3 DEF Pdf!ReadStdout, Pdf!WithinCap, Pdf!Kill
  <2> QED
    BY <2>2, <2>3
<1>6. CASE Pdf!ReadStderr
  BY <1>6 DEF Pdf!ReadStderr
<1>7. CASE Pdf!Settle
  BY <1>7 DEF Pdf!Settle, Pdf!Drained, Pdf!Result, Pdf!TimedOut, Pdf!Parsed
<1>8. ASSUME NEW how \in {"text", "failed"}, NEW size \in 1..MaxStdout + 2,
             Pdf!ParseEnds(how, size)
      PROVE  PdfInv'
  BY <1>8 DEF Pdf!ParseEnds
<1>9. CASE Pdf!Writes
  BY <1>9 DEF Pdf!Writes
<1>10. CASE Pdf!Chatters
  BY <1>10 DEF Pdf!Chatters
<1>11. CASE Pdf!DestroyFails
  BY <1>11 DEF Pdf!DestroyFails
<1>12. CASE Pdf!Exits
  BY <1>12 DEF Pdf!Exits
<1>13. CASE Pdf!Dies
  BY <1>13 DEF Pdf!Dies
<1>14. CASE UNCHANGED pdfVars
  BY <1>14 DEF pdfVars
<1> HIDE DEF PdfInv
<1> QED
  BY <1>1, <1>2, <1>3, <1>4, <1>5, <1>6, <1>7, <1>8, <1>9, <1>10, <1>11, <1>12, <1>13,
     <1>14 DEF Pdf!Next, Pdf!CallStep, Pdf!WorkerStep

\* For pipes and a cap of any size: text is answered only for a worker that ran to its
\* end, whose one object was kept whole, and an answered call leaves neither a worker
\* nor a deadline (pdf-extract.ts:106-162).
THEOREM TextIsWhole == ToolsSpec => []AnswerIsWhole
<1>1. PdfInv => AnswerIsWhole
  BY DEF PdfInv, PipesHold, AnswerIsWhole
<1> QED
  BY <1>1, PdfStart, PdfKept, ToolSteps, PTL DEF ToolsSpec

-----------------------------------------------------------------------------
(* The walks over a feed                                                    *)

\* What is left of a sequence without its element at i.
LEMMA Shortened ==
  ASSUME NEW S, NEW s \in Seq(S), NEW i \in DOMAIN s
  PROVE  /\ Feed!RemoveAt(s, i) \in Seq(S)
         /\ Len(Feed!RemoveAt(s, i)) = Len(s) - 1
         /\ \A j \in 1..(Len(s) - 1) :
               Feed!RemoveAt(s, i)[j] = IF j < i THEN s[j] ELSE s[j + 1]
<1> DEFINE l == SubSeq(s, 1, i - 1)
           r == SubSeq(s, i + 1, Len(s))
           d == Feed!RemoveAt(s, i)
<1>1. i \in 1..Len(s) /\ DOMAIN s = 1..Len(s) /\ Len(s) \in Nat
  BY LenProperties
<1>2. /\ l \in Seq(S) /\ Len(l) = i - 1 /\ \A j \in 1..(i - 1) : l[j] = s[j]
  BY <1>1, SubSeqProperties
<1>3. /\ r \in Seq(S) /\ Len(r) = Len(s) - i
      /\ \A j \in 1..(Len(s) - i) : r[j] = s[i + j]
  BY SMTT(40), <1>1, SubSeqProperties
<1>4. d = l \o r
  BY DEF Feed!RemoveAt
<1> HIDE DEF l, r, d
<1>5. /\ d \in Seq(S) /\ Len(d) = Len(l) + Len(r)
      /\ \A j \in 1..(Len(l) + Len(r)) : d[j] = IF j <= Len(l) THEN l[j] ELSE r[j - Len(l)]
  BY <1>2, <1>3, <1>4, ConcatProperties
<1>6. \A j \in 1..(Len(s) - 1) : d[j] = IF j < i THEN s[j] ELSE s[j + 1]
  <2> SUFFICES ASSUME NEW j \in 1..(Len(s) - 1)
               PROVE  d[j] = IF j < i THEN s[j] ELSE s[j + 1]
    OBVIOUS
  <2>1. CASE j < i
    BY <1>1, <1>2, <1>3, <1>5, <2>1
  <2>2. CASE j >= i
    <3>1. j - (i - 1) \in 1..(Len(s) - i) /\ i + (j - (i - 1)) = j + 1
      BY <1>1, <2>2
    <3>2. r[j - (i - 1)] = s[j + 1]
      BY <1>3, <3>1
    <3> QED
      BY <1>1, <1>2, <1>3, <1>5, <2>2, <3>2
  <2> QED
    BY <1>1, <2>1, <2>2
<1>7. Len(d) = Len(s) - 1
  BY <1>1, <1>2, <1>3, <1>5
<1>8. d \in Seq(S)
  BY <1>5
<1> QED
  BY <1>6, <1>7, <1>8 DEF d

\* No entry of the feed is twice in it.
Listed == feed \in Seq(Entry) /\ \A i, j \in DOMAIN feed : feed[i] = feed[j] => i = j

\* The target is not among the first n entries.
Unseen(n) == \A i \in DOMAIN feed : i <= n => feed[i] # target

LEMMA WhereItIs == Listed => \A e \in Entry :
    /\ Feed!Position(e) \in 0..Len(feed)
    /\ Feed!Position(e) # 0 => feed[Feed!Position(e)] = e
    /\ Feed!Contains(feed, e) <=> Feed!Position(e) # 0
    /\ \A i \in DOMAIN feed : feed[i] = e => Feed!Position(e) = i
<1> SUFFICES ASSUME Listed, NEW e \in Entry
             PROVE  /\ Feed!Position(e) \in 0..Len(feed)
                    /\ Feed!Position(e) # 0 => feed[Feed!Position(e)] = e
                    /\ Feed!Contains(feed, e) <=> Feed!Position(e) # 0
                    /\ \A i \in DOMAIN feed : feed[i] = e => Feed!Position(e) = i
  OBVIOUS
<1>1. DOMAIN feed = 1..Len(feed) /\ Len(feed) \in Nat
  BY LenProperties DEF Listed
<1>2. CASE \E i \in DOMAIN feed : feed[i] = e
  <2>1. Feed!Position(e) = CHOOSE i \in DOMAIN feed : feed[i] = e
    BY <1>1, <1>2 DEF Feed!Position, Feed!Contains
  <2>2. Feed!Position(e) \in DOMAIN feed /\ feed[Feed!Position(e)] = e
    BY <1>2, <2>1
  <2> QED
    BY <1>1, <2>2 DEF Listed, Feed!Contains
<1>3. CASE ~\E i \in DOMAIN feed : feed[i] = e
  BY <1>1, <1>3 DEF Feed!Position, Feed!Contains
<1> QED
  BY <1>2, <1>3

\* Taking an entry out of the feed leaves the others in order.
LEMMA WithoutOne ==
  ASSUME Listed, NEW e \in Entry
  PROVE  /\ Feed!Without(e) \in Seq(Entry)
         /\ \A i, j \in DOMAIN Feed!Without(e) :
               Feed!Without(e)[i] = Feed!Without(e)[j] => i = j
         /\ \A j \in DOMAIN Feed!Without(e) :
               /\ Feed!Without(e)[j] # e
               /\ \/ j \in DOMAIN feed /\ Feed!Without(e)[j] = feed[j]
                  \/ j + 1 \in DOMAIN feed /\ Feed!Without(e)[j] = feed[j + 1]
               /\ j < Feed!Position(e) => Feed!Without(e)[j] = feed[j]
<1> DEFINE d == Feed!Without(e)
           k == Feed!Position(e)
<1>1. DOMAIN feed = 1..Len(feed) /\ Len(feed) \in Nat /\ feed \in Seq(Entry)
  BY LenProperties DEF Listed
<1>2. CASE Feed!Contains(feed, e)
  <2>1. k \in DOMAIN feed /\ feed[k] = e
    BY <1>1, <1>2, WhereItIs
  <2>2. d = Feed!RemoveAt(feed, k)
    BY <1>2 DEF Feed!Without
  <2> HIDE DEF d, k
  <2>3. /\ d \in Seq(Entry) /\ Len(d) = Len(feed) - 1
        /\ \A j \in 1..(Len(feed) - 1) : d[j] = IF j < k THEN feed[j] ELSE feed[j + 1]
    BY <1>1, <2>1, <2>2, Shortened
  <2>4. DOMAIN d = 1..(Len(feed) - 1)
    BY <2>3, LenProperties
  <2>5. \A i, j \in DOMAIN d : d[i] = d[j] => i = j
    BY SMTT(40), <1>1, <2>3, <2>4, <2>1 DEF Listed
  <2>6. \A j \in DOMAIN d : d[j] # e
    BY SMTT(40), <1>1, <2>3, <2>4, <2>1 DEF Listed
  <2>7. \A j \in DOMAIN d : \/ j \in DOMAIN feed /\ d[j] = feed[j]
                            \/ j + 1 \in DOMAIN feed /\ d[j] = feed[j + 1]
    BY <1>1, <2>3, <2>4, <2>1
  <2>8. \A j \in DOMAIN d : j < k => d[j] = feed[j]
    BY <1>1, <2>3, <2>4, <2>1
  <2> QED
    BY <2>3, <2>5, <2>6, <2>7, <2>8 DEF d, k
<1>3. CASE ~Feed!Contains(feed, e)
  <2>1. d = feed /\ k = 0
    BY <1>3, WhereItIs DEF Feed!Without
  <2>2. \A j \in DOMAIN feed : feed[j] # e
    BY <1>1, <1>3 DEF Feed!Contains
  <2> QED
    BY <1>1, <2>1, <2>2 DEF Listed
<1> QED
  BY <1>2, <1>3

Excused == tool = "mark_read" /\ target \in Bare

\* A walk that reads on has the target still to come, if the target stood still; a walk
\* that gave up had been past every page it may read, or past the last entry, and news
\* only push the target further down.
WalkInv ==
    /\ Listed /\ target \in Entry /\ flagged \in BOOLEAN /\ news \in 0..MaxNews
    /\ walker \in {"idle", "walking", "writing"} /\ tool \in {"mark_read", "get_attachment"}
    /\ page \in 0..MaxPages /\ moved \in BOOLEAN
    /\ lookup \in {"none", "ok", "missing", "failed"}
    /\ walker = "walking" => page < MaxPages
    /\ lookup = "missing" => walker = "idle"
    /\ walker = "walking" /\ ~moved => Excused \/ Unseen(page * PageSize)
    /\ lookup = "missing" /\ ~moved =>
          \/ Excused \/ Unseen(MaxPages * PageSize)
          \/ tool = "mark_read" /\ ~flagged /\ Unseen(PageSize)

LEMMA FeedBounds == /\ PageSize \in Nat \ {0} /\ MaxPages \in Nat \ {0} /\ MaxNews \in Nat
                    /\ IsFiniteSet(Entry) /\ Entry # {}
                    /\ \A p \in Nat : /\ p * PageSize \in Nat
                                      /\ (p + 1) * PageSize = p * PageSize + PageSize
<1>1. PageSize \in Nat \ {0} /\ MaxPages \in Nat \ {0} /\ MaxNews \in Nat
  BY ToolsAssumption DEF Feed!FeedAssumption
<1>2. IsFiniteSet(Entry) /\ Entry # {}
  BY ToolsAssumption DEF Feed!FeedAssumption, Feed!IsFiniteSet, IsFiniteSet
<1>3. ASSUME NEW p \in Nat
      PROVE  p * PageSize \in Nat /\ (p + 1) * PageSize = p * PageSize + PageSize
  BY <1>1
<1> QED
  BY <1>1, <1>2, <1>3

LEMMA FeedStart == ToolsInit => WalkInv
<1> SUFFICES ASSUME ToolsInit PROVE WalkInv
  OBVIOUS
<1>1. Feed!Init
  BY DEF ToolsInit
<1> DEFINE n == Cardinality(Entry)
<1>2. n \in Nat
  BY FeedBounds, FS_CardinalityType
<1>3. ExistsBijection(1..n, Entry)
  <2>1. PICK m \in Nat : ExistsBijection(1..m, Entry)
    BY FeedBounds, FS_NatBijection
  <2> QED
    BY <2>1, FS_CountingElements
<1>4. PICK f \in [1..n -> Entry] : \A a, b \in 1..n : f[a] = f[b] => a = b
  BY <1>3 DEF ExistsBijection, Bijection, Injection, IsInjective
<1>5. feed \in [1..n -> Entry] /\ \A a, b \in 1..n : feed[a] = feed[b] => a = b
  <2>1. feed = CHOOSE g \in [1..n -> Entry] : Feed!IsInjective(g)
    <3>1. Feed!Cardinality(Entry) = n
      BY DEF Feed!Cardinality, Cardinality
    <3>2. feed = CHOOSE g \in [1..Feed!Cardinality(Entry) -> Entry] : Feed!IsInjective(g)
      BY <1>1 DEF Feed!Init, Feed!SetToSeq
    <3> QED
      BY <3>1, <3>2
  <2>2. \A g \in [1..n -> Entry] :
          Feed!IsInjective(g) <=> \A a, b \in 1..n : g[a] = g[b] => a = b
    BY DEF Feed!IsInjective
  <2> HIDE DEF n
  <2> QED
    BY <1>4, <2>1, <2>2
<1>6. n # 0
  BY FeedBounds, FS_EmptySet
<1> HIDE DEF n
<1>7. Listed /\ feed[1] \in Entry
  BY <1>2, <1>5, <1>6 DEF Listed
<1>8. flagged \in BOOLEAN /\ moved \in BOOLEAN
  BY <1>1 DEF Feed!Init
<1> QED
  BY <1>1, <1>7, <1>8, FeedBounds DEF Feed!Init, WalkInv

\* Whatever happens to the feed without moving the target does not bring it nearer.
LEMMA NotNearer ==
  ASSUME Listed, target \in Entry, moved \in BOOLEAN, NEW e \in Entry,
         Feed!News(e) \/ Feed!Deleted(e)
  PROVE  /\ Listed'
         /\ ~moved' => ~moved /\ \A n \in Nat : Unseen(n) => Unseen(n)'
<1> DEFINE d == Feed!Without(e)
<1>1. /\ d \in Seq(Entry) /\ \A i, j \in DOMAIN d : d[i] = d[j] => i = j
      /\ \A j \in DOMAIN d :
            /\ d[j] # e
            /\ \/ j \in DOMAIN feed /\ d[j] = feed[j]
               \/ j + 1 \in DOMAIN feed /\ d[j] = feed[j + 1]
            /\ j < Feed!Position(e) => d[j] = feed[j]
  BY WithoutOne
<1>2. /\ DOMAIN feed = 1..Len(feed) /\ Len(feed) \in Nat
      /\ DOMAIN d = 1..Len(d) /\ Len(d) \in Nat
  BY <1>1, LenProperties DEF Listed
<1> HIDE DEF d
<1>3. CASE Feed!News(e)
  <2>1. feed' = <<e>> \o d /\ moved' = (moved \/ e = target) /\ target' = target
    BY <1>3 DEF Feed!News, d
  <2>2. <<e>> \in Seq(Entry) /\ Len(<<e>>) = 1 /\ <<e>>[1] = e
    OBVIOUS
  <2>3. /\ feed' \in Seq(Entry) /\ Len(feed') = 1 + Len(d)
        /\ \A i \in 1..(1 + Len(d)) : feed'[i] = IF i <= 1 THEN <<e>>[i] ELSE d[i - 1]
    BY <1>1, <2>1, <2>2, ConcatProperties
  <2>4. /\ DOMAIN feed' = 1..(1 + Len(d)) /\ feed'[1] = e
        /\ \A i \in 2..(1 + Len(d)) : feed'[i] = d[i - 1] /\ i - 1 \in DOMAIN d
    <3>1. DOMAIN feed' = 1..(1 + Len(d))
      BY <2>3, LenProperties
    <3>2. feed'[1] = e
      BY <1>2, <2>2, <2>3
    <3>3. ASSUME NEW i \in 2..(1 + Len(d)) PROVE feed'[i] = d[i - 1] /\ i - 1 \in DOMAIN d
      BY <1>2, <2>3
    <3> QED
      BY <3>1, <3>2, <3>3
  <2>5. Listed'
    <3>1. ASSUME NEW i \in DOMAIN feed', NEW j \in DOMAIN feed', feed'[i] = feed'[j]
          PROVE  i = j
      <4>1. CASE i = 1 /\ j = 1
        BY <4>1
      <4>2. CASE i # 1 /\ j # 1
        <5>1. /\ i - 1 \in DOMAIN d /\ feed'[i] = d[i - 1]
              /\ j - 1 \in DOMAIN d /\ feed'[j] = d[j - 1]
          BY <1>2, <2>4, <4>2
        <5>2. i - 1 = j - 1
          BY <1>1, <3>1, <5>1
        <5> QED
          BY <2>4, <5>2
      <4>3. CASE i # 1 /\ j = 1
        BY <1>1, <1>2, <2>4, <3>1, <4>3
      <4>4. CASE i = 1 /\ j # 1
        <5>1. j \in 2..(1 + Len(d))
          BY <1>2, <2>4, <4>4
        <5>2. j - 1 \in DOMAIN d /\ feed'[j] = d[j - 1]
          BY <2>4, <5>1
        <5>3. feed'[j] # e
          BY <1>1, <5>2
        <5> QED
          BY <2>4, <3>1, <4>4, <5>3
      <4> QED
        BY <4>1, <4>2, <4>3, <4>4
    <3> QED
      BY <2>3, <3>1 DEF Listed
  <2>6. ASSUME ~moved', NEW n \in Nat, Unseen(n), NEW i \in DOMAIN feed', i <= n
        PROVE  feed'[i] # target'
    <3>1. CASE i = 1
      BY <2>1, <2>4, <2>6, <3>1
    <3>2. CASE i # 1
      <4>1. i \in 2..(1 + Len(d)) /\ i - 1 \in DOMAIN d /\ feed'[i] = d[i - 1]
        BY <1>2, <2>4, <3>2
      <4>2. CASE i - 1 \in DOMAIN feed /\ d[i - 1] = feed[i - 1]
        BY <1>2, <2>1, <2>6, <4>1, <4>2 DEF Unseen
      <4>3. CASE i \in DOMAIN feed /\ d[i - 1] = feed[i]
        BY <2>1, <2>6, <4>1, <4>3 DEF Unseen
      <4> QED
        BY <1>1, <1>2, <4>1, <4>2, <4>3
    <3> QED
      BY <3>1, <3>2
  <2> QED
    BY <2>1, <2>5, <2>6 DEF Unseen
<1>4. CASE Feed!Deleted(e)
  <2>1. /\ feed' = d /\ target' = target
        /\ moved' = (moved \/ Feed!Position(e) <= Feed!Position(target))
    BY <1>4 DEF Feed!Deleted, d
  <2>2. Listed'
    BY <1>1, <2>1 DEF Listed
  <2>3. ASSUME ~moved', NEW n \in Nat, Unseen(n), NEW i \in DOMAIN feed', i <= n
        PROVE  feed'[i] # target'
    <3>1. i \in DOMAIN d /\ feed'[i] = d[i]
      BY <2>1
    <3>2. Feed!Position(target) < Feed!Position(e)
      <4>1. ~(Feed!Position(e) <= Feed!Position(target))
        BY <2>1, <2>3
      <4>2. Feed!Position(e) \in 0..Len(feed) /\ Feed!Position(target) \in 0..Len(feed)
        BY WhereItIs
      <4> QED
        BY <1>2, <4>1, <4>2
    <3>3. CASE i \in DOMAIN feed /\ d[i] = feed[i]
      BY <2>1, <2>3, <3>1, <3>3 DEF Unseen
    <3>4. CASE i + 1 \in DOMAIN feed /\ d[i] = feed[i + 1]
      <4>1. ASSUME d[i] = target PROVE FALSE
        <5>1. Feed!Position(target) = i + 1
          BY <3>4, <4>1, WhereItIs
        <5>2. d[i] = feed[i] /\ i \in DOMAIN feed
          BY <1>1, <1>2, <3>1, <3>2, <3>4, <5>1, WhereItIs
        <5> QED
          BY <2>3, <4>1, <5>2 DEF Unseen
      <4> QED
        BY <2>1, <3>1, <4>1
    <3> QED
      BY <1>1, <3>1, <3>3, <3>4
  <2> QED
    BY <2>1, <2>2, <2>3 DEF Unseen
<1> QED
  BY <1>3, <1>4

LEMMA PageWithoutIt ==
  ASSUME Listed, NEW p \in Nat, Unseen(p * PageSize), ~Feed!Contains(Feed!OnPage(p), target)
  PROVE  /\ Unseen((p + 1) * PageSize)
         /\ Feed!OnPage(p) = <<>> => \A n \in Nat : Unseen(n)
<1> DEFINE a == p * PageSize
           b == (p + 1) * PageSize
           s == Feed!OnPage(p)
<1>1. a \in Nat /\ b \in Nat /\ a < b
  BY FeedBounds
<1>2. /\ b < Len(feed) => s = SubSeq(feed, a + 1, b)
      /\ ~(b < Len(feed)) => s = SubSeq(feed, a + 1, Len(feed))
  BY DEF Feed!OnPage
<1>0. Len(feed) \in Nat
  BY LenProperties DEF Listed
<1>3. DOMAIN feed = 1..Len(feed) /\ Len(feed) \in Nat
  BY LenProperties DEF Listed
<1>4. Unseen(a) /\ ~Feed!Contains(s, target)
  OBVIOUS
<1> HIDE DEF a, b, s
<1>5. PICK m \in Nat : /\ m <= Len(feed) /\ m <= b
                       /\ m = b \/ m = Len(feed)
                       /\ s = SubSeq(feed, a + 1, m)
  <2>1. CASE b < Len(feed)
    BY <1>0, <1>1, <1>2, <2>1
  <2>2. CASE ~(b < Len(feed))
    BY <1>0, <1>1, <1>2, <2>2
  <2> QED
    BY <2>1, <2>2
<1>m. m <= Len(feed) /\ m <= b /\ (m = b \/ m = Len(feed))
  BY <1>5
<1>6. \A i \in (a + 1)..m : feed[i] \in Entry
  <2>1. \A i \in 1..Len(feed) : feed[i] \in Entry
    BY <1>3 DEF Listed
  <2>2. (a + 1)..m \subseteq 1..Len(feed)
    BY <1>0, <1>1, <1>m
  <2> QED
    BY <2>1, <2>2
<1>7. /\ Len(s) = IF a + 1 <= m THEN m - (a + 1) + 1 ELSE 0
      /\ \A i \in 1..(m - (a + 1) + 1) : s[i] = feed[(a + 1) + i - 1]
  BY <1>1, <1>5, <1>6, SubSeqProperties
<1>8. ASSUME NEW i \in DOMAIN feed, i <= b PROVE feed[i] # target
  <2>1. CASE i <= a
    BY <1>4, <2>1 DEF Unseen
  <2>2. CASE i > a
    <3>0. i \in Nat /\ i <= Len(feed)
      BY <1>3
    <3>1. i \in Nat /\ i <= m
      BY <1>0, <1>1, <1>m, <1>8, <3>0
    <3>2. i - a \in 1..Len(s) /\ i - a \in 1..(m - (a + 1) + 1)
      BY <1>1, <1>7, <2>2, <3>1
    <3>3. s[i - a] = feed[i]
      <4>1. s[i - a] = feed[(a + 1) + (i - a) - 1]
        BY <1>7, <3>2
      <4>2. (a + 1) + (i - a) - 1 = i
        BY <1>1, <3>1
      <4> QED
        BY <4>1, <4>2
    <3>4. s[i - a] # target
      BY <1>4, <3>2 DEF Feed!Contains
    <3> QED
      BY <3>3, <3>4
  <2> QED
    BY <1>1, <1>3, <2>1, <2>2
<1>9. ASSUME s = <<>>, NEW n \in Nat PROVE Unseen(n)
  <2>1. ~(a + 1 <= m)
    <3>1. Len(s) = 0
      BY <1>9
    <3> QED
      BY <1>1, <1>5, <1>7, <3>1
  <2>2. Len(feed) <= a
    BY <1>0, <1>1, <1>m, <2>1
  <2> QED
    BY <1>1, <1>3, <1>4, <2>2 DEF Unseen
<1>10. Unseen(b)
  BY <1>8 DEF Unseen
<1> QED
  BY <1>9, <1>10 DEF b, s

LEMMA WalkKept == WalkInv /\ [Feed!Next]_feedVars => WalkInv'
<1> SUFFICES ASSUME WalkInv, [Feed!Next]_feedVars PROVE WalkInv'
  OBVIOUS
<1>1. ASSUME NEW t \in {"mark_read", "get_attachment"}, NEW e \in Entry, Feed!Call(t, e)
      PROVE  WalkInv'
  <2>1. /\ UNCHANGED <<feed, flagged, news>> /\ target' = e /\ tool' = t /\ page' = 0
        /\ moved' = FALSE /\ lookup' = "none" /\ walker' = "walking"
    BY <1>1 DEF Feed!Call, Feed!aula
  <2>2. page' * PageSize = 0 /\ 0 < MaxPages
    BY <2>1, FeedBounds
  <2>3. Unseen(0)'
    BY <2>1, LenProperties DEF WalkInv, Listed, Unseen
  <2>4. Unseen(page * PageSize)'
    BY <2>2, <2>3
  <2>5. Listed'
    BY <2>1 DEF WalkInv, Listed
  <2>6. MaxPages \in Nat
    BY FeedBounds
  <2>7. flagged' \in BOOLEAN /\ moved' \in BOOLEAN /\ news' \in 0..MaxNews
    BY <2>1 DEF WalkInv
  <2> QED
    BY <2>1, <2>2, <2>4, <2>5, <2>6, <2>7 DEF WalkInv
<1>2. CASE Feed!PageRead
  <2> USE DEF WalkInv
  <2>1. /\ walker = "walking" /\ page' = page + 1 /\ page < MaxPages
        /\ UNCHANGED <<feed, flagged, news, tool, target, moved>>
    BY <1>2 DEF Feed!PageRead, Feed!aula
  <2>2. page' \in 0..MaxPages /\ page \in Nat
    BY <2>1, FeedBounds
  <2>3. Listed' /\ (\A n \in Nat : Unseen(n)' <=> Unseen(n)) /\ (Excused' <=> Excused)
    BY <2>1 DEF Listed, Unseen, Excused
  <2>4. ASSUME ~Feed!Finds(page), ~moved, ~Excused
        PROVE  /\ Unseen((page + 1) * PageSize)
               /\ Feed!OnPage(page) = <<>> => \A n \in Nat : Unseen(n)
    <3>1. ~Feed!Contains(Feed!OnPage(page), target)
      BY <2>4 DEF Feed!Finds, Excused
    <3> QED
      BY <2>1, <2>2, <2>4, <3>1, PageWithoutIt
  <2>5. CASE Feed!Finds(page)
    <3>1. walker' \in {"writing", "idle"} /\ lookup' \in {"none", "ok"}
      BY <1>2, <2>5 DEF Feed!PageRead
    <3>2. ~moved' /\ walker' = "walking" => Excused' \/ Unseen(page * PageSize)'
      BY <3>1
    <3> QED
      BY <2>1, <2>2, <2>3, <3>1, <3>2
  <2>6. CASE ~Feed!Finds(page) /\ ~Feed!LastPage(page) /\ page + 1 < MaxPages
    <3>1. UNCHANGED <<walker, lookup>>
      BY <1>2, <2>6 DEF Feed!PageRead
    <3>2. ~moved' => Excused' \/ Unseen(page * PageSize)'
      <4>1. page' * PageSize \in Nat
        BY <2>1, <2>2, FeedBounds
      <4>2. ~moved /\ ~Excused => Unseen(page' * PageSize)
        BY <2>1, <2>4, <2>6
      <4> QED
        BY <2>1, <2>3, <4>1, <4>2 DEF Unseen
    <3> QED
      BY <2>1, <2>2, <2>3, <2>6, <3>1, <3>2
  <2>7. CASE ~Feed!Finds(page) /\ (Feed!LastPage(page) \/ page + 1 = MaxPages)
    <3>1. walker' = "idle" /\ lookup' = "missing"
      BY <1>2, <2>1, <2>2, <2>7, FeedBounds DEF Feed!PageRead
    <3>2. ASSUME ~moved, ~Excused
          PROVE  Unseen(MaxPages * PageSize) \/ (tool = "mark_read" /\ ~flagged /\ Unseen(PageSize))
      <4> DEFINE b == (page + 1) * PageSize
      <4>1. Unseen(b) /\ (Feed!OnPage(page) = <<>> => \A n \in Nat : Unseen(n))
        BY <2>4, <2>7, <3>2
      <4>2. b \in Nat /\ PageSize <= b /\ MaxPages * PageSize \in Nat
        BY <2>2, FeedBounds
      <4>3. ASSUME ~Feed!MorePages(page) PROVE Unseen(MaxPages * PageSize)
        <5>1. ~(Len(feed) > b)
          BY <4>3 DEF Feed!MorePages
        <5> HIDE DEF b
        <5>2. DOMAIN feed = 1..Len(feed) /\ Len(feed) \in Nat
          BY LenProperties DEF Listed
        <5>3. \A i \in DOMAIN feed : i <= b
          BY <4>2, <5>1, <5>2
        <5> QED
          BY <4>1, <5>3 DEF Unseen
      <4>4. CASE page + 1 = MaxPages
        BY <4>1, <4>4
      <4> HIDE DEF b
      <4>5. CASE Feed!LastPage(page) /\ tool = "mark_read"
        <5>1. CASE ~flagged
          <6>1. Unseen(PageSize)
            BY <4>1, <4>2, FeedBounds, LenProperties DEF Unseen, Listed
          <6> QED
            BY <4>5, <5>1, <6>1
        <5>2. CASE flagged
          BY <4>3, <4>5, <5>2 DEF Feed!LastPage
        <5> QED
          BY <5>1, <5>2
      <4>6. CASE Feed!LastPage(page) /\ tool = "get_attachment"
        BY <4>1, <4>2, <4>3, <4>6 DEF Feed!LastPage
      <4> QED
        BY <2>7, <4>4, <4>5, <4>6
    <3>3. MaxPages * PageSize \in Nat /\ PageSize \in Nat
      BY FeedBounds
    <3>4. ~moved' => \/ Excused' \/ Unseen(MaxPages * PageSize)'
                     \/ tool' = "mark_read" /\ ~flagged' /\ Unseen(PageSize)'
      BY <2>1, <2>3, <3>2, <3>3
    <3> QED
      BY <2>1, <2>2, <2>3, <3>1, <3>4
  <2> QED
    BY <1>2, <2>5, <2>6, <2>7 DEF Feed!PageRead
<1>3. CASE Feed!MarkerSet \/ Feed!Throws
  <2>1. /\ UNCHANGED <<feed, flagged, news, tool, target, page, moved>>
        /\ walker' = "idle" /\ lookup' \in {"ok", "failed"}
    BY <1>3 DEF Feed!MarkerSet, Feed!Throws, Feed!aula
  <2> QED
    BY <2>1 DEF WalkInv, Listed
<1>4. ASSUME NEW e \in Entry, Feed!News(e) \/ Feed!Deleted(e) PROVE WalkInv'
  <2>1. /\ UNCHANGED <<flagged, walker, tool, target, page, lookup>>
        /\ news' \in 0..MaxNews /\ moved' \in BOOLEAN
    <3>1. CASE Feed!News(e)
      BY <3>1, FeedBounds DEF Feed!News, WalkInv
    <3>2. CASE Feed!Deleted(e)
      BY <3>2 DEF Feed!Deleted, WalkInv
    <3> QED
      BY <1>4, <3>1, <3>2
  <2>2. /\ Listed'
        /\ ~moved' => ~moved /\ \A n \in Nat : Unseen(n) => Unseen(n)'
    BY <1>4, NotNearer DEF WalkInv
  <2>3. /\ page * PageSize \in Nat /\ MaxPages * PageSize \in Nat /\ PageSize \in Nat
        /\ page' * PageSize = page * PageSize
    BY <2>1, FeedBounds DEF WalkInv
  <2>4. walker' = "walking" /\ ~moved' => Excused' \/ Unseen(page * PageSize)'
    BY <2>1, <2>2, <2>3 DEF WalkInv, Excused, Unseen
  <2>5. lookup' = "missing" /\ ~moved' =>
          \/ Excused' \/ Unseen(MaxPages * PageSize)'
          \/ tool' = "mark_read" /\ ~flagged' /\ Unseen(PageSize)'
    BY <2>1, <2>2, <2>3 DEF WalkInv, Excused
  <2> QED
    BY <2>1, <2>2, <2>4, <2>5 DEF WalkInv
<1>5. CASE UNCHANGED feedVars
  BY <1>5 DEF feedVars, WalkInv, Listed, Unseen, Excused
<1> QED
  BY <1>1, <1>2, <1>3, <1>4, <1>5 DEF Feed!Next, Feed!Serve

\* For feeds and pages of any size: a walk over the pages that comes away empty-handed
\* missed nothing that stood still, whatever news came in between (tools.ts:607-637,
\* 1133-1155).
THEOREM WalksMissNothing == ToolsSpec => []MissIsExplained
<1>1. ASSUME WalkInv PROVE MissIsExplained
  <2> DEFINE q == Feed!Position(target)
  <2>1. Listed /\ target \in Entry
    BY <1>1 DEF WalkInv
  <2>2. q \in 0..Len(feed) /\ (q # 0 => feed[q] = target)
    BY <2>1, WhereItIs
  <2>3. DOMAIN feed = 1..Len(feed) /\ Len(feed) \in Nat
    BY <2>1, LenProperties DEF Listed
  <2>4. ASSUME NEW n \in Nat, Unseen(n) PROVE q = 0 \/ q > n
    BY <2>2, <2>3, <2>4 DEF Unseen
  <2>5. MaxPages * PageSize \in Nat /\ PageSize \in Nat
    BY FeedBounds
  <2> HIDE DEF q
  <2>6. lookup = "missing" /\ ~moved =>
          \/ q = 0 \/ q > MaxPages * PageSize
          \/ tool = "mark_read" /\ (target \in Bare \/ (~flagged /\ q > PageSize))
    BY <1>1, <2>4, <2>5 DEF WalkInv, Excused
  <2> QED
    BY <2>6 DEF MissIsExplained, Feed!MissIsExplained, q
<1> QED
  BY <1>1, FeedStart, WalkKept, ToolSteps, PTL DEF ToolsSpec

-----------------------------------------------------------------------------
(* The order of a handler's awaits                                          *)

Awaits == {"client", "prime", "widgets", "get", "feed", "post", "context", "local"}

\* What is left of a handler asks of the session only once it has a client (or `taken`),
\* and reads a feed only once the session is primed (or `ready`).
Fit(s, taken, ready) == \A i \in DOMAIN s :
    /\ s[i] \in {"feed", "post", "context"} => taken \/ \E j \in 1..(i - 1) : s[j] = "client"
    /\ s[i] = "feed" => ready \/ \E j \in 1..(i - 1) : s[j] = "prime"
Opened(s) == /\ \E j \in DOMAIN s : s[j] = "client"
             /\ \E j \in DOMAIN s : s[j] = "prime"

\* One await done.
LEMMA Onward ==
  ASSUME NEW s \in Seq(Awaits), s # <<>>, NEW taken \in BOOLEAN, NEW ready \in BOOLEAN,
         Fit(s, taken, ready)
  PROVE  /\ Tail(s) \in Seq(Awaits)
         /\ Fit(Tail(s), taken \/ Head(s) = "client", ready \/ Head(s) = "prime")
         /\ Head(s) \in {"feed", "post", "context"} => taken
         /\ Head(s) = "feed" => ready
<1> DEFINE t == Tail(s)
<1>1. DOMAIN s = 1..Len(s) /\ Len(s) \in Nat \ {0} /\ Head(s) = s[1]
  <2>1. Len(s) \in Nat /\ DOMAIN s = 1..Len(s) /\ Len(s) # 0
    BY LenProperties, EmptySeq
  <2> QED
    BY <2>1
<1>2. t \in Seq(Awaits) /\ Len(t) = Len(s) - 1 /\ \A i \in 1..Len(t) : t[i] = s[i + 1]
  BY HeadTailProperties
<1>3. DOMAIN t = 1..(Len(s) - 1)
  BY <1>2, LenProperties
<1> HIDE DEF t
<1>4. ASSUME NEW i \in DOMAIN t
      PROVE  /\ i + 1 \in DOMAIN s /\ t[i] = s[i + 1]
             /\ \A j \in 1..i : j = 1 \/ (j - 1 \in 1..(i - 1) /\ s[j] = t[j - 1])
  BY <1>1, <1>2, <1>3
<1>5. ASSUME NEW i \in DOMAIN t, t[i] \in {"feed", "post", "context"}
      PROVE  (taken \/ Head(s) = "client") \/ \E j \in 1..(i - 1) : t[j] = "client"
  <2>1. taken \/ \E j \in 1..i : s[j] = "client"
    BY <1>1, <1>3, <1>4, <1>5 DEF Fit
  <2> QED
    BY <1>1, <1>4, <2>1
<1>6. ASSUME NEW i \in DOMAIN t, t[i] = "feed"
      PROVE  (ready \/ Head(s) = "prime") \/ \E j \in 1..(i - 1) : t[j] = "prime"
  <2>1. ready \/ \E j \in 1..i : s[j] = "prime"
    BY <1>1, <1>3, <1>4, <1>6 DEF Fit
  <2> QED
    BY <1>1, <1>4, <2>1
<1>7. /\ Head(s) \in {"feed", "post", "context"} => taken
      /\ Head(s) = "feed" => ready
  BY <1>1 DEF Fit
<1>8. Fit(t, taken \/ Head(s) = "client", ready \/ Head(s) = "prime")
  BY <1>5, <1>6 DEF Fit
<1> QED
  BY <1>2, <1>7, <1>8 DEF t

\* Two stretches of a handler.
LEMMA Joined ==
  ASSUME NEW s \in Seq(Awaits), NEW t \in Seq(Awaits), Fit(s, FALSE, FALSE),
         Fit(t, FALSE, FALSE) \/ Opened(s)
  PROVE  /\ s \o t \in Seq(Awaits) /\ Fit(s \o t, FALSE, FALSE)
         /\ Opened(s) => Opened(s \o t)
<1> DEFINE u == s \o t
<1>1. /\ DOMAIN s = 1..Len(s) /\ Len(s) \in Nat
      /\ DOMAIN t = 1..Len(t) /\ Len(t) \in Nat
  BY LenProperties
<1>2. /\ u \in Seq(Awaits) /\ Len(u) = Len(s) + Len(t)
      /\ \A i \in 1..(Len(s) + Len(t)) : u[i] = IF i <= Len(s) THEN s[i] ELSE t[i - Len(s)]
  BY ConcatProperties
<1>3. DOMAIN u = 1..(Len(s) + Len(t))
  BY <1>2, LenProperties
<1> HIDE DEF u
<1>4. \A i \in DOMAIN s : i \in DOMAIN u /\ u[i] = s[i]
  BY <1>1, <1>2, <1>3
<1>5. \A i \in DOMAIN t : Len(s) + i \in DOMAIN u /\ u[Len(s) + i] = t[i]
  BY <1>1, <1>2, <1>3
<1>6. Opened(s) => Opened(u)
  BY <1>4 DEF Opened
<1>7. ASSUME NEW i \in DOMAIN u, NEW x \in {"client", "prime"},
             \/ i \in DOMAIN s /\ \E j \in 1..(i - 1) : s[j] = x
             \/ i \notin DOMAIN s /\ \E j \in DOMAIN s : s[j] = x
             \/ i - Len(s) \in DOMAIN t /\ \E j \in 1..(i - Len(s) - 1) : t[j] = x
      PROVE  \E j \in 1..(i - 1) : u[j] = x
  <2>1. CASE i \in DOMAIN s /\ \E j \in 1..(i - 1) : s[j] = x
    BY <1>1, <1>4, <2>1
  <2>2. CASE i \notin DOMAIN s /\ \E j \in DOMAIN s : s[j] = x
    BY <1>1, <1>3, <1>4, <2>2
  <2>3. CASE i - Len(s) \in DOMAIN t /\ \E j \in 1..(i - Len(s) - 1) : t[j] = x
    <3>1. PICK j \in 1..(i - Len(s) - 1) : t[j] = x
      BY <2>3
    <3>2. j \in DOMAIN t /\ Len(s) + j \in 1..(i - 1)
      BY <1>1, <1>3, <2>3, <3>1
    <3> QED
      BY <1>5, <3>1, <3>2
  <2> QED
    BY <1>7, <2>1, <2>2, <2>3
<1>8. ASSUME NEW i \in DOMAIN u
      PROVE  /\ u[i] \in {"feed", "post", "context"} => \E j \in 1..(i - 1) : u[j] = "client"
             /\ u[i] = "feed" => \E j \in 1..(i - 1) : u[j] = "prime"
  <2>1. CASE i \in DOMAIN s
    BY <1>4, <1>7, <2>1 DEF Fit
  <2>2. CASE i \notin DOMAIN s
    <3>1. i - Len(s) \in DOMAIN t /\ u[i] = t[i - Len(s)]
      BY <1>1, <1>2, <1>3, <2>2
    <3>2. CASE Opened(s)
      BY <1>7, <2>2, <3>2 DEF Opened
    <3>3. CASE Fit(t, FALSE, FALSE)
      BY <1>7, <3>1, <3>3 DEF Fit
    <3> QED
      BY <3>2, <3>3
  <2> QED
    BY <2>1, <2>2
<1>9. Fit(u, FALSE, FALSE)
  BY <1>8 DEF Fit
<1> QED
  BY <1>2, <1>6, <1>9 DEF u

\* Every handler takes a client before it asks, and primes before it reads a feed.
LEMMA HandlersFit == \A h \in Calls!Handlers : h \in Seq(Awaits) /\ Fit(h, FALSE, FALSE)
<1> DEFINE Fine(h) == h \in Seq(Awaits) /\ Fit(h, FALSE, FALSE)
<1> USE DEF Awaits, Fit
<1>1. Fine(<<>>) /\ Fine(<<"local">>) /\ Fine(<<"local", "local">>)
  OBVIOUS
<1>2. Fine(<<"client", "get">>) /\ Fine(<<"client", "post">>)
  OBVIOUS
<1>3. Fine(<<"client", "get", "context">>) /\ Fine(<<"client", "get", "get">>)
  OBVIOUS
<1>4. Fine(<<"client", "get", "post">>) /\ Fine(<<"client", "get", "get", "post">>)
  OBVIOUS
<1>5. Fine(<<"client", "prime", "post">>) /\ Fine(<<"client", "prime", "feed">>)
  OBVIOUS
<1>6. Fine(<<"client", "prime", "feed", "post">>) /\ Fine(<<"client", "prime", "feed", "local">>)
  OBVIOUS
<1>7. Fine(<<"client", "prime", "get", "feed">>)
  OBVIOUS
<1>8. /\ Fine(<<"client", "prime", "get">>) /\ Fine(<<"widgets">>)
      /\ Fine(<<"client", "prime">>) /\ Opened(<<"client", "prime">>)
  BY DEF Opened
<1>9. /\ <<"feed">> \in Seq(Awaits) /\ <<"get">> \in Seq(Awaits)
      /\ <<"feed", "local">> \in Seq(Awaits)
  OBVIOUS
<1>10. ASSUME NEW h \in Calls!PostAttachment PROVE Fine(h)
  <2>1. PICK family \in {<<>>, <<"get">>}, feeds \in {<<"feed">>, <<"feed", "local">>} :
          h = <<"client", "prime">> \o family \o feeds
    BY <1>10 DEF Calls!PostAttachment
  <2>2. family \in Seq(Awaits) /\ feeds \in Seq(Awaits)
    BY <1>1, <1>9, <2>1
  <2> HIDE DEF Awaits, Fit
  <2>3. Fine(<<"client", "prime">> \o family) /\ Opened(<<"client", "prime">> \o family)
    BY <1>8, <2>2, Joined
  <2>4. Fine((<<"client", "prime">> \o family) \o feeds)
    BY <2>2, <2>3, Joined
  <2> QED
    BY <2>1, <2>4
<1>11. ASSUME NEW h \in Calls!Integration PROVE Fine(h)
  <2>1. h = <<"widgets">> \o <<"client", "prime", "get">> \o <<"local">>
    BY <1>11 DEF Calls!Integration, Calls!IntegrationCtx
  <2> HIDE DEF Awaits, Fit
  <2>2. Fine(<<"widgets">> \o <<"client", "prime", "get">>)
    BY <1>8, Joined
  <2>3. Fine((<<"widgets">> \o <<"client", "prime", "get">>) \o <<"local">>)
    BY <1>1, <2>2, Joined
  <2> QED
    BY <2>1, <2>3
<1> HIDE DEF Fine
<1>12. ASSUME NEW h \in Calls!Discover \cup Calls!ProfilesList \cup Calls!PresenceToday
                    \cup Calls!PresenceTemplates \cup Calls!SetTemplate \cup Calls!ReportSick
       PROVE  Fine(h)
  BY <1>1, <1>2, <1>3, <1>4 DEF Calls!Discover, Calls!ProfilesList, Calls!PresenceToday,
     Calls!PresenceTemplates, Calls!SetTemplate, Calls!ReportSick
<1>13. ASSUME NEW h \in Calls!MarkRead \cup Calls!CalendarEvents \cup Calls!Notifications
                    \cup Calls!ListPosts \cup Calls!RawRequest \cup Calls!ListThreads
                    \cup Calls!GetThread \cup Calls!GetAttachment \cup Calls!ExtractPdf
       PROVE  Fine(h)
  BY <1>1, <1>2, <1>5, <1>6, <1>7 DEF Calls!MarkRead, Calls!CalendarEvents,
     Calls!Notifications, Calls!ListPosts, Calls!RawRequest, Calls!ListThreads,
     Calls!GetThread, Calls!GetAttachment, Calls!ExtractPdf
<1>14. \A h \in Calls!Handlers : Fine(h)
  BY <1>10, <1>11, <1>12, <1>13 DEF Calls!Handlers
<1> QED
  BY <1>14 DEF Fine

\* A memoised guardian id is one whose session is primed; a call that asks for it is at
\* that await; what is left of every handler fits what the call and the session have; and
\* while the context is fresh nothing it memoised, asks or holds is of older tokens.
Ready(c) == c \in settled => current \in primed
Recent == /\ fresh => memo \in {0, current} /\ \A c \in ToolCall : asking[c] \in {0, current}
          /\ settled # {} => fresh
          /\ \A c \in settled : holds[c] \in {0, current}
CallInv ==
    /\ Calls!TypeOK
    /\ memo # 0 => memo \in primed
    /\ Recent
    /\ \A c \in ToolCall : /\ asking[c] # 0 => Calls!At(c, {"prime"})
                           /\ Fit(todo[c], holds[c] # 0, Ready(c))

LEMMA CallStart == ToolsInit => CallInv
<1> SUFFICES ASSUME ToolsInit PROVE CallInv
  OBVIOUS
<1>1. Calls!Init
  BY DEF ToolsInit
<1>2. MaxRotations \in Nat
  BY ToolsAssumption DEF Calls!ToolCallsAssumption
<1>3. todo \in [ToolCall -> Seq(Awaits)]
  BY <1>1, EmptySeq DEF Calls!Init
<1>4. Calls!TypeOK /\ Recent
  BY <1>1, <1>2, <1>3 DEF Calls!Init, Calls!TypeOK, Awaits, Recent
<1>5. \A c \in ToolCall : asking[c] = 0 /\ Fit(todo[c], holds[c] # 0, Ready(c))
  BY <1>1 DEF Calls!Init, Fit
<1> QED
  BY <1>1, <1>4, <1>5 DEF CallInv, Calls!Init

\* A call that does its next await still fits, if what that await is for was done.
LEMMA StillFits ==
  ASSUME CallInv, NEW c \in ToolCall, todo[c] # <<>>, Calls!Done(c),
         holds' \in [ToolCall -> Nat],
         \A d \in ToolCall \ {c} : holds'[d] = holds[d],
         holds[c] # 0 \/ Head(todo[c]) = "client" => holds'[c] # 0,
         UNCHANGED <<current, settled>>, primed \subseteq primed',
         Head(todo[c]) = "prime" => Ready(c)'
  PROVE  /\ todo' \in [ToolCall -> Seq(Awaits)]
         /\ \A d \in ToolCall : Fit(todo[d], holds[d] # 0, Ready(d))'
<1> DEFINE s == todo[c]
           taken == holds[c] # 0
<1>1. todo \in [ToolCall -> Seq(Awaits)]
  BY DEF CallInv, Calls!TypeOK, Awaits
<1>2. todo' = [todo EXCEPT ![c] = Tail(s)]
  BY DEF Calls!Done
<1>3. s \in Seq(Awaits) /\ s # <<>> /\ Fit(s, taken, Ready(c)) /\ Ready(c) \in BOOLEAN
  BY <1>1 DEF CallInv, Ready
<1> HIDE DEF s
<1>4. /\ Tail(s) \in Seq(Awaits)
      /\ Fit(Tail(s), taken \/ Head(s) = "client", Ready(c) \/ Head(s) = "prime")
  BY <1>3, Onward DEF Ready
<1>5. todo' \in [ToolCall -> Seq(Awaits)]
  BY <1>1, <1>2, <1>4
<1>6. \A d \in ToolCall : Ready(d) => Ready(d)'
  BY DEF Ready
<1>7. Fit(Tail(s), holds'[c] # 0, Ready(c)')
  BY <1>4, <1>6 DEF Fit, s
<1>8. todo'[c] = Tail(s) /\ \A d \in ToolCall \ {c} : todo'[d] = todo[d]
  BY <1>1, <1>2
<1>9. ASSUME NEW d \in ToolCall \ {c} PROVE Fit(todo'[d], holds'[d] # 0, Ready(d)')
  <2>1. Fit(todo[d], holds[d] # 0, Ready(d))
    BY DEF CallInv
  <2>2. todo'[d] = todo[d] /\ holds'[d] = holds[d]
    BY <1>8
  <2> QED
    BY <1>6, <2>1, <2>2 DEF Fit
<1> QED
  BY <1>5, <1>7, <1>8, <1>9

LEMMA CallKept == CallInv /\ [Calls!Next]_callVars => CallInv'
<1> SUFFICES ASSUME CallInv, [Calls!Next]_callVars PROVE CallInv'
  OBVIOUS
<1>0. /\ current \in 1..MaxRotations + 1 /\ memo \in 0..current
      /\ primed \subseteq 1..current
      /\ todo \in [ToolCall -> Seq(Awaits)]
      /\ holds \in [ToolCall -> 0..current] /\ asking \in [ToolCall -> 0..current]
      /\ fresh \in BOOLEAN /\ settled \subseteq ToolCall
      /\ MaxRotations \in Nat
  BY ToolsAssumption DEF CallInv, Calls!TypeOK, Awaits, Calls!ToolCallsAssumption
<1>k. /\ memo # 0 => memo \in primed
      /\ \A c \in ToolCall : /\ asking[c] # 0 => todo[c] # <<>> /\ Head(todo[c]) = "prime"
                             /\ Fit(todo[c], holds[c] # 0, Ready(c))
  BY DEF CallInv, Calls!At
<1>r. /\ fresh => memo \in {0, current} /\ \A c \in ToolCall : asking[c] \in {0, current}
      /\ settled # {} => fresh
      /\ \A c \in settled : holds[c] \in {0, current}
  BY DEF CallInv, Recent
<1>g. ASSUME /\ current' \in 1..MaxRotations + 1
             /\ memo' \in 0..current' /\ primed' \subseteq 1..current'
             /\ todo' \in [ToolCall -> Seq(Awaits)]
             /\ holds' \in [ToolCall -> 0..current'] /\ asking' \in [ToolCall -> 0..current']
             /\ fresh' \in BOOLEAN /\ settled' \subseteq ToolCall,
             memo' # 0 => memo' \in primed',
             Recent',
             \A c \in ToolCall :
                asking'[c] # 0 => todo'[c] # <<>> /\ Head(todo'[c]) = "prime",
             \A c \in ToolCall : Fit(todo'[c], holds'[c] # 0, Ready(c)')
      PROVE  CallInv'
  <2>1. Calls!TypeOK'
    BY <1>g DEF Calls!TypeOK, Awaits
  <2>2. \A c \in ToolCall : asking'[c] # 0 => Calls!At(c, {"prime"})'
    BY <1>g DEF Calls!At
  <2> QED
    BY <1>g, <2>1, <2>2 DEF CallInv
<1>1. ASSUME NEW c \in ToolCall, Calls!TakeClient(c) PROVE CallInv'
  <2>1. /\ todo[c] # <<>> /\ Head(todo[c]) = "client" /\ Calls!Done(c)
        /\ holds' = [holds EXCEPT ![c] = current]
        /\ UNCHANGED <<current, memo, primed, asking, fresh, settled>>
    BY <1>1 DEF Calls!TakeClient, Calls!At
  <2>2. holds' \in [ToolCall -> 0..current] /\ holds' \in [ToolCall -> Nat]
    BY <1>0, <2>1
  <2>3. /\ holds'[c] # 0 /\ holds'[c] = current
        /\ \A d \in ToolCall \ {c} : holds'[d] = holds[d]
    BY <1>0, <2>1
  <2>4. Recent'
    BY <1>0, <1>r, <2>1, <2>3 DEF Recent
  <2>5. /\ todo' \in [ToolCall -> Seq(Awaits)]
        /\ \A d \in ToolCall : Fit(todo'[d], holds'[d] # 0, Ready(d)')
    BY <2>1, <2>2, <2>3, StillFits
  <2>6. \A d \in ToolCall : asking'[d] # 0 => todo'[d] = todo[d]
    BY <1>0, <1>k, <2>1 DEF Calls!Done
  <2> QED
    BY <1>0, <1>k, <1>g, <2>1, <2>2, <2>4, <2>5, <2>6
<1>2. ASSUME NEW c \in ToolCall, Calls!TakeWidgets(c) \/ Calls!Request(c) PROVE CallInv'
  <2>1. /\ todo[c] # <<>> /\ Head(todo[c]) \in {"widgets", "get", "feed", "local"}
        /\ Calls!Done(c)
        /\ UNCHANGED <<current, memo, primed, holds, asking, fresh, settled>>
    BY <1>2 DEF Calls!TakeWidgets, Calls!Request, Calls!At
  <2>2. holds' \in [ToolCall -> Nat] /\ Recent'
    BY <1>0, <1>r, <2>1 DEF Recent
  <2>3. /\ todo' \in [ToolCall -> Seq(Awaits)]
        /\ \A d \in ToolCall : Fit(todo'[d], holds'[d] # 0, Ready(d)')
    BY <2>1, <2>2, StillFits
  <2>4. \A d \in ToolCall : asking'[d] # 0 => todo'[d] = todo[d]
    BY <1>0, <1>k, <2>1 DEF Calls!Done
  <2> QED
    BY <1>0, <1>k, <1>g, <2>1, <2>2, <2>3, <2>4
<1>3. ASSUME NEW c \in ToolCall, Calls!MemoHit(c) PROVE CallInv'
  <2>1. /\ todo[c] # <<>> /\ Head(todo[c]) = "prime" /\ memo # 0 /\ asking[c] = 0
        /\ Calls!Done(c)
        /\ UNCHANGED <<current, memo, primed, holds, asking, fresh, settled>>
    BY <1>3 DEF Calls!MemoHit, Calls!At
  <2>2. Ready(c)'
    BY <1>k, <1>r, <2>1 DEF Ready
  <2>3. holds' \in [ToolCall -> Nat] /\ Recent'
    BY <1>0, <1>r, <2>1 DEF Recent
  <2>4. /\ todo' \in [ToolCall -> Seq(Awaits)]
        /\ \A d \in ToolCall : Fit(todo'[d], holds'[d] # 0, Ready(d)')
    BY <2>1, <2>2, <2>3, StillFits
  <2>5. \A d \in ToolCall : asking'[d] # 0 => todo'[d] = todo[d]
    BY <1>0, <2>1 DEF Calls!Done
  <2> QED
    BY <1>0, <1>k, <1>g, <2>1, <2>3, <2>4, <2>5
<1>4. ASSUME NEW c \in ToolCall, Calls!AskContext(c) PROVE CallInv'
  <2>1. /\ todo[c] # <<>> /\ Head(todo[c]) = "prime"
        /\ asking' = [asking EXCEPT ![c] = current]
        /\ UNCHANGED <<current, memo, primed, todo, holds, fresh, settled>>
    BY <1>4 DEF Calls!AskContext, Calls!At
  <2>2. asking' \in [ToolCall -> 0..current] /\ \A d \in ToolCall : asking'[d] \in {asking[d], current}
    BY <1>0, <2>1
  <2>3. Recent'
    BY <1>r, <2>1, <2>2 DEF Recent
  <2>4. \A d \in ToolCall : asking'[d] # 0 => todo'[d] # <<>> /\ Head(todo'[d]) = "prime"
    BY <1>0, <1>k, <2>1
  <2>5. \A d \in ToolCall : Fit(todo'[d], holds'[d] # 0, Ready(d)')
    BY <1>k, <2>1 DEF Fit, Ready
  <2> QED
    BY <1>0, <1>k, <1>g, <2>1, <2>2, <2>3, <2>4, <2>5
<1>5. ASSUME NEW c \in ToolCall, Calls!ContextAnswers(c) PROVE CallInv'
  <2>1. /\ asking[c] # 0 /\ primed' = primed \cup {asking[c]} /\ memo' = asking[c]
        /\ asking' = [asking EXCEPT ![c] = 0] /\ Calls!Done(c)
        /\ UNCHANGED <<current, holds, fresh, settled>>
    BY <1>5 DEF Calls!ContextAnswers
  <2>2. todo[c] # <<>> /\ Head(todo[c]) = "prime" /\ asking[c] \in 1..current
    BY <1>0, <1>k, <2>1
  <2>3. /\ asking' \in [ToolCall -> 0..current]
        /\ \A d \in ToolCall : asking'[d] \in {0, asking[d]} /\ asking'[c] = 0
    BY <1>0, <2>1
  <2>4. Recent' /\ Ready(c)' /\ holds' \in [ToolCall -> Nat]
    BY <1>0, <1>r, <2>1, <2>3 DEF Recent, Ready
  <2>5. /\ todo' \in [ToolCall -> Seq(Awaits)]
        /\ \A d \in ToolCall : Fit(todo'[d], holds'[d] # 0, Ready(d)')
    BY <2>1, <2>2, <2>4, StillFits
  <2>6. \A d \in ToolCall : asking'[d] # 0 => d # c /\ asking[d] # 0 /\ todo'[d] = todo[d]
    BY <1>0, <2>1, <2>3 DEF Calls!Done
  <2> QED
    BY <1>0, <1>k, <1>g, <2>1, <2>2, <2>3, <2>4, <2>5, <2>6
<1>6. ASSUME NEW c \in ToolCall, NEW answered \in BOOLEAN,
             Calls!DiscoverContext(c, answered) \/ Calls!Post(c)
      PROVE  CallInv'
  <2>1. /\ todo[c] # <<>> /\ Head(todo[c]) \in {"context", "post"} /\ Calls!Done(c)
        /\ primed' \in {primed, primed \cup {holds[c]}}
        /\ UNCHANGED <<current, memo, holds, asking, fresh, settled>>
    BY <1>6 DEF Calls!DiscoverContext, Calls!Post, Calls!At
  <2>2. holds[c] # 0
    <3>1. todo[c] \in Seq(Awaits) /\ (holds[c] # 0) \in BOOLEAN /\ Ready(c) \in BOOLEAN
      BY <1>0 DEF Ready
    <3> QED
      BY <1>k, <2>1, <3>1, Onward
  <2>3. primed' \subseteq 1..current /\ primed \subseteq primed'
    BY <1>0, <2>1, <2>2
  <2>4. holds' \in [ToolCall -> Nat] /\ Recent'
    BY <1>0, <1>r, <2>1 DEF Recent
  <2>5. /\ todo' \in [ToolCall -> Seq(Awaits)]
        /\ \A d \in ToolCall : Fit(todo'[d], holds'[d] # 0, Ready(d)')
    BY <2>1, <2>3, <2>4, StillFits
  <2>6. \A d \in ToolCall : asking'[d] # 0 => todo'[d] = todo[d]
    BY <1>0, <1>k, <2>1 DEF Calls!Done
  <2> QED
    BY <1>0, <1>k, <1>g, <2>1, <2>3, <2>4, <2>5, <2>6
<1>7. ASSUME NEW c \in ToolCall, Calls!Throws(c) PROVE CallInv'
  <2>1. /\ todo' = [todo EXCEPT ![c] = <<>>] /\ asking' = [asking EXCEPT ![c] = 0]
        /\ UNCHANGED <<current, memo, primed, holds, fresh, settled>>
    BY <1>7 DEF Calls!Throws
  <2>2. /\ todo' \in [ToolCall -> Seq(Awaits)] /\ asking' \in [ToolCall -> 0..current]
        /\ \A d \in ToolCall : asking'[d] \in {0, asking[d]}
    BY <1>0, <2>1, EmptySeq
  <2>3. Recent'
    BY <1>0, <1>r, <2>1, <2>2 DEF Recent
  <2>4. ASSUME NEW d \in ToolCall PROVE Fit(todo'[d], holds'[d] # 0, Ready(d)')
    <3>1. CASE d = c
      BY <1>0, <2>1, <3>1 DEF Fit
    <3>2. CASE d # c
      <4>1. /\ todo'[d] = todo[d] /\ holds'[d] = holds[d]
            /\ Fit(todo[d], holds[d] # 0, Ready(d))
        BY <1>0, <1>k, <2>1, <3>2
      <4>2. Ready(d)' <=> Ready(d)
        BY <2>1 DEF Ready
      <4> QED
        BY <4>1, <4>2 DEF Fit
    <3> QED
      BY <3>1, <3>2
  <2>5. \A d \in ToolCall : asking'[d] # 0 => asking[d] # 0 /\ todo'[d] = todo[d]
    BY <1>0, <2>1
  <2> QED
    BY <1>0, <1>k, <1>g, <2>1, <2>2, <2>3, <2>4, <2>5
<1>8. ASSUME NEW c \in ToolCall, NEW handler \in Calls!Handlers, Calls!Begin(c, handler)
      PROVE  CallInv'
  <2>1. /\ todo[c] = <<>> /\ todo' = [todo EXCEPT ![c] = handler]
        /\ holds' = [holds EXCEPT ![c] = 0]
        /\ settled' = IF fresh THEN settled \cup {c} ELSE settled \ {c}
        /\ UNCHANGED <<current, memo, primed, asking, fresh>>
    BY <1>8 DEF Calls!Begin
  <2>2. handler \in Seq(Awaits) /\ Fit(handler, FALSE, FALSE)
    BY HandlersFit
  <2>3. /\ todo' \in [ToolCall -> Seq(Awaits)] /\ holds' \in [ToolCall -> 0..current]
        /\ settled' \subseteq ToolCall /\ todo'[c] = handler /\ holds'[c] = 0
    BY <1>0, <2>1, <2>2
  <2>4. \A d \in ToolCall \ {c} : /\ todo'[d] = todo[d] /\ holds'[d] = holds[d]
                                  /\ d \in settled' <=> d \in settled
    BY <1>0, <2>1
  <2>5. Recent'
    BY <1>0, <1>r, <2>1, <2>3, <2>4 DEF Recent
  <2>6. Fit(todo'[c], holds'[c] # 0, Ready(c)')
    BY <2>2, <2>3 DEF Fit
  <2>7. ASSUME NEW d \in ToolCall \ {c} PROVE Fit(todo'[d], holds'[d] # 0, Ready(d)')
    <3>1. Ready(d)' <=> Ready(d)
      BY <2>1, <2>4 DEF Ready
    <3> QED
      BY <1>k, <2>4, <3>1 DEF Fit
  <2>8. \A d \in ToolCall : asking'[d] # 0 => todo'[d] = todo[d]
    BY <1>0, <1>k, <2>1
  <2> QED
    BY <1>0, <1>k, <1>g, <2>1, <2>3, <2>5, <2>6, <2>7, <2>8
<1>9. CASE Calls!Rotate
  <2>1. /\ current <= MaxRotations /\ current' = current + 1 /\ fresh' = FALSE /\ settled' = {}
        /\ UNCHANGED <<memo, primed, todo, holds, asking>>
    BY <1>9 DEF Calls!Rotate
  <2>2. Recent' /\ \A c \in ToolCall : Ready(c)'
    BY <2>1 DEF Recent, Ready
  <2>3. current' \in 1..MaxRotations + 1
    BY <1>0, <2>1
  <2>4. 0..current \subseteq 0..current' /\ 1..current \subseteq 1..current'
    BY <1>0, <2>1
  <2>5. holds' \in [ToolCall -> 0..current'] /\ asking' \in [ToolCall -> 0..current']
    BY <1>0, <2>1, <2>4
  <2>6. \A c \in ToolCall : Fit(todo'[c], holds'[c] # 0, Ready(c)')
    BY <1>k, <2>1, <2>2 DEF Fit
  <2> QED
    BY <1>0, <1>k, <1>g, <2>1, <2>2, <2>3, <2>4, <2>5, <2>6
<1>10. CASE Calls!WatchFires
  <2>1. /\ memo' = 0 /\ fresh' = (\A c \in ToolCall : asking[c] \in {0, current})
        /\ UNCHANGED <<current, primed, todo, holds, asking, settled>>
    BY <1>10 DEF Calls!WatchFires, Calls!Forgotten
  <2>2. fresh' \in BOOLEAN
    BY <2>1
  <2>3. Recent'
    BY <1>r, <2>1 DEF Recent
  <2>4. \A c \in ToolCall : Ready(c)' <=> Ready(c)
    BY <2>1 DEF Ready
  <2>5. \A c \in ToolCall : Fit(todo'[c], holds'[c] # 0, Ready(c)')
    BY <1>k, <2>1, <2>4 DEF Fit
  <2> QED
    BY <1>0, <1>k, <1>g, <2>1, <2>2, <2>3, <2>5
<1>11. CASE UNCHANGED callVars
  <2>1. UNCHANGED <<current, memo, primed, todo, holds, asking, fresh, settled>>
    BY <1>11 DEF callVars
  <2>2. \A c \in ToolCall : Ready(c)' <=> Ready(c)
    BY <2>1 DEF Ready
  <2>3. Recent' /\ \A c \in ToolCall : Fit(todo'[c], holds'[c] # 0, Ready(c)')
    BY <1>k, <1>r, <2>1, <2>2 DEF Fit, Recent
  <2> QED
    BY <1>0, <1>k, <1>g, <2>1, <2>3
<1>12. CASE \E c \in ToolCall : Calls!Serve(c)
  BY <1>1, <1>2, <1>3, <1>4, <1>5, <1>6, <1>7, <1>12 DEF Calls!Serve
<1> QED
  BY <1>8, <1>9, <1>10, <1>11, <1>12 DEF Calls!Next

\* For any number of calls and rotations, whatever the handlers interleave with: no
\* messaging or feed request goes out on a session that getProfileContext has not run on,
\* by a call begun before any rotation, or after one that the watcher has followed up with
\* no getProfileContext of older tokens under way, until the next (tools.ts:1013-1020,
\* aula-context.ts:240-261).  Between a rotation and the watcher it may (README, 6).
THEOREM FeedsArePrimed == ToolsSpec => []PrimedBeforeFeed
<1>1. ASSUME CallInv PROVE PrimedBeforeFeed
  <2> SUFFICES ASSUME NEW c \in settled, todo[c] # <<>>, Head(todo[c]) = "feed"
               PROVE  holds[c] \in primed
    BY DEF PrimedBeforeFeed, Calls!PrimedBeforeFeed, Calls!At
  <2>1. /\ c \in ToolCall /\ todo[c] \in Seq(Awaits) /\ holds[c] \in {0, current}
        /\ Fit(todo[c], holds[c] # 0, Ready(c))
    BY <1>1 DEF CallInv, Calls!TypeOK, Awaits, Recent
  <2>2. Ready(c) \in BOOLEAN /\ (holds[c] # 0) \in BOOLEAN
    BY DEF Ready
  <2>3. holds[c] # 0 /\ Ready(c)
    BY <2>1, <2>2, Onward
  <2> QED
    BY <2>1, <2>3 DEF Ready
<1> QED
  BY <1>1, CallStart, CallKept, ToolSteps, PTL DEF ToolsSpec

-----------------------------------------------------------------------------
(* The windows of the calendar                                              *)

LEMMA CalendarBounds == /\ Weeks \in Nat /\ SpringWeek \in Nat /\ AutumnWeek \in Nat
                        /\ SpringWeek < AutumnWeek /\ AutumnWeek < Weeks
BY ToolsAssumption DEF Calendar!CalendarAssumption

\* The clocks change between two midnights, at 01:00 UTC: the offset of a local midnight
\* is that of the UTC midnight of its day, and there is one local midnight a day.
LEMMA Midnights == \A day \in Int :
    /\ Calendar!Offset(day * 24) \in {1, 2}
    /\ Calendar!Offset(day * 24 - Calendar!Offset(day * 24)) = Calendar!Offset(day * 24)
    /\ Calendar!LocalMidnight(day) = day * 24 - Calendar!Offset(day * 24)
<1> USE CalendarBounds DEF Calendar!Offset, Calendar!Spring, Calendar!Autumn
<1> TAKE day \in Int
<1> DEFINE u == day * 24
           o == Calendar!Offset(u)
<1>1. o \in {1, 2}
  OBVIOUS
<1>2. Calendar!Offset(u - o) = o
  OBVIOUS
<1>3. \A t \in {u - 1, u - 2} : t + Calendar!Offset(t) = u <=> t = u - o
  OBVIOUS
<1> HIDE DEF Calendar!Offset
<1>4. u - o \in {u - 1, u - 2}
  BY <1>1
<1> HIDE DEF o
<1>5. Calendar!LocalMidnight(day) = u - o
  BY <1>3, <1>4 DEF Calendar!LocalMidnight
<1> QED
  BY <1>1, <1>2, <1>5 DEF o

LEMMA TodayIs == \A t \in Int :
    LET day == Calendar!CopenhagenDay(t)
        midnight == Calendar!StartOfDayCopenhagen(t) IN
    /\ day \in Int /\ day * 24 <= t + Calendar!Offset(t) /\ t + Calendar!Offset(t) < day * 24 + 24
    /\ midnight = day * 24 - Calendar!Offset(day * 24)
    /\ Calendar!CopenhagenDay(midnight) = day
    /\ Calendar!StartOfWeekMonday(midnight) = (day - (day % 7)) * 24 - Calendar!Offset(day * 24)
<1> TAKE t \in Int
<1> DEFINE day == Calendar!CopenhagenDay(t)
           midnight == Calendar!StartOfDayCopenhagen(t)
<1>0. Calendar!Offset(t) \in {1, 2}
  BY DEF Calendar!Offset
<1>1. day \in Int /\ day * 24 <= t + Calendar!Offset(t) /\ t + Calendar!Offset(t) < day * 24 + 24
  BY <1>0 DEF Calendar!CopenhagenDay
<1>2. midnight = day * 24 - Calendar!Offset(day * 24)
  BY DEF Calendar!StartOfDayCopenhagen
<1> HIDE DEF day, midnight
<1>3. Calendar!CopenhagenDay(midnight) = day
  BY <1>1, <1>2, Midnights DEF Calendar!CopenhagenDay
<1>4. Calendar!DayOfWeek(midnight) = (day + 1) % 7
  BY <1>3 DEF Calendar!DayOfWeek
<1>5. (IF (day + 1) % 7 = 0 THEN -6 ELSE 1 - ((day + 1) % 7)) = -(day % 7)
  BY <1>1
<1>6. Calendar!StartOfWeekMonday(midnight) = midnight + 24 * (-(day % 7))
  BY <1>4, <1>5 DEF Calendar!StartOfWeekMonday, Calendar!AddDays
<1>7. day % 7 \in Int
  BY <1>1
<1> QED
  BY <1>0, <1>1, <1>2, <1>3, <1>6, <1>7, Midnights DEF day, midnight

\* A window begins and ends a number of times 24 hours from today's midnight.
LEMMA WindowOf == \A t \in Int, r \in Calendar!Presets :
    LET day == Calendar!CopenhagenDay(t)
        first == Calendar!FirstDay(r, t)
        last == first + Calendar!Days(r)
        offset == Calendar!Offset(day * 24) IN
    /\ first \in Int /\ last \in Int /\ day - 6 <= first /\ last <= day + 14
    /\ Calendar!Resolve(r, t)[1] = first * 24 - offset
    /\ Calendar!Resolve(r, t)[2] = last * 24 - offset
<1> TAKE t \in Int, r \in Calendar!Presets
<1> DEFINE day == Calendar!CopenhagenDay(t)
           first == Calendar!FirstDay(r, t)
           last == first + Calendar!Days(r)
           midnight == Calendar!StartOfDayCopenhagen(t)
           offset == Calendar!Offset(day * 24)
           begin == Calendar!StartOfWeekMonday(midnight)
           week == day % 7
           window == Calendar!Resolve(r, t)
<1>1. day \in Int /\ midnight = day * 24 - offset /\ begin = (day - week) * 24 - offset
  BY TodayIs
<1>2. offset \in {1, 2} /\ week \in 0..6
  <2>1. offset \in {1, 2}
    BY DEF Calendar!Offset
  <2> HIDE DEF day, offset
  <2>2. week \in 0..6
    BY <1>1
  <2> QED
    BY <2>1, <2>2
<1> DEFINE Right == /\ first \in Int /\ last \in Int /\ day - 6 <= first /\ last <= day + 14
                    /\ window[1] = first * 24 - offset
                    /\ window[2] = last * 24 - offset
<1>3. CASE r = "today"
  <2>1. first = day /\ Calendar!Days(r) = 1
    BY <1>3 DEF Calendar!FirstDay, Calendar!Days
  <2>2. window = <<midnight, midnight + 24 * 1>>
    BY <1>3 DEF Calendar!Resolve, Calendar!AddDays
  <2> HIDE DEF day, first, midnight, offset, begin, week, window
  <2>3. Right
    BY <1>1, <1>2, <2>1, <2>2
  <2> QED
    BY <2>3 DEF day, first, offset, window
<1>4. CASE r = "tomorrow"
  <2>1. first = day + 1 /\ Calendar!Days(r) = 1
    BY <1>4 DEF Calendar!FirstDay, Calendar!Days
  <2>2. window = <<midnight + 24 * 1, (midnight + 24 * 1) + 24 * 1>>
    BY <1>4 DEF Calendar!Resolve, Calendar!AddDays
  <2> HIDE DEF day, first, midnight, offset, begin, week, window
  <2>3. Right
    BY <1>1, <1>2, <2>1, <2>2
  <2> QED
    BY <2>3 DEF day, first, offset, window
<1>5. CASE r = "this_week"
  <2>1. first = day - week /\ Calendar!Days(r) = 7
    BY <1>5 DEF Calendar!FirstDay, Calendar!Days
  <2>2. window = <<begin, begin + 24 * 7>>
    BY <1>5 DEF Calendar!Resolve, Calendar!AddDays
  <2> HIDE DEF day, first, midnight, offset, begin, week, window
  <2>3. Right
    BY <1>1, <1>2, <2>1, <2>2
  <2> QED
    BY <2>3 DEF day, first, offset, window
<1>6. CASE r = "next_week"
  <2>1. first = day - week + 7 /\ Calendar!Days(r) = 7
    BY <1>6 DEF Calendar!FirstDay, Calendar!Days
  <2>2. window = <<begin + 24 * 7, (begin + 24 * 7) + 24 * 7>>
    BY <1>6 DEF Calendar!Resolve, Calendar!AddDays
  <2> HIDE DEF day, first, midnight, offset, begin, week, window
  <2>3. Right
    BY <1>1, <1>2, <2>1, <2>2
  <2> QED
    BY <2>3 DEF day, first, offset, window
<1> QED
  BY <1>3, <1>4, <1>5, <1>6 DEF Calendar!Presets

CalendarInv == Calendar!TypeOK

LEMMA CalendarStart == ToolsInit => CalendarInv
BY CalendarBounds
   DEF ToolsInit, Calendar!Init, CalendarInv, Calendar!TypeOK, Calendar!Presets

LEMMA CalendarKept == CalendarInv /\ [Calendar!Next]_calendarVars => CalendarInv'
<1> SUFFICES ASSUME CalendarInv, [Calendar!Next]_calendarVars PROVE CalendarInv'
  OBVIOUS
<1> USE CalendarBounds DEF CalendarInv, Calendar!TypeOK
<1>1. ASSUME NEW r \in Calendar!Presets, Calendar!Ask(r) PROVE CalendarInv'
  <2> DEFINE day == Calendar!CopenhagenDay(now)
             first == Calendar!FirstDay(r, now)
             last == first + Calendar!Days(r)
             offset == Calendar!Offset(day * 24)
  <2>1. now \in Int
    OBVIOUS
  <2>2. /\ day \in Int /\ day * 24 <= now + Calendar!Offset(now)
        /\ now + Calendar!Offset(now) < day * 24 + 24
    BY <2>1, TodayIs
  <2>3. /\ first \in Int /\ last \in Int /\ day - 6 <= first /\ last <= day + 14
        /\ Calendar!Resolve(r, now)[1] = first * 24 - offset
        /\ Calendar!Resolve(r, now)[2] = last * 24 - offset
    BY <2>1, WindowOf
  <2>4. /\ start' = first * 24 - offset /\ end' = last * 24 - offset
        /\ range' = r /\ now' = now
    BY <1>1, <2>3 DEF Calendar!Ask
  <2>5. offset \in {1, 2} /\ Calendar!Offset(now) \in {1, 2}
    BY DEF Calendar!Offset
  <2>6. first < last
    BY <2>3 DEF Calendar!Days
  <2> HIDE DEF day, first, last, offset
  <2>7. day >= 0 /\ day <= Weeks * 7
    BY <2>1, <2>2, <2>5
  <2>8. start' \in -200..(Weeks + 2) * 168 /\ end' \in -200..(Weeks + 2) * 168
    BY <2>2, <2>3, <2>4, <2>5, <2>6, <2>7
  <2> QED
    BY <2>4, <2>8
<1>2. CASE Calendar!Hour
  BY <1>2 DEF Calendar!Hour
<1>3. CASE UNCHANGED calendarVars
  BY <1>3 DEF calendarVars
<1> QED
  BY <1>1, <1>2, <1>3 DEF Calendar!Next

\* What the answer to an asked preset is.
LEMMA WindowsExact ==
  ASSUME CalendarInv, NEW r \in Calendar!Presets, Calendar!Ask(r)
  PROVE  /\ Calendar!Near(start', Calendar!First(r, now))
         /\ Calendar!Near(end', Calendar!Last(r, now))
<1> DEFINE day == Calendar!CopenhagenDay(now)
           first == Calendar!FirstDay(r, now)
           last == first + Calendar!Days(r)
           offset == Calendar!Offset(day * 24)
<1>1. now \in Int
  BY CalendarBounds DEF CalendarInv, Calendar!TypeOK
<1>2. day \in Int /\ Calendar!StartOfDayCopenhagen(now) = day * 24 - offset
  BY <1>1, TodayIs
<1>3. /\ first \in Int /\ last \in Int
      /\ Calendar!Resolve(r, now)[1] = first * 24 - offset
      /\ Calendar!Resolve(r, now)[2] = last * 24 - offset
  BY <1>1, WindowOf
<1>4. start' = first * 24 - offset /\ end' = last * 24 - offset
  BY <1>3 DEF Calendar!Ask
<1>5. Calendar!First(r, now) = Calendar!LocalMidnight(first)
      /\ Calendar!Last(r, now) = Calendar!LocalMidnight(last)
  BY DEF Calendar!First, Calendar!Last
<1> HIDE DEF day, first, last
<1>6. Calendar!Offset(day * 24 - offset) = offset /\ offset \in {1, 2}
  BY <1>2, Midnights
<1>7. ASSUME NEW d \in Int
      PROVE  Calendar!Near(d * 24 - offset, Calendar!LocalMidnight(d))
  <2> DEFINE o == Calendar!Offset(d * 24)
  <2>1. o \in {1, 2} /\ Calendar!LocalMidnight(d) = d * 24 - o /\ Calendar!Offset(d * 24 - o) = o
    BY Midnights
  <2>2. Calendar!Offset(Calendar!StartOfDayCopenhagen(now)) = offset
    BY <1>2, <1>6
  <2> HIDE DEF o, offset
  <2>3. /\ (d * 24 - offset) - (d * 24 - o) \in {-1, 0, 1}
        /\ offset = o => d * 24 - offset = d * 24 - o
    BY <1>6, <2>1
  <2> QED
    BY <2>1, <2>2, <2>3 DEF Calendar!Near
<1> QED
  BY <1>3, <1>4, <1>5, <1>7

LEMMA WeeksAgreed ==
  ASSUME CalendarInv
  PROVE  \/ Calendar!CurrentWeek(now) = Calendar!FirstDay("this_week", now) * 24
         \/ /\ Calendar!CopenhagenDay(now) % 7 = 0
            /\ now - Calendar!LocalMidnight(Calendar!CopenhagenDay(now)) < Calendar!Offset(now)
<1> DEFINE day == Calendar!CopenhagenDay(now)
<1>1. now \in Nat
  BY CalendarBounds DEF CalendarInv, Calendar!TypeOK
<1>2. /\ day \in Int /\ day * 24 <= now + Calendar!Offset(now)
      /\ now + Calendar!Offset(now) < day * 24 + 24
  BY <1>1, TodayIs
<1>3. Calendar!FirstDay("this_week", now) = day - (day % 7)
  BY DEF Calendar!FirstDay
<1>4. Calendar!CurrentWeek(now) = (now \div 168) * 168
  BY DEF Calendar!CurrentWeek
<1> HIDE DEF day
<1>5. /\ Calendar!LocalMidnight(day) = day * 24 - Calendar!Offset(day * 24)
      /\ Calendar!Offset(day * 24) \in {1, 2}
  BY <1>2, Midnights
<1>6. Calendar!Offset(now) \in {1, 2}
  BY DEF Calendar!Offset
<1>7. CASE now >= day * 24
  <2>1. (now \div 168) * 168 = (day - (day % 7)) * 24
    BY <1>1, <1>2, <1>6, <1>7
  <2> QED
    BY <1>3, <1>4, <2>1
<1>8. CASE now < day * 24
  <2>1. Calendar!Offset(now) = Calendar!Offset(day * 24)
    BY <1>1, <1>2, <1>6, <1>8, CalendarBounds
       DEF Calendar!Offset, Calendar!Spring, Calendar!Autumn
  <2>2. CASE day % 7 = 0
    BY <1>1, <1>2, <1>5, <1>6, <1>8, <2>1, <2>2 DEF day
  <2>3. CASE day % 7 # 0
    <3>1. (now \div 168) * 168 = (day - (day % 7)) * 24
      BY <1>1, <1>2, <1>6, <1>8, <2>3
    <3> QED
      BY <1>3, <1>4, <3>1
  <2> QED
    BY <2>2, <2>3
<1> QED
  BY <1>1, <1>2, <1>7, <1>8

-----------------------------------------------------------------------------
(* The ISO weeks                                                            *)

Jan1(y) == Iso!JanuaryDay(y, 1)
Holds(y, day) == Jan1(y) <= day /\ day < Jan1(y + 1)

LEMMA YearBounds == /\ FirstYear \in Nat /\ LastYear \in Nat
                    /\ 1970 < FirstYear /\ FirstYear < LastYear
BY ToolsAssumption DEF Iso!YearsAssumption

\* The first of January, year after year.
LEMMA NewYears ==
  /\ \A y \in Int : Jan1(y) \in Int /\ Jan1(y + 1) - Jan1(y) \in 365..366
  /\ \A y, z \in Int : y < z => Jan1(y) + 363 <= Jan1(z)
  /\ \A y \in Int : y > 1970 => Jan1(y) >= 365
  /\ \A y \in Int : Iso!JanuaryDay(y, 4) = Jan1(y) + 3
BY DEF Jan1, Iso!JanuaryDay, Iso!Leaps

\* Every day is in one year.
LEMMA OneYear == \A day \in Int :
    /\ \E y \in Int : Holds(y, day)
    /\ \A y, z \in Int : Holds(y, day) /\ Holds(z, day) => y = z
<1> TAKE day \in Int
<1> DEFINE q == 1970 + ((400 * day) \div 146097)
<1>1. q \in Int /\ Jan1(q - 1) <= day /\ day < Jan1(q + 2)
  BY DEF Jan1, Iso!JanuaryDay, Iso!Leaps
<1> HIDE DEF q
<1>2. \E y \in Int : Holds(y, day)
  <2>1. Jan1(q) \in Int /\ Jan1(q + 1) \in Int /\ (q - 1) + 1 = q /\ (q + 1) + 1 = q + 2
    BY <1>1, NewYears
  <2>2. CASE day < Jan1(q)
    BY <1>1, <2>1, <2>2 DEF Holds
  <2>3. CASE Jan1(q) <= day /\ day < Jan1(q + 1)
    BY <1>1, <2>3 DEF Holds
  <2>4. CASE Jan1(q + 1) <= day
    BY <1>1, <2>1, <2>4 DEF Holds
  <2> QED
    BY <2>1, <2>2, <2>3, <2>4
<1>3. ASSUME NEW y \in Int, NEW z \in Int, Holds(y, day), Holds(z, day) PROVE y = z
  <2>1. ASSUME NEW a \in Int, NEW b \in Int, Holds(a, day), Holds(b, day), a < b PROVE FALSE
    <3>1. a + 1 = b \/ a + 1 < b
      BY <2>1
    <3>2. Jan1(a + 1) <= Jan1(b) /\ Jan1(a + 1) \in Int /\ Jan1(b) \in Int
      BY <3>1, NewYears
    <3> QED
      BY <2>1, <3>2 DEF Holds
  <2> QED
    BY <1>3, <2>1
<1> QED
  BY <1>2, <1>3

\* The days the model runs through, and their week's Thursday, have their year in range.
LEMMA YearOfDay ==
  ASSUME NEW day \in Int, Jan1(FirstYear) - 3 <= day, day <= Jan1(LastYear + 1) + 3
  PROVE  /\ Iso!YearOf(day) \in FirstYear - 1..LastYear + 1
         /\ Holds(Iso!YearOf(day), day)
<1>1. PICK y \in Int : Holds(y, day)
  BY OneYear
<1>2. FirstYear - 1 <= y
  <2>1. ASSUME y + 1 < FirstYear PROVE FALSE
    <3>1. Jan1(y + 1) + 363 <= Jan1(FirstYear) /\ Jan1(y + 1) \in Int /\ Jan1(FirstYear) \in Int
      BY <2>1, NewYears, YearBounds
    <3> QED
      BY <1>1, <3>1 DEF Holds
  <2> QED
    BY <2>1, YearBounds
<1>3. y <= LastYear + 1
  <2>1. ASSUME LastYear + 1 < y PROVE FALSE
    <3>1. Jan1(LastYear + 1) + 363 <= Jan1(y) /\ Jan1(y) \in Int /\ Jan1(LastYear + 1) \in Int
      BY SMTT(40), <2>1, NewYears, YearBounds
    <3> QED
      BY <1>1, <3>1 DEF Holds
  <2> QED
    BY <2>1, YearBounds
<1>4. y \in FirstYear - 1..LastYear + 1
  BY <1>2, <1>3, YearBounds
<1>5. Iso!YearOf(day) = CHOOSE z \in FirstYear - 1..LastYear + 1 : Holds(z, day)
  BY DEF Iso!YearOf, Holds, Jan1
<1> QED
  BY <1>1, <1>4, <1>5

Thursday(day) == day + 4 - Iso!DayNum(day)

LEMMA ThursdayIs == \A day \in Int :
    /\ Thursday(day) \in Int /\ Thursday(day) % 7 = 0
    /\ day - 3 <= Thursday(day) /\ Thursday(day) <= day + 3
BY DEF Thursday, Iso!DayNum, Iso!UtcDay

\* The first Thursday of a year is in the week of the 4th of January.
LEMMA WeekFormula == \A s, t \in Int : t % 7 = 0 =>
    (s + 3) - (Iso!DayNum(s + 3) - 1) + ((t - s + 1 + 6) \div 7 - 1) * 7 = t - 3
BY DEF Iso!DayNum, Iso!UtcDay

\* The week of a day leads back to its Monday, three days before its Thursday.
LEMMA RoundTrip ==
  ASSUME NEW day \in Int, Jan1(FirstYear) <= day, day <= Jan1(LastYear + 1)
  PROVE  /\ Iso!IsoWeekString(day) \in [year : FirstYear - 1..LastYear + 1, week : 1..53]
         /\ Iso!IsoWeekToMonday(Iso!IsoWeekString(day)) = Thursday(day) - 3
<1> DEFINE t == Thursday(day)
           y == Iso!YearOf(t)
           s == Jan1(y)
           w == (t - s + 1 + 6) \div 7
<1>1. t \in Int /\ t % 7 = 0 /\ day - 3 <= t /\ t <= day + 3
  BY ThursdayIs
<1>2. Jan1(FirstYear) \in Int /\ Jan1(LastYear + 1) \in Int
  BY NewYears, YearBounds
<1> HIDE DEF t
<1>3. y \in FirstYear - 1..LastYear + 1 /\ Holds(y, t)
  <2>1. Jan1(FirstYear) - 3 <= t /\ t <= Jan1(LastYear + 1) + 3
    BY <1>1, <1>2
  <2> QED
    BY <1>1, <2>1, YearOfDay
<1>4. Iso!IsoWeekString(day) = [year |-> y, week |-> w]
  BY DEF Iso!IsoWeekString, t, Thursday, Jan1
<1> HIDE DEF y
<1>5. /\ s \in Int /\ s <= t /\ t - s <= 365 /\ Iso!JanuaryDay(y, 4) = s + 3
  <2>1. y \in Int
    BY <1>3, YearBounds
  <2>2. s \in Int /\ Jan1(y + 1) - s \in 365..366 /\ Jan1(y + 1) \in Int
    BY <2>1, NewYears
  <2>3. Iso!JanuaryDay(y, 4) = s + 3
    BY <2>1, NewYears
  <2>4. s <= t /\ t < Jan1(y + 1)
    BY <1>3 DEF Holds
  <2> HIDE DEF s
  <2> QED
    BY <1>1, <2>2, <2>3, <2>4
<1> HIDE DEF s
<1>6. w \in 1..53
  BY <1>1, <1>5
<1>7. Iso!IsoWeekToMonday([year |-> y, week |-> w])
        = (s + 3) - (Iso!DayNum(s + 3) - 1) + (w - 1) * 7
  BY <1>5 DEF Iso!IsoWeekToMonday
<1>8. (s + 3) - (Iso!DayNum(s + 3) - 1) + (w - 1) * 7 = t - 3
  BY <1>1, <1>5, WeekFormula
<1> HIDE DEF w
<1> QED
  BY <1>3, <1>4, <1>6, <1>7, <1>8 DEF t

\* What is held of a day is what is computed from it.
IsoInv == /\ today \in Int /\ Jan1(FirstYear) <= today /\ today <= Jan1(LastYear + 1)
          /\ isoWeek = Iso!IsoWeekString(today)
          /\ monday = Iso!IsoWeekToMonday(isoWeek)

LEMMA IsoStart == ToolsInit => IsoInv
<1>1. Jan1(FirstYear) \in Int /\ Jan1(FirstYear) <= Jan1(LastYear + 1)
  BY NewYears, YearBounds
<1> QED
  BY <1>1 DEF ToolsInit, Iso!Init, IsoInv, Jan1

LEMMA IsoKept == IsoInv /\ [Iso!Next]_isoVars => IsoInv'
<1> SUFFICES ASSUME IsoInv, [Iso!Next]_isoVars PROVE IsoInv'
  OBVIOUS
<1>0. Jan1(FirstYear) \in Int /\ Jan1(LastYear + 1) \in Int
  BY NewYears, YearBounds
<1>1. CASE Iso!NextDay
  <2>1. /\ today < Jan1(LastYear + 1) /\ today' = today + 1
        /\ isoWeek' = Iso!IsoWeekString(today')
        /\ monday' = Iso!IsoWeekToMonday(isoWeek')
    BY <1>1 DEF Iso!NextDay, Iso!Resolved, Jan1
  <2> QED
    BY <1>0, <2>1 DEF IsoInv
<1>2. CASE UNCHANGED isoVars
  BY <1>2 DEF isoVars, IsoInv
<1> QED
  BY <1>1, <1>2 DEF Iso!Next

LEMMA IsoTyped == IsoInv => Iso!TypeOK /\ monday = Thursday(today) - 3
<1> SUFFICES ASSUME IsoInv PROVE Iso!TypeOK /\ monday = Thursday(today) - 3
  OBVIOUS
<1>1. /\ today \in Int /\ Jan1(FirstYear) \in Int /\ Jan1(FirstYear) >= 365
      /\ Jan1(FirstYear) <= today
  BY NewYears, YearBounds DEF IsoInv
<1>2. /\ isoWeek \in [year : FirstYear - 1..LastYear + 1, week : 1..53]
      /\ monday = Thursday(today) - 3
  BY RoundTrip DEF IsoInv
<1>3. today \in Nat /\ monday \in Nat
  <2>1. Thursday(today) \in Int /\ today - 3 <= Thursday(today)
    BY <1>1, ThursdayIs
  <2> QED
    BY <1>1, <1>2, <2>1
<1> QED
  BY <1>2, <1>3 DEF Iso!TypeOK

LEMMA IsoSteps == IsoInv /\ IsoInv' =>
    /\ monday' <= today' /\ today' < monday' + 7 /\ Iso!UtcDay(monday') = 1
    /\ (isoWeek' = isoWeek) <=> (monday' = monday)
<1> SUFFICES ASSUME IsoInv, IsoInv'
             PROVE  /\ monday' <= today' /\ today' < monday' + 7 /\ Iso!UtcDay(monday') = 1
                    /\ (isoWeek' = isoWeek) <=> (monday' = monday)
  OBVIOUS
<1>1. monday = Thursday(today) - 3 /\ today \in Int
  BY IsoTyped DEF IsoInv
<1>2. monday' = Thursday(today') - 3 /\ today' \in Int
  <2>1. (monday = Thursday(today) - 3 /\ today \in Int)'
    BY IsoTyped, PTL DEF IsoInv
  <2> QED
    BY <2>1
<1>3. ASSUME NEW d \in Int
      PROVE  /\ Thursday(d) - 3 <= d /\ d < (Thursday(d) - 3) + 7
             /\ Iso!UtcDay(Thursday(d) - 3) = 1
  BY DEF Thursday, Iso!DayNum, Iso!UtcDay
<1>4. monday' <= today' /\ today' < monday' + 7 /\ Iso!UtcDay(monday') = 1
  BY <1>2, <1>3
<1>5. ASSUME isoWeek' = isoWeek PROVE monday' = monday
  BY <1>5 DEF IsoInv
<1>6. ASSUME monday' = monday PROVE isoWeek' = isoWeek
  <2>1. Thursday(today') = Thursday(today)
    BY <1>1, <1>2, <1>6, ThursdayIs
  <2>2. \A d \in Int : Iso!IsoWeekString(d) =
          [year |-> Iso!YearOf(Thursday(d)),
           week |-> (Thursday(d) - Jan1(Iso!YearOf(Thursday(d))) + 1 + 6) \div 7]
    BY DEF Iso!IsoWeekString, Thursday, Jan1
  <2>3. Iso!IsoWeekString(today') = Iso!IsoWeekString(today)
    BY <1>1, <1>2, <2>1, <2>2
  <2> QED
    BY <2>3 DEF IsoInv
<1> QED
  BY <1>4, <1>5, <1>6

-----------------------------------------------------------------------------
\* For clocks that change in any two weeks, at every hour, and for the days of any years:
\* a preset's window begins and ends at the local midnights it names, exactly when no change
\* of the clocks lies between today's midnight and the boundary, and within an hour of them
\* when one does (calendar-range.ts:26-50, 93-100); the weekly tools
\* speak of the same week as the calendar, except in the first hours of a Copenhagen
\* Monday (tools.ts:94-100); and the ISO week of a day leads back to its Monday and is
\* the only name of that week (types.ts:67-97).
THEOREM DatesAgreeAlways == ToolsSpec => DatesAgree
<1> DEFINE Windows == \A r \in Calendar!Presets : Calendar!Ask(r) =>
        /\ Calendar!Near(start', Calendar!First(r, now))
        /\ Calendar!Near(end', Calendar!Last(r, now))
    Agreed == Calendar!Ask("this_week") =>
        \/ Calendar!CurrentWeek(now) = Calendar!FirstDay("this_week", now) * 24
        \/ /\ Calendar!CopenhagenDay(now) % 7 = 0
           /\ now - Calendar!LocalMidnight(Calendar!CopenhagenDay(now)) < Calendar!Offset(now)
    Back == /\ monday' <= today' /\ today' < monday' + 7 /\ Iso!UtcDay(monday') = 1
            /\ (isoWeek' = isoWeek) <=> (monday' = monday)
<1>1. CalendarInv => Windows
  BY WindowsExact
<1>2. CalendarInv => Agreed
  BY WeeksAgreed
<1>3. IsoInv /\ IsoInv' => Back
  BY IsoSteps
<1> HIDE DEF Windows, Agreed, Back
<1>4. ToolsSpec => [][Windows]_(Calendar!vars)
  BY <1>1, CalendarStart, CalendarKept, ToolSteps, PTL DEF ToolsSpec
<1>5. ToolsSpec => [][Agreed]_(Calendar!vars)
  BY <1>2, CalendarStart, CalendarKept, ToolSteps, PTL DEF ToolsSpec
<1>6. ToolsSpec => [][Back]_(Iso!vars)
  BY <1>3, IsoStart, IsoKept, ToolSteps, PTL DEF ToolsSpec
<1>7. ToolsSpec => Calendar!WindowsAreExact
  BY <1>4, PTL DEF Windows, Calendar!WindowsAreExact
<1>8. ToolsSpec => Calendar!WeeksAgree
  BY <1>5, PTL DEF Agreed, Calendar!WeeksAgree
<1>9. ToolsSpec => Iso!WeeksRoundTrip
  BY <1>6, PTL DEF Back, Iso!WeeksRoundTrip
<1> QED
  BY <1>7, <1>8, <1>9 DEF DatesAgree

-----------------------------------------------------------------------------
\* The parts keep their types, for all values of the constants.
THEOREM ToolsTyped == ToolsSpec => []ToolsTypeOK
<1>1. ToolsSpec => []TypeOK
  <2>1. ToolsInit => TypeOK
    BY TypeInit DEF ToolsInit
  <2>2. [ToolsNext]_toolsVars => [Next]_vars
    BY DEF ToolsNext, Only, Over, toolsVars
  <2> QED
    BY <2>1, <2>2, TypeStep, PTL DEF ToolsSpec
<1>2. ToolsSpec => []Calls!TypeOK
  <2>1. CallInv => Calls!TypeOK
    BY DEF CallInv
  <2> QED
    BY <2>1, CallStart, CallKept, ToolSteps, PTL DEF ToolsSpec
<1>3. ToolsSpec => []Presence!TypeOK
  BY PresenceStart, PresenceTyped, ToolSteps, PTL DEF ToolsSpec
<1>4. ToolsSpec => []Feed!TypeOK
  <2>1. ASSUME WalkInv PROVE Feed!TypeOK
    BY <2>1, LenProperties DEF WalkInv, Listed, Feed!TypeOK, Feed!IsInjective, Feed!ToSet
  <2> QED
    BY <2>1, FeedStart, WalkKept, ToolSteps, PTL DEF ToolsSpec
<1>5. ToolsSpec => []Pdf!TypeOK
  <2>1. PdfInv => Pdf!TypeOK
    BY DEF PdfInv
  <2> QED
    BY <2>1, PdfStart, PdfKept, ToolSteps, PTL DEF ToolsSpec
<1>6. ToolsSpec => []Calendar!TypeOK
  <2>1. CalendarInv => Calendar!TypeOK
    BY DEF CalendarInv
  <2> QED
    BY <2>1, CalendarStart, CalendarKept, ToolSteps, PTL DEF ToolsSpec
<1>7. ToolsSpec => []Iso!TypeOK
  BY IsoStart, IsoKept, IsoTyped, ToolSteps, PTL DEF ToolsSpec
<1> QED
  BY <1>1, <1>2, <1>3, <1>4, <1>5, <1>6, <1>7, PTL DEF ToolsTypeOK
=============================================================================
