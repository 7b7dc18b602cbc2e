------------------------------- MODULE FeedTools -------------------------------
(***************************************************************************)
(* The tools that look something up in a feed Aula serves in pages, newest *)
(* first, while the feed moves (packages/mcp-server/src/tools.ts): the     *)
(* walk of aula.messages.mark_read over the threads and that of            *)
(* aula.posts.get_attachment over the posts.  Aula is external: entries    *)
(* get news and move to the top, and are deleted.                          *)
(***************************************************************************)
EXTENDS Integers, Sequences, SequencesExt

CONSTANTS
    Entry,          \* threads, or posts
    Bare,           \* threads that carry no latestMessage.id
    PageSize,       \* entries Aula puts on a page
    MaxPages,       \* MAX_PAGES, POST_LOOKUP_MAX_PAGES
    MaxNews         \* bound: new messages, or edits

FeedAssumption == /\ IsFiniteSet(Entry) /\ Entry # {}
                  /\ PageSize \in Nat \ {0} /\ MaxPages \in Nat \ {0} /\ MaxNews \in Nat

VARIABLES
    feed,           \* the entries, newest first
    flagged,        \* Aula sends moreMessagesExist with its pages
    news,           \* external: news so far
    walker,         \* idle, walking, writing
    tool,           \* mark_read, get_attachment
    target,         \* args.threadId, args.postId
    page,           \* pages read
    moved,          \* history: the target, or an entry above it, left its place
    outcome         \* none, ok, missing, failed

aula == <<feed, flagged, news>>
vars == <<aula, walker, tool, target, page, moved, outcome>>

Init == /\ feed = SetToSeq(Entry) /\ flagged \in BOOLEAN /\ news = 0
        /\ walker = "idle" /\ tool = "mark_read" /\ target = feed[1]
        /\ page = 0 /\ moved = FALSE /\ outcome = "none"

-----------------------------------------------------------------------------
\* getThreadsPage, getPosts: page p of the feed, and whether there is more.
OnPage(p) == LET last == (p + 1) * PageSize IN
             SubSeq(feed, p * PageSize + 1, IF last < Len(feed) THEN last ELSE Len(feed))
MorePages(p) == Len(feed) > (p + 1) * PageSize

\* mark_read walks only for callers that name no message.
Call(t, e) == /\ walker = "idle"
              /\ walker' = "walking" /\ tool' = t /\ target' = e
              /\ page' = 0 /\ moved' = FALSE /\ outcome' = "none"
              /\ UNCHANGED aula

\* The threads' walk stops unless more is announced, the posts' at an empty page or
\* when no more is announced.
StopsBeforeLast(p) == ~MorePages(p + 1)
LastPage(p) == IF tool = "mark_read" THEN ~(flagged /\ MorePages(p))
               ELSE OnPage(p) = <<>> \/ (flagged /\ ~MorePages(p))

Finds(p) == /\ Contains(OnPage(p), target)
            /\ tool = "mark_read" => target \notin Bare

PageRead == /\ walker = "walking"
            /\ page' = page + 1
            /\ \/ /\ Finds(page)
                  /\ walker' = IF tool = "mark_read" THEN "writing" ELSE "idle"
                  /\ outcome' = IF tool = "mark_read" THEN "none" ELSE "ok"
               \/ /\ ~Finds(page)
                  /\ LastPage(page) \/ page + 1 = MaxPages
                  /\ walker' = "idle" /\ outcome' = "missing"
               \/ /\ ~Finds(page)
                  /\ ~LastPage(page) /\ page + 1 < MaxPages
                  /\ UNCHANGED <<walker, outcome>>
            /\ UNCHANGED <<aula, tool, target, moved>>

\* setLastReadMessage.
MarkerSet == /\ walker = "writing"
             /\ walker' = "idle" /\ outcome' = "ok"
             /\ UNCHANGED <<aula, tool, target, page, moved>>

Throws == /\ walker # "idle"
          /\ walker' = "idle" /\ outcome' = "failed"
          /\ UNCHANGED <<aula, tool, target, page, moved>>

-----------------------------------------------------------------------------
Position(e) == IF Contains(feed, e) THEN CHOOSE i \in DOMAIN feed : feed[i] = e ELSE 0
Without(e) == IF Contains(feed, e) THEN RemoveAt(feed, Position(e)) ELSE feed

\* A new message, or a new entry, goes on top.
News(e) == /\ news < MaxNews
           /\ news' = news + 1
           /\ feed' = <<e>> \o Without(e)
           /\ moved' = (moved \/ e = target)
           /\ UNCHANGED <<flagged, walker, tool, target, page, outcome>>

Deleted(e) == /\ Contains(feed, e) /\ Len(feed) > 1
              /\ feed' = Without(e)
              /\ moved' = (moved \/ Position(e) <= Position(target))
              /\ UNCHANGED <<flagged, news, walker, tool, target, page, outcome>>

Serve == PageRead \/ MarkerSet \/ Throws
Next == \/ Serve
        \/ \E e \in Entry : News(e) \/ Deleted(e)
        \/ \E t \in {"mark_read", "get_attachment"}, e \in Entry : Call(t, e)

\* Every request is answered or fails.
Spec == Init /\ [][Next]_vars /\ WF_vars(Serve)

-----------------------------------------------------------------------------
TypeOK == /\ IsInjective(feed) /\ ToSet(feed) \subseteq Entry
          /\ flagged \in BOOLEAN /\ news \in 0..MaxNews
          /\ walker \in {"idle", "walking", "writing"} /\ target \in Entry
          /\ tool \in {"mark_read", "get_attachment"} /\ page \in 0..MaxPages
          /\ outcome \in {"none", "ok", "missing", "failed"}

\* A walk that came away empty-handed missed nothing that stood still, however many
\* pages it read and whatever news pushed the target down meanwhile: unless the target,
\* or an entry above it, left its place, it is not on a page the walk may look at
\* (tools.ts:607-637, 1133-1155).
MissIsExplained ==
    outcome = "missing" /\ ~moved =>
        \/ Position(target) = 0
        \/ Position(target) > MaxPages * PageSize
        \/ tool = "mark_read" /\ (target \in Bare \/ (~flagged /\ Position(target) > PageSize))

\* Every walk ends, however the feed moves (tools.ts:616-637, 1135-1155).
CallsEnd == []<>(walker = "idle")
=============================================================================
