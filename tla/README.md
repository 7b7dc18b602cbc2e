# A formal model of aula-mcp

aula-mcp gives an AI assistant read (and some write) access to Aula, the platform of the
Danish schools. A guardian logs in once with MitID; the tokens are kept on disk and
refreshed by every process that uses them: the HTTP server, the stdio server and the `aula`
command line. This directory holds TLA+ modules of the stateful parts of the program, the
TLC configurations that check them on small instances, and proofs, checked by TLAPS, for all
instances.

Line numbers refer to the files under `src/packages/*/src` and `src/apps/cli/src`.
`PROJECT.json` maps every definition that models code to the lines it models.

Contents: 1 the system, 2 the modules, 3 the runs, 4 fairness, 5 the proofs, 6 what the
models show about the code, 7 what is left out, 8 the plan.

## 1. The system

| Component | State | Operations | Talks to | Correct when |
|---|---|---|---|---|
| file lock (`aula-auth/file-lock.ts`) | a lock file, its mtime | acquire, reclaim, release | other processes, through the file system | one process inside at a time; abandoned locks are reclaimed; waiters end |
| token store, `withFreshTokens` (`token-store.ts`, `aula-oauth.ts`) | the record on disk, the lock | load, save, clear, refresh under the lock | authorization server, CLI commands, file lock | refresh tokens are used once; the stored one is the live one; logout is final |
| encryption key (`token-store.ts:226-316`) | key file, key in memory | resolve, create, seal, open | other processes | what is on disk can be decrypted after a restart |
| token refresher (`token-refresh.ts`) | cached record, load in flight, last error | getFresh, invalidate | `withFreshTokens`; all MCP sessions share it | one load at a time, no old answer after a failure or a logout |
| Aula context (`mcp-server/aula-context.ts`) | client, record, widget manager, guardian id, disposed | getClient, getWidgetManager, getGuardianUserId, invalidate, dispose, readiness | refresher, Aula client, file watcher | its parts belong to one session; a disposed context stays empty |
| Aula client (`aula-client/aula-client.ts`) | API version, its probe, profile context | ensureApiVersion, getJson, postJson, parseEnvelope | Aula | finds a served version, survives withdrawals, writes what it says it wrote |
| widget token manager (`widget-token-manager.ts`) | token and request per widget | get, invalidate, withRetry | Aula, third parties | a retry never uses the token that was just rejected |
| MCP tools (`mcp-server/tools.ts`, `discover.ts`) | the session they run on | about twenty handlers, each a few requests in a row | Aula context, Aula client | feed requests follow the bootstrap; a sick report writes only what was looked up; a walk does not miss what stands still |
| PDF extraction (`pdf-extract.ts`, `pdf-worker.ts`) | one worker process, two pipes, a deadline | extract | the worker, through its pipes | an answer is the whole text or an error; it comes, and no worker outlives it |
| calendar ranges, ISO weeks (`calendar-range.ts`, `integrations/types.ts`) | none | the four presets, week of a date, Monday of a week | tools, integrations | a preset is the local days it names; a date lies in the week it is given |
| HTTP server: sessions (`http-app.ts`, `sse-transport.ts`, `server.ts`) | sessions, request slots, routes | initialize, message, DELETE, disconnect, sweep, shutdown | MCP SDK transports, contexts | caps hold, slots come back, every app is closed once |
| HTTP server: budgets (`http-app.ts:205-230, 552-583`) | two fixed windows | take, roll | the request pipeline | bounded in any stretch of time |
| setup page (`setup-ui.ts`) | login sessions, runners, event streams, timers | start, events, identity, close | MitID client, token store, browser | bounded, ends, and its browser learns the outcome |
| attachment store (`attachments.ts:612-820`) | registry, directories, downloads in progress | init, fetch, resolve, sweep | file system, a second process | registry and disk agree; quotas hold; nothing is left behind |
| attachment download (`attachments.ts:369-569`) | one stream, its timers, its writes | redirect, stream, settle, rename | remote server, file system | within the cap, complete when ok, no file when failed |
| MitID client, poll loop, SRP (`mitid-client.ts`, `mitid-poll-machine.ts`, `srp.ts`) | the authenticator, its session key, the approval | init, identify, app or code token and password, finalize, abort | MitID, the user's app | each proof is for the authenticator MitID waits for; both sides get one key; the poll ends |
| login client, SAML flow (`aula-login-client.ts`, `aula-saml-flow.ts`) | the walk of one login | login, attemptSilentReauthorize | Aula's authorization server, broker, MitID client | tokens only after every factor, and for the state this login sent; it ends |
| HTTP client, cookies, loggers, wire tracer, configuration, discovery, integrations, CLI | little or none | | | see section 7 |

How they interact. A tool call of an MCP session asks its `AulaContext` for a client; the
context asks the process-wide `TokenRefresher`; that calls `withFreshTokens`, which may
enter the file lock, refresh, and save. The client then probes the API version, and the
integrations get a widget token. Other processes share only files: the token record, the
key, the lock and `cookies.json`. A login, from the command line or from the setup page,
runs the login client, which calls the MitID client in its middle, and ends in a save.
Within a process all concurrency is that of one event loop: anything may happen between two
`await`s, nothing between two statements.

What is hard: interleavings across `await` (cache read, then used), between processes on the
same files, crashes that leave a lock or a half-made pair of files, requests without a
timeout under a lock with one, handlers and timers that settle the same promise, and closing
something that is being used; walks through redirects the peers prolong; what was read in
one request and is acted on in the next. `PROJECT.json` lists each such place ("hazards")
with its line and the properties aimed at it.

## 2. The modules

| Module | Models | State and actions |
|---|---|---|
| `Mutex` | what the file lock promises | `holders`; `Enter`, `Leave` |
| `FileLock` | `acquireFileLock`, `withFileLock` | each awaited call is an action: `PathIsFree`/`OpenCreates`/`OpenExists` (`open 'wx'`), `WriteOk`, `WriteFails`, `StatGone/Stale/Wait/TimesOut`, `Reclaim`, `Wake`, `Release`; `Crash`; `Tick` ages file, waits and holds together. `reclaimed`, `disturbed`, `undeletable` are history |
| `FreshTokens` | `withFreshTokens` beside `login`, `logout`, `refresh-stepup` and the setup page's `POST /logout` | uses `Mutex`'s `Enter`/`Leave` for the lock. `store` is the record on disk, tokens are numbers in order of issue, `spent` and `live` belong to the authorization server. Load, lock, reload, request, re-read and save are actions; requests may be lost before or after the server acts, saves may fail, processes may die. `happened` is history |
| `KeyFile` | `resolveKey` with `load`, `save`, `clear` | a sealed record is known by its key; the atomic renames are single steps; crash and full disk between them |
| `TokenRefresher` | `getFresh`, `invalidate` | a load is `withFreshTokens` seen from outside: read, fresh or refreshed or adopted, or an error. A promise and its continuations settle in one step |
| `Readiness` | `readiness()` and `/readyz` | extends `TokenRefresher`: some of its callers may be probes. `errorAge` ages the failure memory of the refresher, which any caller's failure renews; `quiet` is history |
| `AulaContext` | extends `TokenRefresher` | the callers are contexts; `LoadSucceeds` and `LoadFails` are the refresher's step together with `loadClient` and the continuations of `getClient` in every context that waits |
| `AulaApi` | the request path of `AulaClient` | `probing` is the version the shared probe asks for; a call is at one await; `Boot` is the profile-context request shared by POSTs; `Withdraw` and `Release` change what Aula serves at any time |
| `WidgetTokens` | `WidgetTokenManager` for one widget | tokens are numbers in order of issue; requests in flight are shared; the third party may reject any token |
| `HttpSessions` | slots, sessions, routes, sweep, shutdown | an app is the server, context and transport of one session; handlers are split at their awaits; transports answer and call back when they like |
| `RateLimits` | `FixedWindow` twice, around authentication | counts and ages; `admitted` is history |
| `LoginStarts` | the limit on `POST /login/start` | the list of accepted starts by their ages; `accepted` is history |
| `SetupLogin` | `createSetupApp` and `runLogin` | `POST /login/start` is two actions, before and after it awaits its body, and `close` may come between; the runner moves through walk, poll, complete, offer, pick, finish, save; events are numbers; a stream is at drain, hold or an end; timers are actions |
| `AttachmentStore` | the registry on a shared directory | a task is one `fetch`, expired `resolve` or sweep; each file system call is an action; registry order is creation order |
| `Download` | `downloadAttachment`, `streamToFile` | sizes in chunks; each event handler, timer and write is an action |
| `MitidClient` | `MitidClient`: both methods, the poll loop, its deadline and abort | `loc` is the request or wait the login is suspended at; an action is one answer. An authenticator is the number MitID gave it, and its session, flow key and hash are that number |
| `AulaLogin` | `AulaLoginClient.login`, `attemptSilentReauthorize` | extends `MitidClient`: redirect loops with their hop counts, the broker page, the SAML hand-offs, the callback in its three places, the code exchange. A page is the set of features its parsers look for; peers answer anything |
| `LoginPromise` | what a login promises | `stage`, `factors`: every factor of the method in order, then the assertion, then tokens, once |
| `Srp` | the SRP handshake of one factor | a group of 23 elements; a hash is a value both sides compute alike; JavaScript's `%`; MitID's side is the definition of SRP-6a |
| `ToolCalls` | every tool handler as the sequence of its awaited steps | `todo` holds the steps left; `memo` is the memoised guardian id, by the session it was asked with; `primed` is what Aula remembers; tokens rotate between any two steps, and the watcher follows when it likes. `fresh` and `settled` are history: the calls that began when a rotation had been followed up |
| `PresenceTools` | `aula.presence.report_sick` | profiles, overview, write; staff and other calls change the statuses in between; a write or its answer may be lost |
| `FeedTools` | the walks of `mark_read` and `get_attachment` | a feed newest first; entries move up and are deleted between pages; `moved` is history |
| `PdfExtract` | `extractPdfText` with its worker | chunks in two pipes of limited room; the deadline, the cap, the exit of the worker and the ends of the pipes are actions in any order |
| `CalendarRange` | the four presets | an instant is an hour; both changes of the clocks occur; each request is an action |
| `IsoWeeks` | `isoWeekString`, `isoWeekToMonday` | a day is an integer; the clock goes through ten years |
| `MCFreshTokens`, `MCAulaContext`, `MCAttachmentStore` | TLC instances with their symmetry sets (and the view of `MCAulaContext`) | |
| `MCParts` | nine components that share no state, as one TLC model: `KeyFile`, `Readiness`, `WidgetTokens`, `RateLimits`, `LoginStarts`, `Download`, `AulaApi`, `AulaLogin`, `Srp` | `part` picks one in the initial state and the others rest; the reachable states are the disjoint union of theirs |
| `MCTools` | seven, likewise: `FileLock`, `ToolCalls`, `PresenceTools`, `FeedTools`, `PdfExtract`, `CalendarRange`, `IsoWeeks` | the same |
| `FileLock_proofs`, `FreshTokens_proofs`, `Context_proofs`, `HttpSessions_proofs`, `SetupLogin_proofs`, `AttachmentStore_proofs` | theorems about one module each (`Context_proofs`: `AulaContext`) | see section 5 |
| `Parts_proofs`, `Tools_proofs` | theorems about the nine components of `MCParts` and the seven of `MCTools` | the same; `Tools_proofs` extends `FileLock_proofs` |

Composition: `FileLock` implements `Mutex` (checked and proved), `FreshTokens` uses `Mutex`;
`AulaContext` and `Readiness` are built on `TokenRefresher`, whose loads are what
`FreshTokens` shows of one call; `AulaLogin` is built on `MitidClient` and implements
`LoginPromise`, and what `SetupLogin` calls the walk is one such login. History variables
are read by no action.

Faults are a constant set in most modules, so that a run can say which failures it is about.
Every bound is a constant: `MaxCalls`, `MaxHold`, `MaxTok`, `MaxVer`, `MaxLoad`,
`MaxApi`/`MaxNewest`, `MaxKeys`, `MaxProgress`, `MaxBody`, `MaxRedirects`, `MaxRotations`,
`MaxNews`, `MaxChatter`, `MaxIssued`, `MaxExponent`, `Weeks`, `FirstYear`/`LastYear`. The
assumptions on the constants of a module that is only instantiated are a definition
(`...Assumption`) which `MCParts`, `MCTools` or `MCAulaContext` assumes, so that TLC
evaluates them.

## 3. The runs

Passing runs (the number of states is that of the instance in the `.cfg`):

| Run | Checks | What it shows | Bounds, and why they are enough |
|---|---|---|---|
| `tokens` | `SingleUse`, `StoreRedeemable`, `RecordConsistent` | with login, logout, the setup page's logout and refresh-stepup beside two refreshers and all faults | 2 processes, 2 guardians, 4 tokens, 2 calls: enough for one refresher to queue behind another's refresh with a login between them; 3.8 million states |
| `context` | `CTypeOK`, `OneSession` | client, record and widget manager belong together; a disposed context stays empty | 2 contexts on one refresher, 2 versions, a watched file; 1.1 million states. The view drops the refresher's history variables, which no action and no property here reads |
| `http` | `TypeOK`, `SessionsCapped`, `AppsAccountedFor`, `IdleSessionsEnd`, `RoutesReturn` | caps, slots, disposals and apps add up; idle sessions are evicted; streaming routes return and slots come back | 2 requests, 2 apps, caps of 1: two initialize requests overlap, and a DELETE meets a sweep; `IdleMs` 0, so that a session is idle as soon as nothing uses it; 118 thousand states |
| `setup` | `TypeOK`, `LoginsBounded`, `StreamsSeeTheEnd`, `SessionsRemoved` | two logins, with abort, time box, retention and close at any point, between the request of a login and its body too | one active login allowed, one progress event, one event stream on one of the logins (`Watched`); sessions share no events, so a second watched one adds nothing; with two logins, one may start after `close` beside the other's aborted runner; 788 thousand states |
| `attachments` | `TypeOK`, `RegisteredIsOnDisk`, `NothingLeaks`, `QuotaHeld` | registry, quota and directories across concurrent evictions, expiry and failed removals | 3 tasks, 3 attachments, sizes below, at and over the quota of 3; two downloads at a time; 229 thousand states |
| `parts` | `PartsTypeOK`; `TokensStayReadable`; `AnswersAreRecent`, `ProbesAreSpaced`; `RetryIsNewer`; `AnySpanBounded`; `AnswerMatchesFile`; `FollowsWithdrawals`, `PostHasContext`; `InStep`, `ImplementsPromise`; `SecretsAgree`; `EveryCallEnds` | nine components, see below | 210 thousand states |
| `tools` | `ToolsTypeOK`; `ExclusiveUnlessReclaimed`, `ImplementsMutex`; `PrimedBeforeFeed`; `WritesAreVetted`; `MissIsExplained`; `AnswerIsWhole`; `DatesAgree`; `EveryCallEnds` | seven components, see below | 261 thousand states |

In `parts`:

- keys: 2 processes in their first save, 3 keys: each may make one, and a third may start;
- refresher: 2 callers, each a tool call or a probe of `/readyz` as it likes, 2 versions of
  the tokens, loads of up to one tick, a recheck interval of one and a grace window of two:
  a probe fails, a tool call's failure renews the memory, and another probe comes;
- login: the hop limits are the code's own (15, 16, 10 and 10), so every loop may run out;
  the poll deadline is 4 intervals, and MitID issues up to 3 authenticators (code token,
  password, and one nobody asked for). `ImplementsPromise` maps `loc` and the accepted
  factors to `LoginPromise`;
- SRP: 23 elements with generator 5, both secrets, both hashes and the multiplier from 0 to
  3: B minus k times the verifier is negative in many of them; the theorem
  `BothDeriveTheSecret` is about all groups and numbers;
- Aula API: 2 calls, one a POST, and the bootstrap; versions 1 to 3 and one beyond. Version
  properties exempt (`mixed`, `excused`) what section 6 says of them;
- widgets: 4 tokens; windows of 3 ticks, and 2 starts of a login in one; download bodies up
  to one chunk over a cap of 3.

In `tools`:

- file lock: 3 processes, one call each (two waiters and a holder: the race of two
  reclaimers needs no more); `StaleMs` 2 and holds up to 3, so that a holder can be slow;
- tool calls: 2 of them, of any tool, and one rotation, with a watched token file;
- sick reports: 2 calls, 2 own children and one other, so that a call may name a child that
  is reportable, one that is not and one that is not the guardian's;
- feeds: 4 entries, one to a page, walks of at most 3 pages (one entry is always out of
  reach), 2 pieces of news;
- PDF: pipes of 2 chunks, a cap of 3 chunks, up to 3 chunks of chatter, so that a pipe
  nobody drains would block the worker;
- calendar: 5 weeks, one with a day of 23 hours and one with a day of 25;
- ISO weeks: every day of 2019 to 2028, which has years of 53 weeks (2020, 2026), leap
  years, and New Years on every side of the rule.

The type invariant of `FreshTokens`, and `NoReclaimUndisturbed`, are in no run: they are
proved (section 5).

Runs in which a statement of the repository about itself is refuted (section 6):
`filelock_race`, `tokens_resurrect`, `api_write`, `tools_unprimed`, `download_truncated`.

`CHECK_DEADLOCK FALSE` appears where the system may stop: `tokens` (its calls and tokens are
bounded, and all processes may have died), `http` (the server has stopped), `setup` (the
page has been closed) and the violation runs on `FreshTokens` and `Download`. In `MCParts`
and `MCTools` a download, a login, an extraction and a calendar that are over stutter
explicitly (`Over`), so deadlock is checked there. Symmetry is used only in runs without
liveness properties.

## 4. Fairness

- `HttpSessions`: handlers go on, a transport that is closing closes, `connect` settles, the
  clock and the sweeper run. Answers to calls are assumed only while their transport is
  live: the SDK gives none after it has been closed, which is why the slots part of
  `RoutesReturn` exempts requests whose transport was closed under them.
- `SetupLogin`: the runner goes on and its timers fire. `Run` includes the requests of a
  login. They have no timeout in `http.ts`, so their end is an assumption; the abort signal
  is not assumed to be looked at anywhere but where the code does. The time box and the
  retention are timers of a session the page knows, one that began after `close` included;
  `close` clears the timers of the sessions it drops. Bodies of requests are not forced to
  arrive.
- `MCParts` and `MCTools`: weak fairness of the steps a running program takes by itself. The
  load of a refresher settles and a probe goes on; a request to Aula or MitID is answered or
  fails; timers fire, writes finish, a worker's pipes are drained; the clock (`Tick`) goes
  on, and a process at the lock takes its next step. Crashes, calls, staff, rotations,
  chunks that arrive and failed unlinks are never forced. Requests have no timeout in
  `http.ts`: that they are answered or fail is an assumption about the network, not about
  the code.

"Every call ends" is stated per caller as `[]<>` "is not in a call", which also covers
callers that call again. `EveryCallEnds` is one such conjunct per component. Users are not
forced: the login part exempts a login that waits for a person's input (a code or password,
the choice of an identity); waiting for the MitID app is not exempt, since the poll has a
deadline. The lock part exempts a lock that cannot be unlinked (section 6).

## 5. The proofs

TLC checks the instances of section 3. The theorems hold for every value of the constants:
any number of processes, callers, requests or sessions, all caps, windows and bounds. Each
follows the same argument: an invariant that is inductive and stronger than the property, a
lemma that one step of each action keeps it, and a last temporal step. `MCParts` and
`MCTools` run one of several components, so that a step of theirs is a step, or none, of
each component (`PartSteps`, `ToolSteps`); a component's own invariant then carries over.
What made each property inductive:

`FileLock_proofs`:

- `TypeCorrect`: `Spec => []TypeOK`.
- `Exclusion`: mutual exclusion does not follow by itself; `OwnsFile` says that, before any
  reclaim, a process inside is the one whose `open('wx')` made the file. Only `OpenCreates`
  makes the file, and only `Reclaim`, or a release by its owner, removes it.
- `NoReclaim`: `FileIsLive` adds that, undisturbed, the lock file belongs to a process that
  is inside and is no older than that hold, which is at most `StaleMs`; so no `stat` finds
  it stale.
- `Refinement`: `Spec => ImplementsMutex`, step by step from the same invariants.

`FreshTokens_proofs`, for all processes, guardians and commands:

- `TypeCorrect`, through `Typed`, which adds the shapes of the records a process holds at
  each await.
- `RefreshTokensAreSingleUse`, `StoreStaysRedeemable`, assuming `Locked` (the store has a
  lock path). `RefreshInv` adds: who is past the lock holds it alone (`Section`); what is
  stored or carried has been issued, and a record that has replaced the one a refresher
  works on holds another refresh token (`Known`); a process in the section carries unspent
  tokens (`Unspent`). The second part of `Known` makes the final re-read sufficient:
  equality of refresh tokens decides whether to save. The properties exempt runs after a
  fault (lost answer, full disk, crash).
- `RecordStaysConsistent`, assuming `Locked`, with all faults: `Sane` says that while a
  refresher works, the store is what it has read, or newer and still valid, or gone, and
  that what it is about to save belongs to the guardian whose record it read. A process
  that died inside holds the lock for ever (`Alone`), so unlike `Section` this survives
  crashes. `Strange`, the two exceptions the property itself makes, is kept by every step.

`Context_proofs`, on the refresher: `ContextsKeepOneSession` (`Kept`: the three maps keep
their shape through the answers that several contexts take in one step) and `ContextsTyped`,
which needs `Waits`: a context waits for `getClient` exactly while somebody wants something
of it.

`HttpSessions_proofs`:

- `AppsAreAccountedFor`: `Owned` gives every new app one request that is building it, and
  every app at most one disposal, after which it is gone.
- `SessionsStayCapped`: the check of the cap and the entry into the map are separated by
  awaits. `Slots` counts the holders of slots exactly and puts every building request among
  them, so that what overlaps is at most `MaxConcurrent - 1` above the cap (`Capped`).
- `ServerTyped`, which includes that the counter of slots is between 0 and its cap.

`SetupLogin_proofs`:

- `LoginsTyped`: `Counted` bounds the events a login may have emitted by where its runner
  is; without it the numbers of events have no bound.
- `LoginsStayBounded`: whoever walks MitID is known, so that `activeLogins()` counts it, or
  was dropped and aborted by `close`; the count a start reads after its body has arrived is
  that of the known ones (`Counting`).
- `LateStreamsSeeTheEnd`: `Sees` follows the terminal event: buffered until the stream
  attaches, then still to be drained or sent, then sent. `LastWord` says that nothing is
  emitted after it.

`AttachmentStore_proofs`:

- `NoDirectoryIsForgotten`: `Owned` gives an id one owner (a registry, a call that fills it
  or one that removes it, of one process), `Homed` says each directory has such an owner.
- `RegisteredStaysOnDisk`, assuming that one process uses the root (`Alone`): a second one's
  purge breaks it (section 6). `Stored` adds that no call gets past `init` before the purge
  is over.
- `QuotasAreHeld`: bytes are counted one by one (`Held`), so that the total is a
  cardinality; evictions and removals hold less, and a newcomer is registered in the turn
  that found room for it.
- `StoreTyped`: `Slotted` counts the downloads exactly.

`Parts_proofs`:

- `RetriesUseNewerTokens`: the token of an answer under way is the newest there is and
  nobody has it yet (`Newest`).
- `TokensStayDecryptable`: until there is a key file one process at a time is inside
  (`OneFirstUse`), it makes a key only where there is none, and what is cached is what the
  others will read. It assumes `Given \in {{}, Proc}`: all processes are given the key in
  the environment, or none is. With a mixture the property is false, because two keys are
  then in use by configuration; run `parts` has none given.
- `DownloadsAnswerTruly`: `Chunks`: what was accepted is written or waits to be, unless the
  download has failed or a write failed after `end` (`lost`, the case of section 6).
- `WithdrawalsAreFollowed`, `PostsHaveContext`: `Together` says that all calls past the
  probe use the version verified last, and that while there is none all others wait for the
  probe; `Selection`, that a POST is past the bootstrap only after it answered or failed.
- `AnswersFollowTheStore`: `OneLoad` (the load in flight is the only one, and the only one
  anybody waits for), `Recent` (what a load has read left the store, if it did, after the
  load began; what is cached, at most one load before that) and `Reread` (no load but one that had
  read the store when `invalidate` came answers with what it read before). That case is the
  exemption `missed` (section 6); the age of its answer is bounded by `Recent`.
- `ProbesKeepTheirDistance`: since a probe's own load failed, the failure memory has been at
  least as young as that (`FailureKnown`); only a probe that refreshes restarts `quiet`.
- `ProofsFit`, `LoginsKeepThePromise`: `Factors` reads the accepted factors off the place
  where the call waits; `Fits` keeps the client's authenticator equal to MitID's. With these
  every step of the login is a step of `LoginPromise` or a stutter.
- `SpansAreBounded`: for the budgets, `Spans` attributes what was admitted in the last
  window to the current fixed window, which has counted it, or to the one before, which had
  the same limit. For the setup page, the ages on the list and the starts of the last window
  are in a bijection (`Matched`), and the list is in order, so that dropping its old front
  drops what is over and nothing else.
- `BothDeriveTheSecret`: square and multiply with JavaScript's signed remainder computes the
  power (`SquaresAndMultiplies`), and (k v + g^b - k v)^(u x + a) is (g^a v^u)^b modulo N
  when v = g^x. It needs the laws of powers modulo N, for all N, which are proved here from
  the definition of the remainder.
- `PartsTyped`: `[]PartsTypeOK`. Beyond the invariants above it needs what bounds each loop
  (`Rounds` of the login; a verified version is one Aula serves, `ApiTypes`; the numbers of
  requests within one tick, `LimitTypes` and `StartTypes`).

`Tools_proofs`:

- `ReportsAreVetted`: `Vetted`: a call about to write has had its children checked, and the
  statuses if it takes a report back. The overview may be old (section 6).
- `TextIsWhole`: `PipesHold` relates the call and the worker: who was killed, why, and what
  is in the pipe.
- `WalksMissNothing`: `WalkInv`: a walk that reads on has the target still to come if it
  stood still, and one that gave up has been past every page it may read.
- `FeedsArePrimed`: `Fit`: what is left of a handler asks of the session only after it has a
  client, and reads a feed only after the session is primed; `Recent`: once the watcher has
  followed a rotation up with no older `getProfileContext` under way, nothing memoised, asked
  or held by a call begun since is of older tokens. Calls begun earlier are the exemption
  (section 6, `tools_unprimed`).
- `DatesAgreeAlways`: the invariant is only that a held week is the one computed from the
  day (`IsoInv`); the rest is arithmetic: local midnights under both changes of the clocks,
  and, for any years, that the ISO week of a day leads back to its Monday.
- `ToolsTyped`: `[]ToolsTypeOK`.

Assumptions. The `ASSUME`s type the constants and keep sentinels (`None`, "cache") out of
the sets they mark; beyond that a window is at least one tick (`RateLimits`), a group has at
least two elements and a generator below N (`Srp`), the versions Aula may release are fewer
than those a client may try (`AulaApi`, a bound of the model), the clocks change in spring,
then in autumn, before the last week (`CalendarRange`), and a feed has finitely many entries
(`FeedTools`). `Locked`, `Alone` and `Given \in {{}, Proc}` are hypotheses of the theorems
named. `FreshTokens` rests on `Mutex`, and `Refinement` shows that `FileLock` implements it
until the first disturbance; afterwards neither does, which is section 6.

What the proofs changed. `Login!TypeOK` allowed a hop up to `ChainHops` only, which held
of the instance because that limit is the largest of the three: each loop has its own limit
now. `Rem` and the power are defined for every group rather than for the table of one, and
the total of the attachments is counted byte by byte, so that both could be reasoned about.
Types that TLC had found true for small sets had to be strengthened before they were
inductive, most of all in `SetupLogin` (`Counted`) and the login (`Rounds`).

Induction. The library's induction theorems take an operator as a parameter, which the
provers cannot instantiate. Where a proof needs induction over numbers (the powers and the
loop of `Srp`) it uses the least element of a set of numbers instead (`WFMin`; lemma
`Induction`).

Only model-checked: all liveness (`EveryCallEnds`, `IdleSessionsEnd`, `RoutesReturn`,
`SessionsRemoved`), which needs fairness and ENABLED. Every invariant and action property
of a passing run is proved. `NoReclaimUndisturbed` and the type invariant of `FreshTokens`
are in no run.

## 6. What the models show about the code

Refuted by a run (quotes and lines in `PROJECT.json`, "findings"):

- `filelock_race`: `stat` and `unlink` of a stale lock are separate and go by path; the
  slower of two waiters removes the lock the faster has just made, and both run.
- `tokens_resurrect`: `logout` takes no lock; between the last read and the save of a
  refresh it is undone.
- `api_write`: a POST that meets a 410 is retried as a GET and reported as done.
- `tools_unprimed`: where no token file is watched, a rotation replaces the client but keeps
  the memoised guardian id, so the next feed tool asks the new session without the bootstrap
  Aula wants first.
- `download_truncated`: a write that fails after `end` is not noticed; a truncated file is
  reported as ok.

Seen while modelling, and expressed in the models as the exception a property makes or as a
constant that can be set, but not run:

- a waiter spins between `stat` and `unlink` while a stale lock cannot be removed, and never
  looks at its timeout (`file-lock.ts:82`; `undeletable`);
- a live holder slower than `staleMs` loses its lock (`file-lock.ts:80`; `disturbed`);
- newer tokens written by a login between re-read and save are overwritten
  (`token-store.ts:454`); `refresh-stepup` may save another guardian's tokens under the
  stored username (`refresh-stepup.ts:65`; `happened`);
- a keychain store has no lock, so two processes may present the same refresh token
  (`token-store.ts:463`; `Locked = FALSE`);
- two processes in their first save may each make a key (`token-store.ts:247`; `raced`);
- an `invalidate` during a load that has already read the store is lost
  (`token-refresh.ts:108`; `missed`), while one that meets a load which has yet to read is
  not;
- two late 410s of the same version bump it twice, and a 410 during another call's re-probe
  is thrown (`aula-client.ts:492-497`; `mixed`). The URL of a POST is built before its
  bootstrap, so a re-probe there makes its own 410 the second one;
- overlapping initialize requests exceed the session cap (`http-app.ts:267`; `overlapped`);
  shutdown closes sessions before their requests have ended (`server.ts:149`);
- requests that fail authentication use the general budget first (`http-app.ts:207`), and
  the failure budget does not stop a correct credential (`http-app.ts:221`);
- `POST /login/start` looks at `closed` before it awaits its body and never again, so a
  login may start after `close()` has emptied the map, beside runners that `close()` aborted
  and that still walk to the next place that looks at the signal; its own time box and
  retention still run (`setup-ui.ts:351-354, 492-497`; `LoginsBounded` bounds what the page
  knows, and says of the others that `close()` aborted them);
- a second event stream of the same login replaces the first, which then ends without the
  terminal event (`setup-ui.ts:429`); tokens may be saved after the time box has fired
  (`setup-ui.ts:624`);
- a start of a login that is exactly `loginWindowMs` old still counts, while `Retry-After` then says
  0 (`setup-ui.ts:366, 371`; `Counts`);
- `POST /logout` of the setup page clears the record but leaves `cookies.json`, the broker's
  session in it, which `aula logout` removes (`setup-ui.ts:477`, `logout.ts:18`);
- `readiness()` itself refreshes an expired record, unless a failure of the last grace
  window is remembered (`aula-context.ts:225-230`; `ProbesAreSpaced`); the comment in
  `server.ts:71-73` says "without this probe issuing its own refreshes";
- `followRedirects` answers a 307 or 308 that comes after a 302 by sending the original POST
  and body again (`http.ts:206-208`; `verb`);
- a sick report is vetted against an overview that is one request old; what the staff write
  in between is overwritten (`tools.ts:535`; `WritesAreVetted` speaks of the overview that
  was read);
- a walk through a feed misses an entry that moves to a page already read, and says it was
  not found (`tools.ts:617`; `moved`);
- days are added as 24 hours (`calendar-range.ts:48`), so a boundary beyond a change of the
  clocks is an hour off local midnight, although line 6 says "The school day boundary is
  local midnight."; `DatesAgree` asks of every other boundary that it is exact, and of these
  only that they are no more than an hour off, which true midnights would satisfy too. The
  weekly tools take the week in UTC (`tools.ts:96`), which for the first
  hours of a Monday is the week before;
- `pdf-worker.ts` may write a second JSON object when destroying the document fails after
  the text was written; the answer is then an error, never half a text (`AnswerIsWhole`);
- a second process on the same root purges the attachments of the first
  (`attachments.ts:670`; `Proc` with two members makes `RegisteredIsOnDisk` fail), a
  download that throws leaves its directory (`attachments.ts:718`; `failed`), and so does a
  failing close or rename (`attachments.ts:561`), whose call rejects instead of answering.

## 7. What is left out

- Data: contents of messages, tokens, cookies, profiles; logging, redaction, wording. The
  wire tracer and the loggers (`wire-tracer.ts`, `logger.ts`, `login-log.ts`) format text.
- `http.ts`, `cookies.ts`: requests and `followRedirects` are in `AulaLogin`; cookies are
  data that no branch of the modelled code depends on. Where a request without timeout
  matters it appears as a step that may take any time.
- `FreshTokens`: the save of the tokens and the write of `cookies.json` by `login` are one
  step, as are `clear` and the unlink by `logout`.
- `AulaLogin`, `MitidClient`: hashes, ciphers, encodings and the parsers of pages. A parser
  is the feature it looks for, present or absent; `Srp` has the arithmetic, over a small
  group.
- `HttpSessions`: a request that is refused before it gets a slot; Host and Origin checks,
  which are pure checks of text, as is the URL and address policy of attachments.
- `SetupLogin`: the administrator check and the checks of headers and user names, which are pure,
  and `GET /status`, which only reads.
- `AttachmentStore`: `makeRoom`'s last comparison and the registration run in one turn of
  the event loop and are one step; `dispose()` is called by tests only; `resolve` of a live
  entry changes nothing.
- `ToolCalls`: validation of arguments and reshaping of answers. Which attachment an index
  means when a post is edited between two calls (`tools.ts:1073`), and a record and a
  guardian id of two logins in one answer (`tools.ts:846`), are not told apart.
- `PdfExtract`: a read error on the worker's standard output.
- `discover.ts`: its requests are in `ToolCalls`; the inference of platforms is a table
  look-up. `config.ts` parses the environment once. The integrations beyond their weeks and
  widget tokens, and the command line beyond its use of the store, keep no state: they send
  one request and reshape or print its answer.

## 8. The plan

Order of work, the most important behaviour first. Done: file lock and its refinement of the
mutex; token refresh on top of it; the refresher, the contexts and the readiness probe on
top of that; the API client and the widget tokens; the HTTP sessions and budgets; the setup
page; the attachments; the login with its MitID part and SRP; the tools; PDF extraction;
calendar and weeks.

Proved: every invariant and action property the passing runs check, and the refinements
`ImplementsMutex` and `ImplementsPromise` (section 5). Worth proving next:

1. what the properties exempt, made exact: `TokensStayDecryptable` for processes some of
   which are given the key, with the tokens sealed under it told apart; `RegisteredIsOnDisk`
   for a second process that starts after the first one's directories are gone;
2. `WindowsAreExact` and `WeeksAgree` without the step to the clock, as lemmas about the
   operators alone;
3. a refinement between `FreshTokens` and `TokenRefresher`: a load of the refresher is what
   one call of `withFreshTokens` shows to its caller;
4. the safety part of liveness: that some step is always possible where a call is under way,
   stated without ENABLED as a disjunction of guards.

Left to model: the pure checks (the setup page's administrator check, the URL policy of
attachments, Host and Origin, the inference of `discover.ts`, `config.ts`) against reference
definitions. Small additions join the instance of `MCParts`
or `MCTools`; the refuting runs are kept to one per subsystem.
