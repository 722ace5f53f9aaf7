# A TLA+ model of go-irmik

go-irmik is a Go web framework: file-based pages in several rendering modes,
sessions, authentication, job queues, WebSockets and Server-Sent Events, with
memory, SQL and Redis backends behind small interfaces. This directory models
the parts of it that keep state and are used by several goroutines at once. Each
module is written from the source; the comments in the modules and the lines
below name the code they stand for (paths are relative to `src/irmik` unless they
begin with `internal/` or `examples/`).

- [The system](#the-system)
- [How the parts interact](#how-the-parts-interact)
- [The modules](#the-modules)
- [The runs](#the-runs)
- [Fairness](#fairness)
- [What is proved](#what-is-proved)
- [Where the code and its documents disagree](#where-the-code-and-its-documents-disagree)
- [What is not modelled](#what-is-not-modelled)
- [What is left](#what-is-left)

Check a model with `tlc -config WsHub_safe.cfg WsHub.tla`, a proof with
`tlapm WsHubProofs.tla`. Every run ends within four minutes on two cores.

## The system

| Component | State it keeps | Operations | What is hard |
|---|---|---|---|
| WebSocket hub (`ws/ws.go`) | `clients`, `rooms`, `done`, the channels `register`, `unregister`, `broadcast`, each client's `send` channel and rooms | `Start`, `Handler`, `Broadcast`, `BroadcastRoom`, `JoinRoom`, `Close`; the loop, a read and a write pump per connection | one loop serves all connections; it closes `send` channels others write to; `Close` at any moment; slow consumers; full channels |
| ISR pages (`router/router.go`, `cache/`) | the page cache (memory, disk or Redis), `inflight` | `serveISR`, background revalidation, `Get`, `Set`, `Delete`, `Clear` | stale data stored over fresh data; one revalidation per page; expiry decided outside a lock; failures |
| Sessions (`session/`, `auth`, `csrf`, `admin` flash) | the store, the browser's cookie, the `Session` of each request in flight | load, persist, `Regenerate`, `Destroy`, `Clear`, `Save`, `SetFlash`, `LoginSession`, `LogoutSession`, `ensureToken` | concurrent requests of one browser; a save after the response has begun; panics and store errors between two saves |
| Job queues (`queue/queue.go`, `queue/asynqx/asynqx.go`) | the channel, `closed`, `quit`, the wait group; the asynq server and client | `New`, `Enqueue`, `Run`, `Close` | `Close` against senders, delayed goroutines and workers |
| Refresh tokens (`auth/refresh.go`, `auth/jwt.go`) | outstanding tokens, revocations and when each ends | `IssueTokenPair`, `Refresh`, `RevokeUser`, garbage collection | one use under concurrency; boundaries of time; restarts that forget while signed tokens live on |
| Application lifecycle (`app.go`, `lifecycle/lifecycle.go`) | the HTTP server, the readiness flag, `errCh`, whether the stores are open | `Run`, `Serve`, hooks, shutdown with a timeout | cancellation against startup; handlers that never return, or that nobody waits for; order of closing |
| Server-Sent Events (`sse/sse.go`, `sse/hub.go`) | subscribers and their channels, the state of each stream | `Handler`, `Subscribe`, `Unsubscribe`, `Broadcast`, `Attach`, `Send`, heartbeat | a channel closed while others send; a writer that outlives its handler; goroutines left behind |
| Rate limiter (`middleware/ratelimit.go`) | a bucket per client | `Allow`, collection of idle buckets | readings of the clock out of order; forgetting what a client spent |
| Template engine and dev reload (`render/`, `internal/hmr`, `devtools/`) | compiled templates with a generation, pending changes, a debounce timer, overlays | `Watch`, `Reload`, `getCompiled`, `RemountPages` | a compilation that began before a reload; two timers; lost events |
| Image pipeline (`imagex/`) | variants in memory and on disk | lookup, render, store | readers of half-written files; crashes |
| RBAC (`rbac/`, `rbac/store`) | the tables of roles, permissions and assignments; a `Registry` | `Grant`, `AssignRole`, `SeedPresets`, `LoadRegistry`, the functions of the Registry, the guards | two queries for one snapshot; several statements without a transaction; names trimmed in some places |
| Scheduler (`scheduler/`) | jobs, tickers, a cron runner per time zone, a wait group | `Add`, `Run` | cancellation against ticks and runs in flight; overlapping runs; a wait nobody ends |
| gRPC server (`grpcx/`) | the listener, `errCh`, the calls in progress | `ListenAndServe` | a graceful stop with a hard limit, and an error of `Serve` nobody receives |
| Static export (`internal/build`), routes (`router/router.go`) | `out/`, `sitemap.xml`, seeds of the page cache; the directory tree | `Discover`, `Export`, `serveStatic`, `serveSSG`, `serveISR` | exports that fail half way, over the files and seeds of earlier ones; edits while one runs |
| Storage (`storage/`, `s3x`), uploads (`upload/`) | a file and a sidecar per object; a directory of uploads | `Put`, `Get`, `Stat`, `Delete`; `Save` | two files for one object; errors that are dropped; callers of one key or one name at once |
| Islands (`island/`) | the manifest of the last Vite build | `MountPages`, `ReloadManifest`, `Render`, `Scripts` | builds and reloads between two islands of a page; styles shared by imports, which may be cyclic |
| Admin example (`examples/admin`) | a table of items, sessions, access and refresh tokens | the pages, the JSON API, the token endpoints | ids of deleted rows; a rotating token tried with several users |
| Migrations (`migrate/`, `internal/cli/migrate.go`) | the files of a directory; the schema, its version and a dirty mark in the database | `Create`, `Up`, `Down`, `Steps`, the command's flags | deploys that overlap or are killed; files written half; versions that are times, merged out of order |
| Secrets, health, OAuth | external services | thin wrappers | |
| The rest: configuration, plugins, databases, OpenAPI, forms, audit, mail, telemetry, CLI, other examples | none shared between requests, or an external library's | per call | |

What makes each of the modelled parts correct, in one sentence:

- **WebSocket hub**: nobody sends on or closes a closed channel (both panic the
  process); a client in the hub has a live handler; every client gets the messages
  of its rooms in the order the hub accepted them; nobody waits forever on the hub.
- **ISR**: one goroutine revalidates a page; what a request gets is not
  staler than the route and the renders in flight explain; with traffic the cache
  converges to the current page.
- **Sessions**: no browser runs as the user of another; a login never promotes an
  id the browser already had; for a browser that waits for its answers the session
  is a register; a flash is read once.
- **Queues**: an accepted job runs unless the queue is closed or the
  worker stopped; the Close that closed it returns, and leaves no goroutine behind.
- **Refresh tokens**: a token is exchanged at most once, and never after its
  revocation, restarts included.
- **Lifecycle**: after a graceful stop the stores are closed only when no handler of an HTTP
  connection runs (a WebSocket's has taken its connection over and is not waited for); a ready
  application has its stores open; a cancelled application stops.
- **SSE**: no write to a response that is over, the events of each producer in order,
  and nothing of a stream left behind when its client is gone.
- **RBAC**: rows refer to rows that exist, whatever failed; a loaded Registry grants nothing that
  users did not have while it was loaded; the two kinds of guard do not contradict each other.
- **Scheduler, gRPC**: they return after a cancellation, and then nothing of theirs runs.
- **Static export**: the sitemap lists what there is, and after an export a server answers no page with another
  page's file, a torn or an older one; an ISR page may have an older seed if the cache refused the new one.
- **Storage, uploads**: who was alone and told of success finds the data they left, and its type unless the dropped error was about that;
  nobody's file is overwritten or removed by another.
- **Islands**: an island is linked with every style its script needs, once; the islands of a page are of one build unless the manifest was
  reloaded between them, and of no older build than was loaded before, unless two reloads overlapped.
- **Admin example**: an edit changes the item its sender saw.
- **Migrations**: a database that is not dirty has the migrations its version says.
- **Rate limiter**: in no window of time is more admitted than the burst and what the
  window is worth, where an idle bucket is full before it is collected; and nobody is denied who was alone.

## How the parts interact

`App.Run` owns the lifetimes: it opens nothing itself but closes the page cache and
the sessions once `Serve` returned. Requests run as goroutines of the HTTP server;
each goes through the middleware (session load, CSRF, rate limit), a page handler
(`serveISR` for ISR pages) and, on the way back, the session save. A stale ISR page
starts a goroutine that nobody awaits. An SSE handler is a request as well and ends only when
its connection or its hub does, so that it holds shutdown back until the timeout. A WebSocket handler has
hijacked its connection: shutdown neither closes it nor waits for it, and the handler may still run when the stores
are closed. Queues, the scheduler and the hubs are started by the application and closed by hooks. The backends (memory, disk, Redis, SQL) sit behind interfaces
whose memory versions use one mutex each; several of them decide something under
the lock and act on it after they released it.

In the model the parts are separate modules. They meet where the code makes them meet:
`AppLifecycle` has the requests and the background revalidations of `IsrRouter` as
activities that use the stores it closes; `Session` contains the login and the
CSRF token that live in other packages; `Queues` is the interface over `MemoryQueue`
and `AsynqQueue`; `EventStream` has the overlay's response writer in its chain
(`Inject`); `DevReload` joins the watcher, the template engine, the overlay and the
requests it refreshes; `AdminRefresh` puts the endpoints of the admin example in front of `RefreshTokens`.

Six more modules put components side by side that share no state, so that one
configuration checks them: a behaviour uses one of its parts, and the other parts stay as they began.

| Module | Parts |
|---|---|
| `Realtime` | `EventStream`, `WsHub` |
| `SiteCaches` | `IsrRouter` over the memory, the disk and the Redis store; `VariantCache` |
| `Server` | `Queues`, `AppLifecycle`, `Scheduler`, `GrpcServer` |
| `Accounts` | `RefreshTokens`, `Rbac`, `Migrations` |
| `Intake` | `RateLimiter`, `BlobStore`, `Uploads`, `AdminApp` |
| `Site` | `DevReload`, `StaticExport`, `Islands` |

`Browsers` joins two instances of `Session`: many browsers over a store that fails, and a lone one with every operation.

## The modules

A module has the state of its component as variables, `Init`, one action per
step the scheduler can tell apart, `Next` and `Spec`. What runs in one critical section
or on one goroutine without meeting another is one action; where the code releases
a lock, blocks, or calls something that may fail, the action ends. Every
`FaultyX` is a variant of `X`, the code with a plausible mistake, used to see
that a property notices it; it is in no specification.

### `WsHub` (and `RoomFeed`): `ws/ws.go`

Clients are connections, each with its handler (which becomes the read pump) and its
write pump. `lpc` is where `runLoop` is; receiving and handling a message are two
steps (`LoopRegisters`/`LoopInserts`, `LoopUnregisters`/`LoopRemoves`,
`LoopReceives`/`LoopDispatches`), because others move in between. `register` and
`unregister` have no buffer: a handler that offers is in state `register` or
`unregister` until the loop takes it or `done` is closed. `broadcast` and each
`send` have the capacities `BroadcastCap` and `SendBuf` (256 and 64 in the code). The peer and the
network are external: `PeerFails`, `Read`, `PingFails` happen when they like.
Messages are positions in `log`, the history of what the hub accepted. `joined` and
`rooms` are the two halves of the membership, which the code updates under `mu`. `JoinRoom`
by the application, `Connect` with its early join and `Close` are actions of their own.

`RoomFeed` is what the hub promises: one log of accepted messages, members of rooms,
and to every subscriber a growing sequence of positions of that log that concern
it. `FeedSpec` is `RoomFeed` under the mapping that takes what sits in a client's
`send` channel and what was written for what the subscriber has got.

### `IsrRouter`: `router/router.go:302-515`, `cache/memory.go`, `cache/disk.go`, `cache/redisx/redisx.go`

A request looks its key up (in steps, because `memoryStore.Get` and
`diskStore.Get` differ in what they do under the lock: `HoldsLock`; a Redis server removes expired entries by
itself, `ServerExpires`), serves a fresh
or a stale entry, starts a revalidation if the key is not in `inflight`, or renders and
stores. A page's content is the version of the data its loader read. Time is in the
entries: `Tick` ages every entry, every render and every replaced version together,
up to a cap, so that no clock grows. `Edit` changes the data, `MaxRender` bounds the ticks between the
load and the `Set` of one render. `Driver` picks the store.

### `Session` (and `SessionRegister`): `session/`, `auth/auth.go`, `csrf/csrf.go`

A request loads the session of its cookie, its handler does any of `Ops` (login,
logout, clear, save, CSRF token, flash, write the body, panic), the middleware
persists, the response goes out and the browser stores its cookie. `Persist` is the whole
of `persist`: a new id where there is none, the save, the cookie unless the body has begun.
Each call of the store can fail (`MaxFailures`). `owner` is a history variable: the browser
an id was made for. The store expires entries under `Get` (memory) or by itself (Redis).

`SessionRegister` is what a browser that waits for each answer may rely on: a user
and a token that change only by login, token creation and forgetting.

### `MemoryQueue`, `AsynqQueue`, `Queues`: `queue/queue.go`, `queue/asynqx/asynqx.go`

In `MemoryQueue` every job is enqueued by a caller of its own; delayed jobs have a goroutine
(`jpc` in `sleep`, `resend`, `leave`). `Offers`/`Sends`, `Takes`/`Handled`, `Closes`/`CloseReturns` split
the operations where the code leaves the mutex or blocks in a select. `wg` is the wait group.
In `AsynqQueue` the flags are set under `mu`, the calls into asynq come after it. `Queues` is
`queue.New`: one of the two, chosen once. The asynq driver has no property of its own: what holds of it is asynq's, and what does not is listed below.

### `RefreshTokens`: `auth/refresh.go`, `auth/jwt.go:86-150`

A call is `Login`/`Sign` or `Refresh` (with the user it is for) with the steps between which the store's mutex
is free: consume, check the revocation, sign, put. `Exchanges` has all of
`Consume`'s conditions, `Collected` and `CollectedUntil` the garbage collection that `Put` and
`RevokeUser` run. `now` is the clock; comparisons keep the strictness of the
code. `Restart` empties the store and keeps the signed tokens. `AdminRefresh` (`examples/admin/main.go:435-488`) adds
`left`, the users a refresh request has not been tried for: the loop over a map takes them in any order.

### `AppLifecycle`: `app.go:382-420`, `lifecycle/lifecycle.go`

`run` is the control state of `App.Run` and of `lifecycle.Serve`, which it calls; `serving` that of
the goroutine in `ListenAndServe`; `errCh` the channel of one between them. A handler may take its connection
over (`Hijack`, `ws/ws.go:52-64`) and is none of the server's from then on. `ServeDrains`
is `Shutdown` once no request is active on a connection that is (`Busy`), `ServeTimesOut` its deadline, after which requests go on. Hooks may fail.

### `EventStream`: `sse/sse.go`, `sse/hub.go`

A stream has three goroutines: the handler (in `Hub.Attach`), the watcher that closes
it when the request ends, and the heartbeat. `Hub.mu` is a read-write lock with Go's rule that a
waiting writer keeps new readers out (`WriterWaits`, `WaitsForLock`), `Stream.mu` a mutex
(`mu`). A write is two steps, so that everything else can happen during it. `written` is what
the handler wrote, `wire` what left for the client: in development the response is
`devtools/inject.go`'s `bodyWriter` (`Inject`), which keeps the first and lets only `Flush` through.

### `RateLimiter`: `middleware/ratelimit.go:58-145`

A request reads the clock (`Arrive`), then waits for the mutex (`Allow`, `AllowNew` or `Deny`); `Lag`
bounds the wait, so that a later reading may reach the bucket first, as in the code. Tokens are
integers per tick; `Collected` is the collection of idle buckets when there are more than
`Many`. `seen` and `admitted` are history: any key and any window, chosen at the start, and
what was admitted of it, so that an invariant about them is about every key and window. So is `forgiven`: each time the key's bucket is
collected it grows by `Shortfall`, what a bucket may still lack after `Idle` ticks. That is nothing where these fill it; `RateLimit` does not check that they do.

### `DevReload`: `internal/hmr`, `render/render.go`, `devtools/`, `internal/cli/cli.go:342-372`

A file is the number of its last save and whether that parses. Saves put events into the watcher's
channel (`unread`); `WatchReceives` is one turn of the loop, `TimerFires` the debounce timer, whose call of `onChange` runs
in a goroutine of its own (`Fires`): `ReloadEngine`, `RemountPages`, `Tell`. A request walks `Chain`, the page and its layouts, through
`getCompiled`: `LookupHits`, or `LookupMisses`, `ReadFile` and `Store`, between which the engine's lock is
free; `Store` keeps the result only if `compileGen` is the one it read. A tab with the overlay subscribes after its page
has come and reloads on the event. `floor` and `since` are history (the files at the last successful `Reload`, and at the last
one before the request), and so is `owed` (tabs connected at a save).

### `VariantCache`: `imagex/pipeline.go`

A request for a variant goes through `get` (memory, then the file), encodes when it finds nothing, and `set`s: memory under
the mutex (`Remember`, with its order and limit), then the file without it, in two steps: `OpenFile` truncates, `WriteFile`
fills, and either may fail; two writers of one file may leave it torn. `ServerRestarts` may come in between. A body is the version of the source it was made from, or `Torn`.

### `Rbac`: `rbac/rbac.go`, `rbac/store/`

The tables are sets of rows. A statement of the SQL store is a step, and so is a critical section of the memory
store (`FirstOf` chooses where a call begins); `call` is what each caller has still to do, and `Fails` may end it after
any statement. `LoadRegistry` reads two tables in two steps and replaces the `Registry`; `GrantRolePermissions`,
`AssignRoles` and `GrantUserPermissions` change it directly, with the trimming that each of them does or leaves out. `RequireRole` and
`RequireAnyPermission` are operators that give the status the guards answer. `floor` is history: what users had at the first query.

### `Scheduler`, `GrpcServer`: `scheduler/scheduler.go`, `grpcx/grpcx.go`

`SchedStarts` is `Run` up to its wait for the context; every interval job has a goroutine (`loop`) with a ticker's channel of one
(`tick`), every time zone a cron runner whose runs are goroutines (`runs`). `waits` is the wait group. A job of an interval
that panics ends the process (`FnPanics`); one of a cron runner is recovered. In `GrpcServer` two goroutines meet in
`ListenAndServe`'s select: the one that serves sends its error into `errCh`, whose room of one (`Room`) lets it end when nobody
receives, and the one that stops gracefully; `StopTimer` is the ten seconds.

### `StaticExport`: `internal/build/build.go`, `router/router.go`, `content/content.go`

A directory is a sequence of segments with their kinds, a page the number of its last edit, a post `0`, `Broken` or
`Gone`. `export` is the running `Export`: it copies `public/`, takes the routes in any order (`Takes`, `Skips`), renders and
truncates (`Renders`), writes and seeds (`Writes`), and lists (`Lists`); it may fail at any point (`CopyFails`, `ExportFails`), edits may come at any point, and `out/`
and the seeds stay. The error of putting a seed is dropped, and what was in the cache before stays there: `unseeded` is history, the paths this export could not seed.
A file is a sequence of names; `Fits` says that none is where another needs a directory. The names are made safe by `SafeName`, as which two different posts may have one file.

`Answers` is what a server that starts after the export may answer for a page, by its mode: for `ssg` and `static` the first of its `Candidates` that is in `out/`
(`OutFileFor`), for `static` then the file of `public/`; for `isr` the entry of the cache, or a rendering once that has expired; otherwise a rendering.
Entries that a running server puts into the cache are `IsrRouter`'s and not here.

### `Islands`: `island/`

Vite removes the manifest, leaves a part of it, and writes it, whenever it likes. `MountIslands` decides once between the
manifest and the Vite server; `ReloadReads`/`ReloadSets` is `ReloadManifest`, which several goroutines (`Remounts`) may be in. A page names a sequence of islands: `Link`
makes the tags of the next one, from the manifest there is then, as `Render` and `Scripts` do; a page with an island that is not in the manifest fails, and one whose imports go
round in a circle ends the process (`Overflows`, `Crash`), since the walk remembers no chunk. `Collect`, `Firsts` and `EntryAssets` are that walk. `current`, `overlapped` and a page's `floor` and `alone` are
history: the newest build that was loaded, whether two `ReloadManifest` ever overlapped, what was loaded when the page began, and whether the manifest has been kept since.

### `BlobStore`, `Uploads`: `storage/`, `upload/`

A local object is its data and its sidecar: `PutOpens`, `PutCopies`, `PutSidecar` and `DeleteData`, `DeleteSidecar` are the calls of the
system in their order. What may go wrong is an action each: a call that returns an error once it has begun, or whose process ends, leaves what it did (`GivesUp`; an error before the first system call
changes nothing and is no action); the sidecar cannot be written, and `Put` succeeds all the same
(`SidecarFails`); the data cannot be removed, and the sidecar is (`DeleteFails`); the sidecar cannot be removed, and `Delete` succeeds (`SidecarStays`). An S3 request is done as a whole, though its answer may be lost.
Bytes are named by their writer, `Mixed` when several wrote or one wrote a part.
`fresh` and `promised` are history: whether a call was alone on its key, and what the last such call can claim of the data and of the type. In `Uploads` a
file is created exclusively (`MayCreate`), filled, and removed if that fails (`CopyFails`), unless the removal fails too or the process ends (`Abandons`).

### `AdminApp`: `examples/admin/main.go`, `examples/admin/store.go`

Agents are browsers with a session and API clients with an access token; each waits for one request. A handler's guards and its first SQL
statement are one action, the statement that reads the row back another. An item is the number of the `INSERT` that made it, so
that two items of one id are told apart; `views` is history: the item each agent saw last under an id.

### `Migrations`: `migrate/migrate.go`, `internal/cli/migrate.go`

A developer's `Create` writes the up file, then (`Created`, or `CreateFails`) the down file, under the second of the clock; `Merge` brings the
files of another branch, whose second lies in the past. A deploy opens the directory (`OpenMigrator`: the files are read once), waits for the
lock (`Locks`), and for each migration marks the table dirty (`Marks`), runs the file (`Runs`) and cleans the mark (`Cleans`), as many as
`CmdMigrateUp`, `CmdMigrateDown`, `Up`, `Down` and `Steps` ask for; `Aborts` ends it anywhere. The table of golang-migrate has one version and one mark for all deploys. What happens between `Locks` and `Succeeds` is
golang-migrate's and external. `unrun` is history: the versions that were left without a file to run.

## The runs

Each row is a configuration; what it assumes of the constants is in the `.cfg`. Times are of two workers on a desktop machine.

| Run | Instance | Shows |
|---|---|---|
| `ws_safe` (470 000 states, 11 s) | 2 clients, a room, channels of 1, 2 messages | `NoSendOnClosed`; `OpenHubKeepsLiveOnly`; the hub implements `RoomFeed` (`FeedSpec`) |
| `realtime` (26 000, 20 s) | fair; SSE: 1 stream with a buffer of 1, 2 producers, 2 events; WebSocket: 1 client, 3 messages | `NoWriteAfterReturn`, `InOrder`, `StreamEnds`; `OpenHubForgets` (failed connections leave an open hub), `CloseReleases` |
| `site_caches` (670 000, 46 s) | pages: 2 requests, 2 revalidations, 1 edit, renders of up to 1 tick, 1 failure, over the memory, the Redis and, fair and with traffic, the disk store; images: 2 variants, room for 1, 2 requests, a cache directory | `SingleFlight`, `BoundedStaleness`; on disk `Converges`; `MemoryBounded` |
| `sessions` (1.2 M, 53 s) | many: 2 requests of one browser and 1 of another at a time, 2 ids, 1 store failure; lone: 1 request at a time, 3 ids, 2 tokens, 1 flash | `Isolation`, `LoginChangesId`; the session implements `SessionRegister` (`RegisterSpec`); `FlashOnce` |
| `server` (59 000, 40 s) | fair; memory queue: 2 plain jobs, 1 delayed, 1 worker, 2 Closes, channel of 1; asynq: 2 Runs, 2 Closes, 2 callers; app: 2 requests, each with a revalidation, on connections that may be taken over; scheduler: 1 interval job, 2 cron jobs of one zone, 1 bad job; gRPC: 2 calls | `FirstCloseWaits`, `CloseReleases`, `AcceptedRuns`; `GracefulStop`, `StopsWhenCancelled`; `NothingRunsAfterRun`, `RunEnds`; `GrpcStops` |
| `accounts` (2.0 M, 3 min) | tokens: 2 calls at a time, 3 tokens, lifetime of 1 tick, 1 restart; policy: 1 user, 3 role names of which one is padded, 2 permissions, 2 administrators with 3 calls, either store; migrations: 2 deploys with any of 3 values of `--steps`, 2 seconds, 1 name, 1 migration of another branch | `SingleUse`, `RevokedStayDead`; `RowsHaveParents`, `LoadIsCurrent`, `GuardsAgree`; `SchemaMatches` |
| `intake` (3.6 M, 90 s) | limiter: 2 clients, 2 requests at a time, burst 3, idle for 3, 5 ticks; storage: 2 keys, 2 callers, either store; uploads: 2 requests, 2 names; admin: 2 agents, an administrator and an editor, ids up to 3, 1 restart, on disk | `RateBound`, `DeniedOnlyRecently`; `LastCallHolds`; `UploadsKept`; `EditsHitTheirItem` |
| `site` (1.6 M, 2 min 14 s) | dev: 1 page, 1 partial, 2 changes, a browser and a client without scripts, fair; build: 3 directories of which two have one URL and one a parameter, 2 posts of one file name, two kinds of `public/`, 3 modes, 1 edit; islands: 4 graphs of 3 chunks of which two are cyclic, 2 builds, 2 reloads at a time, a page of two islands and one whose second is not there | `EditsVisible`, `SavesRefresh`; `SitemapHasFiles`, `ExportIsServed`; `LinksAreCurrent` |
| `session_cookie` | 1 request at a time | `TokenRoundTrip` fails: see below |
| `sse_overlay` | 1 stream under the overlay, 2 producers | `WriteFlushes` fails: see below |
| `dev_dirs` | 1 page, 2 directories, 3 changes | `NewDirsWatched` fails: see below |
| `admin_refresh` | 2 users, 2 tokens, 1 call at a time | `RefreshRotates` fails: see below |

The type invariants (`TypeOK`, `AdminTypes`, `BlobTypes`, `GrpcTypes`, `IslandTypes`, `RbacTypes`, `SchedTypes`, `SiteTypes`,
`UploadTypes`, `MigrateTypes`) hold in the same instances, but the configurations do not list them: most are theorems or parts of an inductive invariant, and the runs are spent
on the rest.

**Bounds and why they are enough.** Capacities are 1 so that a channel is full after
one message and every "full" branch is taken. Two actors of a kind are there wherever the code distinguishes
"me" from "another one" (two tabs, two revalidations, two producers, two Closes); a third would only
repeat the roles, and where a property holds for any number the theorem says so. Three messages, tokens or ids
are the fewest for which one is in use, one is pending and one is new. Counters that could run
on (messages, versions, failures, restarts, events, the clock) are bounded in guards and each
bound is a constant (`MaxMsgs`, `MaxVersion`, `MaxRender`, `MaxFailures`, `MaxRestarts`,
`MaxEvents`, `MaxTime`, `Lag`, `MaxChanges`, `MaxEdits`, `MaxStoreCalls`, `MaxOverlays`, `MaxOverlap`, `MaxRows`, `MaxBoots`,
`MaxSiteEdits`, `MaxViteBuilds`, `MaxSeconds`). `IsrRouter` has no clock: ages are capped where the code stops
telling them apart. `MaxTime` of the rate limiter lets a bucket fill, be emptied, be collected (after `Idle`) and
be used again. `RefreshTokens` has three ticks for a lifetime of one, so that a token, its revocation
and the end of both fit. The policy's three calls are enough for a load in the middle of a grant and of a seeding; three ids are the
two items an empty table is given and one that would be given again. The islands of `site` are a menu over a library over a
reset, which may import the library again. A larger set, where each import may be there or not, in either order, missing from the manifest or going round, is evaluated by `WalkIsComplete` in `MCSite`. `public/` holds
either a home page and a page under a name of the blog's, or a file where the blog needs a directory. A burst of 3, refilled by one a tick, is short of 2 after the three ticks less two waits, so that a collection spares something. Two seconds are an earlier and a later migration. One edit in a build is one between two of its steps or two exports. Symmetry is used in `sessions`, `accounts` and
`intake`, over values that the module and the properties of the run treat alike, and never with liveness. `sessions` checks a refinement beside it: `RegisterSpec` is a safety formula without fairness, and names neither the ids nor the
two requests that are permuted.

**Deadlock** is checked except where the system really stops: a hub or queue that was closed, an
application that ended, streams that ended, and runs whose clock reached its bound.

## Fairness

Liveness is checked only under what Go's scheduler and `select` give.

- `WsHub` (in `Realtime`): each step of the loop is weakly fair (the goroutine runs). Which ready case a `select` takes is
  random, so a client that offers itself again and again on `register` or `unregister`, or a sender
  queued on `broadcast`, is strongly fair: it is not passed over for ever. The pumps of a *failed*
  connection are weakly fair because reads and writes on it return errors at once (and pings
  fail after their deadline). Nothing is assumed of peers that behave, of the application, or of `Close`.
- `IsrRouter` over the disk store (in `SiteCaches`): weak fairness of time, requests and revalidations: loaders return. `Traffic` (strong fairness of
  `Arrive`) is a hypothesis of `Converges`: a page nobody asks for is not revalidated, and the code does not say otherwise.
- `MemoryQueue` (in `Server`, when the driver is memory): callers, workers and a Close that may return proceed. Handlers return (the
  worker is in `Handled` as soon as it is fair). Nothing says that anybody calls `Close` or that a context ends.
- `AppLifecycle` (in `Server`): `Run` and the goroutine that serves proceed; handlers may hang for ever.
- `Scheduler` (in `Server`): tickers and cron runners fire while they run, job functions return, and goroutines run; that a select with two ready
  cases takes each of them at last is strong fairness of `FnStarts` and `LoopEnds`. Nothing says that the context is ever cancelled.
- `GrpcServer` (in `Server`): the goroutines and the timer of ten seconds run; `Serve` returns once the server has stopped. Calls may hang for ever.
- `EventStream` (in `Realtime`): the watcher and the handler take `Stream.mu` and `Hub.mu` as often as they are free, which
  is strong fairness: Go hands a mutex to a waiter that starved for a millisecond. Heartbeats and
  broadcasts are weakly fair.
- `DevReload`: the loop of `Watch`, the timer, `onChange`, requests and the browser's script proceed. Nobody has to save or
  open a tab, and the watcher may fail: `SavesRefresh` says so.

`AsynqQueue`, `StaticExport`, `Islands`, `Rbac`, `BlobStore`, `Uploads`, `AdminApp`, `AdminRefresh` and `Migrations` have safety properties only and no fairness.

## What is proved

TLC checks the instances above. The following hold for all values of the constants that satisfy the
module's `ASSUME`; `tlapm` checks each proof from the definitions.

A proof module extends the module that composes its components, so that the composition has its theorem too: a
behaviour of the whole is a behaviour of each part, and each part keeps its promise.

| Module | Theorem | Says |
|---|---|---|
| `WsHubProofs` | `TypeCorrect`, `NeverSendsOnClosed`, `OpenHubKeepsLive` | the types and capacities; no send on a closed channel; while the hub is open its clients have live handlers |
| | `HubIsAFeed` | the hub implements `RoomFeed` (`FeedSpec`): what a connection gets was meant for it, in one order, nothing twice |
| `EventStreamProofs` | `ReturnedIsOver`, `EventsInOrder`, `StreamsKeepPromises` | nothing is written to a response that is over; a stream has the events of each producer in order, each once; both, of `Realtime` |
| `SiteCachesProofs` | `TypeCorrect`, `OneRevalidationPerPage`, `VariantsBounded`, `SiteVariantsBounded` | types; one revalidation per page, and a key is marked exactly while its revalidation runs; the variants in memory are within the limit and in the order of eviction, each once |
| | `StalenessBounded` | `Get` never returns a body whose data was replaced longer ago than twice the revalidate period and one render, over either store (a page rendered on a miss shows what its loader read) |
| `SessionProofs` | `TypeCorrect`, `BrowsersIsolated` | types; no request runs or saves as another browser's user |
| | `LoginIssuesNewId` | a session never becomes a logged-in one under an id that a browser already sends, if no handler calls `Session.Clear` |
| | `LoneSessionIsARegister`, `FlashIsReadOnce` | for a browser that waits for each response: its session implements `SessionRegister`; no message is read twice |
| `ServerProofs` | `TypeCorrect`, `CloseLeavesNoneBehind`, `StopsGracefully`, `RunIsOver`, `ServerKeepsPromises` | types and `wg >= 0`; the first Close waits for all delayed goroutines and none starts afterwards; `GracefulStop`, of the connections `Shutdown` waits for, and `ReadyMeansOpen`; nothing of the scheduler runs once `Run` has returned; all of it, of `Server` |
| `AccountsProofs` | `TypeCorrect`, `ExchangedOnce`, `RevokedNeverExchanged` | types; one exchange per token; none after a revocation |
| | `ParentsStay`, `GuardsConsistent`, `LoadsCurrent` | rows have their parents; the guards agree; a load grants what users had while it ran |
| | `SchemaIsAsRecorded`, `AccountsKeepPromises` | the schema is what the version says; all of it, of `Accounts` |
| `IntakeProofs` | `TypeCorrect`, `RateBounded`, `NothingForgiven`, `DeniedForAReason` | types and the cap; the bound on every window for any rate, burst and idleness, with what collections spare; the bound without it where they spare nothing; no denial of a client who was alone |
| | `LastCallCorrect`, `UploadsCorrect`, `AdminInvariant`, `EditsHit`, `IntakeKeepsPromises` | who was alone and told of success finds what they left; uploads are kept; on disk no id is given twice, so that edits and deletions hit the item their sender saw; all of it, of `Intake` |
| `SiteProofs` | `SitemapIsServed`, `ExportServed`, `ReloadShowsEdits`, `LinksCurrent`, `SitesKeepPromises` | the sitemap lists files there are; a served page is the one asked for, as it was when exported, from a file, the cache or a rendering; after a reload nobody gets what was before; islands of a page are of one build, and not an older one, unless reloads meet; all of it, of `Site` |

The argument of each is an inductive invariant:

- **`WsHub`**: `HubInv` ties a closed `send` channel to a client the loop removed: not in `clients`,
  not in any room. It is inductive because only the loop closes channels and only for clients it removes in the same step.
  `OpenHubInv` extends `OpenHubKeepsLiveOnly` to the client the loop holds and has not inserted yet.
  For the refinement, `FeedInv` lays out in a row what a client was written, what is in its `send` channel, what the loop has in hand and what is in
  `broadcast`: positions in the log, each below the next, and those of a client addressed to it. `AscendingTail`, `AscendingAppend` and `BehindStays` say what steps do to the row. A
  client joins its room before anything was queued for it, so that what was addressed to it stays addressed (`AddressedStays`).
- **`EventStream`**: `MutexInv`: `Stream.mu` is held by whoever is between the two steps of a write, and a handler that returned has closed its
  stream with `mu` free; a closed stream refuses `mu` to writers. For the order, `OrderInv` lays what a stream holds out in a row (written, in hand, in
  its channel, and the last broadcast still to be served): each part is in order and before the next. `OrderedAppend`, `OrderedTail` and
  `OrderedConcat` say of sequences what the steps do to the row.
- **`IsrRouter`**: `SingleFlight` itself is inductive once it says that the marked keys are exactly those of running
  jobs; it needs `TypeOK` beside it and of the constants only that they are numbers. `BoundedStaleness` needs `AgeInv`, of a page in each place it can be in: the newest
  version has not been replaced (`Current`); what a goroutine is about to store was replaced no longer ago than its render has lasted (`RenderedInTime`); what is
  stored and not expired, no longer ago than `MaxRender` and its age (`StoredInTime`). The store's driver is a parameter: the bound needs no more than that it drops what expired.
- **`VariantCache`**: `ImageInv`: the bound itself, and that a request about to remember a variant holds one. That a sequence without repetitions keeps
  its range and length through a removal and an append is shown once, in lemmas about the order of eviction.
- **`Session`**: `TypeOK`, `OwnIds` (every id in a jar, a request or a response was made for that browser) and
  `OwnUsers` (what is stored under an id, or held by a request, is the user of its owner or nobody).
  Neither alone is inductive: a load gives a request the user stored under its cookie.
  `LoginInv`, for the change of the id: of every id, either one request alone knows it (`Private`: no jar, no cookie, no other request) or all that is stored under it or
  held with it is one user (`Settled`). A login takes an id from the first to the second, and the response that carries it comes later. With `Session.Clear` this is false, and TLC
  finds why: see the list below.
- **`Browsers`**: `LoneInv` follows the session of a browser that waits: under the cookie until it is loaded, then in the request alone once that is dirty, otherwise
  where the cookie of the response points; and no message there has been read (`Unread`). `ValueStep` is what one step may do to the values seen. `BrowsersAssumption` names the conditions:
  handlers do not panic and do not begin the body before the cookie is set (`session_cookie` shows what happens if they do), and the store answers.
- **`MemoryQueue`**: `WgCounts`: `wg` is the number of delayed goroutines that have not returned. It needs cardinalities, so `Jobs` is finite.
- **`RefreshTokens`**: `StoreInv` (what is stored was handed out, has the user of its claims and is not spent),
  `NewInv` (a call that is about to `Put` has an id of its own), and `DeadInv`: a token signed before a
  revocation is either lost (not stored, and no call will store it) or its claims end no later than the revocation
  does. The second half is what holds when `RevokeUser` comes between the signing and the `Put`; it rests on both ends being compared
  strictly with the same clock and on the store's ttl being that of the claims.
- **`AdminApp`**: `FreshAbove` (an id above the sequence has no row and nobody has seen one under it) and `SeenIsThere` (what an agent
  saw under an id is what is there, or nothing is). The second alone is not inductive: an `INSERT` might put another item where one was deleted.
  The first holds because `sqlite_sequence` only grows and is kept on disk; with the default database in memory a restart begins again at 1, and an open page
  of before may then edit a new item.
- **`Rbac`**: `RbacInv`: rows have parents, and so has what each caller is still going to write (`Prepared`): a role or permission it relies on has been made, by it or by the
  one it met, and rows are never removed. For `LoadIsCurrent`, what was read is a part of the table, and what users had at the first query is a part of what was read.
- **`Migrations`**: `HoldInv` (the process inside golang-migrate has the lock, and the table is dirty exactly while it runs a file), `SeenInv` (what a process
  did not find in the directory was made after all it found, or merged late) and `SettledInv` (the schema is what the version says, but for the migration that is being run).
  The second is what makes the deploy of an old checkout harmless: the step from one version to the next of *its* files passes by no other.
- **`Scheduler`**: `SchedInv`: every goroutine that is left is waited for, the runs of a cron job through their runner.
- **`BlobStore`, `Uploads`**: `BlobInv`: two calls on one key know that they met (`Met`), and one that met nobody has left what it did so far (`Progress`); a claim is made only by a
  call that leaves, and is withdrawn when the next one begins. `UploadInv`: only one request writes a name, since the file was created exclusively.
- **`StaticExport`**: `MapInv`: an entry of the sitemap, or of the one to be written, has its file; for the pages, `Underway` (the export goes by the directory and the posts as
  they are, unless an edit came) and `Written`: each page of the exported modes is `Pending`, or `Holds`: its file is there with its rendering, and its seed as well unless this export could not put it (`Seeded`). The hypothesis `Distinct` makes `FoundAtOwn` true: a page that has its
  file is looked up there, and by no other candidate. `Safe` says that `out/` has no file but those that `Distinct` takes into account, and that what is in the cache is a page.
- **`DevReload`**: `DevInv`: what is compiled is not older than the last reload, and what a request holds is not older than the reload before it; while the
  generation is the one it read, not older than the last one either. That is why `Store` may keep it.
- **`Islands`**: `IslandShape` (the manager holds a whole manifest, of a build there was, whatever Vite leaves on disk), `InTurn` (while no two `ReloadManifest` overlap, the manager is as new as anything that was
  loaded, and what is being read at least as new) and `PagesLinked` (the tags of a page that was not disturbed are of the manager's build; without overlaps, none is older than what was loaded when it began). Nothing is assumed of the manifests.
- **`AppLifecycle`**: `DrainInv` (after a graceful drain the server accepts nothing and no request is active on a connection of its own; one that was taken over does not come back),
  `CloseInv` (stores are closed only past the drain, and the flag is reset before).
- **`RateLimiter`**: `CallInv` (a reading of the clock is at most `Lag` old), `DebtInv` (a bucket that later readings overdrew
  owes no more than it gains during the wait), and `BoundInv`: what was admitted in the window plus
  what is left in the bucket was in it or gained since the window began; when the bucket was
  collected, what was admitted has been gained again but for the `Shortfall` of its bucket, which `forgiven` counts. `NothingForgiven` is the case `Burst <= RPS * (Idle - 2 * Lag)`: an idle bucket is
  full before it may be collected, with two waits to spare. With the code's ten minutes of idleness that is so for bursts up to about 600 seconds' worth of the rate, and for the defaults.

The assumptions on constants are named in the modules; they say that bounds are numbers and that "nobody" and "nothing" are not among the values. `BrowsersAssumption` has the
conditions on handlers named above, and `LoginIssuesNewId` and `NothingForgiven` state a hypothesis of their own. The rate limiter, the stores, the export and the islands assume no more of what they are given, but `ExportIsServed` is about sites whose pages are `Distinct`.

Only model-checked:

- all liveness and everything about `ENABLED`, out of this prover's reach: `StreamEnds`, `OpenHubForgets`, `CloseReleases`, `AcceptedRuns`,
  `StopsWhenCancelled`, `RunEnds`, `GrpcStops`, `SavesRefresh`, `Converges`;
- what recursive functions compute: the walk of `Islands` over imports (`AssetsComplete`: where it ends, every style of every chunk the script loads, once), which TLC evaluates for a set of graphs as `WalkIsComplete`.

## Where the code and its documents disagree

**Found by a run.**

`session_cookie`: `session/session.go` saves the session and sets
its cookie after the handler returned. A handler that wrote its body first has sent its header, so the
cookie of a *new* session never arrives. `TokenRoundTrip` says what the CSRF package promises
of its form field (that the token on the page is the token of the session the browser comes back with) and the
run shows a first visit to a form after which it is not.

`sse_overlay`: in development every handler outside `/_irmik/dev` runs behind `bodyWriter` (`app.go:93-98`), which keeps the
body until the handler returns or 4 MiB have come together (`devtools/inject.go:25-43`). Its `Flush` is the embedded
writer's and sends only the headers, so a client of an SSE handler receives no event while the stream is open.
`WriteFlushes` is the comment at `sse/sse.go:111`.

`dev_dirs`: `internal/hmr/hmr.go:75` drops events whose path has none of the extensions before the code at :78 ("Watch new
directories.") sees them. `irmik dev` passes `.html`, `.yaml`, `.yml`; a directory made while it runs is never watched.

`admin_refresh`: `examples/admin/main.go:474-480` tries a refresh token with each of its users, in the order of a map, because the request does
not name one. `Refresh` takes the token out of the store before it compares the user (`auth/jwt.go:120-124`), so the attempt
with the wrong user consumes it and the right one is refused. `RefreshRotates` is the comment at `auth/jwt.go:114`: a call that takes a token
gives another one. With a single user the example would work.

**Seen while modelling**, each contained in the model as the code has it, but not the subject of a run:

- `session/session.go:271`: a second persist in the same request (say `SetFlash`, then
  `LoginSession`, then the middleware) stores an empty flash over the message the first one stored.
- `session/session.go:252`: a request that was in flight while another one destroyed the session saves it again.
- `session/session.go:180`: `Session.Clear` keeps the id. A request that loaded the session before another one of its browser cleared it, and saves
  it afterwards, logs the same id in again (`LoginChangesId` does not hold of handlers that call `Clear`; the helpers of `auth` call `Destroy`).
- `queue/queue.go:157`: `send` selects among three ready cases: `Enqueue` that began before `Close` may report success for
  a job that nobody will run.
- `queue/queue.go:191`: a second `Close` returns at once, while the first one still waits.
- `queue/asynqx/asynqx.go:149-153`: `Close` between the `started` flag and `server.Start` shuts down a server that is not active,
  so `Run` starts it afterwards; and `Run` does not end on `Close`, only with its context.
- `auth/refresh.go:74`: a revocation is by user and lasts for the lifetime of a token: a user who logs in again after it
  gets refresh tokens that are refused until it ends.
- `lifecycle/lifecycle.go:42`: `Shutdown` neither closes nor waits for hijacked connections, and those of WebSockets are (`ws/ws.go:59`): after a graceful stop `app.go:412-417` closes
  the page cache and the sessions while such a handler may still use them (`Hijack`). `GracefulStop` is about the other handlers.
- `app.go:399`: the readiness flag is set before the `after_start` hooks have run.
- `ws/ws.go:219`: a client the loop received just before `Close` may be inserted after its read pump ended; `Len` counts it.
- `sse/sse.go:83`: when the request ends, the stream's own context ends too, and the watcher's select may take
  the latter: then the stream is not closed until its handler returns.
- `internal/cli/cli.go:357`: only partials are parsed on a reload, pages and layouts when they are next rendered: a page saved with a
  parse error refreshes the tabs, which `docs/devtools.md:11` says it does not.
- `internal/cli/cli.go:344`: an error of the watcher ends `Watch`, and its caller drops the error: live reload stops silently.
- `internal/hmr/hmr.go:84`: `pending` is written by the loop and read by the timer's goroutine without synchronisation; it is the
  path in a message, no more.
- `devtools/devtools.go:167`: a change between the rendering of a page and the subscription of its overlay refreshes nobody.
- `imagex/pipeline.go:384-406`: a variant read while another request writes its file, or left half-written by a crash, is served
  and kept in memory: an entry of `mem` may be `Torn`. Nor does a changed source
  ever change its variants, whose key has no version.
- `middleware/ratelimit.go:139-145`: a bucket may be collected after ten minutes, whether it is full by then or not: a client with a large burst at a slow rate gets what is short of it again (`Shortfall`,
  `forgiven`). `RateLimit` does not compare its `Burst` with that time; its defaults and those of `LoginRateLimit` are full long before.
- `middleware/ratelimit.go`: with a burst below 1 a new bucket admits one request and none after it.
- `internal/build/build.go:336-352`: `renderOne` is given the route's loader and ignores it (`_ = loader`), where `router/router.go:30` says that a
  loader supplies "per-request (or build-time) data": `StaticExport` keeps that in the field `loaded`, and `ExportIsServed` does not ask for it.
- `internal/build/build.go:224-236`: one post that does not parse empties its collection, and the export goes on without its pages.
- `internal/build/build.go`: `out/` is never cleaned: the file of a page that was removed, or whose mode changed, stays. `ExportIsServed` holds because a
  server asks for routes first. Two posts whose names differ only in what `SafeFileName` removes share a file; `Distinct` excludes them.
- `internal/build/build.go:172`: the error of `Set` is dropped: an export succeeds while an older export's body of an ISR page stays in the cache, and a server answers it until it expires (`unseeded`).
- `internal/build/build.go`: a catch-all page rendered on request is in the sitemap under its pattern (`Skips`).
- `internal/cli/cli.go:198-251`: with the memory cache the seeds of an export end with the process that made them.
- `storage/storage.go:89` and `:119`: the errors of writing and of removing the sidecar are dropped: `Put` and `Delete` succeed, and the type of an older object may stay for this one or the next
  (`SidecarFails`, `SidecarStays`). When the data cannot be removed, `Delete` removes its type all the same (`DeleteFails`). The sidecar of one key may
  be the data of another, which `Blobs` excludes.
- `upload/upload.go:126` and `:130`: the error of removing a file that was cut short is dropped: it stays under its name, and every later upload of that name is refused (`Abandons`).
- `rbac/rbac.go`: `AssignRoles` and `GrantUserPermissions` do not trim names and `GrantRolePermissions` does: a padded role passes `RequireRole`
  and has no permissions. `GuardsAgree` therefore states one direction only.
- `rbac/store`: the memory store overwrites a role's description with an empty one where the SQL store keeps it.
- `island/island.go:225-283`: the manifest is read for each island: a page that is rendered while it is reloaded may link files of two builds, of which the older may be gone from `OutDir`. Nor do the islands of a page share what they have linked: a style of
  two of them is linked twice.
- `island/island.go:146-160`: a `ReloadManifest` reads the file before it takes the lock: of two that overlap (`irmik dev` may run `onChange` twice at once), the one that read first may put the older manifest back.
- `island/manifest.go:143-159`: the walk over the imports remembers no chunk: imports that go round in a circle, which Vite may write for modules that import each other, end the process with a stack overflow (`Crash`).
- `island/island.go:147`: a manager that began with the Vite server, because there was no manifest yet, keeps it: `ReloadManifest` does nothing with `Dev`.
- `app.go:261-284`: without a manifest, or with one that does not parse, the islands are linked to the Vite server of development.
- `examples/admin/store.go:62-102`: the total of a list is counted in another statement than its rows.
- `paginate/paginate.go`: the offset of a large page number is a product that may overflow.
- `migrate/migrate.go:142` leaves the order to golang-migrate, which goes on from the one version that the table records: a migration that is merged after a later one
  was applied is passed by, and `irmik migrate up` says it is up to date, where the comment at :137 says "Up applies all pending up migrations." (`Merged`).
- `migrate/migrate.go:222` gives two migrations of one second the same version; the next deploy refuses to open the directory (`Open`).
- `migrate/migrate.go:230`: a migration whose down file could not be written is rolled back by moving the version and running nothing (`unrun`).

## What is not modelled

Within the modelled parts: the WebSocket upgrade, origin checks and frames; HTML, templates and ETags of pages;
cryptography (ids, tokens and signatures are fresh values); the wire format of SSE; reading
configuration; choosing the rate limiter's key from headers; parsing cron expressions; the bytes and types of uploads. The asynq and gRPC servers, the cron
runner, Vite, the browser, the network, the HTTP server, the database, the
clock and the handlers of the application are external and modelled from how the code uses them; each such
definition is marked external. `Islands` names an island as its manifest does: the other spellings `Lookup` accepts (`manifest.go:86-128`), which take whichever of several
matching entries the order of a map gives, are left out. In `StaticExport` a page is looked up when a server starts, before anything revalidates it. `DevReload` has no `_meta.yaml` that fails to parse and no change of functions (`SetFuncs`,
`SetIslandFunc`). Fractions of tokens are not: the bucket is in whole tokens per tick. `AdminApp` leaves out requests that
are refused or find nothing, since they change nothing, and the text of items.

Not at all, with the reason in `PROJECT.json`: pure functions of their input (cache keys, configuration, OpenAPI, validation, the generator of
Go source `router/generate.go`), thin layers over libraries (databases, telemetry, mail, health checks), header handling of the other
middleware, password hashes, and the examples other than admin, which are wiring. None of these keeps state that two goroutines share, except the cache of `secrets`,
which is filled on demand and never changed.

## What is left

- Proofs: `LoginChangesId` under a hypothesis weaker than "no handler calls `Clear`" (say: none does beside another request of its browser), and safety
  halves of the liveness properties (what a blocked goroutine waits for).
- Goroutines of one handler that share a `Session`; `SetFuncs` beside a reload.
- Larger instances where a run has one of a kind: two streams, two rooms, a second time zone.
