# A TLA+ model of revelt

revelt serves React components from a Go program: a pool of Node.js processes
renders them, pages put the results together, and a set of middleware packages
wraps the handlers.  A command line tool scaffolds a project, bundles its
components for Node and for the browser, and embeds the result in the binary.
This directory models the parts of it that keep state and
run concurrently, checks them with TLC and proves their invariants with TLAPS.
`PROJECT.json` maps every definition to the source lines it stands for, and
lists the components, runs, hazards, findings and theorems.

## The system

| Part | State | Operations | Hard behaviour | What makes it correct |
| --- | --- | --- | --- | --- |
| **Worker** (`worker.go`, `protocol/wire.go`, the render server template) | a Node process, its pipes, the map of pending requests, a reader goroutine | `render`, `writeRequest`, `readLoop`, `dispatch`, `drainPending`, `close` | many callers on one pair of pipes; late, garbled or missing answers; process death, cancellation and close at any moment | a caller gets only its own page; the map does not leak; every call returns |
| **Pool** (`pool.go`, `health/health.go`) | a ring of workers, a cursor, a lock, the lifetime context | `newPool`, `render`, `workerAt`, `close`, `stats`, readiness | racing replacement of a dead worker, failed starts, cursor wrap-around, close during replacement | no process is lost; only dead workers are replaced; dead slots are refilled |
| **App** (`app.go`, `renderer.go`, `signal.go`) | the merged context, the HTTP server, the renderer | `NewApp`, `Run`, `PageBuilder.Render` with a goroutine per slot | a signal during construction, serving or replacement; stuck components; order of shutdown | shutdown ends, and no process survives it; every accepted page is answered |
| **Rate limiter** (`middleware/ratelimit`) | buckets by key, their levels and times | `Allow`, `allow`, `cleanup` | double-checked creation, a sweep that drops buckets in use | no key gets more than its burst and what it earned |
| **Response writers** (`middleware/etag`, `gzip`, `brotli`, `recovery`, `logger`, the gates, static files, `Adapt`) | nested writers and a header map per request, a pool of ETag writers shared by all | `WriteHeader`, `Write`, the code before and after `next`, gates that answer without it | errors and panics after part of a response; headers already sent or no longer true; reuse of a buffer still in use | the client sees the status and headers that were meant and a body that belongs to its ETag; the log says what was sent |
| **Development runner** (`cmd/revelt/dev.go`) | a server process, a restart channel, an exit channel, two watchers, a Node builder | `runGoWithRestart`, `watchFrontEndForChanges`, `runNodeWatcher` | crashes, failed builds, edits and cancellation crossing each other | one server at a time, none left behind, edits get built, no deadlock |
| **Sessions** (`middleware/auth/cookie.go`, `csrf`, `flash`) | cookies in the browser, keys in the server | sliding refresh, login, logout, tokens, messages | requests of two tabs crossing, restarts with new keys | active users stay in, logouts last, forms stay valid, a message that was shown does not come back |
| **HTTP helpers** (`http.go`) | open handles, files being written | `SaveUploadedFile`, `FormFiles`, `DecodeJSON`, `QueryInt`, `JSON`, `Stream` | failure at any step, two saves to one path, limits and narrow integers | saves are whole or gone, no handle is lost, one JSON value and nothing after it |
| **Project** (`config.go`, `cmd/revelt/main.go` and its React templates) | sources, `dist`, the embedded copy, running servers and pages | `init`, `build`, `dev`, `generate`, `clean`, `update`; esbuild plugin, page injection, `GetStaticFS`, the browser's registry | steps of a build, edits and a development session crossing each other; failures half-way; modes parsed twice | Go and the bundler agree on modes; Node and the page's script have every component as declared; what is on disk compiles and serves |
| Request identifiers, security headers | none | headers of their own | none | not modelled |

How the parts call each other: a page's slot goroutines call `Renderer.Render`,
which calls `pool.render`, which picks a worker and calls `worker.render`.  The
context that `NewApp` merges from signals and its caller is the one the Node
processes are started under.  `Run` closes the renderer, and with it the pool
and its workers, when that context ends.  Middleware wraps handlers and shares
nothing with the rendering path except the response writer.  The command line
shares only files with the running server: `dist`, from the tree or embedded.

## Modules

**Worker.**  A caller's `pc` follows `render`: *registered* after the entry is
in the map, *writing* while it holds `writeMu`, *waiting* in the `select`,
*leaving* when only the deferred delete remains.  Each is a separate action,
because other goroutines run between them.  `Lookup` and `Send` are separate
because `dispatch` sends outside `pendingMu`.  Pipes are sequences with a
capacity, so writes block.  Node may print a line of its own, garble an answer,
hang, or exit (constant `Faults`).  A request is the component it names and a
page is the name of the component it shows: all that routing could confuse.

**RenderService** is what a worker promises: a call in progress ends with the
page asked for or with an error, once.  `Worker` implements it with
`busy <- InFlight`, `asked <- req`, `reply <- result`.

**Subprocess** is what the pool relies on of a worker: a process that ends once,
is waited for by `close` alone, and has `done` closed when it no longer runs.
`Worker` implements it (its node, its `done`, its closed stdin), and `Pool`
implements it for each of its workers, so what `Pool` leaves out of a worker
is what `Worker` may do unseen.

**Pool.**  Workers are numbered in the order they are started; `slot[i]` is the
ring.  `workerAt` is four steps (read under the read lock, test `done` outside
it, take the write lock, test again and replace) and starting the process is
separate from storing it, both under the lock.  What a call gets from its worker
is left open, and so is when: a failed write, an answer already in the channel
or the caller's own context may end it at any time.  `closeRange` takes no lock in
the code and none here.  `Probe` is the readiness handler; a load balancer
(external) that acts on it is the variable `ready`.

**App** composes `Pool` through `INSTANCE`: a slot goroutine is a caller of the
pool, the end of the merged context is the pool's `CancelContext`, and the
renderer's `Close` is the pool's `Close`.  It adds construction, signals, pages
with their wait group, stuck components, and `Run` with its shutdown timeout.
`SlotsAreWaitedFor` says that a page is not put together while a goroutine of it
works.  `AtMostOneLeft` says how many processes `closeRange` can miss: the one
of a replacement it overtook, and no other.  It is a theorem and no run's
property: to break it takes two slots and two replacements beside a page, more
than a run of `App` can hold.

**RateLimit.**  Time is counted in ticks and tokens in fractions, so that a
refill need not be a whole token.  Bucket lookup, creation, taking a token and
the sweep are separate steps, as the locks make them; a goroutine keeps its
bucket between lookup and use.

**Responses.**  A request passes through a chain of middleware, given as a
sequence.  `HeaderLayers`, `HeaderRaw` and `Buffering` say how far a
`WriteHeader` or `Write` travels through nested writers; the gzip and Brotli
writers are one design and one model.  The headers that matter are ETag,
Content-Encoding and Content-Length; they stop changing when `raw` has a status.
Gates (basic and bearer authentication, CORS) answer or call on; whether a
credential is good is a choice.  The logger has a writer of its own and logs
what that saw; where its callback spoils the arguments (`LogFails`) there is no
line, and an error takes the place of what the handler returned.  Static files have a compressing buffer outside all middleware.
A body is a sequence of pieces, plain or packed, and an ETag is the body it was
computed from.  `array[w]` is the memory behind a pooled buffer: resetting the
buffer keeps it, which is what the code's slice of it depends on.

**Uploads.**  Requests use the helpers of `http.go` that hold something: saving
a file (create, copy piece by piece, close, settle, with a failure possible at
each), opening all files of a field, and the two that decide by a limit,
`DecodeJSON` and `QueryInt`.  `disk` maps a path to an inode and `content` an
inode to bytes, each byte with its writer and position, so that two saves to one
path show: opening truncates what the other is writing, and removing unlinks
whatever is there.  An integer type is its sign and how many values it has (`2^bits` in
Go); `strconv` parses into a type of `Wide` values, and a conversion wraps.

**Project.**  Sources map components to their text, a sequence of lines of
words; `ReadMode` and `BundleMode` are the two readers of annotations.  A line too
long for Go's scanner (`ScanLine`) makes the configuration of the whole project
unreadable (`Loads`), for commands and for servers, while `build.mjs` reads on.
`Injected` is what `injectAssets` leaves; the watcher runs it after failed
builds too.  `dist`
is what has been built: the server bundle, hashed and plain client scripts, and
the page with the scripts it names.  A command is a position in `cmd`, so an
edit, a development session or a failure fits between any two of its writes.
A binary is the sources and the `dist` it embeds; a server is a binary and
whether it runs in the tree, where it reads pages from disk.  `Rendered`
is what Node makes of a component and `Found` what the scripts that the page
loads have for it in their registries; what the browser does with it is not
modelled.

**DevRunner.**  A tree of files is the number of edits made to it.  The main
loop's position is `main`; the two channels are counters up to their capacity;
`ReportExit` is the goroutine that waits for a server.

**Sessions.**  The server keeps only keys, so a request is served in one step;
what interleaves is on the browser's side: `Send` copies the jar into the
request, `Receive` puts the response's cookies into the jar, in whatever order
responses arrive.  Operators ending in `Set` are the cookies each middleware
sets; later ones win, as the browser takes the last of a name.  The chain (CSRF,
authentication, flash, handler) is the application's to choose; this is the one
in which all three matter.  A session is decoded for `CodecAge` at most, whatever
`MaxAge` is, because the store's options are replaced and its codecs are not.  A
request may accept HTML or not; one that does not leaves a message pending.

`MC*.tla` give constants their values.  `*Proofs.tla` hold the theorems.
Definitions named `X_Something`, before `X`, are mutated forms of it: what
a plausible mistake in that code would look like, used to see that the
properties can tell.

## Runs

| Run | Bounds | What it shows |
| --- | --- | --- |
| `worker_safety` | 2 callers, 2 components, 3 requests, pipes of one line, all faults | routing, the pending map, delivery, and the refinement of `RenderService` and of `Subprocess` |
| `worker_liveness` | 2 callers, 2 requests; noise and crashes | every call returns |
| `pool_safety` | 2 callers, 2 slots, 4 processes, 2 crashes, cursor modulo 4 | no orphans, clean failure of the constructor, only dead workers replaced |
| `pool_liveness` | the same, cursor modulo 3, no shutdown | calls return, whatever workers crash and are replaced meanwhile; with traffic, dead slots are refilled |
| `app_liveness` | a page with 3 slots, 2 of them server-rendered; 1 worker and a replacement; crash and hang | shutdown, end of processes, pages answered; pages wait for their slots |
| `rate_safety` | 2 goroutines, 2 keys, 7 ticks, 3 buckets; capacity 5, unit 3, 2 earned per tick | bursts are bounded |
| `responses` | 2 requests, 2 pages, 5 chains with one compressor at most, 3 codes, 3 validators | exclusive writers, honest 304, failures and gates' answers reach the client, headers fit the body, the log is right |
| `responses_body` (violation) | 2 requests through the ETag writer | a body that is not the ETag's |
| `uploads` | 2 requests, 2 paths, fields of up to 2 files and 4 bytes, a limit of 2 bytes, bodies of up to 3 tokens, types of 4 and 8 values | whole saves, nothing left of failed ones, no lost handle, strict decoding, exact integers in range |
| `project` | 3 changes and 3 commands; a component at the top and one of the same name below; a starter; 2 more texts, an annotation too late to count and a line too long for the scanner | both readers of modes agree; Node and the page's script have components as declared; what is in `dist` can be used at every moment |
| `sessions` | 2 tabs, 7 ticks, 3 where first requests crossed, sessions of 5 ticks, codecs of 4, responses within 1 tick, 1 flash message, 1 restart with rotated keys | sliding window, logout, forms, flash messages |
| `dev_runner` | 2 edits, any number of crashes and failed builds | one server, nothing left, `run` returns, edits get built |

The type invariants of `Worker`, `RateLimit` and `DevRunner` are left to the
theorems `WorkerTypes`, `LimiterTypes` and `DevTypes`.

Two of everything that races is enough for the races the code can have: each
lock, map entry and buffer is contended by two parties at a time, and a third
would repeat the part of one of them.  Three identifiers let an abandoned
call's answer arrive during a later call.  Pipes of one line are full after one
write.  A cursor modulo 3 over 2 slots wraps where the slot count does not
divide it, as 2^64 need not be divided by the pool's size.  Four processes for
two slots allow both to be replaced, or one twice.  In `rate_safety` a token is
more than a tick's earnings, and the clock passes two sweeps.

The five chains of `responses` put every buffering writer inside and outside of
what can fail, refuse or log, without enumerating the rest: a writer only meets
its neighbours, and the proofs hold for every chain.  In `uploads` a file of three bytes is the first over the limit,
one of four is over it by more than the copy's extra byte, and three tokens
are a value, something after it, and one more.  In `project` three commands are
`init`, a build or session, and another that crosses it; three changes let
sources be edited between two steps of a build and once more before the next.

In `sessions` seven ticks are a login, a use that refreshes the session, one just
before it ends and one after; the codecs end it a tick before its Max-Age does, so
that the shorter of the two counts.  Once first requests have crossed the clock stops
at three (`CrossedTime`): from then on forms may fail, and nothing else looks at
tokens.  Responses slower than the slack in `ActiveStaysIn` let an older session
overwrite a newer one and do log an active user out, which is why its premise
subtracts `Latency`.

Deadlock is checked in `sessions`, where a browser can always go on, and not
elsewhere: the other systems stop when the bounds are used up, when
requests are answered or after shutdown.  Stopping too early would show in the
liveness properties.

### Fairness

Goroutines that can run do run (weak fairness of each step).  A mutex or
`select` that is available again and again is got in the end (strong fairness):
Go's mutex hands over to a starving waiter, and `select` chooses at random.  A
process that was killed exits, and one that neither hangs nor dies reads its
input.  In `Pool` a call may return at any time, but is owed a return only when
its worker can give it one (`Answered`: the process runs, or `done` is closed).  Nothing forces requests, faults, signals, edits or cancellations.
`DeadSlotsRefilled` has the premise `Traffic`: requests keep coming and starting
a process does not fail for ever.

## Disagreements with the repository's own words

Kept as a run, with its finding in `PROJECT.json`:

* `responses_body`: the ETag writer is back in the pool before its buffer has
  been sent.

Met while modelling, present in the models as steps or stated as premises of
their properties, and not kept as runs.  In the rendering path:

* `app.go:639` and `README.md:425` say that `Run` closes the renderer first so
  that calls to Node finish; the context whose end it waits for has by then
  killed Node.
* `worker.go:95` says `render` respects the caller's context; it does not look at
  it while it waits for `writeMu` or for room in a full pipe, so with a hung
  process a cancelled call stays.
* `worker.go:177` says a request whose answer was garbled "will eventually time
  out on the caller side"; without a deadline of the caller's own nothing times out.
* `docs/deployment.md:144` says `Close` lets Node flush renders in flight; `close`
  calls `cmd.Wait` beside the reader goroutine, and `Wait` closes the pipe it reads.
* `README.md:457` says `Close` waits for all processes; a call that finds a slot
  dead while `closeRange` runs starts a process `Close` does not see.
* `health/health.go:60` speaks of a rotation until workers recover; workers are
  replaced only by requests, which the rotation keeps away.

In middleware and helpers:

* With `Rate * Expiration < Capacity` the rate limiter's sweep hands tokens back;
  and a goroutine holding a bucket that is swept takes a token beyond the burst.
  `LimitUpToStrays` counts the latter apart, and the proof assumes the former away.
* A compressor closed on the error path commits status 200 before the error
  handler writes 500 (the premise of `FailuresReported` excludes it).
  A handler inside gzip or Brotli that returns nil without having written sends
  the trailer of a packed stream with no Content-Encoding (`gzip.go:115-123`,
  `brotli.go:95-105`), which `Intact` excludes.  Two compressors around one
  handler pack twice; the ETag writer outside a compressor labels a failure as
  packed.
* A log callback that returns an odd number of arguments turns a success into an
  error (`logger.go:199`), which `Adapt` appends to a response already sent.
* A Content-Length set by the handler survives when a 412 or a recovered panic
  replaces the body.  An encoding error of `JSON` is appended to a 200.
* The logger logs 200 for an error that is returned to it, nothing for a
  panic that passes it, and 200 for the 304 or 412 of an ETag writer outside it.
* `http.go:350`: a save that fails has already truncated the file it was to
  replace, and its `Remove` unlinks whatever another save has put at the path.
* `http.go:381` speaks of an error slice and of "no memory limit"; `FormFiles`
  returns one error and closes everything, and a limit of 0 means 32 MiB.
* A body of blanks is reported as malformed, not as empty (`http.go:137`);
  `QueryInt` truncates a number too large for its type instead of using the
  fallback.
* `flash.go:96` says a message is displayed on the next request; a response that
  clears one message and arrives late clears the next one unseen.
* `cookie.go:154-158` says that a use after half of `MaxAge` extends the session
  without a new login; the codecs of `sessions.NewCookieStore` refuse a cookie after thirty days, which
  `cookie.go:116-117` does not change.  With a `MaxAge` of sixty days a user seen
  on day 29 is expired on day 31 (`Lifetime` in the premise of `ActiveStaysIn`).
* A refresh that crosses a logout brings the session back (`LogoutSticks` is about
  logouts that nothing crosses), and two first requests that cross invalidate the
  form of one of them (`FormsAccepted` says that nothing else does).

In projects and their builds:

* Nested components do not work: Go calls one `admin/Header`, `build.mjs` calls it
  `Header`; two eager components of one base name break the build.
* `config.go:150` says that Go reads modes as `build.mjs` does; `@modessr`, two
  annotations in one line, and lines too long for Go's scanner are read
  differently (`WellFormed` is the premise of `DiscoveryAgrees`).
* A server started in its tree serves pages from disk and renders with the bundle
  it embeds: after another build or a `clean` it mixes versions or finds nothing.
  An edit between the bundling and `go build` mixes modes the same way.
* A development session after a build loads two client scripts: the old hashed
  one is still in the directory it scans (`build.mjs.tpl:277`).
* `README.md:535` says that `revelt build` runs the frontend build and the Go build
  concurrently; `runBuildCmd` (`main.go:311-333`) runs one after the other, as the
  embedded files need it to.
* `client.tsx.tpl:18-41` checks whether an island is mounted, awaits its component
  and sets the flag last; `navigate` replaces the page under the observer and then
  hydrates it itself, so an island is mounted twice.
* `init` overwrites components that exist; `clean` guards only against `.`, `/`
  and `..`.

## Proofs

All theorems hold for every value of the constants that satisfies the named
assumptions of the modules: any number of callers, slots, keys, edits.

* **WorkerProofs.**  `WorkerTypes` needs `HasRequest` (a caller in a call has a
  component and an identifier).  `RendersAreOwn` rests on `UniqueIDs` (calls in
  progress have different identifiers, none above the generator) and
  `MessagesFaithful` (whatever carries an identifier, in a pipe, a channel or the
  reader's hand, is an error or the page its owner asked for); neither is implied
  by `OwnReply`, which says nothing of messages under way.  `PendingNeverLeaks`
  and `LiveResponsesDelivered` rest on `Registered` (a call in progress is in the
  map until the drain), and `WorkerRefinesService` on these and `Undecided` (a
  call in progress has no result).  `WorkerIsSubprocess` rests on `Gone` (the reader
reaches the end, and `close` returns, only after the process has ended).
* **PoolProofs.**  `PoolInv` adds to the types: which slots are filled in which
  phase, `DoneMeansExited` (the reader closes `done` only after the process is
  gone), where `closeRange` is and what it has swept, and `LockInv` (one holder
  of the lock, and the slot a replacement will go into is still dead).  Without
  the last, `Install` could overwrite a live worker.  From it follow `PoolTypes`,
  `NoOrphans`, `FailedStartCleansUp` and `ReplacementsAreOfDeadWorkers`; with
  `Awaited` (what `closeRange` waits for has its stdin closed) also
  `PoolHoldsSubprocesses`, for every worker.
* **PoolProofs, on App.**  The module has `App`'s parameters too, because the pool
  `App` instantiates is this one.  `AppImplementsPool`: every behaviour of the
  application is one of the pool that nobody probes and that is shut down
  (`InApp`, the values `App` gives the pool's constants), so all of the above holds
  in it.  `PagesWaitForSlots` (that is `App!SlotsAreWaitedFor`) rests on `SlotsInStep` (a goroutine has called the
  pool exactly while its slot is *asked*, and its page is then being rendered).
  `CloseMissesOne` (`App!AtMostOneLeft`) rests on `SweepInv`: once `closeRange` runs the context has
  ended, so nothing more can be started, and the workers it has not swept and
  will not sweep (`Missed`) are at most one, a replacement begun before.  That
  needs `LockInv` of the pool: two replacements cannot be under way at once.
* **RateLimitProofs.**  `AccountInv`: buckets belong to one key (`Exclusive`), and
  for each key what it was granted and what its bucket holds, or would hold when
  full if it has none, is covered by its burst and its earnings (`Balance`).
  `BurstsAreBounded` assumes `Rate * Expiration >= Capacity`: then a bucket the
  sweep drops is full and dropping it gives nothing away.
* **DevRunnerProofs.**  `DevInv`: a started command accounts for exactly one of
  running, ended and reported (`OneProcess`), and where the loop stands tells
  what is running (`KillInv`).  `DevTypes`, `OneServer` and `LeavesNothing` follow.

* **SessionsProofs.**  What a request under way carries, and what a response
  will do to the jar, is not in the properties; each invariant is about that.
  `Gone` (after an uncrossed logout nothing under way has a session but a login's
  answer) gives `LoggedOutForGood`; `Alive` (a request under way carries a session
  saved before it was sent, the jar has a later one only from requests under way
  with it, and the last response that showed the session alive
  is at most the refresh age and the latency younger than the session in the jar)
  gives `ActiveUsersStay`, for every `MaxAge`, `CodecAge` and `Latency`: what is left
  of `Lifetime`, the shorter of the two ages, is the time to come back in;
  `OneToken` (forms, requests and responses know one token, and at most one first request is under way) gives `FormsStayValid`;
  `Numbered` and `OnceOnly` (a message a response brings is in no cookie and no
  other response) give `ShownOnce`.  The steps are first reduced to what they do
  to the cookies (`Served`, `Sent`, `Received`).
* **ResponsesProofs.**  `PoolInv`: a request between taking and giving back holds
  its writer alone and the pool does not have it (`Apart`); a request inside the
  ETag middleware has one (`Taken`).  `BuffersExclusive` follows.
  `RespInv` follows a response through its chain, whatever that is.  At every
  level (`Flow`) the writers from there to the server have seen no status
  (`Untouched`), or have all passed one on (`Passed`), or the ETag writer or the
  buffer of static files at one place keeps it (`KeptAt`); lemmas say how a
  `WriteHeader` or a `Write` changes which of the three holds.  From it, where the
  handler stands (`Phase`) and that nothing is sent before a status (`Ordered`)
  come `Stands` (a decided status is on its way), `Shown` (what was logged is
  sent, or held by an ETag writer further out) and `Reported` (an unanswered
  failure has left nothing outside whoever answers it): `StatusesStand`,
  `LogIsTrue` and `FailuresAnswered`.  `Current` ties the memory behind a writer,
  as long as it is its request's, and the stored tag to what the request has
  written; `ValidatorsAreCurrent` needs it because the writer is given back
  before the validator is compared.
  `Fits` adds the headers.  Without a compressor (`BareFits`) nothing is packed and
  a length is announced only for the one page that is kept or sent; with one
  (`PackedFits`) the headers say packed and no length as soon as a status with a
  body has passed it (`Announced`), all that passes is packed (`AllPacked`), and
  what lies outside ends with the trailer when it is closed (`Ended`); static
  files are packed when they leave their buffer.  `HeadersDescribeBody` follows
  for the responses that are `Intact`: `Going` is what can still become so.  Not
  `Intact` are those of handlers that panicked, that failed or returned without
  having written under a compressor, those a log's callback failed, and those
  whose ETag writer another request has had.
  Chains have the compressor and the ETag middleware at most once, static files
  have no other middleware, and the texts the library writes are no pages.
* **UploadsProofs.**  `HandleInv`: a field being opened has its first files open,
  and no helper at work has a result.  `ByteInv`: a path leads to an inode of its
  own path (`Owned`), whose bytes are of requests still saving to it or saved
  (`Accounted`); a file over the limit is in the hands of a save that will remove
  it.  From them `NoHandleLost` and `FailedSavesLeaveNothing`.  `WholeInv` adds
  that while nobody else saves to the path of a request (`Alone`), its file is the
  beginning of the upload that it has copied so far (`Whole`); `SavesAreWhole`
  follows.  `BodiesAreOneValue` needs no invariant: what skipping blanks leaves
  (`Remainder`) shows for bodies of every length, over the lexemes of
  `UploadsAssumption`, that what `DecodeJSON` accepts is one value.
  `IntegersAreExact` needs none either: a number in the range of the wanted type
  is in the range of the parser's, or is refused (`Ranges`), and a conversion to a
  type keeps what is in its range (`ConvertIsExact`, from what `%` does).
* **ProjectProofs.**  `ModesAgree` proves the two readers equal for all texts that
  meet the premise, from what each finds in a line.  `OutputsStayUsable` rests on
  `DistInv`: every page, on disk, embedded or served, names scripts that are there
  (`AllComplete`), the metafile speaks of scripts on disk (`Reported`), and `init`
  puts placeholders before it is done (`Written`).  `IslandsShown` rests on
  `IslandInv`: whatever of `dist` was built since the sources changed shows
  components as they are declared now (`Fresh`), and a binary that was built
  whole those it embeds (`Truthful`).  `WatcherWrites` sorts out what the watcher
  leaves after a build that failed.

Only model-checked: everything under fairness (`EveryRenderReturns`,
`CallsReturn`, `DeadSlotsRefilled`, the liveness properties of `App`,
`RunReturns`, `EditsReachBuild`), which is out of the prover's reach.  Every
invariant and every action property of a passing run is also a theorem.

## Plan

Done: Worker and its abstract service, Pool, App, RateLimit, DevRunner,
Responses, Sessions, Uploads, Project, in this order, with the proofs above.

Nothing of it is open but liveness, which stays with TLC, and the parts listed
below as not modelled.

Known hazards without a model: replaced workers are never waited for and stay
as zombies (`pool.go:101`); an error of `ListenAndServe` is dropped and `Run`
waits for a signal with no server (`app.go:626`); `stats` reads the stderr
buffer while `os/exec` appends to it (`worker.go:243`).  Each needs one line to
see and no interleaving to find; a model would only restate it.

## Not modelled

Svelte projects (the React templates are the larger of two copies of one
design), style sheets and Tailwind, the installation of dependencies and flags
of the command line (sequential calls of other programs); option setters and
defaults of configuration; `ServeFile` and getters that pass a value on;
what the browser does with a page: the order in which islands are hydrated, and
navigation without reloading; a page template that the author has removed
(`injectAssets` then leaves the page as it is); cookies a browser drops for their
size or number; two compressors around one handler, and what a failure is
replaced by when a log's callback fails after it (`FailuresReported` is about
failures of handlers that no callback overtakes);
security headers and request identifiers (no state, no decision that another
part depends on); what a credential check computes (crypto libraries);
`Flush` and `Hijack`; the captured stderr; formats of messages.
