# A formal model of vitrine

vitrine is a small Go service: a workflow (n8n, `curl`) pushes the board of a
customer as JSON, vitrine stores it in SQLite under a random slug and renders
it as a page under `/c/<slug>`, with a theme and in a language. This directory
holds TLA+ modules of the service, the TLC configurations that check them on
small instances, and proofs, checked by TLAPS, of what matters most for every
size of the instance. `PROJECT.json` lists the runs, the mutants that show that
every property can fail, the source lines behind every definition, the hazards
of the code and the disagreements between code and documentation that the runs
exhibit.

All paths below are relative to the repository.

1. [Inventory](#1-inventory)
2. [The modules](#2-the-modules)
3. [The runs](#3-the-runs)
4. [Where code and documentation disagree](#4-where-code-and-documentation-disagree)
5. [Assumptions, fairness and abstractions](#5-assumptions-fairness-and-abstractions)
6. [The proofs](#6-the-proofs)
7. [Not modelled](#7-not-modelled)
8. [Plan](#8-plan)

## 1. Inventory

### Components

| Component | Source | State it keeps | Operations | Correct when |
|---|---|---|---|---|
| Store | `internal/store/sqlite.go`, `internal/board/ports.go` | table `customer_views`; per call a transaction with its snapshot | `Upsert`, `BySlug` | a customer has one board, a board one slug for ever, concurrent pushes do not undo each other, an answer is true |
| Migrations | `internal/store/migrate.go` | `user_version` and the columns of the file | `migrate`, from `Open` | version and columns change together, once, whoever opens the file |
| Domain and validation | `internal/board` | none | `Validate` of a view and its products | no view beyond the contract passes, the blamed field is the first wrong one |
| Ingest service | `internal/ingest` | none | `Ingest`: validate, normalize, upsert | what is stored is still within the contract |
| Webhook handler | `internal/httpapi/webhook.go`, `errors.go` | one request | secret, body, decode, `ignoredFields`, ingest, answer | answers are the documented ones, typos are reported |
| Middleware | `internal/httpapi/middleware.go` | status recorder of a response | request id, logging, recovery, auth | every request is logged with its status, a panic is answered, a stranger gets nowhere |
| Board handler | `internal/httpapi/board.go` | none | look a slug up, render, not-found page | status and page fit |
| Router, static files | `internal/httpapi/router.go` | none | routes, caching headers | a URL has one content |
| Theme registry, render service | `internal/render/registry.go`, `service.go` | parsed themes by name | `Register`, `Get`, `MergedStaticFS`, `RenderBoard`, `RenderNotFound` | every page has a theme that renders, and one board is rendered with one set of templates |
| Theme loading | `themes/`, `cmd/vitrine/main.go` | the directories | `ValidateDir`, `LoadThemeFromDir` | a broken directory is skipped |
| View model | `internal/render/viewmodel.go` | none | `BuildBoardView` | no product lost, anchors unique, tables aligned |
| Slugs | `internal/slug` | none | `Slugify`, `For` | readable, clean, bounded, never the route of the demo |
| Translations | `internal/i18n` | the texts of a theme | `Load`, `T` | a text is never missing when English has it |
| Process | `cmd/vitrine/main.go` | two goroutines, the channels between them, the exit status | start, listen, fail, signal, drain, exit | a signal ends it, exit status 0 means drained, what was acknowledged survives |
| Configuration | `internal/config` | none | `Load`, once | nothing is served with a bad one |
| Demo page | `handleDemo` in `cmd/vitrine/main.go` | none | read a file, render it | hides no request from the log but its own |
| Templates, container and CI | `themes/plain`, `docker/`, `.github` | none | | see section 7 |
| The workflow | external (`docs/n8n-setup.md`) | version sent, version acknowledged, URL told | push, repeat | |

### How they interact

`main` opens the store (migrating the file), scans the theme directories into
the registry, builds the router and serves. net/http runs one goroutine per
request. A push goes through request id, logging, recovery and auth to
`handleWebhook`, on to `ingest.Service` and `Store.Upsert`; a visit goes to
`handleBoard`, `Store.BySlug` and `Service.RenderBoard`. The goroutines share
the database file and, read-only after the start, the registry. Theme
directories are shared with the operator, the database file with every other
vitrine process on the same volume.

### What is hard here

* **Interleaved transactions.** `Upsert` is a deferred transaction: SELECT,
  then UPDATE or up to five INSERTs, then COMMIT. The first reads, the others
  write, other handlers commit between any two of them.
* **Crashes, lost answers, repeated pushes.** A push may be committed and its
  answer lost; the workflow repeats it. A push that its client gave up may still
  run when the next one is acknowledged.
* **Shutdown.** Ten seconds for the open requests, then the process ends. The
  listener may fail, or not have started yet, at the moment of the signal; a
  signal may come before `signal.Notify`; a second one finds the channel full.
* **Two processes on one file.** The version is read before the migration's
  transaction begins.
* **Order of steps.** Validation before normalization; the first of several
  faults decides the error code; the status of a board is sent before its page
  is rendered, so that a template that fails leaves half a page under a 200; the
  order in which the middleware is wrapped, and the demo, which it is not around.
* **Stale state.** Templates are parsed once, static files are read on every
  request, theme directories change under both.
* **Unordered maps.** Spec keys, theme names and merged file systems come out of
  Go maps.
* **Boundaries.** Bytes against characters, half stars, a slug cut at a dash,
  the fifth collision.

`PROJECT.json` has the full list under `hazards`, each at its line with the
properties that cover it.

## 2. The modules

```
Board ── BoardStore (abstract)            Payload ── Webhook ── MCWebhook
  │          ▲ implements                              └── WebhookProofs
  └── SQLiteStore ── MCSQLiteStore        ThemeRegistry ── MCThemeRegistry
        │    └── SQLiteStoreProofs             └── ThemeProofs
        │             └── VitrineProofs   Migrate ── MCMigrate
        └── Vitrine ── MCVitrine            │  └── MigrateProofs
              │ implements                  ▼ implements
              ▼                           DatabaseFile (abstract)
            BoardService (abstract)       Main ── MCMain
                                               └── MainProofs
                                          Language ── Response ── MCResponse
                                                         └── ResponseProofs
                                          Slug ── BoardView ── MCBoardView
```

**Board** is the vocabulary of the store: views, rows, calls, answers. A view's
content is one opaque value; its language is apart because the store replaces
an empty one by English. **BoardStore** is the abstract specification: what
the interface in `internal/board/ports.go` promises, every call atomic.

**SQLiteStore** is `internal/store/sqlite.go` statement by statement, for any
number of handlers. `rows` is the committed table, `snap[h]` what the
transaction of handler `h` sees, `stale` the handlers whose snapshot a later
commit has outdated, `writer` who has the write lock; `slug`, `attempt`, `call`
and `answer` are the local variables of the Go functions. `Lookup` is
`BeginTx` and the SELECT, `Update` the UPDATE of `update`,
`InsertTaken`/`InsertFresh`/`SlugExhausted` an iteration of `insertWithRetry`
that collides, succeeds, or is the last to collide, `Commit` is `tx.Commit` and
the return, `Busy` and `Abort` are the error returns with their deferred
rollback, `BySlug` is the one SELECT of a visit, `Crash` a restart. `FreshSlugs`
stands for what the UNIQUE index lets pass.

**Vitrine** extends SQLiteStore with the service around it: connections and
their clients, workflows that push version after version and repeat what was
not acknowledged, visitors, give-ups, SIGTERM, drain and its timeout, kill and
restart. Its `Work` is a step of SQLiteStore, `Respond` the end of
`handleWebhook` or `handleBoard`. **BoardService** is what a workflow and a
visitor may rely on, with no process, handler or fault in it: an address for
ever, a version that was pushed, and per push one true answer or none. Vitrine
implements it under the mapping `Service`: a board's address and version are
those of its committed row, and the answer on its way (`ticket`) is that of the
one handler that is done, `stored`, and whose client still waits.

**Main** is one life of the process: the configuration (`Load`, over every
environment that makes a difference), the main goroutine from `main` to the
`select`, `Shutdown` and the exit, the goroutine that listens, the channels
`errCh` and `stop`, and the requests in progress, of which it only knows that
they begin and, perhaps, end. Vitrine has the lives one after another, with
what is inside the requests.

**Payload** has `Validate` and `normalize` as operators (a text is its size in
characters and in bytes, with the blanks around it), **Webhook** the way of one
request after another through `withAuth`, `handleWebhook` and `Ingest`, one
action per early return. **Response** has the same requests, and all others,
from the side of the middleware: what status is sent, recorded and logged, what
is left of a page when its template fails or panics, what is reported, and which
texts in which language the page has. Its `Demo` and `RenderDemo` are the route
of `main` that stands beside the router. **Language** has `Load`, `T` and
`acceptLanguage` as operators, which Response calls.

**ThemeRegistry** has the theme directories and their edits, the scan
(`Start`, `Validate`, `Load`, `Serve`, with edits possible between any two), the
dev mode (`StartDev`, the first branch of `Get`), the pages and the merged static
files. Its variable `env` is the part of `internal/config` that matters to it:
the default theme and the dev switch of this start. **Migrate** has several processes in `Open` on one file:
`user_version` is read before the transaction begins, each step alters the schema,
one commit ends it. **DatabaseFile** is what that amounts to for the processes that
serve: the first of them takes the file to this release in one instant. Migrate
implements it under the mapping `File`.

**BoardView** is a pure algorithm, driven over all small inputs by two actions:
the grouping, tables, highlights and stars of a board. Each loop of the code is a
recursive function over its iterations, so that what it computes can be proved. **Slug** has `Slugify`, the random suffix and `For` as operators;
BoardView uses `Slugify` for its anchors, and is checked with all of it.

The modules whose name ends in `Proofs` extend the module they are about.

Every definition that models code is mapped to its lines in `PROJECT.json`. The
definitions marked MUTANT are plausible bugs of the definition they precede;
putting one in its place makes the property it is listed with fail.

## 3. The runs

Runs that pass (distinct states in brackets):

| Run | Shows | Instance, and why it is enough |
|---|---|---|
| `store` (395 540) | `SQLiteStore` implements `BoardStore`; isolation of transactions, unique and stable slugs, no lost update, true answers; every call returns | two handlers, two customers, two versions, three slugs, two attempts: two handlers create one customer at once, or two customers; slugs collide once and twice; no symmetry, because of liveness |
| `webhook` (29 137) | what is stored keeps every limit of `Validate`, but for what a blank text becomes; no product but a blank one is dropped; pushed again it is taken as it is, unless a blank has emptied it; typos are listed | a good push and every push that differs from it in the envelope, the spelling of keys, one field of the view, or one field of each of two products; texts on both sides of every limit, blank, padded, and twice as long in bytes as in characters |
| `vitrine_faults` (417 191) | a URL that was told serves that customer's board and is announced once; an acknowledged version is the one that shows, unless a client gave up a push; the store is closed when idle; Vitrine implements `BoardService` | two workflows with two versions each, visitors, three slugs, and one kill, one stop, one drain timeout, one give-up and one failure of the disk, in any order |
| `vitrine_liveness` (61 707) | every workflow gets its version stored and acknowledged | one version each, one kill, one stop, one give-up |
| `main` (3 653) | a signal ends the process whatever hangs or fails; exit status 0 means drained and closed; a bad configuration aborts it before it serves | all 135 environments (the secret missing, one byte short, long enough; a URL, none, or text that is none; dev switch and theme unset, empty, good, the switch bad), two requests that may hang for ever, two signals: one in the channel and one that is dropped |
| `themes` (1 126 752) | pages always render, in production a board is rendered with the same templates and translations as long as the process runs, a file only one theme has is served; broken edits and directories that go away during the scan are survived | three names, any of them the default, production and dev mode, three files (one shared, one blocked in another theme), an initial content and two edits at any time, any number of restarts |
| `migrate` (651) | version and columns agree, an out-of-date version does no harm, everybody gets in, and to those that are in, the migration was one instant (`Migrate` implements `DatabaseFile`) | three processes, three schema steps, a file of any release or a later one, two kills: both losers of a race can be a step behind |
| `board_view` (63 268) | nothing is lost, anchors are unique, tables show every product's own facts, in order, and cards its own highlights or else its first two facts; stars are right; slugs are clean, are never `demo`, keep the letters of the name and keep words apart | the empty board; all boards of two or three products in two categories with five key sets and two kinds of highlights; all of five products in five categories whose slugs collide, twice with numbered names; all 501 ratings; all names of up to five characters of seven kinds, cut at four, so that a cut falls on a dash, a letter and half of an umlaut |
| `response` (2 705 560) | every request is logged with the status that was sent, if requests are logged; a failure of the store and a page cut short are reported; everybody gets a status, and 401 who does not know the secret and nobody else; a reader gets the language of the board, or the one he asks for, and English for what it lacks | two requests in a row that reach the router, any number that do not, over all routes and the demo, at every log level, with errors and panics at every place; bundles of up to two of four languages with any of two texts; headers of up to two entries with regions, capitals, blanks and tags of one to three letters; boards with and without a language |

The runs with `expect: violation` are those of section 4.

What the runs do not bound: the histories. `faults`, `edits`, `crashes` and
`received` count what the environment does, and are bounded by the constants
named `Max...`; everything the code does by itself is unbounded.

Deadlock is checked wherever the system cannot stop: `CHECK_DEADLOCK FALSE` is
set for `main` (the process ends), for `themes` (in dev mode `main` exits when
the theme is missing, and stays down) and for `response` (`MaxRequests` is used
up). Vitrine never stops, since a workflow that is done still has visitors, or
the process can be started again.

## 4. Where code and documentation disagree

Each of these runs checks one sentence of the documentation or of a comment and
finds it violated by what the code does. `findings` in `PROJECT.json` quotes the
sentences.

| Run | What happens |
|---|---|
| `webhook_answers` | a push that loses the race for the write lock is answered 500 `internal_error`, which `docs/api.md` does not list |
| `vitrine_drain` | a request that is still open after ten seconds is cut off |
| `themes_immutable` | two themes with a file of the same name: the one that is served is drawn at every start, but clients keep it for a year |

The models contain further disagreements, which no run of their own exhibits.
The properties are stated so that they hold in spite of them:

* Limits "in characters" are compared in bytes (`validate.go:35`), so 120 umlauts
  are too long; `StoredViewIsSound` bounds both sizes.
* A product with a blank title passes validation and is dropped by the trimming
  after it, so a board without products can be stored; and a `client_name` of
  blanks is stored empty, although `docs/api.md:55` requires one. Such a board is
  refused when it is pushed again as it was stored. `StoredViewIsSound` and
  `NormalizedOnce` name both cases and allow nothing else.
* `docs/api.md:73-74` says that ignored fields are "logged at `warn` level"; the
  handler reports them in its answer and writes no such line (`webhook.go:84`).
  No property speaks of that line.
* README.md:60-62 says that the process aborts if a variable is missing or
  invalid. `Load` looks at the form of two of them, the secret and the dev
  switch: text that is no URL is taken for `VITRINE_BASE_URL`, and every link is
  built from it. `MisconfiguredAborts` asks only that there is one.
* If `"Products"` is spelled otherwise than in the contract it is bound, and
  reported, but typos in its products are not: `TyposAreReported` then asks only
  that the list of ignored fields is not empty.
* `normalize` leaves `customer_id` alone: `" acme"` and `"acme"` are two boards.
* `"Theme"` is bound, since encoding/json ignores case, and is reported as
  ignored; `TyposAreReported` only asks for the keys that are not bound.
* A push whose client gave up may commit after a newer one was acknowledged;
  every push carries the whole board but no version. `LastPushShows` speaks of
  behaviours without give-ups.
* While the default theme is missing, `Get` takes any theme, so a board whose own
  theme is missing too may change its look from request to request:
  `TemplatesAreStable` speaks of boards of which one of the two was found. It
  speaks of templates and translations: "themes are loaded once at startup"
  (`docs/startup.md:222`) is not so for the style sheets and other static files of
  a theme on disk, which are read on every request.
* In dev mode the not-found page comes from the templates of the start, and a
  static file may come from the binary.
* A product with neither specs nor highlights has no highlights, where
  `docs/theming.md:109` gives every card a summary; `FactsStayWithTheirProduct`
  asks for the first two specs, or as many as there are.
* `fil` (Filipino) is cut to `fi` (Finnish) by `acceptLanguage`, whose comment
  speaks of two or three characters: a reader who asks for it by the header gets
  a page in Finnish if there is one, although nobody asked for it.
  `ReaderIsUnderstood` speaks of headers whose first tag has two letters, and of
  boards of any language.
* A line is written only if `VITRINE_LOG_LEVEL` lets it through. That of a request
  is an Info line and gone at `warn`, "ingest failed" is a warning and gone at
  `error`; `EveryRequestIsLogged`, `LogTellsTheStatus` and `FailuresAreReported`
  say so.
* A signal before `signal.Notify` kills the process; `SignalEndsIt` and
  `MisconfiguredAborts` allow for it.
* A variable that is set and empty is no unset one: `VITRINE_THEME=` names no
  theme, and the process falls back to any; in dev mode it exits.
* A panic while a board is rendered comes after its status was sent: the log
  says 500, the client got 200. `LogTellsTheStatus` leaves that case out.
* The demo is neither logged nor recovered, and a template that fails there is
  reported to nobody; `FailuresAreReported` speaks of the routes of the router.

## 5. Assumptions, fairness and abstractions

**SQLite** is not under the source tree. SQLiteStore and Migrate assume of it, in
WAL mode and with the pragmas `Open` sets:

* the first SELECT of a deferred transaction fixes the snapshot it reads;
* the first write takes the one write lock. A transaction that has already read
  is refused at once when another has the lock or has committed since (the busy
  handler is not called then); a transaction that has not read, as that of the
  migration, waits up to the busy timeout and then sees the newest commit;
* a statement that violates a UNIQUE constraint is undone, the transaction and
  its lock stay;
* a commit is atomic and survives a kill; what was not committed does not.

**Fairness.** SQLiteStore: weak fairness of each handler's steps, because the Go
scheduler runs every goroutine that can run; none for `Invoke`, `Abort` and
`Crash`. Vitrine: the same for handlers; weak for `Close` and `Restart` (main
goes on when the last handler is done, the supervisor restarts it:
`docker/docker-compose.prod.yml`). Two strong ones, both because of a bound: of
each workflow's `Send`, since the small set of handlers lets visitors occupy all
of them, where net/http starts a goroutine for every connection; and of
`InsertFresh`, since a free slug among 62^6 per name is drawn sooner or later,
whereas two or three slugs may all collide. Migrate: weak fairness of each
process's `Open`, which the supervisor repeats. Main: weak fairness of the steps
of the main goroutine, of the listening one (both are runnable when their guard
holds, and `ListenAndServe` returns when its listener is closed) and of the
timer of the drain; none for requests, which may hang for ever, nor for signals.
No fault is ever fair.

**net/http** is not under the source tree either. Main assumes what its
documentation says: `Shutdown` closes the listener, makes `ListenAndServe`
return `ErrServerClosed` even if it is called later, and returns when no request
is open or its context is done. An answer that is later than the `WriteTimeout` of
15 s is lost: for Vitrine that is one more client that gives up (`GiveUp`), for
Response what the server has written is sent.

**n8n.** That a workflow pushes a version again until it is told that it is stored
is an assumption: `docs/n8n-setup.md` describes one request and what to do on an
error, and no retry (n8n has one per node). `EveryPushLands` rests on it; the
safety properties hold for workflows that repeat and for those that do not.

**Abstractions.** A theme directory is a version that parses or does not; reading
it is one step. A text in Payload is its size; the random suffix of a slug is the
choice of a slug from `Slugs`; a page is which theme, which language or which
products, not its markup. A request is in one piece: a body that is cut off is an
outcome of reading it. Log lines are their severity, their status and whether they say
what failed. A signal is a signal, SIGINT or SIGTERM. Language tags and slugs are
sequences over a few representative characters.

## 6. The proofs

`tlapm` checks the eight proof modules to the last leaf. The results hold for
every value of the constants under the `ASSUME`s next to them. These say that
the special values (`NoRow`, `NoWriter`, `NoTicket`, `NoStatus`, `Absent`, ...)
are none of the ordinary ones, that English is a language, that the embedded
theme is one of the themes and paths of files are no names of themes, that the marks of a process that runs
and of one that was killed are no exit status of `main` (`StatusAssumption`), and
that bounds are numbers, positive where the code's are. Three say what the inputs are: a stored board is a sequence
of products with finitely many specs and ratings between 0 and 5, which is what
`Validate` leaves (`BoardsAssumption`); headers are sequences of entries
(`HeadersAssumption`); and requests have the fields of a push
(`RequestsAssumption`). Each is evaluated by TLC on the instances above.

**SQLiteStoreProofs.** Unique slugs and live answers are not inductive alone: a
commit writes the whole snapshot `snap[h]`, taken before others may have
committed. The invariant therefore says, for each handler, what its transaction
may rely on (`SnapshotIsolation`):

* `SnapOK`: a snapshot that is not out of date is the committed table, plus the
  transaction's own row once it has written;
* `WriterOK`: who has written has the lock and is not out of date, so that there
  is at most one such transaction and its commit outdates all the others;
* `CallOK`: where a handler is goes together with its call and its answer.

`IInv == TypeOK /\ SnapshotIsolation /\ UniqueSlugs /\ AnsweredSlugIsLive` is
proved inductive with one lemma per action; `CommitWritesOneRow` (a commit
changes the row of its own customer, keeps its slug or gives it a free one)
carries most of the weight. From it follow

| Theorem | States |
|---|---|
| `TypeCorrect` | `Spec => []TypeOK` |
| `Isolated` | `Spec => []SnapshotIsolation` |
| `SlugsAreUnique` | `Spec => []UniqueSlugs` |
| `AnswersAreLive` | `Spec => []AnsweredSlugIsLive` |
| `SlugsAreStable` | `Spec => SlugStable` |
| `NoUpdateIsLost` | `Spec => NoLostUpdate` |
| `CreatedIsTrueAlways` | `Spec => CreatedIsTrue` |
| `Implements` | `Spec => StoreSpec`: every behaviour is one of `BoardStore`, with `table <- rows` |
| `CallsAreShortAlways` | `Spec => CallsAreShort`: every step of a handler takes its call nearer to its end (`Remaining`, at most `MaxSlugAttempts + 3`), and no step of another throws it back |

`Implements` maps a commit to `Update` or `Insert`, the error returns to `Fail`
or `Exhaust`, the SELECT of a visit to `Find`, and the statements before a commit
to stuttering. `CallsAreShort` is the safety half of `EveryCallReturns`: nothing in
`Upsert` loops on the lock, on a stale snapshot or on collisions beyond the last
attempt. That a next step is always possible is left to TLC.

**MigrateProofs.** `VersionIsTruthful` is not inductive either: a commit writes
what the transaction has gathered. `StaleVersionIsHarmless` says what that is: a
waiting process has read the version right or the file has been migrated
meanwhile; who has the lock has gathered a gapless continuation, or nothing,
and will be refused; what is stamped is this release. With it `TypeCorrect`,
`StaleVersionsAreHarmless`, `VersionsAreTruthful`, `ServersSeeAllColumns` and
`FilesAreMigratedOnce` (the file is taken forward at most once, from what it was)
are proved for any number of processes and schema steps, and

| Theorem | States |
|---|---|
| `MigrationIsAtomic` | `Spec => OpenIsAtomic`: every behaviour is one of `DatabaseFile`. Finding the file current, and the commit of the one that does not, map to `Open`, the death of a server to `Die`, all else to stuttering |
| `OnlyRacesFailAlways` | `Spec => OnlyRacesFail`: a start fails only when another process has the lock or has left the file as this release wants it, so that no file is refused for ever: the safety half of `EveryProcessOpens` |

**VitrineProofs.** Every statement of a handler is a step of SQLiteStore, so
`IInv` of SQLiteStoreProofs holds in the service. What workflows were told needs
more, because between a commit and its answer anything may happen to the client,
the process and the row:

* `ConnOK`: a handler has a connection exactly while it is in a call, and a
  process that is down has none;
* `PushOK`: a workflow waits for one push, which is the last it sent; pushes
  whose client gave up are older or equal;
* `ToldUrlServes` itself, which is inductive with `AnsweredSlugIsLive`;
* `NewsOK`: at most one answer with `created: true` is on its way, only until
  it is heard, and only while the row exists. A second one would need a commit
  that finds the row absent (`CommitShape`);
* `ShownOK`: as long as nobody has given up, every answer `stored`, on its way
  or heard, is about the version in the row.

`VInv == IInv /\ VType /\ ConnOK /\ PushOK /\ ToldUrlServes /\ NewsOK /\ ShownOK`
gives `ServiceInvariance`, and from it

| Theorem | States |
|---|---|
| `ToldUrlServesAlways` | `VitrineSpec => []ToldUrlServes` |
| `NewsOnceAlways` | `VitrineSpec => []NewsOnce` |
| `LastPushShowsAlways` | `VitrineSpec => []LastPushShows` |
| `ClosedStoreIsIdleAlways` | `VitrineSpec => []ClosedStoreIsIdle` |
| `KeepsItsPromise` | `VitrineSpec => ServiceSpec`: every behaviour is one of `BoardService` |
| `ServiceRunsTheStore` | `VitrineSpec => Spec`: whatever handlers, clients, signals and restarts do, the store goes through a behaviour of SQLiteStore |
| `StoreKeepsItsPromises` | hence `VitrineSpec => SlugStable /\ NoLostUpdate /\ CreatedIsTrue /\ StoreSpec` |
| `UrlNeverChangesAlways` | `VitrineSpec => UrlNeverChanges`: what a workflow was told stays what it is told |
| `AcksGoForwardAlways` | `VitrineSpec => AcksGoForward`: no acknowledgement is older than one before it |
| `BoardsGoForwardAlways` | `VitrineSpec => BoardsGoForward`: no board goes back to an older version while no client has given up |

`KeepsItsPromise` maps a commit to `Publish`, a first push of a version to
`Push`, the answer that is heard to `Acknowledge`, a client that gives up and the
end of the process to `Lose`, and everything else, repeated pushes included, to
stuttering. `PushOK` is what makes the mapping a function: at most one handler
can be about to answer a workflow that waits. The last three are about steps:
only a commit changes a board and only a response what a workflow knows
(`WhoChangesWhat`), a response is about the version its workflow sent last
(`ResponseIsCurrent`), and no board shows a version that was not sent (`WasSent`,
inductive with `VInv`). Without its hypothesis `BoardsGoForward` is false, for the
reason `LastPushShows` has one.

**MainProofs.** `Handshake` says how far each goroutine can be when the other is
at a given place: nobody shuts down without a signal, `errCh` is closed without
an error only under `Shutdown`, the listener closes only while main waits for it,
and main returns with no request open. `CleanExitIsDrainedAlways` follows, for any
number of requests and signals, and `MisconfiguredNeverServes`, the safety half
of `MisconfiguredAborts`. Two theorems are the safety half of `SignalEndsIt`:
`SignalIsKeptAlways` (a signal that was received has killed the process, waits in
the channel or has been taken by `main`: none is lost, before `Notify`, before the
`select` or to a full channel) and `GoesForwardAlways` (the measure `Left`, at most
12, falls with every step of `main`, the listener and the timer of the drain, and
no request or signal raises it).

**ResponseProofs.** `RInv` follows a request through the middleware: which
function can run for which request (`PlaceOK`), what has been sent and recorded
meanwhile (`StatusOK`), what holds of a response that is complete (`KnownOK`), and
that a request is counted once where it comes in and, at a level that shows it,
once where it is logged (`CountOK`). With `Severities`, what is written at which
level, `EveryRequestIsLoggedAlways`, `LogTellsTheStatusAlways` and
`FailuresAreReportedAlways` follow; with `TwoLetters`, what `acceptLanguage` makes
of a tag of two letters, and `PageLanguage`, `ReaderIsUnderstoodAlways` for any
bundle, header and board. `AnswerOK`, inductive with `RInv`, says besides that a
push without the secret is never past `withAuth`: hence `AnswersFitAlways` (every
request that reaches the router gets a status, panics included, and 401 is for the
pushes without the secret, all of them and nobody else). `ResponsesAreShortAlways` bounds a response by seven steps.

**ThemeProofs.** `TInv`: what is in the registry has parsed, the registry does
not change while the process is up, and whatever was answered for a page, if its
theme or the default is in the registry, is still what that holds for it
(`Settled`). `EveryPageRendersAlways` and `TemplatesAreStableAlways` follow for any number of themes and edits;
`UniqueAssetsServeAlways` needs besides that the merged file system is some order
of the registered themes (`MergedFinds`). `EveryPageHasATheme`: while the process
is up, `Get` finds a theme for every name, also with the default missing.

**WebhookProofs.** `IgnoredOK`: the list of ignored keys is computed from this
request and reaches the answer of an accepted push; with the definitions of
`ignoredFields` and `Unbound` that is `TyposAreReportedAlways`, for any requests.
`ViewOK`: whatever goes to the store is `Storable`, within the contract and fixed
by `normalize`. `Validate` sees the view before `normalize` changes it, so this
rests on what the checks say of the untrimmed fields (`ViewPasses`,
`ProductPasses`) and on what trimming leaves of them (`TrimFacts`), for every
product that the loop keeps (`KeptList`); that nothing is left to trim or drop is
`NormalizedAgain`, and that `Validate` would take the result unless a required text
or the list has become empty is `SoundViewIsTaken`. `StoredViewIsSoundAlways` and
`NormalizedOnceAlways` follow for texts of any size and any number of products. `StoreIsGuardedAlways` is about the
handler as a whole, over `StagesOK`, what each of its places may rely on: the store
is handed a view if, and only if, the request passes every check (`Passes`), and then
it is this request's view, trimmed; a request that does not pass is refused with 400,
401 or 413, and with 401 just when the secret is wrong, whatever else is.

**BoardViewProofs.** `BInv` says only that the board is a stored one and the view
is what `BuildBoardView` makes of it; the work is in what the loops compute.
A loop is a recursive function; that there is one is `Iterates`, and what holds of
its last value comes by `Induction` over its iterations from an invariant of the
loop. Both are stated for sets and functions, without an operator as parameter,
and rest on the least number of a set (`HasLeast`).

| Loop | Its invariant |
|---|---|
| `Order` | `NamesOK`: every category so far, once, in the order of the first products |
| `ByCategory` | `FoundOK`: as many products as there are of the category, each at its rank |
| `unionSpecKeys` | `KeysOK`: every key so far, ordered by the product that brings it and then by itself; `Sorted` lists a finite set (`SortedFacts`, by counting) |
| `CollapseDashes` | a text of URL characters without two dashes in a row |
| `Decimal` | numerals of different numbers differ, and have no dash |
| `Slugify` | `Keeps` (see below): what each of its steps does to the letters |
| `Anchors` | `GivenOK`: neat anchors, no two the same. That the search for a free number ends is the pigeonhole principle over the numerals (`SomeIsFree`) |

| Theorem | States |
|---|---|
| `EveryProductShownOnceAlways` | `Spec => []EveryProductShownOnce` |
| `AnchorsAreUniqueAlways` | `Spec => []AnchorsAreUnique` |
| `FactsStayWithTheirProductAlways` | `Spec => []FactsStayWithTheirProduct` |
| `KeysAppearInOrderAlways` | `Spec => []KeysAppearInOrder` |
| `StarsAreNearestAlways` | `Spec => []StarsAreNearest` |
| `SlugIsCleanAlways` | `Spec => []SlugIsClean` |
| `SlugKeepsTheNameAlways` | `Spec => []SlugKeepsTheName` |
| `EveryAddressIsClean` | the same of `For`, the addresses, for names of any length in any characters and any six random bytes |

`SlugKeepsTheName` compares the letters of a name with those of its slug, where
`SlugIsClean` is about the slug alone. `Keeps(s, t, f)` says that the function `f`
takes the places of the letters in `t` to those where they stood in `s`: it keeps
the letters, their order and who are neighbours, and leaves out none before the
last. It holds of each step of `Slugify` (replacing what is no letter,
`CollapseDashes`, `TrimDashes`, the cut) and goes on from step to step; until the cut
no letter is left out at all (`KeepsAll`). `RanksAreKept` turns that into what the
property says of the n-th letters.

Only model-checked: the liveness properties (`EveryCallReturns`, `EveryPushLands`,
`EveryProcessOpens`, `SignalEndsIt`, and the abort that `MisconfiguredAborts`
promises), which need fairness and ENABLED. Of all but `EveryPushLands` a theorem
above has the part that is safety.

## 7. Not modelled

* **Settings that are passed on unchecked** (`VITRINE_ADDR`, `VITRINE_DB_PATH`,
  the footer): no decision depends on them. The log level, which decides what is
  written, is the `level` of Response. An address that cannot
  be listened on is `ListenerFails`, a database that cannot be opened the failing
  branch of `OpenStore`.
* **Templates, styles, golden files**: markup, compared by the repository's tests.
* **Container, build, CI**: the restart policy is `Restart` of Vitrine.
* **The entropy source**: which bytes it gives; a failing source is `Abort`. The
  alphabet of the suffix and its modulo are in Slug, its bias is not.
* **The embedded theme** is taken to load: its files are in the binary, and the
  branch of `buildRegistry` that exits without it cannot be taken.
* **Races inside net/http**: `Shutdown` is what its documentation says. A
  connection that becomes active while `Shutdown` closes idle ones is net/http's
  to handle, and not in Main.
* **Log redaction**, wording of error messages, `Supported` and `Languages` of
  the translations (no caller).
* **Byte-level JSON**: which texts are malformed is an outcome of `Decode`.

## 8. Plan

Order: first the store, because every promise to a customer rests on it, then
what reaches it, then the service with its faults, then the pages.

| Step | State |
|---|---|
| Board, BoardStore, SQLiteStore, refinement and its proof | done |
| Payload, Webhook | done |
| Vitrine on top of SQLiteStore: faults, liveness | done |
| ThemeRegistry, production and dev mode | done |
| Migrate and its proofs | done |
| BoardView with Slug, Language, Response | done |
| Main: configuration, the two goroutines, signals and the drain; liveness | done |
| The demo page, pages cut short and their report, the texts of a page, in Response | done |
| BoardService, the service as a workflow sees it, and Vitrine as its implementation | done |
| VitrineProofs, MainProofs, ResponseProofs, ThemeProofs, WebhookProofs | done |
| `StoredViewIsSound` and `NormalizedOnce` proved, with lemmas about `Validate` and `normalize` field by field | done |
| BoardViewProofs: what the loops of the view model compute, for boards of any size | done |
| `SlugKeepsTheName` proved, with what each step of `Slugify` does to the letters; the safety halves of the liveness properties; that responses are short; DatabaseFile, and Migrate as its implementation; SQLiteStore as a part of Vitrine | done |
| A join of Webhook, SQLiteStore and Response: one push from the secret to the log line, with its context cancelled at every statement | later |
| Two processes on one file beyond migration: SQLiteStore with several of them, one draining while the next one serves (a rolling restart) | later |
