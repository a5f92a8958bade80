# Verification of the production change registry

TLA+ models, TLC runs and TLAPS proofs for go-prod-change-registry. The paths
below are relative to the repository. `PROJECT.json` maps every definition to
the lines it models.

## The system

The registry records production changes as immutable events in PostgreSQL and
serves them over a REST API and a dashboard. Several server replicas share one
database; there is no other shared state.

| Component | State | Operations | Hard part | Correct when |
|---|---|---|---|---|
| Change service (`internal/service/change.go`) | none of its own | create, add links, toggle star/alert, close operation, list, activity, operation state | every operation is several database calls with decisions between them | creation is idempotent per external id; a close closes; children follow parents |
| PostgreSQL store (`internal/store/postgres`) | rows, tags, links; sequence `ingest_sequence` | Create, toggleTransition (transactions); List, ListCurrent, annotations (queries) | row locks, unique index, sequence numbers that do not follow commit order, lost commit answers | each operation is atomic; derived state has one meaning in all queries |
| REST handlers (`internal/handler/api.go`) | none | decode, call the service, map errors | ErrDuplicate is a success with a body | answers are true of the log |
| Parameters (`list_params.go`, `current_params.go`, `dashboard_params.go`) | none | query string to ListParams/CurrentParams | defaults, precedence, what the sender's encoding loses | the filter is the one the user asked for |
| Dashboard (`dashboard.go`, `record.go`, `form.go`) | none | forms over the same service operations | CSRF, presets | as the API |
| Login and sessions (`human_auth.go`, `middleware/*session.go`) | cookies in the browser | start, callback, logout; session check per request | several tabs, expiry, proxy identity that changes | a session is used only by its identity and only until it expires |
| Identity providers (`internal/humanauth`) | external | Authenticate | outages, revocation, spelling | admits whom the configured allow-lists permit, and takes a failure for neither answer |
| Server configuration (`internal/config`) | none | Load | settings that exclude each other | a server that starts has one clear policy |
| API authentication (`middleware/auth.go`) | none | AuthWithTrustedIdentity | proxy identity, tokens and open reads in one chain | events name the person whose credential was used |
| Pool (`internal/postgres`) | open connections | Open; acquired by every statement and transaction | connections held while waiting for locks | no wait for a connection closes a cycle |
| Server lifecycle (`cmd/server/main.go`) | listener, handlers in flight | serve, shut down | signal, error and deadline race | returns only after handlers or the deadline |
| Client configuration (`internal/pcrconfig`) | one file | load, write | crash, concurrent writers | the file is always an old or a new whole |
| Fixtures, seeding (`internal/fixture`, `cmd/seed`) | what was created so far | apply in order | partial failure, second run | a second run completes the first |
| CLI and client (`internal/pcrcli`, `internal/pcrclient`) | none | one HTTP call per command; two commands write the configuration file | timeouts, failing proxies, requests that go on after the command gave up | the exit status is true of what was recorded |
| Smoke test driver (`cmd/smoke`) | a server process, a schema, a directory | start, wait, run cases, stop | a shared port, Ctrl-C, half-finished starts | nothing is left behind; the exit code is about one server |
| Logging, request ids, assets, manifests | none | | | not modelled |

Calls go handler → service → store → PostgreSQL. A request is one goroutine;
requests meet only in the database. The router cancels a request after 30
seconds (`router.go:25`), a replica may crash, a connection may break: all of
these end a transaction at some statement, and an answer may be lost after the
commit.

## Modules

| Module | Models |
|---|---|
| `EventModel` | the pure rules: tag policy, star/alert state, operation identity in Go and correlation in SQL |
| `ChangeRegistry` | concurrent write requests, one action per SQL statement, over committed and uncommitted rows |
| `ChangeLog` | the abstract promise: an append-only log on which each request takes effect at one instant |
| `ChangeRegistryProofs` | theorems about ChangeRegistry |
| `Queries` | the read side as operators on one snapshot of a growing registry |
| `Paging` | the `listAll` loop while the registry grows |
| `Annotations` | the two loops that derive star and alert state, row by row, while the registry grows |
| `ReadsProofs` | theorems about Queries, Paging, Annotations and Dashboard |
| `Seeding` | `pcr-seed` over the atomic create of ChangeLog |
| `SeedingProofs` | theorems about Seeding |
| `Sessions` | login, session cookies and dashboard forms with several tabs |
| `SessionsProofs` | theorems about Sessions |
| `Dashboard` | the dashboard's parameters and every link of its page |
| `ListLimits` | the page size the service makes of a requested limit, for Queries and Dashboard |
| `ServerLifecycle` | the server process from start to exit |
| `ServerLifecycleProofs` | theorems about ServerLifecycle |
| `ConfigFile` | the configuration commands over a page cache and a disk |
| `ConfigFileProofs` | theorems about ConfigFile |
| `Access` | which settings the server accepts and whom each identity provider admits under them |
| `Client` | the `pcr` command from command line to exit status, through proxy, API authentication and handler |
| `ClientProofs` | theorems about Client and Access |
| `Smoke` | smoke drivers, their servers and the port they share |
| `SmokeProofs` | theorems about Smoke |
| `MC*` | the instances TLC checks; `ServerLifecycle` and `Smoke` are checked as they are |

The modules compose upwards: `Paging` and `Annotations` extend `Queries`, which
shares `EventModel` with `ChangeRegistry`; `ChangeRegistry` implements `ChangeLog`, and
`Seeding` stands on that. `Client` extends `Access` and puts command, proxy and
server together over an atomic registry. The other modules are about parts that
share nothing with the database but the service calls.

### ChangeRegistry

`pc[r]` is the statement that request `r` runs next, `event[r]` the event it
builds (its row from INSERT on), `committed` the rows other statements see,
`nextSeq` the identity column, `reply[r]` what the client was told. The steps:

| pc | Action | Code |
|---|---|---|
| idle | `Begin` | handlers in `api.go` up to the first statement |
| lookup | `LookupExternal` | `create`: GetByExternalID, then validateCreateRequest |
| parent | `RequireParent` | `requireParent` |
| insert, unique, fk | `Insert`, `CheckUnique`, `CheckForeignKey` | the INSERT of `Store.Create`: identity value, unique index, foreign key |
| duplicate | `DuplicateLookup` | rollback and GetByExternalID after a unique violation |
| commit | `Commit(r, answered)` | tags, links, COMMIT; the answer may be lost |
| begin, lock, read, insert_transition, commit_transition | `BeginTransition`, `LockParent`, `ReadLatest`, `InsertTransition`, `Commit` | `toggleTransition` |
| get_start, state | `GetStart`, `ReadOperationState` | `CloseOperationAs`, which then continues at lookup |
| any | `Fail` | a failing statement: rollback and error |

The INSERT is three actions because PostgreSQL can wait inside it: it draws
the sequence number, then waits for an uncommitted row with the same external
id, then for the parent's row lock. That is where commit order and sequence
order part. PostgreSQL is external and modelled by what the code relies on
(READ COMMITTED, FOR UPDATE against FOR KEY SHARE, the unique index).

A statement outside a transaction, and the first of one, needs a connection
that its replica's pool (`MaxConns`) has free; a transaction keeps it until it
commits or rolls back (`holding`). `DuplicateLookup` is outside: the code rolls
back first.

Abstractions: ids are fresh (UUIDv7), so the event of request `r` has id `r`;
the SHA-256 in the external id of a close is injective, and clients do not
choose external ids of that form; descriptions, user names and link texts are
dropped, link lists are none, valid or invalid; a request body that does not
decode is refused before any of this and is no request here. Tags are a
function over the six well-known keys; other keys are never looked at.

### Queries, Paging and Annotations

A registry grows one event at a time and every content that can be reached is
queried. Events may be recorded in any order of sequence number, timestamp and
id, because commit order is free (ChangeRegistry) and timestamps come from
clients. The CTEs of `currentCTEs`, the WHERE clauses, ORDER BY, LIMIT and
OFFSET are one operator each. The filter on
`user_name` (an equality like the one on `event_type`) is left out. Times count
fractions of a second so that truncation shows. `Paging` puts the statements
of `listAll` back between one another: COUNT and SELECT see different
registries.

`Annotations` is a reader. `GetAnnotations` and `GetAnnotationsBatch` take a
`snapshot` and the rows of their SELECT (`unread`), `Scan` is one iteration of
either loop, on the newest row left, `Finish` the end of the rows or the `break`
of the single reader, `Interrupt` an error. The value and the "resolved" flag the
code keeps for each kind are one `verdict`: the transition that resolved it, or
None. One event may be asked for by an id that is not recorded, because
`GetEventAnnotations` does not look it up (`api.go`).

### Sessions

One browser with several tabs; `session` and `flow` are its two cookies. A
request carries the cookies of the moment it was sent (`request[t]`), the
server answers from the request alone, and the answer's Set-Cookie takes
effect when it arrives (`response[t]`), in any order among the tabs. `tab[t]`
is what the user sees: the name on the page and the CSRF token of its forms.
`who` is the user at the provider or proxy, `revoked` the policy. Signed
cookies cannot be forged, so a cookie is the value it protects and a CSRF token
is the nonce of its session. `deployment` says whether PCR stands behind the
trusted proxy (`Beyond`), which is asked again on every request, or uses an
OAuth provider, which is asked at login only. `write` keeps who the event of the
last step was attributed to.

An OAuth login is three steps after its redirect, because the handler waits for
the network between them: `Callback` checks the flow and calls the provider,
`Authenticate` is the provider's answer and the policy's decision, and
`SetHumanSessionCookie` stamps the session with the time at which that answer has
arrived. The user may be revoked and time may pass at each. The calls carry the
request's context, which the router ends after 30 seconds (`router.go:25`,
`RequestTimeout`); what is assumed of the code is that it waits for nothing
between the return of `Authenticate` and `time.Now()`. `failLogin` is every
refusal, with the flow cookie cleared.

| Action | Code |
|---|---|
| `GetPage` | `requireHumanAuth`, `Detail`; or `rejectHumanRequest` and `ShowLogin` |
| `StartOAuth`, `StartBeyond`, `Logout` | the handlers of `human_auth.go` |
| `Callback`, `Authenticate`, `SetHumanSessionCookie` | `Callback` of `human_auth.go` up to, in and after the call of the provider |
| `Action` | `ToggleStar`, `ToggleAlert`, `AddLinks`, `CloseOperation` of `dashboard.go` |
| `CreateEvent` | `record.go` |
| `Open`, `Follow`, `Submit*`, `PressSignIn`, `ProviderReturns`, `Receive` | the browser |
| `Tick`, `SwitchUser`, `Revoke` | time and the identity provider |

### Dashboard

`query` is the URL of the page shown. `filtersOf` and `listParams` are
`parseDashboardRequest`, each link builder is an operator of the same name, and
each kind of link in the templates an action that follows it. Texts are small
sets with `TrimSpace` and `ToLower` as functions on them; an integer that does
not parse is `NaN`, an absent one 0, which the parser treats alike. Scopes and
severities are sets, for the store only asks whether a value is among them; tags
are a sequence, for the last value of a key counts. `kept` is a loop that
appends some of the elements of a sequence (TLC compares it with `SelectSeq`).
`pageEnd` is an addition in an int and wraps beyond `MaxInt`.

A tag of an event (`EventTag`) has any key. `key+":"+value` is cut again at the
first colon, so a key is kept as the part before its first colon and the `rest`
after it, and `cut` is what the parser makes of the link: `Joined` puts the colon
back between the rest and the value. A tag whose key has a colon never replaces
itself (`existingKey != key`), so its link can be followed again and again and
adds one more `tag` each time: `MaxTags` bounds that.

### ServerLifecycle

`main` is where the main goroutine stands (start-up steps, the select,
Shutdown, the wait for Serve, the deferred calls), `serve` the Serve goroutine,
`serveErrCh` the channel between them, `conn[c]` a client connection (idle, with
an active handler, with a handler that holds a database connection). The order
of the deferred calls matters: `signal.Stop` runs first, so during
`pool.Close` a further signal has its default effect (`DefaultSignal`).

### ConfigFile

Each process runs `config init` or `config set-credential`; `pc` walks through
the file operations of `Write`. `cached` and `path` are what processes see,
`disk` and `diskPath` what survives a power loss; write-back may happen at any
time. A directory that `Write` created itself is marked `fresh`: its entry in
the parent is not synced by the code, so durability is stated for directories
that existed.

### Access and Client

`Access` has no state: an environment is a record of the settings that matter
to the policy, `Load` the configuration or None, and `Authenticate` the decision
about a person whose provider answers, fails or is unavailable. `Permitted` says
whom the settings mean, without any of the code's normalisation. A name carries
its spelling so that lower-casing shows.

In `Client` an invocation goes from `idle` through `waiting` and `writing` to
`done` with an `exit` status. Its request is at the proxy or at the server and
goes on when the invocation has given up; the answer is a status and whether
its body arrives whole.

| Action | Code |
|---|---|
| `RefuseUsage`, `RefuseConfiguration` | the commands' checks, `Resolve`, `ParseOrigin`: statuses 64 and 78 |
| `Send` | `Client.do` up to the call |
| `Receive`, `WriteResult` | `Client.do` after it, `exitCodeFor`, `output.go` |
| `TimeOut`, `Disconnect` | the timer of `http.Client`; a broken connection or Ctrl-C |
| `Serve`, `ServeFails` | `AuthWithTrustedIdentity` and the handler; a failing store |
| `ProxyForwards`, `ProxyRefuses`, `ProxyFails`, `Lose` | the proxy and the network |

The registry is the set of recorded external ids; its statements are in
`ChangeRegistry`. Flags that are handed through unchanged are left out.

Texts with colons are the sequences of their parts: `key+":"+value` is the
concatenation, `strings.Cut` is Head and Tail, and nothing before the first colon
is a 400 (`badTag`). The tags of a listing are sent in the order of their keys
(`SortStrings`), which decides which of two keys that begin alike is left.
`--tag` is the list that the flag library hands to the command; a comma in a
flag has by then made two arguments of it.

### Smoke

`pc[d]` walks through `start`, `waitReady`, the cases and `stop` of driver `d`;
`server[d]`, `schema[d]` and `tempDir[d]` are what it has created, `port` whose
server listens. The twenty cases are kept by what they look at: whether the
event they create existed, was kept, starred or alerted (neighbours that look at
the same are one case). `fixture[d]` names the server whose ids a driver kept,
because another server does not know them.

### Seeding

A seeder walks the fixture (`at`), keeps the ids it was told (`refs`), stops at
the first error and is started again. An error may come before or after the
event was recorded. `validateReferences` asks for distinct refs and for parents
that come earlier; it does not look at external ids. An item whose external id
an earlier one has gets that one's event, and its children hang under it: an
event `standsFor` an item when it was recorded for it or has its external id,
and `Lineage` and `SeededOnce` are stated with that.

## Runs

| Run | Checks | Instance |
|---|---|---|
| `registry_create` | `TypeOK`, `ExternalIDUnique`, `IdempotentCreate`, `ParentFirst`, `EveryRequestAnswered`, `ToggleFlips` | 3 requests, 2 connections, 2 external ids, a recorded event that today's policy refuses, parents that exist, do not, or are being written, toggles and directly created transitions of the same parent; under `FairSpec` |
| `registry_operations` | `CloseMeansClosed`, `CloseWritesOnce`, `ImplementsChangeLog` | 3 requests: closes of one operation from two starts, another operation, a hand-written end, a late start, every other operation and every refusal |
| `reads` | `AnnotationReadersAgree`, `CurrentListsOpenOperations`, `FilterNeverPromotes`, `ClosedHasClosure`, `ListingsTile`, `LossBounded`, `ListingEnds` | four workloads: 3 phase events with every mix of missing, empty and set identifiers, two types, children, filter tags; 4 events over 3 seconds, with every requested limit from below zero to above the maximum; 5 children listed in pages of 2, any of them recorded meanwhile; 2 events with 3 meta-events recorded in any order, before and while one reader of one or both events walks through its rows |
| `lifecycle` | `GracefulExitDrained`, `NoQueryCutOff`, `ServeFailureReported`, `SignalEndsProcess` | 2 connections |
| `configfile` | `WholeConfig`, `AckDurable`, `InitSticks` | 2 inits, 2 set-credentials (symmetric), with and without an earlier file or directory |
| `sessions` | `WriteByShownUser`, `LandsWhereAsked`, `WriteByEdgeUser`, `RevocationBounded` | 2 tabs, 2 users (symmetric), 2 pages; three deployments: OAuth with 4 random values, OAuth with 2, sessions that expire and 2 ticks, of which a login may take 1, Beyond with 2 logins and 2 ticks |
| `dashboard` | `LinksLeadWhereTheySay` (links keep the filters, the banner's link shows what it counts, tag links refine, tag removal is clean), `PaginationContiguous` | every chain of links from 1792 URLs, with tag links of at most 3 tags; events with plain tags, a tag without a key and one with a colon in its key |
| `seeding` | `Lineage`, `SeededOnce`, `RerunCompletes` | 5 items, two of which share an external id, 2 seeders, 3 faults |
| `client` | `ExitTellsOutcome`, `AttributedToHolder`, `DoctorPredicts`, `ListedAsAsked`, `AdmittedAsWritten`, `EveryInvocationExits` | 2 invocations of 19 command lines, tags with colons in values and in keys, 8 server configurations (one refused), 4 people, 3 credentials |
| `smoke` | `LeavesNothing`, `CodeTellsServer` | 2 drivers on one port, the second local or remote, one with `--keep-data`; one failing call each, Ctrl-C at any time |
| `lifecycle_comment` | violates `ReturnsAfterDrain` | as `lifecycle` |
| `paging_complete` | violates `ListAllComplete` | the children of `reads` |

A workload of `Queries` and a deployment of `Sessions` is chosen in the initial
state and never changes, so one run covers several instances. In `reads` the
workload also says who reads (`ReadsSpec`): a behaviour of it is one of `ListSpec`
and of `WalkSpec`, in one of which only the registry moves.

Why the bounds are enough: the races in question are between two requests
(lookup against insert, read against insert, close against close); a third
request is the one that inherits what a rolled-back second leaves, or the one
that finds both connections taken.
The theorems below remove the bounds from all safety properties. In `Queries`
three phase events are two starts and an end or a start and two ends, all the
relations an operation has. In `Annotations` three meta-events are an older and a
newer one of a kind and one of the other kind.
Pages of 2 over 5 children need three pages. In `Sessions` the second tab is
the one that changes the cookies under the first; four random values are two
complete logins (a state and a nonce each), behind Beyond two. The values are
bounded more tightly where the clock moves, because expiry and revocation need
one session only; two ticks are a login that takes its whole timeout and a session
that ends. In `ConfigFile`
two inits race for the path and two setters for the last word. In
`Client` the second invocation is the one that meets what the first recorded,
or follows the advice of its doctor. In `Smoke` the second driver is the one
that takes the port or the server away. In
`Seeding` the third fault comes after a rerun was interrupted too.

Fairness: `Fairness` says that a request whose next statement can run
eventually runs it or ends otherwise: PostgreSQL grants a lock when its holders
are gone and Go schedules runnable goroutines. No request has to arrive and
nothing has to fail. `EveryRequestAnswered` therefore says that waits never
form a cycle; it does not lean on the 30 second timeout. `ListSpec` asks the
same of the loop. In `Paging` the registry is bounded by `MaxEvents`; the loop
ends in any case once nothing more is recorded.

In `ServerLifecycle` main and Serve run when they can, the deadline passes, and
a handler's database query ends because the router cancels its context after 30
seconds; nothing is assumed of handlers otherwise, and a signal need not come.
In `Client` only the invocation's own steps and its timer are fair: nothing is
assumed of the proxy, the network or the server.
In `Seeding` an interrupted seeder is started again and faults are bounded by
`MaxFaults`.

The violated properties are statements of comments that the code does not keep;
the findings of `PROJECT.json` quote them.

### Divergences noted while modelling

More statements of the documentation differ from the code, or code from what a
reader would expect; the models follow the code and no run is spent on them.

- `GetActivity` finds closures by one tag of the start (`change.go:310`), while
  `docs/testing.md:351` speaks of correlated closure events and `README.md:451`
  gives `change_id` precedence: a start with only `deploy_id` lists an end that
  correlates by its own `change_id`.
- `buildWhereClause` truncates time bounds to the second (`postgres.go:865`), so
  a `start_after` inside a second also returns events stamped at its beginning
  (`README.md:197-198`).
- `redirectAfterAction` goes back to the Referer (`dashboard.go:684`), but every
  page is sent with `Referrer-Policy: no-referrer` (`middleware/auth.go:109`), so
  actions land on `/` and do not redirect back (`README.md:184`).
- A team that comes from a `team` tag is not trimmed (`dashboard_params.go:60`),
  the `team` parameter is (line 30): the banner of a page with a padded tag counts
  changes for the padded team and links to those of the trimmed one.
  `LinksLeadWhereTheySay` allows exactly that.
- `result.Offset+result.Limit` wraps for an offset near 2^63 (`dashboard.go:216`):
  the page has a Next link whenever there are rows, and it leads to the first
  page. `PaginationContiguous` is stated for sums that fit.
- A tag with an empty key is linked to (`dashboard.go:313`) and the link's filter
  is dropped (`dashboard_params.go:135`).
- Tag keys are free-form (`change.go:170`), and the link of a tag `a:b=c` filters
  on key `a` (`dashboard.go:325`, `dashboard_params.go:134`), which is not "an exact
  tag filter" (`dashboard.go:313`); following it again adds it once more, against
  "replaces an existing value with the same key" (line 315).
  `LinksLeadWhereTheySay` says what such a link does.
- The session duration is called the "provider-policy freshness window"
  (`README.md:32`); a session starts when the provider's answer has arrived, not
  when it was given (`human_auth.go:182`, `human_session.go:55`), so the policy may
  be older by up to the request's timeout. `RevocationBounded` has that term.
- A range that is not recognised sets no bound (`dashboard_params.go:102`); its
  comment (lines 88-89) says it defaults to 24 hours.
- `--tag a:b=c` is sent as `a:b:c` (`client.go:199`) and cut at the first colon
  (`list_params.go:120`): the server filters on key `a`, and of `--tag a:b=c --tag
  a:d=e` one is left; `--tag :b=c` is refused by the server and not by the command.
  `ListedAsAsked` says so for keys with a colon, and promises the tag as written
  for keys without.
- `setTime` drops the fraction of `--around` (`client.go:404`): with a window
  that is not of whole seconds the bounds may lie one second before those of the
  API called with the same values. `ListedAsAsked` allows exactly that.
- `validateReferences` accepts a fixture that repeats an external id
  (`fixture.go:100`); the second item is never recorded, and what refers to it
  refers to the first.
- `README.md:111` says requests have a finite timeout; `--timeout 0` is none at
  all (`cli.go:167`). `EveryInvocationExits` is
  stated for positive ones.
- A redirect to the proxy's login page is status 64, a bad request, and not 77
  (`client.go:391`).
- A GitHub organization that cannot be verified ends the search
  (`github.go:165`), also when a later one would admit the user: the answer is
  "unavailable", never a refusal.
- `waitReady` accepts whatever server answers on the port, although its own has
  exited (`server.go:170`); the default port differs from the server's to avoid
  it (`main.go:24-25`), which does not help between two drivers.
- `create_event` expects 201 (`cases.go:112`), so a second run of the smoke
  tests against one server fails there, although the fixture's comment promises
  deterministic cases "across invocations" (`cases.go:20-22`).
- A CREATE SCHEMA whose answer is lost leaves the schema behind, for `start`
  returns before `stop` is armed (`server.go:61`).

## Proofs

Each theorem states one property of a run for every value of the constants that
satisfies the assumptions, and so for any number of requests, tabs, commands,
drivers or events. The argument is the same everywhere: the property is not
inductive, an invariant that is stands in the proof module, every action has a
lemma that it preserves it, and the property follows. TLC has checked the
invariants on the instances of the runs.

### ChangeRegistryProofs

`TypeCorrect` (`TypeOK`), `ExternalIDKey` (`ExternalIDUnique`),
`RecordedInOrder` (`ParentFirst`, and `SequenceUnique`, which is not run),
`TogglesFlip` (`ToggleFlips`), `CreateIsIdempotent` (`IdempotentCreate`),
`CloseIsTruthful` (`CloseMeansClosed`), `CloseIsWrittenOnce`
(`CloseWritesOnce`) and `RegistryImplementsLog` (`ImplementsChangeLog`).
The invariants, each of which uses the ones before:

- `TypeInv` is `TypeOK` with `PathOK`: which operations can be at which
  statement and what the event under construction looks like there (a toggle's
  event has its parent and no external id, a request past "parent" has a
  recorded one).
- `RowInv` is about rows: committed rows and rows in flight have distinct
  sequence numbers below `nextSeq`; a parent is recorded before and numbered
  below its child; an external id past the unique check is held by one request
  and by no committed row.
- `LockInv`: at most one request is past `LockParent` for a parent, and no
  insert for that parent is past its foreign key check while it is.
- `FlipInv`: while a toggle holds the lock, what it read is still the parent's
  derived state, and its own sequence number is above every committed
  transition of the parent. Numbers drawn earlier by inserts that still wait
  for the lock are smaller, and so cannot hide it. `ToggleFlips` follows at
  the commit.
- `AnswerInv`: an external id that the unique check found recorded stays
  recorded, so the lookup after the violation finds it; answers name it.
- `CloseInv`: an event whose external id is that of a close is an end event with
  the identifier and type of its operation, recorded or still being written.
  A close that is refused by the unique index has therefore met the end of its
  own operation, and the operation is over in the sense of the SQL rule.
- `DraftInv` follows what a request has drafted, for the refinement: the commit
  is the instant at which it takes effect on `ChangeLog`; every other step maps
  to an answer about the log as it is or to a stutter.

### ReadsProofs

`CurrentIsExact`, `FilteringHides`, `ClosedShowsWhy` and `PartitionsHold` say of
the queries, and `LossIsBounded` of the loop that pages through them, what the
runs check. All but the last hold of every registry in which ids and sequence
numbers are distinct and parents are recorded (`RegistryInv`). The agreement of Current with the Go rules rests on `Identity`:
`operationIdentity` in Go and `correlation` in SQL pick the same identifier of a
start. What LIMIT and OFFSET cut is counted by `rank`, the number of rows before
a row: it is injective, since the order is total, so a stretch of places holds
at most as many rows (`FewRanks`), pages tile a listing (`PagesTile`), and rows
only move back while the registry grows (`RankMonotone`).

`ListingInv` is the loop's invariant: what matched at the beginning and has not
been collected has a rank at or behind the offset, and what was collected twice
is paid for by the offset (`Position`). When the loop ends the offset has reached
a COUNT that saw all that matched at the beginning, or no row is left; in both
cases as many rows must have been inserted as were missed or repeated
(`OnePage`).

`ReadersAgree` is about the loops of `Annotations`. What a loop computes of a
whole result would be an induction over rows; with one row per step it is the
induction over steps that the prover has. `WalkInv`: the rows read have larger
sequence numbers than the rows left, and each verdict is the newest of those read
(`Tells`). At the end either no row is left or every verdict is there, and in both
cases the verdict is that of the whole snapshot (`DoneTellsAll`); then it is
compared with the toggle's read (`VerdictIsActive`) and with the AlertedOnly
filter (`AlertedIsActive`). So it is safe that the single reader stops early.

`LinksAreRight` and `PagesFollow` are about `Dashboard`. `BrowseInv` says that the
URL is one the parser can read; the work is in lemmas about the operators. A link
`Carries` the filters of its page, and parsing it again gives them back
(`Carried`), since trimming and lowering twice is doing it once. For tags,
`KeptPicks` describes `kept` without a recursion: the n-th element kept is the one
with n places of the kind up to it, so an increasing function leads from the
result into the original (`CountReaches`, `CountInjective`). From it follow what
keeping everything does (`KeptAll`), which values the map of the kept tags has
(`KeptTagMap`), and that an appended pair overrides (`AppendTagMap`); `ListingTagLink`
and `EventTagLink` put them together for a tag that `cut` takes apart. The attempt
found three cases that the run's URLs had not held: a padded team tag, a tag with
an empty key and an offset near the largest int. The properties say what the
code does there, and the run now starts from such URLs too.

### SessionsProofs

`AttributedAsShown`, `AttributedToEdge`, `RevocationTakesEffect` and
`LoginLandsWhereAsked`. The invariant is about every session and flow cookie in
existence, in the browser, in requests and in answers under way (`Carried`,
`FlowCarried`): a nonce belongs to one session, no session outlives its lifetime
from now, or its lifetime and one request's timeout from the revocation of its
user (`SessionInv`). That needs the logins between the provider's answer and the
session: their deadline is at most the timeout after any revocation of their
user. For each tab it says
that the CSRF token of its page proves the user it names and that the state of
its login leads back to the page that was asked for (`TabOK`).

### ClientProofs

`ExitIsTruthful`, `EventsNameHolder`, `DoctorIsRight`, `ListingsAsAsked` and
`PolicyIsKept`. `ClientInv` says of each invocation what its request carries
(`RequestOK`), what an answer under way implies (`ResponseOK`), what its exit
status implies (`OutcomeOK`) and what it was served with (`ServedOK`), and of
each recorded event whose credential stands behind it (`EventOK`). A
refusal can be trusted because the answer that causes it consumed the only
request of the invocation: nothing is recorded of it and nothing under way
(`Fresh`). `ListingsAsAsked` follows a tag through the map of the command, the
sorted parameters and the map of the server (`TagsAsAsked`): of the keys that
begin alike the last in the order is left, with its last value. `PolicyIsKept` is a chain of
lemmas about `Access`, one per provider.

### SmokeProofs

`NothingLeft` from `HostOK`, what a driver has set up and taken down at each
step. `CodeIsTruthful` needs `CasesInv` too: a driver that kept an id knows the
server it came from, a server that lost the port is dead and never gets it
back, and no two drivers kept an event of one server (`OwnersInv`); so the cases
that passed all spoke to one server.

### SeedingProofs

`ParentsAreRight` and `SuccessMeansSeeded` for any fixture that
`validateReferences` accepts. `SeedingInv`: every event was recorded for some
item, under an event that stands for the item's parent; the ids a run has learnt
are those of events that stand for its items. The attempt showed that the
properties had held only because the fixture's external ids were distinct;
they are now stated without that.

### ServerLifecycleProofs and ConfigFileProofs

`GracefulExit`, `QueriesRunToEnd` and `ServeFailureShows` for any set of
connections. The invariant adds where Serve stands for each state of main and
what the channel can hold (`ServeInv`: once main is past the select Serve has
returned, so no failure can come later unseen), that Shutdown's nil means
drained and stays so (`ShutdownInv`), and that nothing is served before the
pool is open (`PoolInv`).

`AlwaysWhole`, `Durable` and `InitIsKept` for any number of commands.
`CommandInv` says that a temporary file is complete and synced before it is
installed; `UrlInv`, the heart of `InitSticks`, that the path on disk lags behind
the path but names the same url, and that a set-credential under way carries
that url: the path can only become free again by a power loss, which ends every
command. `AckInv` follows an acknowledged command from the path to the path on
disk.

### Assumptions

TLC evaluates them on the runs.

| Assumption | Says |
|---|---|
| `TextAssumption` (`EventModel`) | trimming and lowering are idempotent and commute, and leave the well-known texts alone |
| `ConstantAssumption`, `SeedAssumption`, `SeedCloseAssumption` (`ChangeRegistry`) | inputs are typed; the recorded events satisfy the schema; those with the external id of a close are ends that a close wrote |
| `LimitAssumption` (`ListLimits`) | `model.DefaultLimit` is positive and at most `model.MaxLimit` |
| `QueryAssumption` (`Queries`) | events and time bounds are typed; None is no number |
| `DashboardAssumption` (`Dashboard`) | URLs, and the tags of events joined and cut, are typed, `model.DashboardLimit` lies within the limits and these within an int; the words in the code's links are trimmed and lower-case |
| `PagingAssumption` (`Paging`) | the listings of `listAll` have no alert filter, as in `GetActivity`; with it an event may cease to match, and no bound would hold |
| `SessionsAssumption` | positive lifetimes, a request's timeout; None is no user, path or cookie |
| `AccessAssumption`, `ClientAssumption`, `CommandsAssumption`, `EnvironmentsAssumption` | people, commands and settings are typed; a person with an address has its domain; the default window is of whole seconds; GitHub answers about every organization that is configured |
| `SortAssumption` (`Client`) | sorting the tag keys of a command gives those keys and no others |
| `SeedingAssumption` | the fixture passes `validateReferences` |
| `ConfigAssumption`, `SmokeAssumption` | names are distinct; options belong to drivers |

### Only model-checked

- Liveness (`EveryRequestAnswered`, `ListingEnds`, `SignalEndsProcess`,
  `RerunCompletes`, `EveryInvocationExits`): fairness is out of the prover's
  reach.
- The models' correspondence to the code is by reading (`map`).

The type invariants of `ServerLifecycle`, `ConfigFile`, `Sessions` and `Smoke`
are proved and not run.

## Not modelled

Decoding of request bodies, malformed query strings (a 400 without effect),
rendering and output formats, logging, request ids, static files, golang-migrate
and the migration lock, OAuth code exchange and ID token verification (their
outcome is a choice), addresses, timeouts and secrets in the server's
configuration (one flag), the older token login (`login.go`, not routed), the
GET filter forms of the dashboard, `BootstrapPath`, `config show` and `version`,
the splitting of `--tag` at commas by the flag library, Kubernetes manifests.

Some branches are left out of parts that are modelled. `CheckForeignKey` has none
for a parent that is gone: `requireParent` has seen it and no statement deletes
rows. The groups in Beyond's header, which the proxy joins with `|`, are a set.
A smoke driver that is itself killed (SIGKILL, SIGHUP) leaves what it set up, as
any process would.

## Plan

The order of the modules above is the order in which they were written: the
write side and its proofs, the read side, then the parts around them, at last
the command with the server's access rules and the smoke driver; then the proofs.
Every safety property of a run is a theorem now. What could be added: the GET
filter forms of the dashboard and the parsing of the record form, as further ways
into `Dashboard` and `Sessions`.
