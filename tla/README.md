# TLA+ models of the Toggl Desktop library (kopsik)

The repository's sources under `src/` are a slice of the Toggl Desktop C++
library: `src/src/https_client.cc` holds the HTTPS client, the `TimeEntry`
model and the SQLite-backed `Database` (the Local Store);
`src/src/toggl_api_client.h` holds the model classes and the
`WebSocketClient` (the push channel). The Objective-C files are view
controllers of the macOS UI. `spec.md` describes the whole system; the
sync engine (`User::Sync`, pull, push) that drives the store is described
there but its code is not under `src/`.

## Inventory

| Component | State | Operations | Hard behaviour |
|---|---|---|---|
| Local Store, related-data save | SQLite tables (users, workspaces, clients, projects, tasks, tags, time_entries) with rowid `local_id` and unique indexes on (uid,id) and (uid,guid); one `Poco::Data::Session`; recursive `mutex_` | `SaveUser` → `saveWorkspaces…saveTimeEntries` → `saveX`; `deleteFromTable` | a transaction whose rollback does not undo the in-memory changes made during it; rowid reuse; tombstone delete and purge |
| Local Store, schema | `kopsik_migrations` ledger, DDL state | `initialize_tables`, `migrate` | DDL and the ledger insert are two autocommit statements: a crash between them; non-idempotent DDL on restart; `poco_assert` in the constructor |
| Local Store, session and settings | `sessions`, `settings`, `users` | `LoadCurrentUser`, `SetCurrentAPIToken`, `DeleteUser`, settings get/set | `DeleteUser` and `SetCurrentAPIToken` are several statements without a transaction; the token is read and then used after the lock is released |
| Entity model | per-object fields, `dirty`, `local_id`, `guid`, deleted-on-server flag | the setters (compare, assign, `SetDirty`), `StopAt`, string setters | `StopAt` asserts a positive duration; a stop set on a running entry |
| Push channel | Poco `Activity` running/stopped, session, `last_connection_at_`, callback | `Start`, `Stop`, `createSession`, `poll`, `runActivity` | start/stop from the UI thread racing the worker; the 30 s staleness reconnect; ping/pong |
| REST transport | none between calls | `PostJSON`, `GetJSON`, `requestJSON` | none beyond one request's outcome (no retry) |
| Sync engine | (not in `src/`) | pull, push, `User::Start` | its effects on the object graph are the environment of the store model |
| macOS UI | view state | view controller callbacks | none the model checker can reach |

## Modules

### `LocalStore.tla` — `Database::SaveUser` and the save functions

State: `mem` is the in-memory `User` graph (per object: present/absent/purged,
`LocalID`, remote `ID`, `GUID`, an abstract value, `Dirty`,
`IsMarkedAsDeletedOnServer`); `db` the committed tables and `txn` the
tables as the open transaction sees them; `pc`/`plan` the position of
`SaveUser` in its fixed visiting order (user row, then each kind in the
order of `SaveUser`); `lock` the owner of `mutex_`; `faults` counts
engine failures injected (a statement failing for reasons outside the
model, e.g. a full disk).

Actions:

- `SaveUserBegin` — lock, `session->begin()`.
- `SaveObject(e, ok)` — one object: the early return of `NeedsToBeSaved`
  / `LocalID() && !Dirty()`, `EnsureGUID` (projects, time entries),
  `deleteFromTable` for an object deleted on the server, an UPDATE or an
  INSERT whose row is given by the per-kind operators `UserRow` …
  `TimeEntryRow` (they leave out the id and guid columns exactly where the
  code does), `last_insert_rowid()` (`NextRowID`, max+1, so rowids are
  reused), `SetLocalID`, `ClearDirty`; the purge loop with the last object
  of a tombstone kind. With `ok = FALSE` the statement fails — a unique
  index or primary key violation (`Violates`), or an injected engine
  failure — and `session->rollback()` runs; memory keeps what `EnsureGUID`
  and earlier objects did to it.
- `Commit` — `session->commit()` and unlock.
- Environment (spec-modelled sync engine): `CreateObject`, `SetField` (the
  entity setters), `SetID`, `MarkAsDeletedOnServer`.
- Loads (`LoadUserByID`, `loadX`) are left out. They take `mutex_`, and `SaveUser` holds it from `begin()` to `commit()` or `rollback()` on every path, so a load can never fall inside a save.

`AtomicStore.tla` is the abstract store of spec 4.1: the graph changes
freely, and a save copies the whole graph into the store in one step.
`LocalStore` maps to it by the live values in memory and the values of
the rows recognised by GUID (projects, time entries) or remote ID.

### Runs

| Run | cfg | Checks | Result |
|---|---|---|---|
| `store_commit` | `LocalStore_commit.cfg` | `LocalIDsUnique`, `AtomicSave` | pass: without engine failures, saving refines the atomic store; LocalIDs stay unique, despite rowid reuse after deletes |
| `store_fault` | `LocalStore_fault.cfg` | `TypeOK` | pass: with a statement failing and being rolled back, the rowids `last_insert_rowid()` hands out stay within the table population, because rowids freed by deletes and rollbacks are reused |
| `store_rollback` | `LocalStore_rollback.cfg` | `AtomicSave` | violation: see Findings |

Bounds: the user, one project and two time entries (two of one kind so
that a deleted entry's rowid can be reused by the other), one server ID per
kind, two values, at most one injected failure. `MaxLocalID = 2` is the
population of the largest kind; `TypeOK` checks that rowids never exceed
it. Deleting, re-inserting and failing objects of two tombstone kinds
already exercises every branch of `SaveObject`; more objects only
multiply interleavings of the environment.

No fairness is assumed: all properties are safety properties.

### `Migrations.tla` — `Database::Database`, `initialize_tables`, `migrate`

State: whether `kopsik_migrations` and its unique index exist, the set of
names in the ledger (`ledger`), the set of migrations whose SQL has been
committed (`schema`), the phase of the starting process and the index `i`
of the migration in hand. `Migrations` is the list of the 32 `migrate`
calls of `initialize_tables` in source order; `Idempotent` is the one whose
SQL can run twice (`settings.default`, an `INSERT ... WHERE NOT EXISTS`).
`settings` holds the rows of the settings table: each row's update channel
and idle-detection flag. The proxy columns are data that no property tells
apart. `settings.default` inserts `DefaultRow` (the column defaults) only
into an empty table (`SettingsDefault`). `loaded` is what the last
`LoadSettings`/`LoadUpdateChannel` returned, and `ret` is the last error of
`SaveUpdateChannel`. `installation` counts the rows of
`timeline_installation`: `Ready` reads the desktop ID and, when there is
none, inserts a new one (`SaveDesktopID`).

Actions: `Open` (the constructor; also the user starting the application
again after a crash or an abort), `ProbeLedger`, `CreateLedgerTable`,
`CreateLedgerIndex`, `CheckMigration` (the ledger count), `RunMigrationSQL`
(fails, and the constructor's assertion aborts, when the object exists),
`RecordMigration`, `Ready`, `Crash` (between any two statements, bounded by
`MaxCrashes`), `Quit`. A ready store also takes the settings calls:
- `SaveSettings` and `SaveUpdateChannel` update every row;
- `SaveUpdateChannel` first rejects a channel other than stable, beta or dev;
- `LoadSettings` and `LoadUpdateChannel` read the first row.

Fairness: weak fairness of the start-up steps (the constructor runs to the
end on its thread unless the process dies) and of `Open` (a user whose
application stopped starts it again). `Crash` and `Quit` are not fair.

| Run | cfg | Checks | Result |
|---|---|---|---|
| `migrations_safety` | `Migrations_safety.cfg` | `TypeOK`, `LedgerRecordsApplied`, `SingleRowTables` | pass with up to two crashes: the ledger is a prefix of the migration order and the schema leads it by at most one migration. The settings table has exactly one row whenever the store is ready. A crash between `settings.default`'s insert and its ledger record runs it again, and its `WHERE NOT EXISTS` is what keeps a second row out. A plain `INSERT` fails the check. `timeline_installation` likewise keeps the one desktop ID of the first start. |
| `migrations_live` | `Migrations_live.cfg` | `StartupCompletes` | pass without crashes: every start, the first and the reruns, reaches a ready store |
| `migrations_crash` | `Migrations_crash.cfg` | `StartupCompletes` | violation: see Findings |

The model state is small (the ledger is always a prefix), so the whole
list of migrations is kept.

### `WebSocketClient.tla` — the push channel

State: the Poco `Activity` flags (`running`: the worker thread has not
finished; `stopped`: the stop flag), the worker's place in `runActivity`
and `poll` (`wpc`), `ws` (the session object `ws_`, 0 when deleted),
`wsRef` (the session a running `poll` uses), the owner of `mutex_`, each
caller thread's place in `Start`/`Stop` (`cpc`), and the server side: the
frames in flight on the current session and whether the server still
serves it. Time is reduced to `stale`: more than
`kWebSocketRestartThreshold` (30 s) since `last_connection_at_`. Frames
are abstracted to what `parseWebSocketMessageType` makes of them: `ping`,
`data`, another type, or an empty frame (peer closed).

Actions: `StartCheck` (`isRunning` read without the lock), `StartLock`
(`activity_.start()` under `mutex_`), `StartSet` (callback and token stored,
unlock); `StopCheck` (`activity_.stop()`), `StopWait` (`activity_.wait()`),
`StopDelete` (`deleteSession()`); the worker's `WorkerLoop`, `WorkerPoll`
(timeout, I/O error, or a frame: close → error, otherwise refresh the
time, and ping → pong, data → callback), `WorkerError` (delete the
session), `WorkerFresh` and `WorkerConnect` (`createSession` when stale);
the environment's `ServerSend`, `ServerDrop` and `Tick`. `cbSet` says
whether `ctx_`, `on_websocket_message_` and `api_token_` have been stored
by the `Start` that started the running worker: `StartLock` clears it when
it spawns a worker and `StartSet` sets it. `lastFrame.fresh` records it at
each frame.

Fairness: weak fairness of every worker step and of the steps of a caller
already inside `Start` or `Stop` (threads are scheduled); of `Tick` (time
passes); strong fairness of a successful `WorkerConnect` (the network comes
back if the worker keeps trying). Calling `Start` or `Stop`, and the
server's sends and drops, are not fair.

| Run | cfg | Checks | Result |
|---|---|---|---|
| `ws_one_caller` | `WebSocketClient_one.cfg` | `NoUseAfterFree`, `StopReturns`, `Reconnects`, `CallbackOfCurrentStart` | pass. `CallbackOfCurrentStart`: the worker starts before `Start` stores its callback, yet it never calls back with an older or unset one. It can poll only a session that `createSession` made under `mutex_`, which `Start` holds until the stores are done, and `Stop` leaves no session behind. A `createSession` without its lock breaks the property. |
| `ws_two_callers` | `WebSocketClient_race.cfg` | `NoUseAfterFree` | violation: see Findings |

Bounds: up to two frames in flight per session, three session objects
(enough to tell a freed session from the current one). Which threads call
`Start` and `Stop` is decided by code outside `src/`; the model checks one
caller thread and two.

### `TimeEntry.tla` — the timing fields of a time entry

State: `start`, `stop`, `duration` (negative while running: it then holds
`-start`), `dirty`, the fields as last saved (`saved`), whether the process
has aborted, and the clock `now`. The setters are operators on a record of
the fields and the flag: `Set` is the compare-assign-`SetDirty` rule of
`SetStart`, `SetStop` and `SetDurationInSeconds`; `SetStopString`,
`SetStartString` and `SetDurationString` choose their branch by the sign
of the duration exactly as the code does; `StopAt` adds `at` to the
duration, asserts it is positive (`StopAtOk`) and sets the stop. Parsing of
the ISO-8601 and duration strings is abstracted: the UI supplies the
parsed time or number of seconds.

Actions: `UserStart` and `UserStop` (`User::Start`/`User::Stop` are not
under `src/`; from spec 4.3, `UserStop` calls `StopAt(now)`), `EditStop(t)`,
`EditStart(t)`, `EditDuration(s)`, `Save` (`saveTimeEntry` writes the
entry and clears the flag, and the `SaveUser` around it commits),
`SaveRolledBack` (the flag is cleared, then a later statement of the same
`SaveUser` fails and the row is rolled back; at most `MaxFailures` times),
`Restart` (the application is started again and
`loadTimeEntriesFromSQLStatement` loads what was committed), `Tick`. The
history variable `lost` records that a rolled-back save cleared the flag
since the last committed save or load.

| Run | cfg | Checks | Result |
|---|---|---|---|
| `time_dirty` | `TimeEntry_edit.cfg` | `DirtyTracksChanges` | pass: whatever sequence of starts, stops, edits, saves and restarts, fields that differ from the committed ones are dirty, except after a rolled-back `SaveUser` (the `store_rollback` finding, seen from one entry). Every string setter changes its fields through the compare-and-`SetDirty` setters; the mutant that assigns the stop directly breaks it |
| `time_consistent` | `TimeEntry_consistent.cfg` | `StoppedConsistent` | violation: see Findings |
| `time_stop_same_second` | `TimeEntry_stop.cfg` | `StopNeverAborts` | violation: see Findings |

Bounds: three clock readings and typed durations of 0..2 seconds. The
readings start above the largest typed duration, as real readings
(seconds since 1970) do, so `now - seconds` stays positive. Three readings
give a start, a later stop and a time before the start. One rolled-back
save (`MaxFailures = 1`) is enough to show the exception. No fairness: the
properties are safety properties.

### `Session.tla` — session token and `DeleteUser`

State: the users row and the related rows of each user (`users`, `rows`,
one set per table in the order `DeleteUser` empties them), the one row of
`sessions` (its unique index on `active` allows no second row), the owner
of the recursive `mutex_`, and per caller thread a `frame`: the function
it is in, its arguments and locals (gone when it returns), and `ret`, the
error its last call returned. Users are model values and a user's
`api_token` is the user.

Actions: `Call` (a thread calls `SetCurrentAPIToken`,
`ClearCurrentAPIToken`, `LoadCurrentUser` or `DeleteUser` with or without
related data); `SetClear` (lock, then `ClearCurrentAPIToken` re-entering
the lock) and `SetInsert` (insert, unlock); `ClearToken`; `LoadReadToken`
(`CurrentAPIToken`, lock released) and `LoadByToken`
(`LoadUserByAPIToken`); `DeleteUserRow` (`deleteFromTable("users")`) and
`DeleteRelated` (`deleteAllFromTableByUID` per table). Every statement may
fail in the engine (`Fails`, at most `MaxFailures`), and the error returns
at once. `SaveUser` is the sync engine saving a user in one transaction.
It updates the users row and every saved object `where local_id = ...`, a
no-op on a row already deleted, and it inserts only objects new since the
last save. Those give the user rows again in their tables (any subset of
them). `Crash` ends every call between two statements.
`resaved` is history only: the threads inside `DeleteUser`'s related
deletes whose user got related rows again from a `SaveUser` (a new call
clears it).

Fairness: strong fairness of each thread's steps inside a call. A thread
blocked on `mutex_` is woken when the lock is released; strong rather than
weak because another thread may take the lock again between calls, and
calls are far apart compared with a wakeup. Calls are not fair.

| Run | cfg | Checks | Result |
|---|---|---|---|
| `session_threads` | `Session_threads.cfg` | `LoginNeverRejected`, `CallsReturn`, `DeleteReportsLeftovers` | pass: two logins on two threads never both find `sessions` empty (the lock spans clear and insert); every call returns, the error paths releasing the lock; and `DeleteUser(user, true)` returns `noError` only when the users row and the user's rows in all six related tables are gone. A failing statement returns its error at once, so a partial delete is always reported (the mutant that goes on past a failure breaks it). The one exception is a `SaveUser` that inserts new objects of the user while the delete runs; it never brings the users row back. |

Bounds: two threads, one user (a second user only renames the token; the
unique index rejects any second row, whatever its token), one failing
statement, one crash. What the model reaches without a property:
- a crash between the clear and the insert leaves no session;
- a `SaveUser` between `DeleteUser`'s statements inserts new objects into
  tables the delete has passed, and the delete still returns `noError`;
- `LoadCurrentUser` looks the user up by a token that a logout has
  already removed.

The spec does not say what the application should do in these cases, so no
property claims an outcome. They are listed as hazards. A `DeleteUser` that
fails part-way does leave the later tables' rows, but it reports the
failure, and `DeleteReportsLeftovers` checks that it does.

## Findings

- **Rollback does not undo memory (code bug).** `SaveUser` rolls back the
  transaction on the first failing statement, but `SetLocalID`,
  `ClearDirty` and the purge of deleted objects already ran for the objects
  saved before it. TLC's shortest trace: the user row is inserted (LocalID
  1, clean), the project's statement fails, the transaction is rolled
  back; the next `SaveUser` sees the user as saved and skips it, and
  commits a store with no users row.

- **Migrations are not atomic (divergence from spec 4.1).** `migrate`
  runs the SQL and then the ledger insert as two autocommitted statements.
  A crash between them leaves, e.g., the `users` table without its ledger
  row; every later start runs `create table users` again, it fails, and
  `poco_assert(err == noError)` aborts the process. The spec says the name
  is recorded in the same transaction as the DDL.

- **Start racing Stop frees the new worker's session (code bug, with two
  caller threads).** `Start` reads `isRunning()` without `mutex_`; `Stop`
  calls `deleteSession()` after `wait()`. TLC's trace: thread 1's `Stop`
  has waited for the worker; thread 2's `Start` starts a new worker, which
  connects and begins to poll; thread 1's `deleteSession()` deletes that
  session under the poll.

- **Only "data" frames reach the callback (divergence from spec 4.5/6,
  read from the code).** `poll` calls back only for type `"data"` (the
  default when a frame has no type); a frame of any other type is dropped.
  `WorkerPoll` models this (its `lastFrame` records whether the callback
  ran); the one condition needs no run of its own, and the run that once
  stated it was given to `Session.tla`.

- **Stopping in the second of the start aborts (code bug).** `StopAt`
  asserts `DurationInSeconds() > 0` after adding `now` to `-start`; a
  `Stop` in the same second as the `Start` gives 0 and `poco_assert` ends
  the process. The spec says `Stop` sets Duration = now − Start.

- **A stop before the start breaks the entry (divergence from spec 4.3).**
  `SetStopString` on a stopped entry sets the duration to stop − start; a
  stop earlier than the start makes it negative, which every later setter
  and `StopAt` read as "running since -duration". TLC's trace: start,
  stop, edit the start, edit the stop to before it, stop again: the new
  duration is `now + stop - start` and Stop ≠ Start + Duration. On a running
  entry the same setter sets Stop ≠ 0 while the entry stays running, against
  spec 3's "running iff Stop == 0".

## Plan

1. `LocalStore` + `AtomicStore` (done).
2. `Migrations.tla` (done).
3. `WebSocketClient.tla` (done).
4. `TimeEntry.tla` (done).
5. `Session.tla` (done).
6. Settings and update channel: actions of `Migrations.tla` (done).

## Not modelled

The REST transport, `HTTPSClient::requestJSON` and its callers, is one
request per call. It builds a fresh session, gzips the body, sends it and
checks the status. There is no retry (the backoff is a FIXME), and no
state outlives the call. The sync engine, which is not under src/,
consumes its outcomes, so it is left out. Also left out:
- the Database destructor and `journalMode`/`setJournalMode`, single
  pragmas on an open session;
- the destructor `~WebSocketClient`, which calls `deleteSession()` while
  the worker may still be running (`activity_` is destroyed after the
  destructor body). Whether the owner always calls `Stop()` first is up to
  `Context`, which is not under src/; the hazard is listed in PROJECT.json;
- the `TimeEntry` formatters (`String`, `Tags`, the `*String` getters,
  `IsToday`), which do no state change of their own.

The UI, logging, JSON formatting, gzip and the HTTP wire format, and the
timeline event handlers (`insert_timeline_event`, `select_timeline_batch`,
`delete_timeline_batch`). spec.md lists idle detection and its timeline
store as out of scope. The handlers have one hazard, listed in PROJECT.json.
`timeline_events.id` is an `INTEGER PRIMARY KEY` without AUTOINCREMENT, so
after the last row is deleted its id is given to the next insert.
`delete_timeline_batch` deletes by the ids of a batch selected earlier. If
the uploader, which is not under src/, has the same rows in two batches at
once, the second delete removes a newer event that was never uploaded:
1. insert e2 (id 1);
2. select twice;
3. upload and delete the first batch;
4. insert e1 (id 1);
5. delete the second batch, which removes e1.

Whether two batches can be outstanding is up to that uploader.
