---------------------------- MODULE Migrations -----------------------------
(***************************************************************************)
(* Schema set-up of the Local Store: the Database constructor calls        *)
(* initialize_tables, which creates the migration ledger kopsik_migrations *)
(* when it is missing and then calls migrate(name, sql) for every          *)
(* migration in a fixed order.  migrate checks the ledger for the name,    *)
(* runs the migration's SQL and records the name: two statements, each     *)
(* committed on its own (no transaction is open).  A failing migration     *)
(* makes initialize_tables return its error, and the constructor's         *)
(* poco_assert(err == noError) aborts the process.                        *)
(*                                                                         *)
(* The process may crash (or be killed) between any two statements, and    *)
(* is started again by the user; the database file keeps what was          *)
(* committed.                                                              *)
(***************************************************************************)
EXTENDS Naturals, Sequences, FiniteSets, SequencesExt

CONSTANT MaxCrashes   \* crashes of the process the model explores

(* The migrations of initialize_tables, in the order they are called.      *)
Migrations ==
  << "users", "users.store_start_and_stop_time", "users.id", "users.email",
     "users.api_token", "workspaces", "workspaces.id", "workspaces.premium",
     "clients", "clients.id", "clients.guid", "projects", "projects.billable",
     "projects.id", "projects.guid", "tasks", "tasks.id", "tags", "tags.id",
     "tags.guid", "time_entries", "time_entries.id", "time_entries.guid",
     "time_entries.project_guid", "sessions", "sessions.active", "settings",
     "settings.update_channel", "settings.default", "timeline_installation",
     "timeline_installation.desktop_id", "timeline_events" >>

(* The one migration whose SQL succeeds when run again: an INSERT ... WHERE *)
(* NOT EXISTS.  Every other one is a CREATE TABLE, ALTER TABLE ... ADD     *)
(* COLUMN or CREATE UNIQUE INDEX, which fails when its object exists.      *)
Idempotent == {"settings.default"}

(* The update channels SaveUpdateChannel accepts, and the inputs it is     *)
(* given: those and one it rejects.                                        *)
Channels == {"stable", "beta", "dev"}
ChannelInputs == Channels \cup {"nightly"}

(* A settings row as the defaults of its columns make it (use_idle_detection *)
(* default 1, update_channel default 'stable'); the proxy columns are data *)
(* no property tells apart.                                                *)
DefaultRow == [channel |-> "stable", idle |-> TRUE]

VARIABLES
  ledgerTable,  \* the table kopsik_migrations exists
  ledgerIndex,  \* its unique index on name exists
  ledger,       \* names recorded in kopsik_migrations
  schema,       \* migrations whose SQL has been committed
  phase,        \* where the process is
  i,            \* index in Migrations of the migration being applied
  crashes,
  settings,     \* the rows of the settings table, in rowid order
  loaded,       \* what LoadSettings and LoadUpdateChannel last returned
  ret,          \* the error SaveUpdateChannel last returned
  installation  \* rows of timeline_installation (the desktop ID)

vars == <<ledgerTable, ledgerIndex, ledger, schema, phase, i, crashes,
          settings, loaded, ret, installation>>

store == <<settings, loaded, ret, installation>>

Phases == {"down", "probe", "createTable", "createIndex", "check", "sql",
           "record", "ready", "aborted"}

Init ==
  /\ ledgerTable = FALSE /\ ledgerIndex = FALSE
  /\ ledger = {} /\ schema = {}
  /\ phase = "down" /\ i = 1
  /\ crashes = 0
  /\ settings = <<>>
  /\ loaded = [channel |-> "none", idle |-> FALSE] /\ ret = "noError"
  /\ installation = 0

(* The application starts (or is started again after a crash or an abort): *)
(* Database::Database opens the file and calls initialize_tables.          *)
Open ==
  /\ phase \in {"down", "aborted"}
  /\ phase' = "probe" /\ i' = 1
  /\ UNCHANGED <<ledgerTable, ledgerIndex, ledger, schema, crashes, store>>

(* "select name from sqlite_master where ... name='kopsik_migrations'".    *)
ProbeLedger ==
  /\ phase = "probe"
  /\ phase' = IF ledgerTable THEN "check" ELSE "createTable"
  /\ UNCHANGED <<ledgerTable, ledgerIndex, ledger, schema, i, crashes, store>>

(* "create table kopsik_migrations(...)", committed on its own.            *)
CreateLedgerTable ==
  /\ phase = "createTable"
  /\ ledgerTable' = TRUE
  /\ phase' = "createIndex"
  /\ UNCHANGED <<ledgerIndex, ledger, schema, i, crashes, store>>

(* "CREATE UNIQUE INDEX id_kopsik_migrations_name ...".                    *)
CreateLedgerIndex ==
  /\ phase = "createIndex"
  /\ ledgerIndex' = TRUE
  /\ phase' = "check"
  /\ UNCHANGED <<ledgerTable, ledger, schema, i, crashes, store>>

(* Mutant: migrate no longer checks the ledger and always runs the SQL.    *)
CheckMigrationAlwaysRuns ==
  /\ phase = "check" /\ i <= Len(Migrations)
  /\ i' = i /\ phase' = "sql"
  /\ UNCHANGED <<ledgerTable, ledgerIndex, ledger, schema, crashes, store>>

(* migrate: the select of count(name) from kopsik_migrations; a recorded  *)
(* migration is skipped and initialize_tables calls the next one.          *)
CheckMigration ==
  /\ phase = "check" /\ i <= Len(Migrations)
  /\ IF Migrations[i] \in ledger
     THEN i' = i + 1 /\ phase' = "check"
     ELSE i' = i /\ phase' = "sql"
  /\ UNCHANGED <<ledgerTable, ledgerIndex, ledger, schema, crashes, store>>

(* Mutant: settings.default as a plain INSERT of the default row.         *)
SettingsDefaultPlain == Append(settings, DefaultRow)

(* settings.default: "INSERT INTO settings(update_channel) SELECT 'stable' *)
(* WHERE NOT EXISTS (SELECT 1 FROM settings LIMIT 1)".                     *)
SettingsDefault == IF settings = <<>> THEN <<DefaultRow>> ELSE settings

(* migrate: "*session << sql".  SQL that creates an object that exists     *)
(* fails: migrate and initialize_tables return the error and the           *)
(* constructor's poco_assert aborts the process.                          *)
RunMigrationSQL ==
  LET n == Migrations[i] IN
  /\ phase = "sql"
  /\ IF n \in schema /\ n \notin Idempotent
     THEN phase' = "aborted" /\ UNCHANGED <<schema, settings>>
     ELSE /\ phase' = "record" /\ schema' = schema \cup {n}
          /\ settings' = IF n = "settings.default" THEN SettingsDefault
                         ELSE settings
  /\ UNCHANGED <<ledgerTable, ledgerIndex, ledger, i, crashes, loaded, ret,
                 installation>>

(* Mutant: the caller advances past the migration after the next one.     *)
RecordMigrationSkipsNext ==
  /\ phase = "record"
  /\ ledger' = ledger \cup {Migrations[i]}
  /\ i' = i + 2 /\ phase' = "check"
  /\ UNCHANGED <<ledgerTable, ledgerIndex, schema, crashes, store>>

(* migrate: "insert into kopsik_migrations(name) values(:name)".           *)
RecordMigration ==
  /\ phase = "record"
  /\ ledger' = ledger \cup {Migrations[i]}
  /\ i' = i + 1 /\ phase' = "check"
  /\ UNCHANGED <<ledgerTable, ledgerIndex, schema, crashes, store>>

(* SaveDesktopID: "INSERT INTO timeline_installation(desktop_id)" of a new *)
(* GUID.                                                                   *)
SaveDesktopID == installation + 1

(* initialize_tables after the last migration: "SELECT desktop_id FROM     *)
(* timeline_installation LIMIT 1", and SaveDesktopID when none was found;  *)
(* it returns noError, the constructor's assertion holds and the store is  *)
(* ready.                                                                  *)
Ready ==
  /\ phase = "check" /\ i = Len(Migrations) + 1
  /\ phase' = "ready"
  /\ installation' = IF installation = 0 THEN SaveDesktopID ELSE installation
  /\ UNCHANGED <<ledgerTable, ledgerIndex, ledger, schema, i, crashes,
                 settings, loaded, ret>>

(* The process dies between two statements; committed statements stay.    *)
Crash ==
  /\ phase \notin {"down", "aborted", "ready"}
  /\ crashes < MaxCrashes
  /\ phase' = "down" /\ crashes' = crashes + 1
  /\ UNCHANGED <<ledgerTable, ledgerIndex, ledger, schema, i, store>>

(* The user quits a running application.                                   *)
Quit ==
  /\ phase = "ready"
  /\ phase' = "down"
  /\ UNCHANGED <<ledgerTable, ledgerIndex, ledger, schema, i, crashes, store>>

-----------------------------------------------------------------------------
(* The settings functions of a ready store, each one statement under       *)
(* mutex_.  "update settings set ..." writes every row; the selects read   *)
(* the first row (limit(1)).                                               *)

(* SaveSettings(use_proxy, proxy, use_idle_detection).                     *)
SaveSettings(idle) ==
  /\ phase = "ready"
  /\ settings' = [r \in DOMAIN settings |-> [settings[r] EXCEPT !.idle = idle]]
  /\ UNCHANGED <<ledgerTable, ledgerIndex, ledger, schema, phase, i, crashes,
                 loaded, ret, installation>>

(* LoadSettings: "select use_proxy, ..., use_idle_detection from settings". *)
LoadSettings ==
  /\ phase = "ready" /\ settings # <<>>
  /\ loaded' = [loaded EXCEPT !.idle = settings[1].idle]
  /\ UNCHANGED <<ledgerTable, ledgerIndex, ledger, schema, phase, i, crashes,
                 settings, ret, installation>>

(* SaveUpdateChannel: a channel other than stable, beta or dev returns     *)
(* "Invalid update channel" before the lock; otherwise the update.         *)
SaveUpdateChannel(ch) ==
  /\ phase = "ready"
  /\ IF ch \in Channels
     THEN /\ settings' = [r \in DOMAIN settings |->
                             [settings[r] EXCEPT !.channel = ch]]
          /\ ret' = "noError"
     ELSE ret' = "invalid" /\ UNCHANGED settings
  /\ UNCHANGED <<ledgerTable, ledgerIndex, ledger, schema, phase, i, crashes,
                 loaded, installation>>

(* LoadUpdateChannel: "select update_channel from settings".               *)
LoadUpdateChannel ==
  /\ phase = "ready" /\ settings # <<>>
  /\ loaded' = [loaded EXCEPT !.channel = settings[1].channel]
  /\ UNCHANGED <<ledgerTable, ledgerIndex, ledger, schema, phase, i, crashes,
                 settings, ret, installation>>

Settings == \/ \E b \in BOOLEAN : SaveSettings(b)
            \/ LoadSettings
            \/ \E ch \in ChannelInputs : SaveUpdateChannel(ch)
            \/ LoadUpdateChannel

Startup == ProbeLedger \/ CreateLedgerTable \/ CreateLedgerIndex
           \/ CheckMigration \/ RunMigrationSQL \/ RecordMigration \/ Ready

Next == Open \/ Startup \/ Settings \/ Crash \/ Quit

(* The constructor runs on the thread that opens the store and nothing     *)
(* else runs before it returns; a user whose application stopped starts it *)
(* again.  Crashes and quitting are not required to happen.               *)
Spec == Init /\ [][Next]_vars /\ WF_vars(Startup) /\ WF_vars(Open)

-----------------------------------------------------------------------------
TypeOK ==
  /\ ledgerTable \in BOOLEAN /\ ledgerIndex \in BOOLEAN
  /\ ledger \subseteq Range(Migrations) /\ schema \subseteq Range(Migrations)
  /\ phase \in Phases
  /\ i \in 1..Len(Migrations) + 1
  /\ crashes \in 0..MaxCrashes
  /\ settings \in Seq([channel : Channels, idle : BOOLEAN])
  /\ loaded \in [channel : Channels \cup {"none"}, idle : BOOLEAN]
  /\ ret \in {"noError", "invalid"}
  /\ installation \in Nat

(* The ledger never claims a migration whose SQL was not committed, and    *)
(* migrations are applied in the order of initialize_tables: the ledger is *)
(* a prefix of that order, and the committed schema runs ahead of it by at *)
(* most the one migration whose name was not yet recorded.                 *)
LedgerRecordsApplied ==
  \E n \in 0..Len(Migrations) :
     LET done == {Migrations[j] : j \in 1..n} IN
     /\ ledger = done
     /\ \/ schema = done
        \/ n < Len(Migrations) /\ schema = done \cup {Migrations[n + 1]}

(* The settings table has exactly one row whenever the store is ready      *)
(* (spec: a single-row settings table), across crashes at any point of     *)
(* startup: settings.default may run again when a crash falls between its  *)
(* INSERT and its ledger record, and it inserts only into an empty table.  *)
(* Likewise timeline_installation keeps the one desktop ID of the first    *)
(* start: every later start finds it and inserts none.                     *)
SingleRowTables == phase = "ready" => Len(settings) = 1 /\ installation = 1

(* Migrations are idempotent and re-runnable (spec 4.1): every start of    *)
(* the application gets through initialize_tables to a ready store.        *)
StartupCompletes == (phase = "probe") ~> (phase = "ready")
=============================================================================
