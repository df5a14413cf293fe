----------------------------- MODULE Migrations -----------------------------
(***************************************************************************)
(* The start of the hub: db.Open, db.RunMigrations and the ten scripts of  *)
(* db/migrations, one SQL statement per step.  A script is handed to the   *)
(* driver as a whole and runs outside any transaction, so what it has done *)
(* stays when the process dies half way, and its last statement is the one *)
(* that records it in table migrations.                                    *)
(*                                                                         *)
(* A table is its set of columns and its set of rows, a row a function     *)
(* from its columns to values.  Columns that are always copied together    *)
(* are one column, and ids are the natural keys.                           *)
(***************************************************************************)
EXTENDS Naturals, FiniteSets

CONSTANTS
    None,           \* the empty string and NULL
    Contents,       \* bound: what the database may hold when it is opened
    MaxCrashes      \* bound: how often a start dies half way

ASSUME MigrationsAssumption ==
    /\ MaxCrashes \in Nat
    /\ \A c \in Contents :
        /\ c.ver \in 0 .. 10
        /\ DOMAIN c = {"ver", "variants", "releases"}
        /\ \A r \in c.releases :
            DOMAIN r = {"slug", "platform", "code", "channel", "status", "error"}

Migration == 1 .. 10
Table == {"migrations", "visitors", "apps", "releases", "api_tokens", "sessions",
          "config", "apps_new", "app_platforms", "old_releases", "play_accounts",
          "idx_releases_platform_code"}

VARIABLES
    db,         \* the database: table name -> columns and rows, or NoTable
    pc,         \* "down", "migrating" or "serving"
    executed,   \* the migrations this start found recorded
    mig, stmt,  \* the script and the statement the start has come to
    was,        \* history: what the database held when it was first opened
    crashes,    \* history: starts that died half way
    refused     \* history: scripts one of whose statements could not be run

vars == <<db, pc, executed, mig, stmt, was, crashes, refused>>

-----------------------------------------------------------------------------
(* Statements.  A statement is a function of the database that yields      *)
(* Error when SQLite refuses it.                                           *)

Error == <<>>        \* no database: its tables are those of Table
NoTable == <<>>      \* no table: it has columns and rows

Cols(d, t) == d[t].cols
Rows(d, t) == d[t].rows
Exists(d, t) == d[t] # NoTable

Set(d, t, cols, rows) == [d EXCEPT ![t] = [cols |-> cols, rows |-> rows]]

CreateTable(d, t, cols) == IF Exists(d, t) THEN Error ELSE Set(d, t, cols, {})

\* CREATE TABLE (or INDEX) IF NOT EXISTS
EnsureTable(d, t, cols) == IF Exists(d, t) THEN d ELSE Set(d, t, cols, {})

AddColumn(d, t, c, default) ==
    IF c \in Cols(d, t) THEN Error
    ELSE LET cols == Cols(d, t) \cup {c}
             Extend(r) == [k \in cols |-> IF k = c THEN default ELSE r[k]]
         IN  Set(d, t, cols, {Extend(r) : r \in Rows(d, t)})

DropColumn(d, t, c) ==
    IF c \notin Cols(d, t) THEN Error
    ELSE LET cols == Cols(d, t) \ {c}
         IN  Set(d, t, cols, {[k \in cols |-> r[k]] : r \in Rows(d, t)})

RenameTable(d, t, new) ==
    IF Exists(d, t) /\ ~Exists(d, new)
    THEN [d EXCEPT ![new] = d[t], ![t] = NoTable] ELSE Error

DropTable(d, t) == IF Exists(d, t) THEN [d EXCEPT ![t] = NoTable] ELSE Error

\* INSERT: a row that repeats a UNIQUE key fails the statement.
Insert(d, t, rows, key) ==
    LET At(r) == [k \in key |-> r[k]]
    IN  IF key # {} /\ \E r \in rows : \E s \in Rows(d, t) : At(r) = At(s)
        THEN Error ELSE Set(d, t, Cols(d, t), Rows(d, t) \cup rows)

Update(d, t, New(_)) == Set(d, t, Cols(d, t), {New(r) : r \in Rows(d, t)})

Record(d, n) ==         \* INSERT OR IGNORE INTO migrations
    LET done == [migration_number |-> n]
    IN  Set(d, "migrations", Cols(d, "migrations"), Rows(d, "migrations") \cup {done})

-----------------------------------------------------------------------------
(* The scripts: migration n is a sequence of statements, each given here   *)
(* as what it makes of a database d.                                       *)

Sign == {"sign_keystore", "sign_config", "sign_sha256"}
PlatformCols == {"app_id", "platform", "play_enabled", "play_credentials"} \cup Sign

Base(d, i) ==
    CASE i = 1 -> EnsureTable(d, "migrations", {"migration_number"})
      [] i = 2 -> EnsureTable(d, "visitors", {"id"})
      [] i = 3 -> Record(d, 1)

ReleaseHub(d, i) ==
    CASE i = 1 -> EnsureTable(d, "apps", {"slug", "platform"})
      [] i = 2 -> EnsureTable(d, "releases", {"app_id", "version_code", "channel"})
      [] i = 3 -> EnsureTable(d, "api_tokens", {"token_hash"})
      [] i = 4 -> EnsureTable(d, "sessions", {"token_hash"})
      [] i = 5 -> EnsureTable(d, "config", {"key"})
      [] i = 6 -> Record(d, 2)

PlayConfig(d, i) ==
    CASE i = 1 -> AddColumn(d, "apps", "play_enabled", 0)
      [] i = 2 -> AddColumn(d, "apps", "play_credentials", None)
      [] i = 3 -> Record(d, 3)

Signing(d, i) ==
    CASE i = 1 -> AddColumn(d, "apps", "sign_keystore", None)
      [] i = 2 -> AddColumn(d, "apps", "sign_config", None)
      [] i = 3 -> AddColumn(d, "apps", "sign_sha256", None)
      [] i = 4 -> Record(d, 4)

ChannelRename(d, i) ==
    CASE i = 1 -> Update(d, "releases", LAMBDA r :
                    IF r.channel = "api-share" THEN [r EXCEPT !.channel = "direct"] ELSE r)
      [] i = 2 -> Record(d, 5)

\* Faulty variant: the signing columns are left out of the copy.
SplitAppsUnsigned(d) ==
    {[c \in PlatformCols \ Sign |-> IF c = "app_id" THEN a.slug ELSE a[c]] : a \in Rows(d, "apps")}

\* Faulty variant: only the apps that publish to Google Play.
SplitAppsOnPlay(d) ==
    {[c \in PlatformCols |-> IF c = "app_id" THEN a.slug ELSE a[c]] :
        a \in {b \in Rows(d, "apps") : b.play_enabled = 1}}

\* SELECT ... FROM apps: each app becomes its one platform variant.
SplitApps(d) ==
    {[c \in PlatformCols |-> IF c = "app_id" THEN a.slug ELSE a[c]] : a \in Rows(d, "apps")}

\* SELECT ... FROM old_releases JOIN apps JOIN app_platforms
MovedReleases(d) ==
    {[app_platform_id |-> <<x[3].app_id, x[3].platform>>,
      version_code |-> x[1].version_code, channel |-> x[1].channel] :
        x \in {y \in Rows(d, "old_releases") \X Rows(d, "apps") \X Rows(d, "app_platforms") :
                /\ y[2].slug = y[1].app_id
                /\ y[3].app_id = y[2].slug /\ y[3].platform = y[2].platform}}

ReleaseCols == {"app_platform_id", "version_code", "channel"}

AppPlatforms(d, i) ==
    CASE i = 1 -> CreateTable(d, "apps_new", {"slug"})
      [] i = 2 -> Insert(d, "apps_new", {[slug |-> a.slug] : a \in Rows(d, "apps")}, {"slug"})
      [] i = 3 -> CreateTable(d, "app_platforms", PlatformCols)
      [] i = 4 -> Insert(d, "app_platforms", SplitApps(d), {"app_id", "platform"})
      [] i = 5 -> RenameTable(d, "releases", "old_releases")
      [] i = 6 -> CreateTable(d, "releases", ReleaseCols)
      [] i = 7 -> Insert(d, "releases", MovedReleases(d), {"app_platform_id", "version_code"})
      [] i = 8 -> DropTable(d, "old_releases")
      [] i = 9 -> DropTable(d, "apps")
      [] i = 10 -> RenameTable(d, "apps_new", "apps")
      [] i = 11 -> Record(d, 6)

\* SELECT DISTINCT play_credentials ... WHERE play_credentials != ''
Accounts(d) ==
    {[credentials |-> p.play_credentials] :
        p \in {q \in Rows(d, "app_platforms") : q.play_credentials # None}}

\* Faulty variant: the new accounts are linked to nothing.
LinkAccountsToNone(d) ==
    Update(d, "app_platforms", LAMBDA p : [p EXCEPT !.play_account_id = None])

\* SET play_account_id = (SELECT pa.id ... WHERE pa.credentials = play_credentials)
LinkAccounts(d) ==
    Update(d, "app_platforms", LAMBDA p :
        [p EXCEPT !.play_account_id =
            IF [credentials |-> p.play_credentials] \in Rows(d, "play_accounts")
            THEN p.play_credentials ELSE None])

PlayAccounts(d, i) ==
    CASE i = 1 -> EnsureTable(d, "play_accounts", {"credentials"})
      [] i = 2 -> AddColumn(d, "app_platforms", "play_account_id", None)
      [] i = 3 -> Insert(d, "play_accounts", Accounts(d), {})
      [] i = 4 -> LinkAccounts(d)
      [] i = 5 -> DropColumn(d, "app_platforms", "play_credentials")
      [] i = 6 -> Record(d, 7)

ReleaseRetention(d, i) ==
    CASE i = 1 -> EnsureTable(d, "idx_releases_platform_code", {})
      [] i = 2 -> AddColumn(d, "app_platforms", "prune_keep", None)
      [] i = 3 -> Record(d, 8)

PlayStatus(d, i) ==
    CASE i = 1 -> AddColumn(d, "releases", "play_status", "pending")
      [] i = 2 -> AddColumn(d, "releases", "play_error", None)
      [] i = 3 -> AddColumn(d, "releases", "play_release", None)
      [] i = 4 -> Record(d, 9)

RepairPlayStatus(d, i) ==
    CASE i = 1 -> Update(d, "releases", LAMBDA r :
                    IF r.play_status = "error" /\ r.play_error = None
                    THEN [r EXCEPT !.play_status = "pending"] ELSE r)
      [] i = 2 -> Record(d, 10)

Statements == <<3, 6, 3, 4, 2, 11, 6, 3, 4, 2>>     \* per script

Run(d, n, i) ==
    CASE n = 1 -> Base(d, i)
      [] n = 2 -> ReleaseHub(d, i)
      [] n = 3 -> PlayConfig(d, i)
      [] n = 4 -> Signing(d, i)
      [] n = 5 -> ChannelRename(d, i)
      [] n = 6 -> AppPlatforms(d, i)
      [] n = 7 -> PlayAccounts(d, i)
      [] n = 8 -> ReleaseRetention(d, i)
      [] n = 9 -> PlayStatus(d, i)
      [] n = 10 -> RepairPlayStatus(d, i)

-----------------------------------------------------------------------------
(* What a database may hold when this version first opens it: it was left  *)
(* by a version whose last script was ver, with                            *)
(*   variants: [slug, platform, cred, key], and                            *)
(*   releases: [slug, platform, code, channel, status, error].             *)

Plausible(c) ==
    /\ c.ver < 2 => c.variants = {}
    /\ c.ver < 6 => \A x, y \in c.variants : x.slug = y.slug => x = y
    /\ \A x \in c.variants : (c.ver < 3 => x.cred = None) /\ (c.ver < 4 => x.key = None)
    /\ \A r \in c.releases :
        /\ \E x \in c.variants : x.slug = r.slug /\ x.platform = r.platform
        /\ c.ver >= 5 => r.channel # "api-share"
        /\ c.ver < 9 => r.status = "pending"
        /\ r.status # "error" => r.error = None

VariantRow(x) ==
    [slug |-> x.slug, app_id |-> x.slug, platform |-> x.platform,
     play_enabled |-> IF x.cred = None THEN 0 ELSE 1,
     play_credentials |-> x.cred, play_account_id |-> x.cred, prune_keep |-> None,
     sign_keystore |-> x.key, sign_config |-> x.key, sign_sha256 |-> x.key]

ReleaseRow(r) ==
    [app_id |-> r.slug, app_platform_id |-> <<r.slug, r.platform>>,
     version_code |-> r.code, channel |-> r.channel,
     play_status |-> r.status, play_error |-> r.error, play_release |-> None]

VariantRows(c) == {VariantRow(x) : x \in c.variants}
ReleaseRows(c) == {ReleaseRow(r) : r \in c.releases}
AccountRows(c) == {[credentials |-> x.cred] : x \in {y \in c.variants : y.cred # None}}

\* A table of these columns, with what the rows have in them.
Filled(cols, rows) == [cols |-> cols, rows |-> {[k \in cols |-> r[k]] : r \in rows}]

\* The columns after scripts 1 to v.
AppsCols(v) ==
    IF v >= 6 THEN {"slug"}
    ELSE {"slug", "platform"}
            \cup (IF v >= 3 THEN {"play_enabled", "play_credentials"} ELSE {})
            \cup (IF v >= 4 THEN Sign ELSE {})
ReleasesCols(v) ==
    IF v < 6 THEN {"app_id", "version_code", "channel"}
    ELSE ReleaseCols \cup IF v >= 9 THEN {"play_status", "play_error", "play_release"} ELSE {}
VariantsCols(v) ==
    IF v = 6 THEN PlatformCols
    ELSE (PlatformCols \ {"play_credentials"}) \cup {"play_account_id"}
            \cup IF v >= 8 THEN {"prune_keep"} ELSE {}

\* The database that holds c after scripts 1 to v.
Holding(c, v) ==
    [t \in Table |->
        CASE t = "migrations" /\ v >= 1 ->
                Filled({"migration_number"}, {[migration_number |-> n] : n \in 1 .. v})
          [] t = "visitors" /\ v >= 1 -> Filled({"id"}, {})
          [] t \in {"api_tokens", "sessions"} /\ v >= 2 -> Filled({"token_hash"}, {})
          [] t = "config" /\ v >= 2 -> Filled({"key"}, {})
          [] t = "apps" /\ v >= 2 -> Filled(AppsCols(v), VariantRows(c))
          [] t = "releases" /\ v >= 2 -> Filled(ReleasesCols(v), ReleaseRows(c))
          [] t = "app_platforms" /\ v >= 6 -> Filled(VariantsCols(v), VariantRows(c))
          [] t = "play_accounts" /\ v >= 7 -> Filled({"credentials"}, AccountRows(c))
          [] t = "idx_releases_platform_code" /\ v >= 8 -> Filled({}, {})
          [] OTHER -> NoTable]

Init ==
    /\ \E c \in Contents : Plausible(c) /\ was = c /\ db = Holding(c, c.ver)
    /\ pc = "down" /\ executed = {} /\ mig = 0 /\ stmt = 0
    /\ crashes = 0 /\ refused = {}

-----------------------------------------------------------------------------
(* The driver                                                              *)

\* Faulty variant: the recorded numbers are not read back.
RecordedNothing == {}

Recorded ==
    IF Exists(db, "migrations") THEN {r.migration_number : r \in Rows(db, "migrations")} ELSE {}

\* db.Open, then the recorded numbers are read once.
Start ==
    /\ pc = "down"
    /\ pc' = "migrating" /\ executed' = Recorded
    /\ mig' = 1 /\ stmt' = 1
    /\ UNCHANGED <<db, was, crashes, refused>>

Running == pc = "migrating" /\ mig \in Migration \ executed

\* Faulty variant: continue without moving on.
SkipStays ==
    /\ pc = "migrating" /\ mig \in executed
    /\ UNCHANGED vars

Skip ==
    /\ pc = "migrating" /\ mig \in executed
    /\ mig' = mig + 1
    /\ UNCHANGED <<db, pc, executed, stmt, was, crashes, refused>>

Statement ==
    /\ Running
    /\ Run(db, mig, stmt) # Error
    /\ db' = Run(db, mig, stmt)
    /\ IF stmt < Statements[mig] THEN stmt' = stmt + 1 /\ mig' = mig
                                 ELSE stmt' = 1 /\ mig' = mig + 1
    /\ UNCHANGED <<pc, executed, was, crashes, refused>>

Down == pc' = "down" /\ executed' = {} /\ mig' = 0 /\ stmt' = 0

\* The statement is refused: New returns the error and the process exits.
Refused ==
    /\ Running
    /\ Run(db, mig, stmt) = Error
    /\ refused' = refused \cup {mig}
    /\ Down
    /\ UNCHANGED <<db, was, crashes>>

Serve ==
    /\ pc = "migrating" /\ mig > 10
    /\ pc' = "serving"
    /\ UNCHANGED <<db, executed, mig, stmt, was, crashes, refused>>

\* The process dies between two statements, or a statement fails for want of
\* disk or of the lock: either way the start ends here.
Crash ==
    /\ pc = "migrating"
    /\ crashes < MaxCrashes             \* bound
    /\ crashes' = crashes + 1
    /\ Down
    /\ UNCHANGED <<db, was, refused>>

\* The hub is stopped, for an update or with its host.
Stop ==
    /\ pc = "serving"
    /\ Down
    /\ UNCHANGED <<db, was, crashes, refused>>

Progress == Start \/ Skip \/ Statement \/ Refused \/ Serve
Next == Progress \/ Crash \/ Stop

Spec == Init /\ [][Next]_vars

\* The service manager restarts the hub whenever it exits (restart:
\* unless-stopped), and a running process takes its next step.
FairSpec == Spec /\ WF_vars(Progress)

-----------------------------------------------------------------------------
(* Properties                                                              *)

TypeOK ==
    /\ DOMAIN db = Table
    /\ \A t \in Table : Exists(db, t) => \A r \in Rows(db, t) : DOMAIN r = Cols(db, t)
    /\ pc \in {"down", "migrating", "serving"}
    /\ executed \subseteq Migration /\ mig \in 0 .. 11
    /\ stmt \in 0 .. 11
    /\ was \in Contents /\ crashes \in 0 .. MaxCrashes
    /\ refused \subseteq Migration

\* Some table has a row with these values.
Somewhere(want) ==
    \E t \in Table : Exists(db, t) /\ DOMAIN want \subseteq Cols(db, t)
        /\ \E r \in Rows(db, t) : \A k \in DOMAIN want : r[k] = want[k]

\* Whatever the statement a start dies at, every app, signing key, credential
\* and release the database held is still in one of its tables (RunMigrations
\* runs without transactions; README, Upgrades: "apps, releases, tokens and
\* stored signing keys survive updates").
NothingLost ==
    /\ \A x \in was.variants :
        /\ Somewhere([slug |-> x.slug])
        /\ \/ Somewhere([slug |-> x.slug, platform |-> x.platform, sign_keystore |-> x.key])
           \/ Somewhere([app_id |-> x.slug, platform |-> x.platform, sign_keystore |-> x.key])
           \/ x.key = None
        /\ \/ Somewhere([platform |-> x.platform, play_credentials |-> x.cred])
           \/ /\ Somewhere([credentials |-> x.cred])
              /\ Somewhere([app_id |-> x.slug, platform |-> x.platform, play_account_id |-> x.cred])
           \/ x.cred = None
    /\ \A r \in was.releases :
        \/ Somewhere([app_id |-> r.slug, version_code |-> r.code])
        \/ Somewhere([app_platform_id |-> <<r.slug, r.platform>>, version_code |-> r.code])

\* What the database should hold once it is current: the old channel name is
\* gone, and so are the failures without a text that script 9 once made up.
Current(c) ==
    [c EXCEPT !.releases =
        {[r EXCEPT !.channel = IF @ = "api-share" THEN "direct" ELSE @,
                   !.status  = IF @ = "error" /\ r.error = None /\ c.ver < 10
                               THEN "pending" ELSE @] : r \in c.releases}]

\* A hub that serves, whatever version it was updated from and however often
\* its start died on the way, has the current schema and holds what it held
\* before: the scripts of an interrupted start are neither skipped nor run
\* twice (db.RunMigrations).
ServesWhatWasThere == pc = "serving" => db = Holding(Current(was), 10)

\* A start that is never cut short is never refused, and one that was is
\* refused by a script that creates or alters a table unconditionally: 1, 2,
\* 5 and 10 can always be run again, 3, 4, 6, 7, 8 and 9 only from the top
\* (007-play-accounts.sql:11 calls itself safe to re-run; it is not).
RefusedAfterCrash ==
    refused # {} => crashes > 0 /\ refused \subseteq {3, 4, 6, 7, 8, 9}

\* With the service manager restarting it, a hub comes to serve or is refused:
\* the driver does not hang, whatever the crash left behind (cmd/srv run).
ComesUp == [](pc = "down" => <>(pc = "serving" \/ refused # {}))
=============================================================================
