# Release Hub in TLA+

Release Hub (`src/`) is a Go service that receives builds from CI, stores the
artifacts on its own disk or in S3, tells devices which build is the newest,
pushes Android bundles to Google Play, and keeps signing keys and Play
service accounts encrypted.  It is one process with one SQLite database; every
HTTP request runs in a goroutine of its own, **no statement is in a
transaction and no handler takes a lock**.  So the unit of atomicity is one SQL
statement or one system call, and that is the grain of these models.

## Inventory

| Component | State | Operations | Hard part | What makes it correct |
|---|---|---|---|---|
| Upload (`srv/api_releases.go` 72-198) | table `releases`, the artifact | check the code, Save, INSERT, sign the URL, Play push, prune | check-then-act over a transfer of minutes; undo after a refused INSERT; errors after an accepted one; crash between artifact and row | a recorded release has its artifact; nothing is left over; an answer tells the truth |
| Local store (`srv/storage.go` 44-92) | files `<key>`, `<key>.part` | Save, Open, Delete | Saves of one key share the temporary name | a Save puts the whole body in place or nothing |
| S3 store (`srv/storage.go` 94-231) | objects | Upload then HEAD, presign, delete | HEAD fails after the object is there | as above |
| Deletion and retention (`srv/prune.go`, `srv/api_releases.go` 200-234, `srv/handlers_ui.go` 706-783, 880-895) | rows, files, keep counts | API and UI delete, prune after an upload, settings | row then file, by a version code that may be given out again; several prunings at once | the newest N stay; the head never goes back; Play releases stay |
| Device downloads (`srv/public.go`) | none | manifest, download link, artifact | row and file are read at different times | what the manifest promises can be fetched |
| Play client (`srv/play.go`, `publishToPlay`) | edits on Play, tracks, testers | Publish, ensureClosedTrack, SetTesters, ListTracks, Preflight | a remote protocol of several calls; creation races; lost answers | edits are closed; testers are not wiped; a release lands on its track only |
| Play accounts (`srv/api_releases.go` 425-633, `srv/handlers_ui.go` 489-554, 958-993) | table `play_accounts`, links of `app_platforms` | add or rotate, delete, enable, disable | delete-then-insert; foreign keys per connection; a link made while the account goes | an enabled platform has an account |
| Play status (`srv/handlers_ui.go` 629-702) | `play_status` of the rows | settle against the live tracks | a list read long before the update | never `ok` for what is not on Play |
| Sessions, tokens, first run (`srv/auth.go`, `srv/handlers_ui.go` 30-118) | password hash, sessions, tokens | setup, login, logout, bearer check | setup is check-then-act | one setup; no session without the password |
| Apps, platforms, signing keys (`srv/api_apps.go`, `srv/signing.go`) | rows, stored keystore | create, add platform, set, get, delete key | key generated after the row is visible | the stored key is the last one stored by a user |
| Secrets (`srv/secrets.go`) | none; the key is in the environment | encrypt, decrypt | the key changes over a restart | what is stored can be read back, or is refused |
| Migrations and pool (`db/db.go`, `db/migrations`) | schema, table `migrations` | Open, RunMigrations | several statements without a transaction; pragmas of one connection | a hub that died while migrating starts again |
| Settings, pages, routes, start-up | config texts | forms | none to speak of | - |

Components talk through the database and the store only: an upload calls the
Play client and the pruning within its own goroutine; the pages, the API and
the devices read the rows the uploads write.  `PROJECT.json` has the list of
what is hard to test, line by line.

## Modules

| Module | Models |
|---|---|
| `LocalStorage` | `LocalStorage` of `srv/storage.go`: paths name inodes, a Save keeps writing to the inode it opened.  One operator per system call. No next-state relation of its own |
| `BucketStorage` | `S3Storage` of `srv/storage.go`: whole objects, put, sized and removed.  No next-state relation of its own |
| `Releases` | `handleApiUpload`, both delete handlers, `deleteRelease`, `pruneDirectReleases`, the retention settings, crashes.  One platform of one app; drives an instance of each store, `OnS3` says which |
| `ReleaseCatalog` | the promise: a release enters the catalogue in one step and once, and an answer says what happened |
| `ReleasesProps` | fairness, the properties, the refinement mapping to `ReleaseCatalog` |
| `MCReleases` | forms and settings for the instances of `Releases` |
| `ReleasesProofs` | types, retention and Play releases: an inductive invariant and its theorems |
| `OverlapProofs` | what overlapping requests leave: rows have their artifacts and artifacts their rows, on either store; what a Play push left in its row; the retention bound; the refinement of `ReleaseCatalog` |
| `PlayAccounts`, `MCPlayAccounts`, `PlayAccountsProofs` | `upsertPlayAccountFromRequest`, `handleApiSetPlay`, `handleApiDeletePlayAccount`, their Settings and app page twins, `playAccountCreds`; properties included |
| `PlayPublish`, `MCPlayPublish`, `PlayPublishProofs` | `Publish`, `ensureClosedTrack`, `SetTesters`, `trackFor`, `trackIsClosed`, the status an upload stores after its push, `handleApiInviteTesters`, `settlePlayStatus`; properties included |
| `Signing` | registering an app, adding a platform with its generated key, uploading, fetching and wiping a key, the certificate-name settings, `encryptCreds` and `decryptCreds`, restarts under another environment |
| `Keystore` | extends `Signing` with the bytes of the generated file: `generateKeystoreWithSubject`, `withKeyBagFriendlyName`, `buildDataContentInfo`, `wrapTLV`, `derLength` |
| `MCSigning`, `SigningProofs`, `KeystoreProofs` | instance, and theorems about `Signing` and about `Keystore` |
| `Access`, `MCAccess`, `AccessProofs` | first run, login, logout, `requireUI`, `requireAPI`, token creation |
| `Migrations`, `MCMigrations`, `MigrationsProofs` | `db.Open`, `RunMigrations` and the ten scripts, statement by statement, with starts that die |

### Releases and the code

`rows` is the table `releases` as a function of the version code (its UNIQUE
constraint makes it one), `override` and `hubKeep` the two retention settings.
`pc[r]` is the step request `r` takes next; `form`, `code`, `keep`, `pushed`,
`todo`, `victim` are the local variables of the handlers that live across
steps.  `faulted`, `contended` and `stray` are history.

An upload goes `idle` -Begin-> `begun` (platform row read, body on its way)
-Accept-> `create` `write` (Save) `record` (INSERT) `sign` (`PublicURL`) and then, on
a Play channel, `push` `setplay`, on the direct channel `keep` `list` and one round
of `find` `unrow` `unfile` per release to prune.  A refused INSERT goes to `undo`.
On S3 the URL has to be signed, which may fail (`SignFails`): the upload is answered
500, `unsigned`, and is neither pushed nor pruned although its release is recorded.
A delete request starts at `find` after its own check.  Each step has its failing
twin: `SaveFails`, and a `...Fault` for each SQL statement (a cancelled request
context, a locked database), bounded by `MaxFaults`.  `Crash` ends every
request in flight and keeps rows and files.  A failing statement is taken to have
had no effect; a driver may report an error for one that was carried out, but that
would be the driver's doing, which is not part of the repository.

Abstractions: an upload has a body of its own, so its name stands for the
sha256 of the body and for the chunks on the disk; the Play channels differ in
nothing this module sees and are one, `play`; a Play push is its outcome; sizes,
notes and version names are left out; only the base name of a file matters, as
part of the key.  A Play push that reads the stored artifact is not modelled as
a reader.

`main.go` picks the store once, so `OnS3` is a constant.  On the disk a Save is
`create` `write` ... rename; in a bucket it is `put` (the uploader makes the object
appear whole) and `head` (S3 is asked for the size).  `disk` and `data` are the
bucket's objects and bodies then, so that rows are related to artifacts by the
same properties.  `BucketFails` is a failing put, one that was carried out all
the same, or a failing HEAD; `RemoveArtifact` is either store's Delete, whose
error the callers drop.  `storage.go` 28-29 asks that a Save clean up when it
fails; the local store does, the bucket does not: `stray` holds those uploads, and
`NoOrphanArtifact` is stated for the others.

The condition `contended` in `ArtifactIntact` is not a guess: `LostArtifact`
shows what happens without it.  An upload is contended when, at some moment
between its being given a code and its row being in, another upload held the
same key, or a delete was on its way to that very file.

### PlayAccounts and the code

`accounts` is the table `play_accounts`, `lastId` its AUTOINCREMENT counter
(migration 007), `enabled` and `link` the columns `play_enabled` and
`play_account_id` of `app_platforms`.  The credentials of an account stand for
their `client_email` and, in `sealed`, for what they were encrypted under.  A start
picks a `secret`, or none.  An account is found by its email only if that can be
read (`Legible`): `playEmail` shows `""` for one stored under another secret, and a new
key of the same email is then stored beside it, which `muddled` remembers.  Ids come
from `lastId`, so they are never used twice, and `NextIdReused` shows what the push
would do if they were.

A worker is a request.  Storing goes `list` `drop` `insert` -- the order of
`upsertPlayAccountFromRequest`, old key first -- and on to `link` when the key came
with a platform.  Enabling goes `look` `link`; disabling is one statement, so one
action.  Removing goes `check` `clear` `remove` in the API and starts at `clear` on
the Settings page.  A use (push, preflight, testers, tracks) reads the platform row
in `StartUse` and the account in `Use`.  `...Fails` are refused or failed
statements, `ListFault` is `mustListPlayAccounts` turning an error into an empty
list, `Crash` ends every request.

`db.Open` runs `PRAGMA foreign_keys = ON` on one connection of a pool, so a
statement may or may not cascade (`DeleteAccount`) and may or may not refuse a
dangling link (`SetPlay`): `ForeignKeys` is the set of what a connection may have,
chosen again at each statement.  `stored`, `granted`, `muddled`, `lost` and
`severed` are history, for the properties.  The hub starts with no account;
accounts that migration 007 takes over from older versions are not modelled.

### PlayPublish and the code

The hub's side is `status` (column `play_status`; `failed` is `error` with a text,
`error` is the pessimistic value of the INSERT), `form` (channel and version name)
and `groups` (config `play_testers`).  Play's side is `live` (tracks), `onTrack`,
`testers` and the edits: `open` and what each has `staged`.  Play is outside this
repository and modelled as far as the code relies on it: an edit collects changes,
`Apply` makes all of them visible at the commit, an update replaces the list it
updates, groups are refused on the three standard tracks, a track can be created
once.  So of two edits that both have staged the creation of a track, the second to
commit is refused: `ensureClosedTrack` lists the tracks again when its create call
fails (`play.go` 296), but not when its commit does (307), and the request is lost.
`late` holds those who were overtaken in between, `FailsOnlyByFault` is about the
others.  Anything else Play may refuse, such as a commit that collides with another,
is a failing call.

A push goes `read` (its tester groups), for a closed channel `openl` `list` and
perhaps `openc` `create` `commitc` `closec` (`ensureClosedTrack`), then `open` `upload`
`track` `testers` `commit` `close` (`Publish`; `close` is the deferred Delete) and
`report` (`setPlay`).  An invitation shares the steps and skips `upload` and
`track`.  `CallFails` is any failing call; `InsertUnanswered` and `CommitUnanswered` are
calls that were carried out all the same.  An edit whose Insert was not answered has
no id the hub knows, no Delete, and is in `left` for good.  `CreateRefused` leads to
`openr` `relist`, the listing after a lost race.  A listing opens an edit of its own
and deletes it when it returns (`DropListing`), so `open` tells the edits of one
actor apart by what they are for.

A view of the app page or of the releases API settles: `LoadReleases`, `openl`,
`SettleList`, one `Mark` per row.  `settlePlayStatus` takes a release for the row's if
its name is the row's or begins with the row's version name and `" ("`: `NamedLike`,
with the pairs of version names that begin so as the constant `Extension`.  A row may
thus be called `ok` by a release of another version, `1.0 (rc1)` for `1.0`; what
`OkMeansLanded` says is that it is one on the row's own track, and for an upload's row
that its own release was there too.  The releases on the tracks are those of the hub's
rows; whoever releases in Play Console by hand is not modelled.

A channel is a record of its word and, for `closed:<name>`, the name, so that
`trackFor` is the code's own case distinction.  The platform row, the
account and the file type are checked before a push begins and are not modelled
here; `PlayAccounts` has the account.  `Releases` takes the outcome of a push as
given, `ok`, `error` or none: what that outcome means is this module's
`OkMeansLanded` and `FailedMeansNotLanded`.

### Signing, Keystore and the code

`row` is the one app's rows of `app_platforms`, reduced to the signing columns;
a `Blob` is a stored column with the key it is encrypted under.  `settings` is
`sign_org` to `sign_country`, `env` the environment of the running process.
Every keystore is new, so the request that generates or uploads it is its name.

An add goes `idle` `insert` `subject` (one read per field of the certificate name)
`store`; the row is visible from `insert` on.  An upload goes `idle` `put`, a wipe
`idle` `wipe`, a fetch is one read, a save writes one field per step.  A failing
read of the app or the platform is answered 404, a failing INSERT 409, as the
code does; an add whose key cannot be made or stored is answered 201 without a
key.  `Restart` ends every request and picks an environment.  AES-GCM opens under
its own key only; `encryptCreds` refuses without a secret unless
`ALLOW_PLAINTEXT_CREDS` is set.

`StoreGenerated` overwrites what the row holds by then (`signing.go` 186): a key
uploaded while one is being generated is lost.  `KeyReplaced` says that this is
the only way an uploaded key goes without an upload or a wipe.

`Keystore` takes the generated file as a sequence of pieces, bytes or runs of
bytes nobody looks into, and reads and writes DER as `encoding/asn1` does.  The
file the PKCS#12 library encodes is taken apart by `withKeyBagFriendlyName`, the
key's bag gets its friendlyName, and the lengths around it are written by hand.
A value of 2^24 bytes and more is refused (`wrapTLV`), and with it the key.  Attributes
are a SET OF, which `encoding/asn1` sorts: the name comes before the key's id.
`NameBytes` says what each value of a name field adds to the file, in its
certificate; `SizeOf` adds it up, and `MostBytes` bounds it: five fields of a form of
at most 10 MB, each twice, since the subject is the issuer too.
`GeneratedOpens` reads the result back.  Cryptography and the MAC's value are left
out; that the MAC is of the final content is not.

### Access and the code

`password` is `admin_password_hash`, `sessions` and `expires` the table `sessions`,
`tokens` the table `api_tokens`; a setup's name is its password, the name of the
request that makes a session or a token its random value.  A setup goes `idle`
(form and `hasPassword`) `hash` (bcrypt, then the upsert) `session` `cookie`; a login
checks the password and joins at `session`; a token is made behind `requireUI` or
`requireAPI` in `make` and shown in `answer`.  Clients present any cookie or token
they were given; `clock` runs past `expires`.  Two setups that overlap both
succeed, and the later password counts: `PasswordSettled` starts where no setup is
between its check and its upsert.

### Migrations and the code

`db` is a function from table names to columns and rows; each script is a
sequence of statements, each a function of the database that may be `Error`.
`RunMigrations` reads the recorded numbers once (`Start`) and runs every other
script with one Exec and no transaction, so `Crash` may come between any two
statements.  `was` is what the database held at first; `Holding` writes it in the
schema of any of the eleven versions, table by table and column by column.
`ServesWhatWasThere` compares the outcome with the same operator at version 10, so
the scripts are checked against schemas that were written down without them.

What a crash leaves is not always repaired by the next start.  `RefusedAfterCrash`
names the scripts that can stop it: 3, 4, 6, 7, 8 and 9 create or alter
unconditionally, although `007-play-accounts.sql` line 11 calls itself
"Idempotent: safe to re-run against a partially applied migration".  Nothing is
lost meanwhile (`NothingLost`).

## Runs

| Run | Instance | Shows |
|---|---|---|
| `releases_files` | 2 uploads, 1 delete; a direct form numbered by the hub and a Play form that asks for code 1; codes 1..2; settings change between three pairs; the disk, 2 chunks; 1 failing request | types, `ArtifactIntact`, `NoOrphanArtifact`, `PlayOutcomeRecorded`; under fairness every request that has its body ends, and only at the known places without an answer (`EveryRequestEnds`) |
| `releases_retention` | 3 uploads of one file name, 1 delete, codes 1..3, keep 1 hub-wide; a bucket with failing calls and URLs that cannot be signed | `NoOrphanArtifact`, `RetentionBound`, `HeadNeverLowered`, `PlayReleasesKept`, refinement of `ReleaseCatalog` |
| `lost_artifact` | 2 uploads of one file name | a release whose artifact is gone or broken (violated) |
| `play_deleted` | 2 uploads, 2 deletes | a delete takes a Play release (violated) |
| `prune_panic` | keep 2 | a direct upload is never answered (violated) |
| `play_accounts` | 2 requests, 1 platform, 2 emails, 2 accounts ever stored, connections with and without foreign keys, restarts with one secret or none | `PushUsesGranted`, `OnlyNewestKey`, `RotationKeepsAccount`, `OnHasAccount` |
| `play_publish` | 1 push, 1 invitation, 1 view, 1 old row, channels alpha and internal, 2 version names of which one begins with the other, 1 group, 1 request with failing calls | `OkMeansLanded`, `FailedMeansNotLanded`, `EditsClosed`, `FailsOnlyByFault`, `TestersKept` |
| `play_rotation` | 1 request, foreign keys always on | a rotation leaves a platform on without an account (violated) |
| `play_testers` | 1 push, on channel closed:internal among others | tester groups are sent to the internal track (violated) |
| `signing` | 2 adds, 1 upload, 1 wipe, 1 fetch and 1 save of 2 fields on android, 2 environments, 1 failing request, 1 restart | `KeyFitsPasswords`, `OpensUnderItsSecret`, `OneGenerator`, `KeyReplaced`, `NameFromOneSave`, `GeneratedOpens`; under fairness `AndroidGetsKey` |
| `access` | 2 setups, 1 login, 1 logout, 1 page, 1 API call, sessions that expire, 1 failing request, 1 restart | `NothingBeforeSetup`, `SessionsEarned`, `ShownTokensWork`, `PasswordSettled`, `EndedStaysOut` |
| `migrations` | databases of every version, empty or with two variants and their releases; 2 starts that die | `NothingLost`, `ServesWhatWasThere`, `RefusedAfterCrash`; under fairness `ComesUp` |

Bounds.  Two requests on one key and a third that interferes are the smallest
instance of every race listed in `PROJECT.json`; three uploads are needed for two
prunings at once with something left to prune. `releases_retention` has one keep
count, as uploads with different ones are too many states on a bucket; that they
differ is covered by `RetentionBounds` only.  `Chunks = 2` lets one Save see half of
another's bytes.  Codes are bounded by `MaxCode` in `Accept`: an upload that would
need a higher one waits, which no property turns on. `MaxFaults` bounds failing
statements, not failing saves.  Forms, settings and client timing are free within
the sets given.  Symmetry is over uploads and is used in no run that checks
liveness; in `play_accounts` it is over requests, platforms and emails.

`PlayAccounts` needs two requests for each of its races and two ids for a
rotation; `MaxId` bounds the accounts ever stored, in `Insert`.  One secret and none
are enough to store an account under the one and look for it under the other; the
theorems are for any set of secrets.

`PlayPublish` has one request of each kind: a push and an invitation already race
for the closed track and for its tester list, and the view meets a push that
replaces the release it looks for.  `MaxFaulted` bounds the requests and views with a
failing call or Delete.  The groups change only while somebody has yet to read them;
later changes meet nobody.

`signing` has two adds for the race on the row and one request of each other kind
to come in between.  Its environments are one with a secret although plaintext
is allowed, and one without either, where storing is refused; keys stored in
plaintext are covered by the proof, which is for any environments, as it is for
the other platform.  `NameBytes` is chosen so that with two saved fields the wrapped
content has exactly 65536 bytes, where the form of the length changes, and with
none or one it has the two-octet form; the other sizes are roughly those of a
2048-bit key.  That the other lengths, up to the refusal, are right is what
`KeystoreProofs` is for.

`access` has two setups for their race and `TTL` = 1 with a clock to 2, so that a
session can expire before, between and after any two steps.  `migrations` starts
from all versions because an update may skip any number of them; two variants are
one app with two platforms or two apps, which is what script 6 splits and
script 7 merges by, and two crashes are a crash of the repairing start.

Fairness.  In `Releases`, `FairSpec` is weak fairness of each upload's and each delete's
steps once it has its body: net/http gives it a goroutine, no step waits for another
request, and what it asks of the database, the store and Play comes back as an answer,
an error or a dead connection.  `Begin` is not fair (no client has to come), nor is
`Receive`: the server sets no read timeout, so a client that stops in the middle of its
body keeps the request for ever, and `EveryRequestEnds` speaks of the requests past
it.  A settings change or a crash is not fair either.  `EveryRequestEnds` also says
where a request may not panic: an upload once it pushes or works off its list, a
delete once it has found its release.  The two panics of the code come earlier, at
`list` (`prune_panic`) and at a UI delete's `find`.
`Signing` has the same for an add.  In `Migrations` the start is fair,
including being started again: the compose file says `restart: unless-stopped`
(`README.md` 283); crashes and stops are not.

What the violated runs say is in `findings`: the code's own comments and docs
promise a clean 409 for duplicates, Play releases that retention never touches,
and pruning that happens after the upload is done; and that uploading a key again
for the same email is a rotation, when it unlinks every platform that used the
account; and that tester groups only reach closed tracks, when `closed:internal`
is taken for one.

## Proofs

`ReleasesProofs` proves, for any sets of requests, codes, names and settings:

- `TypeCorrect`: `TypeOK` always holds;
- `RetentionKeepsHead`: `HeadNeverLowered`;
- `PlayReleasesSafe`: `PlayReleasesKept`.

They rest on `Invariance`, the inductive invariant `IInv`, whose parts are:
`LocalInv` (what a request holds at each step; without it types are not
inductive, since rows are written at `code[u]`), `RowInv` (a row has the code,
channel and form of the upload that wrote it), `TodoInv` (only codes of direct
uploads are ever queued for deletion), `HandInv` (a delete request deletes one
release) and `PruneInv` (until something is deleted by hand, everything queued
has a newer direct release in the table).  `PruneInv` is the heart: a prune list
is computed once and worked off while other uploads prune as well, and it holds
because the newest release is on nobody's list -- each list is what lies below
at least one newer release, and the newest of those is deleted by no one.
`PlayReleasesKept` follows from `RowInv` and `TodoInv`: a Play row whose code is
on a list shares it with a direct upload.

`OverlapProofs` proves `ArtifactsStayIntact`: `ArtifactIntact`, on either store, for
any number of chunks.  A release's row and its file are written, and deleted, in
different steps, so its invariant `AInv` speaks of uploads from the moment they
have a code.  An upload is `Lone` when it holds its key or owns its row and no
other request used the key meanwhile.  `LoneInv`: nobody else holds a lone upload's
key, and whoever is about to remove that file found the upload's own row and has
not deleted it yet.  `BodyInv`: what the store has under the key is then the
upload's own, up to where it has written.  `HomeInv` (an inode is found only under
the key of the upload that created it) and `WriterInv` (a row bears its writer's
file name, and its writer has got past the INSERT) keep different keys apart.  That
a lone upload's key was free when it was accepted follows from `Latest` being the
largest code in the table; that a finite set of naturals has a largest is the one
place where the proof needs well-founded induction (`Smallest`, by `WFMin`).

It also proves `NoOrphans`: `NoOrphanArtifact`, whatever statements failed.  As long
as nobody died, its invariant `DInv` says of every file who is to answer for it.
`PartInv`: a temporary file is being written by somebody.  `DebtInv`: an artifact
that no failed S3 call left behind is `Owed` -- it has its row (`Listed`), or an
upload holds it that is about to record or to undo it (`Saved`), or a request
deleted its row and is about to remove it (`Condemned`), or two releases were
recorded under its code, and then a DELETE by code may unrecord another release
than the one looked up.  `FoundInv` and `VictimInv` say that who is about to delete a
row has read the name of a release that was recorded: either the DELETE hits that
release, and the file is condemned, or its code was used twice.  `ModeInv` keeps the
steps of the two stores apart.

Of the answers, it proves `PlayOutcomesRecorded` with `PrunerInv` (only direct
uploads prune, so a Play upload answers from `setplay`), `RowInv` and codes that
never change.  It proves `RetentionBounds` with `BInv`: `BoundInv` says that, as
long as nothing failed and those who have listed all keep between 1 and `n`, one of
them, the last to list, leaves at most `n` of their releases alone (`Left`: not on
its list, or it is past the DELETE).  An upload answered for want of a URL has not
listed, and its release is none of theirs (`EndsUnsigned`).  A list leaves out at
most `n` (`TopFew`), and no other step adds to what is left (`LeftShrinks`): a new
release counts only once its own upload has listed, and then that upload is the
last.  And it proves the refinement, `CatalogImplemented`, step by step: an INSERT
is `Enter`, a DELETE `Withdraw`, an answer `Created` or `Refused`, a failing
signature `Unsigned`, a crash or a panic `Unanswered`, and everything else a
stutter.

`PlayAccountsProofs` proves all five invariants of `PlayAccounts` for any sets of
requests, platforms and emails, any number of accounts and any `ForeignKeys`:
`AccountsTypeCorrect`, `PushesUseGranted`, `RotationLeavesNewest`, `RotationKeeps`
and `RemovalSwitchesOff`.  None is inductive alone.  `WorkInv` says what a
request holds at each step, in particular that the account it drops or links was
stored with its email.  `StoreInv` says that ids above `lastId` are fresh and that
an account keeps its email; with it, `GrantInv` (a link is to an account that was
granted) survives removals and new accounts, and `PushesUseGranted` follows.
`NewestInv` adds to `OnlyNewestKey` what a lone storing request knows: at `drop` its
target is the email's only account, at `insert` there is none.  Both hold because at
`list` every account of the email was legible, or the email became `muddled`; a
restart, which could change that, ends every request.  `KeepInv` says
that an email without an account has a request about to insert one, and
`SwitchInv` that no platform is on with an account whose flags were just cleared.

`PlayPublishProofs` proves everything `play_publish` checks, for any sets of pushes,
invitations, views, rows, channels, versions and groups and any number of failing
calls: `PublishTypeCorrect`, `OkIsTrue`, `FailureIsTrue`, `NoEditLeft`,
`RaceCostsNothing` and `TestersAreKept`.  `WorkInv` says what a request has staged
at each step and that nobody is `ok` before its commit; `LandedInv` that a push has
landed only if its request is answering, and that what is on a track landed there.
With `FormStays` (a form is written once) `OkInv` follows: a view that is about to
mark a row found a release that had landed under a like name, even if the track has
been replaced since.  `FailedInv` holds because `Outcomes` are `failed` before the
commit applied anything or at a commit nobody answered.  `RaceInv` carries the
reason over the lost race: at `openr` and `relist` the track is there, or the
request's call did fail, and `LiveStays` keeps it so; who is at `commitc` with the
track there is `late` (`Overtaken`).  `EditsClosed` is inductive by itself: every
step that leaves an edit's function (`Inside`) deletes the edit or puts it in
`left`, and an actor's step touches no edit but its own.  `TestersInv` makes the
list that `Apply` writes a non-empty one.

`SigningProofs` proves the invariants and action properties of `Signing` for any
requests, targets, environments and numbers of fields: `SigningTypeOK`,
`SigningKeyFitsPasswords`, `SigningOpensUnderItsSecret`, `SigningOneGenerator`,
`SigningKeyReplaced` and `SigningNameFromOneSave`.  `WonInv` says that whoever won a
platform's INSERT won it alone and the row is there for good; `HeldInv` that whoever
stored a key sealed it under the environment of that moment, which is what makes it
open later; `NameInv` that, as long as nothing crossed, the settings are one save's
but for the fields a save has not come to, and a name is the settings as far as
it was read; `AtInv` keeps the fields apart.

`KeystoreProofs` proves `KeystoresOpen`: `GeneratedOpens`, for certificate names of any
length.  The run tries three lengths; the theorem covers every point where a length
changes its form, at each of the places the code writes one, and the
refusal.  It goes in four stages.

- *Sums.*  Sizes, length octets and `Split` are recursive functions, and the
  library's induction theorems cannot be instantiated here.  `Recursion` does
  without: a function defined by its predecessor exists and has its equation, by the
  least counterexample of a set of naturals (`WFMin`).  `SumConcat` follows, and that
  an encoding's size is what its parts add up to.
- *Reading undoes writing.*  `ReadMarshal`: for a body of any size below 2^32,
  `Read(Marshal(tag, body) \o rest)` is that tag, that body and that rest.  A length's
  octets add up digit by digit, and the body ends where the sizes have added up, since
  every piece has at least one byte.  `Split` goes from a value to what follows it, so
  its function exists by an induction from the end (`Chains`), and two values one after
  the other are split into these two (`SplitTwo`).
- *The lengths by hand.*  `derLength` and `wrapTLV` write what the library would write
  for every length below 2^24.  `derLength` has no refusal, and needs none here: what
  it wraps is the key's part, whose size does not depend on the name.
- *The file.*  The library's file and the renamed one are the same file with other
  attributes in the key's bag, so the proof takes it apart once, with the
  attributes left open.  The library's has no name and gets one; the renamed one has
  one, so naming it again changes nothing, and it opens.  Only the outer wrapper can
  be refused, and only when the name has more than `Megabytes` bytes.

`AccessProofs` proves everything the `access` run checks: `UnsetInv` (without a
password no request is past its check), `SessionInv` (a session follows its request,
and an ended one is past all its steps), `KnewInv` (who is past the check knew a
password that is or was stored) and `TokenInv` (stored before shown).

`MigrationsProofs` proves all four invariants of `Migrations`, for databases of any
version with any number of apps, keys, credentials and releases, and any number of
starts that die: `MigrationsTypeOK`, `UpgradeLosesNothing`, `ServesAsBefore` and
`RefusalNeedsCrash`.  `NothingLost` alone says too little about the tables to survive
a statement, so `IInv` gives the whole database: there is a script `m` and a
statement `s` of it such that `db` holds, table by table, what `was` has become just
before that statement (`Holds`).  A start need not be there itself.  While it skips
what is recorded it is before `m`, and after a crash it may be at an earlier
statement `i` of script `m` and repeat what was done (`Repeats`): that is possible for
any script up to the first statement SQLite refuses a second time, and for scripts
1, 2, 5 and 10 all the way.  Script 6 has two places of its own, stages 12 and 13: when
a start died after `apps` was dropped and `apps_new` renamed, the next one makes
`apps_new` once more and fills it from the new `apps`, before it is refused.  The
proof has one lemma per statement run for the first time (`Goes`), one per
statement repeated (`Again...`), and one that `Holding` is the first place and the
last (`FirstOpened`, `LastHeld`).

The proofs assume the named assumptions on the constants, which TLC evaluates
in every run.

Only model-checked: liveness (`EveryRequestEnds`, `AndroidGetsKey`, `ComesUp`), which
the prover cannot do.  Every other property of a passing run is the subject of a
theorem.  The runs marked violated have counterexamples, not theorems.

## What is left

- A device as an actor, between the manifest and the artifact it names.
- `normalizeTesterGroups` against a reference definition.

## Not modelled

Device downloads (`srv/public.go`) change nothing: the manifest is one read of the
newest row, the artifact one open of a key; `ArtifactIntact` and `HeadNeverLowered`
say what they find.  A device that reads the manifest and fetches later may find
the release pruned, or its code in use again; it has the sha256 to tell.
`Preflight` and the handlers that list tracks open and discard an edit as `ListTracks`
does and do nothing else; their edits are closed for the same reasons.

`RunMigrations` reads the recorded numbers without looking at `rows.Err()`
(`db/db.go` 73-79): a listing that breaks off would have scripts run again.  The model
reads the list whole.  Script 6 gives artifacts another key and moves no file, so
"nothing is lost" is said of rows.  `api_tokens` is empty in the old databases of
`Migrations`; no script but the second, which creates it, mentions it.

Rendering, the route table, static files and start-up have no state of their
own.  The bundle prefix and the tester emails of the settings are texts only the
pages read.  AES, bcrypt, RSA, the PKCS#12 encoder, S3 and SQLite are libraries and
services, modelled as far as the code relies on them.
