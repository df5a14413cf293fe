------------------------------ MODULE Releases ------------------------------
(***************************************************************************)
(* The release life cycle of one platform of one app: uploads              *)
(* (handleApiUpload), deletes from the API and from the UI, and the        *)
(* pruning an upload does at its end.                                      *)
(*                                                                         *)
(* net/http runs every request in a goroutine of its own and no statement  *)
(* of the hub is in a transaction, so a request is a sequence of steps --  *)
(* one SQL statement or one system call each -- and the steps of different *)
(* requests interleave freely.  pc holds the step a request takes next.    *)
(*                                                                         *)
(* Each upload has a body of its own, so the upload's name stands for the  *)
(* sha256 of its body.  The Play channels behave alike here and are one    *)
(* channel, "play"; what Play does is the outcome of a push.               *)
(***************************************************************************)
EXTENDS Integers, FiniteSets, FiniteSetsExt

CONSTANTS
    Upload,     \* POST /api/apps/{slug}/{platform}/releases
    Deletion,   \* DELETE .../releases/{versionCode}, and its UI twin
    Form,       \* the forms the uploads may carry
    Name,       \* base names of uploaded files
    MaxCode,    \* bound: the largest version code in use
    Settings,   \* bound: the retention settings in use, <<override, hub-wide>>
    MaxFaults,  \* bound: how many requests have a statement fail
    OnS3,       \* artifacts are kept in a bucket, else on the hub's disk
    Chunks, NoFile,
    NoRow,      \* a version code without a release
    NoName      \* a request that has not read a release

Code    == 1 .. MaxCode
Channel == {"direct", "play"}
Unnumbered    == 0            \* the form's versionCode field is empty
Unset   == -1           \* a retention setting that is NULL or absent
Setting == {Unset} \cup Nat

ASSUME ReleasesAssumption ==
    /\ MaxCode \in Nat \ {0} /\ Chunks \in Nat \ {0} /\ MaxFaults \in Nat
    /\ OnS3 \in BOOLEAN
    /\ Settings \subseteq Setting \X Setting
    /\ Upload \cap Deletion = {}
    /\ NoFile \notin Upload /\ NoName \notin Name
    /\ Form \subseteq [chan : Channel, name : Name, asked : {Unnumbered} \cup Code]

Request == Upload \cup Deletion
Key     == Code \X Name         \* "<slug>/<platform>/<code>_<name>"

\* play: the row's play_status and play_error.  "unproven" is status 'error'
\* with an empty text, what a Play upload records before it pushes.
PlayState == {"pending", "unproven", "error", "ok"}
Row == [sha : Upload, chan : Channel, name : Name, play : PlayState]

ASSUME NoRowAssumption == NoRow \notin Row

VARIABLES
    rows,       \* table releases, by version code: UNIQUE(platform, code)
    override,   \* app_platforms.prune_keep
    hubKeep,    \* config 'prune_keep'
    disk, part, data, fd, off,      \* the artifact store
    pc,
    form,       \* the form an upload carries
    code,       \* an upload's version code once it has one
    keep,       \* first the override an upload read, then its keep count
    pushed,     \* what an upload's Play push came to
    todo,       \* version codes a request has yet to delete
    victim,     \* file name of the release a request is deleting
    faulted,    \* history: requests one of whose SQL statements failed
    contended,  \* history: uploads whose key another request was using
    stray       \* history: uploads whose object a failed S3 call may have left

Store == INSTANCE LocalStorage WITH Saver <- Upload, Key <- Code \X Name

Bucket == INSTANCE BucketStorage WITH objects <- disk, bodies <- data

dbVars      == <<rows, override, hubKeep>>
storageVars == <<disk, part, data, fd, off>>
localVars   == <<form, code, keep, pushed, todo, victim>>
historyVars == <<faulted, contended, stray>>
vars == <<dbVars, storageVars, pc, localVars, historyVars>>

-----------------------------------------------------------------------------
(* Steps and answers                                                       *)

Saving    == {"create", "write", "put", "head"}
Deleting  == {"find", "unrow", "unfile"}
Recorded  == {"sign", "push", "setplay", "keep", "list"} \cup Deleting   \* of an upload
Answered  == {"created", "deleted", "conflict", "notfound", "badchannel", "failed",
              "unsigned"}           \* an error although the release is recorded
Silent    == {"aborted", "lost"}    \* the handler panicked; the hub died
Done      == Answered \cup Silent
Step      == {"idle", "begun", "record", "undo"} \cup Saving \cup Recorded

Active(r) == pc[r] \notin Done \cup {"idle"}

key(u) == <<code[u], form[u].name>>

\* u holds its key from the moment it has a code until its row is in.
HoldsKey(u, k) == pc[u] \in Saving \cup {"record", "undo"} /\ key(u) = k

\* r has read a release of file k and is on the way to removing that file.
Removes(r, k) ==
    /\ pc[r] \in {"unrow", "unfile"}
    /\ k[1] \in todo[r] /\ \A c \in todo[r] : c <= k[1]
    /\ victim[r] = k[2]

TypeOK ==
    /\ rows \in [Code -> Row \cup {NoRow}]
    /\ override \in Setting /\ hubKeep \in Setting
    /\ Store!StorageTypeOK
    /\ pc \in [Request -> Step \cup Done]
    /\ form \in [Upload -> Form]
    /\ code \in [Upload -> {Unnumbered} \cup Code]
    /\ keep \in [Upload -> Setting]
    /\ pushed \in [Upload -> {"no", "ok", "error"}]
    /\ todo \in [Request -> SUBSET Code]
    /\ victim \in [Request -> Name \cup {NoName}]
    /\ faulted \subseteq Request
    /\ contended \subseteq Upload /\ stray \subseteq Upload

\* An empty platform; the clients' forms and the retention settings are any.
Init ==
    /\ rows = [c \in Code |-> NoRow]
    /\ \E s \in Settings : override = s[1] /\ hubKeep = s[2]
    /\ Store!StorageInit
    /\ pc = [r \in Request |-> "idle"]
    /\ form \in [Upload -> Form]
    /\ code = [u \in Upload |-> Unnumbered]
    /\ keep = [u \in Upload |-> Unset]
    /\ pushed = [u \in Upload |-> "no"]
    /\ todo = [r \in Request |-> {}]
    /\ victim = [r \in Request |-> NoName]
    /\ faulted = {} /\ contended = {} /\ stray = {}

Goto(r, step) == pc' = [pc EXCEPT ![r] = step]

\* A statement fails: the client is gone and its context cancelled, or the
\* database is busy (busy_timeout is set on one pooled connection only).
Fault(r) ==
    /\ faulted' = faulted \cup {r}
    /\ Cardinality(faulted') <= MaxFaults       \* bound

-----------------------------------------------------------------------------
(* Upload: checks and the artifact                                         *)

Taken  == {c \in Code : rows[c] # NoRow}
Latest == Max({0} \cup Taken)       \* MaxVersionCode
Direct == {c \in Taken : rows[c].chan = "direct"}

\* platformFromRequest reads the platform row, retention override included;
\* the body is received only then.
Begin(u) ==
    /\ pc[u] = "idle"
    /\ keep' = [keep EXCEPT ![u] = override]
    /\ Goto(u, "begun")
    /\ UNCHANGED <<dbVars, storageVars, form, code, pushed, todo, victim, historyVars>>

\* The latest code is read and the upload's own compared with it: there is
\* nothing to keep the answer true afterwards.
Accept(u) ==
    LET c == IF form[u].asked = Unnumbered THEN Latest + 1 ELSE form[u].asked
        k == <<c, form[u].name>>
        rivals == {v \in Upload \ {u} : HoldsKey(v, k)}
    IN  /\ pc[u] = "begun"
        /\ c \in Code           \* bound
        /\ c > Latest
        /\ code' = [code EXCEPT ![u] = c]
        /\ contended' = contended \cup rivals
                \cup IF rivals # {} \/ \E r \in Request : Removes(r, k)
                     THEN {u} ELSE {}
        /\ Goto(u, IF OnS3 THEN "put" ELSE "create")
        /\ UNCHANGED <<dbVars, storageVars, form, keep, pushed, todo, victim, faulted, stray>>

\* 409 when the code is not above the latest.
Conflict(u) ==
    /\ pc[u] = "begun"
    /\ form[u].asked # Unnumbered /\ form[u].asked <= Latest
    /\ Goto(u, "conflict")
    /\ UNCHANGED <<dbVars, storageVars, localVars, historyVars>>

\* 400 for an unreadable body, an unknown channel, a malformed version code or
\* a missing file; 500 when the latest code cannot be read.
AcceptFails(u) ==
    /\ pc[u] = "begun"
    /\ UNCHANGED faulted \/ Fault(u)
    /\ Goto(u, "failed")
    /\ UNCHANGED <<dbVars, storageVars, localVars, contended, stray>>

SaveCreate(u) ==
    /\ pc[u] = "create"
    /\ Store!Create(u, key(u)) /\ Goto(u, "write")
    /\ UNCHANGED <<dbVars, localVars, historyVars>>

SaveWrite(u) ==
    /\ pc[u] = "write"
    /\ Store!Write(u)
    /\ UNCHANGED <<dbVars, pc, localVars, historyVars>>

SaveRename(u) ==
    /\ pc[u] = "write"
    /\ Store!Rename(u, key(u)) /\ Goto(u, "record")
    /\ UNCHANGED <<dbVars, localVars, historyVars>>

\* Save reports an error: 500.
SaveFails(u) ==
    /\ \/ pc[u] = "create" /\ UNCHANGED storageVars     \* MkdirAll, os.Create
       \/ pc[u] = "write" /\ Store!WriteFails(u, key(u))
       \/ pc[u] = "write" /\ Store!RenameFails(u, key(u))
    /\ Goto(u, "failed")
    /\ UNCHANGED <<dbVars, localVars, historyVars>>

\* On S3 a Save uploads the object, then asks for its size.
SavePut(u) ==
    /\ pc[u] = "put"
    /\ Bucket!Put(u, key(u), Store!BodyOf(u)) /\ Goto(u, "head")
    /\ UNCHANGED <<dbVars, part, fd, off, localVars, historyVars>>

SaveHead(u) ==
    /\ pc[u] = "head"
    /\ Bucket!Sized(key(u)) /\ Goto(u, "record")
    /\ UNCHANGED <<dbVars, storageVars, localVars, historyVars>>

\* Nothing was uploaded, or only the answer is missing, or the size is not to
\* be had: 500, and nobody removes the object.
BucketFails(u) ==
    /\ \/ pc[u] = "put" /\ UNCHANGED <<storageVars, stray>>
       \/ /\ pc[u] = "put" /\ Bucket!Put(u, key(u), Store!BodyOf(u))
          /\ stray' = stray \cup {u} /\ UNCHANGED <<part, fd, off>>
       \/ pc[u] = "head" /\ stray' = stray \cup {u} /\ UNCHANGED storageVars
    /\ Goto(u, "failed")
    /\ UNCHANGED <<dbVars, localVars, faulted, contended>>

\* storage.Delete, whose error nobody looks at.
RemoveArtifact(k) ==
    \/ ~OnS3 /\ Store!Remove(k) /\ UNCHANGED stray
    \/ OnS3 /\ Bucket!Remove(k) /\ UNCHANGED <<part, fd, off, stray>>
    \/ /\ OnS3 /\ UNCHANGED storageVars
       /\ \E u \in Upload : disk[k] = u /\ stray' = stray \cup {u}

-----------------------------------------------------------------------------
(* Upload: the row and the Play push                                       *)

\* Faulty variant: the play status is left out of the INSERT.
NewRowBare(u) ==
    [sha |-> u, chan |-> form[u].chan, name |-> form[u].name, play |-> ""]

NewRow(u) ==
    [sha |-> u, chan |-> form[u].chan, name |-> form[u].name,
     play |-> IF form[u].chan = "play" THEN "unproven" ELSE "pending"]

\* Faulty variant: INSERT OR REPLACE.
CreateReleaseReplaces(u) ==
    /\ pc[u] = "record"
    /\ rows' = [rows EXCEPT ![code[u]] = NewRow(u)]
    /\ Goto(u, "sign")
    /\ UNCHANGED <<override, hubKeep, storageVars, localVars, historyVars>>

CreateRelease(u) ==
    /\ pc[u] = "record"
    /\ rows[code[u]] = NoRow
    /\ rows' = [rows EXCEPT ![code[u]] = NewRow(u)]
    /\ Goto(u, "sign")
    /\ UNCHANGED <<override, hubKeep, storageVars, localVars, historyVars>>

\* The UNIQUE constraint refuses the row, or the statement fails.
CreateReleaseFails(u) ==
    /\ pc[u] = "record"
    /\ \/ rows[code[u]] # NoRow /\ UNCHANGED faulted
       \/ Fault(u)
    /\ Goto(u, "undo")
    /\ UNCHANGED <<dbVars, storageVars, localVars, contended, stray>>

\* Faulty variant: what could not be recorded stays on the disk.
UndoNothing(u) ==
    /\ pc[u] = "undo"
    /\ Goto(u, "failed")
    /\ UNCHANGED <<dbVars, storageVars, localVars, historyVars>>

\* storage.Delete(key), then 500.
Undo(u) ==
    /\ pc[u] = "undo"
    /\ RemoveArtifact(key(u)) /\ Goto(u, "failed")
    /\ UNCHANGED <<dbVars, localVars, faulted, contended>>

\* storage.PublicURL; a Play push or retention follows.
SignURL(u) ==
    /\ pc[u] = "sign"
    /\ Goto(u, IF form[u].chan = "play" THEN "push" ELSE "keep")
    /\ UNCHANGED <<dbVars, storageVars, localVars, historyVars>>

\* A URL to the bucket has to be signed, which may fail: 500, and neither a
\* push nor retention, though the release stays.
SignFails(u) ==
    /\ pc[u] = "sign" /\ OnS3
    /\ Goto(u, "unsigned")
    /\ UNCHANGED <<dbVars, storageVars, localVars, historyVars>>

\* publishToPlay succeeds, or reports an error, or says Play is not enabled
\* (which is stored as an error too).
Push(u) ==
    /\ pc[u] = "push"
    /\ \E outcome \in {"ok", "error"} : pushed' = [pushed EXCEPT ![u] = outcome]
    /\ Goto(u, "setplay")
    /\ UNCHANGED <<dbVars, storageVars, form, code, keep, todo, victim, historyVars>>

\* Faulty variant: only a failed push is stored.
SetPlayErrors(u) ==
    /\ pc[u] = "setplay"
    /\ rows' = IF rows[code[u]] = NoRow \/ pushed[u] = "ok" THEN rows
               ELSE [rows EXCEPT ![code[u]].play = pushed[u]]
    /\ Goto(u, "created")
    /\ UNCHANGED <<override, hubKeep, storageVars, localVars, historyVars>>

\* setPlay updates by version code; no row matching is no error.
SetPlay(u) ==
    /\ pc[u] = "setplay"
    /\ rows' = IF rows[code[u]] = NoRow THEN rows
               ELSE [rows EXCEPT ![code[u]].play = pushed[u]]
    /\ Goto(u, "created")
    /\ UNCHANGED <<override, hubKeep, storageVars, localVars, historyVars>>

\* A failed update is only logged.
SetPlayFault(u) ==
    /\ pc[u] = "setplay"
    /\ Goto(u, "created") /\ Fault(u)
    /\ UNCHANGED <<dbVars, storageVars, localVars, contended, stray>>

-----------------------------------------------------------------------------
(* Retention                                                               *)

\* pruneConfig: the override the upload read when it began, else the
\* hub-wide setting as it is now; unset means keep everything.
PruneKeep(u) ==
    LET setting == IF keep[u] # Unset THEN keep[u] ELSE hubKeep
    IN  IF setting = Unset THEN 0 ELSE setting

\* Faulty variant: the setting is read over and over.
ReadKeepAgain(u) ==
    /\ pc[u] = "keep"
    /\ keep' = [keep EXCEPT ![u] = PruneKeep(u)]
    /\ UNCHANGED <<dbVars, storageVars, pc, form, code, pushed, todo, victim, historyVars>>

ReadKeep(u) ==
    /\ pc[u] = "keep"
    /\ keep' = [keep EXCEPT ![u] = PruneKeep(u)]
    /\ Goto(u, IF PruneKeep(u) = 0 THEN "created" ELSE "list")
    /\ UNCHANGED <<dbVars, storageVars, form, code, pushed, todo, victim, historyVars>>

\* The hub-wide setting cannot be read: keep everything.
ReadKeepFault(u) ==
    /\ pc[u] = "keep" /\ keep[u] = Unset
    /\ keep' = [keep EXCEPT ![u] = 0]
    /\ Goto(u, "created") /\ Fault(u)
    /\ UNCHANGED <<dbVars, storageVars, form, code, pushed, todo, victim, contended, stray>>

\* Faulty variants: one release too many is kept; the list is ascending.
BeyondByOne(n) == {c \in Direct : Cardinality({d \in Direct : d > c}) > n}
BeyondOldest(n) == {c \in Direct : Cardinality({d \in Direct : d < c}) >= n}

\* rels[keep:] of the direct releases, newest first.
Beyond(n) == {c \in Direct : Cardinality({d \in Direct : d > c}) >= n}

\* When it has deleted its last release a request answers.
Answer(r) == IF r \in Upload THEN "created" ELSE "deleted"
NextStep(r, left) == IF left = {} THEN Answer(r) ELSE "find"

ListReleases(u) ==
    /\ pc[u] = "list"
    /\ keep[u] <= Cardinality(Direct)
    /\ todo' = [todo EXCEPT ![u] = Beyond(keep[u])]
    /\ Goto(u, NextStep(u, Beyond(keep[u])))
    /\ UNCHANGED <<dbVars, storageVars, form, code, keep, pushed, victim, historyVars>>

\* rels[keep:] with fewer than keep releases: the handler panics and
\* net/http drops the connection.
ListPanics(u) ==
    /\ pc[u] = "list"
    /\ keep[u] > Cardinality(Direct)
    /\ Goto(u, "aborted")
    /\ UNCHANGED <<dbVars, storageVars, localVars, historyVars>>

ListFault(u) ==
    /\ pc[u] = "list"
    /\ Goto(u, "created") /\ Fault(u)
    /\ UNCHANGED <<dbVars, storageVars, localVars, contended, stray>>

-----------------------------------------------------------------------------
(* Deleting: deleteRelease, called for each release to prune (newest       *)
(* first) and once by a delete request                                     *)

Current(r, c) == c \in todo[r] /\ \A d \in todo[r] : d <= c

\* Done with release c: go on to the next one.
Proceed(r, c) ==
    /\ todo' = [todo EXCEPT ![r] = @ \ {c}]
    /\ victim' = [victim EXCEPT ![r] = NoName]
    /\ Goto(r, NextStep(r, todo[r] \ {c}))

\* A delete request ends without having deleted anything.
GiveUp(r, answer) ==
    /\ todo' = [todo EXCEPT ![r] = {}]
    /\ victim' = [victim EXCEPT ![r] = NoName]
    /\ Goto(r, answer)

\* The row is read for its file name.
Find(r, c) ==
    /\ pc[r] = "find" /\ Current(r, c)
    /\ rows[c] # NoRow
    /\ victim' = [victim EXCEPT ![r] = rows[c].name]
    /\ Goto(r, "unrow")
    /\ UNCHANGED <<dbVars, storageVars, form, code, keep, pushed, todo, historyVars>>

\* No row, or no answer.  Pruning counts it as done, the API says 404; the
\* UI handler calls Error() on a nil error and panics.
FindNothing(r, c) ==
    /\ pc[r] = "find" /\ Current(r, c)
    /\ \/ rows[c] = NoRow /\ UNCHANGED faulted
       \/ Fault(r)
    /\ \/ r \in Upload /\ Proceed(r, c)
       \/ /\ r \in Deletion
          /\ \E answer \in {"notfound", "aborted"} : GiveUp(r, answer)
    /\ UNCHANGED <<dbVars, storageVars, form, code, keep, pushed, contended, stray>>

\* DELETE ... WHERE version_code = c, whatever release has that code by now.
DeleteRow(r, c) ==
    /\ pc[r] = "unrow" /\ Current(r, c)
    /\ rows' = [rows EXCEPT ![c] = NoRow]
    /\ Goto(r, "unfile")
    /\ UNCHANGED <<override, hubKeep, storageVars, localVars, historyVars>>

DeleteRowFault(r, c) ==
    /\ pc[r] = "unrow" /\ Current(r, c)
    /\ \/ r \in Upload /\ Proceed(r, c)
       \/ r \in Deletion /\ GiveUp(r, "failed")
    /\ Fault(r)
    /\ UNCHANGED <<dbVars, storageVars, form, code, keep, pushed, contended, stray>>

DeleteFile(r, c) ==
    /\ pc[r] = "unfile" /\ Current(r, c)
    /\ RemoveArtifact(<<c, victim[r]>>)
    /\ Proceed(r, c)
    /\ UNCHANGED <<dbVars, form, code, keep, pushed, faulted, contended>>

\* Faulty variant: the channel is not checked.
DeleteCheckAny(d, c) ==
    /\ pc[d] = "idle"
    /\ rows[c] # NoRow
    /\ todo' = [todo EXCEPT ![d] = {c}]
    /\ Goto(d, "find")
    /\ UNCHANGED <<dbVars, storageVars, form, code, keep, pushed, victim, historyVars>>

\* A delete request looks the release up and refuses any but a direct one.
DeleteCheck(d, c) ==
    /\ pc[d] = "idle"
    /\ rows[c] # NoRow /\ rows[c].chan = "direct"
    /\ todo' = [todo EXCEPT ![d] = {c}]
    /\ Goto(d, "find")
    /\ UNCHANGED <<dbVars, storageVars, form, code, keep, pushed, victim, historyVars>>

DeleteRefused(d, c) ==
    /\ pc[d] = "idle"
    /\ \/ rows[c] = NoRow /\ Goto(d, "notfound") /\ UNCHANGED faulted
       \/ /\ rows[c] # NoRow /\ rows[c].chan # "direct"
          /\ Goto(d, "badchannel") /\ UNCHANGED faulted
       \/ Goto(d, "notfound") /\ Fault(d)       \* any error reads as 404
    /\ UNCHANGED <<dbVars, storageVars, localVars, contended, stray>>

-----------------------------------------------------------------------------
(* Settings, crashes, and the whole                                        *)

\* handleRetentionUI; parseKeep admits "" and 0 .. 10000.
SetPruneKeep ==
    /\ \E s \in Settings : s[2] = hubKeep /\ override' = s[1]
    /\ UNCHANGED <<rows, hubKeep, storageVars, pc, localVars, historyVars>>

\* handleSettings, which has no upper limit.
SetHubKeep ==
    /\ \E s \in Settings : s[1] = override /\ hubKeep' = s[2]
    /\ UNCHANGED <<rows, override, storageVars, pc, localVars, historyVars>>

\* The process dies and restarts: the database and the disk stay, the
\* requests in flight are gone.
Crash ==
    /\ \E r \in Request : Active(r)
    /\ pc' = [r \in Request |-> IF Active(r) THEN "lost" ELSE pc[r]]
    /\ Store!CloseAll
    /\ todo' = [r \in Request |-> {}]
    /\ victim' = [r \in Request |-> NoName]
    /\ UNCHANGED <<dbVars, form, code, keep, pushed, historyVars>>

\* The body is in, or will not come.
Receive(u) == Accept(u) \/ Conflict(u) \/ AcceptFails(u)

UploadStep(u) ==
    \/ SaveCreate(u) \/ SaveWrite(u) \/ SaveRename(u) \/ SaveFails(u)
    \/ SavePut(u) \/ SaveHead(u) \/ BucketFails(u)
    \/ CreateRelease(u) \/ CreateReleaseFails(u) \/ Undo(u)
    \/ SignURL(u) \/ SignFails(u) \/ Push(u) \/ SetPlay(u) \/ SetPlayFault(u)
    \/ ReadKeep(u) \/ ReadKeepFault(u)
    \/ ListReleases(u) \/ ListPanics(u) \/ ListFault(u)

DeleteStep(r) ==
    \E c \in Code :
        \/ Find(r, c) \/ FindNothing(r, c)
        \/ DeleteRow(r, c) \/ DeleteRowFault(r, c) \/ DeleteFile(r, c)

Next ==
    \/ \E u \in Upload : Begin(u) \/ Receive(u) \/ UploadStep(u)
    \/ \E d \in Deletion, c \in Code : DeleteCheck(d, c) \/ DeleteRefused(d, c)
    \/ \E r \in Request : DeleteStep(r)
    \/ SetPruneKeep \/ SetHubKeep
    \/ Crash

Spec == Init /\ [][Next]_vars
=============================================================================
