------------------------------ MODULE Signing ------------------------------
(***************************************************************************)
(* The platforms of one app and their signing keys: registering the app,   *)
(* adding a platform with its generated key, uploading, fetching and       *)
(* wiping a key, the certificate-name settings, and the secret key the     *)
(* stored keys are encrypted under (srv/api_apps.go, srv/signing.go,       *)
(* srv/secrets.go and their twins in srv/handlers_ui.go).                  *)
(*                                                                         *)
(* A request runs in a goroutine of its own, one statement per step, and   *)
(* pc holds the step it takes next.  Every keystore is new, so the request *)
(* that generates or uploads it stands for it.                             *)
(***************************************************************************)
EXTENDS Naturals, FiniteSets

CONSTANTS
    Register,   \* POST /api/apps and POST /apps
    Add,        \* POST .../platforms, API and UI
    Upload,     \* POST .../signing
    Wipe,       \* POST .../signing/delete
    Fetch,      \* GET .../signing, by FetchSigningForBuild
    Save,       \* POST /settings with all fields of the certificate name
    Fields,     \* how many fields the name has
    Secret,     \* values of RELEASE_HUB_SECRET_KEY
    Target,     \* the platform each request is about
    Envs,       \* bound: the environments the hub is started in
    MaxFaults,  \* bound: how many requests have a statement fail
    MaxRestarts,\* bound: how often the hub restarts
    NoSecret, NoKey, NoRow,
    Unset       \* a setting that was never saved

Request  == Register \cup Add \cup Upload \cup Wipe \cup Fetch \cup Save
Keystore == Add \cup Upload
Platform == {"android", "ios"}
Field    == 1 .. Fields
Env      == [secret : Secret \cup {NoSecret}, plain : BOOLEAN]

ASSUME SigningAssumption ==
    /\ Fields \in Nat \ {0} /\ MaxFaults \in Nat /\ MaxRestarts \in Nat
    /\ Target \in [Request -> Platform] /\ Envs \subseteq Env
    /\ NoSecret \notin Secret /\ "plain" \notin Secret
    /\ Upload \cap (Register \cup Add \cup Wipe \cup Fetch \cup Save) = {}
    /\ Add \cap (Register \cup Wipe \cup Fetch \cup Save) = {}
    /\ Wipe \cap (Register \cup Fetch \cup Save) = {}
    /\ Fetch \cap (Register \cup Save) = {} /\ Register \cap Save = {}
    /\ NoKey \notin Keystore

\* A stored column: what it holds and what it is encrypted under.
Blob  == [of : Keystore \cup {NoKey}, under : Secret \cup {"plain"}]
Blank == [of |-> NoKey, under |-> "plain"]      \* the empty string
Row   == [keystore : Blob, config : Blob, sha : Keystore \cup {NoKey}]
Keyless == [keystore |-> Blank, config |-> Blank, sha |-> NoKey]

ASSUME NoRowAssumption == NoRow \notin Row

VARIABLES
    registered, \* the app has its row
    row,        \* its rows of app_platforms, by platform
    settings,   \* config sign_org ... sign_country
    env,        \* the environment of the running process
    pc,
    at,         \* the name field a request has come to
    name,       \* the certificate name an add has read so far
    got,        \* what a fetch was answered: keystore and passwords
    faulted,    \* history: requests one of whose statements failed
    restarts,   \* history: restarts so far
    sealed,     \* history: the environment a keystore was stored in
    crossed     \* history: a save was cut short, or ran beside another save
                \* or beside the reading of a name

dbVars    == <<registered, row, settings>>
localVars == <<at, name, got>>
history   == <<restarts, sealed, crossed>>
vars == <<dbVars, env, pc, localVars, faulted, history>>

-----------------------------------------------------------------------------
(* Encryption (secrets.go)                                                 *)

\* encryptCreds refuses to store a secret it cannot encrypt, unless told to.
CanSeal(e) == e.secret # NoSecret \/ e.plain

\* Faulty variant: ALLOW_PLAINTEXT_CREDS is looked at first.
SealPlainFirst(k, e) == [of |-> k, under |-> IF e.plain THEN "plain" ELSE e.secret]

Seal(k, e) == [of |-> k, under |-> IF e.secret = NoSecret THEN "plain" ELSE e.secret]

\* decryptCreds: AES-GCM authenticates, so another key opens nothing.
Opens(b, e) == b.of # NoKey /\ b.under \in {"plain", e.secret}

-----------------------------------------------------------------------------
Answered == {"created", "keyed", "keyless", "stored", "wiped", "served", "none",
             "locked", "saved", "unknown", "conflict", "refused", "failed"}
Done == Answered \cup {"lost"}
Step == {"idle", "insert", "subject", "store", "put", "wipe", "save"}

TypeOK ==
    /\ registered \in BOOLEAN
    /\ row \in [Platform -> Row \cup {NoRow}]
    /\ settings \in [Field -> Save \cup {Unset}]
    /\ env \in Envs
    /\ pc \in [Request -> Step \cup Done]
    /\ at \in [Request -> 1 .. Fields + 1]
    /\ name \in [Add -> [Field -> Save \cup {Unset}]]
    /\ got \in [Fetch -> (Keystore \cup {NoKey}) \X (Keystore \cup {NoKey})]
    /\ faulted \subseteq Request /\ restarts \in 0 .. MaxRestarts
    /\ sealed \in [Keystore -> Env]
    /\ crossed \in BOOLEAN

Init ==
    /\ registered = FALSE
    /\ row = [p \in Platform |-> NoRow]
    /\ settings = [f \in Field |-> Unset]
    /\ env \in Envs
    /\ pc = [r \in Request |-> "idle"]
    /\ at = [r \in Request |-> 1]
    /\ name = [a \in Add |-> [f \in Field |-> Unset]]
    /\ got = [f \in Fetch |-> <<NoKey, NoKey>>]
    /\ faulted = {} /\ restarts = 0
    /\ sealed = [k \in Keystore |-> [secret |-> NoSecret, plain |-> FALSE]]
    /\ crossed = FALSE

Goto(r, step) == pc' = [pc EXCEPT ![r] = step]

\* A statement fails: the client is gone, or the database is busy.
Fault(r) ==
    /\ Cardinality(faulted \cup {r}) <= MaxFaults       \* bound
    /\ faulted' = faulted \cup {r}

\* Where a request fails: a read of the app or the platform is answered with
\* 404, an INSERT with 409, what follows with 500; but an add that has its row
\* answers 201 without a key.
Fails(r, from, answer) ==
    /\ pc[r] = from
    /\ Fault(r)
    /\ Goto(r, answer)
    /\ UNCHANGED <<dbVars, env, localVars, history>>

-----------------------------------------------------------------------------
(* Registering the app and adding a platform                               *)

\* CreateApp: UNIQUE(slug).
CreateApp(r) ==
    /\ pc[r] = "idle"
    /\ registered' = TRUE
    /\ Goto(r, IF registered THEN "conflict" ELSE "created")
    /\ UNCHANGED <<row, settings, env, localVars, faulted, history>>

\* appFromSlug
FindApp(a) ==
    /\ pc[a] = "idle"
    /\ Goto(a, IF registered THEN "insert" ELSE "unknown")
    /\ UNCHANGED <<dbVars, env, localVars, faulted, history>>

\* Faulty variant: no UNIQUE(app_id, platform), the row found is used.
AddPlatformAgain(a) ==
    /\ pc[a] = "insert"
    /\ row' = [row EXCEPT ![Target[a]] = IF @ = NoRow THEN Keyless ELSE @]
    /\ Goto(a, IF Target[a] = "android" THEN "subject" ELSE "created")
    /\ crossed' = (crossed \/ \E s \in Save : pc[s] = "save")
    /\ UNCHANGED <<registered, settings, env, localVars, faulted, restarts, sealed>>

\* addPlatform: UNIQUE(app_id, platform).  From here on others see the row,
\* which has no key yet.
AddPlatform(a) ==
    /\ pc[a] = "insert"
    /\ \/ /\ row[Target[a]] # NoRow
          /\ Goto(a, "conflict")
          /\ UNCHANGED <<row, crossed>>
       \/ /\ row[Target[a]] = NoRow
          /\ row' = [row EXCEPT ![Target[a]] = Keyless]
          /\ Goto(a, IF Target[a] = "android" THEN "subject" ELSE "created")
          /\ crossed' = (crossed \/ \E s \in Save : pc[s] = "save")
    /\ UNCHANGED <<registered, settings, env, localVars, faulted, restarts, sealed>>

\* subjectFromConfig reads one field per statement; a read that fails leaves
\* its field unset and nothing else happens.
ReadField(a) ==
    /\ pc[a] = "subject"
    /\ \/ /\ name' = [name EXCEPT ![a][at[a]] = settings[at[a]]]
          /\ UNCHANGED faulted
       \/ Fault(a) /\ UNCHANGED name
    /\ at' = [at EXCEPT ![a] = @ + 1]
    /\ IF at[a] = Fields THEN Goto(a, "store") ELSE UNCHANGED pc
    /\ UNCHANGED <<dbVars, env, got, history>>

\* Faulty variant: the passwords of the key before stay.
SetSigningKeepsConfig(p, k) ==
    row' = [row EXCEPT ![p] = [keystore |-> Seal(k, env), config |-> @.config, sha |-> k]]

\* SetSigningConfig, one UPDATE: keystore, passwords and hash together.
SetSigning(p, k) ==
    row' = [row EXCEPT ![p] = [keystore |-> Seal(k, env), config |-> Seal(k, env), sha |-> k]]

\* Faulty variant: the UPDATE names the id of the app, not of the platform.
StoreGeneratedElsewhere(a) ==
    /\ pc[a] = "store"
    /\ Goto(a, IF CanSeal(env) THEN "keyed" ELSE "keyless")
    /\ UNCHANGED <<dbVars, env, localVars, faulted, history>>

\* generateAndStoreSigning: the key is generated and encrypted, then stored
\* over whatever the row holds by now.  Without a secret the add answers 201
\* all the same.
StoreGenerated(a) ==
    /\ pc[a] = "store"
    /\ \/ /\ CanSeal(env)
          /\ SetSigning(Target[a], a)
          /\ sealed' = [sealed EXCEPT ![a] = env]
          /\ Goto(a, "keyed")
       \/ /\ ~CanSeal(env)
          /\ Goto(a, "keyless")
          /\ UNCHANGED <<row, sealed>>
    /\ UNCHANGED <<registered, settings, env, localVars, faulted, restarts, crossed>>

AddStep(a) ==
    \/ FindApp(a) \/ AddPlatform(a) \/ ReadField(a) \/ StoreGenerated(a)
    \/ Fails(a, "idle", "unknown") \/ Fails(a, "insert", "conflict") \/ Fails(a, "store", "keyless")

-----------------------------------------------------------------------------
(* Uploading, wiping and fetching a key                                    *)

\* platformFromRequest
Unknown(r) ==
    /\ pc[r] = "idle"
    /\ row[Target[r]] = NoRow
    /\ Goto(r, "unknown")
    /\ UNCHANGED <<dbVars, env, localVars, faulted, history>>

BeginUpload(u) ==
    /\ pc[u] = "idle"
    /\ row[Target[u]] # NoRow
    /\ Goto(u, IF CanSeal(env) THEN "put" ELSE "refused")
    /\ UNCHANGED <<dbVars, env, localVars, faulted, history>>

StoreUploaded(u) ==
    /\ pc[u] = "put"
    /\ SetSigning(Target[u], u)
    /\ sealed' = [sealed EXCEPT ![u] = env]
    /\ Goto(u, "stored")
    /\ UNCHANGED <<registered, settings, env, localVars, faulted, restarts, crossed>>

BeginWipe(w) ==
    /\ pc[w] = "idle"
    /\ row[Target[w]] # NoRow
    /\ Goto(w, "wipe")
    /\ UNCHANGED <<dbVars, env, localVars, faulted, history>>

WipeKey(w) ==
    /\ pc[w] = "wipe"
    /\ row' = [row EXCEPT ![Target[w]] = Keyless]
    /\ Goto(w, "wiped")
    /\ UNCHANGED <<registered, settings, env, localVars, faulted, history>>

\* One read of the row, decrypted and answered; FetchSigningForBuild writes
\* the body to a file and takes the passwords from the headers.
FetchKey(f) ==
    /\ pc[f] = "idle"
    /\ row[Target[f]] # NoRow
    /\ LET r == row[Target[f]] IN
       \/ /\ r.keystore.of = NoKey
          /\ Goto(f, "none") /\ UNCHANGED got
       \/ /\ r.keystore.of # NoKey
          /\ ~(Opens(r.keystore, env) /\ Opens(r.config, env))
          /\ Goto(f, "locked") /\ UNCHANGED got
       \/ /\ Opens(r.keystore, env) /\ Opens(r.config, env)
          /\ got' = [got EXCEPT ![f] = <<r.keystore.of, r.config.of>>]
          /\ Goto(f, "served")
    /\ UNCHANGED <<dbVars, env, at, name, faulted, history>>

-----------------------------------------------------------------------------
(* The certificate name                                                    *)

Naming(r) == pc[r] \in {"save", "subject"}

BeginSave(s) ==
    /\ pc[s] = "idle"
    /\ Goto(s, "save")
    /\ crossed' = (crossed \/ \E r \in Save \cup Add : Naming(r))
    /\ UNCHANGED <<dbVars, env, localVars, faulted, restarts, sealed>>

\* Faulty variant: one field too many.
SaveFieldPastEnd(s) ==
    /\ pc[s] = "save"
    /\ settings' = [settings EXCEPT ![at[s]] = s]
    /\ at' = [at EXCEPT ![s] = @ + 1]
    /\ IF at[s] > Fields THEN Goto(s, "saved") ELSE UNCHANGED pc
    /\ UNCHANGED <<registered, row, env, name, got, faulted, history>>

\* Faulty variant: the loop over the fields starts with the second.
SaveFieldSkipsFirst(s) ==
    /\ pc[s] = "save"
    /\ settings' = IF at[s] = 1 THEN settings ELSE [settings EXCEPT ![at[s]] = s]
    /\ at' = [at EXCEPT ![s] = @ + 1]
    /\ IF at[s] = Fields THEN Goto(s, "saved") ELSE UNCHANGED pc
    /\ UNCHANGED <<registered, row, env, name, got, faulted, history>>

\* handleSettings: one SetConfig per field, in the order they are read.
SaveField(s) ==
    /\ pc[s] = "save"
    /\ settings' = [settings EXCEPT ![at[s]] = s]
    /\ at' = [at EXCEPT ![s] = @ + 1]
    /\ IF at[s] = Fields THEN Goto(s, "saved") ELSE UNCHANGED pc
    /\ UNCHANGED <<registered, row, env, name, got, faulted, history>>

\* A statement fails and the fields saved before it stay.
SaveFails(s) ==
    /\ pc[s] = "save"
    /\ Fault(s)
    /\ Goto(s, "failed")
    /\ crossed' = TRUE
    /\ UNCHANGED <<dbVars, env, localVars, restarts, sealed>>

-----------------------------------------------------------------------------
\* The hub stops and is started again, perhaps with another environment.
Restart ==
    /\ restarts < MaxRestarts            \* bound
    /\ restarts' = restarts + 1
    /\ env' \in Envs
    /\ pc' = [r \in Request |-> IF pc[r] \in Step \ {"idle"} THEN "lost" ELSE pc[r]]
    /\ crossed' = (crossed \/ \E s \in Save : pc[s] = "save")
    /\ UNCHANGED <<dbVars, localVars, faulted, sealed>>

Next ==
    \/ \E r \in Register : CreateApp(r) \/ Fails(r, "idle", "conflict")
    \/ \E a \in Add : AddStep(a)
    \/ \E r \in Upload \cup Wipe \cup Fetch : Unknown(r) \/ Fails(r, "idle", "unknown")
    \/ \E u \in Upload : BeginUpload(u) \/ StoreUploaded(u) \/ Fails(u, "put", "failed")
    \/ \E w \in Wipe : BeginWipe(w) \/ WipeKey(w) \/ Fails(w, "wipe", "failed")
    \/ \E f \in Fetch : FetchKey(f)
    \/ \E s \in Save : BeginSave(s) \/ SaveField(s) \/ SaveFails(s)
    \/ Restart

Spec == Init /\ [][Next]_vars

\* An add's goroutine runs until it has answered.
FairSpec == Spec /\ \A a \in Add : WF_vars(AddStep(a))

-----------------------------------------------------------------------------
(* Properties                                                              *)

Held(p) == IF row[p] = NoRow THEN NoKey ELSE row[p].keystore.of

\* What a platform stores fits together: the passwords and the hash are those
\* of the keystore, all three from one request, whichever requests overlapped
\* (handleApiSetSigning, generateAndStoreSigning, handleApiDeleteSigning).
\* So does what a build was given.
KeyFitsPasswords ==
    /\ \A p \in Platform : row[p] # NoRow =>
        /\ row[p].config.of = row[p].keystore.of /\ row[p].sha = row[p].keystore.of
        /\ row[p].config.under = row[p].keystore.under
    /\ \A f \in Fetch : got[f][1] = got[f][2]

\* A stored key opens in every environment that has the secret of the process
\* that stored it, however often the hub was restarted with others meanwhile,
\* and, if that process had a secret, in no other (encryptCreds, decryptCreds;
\* README: losing the secret key is losing the stored keys).
OpensUnderItsSecret ==
    \A p \in Platform, e \in Envs : Held(p) # NoKey =>
        LET secret == sealed[Held(p)].secret
        IN  Opens(row[p].keystore, e) <=> secret \in {NoSecret, e.secret}

\* The adds of one platform that got past the INSERT.
Won(p) == {a \in Add : Target[a] = p /\ pc[a] \in {"subject", "store", "keyed", "keyless"}}

\* Two overlapping adds never generate two keys for a platform: one of them
\* gets the row and the other is told of the conflict (addPlatform).
OneGenerator == \A p \in Platform : \A a, b \in Won(p) : a = b

\* A generated key is replaced or removed by an upload or a wipe only ("the
\* generated key never rotates", README), and an uploaded one by those or by
\* the key that was being generated since before it was uploaded
\* (signing.go:186 overwrites what came in between).
KeyReplaced ==
    [][\A p \in Platform : Held(p) # NoKey /\ Held(p)' # Held(p) =>
        \/ \E r \in Upload \cup Wipe : Target[r] = p /\ pc[r] \in {"put", "wipe"} /\ pc'[r] # pc[r]
        \/ Held(p) \in Upload /\ \E a \in Won(p) : pc[a] = "store" /\ Held(p)' = a]_vars

\* Settings saved one after the other give certificates that carry the name
\* of one save, never a mixture: only a save beside another save, or beside
\* the generation, or one cut short can mix them (handleSettings writes and
\* subjectFromConfig reads field by field).
NameFromOneSave ==
    ~crossed => \A a \in Add \ faulted : pc[a] \in {"store", "keyed", "keyless"} =>
        \A f, g \in Field : name[a][f] = name[a][g]

\* An android platform gets its key: once its row is there the add stores one,
\* unless the process ends, a statement fails or there is no secret
\* (handleApiAddPlatform, handleAddPlatformUI).
AndroidGetsKey ==
    \A a \in Add :
        (pc[a] = "subject" /\ CanSeal(env))
            ~> (Held(Target[a]) = a \/ pc[a] = "lost" \/ a \in faulted)
=============================================================================
