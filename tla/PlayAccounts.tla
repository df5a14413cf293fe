---------------------------- MODULE PlayAccounts ----------------------------
(***************************************************************************)
(* The hub-wide Play service accounts and the platforms linked to them:    *)
(* storing or rotating an account (upsertPlayAccountFromRequest), switching *)
(* a platform on or off (handleApiSetPlay and its UI twin), removing an    *)
(* account (API and UI), and a push that looks its account up.             *)
(*                                                                         *)
(* A worker is a request in flight; when it has answered it is idle and    *)
(* takes another.  Every step is one SQL statement, on whatever connection *)
(* of the pool is free: db.Open switches foreign keys on for one of them.  *)
(* Accounts are stored under the secret key of the environment, which may  *)
(* be another one after a restart: the email of an account is inside.      *)
(***************************************************************************)
EXTENDS Integers, FiniteSets, FiniteSetsExt

CONSTANTS
    Worker,         \* requests in flight at once
    Platform,
    Email,          \* client_email of a service account
    MaxId,          \* bound: accounts ever stored
    ForeignKeys,    \* what PRAGMA foreign_keys may be on a connection
    Secret,         \* values of RELEASE_HUB_SECRET_KEY
    NoEmail, NoPlatform

Id   == 1 .. MaxId
NoId == 0

ASSUME AccountsAssumption ==
    /\ MaxId \in Nat \ {0}
    /\ ForeignKeys \subseteq BOOLEAN /\ ForeignKeys # {}
    /\ NoEmail \notin Email /\ NoPlatform \notin Platform /\ "plain" \notin Secret

\* What credentials are stored under: a secret, or none.
Under == Secret \cup {"plain"}

VARIABLES
    secret,     \* the secret of the running process; "plain" without
    accounts,   \* table play_accounts, by id: the email, or NoEmail
    sealed,     \* what the credentials of account id were stored under
    lastId,     \* its AUTOINCREMENT counter
    enabled,    \* app_platforms.play_enabled
    link,       \* app_platforms.play_account_id, or NoId
    pc,
    plat, email, target,    \* what a request works on
    stored,     \* history: the email account id was stored with
    granted,    \* history: emails a platform was switched on with
    muddled,    \* history: emails stored by requests that overlapped, or
                \* stored by one that could not list the accounts, or not
                \* read one of the email's
    lost,       \* history: emails one of whose accounts was removed, or whose
                \* storing failed or died
    severed     \* history: platforms that lost their account to a rotation or
                \* were linked to an account that was going or gone

hubVars     == <<secret, accounts, sealed, lastId, enabled, link>>
localVars   == <<plat, email, target>>
historyVars == <<stored, granted, muddled, lost, severed>>
vars == <<hubVars, pc, localVars, historyVars>>

Storing  == {"list", "drop", "insert"}
Removing == {"check", "clear", "remove"}
Step     == {"idle", "look", "link", "creds"} \cup Storing \cup Removing

TypeOK ==
    /\ accounts \in [Id -> Email \cup {NoEmail}]
    /\ secret \in Under /\ sealed \in [Id -> Under]
    /\ lastId \in {NoId} \cup Id
    /\ enabled \in [Platform -> BOOLEAN]
    /\ link \in [Platform -> {NoId} \cup Id]
    /\ pc \in [Worker -> Step]
    /\ plat \in [Worker -> Platform \cup {NoPlatform}]
    /\ email \in [Worker -> Email \cup {NoEmail}]
    /\ target \in [Worker -> {NoId} \cup Id]
    /\ stored \in [Id -> Email \cup {NoEmail}]
    /\ granted \in [Platform -> SUBSET Email]
    /\ muddled \subseteq Email /\ lost \subseteq Email
    /\ severed \subseteq Platform

Init ==
    /\ accounts = [i \in Id |-> NoEmail] /\ lastId = NoId
    /\ secret \in Under /\ sealed = [i \in Id |-> "plain"]
    /\ enabled = [p \in Platform |-> FALSE] /\ link = [p \in Platform |-> NoId]
    /\ pc = [w \in Worker |-> "idle"]
    /\ plat = [w \in Worker |-> NoPlatform]
    /\ email = [w \in Worker |-> NoEmail]
    /\ target = [w \in Worker |-> NoId]
    /\ stored = accounts
    /\ granted = [p \in Platform |-> {}]
    /\ muddled = {} /\ lost = {} /\ severed = {}

-----------------------------------------------------------------------------
(* Vocabulary                                                              *)

Present == {i \in Id : accounts[i] # NoEmail}
Of(e)   == {i \in Present : accounts[i] = e}

\* playEmail sees the email of these; of the others it sees "".
Legible == {i \in Present : sealed[i] \in {secret, "plain"}}

Linked(i) == {p \in Platform : link[p] = i}

\* Faulty variant: platform and email are mixed up.
StartSwapped(w, step, p, e, i) ==
    /\ pc[w] = "idle"
    /\ pc' = [pc EXCEPT ![w] = step]
    /\ plat' = [plat EXCEPT ![w] = e]
    /\ email' = [email EXCEPT ![w] = p]
    /\ target' = [target EXCEPT ![w] = i]
    /\ UNCHANGED <<hubVars, stored, granted, lost, severed>>

\* A request of platform p (or of none) about email e (or none) and account i
\* (or none) goes on at the given step.
Start(w, step, p, e, i) ==
    /\ pc[w] = "idle"
    /\ pc' = [pc EXCEPT ![w] = step]
    /\ plat' = [plat EXCEPT ![w] = p]
    /\ email' = [email EXCEPT ![w] = e]
    /\ target' = [target EXCEPT ![w] = i]
    /\ UNCHANGED <<hubVars, stored, granted, lost, severed>>

Goto(w, step) == pc' = [pc EXCEPT ![w] = step]

\* The request answers.
Answer(w) ==
    /\ Goto(w, "idle")
    /\ plat' = [plat EXCEPT ![w] = NoPlatform]
    /\ email' = [email EXCEPT ![w] = NoEmail]
    /\ target' = [target EXCEPT ![w] = NoId]

\* DELETE FROM play_accounts: ON DELETE SET NULL on the platforms' links, if
\* the connection enforces foreign keys.
DeleteAccount(i, fk) ==
    /\ accounts' = [accounts EXCEPT ![i] = NoEmail]
    /\ link' = [p \in Platform |-> IF fk /\ link[p] = i THEN NoId ELSE link[p]]

-----------------------------------------------------------------------------
(* Storing or rotating an account                                          *)

\* POST /api/play-accounts and /settings/play, or a key uploaded on the page
\* of platform p.
StartStore(w, e, p) ==
    /\ Start(w, "list", p, e, NoId)
    /\ muddled' = IF \E v \in Worker : pc[v] \in Storing /\ email[v] = e
                  THEN muddled \cup {e} ELSE muddled

\* Faulty variant: an account of the same email is not looked for.
ListBlind(w) ==
    /\ pc[w] = "list" /\ Goto(w, "insert")
    /\ UNCHANGED <<hubVars, localVars, historyVars>>

\* The first account that shows the email is the one to replace; one stored
\* under another secret shows none.
List(w) ==
    LET shown == Of(email[w]) \cap Legible
    IN  /\ pc[w] = "list"
        /\ \/ shown = {} /\ Goto(w, "insert") /\ UNCHANGED target
           \/ \E i \in shown :
                /\ \A j \in shown : i <= j
                /\ Goto(w, "drop") /\ target' = [target EXCEPT ![w] = i]
        /\ muddled' = IF Of(email[w]) \subseteq Legible THEN muddled ELSE muddled \cup {email[w]}
        /\ UNCHANGED <<hubVars, plat, email, stored, granted, lost, severed>>

\* mustListPlayAccounts turns an error into an empty list.
ListFault(w) ==
    /\ pc[w] = "list" /\ Goto(w, "insert")
    /\ muddled' = muddled \cup {email[w]}
    /\ UNCHANGED <<hubVars, localVars, stored, granted, lost, severed>>

\* Faulty variant: the old account goes and nothing comes.
DropOnly(w) ==
    /\ pc[w] = "drop" /\ Answer(w)
    /\ \E fk \in ForeignKeys : DeleteAccount(target[w], fk)
    /\ severed' = severed \cup Linked(target[w])
    /\ UNCHANGED <<secret, sealed, lastId, enabled, stored, granted, muddled, lost>>

\* The old account goes first, without the platforms being switched off.
Drop(w) ==
    /\ pc[w] = "drop" /\ Goto(w, "insert")
    /\ \E fk \in ForeignKeys : DeleteAccount(target[w], fk)
    /\ severed' = severed \cup Linked(target[w])
    /\ UNCHANGED <<secret, sealed, lastId, enabled, localVars, stored, granted, muddled, lost>>

\* Faulty variant: INTEGER PRIMARY KEY without AUTOINCREMENT takes the id
\* after the largest there is.
NextIdReused == Max({NoId} \cup Present) + 1

\* An INSERT takes the id after the largest there ever was.
NextId == lastId + 1

Insert(w) ==
    /\ pc[w] = "insert" /\ NextId \in Id        \* bound
    /\ accounts' = [accounts EXCEPT ![NextId] = email[w]]
    /\ sealed' = [sealed EXCEPT ![NextId] = secret]
    /\ lastId' = NextId
    /\ stored' = [stored EXCEPT ![NextId] = email[w]]
    /\ IF plat[w] = NoPlatform
       THEN Answer(w)
       ELSE /\ Goto(w, "link") /\ target' = [target EXCEPT ![w] = NextId]
            /\ UNCHANGED <<plat, email>>
    /\ UNCHANGED <<secret, enabled, link, granted, muddled, lost, severed>>

\* The old account cannot be deleted, or the new one not encrypted (a hub
\* without a secret may refuse to) or inserted: what was done stays done.
StoreFails(w) ==
    /\ pc[w] \in {"drop", "insert"} /\ Answer(w)
    /\ lost' = lost \cup {email[w]}
    /\ UNCHANGED <<hubVars, stored, granted, muddled, severed>>

-----------------------------------------------------------------------------
(* Switching a platform on and off                                         *)

\* account=<id>; the request learns the email when it looks the account up.
StartEnable(w, p, i) == Start(w, "look", p, NoEmail, i) /\ UNCHANGED muddled

Look(w) ==
    /\ pc[w] = "look"
    /\ target[w] \in Present
    /\ email' = [email EXCEPT ![w] = accounts[target[w]]]
    /\ Goto(w, "link")
    /\ UNCHANGED <<hubVars, plat, target, historyVars>>

\* UPDATE app_platforms SET play_enabled = 1, play_account_id = ...: the
\* constraint refuses an account that is gone, if it is enforced.
SetPlay(w, fk) ==
    /\ fk => target[w] \in Present
    /\ enabled' = [enabled EXCEPT ![plat[w]] = TRUE]
    /\ link' = [link EXCEPT ![plat[w]] = target[w]]

Link(w) ==
    /\ pc[w] = "link" /\ Answer(w)
    /\ \E fk \in ForeignKeys : SetPlay(w, fk)
    /\ granted' = [granted EXCEPT ![plat[w]] = @ \cup {email[w]}]
    /\ severed' =
        IF \/ target[w] \notin Present
           \/ \E v \in Worker : pc[v] = "remove" /\ target[v] = target[w]
        THEN severed \cup {plat[w]} ELSE severed \ {plat[w]}
    /\ UNCHANGED <<secret, accounts, sealed, lastId, stored, muddled, lost>>

\* An unknown account, a violated constraint or a failed statement.
EnableFails(w) ==
    /\ pc[w] \in {"look", "link"} /\ Answer(w)
    /\ UNCHANGED <<hubVars, historyVars>>

\* enable=false is a single statement.
Disable(p) ==
    /\ enabled' = [enabled EXCEPT ![p] = FALSE]
    /\ link' = [link EXCEPT ![p] = NoId]
    /\ severed' = severed \ {p}
    /\ UNCHANGED <<secret, accounts, sealed, lastId, pc, localVars,
                   stored, granted, muddled, lost>>

-----------------------------------------------------------------------------
(* Removing an account                                                     *)

\* The API looks the account up first, the Settings page does not.
StartRemove(w, i) ==
    /\ \E step \in {"check", "clear"} : Start(w, step, NoPlatform, NoEmail, i)
    /\ UNCHANGED muddled

Check(w) ==
    /\ pc[w] = "check" /\ target[w] \in Present
    /\ Goto(w, "clear")
    /\ UNCHANGED <<hubVars, localVars, historyVars>>

\* Faulty variant: only the link is cleared.
ClearLinks(w) ==
    /\ pc[w] = "clear" /\ Goto(w, "remove")
    /\ link' = [p \in Platform |-> IF link[p] = target[w] THEN NoId ELSE link[p]]
    /\ UNCHANGED <<secret, accounts, sealed, lastId, enabled, localVars, historyVars>>

\* The flags are cleared before the foreign key clears the links.
Clear(w) ==
    /\ pc[w] = "clear" /\ Goto(w, "remove")
    /\ enabled' = [p \in Platform |-> enabled[p] /\ link[p] # target[w]]
    /\ UNCHANGED <<secret, accounts, sealed, lastId, link, localVars, historyVars>>

Remove(w) ==
    /\ pc[w] = "remove" /\ Answer(w)
    /\ \E fk \in ForeignKeys : DeleteAccount(target[w], fk)
    /\ lost' = lost \cup ({stored[target[w]]} \cap Email)
    /\ UNCHANGED <<secret, sealed, lastId, enabled, stored, granted, muddled, severed>>

RemoveFails(w) ==
    /\ pc[w] \in Removing /\ Answer(w)
    /\ UNCHANGED <<hubVars, historyVars>>

-----------------------------------------------------------------------------
(* Using an account, and the whole                                         *)

\* A push, a preflight, an invitation of testers or a listing of tracks reads
\* the platform row; without both flag and link it goes no further.
StartUse(w, p) ==
    /\ enabled[p] /\ link[p] # NoId
    /\ Start(w, "creds", p, NoEmail, link[p])
    /\ UNCHANGED muddled

\* playAccountCreds: the account is read by the link remembered, or is gone, or
\* does not open under the secret.
Use(w) ==
    /\ pc[w] = "creds" /\ Answer(w)
    /\ UNCHANGED <<hubVars, historyVars>>

\* The process stops and is started again, perhaps with another secret.
Crash ==
    /\ pc' = [w \in Worker |-> "idle"]
    /\ plat' = [w \in Worker |-> NoPlatform]
    /\ email' = [w \in Worker |-> NoEmail]
    /\ target' = [w \in Worker |-> NoId]
    /\ lost' = lost \cup {e \in Email : \E w \in Worker : pc[w] \in Storing /\ email[w] = e}
    /\ secret' \in Under
    /\ UNCHANGED <<accounts, sealed, lastId, enabled, link, stored, granted, muddled, severed>>

Next ==
    \/ \E w \in Worker :
        \/ \E e \in Email, p \in Platform \cup {NoPlatform} : StartStore(w, e, p)
        \/ List(w) \/ ListFault(w) \/ Drop(w) \/ Insert(w) \/ StoreFails(w)
        \/ \E p \in Platform, i \in Id : StartEnable(w, p, i)
        \/ Look(w) \/ Link(w) \/ EnableFails(w)
        \/ \E i \in Id : StartRemove(w, i)
        \/ Check(w) \/ Clear(w) \/ Remove(w) \/ RemoveFails(w)
        \/ \E p \in Platform : StartUse(w, p)
        \/ Use(w)
    \/ \E p \in Platform : Disable(p)
    \/ Crash

Spec == Init /\ [][Next]_vars

-----------------------------------------------------------------------------
(* Properties                                                              *)

\* A push uses a service account that somebody switched its platform on with,
\* however many accounts were removed and stored since the platform row was
\* read: ids are never given out again.
PushUsesGranted ==
    \A w \in Worker :
        (pc[w] = "creds" /\ target[w] \in Present)
        => accounts[target[w]] \in granted[plat[w]]

\* The newest key of an email is its only one, unless two requests stored the
\* email at once, or one could not list the accounts, or found one of the email
\* that no longer opens: upsertPlayAccountFromRequest does not recognise that.
OnlyNewestKey ==
    \A e \in Email \ muddled : \A i \in Of(e), j \in Id : stored[j] = e => j <= i

\* Rotating does not lose the account: an email stored keeps a key unless it
\* was removed, or a request storing it failed half way.
RotationKeepsAccount ==
    \A i \in Id :
        (/\ stored[i] # NoEmail /\ stored[i] \notin lost
         /\ \A w \in Worker : ~(pc[w] \in Storing /\ email[w] = stored[i]))
        => Of(stored[i]) # {}

\* Removing an account switches off what was linked to it: a platform is on
\* without an account only after a rotation took the account away, or when it
\* was switched on while the account was being removed.
OnHasAccount ==
    \A p \in Platform \ severed : enabled[p] => link[p] \in Present

\* "Same email re-uploaded = key rotation" (Settings page), and flags are cleared
\* before accounts are deleted so as not to "orphan play_enabled=1 rows"
\* (handleApiDeletePlayAccount): at rest, with no account removed and nothing
\* failed, a platform that is on has an account.
NeverOnWithoutAccount ==
    ((\A w \in Worker : pc[w] = "idle") /\ lost = {}) =>
        \A p \in Platform : enabled[p] => link[p] # NoId
=============================================================================
