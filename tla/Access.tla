------------------------------- MODULE Access -------------------------------
(***************************************************************************)
(* Who gets in: the first-run setup, logging in and out, the sessions that *)
(* requireUI checks and the API tokens that requireAPI checks (srv/auth.go *)
(* and the auth handlers of srv/handlers_ui.go and srv/api_apps.go).       *)
(*                                                                         *)
(* A request runs in a goroutine of its own, one SQL statement per step.   *)
(* A setup's name stands for the password it sets, the name of the request *)
(* that makes a session or an API token for its random value.  A client    *)
(* may present any session cookie or token it was ever given.              *)
(***************************************************************************)
EXTENDS Naturals, FiniteSets

CONSTANTS
    Setup,      \* POST /setup
    Login,      \* POST /login
    Logout,     \* GET /logout
    Form,       \* POST /tokens, a page behind requireUI
    Call,       \* POST /api/tokens, a call behind requireAPI
    TTL,        \* sessionTTL
    MaxTime,    \* bound: the clock stops here
    MaxFaults,  \* bound: how many requests have a statement fail
    MaxCrashes, \* bound: how often the hub restarts
    NoPassword, Guess,      \* no stored hash; a password nobody set
    NoSession, NoToken      \* what a request without, or with a made-up one, shows

Session == Setup \cup Login
Token   == Form \cup Call
Request == Session \cup Logout \cup Token

ASSUME AccessAssumption ==
    /\ Setup \cap Login = {} /\ Session \cap (Logout \cup Token) = {}
    /\ Logout \cap Token = {} /\ Form \cap Call = {}
    /\ TTL \in Nat /\ MaxTime \in Nat /\ MaxFaults \in Nat /\ MaxCrashes \in Nat
    /\ NoPassword \notin Setup /\ Guess \notin Setup \cup {NoPassword}
    /\ NoSession \notin Session /\ NoToken \notin Token

VARIABLES
    password,   \* config 'admin_password_hash'
    sessions,   \* table sessions: the rows
    expires,    \* their expires_at
    tokens,     \* table api_tokens
    clock,
    pc,
    shows,      \* the session or token the request presented
    issued,     \* session cookies given to a browser
    shown,      \* API tokens given to a client
    knew,       \* history: the password behind a session
    replaced,   \* history: passwords that were stored and overwritten
    ended,      \* history: sessions whose logout deleted the row
    faulted, crashes

dbVars  == <<password, sessions, expires, tokens>>
clients == <<issued, shown>>
history == <<knew, replaced, ended>>
vars == <<dbVars, clock, pc, shows, clients, history, faulted, crashes>>

-----------------------------------------------------------------------------
Done == {"closed", "badform", "failed", "in", "cookieless", "wrong", "out", "login",
         "unauthorized", "made", "lost"}
Step == {"idle", "hash", "session", "cookie", "make", "answer"}

TypeOK ==
    /\ password \in Setup \cup {NoPassword}
    /\ sessions \subseteq Session /\ expires \in [Session -> Nat]
    /\ tokens \subseteq Token
    /\ clock \in 0 .. MaxTime
    /\ pc \in [Request -> Step \cup Done]
    /\ shows \in [Token -> Session \cup Token \cup {NoSession, NoToken}]
    /\ issued \subseteq Session /\ shown \subseteq Token
    /\ knew \in [Session -> Setup \cup {NoPassword}]
    /\ replaced \subseteq Setup /\ ended \subseteq Session
    /\ faulted \subseteq Request /\ crashes \in 0 .. MaxCrashes

Init ==
    /\ password = NoPassword
    /\ sessions = {} /\ expires = [s \in Session |-> 0] /\ tokens = {}
    /\ clock = 0
    /\ pc = [r \in Request |-> "idle"]
    /\ shows = [t \in Token |-> IF t \in Form THEN NoSession ELSE NoToken]
    /\ issued = {} /\ shown = {}
    /\ knew = [s \in Session |-> NoPassword]
    /\ replaced = {} /\ ended = {} /\ faulted = {} /\ crashes = 0

Goto(r, step) == pc' = [pc EXCEPT ![r] = step]

\* A statement fails: the client is gone, or the database is busy.
Fault(r) ==
    /\ Cardinality(faulted \cup {r}) <= MaxFaults       \* bound
    /\ faulted' = faulted \cup {r}

Fails(r, from, answer) ==
    /\ pc[r] = from
    /\ Fault(r)
    /\ Goto(r, answer)
    /\ UNCHANGED <<dbVars, clock, shows, clients, history, crashes>>

-----------------------------------------------------------------------------
(* Setup, login and logout                                                 *)

hasPassword == password # NoPassword

\* Faulty variant: the form is served once, but posting it is not checked.
CheckSetupNever(s) ==
    /\ pc[s] = "idle"
    /\ Goto(s, "hash") \/ Goto(s, "badform")
    /\ UNCHANGED <<dbVars, clock, shows, clients, history, faulted, crashes>>

\* handleFirstRun up to bcrypt: a password that is set sends the client away,
\* and so does one that is too short or not repeated.
CheckSetup(s) ==
    /\ pc[s] = "idle"
    /\ IF hasPassword THEN Goto(s, "closed") ELSE Goto(s, "hash") \/ Goto(s, "badform")
    /\ UNCHANGED <<dbVars, clock, shows, clients, history, faulted, crashes>>

\* SetConfig is an upsert: it does not look at what is there by now.
StorePassword(s) ==
    /\ pc[s] = "hash"
    /\ password' = s
    /\ replaced' = IF hasPassword THEN replaced \cup {password} ELSE replaced
    /\ knew' = [knew EXCEPT ![s] = s]
    /\ Goto(s, "session")
    /\ UNCHANGED <<sessions, expires, tokens, clock, shows, clients, ended, faulted, crashes>>

\* Faulty variant: nothing stored compares equal to everything.
validPasswordUnset(word) == ~hasPassword \/ word = password

\* validPassword: no row, no way in.
validPassword(word) == hasPassword /\ word = password

CheckPassword(l) ==
    /\ pc[l] = "idle"
    /\ \E word \in Setup \cup {Guess} :
        IF validPassword(word)
        THEN /\ Goto(l, "session")
             /\ knew' = [knew EXCEPT ![l] = password]
        ELSE Goto(l, "wrong") /\ UNCHANGED knew
    /\ UNCHANGED <<dbVars, clock, shows, clients, replaced, ended, faulted, crashes>>

\* setSession: the row, then the cookie.
setSession(s) ==
    /\ pc[s] = "session"
    /\ sessions' = sessions \cup {s}
    /\ expires' = [expires EXCEPT ![s] = clock + TTL]
    /\ Goto(s, "cookie")
    /\ UNCHANGED <<password, tokens, clock, shows, clients, history, faulted, crashes>>

SetCookie(s) ==
    /\ pc[s] = "cookie"
    /\ issued' = issued \cup {s}
    /\ Goto(s, "in")
    /\ UNCHANGED <<dbVars, clock, shows, shown, history, faulted, crashes>>

\* Faulty variant: only the cookie is taken back.
LogOutKeepsRow(o) ==
    /\ pc[o] = "idle"
    /\ Goto(o, "out")
    /\ \E s \in issued : ended' = ended \cup {s}
    /\ UNCHANGED <<dbVars, clock, shows, clients, knew, replaced, faulted, crashes>>

\* clearSession deletes the row of the cookie there is, if any; when it cannot,
\* only the cookie goes.
LogOut(o) ==
    /\ pc[o] = "idle"
    /\ Goto(o, "out")
    /\ \/ \E s \in issued \cup {NoSession} :
            /\ sessions' = sessions \ {s}
            /\ ended' = ended \cup ({s} \ {NoSession})
            /\ UNCHANGED faulted
       \/ Fault(o) /\ UNCHANGED <<sessions, ended>>
    /\ UNCHANGED <<password, expires, tokens, clock, shows, clients, knew, replaced, crashes>>

-----------------------------------------------------------------------------
(* requireUI and requireAPI, and the handler behind each                   *)

validSession(s) == s \in sessions /\ clock < expires[s]

requireUI(f) ==
    /\ pc[f] = "idle"
    /\ \E s \in issued \cup {NoSession} :
        /\ shows' = [shows EXCEPT ![f] = s]
        /\ Goto(f, IF validSession(s) THEN "make" ELSE "login")
    /\ UNCHANGED <<dbVars, clock, clients, history, faulted, crashes>>

\* The token is looked up by its hash; noting its use may fail unnoticed.
requireAPI(c) ==
    /\ pc[c] = "idle"
    /\ \E t \in shown \cup {NoToken} :
        /\ shows' = [shows EXCEPT ![c] = t]
        /\ Goto(c, IF t \in tokens THEN "make" ELSE "unauthorized")
    /\ UNCHANGED <<dbVars, clock, clients, history, faulted, crashes>>

\* Faulty variant: the insert's error is dropped.
CreateTokenUnchecked(t) ==
    /\ pc[t] = "make"
    /\ tokens' = tokens \cup {t} \/ UNCHANGED tokens
    /\ Goto(t, "answer")
    /\ UNCHANGED <<password, sessions, expires, clock, shows, clients, history, faulted, crashes>>

\* Faulty variant: what the request presented is stored.
CreateTokenPresented(t) ==
    /\ pc[t] = "make"
    /\ tokens' = tokens \cup {shows[t]}
    /\ Goto(t, "answer")
    /\ UNCHANGED <<password, sessions, expires, clock, shows, clients, history, faulted, crashes>>

\* CreateApiToken stores the hash; the raw token then goes into the answer,
\* which is the only place it is ever seen.
CreateToken(t) ==
    /\ pc[t] = "make"
    /\ tokens' = tokens \cup {t}
    /\ Goto(t, "answer")
    /\ UNCHANGED <<password, sessions, expires, clock, shows, clients, history, faulted, crashes>>

ShowToken(t) ==
    /\ pc[t] = "answer"
    /\ shown' = shown \cup {t}
    /\ Goto(t, "made")
    /\ UNCHANGED <<dbVars, clock, shows, issued, history, faulted, crashes>>

-----------------------------------------------------------------------------
Tick ==
    /\ clock < MaxTime                  \* bound
    /\ clock' = clock + 1
    /\ UNCHANGED <<dbVars, pc, shows, clients, history, faulted, crashes>>

\* The hub dies and is started again; the database and the clients go on.
Crash ==
    /\ crashes < MaxCrashes             \* bound
    /\ crashes' = crashes + 1
    /\ pc' = [r \in Request |-> IF pc[r] \in Step \ {"idle"} THEN "lost" ELSE pc[r]]
    /\ UNCHANGED <<dbVars, clock, shows, clients, history, faulted>>

Next ==
    \/ \E s \in Setup : \/ CheckSetup(s) \/ StorePassword(s)
                        \/ Fails(s, "idle", "failed") \/ Fails(s, "hash", "failed")
                        \/ Fails(s, "session", "cookieless")
    \/ \E l \in Login : \/ CheckPassword(l)
                        \/ Fails(l, "idle", "wrong") \/ Fails(l, "session", "failed")
    \/ \E s \in Session : setSession(s) \/ SetCookie(s)
    \/ \E o \in Logout : LogOut(o)
    \/ \E f \in Form : requireUI(f) \/ Fails(f, "idle", "login")
    \/ \E c \in Call : requireAPI(c) \/ Fails(c, "idle", "unauthorized")
    \/ \E t \in Token : CreateToken(t) \/ ShowToken(t) \/ Fails(t, "make", "failed")
    \/ Tick \/ Crash

Spec == Init /\ [][Next]_vars

-----------------------------------------------------------------------------
(* Properties                                                              *)

\* Before somebody has set a password nobody is in: there is no session and no
\* API token, whichever requests overlap the setup (validPassword, requireUI).
NothingBeforeSetup == ~hasPassword => sessions = {} /\ tokens = {}

\* Behind every session is somebody who knew the stored password -- the one
\* stored now, or one that an overlapping setup has overwritten since
\* (handleLogin and handleFirstRun set the session in a later step).
SessionsEarned == \A s \in sessions : knew[s] \in replaced \cup {password}

Settled == hasPassword /\ \A s \in Setup : pc[s] # "hash"

\* "only works while no password exists" (handleFirstRun): once a password is
\* stored and no setup that saw none is on its way, no setup gets through any
\* more and the password is never replaced.  An overlapping one does replace it.
PasswordSettled == [][Settled => Settled' /\ password' = password]_vars

\* A page is only served for a session younger than its TTL that was not logged
\* out before the request was checked, and a session that ended never comes
\* back, restart or not (validSession, clearSession, setSession).
EndedStaysOut ==
    [][\A f \in Form : pc[f] = "idle" /\ pc'[f] = "make" =>
        /\ shows'[f] \in issued \ ended
        /\ clock < expires[shows'[f]]]_vars

\* Every API token a client was given works, for good: it was stored before it
\* was shown, and a failed insert shows none (handleCreateTokenUI,
\* handleApiCreateToken).  Every call that gets through shows such a token.
ShownTokensWork ==
    /\ shown \subseteq tokens
    /\ \A c \in Call : pc[c] \in {"make", "answer", "made"} => shows[c] \in shown
=============================================================================
