---------------------------- MODULE AccessProofs ----------------------------
(***************************************************************************)
(* Proofs about Access, for any sets of requests, whatever the clock, the  *)
(* faults and the restarts: nobody is in before the setup, every session   *)
(* comes from a password that was stored, a settled password stays, a      *)
(* session that ended stays out, and a token that was shown works.         *)
(***************************************************************************)
EXTENDS Access, TLAPS

-----------------------------------------------------------------------------
(* The inductive invariant, in parts                                       *)

\* Without a password no request is past its check.
UnsetInv ==
    ~hasPassword =>
        /\ sessions = {} /\ issued = {} /\ tokens = {} /\ shown = {}
        /\ \A s \in Session : pc[s] \notin {"session", "cookie", "in"}
        /\ \A t \in Token : pc[t] \notin {"make", "answer", "made"}

\* A session follows its request, and an ended one is past all its steps.
SessionInv ==
    /\ \A s \in sessions : pc[s] \in {"cookie", "in", "lost"}
    /\ \A s \in issued : pc[s] = "in"
    /\ ended \subseteq issued \ sessions

\* Who is past the check knew a password that is or was stored.
KnewInv ==
    \A s \in Session :
        (s \in sessions \/ pc[s] \in {"session", "cookie"}) => knew[s] \in replaced \cup {password}

\* A token is stored before it is shown.
TokenInv ==
    /\ \A t \in Token : pc[t] = "answer" => t \in tokens
    /\ ShownTokensWork

IInv == TypeOK /\ UnsetInv /\ SessionInv /\ KnewInv /\ TokenInv

-----------------------------------------------------------------------------
\* The hub starts out empty.
LEMMA StartsAccessInvariant == Init => IInv
  BY AccessAssumption
  DEF Init, IInv, TypeOK, UnsetInv, SessionInv, KnewInv, TokenInv, ShownTokensWork,
      hasPassword, Step, Session, Token, Request

\* The steps that can fail, and what is answered then.
Failing == {"idle", "hash", "session", "make"}
Failure == {"failed", "cookieless", "wrong", "login", "unauthorized"}

\* Every step leaves the state well-typed.
LEMMA StepAccessTypes ==
    ASSUME TypeOK, Next
    PROVE  TypeOK'
<1> USE AccessAssumption
    DEF TypeOK, Goto, Step, Done, Failing, Failure, Session, Token, Request,
        dbVars, clients, history
<1>1. ASSUME NEW s \in Setup, CheckSetup(s) PROVE TypeOK'
  BY <1>1 DEF CheckSetup
<1>2. ASSUME NEW s \in Setup, StorePassword(s) PROVE TypeOK'
  BY <1>2 DEF StorePassword, hasPassword
<1>3. ASSUME NEW l \in Login, CheckPassword(l) PROVE TypeOK'
  BY <1>3 DEF CheckPassword, validPassword, hasPassword
<1>4. ASSUME NEW s \in Session, setSession(s) PROVE TypeOK'
  BY <1>4 DEF setSession
<1>5. ASSUME NEW s \in Session, SetCookie(s) PROVE TypeOK'
  BY <1>5 DEF SetCookie
<1>6. ASSUME NEW o \in Logout, LogOut(o) PROVE TypeOK'
  BY <1>6 DEF LogOut, Fault
<1>7. ASSUME NEW f \in Form, requireUI(f) PROVE TypeOK'
  BY <1>7 DEF requireUI, validSession
<1>8. ASSUME NEW c \in Call, requireAPI(c) PROVE TypeOK'
  BY <1>8 DEF requireAPI
<1>9. ASSUME NEW t \in Token, CreateToken(t) PROVE TypeOK'
  BY <1>9 DEF CreateToken
<1>10. ASSUME NEW t \in Token, ShowToken(t) PROVE TypeOK'
  BY <1>10 DEF ShowToken
<1>11. ASSUME NEW r \in Request, NEW from \in Failing, NEW answer \in Failure,
             Fails(r, from, answer) PROVE TypeOK'
  BY <1>11 DEF Fails, Fault
<1>12. ASSUME Tick PROVE TypeOK'
  BY <1>12 DEF Tick
<1>13. ASSUME Crash PROVE TypeOK'
  BY <1>13 DEF Crash
<1> QED
  BY <1>1, <1>2, <1>3, <1>4, <1>5, <1>6, <1>7, <1>8, <1>9, <1>10, <1>11, <1>12, <1>13 DEF Next

\* No step lets anybody in while there is no password.
LEMMA StepUnset ==
    ASSUME TypeOK, UnsetInv, SessionInv, TokenInv, Next
    PROVE  UnsetInv'
<1> USE AccessAssumption
    DEF TypeOK, Goto, Step, Done, Failing, Failure, Session, Token, Request,
        dbVars, clients, history, UnsetInv, SessionInv, TokenInv, ShownTokensWork, hasPassword
<1>1. ASSUME NEW s \in Setup, CheckSetup(s) PROVE UnsetInv'
  BY <1>1 DEF CheckSetup
<1>2. ASSUME NEW s \in Setup, StorePassword(s) PROVE UnsetInv'
  BY <1>2 DEF StorePassword, hasPassword
<1>3. ASSUME NEW l \in Login, CheckPassword(l) PROVE UnsetInv'
  BY <1>3 DEF CheckPassword, validPassword, hasPassword
<1>4. ASSUME NEW s \in Session, setSession(s) PROVE UnsetInv'
  BY <1>4 DEF setSession
<1>5. ASSUME NEW s \in Session, SetCookie(s) PROVE UnsetInv'
  BY <1>5 DEF SetCookie
<1>6. ASSUME NEW o \in Logout, LogOut(o) PROVE UnsetInv'
  BY <1>6 DEF LogOut, Fault
<1>7. ASSUME NEW f \in Form, requireUI(f) PROVE UnsetInv'
  BY <1>7 DEF requireUI, validSession
<1>8. ASSUME NEW c \in Call, requireAPI(c) PROVE UnsetInv'
  BY <1>8 DEF requireAPI
<1>9. ASSUME NEW t \in Token, CreateToken(t) PROVE UnsetInv'
  BY <1>9 DEF CreateToken
<1>10. ASSUME NEW t \in Token, ShowToken(t) PROVE UnsetInv'
  BY <1>10 DEF ShowToken
<1>11. ASSUME NEW r \in Request, NEW from \in Failing, NEW answer \in Failure,
             Fails(r, from, answer) PROVE UnsetInv'
  BY <1>11 DEF Fails, Fault
<1>12. ASSUME Tick PROVE UnsetInv'
  BY <1>12 DEF Tick
<1>13. ASSUME Crash PROVE UnsetInv'
  BY <1>13 DEF Crash
<1> QED
  BY <1>1, <1>2, <1>3, <1>4, <1>5, <1>6, <1>7, <1>8, <1>9, <1>10, <1>11, <1>12, <1>13 DEF Next

\* Sessions follow their requests, and an ended one stays ended.
LEMMA StepSession ==
    ASSUME TypeOK, SessionInv, Next
    PROVE  SessionInv'
<1> USE AccessAssumption
    DEF TypeOK, Goto, Step, Done, Failing, Failure, Session, Token, Request,
        dbVars, clients, history, SessionInv
<1>1. ASSUME NEW s \in Setup, CheckSetup(s) PROVE SessionInv'
  BY <1>1 DEF CheckSetup
<1>2. ASSUME NEW s \in Setup, StorePassword(s) PROVE SessionInv'
  BY <1>2 DEF StorePassword, hasPassword
<1>3. ASSUME NEW l \in Login, CheckPassword(l) PROVE SessionInv'
  BY <1>3 DEF CheckPassword, validPassword, hasPassword
<1>4. ASSUME NEW s \in Session, setSession(s) PROVE SessionInv'
  BY <1>4 DEF setSession
<1>5. ASSUME NEW s \in Session, SetCookie(s) PROVE SessionInv'
  BY <1>5 DEF SetCookie
<1>6. ASSUME NEW o \in Logout, LogOut(o) PROVE SessionInv'
  BY <1>6 DEF LogOut, Fault
<1>7. ASSUME NEW f \in Form, requireUI(f) PROVE SessionInv'
  BY <1>7 DEF requireUI, validSession
<1>8. ASSUME NEW c \in Call, requireAPI(c) PROVE SessionInv'
  BY <1>8 DEF requireAPI
<1>9. ASSUME NEW t \in Token, CreateToken(t) PROVE SessionInv'
  BY <1>9 DEF CreateToken
<1>10. ASSUME NEW t \in Token, ShowToken(t) PROVE SessionInv'
  BY <1>10 DEF ShowToken
<1>11. ASSUME NEW r \in Request, NEW from \in Failing, NEW answer \in Failure,
             Fails(r, from, answer) PROVE SessionInv'
  BY <1>11 DEF Fails, Fault
<1>12. ASSUME Tick PROVE SessionInv'
  BY <1>12 DEF Tick
<1>13. ASSUME Crash PROVE SessionInv'
  BY <1>13 DEF Crash
<1> QED
  BY <1>1, <1>2, <1>3, <1>4, <1>5, <1>6, <1>7, <1>8, <1>9, <1>10, <1>11, <1>12, <1>13 DEF Next

\* Who gets past a check knows the password that is stored then.
LEMMA StepKnew ==
    ASSUME TypeOK, UnsetInv, SessionInv, KnewInv, Next
    PROVE  KnewInv'
<1> USE AccessAssumption
    DEF TypeOK, Goto, Step, Done, Failing, Failure, Session, Token, Request,
        dbVars, clients, history, UnsetInv, SessionInv, KnewInv, hasPassword
<1>1. ASSUME NEW s \in Setup, CheckSetup(s) PROVE KnewInv'
  BY <1>1 DEF CheckSetup
<1>2. ASSUME NEW s \in Setup, StorePassword(s) PROVE KnewInv'
  BY <1>2 DEF StorePassword, hasPassword
<1>3. ASSUME NEW l \in Login, CheckPassword(l) PROVE KnewInv'
  BY <1>3 DEF CheckPassword, validPassword, hasPassword
<1>4. ASSUME NEW s \in Session, setSession(s) PROVE KnewInv'
  BY <1>4 DEF setSession
<1>5. ASSUME NEW s \in Session, SetCookie(s) PROVE KnewInv'
  BY <1>5 DEF SetCookie
<1>6. ASSUME NEW o \in Logout, LogOut(o) PROVE KnewInv'
  BY <1>6 DEF LogOut, Fault
<1>7. ASSUME NEW f \in Form, requireUI(f) PROVE KnewInv'
  BY <1>7 DEF requireUI, validSession
<1>8. ASSUME NEW c \in Call, requireAPI(c) PROVE KnewInv'
  BY <1>8 DEF requireAPI
<1>9. ASSUME NEW t \in Token, CreateToken(t) PROVE KnewInv'
  BY <1>9 DEF CreateToken
<1>10. ASSUME NEW t \in Token, ShowToken(t) PROVE KnewInv'
  BY <1>10 DEF ShowToken
<1>11. ASSUME NEW r \in Request, NEW from \in Failing, NEW answer \in Failure,
             Fails(r, from, answer) PROVE KnewInv'
  BY <1>11 DEF Fails, Fault
<1>12. ASSUME Tick PROVE KnewInv'
  BY <1>12 DEF Tick
<1>13. ASSUME Crash PROVE KnewInv'
  BY <1>13 DEF Crash
<1> QED
  BY <1>1, <1>2, <1>3, <1>4, <1>5, <1>6, <1>7, <1>8, <1>9, <1>10, <1>11, <1>12, <1>13 DEF Next

\* Tokens are stored first and never taken away.
LEMMA StepToken ==
    ASSUME TypeOK, TokenInv, Next
    PROVE  TokenInv'
<1> USE AccessAssumption
    DEF TypeOK, Goto, Step, Done, Failing, Failure, Session, Token, Request,
        dbVars, clients, history, TokenInv, ShownTokensWork
<1>1. ASSUME NEW s \in Setup, CheckSetup(s) PROVE TokenInv'
  BY <1>1 DEF CheckSetup
<1>2. ASSUME NEW s \in Setup, StorePassword(s) PROVE TokenInv'
  BY <1>2 DEF StorePassword, hasPassword
<1>3. ASSUME NEW l \in Login, CheckPassword(l) PROVE TokenInv'
  BY <1>3 DEF CheckPassword, validPassword, hasPassword
<1>4. ASSUME NEW s \in Session, setSession(s) PROVE TokenInv'
  BY <1>4 DEF setSession
<1>5. ASSUME NEW s \in Session, SetCookie(s) PROVE TokenInv'
  BY <1>5 DEF SetCookie
<1>6. ASSUME NEW o \in Logout, LogOut(o) PROVE TokenInv'
  BY <1>6 DEF LogOut, Fault
<1>7. ASSUME NEW f \in Form, requireUI(f) PROVE TokenInv'
  BY <1>7 DEF requireUI, validSession
<1>8. ASSUME NEW c \in Call, requireAPI(c) PROVE TokenInv'
  BY <1>8 DEF requireAPI
<1>9. ASSUME NEW t \in Token, CreateToken(t) PROVE TokenInv'
  BY <1>9 DEF CreateToken
<1>10. ASSUME NEW t \in Token, ShowToken(t) PROVE TokenInv'
  BY <1>10 DEF ShowToken
<1>11. ASSUME NEW r \in Request, NEW from \in Failing, NEW answer \in Failure,
             Fails(r, from, answer) PROVE TokenInv'
  BY <1>11 DEF Fails, Fault
<1>12. ASSUME Tick PROVE TokenInv'
  BY <1>12 DEF Tick
<1>13. ASSUME Crash PROVE TokenInv'
  BY <1>13 DEF Crash
<1> QED
  BY <1>1, <1>2, <1>3, <1>4, <1>5, <1>6, <1>7, <1>8, <1>9, <1>10, <1>11, <1>12, <1>13 DEF Next

\* A stuttering step changes none of this.
LEMMA StutterAccess == ASSUME IInv, UNCHANGED vars PROVE IInv'
  BY DEF IInv, TypeOK, UnsetInv, SessionInv, KnewInv, TokenInv, ShownTokensWork,
         hasPassword, vars, dbVars, clients, history

\* The invariant holds in every reachable state.
THEOREM AccessInvariant == Spec => []IInv
<1>1. Init => IInv
  BY StartsAccessInvariant
<1>2. IInv /\ [Next]_vars => IInv'
  BY StepAccessTypes, StepUnset, StepSession, StepKnew, StepToken, StutterAccess DEF IInv
<1> QED
  BY <1>1, <1>2, PTL DEF Spec

-----------------------------------------------------------------------------
(* The properties                                                          *)

\* The state is well-typed.
THEOREM AccessTypeOK == Spec => []TypeOK
  BY AccessInvariant, PTL DEF IInv

\* Before a password is set there is no session and no token.
THEOREM AccessNothingBeforeSetup == Spec => []NothingBeforeSetup
<1>1. IInv => NothingBeforeSetup
  BY DEF IInv, UnsetInv, NothingBeforeSetup
<1> QED
  BY <1>1, AccessInvariant, PTL

\* Every session comes from a password that is or was stored.
THEOREM AccessSessionsEarned == Spec => []SessionsEarned
<1>1. IInv => SessionsEarned
  BY DEF IInv, TypeOK, KnewInv, SessionsEarned
<1> QED
  BY <1>1, AccessInvariant, PTL

\* Every token that was shown is stored.
THEOREM AccessShownTokensWork == Spec => []ShownTokensWork
<1>1. IInv => ShownTokensWork
  BY DEF IInv, TokenInv
<1> QED
  BY <1>1, AccessInvariant, PTL

\* Only a setup that saw no password stores one.
LEMMA StepSettled ==
    ASSUME TypeOK, Settled, Next
    PROVE  Settled' /\ password' = password
<1> USE AccessAssumption
    DEF TypeOK, Goto, Step, Done, Failing, Failure, Session, Token, Request,
        dbVars, clients, history, Settled, hasPassword
<1>1. ASSUME NEW s \in Setup, CheckSetup(s) PROVE Settled' /\ password' = password
  BY <1>1 DEF CheckSetup
<1>2. ASSUME NEW s \in Setup, StorePassword(s) PROVE Settled' /\ password' = password
  BY <1>2 DEF StorePassword, hasPassword
<1>3. ASSUME NEW l \in Login, CheckPassword(l) PROVE Settled' /\ password' = password
  BY <1>3 DEF CheckPassword, validPassword, hasPassword
<1>4. ASSUME NEW s \in Session, setSession(s) PROVE Settled' /\ password' = password
  BY <1>4 DEF setSession
<1>5. ASSUME NEW s \in Session, SetCookie(s) PROVE Settled' /\ password' = password
  BY <1>5 DEF SetCookie
<1>6. ASSUME NEW o \in Logout, LogOut(o) PROVE Settled' /\ password' = password
  BY <1>6 DEF LogOut, Fault
<1>7. ASSUME NEW f \in Form, requireUI(f) PROVE Settled' /\ password' = password
  BY <1>7 DEF requireUI, validSession
<1>8. ASSUME NEW c \in Call, requireAPI(c) PROVE Settled' /\ password' = password
  BY <1>8 DEF requireAPI
<1>9. ASSUME NEW t \in Token, CreateToken(t) PROVE Settled' /\ password' = password
  BY <1>9 DEF CreateToken
<1>10. ASSUME NEW t \in Token, ShowToken(t) PROVE Settled' /\ password' = password
  BY <1>10 DEF ShowToken
<1>11. ASSUME NEW r \in Request, NEW from \in Failing, NEW answer \in Failure,
             Fails(r, from, answer) PROVE Settled' /\ password' = password
  BY <1>11 DEF Fails, Fault
<1>12. ASSUME Tick PROVE Settled' /\ password' = password
  BY <1>12 DEF Tick
<1>13. ASSUME Crash PROVE Settled' /\ password' = password
  BY <1>13 DEF Crash
<1> QED
  BY <1>1, <1>2, <1>3, <1>4, <1>5, <1>6, <1>7, <1>8, <1>9, <1>10, <1>11, <1>12, <1>13 DEF Next

\* A settled password stays.
THEOREM AccessPasswordSettled == Spec => PasswordSettled
<1>1. TypeOK /\ [Next]_vars => (Settled => Settled' /\ password' = password) \/ UNCHANGED vars
  BY StepSettled
<1>2. TypeOK /\ [Next]_vars => [Settled => Settled' /\ password' = password]_vars
  BY <1>1
<1> QED
  BY <1>2, AccessTypeOK, PTL DEF Spec, PasswordSettled

\* What a step that lets a page through has seen.
LetIn(f) ==
    pc[f] = "idle" /\ pc'[f] = "make" =>
        /\ shows'[f] \in issued \ ended
        /\ clock < expires[shows'[f]]

\* Only a session that is stored and young lets a page through.
LEMMA StepLetIn ==
    ASSUME TypeOK, SessionInv, Next, NEW g \in Form
    PROVE  LetIn(g)
<1> USE AccessAssumption
    DEF TypeOK, Goto, Step, Done, Failing, Failure, Session, Token, Request,
        dbVars, clients, history, SessionInv, LetIn
<1>1. ASSUME NEW s \in Setup, CheckSetup(s) PROVE LetIn(g)
  BY <1>1 DEF CheckSetup
<1>2. ASSUME NEW s \in Setup, StorePassword(s) PROVE LetIn(g)
  BY <1>2 DEF StorePassword, hasPassword
<1>3. ASSUME NEW l \in Login, CheckPassword(l) PROVE LetIn(g)
  BY <1>3 DEF CheckPassword, validPassword, hasPassword
<1>4. ASSUME NEW s \in Session, setSession(s) PROVE LetIn(g)
  BY <1>4 DEF setSession
<1>5. ASSUME NEW s \in Session, SetCookie(s) PROVE LetIn(g)
  BY <1>5 DEF SetCookie
<1>6. ASSUME NEW o \in Logout, LogOut(o) PROVE LetIn(g)
  BY <1>6 DEF LogOut, Fault
<1>7. ASSUME NEW f \in Form, requireUI(f) PROVE LetIn(g)
  BY <1>7 DEF requireUI, validSession
<1>8. ASSUME NEW c \in Call, requireAPI(c) PROVE LetIn(g)
  BY <1>8 DEF requireAPI
<1>9. ASSUME NEW t \in Token, CreateToken(t) PROVE LetIn(g)
  BY <1>9 DEF CreateToken
<1>10. ASSUME NEW t \in Token, ShowToken(t) PROVE LetIn(g)
  BY <1>10 DEF ShowToken
<1>11. ASSUME NEW r \in Request, NEW from \in Failing, NEW answer \in Failure,
             Fails(r, from, answer) PROVE LetIn(g)
  BY <1>11 DEF Fails, Fault
<1>12. ASSUME Tick PROVE LetIn(g)
  BY <1>12 DEF Tick
<1>13. ASSUME Crash PROVE LetIn(g)
  BY <1>13 DEF Crash
<1> QED
  BY <1>1, <1>2, <1>3, <1>4, <1>5, <1>6, <1>7, <1>8, <1>9, <1>10, <1>11, <1>12, <1>13 DEF Next

\* A session that ended or expired stays out.
THEOREM AccessEndedStaysOut == Spec => EndedStaysOut
<1>1. IInv /\ [Next]_vars => [\A f \in Form : LetIn(f)]_vars
  BY StepLetIn DEF IInv
<1> QED
  BY <1>1, AccessInvariant, PTL DEF Spec, EndedStaysOut, LetIn
=============================================================================
