------------------------- MODULE PlayAccountsProofs -------------------------
(***************************************************************************)
(* Proofs about PlayAccounts, for any sets of requests, platforms, emails  *)
(* and secrets, whatever foreign_keys is on each connection: a push        *)
(* uses an account its platform was given, rotation leaves the newest key  *)
(* and loses none, and only a rotation or a race leaves a platform on      *)
(* without an account.                                                     *)
(***************************************************************************)
EXTENDS PlayAccounts, TLAPS

-----------------------------------------------------------------------------
(* The inductive invariant, in parts                                       *)

\* What a request has in its hands at each step.
WorkInv ==
    \A w \in Worker :
        /\ pc[w] \in Storing => email[w] \in Email
        /\ pc[w] \in {"drop", "look", "link", "creds"} \cup Removing => target[w] \in Id
        /\ pc[w] \in {"look", "link", "creds"} => plat[w] \in Platform
        /\ pc[w] \in {"drop", "link"} =>
            email[w] \in Email /\ stored[target[w]] = email[w]

\* Ids are handed out once, and an account keeps its email.
StoreInv ==
    \A i \in Id :
        /\ stored[i] # NoEmail => i <= lastId
        /\ i \in Present => stored[i] = accounts[i]

\* A link, and a link remembered, is to an account the platform was given.
GrantInv ==
    /\ \A p \in Platform : link[p] # NoId => stored[link[p]] \in granted[p]
    /\ \A w \in Worker : pc[w] = "creds" => stored[target[w]] \in granted[plat[w]]

\* Where one request at a time stores an email, what it has seen stays true.
NewestInv ==
    /\ OnlyNewestKey
    /\ \A w \in Worker :
        (pc[w] \in Storing /\ email[w] \notin muddled) =>
            /\ pc[w] = "insert" => Of(email[w]) = {}
            /\ pc[w] = "drop" => Of(email[w]) \subseteq {target[w]}
            /\ \A v \in Worker : (pc[v] \in Storing /\ email[v] = email[w]) => v = w

\* An email without an account is about to get one.
KeepInv ==
    \A i \in Id :
        (stored[i] # NoEmail /\ stored[i] \notin lost) =>
            \/ Of(stored[i]) # {}
            \/ \E w \in Worker : pc[w] = "insert" /\ email[w] = stored[i]

\* Once the flags are cleared, no platform is on with the account to remove.
SwitchInv ==
    /\ OnHasAccount
    /\ \A w \in Worker, p \in Platform \ severed :
        pc[w] = "remove" => ~(enabled[p] /\ link[p] = target[w])

IInv == /\ TypeOK /\ WorkInv /\ StoreInv /\ GrantInv
        /\ NewestInv /\ KeepInv /\ SwitchInv

-----------------------------------------------------------------------------
(* Types and what requests have in their hands                             *)

\* An empty hub satisfies the invariant.
LEMMA StartsAccountsInvariant == Init => IInv
<1> SUFFICES ASSUME Init PROVE IInv
  OBVIOUS
<1> USE AccountsAssumption DEF Init, Id, NoId, Storing, Removing
<1>1. TypeOK
  BY DEF TypeOK, Step, Under
<1>2. WorkInv /\ StoreInv /\ GrantInv /\ KeepInv
  BY DEF WorkInv, StoreInv, GrantInv, KeepInv, Present
<1>3. NewestInv /\ SwitchInv
  BY DEF NewestInv, SwitchInv, OnlyNewestKey, OnHasAccount, Of, Present
<1> QED
  BY <1>1, <1>2, <1>3 DEF IInv

\* Deleting an account leaves the tables well-typed.
LEMMA DeleteTypes ==
    ASSUME TypeOK, NEW i \in Id, NEW fk, DeleteAccount(i, fk)
    PROVE  /\ accounts' \in [Id -> Email \cup {NoEmail}]
           /\ link' \in [Platform -> {NoId} \cup Id]
  BY DEF DeleteAccount, TypeOK, NoId

\* An id not given out yet has no account and nobody has heard of it.
LEMMA NextIdFresh ==
    ASSUME TypeOK, StoreInv, NextId \in Id
    PROVE  /\ NextId > lastId
           /\ stored[NextId] = NoEmail /\ NextId \notin Present
  BY AccountsAssumption DEF TypeOK, StoreInv, NextId, Id, NoId, Present

\* TypeOK and WorkInv preserve each other, given that ids are fresh.
LEMMA StepWork ==
    ASSUME TypeOK, WorkInv, StoreInv, Next
    PROVE  TypeOK' /\ WorkInv'
<1> USE AccountsAssumption
    DEF TypeOK, WorkInv, Goto, Start, Answer, Step, Storing, Removing,
        hubVars, localVars, historyVars, NoId
<1>1. ASSUME NEW w \in Worker, NEW e \in Email, NEW p \in Platform \cup {NoPlatform},
             StartStore(w, e, p)
      PROVE  TypeOK' /\ WorkInv'
  BY <1>1 DEF StartStore
<1>2. ASSUME NEW w \in Worker, List(w) PROVE TypeOK' /\ WorkInv'
  BY <1>2 DEF List, Of, Present, StoreInv
<1>3. ASSUME NEW w \in Worker, ListFault(w) PROVE TypeOK' /\ WorkInv'
  BY <1>3 DEF ListFault
<1>4. ASSUME NEW w \in Worker, Drop(w) PROVE TypeOK' /\ WorkInv'
  <2>1. target[w] \in Id
    BY <1>4 DEF Drop
  <2> QED
    BY <1>4, <2>1, DeleteTypes DEF Drop, Linked
<1>5. ASSUME NEW w \in Worker, Insert(w) PROVE TypeOK' /\ WorkInv'
  <2>1. NextId \in Id /\ stored[NextId] = NoEmail
    BY <1>5, NextIdFresh DEF Insert
  <2>2. email[w] \in Email
    BY <1>5 DEF Insert
  <2>3. TypeOK'
    BY <1>5, <2>1, <2>2 DEF Insert
  <2>4. ASSUME NEW v \in Worker, pc[v] \in {"drop", "link"} PROVE target[v] # NextId
    BY <2>1, <2>4
  <2> QED
    BY <1>5, <2>1, <2>2, <2>3, <2>4 DEF Insert
<1>6. ASSUME NEW w \in Worker, StoreFails(w) PROVE TypeOK' /\ WorkInv'
  BY <1>6 DEF StoreFails
<1>7. ASSUME NEW w \in Worker, NEW p \in Platform, NEW i \in Id, StartEnable(w, p, i)
      PROVE  TypeOK' /\ WorkInv'
  BY <1>7 DEF StartEnable
<1>8. ASSUME NEW w \in Worker, Look(w) PROVE TypeOK' /\ WorkInv'
  BY <1>8 DEF Look, Present, StoreInv
<1>9. ASSUME NEW w \in Worker, Link(w) PROVE TypeOK' /\ WorkInv'
  BY <1>9 DEF Link, SetPlay
<1>10. ASSUME NEW w \in Worker, EnableFails(w) PROVE TypeOK' /\ WorkInv'
  BY <1>10 DEF EnableFails
<1>11. ASSUME NEW p \in Platform, Disable(p) PROVE TypeOK' /\ WorkInv'
  BY <1>11 DEF Disable
<1>12. ASSUME NEW w \in Worker, NEW i \in Id, StartRemove(w, i)
       PROVE  TypeOK' /\ WorkInv'
  BY <1>12 DEF StartRemove
<1>13. ASSUME NEW w \in Worker, Check(w) PROVE TypeOK' /\ WorkInv'
  BY <1>13 DEF Check
<1>14. ASSUME NEW w \in Worker, Clear(w) PROVE TypeOK' /\ WorkInv'
  BY <1>14 DEF Clear
<1>15. ASSUME NEW w \in Worker, Remove(w) PROVE TypeOK' /\ WorkInv'
  <2>1. target[w] \in Id
    BY <1>15 DEF Remove
  <2> QED
    BY <1>15, <2>1, DeleteTypes DEF Remove
<1>16. ASSUME NEW w \in Worker, RemoveFails(w) PROVE TypeOK' /\ WorkInv'
  BY <1>16 DEF RemoveFails
<1>17. ASSUME NEW w \in Worker, NEW p \in Platform, StartUse(w, p)
       PROVE  TypeOK' /\ WorkInv'
  BY <1>17 DEF StartUse
<1>18. ASSUME NEW w \in Worker, Use(w) PROVE TypeOK' /\ WorkInv'
  BY <1>18 DEF Use
<1>19. CASE Crash
  BY <1>19 DEF Crash
<1> QED
  BY <1>1, <1>2, <1>3, <1>4, <1>5, <1>6, <1>7, <1>8, <1>9, <1>10, <1>11, <1>12,
     <1>13, <1>14, <1>15, <1>16, <1>17, <1>18, <1>19 DEF Next

-----------------------------------------------------------------------------
(* Ids and grants                                                          *)

\* What a step other than storing, deleting or linking does to the tables:
\* nothing but switch platforms off.
Quiet ==
    /\ UNCHANGED <<accounts, lastId, stored, granted>>
    /\ \A p \in Platform : link'[p] = link[p] \/ link'[p] = NoId

\* Every step that is not Drop, Insert, Link or Remove is quiet.
LEMMA QuietSteps ==
    ASSUME TypeOK, Next,
           \A w \in Worker : ~Drop(w) /\ ~Insert(w) /\ ~Link(w) /\ ~Remove(w)
    PROVE  Quiet
  BY DEF TypeOK, Next, Quiet, StartStore, Start, List, ListFault, StoreFails,
     StartEnable, Look, EnableFails, Disable, StartRemove, Check, Clear,
     RemoveFails, StartUse, Use, Crash, hubVars, historyVars

\* Ids stay handed out once, and accounts keep their email.
LEMMA StepStore ==
    ASSUME TypeOK, WorkInv, StoreInv, Next
    PROVE  StoreInv'
<1>1. ASSUME NEW w \in Worker, Drop(w) \/ Remove(w) PROVE StoreInv'
  <2>1. target[w] \in Id /\ UNCHANGED <<lastId, stored>>
    BY <1>1 DEF WorkInv, Drop, Remove, Removing
  <2>2. accounts' = [accounts EXCEPT ![target[w]] = NoEmail]
    BY <1>1 DEF Drop, Remove, DeleteAccount
  <2> QED
    BY <2>1, <2>2 DEF StoreInv, TypeOK, Present
<1>2. ASSUME NEW w \in Worker, Insert(w) PROVE StoreInv'
  <2>1. NextId \in Id /\ NextId > lastId
    BY <1>2, NextIdFresh DEF Insert
  <2>2. /\ accounts' = [accounts EXCEPT ![NextId] = email[w]]
        /\ stored' = [stored EXCEPT ![NextId] = email[w]]
        /\ lastId' = NextId
    BY <1>2 DEF Insert
  <2> QED
    BY <2>1, <2>2, AccountsAssumption DEF StoreInv, TypeOK, Present, Id, NoId
<1>3. ASSUME NEW w \in Worker, Link(w) PROVE StoreInv'
  BY <1>3 DEF Link, SetPlay, StoreInv, Present
<1>4. CASE \A w \in Worker : ~Drop(w) /\ ~Insert(w) /\ ~Link(w) /\ ~Remove(w)
  <2>1. Quiet
    BY <1>4, QuietSteps
  <2> QED
    BY <2>1 DEF Quiet, StoreInv, Present
<1> QED
  BY <1>1, <1>2, <1>3, <1>4

\* Only Link grants, and nothing takes a grant back.
LEMMA GrantsGrow ==
    ASSUME TypeOK, WorkInv, Next, NEW p \in Platform
    PROVE  granted[p] \subseteq granted'[p]
<1>1. ASSUME NEW w \in Worker, Link(w) PROVE granted[p] \subseteq granted'[p]
  BY <1>1 DEF Link, TypeOK
<1>2. ASSUME NEW w \in Worker, Drop(w) \/ Insert(w) \/ Remove(w) PROVE granted' = granted
  BY <1>2 DEF Drop, Insert, Remove
<1>3. CASE \A w \in Worker : ~Drop(w) /\ ~Insert(w) /\ ~Link(w) /\ ~Remove(w)
  BY <1>3, QuietSteps DEF Quiet
<1> QED
  BY <1>1, <1>2, <1>3

\* An id that was handed out keeps the email it was handed out for.
LEMMA StoredStays ==
    ASSUME TypeOK, WorkInv, StoreInv, Next, NEW i \in Id, stored[i] # NoEmail
    PROVE  stored'[i] = stored[i]
<1>1. ASSUME NEW w \in Worker, Insert(w) PROVE stored'[i] = stored[i]
  <2>1. NextId \in Id /\ stored[NextId] = NoEmail
    BY <1>1, NextIdFresh DEF Insert
  <2> QED
    BY <1>1, <2>1 DEF Insert, TypeOK
<1>2. ASSUME NEW w \in Worker, Drop(w) \/ Link(w) \/ Remove(w) PROVE stored' = stored
  BY <1>2 DEF Drop, Link, Remove
<1>3. CASE \A w \in Worker : ~Drop(w) /\ ~Insert(w) /\ ~Link(w) /\ ~Remove(w)
  BY <1>3, QuietSteps DEF Quiet
<1> QED
  BY <1>1, <1>2, <1>3

\* Links, and links remembered, stay to accounts that were granted.
LEMMA StepGrant ==
    ASSUME TypeOK, WorkInv, StoreInv, GrantInv, Next
    PROVE  GrantInv'
<1> USE AccountsAssumption
<1>1. ASSUME NEW p \in Platform, link[p] # NoId
      PROVE  stored'[link[p]] \in granted'[p]
  <2>1. link[p] \in Id /\ stored[link[p]] \in granted[p] /\ granted[p] \subseteq Email
    BY <1>1 DEF GrantInv, TypeOK
  <2> QED
    BY <2>1, StoredStays, GrantsGrow
<1>2. ASSUME NEW p \in Platform, link'[p] # NoId, link'[p] # link[p]
      PROVE  stored'[link'[p]] \in granted'[p]
  <2>1. PICK w \in Worker : Drop(w) \/ Insert(w) \/ Link(w) \/ Remove(w)
    BY <1>2, QuietSteps DEF Quiet
  <2>2. Link(w)
    BY <1>2, <2>1 DEF Drop, Insert, Remove, DeleteAccount
  <2>3. plat[w] \in Platform /\ stored[target[w]] = email[w] /\ target[w] \in Id
    BY <2>2 DEF Link, WorkInv
  <2> QED
    BY <1>2, <2>2, <2>3 DEF Link, SetPlay, TypeOK
<1>3. \A p \in Platform : link'[p] # NoId => stored'[link'[p]] \in granted'[p]
  BY <1>1, <1>2
<1>4. ASSUME NEW w \in Worker, pc'[w] = "creds"
      PROVE  stored'[target'[w]] \in granted'[plat'[w]]
  <2>1. CASE pc[w] = "creds" /\ target'[w] = target[w] /\ plat'[w] = plat[w]
    <3>1. target[w] \in Id /\ plat[w] \in Platform
      BY <2>1 DEF WorkInv
    <3>2. stored[target[w]] \in granted[plat[w]] /\ granted[plat[w]] \subseteq Email
      BY <2>1, <3>1 DEF GrantInv, TypeOK
    <3> QED
      BY <2>1, <3>1, <3>2, StoredStays, GrantsGrow
  <2>2. ASSUME NEW p \in Platform, StartUse(w, p)
        PROVE  stored'[target'[w]] \in granted'[plat'[w]]
    <3>1. target'[w] = link[p] /\ plat'[w] = p /\ link[p] # NoId
      BY <2>2 DEF StartUse, Start, TypeOK
    <3> QED
      BY <3>1, <1>1
  <2>3. \/ pc[w] = "creds" /\ target'[w] = target[w] /\ plat'[w] = plat[w]
        \/ \E p \in Platform : StartUse(w, p)
    BY <1>4 DEF Next, TypeOK, Goto, Answer, Start, StartStore, List, ListFault, Drop,
       Insert, StoreFails, StartEnable, Look, Link, EnableFails, Disable,
       StartRemove, Check, Clear, Remove, RemoveFails, StartUse, Use, Crash,
       localVars, Storing, Removing
  <2> QED
    BY <2>1, <2>2, <2>3
<1> QED
  BY <1>3, <1>4 DEF GrantInv

-----------------------------------------------------------------------------
(* Rotation                                                                *)

\* Where it matters, requests go on storing what they were storing: no step
\* but StartStore, List, ListFault, Drop and Crash takes a request to a step
\* of storing, and none forgets that an email was muddled.
LEMMA StoringSteps ==
    ASSUME TypeOK, Next,
           \A w \in Worker :
              ~List(w) /\ ~ListFault(w) /\ ~Drop(w) /\ ~Insert(w) /\ ~Remove(w),
           \A w \in Worker, e \in Email, p \in Platform \cup {NoPlatform} : ~StartStore(w, e, p)
    PROVE  /\ UNCHANGED <<accounts, stored>> /\ muddled \subseteq muddled'
           /\ \A w \in Worker : pc'[w] \in Storing =>
                /\ pc'[w] = pc[w]
                /\ email'[w] = email[w] /\ target'[w] = target[w]
  BY DEF TypeOK, Next, StoreFails, Start, Goto, Answer, Storing, Removing, StartEnable,
     Look, Link, SetPlay, EnableFails, Disable, StartRemove, Check, Clear,
     RemoveFails, StartUse, Use, Crash, hubVars, localVars, historyVars

\* A request that stores an email alone keeps seeing the email's accounts
\* right, and the newest key stays the only one.
LEMMA StepNewest ==
    ASSUME TypeOK, WorkInv, StoreInv, NewestInv, Next
    PROVE  NewestInv'
<1> USE DEF NewestInv, OnlyNewestKey, Of, Present, Storing
<1>1. ASSUME NEW w \in Worker, NEW e \in Email, NEW p \in Platform \cup {NoPlatform},
             StartStore(w, e, p)
      PROVE  NewestInv'
  BY <1>1 DEF StartStore, Start, TypeOK, hubVars
<1>2. ASSUME NEW w \in Worker, List(w) PROVE NewestInv'
  <2>1. /\ UNCHANGED <<accounts, stored, email>> /\ muddled \subseteq muddled'
        /\ email[w] \notin muddled' => Of(email[w]) \subseteq Legible
    BY <1>2 DEF List, hubVars
  <2>2. OnlyNewestKey'
    BY <2>1
  <2>3. \A v \in Worker \ {w} : pc'[v] = pc[v] /\ target'[v] = target[v]
    BY <1>2 DEF List, Goto, TypeOK
  <2>4. pc[w] \in Storing /\ pc'[w] \in Storing
    BY <1>2 DEF List, Goto, TypeOK
  <2>5. CASE Of(email[w]) \cap Legible = {} /\ pc'[w] = "insert"
    <3>1. email[w] \notin muddled' => Of(email[w]) = {}
      BY <2>1, <2>5
    <3> QED
      BY <2>1, <2>2, <2>3, <2>4, <2>5, <3>1
  <2>6. ASSUME NEW i \in Of(email[w]), \A j \in Of(email[w]) \cap Legible : i <= j,
               pc'[w] = "drop", target'[w] = i
        PROVE  NewestInv'
    <3>1. email[w] \notin muddled' => Of(email[w]) \subseteq {i}
      <4> SUFFICES ASSUME email[w] \notin muddled', NEW j \in Of(email[w]) PROVE j = i
        OBVIOUS
      <4>1. email[w] \in Email \ muddled /\ j \in Legible
        BY <2>1, <2>4 DEF WorkInv
      <4>2. stored[j] = email[w] /\ stored[i] = email[w]
        BY DEF StoreInv
      <4>3. j <= i /\ i <= j
        BY <4>1, <4>2, <2>6
      <4> QED
        BY <4>3 DEF Id
    <3> QED
      BY <2>1, <2>2, <2>3, <2>4, <2>6, <3>1
  <2>7. \/ Of(email[w]) \cap Legible = {} /\ pc'[w] = "insert"
        \/ \E i \in Of(email[w]) :
             /\ \A j \in Of(email[w]) \cap Legible : i <= j
             /\ pc'[w] = "drop" /\ target'[w] = i
    BY <1>2 DEF List, Goto, TypeOK
  <2> QED
    BY <2>5, <2>6, <2>7
<1>3. ASSUME NEW w \in Worker, ListFault(w) PROVE NewestInv'
  BY <1>3 DEF ListFault, Goto, TypeOK, hubVars, localVars
<1>4. ASSUME NEW w \in Worker, Drop(w) \/ Remove(w) PROVE NewestInv'
  <2>1. /\ accounts' = [accounts EXCEPT ![target[w]] = NoEmail]
        /\ UNCHANGED <<stored, muddled>> /\ target[w] \in Id
    BY <1>4 DEF Drop, Remove, DeleteAccount, WorkInv, Removing
  <2>2. \A e : Of(e)' \subseteq Of(e) \ {target[w]}
    BY <2>1 DEF TypeOK
  <2>3. OnlyNewestKey'
    BY <2>1, <2>2
  <2>4. \A v \in Worker : pc'[v] \in Storing =>
          /\ pc[v] \in Storing /\ email'[v] = email[v] /\ target'[v] = target[v]
          /\ pc'[v] = pc[v] \/ (v = w /\ pc[v] = "drop" /\ pc'[v] = "insert")
    BY <1>4 DEF Drop, Remove, Answer, Goto, TypeOK, localVars
  <2> QED
    BY <2>1, <2>2, <2>3, <2>4
<1>5. ASSUME NEW w \in Worker, Insert(w) PROVE NewestInv'
  <2>1. NextId \in Id /\ NextId > lastId /\ NextId \notin Present
    BY <1>5, NextIdFresh DEF Insert
  <2>2. email[w] \in Email /\ pc[w] = "insert"
    BY <1>5 DEF Insert, WorkInv
  <2>3. /\ accounts' = [accounts EXCEPT ![NextId] = email[w]]
        /\ stored' = [stored EXCEPT ![NextId] = email[w]]
        /\ UNCHANGED muddled
    BY <1>5 DEF Insert
  <2>4. \A e \in Email \ {email[w]} : Of(e)' = Of(e)
    BY <2>1, <2>2, <2>3 DEF TypeOK
  <2>5. OnlyNewestKey'
    <3> SUFFICES ASSUME NEW e \in Email \ muddled, NEW i \in Of(e)', NEW j \in Id,
                        stored'[j] = e
                 PROVE  j <= i
      BY <2>3
    <3>1. CASE e = email[w]
      <4>1. Of(e) = {}
        BY <3>1, <2>2
      <4>2. i = NextId
        BY <4>1, <2>3, <2>1 DEF TypeOK
      <4>3. j = NextId \/ j <= lastId
        BY <2>3, AccountsAssumption DEF StoreInv, TypeOK
      <4> QED
        BY <4>2, <4>3, <2>1 DEF TypeOK, Id, NoId
    <3>2. CASE e # email[w]
      BY <3>2, <2>3, <2>4, <2>1 DEF TypeOK
    <3> QED
      BY <3>1, <3>2
  <2>6. \A v \in Worker : pc'[v] \in Storing =>
          pc'[v] = pc[v] /\ v # w /\ email'[v] = email[v] /\ target'[v] = target[v]
    BY <1>5 DEF Insert, Answer, Goto, TypeOK
  <2>7. \A v \in Worker : (pc'[v] \in Storing /\ email[v] \notin muddled) =>
          email[v] # email[w] /\ email[v] \in Email
    BY <2>2, <2>6 DEF WorkInv
  <2> QED
    BY <2>3, <2>4, <2>5, <2>6, <2>7
<1>6. CASE /\ \A w \in Worker :
                ~List(w) /\ ~ListFault(w) /\ ~Drop(w) /\ ~Insert(w) /\ ~Remove(w)
           /\ \A w \in Worker, e \in Email, p \in Platform \cup {NoPlatform} :
                ~StartStore(w, e, p)
  <2>1. /\ UNCHANGED <<accounts, stored>> /\ muddled \subseteq muddled'
        /\ \A w \in Worker : pc'[w] \in Storing =>
             pc'[w] = pc[w] /\ email'[w] = email[w] /\ target'[w] = target[w]
    BY <1>6, StoringSteps
  <2> QED
    BY <2>1
<1> QED
  BY <1>1, <1>2, <1>3, <1>4, <1>5, <1>6

\* An email that has lost its account to a rotation still has the request
\* that will insert the new one, or is known to be lost.
LEMMA StepKeep ==
    ASSUME TypeOK, WorkInv, StoreInv, KeepInv, Next
    PROVE  KeepInv'
<1> USE DEF KeepInv, Of, Present
<1>1. ASSUME NEW w \in Worker, Drop(w) PROVE KeepInv'
  <2>1. /\ target[w] \in Id /\ stored[target[w]] = email[w]
        /\ accounts' = [accounts EXCEPT ![target[w]] = NoEmail]
        /\ pc' = [pc EXCEPT ![w] = "insert"]
        /\ UNCHANGED <<email, stored, lost>>
    BY <1>1 DEF Drop, WorkInv, DeleteAccount, Goto, localVars
  <2>2. \A e : e # email[w] => Of(e)' = Of(e)
    BY <2>1 DEF StoreInv, TypeOK
  <2>3. \A v \in Worker : pc[v] = "insert" => pc'[v] = "insert"
    BY <2>1 DEF TypeOK
  <2>4. pc'[w] = "insert"
    BY <2>1 DEF TypeOK
  <2>5. ASSUME NEW i \in Id, stored[i] # NoEmail, stored[i] \notin lost
        PROVE  \/ Of(stored[i])' # {}
               \/ \E v \in Worker : pc'[v] = "insert" /\ email[v] = stored[i]
    <3>1. CASE stored[i] = email[w]
      BY <2>4, <3>1
    <3>2. CASE stored[i] # email[w]
      <4>1. {j \in Present : accounts[j] = stored[i]} # {}
            \/ \E v \in Worker : pc[v] = "insert" /\ email[v] = stored[i]
        BY <2>5
      <4> QED
        BY <2>1, <2>2, <2>3, <3>2, <4>1
    <3> QED
      BY <3>1, <3>2
  <2> QED
    BY <2>1, <2>5
<1>2. ASSUME NEW w \in Worker, Insert(w) PROVE KeepInv'
  <2>1. NextId \in Id /\ NextId \notin Present /\ email[w] \in Email
    BY <1>2, NextIdFresh DEF Insert, WorkInv, Storing
  <2>2. /\ accounts' = [accounts EXCEPT ![NextId] = email[w]]
        /\ stored' = [stored EXCEPT ![NextId] = email[w]]
        /\ UNCHANGED lost
        /\ \A v \in Worker \ {w} : pc'[v] = pc[v] /\ email'[v] = email[v]
    BY <1>2 DEF Insert, Answer, Goto, TypeOK
  <2>3. \A e : e = email[w] => NextId \in Of(e)'
    BY <2>1, <2>2, AccountsAssumption DEF TypeOK
  <2>4. \A e : Of(e) \subseteq Of(e)'
    BY <2>1, <2>2 DEF TypeOK
  <2> QED
    BY <2>1, <2>2, <2>3, <2>4 DEF TypeOK
<1>3. ASSUME NEW w \in Worker, Remove(w) PROVE KeepInv'
  <2>1. /\ target[w] \in Id /\ pc[w] = "remove"
        /\ accounts' = [accounts EXCEPT ![target[w]] = NoEmail]
        /\ UNCHANGED stored
        /\ lost' = lost \cup ({stored[target[w]]} \cap Email)
        /\ \A v \in Worker \ {w} : pc'[v] = pc[v] /\ email'[v] = email[v]
    BY <1>3 DEF Remove, WorkInv, DeleteAccount, Removing, Answer, Goto, TypeOK
  <2>2. \A e \in Email : e # stored[target[w]] => Of(e)' = Of(e)
    BY <2>1 DEF StoreInv, TypeOK
  <2> QED
    BY <2>1, <2>2 DEF TypeOK
<1>4. CASE \A w \in Worker : ~Drop(w) /\ ~Insert(w) /\ ~Remove(w)
  <2>1. UNCHANGED <<accounts, stored>> /\ lost \subseteq lost'
    BY <1>4 DEF Next, StartStore, Start, List, ListFault, StoreFails, StartEnable, Look,
       Link, EnableFails, Disable, StartRemove, Check, Clear, RemoveFails, StartUse,
       Use, Crash, hubVars, historyVars
  <2>2. ASSUME NEW w \in Worker, pc[w] = "insert", email[w] \notin lost'
        PROVE  pc'[w] = "insert" /\ email'[w] = email[w]
    <3>1. email[w] \in Email
      BY <2>2 DEF WorkInv, Storing
    <3> QED
      BY <2>2, <3>1, <1>4 DEF TypeOK, Next, Start, Goto, Answer, StartStore, List,
         ListFault, StoreFails, StartEnable, Look, Link, EnableFails, Disable,
         StartRemove, Check, Clear, RemoveFails, StartUse, Use, Crash,
         localVars, Storing, Removing
  <2> QED
    BY <2>1, <2>2
<1> QED
  BY <1>1, <1>2, <1>3, <1>4

-----------------------------------------------------------------------------
(* Switching off                                                           *)

\* A platform that was not severed is on only with an account, and not with
\* one whose flags were just cleared.
LEMMA StepSwitch ==
    ASSUME TypeOK, WorkInv, StoreInv, SwitchInv, Next
    PROVE  SwitchInv'
<1> USE DEF SwitchInv, OnHasAccount, Present
<1>1. ASSUME NEW w \in Worker, Drop(w) PROVE SwitchInv'
  <2>1. /\ target[w] \in Id /\ pc' = [pc EXCEPT ![w] = "insert"]
        /\ accounts' = [accounts EXCEPT ![target[w]] = NoEmail]
        /\ severed' = severed \cup {p \in Platform : link[p] = target[w]}
        /\ UNCHANGED <<enabled, target>>
    BY <1>1 DEF Drop, WorkInv, Goto, DeleteAccount, Linked, localVars
  <2>2. \A p \in Platform \ severed' : link'[p] = link[p] /\ link[p] # target[w]
    BY <1>1, <2>1 DEF Drop, DeleteAccount
  <2> QED
    BY <2>1, <2>2 DEF TypeOK
<1>2. ASSUME NEW w \in Worker, Insert(w) PROVE SwitchInv'
  <2>1. /\ accounts' = [accounts EXCEPT ![NextId] = email[w]]
        /\ email[w] \in Email /\ UNCHANGED <<enabled, link, severed>>
    BY <1>2 DEF Insert, WorkInv, Storing
  <2>2. \A v \in Worker : pc'[v] = "remove" => pc[v] = "remove" /\ target'[v] = target[v]
    BY <1>2 DEF Insert, Answer, Goto, TypeOK
  <2> QED
    BY <2>1, <2>2, AccountsAssumption DEF TypeOK
<1>3. ASSUME NEW w \in Worker, Remove(w) PROVE SwitchInv'
  <2>1. /\ target[w] \in Id /\ pc[w] = "remove" /\ UNCHANGED <<enabled, severed>>
        /\ accounts' = [accounts EXCEPT ![target[w]] = NoEmail]
        /\ \A p \in Platform : link'[p] = link[p] \/ link'[p] = NoId
    BY <1>3 DEF Remove, WorkInv, DeleteAccount, Removing
  <2>2. \A v \in Worker : pc'[v] = "remove" =>
          pc[v] = "remove" /\ target'[v] = target[v] /\ target[v] \in Id
    BY <1>3 DEF Remove, Answer, Goto, TypeOK, WorkInv, Removing
  <2>3. ASSUME NEW p \in Platform \ severed, enabled[p]
        PROVE  link[p] \in Present /\ link[p] # target[w] /\ link'[p] = link[p]
    <3>1. link[p] \in Present /\ link[p] # target[w]
      BY <2>1, <2>3
    <3> QED
      BY <3>1, <1>3 DEF Remove, DeleteAccount
  <2> QED
    BY <2>1, <2>2, <2>3 DEF TypeOK, Id, NoId
<1>4. ASSUME NEW w \in Worker, Link(w) PROVE SwitchInv'
  <2>1. /\ plat[w] \in Platform /\ UNCHANGED accounts
        /\ enabled' = [enabled EXCEPT ![plat[w]] = TRUE]
        /\ link' = [link EXCEPT ![plat[w]] = target[w]]
    BY <1>4 DEF Link, SetPlay, WorkInv
  <2>2. \A v \in Worker : pc'[v] = "remove" => pc[v] = "remove" /\ target'[v] = target[v]
    BY <1>4 DEF Link, Answer, Goto, TypeOK
  <2>3. \A p \in Platform \ {plat[w]} : p \in severed' <=> p \in severed
    BY <1>4 DEF Link
  <2>4. plat[w] \notin severed' =>
          /\ target[w] \in Present
          /\ \A v \in Worker : pc[v] = "remove" => target[v] # target[w]
    BY <1>4, <2>1 DEF Link
  <2> QED
    BY <2>1, <2>2, <2>3, <2>4 DEF TypeOK
<1>5. ASSUME NEW w \in Worker, Clear(w) PROVE SwitchInv'
  <2>1. /\ pc' = [pc EXCEPT ![w] = "remove"] /\ UNCHANGED <<accounts, link, target, severed>>
        /\ enabled' = [p \in Platform |-> enabled[p] /\ link[p] # target[w]]
    BY <1>5 DEF Clear, Goto, localVars, historyVars
  <2>2. \A p \in Platform : enabled'[p] => enabled[p] /\ link[p] # target[w]
    BY <2>1
  <2>3. \A v \in Worker \ {w} : pc'[v] = pc[v]
    BY <2>1 DEF TypeOK
  <2> QED
    BY <2>1, <2>2, <2>3 DEF TypeOK
<1>6. ASSUME NEW p \in Platform, Disable(p) PROVE SwitchInv'
  <2>1. /\ enabled' = [enabled EXCEPT ![p] = FALSE]
        /\ link' = [link EXCEPT ![p] = NoId]
        /\ severed' = severed \ {p}
        /\ UNCHANGED <<accounts, pc, target>>
    BY <1>6 DEF Disable, localVars
  <2> QED
    BY <2>1 DEF TypeOK
<1>7. CASE /\ \A w \in Worker :
                ~Drop(w) /\ ~Insert(w) /\ ~Remove(w) /\ ~Link(w) /\ ~Clear(w)
           /\ \A p \in Platform : ~Disable(p)
  <2>1. UNCHANGED <<accounts, enabled, link, severed>>
    BY <1>7 DEF Next, StartStore, Start, List, ListFault, StoreFails, StartEnable, Look,
       EnableFails, StartRemove, Check, RemoveFails, StartUse, Use, Crash,
       hubVars, historyVars
  <2>2. \A v \in Worker : pc'[v] = "remove" => pc[v] = "remove" /\ target'[v] = target[v]
    BY <1>7 DEF TypeOK, Next, StartStore, Start, Goto, Answer, List, ListFault, StoreFails,
       StartEnable, Look, EnableFails, StartRemove, Check, RemoveFails, StartUse,
       Use, Crash, localVars
  <2> QED
    BY <2>1, <2>2
<1> QED
  BY <1>1, <1>2, <1>3, <1>4, <1>5, <1>6, <1>7

-----------------------------------------------------------------------------
(* The theorems                                                            *)

\* Every step, and every stutter, preserves the invariant.
LEMMA StepAccountsInvariant == IInv /\ [Next]_vars => IInv'
<1> SUFFICES ASSUME IInv, [Next]_vars PROVE IInv'
  OBVIOUS
<1>1. CASE Next
  BY <1>1, StepWork, StepStore, StepGrant, StepNewest, StepKeep, StepSwitch DEF IInv
<1>2. CASE UNCHANGED vars
  BY <1>2 DEF IInv, TypeOK, WorkInv, StoreInv, GrantInv, NewestInv, KeepInv, SwitchInv,
     OnlyNewestKey, OnHasAccount, Of, Present, vars, hubVars, localVars, historyVars
<1> QED
  BY <1>1, <1>2

\* The invariant holds throughout.
LEMMA AccountsInvariance == Spec => []IInv
  BY StartsAccountsInvariant, StepAccountsInvariant, PTL DEF Spec

\* The tables and the requests stay well-typed: each request holds a platform
\* where a platform is meant and an email where an email is.
THEOREM AccountsTypeCorrect == Spec => []TypeOK
<1>1. IInv => TypeOK
  BY DEF IInv
<1> QED
  BY <1>1, AccountsInvariance, PTL

\* A push uses only an account its platform was switched on with, although
\* accounts are removed, rotated and stored between reading the platform row
\* and reading the account: AUTOINCREMENT never gives an id out again.
THEOREM PushesUseGranted == Spec => []PushUsesGranted
<1>1. IInv => PushUsesGranted
  BY DEF IInv, WorkInv, StoreInv, GrantInv, PushUsesGranted
<1> QED
  BY <1>1, AccountsInvariance, PTL

\* Rotating a key leaves the newest key as the email's only one, for every
\* email that no two requests stored at once and none of whose keys had become
\* unreadable, or the list of accounts, to a request that stored it.
THEOREM RotationLeavesNewest == Spec => []OnlyNewestKey
<1>1. IInv => OnlyNewestKey
  BY DEF IInv, NewestInv
<1> QED
  BY <1>1, AccountsInvariance, PTL

\* Rotating does not lose an account, unless it fails or dies between deleting
\* the old key and inserting the new one.
THEOREM RotationKeeps == Spec => []RotationKeepsAccount
<1>1. IInv => RotationKeepsAccount
  BY DEF IInv, KeepInv, RotationKeepsAccount, Storing
<1> QED
  BY <1>1, AccountsInvariance, PTL

\* Removing an account leaves no platform on without one; only a rotation, or
\* switching on during a removal, does.
THEOREM RemovalSwitchesOff == Spec => []OnHasAccount
<1>1. IInv => OnHasAccount
  BY DEF IInv, SwitchInv
<1> QED
  BY <1>1, AccountsInvariance, PTL
=============================================================================
