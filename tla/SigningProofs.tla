--------------------------- MODULE SigningProofs ---------------------------
(***************************************************************************)
(* Proofs about Signing, for any sets of requests about any platforms and  *)
(* whatever the environments, faults and restarts: what a platform stores  *)
(* fits together and opens under the secret it was stored with, it gets    *)
(* one generated key, which only an upload or a wipe replaces, and a       *)
(* certificate's name is that of one save.                                 *)
(***************************************************************************)
EXTENDS Signing, TLAPS

-----------------------------------------------------------------------------
(* The inductive invariant, in parts                                       *)

\* Requests that go through the fields have one left, others start at 1.
AtInv ==
    /\ \A r \in Save \cup Add : pc[r] \in {"idle", "insert"} => at[r] = 1
    /\ \A r \in Save \cup Add : pc[r] \in {"save", "subject"} => at[r] <= Fields

\* Who won a platform's INSERT won it alone, and the row is there.
WonInv ==
    /\ OneGenerator
    /\ \A p \in Platform : Won(p) # {} => row[p] # NoRow

\* Who keeps a key has stored it, under the secret of that moment.
HeldInv ==
    \A p \in Platform : Held(p) # NoKey =>
        /\ Target[Held(p)] = p
        /\ \/ Held(p) \in Add /\ pc[Held(p)] = "keyed"
           \/ Held(p) \in Upload /\ pc[Held(p)] = "stored"
        /\ row[p].keystore = Seal(Held(p), sealed[Held(p)])

Saving(s) == s \in Save /\ pc[s] = "save"

\* As long as nothing crossed, the settings are one save's, but for the fields
\* a save has not come to, and a name is the settings up to where it was read.
NameInv ==
    ~crossed =>
        /\ \A s, t \in Save : Saving(s) /\ Saving(t) => s = t
        /\ \A s \in Save : Saving(s) =>
            /\ \A a \in Add : pc[a] # "subject"
            /\ \A f \in Field : f < at[s] => settings[f] = s
            /\ \A f, g \in Field : f >= at[s] /\ g >= at[s] => settings[f] = settings[g]
        /\ (\A s \in Save : ~Saving(s)) => \A f, g \in Field : settings[f] = settings[g]
        /\ \A a \in Add \ faulted : pc[a] = "subject" =>
            \A f \in Field : f < at[a] => name[a][f] = settings[f]
        /\ NameFromOneSave

IInv == TypeOK /\ AtInv /\ KeyFitsPasswords /\ WonInv /\ HeldInv /\ NameInv

-----------------------------------------------------------------------------
\* An empty hub satisfies the invariant.
LEMMA StartsSigningInvariant == Init => IInv
<1> SUFFICES ASSUME Init PROVE IInv
  OBVIOUS
<1> USE SigningAssumption
<1>1. TypeOK
  <2>1. sealed \in [Keystore -> Env]
    BY DEF Init, Env
  <2>2. pc \in [Request -> Step \cup Done] /\ at \in [Request -> 1 .. Fields + 1]
    BY DEF Init, Step
  <2>3. row \in [Platform -> Row \cup {NoRow}] /\ settings \in [Field -> Save \cup {Unset}]
    BY DEF Init
  <2>4. name \in [Add -> [Field -> Save \cup {Unset}]]
    BY DEF Init
  <2>5. got \in [Fetch -> (Keystore \cup {NoKey}) \X (Keystore \cup {NoKey})]
    BY DEF Init
  <2>6. registered \in BOOLEAN /\ env \in Envs /\ crossed \in BOOLEAN
    BY DEF Init
  <2>7. faulted \subseteq Request
    BY DEF Init
  <2>8. restarts \in 0 .. MaxRestarts
    BY DEF Init
  <2> QED
    BY <2>1, <2>2, <2>3, <2>4, <2>5, <2>6, <2>7, <2>8 DEF TypeOK
<1>2. AtInv /\ KeyFitsPasswords /\ WonInv /\ HeldInv
  BY DEF Init, AtInv, KeyFitsPasswords, WonInv, OneGenerator, Won, HeldInv, Held, Request, Field, Platform
<1>3. NameInv
  BY DEF Init, NameInv, NameFromOneSave, Saving, Request
<1> QED
  BY <1>1, <1>2, <1>3 DEF IInv

\* A request that goes to its next step leaves the others where they are.
LEMMA GotoStep ==
    ASSUME TypeOK, NEW r \in Request, NEW step, Goto(r, step)
    PROVE  pc'[r] = step /\ \A q \in Request : q # r => pc'[q] = pc[q]
  BY DEF Goto, TypeOK

\* Where Next lets a request fail, and what is answered then.
Failure(from, answer) ==
    \/ from \in {"put", "wipe"} /\ answer = "failed"
    \/ from \in {"idle", "insert"} /\ answer \in {"unknown", "conflict"}
    \/ from = "store" /\ answer = "keyless"

\* A row without a key is a row.
LEMMA KeylessRow == Keyless \in Row /\ Keyless # NoRow /\ Keyless.keystore.of = NoKey
  BY NoRowAssumption DEF Row, Blob, Keyless, Blank

\* What SetSigning makes of a row.
Stored(k) == [keystore |-> Seal(k, env), config |-> Seal(k, env), sha |-> k]

LEMMA StoredRow ==
    ASSUME TypeOK, NEW k \in Keystore
    PROVE  /\ Stored(k) \in Row /\ Stored(k) # NoRow
           /\ Stored(k).keystore = Seal(k, env) /\ Seal(k, env).of = k
           /\ \A p \in Platform : SetSigning(p, k) => row' = [row EXCEPT ![p] = Stored(k)]
<1>1. env \in Env
  BY SigningAssumption DEF TypeOK
<1>2. Seal(k, env) \in Blob
  BY <1>1 DEF Seal, Blob, Env
<1>3. Stored(k) \in Row
  BY <1>2 DEF Stored, Row
<1> QED
  BY <1>3, NoRowAssumption DEF Stored, Seal, SetSigning


\* A step that leaves the kept keys alone.
LEMMA HeldFrame ==
    ASSUME TypeOK, HeldInv, sealed' = sealed,
           \A p \in Platform : Held(p)' = NoKey \/ row'[p] = row[p],
           \A k \in Keystore : pc[k] \in {"keyed", "stored"} => pc'[k] = pc[k]
    PROVE  HeldInv'
<1> SUFFICES ASSUME NEW p \in Platform, Held(p)' # NoKey
             PROVE  /\ Target[Held(p)'] = p
                    /\ \/ Held(p)' \in Add /\ pc'[Held(p)'] = "keyed"
                       \/ Held(p)' \in Upload /\ pc'[Held(p)'] = "stored"
                    /\ row'[p].keystore = Seal(Held(p), sealed[Held(p)])'
  BY DEF HeldInv
<1>1. row'[p] = row[p] /\ Held(p)' = Held(p)
  BY DEF Held
<1> QED
  BY <1>1 DEF HeldInv, Keystore, Seal

\* A key stored over whatever was there.
LEMMA HeldStore ==
    ASSUME TypeOK, HeldInv, NEW k \in Keystore, SetSigning(Target[k], k),
           sealed' = [sealed EXCEPT ![k] = env],
           pc[k] \notin {"keyed", "stored"},
           (k \in Add /\ pc'[k] = "keyed") \/ (k \in Upload /\ pc'[k] = "stored"),
           \A j \in Keystore : j # k => pc'[j] = pc[j]
    PROVE  HeldInv'
<1> SUFFICES ASSUME NEW p \in Platform, Held(p)' # NoKey
             PROVE  /\ Target[Held(p)'] = p
                    /\ \/ Held(p)' \in Add /\ pc'[Held(p)'] = "keyed"
                       \/ Held(p)' \in Upload /\ pc'[Held(p)'] = "stored"
                    /\ row'[p].keystore = Seal(Held(p)', sealed'[Held(p)'])
  BY DEF HeldInv, Seal
<1>1. Target[k] \in Platform /\ row' = [row EXCEPT ![Target[k]] = Stored(k)]
  BY SigningAssumption, StoredRow DEF Keystore, Request
<1>2. CASE p = Target[k]
  <2>1. row'[p] = Stored(k) /\ Held(p)' = k
    BY <1>1, <1>2, StoredRow DEF TypeOK, Held
  <2> QED
    BY <1>2, <2>1, StoredRow DEF TypeOK
<1>3. CASE p # Target[k]
  <2>1. row'[p] = row[p] /\ Held(p)' = Held(p)
    BY <1>1, <1>3 DEF TypeOK, Held
  <2>2. Held(p) \in Keystore /\ Held(p) # k
    BY <2>1 DEF HeldInv, Keystore
  <2> QED
    BY <2>1, <2>2 DEF HeldInv, TypeOK
<1> QED
  BY <1>2, <1>3

\* A step that neither reads a name nor finishes one.
LEMMA NamesKept ==
    ASSUME NameInv, name' = name, faulted \subseteq faulted', crossed => crossed',
           \A a \in Add : pc'[a] \in {"store", "keyed", "keyless"} => pc'[a] = pc[a]
    PROVE  NameFromOneSave'
  BY DEF NameInv, NameFromOneSave

\* A step that neither names nor saves.
LEMMA NameFrame ==
    ASSUME NameInv, UNCHANGED <<settings, at, name>>, faulted \subseteq faulted',
           crossed => crossed',
           \A s \in Save : ~crossed' => (Saving(s)' <=> Saving(s)),
           \A a \in Add : pc'[a] = "subject" => pc[a] = "subject",
           \A a \in Add : pc'[a] \in {"store", "keyed", "keyless"} =>
                            pc[a] \in {"store", "keyed", "keyless"}
    PROVE  NameInv'
<1> SUFFICES ASSUME ~crossed' PROVE NameInv'
  BY DEF NameInv
<1>1. NameFromOneSave'
  BY DEF NameInv, NameFromOneSave
<1> QED
  BY <1>1 DEF NameInv

\* Every step leaves the state well-typed and the fields counted.
LEMMA StepSigningTypes ==
    ASSUME TypeOK, AtInv, Next
    PROVE  TypeOK' /\ AtInv'
<1> USE SigningAssumption, NoRowAssumption DEF TypeOK, AtInv, Step, Done, Answered, Keystore, Field, Request, Goto, dbVars, localVars, history, Platform
<1>1. ASSUME NEW r \in Register, CreateApp(r) PROVE TypeOK' /\ AtInv'
  BY <1>1 DEF CreateApp
<1>2. ASSUME NEW a \in Add, FindApp(a) PROVE TypeOK' /\ AtInv'
  BY <1>2 DEF FindApp
<1>3. ASSUME NEW a \in Add, AddPlatform(a) PROVE TypeOK' /\ AtInv'
  <2>1. row' \in [Platform -> Row \cup {NoRow}]
    BY <1>3, KeylessRow DEF AddPlatform
  <2>2. PICK answer \in {"subject", "created", "conflict"} : Goto(a, answer)
    BY <1>3 DEF AddPlatform
  <2>3. \A r \in Request : pc'[r] = IF r = a THEN answer ELSE pc[r]
    BY <2>2
  <2>4. pc[a] = "insert"
    BY <1>3 DEF AddPlatform
  <2>5. /\ UNCHANGED <<registered, settings, env, localVars, faulted, restarts, sealed>>
        /\ crossed' \in BOOLEAN
    BY <1>3 DEF AddPlatform
  <2> QED
    BY <2>1, <2>2, <2>3, <2>4, <2>5
<1>4. ASSUME NEW a \in Add, ReadField(a) PROVE TypeOK' /\ AtInv'
  <2>1. at[a] \in Field /\ at' \in [Request -> 1 .. Fields + 1]
    BY <1>4 DEF ReadField
  <2>2. name' \in [Add -> [Field -> Save \cup {Unset}]]
    <3>1. CASE UNCHANGED name
      BY <3>1
    <3>2. CASE name' = [name EXCEPT ![a][at[a]] = settings[at[a]]]
      <4>1. name[a] \in [Field -> Save \cup {Unset}] /\ settings[at[a]] \in Save \cup {Unset}
        BY <2>1
      <4>2. [name[a] EXCEPT ![at[a]] = settings[at[a]]] \in [Field -> Save \cup {Unset}]
        BY <4>1
      <4> QED
        BY <3>2, <4>2
    <3> QED
      BY <1>4, <3>1, <3>2 DEF ReadField
  <2>3. pc' \in [Request -> Step \cup Done] /\ faulted' \subseteq Request
    BY <1>4 DEF ReadField, Fault
  <2>4. UNCHANGED <<dbVars, env, got, history>>
    BY <1>4 DEF ReadField
  <2>5. TypeOK'
    BY <2>1, <2>2, <2>3, <2>4
  <2>6. AtInv'
    <3>1. pc[a] = "subject" /\ at' = [at EXCEPT ![a] = @ + 1]
      BY <1>4 DEF ReadField
    <3>2. IF at[a] = Fields THEN pc' = [pc EXCEPT ![a] = "store"] ELSE pc' = pc
      BY <1>4 DEF ReadField
    <3> QED
      BY <2>1, <3>1, <3>2
  <2> QED
    BY <2>5, <2>6
<1>5. ASSUME NEW a \in Add, StoreGenerated(a) PROVE TypeOK' /\ AtInv'
  <2>1. a \in Keystore /\ a \in Request /\ Target[a] \in Platform
    OBVIOUS
  <2>2. row' \in [Platform -> Row \cup {NoRow}]
    BY <1>5, <2>1, StoredRow DEF StoreGenerated
  <2>7. sealed' \in [Keystore -> Env]
    <3>1. env \in Env /\ (sealed' = sealed \/ sealed' = [sealed EXCEPT ![a] = env])
      BY <1>5 DEF StoreGenerated
    <3> QED
      BY <2>1, <3>1, ZenonT(40)
  <2>3. pc' \in [Request -> Step \cup Done]
    BY <1>5 DEF StoreGenerated
  <2>4. pc[a] = "store" /\ \A r \in Request : r # a => pc'[r] = pc[r]
    BY <1>5 DEF StoreGenerated
  <2>5. pc'[a] \in {"keyed", "keyless", "stored"}
    BY <1>5, <2>1 DEF StoreGenerated
  <2>6. UNCHANGED <<registered, settings, env, localVars, faulted, restarts, crossed>>
    BY <1>5 DEF StoreGenerated
  <2> QED
    BY <2>2, <2>3, <2>4, <2>5, <2>6, <2>7
<1>6. ASSUME NEW r \in Request, NEW from, NEW answer, Failure(from, answer),
             Fails(r, from, answer) PROVE TypeOK' /\ AtInv'
  BY <1>6 DEF Fails, Fault, Failure
<1>7. ASSUME NEW r \in Upload \cup Wipe \cup Fetch, Unknown(r) PROVE TypeOK' /\ AtInv'
  BY <1>7 DEF Unknown
<1>8. ASSUME NEW u \in Upload, BeginUpload(u) PROVE TypeOK' /\ AtInv'
  BY <1>8 DEF BeginUpload
<1>9. ASSUME NEW u \in Upload, StoreUploaded(u) PROVE TypeOK' /\ AtInv'
  <2>1. u \in Keystore /\ u \in Request /\ Target[u] \in Platform
    OBVIOUS
  <2>2. row' \in [Platform -> Row \cup {NoRow}]
    <3>1. row' = [row EXCEPT ![Target[u]] = Stored(u)] /\ Stored(u) \in Row
      BY <1>9, <2>1, StoredRow DEF StoreUploaded
    <3> QED
      BY <2>1, <3>1
  <2>7. sealed' \in [Keystore -> Env]
    BY <1>9, <2>1 DEF StoreUploaded
  <2>3. pc' \in [Request -> Step \cup Done]
    BY <1>9 DEF StoreUploaded
  <2>4. pc[u] = "put" /\ \A r \in Request : r # u => pc'[r] = pc[r]
    BY <1>9 DEF StoreUploaded
  <2>5. pc'[u] \in {"keyed", "keyless", "stored"}
    BY <1>9, <2>1 DEF StoreUploaded
  <2>6. UNCHANGED <<registered, settings, env, localVars, faulted, restarts, crossed>>
    BY <1>9 DEF StoreUploaded
  <2> QED
    BY <2>2, <2>3, <2>4, <2>5, <2>6, <2>7
<1>10. ASSUME NEW w \in Wipe, BeginWipe(w) PROVE TypeOK' /\ AtInv'
  BY <1>10 DEF BeginWipe
<1>11. ASSUME NEW w \in Wipe, WipeKey(w) PROVE TypeOK' /\ AtInv'
  <2>1. row' \in [Platform -> Row \cup {NoRow}]
    BY <1>11, KeylessRow DEF WipeKey
  <2> QED
    BY <1>11, <2>1 DEF WipeKey
<1>12. ASSUME NEW f \in Fetch, FetchKey(f) PROVE TypeOK' /\ AtInv'
  <2>1. pc' \in [Request -> Step \cup Done]
    BY <1>12 DEF FetchKey
  <2>2. row[Target[f]] \in Row
    BY <1>12 DEF FetchKey
  <2>3. got' \in [Fetch -> (Keystore \cup {NoKey}) \X (Keystore \cup {NoKey})]
    <3>1. row[Target[f]].keystore.of \in Keystore \cup {NoKey}
      BY <2>2 DEF Row, Blob
    <3>2. row[Target[f]].config.of \in Keystore \cup {NoKey}
      BY <2>2 DEF Row, Blob
    <3>3. \/ got' = got
          \/ got' = [got EXCEPT ![f] = <<row[Target[f]].keystore.of, row[Target[f]].config.of>>]
      BY <1>12 DEF FetchKey
    <3> HIDE DEF TypeOK
    <3>4. got \in [Fetch -> (Keystore \cup {NoKey}) \X (Keystore \cup {NoKey})]
      BY DEF TypeOK
    <3> QED
      BY <3>1, <3>2, <3>3, <3>4
  <2>4. \A r \in Save \cup Add : pc'[r] = pc[r]
    BY <1>12 DEF FetchKey
  <2>5. UNCHANGED <<dbVars, env, at, name, faulted, history>>
    BY <1>12 DEF FetchKey
  <2> QED
    BY <2>1, <2>3, <2>4, <2>5
<1>13. ASSUME NEW s \in Save, BeginSave(s) PROVE TypeOK' /\ AtInv'
  BY <1>13 DEF BeginSave
<1>14. ASSUME NEW s \in Save, SaveField(s) PROVE TypeOK' /\ AtInv'
  BY <1>14, SMTT(30) DEF SaveField
<1>15. ASSUME NEW s \in Save, SaveFails(s) PROVE TypeOK' /\ AtInv'
  BY <1>15 DEF SaveFails, Fault
<1>16. ASSUME Restart PROVE TypeOK' /\ AtInv'
  BY <1>16 DEF Restart
<1> QED
  BY <1>1, <1>2, <1>3, <1>4, <1>5, <1>6, <1>7, <1>8, <1>9, <1>10, <1>11, <1>12, <1>13, <1>14, <1>15, <1>16
  DEF Next, AddStep, Failure, Request

\* Every step leaves each row with passwords and hash of its keystore.
LEMMA StepFits ==
    ASSUME TypeOK, KeyFitsPasswords, Next
    PROVE  KeyFitsPasswords'
<1> USE SigningAssumption, NoRowAssumption DEF TypeOK, KeyFitsPasswords, Keystore, Request, Goto, dbVars, localVars, history, Platform
<1>1. ASSUME NEW r \in Register, CreateApp(r) PROVE KeyFitsPasswords'
  BY <1>1 DEF CreateApp
<1>2. ASSUME NEW a \in Add, FindApp(a) PROVE KeyFitsPasswords'
  BY <1>2 DEF FindApp
<1>3. ASSUME NEW a \in Add, AddPlatform(a) PROVE KeyFitsPasswords'
  <2>1. \A p \in Platform : row'[p] = row[p] \/ row'[p] = Keyless
    BY <1>3 DEF AddPlatform
  <2>2. got' = got
    BY <1>3 DEF AddPlatform
  <2> QED
    BY <2>1, <2>2 DEF Keyless, Blank
<1>4. ASSUME NEW a \in Add, ReadField(a) PROVE KeyFitsPasswords'
  BY <1>4 DEF ReadField, Fault
<1>5. ASSUME NEW a \in Add, StoreGenerated(a) PROVE KeyFitsPasswords'
  <2>1. \A p \in Platform : row'[p] = row[p] \/ row'[p] = Stored(a)
    BY <1>5, StoredRow DEF StoreGenerated
  <2>2. got' = got
    BY <1>5 DEF StoreGenerated
  <2> QED
    BY <2>1, <2>2 DEF Stored, Seal
<1>6. ASSUME NEW r \in Request, NEW from, NEW answer, Failure(from, answer),
             Fails(r, from, answer) PROVE KeyFitsPasswords'
  BY <1>6 DEF Fails, Fault, Failure
<1>7. ASSUME NEW r \in Upload \cup Wipe \cup Fetch, Unknown(r) PROVE KeyFitsPasswords'
  BY <1>7 DEF Unknown
<1>8. ASSUME NEW u \in Upload, BeginUpload(u) PROVE KeyFitsPasswords'
  BY <1>8 DEF BeginUpload
<1>9. ASSUME NEW u \in Upload, StoreUploaded(u) PROVE KeyFitsPasswords'
  <2>1. \A p \in Platform : row'[p] = row[p] \/ row'[p] = Stored(u)
    BY <1>9, StoredRow DEF StoreUploaded
  <2>2. got' = got
    BY <1>9 DEF StoreUploaded
  <2> QED
    BY <2>1, <2>2 DEF Stored, Seal
<1>10. ASSUME NEW w \in Wipe, BeginWipe(w) PROVE KeyFitsPasswords'
  BY <1>10 DEF BeginWipe
<1>11. ASSUME NEW w \in Wipe, WipeKey(w) PROVE KeyFitsPasswords'
  <2>1. \A p \in Platform : row'[p] = row[p] \/ row'[p] = Keyless
    BY <1>11 DEF WipeKey
  <2>2. got' = got
    BY <1>11 DEF WipeKey
  <2> QED
    BY <2>1, <2>2 DEF Keyless, Blank
<1>12. ASSUME NEW f \in Fetch, FetchKey(f) PROVE KeyFitsPasswords'
  BY <1>12 DEF FetchKey
<1>13. ASSUME NEW s \in Save, BeginSave(s) PROVE KeyFitsPasswords'
  BY <1>13 DEF BeginSave
<1>14. ASSUME NEW s \in Save, SaveField(s) PROVE KeyFitsPasswords'
  BY <1>14 DEF SaveField
<1>15. ASSUME NEW s \in Save, SaveFails(s) PROVE KeyFitsPasswords'
  BY <1>15 DEF SaveFails, Fault
<1>16. ASSUME Restart PROVE KeyFitsPasswords'
  BY <1>16 DEF Restart
<1> QED
  BY <1>1, <1>2, <1>3, <1>4, <1>5, <1>6, <1>7, <1>8, <1>9, <1>10, <1>11, <1>12, <1>13, <1>14, <1>15, <1>16
  DEF Next, AddStep, Failure, Request

\* No step gives a platform a second generator.
LEMMA StepWon ==
    ASSUME TypeOK, WonInv, Next
    PROVE  WonInv'
<1> USE SigningAssumption, NoRowAssumption DEF TypeOK, WonInv, OneGenerator, Won, Keystore, Request, Goto, dbVars, localVars, history, Platform
<1>1. ASSUME NEW r \in Register, CreateApp(r) PROVE WonInv'
  BY <1>1 DEF CreateApp
<1>2. ASSUME NEW a \in Add, FindApp(a) PROVE WonInv'
  BY <1>2 DEF FindApp
<1>3. ASSUME NEW a \in Add, AddPlatform(a) PROVE WonInv'
  <2>1. CASE row[Target[a]] # NoRow
    BY <1>3, <2>1 DEF AddPlatform
  <2>2. CASE row[Target[a]] = NoRow
    <3>1. row' = [row EXCEPT ![Target[a]] = Keyless] /\ Keyless # NoRow
      BY <1>3, <2>2, KeylessRow DEF AddPlatform
    <3>2. Won(Target[a]) = {}
      BY <2>2
    <3>3. \A b \in Add : b # a => pc'[b] = pc[b]
      BY <1>3 DEF AddPlatform
    <3>4. \A p \in Platform, b \in Add :
            b \in Won(p)' => b \in Won(p) \/ (b = a /\ p = Target[a])
      BY <3>3
    <3> QED
      BY <3>1, <3>2, <3>4
  <2> QED
    BY <2>1, <2>2
<1>4. ASSUME NEW a \in Add, ReadField(a) PROVE WonInv'
  BY <1>4 DEF ReadField, Fault
<1>5. ASSUME NEW a \in Add, StoreGenerated(a) PROVE WonInv'
  <2>1. \A p \in Platform : row[p] # NoRow => row'[p] # NoRow
    BY <1>5, StoredRow DEF StoreGenerated
  <2>2. \A b \in Add : pc'[b] # pc[b] => pc[b] = "store"
    BY <1>5 DEF StoreGenerated
  <2>3. \A p \in Platform : Won(p)' \subseteq Won(p)
    BY <2>2
  <2> QED
    BY <2>1, <2>3
<1>6. ASSUME NEW r \in Request, NEW from, NEW answer, Failure(from, answer),
             Fails(r, from, answer) PROVE WonInv'
  BY <1>6 DEF Fails, Fault, Failure
<1>7. ASSUME NEW r \in Upload \cup Wipe \cup Fetch, Unknown(r) PROVE WonInv'
  BY <1>7 DEF Unknown
<1>8. ASSUME NEW u \in Upload, BeginUpload(u) PROVE WonInv'
  BY <1>8 DEF BeginUpload
<1>9. ASSUME NEW u \in Upload, StoreUploaded(u) PROVE WonInv'
  <2>1. \A p \in Platform : row[p] # NoRow => row'[p] # NoRow
    BY <1>9, StoredRow DEF StoreUploaded
  <2>2. \A b \in Add : pc'[b] # pc[b] => pc[b] = "store"
    BY <1>9 DEF StoreUploaded
  <2>3. \A p \in Platform : Won(p)' \subseteq Won(p)
    BY <2>2
  <2> QED
    BY <2>1, <2>3
<1>10. ASSUME NEW w \in Wipe, BeginWipe(w) PROVE WonInv'
  BY <1>10 DEF BeginWipe
<1>11. ASSUME NEW w \in Wipe, WipeKey(w) PROVE WonInv'
  <2>1. \A p \in Platform : row[p] # NoRow => row'[p] # NoRow
    BY <1>11, KeylessRow DEF WipeKey
  <2>2. \A p \in Platform : Won(p)' \subseteq Won(p)
    BY <1>11 DEF WipeKey
  <2> QED
    BY <2>1, <2>2
<1>12. ASSUME NEW f \in Fetch, FetchKey(f) PROVE WonInv'
  BY <1>12 DEF FetchKey
<1>13. ASSUME NEW s \in Save, BeginSave(s) PROVE WonInv'
  BY <1>13 DEF BeginSave
<1>14. ASSUME NEW s \in Save, SaveField(s) PROVE WonInv'
  BY <1>14 DEF SaveField
<1>15. ASSUME NEW s \in Save, SaveFails(s) PROVE WonInv'
  BY <1>15 DEF SaveFails, Fault
<1>16. ASSUME Restart PROVE WonInv'
  BY <1>16, ZenonT(40) DEF Restart
<1> QED
  BY <1>1, <1>2, <1>3, <1>4, <1>5, <1>6, <1>7, <1>8, <1>9, <1>10, <1>11, <1>12, <1>13, <1>14, <1>15, <1>16
  DEF Next, AddStep, Failure, Request

\* Every step leaves the keys where they were stored and as they were sealed.
LEMMA StepHeld ==
    ASSUME TypeOK, HeldInv, Next
    PROVE  HeldInv'
<1> USE SigningAssumption, NoRowAssumption DEF TypeOK, HeldInv, Held, Keystore, Request, Goto, dbVars, localVars, history, Platform
<1>1. ASSUME NEW r \in Register, CreateApp(r) PROVE HeldInv'
  BY <1>1 DEF CreateApp
<1>2. ASSUME NEW a \in Add, FindApp(a) PROVE HeldInv'
  BY <1>2 DEF FindApp
<1>3. ASSUME NEW a \in Add, AddPlatform(a) PROVE HeldInv'
  <2>1. \A p \in Platform : row'[p] = row[p] \/ row'[p] = Keyless
    BY <1>3 DEF AddPlatform
  <2>2. \A k \in Keystore : pc[k] \in {"keyed", "stored"} => pc'[k] = pc[k]
    BY <1>3 DEF AddPlatform
  <2>3. sealed' = sealed
    BY <1>3 DEF AddPlatform
  <2> QED
    BY <2>1, <2>2, <2>3, HeldFrame, KeylessRow
<1>4. ASSUME NEW a \in Add, ReadField(a) PROVE HeldInv'
  BY <1>4 DEF ReadField, Fault
<1>5. ASSUME NEW a \in Add, StoreGenerated(a) PROVE HeldInv'
  <2>1. CASE CanSeal(env)
    <3>1. SetSigning(Target[a], a) /\ sealed' = [sealed EXCEPT ![a] = env] /\ Goto(a, "keyed")
      BY <1>5, <2>1 DEF StoreGenerated
    <3>2. pc[a] = "store" /\ a \in Keystore /\ a \in Request /\ Keystore \subseteq Request
      BY <1>5 DEF StoreGenerated
    <3>3. pc'[a] = "keyed" /\ \A j \in Keystore : j # a => pc'[j] = pc[j]
      BY <3>1, <3>2, GotoStep
    <3> HIDE DEF TypeOK, HeldInv, Keystore
    <3> QED
      BY <3>1, <3>2, <3>3, HeldStore
  <2>2. CASE ~CanSeal(env)
    BY <1>5, <2>2, HeldFrame DEF StoreGenerated
  <2> QED
    BY <2>1, <2>2
<1>6. ASSUME NEW r \in Request, NEW from, NEW answer, Failure(from, answer),
             Fails(r, from, answer) PROVE HeldInv'
  BY <1>6 DEF Fails, Fault, Failure
<1>7. ASSUME NEW r \in Upload \cup Wipe \cup Fetch, Unknown(r) PROVE HeldInv'
  BY <1>7 DEF Unknown
<1>8. ASSUME NEW u \in Upload, BeginUpload(u) PROVE HeldInv'
  BY <1>8 DEF BeginUpload
<1>9. ASSUME NEW u \in Upload, StoreUploaded(u) PROVE HeldInv'
  <2>1. SetSigning(Target[u], u) /\ sealed' = [sealed EXCEPT ![u] = env] /\ Goto(u, "stored")
    BY <1>9 DEF StoreUploaded
  <2>2. pc[u] = "put" /\ u \in Keystore /\ u \in Request /\ Keystore \subseteq Request
    BY <1>9 DEF StoreUploaded
  <2>3. pc'[u] = "stored" /\ \A j \in Keystore : j # u => pc'[j] = pc[j]
    BY <2>1, <2>2, GotoStep
  <2> HIDE DEF TypeOK, HeldInv, Keystore
  <2> QED
    BY <2>1, <2>2, <2>3, HeldStore
<1>10. ASSUME NEW w \in Wipe, BeginWipe(w) PROVE HeldInv'
  BY <1>10 DEF BeginWipe
<1>11. ASSUME NEW w \in Wipe, WipeKey(w) PROVE HeldInv'
  <2>1. \A p \in Platform : row'[p] = row[p] \/ row'[p] = Keyless
    BY <1>11 DEF WipeKey
  <2>2. \A k \in Keystore : pc[k] \in {"keyed", "stored"} => pc'[k] = pc[k]
    BY <1>11 DEF WipeKey
  <2>3. sealed' = sealed
    BY <1>11 DEF WipeKey
  <2> QED
    BY <2>1, <2>2, <2>3, HeldFrame, KeylessRow
<1>12. ASSUME NEW f \in Fetch, FetchKey(f) PROVE HeldInv'
  BY <1>12 DEF FetchKey
<1>13. ASSUME NEW s \in Save, BeginSave(s) PROVE HeldInv'
  BY <1>13 DEF BeginSave
<1>14. ASSUME NEW s \in Save, SaveField(s) PROVE HeldInv'
  BY <1>14 DEF SaveField
<1>15. ASSUME NEW s \in Save, SaveFails(s) PROVE HeldInv'
  BY <1>15 DEF SaveFails, Fault
<1>16. ASSUME Restart PROVE HeldInv'
  <2>1. \A p \in Platform : row'[p] = row[p] \/ row'[p] = Keyless
    BY <1>16 DEF Restart
  <2>2. \A k \in Keystore : pc[k] \in {"keyed", "stored"} => pc'[k] = pc[k]
    BY <1>16 DEF Restart, Step
  <2>3. sealed' = sealed
    BY <1>16 DEF Restart
  <2> QED
    BY <2>1, <2>2, <2>3, HeldFrame, KeylessRow
<1> QED
  BY <1>1, <1>2, <1>3, <1>4, <1>5, <1>6, <1>7, <1>8, <1>9, <1>10, <1>11, <1>12, <1>13, <1>14, <1>15, <1>16
  DEF Next, AddStep, Failure, Request

\* Every step leaves names and settings of one save, unless it crosses two.
LEMMA StepName ==
    ASSUME TypeOK, AtInv, NameInv, Next
    PROVE  NameInv'
<1> USE SigningAssumption, NoRowAssumption DEF TypeOK, AtInv, NameInv, NameFromOneSave, Saving, Naming, Field, Request, Goto, dbVars, localVars, history, Platform
<1>1. ASSUME NEW r \in Register, CreateApp(r) PROVE NameInv'
  BY <1>1 DEF CreateApp
<1>2. ASSUME NEW a \in Add, FindApp(a) PROVE NameInv'
  BY <1>2 DEF FindApp
<1>3. ASSUME NEW a \in Add, AddPlatform(a) PROVE NameInv'
  <2>1. PICK answer \in {"subject", "created", "conflict"} : Goto(a, answer)
    BY <1>3 DEF AddPlatform
  <2>2. pc'[a] = answer /\ \A r \in Save \cup Add : r # a => pc'[r] = pc[r]
    BY <2>1, GotoStep
  <2>3. pc[a] = "insert" /\ UNCHANGED <<settings, at, name, faulted>>
    BY <1>3 DEF AddPlatform
  <2>4. \/ crossed' = crossed /\ pc'[a] # "subject"
        \/ crossed' = (crossed \/ \E s \in Save : pc[s] = "save")
    BY <1>3, <2>2 DEF AddPlatform
  <2>5. SUFFICES ASSUME ~crossed' PROVE NameInv'
    OBVIOUS
  <2>6. \A s \in Save : Saving(s)' <=> Saving(s)
    BY <2>2, ZenonT(40)
  <2>7. (\E s \in Save : Saving(s)) => pc'[a] # "subject"
    BY <2>4, <2>5
  <2>8. at[a] = 1
    BY <2>3
  <2>9. NameFromOneSave'
    <3>1. \A b \in Add : pc'[b] \in {"store", "keyed", "keyless"} => pc'[b] = pc[b]
      BY <2>2
    <3> QED
      BY <2>3, <2>4, <2>5, <3>1, NamesKept
  <2>10. \A s \in Save : Saving(s)' => \A b \in Add : pc'[b] # "subject"
    BY <2>2, <2>4, <2>5, <2>6, <2>7
  <2>11. \A b \in Add \ faulted' : pc'[b] = "subject" =>
            \A f \in Field : f < at'[b] => name'[b][f] = settings'[f]
    <3>1. ASSUME NEW b \in Add \ faulted', pc'[b] = "subject",
                 NEW f \in Field, f < at'[b]
          PROVE  name'[b][f] = settings'[f]
      <4>1. b # a
        BY <2>3, <2>8, <3>1
      <4>2. pc[b] = "subject"
        BY <2>2, <3>1, <4>1
      <4> QED
        BY <2>3, <2>4, <2>5, <3>1, <4>2
    <3> QED
      BY <3>1
  <2>12. ~crossed
    BY <2>4, <2>5
  <2> QED
    BY <2>3, <2>6, <2>9, <2>10, <2>11, <2>12
<1>4. ASSUME NEW a \in Add, ReadField(a) PROVE NameInv'
  <2>1. /\ pc[a] = "subject" /\ at[a] \in Field
        /\ UNCHANGED <<settings, crossed>> /\ at' = [at EXCEPT ![a] = @ + 1]
    BY <1>4 DEF ReadField
  <2>2. /\ \A r \in Save \cup Add : r # a => pc'[r] = pc[r]
        /\ pc'[a] = IF at[a] = Fields THEN "store" ELSE "subject"
    BY <1>4 DEF ReadField
  <2>3. faulted \subseteq faulted'
    BY <1>4 DEF ReadField, Fault
  <2>4. /\ \A b \in Add : b # a => name'[b] = name[b]
        /\ a \notin faulted' =>
            \A f \in Field : name'[a][f] = IF f = at[a] THEN settings[f] ELSE name[a][f]
    BY <1>4, <2>1 DEF ReadField, Fault
  <2>5. SUFFICES ASSUME ~crossed' PROVE NameInv'
    OBVIOUS
  <2>6. \A s \in Save : ~Saving(s) /\ ~Saving(s)'
    BY <2>1, <2>2, <2>5
  <2>7. a \notin faulted' => \A f \in Field : f < at'[a] => name'[a][f] = settings[f]
    <3>1. a \notin faulted' => \A f \in Field : f < at[a] => name[a][f] = settings[f]
      BY <2>1, <2>3, <2>5
    <3>2. at'[a] = at[a] + 1
      BY <2>1
    <3> QED
      <4> HIDE DEF TypeOK, AtInv, NameInv
      <4> QED
        BY <2>1, <2>4, <3>1, <3>2
  <2>8. \A f, g \in Field : settings[f] = settings[g]
    BY <2>1, <2>5, <2>6
  <2>9. NameFromOneSave'
    <3>1. ASSUME NEW b \in Add \ faulted', pc'[b] \in {"store", "keyed", "keyless"},
                 NEW f \in Field, NEW g \in Field
          PROVE  name'[b][f] = name'[b][g]
      <4>1. CASE b = a
        <5>1. at'[a] = Fields + 1
          BY <2>1, <2>2, <3>1, <4>1
        <5> QED
          BY <2>7, <2>8, <3>1, <4>1, <5>1
      <4>2. CASE b # a
        BY <2>1, <2>2, <2>3, <2>4, <2>5, <3>1, <4>2
      <4> QED
        BY <4>1, <4>2
    <3> QED
      BY <3>1
  <2>10. \A b \in Add \ faulted' : pc'[b] = "subject" =>
            \A f \in Field : f < at'[b] => name'[b][f] = settings'[f]
    BY <2>1, <2>2, <2>3, <2>4, <2>5, <2>7
  <2> QED
    BY <2>1, <2>6, <2>8, <2>9, <2>10
<1>5. ASSUME NEW a \in Add, StoreGenerated(a) PROVE NameInv'
  <2>1. pc[a] = "store" /\ \A r \in Request : r # a => pc'[r] = pc[r]
    BY <1>5 DEF StoreGenerated
  <2>2. pc'[a] \in {"keyed", "keyless"}
    BY <1>5 DEF StoreGenerated
  <2>3. UNCHANGED <<settings, at, name, faulted, crossed>>
    BY <1>5 DEF StoreGenerated
  <2>4. \A s \in Save : Saving(s)' <=> Saving(s)
    BY <2>1, <2>2
  <2> QED
    BY <2>1, <2>2, <2>3, <2>4, NameFrame
<1>6. ASSUME NEW r \in Request, NEW from, NEW answer, Failure(from, answer),
             Fails(r, from, answer) PROVE NameInv'
  BY <1>6 DEF Fails, Fault, Failure
<1>7. ASSUME NEW r \in Upload \cup Wipe \cup Fetch, Unknown(r) PROVE NameInv'
  BY <1>7 DEF Unknown
<1>8. ASSUME NEW u \in Upload, BeginUpload(u) PROVE NameInv'
  BY <1>8 DEF BeginUpload
<1>9. ASSUME NEW u \in Upload, StoreUploaded(u) PROVE NameInv'
  BY <1>9 DEF StoreUploaded, SetSigning
<1>10. ASSUME NEW w \in Wipe, BeginWipe(w) PROVE NameInv'
  BY <1>10 DEF BeginWipe
<1>11. ASSUME NEW w \in Wipe, WipeKey(w) PROVE NameInv'
  BY <1>11 DEF WipeKey
<1>12. ASSUME NEW f \in Fetch, FetchKey(f) PROVE NameInv'
  <2>1. \A r \in Save \cup Add : pc'[r] = pc[r]
    BY <1>12 DEF FetchKey
  <2>2. UNCHANGED <<settings, at, name, faulted, crossed>>
    BY <1>12 DEF FetchKey
  <2> QED
    BY <2>1, <2>2, NameFrame
<1>13. ASSUME NEW s \in Save, BeginSave(s) PROVE NameInv'
  <2>1. /\ pc[s] = "idle" /\ at[s] = 1 /\ UNCHANGED <<settings, at, name, faulted>>
        /\ crossed' = (crossed \/ \E r \in Save \cup Add : Naming(r))
    BY <1>13 DEF BeginSave
  <2>2. pc'[s] = "save" /\ \A r \in Save \cup Add : r # s => pc'[r] = pc[r]
    BY <1>13 DEF BeginSave
  <2>3. SUFFICES ASSUME ~crossed' PROVE NameInv'
    OBVIOUS
  <2>4. /\ \A r \in Save : ~Saving(r)
        /\ \A b \in Add : pc[b] # "subject" /\ pc'[b] # "subject"
    BY <2>1, <2>2, <2>3, ZenonT(40)
  <2>5. \A r \in Save : Saving(r)' => r = s
    BY <2>2, <2>4
  <2>6. \A f, g \in Field : settings'[f] = settings'[g]
    BY <2>1, <2>3, <2>4
  <2>7. NameFromOneSave'
    <3>1. \A b \in Add : pc'[b] = pc[b]
      <4> s \notin Add
        OBVIOUS
      <4> HIDE DEF TypeOK, AtInv, NameInv
      <4> QED
        BY <2>2
    <3> QED
      BY <2>1, <3>1, NamesKept
  <2> QED
    BY <2>1, <2>2, <2>4, <2>5, <2>6, <2>7
<1>14. ASSUME NEW s \in Save, SaveField(s) PROVE NameInv'
  <2>1. /\ Saving(s) /\ at[s] \in Field /\ UNCHANGED <<name, faulted, crossed>>
        /\ settings' = [settings EXCEPT ![at[s]] = s] /\ at' = [at EXCEPT ![s] = @ + 1]
    BY <1>14 DEF SaveField
  <2>2. /\ \A r \in Save \cup Add : r # s => pc'[r] = pc[r]
        /\ pc'[s] = IF at[s] = Fields THEN "saved" ELSE "save"
    BY <1>14 DEF SaveField
  <2>3. SUFFICES ASSUME ~crossed' PROVE NameInv'
    OBVIOUS
  <2>4. /\ \A r \in Save : Saving(r) => r = s
        /\ \A b \in Add : pc[b] # "subject" /\ pc'[b] # "subject"
    BY <2>1, <2>2, <2>3
  <2>5. \A r \in Save : Saving(r)' => r = s
    BY <2>2, <2>4
  <2>6. /\ \A f \in Field : f < at'[s] => settings'[f] = s
        /\ \A f, g \in Field : f >= at'[s] /\ g >= at'[s] => settings'[f] = settings'[g]
    BY <2>1, <2>3
  <2>7. ~Saving(s)' => \A f, g \in Field : settings'[f] = settings'[g]
    BY <2>1, <2>2, <2>6
  <2>8. NameFromOneSave'
    <3>1. \A b \in Add : pc'[b] = pc[b]
      <4> s \notin Add
        OBVIOUS
      <4> HIDE DEF TypeOK, AtInv, NameInv
      <4> QED
        BY <2>2
    <3> QED
      BY <2>1, <3>1, NamesKept
  <2> QED
    BY <2>4, <2>5, <2>6, <2>7, <2>8
<1>15. ASSUME NEW s \in Save, SaveFails(s) PROVE NameInv'
  BY <1>15 DEF SaveFails, Fault
<1>16. ASSUME Restart PROVE NameInv'
  <2>1. \A r \in Request : pc'[r] = pc[r] \/ pc'[r] = "lost"
    BY <1>16 DEF Restart
  <2>2. UNCHANGED <<settings, at, name, faulted>>
    BY <1>16 DEF Restart
  <2>3. crossed' = (crossed \/ \E s \in Save : pc[s] = "save")
    BY <1>16 DEF Restart
  <2>4. \A s \in Save : ~crossed' => (Saving(s)' <=> Saving(s))
    BY <2>1, <2>3
  <2>5. \A a \in Add : pc'[a] # "lost" => pc'[a] = pc[a]
    BY <2>1
  <2> QED
    BY <2>2, <2>3, <2>4, <2>5, NameFrame
<1> QED
  BY <1>1, <1>2, <1>3, <1>4, <1>5, <1>6, <1>7, <1>8, <1>9, <1>10, <1>11, <1>12, <1>13, <1>14, <1>15, <1>16
  DEF Next, AddStep, Failure, Request

\* A stuttering step changes none of this.
LEMMA StutterSigning == ASSUME IInv, UNCHANGED vars PROVE IInv'
<1> USE DEF IInv, vars, dbVars, localVars, history
<1>1. TypeOK' /\ AtInv' /\ KeyFitsPasswords'
  BY DEF TypeOK, AtInv, KeyFitsPasswords
<1>2. WonInv' /\ HeldInv'
  BY DEF WonInv, OneGenerator, Won, HeldInv, Held
<1>3. NameInv'
  BY DEF NameInv, NameFromOneSave, Saving
<1> QED
  BY <1>1, <1>2, <1>3

\* The invariant holds in every reachable state.
THEOREM SigningInvariant == Spec => []IInv
<1>1. Init => IInv
  BY StartsSigningInvariant
<1>2. IInv /\ [Next]_vars => IInv'
  BY StepSigningTypes, StepFits, StepWon, StepHeld, StepName, StutterSigning DEF IInv
<1> QED
  BY <1>1, <1>2, PTL DEF Spec

-----------------------------------------------------------------------------
(* The properties                                                          *)

\* The state is well-typed.
THEOREM SigningTypeOK == Spec => []TypeOK
  BY SigningInvariant, PTL DEF IInv

\* Passwords and hash are those of the keystore, in every row and answer.
THEOREM SigningKeyFitsPasswords == Spec => []KeyFitsPasswords
  BY SigningInvariant, PTL DEF IInv

\* Each platform has at most one add that generates its key.
THEOREM SigningOneGenerator == Spec => []OneGenerator
<1>1. IInv => OneGenerator
  BY DEF IInv, WonInv
<1> QED
  BY <1>1, SigningInvariant, PTL

\* A name without a crossing is one save's.
THEOREM SigningNameFromOneSave == Spec => []NameFromOneSave
<1>1. IInv => NameFromOneSave
  BY DEF IInv, NameInv, NameFromOneSave
<1> QED
  BY <1>1, SigningInvariant, PTL

\* A stored key opens under the secret it was stored with, and no other.
THEOREM SigningOpensUnderItsSecret == Spec => []OpensUnderItsSecret
<1>1. ASSUME IInv PROVE OpensUnderItsSecret
  <2>1. SUFFICES ASSUME NEW p \in Platform, NEW e \in Envs, Held(p) # NoKey
                 PROVE  Opens(row[p].keystore, e)
                            <=> sealed[Held(p)].secret \in {NoSecret, e.secret}
    BY DEF OpensUnderItsSecret
  <2>2. row[p].keystore = Seal(Held(p), sealed[Held(p)]) /\ Held(p) \in Keystore
    BY <1>1, <2>1 DEF IInv, HeldInv, Keystore
  <2>3. /\ sealed[Held(p)].secret \in Secret \cup {NoSecret}
        /\ e.secret \in Secret \cup {NoSecret}
    BY <1>1, <2>2, SigningAssumption DEF IInv, TypeOK, Env
  <2> QED
    BY <2>1, <2>2, <2>3, SigningAssumption DEF Opens, Seal
<1> QED
  BY <1>1, SigningInvariant, PTL

\* How one step may change what a platform holds.
Replaced(p) ==
    Held(p) # NoKey /\ Held(p)' # Held(p) =>
        \/ \E r \in Upload \cup Wipe :
                Target[r] = p /\ pc[r] \in {"put", "wipe"} /\ pc'[r] # pc[r]
        \/ Held(p) \in Upload /\ \E a \in Won(p) : pc[a] = "store" /\ Held(p)' = a

\* No step of anybody else replaces or removes a key.
LEMMA StepReplaced ==
    ASSUME IInv, Next, NEW p \in Platform
    PROVE  Replaced(p)
<1> USE SigningAssumption DEF Request, Keystore, dbVars, localVars
<1>1. ASSUME NEW r \in Register, CreateApp(r) PROVE Replaced(p)
  BY <1>1 DEF CreateApp, Replaced, Held
<1>2. ASSUME NEW a \in Add, FindApp(a) PROVE Replaced(p)
  BY <1>2 DEF FindApp, Replaced, Held
<1>3. ASSUME NEW a \in Add, AddPlatform(a) PROVE Replaced(p)
  <2>1. row'[p] = row[p] \/ (row[p] = NoRow /\ row'[p] = Keyless)
    BY <1>3 DEF AddPlatform, IInv, TypeOK
  <2> QED
    BY <2>1 DEF Replaced, Held
<1>4. ASSUME NEW a \in Add, ReadField(a) PROVE Replaced(p)
  BY <1>4 DEF ReadField, Replaced, Held
<1>5. ASSUME NEW a \in Add, StoreGenerated(a) PROVE Replaced(p)
  <2>1. pc[a] = "store" /\ a \in Keystore /\ Target[a] \in Platform
    BY <1>5 DEF StoreGenerated
  <2>2. CASE p = Target[a] /\ CanSeal(env)
    <3>1. row'[p] = Stored(a) /\ Held(p)' = a
      BY <1>5, <2>1, <2>2, StoredRow DEF StoreGenerated, IInv, TypeOK, Held
    <3>2. a \in Won(p)
      BY <2>1, <2>2 DEF Won
    <3>3. ASSUME Held(p) # NoKey PROVE Held(p) \in Upload
      <4>1. Held(p) \in Won(p) \/ Held(p) \in Upload
        BY <3>3 DEF IInv, HeldInv, Won
      <4>2. Held(p) \in Won(p) => Held(p) = a
        BY <3>2 DEF IInv, WonInv, OneGenerator
      <4>3. Held(p) # a
        BY <2>1, <3>3 DEF IInv, HeldInv
      <4> QED
        BY <4>1, <4>2, <4>3
    <3> QED
      BY <2>1, <3>1, <3>2, <3>3 DEF Replaced
  <2>3. CASE ~(p = Target[a] /\ CanSeal(env))
    <3>1. row'[p] = row[p]
      BY <1>5, <2>1, <2>3 DEF StoreGenerated, SetSigning, IInv, TypeOK
    <3> QED
      BY <3>1 DEF Replaced, Held
  <2> QED
    BY <2>2, <2>3
<1>6. ASSUME NEW r \in Request, NEW from, NEW answer, Fails(r, from, answer) PROVE Replaced(p)
  BY <1>6 DEF Fails, Replaced, Held
<1>7. ASSUME NEW r \in Upload \cup Wipe \cup Fetch, Unknown(r) PROVE Replaced(p)
  BY <1>7 DEF Unknown, Replaced, Held
<1>8. ASSUME NEW u \in Upload, BeginUpload(u) PROVE Replaced(p)
  BY <1>8 DEF BeginUpload, Replaced, Held
<1>9. ASSUME NEW u \in Upload, StoreUploaded(u) PROVE Replaced(p)
  <2>1. pc[u] = "put" /\ pc'[u] = "stored"
    BY <1>9 DEF StoreUploaded, Goto, IInv, TypeOK
  <2>2. CASE p = Target[u]
    BY <2>1, <2>2 DEF Replaced
  <2>3. CASE p # Target[u]
    <3>1. row'[p] = row[p]
      BY <1>9, <2>3 DEF StoreUploaded, SetSigning, IInv, TypeOK
    <3> QED
      BY <3>1 DEF Replaced, Held
  <2> QED
    BY <2>2, <2>3
<1>10. ASSUME NEW w \in Wipe, BeginWipe(w) PROVE Replaced(p)
  BY <1>10 DEF BeginWipe, Replaced, Held
<1>11. ASSUME NEW w \in Wipe, WipeKey(w) PROVE Replaced(p)
  <2>1. pc[w] = "wipe" /\ pc'[w] = "wiped"
    BY <1>11 DEF WipeKey, Goto, IInv, TypeOK
  <2>2. CASE p = Target[w]
    BY <2>1, <2>2 DEF Replaced
  <2>3. CASE p # Target[w]
    <3>1. row'[p] = row[p]
      BY <1>11, <2>3 DEF WipeKey, IInv, TypeOK
    <3> QED
      BY <3>1 DEF Replaced, Held
  <2> QED
    BY <2>2, <2>3
<1>12. ASSUME NEW f \in Fetch, FetchKey(f) PROVE Replaced(p)
  BY <1>12 DEF FetchKey, Replaced, Held
<1>13. ASSUME NEW s \in Save, BeginSave(s) PROVE Replaced(p)
  BY <1>13 DEF BeginSave, Replaced, Held
<1>14. ASSUME NEW s \in Save, SaveField(s) PROVE Replaced(p)
  BY <1>14 DEF SaveField, Replaced, Held
<1>15. ASSUME NEW s \in Save, SaveFails(s) PROVE Replaced(p)
  BY <1>15 DEF SaveFails, Replaced, Held
<1>16. ASSUME Restart PROVE Replaced(p)
  BY <1>16 DEF Restart, Replaced, Held
<1> QED
  BY <1>1, <1>2, <1>3, <1>4, <1>5, <1>6, <1>7, <1>8, <1>9, <1>10, <1>11, <1>12, <1>13, <1>14, <1>15, <1>16
  DEF Next, AddStep

\* Only uploads, wipes and a generation that had begun before replace a key.
THEOREM SigningKeyReplaced == Spec => KeyReplaced
<1>1. IInv /\ [Next]_vars => [\A p \in Platform : Replaced(p)]_vars
  BY StepReplaced
<1> QED
  BY <1>1, SigningInvariant, PTL DEF Spec, KeyReplaced, Replaced
=============================================================================
