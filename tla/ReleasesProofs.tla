--------------------------- MODULE ReleasesProofs ---------------------------
(***************************************************************************)
(* Proofs about Releases, for any sets of requests, codes, names and       *)
(* settings: type correctness, that retention never lowers what the direct *)
(* channel serves, and that a Play release outlives every request unless   *)
(* its version code was given out twice.                                   *)
(***************************************************************************)
EXTENDS ReleasesProps, FiniteSetTheorems, TLAPS

-----------------------------------------------------------------------------
(* The inductive invariant, in parts                                       *)

\* What a request has in its hands at each step.
LocalInv ==
    \A u \in Upload :
        /\ pc[u] \in {"idle", "begun"} => code[u] = Unnumbered
        /\ pc[u] \in Saving \cup {"record", "undo"} \cup Recorded => code[u] \in Code
        /\ pc[u] = "setplay" => pushed[u] # "no"
        /\ pc[u] = "list" => keep[u] \in Nat \ {0}

\* A row is its upload's: code, channel and name are the upload's own.
RowInv ==
    \A c \in Taken : code[rows[c].sha] = c /\ rows[c].chan = form[rows[c].sha].chan

\* A version code waits to be deleted only if a direct upload was given it.
TodoInv ==
    \A r \in Request : \A c \in todo[r] :
        \E u \in Upload : code[u] = c /\ form[u].chan = "direct"

\* As long as nothing is deleted by hand, whatever an upload has yet to prune,
\* a newer direct release is there.
PruneInv ==
    NothingByHand =>
        \A u \in Upload : \A c \in todo[u] : \E d \in Direct : d > c

\* A delete request deletes one release.
HandInv ==
    \A d \in Deletion : \A c, e \in todo[d] : c = e

IInv == TypeOK /\ LocalInv /\ RowInv /\ TodoInv /\ HandInv /\ PruneInv

-----------------------------------------------------------------------------
(* Types and locals                                                        *)

\* The empty platform satisfies the invariant.
LEMMA StartsInvariant == Init => IInv
<1> SUFFICES ASSUME Init PROVE IInv
  OBVIOUS
<1> USE ReleasesAssumption, NoRowAssumption DEF Init, Store!StorageInit
<1>1. TypeOK
  <2>1. Store!StorageTypeOK
    BY DEF Store!StorageTypeOK, Store!Inode, Store!Chunk, Store!Hole, Store!Blank
  <2>2. override \in Setting /\ hubKeep \in Setting
    OBVIOUS
  <2> QED
    BY <2>1, <2>2 DEF TypeOK, Step, Setting, Unset
<1>2. LocalInv /\ TodoInv /\ HandInv /\ PruneInv
  BY
  DEF LocalInv, TodoInv, HandInv, PruneInv, Saving, Recorded, Deleting, NothingByHand,
      Request
<1>3. RowInv
  BY DEF RowInv, Taken
<1> QED
  BY <1>1, <1>2, <1>3 DEF IInv

\* Every call on the store leaves it well-typed.
LEMMA StorageTypes ==
    ASSUME Store!StorageTypeOK, NEW u \in Upload, NEW k \in Key,
           \/ Store!Create(u, k) \/ Store!Write(u) \/ Store!WriteFails(u, k)
           \/ Store!Rename(u, k) \/ Store!RenameFails(u, k) \/ Store!Remove(k)
    PROVE  Store!StorageTypeOK'
<1> USE ReleasesAssumption
    DEF Store!StorageTypeOK, Store!Inode, Store!Hole, Store!Close, Key
<1>1. CASE Store!Create(u, k)
  BY <1>1 DEF Store!Create, Store!Blank
<1>2. CASE Store!Write(u)
  <2>1. off[u] + 1 \in 0 .. Chunks
    BY <1>2 DEF Store!Write
  <2>2. data' \in [Upload -> [Store!Chunk -> Upload \cup {NoFile}]]
    BY <1>2 DEF Store!Write
  <2> QED
    BY <1>2, <2>1, <2>2 DEF Store!Write
<1>3. CASE Store!WriteFails(u, k)
  BY <1>3 DEF Store!WriteFails
<1>4. CASE Store!Rename(u, k)
  BY <1>4 DEF Store!Rename
<1>5. CASE Store!RenameFails(u, k)
  BY <1>5 DEF Store!RenameFails
<1>6. CASE Store!Remove(k)
  BY <1>6 DEF Store!Remove
<1> QED
  BY <1>1, <1>2, <1>3, <1>4, <1>5, <1>6

\* So does leaving it alone, or dying.
LEMMA StorageStays ==
    ASSUME Store!StorageTypeOK, UNCHANGED storageVars \/ Store!CloseAll
    PROVE  Store!StorageTypeOK'
  BY ReleasesAssumption
    DEF Store!StorageTypeOK, Store!Inode, Store!Hole, Store!CloseAll, storageVars

\* An object that was put leaves the store well-typed.
LEMMA BucketTypes ==
    ASSUME Store!StorageTypeOK, NEW u \in Upload, NEW k \in Key,
           Bucket!Put(u, k, Store!BodyOf(u)), UNCHANGED <<part, fd, off>>
    PROVE  Store!StorageTypeOK'
  BY DEF Store!StorageTypeOK, Store!Inode, Store!BodyOf, Bucket!Put, Key

\* An artifact that was removed, or could not be, leaves an object of an upload.
LEMMA RemovedTypes ==
    ASSUME Store!StorageTypeOK, stray \subseteq Upload, NEW k, RemoveArtifact(k)
    PROVE  Store!StorageTypeOK' /\ stray' \subseteq Upload
<1> USE DEF Store!StorageTypeOK, Store!Inode, Store!Hole
<1>1. CASE Store!Remove(k) /\ UNCHANGED stray
  BY <1>1 DEF Store!Remove
<1>2. CASE Bucket!Remove(k) /\ UNCHANGED <<part, fd, off, stray>>
  BY <1>2 DEF Bucket!Remove
<1>3. CASE (\E u \in Upload : stray' = stray \cup {u}) /\ UNCHANGED storageVars
  BY <1>3 DEF storageVars
<1> QED
  BY <1>1, <1>2, <1>3 DEF RemoveArtifact

\* TypeOK and LocalInv preserve each other.
LEMMA StepTypes ==
    ASSUME TypeOK, LocalInv, Next
    PROVE  TypeOK' /\ LocalInv'
<1> USE ReleasesAssumption
    DEF TypeOK, LocalInv, Goto, Request, Step, Done, Answered, Silent, Saving,
        Recorded, Deleting, dbVars, localVars, historyVars, Setting, Unset
<1>1. ASSUME NEW u \in Upload, Begin(u) PROVE TypeOK' /\ LocalInv'
  <2>1. Store!StorageTypeOK'
    BY <1>1, StorageStays DEF Begin
  <2> QED
    BY <1>1, <2>1 DEF Begin
<1>2. ASSUME NEW u \in Upload, Accept(u) PROVE TypeOK' /\ LocalInv'
  <2>1. Store!StorageTypeOK'
    BY <1>2, StorageStays DEF Accept
  <2> QED
    BY <1>2, <2>1 DEF Accept
<1>3. ASSUME NEW u \in Upload, Conflict(u) PROVE TypeOK' /\ LocalInv'
  <2>1. Store!StorageTypeOK'
    BY <1>3, StorageStays DEF Conflict
  <2> QED
    BY <1>3, <2>1 DEF Conflict
<1>4. ASSUME NEW u \in Upload, AcceptFails(u) PROVE TypeOK' /\ LocalInv'
  <2>1. Store!StorageTypeOK'
    BY <1>4, StorageStays DEF AcceptFails
  <2> QED
    BY <1>4, <2>1 DEF AcceptFails, Fault
<1>5. ASSUME NEW u \in Upload, SaveCreate(u) PROVE TypeOK' /\ LocalInv'
  <2>1. key(u) \in Key
    BY <1>5 DEF SaveCreate, key, Key
  <2>2. Store!StorageTypeOK'
    BY <1>5, <2>1, StorageTypes DEF SaveCreate
  <2> QED
    BY <1>5, <2>2 DEF SaveCreate
<1>6. ASSUME NEW u \in Upload, SaveWrite(u) PROVE TypeOK' /\ LocalInv'
  <2>1. key(u) \in Key
    BY <1>6 DEF SaveWrite, key, Key
  <2>2. Store!StorageTypeOK'
    BY <1>6, <2>1, StorageTypes DEF SaveWrite
  <2> QED
    BY <1>6, <2>2 DEF SaveWrite
<1>7. ASSUME NEW u \in Upload, SaveRename(u) PROVE TypeOK' /\ LocalInv'
  <2>1. key(u) \in Key
    BY <1>7 DEF SaveRename, key, Key
  <2>2. Store!StorageTypeOK'
    BY <1>7, <2>1, StorageTypes DEF SaveRename
  <2> QED
    BY <1>7, <2>2 DEF SaveRename
<1>8. ASSUME NEW u \in Upload, SaveFails(u) PROVE TypeOK' /\ LocalInv'
  <2>1. key(u) \in Key
    BY <1>8 DEF SaveFails, key, Key
  <2>2. Store!StorageTypeOK'
    BY <1>8, <2>1, StorageTypes, StorageStays DEF SaveFails
  <2> QED
    BY <1>8, <2>2 DEF SaveFails
<1>9. ASSUME NEW u \in Upload, CreateRelease(u) PROVE TypeOK' /\ LocalInv'
  <2>1. Store!StorageTypeOK'
    BY <1>9, StorageStays DEF CreateRelease
  <2>2. NewRow(u) \in Row
    BY DEF NewRow, Row, Channel, PlayState
  <2> QED
    BY <1>9, <2>1, <2>2 DEF CreateRelease
<1>10. ASSUME NEW u \in Upload, CreateReleaseFails(u) PROVE TypeOK' /\ LocalInv'
  <2>1. Store!StorageTypeOK'
    BY <1>10, StorageStays DEF CreateReleaseFails
  <2> QED
    BY <1>10, <2>1 DEF CreateReleaseFails, Fault
<1>11. ASSUME NEW u \in Upload, Undo(u) PROVE TypeOK' /\ LocalInv'
  <2>1. key(u) \in Key
    BY <1>11 DEF Undo, key, Key
  <2>2. Store!StorageTypeOK' /\ stray' \subseteq Upload
    BY <1>11, <2>1, RemovedTypes DEF Undo
  <2> QED
    BY <1>11, <2>2 DEF Undo
<1>12. ASSUME NEW u \in Upload, Push(u) PROVE TypeOK' /\ LocalInv'
  <2>1. Store!StorageTypeOK'
    BY <1>12, StorageStays DEF Push
  <2> QED
    BY <1>12, <2>1 DEF Push
<1>13. ASSUME NEW u \in Upload, SetPlay(u) PROVE TypeOK' /\ LocalInv'
  <2>1. Store!StorageTypeOK'
    BY <1>13, StorageStays DEF SetPlay
  <2>2. rows' \in [Code -> Row \cup {NoRow}]
    <3>1. CASE rows[code[u]] = NoRow
      BY <1>13, <3>1 DEF SetPlay
    <3>2. CASE rows[code[u]] # NoRow
      <4>1. code[u] \in Code /\ rows[code[u]] \in Row /\ pushed[u] \in PlayState
        BY <1>13, <3>2 DEF SetPlay, PlayState
      <4>2. [rows[code[u]] EXCEPT !.play = pushed[u]] \in Row
        BY <4>1 DEF Row
      <4> QED
        BY <1>13, <3>2, <4>1, <4>2 DEF SetPlay
    <3> QED
      BY <3>1, <3>2
  <2> QED
    BY <1>13, <2>1, <2>2 DEF SetPlay
<1>14. ASSUME NEW u \in Upload, SetPlayFault(u) PROVE TypeOK' /\ LocalInv'
  <2>1. Store!StorageTypeOK'
    BY <1>14, StorageStays DEF SetPlayFault
  <2> QED
    BY <1>14, <2>1 DEF SetPlayFault, Fault
<1>15. ASSUME NEW u \in Upload, ReadKeep(u) PROVE TypeOK' /\ LocalInv'
  <2>1. Store!StorageTypeOK'
    BY <1>15, StorageStays DEF ReadKeep
  <2> QED
    BY <1>15, <2>1 DEF ReadKeep, PruneKeep
<1>16. ASSUME NEW u \in Upload, ReadKeepFault(u) PROVE TypeOK' /\ LocalInv'
  <2>1. Store!StorageTypeOK'
    BY <1>16, StorageStays DEF ReadKeepFault
  <2> QED
    BY <1>16, <2>1 DEF ReadKeepFault, Fault
<1>17. ASSUME NEW u \in Upload, ListReleases(u) PROVE TypeOK' /\ LocalInv'
  <2>1. Store!StorageTypeOK'
    BY <1>17, StorageStays DEF ListReleases
  <2> QED
    BY <1>17, <2>1 DEF ListReleases, Beyond, Direct, Taken, NextStep, Answer
<1>18. ASSUME NEW u \in Upload, ListPanics(u) PROVE TypeOK' /\ LocalInv'
  <2>1. Store!StorageTypeOK'
    BY <1>18, StorageStays DEF ListPanics
  <2> QED
    BY <1>18, <2>1 DEF ListPanics
<1>19. ASSUME NEW u \in Upload, ListFault(u) PROVE TypeOK' /\ LocalInv'
  <2>1. Store!StorageTypeOK'
    BY <1>19, StorageStays DEF ListFault
  <2> QED
    BY <1>19, <2>1 DEF ListFault, Fault
<1>20. ASSUME NEW r \in Request, NEW c \in Code, Find(r, c) PROVE TypeOK' /\ LocalInv'
  <2>1. Store!StorageTypeOK'
    BY <1>20, StorageStays DEF Find
  <2>2. rows[c].name \in Name
    BY <1>20 DEF Find, Row
  <2> QED
    BY <1>20, <2>1, <2>2 DEF Find, Current
<1>21. ASSUME NEW r \in Request, NEW c \in Code, FindNothing(r, c) PROVE TypeOK' /\ LocalInv'
  <2>1. Store!StorageTypeOK'
    BY <1>21, StorageStays DEF FindNothing
  <2>2. faulted' \subseteq Request
    BY <1>21 DEF FindNothing, Fault
  <2>3. CASE r \in Upload /\ Proceed(r, c)
    BY <1>21, <2>1, <2>2, <2>3 DEF FindNothing, Proceed, NextStep, Answer
  <2>4. CASE r \in Deletion /\ \E answer \in {"notfound", "aborted"} : GiveUp(r, answer)
    BY <1>21, <2>1, <2>2, <2>4 DEF FindNothing, GiveUp
  <2> QED
    BY <1>21, <2>3, <2>4 DEF FindNothing
<1>22. ASSUME NEW r \in Request, NEW c \in Code, DeleteRow(r, c) PROVE TypeOK' /\ LocalInv'
  <2>1. Store!StorageTypeOK'
    BY <1>22, StorageStays DEF DeleteRow
  <2> QED
    BY <1>22, <2>1 DEF DeleteRow, Current
<1>23. ASSUME NEW r \in Request, NEW c \in Code, DeleteRowFault(r, c) PROVE TypeOK' /\ LocalInv'
  <2>1. Store!StorageTypeOK'
    BY <1>23, StorageStays DEF DeleteRowFault
  <2>2. faulted' \subseteq Request
    BY <1>23 DEF DeleteRowFault, Fault
  <2>3. CASE r \in Upload /\ Proceed(r, c)
    BY <1>23, <2>1, <2>2, <2>3 DEF DeleteRowFault, Proceed, NextStep, Answer
  <2>4. CASE r \in Deletion /\ GiveUp(r, "failed")
    BY <1>23, <2>1, <2>2, <2>4 DEF DeleteRowFault, GiveUp
  <2> QED
    BY <1>23, <2>3, <2>4 DEF DeleteRowFault
<1>24. ASSUME NEW r \in Request, NEW c \in Code, DeleteFile(r, c) PROVE TypeOK' /\ LocalInv'
  <2>1. Store!StorageTypeOK' /\ stray' \subseteq Upload
    BY <1>24, RemovedTypes DEF DeleteFile
  <2> QED
    BY <1>24, <2>1 DEF DeleteFile, Current, Proceed, NextStep, Answer
<1>25. ASSUME NEW d \in Deletion, NEW c \in Code, DeleteCheck(d, c) PROVE TypeOK' /\ LocalInv'
  <2>1. Store!StorageTypeOK'
    BY <1>25, StorageStays DEF DeleteCheck
  <2> QED
    BY <1>25, <2>1 DEF DeleteCheck
<1>26. ASSUME NEW d \in Deletion, NEW c \in Code, DeleteRefused(d, c) PROVE TypeOK' /\ LocalInv'
  <2>1. Store!StorageTypeOK'
    BY <1>26, StorageStays DEF DeleteRefused
  <2> QED
    BY <1>26, <2>1, SMTT(30) DEF DeleteRefused, Fault
<1>27. CASE SetPruneKeep \/ SetHubKeep
  <2>1. Store!StorageTypeOK'
    BY <1>27, StorageStays DEF SetPruneKeep, SetHubKeep
  <2> QED
    BY <1>27, <2>1 DEF SetPruneKeep, SetHubKeep
<1>28. CASE Crash
  <2>1. Store!StorageTypeOK'
    BY <1>28, StorageStays DEF Crash
  <2> QED
    BY <1>28, <2>1 DEF Crash, Active
<1>29. ASSUME NEW u \in Upload, SavePut(u) PROVE TypeOK' /\ LocalInv'
  <2>1. key(u) \in Key
    BY <1>29 DEF SavePut, key, Key
  <2>2. Store!StorageTypeOK'
    BY <1>29, <2>1, BucketTypes DEF SavePut
  <2> QED
    BY <1>29, <2>2 DEF SavePut
<1>30. ASSUME NEW u \in Upload, SaveHead(u) PROVE TypeOK' /\ LocalInv'
  <2>1. Store!StorageTypeOK'
    BY <1>30, StorageStays DEF SaveHead
  <2> QED
    BY <1>30, <2>1 DEF SaveHead
<1>31. ASSUME NEW u \in Upload, BucketFails(u) PROVE TypeOK' /\ LocalInv'
  <2>1. key(u) \in Key
    BY <1>31 DEF BucketFails, key, Key
  <2>2. Store!StorageTypeOK' /\ stray' \subseteq Upload
    BY <1>31, <2>1, BucketTypes, StorageStays DEF BucketFails
  <2>3. pc[u] \in {"put", "head"} /\ Goto(u, "failed")
    BY <1>31 DEF BucketFails
  <2> QED
    BY <1>31, <2>2, <2>3 DEF BucketFails
<1>32. ASSUME NEW u \in Upload, SignURL(u) \/ SignFails(u) PROVE TypeOK' /\ LocalInv'
  <2>1. Store!StorageTypeOK'
    BY <1>32, StorageStays DEF SignURL, SignFails
  <2> QED
    BY <1>32, <2>1 DEF SignURL, SignFails
<1> QED
  BY <1>1, <1>2, <1>3, <1>4, <1>5, <1>6, <1>7, <1>8, <1>9, <1>10, <1>11, <1>12,
     <1>13, <1>14, <1>15, <1>16, <1>17, <1>18, <1>19, <1>20, <1>21, <1>22, <1>23,
     <1>24, <1>25, <1>26, <1>27, <1>28, <1>29, <1>30, <1>31, <1>32
  DEF Next, Receive, UploadStep, DeleteStep

-----------------------------------------------------------------------------
(* What each variable owes to which action                                 *)

\* Nothing but these actions changes the rows, the codes and the work lists,
\* and no action changes a form.
LEMMA Changes ==
    ASSUME TypeOK, Next
    PROVE  /\ form' = form
           /\ \/ \E u \in Upload : Accept(u)
              \/ code' = code
           /\ \/ \E u \in Upload : CreateRelease(u) \/ SetPlay(u)
              \/ \E r \in Request, c \in Code : DeleteRow(r, c)
              \/ rows' = rows
           /\ \/ \E u \in Upload : ListReleases(u)
              \/ \E d \in Deletion, c \in Code : DeleteCheck(d, c)
              \/ \A r \in Request : todo'[r] \subseteq todo[r]
<1> USE DEF dbVars, localVars
<1>1. ASSUME NEW u \in Upload, Begin(u) \/ Receive(u) \/ UploadStep(u)
      PROVE  /\ form' = form
             /\ Accept(u) \/ code' = code
             /\ CreateRelease(u) \/ SetPlay(u) \/ rows' = rows
             /\ ListReleases(u) \/ todo' = todo
  BY <1>1
  DEF Receive, UploadStep, SignURL, SignFails, Begin, Accept, Conflict, AcceptFails,
      SaveCreate, SaveWrite, SaveRename, SaveFails, CreateRelease, CreateReleaseFails,
      Undo, Push, SetPlay, SetPlayFault, ReadKeep, ReadKeepFault, ListReleases,
      ListPanics, ListFault, SavePut, SaveHead, BucketFails
<1>2. ASSUME NEW r \in Request, NEW c \in Code,
             \/ Find(r, c) \/ FindNothing(r, c) \/ DeleteRow(r, c)
             \/ DeleteRowFault(r, c) \/ DeleteFile(r, c)
      PROVE  /\ form' = form /\ code' = code
             /\ DeleteRow(r, c) \/ rows' = rows
             /\ \A q \in Request : todo'[q] \subseteq todo[q]
  <2>1. form' = form /\ code' = code /\ (DeleteRow(r, c) \/ rows' = rows)
    BY <1>2 DEF Find, FindNothing, DeleteRow, DeleteRowFault, DeleteFile
  <2>2. \/ todo' = todo
        \/ todo' = [todo EXCEPT ![r] = @ \ {c}]
        \/ todo' = [todo EXCEPT ![r] = {}]
    BY <1>2
    DEF Find, FindNothing, DeleteRow, DeleteRowFault, DeleteFile, Proceed, GiveUp
  <2> QED
    BY <2>1, <2>2 DEF TypeOK
<1>3. ASSUME NEW d \in Deletion, NEW c \in Code, DeleteCheck(d, c) \/ DeleteRefused(d, c)
      PROVE  /\ form' = form /\ code' = code /\ rows' = rows
             /\ DeleteCheck(d, c) \/ todo' = todo
  BY <1>3 DEF DeleteCheck, DeleteRefused
<1>4. CASE SetPruneKeep \/ SetHubKeep \/ Crash
  BY <1>4 DEF SetPruneKeep, SetHubKeep, Crash
<1> QED
  BY <1>1, <1>2, <1>3, <1>4 DEF Next, DeleteStep

\* What each action does to the rows, in the terms of the invariants.
LEMMA RowChanges ==
    ASSUME TypeOK, LocalInv, Next
    PROVE  \A c \in Code :
            \/ rows'[c] = rows[c]
            \/ rows'[c] = NoRow /\ \E r \in Request : DeleteRow(r, c)
            \/ /\ rows[c] # NoRow /\ rows'[c] # NoRow
               /\ rows'[c].sha = rows[c].sha /\ rows'[c].chan = rows[c].chan
               /\ rows'[c].name = rows[c].name
            \/ /\ rows[c] = NoRow
               /\ \E u \in Upload : CreateRelease(u) /\ code[u] = c /\ rows'[c] = NewRow(u)
<1> USE DEF TypeOK
<1>1. ASSUME NEW u \in Upload, CreateRelease(u), NEW c \in Code, c = code[u]
      PROVE  rows[c] = NoRow /\ rows'[c] = NewRow(u)
  BY <1>1 DEF CreateRelease
<1>2. ASSUME NEW u \in Upload, CreateRelease(u), NEW c \in Code, c # code[u]
      PROVE  rows'[c] = rows[c]
  BY <1>2 DEF CreateRelease
<1>3. ASSUME NEW u \in Upload, SetPlay(u), NEW c \in Code
      PROVE  \/ rows'[c] = rows[c]
             \/ /\ rows[c] # NoRow /\ rows'[c] # NoRow
                /\ rows'[c].sha = rows[c].sha /\ rows'[c].chan = rows[c].chan
                /\ rows'[c].name = rows[c].name
  <2>1. CASE c = code[u] /\ rows[c] # NoRow
    <3>1. rows'[c] = [rows[c] EXCEPT !.play = pushed[u]]
      BY <1>3, <2>1 DEF SetPlay
    <3>2. rows[c] \in Row
      BY <2>1
    <3>3. rows'[c] \in Row
      <4>1. pushed[u] \in PlayState
        BY <1>3 DEF SetPlay, LocalInv, PlayState
      <4> QED
        BY <3>1, <3>2, <4>1 DEF Row
    <3> QED
      BY <2>1, <3>1, <3>2, <3>3, NoRowAssumption DEF Row
  <2>2. CASE ~(c = code[u] /\ rows[c] # NoRow)
    BY <1>3, <2>2 DEF SetPlay
  <2> QED
    BY <2>1, <2>2
<1>4. ASSUME NEW r \in Request, NEW d \in Code, DeleteRow(r, d), NEW c \in Code
      PROVE  \/ rows'[c] = rows[c]
             \/ rows'[c] = NoRow /\ DeleteRow(r, c)
  BY <1>4 DEF DeleteRow
<1> QED
  BY <1>1, <1>2, <1>3, <1>4, Changes

\* A version code given to an upload stays its own.
LEMMA CodesStay ==
    ASSUME TypeOK, LocalInv, Next, NEW u \in Upload, code[u] \in Code
    PROVE  code'[u] = code[u]
<1>1. ASSUME NEW v \in Upload, Accept(v) PROVE code'[u] = code[u]
  <2>1. pc[v] = "begun" /\ \E x : code' = [code EXCEPT ![v] = x]
    BY <1>1 DEF Accept
  <2>2. u # v
    BY <2>1, ReleasesAssumption DEF LocalInv, Code, Unnumbered
  <2> QED
    BY <2>1, <2>2 DEF TypeOK
<1> QED
  BY <1>1, Changes

\* A row keeps the code, channel and form of the upload that wrote it.
LEMMA StepRows ==
    ASSUME TypeOK, LocalInv, RowInv, Next
    PROVE  RowInv'
<1> SUFFICES ASSUME NEW c \in Code, rows'[c] # NoRow
             PROVE  code'[rows'[c].sha] = c /\ rows'[c].chan = form'[rows'[c].sha].chan
  BY DEF RowInv, Taken
<1> USE DEF TypeOK
<1>1. \E u \in Upload : /\ code[u] = c /\ rows'[c].sha = u
                        /\ rows'[c].chan = form[u].chan
  <2>1. CASE rows[c] # NoRow
    <3>1. rows[c].sha \in Upload
      BY <2>1 DEF Row
    <3>2. rows'[c].sha = rows[c].sha /\ rows'[c].chan = rows[c].chan
      BY <2>1, RowChanges
    <3> QED
      BY <2>1, <3>1, <3>2 DEF RowInv, Taken
  <2>2. CASE rows[c] = NoRow
    <3>1. PICK u \in Upload : code[u] = c /\ rows'[c] = NewRow(u)
      BY <2>2, RowChanges
    <3> QED
      BY <3>1 DEF NewRow
  <2> QED
    BY <2>1, <2>2
<1>2. ASSUME NEW u \in Upload, code[u] = c PROVE code'[u] = c
  BY <1>2, CodesStay
<1>3. form' = form
  BY Changes
<1> QED
  BY <1>1, <1>2, <1>3

\* Only codes of direct uploads enter a work list.
LEMMA StepTodo ==
    ASSUME TypeOK, LocalInv, RowInv, TodoInv, Next
    PROVE  TodoInv'
<1> USE DEF TypeOK
<1>1. ASSUME NEW c \in Direct
      PROVE  \E u \in Upload : code[u] = c /\ form[u].chan = "direct"
  <2>1. rows[c].sha \in Upload
    BY DEF Direct, Taken, Row
  <2> QED
    BY <2>1 DEF RowInv, Direct, Taken
<1>2. ASSUME NEW r \in Request, NEW c \in todo'[r]
      PROVE  \E u \in Upload : code[u] = c /\ form[u].chan = "direct"
  <2>1. CASE \E u \in Upload : ListReleases(u)
    BY <1>1, <1>2, <2>1 DEF ListReleases, Beyond, TodoInv
  <2>2. CASE \E d \in Deletion, e \in Code : DeleteCheck(d, e)
    BY <1>1, <1>2, <2>2 DEF DeleteCheck, Direct, Taken, TodoInv
  <2>3. CASE \A q \in Request : todo'[q] \subseteq todo[q]
    BY <1>2, <2>3 DEF TodoInv
  <2> QED
    BY <2>1, <2>2, <2>3, Changes
<1>3. ASSUME NEW u \in Upload, code[u] \in Code PROVE code'[u] = code[u]
  BY <1>3, CodesStay
<1>4. form' = form /\ \A r \in Request : todo'[r] \subseteq Code
  BY Changes, StepTypes
<1> QED
  BY <1>2, <1>3, <1>4 DEF TodoInv

\* A delete request never has a second release to delete.
LEMMA StepHand ==
    ASSUME TypeOK, HandInv, Next
    PROVE  HandInv'
<1> USE ReleasesAssumption DEF TypeOK, HandInv, Request
<1>1. CASE \E u \in Upload : ListReleases(u)
  BY <1>1 DEF ListReleases
<1>2. CASE \E d \in Deletion, c \in Code : DeleteCheck(d, c)
  BY <1>2 DEF DeleteCheck
<1>3. CASE \A r \in Request : todo'[r] \subseteq todo[r]
  BY <1>3
<1> QED
  BY <1>1, <1>2, <1>3, Changes

\* Once something is deleted by hand it stays so.
LEMMA HandStays ==
    ASSUME TypeOK, HandInv, Next, NothingByHand'
    PROVE  NothingByHand
<1> SUFFICES ASSUME NEW d \in Deletion, pc[d] \in {"unfile", "deleted", "lost"}
             PROVE  pc'[d] \in {"unfile", "deleted", "lost"}
  BY DEF NothingByHand
<1> USE ReleasesAssumption DEF TypeOK, Goto, Request
<1>1. ASSUME NEW u \in Upload, Begin(u) \/ Receive(u) \/ UploadStep(u) PROVE pc'[d] = pc[d]
  <2>1. u # d
    OBVIOUS
  <2>2. pc' = pc \/ \E step : pc' = [pc EXCEPT ![u] = step]
    BY <1>1
    DEF Receive, UploadStep, SignURL, SignFails, Begin, Accept, Conflict, AcceptFails,
        SaveCreate, SaveWrite, SaveRename, SaveFails, CreateRelease,
        CreateReleaseFails, Undo, Push, SetPlay, SetPlayFault, ReadKeep,
        ReadKeepFault, ListReleases, ListPanics, ListFault, SavePut, SaveHead,
        BucketFails
  <2> QED
    BY <2>1, <2>2
<1>2. ASSUME NEW r \in Request, NEW c \in Code,
             \/ Find(r, c) \/ FindNothing(r, c) \/ DeleteRow(r, c)
             \/ DeleteRowFault(r, c) \/ DeleteFile(r, c)
      PROVE  pc'[d] \in {"unfile", "deleted", "lost"}
  <2>1. CASE r # d
    <3>1. \E step : pc' = [pc EXCEPT ![r] = step]
      BY <1>2
      DEF Find, FindNothing, DeleteRow, DeleteRowFault, DeleteFile, Proceed, GiveUp
    <3> QED
      BY <2>1, <3>1
  <2>2. CASE r = d
    <3>1. DeleteFile(d, c)
      BY <1>2, <2>2 DEF Find, FindNothing, DeleteRow, DeleteRowFault
    <3>2. todo[d] \ {c} = {}
      BY <3>1 DEF DeleteFile, Current, HandInv
    <3> QED
      BY <3>1, <3>2 DEF DeleteFile, Proceed, NextStep, Answer
  <2> QED
    BY <2>1, <2>2
<1>3. ASSUME NEW e \in Deletion, NEW c \in Code, DeleteCheck(e, c) \/ DeleteRefused(e, c)
      PROVE  pc'[d] = pc[d]
  BY <1>3 DEF DeleteCheck, DeleteRefused
<1>4. CASE SetPruneKeep \/ SetHubKeep \/ Crash
  BY <1>4 DEF SetPruneKeep, SetHubKeep, Crash, Active, Done, Answered, Silent
<1> QED
  BY <1>1, <1>2, <1>3, <1>4 DEF Next, DeleteStep

\* Whoever prunes next to whom, a newer direct release stays behind for every
\* one that is still to be pruned.
LEMMA StepPrune ==
    ASSUME TypeOK, LocalInv, HandInv, PruneInv, Next
    PROVE  PruneInv'
<1> SUFFICES ASSUME NothingByHand', NEW u \in Upload, NEW c \in todo'[u]
             PROVE  \E d \in Direct' : d > c
  BY DEF PruneInv
<1> USE DEF TypeOK, Request
<1>1. NothingByHand
  BY HandStays
\* Before the step a newer direct release was there.
<1>2. c \in Code /\ \E d \in Direct : d > c
  <2>1. CASE c \in todo[u]
    BY <1>1, <2>1 DEF PruneInv
  <2>2. CASE c \notin todo[u]
    <3>1. ListReleases(u)
      <4>1. ASSUME NEW v \in Upload, ListReleases(v) PROVE v = u
        BY <2>2, <4>1 DEF ListReleases
      <4>2. ASSUME NEW d \in Deletion, NEW e \in Code, DeleteCheck(d, e) PROVE FALSE
        BY <2>2, <4>2, ReleasesAssumption DEF DeleteCheck
      <4> QED
        BY <2>2, <4>1, <4>2, Changes
    <3>2. c \in Direct /\ Cardinality({d \in Direct : d > c}) >= keep[u]
      BY <2>2, <3>1 DEF ListReleases, Beyond
    <3>3. keep[u] \in Nat \ {0}
      BY <3>1 DEF ListReleases, LocalInv
    <3>4. {d \in Direct : d > c} # {}
      <4> DEFINE Newer == {d \in Direct : d > c}
      <4>1. Cardinality(Newer) >= keep[u]
        BY <3>2
      <4> HIDE DEF Newer
      <4>2. ASSUME Newer = {} PROVE FALSE
        <5>1. Cardinality(Newer) = 0
          BY <4>2, FS_EmptySet, Zenon
        <5> QED
          BY <3>3, <4>1, <5>1
      <4> QED
        BY <4>2 DEF Newer
    <3> QED
      BY <3>2, <3>4 DEF Direct, Taken
  <2> QED
    BY <2>1, <2>2
\* The newest such release survives it.
<1>3. PICK d \in Direct : d > c
  BY <1>2
<1>4. CASE d \in Direct'
  BY <1>3, <1>4
<1>5. CASE d \notin Direct'
  <2>1. d \in Code /\ rows'[d] # rows[d]
    BY <1>5 DEF Direct, Taken
  <2>2. PICK r \in Request : DeleteRow(r, d)
    BY <1>5, <2>1, RowChanges DEF Direct, Taken
  <2>3. d \in todo[r] /\ pc[r] = "unrow" /\ pc' = [pc EXCEPT ![r] = "unfile"]
    BY <2>2 DEF DeleteRow, Current, Goto
  <2>4. r \in Upload
    BY <2>3 DEF NothingByHand
  <2>5. PICK f \in Direct : f > d
    BY <1>1, <2>3, <2>4 DEF PruneInv
  <2>6. f \in Code /\ f # d /\ rows'[f] = rows[f]
    BY <2>1, <2>2, <2>5, ReleasesAssumption DEF DeleteRow, Direct, Taken, Code
  <2>7. f \in Direct'
    BY <2>5, <2>6 DEF Direct, Taken
  <2>8. f > c
    BY <1>2, <1>3, <2>1, <2>5, <2>6, ReleasesAssumption DEF Code
  <2> QED
    BY <2>7, <2>8
<1> QED
  BY <1>4, <1>5

-----------------------------------------------------------------------------
(* The theorems                                                            *)

\* Every step, or none, keeps the invariant.
LEMMA StepInvariant == IInv /\ [Next]_vars => IInv'
<1> SUFFICES ASSUME IInv, [Next]_vars PROVE IInv'
  OBVIOUS
<1>1. CASE Next
  BY <1>1, StepTypes, StepRows, StepTodo, StepHand, StepPrune DEF IInv
<1>2. CASE UNCHANGED vars
  <2> USE <1>2 DEF IInv, vars, dbVars, localVars, historyVars
  <2>1. TypeOK'
    <3>1. Store!StorageTypeOK'
      BY StorageStays DEF TypeOK
    <3> QED
      BY <3>1 DEF TypeOK
  <2>2. LocalInv' /\ RowInv' /\ TodoInv' /\ HandInv' /\ PruneInv'
    BY DEF LocalInv, RowInv, TodoInv, HandInv, PruneInv, Taken, Direct, NothingByHand
  <2> QED
    BY <2>1, <2>2
<1> QED
  BY <1>1, <1>2

\* The invariant holds throughout, whatever the requests do.
THEOREM Invariance == Spec => []IInv
  BY StartsInvariant, StepInvariant, PTL DEF Spec

\* Every variable keeps its type, whatever the requests do.
THEOREM TypeCorrect == Spec => []TypeOK
  BY Invariance, PTL DEF IInv

\* Retention alone never takes the newest direct release away.
THEOREM RetentionKeepsHead == Spec => HeadNeverLowered
<1> DEFINE Kept == NothingByHand' => \A c \in Direct : \E d \in Direct' : d >= c
<1>1. ASSUME IInv, Next PROVE Kept
  <2> USE <1>1 DEF IInv, TypeOK, Request
  <2> SUFFICES ASSUME NothingByHand', NEW c \in Direct PROVE \E d \in Direct' : d >= c
    OBVIOUS
  <2>1. c \in Code /\ c >= c
    BY ReleasesAssumption DEF Direct, Taken, Code
  <2>2. CASE c \in Direct'
    BY <2>1, <2>2
  <2>3. CASE c \notin Direct'
    <3>1. PICK r \in Request : DeleteRow(r, c)
      BY <2>1, <2>3, RowChanges DEF Direct, Taken
    <3>2. c \in todo[r] /\ pc[r] = "unrow" /\ pc' = [pc EXCEPT ![r] = "unfile"]
      BY <3>1 DEF DeleteRow, Current, Goto
    <3>3. r \in Upload
      BY <3>2 DEF NothingByHand
    <3>4. PICK d \in Direct : d > c
      BY <3>2, <3>3, HandStays DEF PruneInv
    <3>5. d # c /\ d >= c /\ d \in Code
      BY <2>1, <3>4, ReleasesAssumption DEF Direct, Taken, Code
    <3>6. d \in Direct'
      BY <3>1, <3>4, <3>5 DEF DeleteRow, Direct, Taken
    <3> QED
      BY <3>5, <3>6
  <2> QED
    BY <2>2, <2>3
<1>2. ASSUME UNCHANGED vars, IInv PROVE Kept
  <2>1. Direct' = Direct
    BY <1>2 DEF vars, dbVars, Direct, Taken
  <2>2. \A c \in Direct : c >= c
    BY ReleasesAssumption DEF Direct, Taken, Code
  <2> QED
    BY <2>1, <2>2
<1>3. IInv /\ [Next]_vars => [Kept]_vars
  BY <1>1
<1> QED
  BY <1>3, Invariance, PTL DEF Spec, HeadNeverLowered

\* A Play release is not deleted or replaced unless its code was given twice.
THEOREM PlayReleasesSafe == Spec => PlayReleasesKept
<1> DEFINE Kept == \A c \in Taken : (rows[c].chan = "play" /\ ~SharedCode(c)) =>
                       rows'[c] # NoRow /\ rows'[c].sha = rows[c].sha
<1>1. ASSUME IInv, Next PROVE Kept
  <2> USE <1>1 DEF IInv, TypeOK
  <2> SUFFICES ASSUME NEW c \in Taken, rows[c].chan = "play", ~SharedCode(c)
               PROVE  rows'[c] # NoRow /\ rows'[c].sha = rows[c].sha
    OBVIOUS
  <2>1. c \in Code /\ rows[c] # NoRow /\ rows[c] \in Row
    BY DEF Taken
  <2>2. ASSUME NEW r \in Request, DeleteRow(r, c) PROVE FALSE
    <3>1. PICK u \in Upload : code[u] = c /\ form[u].chan = "direct"
      BY <2>2 DEF DeleteRow, Current, TodoInv
    <3>2. /\ rows[c].sha \in Upload /\ code[rows[c].sha] = c
          /\ form[rows[c].sha].chan = "play"
      BY <2>1 DEF RowInv, Row
    <3>3. u # rows[c].sha
      BY <3>1, <3>2
    <3> QED
      BY <3>1, <3>2, <3>3 DEF SharedCode
  <2> QED
    BY <2>1, <2>2, RowChanges
<1>2. IInv /\ [Next]_vars => [Kept]_vars
  BY <1>1
<1> QED
  BY <1>2, Invariance, PTL DEF Spec, PlayReleasesKept

=============================================================================
