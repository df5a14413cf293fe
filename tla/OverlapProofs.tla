---------------------------- MODULE OverlapProofs ----------------------------
(***************************************************************************)
(* Proofs about Releases of what requests that overlap leave behind, for   *)
(* any sets of requests, codes, names, settings and numbers of chunks, on  *)
(* the disk and in a bucket: a release whose key nobody else used keeps    *)
(* the very artifact that was hashed, no artifact is left without a row    *)
(* unless the hub died or S3 did not do as asked, an upload answered 201   *)
(* on a Play channel has its own push's outcome in its row, retention      *)
(* leaves no more direct releases than it was told to keep, and the        *)
(* requests implement ReleaseCatalog.                                      *)
(***************************************************************************)
EXTENDS ReleasesProofs, WellFoundedInduction

-----------------------------------------------------------------------------
(* The inductive invariant, in parts                                       *)

\* u is writing its artifact, or about to record or to undo it.
Holding(u) == pc[u] \in Saving \cup {"record", "undo"}

\* u's own release is in the table.
Owns(u) == code[u] \in Code /\ rows[code[u]] # NoRow /\ rows[code[u]].sha = u

\* u's artifact matters, and nobody else has used its key meanwhile.
Lone(u) == u \notin contended /\ (Holding(u) \/ Owns(u))

\* A row was written by a request that has got past the INSERT, under its name.
WriterInv ==
    \A c \in Taken :
        /\ rows[c].name = form[rows[c].sha].name
        /\ pc[rows[c].sha] \in Recorded \cup {"created", "unsigned", "aborted", "lost"}

\* An inode is only ever found under the key of the upload that created it.
HomeInv ==
    /\ \A u \in Upload : fd[u] # NoFile => code[u] \in Code /\ key(fd[u]) = key(u)
    /\ \A k \in Key : part[k] # NoFile => key(part[k]) = k
    /\ \A k \in Key : disk[k] # NoFile => key(disk[k]) = k
    /\ \A u \in Upload : pc[u] # "write" => off[u] = 0

\* Whom nobody contends with has its key for itself: no other upload holds it,
\* and a request removes it only because it found the very row.
LoneInv ==
    \A s \in Upload : Lone(s) =>
        /\ \A v \in Upload \ {s} : Holding(v) => key(v) # key(s)
        /\ \A r \in Request : Removes(r, key(s)) => pc[r] = "unrow" /\ ~Holding(s)
        /\ Holding(s) => (rows[code[s]] = NoRow \/ rows[code[s]].name # form[s].name)

\* What is in the store then is its own.
BodyInv ==
    \A s \in Upload : Lone(s) =>
        /\ pc[s] = "write" =>
            /\ fd[s] # NoFile /\ part[key(s)] = fd[s]
            /\ \A n \in 1 .. Chunks : n <= off[s] => data[fd[s]][n] = s
        /\ (pc[s] \in {"head", "record"} \/ ~Holding(s)) =>
            disk[key(s)] # NoFile /\ Store!Intact(s, disk[key(s)])

AInv == IInv /\ WriterInv /\ HomeInv /\ LoneInv /\ BodyInv

-----------------------------------------------------------------------------
(* The latest version code                                                 *)

\* A set of naturals has a smallest, for it has a minimum under <.
LEMMA Smallest ==
    ASSUME NEW S, S \subseteq Nat, S # {}
    PROVE  \E n \in S : \A m \in S : n <= m
<1> DEFINE R == {ss \in Nat \X Nat : ss[1] < ss[2]}
<1>1. IsWellFoundedOn(R, Nat)
  BY NatLessThanWellFounded DEF OpToRel
<1>2. \E n \in S : \A m \in S : <<m, n>> \notin R
  <2> HIDE DEF R
  <2> QED
    BY <1>1, WFMin
<1>3. PICK n \in S : \A m \in S : <<m, n>> \notin R
  BY <1>2
<1>4. ASSUME NEW m \in S PROVE n <= m
  <2>1. m \in Nat /\ n \in Nat /\ <<m, n>> \notin R
    BY <1>3
  <2>2. ~(m < n)
    BY <2>1
  <2> QED
    BY <2>1, <2>2
<1> QED
  BY <1>4

\* So one with an upper bound has a largest.
LEMMA Largest ==
    ASSUME NEW b \in Nat, NEW S, S \subseteq 0 .. b, S # {}
    PROVE  Max(S) \in S /\ \A m \in S : m <= Max(S)
<1> DEFINE D == {b - x : x \in S}
<1>1. D \subseteq Nat /\ D # {}
  OBVIOUS
<1>2. PICK d \in D : \A e \in D : d <= e
  BY <1>1, Smallest
<1>3. PICK x \in S : d = b - x
  OBVIOUS
<1>4. \A y \in S : x >= y
  BY <1>2, <1>3
<1>5. \E z \in S : \A y \in S : z >= y
  BY <1>4
<1> QED
  BY <1>5 DEF Max

\* No release has a version code above the latest.
LEMMA AboveLatest ==
    ASSUME TypeOK, NEW c \in Code, c > Latest
    PROVE  rows[c] = NoRow
<1>1. {0} \cup Taken \subseteq 0 .. MaxCode
  BY ReleasesAssumption DEF Taken, Code
<1>2. Latest \in {0} \cup Taken /\ \A m \in {0} \cup Taken : m <= Latest
  BY <1>1, Largest, ReleasesAssumption DEF Latest
<1>3. ~(c <= Latest)
  BY <1>1, <1>2, ReleasesAssumption DEF Code
<1> QED
  BY <1>2, <1>3 DEF Taken

-----------------------------------------------------------------------------
(* Who does what to a request                                              *)

\* A step of request q.
Moves(q) ==
    \/ q \in Upload /\ (Begin(q) \/ Receive(q) \/ UploadStep(q))
    \/ DeleteStep(q)
    \/ q \in Deletion /\ \E c \in Code : DeleteCheck(q, c) \/ DeleteRefused(q, c)

\* A request moves by its own steps, or the hub dies.
LEMMA WhoMoves ==
    ASSUME TypeOK, Next, NEW q \in Request
    PROVE  \/ Moves(q)
           \/ Crash
           \/ pc'[q] = pc[q] /\ todo'[q] = todo[q] /\ victim'[q] = victim[q]
<1> USE DEF TypeOK, Goto, localVars
<1>1. ASSUME NEW u \in Upload, Begin(u) \/ Receive(u) \/ UploadStep(u), u # q
      PROVE  pc'[q] = pc[q] /\ todo'[q] = todo[q] /\ victim'[q] = victim[q]
  <2>1. /\ pc' = pc \/ \E step : pc' = [pc EXCEPT ![u] = step]
        /\ todo' = todo \/ \E t : todo' = [todo EXCEPT ![u] = t]
        /\ victim' = victim
    BY <1>1
    DEF Receive, UploadStep, SignURL, SignFails, Begin, Accept, Conflict, AcceptFails,
        SaveCreate, SaveWrite, SaveRename, SaveFails, CreateRelease,
        CreateReleaseFails, Undo, Push, SetPlay, SetPlayFault, ReadKeep,
        ReadKeepFault, ListReleases, ListPanics, ListFault, SavePut, SaveHead,
        BucketFails
  <2> QED
    BY <1>1, <2>1
<1>2. ASSUME NEW r \in Request, DeleteStep(r), r # q
      PROVE  pc'[q] = pc[q] /\ todo'[q] = todo[q] /\ victim'[q] = victim[q]
  <2>1. /\ \E step : pc' = [pc EXCEPT ![r] = step]
        /\ todo' = todo \/ \E t : todo' = [todo EXCEPT ![r] = t]
        /\ victim' = victim \/ \E n : victim' = [victim EXCEPT ![r] = n]
    BY <1>2
    DEF DeleteStep, Find, FindNothing, DeleteRow, DeleteRowFault, DeleteFile, Proceed,
        GiveUp
  <2> QED
    BY <1>2, <2>1
<1>3. ASSUME NEW d \in Deletion, NEW c \in Code, DeleteCheck(d, c) \/ DeleteRefused(d, c), d # q
      PROVE  pc'[q] = pc[q] /\ todo'[q] = todo[q] /\ victim'[q] = victim[q]
  BY <1>3 DEF DeleteCheck, DeleteRefused
<1>4. CASE SetPruneKeep \/ SetHubKeep
  BY <1>4 DEF SetPruneKeep, SetHubKeep
<1> QED
  BY <1>1, <1>2, <1>3, <1>4 DEF Next, Moves

\* What a request's own steps are, by the step it is at and the one it goes to.
LEMMA OwnSteps ==
    ASSUME TypeOK, NEW u \in Upload, Moves(u)
    PROVE  /\ pc'[u] \in Saving \cup {"record", "undo"} =>
                pc[u] \in Saving \cup {"record", "undo"} \/ Accept(u)
           /\ pc[u] \in Recorded =>
                pc'[u] \in Recorded \cup {"created", "unsigned", "aborted"}
           /\ pc'[u] = "write" => SaveCreate(u) \/ SaveWrite(u)
           /\ pc'[u] \in {"head", "record"} \cup Recorded
                        \cup {"created", "unsigned", "aborted", "lost"} =>
                pc[u] \in {"head", "record"} \cup Recorded \/ SavePut(u) \/ SaveRename(u)
<1> USE ReleasesAssumption DEF TypeOK, Goto, Saving, Recorded, Deleting, Request
<1>1. CASE Begin(u) \/ Accept(u) \/ Conflict(u) \/ AcceptFails(u)
  BY <1>1, ZenonT(40) DEF Begin, Accept, Conflict, AcceptFails
<1>2. CASE SaveCreate(u) \/ SaveWrite(u) \/ SaveRename(u) \/ SaveFails(u)
  BY <1>2 DEF SaveCreate, SaveWrite, SaveRename, SaveFails
<1>3. CASE SavePut(u) \/ SaveHead(u) \/ BucketFails(u)
  BY <1>3 DEF SavePut, SaveHead, BucketFails
<1>4. CASE CreateRelease(u) \/ CreateReleaseFails(u) \/ Undo(u)
  BY <1>4 DEF CreateRelease, CreateReleaseFails, Undo
<1>5. CASE Push(u) \/ SetPlay(u) \/ SetPlayFault(u) \/ ReadKeep(u) \/ ReadKeepFault(u)
  BY <1>5 DEF Push, SetPlay, SetPlayFault, ReadKeep, ReadKeepFault
<1>6. CASE ListReleases(u) \/ ListPanics(u) \/ ListFault(u)
  BY <1>6 DEF ListReleases, ListPanics, ListFault, NextStep, Answer
<1>7. CASE DeleteStep(u)
  BY <1>7
  DEF DeleteStep, Find, FindNothing, DeleteRow, DeleteRowFault, DeleteFile,
      Proceed, GiveUp, NextStep, Answer
<1>8. CASE SignURL(u) \/ SignFails(u)
  BY <1>8 DEF SignURL, SignFails
<1> QED
  BY <1>1, <1>2, <1>3, <1>4, <1>5, <1>6, <1>7, <1>8 DEF Moves, Receive, UploadStep

\* Uploads come to hold a key by Accept only.
LEMMA HoldStep ==
    ASSUME TypeOK, Next, NEW u \in Upload, Holding(u)'
    PROVE  Holding(u) \/ Accept(u)
<1>1. CASE Moves(u)
  BY <1>1, OwnSteps DEF Holding
<1>2. CASE Crash
  BY <1>2 DEF Crash, TypeOK, Request, Active, Holding, Saving, Done, Answered, Silent
<1>3. CASE pc'[u] = pc[u]
  BY <1>3 DEF Holding, Saving
<1> QED
  BY <1>1, <1>2, <1>3, WhoMoves DEF Request

\* A request on the way to removing a file has just read or deleted its row.
LEMMA RemoveSteps ==
    ASSUME TypeOK, NEW r \in Request, Moves(r), pc'[r] \in {"unrow", "unfile"}
    PROVE  \E c \in Code : Find(r, c) \/ DeleteRow(r, c)
<1> USE DEF TypeOK, Goto
<1>1. ~(r \in Upload /\ (Begin(r) \/ Receive(r) \/ UploadStep(r)))
  BY
  DEF Receive, UploadStep, SignURL, SignFails, Begin, Accept, Conflict, AcceptFails,
      SaveCreate, SaveWrite, SaveRename, SaveFails, CreateRelease, CreateReleaseFails,
      Undo, Push, SetPlay, SetPlayFault, ReadKeep, ReadKeepFault, ListReleases,
      ListPanics, ListFault, SavePut, SaveHead, BucketFails, NextStep, Answer
<1>2. ASSUME NEW c \in Code, DeleteCheck(r, c) \/ DeleteRefused(r, c) PROVE FALSE
  BY <1>2 DEF DeleteCheck, DeleteRefused
<1>3. ASSUME NEW c \in Code, FindNothing(r, c) \/ DeleteRowFault(r, c) \/ DeleteFile(r, c)
      PROVE  FALSE
  BY <1>3
  DEF FindNothing, DeleteRowFault, DeleteFile, Proceed, GiveUp, NextStep, Answer
<1> QED
  BY <1>1, <1>2, <1>3 DEF Moves, DeleteStep

\* A request comes to remove a file by Find only.
LEMMA FoundStep ==
    ASSUME TypeOK, Next, NEW r \in Request, NEW k \in Key, Removes(r, k)'
    PROVE  \/ Removes(r, k) /\ pc'[r] = pc[r]
           \/ Removes(r, k) /\ DeleteRow(r, k[1])
           \/ Find(r, k[1]) /\ rows[k[1]].name = k[2]
<1> USE DEF TypeOK, Goto
<1>1. CASE Moves(r)
  <2>1. pc'[r] \in {"unrow", "unfile"}
    BY DEF Removes
  <2>2. PICK c \in Code : Find(r, c) \/ DeleteRow(r, c)
    BY <1>1, <2>1, RemoveSteps
  <2>3. todo'[r] = todo[r] /\ Current(r, c)
    BY <2>2 DEF Find, DeleteRow, localVars
  <2>4. k[1] \in Code /\ k[1] \in todo[r] /\ \A e \in todo[r] : e <= k[1]
    BY <2>3 DEF Removes, Key
  <2>5. c = k[1]
    BY <2>3, <2>4, ReleasesAssumption DEF Current, Code
  <2>6. CASE Find(r, c)
    BY <2>5, <2>6 DEF Find, Removes
  <2>7. CASE DeleteRow(r, c)
    BY <2>4, <2>5, <2>7 DEF DeleteRow, Removes, localVars
  <2> QED
    BY <2>2, <2>6, <2>7
<1>2. CASE Crash
  BY <1>2 DEF Crash, Removes
<1>3. CASE pc'[r] = pc[r] /\ todo'[r] = todo[r] /\ victim'[r] = victim[r]
  BY <1>3 DEF Removes
<1> QED
  BY <1>1, <1>2, <1>3, WhoMoves

\* Who has a version code keeps it, and its key.
LEMMA KeysStay ==
    ASSUME IInv, Next, NEW u \in Upload, code[u] \in Code
    PROVE  code'[u] = code[u] /\ key(u)' = key(u) /\ key(u) \in Key /\ ~Accept(u)
<1>1. code'[u] = code[u] /\ form' = form
  BY CodesStay, Changes DEF IInv
<1>2. key(u) \in Key
  BY ReleasesAssumption DEF IInv, TypeOK, key, Key
<1>3. ~Accept(u)
  BY ReleasesAssumption DEF IInv, LocalInv, Accept, Code, Unnumbered
<1> QED
  BY <1>1, <1>2, <1>3 DEF key

\* History only grows.
LEMMA ContendedStays ==
    ASSUME Next
    PROVE  contended \subseteq contended'
<1>1. ASSUME NEW u \in Upload, Begin(u) \/ Receive(u) \/ UploadStep(u)
      PROVE  contended \subseteq contended'
  BY <1>1
  DEF Receive, UploadStep, SignURL, SignFails, Begin, Accept, Conflict, AcceptFails,
      SaveCreate, SaveWrite, SaveRename, SaveFails, CreateRelease, CreateReleaseFails,
      Undo, Push, SetPlay, SetPlayFault, ReadKeep, ReadKeepFault, ListReleases,
      ListPanics, ListFault, SavePut, SaveHead, BucketFails, historyVars
<1>2. ASSUME NEW r \in Request, DeleteStep(r) PROVE contended \subseteq contended'
  BY <1>2
  DEF DeleteStep, Find, FindNothing, DeleteRow, DeleteRowFault, DeleteFile,
      historyVars
<1>3. ASSUME NEW d \in Deletion, NEW c \in Code, DeleteCheck(d, c) \/ DeleteRefused(d, c)
      PROVE  contended \subseteq contended'
  BY <1>3 DEF DeleteCheck, DeleteRefused, historyVars
<1>4. CASE SetPruneKeep \/ SetHubKeep \/ Crash
  BY <1>4 DEF SetPruneKeep, SetHubKeep, Crash, historyVars
<1> QED
  BY <1>1, <1>2, <1>3, <1>4 DEF Next

\* An upload's push has one outcome, and neither a failed statement nor an
\* object a failed call left is forgotten.
LEMMA HistoryStays ==
    ASSUME TypeOK, Next
    PROVE  /\ \/ \E v \in Upload : Push(v)
              \/ pushed' = pushed
           /\ faulted \subseteq faulted' /\ stray \subseteq stray'
<1> USE DEF localVars, historyVars, Fault, RemoveArtifact
<1>1. ASSUME NEW v \in Upload, Begin(v) \/ Receive(v) \/ UploadStep(v)
      PROVE  (Push(v) \/ pushed' = pushed) /\ faulted \subseteq faulted' /\ stray \subseteq stray'
  BY <1>1
  DEF Receive, UploadStep, SignURL, SignFails, Begin, Accept, Conflict, AcceptFails,
      SaveCreate, SaveWrite, SaveRename, SaveFails, CreateRelease, CreateReleaseFails,
      Undo, Push, SetPlay, SetPlayFault, ReadKeep, ReadKeepFault, ListReleases,
      ListPanics, ListFault, SavePut, SaveHead, BucketFails
<1>2. ASSUME NEW r \in Request, DeleteStep(r)
      PROVE  pushed' = pushed /\ faulted \subseteq faulted' /\ stray \subseteq stray'
  BY <1>2 DEF DeleteStep, Find, FindNothing, DeleteRow, DeleteRowFault, DeleteFile
<1>3. ASSUME NEW d \in Deletion, NEW c \in Code, DeleteCheck(d, c) \/ DeleteRefused(d, c)
      PROVE  pushed' = pushed /\ faulted \subseteq faulted' /\ stray \subseteq stray'
  BY <1>3 DEF DeleteCheck, DeleteRefused
<1>4. CASE SetPruneKeep \/ SetHubKeep \/ Crash
  BY <1>4 DEF SetPruneKeep, SetHubKeep, Crash
<1> QED
  BY <1>1, <1>2, <1>3, <1>4 DEF Next

-----------------------------------------------------------------------------
(* The rows and who has a key for itself                                   *)

\* Who has got past the INSERT does not go back.
LEMMA PastStays ==
    ASSUME TypeOK, Next, NEW u \in Upload,
           pc[u] \in Recorded \cup {"created", "unsigned", "aborted", "lost"}
    PROVE  pc'[u] \in Recorded \cup {"created", "unsigned", "aborted", "lost"}
<1>1. CASE Moves(u)
  <2>1. pc[u] \in Recorded
    BY <1>1, ReleasesAssumption
    DEF Moves, Receive, UploadStep, SignURL, SignFails, Begin, Accept, Conflict,
        AcceptFails, SaveCreate, SaveWrite, SaveRename, SaveFails, CreateRelease,
        CreateReleaseFails, Undo, Push, SetPlay, SetPlayFault, ReadKeep,
        ReadKeepFault, ListReleases, ListPanics, ListFault, SavePut, SaveHead,
        BucketFails, Recorded, Deleting, DeleteStep, Find, FindNothing, DeleteRow,
        DeleteRowFault, DeleteFile
  <2> QED
    BY <1>1, <2>1, OwnSteps
<1>2. CASE Crash
  BY <1>2 DEF Crash, TypeOK, Request, Active
<1>3. CASE pc'[u] = pc[u]
  BY <1>3 DEF Recorded, Deleting
<1> QED
  BY <1>1, <1>2, <1>3, WhoMoves DEF Request

\* A release's writer has got past the INSERT and does not go back.
LEMMA StepWriter ==
    ASSUME IInv, WriterInv, Next
    PROVE  WriterInv'
<1> DEFINE Past == Recorded \cup {"created", "unsigned", "aborted", "lost"}
<1> USE DEF IInv, TypeOK
<1>1. ASSUME NEW u \in Upload, pc[u] \in Past PROVE pc'[u] \in Past
  BY <1>1, PastStays DEF Recorded, Deleting
<1>2. SUFFICES ASSUME NEW c \in Code, rows'[c] # NoRow
               PROVE  rows'[c].name = form'[rows'[c].sha].name /\ pc'[rows'[c].sha] \in Past
  BY DEF WriterInv, Taken, Recorded, Deleting
<1>3. form' = form
  BY Changes
<1>4. CASE /\ rows[c] # NoRow /\ rows'[c].sha = rows[c].sha /\ rows'[c].name = rows[c].name
  <2>1. rows[c].sha \in Upload
    BY <1>4 DEF Row
  <2>2. rows[c].name = form[rows[c].sha].name /\ pc[rows[c].sha] \in Past
    BY <1>4 DEF WriterInv, Taken
  <2> QED
    BY <1>1, <1>3, <1>4, <2>1, <2>2
<1>5. CASE \E u \in Upload : CreateRelease(u) /\ rows'[c] = NewRow(u)
  <2>1. PICK u \in Upload : CreateRelease(u) /\ rows'[c] = NewRow(u)
    BY <1>5
  <2>2. pc'[u] \in Past
    BY <2>1 DEF CreateRelease, Goto, Recorded, Request
  <2> QED
    BY <1>3, <2>1, <2>2 DEF NewRow
<1> QED
  BY <1>2, <1>4, <1>5, RowChanges

\* Whoever is Lone has a key of its own.
LEMMA LoneKey ==
    ASSUME IInv, NEW s \in Upload, Lone(s)
    PROVE  code[s] \in Code /\ key(s) \in Key
  BY ReleasesAssumption
  DEF Lone, Holding, Owns, IInv, LocalInv, TypeOK, key, Key, Saving

\* Whoever is Lone after a step was so before, or has just been given its code.
LEMMA LoneStep ==
    ASSUME IInv, Next, NEW s \in Upload, Lone(s)'
    PROVE  Lone(s) \/ Accept(s)
<1> USE DEF IInv, TypeOK
<1>1. s \notin contended
  BY ContendedStays DEF Lone
<1>2. CASE Holding(s)'
  BY <1>1, <1>2, HoldStep DEF Lone
<1>3. CASE Owns(s)'
  <2> DEFINE c == code'[s]
  <2>1. c \in Code /\ rows'[c] # NoRow /\ rows'[c].sha = s
    BY <1>3 DEF Owns
  <2>2. CASE rows[c] # NoRow /\ rows[c].sha = s
    <3>1. code[s] = c
      BY <2>1, <2>2 DEF RowInv, Taken
    <3> QED
      BY <1>1, <2>1, <2>2, <3>1 DEF Lone, Owns
  <2>3. CASE \E u \in Upload : CreateRelease(u) /\ rows'[c] = NewRow(u)
    BY <1>1, <2>1, <2>3 DEF CreateRelease, NewRow, Lone, Holding
  <2> QED
    BY <2>1, <2>2, <2>3, RowChanges
<1> QED
  BY <1>2, <1>3 DEF Lone

\* An upload that was given a code while nobody used its key has it for itself.
LEMMA LoneAccepted ==
    ASSUME IInv, Next, NEW s \in Upload, Accept(s), Lone(s)', NEW k, k = key(s)'
    PROVE  /\ \A v \in Upload \ {s} : Holding(v)' => key(v)' # k
           /\ \A r \in Request : ~Removes(r, k)'
           /\ rows'[code'[s]] = NoRow
<1> USE DEF IInv, TypeOK
<1>1. /\ s \notin contended' /\ pc[s] = "begun" /\ code[s] = Unnumbered
      /\ form' = form /\ rows' = rows
      /\ \A v \in Upload \ {s} : code'[v] = code[v]
      /\ \A q \in Request \ {s} : pc'[q] = pc[q]
      /\ pc'[s] \in {"put", "create"}
  <2>1. s \notin contended' /\ pc[s] = "begun" /\ code[s] = Unnumbered
    BY DEF Accept, Lone, LocalInv
  <2>2. form' = form /\ rows' = rows /\ \E c : code' = [code EXCEPT ![s] = c]
    BY DEF Accept, dbVars
  <2>3. \E step \in {"put", "create"} : pc' = [pc EXCEPT ![s] = step]
    BY DEF Accept, Goto
  <2> QED
    BY <2>1, <2>2, <2>3 DEF Request
<1>2. /\ code'[s] \in Code /\ code'[s] > Latest
      /\ k = <<code'[s], form[s].name>>
      /\ ~\E v \in Upload \ {s} : HoldsKey(v, k)
      /\ ~\E r \in Request : Removes(r, k)
  BY <1>1 DEF Accept, key
<1>3. ASSUME NEW v \in Upload \ {s}, Holding(v)', key(v)' = k PROVE FALSE
  <2>1. pc'[v] = pc[v] /\ key(v) = k
    BY <1>1, <1>3 DEF key, Request
  <2> QED
    BY <1>2, <1>3, <2>1 DEF HoldsKey, Holding
<1>4. ASSUME NEW r \in Request, Removes(r, k)' PROVE FALSE
  <2>1. k \in Key
    BY <1>2, ReleasesAssumption DEF Key
  <2>2. Find(r, k[1])
    BY <1>2, <1>4, <2>1, FoundStep
  <2>3. pc[r] = "find" /\ pc'[r] = "unrow"
    BY <2>2 DEF Find, Goto
  <2> QED
    BY <1>1, <2>3
<1>5. rows'[code'[s]] = NoRow
  BY <1>1, <1>2, AboveLatest
<1> QED
  BY <1>3, <1>4, <1>5

\* Whoever has its key for itself keeps it so.
LEMMA StepLone ==
    ASSUME IInv, WriterInv, LoneInv, Next
    PROVE  LoneInv'
<1> USE DEF IInv, TypeOK
<1> SUFFICES ASSUME NEW s \in Upload, Lone(s)'
             PROVE  /\ \A v \in Upload \ {s} : Holding(v)' => key(v)' # key(s)'
                    /\ \A r \in Request : Removes(r, key(s))' => pc'[r] = "unrow" /\ ~Holding(s)'
                    /\ Holding(s)' => (rows'[code'[s]] = NoRow
                                        \/ rows'[code'[s]].name # form'[s].name)
  BY DEF LoneInv
<1>1. CASE Accept(s)
  <2>1. PICK k : k = key(s)'
    OBVIOUS
  <2>2. \A r \in Request : Removes(r, key(s))' => Removes(r, k)'
    BY <2>1 DEF Removes
  <2> QED
    BY <1>1, <2>1, <2>2, LoneAccepted
<1>2. CASE ~Accept(s)
  <2>1. Lone(s) /\ s \notin contended'
    BY <1>2, LoneStep DEF Lone
  <2>2. /\ code[s] \in Code /\ code'[s] = code[s] /\ key(s) \in Key
        /\ key(s)' = key(s) /\ form' = form
    BY <2>1, LoneKey, KeysStay, Changes
  <2>3. key(s)[1] = code[s] /\ key(s)[2] = form[s].name
    BY DEF key
  <2>4. /\ \A v \in Upload \ {s} : Holding(v) => key(v) # key(s)
        /\ \A r \in Request : Removes(r, key(s)) => pc[r] = "unrow" /\ ~Holding(s)
        /\ Holding(s) => (rows[code[s]] = NoRow \/ rows[code[s]].name # form[s].name)
    BY <2>1 DEF LoneInv
  <2>5. Holding(s)' => Holding(s)
    BY <1>2, HoldStep
  \* Another upload that comes to hold a key took a code above the latest.
  <2>6. ASSUME NEW v \in Upload \ {s}, Holding(v)', key(v)' = key(s) PROVE FALSE
    <3>1. CASE Holding(v)
      <4>1. code[v] \in Code
        BY <3>1 DEF Holding, LocalInv
      <4> QED
        BY <2>4, <2>6, <3>1, <4>1, KeysStay
    <3>2. CASE Accept(v)
      <4>1. /\ code'[v] \in Code /\ code'[v] > Latest /\ key(v)' = <<code'[v], form[v].name>>
            /\ HoldsKey(s, key(v)') => s \in contended'
        BY <3>2, <2>2 DEF Accept, key
      <4>2. ~Holding(s)
        BY <2>1, <2>6, <4>1 DEF HoldsKey, Holding
      <4>3. rows[code[s]] # NoRow
        BY <2>1, <4>2 DEF Lone, Owns
      <4>4. code'[v] = code[s]
        BY <2>3, <2>6, <4>1
      <4> QED
        BY <4>1, <4>3, <4>4, AboveLatest
    <3> QED
      BY <2>6, <3>1, <3>2, HoldStep
  \* A request that finds a row under this key finds the one of s.
  <2>7. ASSUME NEW r \in Request, Removes(r, key(s))'
        PROVE  pc'[r] = "unrow" /\ ~Holding(s)'
    <3>1. CASE Removes(r, key(s)) /\ pc'[r] = pc[r]
      BY <2>4, <2>5, <3>1
    <3>2. CASE Removes(r, key(s)) /\ DeleteRow(r, code[s])
      <4>1. ~Holding(s)'
        BY <2>4, <2>5, <3>2
      <4>2. rows'[code[s]] = NoRow
        BY <2>2, <3>2 DEF DeleteRow
      <4> QED
        BY <2>2, <4>1, <4>2 DEF Lone, Owns
    <3>3. CASE Find(r, code[s]) /\ rows[code[s]].name = form[s].name
      <4>1. ~Holding(s)
        BY <2>4, <3>3 DEF Find
      <4> QED
        BY <2>5, <3>3, <4>1 DEF Find, Goto
    <3> QED
      <4>1. PICK k \in Key : k = key(s)
        BY <2>2
      <4>2. Removes(r, k)'
        BY <2>2, <2>7, <4>1 DEF Removes
      <4> QED
        BY <2>3, <3>1, <3>2, <3>3, <4>1, <4>2, FoundStep
  <2>8. ASSUME Holding(s)'
        PROVE  rows'[code[s]] = NoRow \/ rows'[code[s]].name # form[s].name
    <3>1. ASSUME NEW u \in Upload, CreateRelease(u), code[u] = code[s],
                 rows'[code[s]] = NewRow(u), form[u].name = form[s].name
          PROVE  FALSE
      <4>1. Holding(u) /\ key(u) = key(s)
        BY <3>1 DEF CreateRelease, Holding, key
      <4>2. u = s
        BY <2>4, <4>1
      <4>3. pc'[s] = "sign"
        BY <3>1, <4>2 DEF CreateRelease, Goto, Request
      <4> QED
        BY <2>8, <4>3 DEF Holding, Saving
    <3>2. Holding(s)
      BY <2>5, <2>8
    <3>3. ASSUME NEW u \in Upload, rows'[code[s]] = NewRow(u)
          PROVE  rows'[code[s]].name = form[u].name
      BY <3>3 DEF NewRow
    <3> QED
      BY <2>2, <2>4, <3>1, <3>2, <3>3, RowChanges
  <2> QED
    BY <2>2, <2>6, <2>7, <2>8
<1> QED
  BY <1>1, <1>2

-----------------------------------------------------------------------------
(* What is in the store                                                    *)

\* The steps of an upload that call the store.
Stores(u) ==
    \/ SaveCreate(u) \/ SaveWrite(u) \/ SaveRename(u) \/ SaveFails(u)
    \/ SavePut(u) \/ BucketFails(u) \/ Undo(u)

\* Only these steps and a deletion change what is stored.
LEMMA WhoStores ==
    ASSUME Next
    PROVE  \/ \E u \in Upload : Stores(u)
           \/ \E r \in Request, c \in Code : DeleteFile(r, c)
           \/ Crash
           \/ UNCHANGED storageVars
<1>1. ASSUME NEW u \in Upload, Begin(u) \/ Receive(u) \/ UploadStep(u)
      PROVE  Stores(u) \/ UNCHANGED storageVars
  BY <1>1
  DEF Receive, UploadStep, SignURL, SignFails, Begin, Accept, Conflict, AcceptFails,
      CreateRelease, CreateReleaseFails, Push, SetPlay, SetPlayFault, ReadKeep,
      ReadKeepFault, ListReleases, ListPanics, ListFault, SaveHead, Stores
<1>2. ASSUME NEW r \in Request, DeleteStep(r)
      PROVE  (\E c \in Code : DeleteFile(r, c)) \/ UNCHANGED storageVars
  BY <1>2 DEF DeleteStep, Find, FindNothing, DeleteRow, DeleteRowFault
<1>3. ASSUME NEW d \in Deletion, NEW c \in Code, DeleteCheck(d, c) \/ DeleteRefused(d, c)
      PROVE  UNCHANGED storageVars
  BY <1>3 DEF DeleteCheck, DeleteRefused
<1>4. CASE SetPruneKeep \/ SetHubKeep
  BY <1>4 DEF SetPruneKeep, SetHubKeep
<1> QED
  BY <1>1, <1>2, <1>3, <1>4 DEF Next

\* The inode a Save opens is its own or was left under its key.
LEMMA CreatedAt ==
    ASSUME IInv, HomeInv, NEW u \in Upload, SaveCreate(u)
    PROVE  /\ \E i \in Upload :
                /\ code[i] \in Code /\ key(i) = key(u)
                /\ part' = [part EXCEPT ![key(u)] = i]
                /\ data' = [data EXCEPT ![i] = Store!Blank]
                /\ fd' = [fd EXCEPT ![u] = i]
           /\ disk' = disk /\ off' = off
           /\ key(u) \in Key /\ code[u] \in Code
<1> USE DEF IInv, TypeOK, Store!StorageTypeOK, Store!Inode
<1>1. code[u] \in Code /\ key(u) \in Key
  BY ReleasesAssumption DEF SaveCreate, LocalInv, Saving, key, Key
<1>2. CASE part[key(u)] = NoFile
  BY <1>1, <1>2 DEF SaveCreate, Store!Create
<1>3. CASE part[key(u)] # NoFile
  <2>1. part[key(u)] \in Upload /\ key(part[key(u)]) = key(u)
    BY <1>1, <1>3 DEF HomeInv, Key
  <2>2. code[part[key(u)]] \in Code
    BY <1>1, <2>1 DEF key
  <2> QED
    BY <1>1, <1>3, <2>1, <2>2 DEF SaveCreate, Store!Create
<1> QED
  BY <1>2, <1>3

\* Removing an artifact adds nothing to the store.
LEMMA RemovedFrame ==
    ASSUME IInv, NEW k, RemoveArtifact(k)
    PROVE  /\ part' = part /\ data' = data /\ fd' = fd /\ off' = off
           /\ disk' = disk \/ disk' = [disk EXCEPT ![k] = NoFile]
  BY DEF RemoveArtifact, Store!Remove, Bucket!Remove, storageVars

\* What the other steps of an upload do to the store, key by key.
LEMMA StoredAt ==
    ASSUME IInv, HomeInv, NEW u \in Upload, Stores(u), ~SaveCreate(u)
    PROVE  /\ code[u] \in Code /\ key(u) \in Key
           /\ part' = part \/ part' = [part EXCEPT ![key(u)] = NoFile]
           /\ \/ disk' = disk
              \/ disk' = [disk EXCEPT ![key(u)] = NoFile]
              \/ disk' = [disk EXCEPT ![key(u)] = part[key(u)]]
              \/ disk' = [disk EXCEPT ![key(u)] = u]
           /\ \/ data' = data
              \/ \E body : data' = [data EXCEPT ![u] = body]
              \/ \E n : data' = [data EXCEPT ![fd[u]][n] = u]
           /\ fd' = fd \/ fd' = [fd EXCEPT ![u] = NoFile]
           /\ off' = off \/ \E n : off' = [off EXCEPT ![u] = n]
<1> USE DEF IInv, TypeOK
<1>1. code[u] \in Code /\ key(u) \in Key
  BY ReleasesAssumption
  DEF Stores, SaveWrite, SaveRename, SaveFails, SavePut, BucketFails, Undo, LocalInv,
      Saving, key, Key
<1>2. CASE SaveWrite(u)
  BY <1>1, <1>2 DEF SaveWrite, Store!Write
<1>3. CASE SaveRename(u)
  BY <1>1, <1>3 DEF SaveRename, Store!Rename, Store!Close
<1>4. CASE SaveFails(u)
  BY <1>1, <1>4
  DEF SaveFails, Store!WriteFails, Store!RenameFails, Store!Close, storageVars
<1>5. CASE SavePut(u) \/ BucketFails(u)
  BY <1>1, <1>5 DEF SavePut, BucketFails, Bucket!Put, storageVars
<1>6. CASE Undo(u)
  BY <1>1, <1>6, RemovedFrame DEF Undo
<1> QED
  BY <1>2, <1>3, <1>4, <1>5, <1>6 DEF Stores

\* Who is not writing has nothing written.
LEMMA StepOffset ==
    ASSUME IInv, HomeInv, Next, NEW u \in Upload, pc'[u] # "write"
    PROVE  off'[u] = 0
<1> USE DEF IInv, TypeOK, Store!StorageTypeOK
<1>1. CASE Crash
  BY <1>1 DEF Crash, Store!CloseAll
<1>2. CASE Stores(u)
  BY <1>2
  DEF Stores, HomeInv, Goto, Request, SaveCreate, SaveWrite, SaveRename, SaveFails,
      SavePut, BucketFails, Undo, RemoveArtifact, Store!Create, Store!Write,
      Store!Rename, Store!WriteFails, Store!RenameFails, Store!Close, Store!Remove,
      Bucket!Put, Bucket!Remove, storageVars
<1>3. CASE ~Crash /\ ~Stores(u)
  <2>1. off'[u] = off[u]
    <3>1. ASSUME NEW v \in Upload, Stores(v) PROVE off'[u] = off[u]
      <4>1. v # u
        BY <1>3, <3>1
      <4>2. off' = off \/ \E n : off' = [off EXCEPT ![v] = n]
        BY <3>1, StoredAt, CreatedAt
      <4> QED
        BY <4>1, <4>2
    <3>2. ASSUME NEW r \in Request, NEW c \in Code, DeleteFile(r, c) PROVE off'[u] = off[u]
      BY <3>2, RemovedFrame DEF DeleteFile
    <3> QED
      BY <1>3, <3>1, <3>2, WhoStores DEF storageVars
  <2>2. pc[u] # "write"
    <3>1. CASE Moves(u)
      BY <1>3, <3>1, ReleasesAssumption
      DEF Moves, Receive, UploadStep, SignURL, SignFails, Begin, Accept, Conflict,
          AcceptFails, CreateRelease, CreateReleaseFails, Push, SetPlay, SetPlayFault,
          ReadKeep, ReadKeepFault, ListReleases, ListPanics, ListFault, SaveHead,
          Stores, DeleteStep, Find, FindNothing, DeleteRow, DeleteRowFault, DeleteFile
    <3> QED
      BY <1>3, <3>1, WhoMoves DEF Request
  <2> QED
    BY <2>1, <2>2 DEF HomeInv
<1> QED
  BY <1>1, <1>2, <1>3

\* Every inode stays under the key of the upload that created it.
LEMMA StepHome ==
    ASSUME IInv, HomeInv, Next
    PROVE  HomeInv'
<1> USE DEF IInv, TypeOK, Store!StorageTypeOK, Store!Inode
<1>1. ASSUME NEW u \in Upload, code[u] \in Code
      PROVE  code'[u] \in Code /\ key(u)' = key(u)
  BY <1>1, KeysStay
<1>2. ASSUME NEW u \in Upload, NEW k \in Key, key(u) = k PROVE code[u] \in Code
  BY <1>2 DEF key, Key
<1>3. ASSUME NEW u \in Upload, fd'[u] # NoFile
      PROVE  /\ code[u] \in Code
             /\ fd'[u] \in Upload /\ key(fd'[u]) = key(u) /\ code[fd'[u]] \in Code
  <2>1. CASE fd'[u] = fd[u]
    <3>1. fd[u] \in Upload /\ code[u] \in Code /\ key(fd[u]) = key(u)
      BY <1>3, <2>1 DEF HomeInv
    <3> QED
      BY <2>1, <3>1 DEF key
  <2>2. ASSUME NEW v \in Upload, Stores(v), fd'[u] # fd[u]
        PROVE  /\ code[u] \in Code
               /\ fd'[u] \in Upload /\ key(fd'[u]) = key(u) /\ code[fd'[u]] \in Code
    <3>1. SaveCreate(v)
      BY <1>3, <2>2, StoredAt
    <3> QED
      BY <2>2, <3>1, CreatedAt
  <2>3. ASSUME NEW r \in Request, NEW c \in Code, DeleteFile(r, c) PROVE fd'[u] = fd[u]
    BY <2>3, RemovedFrame DEF DeleteFile
  <2>4. CASE Crash
    BY <1>3, <2>4 DEF Crash, Store!CloseAll
  <2> QED
    BY <2>1, <2>2, <2>3, <2>4, WhoStores DEF storageVars
<1>4. ASSUME NEW k \in Key, part'[k] # NoFile
      PROVE  part'[k] \in Upload /\ key(part'[k]) = k
  <2>1. CASE part'[k] = part[k]
    BY <1>4, <2>1 DEF HomeInv, Key
  <2>2. ASSUME NEW v \in Upload, Stores(v), part'[k] # part[k]
        PROVE  part'[k] \in Upload /\ key(part'[k]) = k
    <3>1. SaveCreate(v)
      BY <1>4, <2>2, StoredAt DEF Key
    <3> QED
      BY <2>2, <3>1, CreatedAt DEF Key
  <2>3. ASSUME NEW r \in Request, NEW c \in Code, DeleteFile(r, c) PROVE part'[k] = part[k]
    BY <2>3, RemovedFrame DEF DeleteFile
  <2>4. CASE Crash
    BY <2>1, <2>4 DEF Crash, Store!CloseAll
  <2> QED
    BY <2>1, <2>2, <2>3, <2>4, WhoStores DEF storageVars
<1>5. ASSUME NEW k \in Key, disk'[k] # NoFile
      PROVE  disk'[k] \in Upload /\ key(disk'[k]) = k
  <2>1. CASE disk'[k] = disk[k]
    BY <1>5, <2>1 DEF HomeInv, Key
  <2>2. ASSUME NEW v \in Upload, Stores(v), disk'[k] # disk[k]
        PROVE  disk'[k] \in Upload /\ key(disk'[k]) = k
    <3>1. ~SaveCreate(v)
      BY <2>2, CreatedAt
    <3>2. k = key(v) /\ (disk'[k] = part[k] \/ disk'[k] = v)
      BY <1>5, <2>2, <3>1, StoredAt DEF Key
    <3> QED
      BY <1>5, <3>2 DEF HomeInv, Key
  <2>3. ASSUME NEW r \in Request, NEW c \in Code, DeleteFile(r, c) PROVE disk'[k] = disk[k]
    BY <1>5, <2>3, RemovedFrame DEF DeleteFile, Key
  <2>4. CASE Crash
    BY <2>1, <2>4 DEF Crash, Store!CloseAll
  <2> QED
    BY <2>1, <2>2, <2>3, <2>4, WhoStores DEF storageVars
<1>6. \A u \in Upload : fd'[u] # NoFile => code'[u] \in Code /\ key(fd[u])' = key(u)'
  BY <1>1, <1>3 DEF key
<1>7. \A k \in Key : part'[k] # NoFile => key(part[k])' = k
  BY <1>1, <1>2, <1>4 DEF key
<1>8. \A k \in Key : disk'[k] # NoFile => key(disk[k])' = k
  BY <1>1, <1>2, <1>5 DEF key
<1> QED
  BY <1>6, <1>7, <1>8, StepOffset DEF HomeInv

\* What is stored under key k, in inodes of that key included.
Same(k) ==
    /\ part'[k] = part[k] /\ disk'[k] = disk[k]
    /\ \A i \in Upload : code[i] \in Code /\ key(i) = k => data'[i] = data[i]

\* An upload's steps leave other keys alone, and other uploads' open files.
LEMMA OtherKey ==
    ASSUME IInv, HomeInv, NEW v \in Upload, Stores(v), NEW k \in Key, key(v) # k
    PROVE  /\ Same(k)
           /\ \A s \in Upload \ {v} : fd'[s] = fd[s] /\ off'[s] = off[s]
<1> USE DEF IInv, TypeOK, Store!StorageTypeOK, Store!Inode, Key
<1>1. CASE SaveCreate(v)
  BY <1>1, CreatedAt DEF Same
<1>2. CASE ~SaveCreate(v)
  <2>1. part'[k] = part[k] /\ disk'[k] = disk[k]
    <3>1. /\ part' = part \/ part' = [part EXCEPT ![key(v)] = NoFile]
          /\ disk' = disk \/ \E i : disk' = [disk EXCEPT ![key(v)] = i]
      BY <1>2, StoredAt
    <3> QED
      BY <3>1
  <2>2. \A s \in Upload \ {v} : fd'[s] = fd[s] /\ off'[s] = off[s]
    <3>1. fd' = fd \/ fd' = [fd EXCEPT ![v] = NoFile]
      BY <1>2, StoredAt
    <3>2. off' = off \/ \E n : off' = [off EXCEPT ![v] = n]
      BY <1>2, StoredAt
    <3> QED
      BY <3>1, <3>2
  <2>3. ASSUME NEW i \in Upload, key(i) = k PROVE data'[i] = data[i]
    <3>1. i # v /\ i # fd[v]
      BY <2>3, ReleasesAssumption DEF HomeInv
    <3>2. \/ data' = data
          \/ \E body : data' = [data EXCEPT ![v] = body]
          \/ \E n : data' = [data EXCEPT ![fd[v]][n] = v]
      BY <1>2, StoredAt
    <3> QED
      BY <3>1, <3>2
  <2> QED
    BY <2>1, <2>2, <2>3 DEF Same
<1> QED
  BY <1>1, <1>2

\* Nobody but its own steps touches what belongs to a lone upload, unless the
\* hub dies.
LEMMA Undisturbed ==
    ASSUME IInv, HomeInv, LoneInv, Next, NEW s \in Upload, Lone(s), ~Stores(s), ~Crash
    PROVE  Same(key(s)) /\ fd'[s] = fd[s] /\ off'[s] = off[s]
<1> USE DEF IInv, TypeOK
<1>1. key(s) \in Key
  BY LoneKey
<1>2. ASSUME NEW v \in Upload, Stores(v)
      PROVE  Same(key(s)) /\ fd'[s] = fd[s] /\ off'[s] = off[s]
  <2>1. Holding(v)
    BY <1>2
    DEF Stores, SaveCreate, SaveWrite, SaveRename, SaveFails, SavePut, BucketFails,
        Undo, Holding, Saving
  <2>2. v # s /\ key(v) # key(s)
    BY <1>2, <2>1 DEF LoneInv
  <2> QED
    BY <1>1, <1>2, <2>2, OtherKey
<1>3. ASSUME NEW r \in Request, NEW c \in Code, DeleteFile(r, c)
      PROVE  Same(key(s)) /\ fd'[s] = fd[s] /\ off'[s] = off[s]
  <2>1. ~Removes(r, key(s))
    BY <1>3 DEF DeleteFile, LoneInv
  <2>2. <<c, victim[r]>> # key(s)
    BY <1>3, <2>1 DEF Removes, DeleteFile, Current
  <2>3. /\ part' = part /\ data' = data /\ fd' = fd /\ off' = off
        /\ disk' = disk \/ disk' = [disk EXCEPT ![<<c, victim[r]>>] = NoFile]
    BY <1>3, RemovedFrame DEF DeleteFile
  <2>4. disk'[key(s)] = disk[key(s)]
    BY <1>1, <2>2, <2>3 DEF Store!StorageTypeOK, Key
  <2> QED
    BY <2>3, <2>4 DEF Same
<1> QED
  BY <1>2, <1>3, WhoStores DEF storageVars, Same

\* What a lone upload has stored stays its own.
LEMMA StepBody ==
    ASSUME IInv, WriterInv, HomeInv, LoneInv, BodyInv, Next
    PROVE  BodyInv'
<1> USE DEF IInv, TypeOK, Store!StorageTypeOK, Store!Inode
<1> SUFFICES ASSUME NEW s \in Upload, Lone(s)'
             PROVE  /\ pc'[s] = "write" =>
                        /\ fd'[s] # NoFile /\ part'[key(s)'] = fd'[s]
                        /\ \A n \in 1 .. Chunks : n <= off'[s] => data'[fd'[s]][n] = s
                    /\ (pc'[s] \in {"head", "record"} \/ ~Holding(s)') =>
                        disk'[key(s)'] # NoFile /\ Store!Intact(s, disk[key(s)])'
  BY DEF BodyInv
<1>1. CASE Accept(s)
  BY <1>1 DEF Accept, Goto, Request, Holding, Saving
<1>2. CASE ~Accept(s)
  <2> DEFINE k == key(s)
  <2>1. Lone(s)
    BY <1>2, LoneStep
  <2>2. code[s] \in Code /\ k \in Key /\ key(s)' = k /\ code'[s] = code[s]
    BY <2>1, LoneKey, KeysStay
  <2>3. /\ pc[s] = "write" =>
            /\ fd[s] # NoFile /\ part[k] = fd[s]
            /\ \A n \in 1 .. Chunks : n <= off[s] => data[fd[s]][n] = s
        /\ (pc[s] \in {"head", "record"} \/ ~Holding(s)) =>
            disk[k] # NoFile /\ Store!Intact(s, disk[k])
    BY <2>1 DEF BodyInv
  \* Who holds no key any more has its row.
  <2>4. ~Holding(s)' => pc'[s] \in Recorded \cup {"created", "unsigned", "aborted", "lost"}
    BY <2>2, StepWriter DEF Lone, Owns, WriterInv, Taken
  <2>5. CASE Crash
    <3>1. disk' = disk /\ data' = data
      BY <2>5 DEF Crash, Store!CloseAll
    <3>2. pc'[s] \notin {"write", "head", "record"}
      BY <2>5 DEF Crash, Request, Active, Done, Answered, Silent
    <3>3. ASSUME ~Holding(s)' PROVE ~Holding(s)
      <4>1. rows' = rows
        BY <2>5 DEF Crash, dbVars
      <4>2. Owns(s)
        BY <2>2, <3>3, <4>1 DEF Lone, Owns
      <4> QED
        BY <4>2 DEF Owns, WriterInv, Taken, Holding, Saving, Recorded, Deleting
    <3> QED
      BY <2>2, <2>3, <3>1, <3>2, <3>3 DEF Store!Intact, Store!BodyOf, Store!Chunk
  <2>6. CASE ~Crash /\ ~Stores(s)
    <3>1. Same(k) /\ fd'[s] = fd[s] /\ off'[s] = off[s]
      BY <2>1, <2>6, Undisturbed
    <3>2. ASSUME pc'[s] = "write"
          PROVE  pc[s] = "write" /\ data'[fd[s]] = data[fd[s]]
      <4>1. pc[s] = "write"
        BY <2>6, <3>2, WhoMoves, OwnSteps DEF Stores, Request
      <4>2. fd[s] \in Upload /\ key(fd[s]) = k
        BY <2>3, <4>1 DEF HomeInv
      <4>3. code[fd[s]] \in Code
        BY <2>2, <4>2 DEF key
      <4> QED
        BY <3>1, <4>1, <4>2, <4>3 DEF Same
    <3>3. ASSUME pc'[s] \in {"head", "record"} \/ ~Holding(s)'
          PROVE  disk[k] # NoFile /\ Store!Intact(s, disk[k]) /\ data'[disk[k]] = data[disk[k]]
      <4>1. pc[s] \in {"head", "record"} \/ ~Holding(s)
        <5>1. pc'[s] \in {"head", "record"} \cup Recorded
                        \cup {"created", "unsigned", "aborted", "lost"}
          BY <2>4, <3>3
        <5>2. CASE Moves(s)
          BY <2>6, <5>1, <5>2, OwnSteps DEF Stores, Holding, Saving, Recorded, Deleting
        <5>3. CASE pc'[s] = pc[s]
          BY <3>3, <5>3 DEF Holding, Saving
        <5> QED
          BY <2>6, <5>2, <5>3, WhoMoves DEF Request
      <4>2. disk[k] \in Upload /\ key(disk[k]) = k
        BY <2>2, <2>3, <4>1 DEF HomeInv, Key
      <4>3. code[disk[k]] \in Code
        BY <2>2, <4>2 DEF key
      <4> QED
        BY <2>3, <3>1, <4>1, <4>2, <4>3 DEF Same
    <3>4. disk'[k] = disk[k] /\ part'[k] = part[k]
      BY <3>1 DEF Same
    <3> QED
      BY <2>2, <2>3, <3>1, <3>2, <3>3, <3>4 DEF Store!Intact, Store!BodyOf, Store!Chunk
  <2>7. CASE SaveCreate(s)
    <3>1. pc'[s] = "write" /\ off[s] = 0
      BY <2>7 DEF SaveCreate, HomeInv, Goto, Request
    <3>2. Holding(s)'
      BY <3>1 DEF Holding, Saving
    <3>3. /\ fd'[s] # NoFile /\ part'[k] = fd'[s]
          /\ \A n \in 1 .. Chunks : n <= off'[s] => data'[fd'[s]][n] = s
      BY <2>2, <2>7, <3>1, CreatedAt, ReleasesAssumption DEF Key
    <3> QED
      BY <2>2, <3>1, <3>2, <3>3
  <2>8. CASE SaveWrite(s)
    <3>1. pc'[s] = "write" /\ pc[s] = "write" /\ fd' = fd /\ part' = part
      BY <2>8 DEF SaveWrite, Store!Write
    <3>2. Holding(s)'
      BY <3>1 DEF Holding, Saving
    <3>3. /\ off[s] \in Nat /\ off[s] < Chunks /\ off'[s] = off[s] + 1
          /\ data' = [data EXCEPT ![fd[s]][off[s] + 1] = s]
      BY <2>8 DEF SaveWrite, Store!Write
    <3>4. fd[s] \in Upload
      BY <2>3, <3>1
    <3>5. ASSUME NEW n \in 1 .. Chunks, n <= off'[s] PROVE data'[fd[s]][n] = s
      <4>1. CASE n <= off[s]
        BY <2>3, <3>1, <3>3, <3>4, <4>1 DEF Store!Chunk
      <4>2. CASE n = off[s] + 1
        BY <3>3, <3>4, <4>2 DEF Store!Chunk
      <4>3. n \in Int /\ off[s] \in Int /\ n <= off[s] + 1
        BY <3>3, <3>5
      <4>4. n <= off[s] \/ n = off[s] + 1
        BY <4>3
      <4> QED
        BY <4>1, <4>2, <4>4
    <3> QED
      BY <2>2, <2>3, <3>1, <3>2, <3>5
  <2>9. CASE SaveRename(s)
    <3>1. /\ pc'[s] = "record" /\ pc[s] = "write" /\ off[s] = Chunks /\ data' = data
          /\ disk' = [disk EXCEPT ![k] = part[k]]
      BY <2>9 DEF SaveRename, Store!Rename, Goto, Request
    <3>2. fd[s] \in Upload /\ disk'[k] = fd[s]
      BY <2>2, <2>3, <3>1 DEF Key
    <3>3. data'[fd[s]] = [n \in 1 .. Chunks |-> s]
      <4>1. \A n \in 1 .. Chunks : data[fd[s]][n] = s
        BY <2>3, <3>1, ReleasesAssumption
      <4>2. data[fd[s]] \in [1 .. Chunks -> Upload \cup {NoFile}]
        BY <3>2 DEF Store!Chunk, Store!Hole
      <4> QED
        BY <3>1, <4>1, <4>2
    <3> QED
      BY <2>2, <3>1, <3>2, <3>3, ReleasesAssumption
      DEF Store!Intact, Store!BodyOf, Store!Chunk
  <2>10. CASE SavePut(s)
    <3>1. pc'[s] = "head" /\ disk'[k] = s /\ data'[s] = Store!BodyOf(s)
      BY <2>2, <2>10 DEF SavePut, Bucket!Put, Goto, Request, Key
    <3> QED
      BY <2>2, <3>1, ReleasesAssumption DEF Store!Intact, Store!BodyOf, Store!Chunk
  <2>11. CASE SaveFails(s) \/ BucketFails(s) \/ Undo(s)
    <3>1. pc'[s] = "failed"
      BY <2>11 DEF SaveFails, BucketFails, Undo, Goto, Request
    <3> QED
      BY <2>4, <3>1 DEF Holding, Saving, Recorded, Deleting
  <2> QED
    BY <2>5, <2>6, <2>7, <2>8, <2>9, <2>10, <2>11 DEF Stores
<1> QED
  BY <1>1, <1>2

-----------------------------------------------------------------------------
(* The theorem                                                             *)

\* The empty platform satisfies the invariant.
LEMMA StartsArtifacts == Init => AInv
<1> SUFFICES ASSUME Init PROVE AInv
  OBVIOUS
<1>1. IInv
  BY StartsInvariant
<1>2. WriterInv /\ HomeInv
  BY ReleasesAssumption
  DEF Init, WriterInv, Taken, HomeInv, Store!StorageInit, Key, Request
<1>3. \A s \in Upload : ~Lone(s)
  BY ReleasesAssumption DEF Init, Lone, Holding, Owns, Saving, Request, Code, Unnumbered
<1> QED
  BY <1>1, <1>2, <1>3 DEF AInv, LoneInv, BodyInv

\* Every step, or none, keeps it.
LEMMA StepArtifacts == AInv /\ [Next]_vars => AInv'
<1> SUFFICES ASSUME AInv, [Next]_vars PROVE AInv'
  OBVIOUS
<1>1. IInv'
  BY StepInvariant DEF AInv
<1>2. CASE Next
  BY <1>1, <1>2, StepWriter, StepHome, StepLone, StepBody DEF AInv
<1>3. CASE UNCHANGED vars
  <2> USE <1>3 DEF vars, dbVars, storageVars, localVars, historyVars
  <2>1. WriterInv' /\ HomeInv'
    BY DEF AInv, WriterInv, HomeInv, Taken, key
  <2>2. ASSUME NEW s \in Upload
        PROVE  Lone(s)' = Lone(s) /\ Holding(s)' = Holding(s) /\ key(s)' = key(s)
    BY DEF Lone, Holding, Owns, key
  <2>3. \A r, k : Removes(r, k)' = Removes(r, k)
    BY DEF Removes
  <2>4. LoneInv'
    BY <2>2, <2>3 DEF AInv, LoneInv
  <2>5. BodyInv'
    BY <2>2, ZenonT(40) DEF AInv, BodyInv, Store!Intact, Store!BodyOf, Store!Chunk
  <2> QED
    BY <1>1, <2>1, <2>4, <2>5 DEF AInv
<1> QED
  BY <1>2, <1>3

\* A release whose key no other request used has its artifact, whatever else
\* went on, on either store (handleApiUpload, LocalStorage, S3Storage).
THEOREM ArtifactsStayIntact == Spec => []ArtifactIntact
<1>1. AInv => ArtifactIntact
  <2> SUFFICES ASSUME AInv, NEW c \in Taken, rows[c].sha \notin contended
               PROVE  Stored(c)
    BY DEF ArtifactIntact
  <2> DEFINE s == rows[c].sha
  <2>1. c \in Code /\ rows[c] # NoRow /\ s \in Upload
    BY DEF AInv, IInv, TypeOK, Taken, Row
  <2>2. code[s] = c /\ rows[c].name = form[s].name
    BY DEF AInv, IInv, RowInv, WriterInv
  <2>3. Lone(s) /\ ~Holding(s)
    BY <2>1, <2>2 DEF AInv, Lone, Owns, WriterInv, Holding, Saving, Recorded, Deleting
  <2>4. disk[key(s)] # NoFile /\ Store!Intact(s, disk[key(s)])
    BY <2>1, <2>3 DEF AInv, BodyInv
  <2> QED
    BY <2>2, <2>4 DEF Stored, key
<1> QED
  BY <1>1, StartsArtifacts, StepArtifacts, PTL DEF Spec

-----------------------------------------------------------------------------
(* Artifacts without a row: the inductive invariant, in parts              *)

\* u got into the table and the hub did not die on it.
Entered(u) == pc[u] \in Recorded \cup {"created", "unsigned", "aborted"}

\* Each store has its own steps.
ModeInv ==
    \A u \in Upload :
        /\ pc[u] \in {"put", "head"} => OnS3
        /\ pc[u] \in {"create", "write"} => ~OnS3

\* A temporary file belongs to a Save that is under way.
PartInv ==
    NoCrash => \A k \in Key : part[k] # NoFile =>
        \E u \in Upload : pc[u] = "write" /\ key(u) = k

\* Who is about to delete a row or a file has read the file's name, and a
\* release of that name was recorded.
VictimInv ==
    \A r \in Request : pc[r] \in {"unrow", "unfile"} => victim[r] \in Name
FoundInv ==
    NoCrash => \A r \in Request, k \in Key : (pc[r] = "unrow" /\ Removes(r, k)) =>
        \E u \in Upload : key(u) = k /\ Entered(u)

\* Somebody is answerable for the artifact of key k: the upload that saved it,
\* a request that has deleted its row, or its row; else two were recorded.
Saved(k) ==
    \E u \in Upload :
        /\ key(u) = k /\ pc[u] \in {"head", "record", "undo"}
        /\ OnS3 => disk[k] = u
Condemned(k) == \E r \in Request : pc[r] = "unfile" /\ Removes(r, k)
Listed(k) == rows[k[1]] # NoRow /\ rows[k[1]].name = k[2]
Owed(k) == Saved(k) \/ Condemned(k) \/ Listed(k) \/ RecordedTwice(k[1])

DebtInv ==
    NoCrash => \A k \in Key : disk[k] \in {NoFile} \cup stray \/ Owed(k)

DInv == AInv /\ ModeInv /\ PartInv /\ VictimInv /\ FoundInv /\ DebtInv

\* Who was cut off stays so, and a death cuts somebody off.
LEMMA NeverCrashed ==
    ASSUME TypeOK, Next, NoCrash'
    PROVE  NoCrash /\ ~Crash
<1>1. ~Crash
  BY DEF Crash, NoCrash
<1>2. ASSUME NEW q \in Request, pc[q] = "lost" PROVE FALSE
  <2>1. ~Moves(q)
    BY <1>2
    DEF Moves, Receive, UploadStep, SignURL, SignFails, Begin, Accept, Conflict,
        AcceptFails, SaveCreate, SaveWrite, SaveRename, SaveFails, CreateRelease,
        CreateReleaseFails, Undo, Push, SetPlay, SetPlayFault, ReadKeep,
        ReadKeepFault, ListReleases, ListPanics, ListFault, SavePut, SaveHead,
        BucketFails, DeleteCheck, DeleteRefused, DeleteStep, Find, FindNothing,
        DeleteRow, DeleteRowFault, DeleteFile
  <2> QED
    BY <1>1, <1>2, <2>1, WhoMoves DEF NoCrash
<1> QED
  BY <1>1, <1>2 DEF NoCrash

\* Who got into the table stays there, and so does the mark that two did.
LEMMA EnteredStays ==
    ASSUME IInv, Next, NoCrash', NEW u \in Upload, Entered(u)
    PROVE  Entered(u)'
  BY PastStays DEF IInv, Entered, NoCrash, Request, Recorded, Deleting

LEMMA TwiceStays ==
    ASSUME IInv, Next, NoCrash', NEW c \in Code, RecordedTwice(c)
    PROVE  RecordedTwice(c)'
<1>1. PICK u \in Upload, v \in Upload :
            u # v /\ code[u] = c /\ code[v] = c /\ Entered(u) /\ Entered(v)
  BY DEF RecordedTwice, Entered
<1>2. code'[u] = c /\ code'[v] = c
  BY <1>1, CodesStay DEF IInv
<1>3. Entered(u)' /\ Entered(v)'
  BY <1>1, EnteredStays
<1> QED
  BY <1>1, <1>2, <1>3 DEF RecordedTwice, Entered

\* A Save stays on its store.
LEMMA StepMode ==
    ASSUME TypeOK, ModeInv, Next
    PROVE  ModeInv'
<1> USE DEF TypeOK
<1> SUFFICES ASSUME NEW u \in Upload, pc'[u] \in Saving
             PROVE  /\ pc'[u] \in {"put", "head"} => OnS3
                    /\ pc'[u] \in {"create", "write"} => ~OnS3
  BY DEF ModeInv, Saving
<1>1. CASE Moves(u)
  <2> USE DEF Goto, Request, ModeInv, Saving
  <2>1. CASE Begin(u) \/ Conflict(u) \/ AcceptFails(u) \/ SaveRename(u) \/ SaveFails(u)
             \/ SaveHead(u) \/ BucketFails(u)
    BY <2>1
    DEF Begin, Conflict, AcceptFails, SaveRename, SaveFails, SaveHead, BucketFails
  <2>2. CASE Accept(u) \/ SaveCreate(u) \/ SaveWrite(u) \/ SavePut(u)
    BY <2>2 DEF Accept, SaveCreate, SaveWrite, SavePut
  <2>3. CASE CreateRelease(u) \/ CreateReleaseFails(u) \/ Undo(u) \/ Push(u) \/ SetPlay(u)
    BY <2>3 DEF CreateRelease, CreateReleaseFails, Undo, Push, SetPlay
  <2>4. CASE \/ SetPlayFault(u) \/ ReadKeep(u) \/ ReadKeepFault(u)
             \/ ListReleases(u) \/ ListPanics(u) \/ ListFault(u)
    BY <2>4
    DEF SetPlayFault, ReadKeep, ReadKeepFault, ListReleases, ListPanics, ListFault,
        NextStep, Answer
  <2>5. CASE DeleteStep(u)
    BY <2>5, ReleasesAssumption
    DEF DeleteStep, Find, FindNothing, DeleteRow, DeleteRowFault, DeleteFile,
        Proceed, GiveUp, NextStep, Answer
  <2>6. CASE SignURL(u) \/ SignFails(u)
    BY <2>6 DEF SignURL, SignFails
  <2> QED
    BY <1>1, <2>1, <2>2, <2>3, <2>4, <2>5, <2>6, ReleasesAssumption
    DEF Moves, Receive, UploadStep
<1>2. CASE Crash
  BY <1>2 DEF Crash, Active, Request, ModeInv, Saving, Done, Answered, Silent
<1>3. CASE pc'[u] = pc[u]
  BY <1>3 DEF ModeInv
<1> QED
  BY <1>1, <1>2, <1>3, WhoMoves DEF Request

\* Names are read by Find, and a request that deletes is at one release.
LEMMA StepVictim ==
    ASSUME TypeOK, VictimInv, Next
    PROVE  VictimInv'
<1> USE DEF TypeOK
<1> SUFFICES ASSUME NEW r \in Request, pc'[r] \in {"unrow", "unfile"}
             PROVE  victim'[r] \in Name
  BY DEF VictimInv
<1>1. CASE Moves(r)
  <2>1. PICK c \in Code : Find(r, c) \/ DeleteRow(r, c)
    BY <1>1, RemoveSteps
  <2>2. CASE Find(r, c)
    BY <2>2 DEF Find, Row
  <2>3. CASE DeleteRow(r, c)
    BY <2>3 DEF DeleteRow, localVars, VictimInv
  <2> QED
    BY <2>1, <2>2, <2>3
<1>2. CASE Crash
  BY <1>2 DEF Crash, Active, Done, Answered, Silent
<1>3. CASE pc'[r] = pc[r] /\ victim'[r] = victim[r]
  BY <1>3 DEF VictimInv
<1> QED
  BY <1>1, <1>2, <1>3, WhoMoves

\* Whoever read a name read it from a row that an upload recorded.
LEMMA StepFound ==
    ASSUME IInv, WriterInv, FoundInv, Next
    PROVE  FoundInv'
<1> USE DEF IInv, TypeOK
<1> SUFFICES ASSUME NoCrash', NEW r \in Request, NEW k \in Key, pc'[r] = "unrow",
                    Removes(r, k)'
             PROVE  \E u \in Upload : key(u)' = k /\ Entered(u)'
  BY DEF FoundInv
<1>1. NoCrash
  BY NeverCrashed
<1>2. k[1] \in Code /\ k = <<k[1], k[2]>>
  BY DEF Key
<1>3. \E u \in Upload : key(u) = k /\ Entered(u)
  <2>1. CASE Removes(r, k) /\ pc'[r] = pc[r]
    BY <1>1, <2>1 DEF FoundInv
  <2>2. CASE Removes(r, k) /\ DeleteRow(r, k[1])
    BY <2>2 DEF DeleteRow, Goto
  <2>3. CASE Find(r, k[1]) /\ rows[k[1]].name = k[2]
    <3> DEFINE w == rows[k[1]].sha
    <3>1. k[1] \in Taken /\ w \in Upload
      BY <1>2, <2>3 DEF Find, Taken, Row
    <3>2. code[w] = k[1] /\ form[w].name = k[2]
      BY <2>3, <3>1 DEF RowInv, WriterInv
    <3>3. Entered(w)
      BY <1>1, <3>1 DEF WriterInv, NoCrash, Request, Entered, Recorded, Deleting
    <3> QED
      BY <1>2, <3>1, <3>2, <3>3 DEF key
  <2> QED
    BY <2>1, <2>2, <2>3, FoundStep
<1>4. PICK u \in Upload : key(u) = k /\ Entered(u)
  BY <1>3
<1>5. code[u] \in Code
  BY <1>2, <1>4 DEF key
<1>6. key(u)' = k
  BY <1>4, <1>5, KeysStay
<1> QED
  BY <1>4, <1>6, EnteredStays

\* A Save that ends leaves no temporary file.
LEMMA StepPart ==
    ASSUME IInv, HomeInv, PartInv, Next
    PROVE  PartInv'
<1> USE DEF IInv, TypeOK
<1> SUFFICES ASSUME NoCrash', NEW k \in Key, part'[k] # NoFile
             PROVE  \E u \in Upload : pc'[u] = "write" /\ key(u)' = k
  BY DEF PartInv
<1>1. NoCrash /\ ~Crash
  BY NeverCrashed
<1>2. part \in [Key -> Upload \cup {NoFile}]
  BY DEF Store!StorageTypeOK, Store!Inode, Key
<1>3. CASE part'[k] = part[k]
  <2>1. PICK u \in Upload : pc[u] = "write" /\ key(u) = k
    BY <1>1, <1>3 DEF PartInv
  <2>2. key(u)' = k
    BY <2>1, KeysStay DEF LocalInv, Saving
  <2>3. ASSUME pc'[u] # "write" PROVE FALSE
    <3>1. Moves(u)
      BY <1>1, <2>1, <2>3, WhoMoves DEF Request
    <3>2. SaveWrite(u) \/ SaveRename(u) \/ SaveFails(u)
      BY <2>1, <3>1, ReleasesAssumption
      DEF Moves, Receive, UploadStep, SignURL, SignFails, Begin, Accept, Conflict,
          AcceptFails, SaveCreate, CreateRelease, CreateReleaseFails, Undo, Push,
          SetPlay, SetPlayFault, ReadKeep, ReadKeepFault, ListReleases, ListPanics,
          ListFault, SavePut, SaveHead, BucketFails, DeleteStep, Find, FindNothing,
          DeleteRow, DeleteRowFault, DeleteFile
    <3>3. ~SaveWrite(u)
      BY <2>1, <2>3 DEF SaveWrite
    <3>4. part'[k] = NoFile
      <4>1. CASE SaveRename(u)
        BY <1>2, <2>1, <4>1 DEF SaveRename, Store!Rename
      <4>2. CASE SaveFails(u)
        BY <1>2, <1>3, <2>1, <4>2 DEF SaveFails, Store!WriteFails, Store!RenameFails
      <4> QED
        BY <3>2, <3>3, <4>1, <4>2
    <3> QED
      BY <3>4
  <2> QED
    BY <2>1, <2>2, <2>3
<1>4. CASE part'[k] # part[k]
  <2>1. ASSUME NEW v \in Upload, Stores(v), ~SaveCreate(v) PROVE FALSE
    <3>1. part' = part \/ part' = [part EXCEPT ![key(v)] = NoFile]
      BY <2>1, StoredAt
    <3> QED
      BY <1>2, <1>4, <3>1
  <2>2. ASSUME NEW r \in Request, NEW c \in Code, DeleteFile(r, c) PROVE FALSE
    BY <1>4, <2>2, RemovedFrame DEF DeleteFile
  <2>3. PICK v \in Upload : SaveCreate(v)
    BY <1>1, <1>4, <2>1, <2>2, WhoStores DEF storageVars
  <2>4. k = key(v) /\ code[v] \in Code
    <3>1. code[v] \in Code /\ \E i : part' = [part EXCEPT ![key(v)] = i]
      BY <2>3, CreatedAt
    <3> QED
      BY <1>2, <1>4, <3>1
  <2>5. pc'[v] = "write" /\ key(v)' = k
    BY <2>3, <2>4, KeysStay DEF SaveCreate, Goto, Request
  <2> QED
    BY <2>5
<1> QED
  BY <1>3, <1>4

\* Removing an artifact takes it off its key, or leaves a failed call's object.
LEMMA Removed ==
    ASSUME IInv, NEW k \in Key, RemoveArtifact(k)
    PROVE  disk'[k] \in {NoFile} \cup stray'
  BY DEF IInv, TypeOK, Store!StorageTypeOK, Store!Inode, Key, RemoveArtifact,
      Store!Remove, Bucket!Remove, storageVars

\* What appears under a key its upload has saved.
LEMMA DebtAppears ==
    ASSUME IInv, HomeInv, ModeInv, Next, ~Crash, NEW k \in Key,
           disk'[k] # disk[k], disk'[k] \notin {NoFile} \cup stray'
    PROVE  Saved(k)'
<1> USE DEF IInv, TypeOK
<1>1. disk \in [Key -> Upload \cup {NoFile}]
  BY DEF Store!StorageTypeOK, Store!Inode, Key
<1>2. ASSUME NEW r \in Request, NEW c \in Code, DeleteFile(r, c) PROVE FALSE
  <2>1. disk' = disk \/ disk' = [disk EXCEPT ![<<c, victim[r]>>] = NoFile]
    BY <1>2, RemovedFrame DEF DeleteFile
  <2> QED
    BY <1>1, <2>1
<1>3. PICK v \in Upload : Stores(v)
  BY <1>2, WhoStores DEF storageVars
<1>4. ~SaveCreate(v)
  BY CreatedAt
<1>5. code[v] \in Code /\ key(v) = k /\ key(v)' = k
  <2>1. code[v] \in Code /\ (disk' = disk \/ \E i : disk' = [disk EXCEPT ![key(v)] = i])
    BY <1>3, <1>4, StoredAt
  <2> QED
    BY <1>1, <2>1, KeysStay
<1>6. CASE SaveRename(v)
  <2>1. pc[v] = "write" /\ pc'[v] = "record"
    BY <1>6 DEF SaveRename, Goto, Request
  <2> QED
    BY <1>5, <2>1 DEF ModeInv, Saved
<1>7. CASE SavePut(v)
  <2>1. pc'[v] = "head" /\ disk'[k] = v
    BY <1>1, <1>5, <1>7 DEF SavePut, Bucket!Put, Goto, Request
  <2> QED
    BY <1>5, <2>1 DEF Saved
<1>8. CASE BucketFails(v)
  BY <1>1, <1>5, <1>8 DEF BucketFails, Bucket!Put, storageVars
<1>9. CASE SaveWrite(v) \/ SaveFails(v)
  BY <1>9
  DEF SaveWrite, SaveFails, Store!Write, Store!WriteFails, Store!RenameFails,
      storageVars
<1>10. CASE Undo(v)
  BY <1>5, <1>10, Removed DEF Undo
<1> QED
  BY <1>3, <1>4, <1>6, <1>7, <1>8, <1>9, <1>10 DEF Stores

\* An upload answers for what it saved until its row does, or it is removed.
LEMMA SavedOn ==
    ASSUME IInv, ModeInv, Next, ~Crash, NEW k \in Key, Saved(k),
           disk'[k] = disk[k], disk'[k] \notin {NoFile} \cup stray'
    PROVE  Saved(k)' \/ Listed(k)'
<1> USE DEF IInv, TypeOK
<1>1. PICK u \in Upload : /\ key(u) = k /\ pc[u] \in {"head", "record", "undo"}
                          /\ OnS3 => disk[k] = u
  BY DEF Saved
<1>2. code[u] \in Code /\ key(u)' = k
  BY <1>1, KeysStay DEF LocalInv, Saving
<1>3. CASE pc'[u] \in {"head", "record", "undo"}
  BY <1>1, <1>2, <1>3 DEF Saved
<1>4. CASE pc'[u] \notin {"head", "record", "undo"}
  <2>1. Moves(u)
    BY <1>1, <1>4, WhoMoves DEF Request
  <2>2. SaveHead(u) \/ BucketFails(u) \/ CreateRelease(u) \/ CreateReleaseFails(u) \/ Undo(u)
    BY <1>1, <2>1, ReleasesAssumption
    DEF Moves, Receive, UploadStep, SignURL, SignFails, Begin, Accept, Conflict,
        AcceptFails, SaveCreate, SaveWrite, SaveRename, SaveFails, Push, SetPlay,
        SetPlayFault, ReadKeep, ReadKeepFault, ListReleases, ListPanics, ListFault,
        SavePut, DeleteStep, Find, FindNothing, DeleteRow, DeleteRowFault, DeleteFile
  <2>3. CASE SaveHead(u) \/ CreateReleaseFails(u)
    BY <1>4, <2>3 DEF SaveHead, CreateReleaseFails, Goto, Request
  <2>4. CASE BucketFails(u)
    <3>1. pc[u] = "head" /\ stray' = stray \cup {u}
      BY <1>1, <2>4 DEF BucketFails
    <3> QED
      BY <1>1, <3>1 DEF ModeInv
  <2>5. CASE CreateRelease(u)
    <3>1. rows'[k[1]] = NewRow(u) /\ k[1] = code[u] /\ k[2] = form[u].name
      BY <1>1, <1>2, <2>5 DEF CreateRelease, key
    <3>2. rows'[k[1]] # NoRow
      <4>1. rows'[k[1]] \in Row
        BY <3>1, ReleasesAssumption DEF NewRow, Row, PlayState
      <4> QED
        BY <4>1, NoRowAssumption
    <3> QED
      BY <3>1, <3>2 DEF NewRow, Listed
  <2>6. CASE Undo(u)
    BY <1>1, <2>6, Removed DEF Undo
  <2> QED
    BY <2>2, <2>3, <2>4, <2>5, <2>6
<1> QED
  BY <1>3, <1>4

\* So does a request that is about to remove it.
LEMMA CondemnedOn ==
    ASSUME IInv, Next, ~Crash, NEW k \in Key, Condemned(k),
           disk'[k] \notin {NoFile} \cup stray'
    PROVE  Condemned(k)'
<1> USE DEF IInv, TypeOK
<1>1. PICK r \in Request : pc[r] = "unfile" /\ Removes(r, k)
  BY DEF Condemned
<1>2. CASE pc'[r] = pc[r] /\ todo'[r] = todo[r] /\ victim'[r] = victim[r]
  BY <1>1, <1>2 DEF Condemned, Removes
<1>3. CASE Moves(r)
  <2>1. PICK c \in Code : DeleteFile(r, c)
    BY <1>1, <1>3
    DEF Moves, Receive, UploadStep, SignURL, SignFails, Begin, Accept, Conflict,
        AcceptFails, SaveCreate, SaveWrite, SaveRename, SaveFails, CreateRelease,
        CreateReleaseFails, Undo, Push, SetPlay, SetPlayFault, ReadKeep,
        ReadKeepFault, ListReleases, ListPanics, ListFault, SavePut, SaveHead,
        BucketFails, DeleteCheck, DeleteRefused, DeleteStep, Find, FindNothing,
        DeleteRow, DeleteRowFault
  <2>2. c = k[1] /\ k = <<k[1], victim[r]>>
    BY <1>1, <2>1, ReleasesAssumption DEF DeleteFile, Current, Removes, Key, Code
  <2> QED
    BY <2>1, <2>2, Removed DEF DeleteFile
<1> QED
  BY <1>2, <1>3, WhoMoves

\* And a row, until a request deletes it: the one it had read, or else two
\* releases were recorded.
LEMMA ListedOn ==
    ASSUME IInv, WriterInv, VictimInv, FoundInv, Next, NoCrash', NEW k \in Key, Listed(k)
    PROVE  Listed(k)' \/ Condemned(k)' \/ RecordedTwice(k[1])'
<1> USE DEF IInv, TypeOK
<1> DEFINE c == k[1]
<1>1. c \in Code /\ rows[c] # NoRow /\ rows[c].name = k[2]
  BY DEF Listed, Key
<1>2. ASSUME NEW r \in Request, DeleteRow(r, c)
      PROVE  Condemned(k)' \/ RecordedTwice(c)'
  <2>1. pc[r] = "unrow" /\ Current(r, c) /\ victim[r] \in Name
    BY <1>2 DEF DeleteRow, VictimInv
  <2>2. CASE victim[r] = k[2]
    <3>1. pc'[r] = "unfile" /\ todo' = todo /\ victim' = victim
      BY <1>2 DEF DeleteRow, Goto, localVars
    <3> QED
      BY <2>1, <2>2, <3>1 DEF Current, Condemned, Removes
  <2>3. CASE victim[r] # k[2]
    <3> DEFINE w == rows[c].sha
               m == <<c, victim[r]>>
    <3>1. NoCrash
      BY NeverCrashed
    <3>2. m \in Key /\ Removes(r, m)
      BY <1>1, <2>1 DEF Key, Removes, Current
    <3>3. PICK u \in Upload : key(u) = m /\ Entered(u)
      BY <2>1, <3>1, <3>2 DEF FoundInv
    <3>4. code[u] = c /\ form[u].name # k[2]
      BY <2>3, <3>3 DEF key
    <3>5. c \in Taken /\ w \in Upload
      BY <1>1 DEF Taken, Row
    <3>6. code[w] = c /\ form[w].name = k[2]
      BY <1>1, <3>5 DEF RowInv, WriterInv
    <3>7. Entered(w)
      BY <3>1, <3>5 DEF WriterInv, NoCrash, Request, Entered, Recorded, Deleting
    <3>8. RecordedTwice(c)
      BY <3>3, <3>4, <3>5, <3>6, <3>7 DEF RecordedTwice, Entered
    <3> QED
      BY <1>1, <3>8, TwiceStays
  <2> QED
    BY <2>2, <2>3
<1> QED
  BY <1>1, <1>2, RowChanges DEF Listed

\* Somebody stays answerable for every artifact.
LEMMA StepDebt ==
    ASSUME IInv, WriterInv, HomeInv, ModeInv, VictimInv, FoundInv, DebtInv, Next
    PROVE  DebtInv'
<1> SUFFICES ASSUME NoCrash', NEW k \in Key, disk'[k] \notin {NoFile} \cup stray'
             PROVE  Owed(k)'
  BY DEF DebtInv
<1>1. NoCrash /\ ~Crash /\ stray \subseteq stray'
  BY NeverCrashed, HistoryStays DEF IInv
<1>2. CASE disk'[k] # disk[k]
  BY <1>1, <1>2, DebtAppears DEF Owed
<1>3. CASE disk'[k] = disk[k]
  <2>1. Owed(k)
    BY <1>1, <1>3 DEF DebtInv
  <2>2. k[1] \in Code
    BY DEF Key
  <2> QED
    BY <1>1, <1>3, <2>1, <2>2, SavedOn, CondemnedOn, ListedOn, TwiceStays DEF Owed
<1> QED
  BY <1>2, <1>3

-----------------------------------------------------------------------------
(* The theorem                                                             *)

\* The empty platform satisfies the invariant.
LEMMA StartsOrphans == Init => DInv
<1> SUFFICES ASSUME Init PROVE DInv
  OBVIOUS
<1>1. \A r \in Request : pc[r] = "idle"
  BY DEF Init
<1>2. \A k \in Key : disk[k] = NoFile /\ part[k] = NoFile
  BY DEF Init, Store!StorageInit, Key
<1> QED
  BY <1>1, <1>2, StartsArtifacts
  DEF DInv, ModeInv, PartInv, VictimInv, FoundInv, DebtInv, Request

\* Every step, or none, keeps it.
LEMMA StepOrphans == DInv /\ [Next]_vars => DInv'
<1> SUFFICES ASSUME DInv, [Next]_vars PROVE DInv'
  OBVIOUS
<1>1. AInv'
  BY StepArtifacts DEF DInv
<1>2. CASE Next
  BY <1>1, <1>2, StepMode, StepPart, StepVictim, StepFound, StepDebt
  DEF DInv, AInv, IInv
<1>3. CASE UNCHANGED vars
  <2> USE <1>3 DEF vars, dbVars, storageVars, localVars, historyVars
  <2>1. ModeInv' /\ VictimInv'
    BY DEF DInv, ModeInv, VictimInv
  <2>2. PartInv'
    BY DEF DInv, PartInv, NoCrash, key
  <2>3. /\ \A r, k : Removes(r, k)' = Removes(r, k)
        /\ \A u \in Upload : key(u)' = key(u) /\ Entered(u)' = Entered(u)
    BY DEF Removes, key, Entered
  <2>4. FoundInv'
    BY <2>3 DEF DInv, FoundInv, NoCrash
  <2>5. \A k \in Key : Owed(k) => Owed(k)'
    BY <2>3 DEF Owed, Saved, Condemned, Listed, RecordedTwice
  <2>6. DebtInv'
    BY <2>5 DEF DInv, DebtInv, NoCrash
  <2> QED
    BY <1>1, <2>1, <2>2, <2>4, <2>6 DEF DInv
<1> QED
  BY <1>2, <1>3

\* When all is quiet nothing is left in the store without a row (Save,
\* handleApiUpload, deleteRelease), unless the hub died, two releases were
\* recorded under one code, or S3 did not do as it was asked.
THEOREM NoOrphans == Spec => []NoOrphanArtifact
<1>1. DInv => NoOrphanArtifact
  <2> SUFFICES ASSUME DInv, Quiet, NoCrash, NEW k \in Key
               PROVE  /\ part[k] = NoFile
                      /\ (disk[k] \notin {NoFile} \cup stray /\ ~RecordedTwice(k[1])) =>
                            rows[k[1]] # NoRow /\ rows[k[1]].name = k[2]
    BY DEF NoOrphanArtifact
  <2>1. \A r \in Request : pc[r] \notin {"write", "head", "record", "undo", "unfile"}
    BY DEF Quiet, Done, Answered, Silent
  <2>2. part[k] = NoFile
    BY <2>1 DEF DInv, PartInv, Request
  <2>3. disk[k] \notin {NoFile} \cup stray => Owed(k)
    BY DEF DInv, DebtInv
  <2>4. ~Saved(k) /\ ~Condemned(k)
    BY <2>1 DEF Saved, Condemned, Request
  <2> QED
    BY <2>2, <2>3, <2>4 DEF Owed, Listed
<1> QED
  BY <1>1, StartsOrphans, StepOrphans, PTL DEF Spec

-----------------------------------------------------------------------------
(* What an upload on a Play channel is answered                            *)

\* Only direct uploads prune, only Play uploads push, and only an upload with a
\* version code is answered 201.
PrunerInv ==
    \A u \in Upload :
        /\ pc[u] \in {"keep", "list"} \cup Deleting => form[u].chan = "direct"
        /\ pc[u] \in {"push", "setplay"} => form[u].chan = "play"
        /\ pc[u] = "created" => code[u] \in Code

OInv == IInv /\ PrunerInv /\ PlayOutcomeRecorded

\* Which steps lead an upload to retention, and to its answer.
LEMMA AnswerSteps ==
    ASSUME TypeOK, Next, NEW u \in Upload
    PROVE  /\ pc'[u] \in {"keep", "list"} \cup Deleting =>
                pc[u] \in {"keep", "list"} \cup Deleting \/ SignURL(u)
           /\ pc'[u] \in {"push", "setplay"} =>
                pc[u] \in {"push", "setplay"} \/ SignURL(u)
           /\ pc'[u] = "created" =>
                \/ pc[u] \in {"created", "keep", "list"} \cup Deleting
                \/ SetPlay(u) \/ SetPlayFault(u)
<1> USE ReleasesAssumption DEF TypeOK, Goto, Request
<1>1. CASE Moves(u)
  <2>1. CASE Begin(u) \/ Accept(u) \/ Conflict(u) \/ AcceptFails(u)
    BY <2>1 DEF Begin, Accept, Conflict, AcceptFails, Deleting
  <2>2. CASE SaveCreate(u) \/ SaveWrite(u) \/ SaveRename(u) \/ SaveFails(u)
    BY <2>2 DEF SaveCreate, SaveWrite, SaveRename, SaveFails, Deleting
  <2>3. CASE SavePut(u) \/ SaveHead(u) \/ BucketFails(u)
    BY <2>3 DEF SavePut, SaveHead, BucketFails, Deleting
  <2>4. CASE CreateRelease(u) \/ CreateReleaseFails(u) \/ Undo(u)
    BY <2>4 DEF CreateRelease, CreateReleaseFails, Undo, Deleting
  <2>5. CASE Push(u) \/ SetPlay(u) \/ SetPlayFault(u) \/ ReadKeep(u) \/ ReadKeepFault(u)
    BY <2>5 DEF Push, SetPlay, SetPlayFault, ReadKeep, ReadKeepFault, Deleting
  <2>6. CASE ListReleases(u) \/ ListPanics(u) \/ ListFault(u)
    BY <2>6 DEF ListReleases, ListPanics, ListFault, NextStep, Answer, Deleting
  <2>7. CASE DeleteStep(u)
    <3>1. pc[u] \in Deleting
      BY <2>7
      DEF DeleteStep, Find, FindNothing, DeleteRow, DeleteRowFault, DeleteFile,
          Deleting
    <3>2. pc'[u] \notin {"push", "setplay"}
      BY <2>7
      DEF DeleteStep, Find, FindNothing, DeleteRow, DeleteRowFault, DeleteFile,
          Proceed, GiveUp, NextStep, Answer
    <3> QED
      BY <3>1, <3>2
  <2>8. CASE SignURL(u) \/ SignFails(u)
    BY <2>8 DEF SignURL, SignFails, Deleting
  <2> QED
    BY <1>1, <2>1, <2>2, <2>3, <2>4, <2>5, <2>6, <2>7, <2>8
    DEF Moves, Receive, UploadStep
<1>2. CASE Crash
  BY <1>2 DEF Crash, Active, Done, Answered, Silent, Deleting
<1>3. CASE pc'[u] = pc[u]
  BY <1>3 DEF Deleting
<1> QED
  BY <1>1, <1>2, <1>3, WhoMoves

\* Retention goes on to be the direct uploads' own.
LEMMA StepPruner ==
    ASSUME IInv, PrunerInv, Next
    PROVE  PrunerInv'
<1>1. ASSUME NEW u \in Upload, pc'[u] = "created" PROVE code'[u] \in Code
  <2>1. SetPlay(u) \/ SetPlayFault(u) => pc[u] = "setplay"
    BY DEF SetPlay, SetPlayFault
  <2>2. code[u] \in Code
    BY <1>1, <2>1, AnswerSteps DEF PrunerInv, IInv, LocalInv, Recorded
  <2> QED
    BY <2>2, CodesStay DEF IInv
<1>2. ASSUME NEW u \in Upload, pc'[u] \in {"push", "setplay"}
      PROVE  form'[u].chan = "play"
  <2>1. CASE pc[u] \in {"push", "setplay"}
    BY <2>1, Changes DEF PrunerInv, IInv
  <2>2. CASE SignURL(u)
    BY <1>2, <2>2, Changes DEF SignURL, Goto, IInv, TypeOK, Request
  <2> QED
    BY <1>2, <2>1, <2>2, AnswerSteps DEF IInv
<1> SUFFICES ASSUME NEW u \in Upload, pc'[u] \in {"keep", "list"} \cup Deleting
             PROVE  form'[u].chan = "direct"
  BY <1>1, <1>2 DEF PrunerInv, Deleting
<1>3. CASE pc[u] \in {"keep", "list"} \cup Deleting
  BY <1>3, Changes DEF PrunerInv, IInv
<1>4. CASE SignURL(u)
  <2>1. form[u].chan # "play"
    BY <1>4 DEF SignURL, Goto, IInv, TypeOK, Request, Deleting
  <2>2. form[u].chan \in Channel
    BY ReleasesAssumption DEF IInv, TypeOK
  <2> QED
    BY <2>1, <2>2, Changes DEF Channel, IInv
<1> QED
  BY <1>3, <1>4, AnswerSteps DEF IInv

\* Who answers 201 has stored its outcome, and whoever else writes to its row
\* has its version code.
LEMMA StepOutcome ==
    ASSUME OInv, Next
    PROVE  PlayOutcomeRecorded'
<1> SUFFICES ASSUME NEW u \in Upload,
                    pc'[u] = "created", form'[u].chan = "play", u \notin faulted',
                    rows'[code'[u]] # NoRow, ~SharedCode(code[u])'
             PROVE  rows'[code'[u]].play = pushed'[u]
  BY DEF PlayOutcomeRecorded
<1> USE DEF OInv, IInv, TypeOK
<1>1. form[u].chan = "play" /\ u \notin faulted
  BY Changes, HistoryStays
<1>2. pc[u] = "created" \/ SetPlay(u)
  <2>1. ~SetPlayFault(u)
    BY DEF SetPlayFault, Fault
  <2> QED
    BY <1>1, <2>1, AnswerSteps DEF PrunerInv
<1>3. \A v \in Upload : Push(v) => v # u
  BY <1>2 DEF Push, SetPlay
<1>4. pushed'[u] = pushed[u]
  BY <1>3, HistoryStays DEF Push
<1>5. code[u] \in Code
  BY <1>2 DEF SetPlay, LocalInv, PrunerInv, Recorded
<1>6. rows'[code'[u]].play = pushed'[u]
  <2> DEFINE c == code[u]
  <2>1. code'[u] = c /\ c \in Code
    BY <1>5, CodesStay
  <2>2. \A v \in Upload : code[v] = c => v = u
    <3> SUFFICES ASSUME NEW v \in Upload, code[v] = c, v # u PROVE FALSE
      OBVIOUS
    <3>1. code'[v] = c
      BY <1>5, CodesStay
    <3> QED
      BY <2>1, <3>1 DEF SharedCode
  <2>3. CASE SetPlay(u)
    <3>1. rows[c] # NoRow
      BY <2>1, <2>3 DEF SetPlay
    <3>2. rows'[c] = [rows[c] EXCEPT !.play = pushed[u]] /\ rows[c] \in Row
      BY <2>1, <2>3, <3>1 DEF SetPlay
    <3> QED
      BY <1>4, <2>1, <3>2 DEF Row
  <2>4. CASE ~SetPlay(u)
    <3>1. pc[u] = "created"
      BY <1>2, <2>4
    <3>2. \A v \in Upload : ~(CreateRelease(v) /\ code[v] = c) /\ ~(SetPlay(v) /\ code[v] = c)
      BY <2>2, <2>4, <3>1 DEF CreateRelease
    <3>3. rows'[c] = rows[c]
      <4>1. ASSUME NEW v \in Upload, CreateRelease(v) \/ SetPlay(v) PROVE rows'[c] = rows[c]
        BY <2>1, <3>2, <4>1 DEF CreateRelease, SetPlay
      <4>2. ASSUME NEW r \in Request, NEW d \in Code, DeleteRow(r, d) PROVE rows'[c] = rows[c]
        BY <2>1, <4>2 DEF DeleteRow
      <4> QED
        BY <4>1, <4>2, Changes
    <3>4. ~SharedCode(c)
      BY <2>2 DEF SharedCode
    <3> QED
      BY <1>1, <1>4, <2>1, <3>1, <3>3, <3>4 DEF PlayOutcomeRecorded
  <2> QED
    BY <2>3, <2>4
<1> QED
  BY <1>6

\* An upload answered 201 on a Play channel has its push's outcome in its row
\* (setPlay in handleApiUpload), whatever overlaps, unless setPlay failed or
\* the version code was shared.
THEOREM PlayOutcomesRecorded == Spec => []PlayOutcomeRecorded
<1>1. Init => OInv
  <2> SUFFICES ASSUME Init PROVE OInv
    OBVIOUS
  <2>1. \A u \in Upload : pc[u] = "idle"
    BY DEF Init, Request
  <2> QED
    BY <2>1, StartsInvariant DEF OInv, PrunerInv, Deleting, PlayOutcomeRecorded
<1>2. OInv /\ [Next]_vars => OInv'
  <2> SUFFICES ASSUME OInv, [Next]_vars PROVE OInv'
    OBVIOUS
  <2>1. IInv'
    BY StepInvariant DEF OInv
  <2>2. CASE Next
    BY <2>1, <2>2, StepPruner, StepOutcome DEF OInv
  <2>3. CASE UNCHANGED vars
    <3>1. PrunerInv'
      BY <2>3 DEF OInv, PrunerInv, vars, dbVars, localVars, historyVars
    <3>2. \A u \in Upload : SharedCode(code[u])' = SharedCode(code[u])
      BY <2>3 DEF SharedCode, vars, localVars
    <3>3. PlayOutcomeRecorded'
      BY <2>3, <3>2 DEF OInv, PlayOutcomeRecorded, vars, dbVars, localVars, historyVars
    <3> QED
      BY <2>1, <3>1, <3>3 DEF OInv
  <2> QED
    BY <2>2, <2>3
<1> QED
  BY <1>1, <1>2, PTL DEF Spec, OInv

-----------------------------------------------------------------------------
(* Retention: the inductive invariant, in parts                            *)

\* u has listed the direct releases, or was answered without.
HasListed(u) == form[u].chan = "direct" /\ pc[u] \in Deleting \cup {"created", "aborted"}

\* The direct releases, of uploads that have listed, that v leaves alone.
Left(v) ==
    {c \in Direct : /\ HasListed(rows[c].sha)
                    /\ c \in todo[v] => pc[v] = "unfile" /\ Current(v, c)}

\* Only who is deleting has anything left to delete.
IdleInv == \A r \in Request : pc[r] \notin Deleting => todo[r] = {}

\* Some upload that has listed -- the last one -- leaves at most n, if all of
\* them were to keep between 1 and n.
BoundInv ==
    \A n \in Nat \ {0} :
        (/\ NoCrash /\ faulted = {}
         /\ \E u \in Upload : HasListed(u)
         /\ \A u \in Upload : HasListed(u) => keep[u] \in 1 .. n)
        => \E v \in Upload : HasListed(v) /\ Cardinality(Left(v)) <= n

BInv == IInv /\ WriterInv /\ PrunerInv /\ IdleInv /\ BoundInv

\* The releases that have fewer than n newer ones are at most n.
LEMMA TopFew ==
    ASSUME NEW S, S \subseteq Code, NEW n \in Nat
    PROVE  /\ IsFiniteSet(S)
           /\ Cardinality({c \in S : Cardinality({d \in S : d > c}) < n}) <= n
<1> DEFINE Newer(c) == {d \in S : d > c}
           T == {c \in S : Cardinality(Newer(c)) < n}
<1>1. IsFiniteSet(S) /\ S \subseteq Nat
  <2>1. IsFiniteSet(Code) /\ Code \subseteq Nat
    BY FS_Interval, ReleasesAssumption DEF Code
  <2> QED
    BY <2>1, FS_Subset
<1>2. IsFiniteSet(T) /\ T \subseteq S
  BY <1>1, FS_Subset
<1>3. \A m \in T : IsFiniteSet(Newer(m)) /\ Cardinality(Newer(m)) \in Nat
  <2> SUFFICES ASSUME NEW m \in T
               PROVE  IsFiniteSet(Newer(m)) /\ Cardinality(Newer(m)) \in Nat
    OBVIOUS
  <2>1. Newer(m) \in SUBSET S
    OBVIOUS
  <2> HIDE DEF Newer
  <2> QED
    BY <1>1, <2>1, FS_Subset, FS_CardinalityType
<1>4. ASSUME NEW m \in T PROVE Cardinality(Newer(m)) < n
  BY <1>4
<1>5. ASSUME NEW m \in T, \A c \in T : m <= c PROVE T \ {m} \subseteq Newer(m)
  <2> SUFFICES ASSUME NEW c \in T, c # m PROVE c \in Newer(m)
    OBVIOUS
  <2>1. c \in S /\ m \in S /\ m <= c
    BY <1>2, <1>5
  <2>2. c > m
    BY <1>1, <2>1
  <2> HIDE DEF T
  <2> QED
    BY <2>1, <2>2
<1> HIDE DEF T, Newer
<1>6. CASE T = {}
  <2>1. Cardinality(T) = 0
    BY <1>6, FS_EmptySet, Zenon
  <2>2. Cardinality(T) <= n
    BY <2>1
  <2> QED
    BY <1>1, <2>2 DEF T, Newer
<1>7. CASE T # {}
  <2>1. T \subseteq Nat
    BY <1>1, <1>2
  <2>2. PICK m \in T : \A c \in T : m <= c
    BY <1>7, <2>1, Smallest
  <2>3. T \ {m} \in SUBSET Newer(m)
    BY <1>5, <2>2
  <2>4. Cardinality(T \ {m}) <= Cardinality(Newer(m))
    BY <1>3, <2>2, <2>3, FS_Subset
  <2>5. Cardinality(T \ {m}) = Cardinality(T) - 1 /\ Cardinality(T) \in Nat
    BY <1>2, <2>2, FS_RemoveElement, FS_CardinalityType
  <2>6. Cardinality(T) <= n
    BY <1>3, <1>4, <2>2, <2>4, <2>5
  <2> QED
    BY <1>1, <2>6 DEF T, Newer
<1> QED
  BY <1>6, <1>7

\* Who is done, or deleting, has listed for good and keeps its keep count.
LEMMA ListedStays ==
    ASSUME TypeOK, Next, ~Crash, NEW u \in Upload, HasListed(u)
    PROVE  HasListed(u)' /\ keep'[u] = keep[u]
<1> USE DEF TypeOK
<1>1. form' = form
  BY Changes
<1>2. pc'[u] \in Deleting \cup {"created", "aborted"}
  <2>1. CASE Moves(u)
    <3>1. DeleteStep(u)
      BY <2>1, ReleasesAssumption
      DEF HasListed, Deleting, Moves, Receive, UploadStep, SignURL, SignFails, Begin,
          Accept, Conflict, AcceptFails, SaveCreate, SaveWrite, SaveRename, SaveFails,
          CreateRelease, CreateReleaseFails, Undo, Push, SetPlay, SetPlayFault,
          ReadKeep, ReadKeepFault, ListReleases, ListPanics, ListFault, SavePut,
          SaveHead, BucketFails
    <3> QED
      BY <3>1, ReleasesAssumption
      DEF DeleteStep, Find, FindNothing, DeleteRow, DeleteRowFault, DeleteFile,
          Proceed, GiveUp, NextStep, Answer, Goto, Request, Deleting
  <2> QED
    BY <2>1, WhoMoves DEF HasListed, Request, Deleting
<1>3. ASSUME NEW v \in Upload, Begin(v) \/ Receive(v) \/ UploadStep(v)
      PROVE  keep'[u] = keep[u]
  <2>1. keep' = keep \/ (pc[v] \in {"idle", "keep"} /\ \E n : keep' = [keep EXCEPT ![v] = n])
    BY <1>3
    DEF Receive, UploadStep, SignURL, SignFails, Begin, Accept, Conflict, AcceptFails,
        SaveCreate, SaveWrite, SaveRename, SaveFails, CreateRelease,
        CreateReleaseFails, Undo, Push, SetPlay, SetPlayFault, ReadKeep,
        ReadKeepFault, ListReleases, ListPanics, ListFault, SavePut, SaveHead,
        BucketFails, localVars
  <2> QED
    BY <2>1 DEF HasListed, Deleting
<1>4. ASSUME NEW r \in Request, DeleteStep(r) PROVE keep' = keep
  BY <1>4
  DEF DeleteStep, Find, FindNothing, DeleteRow, DeleteRowFault, DeleteFile, localVars
<1>5. ASSUME NEW d \in Deletion, NEW c \in Code, DeleteCheck(d, c) \/ DeleteRefused(d, c)
      PROVE  keep' = keep
  BY <1>5 DEF DeleteCheck, DeleteRefused, localVars
<1>6. ASSUME SetPruneKeep \/ SetHubKeep PROVE keep' = keep
  BY <1>6 DEF SetPruneKeep, SetHubKeep, localVars
<1> QED
  BY <1>1, <1>2, <1>3, <1>4, <1>5, <1>6 DEF Next, HasListed

\* Work lists are empty but while their requests delete.
LEMMA StepIdle ==
    ASSUME TypeOK, IdleInv, Next
    PROVE  IdleInv'
<1> USE ReleasesAssumption DEF TypeOK, Goto, Request
<1> SUFFICES ASSUME NEW r \in Request, pc'[r] \notin Deleting
             PROVE  todo'[r] = {}
  BY DEF IdleInv
<1>1. CASE r \in Upload /\ (Begin(r) \/ Receive(r) \/ UploadStep(r))
  <2>1. pc[r] \notin Deleting
    BY <1>1
    DEF Deleting, Receive, UploadStep, SignURL, SignFails, Begin, Accept, Conflict,
        AcceptFails, SaveCreate, SaveWrite, SaveRename, SaveFails, CreateRelease,
        CreateReleaseFails, Undo, Push, SetPlay, SetPlayFault, ReadKeep,
        ReadKeepFault, ListReleases, ListPanics, ListFault, SavePut, SaveHead,
        BucketFails
  <2>2. CASE ListReleases(r)
    BY <1>1, <2>2 DEF ListReleases, NextStep, Deleting
  <2>3. CASE ~ListReleases(r)
    <3>1. todo' = todo
      BY <1>1, <2>3
      DEF Receive, UploadStep, SignURL, SignFails, Begin, Accept, Conflict,
          AcceptFails, SaveCreate, SaveWrite, SaveRename, SaveFails, CreateRelease,
          CreateReleaseFails, Undo, Push, SetPlay, SetPlayFault, ReadKeep,
          ReadKeepFault, ListPanics, ListFault, SavePut, SaveHead, BucketFails,
          localVars
    <3> QED
      BY <2>1, <3>1 DEF IdleInv
  <2> QED
    BY <2>2, <2>3
<1>2. ASSUME NEW c \in Code, Find(r, c) \/ DeleteRow(r, c) PROVE FALSE
  BY <1>2 DEF Find, DeleteRow, Deleting
<1>3. ASSUME NEW c \in Code, FindNothing(r, c) \/ DeleteRowFault(r, c) \/ DeleteFile(r, c)
      PROVE  todo'[r] = {}
  BY <1>3
  DEF FindNothing, DeleteRowFault, DeleteFile, Proceed, GiveUp, NextStep, Deleting
<1>4. ASSUME NEW c \in Code, r \in Deletion, DeleteCheck(r, c) \/ DeleteRefused(r, c)
      PROVE  todo'[r] = {}
  BY <1>4 DEF DeleteCheck, DeleteRefused, IdleInv, Deleting, localVars
<1>5. CASE Crash
  BY <1>5 DEF Crash
<1>6. CASE pc'[r] = pc[r] /\ todo'[r] = todo[r]
  BY <1>6 DEF IdleInv
<1> QED
  BY <1>1, <1>2, <1>3, <1>4, <1>5, <1>6, WhoMoves DEF Moves, DeleteStep

\* Who comes to have listed has just listed, unless a statement failed or it
\* keeps everything.
LEMMA NewLister ==
    ASSUME IInv, PrunerInv, Next, ~Crash, faulted' = {},
           NEW u \in Upload, HasListed(u)', ~HasListed(u), keep'[u] # 0
    PROVE  ListReleases(u) \/ ListPanics(u)
<1> USE DEF IInv, TypeOK, Goto, Request
<1>1. form[u].chan = "direct" /\ pc[u] \notin Deleting \cup {"created", "aborted"}
  BY Changes DEF HasListed
<1>2. pc'[u] \in Deleting \cup {"created", "aborted"}
  BY DEF HasListed
<1>3. Moves(u)
  BY <1>1, <1>2, WhoMoves
<1>4. ~CreateRelease(u) /\ ~SignURL(u) /\ ~SignFails(u)
  BY <1>2 DEF CreateRelease, SignURL, SignFails, Deleting
<1>5. ~SetPlay(u) /\ ~SetPlayFault(u) /\ ~Push(u)
  BY <1>1 DEF SetPlay, SetPlayFault, Push, PrunerInv
<1>6. ~ReadKeep(u) /\ ~ReadKeepFault(u) /\ ~ListFault(u)
  BY <1>2 DEF ReadKeep, ReadKeepFault, ListFault, Fault, Deleting
<1>7. ~(Begin(u) \/ Accept(u) \/ Conflict(u) \/ AcceptFails(u) \/ SaveCreate(u)
        \/ SaveRename(u) \/ SaveFails(u))
  BY <1>2
  DEF Begin, Accept, Conflict, AcceptFails, SaveCreate, SaveRename, SaveFails,
      Deleting
<1>8. ~(SaveWrite(u) \/ SavePut(u) \/ SaveHead(u) \/ BucketFails(u) \/ CreateReleaseFails(u)
        \/ Undo(u))
  BY <1>1, <1>2
  DEF SaveWrite, SavePut, SaveHead, BucketFails, CreateReleaseFails, Undo, Deleting
<1>9. ~DeleteStep(u)
  BY <1>1
  DEF DeleteStep, Find, FindNothing, DeleteRow, DeleteRowFault, DeleteFile, Deleting
<1> QED
  BY <1>3, <1>4, <1>5, <1>6, <1>7, <1>8, <1>9, ReleasesAssumption
  DEF Moves, Receive, UploadStep

\* What the one that has just listed leaves alone is what it is told to keep.
LEMMA ListerLeaves ==
    ASSUME IInv, IInv', NEW u \in Upload, ListReleases(u) \/ ListPanics(u)
    PROVE  Cardinality(Left(u)') <= keep[u]
<1> USE DEF IInv, TypeOK
<1>1. keep[u] \in Nat \ {0}
  BY DEF LocalInv, ListReleases, ListPanics
<1>2. Direct' = Direct /\ Direct \subseteq Code
  BY DEF ListReleases, ListPanics, dbVars, Direct, Taken
<1>3. IsFiniteSet(Direct) /\ Cardinality(Direct) \in Nat
  BY <1>2, TopFew, FS_CardinalityType
<1>4. Left(u)' \subseteq Direct
  BY <1>2 DEF Left
<1>5. CASE ListPanics(u)
  <2>1. Cardinality(Left(u)') <= Cardinality(Direct) /\ Cardinality(Left(u)') \in Nat
    BY <1>3, <1>4, FS_Subset, FS_CardinalityType
  <2> QED
    BY <1>1, <1>3, <1>5, <2>1 DEF ListPanics
<1>6. CASE ListReleases(u)
  <2> DEFINE Few == {c \in Direct : Cardinality({d \in Direct : d > c}) < keep[u]}
  <2>1. todo'[u] = Beyond(keep[u]) /\ pc'[u] # "unfile"
    BY <1>6 DEF ListReleases, Goto, NextStep, Answer, Request
  <2>2. Left(u)' \subseteq Few
    <3> SUFFICES ASSUME NEW c \in Left(u)' PROVE c \in Few
      OBVIOUS
    <3>1. c \in Direct /\ c \notin Beyond(keep[u])
      BY <1>4, <2>1 DEF Left
    <3>2. Cardinality({d \in Direct : d > c}) \in Nat
      <4>1. {d \in Direct : d > c} \subseteq Code
        BY <1>2
      <4> QED
        BY <4>1, TopFew, FS_CardinalityType
    <3> QED
      BY <1>1, <3>1, <3>2 DEF Beyond
  <2>3. IsFiniteSet(Few) /\ Cardinality(Few) <= keep[u]
    <3>1. Few \subseteq Code
      BY <1>2
    <3> QED
      BY <1>1, <1>2, <3>1, TopFew
  <2> HIDE DEF Few
  <2>4. Cardinality(Left(u)') <= Cardinality(Few)
    BY <2>2, <2>3, FS_Subset
  <2>5. Cardinality(Few) \in Nat /\ Cardinality(Left(u)') \in Nat
    BY <2>2, <2>3, FS_Subset, FS_CardinalityType
  <2> QED
    BY <1>1, <2>3, <2>4, <2>5
<1> QED
  BY <1>5, <1>6

\* What one that has listed leaves alone only shrinks while nobody else lists.
LEMMA LeftShrinks ==
    ASSUME IInv, IInv', WriterInv, Next, ~Crash, faulted' = {},
           NEW v \in Upload, HasListed(v),
           \A u \in Upload : HasListed(u)' => HasListed(u)
    PROVE  Left(v)' \subseteq Left(v)
<1> USE DEF IInv, TypeOK
<1> SUFFICES ASSUME NEW c \in Code, rows'[c] # NoRow, rows'[c].chan = "direct",
                    HasListed(rows[c].sha)',
                    c \in todo'[v] => pc'[v] = "unfile" /\ Current(v, c)'
             PROVE  c \in Left(v)
  BY DEF Left, Direct, Taken
<1>1. /\ rows[c] # NoRow /\ rows[c].chan = "direct"
      /\ rows[c].sha = rows'[c].sha /\ rows[c].sha \in Upload
  <2>1. ASSUME NEW u \in Upload, CreateRelease(u), rows'[c] = NewRow(u) PROVE FALSE
    <3>1. rows'[c].sha = u /\ pc'[u] = "sign"
      BY <2>1 DEF CreateRelease, NewRow, Goto, Request
    <3> QED
      BY <3>1 DEF HasListed, Deleting
  <2>2. /\ rows[c] # NoRow /\ rows[c].chan = rows'[c].chan /\ rows[c].sha = rows'[c].sha
    BY <2>1, RowChanges
  <2> QED
    BY <2>2 DEF Row
<1>2. HasListed(rows[c].sha)
  <2>1. HasListed(rows[c].sha)' => HasListed(rows[c].sha)
    BY <1>1 DEF HasListed
  <2> QED
    BY <2>1
<1>3. ASSUME c \in todo[v] PROVE pc[v] = "unfile" /\ Current(v, c)
  <2>1. CASE pc'[v] = pc[v] /\ todo'[v] = todo[v]
    BY <1>3, <2>1 DEF Current
  <2>2. CASE Moves(v)
    <3>1. DeleteStep(v)
      BY <2>2, ReleasesAssumption
      DEF HasListed, Deleting, Moves, Receive, UploadStep, SignURL, SignFails, Begin,
          Accept, Conflict, AcceptFails, SaveCreate, SaveWrite, SaveRename, SaveFails,
          CreateRelease, CreateReleaseFails, Undo, Push, SetPlay, SetPlayFault,
          ReadKeep, ReadKeepFault, ListReleases, ListPanics, ListFault, SavePut,
          SaveHead, BucketFails
    <3>2. PICK e \in Code : \/ Find(v, e) \/ FindNothing(v, e)
                            \/ DeleteRow(v, e) \/ DeleteRowFault(v, e) \/ DeleteFile(v, e)
      BY <3>1 DEF DeleteStep
    <3>3. v \in Request /\ v \notin Deletion
      BY ReleasesAssumption DEF Request
    <3>4. ~Find(v, e)
      BY <1>3, <3>3 DEF Find, Goto
    <3>5. ~DeleteRowFault(v, e)
      BY DEF DeleteRowFault, Fault
    <3>6. ASSUME DeleteRow(v, e) PROVE FALSE
      <4>1. todo' = todo /\ Current(v, e) /\ rows'[e] = NoRow
        BY <3>6 DEF DeleteRow, localVars
      <4>2. c = e
        BY <1>3, <4>1, ReleasesAssumption DEF Current, Code
      <4> QED
        BY <4>1, <4>2
    <3>7. ASSUME Proceed(v, e) PROVE c = e
      <4>1. pc'[v] # "unfile" /\ todo'[v] = todo[v] \ {e}
        BY <3>3, <3>7 DEF Proceed, NextStep, Answer, Goto
      <4> QED
        BY <1>3, <4>1
    <3>8. ASSUME FindNothing(v, e) PROVE FALSE
      <4>1. Proceed(v, e) /\ rows[e] = NoRow
        BY <3>3, <3>8 DEF FindNothing, Fault
      <4> QED
        BY <1>1, <3>7, <4>1
    <3>9. DeleteFile(v, e)
      BY <3>2, <3>4, <3>5, <3>6, <3>8
    <3> QED
      BY <3>7, <3>9 DEF DeleteFile
  <2> QED
    BY <2>1, <2>2, WhoMoves DEF Request
<1> QED
  BY <1>1, <1>2, <1>3 DEF Left, Direct, Taken

\* The last one to list, and nobody before it, leaves too many behind.
LEMMA StepBound ==
    ASSUME IInv, IInv', WriterInv, PrunerInv, BoundInv, Next
    PROVE  BoundInv'
<1> USE DEF IInv, TypeOK
<1> SUFFICES ASSUME NEW n \in Nat \ {0}, NoCrash', faulted' = {},
                    NEW w \in Upload, HasListed(w)',
                    \A u \in Upload : HasListed(u)' => keep'[u] \in 1 .. n
             PROVE  \E v \in Upload : HasListed(v)' /\ Cardinality(Left(v)') <= n
  BY DEF BoundInv
<1>1. NoCrash /\ ~Crash /\ faulted = {}
  BY NeverCrashed, HistoryStays
<1>2. CASE \E u \in Upload : HasListed(u)' /\ ~HasListed(u)
  <2>1. PICK u \in Upload : HasListed(u)' /\ ~HasListed(u)
    BY <1>2
  <2>2. keep'[u] \in 1 .. n
    BY <2>1
  <2>3. ListReleases(u) \/ ListPanics(u)
    BY <1>1, <2>1, <2>2, NewLister
  <2>4. keep[u] \in 1 .. n
    BY <2>2, <2>3 DEF ListReleases, ListPanics, localVars
  <2>5. Cardinality(Left(u)') <= keep[u] /\ Cardinality(Left(u)') \in Nat
    <3>1. Left(u)' \subseteq Code
      BY DEF Left, Direct, Taken
    <3> QED
      BY <2>3, <3>1, ListerLeaves, TopFew, FS_CardinalityType
  <2> QED
    BY <2>1, <2>4, <2>5
<1>3. CASE \A u \in Upload : HasListed(u)' => HasListed(u)
  <2>1. \A u \in Upload : HasListed(u) => HasListed(u)' /\ keep[u] \in 1 .. n
    BY <1>1, ListedStays
  <2>2. PICK v \in Upload : HasListed(v) /\ Cardinality(Left(v)) <= n
    BY <1>1, <1>3, <2>1 DEF BoundInv
  <2>3. Left(v)' \subseteq Left(v)
    BY <1>1, <1>3, <2>2, LeftShrinks
  <2>4. IsFiniteSet(Left(v)) /\ Cardinality(Left(v)) \in Nat
    <3>1. Left(v) \subseteq Code
      BY DEF Left, Direct, Taken
    <3> QED
      BY <3>1, TopFew, FS_CardinalityType
  <2>5. Cardinality(Left(v)') <= Cardinality(Left(v)) /\ Cardinality(Left(v)') \in Nat
    BY <2>3, <2>4, FS_Subset, FS_CardinalityType
  <2>6. Cardinality(Left(v)') <= n
    BY <2>2, <2>4, <2>5
  <2> QED
    BY <2>1, <2>2, <2>6
<1> QED
  BY <1>2, <1>3

\* When all is quiet at most n direct releases are left of the uploads that
\* pruned (pruneReleases), if each of them was to keep between 1 and n.
THEOREM RetentionBounds == Spec => []RetentionBound
<1>1. Init => BInv
  <2> SUFFICES ASSUME Init PROVE BInv
    OBVIOUS
  <2>1. \A r \in Request : pc[r] = "idle" /\ todo[r] = {}
    BY DEF Init
  <2>2. \A u \in Upload : ~HasListed(u)
    BY <2>1 DEF HasListed, Deleting, Request
  <2> QED
    BY <2>1, <2>2, StartsArtifacts
    DEF BInv, AInv, PrunerInv, IdleInv, BoundInv, Deleting, Request
<1>2. BInv /\ [Next]_vars => BInv'
  <2> SUFFICES ASSUME BInv, [Next]_vars PROVE BInv'
    OBVIOUS
  <2>1. IInv'
    BY StepInvariant DEF BInv
  <2>2. CASE Next
    BY <2>1, <2>2, StepWriter, StepPruner, StepIdle, StepBound DEF BInv, IInv
  <2>3. CASE UNCHANGED vars
    <3> USE <2>3 DEF vars, dbVars, localVars, historyVars
    <3>1. WriterInv' /\ PrunerInv' /\ IdleInv'
      BY DEF BInv, WriterInv, PrunerInv, IdleInv, Taken
    <3>2. \A u : HasListed(u)' = HasListed(u)
      BY DEF HasListed
    <3>3. \A v \in Upload : Left(v)' = Left(v)
      BY DEF Left, HasListed, Direct, Taken, Current
    <3>4. BoundInv'
      BY <3>2, <3>3 DEF BInv, BoundInv, NoCrash
    <3> QED
      BY <2>1, <3>1, <3>4 DEF BInv
  <2> QED
    BY <2>2, <2>3
<1>3. BInv => RetentionBound
  <2> DEFINE pruned == {u \in Upload : /\ form[u].chan = "direct"
                                       /\ pc[u] \in {"created", "aborted"}}
             Kept == {c \in Direct : rows[c].sha \in pruned}
  <2> SUFFICES ASSUME BInv, Quiet, NoCrash, faulted = {},
                      NEW v \in pruned, \A u \in pruned : keep[u] \in 1 .. keep[v]
               PROVE  Cardinality(Kept) <= keep[v]
    BY DEF RetentionBound
  <2>1. \A r \in Request : pc[r] \notin Recorded \cup {"lost"}
    BY DEF Quiet, NoCrash, Done, Answered, Silent, Recorded, Deleting
  <2>2. \A u \in Upload : HasListed(u) <=> u \in pruned
    BY <2>1 DEF HasListed, Recorded, Request
  <2>3. keep[v] \in Nat \ {0}
    BY DEF BInv, IInv, TypeOK, Setting, Unset
  <2>4. PICK u \in Upload : HasListed(u) /\ Cardinality(Left(u)) <= keep[v]
    BY <2>2, <2>3 DEF BInv, BoundInv
  <2>5. todo[u] = {}
    BY <2>1 DEF BInv, IdleInv, Recorded, Request
  <2>6. \A c \in Direct : rows[c].sha \in Upload
    BY DEF Direct, Taken, BInv, IInv, TypeOK, Row
  <2>7. Left(u) = Kept
    BY <2>2, <2>5, <2>6 DEF Left
  <2> QED
    BY <2>4, <2>7
<1> QED
  BY <1>1, <1>2, <1>3, PTL DEF Spec

-----------------------------------------------------------------------------
(* The catalogue: every step of a request is a step of it or none          *)

\* The catalogue and the fates, as ReleasesProps maps them.
Entry(c) ==
    IF rows[c] = NoRow THEN NoRow ELSE [upload |-> rows[c].sha, chan |-> rows[c].chan]
Entries == [c \in Code |-> Entry(c)]
Fates == [u \in Upload |-> FateOf(u)]

-----------------------------------------------------------------------------
(* What becomes of the catalogue and the fates                             *)

\* Rows that keep their upload and channel are the same releases.
LEMMA EntriesStay ==
    ASSUME \A c \in Code :
            \/ rows'[c] = rows[c]
            \/ /\ rows[c] # NoRow /\ rows'[c] # NoRow
               /\ rows'[c].sha = rows[c].sha /\ rows'[c].chan = rows[c].chan
    PROVE  Entries' = Entries
<1>1. ASSUME NEW c \in Code PROVE Entry(c)' = Entry(c)
  BY <1>1 DEF Entry
<1> QED
  BY <1>1 DEF Entries

\* A step of one upload changes no other's fate.
LEMMA FatesOfOne ==
    ASSUME TypeOK, NEW u \in Upload, NEW step, Goto(u, step)
    PROVE  /\ pc'[u] = step
           /\ Fates' = [Fates EXCEPT ![u] = FateOf(u)']
<1>1. pc'[u] = step /\ \A v \in Upload \ {u} : pc'[v] = pc[v]
  BY DEF Goto, TypeOK, Request
<1>2. ASSUME NEW v \in Upload \ {u} PROVE FateOf(v)' = FateOf(v)
  BY <1>1 DEF FateOf
<1> QED
  BY <1>1, <1>2 DEF Fates

\* A step that is no upload's changes no fate.
LEMMA FatesStay ==
    ASSUME \A u \in Upload : pc'[u] = pc[u]
    PROVE  Fates' = Fates
<1>1. ASSUME NEW u \in Upload PROVE FateOf(u)' = FateOf(u)
  BY DEF FateOf
<1> QED
  BY <1>1 DEF Fates

\* What the fate of an upload is, step by step.
LEMMA FateAt ==
    ASSUME NEW u \in Upload
    PROVE  /\ pc[u] \in Unrecorded => FateOf(u) = "open"
           /\ pc[u] \in Recorded => FateOf(u) = "entered"
           /\ pc[u] = "created" => FateOf(u) = "created"
           /\ pc[u] = "unsigned" => FateOf(u) = "unsigned"
           /\ pc[u] \in {"conflict", "failed"} => FateOf(u) = "refused"
           /\ pc[u] \in Silent => FateOf(u) = "unanswered"
  BY DEF FateOf, Unrecorded, Saving, Recorded, Deleting, Silent

\* And after the step.
LEMMA FateThen ==
    ASSUME NEW u \in Upload
    PROVE  /\ pc'[u] \in Unrecorded => FateOf(u)' = "open"
           /\ pc'[u] \in Recorded => FateOf(u)' = "entered"
           /\ pc'[u] = "created" => FateOf(u)' = "created"
           /\ pc'[u] = "unsigned" => FateOf(u)' = "unsigned"
           /\ pc'[u] \in {"conflict", "failed"} => FateOf(u)' = "refused"
           /\ pc'[u] \in Silent => FateOf(u)' = "unanswered"
  BY DEF FateOf, Unrecorded, Saving, Recorded, Deleting, Silent

-----------------------------------------------------------------------------
(* The steps                                                               *)

\* The catalogue's steps in these terms.
Stutter == Entries' = Entries /\ Fates' = Fates
Ends(u, from, to) ==
    /\ Entries' = Entries
    /\ FateOf(u) \in from /\ Fates' = [Fates EXCEPT ![u] = to]

LEMMA Stutters == ASSUME Stutter PROVE UNCHANGED Catalog!catalogVars
  BY DEF Stutter, Entries, Entry, Fates, Catalog!catalogVars

LEMMA EndsCreated ==
    ASSUME NEW u \in Upload, Ends(u, {"entered"}, "created")
    PROVE  Catalog!Created(u)
  BY DEF Ends, Entries, Entry, Fates, Catalog!Created

LEMMA EndsUnsigned ==
    ASSUME NEW u \in Upload, Ends(u, {"entered"}, "unsigned")
    PROVE  Catalog!Unsigned(u)
  BY DEF Ends, Entries, Entry, Fates, Catalog!Unsigned

LEMMA EndsRefused ==
    ASSUME NEW u \in Upload, Ends(u, {"open"}, "refused")
    PROVE  Catalog!Refused(u)
  BY DEF Ends, Entries, Entry, Fates, Catalog!Refused

LEMMA EndsUnanswered ==
    ASSUME NEW u \in Upload, Ends(u, {"open", "entered"}, "unanswered")
    PROVE  Catalog!Unanswered
<1>1. {u} \in SUBSET {v \in Upload : Fates[v] \in {"open", "entered"}}
  BY DEF Ends, Fates
<1>2. Fates' = [v \in Upload |-> IF v \in {u} THEN "unanswered" ELSE Fates[v]]
  BY DEF Ends, Fates
<1> QED
  BY <1>1, <1>2 DEF Ends, Entries, Entry, Fates, Catalog!Unanswered

\* The INSERT is where an upload enters.
LEMMA Enters ==
    ASSUME TypeOK, LocalInv, NEW u \in Upload, CreateRelease(u)
    PROVE  \E c \in Code, ch \in Channel : Catalog!Enter(u, c, ch)
<1>0. PICK c \in Code : c = code[u]
  BY DEF CreateRelease, LocalInv
<1>1. c \in Code /\ form[u].chan \in Channel /\ pc[u] = "record"
  BY ReleasesAssumption DEF CreateRelease, LocalInv, TypeOK, Saving
<1>2. rows[c] = NoRow /\ rows' = [rows EXCEPT ![c] = NewRow(u)] /\ NewRow(u) # NoRow
  <2>1. NewRow(u) \in Row
    BY <1>1, ReleasesAssumption DEF NewRow, Row, PlayState, TypeOK
  <2> QED
    BY <1>0, <2>1, NoRowAssumption DEF CreateRelease
<1>3. Entries[c] = NoRow
      /\ Entries' = [Entries EXCEPT ![c] = [upload |-> u, chan |-> form[u].chan]]
  <2>1. ASSUME NEW d \in Code \ {c} PROVE Entry(d)' = Entry(d)
    BY <1>2, <2>1 DEF Entry, TypeOK
  <2>2. Entry(c) = NoRow
    BY <1>2 DEF Entry
  <2>3. rows'[c] = NewRow(u)
    BY <1>1, <1>2 DEF TypeOK
  <2>4. Entry(c)' = [upload |-> NewRow(u).sha, chan |-> NewRow(u).chan]
    BY <1>2, <2>3 DEF Entry
  <2>5. NewRow(u).sha = u /\ NewRow(u).chan = form[u].chan
    BY DEF NewRow
  <2>6. Entries = [d \in Code |-> Entry(d)] /\ Entries' = [d \in Code |-> Entry(d)']
    BY DEF Entries
  <2> QED
    BY <1>1, <2>1, <2>2, <2>4, <2>5, <2>6
<1>4. Fates[u] = "open" /\ Fates' = [Fates EXCEPT ![u] = "entered"]
  <2>1. Goto(u, "sign")
    BY DEF CreateRelease
  <2>2. pc'[u] = "sign" /\ Fates' = [Fates EXCEPT ![u] = FateOf(u)']
    BY <2>1, FatesOfOne
  <2> QED
    BY <1>1, <2>2, FateAt, FateThen DEF Fates, Recorded, Unrecorded
<1> QED
  BY <1>1, <1>3, <1>4 DEF Catalog!Enter, Entries, Entry, Fates

\* DELETE is where a release leaves.
LEMMA Withdraws ==
    ASSUME TypeOK, NEW r \in Request, NEW c \in Code, DeleteRow(r, c)
    PROVE  Catalog!Withdraw(c)
<1>1. Entries' = [Entries EXCEPT ![c] = NoRow]
  <2>1. \A d \in Code : rows'[d] = IF d = c THEN NoRow ELSE rows[d]
    BY DEF DeleteRow, TypeOK
  <2>2. ASSUME NEW d \in Code PROVE Entry(d)' = IF d = c THEN NoRow ELSE Entry(d)
    BY <2>1 DEF Entry
  <2> QED
    BY <2>2 DEF Entries
<1>2. Fates' = Fates
  <2>1. CASE r \in Upload
    <3>1. Goto(r, "unfile") /\ pc[r] = "unrow"
      BY DEF DeleteRow
    <3>2. pc'[r] = "unfile" /\ Fates' = [Fates EXCEPT ![r] = FateOf(r)']
      BY <2>1, <3>1, FatesOfOne
    <3>3. FateOf(r)' = FateOf(r)
      BY <2>1, <3>1, <3>2, FateAt, FateThen DEF Recorded, Deleting
    <3> QED
      BY <2>1, <3>2, <3>3 DEF Fates
  <2>2. CASE r \notin Upload
    BY <2>2, FatesStay DEF DeleteRow, Goto, TypeOK, Request
  <2> QED
    BY <2>1, <2>2
<1> QED
  BY <1>1, <1>2 DEF Catalog!Withdraw, Entries, Entry, Fates

\* Every other step of an upload keeps its row and ends it, or goes on with it.
LEMMA UploadSteps ==
    ASSUME TypeOK, LocalInv, NEW u \in Upload, Begin(u) \/ Receive(u) \/ UploadStep(u)
    PROVE  Catalog!CatalogNext \/ UNCHANGED Catalog!catalogVars
<1> DEFINE Good == \/ Stutter
                   \/ Ends(u, {"entered"}, "created") \/ Ends(u, {"entered"}, "unsigned")
                   \/ Ends(u, {"open"}, "refused")
                   \/ Ends(u, {"open", "entered"}, "unanswered")
<1>1. CASE CreateRelease(u)
  BY <1>1, Enters DEF Catalog!CatalogNext
<1>2. CASE ~CreateRelease(u)
  <2>1. Entries' = Entries
    <3>1. CASE SetPlay(u)
      <4>1. ASSUME NEW c \in Code, rows'[c] # rows[c]
            PROVE  /\ rows[c] # NoRow /\ rows'[c] # NoRow
                   /\ rows'[c].sha = rows[c].sha /\ rows'[c].chan = rows[c].chan
        <5>1. Next
          BY DEF Next
        <5>2. ASSUME NEW r \in Request PROVE ~DeleteRow(r, c)
          BY <3>1 DEF SetPlay, DeleteRow, Goto, TypeOK, Request
        <5>3. ASSUME NEW v \in Upload PROVE ~CreateRelease(v)
          BY <3>1 DEF SetPlay, CreateRelease, Goto, TypeOK, Request
        <5> QED
          BY <4>1, <5>1, <5>2, <5>3, RowChanges
      <4> QED
        BY <4>1, EntriesStay
    <3>2. CASE ~SetPlay(u)
      <4>1. rows' = rows
        BY <1>2, <3>2
        DEF Receive, UploadStep, SignURL, SignFails, Begin, Accept, Conflict,
            AcceptFails, SaveCreate, SaveWrite, SaveRename, SaveFails,
            CreateReleaseFails, Undo, Push, SetPlayFault, ReadKeep, ReadKeepFault,
            ListReleases, ListPanics, ListFault, SavePut, SaveHead, BucketFails,
            dbVars
      <4> QED
        BY <4>1, EntriesStay
    <3> QED
      BY <3>1, <3>2
  <2>2. Fates' = Fates \/ Fates' = [Fates EXCEPT ![u] = FateOf(u)']
    <3>1. pc' = pc \/ \E step : Goto(u, step)
      BY
      DEF Receive, UploadStep, SignURL, SignFails, Begin, Accept, Conflict,
          AcceptFails, SaveCreate, SaveWrite, SaveRename, SaveFails, CreateRelease,
          CreateReleaseFails, Undo, Push, SetPlay, SetPlayFault, ReadKeep,
          ReadKeepFault, ListReleases, ListPanics, ListFault, SavePut, SaveHead,
          BucketFails
    <3> QED
      BY <3>1, FatesStay, FatesOfOne
  <2>3. \/ FateOf(u)' = FateOf(u)
        \/ FateOf(u) = "entered" /\ FateOf(u)' \in {"created", "unsigned", "unanswered"}
        \/ FateOf(u) = "open" /\ FateOf(u)' = "refused"
    <3> USE DEF TypeOK, Goto, Request
    <3>1. CASE Begin(u) \/ Accept(u) \/ Conflict(u) \/ AcceptFails(u)
      BY <3>1, FateAt, FateThen
      DEF Begin, Accept, Conflict, AcceptFails, Saving, Unrecorded
    <3>2. CASE SaveCreate(u) \/ SaveWrite(u) \/ SaveRename(u) \/ SaveFails(u)
      BY <3>2, FateAt, FateThen
      DEF SaveCreate, SaveWrite, SaveRename, SaveFails, Saving, Unrecorded
    <3>3. CASE SavePut(u) \/ SaveHead(u) \/ BucketFails(u)
      BY <3>3, FateAt, FateThen
      DEF SavePut, SaveHead, BucketFails, Saving, Unrecorded
    <3>4. CASE CreateReleaseFails(u) \/ Undo(u)
      BY <3>4, FateAt, FateThen DEF CreateReleaseFails, Undo, Unrecorded
    <3>5. CASE Push(u) \/ SetPlay(u) \/ SetPlayFault(u) \/ ReadKeep(u) \/ ReadKeepFault(u)
      BY <3>5, FateAt, FateThen
      DEF Push, SetPlay, SetPlayFault, ReadKeep, ReadKeepFault, Recorded
    <3>6. CASE ListReleases(u) \/ ListPanics(u) \/ ListFault(u)
      BY <3>6, FateAt, FateThen
      DEF ListReleases, ListPanics, ListFault, NextStep, Answer, Recorded, Deleting,
          Silent
    <3>7. CASE SignURL(u) \/ SignFails(u)
      BY <3>7, FateAt, FateThen DEF SignURL, SignFails, Recorded
    <3> QED
      BY <1>2, <3>1, <3>2, <3>3, <3>4, <3>5, <3>6, <3>7 DEF Receive, UploadStep
  <2>4. Good
    BY <2>1, <2>2, <2>3 DEF Stutter, Ends, Fates
  <2> QED
    BY <2>4, Stutters, EndsCreated, EndsUnsigned, EndsRefused, EndsUnanswered
    DEF Catalog!CatalogNext
<1> QED
  BY <1>1, <1>2

\* Deleting withdraws a release in one step, and may be an upload's last.
LEMMA DeleteSteps ==
    ASSUME TypeOK, NEW r \in Request, DeleteStep(r)
    PROVE  Catalog!CatalogNext \/ UNCHANGED Catalog!catalogVars
<1>1. PICK c \in Code : \/ Find(r, c) \/ FindNothing(r, c)
                        \/ DeleteRow(r, c) \/ DeleteRowFault(r, c) \/ DeleteFile(r, c)
  BY DEF DeleteStep
<1>2. CASE DeleteRow(r, c)
  BY <1>2, Withdraws DEF Catalog!CatalogNext
<1>3. CASE ~DeleteRow(r, c)
  <2>1. Entries' = Entries
    BY <1>1, <1>3, EntriesStay DEF Find, FindNothing, DeleteRowFault, DeleteFile, dbVars
  <2>2. PICK step : Goto(r, step)
    BY <1>1
    DEF Find, FindNothing, DeleteRow, DeleteRowFault, DeleteFile, Proceed, GiveUp
  <2>3. CASE r \notin Upload
    <3>1. \A u \in Upload : pc'[u] = pc[u]
      BY <2>2, <2>3 DEF Goto, TypeOK, Request
    <3> QED
      BY <2>1, <3>1, FatesStay, Stutters DEF Stutter
  <2>4. CASE r \in Upload
    <3>1. pc[r] \in Deleting /\ pc'[r] \in Deleting \cup {"created"}
      BY <1>1, <1>3, <2>4, ReleasesAssumption
      DEF Find, FindNothing, DeleteRowFault, DeleteFile, Proceed, GiveUp, Goto,
          NextStep, Answer, Deleting, TypeOK, Request
    <3>2. FateOf(r) = "entered" /\ FateOf(r)' \in {"entered", "created"}
      BY <2>4, <3>1, FateAt, FateThen DEF Recorded
    <3>3. Fates' = [Fates EXCEPT ![r] = FateOf(r)']
      BY <2>2, <2>4, FatesOfOne
    <3>4. Stutter \/ Ends(r, {"entered"}, "created")
      BY <2>1, <2>4, <3>2, <3>3 DEF Stutter, Ends, Fates
    <3> QED
      BY <2>4, <3>4, Stutters, EndsCreated DEF Catalog!CatalogNext
  <2> QED
    BY <2>3, <2>4
<1> QED
  BY <1>2, <1>3

\* When the hub dies, its uploads under way are left without an answer.
LEMMA CrashSteps ==
    ASSUME TypeOK, Crash
    PROVE  Catalog!Unanswered
<1> DEFINE U == {u \in Upload : Active(u)}
<1>1. ASSUME NEW u \in U PROVE FateOf(u) \in {"open", "entered"} /\ FateOf(u)' = "unanswered"
  <2>1. u \in Upload /\ pc'[u] = "lost"
    BY DEF Crash, Request
  <2>2. pc[u] \in {"begun", "record", "undo"} \cup Saving \cup Recorded
    BY DEF TypeOK, Request, Active, Step
  <2> QED
    BY <2>1, <2>2, FateAt, FateThen DEF Unrecorded, Silent
<1>2. ASSUME NEW u \in Upload \ U PROVE FateOf(u)' = FateOf(u)
  <2>1. pc'[u] = pc[u]
    BY DEF Crash, Request
  <2> QED
    BY <2>1 DEF FateOf
<1>3. Fates' = [u \in Upload |-> IF u \in U THEN "unanswered" ELSE Fates[u]]
  <2>1. \A u \in Upload : FateOf(u)' = IF u \in U THEN "unanswered" ELSE Fates[u]
    BY <1>1, <1>2 DEF Fates
  <2>2. Fates' = [u \in Upload |-> FateOf(u)']
    BY DEF Fates
  <2> HIDE DEF U
  <2> QED
    BY <2>1, <2>2
<1>4. U \in SUBSET {u \in Upload : Fates[u] \in {"open", "entered"}}
  BY <1>1 DEF Fates
<1>5. Entries' = Entries
  BY EntriesStay DEF Crash, dbVars
<1> HIDE DEF U
<1> QED
  BY <1>3, <1>4, <1>5 DEF Entries, Entry, Fates, Catalog!Unanswered

-----------------------------------------------------------------------------
(* The theorem                                                             *)

\* The requests and their steps implement the catalogue: handleApiUpload's
\* INSERT is where a release enters it, an upload whose URL cannot be signed is
\* told of an error though its release is in, and no other that is in is.
THEOREM CatalogImplemented == Spec => ImplementsCatalog
<1>1. Init => Catalog!CatalogInit
  <2> SUFFICES ASSUME Init PROVE Catalog!CatalogInit
    OBVIOUS
  <2>1. \A u \in Upload : FateOf(u) = "open"
    BY FateAt DEF Init, Request, Unrecorded
  <2> QED
    BY <2>1 DEF Init, Catalog!CatalogInit
<1>2. IInv /\ [Next]_vars => [Catalog!CatalogNext]_(Catalog!catalogVars)
  <2> SUFFICES ASSUME IInv, [Next]_vars
               PROVE  Catalog!CatalogNext \/ UNCHANGED Catalog!catalogVars
    OBVIOUS
  <2> USE DEF IInv
  <2>1. ASSUME NEW d \in Deletion, NEW c \in Code, DeleteCheck(d, c) \/ DeleteRefused(d, c)
        PROVE  Stutter
    <3>1. rows' = rows /\ \E step : Goto(d, step)
      BY <2>1 DEF DeleteCheck, DeleteRefused, dbVars
    <3>2. \A u \in Upload : pc'[u] = pc[u]
      BY <3>1, ReleasesAssumption DEF Goto, TypeOK, Request
    <3> QED
      BY <3>1, <3>2, EntriesStay, FatesStay DEF Stutter
  <2>2. ASSUME SetPruneKeep \/ SetHubKeep \/ UNCHANGED vars PROVE Stutter
    BY <2>2, EntriesStay, FatesStay DEF Stutter, SetPruneKeep, SetHubKeep, vars, dbVars
  <2> QED
    BY <2>1, <2>2, UploadSteps, DeleteSteps, CrashSteps, Stutters
    DEF Next, Catalog!CatalogNext
<1> QED
  BY <1>1, <1>2, Invariance, PTL DEF Spec, ImplementsCatalog, Catalog!CatalogSpec
=============================================================================
