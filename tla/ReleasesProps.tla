--------------------------- MODULE ReleasesProps ----------------------------
(***************************************************************************)
(* What Releases is checked for.  The properties that hold state the       *)
(* condition under which they hold; the ones at the end are what the       *)
(* repository's own comments and docs say, and the code does not keep.     *)
(***************************************************************************)
EXTENDS Releases

\* Every request runs on: net/http gives each a goroutine, and no step waits
\* for another request.  Nothing makes a client send one or, since the server
\* sets no timeout, finish its body (Receive); nothing makes the hub crash.
FairSpec ==
    /\ Spec
    /\ \A u \in Upload : WF_vars(UploadStep(u))
    /\ \A r \in Request : WF_vars(DeleteStep(r))

-----------------------------------------------------------------------------
(* Vocabulary                                                              *)

Quiet == \A r \in Request : pc[r] \in Done \cup {"idle"}

NoCrash == \A r \in Request : pc[r] # "lost"

\* Two uploads were given version code c.
SharedCode(c) == \E u, v \in Upload : u # v /\ code[u] = c /\ code[v] = c

\* Two uploads of version code c got into the table, one after the other.
RecordedTwice(c) ==
    \E u, v \in Upload :
        /\ u # v /\ code[u] = c /\ code[v] = c
        /\ {pc[u], pc[v]} \subseteq Recorded \cup {"created", "unsigned", "aborted"}

\* The file of release c is there and is the one that was hashed.
Stored(c) ==
    LET inode == disk[<<c, rows[c].name>>]
    IN  inode # NoFile /\ Store!Intact(rows[c].sha, inode)

\* No delete request has got as far as deleting a row.
NothingByHand == \A d \in Deletion : pc[d] \notin {"unfile", "deleted", "lost"}

-----------------------------------------------------------------------------
(* Safety                                                                  *)

\* handleManifest serves a release's URL and sha256 from its row; the device
\* that follows the URL finds that very artifact, as long as no other request
\* used the upload's key at the same time.  Uploads of one key one after the
\* other, crashes and failed statements in between, do no harm.
ArtifactIntact ==
    \A c \in Taken : rows[c].sha \notin contended => Stored(c)

\* When all is quiet no temporary file is left over and no artifact is without
\* its row, unless the hub died, whatever statements failed: handleApiUpload
\* deletes what it cannot record, even when another upload has its code, and
\* deleteRelease what it has unrecorded -- except where a release deleted was
\* not the one looked up, which takes two releases under one code, and but for
\* the objects of failed S3 calls: of a Save that could not size what it had
\* put (storage.go:180), or of a DeleteObject.
NoOrphanArtifact ==
    (Quiet /\ NoCrash) =>
        \A k \in Key :
            /\ part[k] = NoFile
            /\ (disk[k] \notin {NoFile} \cup stray /\ ~RecordedTwice(k[1])) =>
                    rows[k[1]] # NoRow /\ rows[k[1]].name = k[2]

\* When all is quiet, at most n of the direct releases are left whose uploads
\* pruned, if each did so with a keep count between 1 and n: of several uploads
\* that overlap, the last to list sees the others' rows.  An upload answered
\* 500 for want of a URL does not prune.
RetentionBound ==
    LET pruned == {u \in Upload : /\ form[u].chan = "direct"
                                  /\ pc[u] \in {"created", "aborted"}}
    IN  \A v \in pruned :
            (/\ Quiet /\ NoCrash /\ faulted = {}
             /\ \A u \in pruned : keep[u] \in 1 .. keep[v])
            => Cardinality({c \in Direct : rows[c].sha \in pruned}) <= keep[v]

\* An upload answered 201 on a Play channel has left its own push's outcome in
\* its row, unless setPlay failed or the version code was shared (setPlay
\* finds the row by code).
PlayOutcomeRecorded ==
    \A u \in Upload :
        (/\ pc[u] = "created" /\ form[u].chan = "play" /\ u \notin faulted
         /\ rows[code[u]] # NoRow /\ ~SharedCode(code[u]))
        => rows[code[u]].play = pushed[u]

\* Retention alone never takes the newest direct release away, nor makes
\* devices go back to an older one, however many uploads prune at once.
HeadNeverLowered ==
    [][NothingByHand' => \A c \in Direct : \E d \in Direct' : d >= c]_vars

\* A release on a Play channel is never deleted or replaced, unless its
\* version code was also given to another upload.
PlayReleasesKept ==
    [][\A c \in Taken : (rows[c].chan = "play" /\ ~SharedCode(c)) =>
            rows'[c] # NoRow /\ rows'[c].sha = rows[c].sha]_vars

-----------------------------------------------------------------------------
(* Liveness                                                                *)

\* A request that has its body, or needs none, ends: pruning runs out of
\* releases and no request waits for another.  And it ends with an answer,
\* whichever of its statements fail: an upload that pushes or has listed what
\* to prune, and a delete that has found its release, do not panic any more.
EveryRequestEnds ==
    /\ \A r \in Request : (Active(r) /\ pc[r] # "begun") ~> pc[r] \in Done
    /\ [][\A r \in Request :
            (\/ pc[r] \in {"push", "setplay", "unrow", "unfile"}
             \/ pc[r] = "find" /\ r \in Upload) => pc'[r] # "aborted"]_vars

-----------------------------------------------------------------------------
(* Refinement of ReleaseCatalog                                            *)

Unrecorded == {"idle", "begun", "record", "undo"} \cup Saving

FateOf(u) ==
    CASE pc[u] \in Unrecorded -> "open"
      [] pc[u] \in Recorded -> "entered"
      [] pc[u] = "created" -> "created"
      [] pc[u] = "unsigned" -> "unsigned"
      [] pc[u] \in {"conflict", "failed"} -> "refused"
      [] pc[u] \in Silent -> "unanswered"

Catalog == INSTANCE ReleaseCatalog WITH
    Nobody <- NoRow,
    catalogue <- [c \in Code |-> IF rows[c] = NoRow THEN NoRow
                                 ELSE [upload |-> rows[c].sha, chan |-> rows[c].chan]],
    fate <- [u \in Upload |-> FateOf(u)]

\* The requests and their steps implement the catalogue: a release enters it
\* at once and once, a 201 is given only for a release that entered, an error
\* only for one that never did or that could not be given a URL.
ImplementsCatalog == Catalog!CatalogSpec

-----------------------------------------------------------------------------
(* What the repository says and the code does not keep                     *)

\* db/migrations/008: UNIQUE "turns accidental duplicates into a clean 409":
\* whatever overlaps, a recorded release keeps its artifact.
ArtifactAlwaysIntact == \A c \in Taken : Stored(c)

\* prune.go: "internal/public releases are never touched".
PlayReleasesNeverDeleted ==
    [][\A c \in Taken : rows[c].chan = "play" => rows'[c] # NoRow]_vars

\* handleApiUpload: pruning "runs after the upload is fully committed"; an
\* upload that has got so far is answered.
PruningReturns == \A u \in Upload : pc[u] # "aborted"
=============================================================================
