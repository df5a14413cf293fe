----------------------------- MODULE PlayPublish -----------------------------
(***************************************************************************)
(* The Play side of a release: Publish (an edit that takes the bundle, the *)
(* track and the testers, and is committed), ensureClosedTrack before it,  *)
(* SetTesters after an invitation, and settlePlayStatus, which compares    *)
(* the rows nothing is known of with what is on the tracks.                *)
(*                                                                         *)
(* Play is external and modelled as far as the code relies on it: an edit  *)
(* collects changes that a commit makes visible all at once; every call    *)
(* may fail; an Insert or a Commit may be carried out and its answer be    *)
(* lost; a track can be created once, which Play says when it is asked to  *)
(* create it or, when another commit came between, when that is committed. *)
(* ListTracks opens an edit of its own and deletes it.                     *)
(***************************************************************************)
EXTENDS Naturals, FiniteSets

CONSTANTS
    Push,           \* uploads of a bundle on a Play channel
    Invite,         \* requests to send the tester groups to a track
    View,           \* views of a page that settles the rows
    Old,            \* rows older than migration 009
    Channel,        \* [word, name], as the forms of requests have it
    Version,        \* version names
    Extension,      \* the pairs <<v, w>> of them where w is v, " (" and more
    Group,          \* tester groups the Settings page may save
    Console,        \* a tester group set in Play Console
    MaxFaulted,     \* bound: requests and views with a failing call or Delete
    NoTrack, NoForm, NoVersion

Request == Push \cup Invite
Actor   == Request \cup View
Row     == Push \cup Old

VARIABLES
    \* the hub
    status,     \* releases.play_status of a row; "failed" is 'error' with a text
    form,       \* channel and version name of a row or an invitation
    groups,     \* config play_testers
    \* Play
    live,       \* tracks the app has
    onTrack,    \* the releases on each track, by row
    testers,    \* the tester groups of each track
    open,       \* the edits that are open: who opened them, and for what
    staged,     \* the changes a request's edit has collected
    \* the requests
    pc,
    send,       \* the tester groups a request has read
    result,     \* how its work on Play came out
    seen,       \* what a view still has to settle
    \* history
    landed,     \* rows whose release was ever on Play
    faulted,    \* requests one of whose calls failed
    unsure,     \* rows whose commit was not answered
    late,       \* requests whose track was created between their create
                \* call and their commit
    left        \* edits whose Insert was not answered or whose Delete failed,
                \* and those that were open when the hub died

hubVars     == <<status, form, groups>>
playVars    == <<live, onTrack, testers>>
editVars    == <<open, staged>>
localVars   == <<pc, send, result, seen>>
historyVars == <<landed, faulted, unsure, late, left>>
vars == <<hubVars, playVars, editVars, localVars, historyVars>>

-----------------------------------------------------------------------------
(* Channels                                                                *)

Standard == {"production", "beta", "internal"}

trackFor(ch) ==
    CASE ch.word = "public"            -> "production"
      [] ch.word \in {"beta", "open"}  -> "beta"
      [] ch.word \in {"alpha", "closed"} -> "alpha"
      [] ch.word = "internal"          -> "internal"
      [] ch.word = "closed:"           -> ch.name
      [] OTHER                         -> NoTrack

trackIsClosed(ch) ==
    trackFor(ch) # NoTrack /\ ch.word \in {"alpha", "closed", "closed:"}

Track == {trackFor(ch) : ch \in Channel} \cup Standard
Form  == [chan : Channel, version : Version \cup {NoVersion}]

ASSUME PublishAssumption ==
    /\ \A ch \in Channel : trackFor(ch) # NoTrack
    /\ NoTrack \notin Standard /\ NoForm \notin Form /\ Console \notin Group /\ NoVersion \notin Version
    /\ Push \cap Invite = {} /\ Push \cap Old = {} /\ Invite \cap Old = {}
    /\ View \cap Request = {} /\ MaxFaulted \in Nat
    /\ Extension \subseteq Version \X Version

Status == {"none", "pending", "error", "failed", "ok"}
Change == {"create", "release", "testers"}

\* The steps between the Insert of an edit and the end of its Delete: those
\* of a listing, of the listing after a refused create, of creating a track,
\* and of the edit that publishes or invites.
Inside == [list   |-> {"list"},
           relist |-> {"relist"},
           create |-> {"create", "openr", "relist", "commitc", "closec"},
           main   |-> {"upload", "track", "testers", "commit", "close"}]
Opening == {"openl", "openr", "openc", "open"}
Closing == {"closec", "close"}
Step == {"idle", "read", "report", "mark", "done"} \cup Opening
        \cup UNION {Inside[k] : k \in DOMAIN Inside}
Edit == Actor \X DOMAIN Inside

TypeOK ==
    /\ status \in [Row -> Status]
    /\ form \in [Row \cup Invite -> Form \cup {NoForm}]
    /\ groups \subseteq Group
    /\ live \subseteq Track
    /\ onTrack \in [Track -> SUBSET Row]
    /\ testers \in [Track -> SUBSET (Group \cup {Console})]
    /\ open \subseteq Edit
    /\ staged \in [Request -> SUBSET Change]
    /\ pc \in [Actor -> Step]
    /\ send \in [Request -> SUBSET Group]
    /\ result \in [Request -> {"none", "ok", "failed"}]
    /\ seen \in [View -> SUBSET Row]
    /\ landed \subseteq Row /\ faulted \subseteq Request
    /\ unsure \subseteq Push /\ late \subseteq Request /\ left \subseteq Edit

\* Old rows are 'pending'; some of their releases are on Play.
Init ==
    /\ status = [x \in Row |-> IF x \in Old THEN "pending" ELSE "none"]
    /\ \E f \in [Old -> [chan : Channel, version : Version]] :
         form = [x \in Row \cup Invite |-> IF x \in Old THEN f[x] ELSE NoForm]
    /\ groups \in SUBSET Group
    /\ live \in {Standard \cup T : T \in SUBSET Track}
    /\ landed \in SUBSET Old
    /\ \A x \in landed : trackFor(form[x].chan) \in live
    /\ onTrack = [t \in Track |-> {x \in landed : trackFor(form[x].chan) = t}]
    /\ testers = [t \in Track |-> IF t \in live THEN {Console} ELSE {}]
    /\ open = {} /\ staged = [r \in Request |-> {}]
    /\ pc = [a \in Actor |-> "idle"]
    /\ send = [r \in Request |-> {}]
    /\ result = [r \in Request |-> "none"]
    /\ seen = [v \in View |-> {}]
    /\ faulted = {} /\ unsure = {} /\ late = {} /\ left = {}

-----------------------------------------------------------------------------
(* Steps of a request                                                      *)

Goto(a, step)    == pc' = [pc EXCEPT ![a] = step]
Target(r)        == trackFor(form[r].chan)
Stage(r, change) == staged' = [staged EXCEPT ![r] = @ \cup {change}]

\* bound: those whose calls or Deletes have failed
FewFaults(F, L) == Cardinality(F \cup {e[1] : e \in L}) <= MaxFaulted

\* A call of a request has failed.
Fault(a) ==
    /\ faulted' = faulted \cup ({a} \cap Request)
    /\ FewFaults(faulted', left)

\* What Play refuses: a second track of a name, and groups on the tracks that
\* are not closed ones.
Refuses(r) ==
    \/ pc[r] \in {"create", "commitc"} /\ Target(r) \in live
    \/ pc[r] = "testers" /\ Target(r) \in Standard

\* An upload on a Play channel has recorded its row ('error' until proven
\* ok), an invitation has passed its checks: both have a channel.
Begin(r) ==
    /\ pc[r] = "idle" /\ Goto(r, "read")
    /\ \E f \in Form :
         /\ r \in Invite <=> f.version = NoVersion
         /\ r \in Invite => trackIsClosed(f.chan)
         /\ form' = [form EXCEPT ![r] = f]
    /\ status' = IF r \in Push THEN [status EXCEPT ![r] = "error"] ELSE status
    /\ UNCHANGED <<groups, playVars, editVars, send, result, seen, historyVars>>

\* Faulty variant: the groups are added to those of the track.
ReadTestersMerged(r) ==
    /\ pc[r] = "read"
    /\ send' = [send EXCEPT ![r] = groups \cup testers[Target(r)]]
    /\ Goto(r, IF r \in Invite /\ groups = {} THEN "done"
               ELSE IF trackIsClosed(form[r].chan) THEN "openl" ELSE "open")
    /\ UNCHANGED <<hubVars, playVars, editVars, result, seen, historyVars>>

\* playTesters.  An invitation without groups is refused.
ReadTesters(r) ==
    /\ pc[r] = "read"
    /\ send' = [send EXCEPT ![r] = groups]
    /\ Goto(r, IF r \in Invite /\ groups = {} THEN "done"
               ELSE IF trackIsClosed(form[r].chan) THEN "openl" ELSE "open")
    /\ UNCHANGED <<hubVars, playVars, editVars, result, seen, historyVars>>

\* What the edit is for that a step opens, works in or deletes.
Purpose(step) ==
    CASE step \in {"openl", "list"}                       -> "list"
      [] step \in {"openr", "relist"}                     -> "relist"
      [] step \in {"openc", "create", "commitc", "closec"} -> "create"
      [] OTHER                                            -> "main"

EditOf(a) == <<a, Purpose(pc[a])>>

\* The end of a listing, whose edit nobody has seen: the deferred Delete, done
\* or failing.
DropListing(a) ==
    \/ open' = open \ {EditOf(a)} /\ UNCHANGED left
    \/ /\ left' = left \cup {EditOf(a)} /\ UNCHANGED open
       /\ FewFaults(faulted, left')

\* ensureClosedTrack lists the tracks and creates the one it misses, in an
\* edit of its own.
ListTracks(r) ==
    /\ pc[r] = "list" /\ DropListing(r)
    /\ Goto(r, IF Target(r) \in live THEN "open" ELSE "openc")
    /\ UNCHANGED <<hubVars, playVars, staged, send, result, seen,
                   landed, faulted, unsure, late>>

AfterInsert(a) ==
    CASE pc[a] = "openl" -> "list"
      [] pc[a] = "openr" -> "relist"
      [] pc[a] = "openc" -> "create"
      [] OTHER           -> IF a \in Push THEN "upload" ELSE "testers"

InsertEdit(a) ==
    /\ pc[a] \in Opening /\ Goto(a, AfterInsert(a))
    /\ open' = open \cup {EditOf(a)}
    /\ UNCHANGED <<hubVars, playVars, staged, send, result, seen, historyVars>>

CreateTrack(r) ==
    /\ pc[r] = "create" /\ ~Refuses(r)
    /\ Stage(r, "create") /\ Goto(r, "commitc")
    /\ UNCHANGED <<hubVars, playVars, open, send, result, seen, historyVars>>

\* Faulty variant: the loser of the race gives up.
GiveUpCreate(r) ==
    /\ pc[r] = "create" /\ Target(r) \in live
    /\ Goto(r, "closec") /\ result' = [result EXCEPT ![r] = "failed"]
    /\ UNCHANGED <<hubVars, playVars, editVars, send, seen, historyVars>>

\* "Lost a race with a concurrent create?"  Any failure of the call, refused or
\* not, makes it list the tracks again.
CreateRefused(r) ==
    /\ pc[r] = "create" /\ Goto(r, "openr")
    /\ IF Refuses(r) THEN UNCHANGED faulted ELSE Fault(r)
    /\ UNCHANGED <<hubVars, playVars, editVars, send, result, seen,
                   landed, unsure, late, left>>

Relist(r) ==
    /\ pc[r] = "relist" /\ DropListing(r) /\ Goto(r, "closec")
    /\ result' = IF Target(r) \in live THEN result ELSE [result EXCEPT ![r] = "failed"]
    /\ UNCHANGED <<hubVars, playVars, staged, send, seen, landed, faulted, unsure, late>>

UploadBundle(r) ==
    /\ pc[r] = "upload" /\ Goto(r, "track")
    /\ UNCHANGED <<hubVars, playVars, editVars, send, result, seen, historyVars>>

\* Faulty variant: an empty list is pushed as well.
UpdateTrackAlways(r) ==
    /\ pc[r] = "track" /\ Stage(r, "release")
    /\ Goto(r, IF trackIsClosed(form[r].chan) THEN "testers" ELSE "commit")
    /\ UNCHANGED <<hubVars, playVars, open, send, result, seen, historyVars>>

\* The groups follow on closed tracks, if there are any.
UpdateTrack(r) ==
    /\ pc[r] = "track" /\ Stage(r, "release")
    /\ Goto(r, IF trackIsClosed(form[r].chan) /\ send[r] # {} THEN "testers" ELSE "commit")
    /\ UNCHANGED <<hubVars, playVars, open, send, result, seen, historyVars>>

UpdateTesters(r) ==
    /\ pc[r] = "testers" /\ ~Refuses(r)
    /\ Stage(r, "testers") /\ Goto(r, "commit")
    /\ UNCHANGED <<hubVars, playVars, open, send, result, seen, historyVars>>

\* What Play does on a commit: the edit's changes, all at once; the release
\* list and the tester list of the track are replaced.  Who has asked for the
\* same track and not committed yet will be refused.
Apply(r) ==
    /\ open' = open \ {EditOf(r)}
    /\ IF "create" \in staged[r]
       THEN /\ live' = live \cup {Target(r)}
            /\ late' = late \cup {q \in Request \ {r} :
                                    pc[q] = "commitc" /\ Target(q) = Target(r)}
       ELSE UNCHANGED <<live, late>>
    /\ IF "release" \in staged[r]
       THEN /\ onTrack' = [onTrack EXCEPT ![Target(r)] = {r}]
            /\ landed' = landed \cup {r}
       ELSE UNCHANGED <<onTrack, landed>>
    /\ testers' = IF "testers" \in staged[r]
                  THEN [testers EXCEPT ![Target(r)] = send[r]] ELSE testers
    /\ staged' = [staged EXCEPT ![r] = {}]

Commit(r) ==
    /\ \/ pc[r] = "commitc" /\ Goto(r, "closec") /\ UNCHANGED result
       \/ pc[r] = "commit" /\ Goto(r, "close") /\ result' = [result EXCEPT ![r] = "ok"]
    /\ ~Refuses(r) /\ Apply(r)
    /\ UNCHANGED <<hubVars, send, seen, faulted, unsure, left>>

CommitUnanswered(r) ==
    /\ \/ pc[r] = "commitc" /\ Goto(r, "closec")
       \/ pc[r] = "commit" /\ Goto(r, "close")
    /\ ~Refuses(r) /\ Apply(r)
    /\ result' = [result EXCEPT ![r] = "failed"]
    /\ Fault(r)
    /\ unsure' = IF "release" \in staged[r] THEN unsure \cup {r} ELSE unsure
    /\ UNCHANGED <<hubVars, send, seen, left>>

\* Faulty variant: the edit is forgotten.
AfterFailureLeaks(a) ==
    CASE pc[a] \in {"openr", "relist", "commitc"} -> "closec"
      [] OTHER                                   -> IF a \in View THEN "done" ELSE "report"

\* Where a call that fails leads: to the deferred Delete of the edit it is in,
\* if it is in one.
AfterFailure(a) ==
    CASE pc[a] \in {"openr", "relist", "commitc"}             -> "closec"
      [] pc[a] \in {"upload", "track", "testers", "commit"} -> "close"
      [] OTHER                      -> IF a \in View THEN "done" ELSE "report"

\* The request has failed; a view settles nothing.
GiveUp(a) ==
    /\ Goto(a, AfterFailure(a))
    /\ result' = [r \in Request |-> IF r = a THEN "failed" ELSE result[r]]
    /\ seen' = [v \in View |-> IF v = a THEN {} ELSE seen[v]]
    /\ UNCHANGED <<hubVars, playVars, staged, send, landed, unsure, late>>

\* Any call may fail, or be refused.  (For a create see CreateRefused.)
CallFails(a) ==
    /\ pc[a] \in Opening \cup {"commitc", "upload", "track", "testers", "commit"}
    /\ GiveUp(a)
    /\ IF Refuses(a) THEN UNCHANGED faulted ELSE Fault(a)
    /\ UNCHANGED <<open, left>>

ListFails(a) ==
    /\ pc[a] \in {"list", "relist"}
    /\ GiveUp(a) /\ Fault(a) /\ DropListing(a)

\* Play has opened the edit and its answer, with the id to delete it by, is
\* lost.
InsertUnanswered(a) ==
    /\ pc[a] \in Opening
    /\ GiveUp(a) /\ Fault(a)
    /\ open' = open \cup {EditOf(a)}
    /\ left' = left \cup {EditOf(a)}

AfterClose(r) ==
    IF pc[r] = "closec" /\ result[r] # "failed" THEN "open" ELSE "report"

\* Faulty variant: the edit is gone once it is committed, which is taken for
\* a failure.
DeleteEditMinds(r) ==
    /\ pc[r] \in Closing /\ Goto(r, AfterClose(r))
    /\ result' = IF EditOf(r) \in open THEN result ELSE [result EXCEPT ![r] = "failed"]
    /\ open' = open \ {EditOf(r)} /\ staged' = [staged EXCEPT ![r] = {}]
    /\ UNCHANGED <<hubVars, playVars, send, seen, historyVars>>

\* The deferred Delete.  Play has no edit any more once it was committed: the
\* call fails and nobody minds.
DeleteEdit(r) ==
    /\ pc[r] \in Closing /\ Goto(r, AfterClose(r))
    /\ open' = open \ {EditOf(r)} /\ staged' = [staged EXCEPT ![r] = {}]
    /\ UNCHANGED <<hubVars, playVars, send, result, seen, historyVars>>

DeleteEditFails(r) ==
    /\ pc[r] \in Closing /\ Goto(r, AfterClose(r))
    /\ left' = left \cup ({EditOf(r)} \cap open) /\ staged' = [staged EXCEPT ![r] = {}]
    /\ FewFaults(faulted, left')
    /\ UNCHANGED <<hubVars, playVars, open, send, result, seen,
                   landed, faulted, unsure, late>>

\* setPlay: the row learns how it went.
Report(r) ==
    /\ pc[r] = "report" /\ Goto(r, "done")
    /\ status' = IF r \in Push THEN [status EXCEPT ![r] = result[r]] ELSE status
    /\ send' = [send EXCEPT ![r] = {}]
    /\ UNCHANGED <<form, groups, playVars, editVars, result, seen, historyVars>>

\* The client has gone, or the statement fails: the row keeps its 'error'.
ReportFails(r) ==
    /\ pc[r] = "report" /\ r \in Push /\ Goto(r, "done")
    /\ send' = [send EXCEPT ![r] = {}]
    /\ UNCHANGED <<hubVars, playVars, editVars, result, seen, historyVars>>

-----------------------------------------------------------------------------
(* Settling rows nothing is known of                                       *)

Pending == {x \in Row : status[x] = "pending"}

LoadReleases(v) ==
    /\ pc[v] = "idle"
    /\ seen' = [seen EXCEPT ![v] = Pending]
    /\ Goto(v, IF Pending = {} THEN "done" ELSE "openl")
    /\ UNCHANGED <<hubVars, playVars, editVars, send, result, historyVars>>

\* A release of version name w is called "w (code)": for a row of version name
\* v that will do when it begins with "v (".
NamedLike(v, w) == v = w \/ <<v, w>> \in Extension

\* Faulty variant: the release may be on any track.
MatchesAnywhere(x) ==
    \E t \in live : \E y \in onTrack[t] : NamedLike(form[x].version, form[y].version)

\* A release on the row's track with a name like the row's.
Matches(x) ==
    /\ trackFor(form[x].chan) \in live
    /\ \E y \in onTrack[trackFor(form[x].chan)] : NamedLike(form[x].version, form[y].version)

\* What is not found stays as it is: "never guess error".
SettleList(v) ==
    /\ pc[v] = "list" /\ DropListing(v) /\ Goto(v, "mark")
    /\ seen' = [seen EXCEPT ![v] = {x \in @ : Matches(x)}]
    /\ UNCHANGED <<hubVars, playVars, staged, send, result, landed, faulted, unsure, late>>

\* One row after the other; a row that cannot be updated is passed over.
Mark(v) ==
    /\ pc[v] = "mark"
    /\ \E x \in seen[v] :
         /\ seen' = [seen EXCEPT ![v] = @ \ {x}]
         /\ \/ status' = [status EXCEPT ![x] = "ok"]
            \/ UNCHANGED status
    /\ UNCHANGED <<form, groups, playVars, editVars, pc, send, result, historyVars>>

Settled(v) ==
    /\ pc[v] = "mark" /\ seen[v] = {} /\ Goto(v, "done")
    /\ UNCHANGED <<hubVars, playVars, editVars, send, result, seen, historyVars>>

-----------------------------------------------------------------------------
(* The whole                                                               *)

\* The Settings page saves other tester groups, or none.
SetGroups ==
    /\ \E r \in Request : pc[r] \in {"idle", "read"}   \* bound: somebody will read them
    /\ groups' \in SUBSET Group
    /\ UNCHANGED <<status, form, playVars, editVars, localVars, historyVars>>

\* The process dies: what was going on is over, edits stay open on Play.
Crash ==
    /\ pc' = [a \in Actor |-> IF pc[a] = "idle" THEN "idle" ELSE "done"]
    /\ left' = left \cup open
    /\ staged' = [r \in Request |-> {}] /\ send' = [r \in Request |-> {}]
    /\ seen' = [v \in View |-> {}]
    /\ UNCHANGED <<hubVars, playVars, open, result, landed, faulted, unsure, late>>

Next ==
    \/ \E r \in Request :
        \/ Begin(r) \/ ReadTesters(r)
        \/ ListTracks(r) \/ CreateTrack(r) \/ CreateRefused(r) \/ Relist(r)
        \/ UploadBundle(r) \/ UpdateTrack(r) \/ UpdateTesters(r)
        \/ Commit(r) \/ CommitUnanswered(r) \/ DeleteEdit(r) \/ DeleteEditFails(r)
        \/ Report(r) \/ ReportFails(r)
    \/ \E a \in Actor :
        \/ InsertEdit(a) \/ InsertUnanswered(a) \/ ListFails(a) \/ CallFails(a)
    \/ \E v \in View :
        \/ LoadReleases(v) \/ SettleList(v) \/ Mark(v) \/ Settled(v)
    \/ SetGroups \/ Crash

Spec == Init /\ [][Next]_vars

-----------------------------------------------------------------------------
(* Properties                                                              *)

\* A row becomes 'ok' only by a release that was on the track of its channel
\* under a name beginning like the row's (settlePlayStatus takes "1.0 (rc1) (12)"
\* for a row of version name "1.0"), and an upload's row only if its own release
\* was on Play.
OkMeansLanded ==
    \A x \in Row : status[x] = "ok" =>
        /\ x \in Push => x \in landed
        /\ \E y \in landed : /\ NamedLike(form[x].version, form[y].version)
                             /\ trackFor(form[y].chan) = trackFor(form[x].chan)

\* When the hub says a push failed, the release is not on Play, unless the
\* answer to the commit was lost.
FailedMeansNotLanded ==
    \A x \in Push : status[x] = "failed" => x \notin landed \/ x \in unsure

\* Testers are never wiped: a tester list on Play changes only to groups that
\* were saved on the Settings page, and never to none.
TestersKept ==
    [][\A t \in Track : testers'[t] # testers[t] =>
           testers'[t] # {} /\ testers'[t] \subseteq Group]_vars

\* No edit outlives the function that opened it (ListTracks, ensureClosedTrack,
\* Publish, SetTesters), unless the answer to its Insert was lost, deleting it
\* failed, or the hub died.
EditsClosed ==
    \A e \in open \ left : pc[e[1]] \in Inside[e[2]]

\* A push or an invitation fails only if a call failed.  Losing the race for the
\* closed track at the create call is no failure; losing it between the create
\* call and its commit is (no listing follows there).  So are groups for a
\* standard track, when the channel spells it closed:<name>.
FailsOnlyByFault ==
    \A r \in Request : result[r] = "failed" =>
        r \in faulted \cup late \/ (trackIsClosed(form[r].chan) /\ Target(r) \in Standard)

\* Tester groups are only pushed on closed testing tracks (Publish): "pushing
\* groups there aborts the whole release edit".
GroupsOnlyOnClosedTracks ==
    \A r \in Request : pc[r] = "testers" => Target(r) \notin Standard
=============================================================================
