-------------------------- MODULE PlayPublishProofs --------------------------
(***************************************************************************)
(* Proofs about PlayPublish, for any sets of pushes, invitations, views,   *)
(* rows, channels, versions and groups, whichever names begin with which,  *)
(* and any number of failing calls and lost answers: what the hub says of  *)
(* a release is true on Play, testers stay, edits are closed, and what the *)
(* race for the closed track costs.                                        *)
(***************************************************************************)
EXTENDS PlayPublish, TLAPS

-----------------------------------------------------------------------------
(* The inductive invariant, in parts                                       *)

\* Steps at which a request has an edit, and those before Apply at which it
\* has one for a release or for testers.
InEdit    == {"create", "relist", "commitc", "closec",
              "upload", "track", "testers", "commit", "close"}
Answering == {"close", "report", "done"}

\* What a request has in its hands at each step.
WorkInv ==
    \A r \in Request :
        /\ pc[r] \notin {"idle", "done"} => form[r] \in Form
        /\ pc[r] \notin InEdit => staged[r] = {}
        /\ pc[r] \in {"create", "relist"} => staged[r] = {}
        /\ pc[r] = "closec" => staged[r] \subseteq {"create"}
        /\ pc[r] = "commitc" => staged[r] = {"create"}
        /\ pc[r] \in {"upload", "track"} => r \in Push /\ staged[r] = {}
        /\ pc[r] \in {"testers", "commit"} =>
            ("release" \in staged[r] <=> r \in Push) /\ "create" \notin staged[r]
        /\ pc[r] \in {"idle", "read"} => result[r] = "none"
        /\ result[r] = "ok" => pc[r] \in Answering

\* Every row and invitation that is under way has its form, and rows that
\* are not known of are old.
RowInv ==
    /\ \A x \in Old : form[x] \in Form
    /\ \A x \in Row : status[x] = "pending" => x \in Old
    /\ \A x \in Push : status[x] \in {"failed", "ok"} => pc[x] = "done"
    /\ \A v \in View : seen[v] \subseteq Old

\* What is on a track landed there, and what landed stays what it was.
LandedInv ==
    /\ \A x \in Push \cap landed : pc[x] \in Answering /\ form[x] \in Form
    /\ \A t \in Track : \A y \in onTrack[t] : y \in landed /\ trackFor(form[y].chan) = t

\* A row on its way to 'ok' is backed by a release that landed.
Backed(x) ==
    \E y \in landed : /\ NamedLike(form[x].version, form[y].version)
                      /\ trackFor(form[y].chan) = trackFor(form[x].chan)

OkInv ==
    /\ OkMeansLanded
    /\ \A r \in Push : result[r] = "ok" => r \in landed
    /\ \A v \in View : pc[v] = "mark" => \A x \in seen[v] : Backed(x)

\* A push that failed did not land, unless nobody can know.
FailedInv ==
    /\ FailedMeansNotLanded
    /\ \A r \in Push : result[r] = "failed" => r \notin landed \/ r \in unsure

\* Testers about to be sent are some.
TestersInv ==
    \A r \in Request :
        /\ (pc[r] = "testers" \/ "testers" \in staged[r]) => send[r] # {}
        /\ (r \in Invite /\ pc[r] \notin {"idle", "read", "report", "done"}) => send[r] # {}

\* Who has lost the race for a track will find it, or has been overtaken after
\* asking for it.
RaceInv ==
    /\ FailsOnlyByFault
    /\ \A r \in Request :
        /\ pc[r] \in {"openr", "relist"} => r \in faulted \/ Target(r) \in live
        /\ pc[r] = "commitc" /\ Target(r) \in live => r \in late
        /\ pc[r] = "testers" => trackIsClosed(form[r].chan)
        /\ (r \in Invite /\ pc[r] \notin {"idle", "done"}) => trackIsClosed(form[r].chan)

IInv == /\ TypeOK /\ WorkInv /\ RowInv /\ LandedInv /\ OkInv /\ FailedInv
        /\ TestersInv /\ RaceInv /\ EditsClosed

-----------------------------------------------------------------------------
(* Types and what requests have in their hands                             *)

\* The target of a channel is a track.
LEMMA TargetIsTrack ==
    ASSUME NEW f \in Form PROVE trackFor(f.chan) \in Track
  BY DEF Form, Track

\* The steps and the purposes, one by one.
LEMMA Steps ==
    /\ Step = {"idle", "read", "report", "mark", "done", "openl", "openr", "openc", "open",
               "list", "relist", "create", "commitc", "closec",
               "upload", "track", "testers", "commit", "close"}
    /\ DOMAIN Inside = {"list", "relist", "create", "main"}
<1>1. DOMAIN Inside = {"list", "relist", "create", "main"}
  BY DEF Inside
<1>2. UNION {Inside[k] : k \in DOMAIN Inside} =
        Inside.list \cup Inside.relist \cup Inside.create \cup Inside.main
  BY <1>1
<1>3. /\ Inside.list = {"list"} /\ Inside.relist = {"relist"}
      /\ Inside.create = {"create", "openr", "relist", "commitc", "closec"}
      /\ Inside.main = {"upload", "track", "testers", "commit", "close"}
  BY DEF Inside
<1> QED
  BY <1>1, <1>2, <1>3 DEF Step, Opening

\* An edit is somebody's.
LEMMA EditIsEdit ==
    ASSUME NEW a \in Actor PROVE EditOf(a) \in Edit
  BY Steps DEF EditOf, Purpose, Edit

\* A listing leaves edits that are edits.
LEMMA DropListingTyped ==
    ASSUME TypeOK, NEW a \in Actor, DropListing(a)
    PROVE  open' \subseteq Edit /\ left' \subseteq Edit
  BY EditIsEdit DEF DropListing, TypeOK

\* Every initial state satisfies the invariant.
LEMMA StartsPublishInvariant == Init => IInv
<1> SUFFICES ASSUME Init PROVE IInv
  OBVIOUS
<1> USE PublishAssumption, Steps DEF Init, Request, Row, Actor
<1>1. PICK f \in [Old -> [chan : Channel, version : Version]] :
        form = [x \in Row \cup Invite |-> IF x \in Old THEN f[x] ELSE NoForm]
  OBVIOUS
<1>2. \A x \in Old : form[x] = f[x] /\ form[x] \in Form
  BY <1>1 DEF Form
<1>3. TypeOK
  <2>1. form \in [Row \cup Invite -> Form \cup {NoForm}]
    BY <1>1, <1>2
  <2>2. live \subseteq Track
    BY DEF Track
  <2>3. testers \in [Track -> SUBSET (Group \cup {Console})]
    OBVIOUS
  <2>4. onTrack \in [Track -> SUBSET Row]
    OBVIOUS
  <2> QED
    BY <2>1, <2>2, <2>3, <2>4 DEF TypeOK, Status, Actor, Change, Step, Opening
<1>4. WorkInv /\ RowInv /\ LandedInv
  BY <1>2 DEF WorkInv, RowInv, LandedInv, InEdit, Answering
<1>5. OkInv /\ FailedInv
  BY DEF OkInv, FailedInv, OkMeansLanded, FailedMeansNotLanded
<1>6. TestersInv /\ RaceInv /\ EditsClosed
  BY DEF TestersInv, RaceInv, FailsOnlyByFault, EditsClosed
<1> QED
  BY <1>3, <1>4, <1>5, <1>6 DEF IInv

\* Only edits are opened, and left open.
LEMMA OpenTyped ==
    ASSUME TypeOK, Next
    PROVE  open' \subseteq Edit /\ left' \subseteq Edit
<1>1. ASSUME NEW r \in Request, ListTracks(r) \/ Relist(r)
      PROVE  open' \subseteq Edit /\ left' \subseteq Edit
  BY <1>1, DropListingTyped DEF ListTracks, Relist, Actor
<1>2. ASSUME NEW v \in View, SettleList(v) PROVE open' \subseteq Edit /\ left' \subseteq Edit
  BY <1>2, DropListingTyped DEF SettleList, Actor
<1>3. ASSUME NEW a \in Actor, InsertEdit(a) \/ InsertUnanswered(a)
      PROVE  open' \subseteq Edit /\ left' \subseteq Edit
  BY <1>3, EditIsEdit DEF InsertEdit, InsertUnanswered, TypeOK, historyVars
<1>4. ASSUME NEW a \in Actor, ListFails(a) PROVE open' \subseteq Edit /\ left' \subseteq Edit
  BY <1>4, DropListingTyped DEF ListFails
<1>5. ASSUME NEW r \in Request, Commit(r) \/ CommitUnanswered(r) \/ DeleteEdit(r)
                                \/ DeleteEditFails(r)
      PROVE  open' \subseteq Edit /\ left' \subseteq Edit
  BY <1>5 DEF Commit, CommitUnanswered, Apply, DeleteEdit, DeleteEditFails, TypeOK, historyVars
<1>6. CASE Crash
  BY <1>6 DEF Crash, TypeOK
<1>7. CASE UNCHANGED <<open, left>>
  BY <1>7 DEF TypeOK
<1>8. ASSUME NEW a \in Actor, CallFails(a) PROVE UNCHANGED <<open, left>>
  BY <1>8 DEF CallFails
<1> QED
  BY <1>1, <1>2, <1>3, <1>4, <1>5, <1>6, <1>7, <1>8
     DEF Next, Begin, ReadTesters, CreateTrack, CreateRefused, UploadBundle, UpdateTrack,
         UpdateTesters, Report, ReportFails, LoadReleases, Mark, Settled, SetGroups,
         editVars, historyVars

\* TypeOK and WorkInv preserve each other.
LEMMA StepWork ==
    ASSUME TypeOK, WorkInv, Next
    PROVE  TypeOK' /\ WorkInv'
<1>0. open' \subseteq Edit /\ left' \subseteq Edit
  BY OpenTyped
<1> USE PublishAssumption, Steps, <1>0
    DEF TypeOK, WorkInv, Goto, Stage, Fault, Request, Actor, Row, Status, Change, Opening, Closing,
        InEdit, Answering, hubVars, playVars, editVars, localVars, historyVars
<1>1. ASSUME NEW r \in Request, Begin(r) PROVE TypeOK' /\ WorkInv'
  BY <1>1 DEF Begin
<1>2. ASSUME NEW r \in Request, ReadTesters(r) PROVE TypeOK' /\ WorkInv'
  BY <1>2 DEF ReadTesters
<1>3. ASSUME NEW r \in Request, ListTracks(r) PROVE TypeOK' /\ WorkInv'
  BY <1>3 DEF ListTracks
<1>4. ASSUME NEW a \in Actor, InsertEdit(a) PROVE TypeOK' /\ WorkInv'
  BY <1>4 DEF InsertEdit, AfterInsert
<1>5. ASSUME NEW r \in Request, CreateTrack(r) PROVE TypeOK' /\ WorkInv'
  BY <1>5 DEF CreateTrack
<1>6. ASSUME NEW r \in Request, CreateRefused(r) PROVE TypeOK' /\ WorkInv'
  <2>0. faulted' \subseteq Request
    <3>1. CASE Refuses(r)
      BY <1>6, <3>1 DEF CreateRefused
    <3>2. CASE ~Refuses(r)
      BY <1>6, <3>2 DEF CreateRefused
    <3> QED
      BY <3>1, <3>2
  <2>1. TypeOK'
    BY <1>6, <2>0 DEF CreateRefused
  <2>2. WorkInv'
    BY <1>6 DEF CreateRefused
  <2> QED
    BY <2>1, <2>2
<1>7. ASSUME NEW r \in Request, Relist(r) PROVE TypeOK' /\ WorkInv'
  BY <1>7 DEF Relist
<1>8. ASSUME NEW r \in Request, UploadBundle(r) PROVE TypeOK' /\ WorkInv'
  BY <1>8 DEF UploadBundle
<1>9. ASSUME NEW r \in Request, UpdateTrack(r) PROVE TypeOK' /\ WorkInv'
  BY <1>9 DEF UpdateTrack
<1>10. ASSUME NEW r \in Request, UpdateTesters(r) PROVE TypeOK' /\ WorkInv'
  BY <1>10 DEF UpdateTesters
<1>11. ASSUME NEW r \in Request, Commit(r) PROVE TypeOK' /\ WorkInv'
  <2>1. form[r] \in Form /\ Target(r) \in Track
    BY <1>11, TargetIsTrack DEF Commit, Target
  <2>2. TypeOK'
    BY <1>11, <2>1 DEF Commit, Apply
  <2>3. WorkInv'
    BY <1>11, <2>2 DEF Commit, Apply
  <2> QED
    BY <2>2, <2>3
<1>12. ASSUME NEW r \in Request, CommitUnanswered(r) PROVE TypeOK' /\ WorkInv'
  <2>1. form[r] \in Form /\ Target(r) \in Track
    BY <1>12, TargetIsTrack DEF CommitUnanswered, Target
  <2>2. TypeOK'
    BY <1>12, <2>1 DEF CommitUnanswered, Apply
  <2>3. WorkInv'
    BY <1>12, <2>2 DEF CommitUnanswered, Apply
  <2> QED
    BY <2>2, <2>3
<1>13. ASSUME NEW a \in Actor, CallFails(a) PROVE TypeOK' /\ WorkInv'
  BY <1>13 DEF CallFails, GiveUp, AfterFailure
<1>14. ASSUME NEW r \in Request, DeleteEdit(r) PROVE TypeOK' /\ WorkInv'
  BY <1>14 DEF DeleteEdit, AfterClose
<1>15. ASSUME NEW r \in Request, DeleteEditFails(r) PROVE TypeOK' /\ WorkInv'
  BY <1>15 DEF DeleteEditFails, AfterClose
<1>16. ASSUME NEW r \in Request, Report(r) PROVE TypeOK' /\ WorkInv'
  BY <1>16 DEF Report
<1>17. ASSUME NEW r \in Request, ReportFails(r) PROVE TypeOK' /\ WorkInv'
  BY <1>17 DEF ReportFails
<1>18. ASSUME NEW v \in View, LoadReleases(v) PROVE TypeOK' /\ WorkInv'
  BY <1>18 DEF LoadReleases, Pending
<1>19. ASSUME NEW v \in View, SettleList(v) PROVE TypeOK' /\ WorkInv'
  BY <1>19 DEF SettleList
<1>20. ASSUME NEW a \in Actor, ListFails(a) PROVE TypeOK' /\ WorkInv'
  BY <1>20 DEF ListFails, GiveUp, AfterFailure
<1>25. ASSUME NEW a \in Actor, InsertUnanswered(a) PROVE TypeOK' /\ WorkInv'
  BY <1>25 DEF InsertUnanswered, GiveUp, AfterFailure
<1>21. ASSUME NEW v \in View, Mark(v) PROVE TypeOK' /\ WorkInv'
  BY <1>21 DEF Mark
<1>22. ASSUME NEW v \in View, Settled(v) PROVE TypeOK' /\ WorkInv'
  BY <1>22 DEF Settled
<1>23. CASE SetGroups
  BY <1>23 DEF SetGroups
<1>24. CASE Crash
  BY <1>24 DEF Crash
<1> QED
  BY <1>1, <1>2, <1>3, <1>4, <1>5, <1>6, <1>7, <1>8, <1>9, <1>10, <1>11, <1>12, <1>13, <1>14, <1>15, <1>16, <1>17, <1>18, <1>19, <1>20, <1>21, <1>22, <1>23, <1>24, <1>25 DEF Next

-----------------------------------------------------------------------------
(* Rows and releases                                                       *)

\* What is done is done.
LEMMA DoneStays ==
    ASSUME TypeOK, Next, NEW a \in Actor, pc[a] = "done"
    PROVE  pc'[a] = "done"
<1>1. ASSUME NEW b \in Actor, b # a, NEW step, Goto(b, step) PROVE pc'[a] = "done"
  BY <1>1 DEF Goto, TypeOK
<1>2. ASSUME NEW r \in Request,
             \/ Begin(r) \/ ReadTesters(r) \/ ListTracks(r) \/ CreateTrack(r)
             \/ CreateRefused(r) \/ Relist(r) \/ UploadBundle(r) \/ UpdateTrack(r)
             \/ UpdateTesters(r) \/ Commit(r) \/ CommitUnanswered(r)
             \/ DeleteEdit(r) \/ DeleteEditFails(r) \/ Report(r) \/ ReportFails(r)
      PROVE  r # a /\ \E step : Goto(r, step)
  BY <1>2 DEF Begin, ReadTesters, ListTracks, CreateTrack, CreateRefused, Relist,
              UploadBundle, UpdateTrack, UpdateTesters, Commit, CommitUnanswered,
              DeleteEdit, DeleteEditFails, Report, ReportFails, Closing
<1>3. ASSUME NEW b \in Actor,
             InsertEdit(b) \/ InsertUnanswered(b) \/ ListFails(b) \/ CallFails(b)
      PROVE  b # a /\ \E step : Goto(b, step)
  BY <1>3 DEF InsertEdit, InsertUnanswered, ListFails, CallFails, GiveUp, Opening
<1>4. ASSUME NEW v \in View, LoadReleases(v) \/ SettleList(v) \/ Settled(v)
      PROVE  v # a /\ \E step : Goto(v, step)
  BY <1>4 DEF LoadReleases, SettleList, Settled
<1>5. CASE SetGroups \/ Crash \/ \E v \in View : Mark(v)
  BY <1>5 DEF SetGroups, Crash, Mark, localVars
<1> QED
  BY <1>1, <1>2, <1>3, <1>4, <1>5 DEF Next, Actor

\* Rows nothing is known of stay the old ones, and a row that has its outcome
\* belongs to a push that is done.
LEMMA StepRows ==
    ASSUME TypeOK, WorkInv, RowInv, Next
    PROVE  RowInv'
<1> USE PublishAssumption DEF RowInv, Request, Row, Actor
<1>1. ASSUME NEW r \in Request, Begin(r) PROVE RowInv'
  BY <1>1 DEF Begin, Goto, TypeOK, localVars
<1>2. ASSUME NEW r \in Request, Report(r) PROVE RowInv'
  BY <1>2 DEF Report, Goto, TypeOK
<1>3. ASSUME NEW v \in View, LoadReleases(v) \/ SettleList(v) \/ Mark(v) PROVE RowInv'
  BY <1>3 DEF LoadReleases, SettleList, Mark, Pending, Goto, TypeOK, hubVars
<1>4. CASE UNCHANGED <<status, form>> /\ \A v \in View : seen'[v] \subseteq seen[v]
  BY <1>4, DoneStays
<1>5. ASSUME NEW a \in Actor, GiveUp(a)
      PROVE  UNCHANGED <<status, form>> /\ \A v \in View : seen'[v] \subseteq seen[v]
  BY <1>5 DEF GiveUp, TypeOK, hubVars
<1>6. \/ \E r \in Request : Begin(r) \/ Report(r)
      \/ \E v \in View : LoadReleases(v) \/ SettleList(v) \/ Mark(v)
      \/ \E a \in Actor : GiveUp(a)
      \/ UNCHANGED <<status, form, seen>> \/ Crash
  BY DEF Next, ReadTesters, ListTracks, InsertEdit, CreateTrack, CreateRefused,
         Relist, UploadBundle, UpdateTrack, UpdateTesters, Commit,
         CommitUnanswered, CallFails, ListFails, InsertUnanswered, DeleteEdit,
         DeleteEditFails, ReportFails, Settled, SetGroups, Crash, hubVars, localVars
<1>7. CASE Crash
  BY <1>7, DoneStays DEF Crash, TypeOK, hubVars
<1> QED
  BY <1>1, <1>2, <1>3, <1>4, <1>5, <1>6, <1>7

\* The form of a row that is under way, and of an old one, stays.
LEMMA FormStays ==
    ASSUME TypeOK, WorkInv, Next, NEW x \in Row \cup Invite, x \in Old \/ pc[x] # "idle"
    PROVE  form'[x] = form[x]
<1>1. ASSUME NEW r \in Request, Begin(r) PROVE form'[x] = form[x]
  BY <1>1, PublishAssumption DEF Begin, TypeOK, Request, Row
<1>2. (\E r \in Request : Begin(r)) \/ UNCHANGED form
  BY DEF Next, ReadTesters, ListTracks, InsertEdit, CreateTrack, CreateRefused,
       Relist, UploadBundle, UpdateTrack, UpdateTesters, Commit,
       CommitUnanswered, CallFails, ListFails, InsertUnanswered, GiveUp, DeleteEdit, DeleteEditFails, Report,
       ReportFails, LoadReleases, SettleList, Mark, Settled,
       SetGroups, Crash, Goto, Fault, Stage,
     hubVars
<1> QED
  BY <1>1, <1>2

\* What landed stays landed, and only a commit lands anything: it puts the
\* push on its track.
LEMMA Landing ==
    ASSUME TypeOK, WorkInv, Next
    PROVE  \/ \E r \in Push : /\ Commit(r) \/ CommitUnanswered(r)
                             /\ pc[r] = "commit" /\ pc'[r] = "close"
                             /\ landed' = landed \cup {r}
                             /\ onTrack' = [onTrack EXCEPT ![Target(r)] = {r}]
           \/ UNCHANGED <<landed, onTrack>>
<1>1. ASSUME NEW r \in Request, Commit(r) \/ CommitUnanswered(r), "release" \in staged[r]
      PROVE  /\ r \in Push /\ pc[r] = "commit" /\ pc'[r] = "close"
             /\ landed' = landed \cup {r}
             /\ onTrack' = [onTrack EXCEPT ![Target(r)] = {r}]
  <2>1. pc[r] = "commit" /\ pc'[r] = "close" /\ r \in Push
    BY <1>1 DEF Commit, CommitUnanswered, Goto, WorkInv, TypeOK, Actor
  <2> QED
    BY <1>1, <2>1 DEF Commit, CommitUnanswered, Apply
<1>2. ASSUME NEW r \in Request, Commit(r) \/ CommitUnanswered(r), "release" \notin staged[r]
      PROVE  UNCHANGED <<landed, onTrack>>
  BY <1>2 DEF Commit, CommitUnanswered, Apply
<1>3. (\E r \in Request : Commit(r) \/ CommitUnanswered(r)) \/ UNCHANGED <<landed, onTrack>>
  BY DEF Next, Begin, ReadTesters, ListTracks, InsertEdit, CreateTrack,
       CreateRefused, Relist, UploadBundle, UpdateTrack, UpdateTesters,
       CallFails, ListFails, InsertUnanswered, GiveUp, DeleteEdit, DeleteEditFails, Report, ReportFails,
       LoadReleases, SettleList, Mark, Settled, SetGroups,
       Crash, Goto, Fault, Stage,
     playVars, historyVars
<1> QED
  BY <1>1, <1>2, <1>3

\* A request that is answering goes on answering.
LEMMA AnsweringStays ==
    ASSUME TypeOK, Next, NEW r \in Request, pc[r] \in Answering
    PROVE  pc'[r] \in Answering
  BY PublishAssumption DEF Answering, TypeOK, Request, Actor, Opening, Closing, Next, Begin, ReadTesters, ListTracks, InsertEdit, CreateTrack,
       CreateRefused, Relist, UploadBundle, UpdateTrack, UpdateTesters,
       Commit, CommitUnanswered, CallFails, ListFails, InsertUnanswered, GiveUp, DeleteEdit, DeleteEditFails,
       Report, ReportFails, LoadReleases, SettleList, Mark,
     Settled, SetGroups, Crash, Goto, Fault, Stage,
     AfterFailure, AfterClose, localVars

\* The tracks hold what landed on them.
LEMMA StepLanded ==
    ASSUME TypeOK, WorkInv, RowInv, LandedInv, Next
    PROVE  LandedInv'
<1> USE PublishAssumption DEF LandedInv, Request, Row
<1>1. \A x \in landed : form'[x] = form[x]
  BY FormStays DEF Answering, TypeOK
<1>2. CASE UNCHANGED <<landed, onTrack>>
  BY <1>1, <1>2, AnsweringStays DEF TypeOK
<1>3. ASSUME NEW r \in Push, pc[r] = "commit", pc'[r] = "close", landed' = landed \cup {r},
             onTrack' = [onTrack EXCEPT ![Target(r)] = {r}]
      PROVE  LandedInv'
  <2>1. form[r] \in Form /\ form'[r] = form[r]
    BY <1>3, FormStays DEF WorkInv
  <2>2. \A x \in Push \cap landed' : pc'[x] \in Answering /\ form'[x] \in Form
    BY <1>1, <1>3, <2>1, AnsweringStays DEF Answering
  <2>3. \A t \in Track : \A y \in onTrack'[t] :
          (y = r /\ t = Target(r)) \/ y \in onTrack[t]
    BY <1>3 DEF TypeOK
  <2> QED
    BY <1>1, <1>3, <2>1, <2>2, <2>3 DEF Target
<1> QED
  BY <1>2, <1>3, Landing

-----------------------------------------------------------------------------
(* What the hub says and what is on Play                                   *)

\* A row that is backed stays backed.
LEMMA BackedStays ==
    ASSUME TypeOK, WorkInv, RowInv, LandedInv, Next,
           NEW x \in Row, x \in Old \/ pc[x] # "idle", Backed(x)
    PROVE  Backed(x)'
<1>1. PICK y \in landed : /\ NamedLike(form[x].version, form[y].version)
                          /\ trackFor(form[y].chan) = trackFor(form[x].chan)
  BY DEF Backed
<1>2. y \in Row /\ (y \in Old \/ pc[y] # "idle")
  BY DEF LandedInv, Answering, TypeOK, Row
<1>3. form'[x] = form[x] /\ form'[y] = form[y]
  BY <1>2, FormStays
<1>4. y \in landed'
  BY Landing
<1> QED
  BY <1>1, <1>3, <1>4 DEF Backed

\* Where a row's 'ok' comes from.
LEMMA StatusOk ==
    ASSUME TypeOK, Next, NEW x \in Row, status'[x] = "ok"
    PROVE  \/ status[x] = "ok"
           \/ x \in Push /\ result[x] = "ok"
           \/ \E v \in View : pc[v] = "mark" /\ x \in seen[v]
<1>1. ASSUME NEW r \in Request, Begin(r) PROVE status[x] = "ok"
  BY <1>1 DEF Begin, TypeOK
<1>2. ASSUME NEW r \in Request, Report(r)
      PROVE  status[x] = "ok" \/ (x \in Push /\ result[x] = "ok")
  BY <1>2 DEF Report, TypeOK
<1>3. ASSUME NEW v \in View, Mark(v)
      PROVE  status[x] = "ok" \/ (pc[v] = "mark" /\ x \in seen[v])
  BY <1>3 DEF Mark, TypeOK
<1>4. \/ \E r \in Request : Begin(r) \/ Report(r)
      \/ \E v \in View : Mark(v)
      \/ UNCHANGED status
  BY DEF Next, ReadTesters, ListTracks, InsertEdit, CreateTrack, CreateRefused,
       Relist, UploadBundle, UpdateTrack, UpdateTesters, Commit,
       CommitUnanswered, CallFails, ListFails, InsertUnanswered, GiveUp, DeleteEdit, DeleteEditFails, ReportFails,
       LoadReleases, SettleList, Settled, SetGroups, Crash,
       Goto, Fault, Stage,
     hubVars
<1> QED
  BY <1>1, <1>2, <1>3, <1>4

\* Where a request's outcome comes from: 'ok' from the commit, 'failed' before
\* the commit has applied anything, or from a commit nobody answered.
LEMMA Outcomes ==
    ASSUME TypeOK, WorkInv, Next, NEW r \in Request
    PROVE  \/ result'[r] = result[r]
           \/ result'[r] = "ok" /\ Commit(r) /\ pc[r] = "commit"
           \/ result'[r] = "failed" /\ pc[r] \notin Answering /\ (r \in landed' => r \in landed)
           \/ result'[r] = "failed" /\ CommitUnanswered(r) /\ pc[r] = "commit"
<1>1. ASSUME NEW q \in Actor, Relist(q) \/ CallFails(q) \/ ListFails(q) \/ InsertUnanswered(q)
      PROVE  \/ result'[r] = result[r]
             \/ result'[r] = "failed" /\ pc[r] \notin Answering /\ (r \in landed' => r \in landed)
  BY <1>1 DEF Relist, CallFails, ListFails, InsertUnanswered, GiveUp, TypeOK, Answering, Opening
<1>2. ASSUME NEW q \in Request, Commit(q)
      PROVE  result'[r] = result[r] \/ (result'[r] = "ok" /\ Commit(r) /\ pc[r] = "commit")
  BY <1>2 DEF Commit, TypeOK
<1>3. ASSUME NEW q \in Request, CommitUnanswered(q)
      PROVE  \/ result'[r] = result[r]
             \/ result'[r] = "failed" /\ CommitUnanswered(r) /\ pc[r] = "commit"
             \/ result'[r] = "failed" /\ pc[r] \notin Answering /\ (r \in landed' => r \in landed)
  <2>1. CASE q = r /\ pc[r] = "commitc"
    <3>1. "release" \notin staged[r]
      BY <2>1 DEF WorkInv
    <3> QED
      BY <1>3, <2>1, <3>1 DEF CommitUnanswered, Apply, Answering, TypeOK
  <2> QED
    BY <1>3, <2>1 DEF CommitUnanswered, TypeOK
<1>4. \/ \E q \in Actor : Relist(q) \/ CallFails(q) \/ ListFails(q) \/ InsertUnanswered(q)
      \/ \E q \in Request : Commit(q) \/ CommitUnanswered(q)
      \/ UNCHANGED result
  BY DEF Next, Begin, ReadTesters, ListTracks, InsertEdit, CreateTrack,
       CreateRefused, UploadBundle, UpdateTrack, UpdateTesters, DeleteEdit,
       DeleteEditFails, Report, ReportFails, LoadReleases, SettleList,
        Mark, Settled, SetGroups, Crash, Goto, Fault, Stage,
       localVars, Actor
<1> QED
  BY <1>1, <1>2, <1>3, <1>4

\* Commit and CommitUnanswered land a push's release, and no other's.
LEMMA CommitLands ==
    ASSUME TypeOK, WorkInv, NEW r \in Push, pc[r] = "commit", Commit(r) \/ CommitUnanswered(r)
    PROVE  landed' = landed \cup {r}
<1>1. "release" \in staged[r]
  BY DEF WorkInv, Request
<1> QED
  BY <1>1 DEF Commit, CommitUnanswered, Apply

\* Whatever is, or is about to be, called ok did land.
LEMMA StepOk ==
    ASSUME TypeOK, WorkInv, RowInv, LandedInv, OkInv, Next
    PROVE  OkInv'
<1> USE PublishAssumption DEF OkInv
<1>1. ASSUME NEW r \in Push, result'[r] = "ok" PROVE r \in landed'
  <2>1. CASE result[r] = "ok"
    BY <2>1, Landing
  <2>2. CASE Commit(r) /\ pc[r] = "commit"
    BY <2>2, CommitLands
  <2> QED
    BY <1>1, <2>1, <2>2, Outcomes DEF Request
<1>2. ASSUME NEW v \in View, pc'[v] = "mark", NEW x \in seen'[v] PROVE Backed(x)'
  <2>1. x \in Old
    BY StepRows DEF RowInv
  <2>2. CASE pc[v] = "mark" /\ x \in seen[v]
    BY <2>1, <2>2, BackedStays DEF Row
  <2>3. ASSUME SettleList(v) PROVE Backed(x)'
    <3>1. Matches(x) /\ UNCHANGED <<form, landed>>
      BY <2>3 DEF SettleList, TypeOK, hubVars, historyVars
    <3>2. form[x] \in Form
      BY <2>1 DEF RowInv
    <3>3. PICK y \in onTrack[trackFor(form[x].chan)] :
            NamedLike(form[x].version, form[y].version)
      BY <3>1 DEF Matches
    <3>4. y \in landed /\ trackFor(form[y].chan) = trackFor(form[x].chan)
      BY <3>2, <3>3, TargetIsTrack DEF LandedInv
    <3> QED
      BY <3>1, <3>3, <3>4 DEF Backed
  <2>4. ASSUME NEW u \in View, LoadReleases(u) \/ SettleList(u) \/ Mark(u) \/ Settled(u)
        PROVE  (pc[v] = "mark" /\ x \in seen[v]) \/ SettleList(v)
    BY <1>2, <2>4 DEF LoadReleases, SettleList, Mark, Settled, Goto, TypeOK, Actor
  <2>5. ASSUME NEW a \in Actor, GiveUp(a)
        PROVE  pc[v] = "mark" /\ x \in seen[v]
    <3>1. a # v
      BY <1>2, <2>5 DEF GiveUp, Goto, AfterFailure, TypeOK
    <3> QED
      BY <1>2, <2>5, <3>1 DEF GiveUp, Goto, TypeOK, Actor
  <2>6. ASSUME UNCHANGED seen, pc'[v] = pc[v] \/ pc'[v] # "mark"
        PROVE  pc[v] = "mark" /\ x \in seen[v]
    BY <1>2, <2>6
  <2>7. \/ \E u \in View : LoadReleases(u) \/ SettleList(u) \/ Mark(u) \/ Settled(u)
        \/ \E a \in Actor : GiveUp(a)
        \/ UNCHANGED seen /\ (pc'[v] = pc[v] \/ pc'[v] # "mark")
    <3>1. ASSUME NEW r \in Request, NEW step, Goto(r, step) PROVE pc'[v] = pc[v]
      BY <3>1 DEF Goto, TypeOK, Actor
    <3>2. CASE Crash
      BY <3>2, <1>2 DEF Crash, TypeOK, Actor
    <3>3. CASE SetGroups
      BY <3>3 DEF SetGroups, localVars
    <3>4. ASSUME NEW a \in Actor, InsertEdit(a)
          PROVE  UNCHANGED seen /\ (pc'[v] = pc[v] \/ pc'[v] # "mark")
      BY <3>4 DEF InsertEdit, AfterInsert, Goto, TypeOK
    <3> QED
      BY <3>1, <3>2, <3>3, <3>4 DEF Next, Begin, ReadTesters, ListTracks, CreateTrack,
       CreateRefused, Relist, UploadBundle, UpdateTrack, UpdateTesters,
       Commit, CommitUnanswered, CallFails, ListFails, InsertUnanswered, DeleteEdit,
       DeleteEditFails, Report, ReportFails
  <2> QED
    BY <2>2, <2>3, <2>4, <2>5, <2>6, <2>7
<1>3. ASSUME NEW x \in Row, status'[x] = "ok"
      PROVE  (x \in Push => x \in landed') /\ Backed(x)'
  <2>1. CASE status[x] = "ok"
    <3>1. Backed(x) /\ (x \in Push => x \in landed) /\ (x \in Old \/ pc[x] # "idle")
      BY <2>1 DEF OkMeansLanded, Backed, RowInv, Row
    <3> QED
      BY <3>1, BackedStays, Landing
  <2>2. CASE x \in Push /\ result[x] = "ok"
    <3>1. x \in landed /\ pc[x] # "idle"
      BY <2>2 DEF WorkInv, Request
    <3>2. Backed(x)
      BY <3>1 DEF Backed, NamedLike
    <3> QED
      BY <3>1, <3>2, BackedStays, Landing
  <2>3. ASSUME NEW v \in View, pc[v] = "mark", x \in seen[v]
        PROVE  (x \in Push => x \in landed') /\ Backed(x)'
    <3>1. x \in Old /\ Backed(x)
      BY <2>3 DEF RowInv
    <3> QED
      BY <3>1, BackedStays
  <2> QED
    BY <1>3, <2>1, <2>2, <2>3, StatusOk
<1>4. OkMeansLanded'
  BY <1>3 DEF OkMeansLanded, Backed
<1> QED
  BY <1>1, <1>2, <1>4

\* Whatever is, or is about to be, called failed did not land.
LEMMA StepFailed ==
    ASSUME TypeOK, WorkInv, RowInv, LandedInv, FailedInv, Next
    PROVE  FailedInv'
<1> USE DEF FailedInv
<1>1. unsure \subseteq unsure'
  BY DEF Next, Begin, ReadTesters, ListTracks, InsertEdit, CreateTrack,
       CreateRefused, Relist, UploadBundle, UpdateTrack, UpdateTesters,
       Commit, CommitUnanswered, CallFails, ListFails, InsertUnanswered, GiveUp, DeleteEdit, DeleteEditFails,
       Report, ReportFails, LoadReleases, SettleList, Mark,
     Settled, SetGroups, Crash, Goto, Fault, Stage,
     historyVars
<1>2. ASSUME NEW x \in Push, pc[x] # "commit", x \in landed' PROVE x \in landed
  BY <1>2, Landing
<1>3. ASSUME NEW x \in Push, status'[x] = "failed" PROVE x \notin landed' \/ x \in unsure'
  <2>1. status[x] = "failed" \/ (result[x] = "failed" /\ pc[x] = "report")
    BY <1>3, PublishAssumption DEF TypeOK, Row, Next, Begin, ReadTesters, ListTracks, InsertEdit, CreateTrack,
       CreateRefused, Relist, UploadBundle, UpdateTrack, UpdateTesters,
       Commit, CommitUnanswered, CallFails, ListFails, InsertUnanswered, GiveUp, DeleteEdit, DeleteEditFails,
       Report, ReportFails, LoadReleases, SettleList, Mark,
     Settled, SetGroups, Crash, Goto, Fault, Stage,
       hubVars
  <2>2. pc[x] # "commit" /\ (x \notin landed \/ x \in unsure)
    BY <2>1 DEF RowInv, FailedMeansNotLanded
  <2> QED
    BY <1>1, <1>2, <2>2
<1>4. ASSUME NEW r \in Push, result'[r] = "failed" PROVE r \notin landed' \/ r \in unsure'
  <2>1. r \in Request
    BY DEF Request
  <2>2. CASE result'[r] = result[r]
    <3>1. CASE pc[r] = "commit" /\ r \in landed'
      <4>1. r \notin landed
        BY <3>1 DEF LandedInv, Answering
      <4>2. Commit(r) \/ CommitUnanswered(r)
        BY <3>1, <4>1, Landing
      <4>3. CASE Commit(r)
        BY <4>3, <1>4, <2>1, <3>1 DEF Commit, TypeOK
      <4>4. CASE CommitUnanswered(r)
        BY <4>4, <3>1, <2>1 DEF CommitUnanswered, WorkInv
      <4> QED
        BY <4>2, <4>3, <4>4
    <3> QED
      BY <1>1, <1>2, <1>4, <2>2, <3>1
  <2>3. CASE pc[r] \notin Answering /\ (r \in landed' => r \in landed)
    BY <2>3 DEF LandedInv
  <2>4. CASE CommitUnanswered(r) /\ pc[r] = "commit"
    BY <2>1, <2>4 DEF CommitUnanswered, WorkInv
  <2> QED
    BY <1>4, <2>1, <2>2, <2>3, <2>4, Outcomes
<1> QED
  BY <1>3, <1>4 DEF FailedMeansNotLanded

-----------------------------------------------------------------------------
(* Testers, the race for a closed track, and edits                         *)

\* A request that sends testers has some to send.
LEMMA StepTesters ==
    ASSUME TypeOK, WorkInv, TestersInv, Next
    PROVE  TestersInv'
<1> USE PublishAssumption DEF TypeOK, WorkInv, TestersInv, Goto, Stage, Fault, InEdit, Request, Actor, editVars, localVars
<1>1. ASSUME NEW r \in Request, Begin(r) PROVE TestersInv'
  BY <1>1 DEF Begin
<1>2. ASSUME NEW r \in Request, ReadTesters(r) PROVE TestersInv'
  BY <1>2 DEF ReadTesters
<1>3. ASSUME NEW r \in Request, ListTracks(r) PROVE TestersInv'
  BY <1>3 DEF ListTracks
<1>4. ASSUME NEW a \in Actor, InsertEdit(a) PROVE TestersInv'
  BY <1>4 DEF InsertEdit, AfterInsert, Opening
<1>5. ASSUME NEW r \in Request, CreateTrack(r) PROVE TestersInv'
  BY <1>5 DEF CreateTrack
<1>6. ASSUME NEW r \in Request, CreateRefused(r) PROVE TestersInv'
  BY <1>6 DEF CreateRefused
<1>7. ASSUME NEW r \in Request, Relist(r) PROVE TestersInv'
  BY <1>7 DEF Relist
<1>8. ASSUME NEW r \in Request, UploadBundle(r) PROVE TestersInv'
  BY <1>8 DEF UploadBundle
<1>9. ASSUME NEW r \in Request, UpdateTrack(r) PROVE TestersInv'
  BY <1>9 DEF UpdateTrack
<1>10. ASSUME NEW r \in Request, UpdateTesters(r) PROVE TestersInv'
  BY <1>10 DEF UpdateTesters
<1>11. ASSUME NEW r \in Request, Commit(r) PROVE TestersInv'
  BY <1>11 DEF Commit, Apply
<1>12. ASSUME NEW r \in Request, CommitUnanswered(r) PROVE TestersInv'
  BY <1>12 DEF CommitUnanswered, Apply
<1>13. ASSUME NEW a \in Actor, CallFails(a) PROVE TestersInv'
  BY <1>13 DEF CallFails, GiveUp, AfterFailure
<1>14. ASSUME NEW r \in Request, DeleteEdit(r) PROVE TestersInv'
  BY <1>14 DEF DeleteEdit, AfterClose
<1>15. ASSUME NEW r \in Request, DeleteEditFails(r) PROVE TestersInv'
  BY <1>15 DEF DeleteEditFails, AfterClose
<1>16. ASSUME NEW r \in Request, Report(r) PROVE TestersInv'
  BY <1>16 DEF Report
<1>17. ASSUME NEW r \in Request, ReportFails(r) PROVE TestersInv'
  BY <1>17 DEF ReportFails
<1>18. ASSUME NEW v \in View, LoadReleases(v) PROVE TestersInv'
  BY <1>18 DEF LoadReleases
<1>19. ASSUME NEW v \in View, SettleList(v) PROVE TestersInv'
  BY <1>19 DEF SettleList
<1>20. ASSUME NEW a \in Actor, ListFails(a) PROVE TestersInv'
  BY <1>20 DEF ListFails, GiveUp, AfterFailure
<1>25. ASSUME NEW a \in Actor, InsertUnanswered(a) PROVE TestersInv'
  BY <1>25 DEF InsertUnanswered, GiveUp, AfterFailure
<1>21. ASSUME NEW v \in View, Mark(v) PROVE TestersInv'
  BY <1>21 DEF Mark
<1>22. ASSUME NEW v \in View, Settled(v) PROVE TestersInv'
  BY <1>22 DEF Settled
<1>23. CASE SetGroups
  BY <1>23 DEF SetGroups
<1>24. CASE Crash
  BY <1>24 DEF Crash
<1> QED
  BY <1>1, <1>2, <1>3, <1>4, <1>5, <1>6, <1>7, <1>8, <1>9, <1>10, <1>11,
     <1>12, <1>13, <1>14, <1>15, <1>16, <1>17, <1>18, <1>19, <1>20, <1>21,
     <1>22, <1>23, <1>24, <1>25
     DEF Next

\* Tracks are never taken away.
LEMMA LiveStays ==
    ASSUME Next PROVE live \subseteq live'
  BY DEF Next, Begin, ReadTesters, ListTracks, InsertEdit, CreateTrack,
       CreateRefused, Relist, UploadBundle, UpdateTrack, UpdateTesters,
       Commit, CommitUnanswered, Apply, CallFails, ListFails, InsertUnanswered, GiveUp, DeleteEdit, DeleteEditFails,
       Report, ReportFails, LoadReleases, SettleList, Mark,
     Settled, SetGroups, Crash, Goto, Fault, Stage,
       playVars

\* Whoever asks for a track that another commit creates meanwhile is late.
LEMMA Overtaken ==
    ASSUME TypeOK, WorkInv, Next, NEW q \in Request, pc[q] = "commitc", pc'[q] = "commitc",
           Target(q) \notin live, Target(q) \in live'
    PROVE  q \in late'
<1>1. ASSUME NEW r \in Request, Commit(r) \/ CommitUnanswered(r) PROVE q \in late'
  <2>1. r # q
    BY <1>1 DEF Commit, CommitUnanswered, Goto, TypeOK, Actor
  <2> QED
    BY <1>1, <2>1 DEF Commit, CommitUnanswered, Apply
<1>2. (\E r \in Request : Commit(r) \/ CommitUnanswered(r)) \/ UNCHANGED live
  BY DEF Next, Begin, ReadTesters, ListTracks, InsertEdit, CreateTrack,
       CreateRefused, Relist, UploadBundle, UpdateTrack, UpdateTesters,
       CallFails, ListFails, InsertUnanswered, GiveUp, DeleteEdit, DeleteEditFails,
       Report, ReportFails, LoadReleases, SettleList, Mark, Settled, SetGroups, Crash,
       playVars
<1> QED
  BY <1>1, <1>2

\* Who is faulted, or late, stays so.
LEMMA HistoryStays ==
    ASSUME Next PROVE faulted \subseteq faulted' /\ late \subseteq late'
  BY DEF Next, Begin, ReadTesters, ListTracks, InsertEdit, CreateTrack,
       CreateRefused, Relist, UploadBundle, UpdateTrack, UpdateTesters,
       Commit, CommitUnanswered, Apply, CallFails, ListFails, InsertUnanswered, GiveUp,
       DeleteEdit, DeleteEditFails, Report, ReportFails, LoadReleases, SettleList, Mark,
       Settled, SetGroups, Crash, Fault, historyVars

\* What RaceInv says of one request, with its form at hand.
RaceOf(r) ==
    /\ result[r] = "failed" =>
        r \in faulted \cup late \/ (trackIsClosed(form[r].chan) /\ Target(r) \in Standard)
    /\ pc[r] \in {"openr", "relist"} => r \in faulted \/ Target(r) \in live
    /\ pc[r] = "commitc" /\ Target(r) \in live => r \in late
    /\ pc[r] = "testers" => trackIsClosed(form[r].chan)
    /\ (r \in Invite /\ pc[r] \notin {"idle", "done"}) => trackIsClosed(form[r].chan)

\* A request keeps what RaceInv says of it unless it is the one that moves.
LEMMA RaceStays ==
    ASSUME TypeOK, WorkInv, Next, NEW r \in Request, RaceOf(r),
           pc'[r] = pc[r] \/ pc'[r] = "done", result'[r] = result[r]
    PROVE  RaceOf(r)'
<1>1. CASE pc[r] = "idle"
  BY <1>1 DEF WorkInv, RaceOf
<1>2. CASE pc[r] # "idle"
  <2>1. form'[r] = form[r]
    BY <1>2, FormStays DEF Request, Row
  <2>2. Target(r)' = Target(r)
    BY <2>1 DEF Target
  <2>3. pc'[r] = "commitc" /\ Target(r)' \in live' => r \in late'
    BY <2>2, Overtaken, HistoryStays DEF RaceOf
  <2> QED
    BY <1>2, <2>1, <2>2, <2>3, LiveStays, HistoryStays DEF RaceOf
<1> QED
  BY <1>1, <1>2

\* Nobody loses the race for a track, or sends testers to the wrong one.
LEMMA StepRace ==
    ASSUME TypeOK, WorkInv, RaceInv, Next
    PROVE  RaceInv'
<1> SUFFICES ASSUME NEW q \in Request PROVE RaceOf(q)'
  BY DEF RaceInv, FailsOnlyByFault, RaceOf
<1> USE DEF Actor
<1>1. RaceOf(q)
  BY DEF RaceInv, FailsOnlyByFault, RaceOf
<1>2. (q \in faulted => q \in faulted') /\ (q \in late => q \in late')
  BY HistoryStays
<1>3. ASSUME pc[q] # "idle"
      PROVE  /\ form'[q] = form[q] /\ Target(q)' = Target(q)
             /\ Target(q) \in live => Target(q)' \in live'
  <2>1. form'[q] = form[q]
    BY <1>3, FormStays DEF Request, Row
  <2> QED
    BY <2>1, LiveStays DEF Target
<1>4. CASE Begin(q)
  BY <1>1, <1>2, <1>4 DEF Begin, Goto, RaceOf, TypeOK, WorkInv, Request, Row, localVars
<1>5. CASE \/ ReadTesters(q) \/ ListTracks(q) \/ UploadBundle(q)
           \/ UpdateTesters(q) \/ DeleteEdit(q) \/ DeleteEditFails(q)
           \/ Report(q) \/ ReportFails(q)
  BY <1>1, <1>2, <1>3, <1>5
     DEF ReadTesters, ListTracks, UploadBundle, UpdateTesters, DeleteEdit, Closing,
         DeleteEditFails, AfterClose, Report, ReportFails, Goto, RaceOf, TypeOK
<1>6. CASE InsertEdit(q)
  BY <1>1, <1>2, <1>3, <1>6 DEF InsertEdit, AfterInsert, Opening, Goto, RaceOf, TypeOK, Request
<1>7. CASE UpdateTrack(q)
  BY <1>1, <1>2, <1>3, <1>7 DEF UpdateTrack, Goto, RaceOf, TypeOK
<1>8. CASE CreateRefused(q)
  BY <1>1, <1>2, <1>3, <1>8 DEF CreateRefused, Refuses, Goto, Fault, RaceOf, TypeOK
<1>9. CASE Relist(q)
  BY <1>1, <1>2, <1>3, <1>9 DEF Relist, Goto, RaceOf, TypeOK
<1>10. CASE Commit(q)
  BY <1>1, <1>2, <1>3, <1>10 DEF Commit, Goto, RaceOf, TypeOK
<1>11. CASE CommitUnanswered(q)
  BY <1>1, <1>2, <1>3, <1>11 DEF CommitUnanswered, Goto, Fault, RaceOf, TypeOK
<1>12. CASE CallFails(q) \/ ListFails(q) \/ InsertUnanswered(q)
  <2>1. pc[q] \notin {"idle", "done"} /\ pc'[q] \in {"closec", "close", "report"}
    BY <1>12, PublishAssumption
       DEF CallFails, ListFails, InsertUnanswered, GiveUp, AfterFailure, Goto, TypeOK, Opening
  <2>2. q \in faulted' \/ Refuses(q)
    BY <1>12 DEF CallFails, ListFails, InsertUnanswered, Fault
  <2>3. pc[q] # "create"
    BY <1>12 DEF CallFails, ListFails, InsertUnanswered, Opening
  <2> QED
    BY <1>1, <1>2, <1>3, <2>1, <2>2, <2>3 DEF RaceOf, Refuses
<1>13. CASE CreateTrack(q)
  <2>1. Target(q) \notin live /\ live' = live /\ pc[q] = "create" /\ pc'[q] = "commitc"
    BY <1>13 DEF CreateTrack, Refuses, Goto, TypeOK, playVars
  <2> QED
    BY <1>1, <1>2, <1>3, <1>13, <2>1 DEF CreateTrack, RaceOf, TypeOK
<1>14. ASSUME NEW r \in Actor \ {q}, NEW step, Goto(r, step),
              \/ UNCHANGED result \/ \E k : result' = [result EXCEPT ![r] = k]
              \/ result' = [p \in Request |-> IF p = r THEN "failed" ELSE result[p]]
       PROVE  RaceOf(q)'
  <2>1. pc'[q] = pc[q] /\ result'[q] = result[q]
    BY <1>14 DEF Goto, TypeOK
  <2> QED
    BY <1>1, <2>1, RaceStays
<1>15. CASE SetGroups \/ Crash \/ \E v \in View : Mark(v)
  <2>1. (pc'[q] = pc[q] \/ pc'[q] = "done") /\ result'[q] = result[q]
    BY <1>15 DEF SetGroups, Crash, Mark, TypeOK, localVars
  <2> QED
    BY <1>1, <2>1, RaceStays
<1>16. ASSUME NEW r \in Request \ {q},
              \/ Begin(r) \/ ReadTesters(r) \/ ListTracks(r) \/ CreateTrack(r)
              \/ CreateRefused(r) \/ Relist(r) \/ UploadBundle(r) \/ UpdateTrack(r)
              \/ UpdateTesters(r) \/ Commit(r) \/ CommitUnanswered(r)
              \/ DeleteEdit(r) \/ DeleteEditFails(r) \/ Report(r) \/ ReportFails(r)
       PROVE  RaceOf(q)'
  BY <1>14, <1>16
     DEF Begin, ReadTesters, ListTracks, CreateTrack, CreateRefused, Relist,
         UploadBundle, UpdateTrack, UpdateTesters, Commit, CommitUnanswered,
         DeleteEdit, DeleteEditFails, Report, ReportFails
<1>17. ASSUME NEW a \in Actor \ {q},
              InsertEdit(a) \/ InsertUnanswered(a) \/ ListFails(a) \/ CallFails(a)
       PROVE  RaceOf(q)'
  BY <1>14, <1>17 DEF InsertEdit, InsertUnanswered, ListFails, CallFails, GiveUp
<1>18. ASSUME NEW v \in View, LoadReleases(v) \/ SettleList(v) \/ Settled(v)
       PROVE  RaceOf(q)'
  BY <1>14, <1>18, PublishAssumption DEF LoadReleases, SettleList, Settled
<1> QED
  BY <1>4, <1>5, <1>6, <1>7, <1>8, <1>9, <1>10, <1>11, <1>12, <1>13, <1>15, <1>16, <1>17,
     <1>18 DEF Next

\* Where an edit may be in use.
LEMMA InsideIs ==
    /\ Inside["list"] = {"list"} /\ Inside["relist"] = {"relist"}
    /\ Inside["create"] = {"create", "openr", "relist", "commitc", "closec"}
    /\ Inside["main"] = {"upload", "track", "testers", "commit", "close"}
  BY DEF Inside

\* The edits in question are in use where they belong: nobody's step but the
\* owner's takes him elsewhere, and the owner's leaves the function only when
\* the edit is gone or left.
Used(e) == e \in open \ left => pc[e[1]] \in Inside[e[2]]

\* Edits nobody touches, of somebody who stays, are still in use.
LEMMA UsedStays ==
    ASSUME NEW e, Used(e), e \in open' \ left' => e \in open \ left, pc'[e[1]] = pc[e[1]]
    PROVE  Used(e)'
  BY DEF Used

\* Every function deletes the edit it has opened.
LEMMA StepEdits ==
    ASSUME TypeOK, EditsClosed, Next
    PROVE  EditsClosed'
<1>1. open' \subseteq Edit
  BY OpenTyped
<1> SUFFICES ASSUME NEW e \in Edit PROVE Used(e)'
  BY <1>1 DEF EditsClosed, Used
<1>2. PICK o \in Actor, k \in {"list", "relist", "create", "main"} : e = <<o, k>>
  BY Steps DEF Edit
<1>3. Used(e)
  BY DEF EditsClosed, Used
<1>4. e[1] = o /\ e[2] = k
  BY <1>2
<1> HIDE DEF Used
<1>5. ASSUME NEW a \in Actor, a # o, NEW step, Goto(a, step),
             open' \subseteq open \cup {EditOf(a)}, left \subseteq left'
      PROVE  Used(e)'
  <2>1. EditOf(a) # e
    BY <1>2, <1>5 DEF EditOf
  <2>2. pc'[o] = pc[o]
    BY <1>5 DEF Goto, TypeOK
  <2> QED
    BY <1>3, <1>4, <1>5, <2>1, <2>2, UsedStays
<1>6. ASSUME NEW a \in Actor, DropListing(a)
      PROVE  /\ open' \subseteq open \cup {EditOf(a)} /\ left \subseteq left'
             /\ EditOf(a) \notin open' \ left'
  BY <1>6 DEF DropListing
<1>7. ASSUME \/ Begin(o) \/ ReadTesters(o) \/ CreateTrack(o) \/ CreateRefused(o)
             \/ UploadBundle(o) \/ UpdateTrack(o) \/ UpdateTesters(o)
             \/ Report(o) \/ ReportFails(o) \/ CallFails(o)
             \/ LoadReleases(o) \/ Settled(o), o \in Request \/ o \in View
      PROVE  Used(e)'
  <2>1. e \in open' \ left' => e \in open \ left
    BY <1>7 DEF Begin, ReadTesters, CreateTrack, CreateRefused, UploadBundle, UpdateTrack,
                UpdateTesters, Report, ReportFails, CallFails, LoadReleases, Settled,
                editVars, historyVars
  <2>2. CASE Begin(o) \/ ReadTesters(o) \/ Report(o) \/ ReportFails(o) \/ LoadReleases(o)
             \/ Settled(o)
    <3>1. pc[o] \in {"idle", "read", "report", "mark"}
      BY <2>2 DEF Begin, ReadTesters, Report, ReportFails, LoadReleases, Settled
    <3> QED
      BY <1>2, <1>3, <1>4, <2>1, <3>1, InsideIs DEF Used
  <2>3. CASE CreateTrack(o) \/ CreateRefused(o)
    <3>1. pc[o] = "create" /\ pc'[o] \in {"commitc", "openr"}
      BY <2>3 DEF CreateTrack, CreateRefused, Goto, TypeOK
    <3> QED
      BY <1>2, <1>3, <1>4, <2>1, <3>1, InsideIs DEF Used
  <2>4. CASE UploadBundle(o) \/ UpdateTrack(o) \/ UpdateTesters(o)
    <3>1. /\ pc[o] \in {"upload", "track", "testers"}
          /\ pc'[o] \in {"track", "testers", "commit"}
      BY <2>4 DEF UploadBundle, UpdateTrack, UpdateTesters, Goto, TypeOK
    <3> QED
      BY <1>2, <1>3, <1>4, <2>1, <3>1, InsideIs DEF Used
  <2>5. CASE CallFails(o)
    <3>1. \/ pc[o] \in {"openl", "openc", "open"}
          \/ pc[o] \in {"openr", "commitc"} /\ pc'[o] = "closec"
          \/ pc[o] \in {"upload", "track", "testers", "commit"} /\ pc'[o] = "close"
      BY <2>5 DEF CallFails, GiveUp, AfterFailure, Opening, Goto, TypeOK
    <3> QED
      BY <1>2, <1>3, <1>4, <2>1, <3>1, InsideIs DEF Used
  <2> QED
    BY <1>7, <2>2, <2>3, <2>4, <2>5
<1>8. ASSUME NEW step, Goto(o, step), EditOf(o) \notin open' \ left',
             open' \subseteq open \cup {EditOf(o)}, left \subseteq left',
             \/ pc[o] \in {"list", "closec", "upload", "track", "testers", "commit", "close"}
             \/ pc[o] \in {"openl", "openc", "open"}
             \/ pc[o] \in {"openr", "relist", "commitc"} /\ step = "closec"
      PROVE  Used(e)'
  <2>1. e # EditOf(o) => (e \in open' \ left' => e \in open \ left)
    BY <1>8
  <2>2. pc'[o] = step
    BY <1>8 DEF Goto, TypeOK
  <2>3. CASE pc[o] \in {"openl", "openc", "open"}
    BY <1>2, <1>3, <1>4, <1>8, <2>1, <2>3, InsideIs DEF Used
  <2>4. CASE pc[o] \in {"openr", "relist", "commitc"} /\ step = "closec"
    BY <1>2, <1>3, <1>4, <1>8, <2>1, <2>2, <2>4, InsideIs DEF Used, EditOf, Purpose
  <2>5. CASE pc[o] \in {"list", "closec", "upload", "track", "testers", "commit", "close"}
    BY <1>2, <1>3, <1>4, <1>8, <2>1, <2>5, InsideIs DEF Used, EditOf, Purpose
  <2> QED
    BY <1>8, <2>3, <2>4, <2>5
<1>9. CASE InsertEdit(o)
  <2>1. e # EditOf(o) => (e \in open' \ left' => e \in open \ left)
    BY <1>9 DEF InsertEdit, historyVars
  <2>2. pc[o] \in Opening /\ pc'[o] = AfterInsert(o)
    BY <1>9 DEF InsertEdit, Goto, TypeOK
  <2>3. CASE e = EditOf(o)
    <3>1. k = Purpose(pc[o])
      BY <1>2, <2>3 DEF EditOf
    <3>2. pc'[o] \in Inside[k]
      BY <2>2, <3>1, InsideIs DEF Purpose, AfterInsert, Opening
    <3> QED
      BY <1>4, <3>2 DEF Used
  <2>4. CASE e # EditOf(o)
    <3>1. pc[o] \in {"openl", "openc", "open"} \/ (pc[o] = "openr" /\ pc'[o] = "relist")
      BY <2>2 DEF Opening, AfterInsert
    <3> QED
      BY <1>2, <1>3, <1>4, <2>1, <2>4, <3>1, InsideIs DEF Used
  <2> QED
    BY <2>3, <2>4
<1>10. CASE ListTracks(o) \/ SettleList(o) \/ Relist(o) \/ ListFails(o)
  <2>1. DropListing(o) /\ pc[o] \in {"list", "relist"}
    BY <1>10 DEF ListTracks, SettleList, Relist, ListFails
  <2>2. \E step : Goto(o, step) /\ (pc[o] = "relist" => step = "closec")
    BY <1>10 DEF ListTracks, SettleList, Relist, ListFails, GiveUp, AfterFailure
  <2> QED
    BY <1>6, <1>8, <2>1, <2>2
<1>11. CASE Commit(o) \/ CommitUnanswered(o)
  <2>1. /\ open' = open \ {EditOf(o)} /\ left' = left
        /\ \E step : /\ Goto(o, step)
                     /\ (pc[o] = "commitc" /\ step = "closec") \/ pc[o] = "commit"
    <3>1. CASE Commit(o)
      BY <3>1 DEF Commit, Apply
    <3>2. CASE CommitUnanswered(o)
      BY <3>2 DEF CommitUnanswered, Apply
    <3> QED
      BY <1>11, <3>1, <3>2
  <2>2. EditOf(o) \notin open' \ left'
    BY <2>1
  <2>3. PICK step : /\ Goto(o, step)
                    /\ (pc[o] = "commitc" /\ step = "closec") \/ pc[o] = "commit"
    BY <2>1
  <2>4. open' \subseteq open \cup {EditOf(o)} /\ left \subseteq left'
    BY <2>1
  <2>5. CASE pc[o] = "commitc" /\ step = "closec"
    BY <1>8, <2>2, <2>3, <2>4, <2>5
  <2>6. CASE pc[o] = "commit"
    <3>1. pc[o] \in {"list", "closec", "upload", "track", "testers", "commit", "close"}
      BY <2>6
    <3>2. Goto(o, step)
      BY <2>3
    <3> QED
      BY <1>8, <2>2, <2>4, <3>1, <3>2
  <2> QED
    BY <2>3, <2>5, <2>6
<1>12. CASE DeleteEdit(o) \/ DeleteEditFails(o)
  <2>1. /\ EditOf(o) \notin open' \ left' /\ open' \subseteq open /\ left \subseteq left'
        /\ pc[o] \in {"closec", "close"} /\ \E step : Goto(o, step)
    BY <1>12 DEF DeleteEdit, DeleteEditFails, Closing, historyVars
  <2> QED
    BY <1>8, <2>1
<1>13. CASE InsertUnanswered(o)
  <2>1. /\ EditOf(o) \notin open' \ left' /\ open' \subseteq open \cup {EditOf(o)}
        /\ left \subseteq left' /\ pc[o] \in {"openl", "openr", "openc", "open"}
        /\ \E step : Goto(o, step) /\ (pc[o] = "openr" => step = "closec")
    BY <1>13 DEF InsertUnanswered, Opening, GiveUp, AfterFailure
  <2> QED
    BY <1>8, <2>1
<1>14. CASE Crash
  BY <1>14 DEF Crash, Used
<1>15. CASE SetGroups \/ \E v \in View : Mark(v)
  <2>1. UNCHANGED <<open, left, pc>>
    BY <1>15 DEF SetGroups, Mark, editVars, historyVars, localVars
  <2> QED
    BY <1>3, <2>1 DEF Used
<1>16. ASSUME NEW r \in Request,
              \/ Begin(r) \/ ReadTesters(r) \/ CreateTrack(r) \/ CreateRefused(r)
              \/ UploadBundle(r) \/ UpdateTrack(r) \/ UpdateTesters(r)
              \/ Report(r) \/ ReportFails(r)
       PROVE  Used(e)'
  <2>1. /\ \E step : Goto(r, step)
        /\ UNCHANGED <<open, left>>
    BY <1>16 DEF Begin, ReadTesters, CreateTrack, CreateRefused, UploadBundle, UpdateTrack,
                UpdateTesters, Report, ReportFails, editVars, historyVars
  <2> QED
    BY <1>5, <1>7, <1>16, <2>1 DEF Actor
<1>17. ASSUME NEW r \in Request,
              \/ ListTracks(r) \/ Relist(r) \/ Commit(r) \/ CommitUnanswered(r)
              \/ DeleteEdit(r) \/ DeleteEditFails(r)
       PROVE  Used(e)'
  <2>1. CASE ListTracks(r) \/ Relist(r)
    BY <1>5, <1>6, <1>10, <2>1 DEF ListTracks, Relist, Actor
  <2>2. CASE Commit(r) \/ CommitUnanswered(r) \/ DeleteEdit(r) \/ DeleteEditFails(r)
    <3>1. open' \subseteq open /\ left \subseteq left' /\ \E step : Goto(r, step)
      BY <2>2 DEF Commit, CommitUnanswered, Apply, DeleteEdit, DeleteEditFails, historyVars
    <3> QED
      BY <1>5, <1>11, <1>12, <2>2, <3>1 DEF Actor
  <2> QED
    BY <1>17, <2>1, <2>2
<1>18. ASSUME NEW a \in Actor,
              InsertEdit(a) \/ InsertUnanswered(a) \/ ListFails(a) \/ CallFails(a)
       PROVE  Used(e)'
  <2>1. \E step : Goto(a, step)
    BY <1>18 DEF InsertEdit, InsertUnanswered, ListFails, CallFails, GiveUp
  <2>2. open' \subseteq open \cup {EditOf(a)} /\ left \subseteq left'
    BY <1>6, <1>18 DEF InsertEdit, InsertUnanswered, ListFails, CallFails, historyVars
  <2> QED
    BY <1>5, <1>7, <1>9, <1>10, <1>13, <1>18, <2>1, <2>2 DEF Actor
<1>19. ASSUME NEW v \in View, LoadReleases(v) \/ SettleList(v) \/ Settled(v)
       PROVE  Used(e)'
  <2>1. \E step : Goto(v, step)
    BY <1>19 DEF LoadReleases, SettleList, Settled
  <2>2. open' \subseteq open \cup {EditOf(v)} /\ left \subseteq left'
    BY <1>6, <1>19 DEF LoadReleases, SettleList, Settled, editVars, historyVars, Actor
  <2> QED
    BY <1>5, <1>7, <1>10, <1>19, <2>1, <2>2 DEF Actor
<1> QED
  BY <1>14, <1>15, <1>16, <1>17, <1>18, <1>19 DEF Next

-----------------------------------------------------------------------------
(* The theorems                                                            *)

\* Every step, and every stuttering step, preserves the invariant.
LEMMA StepPublishInvariant == IInv /\ [Next]_vars => IInv'
<1> SUFFICES ASSUME IInv, [Next]_vars PROVE IInv'
  OBVIOUS
<1>1. CASE Next
  BY <1>1, StepWork, StepRows, StepLanded, StepOk, StepFailed, StepTesters, StepRace,
     StepEdits DEF IInv
<1>2. CASE UNCHANGED vars
  BY <1>2 DEF IInv, vars, hubVars, playVars, editVars, localVars, historyVars, TypeOK,
     WorkInv, RowInv, LandedInv, OkInv, FailedInv, TestersInv, RaceInv, EditsClosed,
     OkMeansLanded, FailedMeansNotLanded, FailsOnlyByFault, Backed, Target
<1> QED
  BY <1>1, <1>2

\* The invariant holds in every reachable state.
LEMMA PublishInvariance == Spec => []IInv
  BY StartsPublishInvariant, StepPublishInvariant, PTL DEF Spec

\* TypeOK, for every instance of the module.
THEOREM PublishTypeCorrect == Spec => []TypeOK
<1>1. IInv => TypeOK
  BY DEF IInv
<1> QED
  BY <1>1, PublishInvariance, PTL

\* The hub never calls a release published unless one of a name beginning like
\* its own was on its channel's track (settlePlayStatus), and never an upload
\* whose own release was not there (Publish).
THEOREM OkIsTrue == Spec => []OkMeansLanded
<1>1. IInv => OkMeansLanded
  BY DEF IInv, OkInv
<1> QED
  BY <1>1, PublishInvariance, PTL

\* The hub never calls a push failed whose release is on Play, unless nobody
\* answered the commit: Publish fails before the commit or not at all.
THEOREM FailureIsTrue == Spec => []FailedMeansNotLanded
<1>1. IInv => FailedMeansNotLanded
  BY DEF IInv, FailedInv
<1> QED
  BY <1>1, PublishInvariance, PTL

\* ListTracks, ensureClosedTrack, Publish and SetTesters leave no edit open
\* behind them whose id they were given and whose Delete went through, on any
\* of their paths, with any number of requests and views at once.
THEOREM NoEditLeft == Spec => []EditsClosed
<1>1. IInv => EditsClosed
  BY DEF IInv
<1> QED
  BY <1>1, PublishInvariance, PTL

\* However many requests race to create a closed track in ensureClosedTrack,
\* none of them fails for having lost at its create call: without a failing
\* call only those fail that were overtaken between that call and its commit.
THEOREM RaceCostsNothing == Spec => []FailsOnlyByFault
<1>1. IInv => FailsOnlyByFault
  BY DEF IInv, RaceInv
<1> QED
  BY <1>1, PublishInvariance, PTL

\* A commit changes a tester list only to groups some request read, and to some.
LEMMA StepKeepsTesters ==
    ASSUME IInv, [Next]_vars, NEW t \in Track, testers'[t] # testers[t]
    PROVE  testers'[t] # {} /\ testers'[t] \subseteq Group
<1>1. ASSUME NEW r \in Request, Commit(r) \/ CommitUnanswered(r)
      PROVE  testers'[t] # {} /\ testers'[t] \subseteq Group
  <2>1. "testers" \in staged[r] /\ testers'[t] = send[r]
    BY <1>1 DEF IInv, TypeOK, Commit, CommitUnanswered, Apply
  <2> QED
    BY <2>1 DEF IInv, TypeOK, TestersInv
<1>2. ~(\E r \in Request : Commit(r) \/ CommitUnanswered(r)) => UNCHANGED testers
  BY DEF vars, Next, Begin, ReadTesters, ListTracks, InsertEdit, CreateTrack,
       CreateRefused, Relist, UploadBundle, UpdateTrack, UpdateTesters,
       CallFails, ListFails, InsertUnanswered, GiveUp, DeleteEdit, DeleteEditFails, Report, ReportFails,
       LoadReleases, SettleList, Mark, Settled, SetGroups,
       Crash, playVars
<1> QED
  BY <1>1, <1>2

\* No push and no invitation ever empties a tester list on Play, and what it
\* puts there are groups the Settings page saved.
THEOREM TestersAreKept == Spec => TestersKept
<1>1. IInv /\ [Next]_vars =>
        [\A t \in Track : testers'[t] # testers[t] =>
             testers'[t] # {} /\ testers'[t] \subseteq Group]_vars
  BY StepKeepsTesters
<1> QED
  BY <1>1, PublishInvariance, PTL DEF Spec, TestersKept
=============================================================================
