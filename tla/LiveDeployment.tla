--------------------------- MODULE LiveDeployment ---------------------------
(* The Deploy tab: the selection of servers, the start of a deployment        *)
(* (useWorkspaceDeploymentRuntime.ts), the live view that follows a job       *)
(* (live/View.tsx) and what both remember of it.  The tab's content exists    *)
(* only while the tab is open; requests and the workspace outlive it.  A step *)
(* is an event with the effects of the renderings it causes.                  *)
EXTENDS Naturals, Sequences

CONSTANTS
  Devices,              \* aliases of servers
  Places,               \* workspaces
  NoDevices, NoStatus,  \* null
  MaxJobs, MaxActs      \* bounds: jobs, and what the user does

ASSUME LiveAssumption ==
  /\ (\A S \in SUBSET Devices : NoDevices # S) /\ {MaxJobs, MaxActs} \subseteq Nat
  /\ Places # {} /\ NoStatus \notin {"running", "succeeded", "failed", "canceled"}

VARIABLES
  jobs,                \* API: the deployments, the oldest first
  place, complete,     \* workspaceId; servers with roles, login and credentials
  selection, deployed, \* deploySelection, deployedAliases
  reference,           \* lastDeploymentSelectionRef
  post,                \* startDeployment, while it awaits the reply to its POST
  jobId, linked,       \* liveJobId, liveConnected
  bumped,              \* the request keys ("connect", "cancel") that are not 0
  shown, view, stream, \* is the tab open; LiveDeploymentView; its EventSource
  cancels,             \* POST .../cancel under way
  acts,                \* bound
  mine, asked, mixed, moved   \* history: see the properties

targets == <<place, complete, selection, deployed>>
controls == <<jobId, linked, bumped>>
live == <<shown, view, stream>>
remembered == <<mine, asked, mixed, moved>>
liveVars == <<jobs, targets, reference, post, controls, live, cancels, acts, remembered>>

NoJob == 0
JobIds == 1..MaxJobs
Terminal == {"succeeded", "failed", "canceled"}
NoPost == [pc |-> "idle", place |-> place, devices |-> {}]
NoStream == [job |-> NoJob, said |-> NoStatus]
View(id, status, connected) == [jobId |-> id, status |-> status, connected |-> connected]

LiveTypeOK ==
  /\ jobs \in Seq([place : Places, devices : SUBSET Devices, status : {"running"} \cup Terminal])
  /\ Len(jobs) <= MaxJobs /\ place \in Places
  /\ complete \subseteq Devices /\ selection \subseteq complete \ deployed /\ deployed \subseteq Devices
  /\ reference \in {NoDevices} \cup SUBSET Devices
  /\ post.pc \in {"idle", "first", "second"} /\ post.place \in Places /\ post.devices \subseteq Devices
  /\ {jobId, view.jobId, stream.job, mine} \subseteq JobIds \cup {NoJob}
  /\ {linked, shown, view.connected, mixed, moved} \subseteq BOOLEAN
  /\ bumped \subseteq {"connect", "cancel"} /\ {cancels, asked} \subseteq SUBSET JobIds
  /\ {view.status, stream.said} \subseteq {NoStatus, "running"} \cup Terminal

LiveInit ==
  /\ jobs = <<>> /\ place = (CHOOSE p \in Places : TRUE) /\ complete = Devices /\ selection = Devices /\ deployed = {}
  /\ reference = NoDevices /\ post = NoPost /\ jobId = NoJob /\ linked = FALSE /\ bumped = {}
  /\ shown = TRUE /\ view = View(NoJob, NoStatus, FALSE) /\ stream = NoStream
  /\ cancels = {} /\ acts = 0 /\ mine = NoJob /\ asked = {} /\ mixed = FALSE /\ moved = FALSE

May == acts < MaxActs /\ acts' = acts + 1

------------------------------------------------------------------------------
(* The selection.                                                             *)
selectable == complete \ deployed

\* Whenever the selectable servers are computed anew: an empty selection becomes
\* all of them, also one that was emptied on purpose.
Kept(sel, open) == IF sel \cap open = {} THEN open ELSE sel \cap open

Select(sel) ==
  /\ May /\ shown /\ selectable # {} /\ selection' = sel
  /\ UNCHANGED <<jobs, place, complete, deployed, reference, post, controls, live, cancels, remembered>>
ToggleDeployAlias(d) ==
  d \in selectable /\ Select(IF d \in selection THEN selection \ {d} ELSE selection \cup {d})
SelectAll == Select(selectable)
DeselectAll == Select({})

\* Servers, their roles or their credentials are edited.
EditServers(c) ==
  /\ May /\ complete' = c /\ selection' = Kept(selection, c \ deployed)
  /\ UNCHANGED <<jobs, place, deployed, reference, post, controls, live, cancels, remembered>>

------------------------------------------------------------------------------
(* The live view.                                                             *)
\* connectTo: another stream replaces the one before.  A change of connected is
\* reported to the page.
Attach(id) ==
  /\ view' = View(id, NoStatus, TRUE) /\ stream' = [job |-> id, said |-> NoStatus]
  /\ linked' = (linked \/ ~view.connected)

\* The page sets liveJobId; the open view takes it over when it changes.
Follow(id) == IF shown /\ id # jobId THEN [view EXCEPT !.jobId = id] ELSE view

\* cancel of the view: nothing for a job whose status is known to be terminal.
Cancelable == IF view.jobId # NoJob /\ view.status \notin Terminal THEN {view.jobId} ELSE {}

DetachQuietly == stream' = NoStream /\ view' = [view EXCEPT !.connected = FALSE] /\ UNCHANGED linked  \* (Defect.)
Detach == stream' = NoStream /\ view' = [view EXCEPT !.connected = FALSE] /\ linked' = FALSE

\* handleDeploymentStatus.  The liveJobId it compares with is the one of the
\* rendering that attached the stream: always its own job, or none.
TakeSelection(status) ==  \* (Defect: what is selected by now is taken for what was deployed.)
  /\ deployed' = (IF status = "succeeded" /\ reference # NoDevices THEN deployed \cup selection ELSE deployed)
  /\ selection' = (IF deployed' = deployed THEN selection ELSE Kept(selection, complete \ deployed'))
  /\ reference' = (IF status \in Terminal THEN NoDevices ELSE reference)
TakeReference(status) ==
  /\ deployed' = (IF status = "succeeded" /\ reference # NoDevices THEN deployed \cup reference ELSE deployed)
  /\ selection' = (IF deployed' = deployed THEN selection ELSE Kept(selection, complete \ deployed'))
  /\ reference' = (IF status \in Terminal THEN NoDevices ELSE reference)

StreamStatus ==
  LET status == jobs[stream.job].status IN
  /\ stream # NoStream /\ status # stream.said
  /\ stream' = [stream EXCEPT !.said = status] /\ view' = [view EXCEPT !.status = status]
  /\ TakeReference(status)
  /\ UNCHANGED <<jobs, place, complete, post, controls, shown, cancels, acts, remembered>>

StreamDone ==
  /\ stream # NoStream /\ stream.said \in Terminal
  /\ TakeReference(stream.said) /\ Detach
  /\ UNCHANGED <<jobs, place, complete, post, jobId, bumped, shown, cancels, acts, remembered>>

StreamLost ==
  /\ stream # NoStream /\ Detach
  /\ UNCHANGED <<jobs, targets, reference, post, jobId, bumped, shown, cancels, acts, remembered>>

\* Another tab of the page: the content of this one is unmounted, and its stream
\* closed.
CloseTab ==
  /\ May /\ shown /\ shown' = FALSE /\ stream' = NoStream /\ view' = View(NoJob, NoStatus, FALSE)
  /\ UNCHANGED <<jobs, targets, reference, post, controls, cancels, remembered>>

\* A view that is mounted takes the request keys as seen.
Mount == shown' = TRUE /\ linked' = FALSE /\ view' = View(jobId, NoStatus, FALSE) /\ UNCHANGED cancels
OpenTab ==
  /\ May /\ ~shown /\ Mount
  /\ UNCHANGED <<jobs, targets, reference, post, jobId, bumped, stream, remembered>>

------------------------------------------------------------------------------
(* The buttons.                                                               *)
\* Without --limit a deployment runs on every server of the inventory.
Targeted == IF selectable \subseteq selection THEN complete ELSE selection

StartDeployment ==
  /\ May /\ shown /\ post.pc = "idle" /\ selection # {}
  /\ reference' = selection /\ jobId' = NoJob /\ view' = Follow(NoJob)
  /\ post' = [pc |-> "first", place |-> place, devices |-> Targeted]
  /\ mixed' = (mixed \/ stream # NoStream) /\ mine' = NoJob
  /\ UNCHANGED <<jobs, targets, linked, bumped, shown, stream, cancels, asked, moved>>

Deployed == Append(jobs, [place |-> post.place, devices |-> post.devices, status |-> "running"])

\* A tab that was closed meanwhile does not see the connect key change.
DeploymentCreated ==
  LET id == Len(jobs) + 1 IN
  /\ post.pc # "idle" /\ Len(jobs) < MaxJobs /\ jobs' = Deployed
  /\ post' = NoPost
  /\ jobId' = id /\ bumped' = bumped \cup {"connect"} /\ mine' = id
  /\ IF shown THEN Attach(id) ELSE UNCHANGED <<view, stream, linked>>
  /\ UNCHANGED <<targets, reference, shown, cancels, acts, asked, mixed, moved>>

\* The API asks for the master password; the user enters it, once.
NeedsPassword ==
  /\ post.pc = "first" /\ post' = [post EXCEPT !.pc = "second"]
  /\ UNCHANGED <<jobs, targets, reference, controls, live, cancels, acts, remembered>>

\* Refused, no password entered, or the reply is lost and the job created or not.
DeploymentRefused ==
  /\ post.pc # "idle" /\ post' = NoPost
  /\ jobs' = jobs \/ (Len(jobs) < MaxJobs /\ jobs' = Deployed)
  /\ UNCHANGED <<targets, reference, controls, live, cancels, acts, remembered>>

\* A job id is typed.
TypeJobId(id) ==
  /\ May /\ shown /\ id \in 0..Len(jobs) /\ id # jobId /\ jobId' = id /\ view' = Follow(id)
  /\ UNCHANGED <<jobs, targets, reference, post, linked, bumped, shown, stream, cancels, remembered>>

RequestConnect ==
  /\ May /\ shown /\ jobId # NoJob /\ ~linked /\ bumped' = bumped \cup {"connect"} /\ Attach(jobId)
  /\ mixed' = (mixed \/ (reference # NoDevices /\ jobId # mine))
  /\ UNCHANGED <<jobs, targets, reference, post, jobId, shown, cancels, mine, asked, moved>>

RequestCancel ==
  /\ May /\ shown /\ jobId # NoJob /\ linked /\ bumped' = bumped \cup {"cancel"}
  /\ cancels' = cancels \cup Cancelable /\ asked' = asked \cup Cancelable
  /\ UNCHANGED <<jobs, targets, reference, post, jobId, linked, live, mine, mixed, moved>>

\* Another workspace: the effect that resets the page sets both request keys to 0,
\* and the open view takes a key that was not 0 for a request, for the job id of
\* the rendering before.
SwitchWorkspace(p) ==
  /\ May /\ p # place /\ place' = p /\ complete' = Devices /\ selection' = Devices /\ deployed' = {}
  /\ jobId' = NoJob /\ bumped' = {}
  /\ IF shown /\ "connect" \in bumped /\ view.jobId # NoJob
     THEN /\ view' = View(view.jobId, NoStatus, TRUE)
          /\ stream' = [job |-> view.jobId, said |-> NoStatus] /\ linked' = ~view.connected
     ELSE view' = Follow(NoJob) /\ linked' = FALSE /\ UNCHANGED stream
  /\ cancels' = (IF shown /\ "cancel" \in bumped THEN cancels \cup Cancelable ELSE cancels)
  /\ mixed' = (mixed \/ reference # NoDevices \/ post.pc # "idle") /\ moved' = (moved \/ shown)
  /\ UNCHANGED <<jobs, reference, post, shown, mine, asked>>

------------------------------------------------------------------------------
(* The API, of which modules ManagedJobs and RunnerManager tell more.         *)
JobEnds(id) ==
  /\ id \in DOMAIN jobs /\ jobs[id].status = "running"
  /\ \E status \in {"succeeded", "failed"} : jobs' = [jobs EXCEPT ![id].status = status]
  /\ UNCHANGED <<targets, reference, post, controls, live, cancels, acts, remembered>>

CancelArrives(id) ==
  /\ id \in cancels /\ cancels' = cancels \ {id}
  /\ jobs' \in {jobs, [jobs EXCEPT ![id].status = IF @ = "running" THEN "canceled" ELSE @]}
  /\ UNCHANGED <<targets, reference, post, controls, live, acts, remembered>>

LiveNext ==
  \/ SelectAll \/ DeselectAll \/ \E d \in Devices : ToggleDeployAlias(d)
  \/ \E c \in SUBSET Devices : EditServers(c)
  \/ StreamStatus \/ StreamDone \/ StreamLost \/ CloseTab \/ OpenTab
  \/ StartDeployment \/ DeploymentCreated \/ NeedsPassword \/ DeploymentRefused
  \/ RequestConnect \/ RequestCancel \/ \E p \in Places : SwitchWorkspace(p)
  \/ \E id \in 0..MaxJobs : TypeJobId(id) \/ JobEnds(id) \/ CancelArrives(id)

LiveSpec == LiveInit /\ [][LiveNext]_liveVars

------------------------------------------------------------------------------
(* DeployPanel.tsx:234: a device that is marked as deployed was included in a *)
(* deployment of this workspace that succeeded.  Excused is a page that got   *)
(* two deployments mixed: one started while a stream was attached, a stream   *)
(* of another job attached by hand, or a workspace switched, while a selection*)
(* was remembered (lastDeploymentSelectionRef is not kept per job).           *)
IncludedIn(id) == jobs[id].place = place /\ jobs[id].status = "succeeded"
DeployedUnlessMixed ==
  mixed \/ \A d \in deployed : \E id \in DOMAIN jobs : IncludedIn(id) /\ d \in jobs[id].devices

(* A job is canceled when somebody asked for it.  Excused is a page whose     *)
(* workspace was switched on the Deploy tab: the reset of cancelRequestKey    *)
(* is a cancel of the running job (useDeploymentWorkspaceEffects.ts, View.tsx)*)
CanceledOnRequest ==
  moved \/ \A id \in DOMAIN jobs : jobs[id].status = "canceled" => id \in asked

(* What the buttons of the Deploy tab go by is what its view does: the page   *)
(* says Connected exactly while there is a stream, and both have the same job *)
(* id, however tabs, replies and lost streams interleave (onConnectedChange,  *)
(* onJobIdSync).                                                              *)
LiveViewAgrees == (shown /\ ~moved) => (linked = (stream # NoStream) /\ view.jobId = jobId)

(* The live view does what its page asks, and the page shows what it does     *)
(* (View.tsx, DeployPanel).                                                   *)
LiveViewFollows == CanceledOnRequest /\ LiveViewAgrees
=============================================================================
