---------------------------- MODULE CancelOrder -----------------------------
(***************************************************************************)
(* Why a cancel stops the runner for good (ManagedJobs!CancelStops): the   *)
(* inductive invariant of its proof.                                       *)
(*                                                                         *)
(* Only the create handler launches a container.  So it suffices that no   *)
(* cancel runs beside the create handler of its job, and that a cancel     *)
(* knows the container it has to stop and does not find it half started.   *)
(* The first holds because a client learns the job id from the answer of   *)
(* POST /api/deployments, which the API gives when the manager has         *)
(* answered.  The second holds because the create handler waits for the    *)
(* container before it publishes the job, which it does when there are     *)
(* secrets to copy, and there are until the API gives up on the job.       *)
(***************************************************************************)
EXTENDS ManagedJobs

\* Steps of the create handler on its way to publish the job, and it has.
MainPc == {"network", "volume", "connect", "build", "start", "wait", "seed",
           "publish", "ok"}

\* The handlers of a job run one after another.
CreateAfterPost ==
  \A j \in Jobs : api[j].pc \in {"none", "staged", "queued"} => create[j].pc = "off"
FinalAfterCreate ==
  \A j \in Jobs : final[j].pc # "none" => create[j].pc = "ok"
ReturnedIsOk ==
  \A j \in Jobs : api[j].pc = "returned" => create[j].pc = "ok"
CancelAfterReturn ==
  \A c \in Cancels : cancel[c].pc # "idle" => api[cancel[c].job].pc = "returned"
WatchAfterReturn ==
  \A j \in Jobs : watched[j] => api[j].pc = "returned"

Order == /\ CreateAfterPost /\ FinalAfterCreate /\ ReturnedIsOk
         /\ CancelAfterReturn /\ WatchAfterReturn

\* job.json says "running" only of a published job, with its container, and
\* until the manager looks at it says "queued" and its secrets are staged.
RunningIsPublished ==
  \A j \in Jobs : meta[j].status = "running" => create[j].pc = "ok" /\ meta[j].cid
OkIsPublished ==
  \A j \in Jobs : create[j].pc = "ok" => meta[j].status # "queued"
FreshFiles ==
  \A j \in Jobs :
    /\ api[j].pc \in {"none", "staged"} => meta[j].status = "absent"
    /\ api[j].pc \in {"queued", "posted"} /\ create[j].pc \in {"off", "load"}
         => meta[j].status = "queued"
    /\ api[j].pc \in {"staged", "queued", "posted"} /\ create[j].pc \in {"off", "load"}
         => staged[j]

Published == RunningIsPublished /\ OkIsPublished /\ FreshFiles

\* While the API waits, the handler mounts a secret volume, and so it has seen
\* the container up before it goes on.
MountsSecrets ==
  \A j \in Jobs : api[j].pc \in {"posted", "returned"} /\ create[j].pc \in MainPc
                    => create[j].vol
NotStarting ==
  \A j \in Jobs : api[j].pc \in {"posted", "returned"}
                  /\ create[j].pc \in {"seed", "publish", "ok"}
                    => container[j].state # "starting"
CancelKnows ==
  \A c \in Cancels : cancel[c].pc \in {"terminate", "stop"} => cancel[c].meta.cid

StopInv == /\ Order /\ Published /\ MountsSecrets /\ NotStarting /\ CancelKnows
           /\ CancelStops
=============================================================================
