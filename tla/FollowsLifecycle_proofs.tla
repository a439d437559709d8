---------------------- MODULE FollowsLifecycle_proofs -----------------------
(***************************************************************************)
(* While the API waits for the manager's answer, the unlocked rewrites of  *)
(* job.json implement module JobLifecycle.                                 *)
(*                                                                         *)
(* Every handler writes a status it has decided from a copy of job.json    *)
(* that may be old.  What makes the write a legal move is who else may     *)
(* have written since: the create handler is alone until it has answered,  *)
(* the error path of the API runs after it, and the finalizer and cancels  *)
(* only write statuses an ended job may have.                              *)
(***************************************************************************)
EXTENDS ManagedJobs_proofs

\* Steps of the create handler before it has written a status.
UnwrittenPc == {"load", "network", "volume", "connect", "build", "start", "wait", "seed",
                "publish", "kill", "stop", "disconnect", "rmnet", "fail"}

\* Until then the job is queued, and "failed" is the only status it writes before
\* it is over.
CreateAlone(j) ==
  /\ create[j].pc \in UnwrittenPc => meta[j].status = "queued"
  /\ create[j].pc = "rmvol" /\ create[j].fault = "start" => meta[j].status = "queued"
  /\ create[j].pc \in {"clean", "rmvol"} => meta[j].status \in {"queued", "failed"}
  /\ create[j].pc = "clean" => create[j].fault = "seed"

\* The error path of the API finds the handler over, and the job not published.
ErrorAfterCreate(j) ==
  /\ api[j].pc = "posted" => /\ create[j].pc # "off"
                             /\ create[j].pc \in {"raised", "dead"}
                                  => meta[j].status \in {"queued", "failed"}
  /\ api[j].pc \in {"err_load", "err_write"} =>
       create[j].pc \in {"off", "raised", "dead"} /\ meta[j].status \in {"queued", "failed"}

\* Nobody works on a job past retention, or removed by it.
OldIsQuiet(j) ==
  /\ meta[j].old => meta[j].status \in Terminal /\ Quiet(j)
  /\ meta[j].status = "absent" /\ api[j].pc \notin {"none", "staged"} => Quiet(j)

Life(j) == CreateAlone(j) /\ ErrorAfterCreate(j) /\ OldIsQuiet(j)
LifeInv == \A j \in Jobs : Life(j)

-----------------------------------------------------------------------------
(* Moves of one job are steps of the abstract specification.               *)

statuses == [j \in Jobs |-> meta[j].status]

LegalMove(j) ==
  \/ meta'[j].status = meta[j].status
  \/ meta[j].status = "absent" /\ meta'[j].status = "queued"
  \/ meta[j].status = "queued" /\ meta'[j].status \in {"running", "failed"}
  \/ meta[j].status \in Terminal \cup {"running"} /\ meta'[j].status \in Terminal

LEMMA MoveIsStep ==
  ASSUME NEW j \in Jobs, \A k \in Jobs \ {j} : meta'[k].status = meta[k].status,
         LegalMove(j)
  PROVE  [Lifecycle!Next]_statuses
  <1> USE DEF Lifecycle!Move, Lifecycle!Ended
  <1>1. statuses' = [statuses EXCEPT ![j] = meta'[j].status]
    BY DEF statuses
  <1>2. statuses[j] = meta[j].status
    BY DEF statuses
  <1>3. CASE meta'[j].status = meta[j].status
    BY <1>1, <1>3 DEF statuses
  <1>4. CASE meta[j].status = "absent" /\ meta'[j].status = "queued"
    <2>1. Lifecycle!Accept(j)
      BY <1>1, <1>4 DEF Lifecycle!Accept, statuses
    <2> QED
      BY <2>1 DEF Lifecycle!Next
  <1>5. CASE meta[j].status = "queued" /\ meta'[j].status = "running"
    <2>1. Lifecycle!Start(j)
      BY <1>1, <1>5 DEF Lifecycle!Start, statuses
    <2> QED
      BY <2>1 DEF Lifecycle!Next
  <1>6. CASE meta[j].status = "queued" /\ meta'[j].status = "failed"
    <2>1. Lifecycle!Reject(j)
      BY <1>1, <1>6 DEF Lifecycle!Reject, statuses
    <2> QED
      BY <2>1 DEF Lifecycle!Next
  <1>7. CASE meta[j].status = "running" /\ meta'[j].status \in Terminal
    <2>1. Lifecycle!Finish(j)
      BY <1>1, <1>7 DEF Lifecycle!Finish, Terminal, statuses
    <2> QED
      BY <2>1 DEF Lifecycle!Next
  <1>8. CASE meta[j].status \in Terminal /\ meta'[j].status \in Terminal
    <2>1. Lifecycle!Relabel(j)
      BY <1>1, <1>8 DEF Lifecycle!Relabel, Terminal, statuses
    <2> QED
      BY <2>1 DEF Lifecycle!Next
  <1> QED
    BY <1>3, <1>4, <1>5, <1>6, <1>7, <1>8 DEF LegalMove

LEMMA ExpireIsStep ==
  ASSUME \A k \in Jobs : \/ meta'[k].status = meta[k].status
                         \/ meta[k].status \in Terminal /\ meta'[k].status = "absent"
  PROVE  [Lifecycle!Next]_statuses
  <1> DEFINE S == {k \in Jobs : meta'[k].status # meta[k].status}
  <1>1. S \in SUBSET {k \in Jobs : statuses[k] \in Lifecycle!Ended}
    BY DEF statuses, Terminal, Lifecycle!Ended
  <1>2. statuses' = [k \in Jobs |-> IF k \in S THEN "absent" ELSE statuses[k]]
    BY DEF statuses
  <1>3. Lifecycle!Expire
    BY <1>1, <1>2 DEF Lifecycle!Expire, statuses
  <1> QED
    BY <1>3 DEF Lifecycle!Next

-----------------------------------------------------------------------------
(* The create handler. *)

\* What a step of it does to its job.
CreateMove(j) ==
  \/ /\ create[j].pc \in UnwrittenPc /\ meta'[j] = meta[j]
     /\ \/ create'[j].pc \in UnwrittenPc \cup {"raised"}
        \/ create'[j].pc = "rmvol"
        \/ meta[j].status # "queued"
  \/ /\ create[j].pc = "clean" /\ meta'[j] = meta[j]
     /\ create'[j].pc = "rmvol" /\ create'[j].fault = create[j].fault
  \/ /\ create[j].pc = "rmvol" /\ meta'[j] = meta[j]
     /\ create'[j].pc = IF create[j].fault = "start" THEN "fail" ELSE "raised"
  \/ /\ create[j].pc = "publish" /\ create'[j].pc = "ok"
     /\ meta'[j].status = "running" /\ ~meta'[j].old
  \/ /\ create[j].pc = "fail" /\ meta'[j].status = "failed" /\ ~meta'[j].old
     /\ \/ create'[j].pc = "clean" /\ create'[j].fault = "seed"
        \/ create'[j].pc = "raised"

LEMMA CreateMoveHolds ==
  ASSUME TypeOK, NEW j \in Jobs, CreateStep(j)
  PROVE  CreateMove(j)
  <1>t. meta \in [Jobs -> Meta] /\ create \in [Jobs -> Create]
    BY DEF TypeOK, ManagerTypeOK
  <1> USE DEF CreateMove, UnwrittenPc, CreateTo, CreateFaults
  <1>1. CASE CreateLoad(j)
    BY <1>1, <1>t DEF CreateLoad, Create, fileVars
  <1>2. CASE CreateNetworkStep(j)
    BY <1>2, <1>t DEF CreateNetworkStep, Create, fileVars
  <1>3. CASE CreateVolumeStep(j)
    BY <1>3, <1>t DEF CreateVolumeStep, Create, fileVars
  <1>4. CASE CreateConnect(j)
    BY <1>4, <1>t DEF CreateConnect, Create, fileVars
  <1>5. CASE CreateBuild(j)
    BY <1>5, <1>t DEF CreateBuild, Create, fileVars
  <1>6. CASE CreateStart(j)
    BY <1>6, <1>t DEF CreateStart, Create, fileVars
  <1>7. CASE CreateWait(j)
    BY <1>7, <1>t DEF CreateWait, Create, fileVars
  <1>8. CASE CreateSeed(j)
    BY <1>8, <1>t DEF CreateSeed, Create, fileVars
  <1>9. CASE CreatePublish(j)
    <2>1. create[j].meta \in Meta
      BY <1>t DEF Create
    <2> QED
      BY <1>9, <1>t, <2>1 DEF CreatePublish, WriteMeta, Create, Meta
  <1>10. CASE CreateKill(j) \/ CreateStop(j) \/ CreateDisconnect(j)
    <2>1. CASE CreateKill(j)
      BY <2>1, <1>t DEF CreateKill, Create, fileVars
    <2>2. CASE CreateStop(j)
      BY <2>2, <1>t DEF CreateStop, Create, fileVars
    <2>3. CASE CreateDisconnect(j)
      BY <2>3, <1>t DEF CreateDisconnect, Create, fileVars
    <2> QED
      BY <1>10, <2>1, <2>2, <2>3
  <1>11. CASE CreateRemoveNetwork(j)
    BY <1>11, <1>t DEF CreateRemoveNetwork, Create, fileVars
  <1>12. CASE CreateFail(j)
    <2>1. create[j].meta \in Meta
      BY <1>t DEF Create
    <2> QED
      BY <1>12, <1>t, <2>1 DEF CreateFail, WriteMeta, Create, Meta
  <1>13. CASE CreateClean(j)
    BY <1>13, <1>t DEF CreateClean, Create
  <1>14. CASE CreateRemoveVolume(j)
    BY <1>14, <1>t DEF CreateRemoveVolume, Create, fileVars
  <1> QED
    BY <1>1, <1>2, <1>3, <1>4, <1>5, <1>6, <1>7, <1>8, <1>9, <1>10, <1>11, <1>12,
       <1>13, <1>14 DEF CreateStep

\* What changes nothing of a job, and leaves it quiet if it is, keeps its Life.
LEMMA LifeFrame ==
  ASSUME NEW k \in Jobs, Life(k), create'[k] = create[k], api'[k] = api[k],
         meta'[k] = meta[k], Quiet(k) => Quiet(k)'
  PROVE  Life(k)'
  BY DEF Life, CreateAlone, ErrorAfterCreate, OldIsQuiet

LEMMA CreateLife ==
  ASSUME TypeOK, StopInv, LifeInv, NEW j \in Jobs, CreateStep(j), UNCHANGED apiVars
  PROVE  LifeInv' /\ [Lifecycle!Next]_statuses
  <1>s. CreateShape(j) /\ CreateMove(j)
    BY CreateShapeHolds, CreateMoveHolds
  <1>a. api' = api
    BY DEF apiVars
  <1>l. Life(j)
    BY DEF LifeInv
  <1>n. /\ create[j].pc \notin CreateOver /\ ~Quiet(j)
        /\ api[j].pc \notin {"none", "staged"}
    BY <1>s DEF CreateShape, Quiet, CreateOver, StopInv, Order, CreateAfterPost
  <1>o. ~meta[j].old /\ meta[j].status # "absent"
    BY <1>l, <1>n DEF Life, OldIsQuiet
  <1>e. api[j].pc \notin {"err_load", "err_write"}
    BY <1>l, <1>n DEF Life, ErrorAfterCreate, CreateOver
  <1>1. LegalMove(j)
    BY <1>s, <1>l DEF CreateMove, UnwrittenPc, Life, CreateAlone, LegalMove
  <1>2. CreateAlone(j)'
    BY <1>s, <1>l DEF CreateMove, UnwrittenPc, Life, CreateAlone
  <1>3. ErrorAfterCreate(j)'
    <2>1. create'[j].pc \notin {"off", "dead"}
      BY <1>s, <1>l DEF CreateMove, UnwrittenPc, Life, CreateAlone
    <2>2. create'[j].pc = "raised" => meta'[j].status \in {"queued", "failed"}
      BY <1>s, <1>l DEF CreateMove, UnwrittenPc, Life, CreateAlone
    <2> QED
      BY <1>a, <1>e, <2>1, <2>2 DEF ErrorAfterCreate
  <1>4. OldIsQuiet(j)'
    <2>1. ~meta'[j].old /\ meta'[j].status # "absent"
      BY <1>s, <1>o DEF CreateMove
    <2> QED
      BY <2>1 DEF OldIsQuiet
  <1>5. ASSUME NEW k \in Jobs \ {j} PROVE Life(k)'
    <2>1. Life(k) /\ (Quiet(k) => Quiet(k)')
      BY <1>s, <1>a DEF LifeInv, CreateShape, OthersSame, Quiet
    <2> QED
      BY <1>s, <1>a, <2>1, LifeFrame DEF CreateShape, OthersSame
  <1>6. LifeInv'
    BY <1>2, <1>3, <1>4, <1>5 DEF LifeInv, Life
  <1>7. [Lifecycle!Next]_statuses
    BY <1>1, <1>s, MoveIsStep DEF CreateShape, OthersSame
  <1> QED
    BY <1>6, <1>7

-----------------------------------------------------------------------------
(* The finalizer and the cancels. *)

\* A step that ends a published job, or leaves its status alone, while the job is
\* not quiet.
LEMMA EndLife ==
  ASSUME StopInv, LifeInv, NEW j \in Jobs, create[j].pc = "ok", ~Quiet(j),
         create' = create, api' = api,
         meta'[j] = meta[j] \/ (meta'[j].status \in Terminal /\ ~meta'[j].old),
         \A k \in Jobs \ {j} : meta'[k] = meta[k] /\ (Quiet(k) => Quiet(k)'),
         meta \in [Jobs -> Meta]
  PROVE  LifeInv' /\ [Lifecycle!Next]_statuses
  <1>l. Life(j)
    BY DEF LifeInv
  <1>n. api[j].pc \notin {"none", "staged"}
    BY DEF StopInv, Order, CreateAfterPost
  <1>o. ~meta[j].old /\ meta[j].status # "absent"
    BY <1>l, <1>n DEF Life, OldIsQuiet
  <1>p. meta[j].status \in Terminal \cup {"running"}
    BY <1>o DEF Meta, Status, Active, Terminal, StopInv, Published, OkIsPublished
  <1>1. LegalMove(j)
    BY <1>p DEF LegalMove
  <1>2. Life(j)'
    <2>1. CreateAlone(j)'
      BY DEF CreateAlone, UnwrittenPc
    <2>2. ErrorAfterCreate(j)'
      BY <1>l DEF Life, ErrorAfterCreate
    <2>3. OldIsQuiet(j)'
      BY <1>o DEF OldIsQuiet, Terminal
    <2> QED
      BY <2>1, <2>2, <2>3 DEF Life
  <1>3. ASSUME NEW k \in Jobs \ {j} PROVE Life(k)'
    BY LifeFrame DEF LifeInv
  <1> QED
    BY <1>1, <1>2, <1>3, MoveIsStep DEF LifeInv

LEMMA FinalLife ==
  ASSUME TypeOK, StopInv, LifeInv, NEW j \in Jobs, FinalStep(j), UNCHANGED apiVars
  PROVE  LifeInv' /\ [Lifecycle!Next]_statuses
  <1>t. meta \in [Jobs -> Meta] /\ final \in [Jobs -> Final]
    BY DEF TypeOK, ManagerTypeOK
  <1>s. FinalShape(j)
    BY FinalShapeHolds
  <1>a. api' = api
    BY DEF apiVars
  <1>1. create[j].pc = "ok"
    BY <1>s DEF FinalShape, StopInv, Order, FinalAfterCreate
  <1>2. ~Quiet(j)
    BY DEF Quiet, FinalStep, FinalWait, FinalLoad, FinalWrite, FinalDisconnect,
       FinalRemoveNetwork, FinalClean, FinalRemoveVolume
  <1>3. meta'[j] = meta[j] \/ ~meta'[j].old
    <2>1. CASE FinalWrite(j)
      <3>1. final[j].meta \in Meta
        BY <1>t DEF Final
      <3> QED
        BY <2>1, <1>t, <3>1 DEF FinalWrite, WriteMeta, Meta
    <2>2. CASE ~FinalWrite(j)
      BY <2>2 DEF FinalStep, FinalWait, FinalLoad, FinalDisconnect, FinalRemoveNetwork,
         FinalClean, FinalRemoveVolume, fileVars
    <2> QED
      BY <2>1, <2>2
  <1>4. ASSUME NEW k \in Jobs \ {j}
        PROVE  meta'[k] = meta[k] /\ (Quiet(k) => Quiet(k)')
    BY <1>s, <1>a DEF FinalShape, OthersSame, Quiet
  <1>5. meta'[j] = meta[j] \/ (meta'[j].status \in Terminal /\ ~meta'[j].old)
    BY <1>s, <1>3 DEF FinalShape
  <1> QED
    BY <1>s, <1>a, <1>t, <1>1, <1>2, <1>4, <1>5, EndLife DEF FinalShape

LEMMA CancelLife ==
  ASSUME TypeOK, StopInv, LifeInv, NEW c \in Cancels, CancelStep(c), UNCHANGED apiVars
  PROVE  LifeInv' /\ [Lifecycle!Next]_statuses
  <1> DEFINE j == cancel[c].job
  <1>t. meta \in [Jobs -> Meta] /\ cancel \in [Cancels -> Cancel] /\ j \in Jobs
    BY DEF TypeOK, ManagerTypeOK, Cancel
  <1>s. CancelShape(c)
    BY CancelShapeHolds
  <1>a. api' = api
    BY DEF apiVars
  <1>1. create[j].pc = "ok"
    BY <1>s, <1>t DEF CancelShape, StopInv, Order, CancelAfterReturn, ReturnedIsOk
  <1>2. ~Quiet(j)
    BY DEF Quiet, CancelStep, CancelLoad, CancelTerminate, CancelStop, CancelDisconnect,
       CancelRemoveNetwork, CancelWrite, CancelClean, CancelRemoveVolume
  <1>3. meta'[j] = meta[j] \/ ~meta'[j].old
    <2>1. CASE CancelWrite(c)
      <3>1. cancel[c].meta \in Meta
        BY <1>t DEF Cancel
      <3> QED
        BY <2>1, <1>t, <3>1 DEF CancelWrite, WriteMeta, Meta
    <2>2. CASE ~CancelWrite(c)
      BY <2>2 DEF CancelStep, CancelLoad, CancelTerminate, CancelStop, CancelDisconnect,
         CancelRemoveNetwork, CancelClean, CancelRemoveVolume, fileVars
    <2> QED
      BY <2>1, <2>2
  <1>4. ASSUME NEW k \in Jobs \ {j}
        PROVE  meta'[k] = meta[k] /\ (Quiet(k) => Quiet(k)')
    <2>1. meta'[k] = meta[k] /\ create'[k] = create[k] /\ final'[k] = final[k]
      BY <1>s DEF CancelShape, OthersSame
    <2>2. \A d \in Cancels : cancel'[d].job = k => cancel'[d] = cancel[d]
      BY <1>s DEF CancelShape
    <2> QED
      BY <1>a, <2>1, <2>2 DEF Quiet
  <1>5. meta'[j] = meta[j] \/ (meta'[j].status \in Terminal /\ ~meta'[j].old)
    BY <1>s, <1>3 DEF CancelShape, Terminal
  <1>6. create' = create
    BY <1>s DEF CancelShape
  <1> QED
    BY <1>a, <1>t, <1>1, <1>2, <1>4, <1>5, <1>6, EndLife

-----------------------------------------------------------------------------
(* The sweep and the daemon. *)

LEMMA SweepLife ==
  ASSUME TypeOK, StopInv, LifeInv, SweepStep, UNCHANGED apiVars
  PROVE  LifeInv' /\ [Lifecycle!Next]_statuses
  <1>s. SweepShape
    BY SweepShapeHolds
  <1>a. api' = api
    BY DEF apiVars
  <1>q. \A k \in Jobs : Quiet(k) => Quiet(k)'
    BY <1>s, <1>a DEF SweepShape, Quiet
  <1>1. \A k \in Jobs : \/ meta'[k] = meta[k]
                        \/ meta[k].status \in Terminal /\ meta[k].old /\ meta'[k] = NoMeta
    <2>1. CASE SweepDirs
      BY <2>1 DEF SweepDirs
    <2>2. CASE ~SweepDirs
      BY <2>2 DEF SweepStep, SweepBegin, SweepListContainers, SweepListNetworks,
         SweepListVolumes, SweepList, SweepContainer, SweepNetwork, SweepVolume,
         SweepDone, fileVars
    <2> QED
      BY <2>1, <2>2
  <1>2. ASSUME NEW k \in Jobs PROVE Life(k)'
    <2>1. CASE meta'[k] = meta[k]
      BY <2>1, <1>s, <1>a, <1>q, LifeFrame DEF SweepShape, LifeInv
    <2>2. CASE meta[k].status \in Terminal /\ meta[k].old /\ meta'[k] = NoMeta
      <3>1. Quiet(k) /\ Quiet(k)'
        BY <2>2, <1>q DEF LifeInv, Life, OldIsQuiet
      <3>2. create[k].pc \in CreateOver /\ api[k].pc \in ApiOver
        BY <3>1 DEF Quiet
      <3>3. CreateAlone(k)' /\ ErrorAfterCreate(k)'
        BY <3>2, <1>s, <1>a DEF SweepShape, CreateAlone, UnwrittenPc, ErrorAfterCreate,
           CreateOver, ApiOver
      <3>4. OldIsQuiet(k)'
        BY <2>2, <3>1 DEF OldIsQuiet, NoMeta
      <3> QED
        BY <3>3, <3>4 DEF Life
    <2> QED
      BY <1>1, <2>1, <2>2
  <1>3. [Lifecycle!Next]_statuses
    BY <1>1, ExpireIsStep DEF NoMeta
  <1> QED
    BY <1>2, <1>3 DEF LifeInv

\* What changes no job file and works on no job that is quiet.
LEMMA IdleLife ==
  ASSUME LifeInv, meta' = meta, create' = create, api' = api,
         \A k \in Jobs : Quiet(k) => Quiet(k)'
  PROVE  LifeInv' /\ [Lifecycle!Next]_statuses
  <1>1. LifeInv'
    BY LifeFrame DEF LifeInv
  <1> QED
    BY <1>1 DEF statuses

LEMMA DockerLife ==
  ASSUME LifeInv, UNCHANGED <<fileVars, managerVars, apiVars>>
  PROVE  LifeInv' /\ [Lifecycle!Next]_statuses
  <1>1. UNCHANGED <<meta, create, final, cancel, api>>
    BY DEF fileVars, managerVars, apiVars
  <1>2. \A k \in Jobs : Quiet(k) => Quiet(k)'
    BY <1>1 DEF Quiet
  <1> QED
    BY <1>1, <1>2, IdleLife

-----------------------------------------------------------------------------
(* The API. *)

\* The step changes nothing of another job.
ApiFrame(j) ==
  /\ final' = final /\ cancel' = cancel
  /\ \A k \in Jobs \ {j} : /\ api'[k] = api[k]
                           /\ create'[k] = create[k]
                           /\ meta'[k] = meta[k]

LEMMA OneLife ==
  ASSUME LifeInv, NEW j \in Jobs, ApiFrame(j), Life(j)', LegalMove(j)
  PROVE  LifeInv' /\ [Lifecycle!Next]_statuses
  <1>1. ASSUME NEW k \in Jobs \ {j} PROVE Life(k)'
    <2>1. Quiet(k) => Quiet(k)'
      BY DEF ApiFrame, Quiet
    <2> QED
      BY <2>1, LifeFrame DEF ApiFrame, LifeInv
  <1>2. [Lifecycle!Next]_statuses
    BY MoveIsStep DEF ApiFrame
  <1> QED
    BY <1>1, <1>2 DEF LifeInv

\* Without the client timeout the API only gives up on a start that is over.
LEMMA ApiLife ==
  ASSUME "client_timeout" \notin Faults, TypeOK, StopInv, LifeInv, NEW j \in Jobs,
         ApiStep(j) \/ ApiRejects(j) \/ ApiUnreachable(j) \/ Watch(j)
           \/ ApiGet(j) \/ RetentionPasses(j)
  PROVE  LifeInv' /\ [Lifecycle!Next]_statuses
  <1>t. /\ meta \in [Jobs -> Meta] /\ create \in [Jobs -> Create] /\ api \in [Jobs -> Api]
    BY DEF TypeOK, ManagerTypeOK
  <1>f. ApiFrame(j)
    BY ApiShapeHolds DEF ApiShape, ApiFrame
  <1>l. Life(j)
    BY DEF LifeInv
  <1>c. /\ api[j].pc \in {"none", "staged", "queued"} => create[j].pc = "off"
        /\ api[j].pc \in {"none", "staged"} => meta[j].status = "absent"
        /\ api[j].pc = "queued" => meta[j].status = "queued"
    BY DEF StopInv, Order, CreateAfterPost, Published, FreshFiles
  <1>o. api[j].pc \notin ApiOver => ~meta[j].old /\ (api[j].pc \notin {"none", "staged"}
                                                    => meta[j].status # "absent")
    BY <1>l DEF Life, OldIsQuiet, Quiet
  <1> USE DEF ApiTo
  <1>1. CASE ApiStage(j)
    <2>1. /\ api[j].pc = "none" /\ api'[j].pc = "staged"
          /\ create' = create /\ meta' = meta
      BY <1>1, <1>t DEF ApiStage, Api, managerVars
    <2>2. Life(j)' /\ LegalMove(j)
      BY <2>1, <1>c, <1>o DEF Life, CreateAlone, UnwrittenPc, ErrorAfterCreate,
         OldIsQuiet, LegalMove, ApiOver
    <2> QED
      BY <2>2, <1>f, OneLife
  <1>2. CASE ApiQueue(j)
    <2>1. /\ api[j].pc = "staged" /\ api'[j].pc = "queued" /\ create' = create
      BY <1>2, <1>t DEF ApiQueue, Api, managerVars
    <2>2. meta'[j].status = "queued" /\ ~meta'[j].old
      BY <1>2, <1>t DEF ApiQueue, WriteMeta, NoMeta
    <2>3. Life(j)' /\ LegalMove(j)
      BY <2>1, <2>2, <1>c DEF Life, CreateAlone, UnwrittenPc, ErrorAfterCreate,
         OldIsQuiet, LegalMove
    <2> QED
      BY <2>3, <1>f, OneLife
  <1>3. CASE ApiRejects(j)
    <2>1. /\ api[j].pc = "queued" /\ api'[j].pc = "rejected"
          /\ create' = create /\ meta' = meta
      BY <1>3, <1>t DEF ApiRejects, Api, managerVars, fileVars
    <2>2. Life(j)' /\ LegalMove(j)
      BY <2>1, <1>c, <1>o DEF Life, CreateAlone, UnwrittenPc, ErrorAfterCreate,
         OldIsQuiet, LegalMove, ApiOver
    <2> QED
      BY <2>2, <1>f, OneLife
  <1>4. CASE ApiPost(j)
    <2>1. /\ api[j].pc = "queued" /\ api'[j].pc = "posted"
          /\ create'[j].pc = "load" /\ meta' = meta
      BY <1>4, <1>t DEF ApiPost, CreateTo, Api, Create, fileVars
    <2>2. Life(j)' /\ LegalMove(j)
      BY <2>1, <1>c, <1>o DEF Life, CreateAlone, UnwrittenPc, ErrorAfterCreate,
         OldIsQuiet, LegalMove, ApiOver
    <2> QED
      BY <2>2, <1>f, OneLife
  <1>5. CASE ApiUnreachable(j)
    <2>1. /\ api[j].pc = "queued" /\ api'[j].pc = "err_load"
          /\ create' = create /\ meta' = meta
      BY <1>5, <1>t DEF ApiUnreachable, Api, managerVars, fileVars
    <2>2. Life(j)' /\ LegalMove(j)
      BY <2>1, <1>c, <1>o DEF Life, CreateAlone, UnwrittenPc, ErrorAfterCreate,
         OldIsQuiet, LegalMove, ApiOver
    <2> QED
      BY <2>2, <1>f, OneLife
  <1>6. CASE ApiReturns(j)
    <2>1. /\ api[j].pc = "posted" /\ api'[j].pc = "returned"
          /\ create' = create /\ meta' = meta
      BY <1>6, <1>t DEF ApiReturns, Api, managerVars, fileVars
    <2>2. Life(j)' /\ LegalMove(j)
      BY <2>1, <1>l, <1>o DEF Life, CreateAlone, UnwrittenPc, ErrorAfterCreate,
         OldIsQuiet, LegalMove, ApiOver
    <2> QED
      BY <2>2, <1>f, OneLife
  <1>7. CASE ApiStartFails(j)
    <2>1. /\ api[j].pc = "posted" /\ api'[j].pc = "err_load"
          /\ create[j].pc \in {"raised", "dead"}
          /\ create' = create /\ meta' = meta
      BY <1>7, <1>t DEF ApiStartFails, Api, managerVars, fileVars
    <2>2. Life(j)' /\ LegalMove(j)
      BY <2>1, <1>l, <1>o DEF Life, CreateAlone, UnwrittenPc, ErrorAfterCreate,
         OldIsQuiet, LegalMove, ApiOver
    <2> QED
      BY <2>2, <1>f, OneLife
  <1>8. CASE ApiErrorLoad(j)
    <2>1. /\ api[j].pc = "err_load" /\ api'[j].pc = "err_write"
          /\ create' = create /\ meta' = meta
      BY <1>8, <1>t DEF ApiErrorLoad, Api, managerVars, fileVars
    <2>2. Life(j)' /\ LegalMove(j)
      BY <2>1, <1>l, <1>o DEF Life, CreateAlone, UnwrittenPc, ErrorAfterCreate,
         OldIsQuiet, LegalMove, ApiOver
    <2> QED
      BY <2>2, <1>f, OneLife
  <1>9. CASE ApiErrorWrite(j)
    <2>1. /\ api[j].pc = "err_write" /\ api'[j].pc = "err_clean" /\ create' = create
      BY <1>9, <1>t DEF ApiErrorWrite, Api, managerVars
    <2>2. api[j].meta \in Meta
      BY <1>t DEF Api
    <2>3. meta'[j].status = "failed" /\ ~meta'[j].old
      BY <1>9, <1>t, <2>2 DEF ApiErrorWrite, WriteMeta, Meta
    <2>4. create[j].pc \in {"off", "raised", "dead"} /\ meta[j].status \in {"queued", "failed"}
      BY <2>1, <1>l DEF Life, ErrorAfterCreate
    <2>5. Life(j)' /\ LegalMove(j)
      BY <2>1, <2>3, <2>4 DEF Life, CreateAlone, UnwrittenPc, ErrorAfterCreate,
         OldIsQuiet, LegalMove, Terminal
    <2> QED
      BY <2>5, <1>f, OneLife
  <1>10. CASE ApiErrorClean(j)
    <2>1. /\ api[j].pc = "err_clean" /\ api'[j].pc = "failed"
          /\ create' = create /\ meta' = meta
      BY <1>10, <1>t DEF ApiErrorClean, Api, managerVars
    <2>2. Life(j)' /\ LegalMove(j)
      BY <2>1, <1>l, <1>o DEF Life, CreateAlone, UnwrittenPc, ErrorAfterCreate,
         OldIsQuiet, LegalMove, ApiOver
    <2> QED
      BY <2>2, <1>f, OneLife
  <1>11. CASE Watch(j) \/ ApiGet(j)
    <2>1. UNCHANGED <<api, create, final, cancel, meta>>
      BY <1>11 DEF Watch, ApiGet, managerVars, apiVars
    <2>2. \A k \in Jobs : Quiet(k) => Quiet(k)'
      BY <2>1 DEF Quiet
    <2> QED
      BY <2>1, <2>2, IdleLife
  <1>12. CASE RetentionPasses(j)
    <2>1. UNCHANGED <<api, create, final, cancel>> /\ Quiet(j) /\ meta[j].status \in Terminal
      BY <1>12 DEF RetentionPasses, managerVars, apiVars
    <2>2. meta'[j].status = meta[j].status
      BY <1>12, <1>t DEF RetentionPasses, Meta
    <2>3. Quiet(j)'
      BY <2>1 DEF Quiet
    <2>4. Life(j)' /\ LegalMove(j)
      BY <2>1, <2>2, <2>3, <1>l DEF Life, CreateAlone, ErrorAfterCreate, OldIsQuiet,
         LegalMove
    <2> QED
      BY <2>4, <1>f, OneLife
  <1> QED
    BY <1>1, <1>2, <1>3, <1>4, <1>5, <1>6, <1>7, <1>8, <1>9, <1>10, <1>11, <1>12
       DEF ApiStep

\* A cancel is only accepted for a job that is queued or running.
LEMMA AcceptCancelLife ==
  ASSUME TypeOK, LifeInv, NEW c \in Cancels, NEW j \in Jobs, ApiCancel(c, j)
  PROVE  LifeInv' /\ [Lifecycle!Next]_statuses
  <1>t. cancel \in [Cancels -> Cancel]
    BY DEF TypeOK, ManagerTypeOK
  <1>1. UNCHANGED <<meta, create, final, api>> /\ meta[j].status \in Active
    BY DEF ApiCancel, fileVars, apiVars
  <1>2. /\ cancel'[c].job = j
        /\ \A d \in Cancels \ {c} : cancel'[d] = cancel[d]
    BY <1>t DEF ApiCancel, NoCancel
  <1>3. ASSUME NEW k \in Jobs PROVE Life(k)'
    <2>1. CASE k = j
      <3>1. CreateAlone(k)' /\ ErrorAfterCreate(k)'
        BY <1>1 DEF LifeInv, Life, CreateAlone, ErrorAfterCreate
      <3>2. ~meta[k].old /\ meta[k].status # "absent"
        BY <2>1, <1>1 DEF LifeInv, Life, OldIsQuiet, Active, Terminal
      <3>3. OldIsQuiet(k)'
        BY <3>2, <1>1 DEF OldIsQuiet
      <3> QED
        BY <3>1, <3>3 DEF Life
    <2>2. CASE k # j
      <3>1. Quiet(k) => Quiet(k)'
        BY <2>2, <1>1, <1>2 DEF Quiet
      <3> QED
        BY <3>1, <1>1, LifeFrame DEF LifeInv
    <2> QED
      BY <2>1, <2>2
  <1> QED
    BY <1>1, <1>3 DEF LifeInv, statuses

LEMMA RepliedCancelLife ==
  ASSUME TypeOK, LifeInv, NEW c \in Cancels, ApiCancelReturns(c)
  PROVE  LifeInv' /\ [Lifecycle!Next]_statuses
  <1>t. cancel \in [Cancels -> Cancel]
    BY DEF TypeOK, ManagerTypeOK
  <1>1. UNCHANGED <<meta, create, final, api>>
    BY DEF ApiCancelReturns, fileVars
  <1>2. \A d \in Cancels : \/ cancel'[d] = cancel[d]
                           \/ cancel'[d].pc = "idle"
    BY <1>t DEF ApiCancelReturns, NoCancel
  <1>3. \A d \in Cancels : cancel'[d].job = cancel[d].job
    BY <1>t DEF ApiCancelReturns, NoCancel
  <1>4. \A k \in Jobs : Quiet(k) => Quiet(k)'
    BY <1>1, <1>2, <1>3 DEF Quiet
  <1> QED
    BY <1>1, <1>4, IdleLife

\* A restart of the manager ends every handler; the job of a create handler that
\* had not published it is queued or failed.
LEMMA ManagerRestartLife ==
  ASSUME TypeOK, LifeInv, ManagerRestart
  PROVE  LifeInv' /\ [Lifecycle!Next]_statuses
  <1>t. create \in [Jobs -> Create] /\ cancel \in [Cancels -> Cancel]
    BY DEF TypeOK, ManagerTypeOK
  <1>1. UNCHANGED <<meta, api>>
    BY DEF ManagerRestart, fileVars, apiVars
  <1>2. ASSUME NEW k \in Jobs
        PROVE  \/ create'[k] = create[k] /\ create[k].pc \in CreateOver
               \/ create'[k].pc = "dead" /\ create[k].pc \notin CreateOver
    BY <1>t DEF ManagerRestart, NoCreate
  <1>3. ASSUME NEW k \in Jobs, Quiet(k) PROVE Quiet(k)'
    <2>1. final'[k].pc = "none"
      BY DEF ManagerRestart, NoFinal
    <2>2. \A c \in Cancels : cancel'[c].pc \in {"idle", "reply"}
      BY <1>t DEF ManagerRestart, NoCancel
    <2>3. create'[k].pc \in CreateOver
      BY <1>2 DEF CreateOver
    <2> QED
      BY <1>1, <1>3, <2>1, <2>2, <2>3 DEF Quiet
  <1>4. ASSUME NEW k \in Jobs PROVE Life(k)'
    <2>l. CreateAlone(k) /\ ErrorAfterCreate(k) /\ OldIsQuiet(k)
      BY DEF LifeInv, Life
    <2>1. CASE create'[k] = create[k]
      BY <2>1, <1>1, <1>3, LifeFrame DEF LifeInv
    <2>2. CASE create'[k].pc = "dead" /\ create[k].pc \notin CreateOver
      <3>1. create[k].pc \in UnwrittenPc \cup {"clean", "rmvol"}
        BY <2>2, <1>t DEF Create, CreatePc, CreateOver, UnwrittenPc
      <3>2. meta[k].status \in {"queued", "failed"}
        BY <3>1, <2>l DEF CreateAlone
      <3>3. CreateAlone(k)'
        BY <2>2 DEF CreateAlone, UnwrittenPc
      <3>4. ErrorAfterCreate(k)'
        BY <2>2, <3>2, <1>1 DEF ErrorAfterCreate
      <3>5. OldIsQuiet(k)'
        BY <2>l, <1>1, <1>3 DEF OldIsQuiet
      <3> QED
        BY <3>3, <3>4, <3>5 DEF Life
    <2> QED
      BY <1>2, <2>1, <2>2
  <1> QED
    BY <1>1, <1>4 DEF LifeInv, statuses

LEMMA ApiRestartLife ==
  ASSUME TypeOK, StopInv, LifeInv, ApiRestart
  PROVE  LifeInv' /\ [Lifecycle!Next]_statuses
  <1>t. api \in [Jobs -> Api]
    BY DEF TypeOK
  <1>1. UNCHANGED <<meta, create, final, cancel>>
    BY DEF ApiRestart, fileVars, managerVars
  <1>2. ASSUME NEW k \in Jobs
        PROVE  \/ api'[k] = api[k] /\ api[k].pc \in ApiOver \cup {"none"}
               \/ api'[k].pc = "dead"
    BY <1>t DEF ApiRestart, NoApi
  <1>3. ASSUME NEW k \in Jobs, Quiet(k) PROVE Quiet(k)'
    BY <1>1, <1>2, <1>3 DEF Quiet, ApiOver
  <1>4. ASSUME NEW k \in Jobs PROVE Life(k)'
    <2>l. CreateAlone(k) /\ ErrorAfterCreate(k) /\ OldIsQuiet(k)
      BY DEF LifeInv, Life
    <2>1. CASE api'[k] = api[k]
      BY <2>1, <1>1, <1>3, LifeFrame DEF LifeInv
    <2>2. CASE api'[k].pc = "dead"
      <3>1. CreateAlone(k)' /\ ErrorAfterCreate(k)'
        BY <2>2, <2>l, <1>1 DEF CreateAlone, ErrorAfterCreate
      <3>2. CASE api[k].pc \in {"none", "staged"}
        <4>1. create[k].pc = "off" /\ final[k].pc = "none"
          BY <3>2 DEF StopInv, Order, CreateAfterPost, FinalAfterCreate
        <4>2. \A c \in Cancels : cancel[c].job = k => cancel[c].pc = "idle"
          BY <3>2 DEF StopInv, Order, CancelAfterReturn
        <4>3. Quiet(k)'
          BY <2>2, <4>1, <4>2, <1>1 DEF Quiet, ApiOver, CreateOver
        <4> QED
          BY <3>1, <4>3, <2>l, <1>1 DEF Life, OldIsQuiet
      <3>3. CASE api[k].pc \notin {"none", "staged"}
        BY <3>1, <3>3, <2>l, <1>1, <1>3 DEF Life, OldIsQuiet
      <3> QED
        BY <3>2, <3>3
    <2> QED
      BY <1>2, <2>1, <2>2
  <1> QED
    BY <1>1, <1>4 DEF LifeInv, statuses

-----------------------------------------------------------------------------
(* All together. *)

LEMMA InitLife == Init => LifeInv /\ Lifecycle!Init
  <1> SUFFICES ASSUME Init PROVE LifeInv /\ Lifecycle!Init
    OBVIOUS
  <1>1. meta = [j \in Jobs |-> NoMeta] /\ create = [j \in Jobs |-> NoCreate]
    BY DEF Init, ManagerInit
  <1>2. api = [j \in Jobs |-> NoApi]
    BY DEF Init
  <1>3. LifeInv
    BY <1>1, <1>2 DEF LifeInv, Life, CreateAlone, UnwrittenPc, ErrorAfterCreate,
       OldIsQuiet, NoMeta, NoCreate, NoApi
  <1>4. Lifecycle!Init
    BY <1>1 DEF Lifecycle!Init, NoMeta
  <1> QED
    BY <1>3, <1>4

LEMMA NextLife ==
  ASSUME "client_timeout" \notin Faults, TypeOK, StopInv, LifeInv, [Next]_vars
  PROVE  LifeInv' /\ [Lifecycle!Next]_statuses
  <1>1. CASE \E j \in Jobs : DockerStep(j) /\ UNCHANGED <<fileVars, managerVars, apiVars>>
    BY <1>1, DockerLife
  <1>2. CASE \E j \in Jobs : CreateStep(j) /\ UNCHANGED apiVars
    BY <1>2, CreateLife
  <1>3. CASE \E j \in Jobs : FinalStep(j) /\ UNCHANGED apiVars
    BY <1>3, FinalLife
  <1>4. CASE \E j \in Jobs : ApiStep(j) \/ ApiRejects(j) \/ ApiUnreachable(j) \/ Watch(j)
                               \/ ApiGet(j) \/ RetentionPasses(j)
    BY <1>4, ApiLife
  <1>5. CASE \E j \in Jobs : \E c \in Cancels : ApiCancel(c, j)
    BY <1>5, AcceptCancelLife
  <1>6. CASE \E c \in Cancels : CancelStep(c) /\ UNCHANGED apiVars
    BY <1>6, CancelLife
  <1>7. CASE \E c \in Cancels : ApiCancelReturns(c)
    BY <1>7, RepliedCancelLife
  <1>8. CASE SweepStep /\ UNCHANGED apiVars
    BY <1>8, SweepLife
  <1>9. CASE ManagerRequest \/ ApiConstructs
    <2>1. UNCHANGED <<meta, create, final, cancel, api>>
      BY <1>9 DEF ManagerRequest, ApiConstructs, fileVars, managerVars, apiVars
    <2>2. \A k \in Jobs : Quiet(k) => Quiet(k)'
      BY <2>1 DEF Quiet
    <2> QED
      BY <2>1, <2>2, IdleLife
  <1>10. CASE ManagerRestart
    BY <1>10, ManagerRestartLife
  <1>11. CASE ApiRestart
    BY <1>11, ApiRestartLife
  <1>12. CASE UNCHANGED vars
    <2>1. UNCHANGED <<fileVars, managerVars, apiVars>>
      BY <1>12 DEF vars
    <2> QED
      BY <2>1, DockerLife
  <1> QED
    BY <1>1, <1>2, <1>3, <1>4, <1>5, <1>6, <1>7, <1>8, <1>9, <1>10, <1>11, <1>12
       DEF Next

\* As long as the API waits for the manager's answer, whatever else fails or
\* restarts, the writes of job.json by the create handler, the finalizer, the
\* cancels, the API's error path and the sweep, each of a copy read earlier, move
\* the status of every job only as its life cycle allows: none brings an ended
\* job back (FollowsLifecycle, of run jobs_release).
THEOREM LifecycleCorrect ==
  "client_timeout" \notin Faults => (Spec => FollowsLifecycle)
  <1> SUFFICES ASSUME "client_timeout" \notin Faults
               PROVE  Spec => FollowsLifecycle
    OBVIOUS
  <1>1. Init => LifeInv /\ Lifecycle!Init
    BY InitLife
  <1>2. TypeOK /\ StopInv /\ LifeInv /\ [Next]_vars => LifeInv' /\ [Lifecycle!Next]_statuses
    BY NextLife
  <1>3. Spec => []TypeOK /\ []StopInv
    BY TypeCorrect, OrderCorrect
  <1> QED
    BY <1>1, <1>2, <1>3, PTL DEF Spec, FollowsLifecycle, Lifecycle!Spec, statuses


-----------------------------------------------------------------------------
\* What that life cycle comes to for whoever polls a job.
NeverBack ==
  \A j \in Jobs :
    /\ statuses[j] \in Lifecycle!Ended => statuses'[j] \in Lifecycle!Ended \cup {"absent"}
    /\ statuses[j] = "running" => statuses'[j] \in {"running"} \cup Lifecycle!Ended
    /\ statuses[j] = "absent" => statuses'[j] \in {"absent", "queued"}

\* An ended job stays ended until it is forgotten, one that runs is never queued
\* again, and none runs that was not accepted, although manager and API rewrite
\* job.json from copies read earlier, as long as no request of the API times out.
THEOREM JobsNeverComeBack ==
  "client_timeout" \notin Faults => (Spec => [][NeverBack]_statuses)
  <1>1. [Lifecycle!Next]_statuses => [NeverBack]_statuses
    <2> SUFFICES ASSUME Lifecycle!Next, NEW j \in Jobs
                 PROVE  /\ statuses[j] \in Lifecycle!Ended => statuses'[j] \in Lifecycle!Ended \cup {"absent"}
                        /\ statuses[j] = "running" => statuses'[j] \in {"running"} \cup Lifecycle!Ended
                        /\ statuses[j] = "absent" => statuses'[j] \in {"absent", "queued"}
      BY DEF NeverBack
    <2>0. DOMAIN statuses = Jobs
      BY DEF statuses
    <2>1. CASE Lifecycle!Expire
      <3>1. PICK S \in SUBSET {k \in Jobs : statuses[k] \in Lifecycle!Ended} :
              statuses' = [k \in Jobs |-> IF k \in S THEN "absent" ELSE statuses[k]]
        BY <2>1 DEF Lifecycle!Expire, statuses
      <3>2. statuses'[j] = IF j \in S THEN "absent" ELSE statuses[j]
        BY <3>1
      <3> HIDE DEF statuses
      <3> QED
        BY <3>1, <3>2 DEF Lifecycle!Ended
    <2>2. ASSUME NEW k \in Jobs, NEW from, NEW to, Lifecycle!Move(k, from, to)
          PROVE  /\ statuses[k] \in from
                 /\ statuses'[j] = statuses[j] \/ (k = j /\ statuses'[j] \in to)
      <3>1. /\ statuses[k] \in from
            /\ \E s \in to : statuses' = [statuses EXCEPT ![k] = s]
        BY <2>2 DEF Lifecycle!Move, statuses
      <3> QED
        BY <2>0, <3>1
    <2>3. CASE \E k \in Jobs : \/ Lifecycle!Accept(k) \/ Lifecycle!Start(k) \/ Lifecycle!Reject(k)
                               \/ Lifecycle!Finish(k) \/ Lifecycle!Relabel(k)
      <3>1. \E k \in Jobs : \/ Lifecycle!Move(k, {"absent"}, {"queued"})
                            \/ Lifecycle!Move(k, {"queued"}, {"running"})
                            \/ Lifecycle!Move(k, {"queued"}, {"failed"})
                            \/ Lifecycle!Move(k, {"running"}, Lifecycle!Ended)
                            \/ Lifecycle!Move(k, Lifecycle!Ended, Lifecycle!Ended)
        BY <2>3 DEF Lifecycle!Accept, Lifecycle!Start, Lifecycle!Reject, Lifecycle!Finish, Lifecycle!Relabel
      <3>2. \/ statuses'[j] = statuses[j]
            \/ statuses[j] = "absent" /\ statuses'[j] = "queued"
            \/ statuses[j] = "queued" /\ statuses'[j] \in {"running", "failed"}
            \/ statuses[j] = "running" /\ statuses'[j] \in Lifecycle!Ended
            \/ statuses[j] \in Lifecycle!Ended /\ statuses'[j] \in Lifecycle!Ended
        BY <2>2, <3>1
      <3> HIDE DEF statuses
      <3> QED
        BY <3>2 DEF Lifecycle!Ended
    <2> QED
      BY <2>1, <2>3 DEF Lifecycle!Next
  <1>2. FollowsLifecycle => [][Lifecycle!Next]_statuses
    BY PTL DEF FollowsLifecycle, Lifecycle!Spec, statuses
  <1> QED
    BY <1>1, <1>2, LifecycleCorrect, PTL
=============================================================================
