------------------------ MODULE JobResources_proofs -------------------------
(***************************************************************************)
(* What a job holds on the host, and that it gives it back: its secret     *)
(* volume, its staged secret files, its container and its network with the *)
(* targets attached to it.  Three theorems, each on the invariants of the  *)
(* ones before it and on the order of the handlers (module CancelOrder).   *)
(***************************************************************************)
EXTENDS ManagedJobs_proofs

-----------------------------------------------------------------------------
(* The secret volume.  docker run and the seeding helper create a missing    *)
(* volume on disk.  So the volume must be there from create_tmpfs_volume     *)
(* until it is seeded.  Finalizer and cancels, which remove it, run only     *)
(* after that; the sweep is the one process that may run before.             *)

\* Before the handler of the job has created the volume there is none; before it
\* has started the runner there is no container to mount one; from its creation
\* until the secrets are copied the volume is on tmpfs.
VolumeReady(j) ==
  /\ create[j].pc \in {"off", "load", "network", "volume"} => volume[j] = NoVolume
  /\ create[j].pc \in {"off", "load", "network", "volume", "connect", "build", "start"}
       => container[j].state = "none"
  /\ create[j].pc \in {"connect", "build", "start", "wait", "seed"} /\ create[j].vol
       => volume[j].kind = "tmpfs"
  /\ create[j].pc \in {"wait", "seed"} => create[j].vol
  /\ volume[j].seeded => volume[j].kind = "tmpfs"

TmpfsInv == sweep.pc = "off" /\ \A j \in Jobs : VolumeReady(j)

\* A step that changes nothing of the other jobs.
VolumesSame(j) ==
  \A k \in Jobs \ {j} : /\ create'[k] = create[k]
                        /\ volume'[k] = volume[k]
                        /\ container'[k] = container[k]

LEMMA OneJob ==
  ASSUME \A k \in Jobs : VolumeReady(k), NEW j \in Jobs, VolumesSame(j), VolumeReady(j)'
  PROVE  \A k \in Jobs : VolumeReady(k)'
  BY DEF VolumesSame, VolumeReady

\* Without the sweep no request starts it.
LEMMA NoSweepStarts ==
  ASSUME SweepEnabled = FALSE, sweep.pc = "off", ServiceConstructed
  PROVE  sweep' = sweep
  BY DEF ServiceConstructed

-----------------------------------------------------------------------------
\* The create handler keeps TmpfsInv.
LEMMA CreateTmpfs ==
  ASSUME SweepEnabled = FALSE, TypeOK, TmpfsInv, NEW j \in Jobs, CreateStep(j)
  PROVE  TmpfsInv'
  <1>t. /\ container \in [Jobs -> Container] /\ volume \in [Jobs -> Volume]
        /\ create \in [Jobs -> Create]
    BY DEF TypeOK, DockerTypeOK, ManagerTypeOK
  <1>r. VolumeReady(j) /\ sweep.pc = "off"
    BY DEF TmpfsInv
  <1> USE DEF VolumeReady, VolumesSame, CreateTo, CreateFaults
  <1>1. CASE CreateLoad(j)
    <2>1. sweep' = sweep
      BY <1>1, <1>r, NoSweepStarts DEF CreateLoad
    <2>2. VolumesSame(j) /\ VolumeReady(j)'
      BY <1>1, <1>t, <1>r DEF CreateLoad, Create, dockerVars
    <2> QED
      BY <2>1, <2>2, OneJob DEF TmpfsInv
  <1>2. CASE CreateNetworkStep(j)
    <2>1. VolumesSame(j) /\ VolumeReady(j)' /\ sweep' = sweep
      BY <1>2, <1>t, <1>r DEF CreateNetworkStep, Create, otherThanCreate
    <2> QED
      BY <2>1, OneJob DEF TmpfsInv
  <1>3. CASE CreateVolumeStep(j)
    <2>1. VolumesSame(j) /\ VolumeReady(j)' /\ sweep' = sweep
      BY <1>3, <1>t, <1>r DEF CreateVolumeStep, CreateTmpfsVolume, NoVolume, Create,
         Volume, otherThanCreate
    <2> QED
      BY <2>1, OneJob DEF TmpfsInv
  <1>4. CASE CreateConnect(j)
    <2>1. VolumesSame(j) /\ VolumeReady(j)' /\ sweep' = sweep
      BY <1>4, <1>t, <1>r DEF CreateConnect, Create, otherThanCreate
    <2> QED
      BY <2>1, OneJob DEF TmpfsInv
  <1>5. CASE CreateBuild(j)
    <2>1. VolumesSame(j) /\ VolumeReady(j)' /\ sweep' = sweep
      BY <1>5, <1>t, <1>r DEF CreateBuild, Create, dockerVars, otherThanCreate
    <2> QED
      BY <2>1, OneJob DEF TmpfsInv
  <1>6. CASE CreateStart(j)
    <2>1. VolumesSame(j) /\ VolumeReady(j)' /\ sweep' = sweep
      BY <1>6, <1>t, <1>r DEF CreateStart, LaunchContainer, Create, otherThanCreate
    <2> QED
      BY <2>1, OneJob DEF TmpfsInv
  <1>7. CASE CreateWait(j)
    <2>1. VolumesSame(j) /\ VolumeReady(j)' /\ sweep' = sweep
      BY <1>7, <1>t, <1>r DEF CreateWait, Create, dockerVars, otherThanCreate
    <2> QED
      BY <2>1, OneJob DEF TmpfsInv
  <1>8. CASE CreateSeed(j)
    <2>1. VolumesSame(j) /\ VolumeReady(j)' /\ sweep' = sweep
      BY <1>8, <1>t, <1>r DEF CreateSeed, SeedVolume, Create, Volume, otherThanCreate
    <2> QED
      BY <2>1, OneJob DEF TmpfsInv
  <1>9. CASE CreatePublish(j)
    <2>1. VolumesSame(j) /\ VolumeReady(j)' /\ sweep' = sweep
      BY <1>9, <1>t, <1>r DEF CreatePublish, Create, dockerVars
    <2> QED
      BY <2>1, OneJob DEF TmpfsInv
  <1>10. CASE CreateKill(j) \/ CreateStop(j)
    <2>1. VolumesSame(j) /\ VolumeReady(j)' /\ sweep' = sweep
      BY <1>10, <1>t, <1>r DEF CreateKill, CreateStop, TerminateClient, StopContainer,
         Create, otherThanCreate
    <2> QED
      BY <2>1, OneJob DEF TmpfsInv
  <1>11. CASE CreateDisconnect(j) \/ CreateRemoveNetwork(j) \/ CreateFail(j) \/ CreateClean(j)
    <2>1. VolumesSame(j) /\ VolumeReady(j)' /\ sweep' = sweep
      BY <1>11, <1>t, <1>r DEF CreateDisconnect, CreateRemoveNetwork, CreateFail,
         CreateClean, Create, dockerVars, otherThanCreate
    <2> QED
      BY <2>1, OneJob DEF TmpfsInv
  <1>12. CASE CreateRemoveVolume(j)
    <2>1. VolumesSame(j) /\ VolumeReady(j)' /\ sweep' = sweep
      BY <1>12, <1>t, <1>r DEF CreateRemoveVolume, RemoveVolume, NoVolume, Create,
         otherThanCreate
    <2> QED
      BY <2>1, OneJob DEF TmpfsInv
  <1> QED
    BY <1>1, <1>2, <1>3, <1>4, <1>5, <1>6, <1>7, <1>8, <1>9, <1>10, <1>11, <1>12
       DEF CreateStep

-----------------------------------------------------------------------------
\* What removes a volume or a container of a published job keeps TmpfsInv.
LEMMA RemovalTmpfs ==
  ASSUME TmpfsInv, NEW j \in Jobs, create[j].pc = "ok",
         create' = create, sweep' = sweep,
         volume' = volume \/ volume' = [volume EXCEPT ![j] = NoVolume],
         container' = container \/ container' = [container EXCEPT ![j] = NoContainer],
         volume \in [Jobs -> Volume], container \in [Jobs -> Container]
  PROVE  TmpfsInv'
  <1>1. VolumesSame(j)
    BY DEF VolumesSame
  <1>2. VolumeReady(j)'
    BY DEF TmpfsInv, VolumeReady, NoVolume
  <1> QED
    BY <1>1, <1>2, OneJob DEF TmpfsInv

LEMMA FinalTmpfs ==
  ASSUME TypeOK, StopInv, TmpfsInv, NEW j \in Jobs, FinalStep(j)
  PROVE  TmpfsInv'
  <1>t. container \in [Jobs -> Container] /\ volume \in [Jobs -> Volume]
    BY DEF TypeOK, DockerTypeOK
  <1>1. final[j].pc # "none" /\ create' = create /\ container' = container
    BY FinalShapeHolds DEF FinalShape
  <1>2. create[j].pc = "ok"
    BY <1>1 DEF StopInv, Order, FinalAfterCreate
  <1>3. sweep' = sweep /\ (volume' = volume \/ volume' = [volume EXCEPT ![j] = NoVolume])
    BY <1>t DEF FinalStep, FinalWait, FinalLoad, FinalWrite, FinalDisconnect,
       FinalRemoveNetwork, FinalClean, FinalRemoveVolume, RemoveVolume, dockerVars,
       otherThanFinal
  <1> QED
    BY <1>t, <1>1, <1>2, <1>3, RemovalTmpfs

LEMMA CancelTmpfs ==
  ASSUME SweepEnabled = FALSE, TypeOK, StopInv, TmpfsInv, NEW c \in Cancels, CancelStep(c)
  PROVE  TmpfsInv'
  <1> DEFINE j == cancel[c].job
  <1>t. /\ container \in [Jobs -> Container] /\ volume \in [Jobs -> Volume]
        /\ j \in Jobs
    BY DEF TypeOK, DockerTypeOK, ManagerTypeOK, Cancel
  <1>1. cancel[c].pc # "idle" /\ create' = create
    BY CancelShapeHolds DEF CancelShape
  <1>2. create[j].pc = "ok"
    BY <1>1, <1>t DEF StopInv, Order, CancelAfterReturn, ReturnedIsOk
  <1>3. sweep' = sweep
    BY NoSweepStarts DEF TmpfsInv, CancelStep, CancelLoad, CancelTerminate, CancelStop,
       CancelDisconnect, CancelRemoveNetwork, CancelWrite, CancelClean,
       CancelRemoveVolume, otherThanCancel
  <1>4. volume' = volume \/ volume' = [volume EXCEPT ![j] = NoVolume]
    BY <1>t DEF CancelStep, CancelLoad, CancelTerminate, CancelStop, CancelDisconnect,
       CancelRemoveNetwork, CancelWrite, CancelClean, CancelRemoveVolume, RemoveVolume,
       dockerVars
  <1>5. container' = container \/ container' = [container EXCEPT ![j] = NoContainer]
    BY DEF CancelStep, CancelLoad, CancelTerminate, CancelStop, CancelDisconnect,
       CancelRemoveNetwork, CancelWrite, CancelClean, CancelRemoveVolume,
       TerminateClient, StopContainer, dockerVars
  <1> QED
    BY <1>t, <1>1, <1>2, <1>3, <1>4, <1>5, RemovalTmpfs

\* The daemon keeps TmpfsInv: a volume it creates is not seeded.
LEMMA DockerTmpfs ==
  ASSUME TypeOK, TmpfsInv, NEW j \in Jobs, DockerStep(j), create' = create, sweep' = sweep
  PROVE  TmpfsInv'
  <1>t. container \in [Jobs -> Container] /\ volume \in [Jobs -> Volume]
    BY DEF TypeOK, DockerTypeOK
  <1>r. VolumeReady(j)
    BY DEF TmpfsInv
  <1>1. VolumesSame(j) /\ VolumeReady(j)'
    <2>1. CASE ContainerComesUp(j)
      BY <2>1, <1>t, <1>r DEF ContainerComesUp, VolumesSame, VolumeReady, NoVolume,
         Container, Volume
    <2>2. CASE ContainerFailsToStart(j) \/ RunnerExits(j)
      BY <2>2, <1>t, <1>r DEF ContainerFailsToStart, RunnerExits, VolumesSame,
         VolumeReady, NoContainer
    <2> QED
      BY <2>1, <2>2 DEF DockerStep
  <1> QED
    BY <1>1, OneJob DEF TmpfsInv

\* Without the sweep there is no step of it.
LEMMA SweepTmpfs ==
  ASSUME sweep.pc = "off", SweepStep PROVE FALSE
  BY DEF SweepStep, SweepBegin, SweepListContainers, SweepListNetworks,
     SweepListVolumes, SweepList, SweepContainer, SweepNetwork, SweepVolume, SweepDone,
     SweepDirs

\* Only its POST /jobs concerns the volume, of the steps of the API.
LEMMA ApiTmpfs ==
  ASSUME TypeOK, StopInv, TmpfsInv, NEW j \in Jobs,
         ApiStep(j) \/ ApiRejects(j) \/ ApiUnreachable(j) \/ Watch(j)
           \/ ApiGet(j) \/ RetentionPasses(j)
  PROVE  TmpfsInv'
  <1>t. create \in [Jobs -> Create]
    BY DEF TypeOK, ManagerTypeOK
  <1>1. CASE ApiPost(j)
    <2>1. create[j].pc = "off"
      BY <1>1 DEF ApiPost, StopInv, Order, CreateAfterPost
    <2>2. VolumesSame(j) /\ VolumeReady(j)' /\ sweep' = sweep
      BY <1>1, <1>t, <2>1 DEF ApiPost, CreateTo, TmpfsInv, VolumesSame, VolumeReady,
         Create, dockerVars, otherThanCreate
    <2> QED
      BY <2>2, OneJob DEF TmpfsInv
  <1>2. CASE ~ApiPost(j)
    <2>1. UNCHANGED <<create, volume, container, sweep>>
      BY <1>2 DEF ApiStep, ApiRejects, ApiUnreachable, Watch, ApiGet, RetentionPasses,
         ApiStage, ApiQueue, ApiReturns, ApiStartFails, ApiErrorLoad, ApiErrorWrite,
         ApiErrorClean, dockerVars, managerVars
    <2> QED
      BY <2>1 DEF TmpfsInv, VolumeReady
  <1> QED
    BY <1>1, <1>2

LEMMA OtherTmpfs ==
  ASSUME SweepEnabled = FALSE, TypeOK, TmpfsInv,
         \/ \E c \in Cancels : (\E j \in Jobs : ApiCancel(c, j)) \/ ApiCancelReturns(c)
         \/ ManagerRequest \/ ManagerRestart \/ ApiConstructs \/ ApiRestart
  PROVE  TmpfsInv'
  <1>1. CASE ManagerRestart
    <2>1. sweep'.pc = "off" /\ volume' = volume /\ container' = container
      BY <1>1 DEF ManagerRestart, NoSweep
    <2>2. \A j \in Jobs : create'[j] = create[j] \/ create'[j].pc = "dead"
      BY <1>1 DEF ManagerRestart, NoCreate
    <2> QED
      BY <2>1, <2>2 DEF TmpfsInv, VolumeReady
  <1>2. CASE ~ManagerRestart
    <2>1. UNCHANGED <<create, volume, container, sweep>>
      BY <1>2 DEF ApiCancel, ApiCancelReturns, ManagerRequest, ApiConstructs, ApiRestart, dockerVars,
         managerVars
    <2> QED
      BY <2>1 DEF TmpfsInv, VolumeReady
  <1> QED
    BY <1>1, <1>2

-----------------------------------------------------------------------------
LEMMA InitTmpfs == Init => TmpfsInv
  BY DEF Init, DockerInit, ManagerInit, NoSweep, NoCreate, NoContainer, NoVolume,
     TmpfsInv, VolumeReady

LEMMA NextTmpfs ==
  ASSUME SweepEnabled = FALSE, TypeOK, StopInv, TmpfsInv, [Next]_vars
  PROVE  TmpfsInv'
  <1>1. CASE UNCHANGED vars
    BY <1>1 DEF vars, dockerVars, managerVars, TmpfsInv, VolumeReady
  <1>2. CASE Next
    <2>1. ASSUME NEW j \in Jobs,
                 \/ DockerStep(j) /\ UNCHANGED <<fileVars, managerVars, apiVars>>
                 \/ CreateStep(j) \/ FinalStep(j)
                 \/ ApiStep(j) \/ ApiRejects(j) \/ ApiUnreachable(j)
                 \/ Watch(j) \/ ApiGet(j) \/ RetentionPasses(j)
          PROVE  TmpfsInv'
      BY <2>1, DockerTmpfs, CreateTmpfs, FinalTmpfs, ApiTmpfs DEF managerVars
    <2>2. ASSUME NEW c \in Cancels, CancelStep(c) PROVE TmpfsInv'
      BY <2>2, CancelTmpfs
    <2>3. CASE SweepStep
      BY <2>3, SweepTmpfs DEF TmpfsInv
    <2>4. CASE \/ \E c \in Cancels : (\E j \in Jobs : ApiCancel(c, j)) \/ ApiCancelReturns(c)
               \/ ManagerRequest \/ ManagerRestart \/ ApiConstructs \/ ApiRestart
      BY <2>4, OtherTmpfs
    <2> QED
      BY <1>2, <2>1, <2>2, <2>3, <2>4 DEF Next
  <1> QED
    BY <1>1, <1>2

\* Where the sweep is disabled, secrets are copied only into tmpfs volumes, under
\* every fault, timeout and restart.
THEOREM TmpfsCorrect == SweepEnabled = FALSE => (Spec => []SecretsOnTmpfs)
  <1> SUFFICES ASSUME SweepEnabled = FALSE PROVE Spec => []SecretsOnTmpfs
    OBVIOUS
  <1>1. TmpfsInv => SecretsOnTmpfs
    BY DEF TmpfsInv, VolumeReady, SecretsOnTmpfs
  <1>2. TypeOK /\ StopInv /\ TmpfsInv /\ [Next]_vars => TmpfsInv'
    BY NextTmpfs
  <1> QED
    BY <1>1, <1>2, InitTmpfs, TypeCorrect, OrderCorrect, PTL DEF Spec

-----------------------------------------------------------------------------
(* The staged secret files.  Each process that may leave a job leaves its    *)
(* files to another one: the watcher while the API lives, the finalizer      *)
(* while the manager does, and the service of a restarted API keeps the files  *)
(* of running jobs only, which are published and so have a finalizer.        *)

\* Files are staged by the API alone, before job.json says anything, and no
\* handler that has passed its clean-up leaves them.
FilesOfJob(j) ==
  /\ staged[j] => api[j].pc # "none"
  /\ meta[j].old => api[j].pc \in ApiOver /\ meta[j].status \in Terminal
  /\ meta[j].status = "absent" /\ staged[j] => api[j].pc \in {"staged", "dead"}
  /\ api[j].pc = "queued" => meta[j].status = "queued"
  /\ api[j].pc = "rejected" => create[j].pc = "off" /\ meta[j].status = "queued"
  /\ api[j].pc = "failed" => ~staged[j]
  /\ final[j].pc \in {"rmvol", "done"} => ~staged[j]

\* As long as the API has not restarted, a returned job is watched.
WatchedByApi(j) ==
  apiRestarts = 0 => /\ api[j].pc # "dead"
                     /\ api[j].pc = "returned" => watched[j] \/ ~staged[j]

\* As long as the manager has not, a published job has its finalizer.
FinalizedByManager(j) ==
  managerRestarts = 0 => /\ create[j].pc # "dead"
                         /\ create[j].pc = "ok" => final[j].pc # "none"
                         /\ built /\ api[j].pc = "dead" /\ staged[j]
                              => create[j].pc = "ok"

OldIsUnstaged(j) ==
  UnstagedBy => (meta[j].old => ~staged[j])

FilesInv(j) ==
  FilesOfJob(j) /\ WatchedByApi(j) /\ FinalizedByManager(j) /\ OldIsUnstaged(j)

UnstagedInv == \A j \in Jobs : FilesInv(j)

\* A step that changes nothing of the other jobs, and restarts nothing.
FilesSame(j) ==
  /\ \A k \in Jobs \ {j} : /\ api'[k] = api[k]
                           /\ create'[k] = create[k]
                           /\ final'[k] = final[k]
                           /\ meta'[k] = meta[k]
                           /\ staged'[k] = staged[k]
                           /\ watched'[k] = watched[k]
  /\ managerRestarts' = managerRestarts /\ apiRestarts' = apiRestarts /\ built' = built

LEMMA OneJobsFiles ==
  ASSUME UnstagedInv, NEW j \in Jobs, FilesSame(j), FilesInv(j)'
  PROVE  UnstagedInv'
  BY DEF UnstagedInv, FilesInv, FilesOfJob, WatchedByApi, FinalizedByManager,
     OldIsUnstaged, UnstagedBy, FilesSame
\* What any step of the create handler does to the files of its job: it answers
\* only with a finalizer started, or for a job that runs already.
CreateFilesEffect(j) ==
  /\ staged'[j] => staged[j]
  /\ \/ meta'[j] = meta[j]
     \/ meta'[j].status \in {"running", "failed"} /\ meta'[j].old = FALSE
  /\ create'[j].pc # "dead"
  /\ final'[j] = final[j] \/ final'[j].pc = "wait"
  /\ create'[j].pc = "ok" => meta[j].status = "running" \/ final'[j].pc = "wait"
  /\ managerRestarts' = managerRestarts

LEMMA CreateFilesEffectHolds ==
  ASSUME TypeOK, NEW j \in Jobs, CreateStep(j)
  PROVE  CreateFilesEffect(j)
  <1>t. /\ meta \in [Jobs -> Meta] /\ staged \in [Jobs -> BOOLEAN]
        /\ create \in [Jobs -> Create] /\ final \in [Jobs -> Final]
    BY DEF TypeOK, ManagerTypeOK
  <1> USE DEF CreateFilesEffect, Create, Meta, Final
  <1>1. CASE CreateLoad(j)
    BY <1>1, <1>t DEF CreateLoad, fileVars
  <1>2. CASE CreateNetworkStep(j)
    BY <1>2, <1>t DEF CreateNetworkStep, CreateTo, fileVars, otherThanCreate
  <1>3. CASE CreateVolumeStep(j)
    BY <1>3, <1>t DEF CreateVolumeStep, CreateTo, CreateFaults, fileVars, otherThanCreate
  <1>4. CASE CreateConnect(j)
    <2>1. create'[j].pc \in {"build", "connect", "disconnect"}
      BY <1>4, <1>t DEF CreateConnect, CreateFaults
    <2> QED
      BY <1>4, <2>1 DEF CreateConnect, fileVars, otherThanCreate
  <1>5. CASE CreateBuild(j)
    BY <1>5, <1>t DEF CreateBuild, CreateTo, CreateFaults, fileVars, otherThanCreate
  <1>6. CASE CreateStart(j)
    BY <1>6, <1>t DEF CreateStart, CreateTo, CreateFaults, fileVars, otherThanCreate
  <1>7. CASE CreateWait(j)
    BY <1>7, <1>t DEF CreateWait, CreateTo, CreateFaults, fileVars, otherThanCreate
  <1>8. CASE CreateSeed(j)
    BY <1>8, <1>t DEF CreateSeed, CreateTo, CreateFaults, fileVars, otherThanCreate
  <1>9. CASE CreatePublish(j)
    BY <1>9, <1>t DEF CreatePublish, CreateTo, WriteMeta, NoFinal
  <1>10. CASE CreateKill(j)
    BY <1>10, <1>t DEF CreateKill, CreateTo, fileVars, otherThanCreate
  <1>11. CASE CreateStop(j)
    BY <1>11, <1>t DEF CreateStop, CreateTo, fileVars, otherThanCreate
  <1>12. CASE CreateDisconnect(j)
    BY <1>12, <1>t DEF CreateDisconnect, CreateTo, fileVars, otherThanCreate
  <1>13. CASE CreateRemoveNetwork(j)
    BY <1>13, <1>t DEF CreateRemoveNetwork, CreateTo, fileVars, otherThanCreate
  <1>14. CASE CreateFail(j)
    BY <1>14, <1>t DEF CreateFail, CreateTo, WriteMeta, otherThanCreate
  <1>15. CASE CreateClean(j)
    BY <1>15, <1>t DEF CreateClean, CreateTo, otherThanCreate
  <1>16. CASE CreateRemoveVolume(j)
    BY <1>16, <1>t DEF CreateRemoveVolume, CreateTo, fileVars, otherThanCreate
  <1> QED
    BY <1>1, <1>2, <1>3, <1>4, <1>5, <1>6, <1>7, <1>8, <1>9, <1>10, <1>11, <1>12, <1>13, <1>14, <1>15, <1>16 DEF CreateStep

LEMMA CreateFiles ==
  ASSUME TypeOK, StopInv, UnstagedInv, NEW j \in Jobs, CreateStep(j), UNCHANGED apiVars
  PROVE  UnstagedInv'
  <1>1. CreateFilesEffect(j) /\ CreateShape(j)
    BY CreateFilesEffectHolds, CreateShapeHolds
  <1>2. api' = api /\ watched' = watched /\ apiRestarts' = apiRestarts /\ built' = built
    BY DEF apiVars
  <1>3. FilesSame(j)
    BY <1>1, <1>2 DEF CreateShape, OthersSame, FilesSame, CreateFilesEffect
  <1>4. /\ final[j].pc = "none" /\ api[j].pc \notin {"queued", "staged"}
        /\ meta[j].status # "running" /\ create[j].pc \notin CreateOver
    BY <1>1 DEF CreateShape, StopInv, Order, FinalAfterCreate, CreateAfterPost, Published,
       RunningIsPublished, CreateOver
  <1>5. FilesInv(j)
    BY DEF UnstagedInv
  <1>6. FilesOfJob(j)'
    BY <1>1, <1>2, <1>4, <1>5 DEF CreateFilesEffect, FilesInv, FilesOfJob, CreateOver
  <1>7. (WatchedByApi(j) /\ FinalizedByManager(j) /\ OldIsUnstaged(j))'
    BY <1>1, <1>2, <1>3, <1>4, <1>5 DEF CreateFilesEffect, FilesInv, FilesSame,
       WatchedByApi, FinalizedByManager, OldIsUnstaged, UnstagedBy, CreateOver
  <1> QED
    BY <1>3, <1>6, <1>7, OneJobsFiles DEF FilesInv

\* The finalizer never leaves the clean-up with files staged; and no step of it,
\* or of a cancel, writes a status the job had before its end.
EndFilesEffect(j) ==
  /\ staged'[j] => staged[j]
  /\ \/ meta'[j] = meta[j]
     \/ meta'[j].status \in Terminal /\ meta'[j].old = FALSE
  /\ managerRestarts' = managerRestarts

LEMMA FinalFilesEffectHolds ==
  ASSUME TypeOK, NEW j \in Jobs, FinalStep(j)
  PROVE  /\ EndFilesEffect(j)
         /\ final'[j].pc # "none"
         /\ final'[j].pc \in {"rmvol", "done"} => ~staged'[j] \/ final[j].pc = "rmvol"
  <1>t. /\ meta \in [Jobs -> Meta] /\ staged \in [Jobs -> BOOLEAN]
        /\ final \in [Jobs -> Final]
    BY DEF TypeOK, ManagerTypeOK
  <1> USE DEF EndFilesEffect, Final, Meta, FinalTo
  <1>1. CASE FinalWait(j)
    BY <1>1, <1>t DEF FinalWait, fileVars, otherThanFinal
  <1>2. CASE FinalLoad(j)
    BY <1>2, <1>t DEF FinalLoad, fileVars, otherThanFinal
  <1>3. CASE FinalWrite(j)
    BY <1>3, <1>t DEF FinalWrite, WriteMeta, Terminal, otherThanFinal
  <1>4. CASE FinalDisconnect(j)
    BY <1>4, <1>t DEF FinalDisconnect, fileVars, otherThanFinal
  <1>5. CASE FinalRemoveNetwork(j)
    BY <1>5, <1>t DEF FinalRemoveNetwork, fileVars, otherThanFinal
  <1>6. CASE FinalClean(j)
    BY <1>6, <1>t DEF FinalClean, otherThanFinal
  <1>7. CASE FinalRemoveVolume(j)
    BY <1>7, <1>t DEF FinalRemoveVolume, fileVars, otherThanFinal
  <1> QED
    BY <1>1, <1>2, <1>3, <1>4, <1>5, <1>6, <1>7 DEF FinalStep

\* Such a step of a job that is past its create keeps UnstagedInv.
LEMMA EndFiles ==
  ASSUME UnstagedInv, NEW j \in Jobs, EndFilesEffect(j), FilesSame(j),
         api' = api, watched' = watched, create' = create,
         create[j].pc = "ok", api[j].pc \notin {"queued", "staged"},
         final'[j] = final[j]
           \/ /\ final'[j].pc # "none"
              /\ final'[j].pc \in {"rmvol", "done"} => ~staged'[j] \/ final[j].pc = "rmvol"
  PROVE  UnstagedInv'
  <1>1. FilesInv(j)
    BY DEF UnstagedInv
  <1>2. FilesOfJob(j)'
    BY <1>1 DEF EndFilesEffect, FilesInv, FilesOfJob, Terminal
  <1>3. (WatchedByApi(j) /\ FinalizedByManager(j) /\ OldIsUnstaged(j))'
    BY <1>1 DEF EndFilesEffect, FilesInv, FilesSame, WatchedByApi, FinalizedByManager,
       OldIsUnstaged, UnstagedBy
  <1> QED
    BY <1>2, <1>3, OneJobsFiles DEF FilesInv

LEMMA FinalFiles ==
  ASSUME TypeOK, StopInv, UnstagedInv, NEW j \in Jobs, FinalStep(j), UNCHANGED apiVars
  PROVE  UnstagedInv'
  <1>1. FinalShape(j) /\ EndFilesEffect(j)
    BY FinalShapeHolds, FinalFilesEffectHolds
  <1>2. api' = api /\ watched' = watched /\ apiRestarts' = apiRestarts /\ built' = built
    BY DEF apiVars
  <1>3. create' = create /\ create[j].pc = "ok" /\ api[j].pc \notin {"queued", "staged"}
    BY <1>1 DEF FinalShape, StopInv, Order, FinalAfterCreate, CreateAfterPost
  <1>4. FilesSame(j)
    BY <1>1, <1>2 DEF FinalShape, OthersSame, FilesSame, EndFilesEffect
  <1> QED
    BY <1>1, <1>2, <1>3, <1>4, FinalFilesEffectHolds, EndFiles

LEMMA CancelFiles ==
  ASSUME TypeOK, StopInv, UnstagedInv, NEW c \in Cancels, CancelStep(c), UNCHANGED apiVars
  PROVE  UnstagedInv'
  <1> DEFINE j == cancel[c].job
  <1>t. /\ meta \in [Jobs -> Meta] /\ staged \in [Jobs -> BOOLEAN]
        /\ cancel \in [Cancels -> Cancel] /\ j \in Jobs
    BY DEF TypeOK, ManagerTypeOK, Cancel
  <1>1. CancelShape(c)
    BY CancelShapeHolds
  <1>2. EndFilesEffect(j)
    <2> USE DEF EndFilesEffect, Cancel, Meta
    <2>1. CASE CancelLoad(c) \/ CancelTerminate(c) \/ CancelStop(c) \/ CancelDisconnect(c)
      BY <2>1, <1>t DEF CancelLoad, CancelTerminate, CancelStop, CancelDisconnect,
         fileVars, otherThanCancel
    <2>2. CASE CancelRemoveNetwork(c) \/ CancelRemoveVolume(c)
      BY <2>2, <1>t DEF CancelRemoveNetwork, CancelRemoveVolume, fileVars, otherThanCancel
    <2>3. CASE CancelWrite(c)
      BY <2>3, <1>t DEF CancelWrite, WriteMeta, Terminal, otherThanCancel
    <2>4. CASE CancelClean(c)
      BY <2>4, <1>t DEF CancelClean, otherThanCancel
    <2> QED
      BY <2>1, <2>2, <2>3, <2>4 DEF CancelStep
  <1>3. api' = api /\ watched' = watched /\ apiRestarts' = apiRestarts /\ built' = built
    BY DEF apiVars
  <1>4. create' = create /\ final' = final /\ FilesSame(j)
    BY <1>1, <1>2, <1>3 DEF CancelShape, OthersSame, FilesSame, EndFilesEffect
  <1>5. api[j].pc = "returned" /\ create[j].pc = "ok"
    BY <1>1, <1>t DEF CancelShape, StopInv, Order, CancelAfterReturn, ReturnedIsOk
  <1> HIDE DEF j
  <1> QED
    BY <1>t, <1>2, <1>3, <1>4, <1>5, EndFiles


\* The sweep removes the files of a job with its job.json.
LEMMA SweepFiles ==
  ASSUME TypeOK, StopInv, UnstagedInv, SweepStep, UNCHANGED apiVars
  PROVE  UnstagedInv'
  <1>t. staged \in [Jobs -> BOOLEAN]
    BY DEF TypeOK, ManagerTypeOK
  <1>1. SweepShape
    BY SweepShapeHolds
  <1>2. managerRestarts' = managerRestarts
    BY DEF SweepStep, SweepBegin, SweepListContainers, SweepListNetworks, SweepListVolumes,
       SweepList, SweepContainer, SweepNetwork, SweepVolume, SweepDone, SweepDirs,
       otherThanSweep
  <1>3. \A k \in Jobs :
          \/ meta'[k] = meta[k] /\ staged'[k] = staged[k]
          \/ meta[k].status \in Terminal /\ meta'[k] = NoMeta /\ staged'[k] = FALSE
    <2>1. CASE SweepDirs
      BY <2>1, <1>t DEF SweepDirs
    <2>2. CASE ~SweepDirs
      <3>1. meta' = meta /\ staged' = staged
        BY <2>2 DEF SweepStep, SweepBegin, SweepListContainers, SweepListNetworks,
           SweepListVolumes, SweepList, SweepContainer, SweepNetwork, SweepVolume,
           SweepDone, fileVars
      <3> QED
        BY <3>1
    <2> QED
      BY <2>1, <2>2
  <1>4. api' = api /\ watched' = watched /\ apiRestarts' = apiRestarts /\ built' = built
    BY DEF apiVars
  <1>5. ASSUME NEW k \in Jobs PROVE FilesInv(k)'
    <2>1. FilesInv(k)
      BY DEF UnstagedInv
    <2>2. api[k].pc = "staged" => meta[k].status = "absent"
      BY DEF StopInv, Published, FreshFiles
    <2>3. create'[k] = create[k] /\ final'[k] = final[k]
      BY <1>1 DEF SweepShape
    <2>4. CASE meta'[k] = meta[k] /\ staged'[k] = staged[k]
      BY <1>2, <1>4, <2>1, <2>3, <2>4 DEF FilesInv, FilesOfJob, WatchedByApi,
         FinalizedByManager, OldIsUnstaged, UnstagedBy
    <2>5. CASE meta[k].status \in Terminal /\ meta'[k] = NoMeta /\ staged'[k] = FALSE
      <3>1. FilesOfJob(k)'
        BY <1>4, <2>1, <2>3, <2>5 DEF FilesInv, FilesOfJob, Terminal, NoMeta
      <3>2. (WatchedByApi(k) /\ FinalizedByManager(k) /\ OldIsUnstaged(k))'
        BY <1>2, <1>4, <2>1, <2>3, <2>5 DEF FilesInv, WatchedByApi, FinalizedByManager,
           OldIsUnstaged, UnstagedBy
      <3> QED
        BY <3>1, <3>2 DEF FilesInv
    <2> QED
      BY <1>3, <2>4, <2>5
  <1> QED
    BY <1>5 DEF UnstagedInv

\* The API: each of its steps, on the files of its job.
ApiFilesSteps(j) ==
  ApiStep(j) \/ ApiRejects(j) \/ ApiUnreachable(j) \/ Watch(j) \/ ApiGet(j)
    \/ RetentionPasses(j)

LEMMA ApiFiles ==
  ASSUME TypeOK, StopInv, UnstagedInv, NEW j \in Jobs, ApiFilesSteps(j)
  PROVE  UnstagedInv'
  <1>t. /\ meta \in [Jobs -> Meta] /\ staged \in [Jobs -> BOOLEAN]
        /\ create \in [Jobs -> Create] /\ api \in [Jobs -> Api]
        /\ watched \in [Jobs -> BOOLEAN]
    BY DEF TypeOK, ManagerTypeOK
  <1>s. ApiShape(j)
    BY ApiShapeHolds DEF ApiFilesSteps
  <1>i. FilesInv(j)
    BY DEF UnstagedInv
  <1>o. /\ api[j].pc \in {"none", "staged", "queued"} => create[j].pc = "off"
        /\ api[j].pc \in {"none", "staged"} => meta[j].status = "absent"
        /\ create[j].pc # "ok" => final[j].pc = "none"
        /\ api[j].pc = "queued" => staged[j]
        /\ api[j].pc = "returned" => create[j].pc = "ok"
    BY DEF StopInv, Order, CreateAfterPost, FinalAfterCreate, ReturnedIsOk, Published,
       FreshFiles
  <1>f. FilesSame(j)
    <2>1. managerRestarts' = managerRestarts /\ apiRestarts' = apiRestarts /\ built' = built
      BY DEF ApiFilesSteps, ApiStep, ApiStage, ApiQueue, ApiPost, ApiReturns,
         ApiStartFails, ApiErrorLoad, ApiErrorWrite, ApiErrorClean, ApiRejects,
         ApiUnreachable, Watch, ApiGet, RetentionPasses, managerVars, otherThanCreate,
         apiVars
    <2> QED
      BY <1>s, <2>1 DEF ApiShape, FilesSame
  <1> USE DEF FilesInv, FilesOfJob, WatchedByApi, FinalizedByManager, OldIsUnstaged, UnstagedBy
  <1> SUFFICES FilesInv(j)'
    BY <1>f, OneJobsFiles
  <1>1. CASE ApiStage(j)
    BY <1>1, <1>t, <1>i, <1>o DEF ApiStage, ApiTo, Api, managerVars, ApiOver
  <1>2. CASE ApiQueue(j)
    BY <1>2, <1>t, <1>i, <1>o DEF ApiQueue, ApiTo, WriteMeta, NoMeta, Api, managerVars, ApiOver
  <1>3. CASE ApiRejects(j)
    BY <1>3, <1>t, <1>i, <1>o DEF ApiRejects, ApiTo, Api, managerVars, fileVars, ApiOver
  <1>4. CASE ApiPost(j)
    BY <1>4, <1>t, <1>i, <1>o DEF ApiPost, ApiTo, CreateTo, Api, Create, fileVars,
       otherThanCreate, ApiOver
  <1>5. CASE ApiUnreachable(j)
    BY <1>5, <1>t, <1>i, <1>o DEF ApiUnreachable, ApiTo, Api, managerVars, fileVars, ApiOver
  <1>6. CASE ApiReturns(j)
    BY <1>6, <1>t, <1>i, <1>o DEF ApiReturns, ApiTo, Api, managerVars, fileVars, ApiOver
  <1>7. CASE ApiStartFails(j)
    BY <1>7, <1>t, <1>i, <1>o DEF ApiStartFails, ApiTo, Api, managerVars, fileVars, ApiOver
  <1>8. CASE ApiErrorLoad(j)
    BY <1>8, <1>t, <1>i, <1>o DEF ApiErrorLoad, Api, managerVars, fileVars, ApiOver
  <1>9. CASE ApiErrorWrite(j)
    BY <1>9, <1>t, <1>i, <1>o DEF ApiErrorWrite, ApiTo, WriteMeta, Api, Meta, managerVars, ApiOver
  <1>10. CASE ApiErrorClean(j)
    BY <1>10, <1>t, <1>i, <1>o DEF ApiErrorClean, ApiTo, Api, managerVars, ApiOver
  <1>11. CASE Watch(j)
    BY <1>11, <1>t, <1>i, <1>o DEF Watch, managerVars, StopInv, Order, WatchAfterReturn
  <1>12. CASE ApiGet(j)
    BY <1>12, <1>t, <1>i, <1>o DEF ApiGet, apiVars, managerVars
  <1>13. CASE RetentionPasses(j)
    <2>1. staged'[j] = staged[j] /\ meta'[j].status = meta[j].status
      BY <1>13, <1>t DEF RetentionPasses, Meta
    <2>2. UNCHANGED <<api, create, final, watched, managerRestarts, built, apiRestarts>>
      BY <1>13 DEF RetentionPasses, managerVars, apiVars
    <2>3. /\ api[j].pc \in ApiOver /\ create[j].pc \in CreateOver /\ ~watched[j]
          /\ final[j].pc \in {"none", "done"} /\ meta[j].status \in Terminal
      BY <1>13 DEF RetentionPasses, Quiet
    <2>4. UnstagedBy => ~staged[j]
      BY <2>3, <1>i, <1>o DEF ApiOver, Terminal
    <2> QED
      BY <2>1, <2>2, <2>3, <2>4, <1>i
  <1> QED
    BY <1>1, <1>2, <1>3, <1>4, <1>5, <1>6, <1>7, <1>8, <1>9, <1>10, <1>11, <1>12, <1>13
       DEF ApiFilesSteps, ApiStep

\* Steps that touch no file, nor the handlers that remove them.
LEMMA OtherFiles ==
  ASSUME UnstagedInv, UNCHANGED <<fileVars, create, final, managerRestarts, api, watched,
                                  built, apiRestarts>>
  PROVE  UnstagedInv'
  BY DEF UnstagedInv, FilesInv, FilesOfJob, WatchedByApi, FinalizedByManager,
     OldIsUnstaged, UnstagedBy, fileVars

\* A restarted manager has lost its finalizers.
LEMMA ManagerRestartFiles ==
  ASSUME TypeOK, StopInv, UnstagedInv, ManagerRestart
  PROVE  UnstagedInv'
  <1>1. /\ meta' = meta /\ staged' = staged /\ api' = api /\ watched' = watched
        /\ apiRestarts' = apiRestarts /\ built' = built /\ managerRestarts' # 0
    BY DEF ManagerRestart, fileVars, apiVars, TypeOK, ManagerTypeOK
  <1>2. ASSUME NEW j \in Jobs PROVE FilesInv(j)'
    <2>1. final'[j].pc = "none" /\ (create[j].pc = "off" => create'[j] = create[j])
      BY DEF ManagerRestart, NoFinal, CreateOver
    <2>2. FilesInv(j)
      BY DEF UnstagedInv
    <2> QED
      BY <1>1, <2>1, <2>2 DEF FilesInv, FilesOfJob, WatchedByApi, FinalizedByManager,
         OldIsUnstaged, UnstagedBy
  <1> QED
    BY <1>2 DEF UnstagedInv

\* A restarted API has no service yet: it owes the clean-up.
LEMMA ApiRestartFiles ==
  ASSUME TypeOK, StopInv, UnstagedInv, ApiRestart
  PROVE  UnstagedInv'
  <1>t. api \in [Jobs -> Api]
    BY DEF TypeOK
  <1>1. /\ meta' = meta /\ staged' = staged /\ create' = create /\ final' = final
        /\ managerRestarts' = managerRestarts /\ apiRestarts' # 0 /\ ~built'
    BY DEF ApiRestart, fileVars, managerVars, TypeOK
  <1>2. ASSUME NEW j \in Jobs PROVE FilesInv(j)'
    <2>1. \/ api[j].pc \in ApiOver \cup {"none"} /\ api'[j] = api[j]
          \/ api[j].pc \notin ApiOver /\ api'[j].pc = "dead"
      BY <1>t DEF ApiRestart, NoApi, Api
    <2>2. FilesInv(j)
      BY DEF UnstagedInv
    <2> QED
      BY <1>1, <2>1, <2>2 DEF FilesInv, FilesOfJob, WatchedByApi,
         FinalizedByManager, OldIsUnstaged, UnstagedBy, ApiOver
  <1> QED
    BY <1>2 DEF UnstagedInv

\* Its service keeps the files of running jobs only; they are published.
LEMMA ApiConstructsFiles ==
  ASSUME TypeOK, StopInv, UnstagedInv, ApiConstructs
  PROVE  UnstagedInv'
  <1>1. /\ meta' = meta /\ create' = create /\ final' = final /\ api' = api
        /\ managerRestarts' = managerRestarts /\ apiRestarts' = apiRestarts
        /\ watched' = watched
    BY DEF ApiConstructs, managerVars
  <1>2. ASSUME NEW j \in Jobs PROVE FilesInv(j)'
    <2>1. staged'[j] => staged[j] /\ meta[j].status = "running"
      BY DEF ApiConstructs
    <2>2. FilesInv(j) /\ (meta[j].status = "running" => create[j].pc = "ok")
      BY DEF UnstagedInv, StopInv, Published, RunningIsPublished
    <2> QED
      BY <1>1, <2>1, <2>2 DEF FilesInv, FilesOfJob, WatchedByApi,
         FinalizedByManager, OldIsUnstaged, UnstagedBy, Terminal
  <1> QED
    BY <1>2 DEF UnstagedInv

LEMMA InitFiles == Init => UnstagedInv
  BY DEF Init, ManagerInit, NoApi, NoCreate, NoFinal, NoMeta, UnstagedInv, FilesInv,
     FilesOfJob, WatchedByApi, FinalizedByManager, OldIsUnstaged, UnstagedBy

LEMMA NextFiles == TypeOK /\ StopInv /\ UnstagedInv /\ [Next]_vars => UnstagedInv'
  <1> SUFFICES ASSUME TypeOK, StopInv, UnstagedInv, [Next]_vars PROVE UnstagedInv'
    OBVIOUS
  <1>1. CASE UNCHANGED vars
    BY <1>1, OtherFiles DEF vars, managerVars, apiVars
  <1>2. CASE Next
    <2>1. ASSUME NEW j \in Jobs, DockerStep(j) /\ UNCHANGED <<fileVars, managerVars, apiVars>>
          PROVE  UnstagedInv'
      BY <2>1, OtherFiles DEF managerVars, apiVars
    <2>2. ASSUME NEW j \in Jobs,
                 (CreateStep(j) /\ UNCHANGED apiVars) \/ (FinalStep(j) /\ UNCHANGED apiVars)
          PROVE  UnstagedInv'
      BY <2>2, CreateFiles, FinalFiles
    <2>3. ASSUME NEW j \in Jobs, ApiFilesSteps(j) PROVE UnstagedInv'
      BY <2>3, ApiFiles
    <2>4. ASSUME NEW j \in Jobs, NEW c \in Cancels, ApiCancel(c, j) PROVE UnstagedInv'
      BY <2>4, OtherFiles DEF ApiCancel, apiVars
    <2>5. ASSUME NEW c \in Cancels, CancelStep(c) /\ UNCHANGED apiVars PROVE UnstagedInv'
      BY <2>5, CancelFiles
    <2>6. ASSUME NEW c \in Cancels, ApiCancelReturns(c) PROVE UnstagedInv'
      BY <2>6, OtherFiles DEF ApiCancelReturns
    <2>7. CASE SweepStep /\ UNCHANGED apiVars
      BY <2>7, SweepFiles
    <2>8. CASE ManagerRequest
      BY <2>8, OtherFiles DEF ManagerRequest, apiVars
    <2>9. CASE ManagerRestart \/ ApiConstructs \/ ApiRestart
      BY <2>9, ManagerRestartFiles, ApiConstructsFiles, ApiRestartFiles
    <2> QED
      BY <1>2, <2>1, <2>2, <2>3, <2>4, <2>5, <2>6, <2>7, <2>8, <2>9
         DEF Next, ApiFilesSteps
  <1> QED
    BY <1>1, <1>2

\* The secret files of an ended job are removed by its own handlers or its watcher,
\* or by the first deployments request after a restart of the API, whatever else
\* fails, unless both processes restart.
THEOREM EndedFilesAreRemoved == Spec => []EndedIsUnstaged
  <1>1. UnstagedInv => EndedIsUnstaged
    BY DEF UnstagedInv, FilesInv, OldIsUnstaged, UnstagedBy, EndedIsUnstaged
  <1> QED
    BY <1>1, TypeCorrect, OrderCorrect, InitFiles, NextFiles, PTL DEF Spec

-----------------------------------------------------------------------------
(* Release.  The finalizer and any number of cancels undo the same things at *)
(* once, and each call of theirs that fails is swallowed: the network cannot *)
(* go while the container is up, nor the volume while it is mounted.  So one *)
(* of them may pass a step in vain, and the argument is that it then leaves  *)
(* the work to another one: a finalizer that runs although the container is  *)
(* up owes this to a cancel between its SIGTERM and its docker stop, and     *)
(* that cancel has everything else still before it.  It needs that all of    *)
(* them know the same targets and the same volume, as job.json said when the *)
(* job was published.                                                        *)

\* Faults under which more is left than the handlers can know of: a call of the
\* create handler that fails half way, a manager that loses its threads, and an
\* API that overwrites the targets in job.json because it waited no longer.
HandlersSuffice ==
  /\ SweepEnabled = FALSE
  /\ Faults \cap {"client_timeout", "connect", "docker", "manager_restart"} = {}

Undoing == {"kill", "stop", "disconnect", "rmnet", "fail", "clean", "rmvol"}

\* The create handler meets its network free, keeps it while it attaches the
\* targets, and when it gives up has everything removed by its last step.
CreateClears(j) ==
  LET pc == create[j].pc
  IN  /\ pc # "dead"
      /\ pc = "off" => meta[j].status \notin Terminal
      /\ pc = "load" => meta[j].status # "absent"
      /\ pc \in {"off", "load", "network"} => ~network[j]
      /\ pc \in {"volume", "connect"} => network[j]
      /\ pc \in {"build", "start", "wait", "seed", "publish", "kill", "stop", "disconnect"}
           => create[j].got = Targets
      /\ pc \in Undoing => create[j].fault = "seed"
      /\ pc \in Undoing \cup {"raised"} => container[j].state = "none"
      /\ pc \in {"rmnet", "fail", "clean", "rmvol", "raised"} => attached[j] = {}
      /\ pc \in {"fail", "clean", "rmvol", "raised"} => ~network[j]
      /\ pc \in {"rmvol", "raised"} => ~staged[j]
      /\ pc = "raised" => volume[j] = NoVolume
      /\ api[j].pc \in {"err_load", "err_write", "err_clean"} => pc = "raised"

\* A volume is there only for a handler that mounts it, which waits for the
\* container before it goes on.
VolumeIsMounted(j) ==
  /\ create[j].pc \in {"off", "load"} => ~create[j].vol
  /\ ~create[j].vol => volume[j] = NoVolume /\ ~container[j].vol
  /\ create[j].pc \in {"seed", "publish", "ok"} /\ container[j].state = "starting"
       => ~create[j].vol

\* What is published is what the handlers of the job hold.
Recorded(m, j) == m.targets = Targets /\ m.vol = create[j].vol

Records(j) ==
  /\ create[j].pc = "ok" => Recorded(meta[j], j)
  /\ final[j].pc \notin {"none", "wait", "load"} => Recorded(final[j].meta, j)
  /\ \A c \in Cancels : cancel[c].job = j /\ cancel[c].pc \notin {"idle", "load", "reply"}
                          => Recorded(cancel[c].meta, j)

\* Some cancel of the job is at one of these steps.
CancelAt(j, pcs) == \E c \in Cancels : cancel[c].job = j /\ cancel[c].pc \in pcs

\* What the finalizer has left behind, a cancel still removes.
EndClears(j) ==
  /\ final[j].pc \notin {"none", "wait"} => ClientExited(j)
  /\ ClientExited(j) /\ container[j].state # "none" => CancelAt(j, {"stop"})
  /\ final[j].pc \in {"rmnet", "clean", "rmvol", "done"} => attached[j] = {}
  /\ final[j].pc \in {"clean", "rmvol", "done"} /\ network[j]
       => CancelAt(j, {"stop", "disconnect", "rmnet"})
  /\ final[j].pc = "done" /\ volume[j] # NoVolume
       => CancelAt(j, {"stop", "disconnect", "rmnet", "write", "clean", "rmvol"})

ReleaseInv ==
  \A j \in Jobs : CreateClears(j) /\ VolumeIsMounted(j) /\ Records(j) /\ EndClears(j)

\* A step that changes nothing of the other jobs, nor of their cancels.
JobsSame(j) ==
  /\ \A k \in Jobs \ {j} :
       /\ container'[k] = container[k] /\ client'[k] = client[k]
       /\ network'[k] = network[k] /\ attached'[k] = attached[k]
       /\ volume'[k] = volume[k]
       /\ meta'[k] = meta[k] /\ staged'[k] = staged[k] /\ api'[k] = api[k]
       /\ create'[k] = create[k] /\ final'[k] = final[k]
  /\ \A c \in Cancels :
       \/ cancel'[c] = cancel[c]
       \/ (cancel[c].pc = "idle" \/ cancel[c].job = j) /\ cancel'[c].job = j

LEMMA OneJobReleased ==
  ASSUME ReleaseInv, NEW j \in Jobs, JobsSame(j),
         CreateClears(j)', VolumeIsMounted(j)', Records(j)', EndClears(j)'
  PROVE  ReleaseInv'
  <1> SUFFICES ASSUME NEW k \in Jobs \ {j}
               PROVE  (CreateClears(k) /\ VolumeIsMounted(k) /\ Records(k) /\ EndClears(k))'
    BY DEF ReleaseInv
  <1>1. CreateClears(k) /\ VolumeIsMounted(k) /\ Records(k) /\ EndClears(k)
    BY DEF ReleaseInv
  <1>2. (CreateClears(k) /\ VolumeIsMounted(k))'
    BY <1>1 DEF JobsSame, CreateClears, VolumeIsMounted
  <1>3. Records(k)'
    BY <1>1 DEF JobsSame, Records, Recorded
  <1>4. ASSUME NEW pcs, "idle" \notin pcs, CancelAt(k, pcs) PROVE CancelAt(k, pcs)'
    BY <1>4 DEF JobsSame, CancelAt
  <1>5. EndClears(k)'
    BY <1>1, <1>4 DEF JobsSame, EndClears, ClientExited
  <1> QED
    BY <1>2, <1>3, <1>5

-----------------------------------------------------------------------------
(* The create handler. *)

\* The state of one job, typed.
LEMMA JobTypes ==
  ASSUME TypeOK
  PROVE  /\ container \in [Jobs -> Container] /\ client \in [Jobs -> ClientState]
         /\ network \in [Jobs -> BOOLEAN] /\ attached \in [Jobs -> SUBSET Targets]
         /\ volume \in [Jobs -> Volume] /\ meta \in [Jobs -> Meta]
         /\ staged \in [Jobs -> BOOLEAN] /\ create \in [Jobs -> Create]
         /\ final \in [Jobs -> Final] /\ cancel \in [Cancels -> Cancel]
         /\ api \in [Jobs -> Api]
  BY DEF TypeOK, DockerTypeOK, ManagerTypeOK

\* Its steps touch one job; it publishes what it holds, and a runner it does not
\* find live it leaves alone.
CreateReleaseEffect(j) ==
  /\ \A k \in Jobs \ {j} :
       /\ client'[k] = client[k] /\ network'[k] = network[k]
       /\ attached'[k] = attached[k] /\ volume'[k] = volume[k]
  /\ CreateClears(j)' /\ VolumeIsMounted(j)'
  /\ create'[j].pc = "ok" => Recorded(meta[j], j)'
  /\ \/ client'[j] = "live" \/ container'[j].state = "none"
     \/ client'[j] = client[j] /\ container'[j] = container[j]

LEMMA CreateReleaseEffectHolds ==
  ASSUME HandlersSuffice, TypeOK, StopInv, TmpfsInv, NEW j \in Jobs,
         CreateClears(j), VolumeIsMounted(j), CreateStep(j), UNCHANGED apiVars
  PROVE  CreateReleaseEffect(j)
  <1>t. /\ container \in [Jobs -> Container] /\ client \in [Jobs -> ClientState]
        /\ network \in [Jobs -> BOOLEAN] /\ attached \in [Jobs -> SUBSET Targets]
        /\ volume \in [Jobs -> Volume] /\ meta \in [Jobs -> Meta]
        /\ staged \in [Jobs -> BOOLEAN] /\ create \in [Jobs -> Create]
    BY JobTypes
  <1>f. "docker" \notin Faults /\ "connect" \notin Faults
    BY DEF HandlersSuffice
  <1>r. VolumeReady(j)
    BY DEF TmpfsInv
  <1>p. meta[j].status = "running" => create[j].pc = "ok"
    BY DEF StopInv, Published, RunningIsPublished
  <1>a. api' = api
    BY DEF apiVars
  <1> USE DEF CreateReleaseEffect, CreateClears, VolumeIsMounted, Undoing, Recorded,
              Create, Meta
  <1>1. CASE CreateLoad(j)
    BY <1>1, <1>t, <1>f, <1>p, <1>a, <1>r DEF CreateLoad, fileVars, dockerVars,
       VolumeReady
  <1>2. CASE CreateNetworkStep(j)
    BY <1>2, <1>t, <1>f, <1>p, <1>a, <1>r DEF CreateNetworkStep, CreateNetwork,
       CreateTo, fileVars, otherThanCreate, VolumeReady
  <1>3. CASE CreateVolumeStep(j)
    <2>1. /\ create[j].pc = "volume" /\ create' = [create EXCEPT ![j].pc = "connect"]
          /\ IF create[j].vol THEN CreateTmpfsVolume(j) ELSE UNCHANGED volume
          /\ UNCHANGED <<meta, staged, container, client, network, attached>>
      BY <1>3, <1>f DEF CreateVolumeStep, CreateTo, fileVars
    <2>2. /\ create'[j].pc = "connect" /\ create'[j].vol = create[j].vol
          /\ \A k \in Jobs \ {j} : volume'[k] = volume[k]
          /\ ~create[j].vol => volume' = volume
      BY <2>1, <1>t DEF CreateTmpfsVolume
    <2> QED
      BY <2>1, <2>2, <1>a, <1>r DEF VolumeReady
  <1>4. CASE CreateConnect(j)
    <2>1. create[j].pc = "connect" /\ network[j]
      BY <1>4 DEF CreateConnect
    <2>2. \/ create' = [create EXCEPT ![j].pc = "build", ![j].got = Targets]
          \/ \E t \in create[j].todo : create' = [create EXCEPT ![j].todo = @ \ {t}]
      BY <1>4, <2>1, <1>f DEF CreateConnect
    <2>3. /\ create'[j].vol = create[j].vol
          /\ \/ create'[j].pc = "build" /\ create'[j].got = Targets
             \/ create'[j].pc = "connect"
      BY <2>1, <2>2, <1>t
    <2>4. UNCHANGED <<meta, staged, container, client, network, volume>>
      BY <1>4 DEF CreateConnect, fileVars
    <2>5. \A k \in Jobs \ {j} : attached'[k] = attached[k]
      BY <1>4, <1>t DEF CreateConnect
    <2> QED
      BY <2>1, <2>3, <2>4, <2>5, <1>a, <1>r DEF VolumeReady
  <1>5. CASE CreateBuild(j)
    <2>1. /\ create[j].pc = "build" /\ create' = [create EXCEPT ![j].pc = "start"]
          /\ UNCHANGED <<meta, staged, container, client, network, attached, volume>>
      BY <1>5, <1>f DEF CreateBuild, CreateTo, fileVars, dockerVars
    <2>2. /\ create'[j].pc = "start" /\ create'[j].vol = create[j].vol
          /\ create'[j].got = create[j].got
      BY <2>1, <1>t
    <2> QED
      BY <2>1, <2>2, <1>a
  <1>6. CASE CreateStart(j)
    <2>1. /\ create[j].pc = "start" /\ LaunchContainer(j, create[j].vol)
          /\ create' = [create EXCEPT ![j].pc = IF create[j].vol THEN "wait" ELSE "publish"]
          /\ UNCHANGED <<meta, staged, network, attached, volume>>
      BY <1>6, <1>f DEF CreateStart, CreateTo, fileVars
    <2>2. /\ create'[j].pc = (IF create[j].vol THEN "wait" ELSE "publish")
          /\ create'[j].vol = create[j].vol /\ create'[j].got = create[j].got
      BY <2>1, <1>t
    <2>3. /\ container'[j].vol = create[j].vol /\ client'[j] = "live"
          /\ \A k \in Jobs \ {j} : client'[k] = client[k]
      BY <2>1, <1>t DEF LaunchContainer
    <2> QED
      BY <2>1, <2>2, <2>3, <1>a
  <1>7. CASE CreateWait(j)
    <2>1. /\ create[j].pc = "wait" /\ UNCHANGED <<meta, staged, container, client, network,
                                                 attached, volume>>
          /\ \/ container[j].state = "up" /\ create' = [create EXCEPT ![j].pc = "seed"]
             \/ container[j].state = "none" /\ CreateFaults(j, "seed", "kill")
      BY <1>7, <1>f DEF CreateWait, CreateTo, fileVars, dockerVars
    <2>2. /\ create'[j].vol = create[j].vol /\ create'[j].got = create[j].got
          /\ \/ container[j].state = "up" /\ create'[j].pc = "seed"
             \/ /\ container[j].state = "none" /\ create'[j].pc = "kill"
                /\ create'[j].fault = "seed"
      BY <2>1, <1>t DEF CreateFaults
    <2> QED
      BY <2>1, <2>2, <1>a
  <1>8. CASE CreateSeed(j)
    <2>1. /\ create[j].pc = "seed" /\ SeedVolume(j, staged[j])
          /\ create' = [create EXCEPT ![j].pc = "publish"]
          /\ UNCHANGED <<meta, staged, container, client, network, attached>>
      BY <1>8, <1>f DEF CreateSeed, CreateTo, fileVars
    <2>2. /\ create'[j].pc = "publish" /\ create'[j].vol = create[j].vol
          /\ create'[j].got = create[j].got
          /\ \A k \in Jobs \ {j} : volume'[k] = volume[k]
      BY <2>1, <1>t DEF SeedVolume
    <2>3. create[j].vol
      BY <2>1, <1>r DEF VolumeReady
    <2> QED
      BY <2>1, <2>2, <2>3, <1>a
  <1>9. CASE CreatePublish(j)
    <2>1. /\ create[j].pc = "publish" /\ create' = [create EXCEPT ![j].pc = "ok"]
          /\ UNCHANGED <<staged, container, client, network, attached, volume>>
      BY <1>9 DEF CreatePublish, CreateTo, dockerVars
    <2>2. create'[j].pc = "ok" /\ create'[j].vol = create[j].vol
      BY <2>1, <1>t
    <2>3. meta'[j].targets = create[j].got /\ meta'[j].vol = create[j].vol
      BY <1>9, <1>t DEF CreatePublish, WriteMeta
    <2> QED
      BY <2>1, <2>2, <2>3, <1>a
  <1>10. CASE CreateKill(j)
    BY <1>10, <1>t, <1>f, <1>p, <1>a, <1>r DEF CreateKill, TerminateClient,
       CreateTo, fileVars, otherThanCreate, NoContainer, VolumeReady, Container
  <1>11. CASE CreateStop(j)
    BY <1>11, <1>t, <1>f, <1>p, <1>a, <1>r DEF CreateStop, StopContainer, CreateTo,
       fileVars, otherThanCreate, NoContainer, VolumeReady, Container
  <1>12. CASE CreateDisconnect(j)
    BY <1>12, <1>t, <1>f, <1>p, <1>a, <1>r DEF CreateDisconnect, Disconnect,
       CreateTo, fileVars, otherThanCreate, VolumeReady
  <1>13. CASE CreateRemoveNetwork(j)
    BY <1>13, <1>t, <1>f, <1>p, <1>a, <1>r DEF CreateRemoveNetwork, RemoveNetwork,
       HasEndpoints, CreateTo, fileVars, otherThanCreate, VolumeReady
  <1>14. CASE CreateFail(j)
    BY <1>14, <1>t, <1>f, <1>p, <1>a DEF CreateFail, WriteMeta, CreateTo,
       dockerVars, otherThanCreate
  <1>15. CASE CreateClean(j)
    BY <1>15, <1>t, <1>f, <1>p, <1>a DEF CreateClean, CreateTo, dockerVars,
       otherThanCreate
  <1>16. CASE CreateRemoveVolume(j)
    BY <1>16, <1>t, <1>f, <1>p, <1>a, <1>r DEF CreateRemoveVolume, RemoveVolume,
       Mounted, CreateTo, fileVars, otherThanCreate, NoVolume, VolumeReady, Volume
  <1> QED
    BY <1>1, <1>2, <1>3, <1>4, <1>5, <1>6, <1>7, <1>8, <1>9, <1>10, <1>11, <1>12,
       <1>13, <1>14, <1>15, <1>16 DEF CreateStep

\* The create handler keeps ReleaseInv: no other handler of the job runs yet.
LEMMA CreateReleases ==
  ASSUME HandlersSuffice, TypeOK, StopInv, TmpfsInv, ReleaseInv, NEW j \in Jobs,
         CreateStep(j), UNCHANGED apiVars
  PROVE  ReleaseInv'
  <1>i. CreateClears(j) /\ VolumeIsMounted(j) /\ Records(j) /\ EndClears(j)
    BY DEF ReleaseInv
  <1>1. CreateShape(j) /\ CreateFilesEffect(j) /\ CreateReleaseEffect(j)
    BY <1>i, CreateShapeHolds, CreateFilesEffectHolds, CreateReleaseEffectHolds
  <1>2. api' = api
    BY DEF apiVars
  <1>3. JobsSame(j)
    BY <1>1, <1>2 DEF CreateShape, OthersSame, CreateReleaseEffect, JobsSame
  <1>4. create[j].pc # "ok" /\ final[j].pc = "none" /\ meta[j].status # "running"
    BY <1>1 DEF CreateShape, CreateOver, StopInv, Order, FinalAfterCreate, Published,
       RunningIsPublished
  <1>5. \A c \in Cancels : cancel[c].job = j => cancel[c].pc = "idle"
    BY <1>4 DEF StopInv, Order, CancelAfterReturn, ReturnedIsOk
  <1>6. Records(j)'
    BY <1>1, <1>4, <1>5 DEF CreateShape, CreateFilesEffect, CreateReleaseEffect, Records
  <1>7. EndClears(j)'
    <2>1. final'[j].pc \in {"none", "wait"} /\ ~CancelAt(j, {"stop"})
      BY <1>1, <1>4, <1>5 DEF CreateFilesEffect, CancelAt
    <2>2. ~(ClientExited(j)' /\ container'[j].state # "none")
      BY <1>1, <1>i, <2>1 DEF CreateReleaseEffect, EndClears, ClientExited
    <2> QED
      BY <2>1, <2>2 DEF EndClears
  <1> QED
    BY <1>1, <1>3, <1>6, <1>7, OneJobReleased DEF CreateReleaseEffect

-----------------------------------------------------------------------------
(* The finalizer. *)

\* The finalizer keeps ReleaseInv: what it cannot remove a cancel will.
LEMMA FinalReleases ==
  ASSUME TypeOK, StopInv, TmpfsInv, ReleaseInv, NEW j \in Jobs,
         FinalStep(j), UNCHANGED apiVars
  PROVE  ReleaseInv'
  <1>t. /\ container \in [Jobs -> Container] /\ network \in [Jobs -> BOOLEAN]
        /\ attached \in [Jobs -> SUBSET Targets] /\ volume \in [Jobs -> Volume]
        /\ meta \in [Jobs -> Meta] /\ final \in [Jobs -> Final]
    BY JobTypes
  <1>i. CreateClears(j) /\ VolumeIsMounted(j) /\ Records(j) /\ EndClears(j)
    BY DEF ReleaseInv
  <1>1. FinalShape(j) /\ EndFilesEffect(j)
    BY FinalShapeHolds, FinalFilesEffectHolds
  <1>2. create[j].pc = "ok" /\ api' = api /\ create' = create /\ cancel' = cancel
        /\ container' = container
    BY <1>1 DEF FinalShape, StopInv, Order, FinalAfterCreate, apiVars
  <1>3. CancelAt(j, {"stop"}) \/ ~ClientExited(j) \/ container[j].state = "none"
    BY <1>i DEF EndClears
  <1>4. /\ client' = client
        /\ \A k \in Jobs \ {j} :
             network'[k] = network[k] /\ attached'[k] = attached[k] /\ volume'[k] = volume[k]
        /\ Recorded(meta[j], j)' /\ Records(j)'
        /\ ~create[j].vol => volume' = volume
        /\ EndClears(j)'
    <2> USE DEF Recorded, Final, Meta, FinalTo
    <2>1. CASE FinalWait(j)
      <3>1. /\ ClientExited(j) /\ final'[j].pc = "load"
            /\ UNCHANGED <<client, network, attached, volume, meta, cancel>>
        BY <2>1, <1>t DEF FinalWait, fileVars, dockerVars, otherThanFinal
      <3> QED
        BY <3>1, <1>i, <1>2 DEF Records, EndClears, ClientExited, CancelAt
    <2>2. CASE FinalLoad(j)
      <3>1. /\ final[j].pc = "load" /\ final'[j].pc = "write" /\ final'[j].meta = meta[j]
            /\ UNCHANGED <<client, network, attached, volume, meta, cancel>>
        BY <2>2, <1>t DEF FinalLoad, fileVars, dockerVars, otherThanFinal
      <3> QED
        BY <3>1, <1>i, <1>2 DEF Records, EndClears, ClientExited, CancelAt
    <2>3. CASE FinalWrite(j)
      <3>1. /\ final[j].pc = "write" /\ final'[j].pc = "disconnect"
            /\ final'[j].meta = final[j].meta
            /\ UNCHANGED <<client, network, attached, volume, cancel>>
        BY <2>3, <1>t DEF FinalWrite, dockerVars, otherThanFinal
      <3>2. meta'[j].targets = final[j].meta.targets /\ meta'[j].vol = final[j].meta.vol
        BY <2>3, <1>t DEF FinalWrite, WriteMeta
      <3> QED
        BY <3>1, <3>2, <1>i, <1>2 DEF Records, EndClears, ClientExited, CancelAt
    <2>4. CASE FinalDisconnect(j)
      <3>1. /\ final[j].pc = "disconnect" /\ final'[j].pc = "rmnet"
            /\ final'[j].meta = final[j].meta
            /\ UNCHANGED <<client, network, volume, meta, cancel>>
        BY <2>4, <1>t DEF FinalDisconnect, fileVars, otherThanFinal
      <3>2. /\ attached'[j] = attached[j] \ final[j].meta.targets
            /\ \A k \in Jobs \ {j} : attached'[k] = attached[k]
        BY <2>4, <1>t DEF FinalDisconnect, Disconnect
      <3>3. attached'[j] = {}
        BY <3>1, <3>2, <1>t, <1>i DEF Records
      <3> QED
        BY <3>1, <3>2, <3>3, <1>i, <1>2 DEF Records, EndClears, ClientExited, CancelAt
    <2>5. CASE FinalRemoveNetwork(j)
      <3>1. /\ final[j].pc = "rmnet" /\ final'[j].pc = "clean"
            /\ final'[j].meta = final[j].meta
            /\ UNCHANGED <<client, attached, volume, meta, cancel>>
        BY <2>5, <1>t DEF FinalRemoveNetwork, fileVars, otherThanFinal
      <3>2. /\ network'[j] => network[j] /\ HasEndpoints(j)
            /\ \A k \in Jobs \ {j} : network'[k] = network[k]
        BY <2>5, <1>t DEF FinalRemoveNetwork, RemoveNetwork
      <3>3. network'[j] => CancelAt(j, {"stop"})
        BY <3>1, <3>2, <1>i DEF HasEndpoints, EndClears
      <3> QED
        BY <3>1, <3>2, <3>3, <1>i, <1>2 DEF Records, EndClears, ClientExited, CancelAt
    <2>6. CASE FinalClean(j)
      <3>1. /\ final[j].pc = "clean" /\ final'[j].pc = "rmvol"
            /\ final'[j].meta = final[j].meta
            /\ UNCHANGED <<client, network, attached, volume, meta, cancel>>
        BY <2>6, <1>t DEF FinalClean, dockerVars, otherThanFinal
      <3> QED
        BY <3>1, <1>i, <1>2 DEF Records, EndClears, ClientExited, CancelAt
    <2>7. CASE FinalRemoveVolume(j)
      <3>1. /\ final[j].pc = "rmvol" /\ final'[j].pc = "done"
            /\ final'[j].meta = final[j].meta
            /\ UNCHANGED <<client, network, attached, meta, cancel>>
        BY <2>7, <1>t DEF FinalRemoveVolume, fileVars, otherThanFinal
      <3>2. /\ volume'[j] = IF final[j].meta.vol /\ ~Mounted(j) THEN NoVolume ELSE volume[j]
            /\ ~final[j].meta.vol => volume' = volume
            /\ \A k \in Jobs \ {j} : volume'[k] = volume[k]
        BY <2>7, <1>t DEF FinalRemoveVolume, RemoveVolume
      <3>3. final[j].meta.vol = create[j].vol
        BY <3>1, <1>i DEF Records
      <3>4. volume'[j] # NoVolume => CancelAt(j, {"stop"})
        BY <3>1, <3>2, <3>3, <1>i DEF VolumeIsMounted, Mounted, EndClears
      <3> QED
        BY <3>1, <3>2, <3>3, <3>4, <1>i, <1>2 DEF Records, EndClears, ClientExited, CancelAt
    <2> QED
      BY <2>1, <2>2, <2>3, <2>4, <2>5, <2>6, <2>7 DEF FinalStep
  <1>5. JobsSame(j)
    BY <1>1, <1>2, <1>4 DEF FinalShape, OthersSame, JobsSame
  <1>6. (CreateClears(j) /\ VolumeIsMounted(j))'
    BY <1>i, <1>2, <1>4 DEF CreateClears, VolumeIsMounted, Undoing
  <1> QED
    BY <1>4, <1>5, <1>6, OneJobReleased

-----------------------------------------------------------------------------
(* The cancel handlers. *)

\* The cancel moves on, and the other cancels stay where they are.
LEMMA CancelMoves ==
  ASSUME NEW c \in Cancels, NEW j, cancel[c].job = j, cancel'[c].job = j,
         \A d \in Cancels \ {c} : cancel'[d] = cancel[d],
         NEW pcs, cancel[c].pc \in pcs => cancel'[c].pc \in pcs, CancelAt(j, pcs)
  PROVE  CancelAt(j, pcs)'
  BY DEF CancelAt

\* A cancel keeps ReleaseInv: from its docker stop on the container is gone, so
\* that what it removes after that goes.
LEMMA CancelReleases ==
  ASSUME TypeOK, StopInv, ReleaseInv, NEW c \in Cancels, NEW j \in Jobs,
         cancel[c].job = j, CancelStep(c), UNCHANGED apiVars
  PROVE  ReleaseInv'
  <1>t. /\ container \in [Jobs -> Container] /\ client \in [Jobs -> ClientState]
        /\ network \in [Jobs -> BOOLEAN]
        /\ attached \in [Jobs -> SUBSET Targets] /\ volume \in [Jobs -> Volume]
        /\ meta \in [Jobs -> Meta] /\ staged \in [Jobs -> BOOLEAN]
        /\ cancel \in [Cancels -> Cancel]
    BY JobTypes
  <1>i. CreateClears(j) /\ VolumeIsMounted(j) /\ Records(j) /\ EndClears(j)
    BY <1>t DEF ReleaseInv
  <1>1. CancelShape(c)
    BY CancelShapeHolds
  <1>2. /\ api[j].pc = "returned" /\ create[j].pc = "ok"
        /\ container[j].state # "starting"
        /\ cancel[c].pc \in {"terminate", "stop"} => cancel[c].meta.cid
        /\ cancel[c].pc \in StoppedPc => container[j].state = "none"
    BY <1>1, <1>t DEF CancelShape, StopInv, Order, CancelAfterReturn, ReturnedIsOk,
       NotStarting, CancelKnows, CancelStops
  <1>3. /\ api' = api /\ create' = create /\ final' = final /\ cancel'[c].job = j
        /\ \A d \in Cancels \ {c} : cancel'[d] = cancel[d]
        /\ OthersSame(j)
    BY <1>1 DEF CancelShape, apiVars
  <1> DEFINE Effect ==
        /\ \A k \in Jobs \ {j} : /\ client'[k] = client[k] /\ network'[k] = network[k]
                                 /\ attached'[k] = attached[k] /\ volume'[k] = volume[k]
        /\ container'[j].state = "none" \/ container'[j] = container[j]
        /\ ~container[j].vol => ~container'[j].vol
        /\ ~create[j].vol => volume' = volume
        /\ Recorded(meta[j], j)'
        /\ cancel'[c].pc \notin {"idle", "load", "reply"} => Recorded(cancel'[c].meta, j)
        /\ EndClears(j)'
  <1>m. ASSUME NEW pcs, cancel[c].pc \in pcs => cancel'[c].pc \in pcs, CancelAt(j, pcs)
        PROVE  CancelAt(j, pcs)'
    BY <1>m, <1>3, CancelMoves
  <1>4. Effect
    <2> USE DEF Recorded, Cancel, Meta, CancelTo
    <2>o. create[j].pc = "ok" /\ Recorded(meta[j], j)
      BY <1>2, <1>i DEF Records
    <2>1. CASE CancelLoad(c)
      <3>1. /\ cancel[c].pc = "load" /\ cancel'[c].pc \in {"terminate", "reply"}
            /\ cancel'[c].meta = meta[j]
            /\ UNCHANGED <<container, client, network, attached, volume, meta>>
        BY <2>1, <1>t DEF CancelLoad, fileVars, dockerVars
      <3> QED
        BY <3>1, <1>i, <1>3, <1>m, <2>o DEF EndClears, ClientExited
    <2>2. CASE CancelTerminate(c)
      <3>1. /\ cancel[c].pc = "terminate" /\ cancel'[c].pc = "stop"
            /\ cancel'[c].meta = cancel[c].meta
            /\ UNCHANGED <<network, attached, volume, meta>>
        BY <2>2, <1>t DEF CancelTerminate, fileVars
      <3>2. /\ container' = container
            /\ client' = client \/ client' = [client EXCEPT ![j] = "nonzero"]
        BY <2>2, <1>2 DEF CancelTerminate, TerminateClient
      <3>3. \A pcs : "stop" \in pcs => CancelAt(j, pcs)'
        BY <3>1, <1>3 DEF CancelAt
      <3>4. /\ ClientExited(j) => ClientExited(j)'
            /\ \A k \in Jobs \ {j} : client'[k] = client[k]
        BY <3>2, <1>t DEF ClientExited
      <3> QED
        BY <3>1, <3>2, <3>3, <3>4, <1>i, <1>3, <2>o DEF Records, EndClears
    <2>3. CASE CancelStop(c)
      <3>1. /\ cancel[c].pc = "stop" /\ cancel'[c].pc = "disconnect"
            /\ cancel'[c].meta = cancel[c].meta
            /\ UNCHANGED <<network, attached, volume, meta>>
        BY <2>3, <1>t DEF CancelStop, fileVars
      <3>2. container[j].state \in {"none", "up"}
        BY <1>t, <1>2 DEF Container, ContainerState
      <3>3. /\ container'[j].state = "none"
            /\ container'[j] = container[j] \/ ~container'[j].vol
            /\ client'[j] = client[j] \/ client'[j] = Interrupted(client[j])
            /\ \A k \in Jobs \ {j} : client'[k] = client[k]
        BY <2>3, <3>1, <3>2, <1>2, <1>t DEF CancelStop, StopContainer, NoContainer
      <3>4. ClientExited(j) => ClientExited(j)'
        BY <3>3 DEF ClientExited, Interrupted
      <3> QED
        BY <3>1, <3>3, <3>4, <1>m, <1>i, <1>3, <2>o DEF Records, EndClears
    <2>4. CASE CancelDisconnect(c)
      <3>1. /\ cancel[c].pc = "disconnect" /\ cancel'[c].pc = "rmnet"
            /\ cancel'[c].meta = cancel[c].meta
            /\ UNCHANGED <<container, client, network, volume, meta>>
        BY <2>4, <1>t DEF CancelDisconnect, fileVars
      <3>2. /\ attached'[j] \subseteq attached[j]
            /\ \A k \in Jobs \ {j} : attached'[k] = attached[k]
        BY <2>4, <1>t DEF CancelDisconnect, Disconnect
      <3> QED
        BY <3>1, <3>2, <1>2, <1>m, <1>i, <1>3, <2>o DEF Records, EndClears, ClientExited,
           StoppedPc
    <2>5. CASE CancelRemoveNetwork(c)
      <3>1. /\ cancel[c].pc = "rmnet" /\ cancel'[c].pc = "write"
            /\ cancel'[c].meta = cancel[c].meta
            /\ UNCHANGED <<container, client, attached, volume, meta>>
        BY <2>5, <1>t DEF CancelRemoveNetwork, fileVars
      <3>2. /\ network'[j] => HasEndpoints(j)
            /\ \A k \in Jobs \ {j} : network'[k] = network[k]
        BY <2>5, <1>t DEF CancelRemoveNetwork, RemoveNetwork
      <3>3. network'[j] => attached[j] # {}
        BY <3>1, <3>2, <1>2 DEF HasEndpoints, StoppedPc
      <3> QED
        BY <3>1, <3>2, <3>3, <1>2, <1>m, <1>i, <1>3, <2>o DEF Records, EndClears,
           ClientExited, StoppedPc
    <2>6. CASE CancelWrite(c)
      <3>1. /\ cancel[c].pc = "write" /\ cancel'[c].pc = "clean"
            /\ cancel'[c].meta = cancel[c].meta
            /\ UNCHANGED <<container, client, network, attached, volume>>
        BY <2>6, <1>t DEF CancelWrite, dockerVars
      <3>2. meta'[j].targets = cancel[c].meta.targets /\ meta'[j].vol = cancel[c].meta.vol
        BY <2>6, <1>t DEF CancelWrite, WriteMeta
      <3> QED
        BY <3>1, <3>2, <1>2, <1>m, <1>i, <1>3, <2>o DEF Records, EndClears, ClientExited,
           StoppedPc
    <2>7. CASE CancelClean(c)
      <3>1. /\ cancel[c].pc = "clean" /\ cancel'[c].pc = "rmvol"
            /\ cancel'[c].meta = cancel[c].meta
            /\ UNCHANGED <<container, client, network, attached, volume, meta>>
        BY <2>7, <1>t DEF CancelClean, dockerVars
      <3> QED
        BY <3>1, <1>2, <1>m, <1>i, <1>3, <2>o DEF Records, EndClears, ClientExited, StoppedPc
    <2>8. CASE CancelRemoveVolume(c)
      <3>1. /\ cancel[c].pc = "rmvol" /\ cancel'[c].pc = "reply"
            /\ UNCHANGED <<container, client, network, attached, meta>>
        BY <2>8, <1>t DEF CancelRemoveVolume, fileVars
      <3>2. /\ volume'[j] = IF cancel[c].meta.vol /\ ~Mounted(j) THEN NoVolume ELSE volume[j]
            /\ ~cancel[c].meta.vol => volume' = volume
            /\ \A k \in Jobs \ {j} : volume'[k] = volume[k]
        BY <2>8, <1>t DEF CancelRemoveVolume, RemoveVolume
      <3>3. cancel[c].meta.vol = create[j].vol
        BY <3>1, <1>i DEF Records
      <3>4. volume'[j] = NoVolume
        BY <3>1, <3>2, <3>3, <1>2, <1>i DEF VolumeIsMounted, Mounted, StoppedPc
      <3> QED
        BY <3>1, <3>2, <3>3, <3>4, <1>2, <1>m, <1>i, <1>3, <2>o DEF EndClears,
           ClientExited, StoppedPc
    <2> QED
      BY <2>1, <2>2, <2>3, <2>4, <2>5, <2>6, <2>7, <2>8 DEF CancelStep
  <1>5. Records(j)'
    BY <1>3, <1>4, <1>i DEF Records, Recorded
  <1>6. (CreateClears(j) /\ VolumeIsMounted(j))'
    <2>1. staged'[j] => staged[j]
      BY <1>t DEF CancelStep, CancelLoad, CancelTerminate, CancelStop, CancelDisconnect,
         CancelRemoveNetwork, CancelWrite, CancelClean, CancelRemoveVolume, fileVars
    <2> QED
      BY <2>1, <1>2, <1>3, <1>4, <1>i DEF CreateClears, VolumeIsMounted, Undoing
  <1>7. JobsSame(j)
    BY <1>3, <1>4 DEF OthersSame, JobsSame
  <1>8. EndClears(j)'
    BY <1>4
  <1> HIDE DEF Effect
  <1> QED
    BY <1>t, <1>5, <1>6, <1>7, <1>8, OneJobReleased

-----------------------------------------------------------------------------
(* The daemon, the API, and the rest. *)

\* A container that comes up late mounts no volume, unless its create handler
\* still waits for it.
LEMMA DockerReleases ==
  ASSUME TypeOK, StopInv, TmpfsInv, ReleaseInv, NEW j \in Jobs, DockerStep(j),
         UNCHANGED <<fileVars, managerVars, apiVars>>
  PROVE  ReleaseInv'
  <1>t. /\ container \in [Jobs -> Container] /\ client \in [Jobs -> ClientState]
        /\ volume \in [Jobs -> Volume] /\ create \in [Jobs -> Create]
    BY JobTypes
  <1>i. CreateClears(j) /\ VolumeIsMounted(j) /\ Records(j) /\ EndClears(j)
    BY DEF ReleaseInv
  <1>1. UNCHANGED <<meta, staged, create, final, cancel, api, network, attached>>
    BY DEF fileVars, managerVars, apiVars, DockerStep, ContainerComesUp,
       ContainerFailsToStart, RunnerExits
  <1>2. /\ \A k \in Jobs \ {j} : /\ container'[k] = container[k] /\ client'[k] = client[k]
                                 /\ volume'[k] = volume[k]
        /\ ClientExited(j) => ClientExited(j)'
        /\ container[j].state # "none"
        /\ \/ container'[j] = NoContainer /\ volume' = volume
           \/ /\ container[j].state = "starting" /\ client' = client
              /\ container'[j].state = "up" /\ container'[j].vol = container[j].vol
              /\ ~container[j].vol => volume'[j] = volume[j]
    <2> USE DEF ClientExited, Interrupted, Container
    <2>1. CASE ContainerComesUp(j)
      BY <2>1, <1>t DEF ContainerComesUp
    <2>2. CASE ContainerFailsToStart(j)
      BY <2>2, <1>t DEF ContainerFailsToStart
    <2>3. CASE RunnerExits(j)
      BY <2>3, <1>t DEF RunnerExits
    <2> QED
      BY <2>1, <2>2, <2>3 DEF DockerStep
  <1>3. JobsSame(j) /\ Records(j)'
    BY <1>i, <1>1, <1>2 DEF JobsSame, Records, Recorded
  <1>4. (CreateClears(j) /\ VolumeIsMounted(j))'
    BY <1>i, <1>1, <1>2 DEF CreateClears, VolumeIsMounted, Undoing, NoContainer
  <1>5. EndClears(j)'
    <2>1. final[j].pc = "done" => volume'[j] = volume[j]
      BY <1>i, <1>2 DEF StopInv, Order, FinalAfterCreate, VolumeIsMounted
    <2>2. \A pcs : CancelAt(j, pcs)' <=> CancelAt(j, pcs)
      BY <1>1 DEF CancelAt
    <2>3. ClientExited(j)' /\ container'[j].state # "none" => ClientExited(j)
      BY <1>2 DEF NoContainer, ClientExited
    <2> QED
      BY <1>i, <1>1, <1>2, <2>1, <2>2, <2>3 DEF EndClears
  <1> QED
    BY <1>3, <1>4, <1>5, OneJobReleased

\* The API gives up on a job only when its create handler has.
LEMMA ApiReleases ==
  ASSUME HandlersSuffice, TypeOK, StopInv, ReleaseInv, NEW j \in Jobs, ApiFilesSteps(j)
  PROVE  ReleaseInv'
  <1>t. /\ meta \in [Jobs -> Meta] /\ staged \in [Jobs -> BOOLEAN]
        /\ create \in [Jobs -> Create] /\ api \in [Jobs -> Api]
    BY JobTypes
  <1>i. CreateClears(j) /\ VolumeIsMounted(j) /\ Records(j) /\ EndClears(j)
    BY DEF ReleaseInv
  <1>s. ApiShape(j)
    BY ApiShapeHolds DEF ApiFilesSteps
  <1>f. "client_timeout" \notin Faults /\ "manager_restart" \notin Faults
    BY DEF HandlersSuffice
  <1>1. UNCHANGED dockerVars
    BY DEF ApiFilesSteps, ApiStep, ApiStage, ApiQueue, ApiPost, ApiReturns,
       ApiStartFails, ApiErrorLoad, ApiErrorWrite, ApiErrorClean, ApiRejects,
       ApiUnreachable, Watch, ApiGet, RetentionPasses
  <1>2. JobsSame(j)
    BY <1>s, <1>1 DEF ApiShape, JobsSame, dockerVars
  <1>o. /\ api[j].pc \in {"none", "staged", "queued"} => create[j].pc = "off"
        /\ api[j].pc = "queued" /\ create[j].pc = "off" => meta[j].status = "queued"
    BY DEF StopInv, Order, CreateAfterPost, Published, FreshFiles
  <1>3. /\ \/ create'[j] = create[j]
           \/ /\ api[j].pc = "queued" /\ create'[j].pc = "load"
              /\ create'[j].vol = create[j].vol
        /\ staged'[j] => staged[j] \/ create[j].pc = "off"
        /\ \/ /\ meta'[j].status = meta[j].status /\ meta'[j].targets = meta[j].targets
              /\ meta'[j].vol = meta[j].vol
           \/ api[j].pc = "staged" /\ meta'[j].status = "queued"
           \/ api[j].pc = "err_write" /\ meta'[j].status = "failed"
        /\ api'[j].pc \in {"err_load", "err_write", "err_clean"} =>
             \/ create[j].pc = "raised" /\ create'[j] = create[j]
             \/ api[j].pc \in {"err_load", "err_write", "err_clean"} /\ create'[j] = create[j]
    <2> USE DEF Api
    <2>1. CASE ApiStage(j)
      BY <2>1, <1>t, <1>o DEF ApiStage, ApiTo, managerVars
    <2>2. CASE ApiQueue(j)
      BY <2>2, <1>t, <1>o DEF ApiQueue, ApiTo, WriteMeta, NoMeta, managerVars
    <2>3. CASE ApiRejects(j)
      BY <2>3, <1>t, <1>o DEF ApiRejects, ApiTo, managerVars, fileVars
    <2>4. CASE ApiReturns(j)
      BY <2>4, <1>t, <1>o DEF ApiReturns, ApiTo, managerVars, fileVars
    <2>5. CASE ApiPost(j)
      BY <2>5, <1>t, <1>o DEF ApiPost, ApiTo, CreateTo, Create, fileVars
    <2>6. CASE ApiUnreachable(j)
      BY <2>6, <1>t, <1>o, <1>f DEF ApiUnreachable
    <2>7. CASE ApiStartFails(j)
      BY <2>7, <1>t, <1>o, <1>f, <1>i DEF ApiStartFails, ApiTo, CreateClears, managerVars, fileVars
    <2>8. CASE ApiErrorLoad(j)
      BY <2>8, <1>t, <1>o DEF ApiErrorLoad, managerVars, fileVars
    <2>9. CASE ApiErrorWrite(j)
      BY <2>9, <1>t, <1>o DEF ApiErrorWrite, ApiTo, WriteMeta, Meta, managerVars
    <2>10. CASE ApiErrorClean(j)
      BY <2>10, <1>t, <1>o DEF ApiErrorClean, ApiTo, managerVars
    <2>11. CASE Watch(j)
      BY <2>11, <1>t, <1>o DEF Watch, managerVars
    <2>12. CASE ApiGet(j)
      BY <2>12, <1>t, <1>o DEF ApiGet, managerVars, apiVars
    <2>13. CASE RetentionPasses(j)
      BY <2>13, <1>t, <1>o DEF RetentionPasses, Meta, managerVars, apiVars
    <2> QED
      BY <2>1, <2>2, <2>3, <2>4, <2>5, <2>6, <2>7, <2>8, <2>9, <2>10, <2>11, <2>12, <2>13
         DEF ApiFilesSteps, ApiStep
  <1>6. CreateClears(j)'
    BY <1>i, <1>1, <1>3, <1>o DEF CreateClears, Undoing, Terminal, dockerVars
  <1>4. VolumeIsMounted(j)'
    BY <1>i, <1>1, <1>3, <1>o DEF VolumeIsMounted, dockerVars
  <1>5. Records(j)'
    BY <1>i, <1>s, <1>3, <1>o DEF ApiShape, CreateClears, Records, Recorded
  <1>7. EndClears(j)'
    BY <1>i, <1>s, <1>1 DEF ApiShape, EndClears, CancelAt, ClientExited, dockerVars
  <1> QED
    BY <1>2, <1>4, <1>5, <1>6, <1>7, OneJobReleased

\* A cancel request arrives, or is answered.
LEMMA RequestReleases ==
  ASSUME TypeOK, ReleaseInv, NEW c \in Cancels,
         ApiCancelReturns(c) \/ \E k \in Jobs : ApiCancel(c, k)
  PROVE  ReleaseInv'
  <1>t. cancel \in [Cancels -> Cancel]
    BY JobTypes
  <1>1. UNCHANGED <<dockerVars, fileVars, create, final, api>>
    BY DEF ApiCancelReturns, ApiCancel, apiVars
  <1>2. /\ \A d \in Cancels \ {c} : cancel'[d] = cancel[d]
        /\ cancel[c].pc \in {"idle", "reply"} /\ cancel'[c].pc \in {"idle", "load"}
    <2>1. CASE ApiCancelReturns(c)
      BY <2>1, <1>t DEF ApiCancelReturns, NoCancel
    <2>2. ASSUME NEW k \in Jobs, ApiCancel(c, k)
          PROVE  /\ \A d \in Cancels \ {c} : cancel'[d] = cancel[d]
                 /\ cancel[c].pc = "idle" /\ cancel'[c].pc = "load"
      BY <2>2, <1>t DEF ApiCancel, NoCancel
    <2> QED
      BY <2>1, <2>2
  <1>3. ASSUME NEW j \in Jobs, NEW pcs, "idle" \notin pcs, "reply" \notin pcs, CancelAt(j, pcs)
        PROVE  CancelAt(j, pcs)'
    BY <1>2, <1>3 DEF CancelAt
  <1> SUFFICES ASSUME NEW j \in Jobs
               PROVE  (CreateClears(j) /\ VolumeIsMounted(j) /\ Records(j) /\ EndClears(j))'
    BY DEF ReleaseInv
  <1>i. CreateClears(j) /\ VolumeIsMounted(j) /\ Records(j) /\ EndClears(j)
    BY DEF ReleaseInv
  <1>4. (CreateClears(j) /\ VolumeIsMounted(j))'
    BY <1>1, <1>i DEF CreateClears, VolumeIsMounted, dockerVars, fileVars
  <1>5. Records(j)'
    BY <1>1, <1>2, <1>i DEF Records, Recorded, fileVars
  <1>6. EndClears(j)'
    BY <1>1, <1>3, <1>i DEF EndClears, ClientExited, dockerVars
  <1> QED
    BY <1>4, <1>5, <1>6

LEMMA ApiRestartReleases ==
  ASSUME ReleaseInv, ApiConstructs \/ ApiRestart
  PROVE  ReleaseInv'
  <1>1. UNCHANGED <<dockerVars, meta, create, final, cancel>>
    BY DEF ApiConstructs, ApiRestart, fileVars, managerVars
  <1> SUFFICES ASSUME NEW j \in Jobs
               PROVE  (CreateClears(j) /\ VolumeIsMounted(j) /\ Records(j) /\ EndClears(j))'
    BY DEF ReleaseInv
  <1>i. CreateClears(j) /\ VolumeIsMounted(j) /\ Records(j) /\ EndClears(j)
    BY DEF ReleaseInv
  <1>2. (staged'[j] => staged[j]) /\ (api'[j] = api[j] \/ api'[j].pc = "dead")
    BY DEF ApiConstructs, ApiRestart, NoApi, fileVars
  <1>3. (CreateClears(j) /\ VolumeIsMounted(j))'
    BY <1>1, <1>2, <1>i DEF CreateClears, VolumeIsMounted, dockerVars
  <1>4. (Records(j) /\ EndClears(j))'
    BY <1>1, <1>i DEF Records, Recorded, EndClears, CancelAt, ClientExited, dockerVars
  <1> QED
    BY <1>3, <1>4

LEMMA InitReleased == Init => ReleaseInv
  <1> SUFFICES ASSUME Init, NEW j \in Jobs
               PROVE  CreateClears(j) /\ VolumeIsMounted(j) /\ Records(j) /\ EndClears(j)
    BY DEF ReleaseInv
  <1>1. /\ create[j] = NoCreate /\ final[j] = NoFinal /\ meta[j] = NoMeta /\ ~network[j]
        /\ container[j] = NoContainer /\ client[j] = "none" /\ volume[j] = NoVolume
        /\ api[j] = NoApi /\ \A c \in Cancels : cancel[c].pc = "idle"
    BY DEF Init, DockerInit, ManagerInit, NoCancel
  <1> QED
    BY <1>1 DEF CreateClears, VolumeIsMounted, Records, EndClears, ClientExited, Undoing,
       NoCreate, NoFinal, NoMeta, NoContainer, NoApi, Terminal

LEMMA NextReleased ==
  ASSUME HandlersSuffice, TypeOK, StopInv, TmpfsInv, ReleaseInv, [Next]_vars
  PROVE  ReleaseInv'
  <1>f. SweepEnabled = FALSE /\ "manager_restart" \notin Faults /\ sweep.pc = "off"
    BY DEF HandlersSuffice, TmpfsInv
  <1>1. CASE UNCHANGED vars
    BY <1>1 DEF vars, dockerVars, fileVars, managerVars, apiVars, ReleaseInv,
       CreateClears, VolumeIsMounted, Records, Recorded, EndClears, CancelAt, ClientExited
  <1>2. CASE Next
    <2>1. ASSUME NEW j \in Jobs,
                 \/ DockerStep(j) /\ UNCHANGED <<fileVars, managerVars, apiVars>>
                 \/ CreateStep(j) /\ UNCHANGED apiVars
                 \/ FinalStep(j) /\ UNCHANGED apiVars
                 \/ ApiFilesSteps(j)
          PROVE  ReleaseInv'
      BY <2>1, DockerReleases, CreateReleases, FinalReleases, ApiReleases
    <2>2. ASSUME NEW c \in Cancels,
                 \/ CancelStep(c) /\ UNCHANGED apiVars
                 \/ ApiCancelReturns(c)
                 \/ \E k \in Jobs : ApiCancel(c, k)
          PROVE  ReleaseInv'
      <3>1. cancel[c].job \in Jobs
        BY JobTypes DEF Cancel
      <3> QED
        BY <2>2, <3>1, CancelReleases, RequestReleases
    <2>3. ~SweepStep /\ ~ManagerRequest /\ ~ManagerRestart
      BY <1>f DEF SweepStep, SweepBegin, SweepListContainers, SweepListNetworks,
         SweepListVolumes, SweepList, SweepContainer, SweepNetwork, SweepVolume,
         SweepDone, SweepDirs, ManagerRequest, ManagerRestart
    <2> QED
      BY <1>2, <2>1, <2>2, <2>3, ApiRestartReleases DEF Next, ApiFilesSteps
  <1> QED
    BY <1>1, <1>2

\* Nothing of a job that is over, and that nobody works on, is left.
LEMMA QuietIsReleased ==
  ASSUME HandlersSuffice, TypeOK, StopInv, ReleaseInv, UnstagedInv, managerRestarts = 0
  PROVE  ReleasedWhenQuiet
  <1> SUFFICES ASSUME NEW j \in Jobs, IsTerminal(j), Quiet(j) PROVE Released(j)
    BY DEF ReleasedWhenQuiet
  <1>i. CreateClears(j) /\ EndClears(j) /\ FilesOfJob(j) /\ FinalizedByManager(j)
    BY DEF ReleaseInv, UnstagedInv, FilesInv
  <1>q. /\ create[j].pc \in CreateOver /\ final[j].pc \in {"none", "done"}
        /\ \A c \in Cancels : cancel[c].job = j => cancel[c].pc \in {"idle", "reply"}
        /\ meta[j].status \in Terminal
    BY DEF Quiet, IsTerminal
  <1>1. CASE create[j].pc = "raised"
    BY <1>1, <1>i DEF CreateClears, Released
  <1>2. CASE create[j].pc = "ok"
    <2>1. final[j].pc = "done"
      BY <1>2, <1>i, <1>q DEF FinalizedByManager
    <2>2. ASSUME NEW pcs, "idle" \notin pcs, "reply" \notin pcs PROVE ~CancelAt(j, pcs)
      BY <1>q, <2>2 DEF CancelAt
    <2> QED
      BY <2>1, <2>2, <1>i DEF EndClears, FilesOfJob, Released
  <1> QED
    BY <1>1, <1>2, <1>i, <1>q DEF CreateClears, CreateOver

LEMMA NoManagerRestart ==
  ASSUME HandlersSuffice, TypeOK, managerRestarts = 0, [Next]_vars
  PROVE  managerRestarts' = 0
  <1>1. ~ManagerRestart
    BY DEF HandlersSuffice, ManagerRestart
  <1>2. CASE UNCHANGED vars
    BY <1>2 DEF vars, managerVars
  <1>3. CASE Next
    <2>1. ASSUME NEW j \in Jobs,
                 \/ DockerStep(j) /\ UNCHANGED <<fileVars, managerVars, apiVars>>
                 \/ CreateStep(j) \/ FinalStep(j) \/ ApiFilesSteps(j)
          PROVE  managerRestarts' = 0
      <3>1. CreateStep(j) => managerRestarts' = managerRestarts
        BY CreateFilesEffectHolds DEF CreateFilesEffect
      <3>2. FinalStep(j) => managerRestarts' = managerRestarts
        BY FinalFilesEffectHolds DEF EndFilesEffect
      <3>3. ApiFilesSteps(j) => managerRestarts' = managerRestarts
        BY DEF ApiFilesSteps, ApiStep, ApiStage, ApiQueue, ApiPost, ApiReturns,
           ApiStartFails, ApiErrorLoad, ApiErrorWrite, ApiErrorClean, ApiRejects,
           ApiUnreachable, Watch, ApiGet, RetentionPasses, managerVars, otherThanCreate
      <3> QED
        BY <2>1, <3>1, <3>2, <3>3 DEF managerVars
    <2>2. ASSUME NEW c \in Cancels,
                 CancelStep(c) \/ ApiCancelReturns(c) \/ \E j \in Jobs : ApiCancel(c, j)
          PROVE  managerRestarts' = 0
      BY <2>2 DEF CancelStep, CancelLoad, CancelTerminate, CancelStop, CancelDisconnect,
         CancelRemoveNetwork, CancelWrite, CancelClean, CancelRemoveVolume,
         otherThanCancel, ApiCancelReturns, ApiCancel
    <2>3. CASE SweepStep
      BY <2>3 DEF SweepStep, SweepBegin, SweepListContainers, SweepListNetworks,
         SweepListVolumes, SweepList, SweepContainer, SweepNetwork, SweepVolume,
         SweepDone, SweepDirs, otherThanSweep
    <2>4. CASE ManagerRequest \/ ApiConstructs \/ ApiRestart
      BY <2>4 DEF ManagerRequest, ApiConstructs, ApiRestart, managerVars
    <2> QED
      BY <1>1, <1>3, <2>1, <2>2, <2>3, <2>4 DEF Next, ApiFilesSteps
  <1> QED
    BY <1>2, <1>3

\* When a job has ended and nobody works on it, its create handler, finalizer and
\* cancels have removed its container, network, targets, volume and files, in
\* whatever order they ran and whatever docker refused one of them, without a sweep.
THEOREM HandlersRelease == HandlersSuffice => (Spec => []ReleasedWhenQuiet)
  <1> SUFFICES ASSUME HandlersSuffice PROVE Spec => []ReleasedWhenQuiet
    OBVIOUS
  <1> DEFINE Inv == TypeOK /\ StopInv /\ UnbuiltIsIdle /\ TmpfsInv /\ UnstagedInv
                    /\ ReleaseInv /\ managerRestarts = 0
  <1>1. Init => Inv
    BY InitType, InitStop, InitTmpfs, InitFiles, InitReleased
       DEF Init, ManagerInit, UnbuiltIsIdle, NoApi
  <1>2. Inv /\ [Next]_vars => Inv'
    BY NextType, NextStop, UnbuiltKeeps, NextTmpfs, NextFiles, NextReleased,
       NoManagerRestart
       DEF HandlersSuffice
  <1>3. Inv => ReleasedWhenQuiet
    BY QuietIsReleased
  <1> QED
    BY <1>1, <1>2, <1>3, PTL DEF Spec

=============================================================================
