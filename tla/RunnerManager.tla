--------------------------- MODULE RunnerManager ----------------------------
(***************************************************************************)
(* The runner-manager process: POST /jobs (create), DELETE /jobs/<id>      *)
(* (cancel), the finalizer thread that waits for a runner, and the orphan  *)
(* sweep.  services/runner_manager_service_runtime.py and _sweep.py.       *)
(*                                                                         *)
(* Handlers run in a thread pool and take no lock.  They meet in job.json, *)
(* which each of them reads whole, changes in memory and writes back       *)
(* whole, and in the Docker daemon.  So every read of job.json, every      *)
(* write of it and every docker call is a step of its own, and a handler   *)
(* carries the copy of job.json it read.                                   *)
(***************************************************************************)
EXTENDS DockerHost

CONSTANTS
  Cancels,       \* cancel requests served at the same time
  Faults,        \* the faults this instance may meet
  SweepEnabled,  \* RUNNER_MANAGER_ORPHAN_SWEEP_ENABLED
  MaxRestarts    \* bound: process restarts in one behaviour, of each process

FaultKind == {"client_timeout", "connect", "docker", "inspect",
              "manager_restart", "api_restart", "request"}

ASSUME FaultsAssumption == Faults \subseteq FaultKind
ASSUME SweepAssumption == SweepEnabled \in BOOLEAN
ASSUME RestartsAssumption == MaxRestarts \in Nat

VARIABLES
  meta,    \* job.json of each job, on the volume the API and the manager share
  staged,  \* does jobs/<id>/secrets exist
  create,  \* the POST /jobs handler of each job
  final,   \* the _wait_and_finalize thread of each job
  cancel,  \* the cancel handlers
  sweep,   \* the orphan sweep thread
  managerRestarts

managerVars == <<create, final, cancel, sweep, managerRestarts>>
fileVars    == <<meta, staged>>

-----------------------------------------------------------------------------
(* job.json.  "absent": the file, or its directory, does not exist.        *)

Terminal == {"succeeded", "failed", "canceled"}
Active   == {"queued", "running"}
Status   == {"absent"} \cup Active \cup Terminal

\* cid: pid and container_id are recorded; vol: secret_volume_name is;
\* targets: mode_a_targets; old: finished_at is past JOB_RETENTION_DAYS.
Meta == [status: Status, cid: BOOLEAN, vol: BOOLEAN,
         targets: SUBSET Targets, old: BOOLEAN]

NoMeta == [status |-> "absent", cid |-> FALSE, vol |-> FALSE,
           targets |-> {}, old |-> FALSE]

\* write_meta replaces the file; a terminal write stamps finished_at with now.
WriteMeta(j, m) == meta' = [meta EXCEPT ![j] = [m EXCEPT !.old = FALSE]]

-----------------------------------------------------------------------------
(* Handlers. *)

CreatePc == {"off", "load", "network", "volume", "connect", "build", "start",
             "wait", "seed", "publish", "kill", "stop", "disconnect",
             "rmnet", "fail", "clean", "rmvol", "raised", "ok", "dead"}
FinalPc  == {"none", "wait", "load", "write", "disconnect", "rmnet",
             "clean", "rmvol", "done"}
CancelPc == {"idle", "load", "terminate", "stop", "disconnect", "rmnet",
             "write", "clean", "rmvol", "reply"}
SweepPc  == {"off", "idle", "containers", "rm_containers", "networks",
             "rm_networks", "volumes", "rm_volumes", "dirs"}

\* "done" steps of a create: it has answered, or its process is gone.
CreateOver == {"off", "raised", "ok", "dead"}

\* meta: the copy of job.json the handler holds; vol: it mounts a secret volume;
\* todo: targets to attach; got: the list of attached targets it holds.
Create == [pc: CreatePc, meta: Meta, vol: BOOLEAN, todo: SUBSET Targets,
           got: SUBSET Targets, fault: {"none", "build", "start", "seed"}]
Final  == [pc: FinalPc, meta: Meta]
Cancel == [pc: CancelPc, job: Jobs, meta: Meta]
Sweep  == [pc: SweepPc, active: SUBSET Jobs, todo: SUBSET Jobs]

NoCreate == [pc |-> "off", meta |-> NoMeta, vol |-> FALSE,
             todo |-> {}, got |-> {}, fault |-> "none"]
NoFinal  == [pc |-> "none", meta |-> NoMeta]
NoCancel(j) == [pc |-> "idle", job |-> j, meta |-> NoMeta]
NoSweep  == [pc |-> "off", active |-> {}, todo |-> {}]

ManagerTypeOK ==
  /\ meta   \in [Jobs -> Meta]
  /\ staged \in [Jobs -> BOOLEAN]
  /\ create \in [Jobs -> Create]
  /\ final  \in [Jobs -> Final]
  /\ cancel \in [Cancels -> Cancel]
  /\ sweep  \in Sweep
  /\ managerRestarts \in 0..MaxRestarts

ManagerInit ==
  /\ meta   = [j \in Jobs |-> NoMeta]
  /\ staged = [j \in Jobs |-> FALSE]
  /\ create = [j \in Jobs |-> NoCreate]
  /\ final  = [j \in Jobs |-> NoFinal]
  /\ \E j \in Jobs : cancel = [c \in Cancels |-> NoCancel(j)]
  /\ sweep  = NoSweep
  /\ managerRestarts = 0

\* The handler of job j moves to another step.
CreateTo(j, pc) == create' = [create EXCEPT ![j].pc = pc]

\* The handler leaves its main path; "fault" decides what its except block does.
CreateFaults(j, fault, pc) ==
  create' = [create EXCEPT ![j].pc = pc, ![j].fault = fault]

FinalTo(j, pc)  == final'  = [final EXCEPT ![j].pc = pc]
CancelTo(c, pc) == cancel' = [cancel EXCEPT ![c].pc = pc]

otherThanCreate == <<final, cancel, sweep, managerRestarts>>
otherThanFinal  == <<create, cancel, sweep, managerRestarts>>
otherThanCancel == <<create, final, sweep, managerRestarts>>
otherThanSweep  == <<create, final, cancel, managerRestarts>>

\* lru_cache constructs the service on the first request.  The constructor sweeps
\* once and starts the thread that sweeps at intervals; the model starts the
\* thread, whose first sweep may run beside the request.
ServiceConstructed ==
  sweep' = IF sweep.pc = "off" /\ SweepEnabled
           THEN [sweep EXCEPT !.pc = "idle"] ELSE sweep

-----------------------------------------------------------------------------
(* POST /jobs.  The main path. *)

\* Reads job.json, answers at once for a running job, and decides whether there
\* are secrets to mount.
CreateLoad(j) ==
  /\ create[j].pc = "load"
  /\ create' = [create EXCEPT ![j] =
                  [@ EXCEPT !.pc = IF meta[j].status = "absent" THEN "raised"
                                   ELSE IF meta[j].status = "running" THEN "ok"
                                   ELSE "network",
                            !.meta = meta[j],
                            !.vol  = staged[j],
                            !.todo = Targets]]
  /\ ServiceConstructed
  /\ UNCHANGED <<fileVars, dockerVars, final, cancel, managerRestarts>>

\* create_internal_network raises when the network exists or docker fails; at
\* that point nothing is undone.
CreateNetworkStep(j) ==
  /\ create[j].pc = "network"
  /\ \/ CreateNetwork(j) /\ CreateTo(j, "volume")
     \/ /\ network[j] \/ "docker" \in Faults
        /\ CreateTo(j, "raised")
        /\ UNCHANGED network
  /\ UNCHANGED <<fileVars, container, client, attached, volume, otherThanCreate>>

\* (Defect: the volume is left to docker run.)
CreateVolumeLater(j) ==
  /\ create[j].pc = "volume"
  /\ CreateTo(j, "connect")
  /\ UNCHANGED <<fileVars, dockerVars, otherThanCreate>>

CreateVolumeStep(j) ==
  /\ create[j].pc = "volume"
  /\ \/ /\ IF create[j].vol THEN CreateTmpfsVolume(j) ELSE UNCHANGED volume
        /\ CreateTo(j, "connect")
     \/ /\ create[j].vol /\ "docker" \in Faults
        /\ CreateFaults(j, "build", "disconnect")
        /\ UNCHANGED volume
  /\ UNCHANGED <<fileVars, container, client, network, attached, otherThanCreate>>

\* Attaches the targets one by one.  When an attachment fails the list of those
\* made before it is lost with the exception.
CreateConnect(j) ==
  /\ create[j].pc = "connect"
  /\ \/ /\ create[j].todo = {}
        /\ create' = [create EXCEPT ![j].pc = "build", ![j].got = Targets]
        /\ UNCHANGED attached
     \/ /\ network[j]
        /\ \E t \in create[j].todo :
             /\ attached' = [attached EXCEPT ![j] = @ \cup {t}]
             /\ create' = [create EXCEPT ![j].todo = @ \ {t}]
     \/ /\ create[j].todo # {}
        /\ ~network[j] \/ "connect" \in Faults
        /\ CreateFaults(j, "build", "disconnect")
        /\ UNCHANGED attached
  /\ UNCHANGED <<fileVars, container, client, network, volume, otherThanCreate>>

\* build_container_command validates the hardened request and may raise.
CreateBuild(j) ==
  /\ create[j].pc = "build"
  /\ \/ CreateTo(j, "start")
     \/ "docker" \in Faults /\ CreateFaults(j, "build", "disconnect")
  /\ UNCHANGED <<fileVars, dockerVars, otherThanCreate>>

\* (Defect: publishes the job without waiting for its container.)
CreateStartUnawaited(j) ==
  /\ create[j].pc = "start"
  /\ LaunchContainer(j, create[j].vol)
  /\ CreateTo(j, "publish")
  /\ UNCHANGED <<fileVars, network, attached, volume, otherThanCreate>>

\* (Defect: starts the finalizer with the runner, before job.json says so.)
CreateStartFinalizing(j) ==
  /\ create[j].pc = "start"
  /\ LaunchContainer(j, create[j].vol)
  /\ CreateTo(j, IF create[j].vol THEN "wait" ELSE "publish")
  /\ final' = [final EXCEPT ![j] = [NoFinal EXCEPT !.pc = "wait"]]
  /\ UNCHANGED <<fileVars, network, attached, volume, cancel, sweep, managerRestarts>>

CreateStart(j) ==
  /\ create[j].pc = "start"
  /\ \/ /\ LaunchContainer(j, create[j].vol)
        /\ CreateTo(j, IF create[j].vol THEN "wait" ELSE "publish")
     \/ /\ "docker" \in Faults
        /\ CreateFaults(j, "start", "disconnect")
        /\ UNCHANGED <<container, client>>
  /\ UNCHANGED <<fileVars, network, attached, volume, otherThanCreate>>

\* Waits for State.Running; gives up after INFINITO_RUNNER_WAIT_SECONDS or when
\* the container has exited, which is always possible.
CreateWait(j) ==
  /\ create[j].pc = "wait"
  /\ \/ container[j].state = "up" /\ CreateTo(j, "seed")
     \/ /\ container[j].state = "none" \/ "docker" \in Faults
        /\ CreateFaults(j, "seed", "kill")
  /\ UNCHANGED <<fileVars, dockerVars, otherThanCreate>>

\* Copies the staged files into the volume from a helper container.
CreateSeed(j) ==
  /\ create[j].pc = "seed"
  /\ \/ SeedVolume(j, staged[j]) /\ CreateTo(j, "publish")
     \/ /\ "docker" \in Faults
        /\ CreateFaults(j, "seed", "kill")
        /\ UNCHANGED volume
  /\ UNCHANGED <<fileVars, container, client, network, attached, otherThanCreate>>

\* (Defect: no finalizer.)
CreatePublishOnly(j) ==
  /\ create[j].pc = "publish"
  /\ WriteMeta(j, [create[j].meta EXCEPT !.status = "running", !.cid = TRUE,
                                         !.vol = create[j].vol,
                                         !.targets = create[j].got])
  /\ CreateTo(j, "ok")
  /\ UNCHANGED <<staged, dockerVars, otherThanCreate>>

\* Writes "running" into the copy of job.json read at the start, then starts
\* the finalizer and answers.
CreatePublish(j) ==
  /\ create[j].pc = "publish"
  /\ WriteMeta(j, [create[j].meta EXCEPT !.status = "running", !.cid = TRUE,
                                         !.vol = create[j].vol,
                                         !.targets = create[j].got])
  /\ final' = [final EXCEPT ![j] = [NoFinal EXCEPT !.pc = "wait"]]
  /\ CreateTo(j, "ok")
  /\ UNCHANGED <<staged, dockerVars, cancel, sweep, managerRestarts>>

-----------------------------------------------------------------------------
(* POST /jobs.  The except blocks: "build" undoes and raises, "start" undoes,
   writes "failed" and raises, "seed" kills the runner first. *)

CreateKill(j) ==
  /\ create[j].pc = "kill"
  /\ TerminateClient(j, TRUE)
  /\ CreateTo(j, "stop")
  /\ UNCHANGED <<fileVars, network, attached, volume, otherThanCreate>>

CreateStop(j) ==
  /\ create[j].pc = "stop"
  /\ StopContainer(j, TRUE)
  /\ CreateTo(j, "disconnect")
  /\ UNCHANGED <<fileVars, network, attached, volume, otherThanCreate>>

CreateDisconnect(j) ==
  /\ create[j].pc = "disconnect"
  /\ Disconnect(j, create[j].got)
  /\ CreateTo(j, "rmnet")
  /\ UNCHANGED <<fileVars, container, client, network, volume, otherThanCreate>>

CreateRemoveNetwork(j) ==
  /\ create[j].pc = "rmnet"
  /\ RemoveNetwork(j)
  /\ CreateTo(j, IF create[j].fault = "seed" THEN "fail" ELSE "rmvol")
  /\ UNCHANGED <<fileVars, container, client, attached, volume, otherThanCreate>>

CreateFail(j) ==
  /\ create[j].pc = "fail"
  /\ LET seeding == create[j].fault = "seed"
     IN  /\ WriteMeta(j, [create[j].meta EXCEPT
                            !.status  = "failed",
                            !.cid     = seeding,
                            !.vol     = seeding /\ create[j].vol,
                            !.targets = IF seeding THEN create[j].got ELSE {}])
         /\ CreateTo(j, IF seeding THEN "clean" ELSE "raised")
  /\ UNCHANGED <<staged, dockerVars, otherThanCreate>>

CreateClean(j) ==
  /\ create[j].pc = "clean"
  /\ staged' = [staged EXCEPT ![j] = FALSE]
  /\ CreateTo(j, "rmvol")
  /\ UNCHANGED <<meta, dockerVars, otherThanCreate>>

CreateRemoveVolume(j) ==
  /\ create[j].pc = "rmvol"
  /\ RemoveVolume(j, create[j].vol)
  /\ CreateTo(j, IF create[j].fault = "start" THEN "fail" ELSE "raised")
  /\ UNCHANGED <<fileVars, container, client, network, attached, otherThanCreate>>

CreateStep(j) ==
  \/ CreateLoad(j)       \/ CreateNetworkStep(j)  \/ CreateVolumeStep(j)
  \/ CreateConnect(j)    \/ CreateBuild(j)        \/ CreateStart(j)
  \/ CreateWait(j)       \/ CreateSeed(j)         \/ CreatePublish(j)
  \/ CreateKill(j)       \/ CreateStop(j)         \/ CreateDisconnect(j)
  \/ CreateRemoveNetwork(j) \/ CreateFail(j)      \/ CreateClean(j)
  \/ CreateRemoveVolume(j)

-----------------------------------------------------------------------------
(* _wait_and_finalize. *)

FinalWait(j) ==
  /\ final[j].pc = "wait"
  /\ ClientExited(j)
  /\ FinalTo(j, "load")
  /\ UNCHANGED <<fileVars, dockerVars, otherThanFinal>>

FinalLoad(j) ==
  /\ final[j].pc = "load"
  /\ final' = [final EXCEPT ![j] = [pc |-> "write", meta |-> meta[j]]]
  /\ UNCHANGED <<fileVars, dockerVars, otherThanFinal>>

\* A job already canceled stays canceled; otherwise the exit code decides.
FinalWrite(j) ==
  /\ final[j].pc = "write"
  /\ WriteMeta(j, [final[j].meta EXCEPT
                     !.status = IF @ = "canceled" THEN @
                                ELSE IF client[j] = "zero" THEN "succeeded"
                                ELSE "failed"])
  /\ FinalTo(j, "disconnect")
  /\ UNCHANGED <<staged, dockerVars, otherThanFinal>>

\* (Defect: the finalizer leaves the targets to the cancel handler.)
FinalDisconnectNone(j) ==
  /\ final[j].pc = "disconnect"
  /\ FinalTo(j, "rmnet")
  /\ UNCHANGED <<fileVars, dockerVars, otherThanFinal>>

FinalDisconnect(j) ==
  /\ final[j].pc = "disconnect"
  /\ Disconnect(j, final[j].meta.targets)
  /\ FinalTo(j, "rmnet")
  /\ UNCHANGED <<fileVars, container, client, network, volume, otherThanFinal>>

FinalRemoveNetwork(j) ==
  /\ final[j].pc = "rmnet"
  /\ RemoveNetwork(j)
  /\ FinalTo(j, "clean")
  /\ UNCHANGED <<fileVars, container, client, attached, volume, otherThanFinal>>

FinalClean(j) ==
  /\ final[j].pc = "clean"
  /\ staged' = [staged EXCEPT ![j] = FALSE]
  /\ FinalTo(j, "rmvol")
  /\ UNCHANGED <<meta, dockerVars, otherThanFinal>>

FinalRemoveVolume(j) ==
  /\ final[j].pc = "rmvol"
  /\ RemoveVolume(j, final[j].meta.vol)
  /\ FinalTo(j, "done")
  /\ UNCHANGED <<fileVars, container, client, network, attached, otherThanFinal>>

FinalStep(j) ==
  \/ FinalWait(j)       \/ FinalLoad(j)          \/ FinalWrite(j)
  \/ FinalDisconnect(j) \/ FinalRemoveNetwork(j) \/ FinalClean(j)
  \/ FinalRemoveVolume(j)

-----------------------------------------------------------------------------
(* DELETE /jobs/<id>. *)

\* Missing and terminal jobs are answered without touching anything.
CancelLoad(c) ==
  /\ cancel[c].pc = "load"
  /\ LET m == meta[cancel[c].job]
     IN  cancel' = [cancel EXCEPT ![c] =
                      [@ EXCEPT !.pc = IF m.status \in Active THEN "terminate"
                                       ELSE "reply",
                                !.meta = m]]
  /\ ServiceConstructed
  /\ UNCHANGED <<fileVars, dockerVars, create, final, managerRestarts>>

CancelTerminate(c) ==
  /\ cancel[c].pc = "terminate"
  /\ TerminateClient(cancel[c].job, cancel[c].meta.cid)
  /\ CancelTo(c, "stop")
  /\ UNCHANGED <<fileVars, network, attached, volume, otherThanCancel>>

CancelStop(c) ==
  /\ cancel[c].pc = "stop"
  /\ StopContainer(cancel[c].job, cancel[c].meta.cid)
  /\ CancelTo(c, "disconnect")
  /\ UNCHANGED <<fileVars, network, attached, volume, otherThanCancel>>

CancelDisconnect(c) ==
  /\ cancel[c].pc = "disconnect"
  /\ Disconnect(cancel[c].job, cancel[c].meta.targets)
  /\ CancelTo(c, "rmnet")
  /\ UNCHANGED <<fileVars, container, client, network, volume, otherThanCancel>>

CancelRemoveNetwork(c) ==
  /\ cancel[c].pc = "rmnet"
  /\ RemoveNetwork(cancel[c].job)
  /\ CancelTo(c, "write")
  /\ UNCHANGED <<fileVars, container, client, attached, volume, otherThanCancel>>

CancelWrite(c) ==
  /\ cancel[c].pc = "write"
  /\ WriteMeta(cancel[c].job, [cancel[c].meta EXCEPT !.status = "canceled"])
  /\ CancelTo(c, "clean")
  /\ UNCHANGED <<staged, dockerVars, otherThanCancel>>

CancelClean(c) ==
  /\ cancel[c].pc = "clean"
  /\ staged' = [staged EXCEPT ![cancel[c].job] = FALSE]
  /\ CancelTo(c, "rmvol")
  /\ UNCHANGED <<meta, dockerVars, otherThanCancel>>

CancelRemoveVolume(c) ==
  /\ cancel[c].pc = "rmvol"
  /\ RemoveVolume(cancel[c].job, cancel[c].meta.vol)
  /\ CancelTo(c, "reply")
  /\ UNCHANGED <<fileVars, container, client, network, attached, otherThanCancel>>

CancelStep(c) ==
  \/ CancelLoad(c)       \/ CancelTerminate(c)     \/ CancelStop(c)
  \/ CancelDisconnect(c) \/ CancelRemoveNetwork(c) \/ CancelWrite(c)
  \/ CancelClean(c)      \/ CancelRemoveVolume(c)

-----------------------------------------------------------------------------
(* sweep_orphans.  The set of active jobs is read once, at the start; the
   artifacts are listed and removed afterwards.  (Jobs do not interact, so
   reading the job files in one step loses nothing.) *)

SweepBegin ==
  /\ sweep.pc = "idle"
  /\ sweep' = [pc |-> "containers", todo |-> {},
               active |-> {j \in Jobs : meta[j].status \in Active}]
  /\ UNCHANGED <<fileVars, dockerVars, otherThanSweep>>

\* List, then remove one by one, at the step named pc.
SweepList(pc, next, found) ==
  /\ sweep.pc = pc
  /\ sweep' = [sweep EXCEPT !.pc = next, !.todo = found]
  /\ UNCHANGED <<fileVars, dockerVars, otherThanSweep>>

SweepDone(pc, next) ==
  /\ sweep.pc = pc
  /\ sweep.todo = {}
  /\ sweep' = [sweep EXCEPT !.pc = next]
  /\ UNCHANGED <<fileVars, dockerVars, otherThanSweep>>

SweepListContainers ==
  SweepList("containers", "rm_containers", {j \in Jobs : container[j].state = "up"})
SweepListNetworks ==
  SweepList("networks", "rm_networks", {j \in Jobs \ sweep.active : network[j]})
SweepListVolumes ==
  SweepList("volumes", "rm_volumes",
            {j \in Jobs \ sweep.active : volume[j].kind # "none"})

\* The job id comes from the container's labels; when docker inspect fails the
\* labels are empty and the container counts as an orphan's.
SweepContainer(j) ==
  /\ sweep.pc = "rm_containers" /\ j \in sweep.todo
  /\ sweep' = [sweep EXCEPT !.todo = @ \ {j}]
  /\ \/ /\ j \in sweep.active
        /\ UNCHANGED <<container, client>>
     \/ /\ j \notin sweep.active \/ "inspect" \in Faults
        /\ StopContainer(j, TRUE)
  /\ UNCHANGED <<fileVars, network, attached, volume, otherThanSweep>>

SweepNetwork(j) ==
  /\ sweep.pc = "rm_networks" /\ j \in sweep.todo
  /\ sweep' = [sweep EXCEPT !.todo = @ \ {j}]
  /\ RemoveNetwork(j)
  /\ UNCHANGED <<fileVars, container, client, attached, volume, otherThanSweep>>

SweepVolume(j) ==
  /\ sweep.pc = "rm_volumes" /\ j \in sweep.todo
  /\ sweep' = [sweep EXCEPT !.todo = @ \ {j}]
  /\ RemoveVolume(j, TRUE)
  /\ UNCHANGED <<fileVars, container, client, network, attached, otherThanSweep>>

\* Job directories past the retention window.
SweepDirs ==
  /\ sweep.pc = "dirs"
  /\ LET stale == {j \in Jobs \ sweep.active :
                     meta[j].status \in Terminal /\ meta[j].old}
     IN  /\ meta'   = [j \in Jobs |-> IF j \in stale THEN NoMeta ELSE meta[j]]
         /\ staged' = [j \in Jobs |-> staged[j] /\ j \notin stale]
  /\ sweep' = [NoSweep EXCEPT !.pc = "idle"]
  /\ UNCHANGED <<dockerVars, otherThanSweep>>

SweepStep ==
  \/ SweepBegin \/ SweepListContainers \/ SweepListNetworks \/ SweepListVolumes
  \/ \E j \in Jobs : SweepContainer(j) \/ SweepNetwork(j) \/ SweepVolume(j)
  \/ SweepDone("rm_containers", "networks") \/ SweepDone("rm_networks", "volumes")
  \/ SweepDone("rm_volumes", "dirs")
  \/ SweepDirs
=============================================================================
