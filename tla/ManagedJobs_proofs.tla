------------------------- MODULE ManagedJobs_proofs -------------------------
(***************************************************************************)
(* Proofs about modules ManagedJobs and CancelOrder, for any sets of jobs, *)
(* targets, cancel requests and faults: type correctness, and CancelStops  *)
(* by the inductive invariant StopInv.                                     *)
(***************************************************************************)
EXTENDS CancelOrder, TLAPS

-----------------------------------------------------------------------------
(* Type correctness.  One lemma per process, one case per action; a case     *)
(* types the variables the action assigns and frames the others.             *)

\* The initial state is well typed.
LEMMA InitType == Init => TypeOK
  <1> SUFFICES ASSUME Init PROVE TypeOK
    OBVIOUS
  <1>1. DockerTypeOK
    BY DEF Init, DockerInit, DockerTypeOK, NoContainer, NoVolume, Container, Volume,
           ContainerState, ClientState, VolumeKind
  <1>2. NoMeta \in Meta
    BY DEF NoMeta, Meta, Status
  <1>3. ManagerTypeOK
    BY <1>2, RestartsAssumption
       DEF Init, ManagerInit, ManagerTypeOK, NoCreate, NoFinal, NoCancel, NoSweep,
           Create, Final, Cancel, Sweep, CreatePc, FinalPc, CancelPc, SweepPc
  <1>4. api \in [Jobs -> Api] /\ watched \in [Jobs -> BOOLEAN]
    BY <1>2 DEF Init, NoApi, Api, ApiPc
  <1>5. store \in SUBSET Jobs /\ apiRestarts \in 0..MaxRestarts
    BY RestartsAssumption DEF Init
  <1>6. built \in BOOLEAN
    BY DEF Init
  <1> QED
    BY <1>1, <1>3, <1>4, <1>5, <1>6 DEF TypeOK

LEMMA NoMetaType == NoMeta \in Meta
  BY DEF NoMeta, Meta, Status

\* Writing job.json keeps its type.
LEMMA WriteMetaType ==
  ASSUME meta \in [Jobs -> Meta], NEW j \in Jobs, NEW m \in Meta, WriteMeta(j, m)
  PROVE  meta' \in [Jobs -> Meta]
  BY DEF WriteMeta, Meta

\* A step of the create handler that only moves on, in order or to its except
\* block, keeps the type of its state.
LEMMA CreateToType ==
  ASSUME create \in [Jobs -> Create], NEW j \in Jobs, NEW pc \in CreatePc
  PROVE  /\ CreateTo(j, pc) => create' \in [Jobs -> Create]
         /\ \A fault \in {"build", "start", "seed"} :
              CreateFaults(j, fault, pc) => create' \in [Jobs -> Create]
  <1>1. ASSUME CreateTo(j, pc) PROVE create' \in [Jobs -> Create]
    BY <1>1 DEF CreateTo, Create
  <1>2. ASSUME NEW fault \in {"build", "start", "seed"}, CreateFaults(j, fault, pc)
        PROVE  create' \in [Jobs -> Create]
    <2>1. [create[j] EXCEPT !.pc = pc, !.fault = fault] \in Create
      BY DEF Create
    <2>2. create' = [create EXCEPT ![j] = [create[j] EXCEPT !.pc = pc, !.fault = fault]]
      BY <1>2 DEF CreateFaults
    <2> QED
      BY <2>1, <2>2
  <1> QED
    BY <1>1, <1>2

\* Terminating the client and stopping the container keep the types.
LEMMA TerminateType ==
  ASSUME container \in [Jobs -> Container], client \in [Jobs -> ClientState],
         NEW j \in Jobs, NEW known, TerminateClient(j, known)
  PROVE  container' \in [Jobs -> Container] /\ client' \in [Jobs -> ClientState]
  <1>1. NoContainer \in Container
    BY DEF NoContainer, Container, ContainerState
  <1>2. container' = container \/ container' = [container EXCEPT ![j] = NoContainer]
    BY DEF TerminateClient
  <1>3. client' = client \/ client' = [client EXCEPT ![j] = "nonzero"]
    BY DEF TerminateClient
  <1> QED
    BY <1>1, <1>2, <1>3 DEF ClientState

LEMMA StopType ==
  ASSUME container \in [Jobs -> Container], client \in [Jobs -> ClientState],
         NEW j \in Jobs, NEW known, StopContainer(j, known)
  PROVE  container' \in [Jobs -> Container] /\ client' \in [Jobs -> ClientState]
  <1>1. NoContainer \in Container
    BY DEF NoContainer, Container, ContainerState
  <1>2. container' = container \/ container' = [container EXCEPT ![j] = NoContainer]
    BY DEF StopContainer
  <1>3. client' = client \/ client' = [client EXCEPT ![j] = Interrupted(@)]
    BY DEF StopContainer
  <1> QED
    BY <1>1, <1>2, <1>3 DEF ClientState, Interrupted

LEMMA TmpfsType ==
  ASSUME volume \in [Jobs -> Volume], NEW j \in Jobs, CreateTmpfsVolume(j)
  PROVE  volume' \in [Jobs -> Volume]
  BY DEF CreateTmpfsVolume, Volume, VolumeKind

\* The daemon and the workload keep the types.
LEMMA DockerType ==
  ASSUME TypeOK, NEW j \in Jobs, DockerStep(j), UNCHANGED <<fileVars, managerVars, apiVars>>
  PROVE  TypeOK'
  <1>t. /\ container \in [Jobs -> Container] /\ client \in [Jobs -> ClientState]
        /\ network \in [Jobs -> BOOLEAN] /\ attached \in [Jobs -> SUBSET Targets]
        /\ volume \in [Jobs -> Volume] /\ meta \in [Jobs -> Meta]
        /\ staged \in [Jobs -> BOOLEAN] /\ create \in [Jobs -> Create]
        /\ final \in [Jobs -> Final] /\ cancel \in [Cancels -> Cancel]
        /\ sweep \in Sweep /\ managerRestarts \in 0..MaxRestarts
        /\ api \in [Jobs -> Api] /\ watched \in [Jobs -> BOOLEAN]
        /\ store \in SUBSET Jobs /\ built \in BOOLEAN
        /\ apiRestarts \in 0..MaxRestarts
    BY DEF TypeOK, DockerTypeOK, ManagerTypeOK
  <1>1. CASE ContainerComesUp(j)
    <2>1. container' \in [Jobs -> Container]
      BY <1>t, <1>1 DEF ContainerComesUp, Container, ContainerState
    <2>2. volume' \in [Jobs -> Volume]
      BY <1>t, <1>1 DEF ContainerComesUp, Volume, VolumeKind, Container
    <2>3. UNCHANGED <<client, network, attached, fileVars, managerVars, apiVars>>
      BY <1>1 DEF ContainerComesUp
    <2> QED
      BY <2>1, <2>2, <2>3, <1>t DEF TypeOK, DockerTypeOK, ManagerTypeOK, fileVars,
         managerVars, apiVars
  <1>2. CASE ContainerFailsToStart(j)
    <2>1. container' \in [Jobs -> Container]
      BY <1>t, <1>2 DEF ContainerFailsToStart, NoContainer, Container, ContainerState
    <2>2. client' \in [Jobs -> ClientState]
      BY <1>t, <1>2 DEF ContainerFailsToStart, Interrupted, ClientState
    <2>3. UNCHANGED <<network, attached, volume, fileVars, managerVars, apiVars>>
      BY <1>2 DEF ContainerFailsToStart
    <2> QED
      BY <2>1, <2>2, <2>3, <1>t DEF TypeOK, DockerTypeOK, ManagerTypeOK, fileVars,
         managerVars, apiVars
  <1>3. CASE RunnerExits(j)
    <2>1. container' \in [Jobs -> Container]
      BY <1>t, <1>3 DEF RunnerExits, NoContainer, Container, ContainerState
    <2>2. client' \in [Jobs -> ClientState]
      BY <1>t, <1>3 DEF RunnerExits, ClientState
    <2>3. UNCHANGED <<network, attached, volume, fileVars, managerVars, apiVars>>
      BY <1>3 DEF RunnerExits
    <2> QED
      BY <2>1, <2>2, <2>3, <1>t DEF TypeOK, DockerTypeOK, ManagerTypeOK, fileVars,
         managerVars, apiVars
  <1> QED
    BY <1>1, <1>2, <1>3 DEF DockerStep

\* The create handler keeps the types.
LEMMA CreateType ==
  ASSUME TypeOK, NEW j \in Jobs, CreateStep(j), UNCHANGED apiVars
  PROVE  TypeOK'
  <1>t. /\ container \in [Jobs -> Container] /\ client \in [Jobs -> ClientState]
        /\ network \in [Jobs -> BOOLEAN] /\ attached \in [Jobs -> SUBSET Targets]
        /\ volume \in [Jobs -> Volume] /\ meta \in [Jobs -> Meta]
        /\ staged \in [Jobs -> BOOLEAN] /\ create \in [Jobs -> Create]
        /\ final \in [Jobs -> Final] /\ cancel \in [Cancels -> Cancel]
        /\ sweep \in Sweep /\ managerRestarts \in 0..MaxRestarts
        /\ api \in [Jobs -> Api] /\ watched \in [Jobs -> BOOLEAN]
        /\ store \in SUBSET Jobs /\ built \in BOOLEAN
        /\ apiRestarts \in 0..MaxRestarts
    BY DEF TypeOK, DockerTypeOK, ManagerTypeOK
  <1>1. CASE CreateLoad(j)
    <2>1. create' \in [Jobs -> Create]
      <3>1. create[j] \in Create /\ meta[j] \in Meta /\ staged[j] \in BOOLEAN
        BY <1>t
      <3>2. [create[j] EXCEPT
              !.pc = IF meta[j].status = "absent" THEN "raised"
                     ELSE IF meta[j].status = "running" THEN "ok" ELSE "network",
              !.meta = meta[j], !.vol = staged[j], !.todo = Targets] \in Create
        BY <3>1 DEF Create, CreatePc
      <3> QED
        BY <1>t, <1>1, <3>2 DEF CreateLoad
    <2>2. sweep' \in Sweep
      BY <1>t, <1>1 DEF CreateLoad, ServiceConstructed, Sweep, SweepPc
    <2>3. UNCHANGED <<fileVars, dockerVars, final, cancel, managerRestarts, apiVars>>
      BY <1>1 DEF CreateLoad
    <2> QED
      BY <2>1, <2>2, <2>3, <1>t DEF TypeOK, DockerTypeOK, ManagerTypeOK, fileVars,
         dockerVars, apiVars
  <1>2. CASE CreateNetworkStep(j)
    <2>1. network' \in [Jobs -> BOOLEAN]
      BY <1>t, <1>2 DEF CreateNetworkStep, CreateNetwork
    <2>2. create' \in [Jobs -> Create]
      BY <1>t, <1>2, CreateToType DEF CreateNetworkStep, CreatePc
    <2>3. UNCHANGED <<fileVars, container, client, attached, volume, otherThanCreate, apiVars>>
      BY <1>2 DEF CreateNetworkStep
    <2> QED
      BY <2>1, <2>2, <2>3, <1>t DEF TypeOK, DockerTypeOK, ManagerTypeOK, fileVars,
         otherThanCreate, apiVars
  <1>3. CASE CreateVolumeStep(j)
    <2>1. volume' \in [Jobs -> Volume]
      BY <1>t, <1>3, TmpfsType DEF CreateVolumeStep, Create
    <2>2. create' \in [Jobs -> Create]
      BY <1>t, <1>3, CreateToType DEF CreateVolumeStep, CreatePc
    <2>3. UNCHANGED <<fileVars, container, client, network, attached, otherThanCreate, apiVars>>
      BY <1>3 DEF CreateVolumeStep
    <2> QED
      BY <2>1, <2>2, <2>3, <1>t DEF TypeOK, DockerTypeOK, ManagerTypeOK, fileVars,
         otherThanCreate, apiVars
  <1>4. CASE CreateConnect(j)
    <2>1. attached' \in [Jobs -> SUBSET Targets]
      BY <1>t, <1>4 DEF CreateConnect, Create
    <2>2. create' \in [Jobs -> Create]
      <3>1. CASE CreateFaults(j, "build", "disconnect")
        BY <1>t, <3>1, CreateToType DEF CreatePc
      <3>2. CASE create' = [create EXCEPT ![j].pc = "build", ![j].got = Targets]
        <4>1. "build" \in CreatePc /\ Targets \in SUBSET Targets
          BY DEF CreatePc
        <4>2. [create[j] EXCEPT !.pc = "build", !.got = Targets] \in Create
          <5>1. create[j] \in Create
            BY <1>t
          <5> QED
            BY <4>1, <5>1 DEF Create
        <4>3. create' = [create EXCEPT ![j] = [create[j] EXCEPT !.pc = "build", !.got = Targets]]
          BY <3>2
        <4> QED
          BY <1>t, <4>2, <4>3
      <3>3. CASE \E t \in create[j].todo : create' = [create EXCEPT ![j].todo = @ \ {t}]
        <4>1. PICK t \in create[j].todo : create' = [create EXCEPT ![j].todo = @ \ {t}]
          BY <3>3
        <4>2. create[j] \in Create /\ create[j].todo \ {t} \in SUBSET Targets
          BY <1>t DEF Create
        <4>3. [create[j] EXCEPT !.todo = create[j].todo \ {t}] \in Create
          BY <4>2 DEF Create
        <4>4. create' = [create EXCEPT ![j] = [create[j] EXCEPT !.todo = create[j].todo \ {t}]]
          BY <4>1
        <4> QED
          BY <1>t, <4>3, <4>4
      <3> QED
        BY <3>1, <3>2, <3>3, <1>4 DEF CreateConnect
    <2>3. UNCHANGED <<fileVars, container, client, network, volume, otherThanCreate, apiVars>>
      BY <1>4 DEF CreateConnect
    <2> QED
      BY <2>1, <2>2, <2>3, <1>t DEF TypeOK, DockerTypeOK, ManagerTypeOK, fileVars,
         otherThanCreate, apiVars
  <1>5. CASE CreateBuild(j)
    <2>1. create' \in [Jobs -> Create]
      BY <1>t, <1>5, CreateToType DEF CreateBuild, CreatePc
    <2>2. UNCHANGED <<fileVars, dockerVars, otherThanCreate, apiVars>>
      BY <1>5 DEF CreateBuild
    <2> QED
      BY <2>1, <2>2, <1>t DEF TypeOK, DockerTypeOK, ManagerTypeOK, fileVars, dockerVars,
         otherThanCreate, apiVars
  <1>6. CASE CreateStart(j)
    <2>1. container' \in [Jobs -> Container]
      <3>1. container' = container \/ LaunchContainer(j, create[j].vol)
        BY <1>6 DEF CreateStart
      <3>2. create[j].vol \in BOOLEAN
        BY <1>t DEF Create
      <3>3. [state |-> "starting", vol |-> create[j].vol] \in Container
        BY <3>2 DEF Container, ContainerState
      <3> QED
        BY <1>t, <3>1, <3>3 DEF LaunchContainer
    <2>2. client' \in [Jobs -> ClientState]
      BY <1>t, <1>6 DEF CreateStart, LaunchContainer, ClientState
    <2>3. create' \in [Jobs -> Create]
      BY <1>t, <1>6, CreateToType DEF CreateStart, CreatePc
    <2>4. UNCHANGED <<fileVars, network, attached, volume, otherThanCreate, apiVars>>
      BY <1>6 DEF CreateStart
    <2> QED
      BY <2>1, <2>2, <2>3, <2>4, <1>t DEF TypeOK, DockerTypeOK, ManagerTypeOK, fileVars,
         otherThanCreate, apiVars
  <1>7. CASE CreateWait(j)
    <2>1. create' \in [Jobs -> Create]
      BY <1>t, <1>7, CreateToType DEF CreateWait, CreatePc
    <2>2. UNCHANGED <<fileVars, dockerVars, otherThanCreate, apiVars>>
      BY <1>7 DEF CreateWait
    <2> QED
      BY <2>1, <2>2, <1>t DEF TypeOK, DockerTypeOK, ManagerTypeOK, fileVars, dockerVars,
         otherThanCreate, apiVars
  <1>8. CASE CreateSeed(j)
    <2>1. volume' \in [Jobs -> Volume]
      <3>1. volume' = volume \/ SeedVolume(j, staged[j])
        BY <1>8 DEF CreateSeed
      <3>2. staged[j] \in BOOLEAN /\ volume[j].seeded \in BOOLEAN
            /\ volume[j].kind \in VolumeKind
        BY <1>t DEF Volume
      <3>3. CASE SeedVolume(j, staged[j])
        <4>1. [kind   |-> IF volume[j].kind = "none" THEN "plain" ELSE volume[j].kind,
               seeded |-> volume[j].seeded \/ staged[j]] \in Volume
          BY <3>2 DEF Volume, VolumeKind
        <4> QED
          BY <1>t, <3>3, <4>1 DEF SeedVolume
      <3> QED
        BY <1>t, <3>1, <3>3
    <2>2. create' \in [Jobs -> Create]
      BY <1>t, <1>8, CreateToType DEF CreateSeed, CreatePc
    <2>3. UNCHANGED <<fileVars, container, client, network, attached, otherThanCreate, apiVars>>
      BY <1>8 DEF CreateSeed
    <2> QED
      BY <2>1, <2>2, <2>3, <1>t DEF TypeOK, DockerTypeOK, ManagerTypeOK, fileVars,
         otherThanCreate, apiVars
  <1>9. CASE CreatePublish(j)
    <2>1. meta' \in [Jobs -> Meta]
      <3>1. create[j].meta \in Meta /\ create[j].vol \in BOOLEAN /\ create[j].got \subseteq Targets
        BY <1>t DEF Create
      <3>2. [create[j].meta EXCEPT !.status = "running", !.cid = TRUE,
                                     !.vol = create[j].vol,
                                     !.targets = create[j].got] \in Meta
        BY <3>1 DEF Meta, Status, Active
      <3> QED
        BY <1>t, <1>9, <3>2, WriteMetaType DEF CreatePublish
    <2>2. create' \in [Jobs -> Create]
      BY <1>t, <1>9, CreateToType DEF CreatePublish, CreatePc
    <2>3. final' \in [Jobs -> Final]
      BY <1>t, <1>9 DEF CreatePublish, NoFinal, NoMeta, Final, FinalPc, Meta, Status
    <2>4. UNCHANGED <<staged, dockerVars, cancel, sweep, managerRestarts, apiVars>>
      BY <1>9 DEF CreatePublish
    <2> QED
      BY <2>1, <2>2, <2>3, <2>4, <1>t DEF TypeOK, DockerTypeOK, ManagerTypeOK,
         dockerVars, apiVars
  <1>10. CASE CreateKill(j)
    <2>1. container' \in [Jobs -> Container]
      BY <1>t, <1>10, TerminateType DEF CreateKill
    <2>2. client' \in [Jobs -> ClientState]
      BY <1>t, <1>10, TerminateType DEF CreateKill
    <2>3. create' \in [Jobs -> Create]
      BY <1>t, <1>10, CreateToType DEF CreateKill, CreatePc
    <2>4. UNCHANGED <<fileVars, network, attached, volume, otherThanCreate, apiVars>>
      BY <1>10 DEF CreateKill
    <2> QED
      BY <2>1, <2>2, <2>3, <2>4, <1>t DEF TypeOK, DockerTypeOK, ManagerTypeOK, fileVars,
         otherThanCreate, apiVars
  <1>11. CASE CreateStop(j)
    <2>1. container' \in [Jobs -> Container]
      BY <1>t, <1>11, StopType DEF CreateStop
    <2>2. client' \in [Jobs -> ClientState]
      BY <1>t, <1>11, StopType DEF CreateStop
    <2>3. create' \in [Jobs -> Create]
      BY <1>t, <1>11, CreateToType DEF CreateStop, CreatePc
    <2>4. UNCHANGED <<fileVars, network, attached, volume, otherThanCreate, apiVars>>
      BY <1>11 DEF CreateStop
    <2> QED
      BY <2>1, <2>2, <2>3, <2>4, <1>t DEF TypeOK, DockerTypeOK, ManagerTypeOK, fileVars,
         otherThanCreate, apiVars
  <1>12. CASE CreateDisconnect(j)
    <2>1. attached' \in [Jobs -> SUBSET Targets]
      BY <1>t, <1>12 DEF CreateDisconnect, Disconnect
    <2>2. create' \in [Jobs -> Create]
      BY <1>t, <1>12, CreateToType DEF CreateDisconnect, CreatePc
    <2>3. UNCHANGED <<fileVars, container, client, network, volume, otherThanCreate, apiVars>>
      BY <1>12 DEF CreateDisconnect
    <2> QED
      BY <2>1, <2>2, <2>3, <1>t DEF TypeOK, DockerTypeOK, ManagerTypeOK, fileVars,
         otherThanCreate, apiVars
  <1>13. CASE CreateRemoveNetwork(j)
    <2>1. network' \in [Jobs -> BOOLEAN]
      BY <1>t, <1>13 DEF CreateRemoveNetwork, RemoveNetwork
    <2>2. create' \in [Jobs -> Create]
      BY <1>t, <1>13, CreateToType DEF CreateRemoveNetwork, CreatePc
    <2>3. UNCHANGED <<fileVars, container, client, attached, volume, otherThanCreate, apiVars>>
      BY <1>13 DEF CreateRemoveNetwork
    <2> QED
      BY <2>1, <2>2, <2>3, <1>t DEF TypeOK, DockerTypeOK, ManagerTypeOK, fileVars,
         otherThanCreate, apiVars
  <1>14. CASE CreateFail(j)
    <2>1. meta' \in [Jobs -> Meta]
      <3>1. create[j].meta \in Meta /\ create[j].vol \in BOOLEAN /\ create[j].got \subseteq Targets
        BY <1>t DEF Create
      <3>2. [create[j].meta EXCEPT !.status  = "failed",
                                     !.cid     = create[j].fault = "seed",
                                     !.vol     = create[j].fault = "seed" /\ create[j].vol,
                                     !.targets = IF create[j].fault = "seed" THEN create[j].got ELSE {}] \in Meta
        BY <3>1 DEF Meta, Status, Terminal
      <3> QED
        BY <1>t, <1>14, <3>2, WriteMetaType DEF CreateFail
    <2>2. create' \in [Jobs -> Create]
      BY <1>t, <1>14, CreateToType DEF CreateFail, CreatePc
    <2>3. UNCHANGED <<staged, dockerVars, otherThanCreate, apiVars>>
      BY <1>14 DEF CreateFail
    <2> QED
      BY <2>1, <2>2, <2>3, <1>t DEF TypeOK, DockerTypeOK, ManagerTypeOK, dockerVars,
         otherThanCreate, apiVars
  <1>15. CASE CreateClean(j)
    <2>1. staged' \in [Jobs -> BOOLEAN]
      BY <1>t, <1>15 DEF CreateClean
    <2>2. create' \in [Jobs -> Create]
      BY <1>t, <1>15, CreateToType DEF CreateClean, CreatePc
    <2>3. UNCHANGED <<meta, dockerVars, otherThanCreate, apiVars>>
      BY <1>15 DEF CreateClean
    <2> QED
      BY <2>1, <2>2, <2>3, <1>t DEF TypeOK, DockerTypeOK, ManagerTypeOK, dockerVars,
         otherThanCreate, apiVars
  <1>16. CASE CreateRemoveVolume(j)
    <2>1. volume' \in [Jobs -> Volume]
      BY <1>t, <1>16 DEF CreateRemoveVolume, RemoveVolume, NoVolume, Volume, VolumeKind
    <2>2. create' \in [Jobs -> Create]
      BY <1>t, <1>16, CreateToType DEF CreateRemoveVolume, CreatePc
    <2>3. UNCHANGED <<fileVars, container, client, network, attached, otherThanCreate, apiVars>>
      BY <1>16 DEF CreateRemoveVolume
    <2> QED
      BY <2>1, <2>2, <2>3, <1>t DEF TypeOK, DockerTypeOK, ManagerTypeOK, fileVars,
         otherThanCreate, apiVars
  <1> QED
    BY <1>1, <1>2, <1>3, <1>4, <1>5, <1>6, <1>7, <1>8, <1>9, <1>10, <1>11, <1>12, <1>13,
       <1>14, <1>15, <1>16 DEF CreateStep

\* The finalizer keeps the types.
LEMMA FinalType ==
  ASSUME TypeOK, NEW j \in Jobs, FinalStep(j), UNCHANGED apiVars
  PROVE  TypeOK'
  <1>t. /\ container \in [Jobs -> Container] /\ client \in [Jobs -> ClientState]
        /\ network \in [Jobs -> BOOLEAN] /\ attached \in [Jobs -> SUBSET Targets]
        /\ volume \in [Jobs -> Volume] /\ meta \in [Jobs -> Meta]
        /\ staged \in [Jobs -> BOOLEAN] /\ create \in [Jobs -> Create]
        /\ final \in [Jobs -> Final] /\ cancel \in [Cancels -> Cancel]
        /\ sweep \in Sweep /\ managerRestarts \in 0..MaxRestarts
        /\ api \in [Jobs -> Api] /\ watched \in [Jobs -> BOOLEAN]
        /\ store \in SUBSET Jobs /\ built \in BOOLEAN
        /\ apiRestarts \in 0..MaxRestarts
    BY DEF TypeOK, DockerTypeOK, ManagerTypeOK
  <1>1. CASE FinalWait(j)
    <2>1. final' \in [Jobs -> Final]
      BY <1>t, <1>1 DEF FinalWait, FinalTo, Final, FinalPc
    <2>2. UNCHANGED <<fileVars, dockerVars, otherThanFinal, apiVars>>
      BY <1>1 DEF FinalWait
    <2> QED
      BY <2>1, <2>2, <1>t DEF TypeOK, DockerTypeOK, ManagerTypeOK, fileVars, dockerVars,
         otherThanFinal, apiVars
  <1>2. CASE FinalLoad(j)
    <2>1. final' \in [Jobs -> Final]
      BY <1>t, <1>2 DEF FinalLoad, Final, FinalPc
    <2>2. UNCHANGED <<fileVars, dockerVars, otherThanFinal, apiVars>>
      BY <1>2 DEF FinalLoad
    <2> QED
      BY <2>1, <2>2, <1>t DEF TypeOK, DockerTypeOK, ManagerTypeOK, fileVars, dockerVars,
         otherThanFinal, apiVars
  <1>3. CASE FinalWrite(j)
    <2>1. meta' \in [Jobs -> Meta]
      <3>1. final[j].meta \in Meta
        BY <1>t DEF Final
      <3>2. [final[j].meta EXCEPT !.status = IF @ = "canceled" THEN @
                                              ELSE IF client[j] = "zero" THEN "succeeded"
                                              ELSE "failed"] \in Meta
        BY <3>1 DEF Meta, Status, Terminal
      <3> QED
        BY <1>t, <1>3, <3>2, WriteMetaType DEF FinalWrite
    <2>2. final' \in [Jobs -> Final]
      BY <1>t, <1>3 DEF FinalWrite, FinalTo, Final, FinalPc
    <2>3. UNCHANGED <<staged, dockerVars, otherThanFinal, apiVars>>
      BY <1>3 DEF FinalWrite
    <2> QED
      BY <2>1, <2>2, <2>3, <1>t DEF TypeOK, DockerTypeOK, ManagerTypeOK, dockerVars,
         otherThanFinal, apiVars
  <1>4. CASE FinalDisconnect(j)
    <2>1. attached' \in [Jobs -> SUBSET Targets]
      BY <1>t, <1>4 DEF FinalDisconnect, Disconnect
    <2>2. final' \in [Jobs -> Final]
      BY <1>t, <1>4 DEF FinalDisconnect, FinalTo, Final, FinalPc
    <2>3. UNCHANGED <<fileVars, container, client, network, volume, otherThanFinal, apiVars>>
      BY <1>4 DEF FinalDisconnect
    <2> QED
      BY <2>1, <2>2, <2>3, <1>t DEF TypeOK, DockerTypeOK, ManagerTypeOK, fileVars,
         otherThanFinal, apiVars
  <1>5. CASE FinalRemoveNetwork(j)
    <2>1. network' \in [Jobs -> BOOLEAN]
      BY <1>t, <1>5 DEF FinalRemoveNetwork, RemoveNetwork
    <2>2. final' \in [Jobs -> Final]
      BY <1>t, <1>5 DEF FinalRemoveNetwork, FinalTo, Final, FinalPc
    <2>3. UNCHANGED <<fileVars, container, client, attached, volume, otherThanFinal, apiVars>>
      BY <1>5 DEF FinalRemoveNetwork
    <2> QED
      BY <2>1, <2>2, <2>3, <1>t DEF TypeOK, DockerTypeOK, ManagerTypeOK, fileVars,
         otherThanFinal, apiVars
  <1>6. CASE FinalClean(j)
    <2>1. staged' \in [Jobs -> BOOLEAN]
      BY <1>t, <1>6 DEF FinalClean
    <2>2. final' \in [Jobs -> Final]
      BY <1>t, <1>6 DEF FinalClean, FinalTo, Final, FinalPc
    <2>3. UNCHANGED <<meta, dockerVars, otherThanFinal, apiVars>>
      BY <1>6 DEF FinalClean
    <2> QED
      BY <2>1, <2>2, <2>3, <1>t DEF TypeOK, DockerTypeOK, ManagerTypeOK, dockerVars,
         otherThanFinal, apiVars
  <1>7. CASE FinalRemoveVolume(j)
    <2>1. volume' \in [Jobs -> Volume]
      BY <1>t, <1>7 DEF FinalRemoveVolume, RemoveVolume, NoVolume, Volume, VolumeKind
    <2>2. final' \in [Jobs -> Final]
      BY <1>t, <1>7 DEF FinalRemoveVolume, FinalTo, Final, FinalPc
    <2>3. UNCHANGED <<fileVars, container, client, network, attached, otherThanFinal, apiVars>>
      BY <1>7 DEF FinalRemoveVolume
    <2> QED
      BY <2>1, <2>2, <2>3, <1>t DEF TypeOK, DockerTypeOK, ManagerTypeOK, fileVars,
         otherThanFinal, apiVars
  <1> QED
    BY <1>1, <1>2, <1>3, <1>4, <1>5, <1>6, <1>7 DEF FinalStep

\* A cancel handler keeps the types.
LEMMA CancelType ==
  ASSUME TypeOK, NEW c \in Cancels, CancelStep(c), UNCHANGED apiVars
  PROVE  TypeOK'
  <1>t. /\ container \in [Jobs -> Container] /\ client \in [Jobs -> ClientState]
        /\ network \in [Jobs -> BOOLEAN] /\ attached \in [Jobs -> SUBSET Targets]
        /\ volume \in [Jobs -> Volume] /\ meta \in [Jobs -> Meta]
        /\ staged \in [Jobs -> BOOLEAN] /\ create \in [Jobs -> Create]
        /\ final \in [Jobs -> Final] /\ cancel \in [Cancels -> Cancel]
        /\ sweep \in Sweep /\ managerRestarts \in 0..MaxRestarts
        /\ api \in [Jobs -> Api] /\ watched \in [Jobs -> BOOLEAN]
        /\ store \in SUBSET Jobs /\ built \in BOOLEAN
        /\ apiRestarts \in 0..MaxRestarts
    BY DEF TypeOK, DockerTypeOK, ManagerTypeOK
  <1>1. CASE CancelLoad(c)
    <2>1. cancel' \in [Cancels -> Cancel]
      <3> DEFINE m == meta[cancel[c].job]
                 pc == IF m.status \in Active THEN "terminate" ELSE "reply"
      <3>1. cancel[c] \in Cancel /\ m \in Meta /\ pc \in CancelPc
        BY <1>t DEF Cancel, CancelPc
      <3>2. [cancel[c] EXCEPT !.pc = pc, !.meta = m] \in Cancel
        <4> HIDE DEF m, pc
        <4> QED
          BY <3>1 DEF Cancel
      <3>3. cancel' = [cancel EXCEPT ![c] = [cancel[c] EXCEPT !.pc = pc, !.meta = m]]
        BY <1>1 DEF CancelLoad
      <3> QED
        BY <1>t, <3>2, <3>3
    <2>2. sweep' \in Sweep
      BY <1>t, <1>1 DEF CancelLoad, ServiceConstructed, Sweep, SweepPc
    <2>3. UNCHANGED <<fileVars, dockerVars, create, final, managerRestarts, apiVars>>
      BY <1>1 DEF CancelLoad
    <2> QED
      BY <2>1, <2>2, <2>3, <1>t DEF TypeOK, DockerTypeOK, ManagerTypeOK, fileVars,
         dockerVars, apiVars
  <1>2. CASE CancelTerminate(c)
    <2>1. container' \in [Jobs -> Container]
      BY <1>t, <1>2, TerminateType DEF CancelTerminate, Cancel
    <2>2. client' \in [Jobs -> ClientState]
      BY <1>t, <1>2, TerminateType DEF CancelTerminate, Cancel
    <2>3. cancel' \in [Cancels -> Cancel]
      BY <1>t, <1>2 DEF CancelTerminate, CancelTo, Cancel, CancelPc
    <2>4. UNCHANGED <<fileVars, network, attached, volume, otherThanCancel, apiVars>>
      BY <1>2 DEF CancelTerminate
    <2> QED
      BY <2>1, <2>2, <2>3, <2>4, <1>t DEF TypeOK, DockerTypeOK, ManagerTypeOK, fileVars,
         otherThanCancel, apiVars
  <1>3. CASE CancelStop(c)
    <2>1. container' \in [Jobs -> Container]
      BY <1>t, <1>3, StopType DEF CancelStop, Cancel
    <2>2. client' \in [Jobs -> ClientState]
      BY <1>t, <1>3, StopType DEF CancelStop, Cancel
    <2>3. cancel' \in [Cancels -> Cancel]
      BY <1>t, <1>3 DEF CancelStop, CancelTo, Cancel, CancelPc
    <2>4. UNCHANGED <<fileVars, network, attached, volume, otherThanCancel, apiVars>>
      BY <1>3 DEF CancelStop
    <2> QED
      BY <2>1, <2>2, <2>3, <2>4, <1>t DEF TypeOK, DockerTypeOK, ManagerTypeOK, fileVars,
         otherThanCancel, apiVars
  <1>4. CASE CancelDisconnect(c)
    <2>1. attached' \in [Jobs -> SUBSET Targets]
      BY <1>t, <1>4 DEF CancelDisconnect, Disconnect, Cancel
    <2>2. cancel' \in [Cancels -> Cancel]
      BY <1>t, <1>4 DEF CancelDisconnect, CancelTo, Cancel, CancelPc
    <2>3. UNCHANGED <<fileVars, container, client, network, volume, otherThanCancel, apiVars>>
      BY <1>4 DEF CancelDisconnect
    <2> QED
      BY <2>1, <2>2, <2>3, <1>t DEF TypeOK, DockerTypeOK, ManagerTypeOK, fileVars,
         otherThanCancel, apiVars
  <1>5. CASE CancelRemoveNetwork(c)
    <2>1. network' \in [Jobs -> BOOLEAN]
      BY <1>t, <1>5 DEF CancelRemoveNetwork, RemoveNetwork, Cancel
    <2>2. cancel' \in [Cancels -> Cancel]
      BY <1>t, <1>5 DEF CancelRemoveNetwork, CancelTo, Cancel, CancelPc
    <2>3. UNCHANGED <<fileVars, container, client, attached, volume, otherThanCancel, apiVars>>
      BY <1>5 DEF CancelRemoveNetwork
    <2> QED
      BY <2>1, <2>2, <2>3, <1>t DEF TypeOK, DockerTypeOK, ManagerTypeOK, fileVars,
         otherThanCancel, apiVars
  <1>6. CASE CancelWrite(c)
    <2>1. meta' \in [Jobs -> Meta]
      <3>1. cancel[c].meta \in Meta /\ cancel[c].job \in Jobs
        BY <1>t DEF Cancel
      <3>2. [cancel[c].meta EXCEPT !.status = "canceled"] \in Meta
        BY <3>1 DEF Meta, Status, Terminal
      <3> QED
        BY <1>t, <1>6, <3>1, <3>2, WriteMetaType DEF CancelWrite
    <2>2. cancel' \in [Cancels -> Cancel]
      BY <1>t, <1>6 DEF CancelWrite, CancelTo, Cancel, CancelPc
    <2>3. UNCHANGED <<staged, dockerVars, otherThanCancel, apiVars>>
      BY <1>6 DEF CancelWrite
    <2> QED
      BY <2>1, <2>2, <2>3, <1>t DEF TypeOK, DockerTypeOK, ManagerTypeOK, dockerVars,
         otherThanCancel, apiVars
  <1>7. CASE CancelClean(c)
    <2>1. staged' \in [Jobs -> BOOLEAN]
      BY <1>t, <1>7 DEF CancelClean
    <2>2. cancel' \in [Cancels -> Cancel]
      BY <1>t, <1>7 DEF CancelClean, CancelTo, Cancel, CancelPc
    <2>3. UNCHANGED <<meta, dockerVars, otherThanCancel, apiVars>>
      BY <1>7 DEF CancelClean
    <2> QED
      BY <2>1, <2>2, <2>3, <1>t DEF TypeOK, DockerTypeOK, ManagerTypeOK, dockerVars,
         otherThanCancel, apiVars
  <1>8. CASE CancelRemoveVolume(c)
    <2>1. volume' \in [Jobs -> Volume]
      BY <1>t, <1>8 DEF CancelRemoveVolume, RemoveVolume, NoVolume, Volume, VolumeKind,
         Cancel
    <2>2. cancel' \in [Cancels -> Cancel]
      BY <1>t, <1>8 DEF CancelRemoveVolume, CancelTo, Cancel, CancelPc
    <2>3. UNCHANGED <<fileVars, container, client, network, attached, otherThanCancel, apiVars>>
      BY <1>8 DEF CancelRemoveVolume
    <2> QED
      BY <2>1, <2>2, <2>3, <1>t DEF TypeOK, DockerTypeOK, ManagerTypeOK, fileVars,
         otherThanCancel, apiVars
  <1> QED
    BY <1>1, <1>2, <1>3, <1>4, <1>5, <1>6, <1>7, <1>8 DEF CancelStep

\* The sweep keeps the types.
LEMMA SweepType ==
  ASSUME TypeOK, SweepStep, UNCHANGED apiVars
  PROVE  TypeOK'
  <1>t. /\ container \in [Jobs -> Container] /\ client \in [Jobs -> ClientState]
        /\ network \in [Jobs -> BOOLEAN] /\ attached \in [Jobs -> SUBSET Targets]
        /\ volume \in [Jobs -> Volume] /\ meta \in [Jobs -> Meta]
        /\ staged \in [Jobs -> BOOLEAN] /\ create \in [Jobs -> Create]
        /\ final \in [Jobs -> Final] /\ cancel \in [Cancels -> Cancel]
        /\ sweep \in Sweep /\ managerRestarts \in 0..MaxRestarts
        /\ api \in [Jobs -> Api] /\ watched \in [Jobs -> BOOLEAN]
        /\ store \in SUBSET Jobs /\ built \in BOOLEAN
        /\ apiRestarts \in 0..MaxRestarts
    BY DEF TypeOK, DockerTypeOK, ManagerTypeOK
  <1>1. CASE SweepBegin
    <2>1. sweep' \in Sweep
      BY <1>t, <1>1 DEF SweepBegin, Sweep, SweepPc
    <2>2. UNCHANGED <<fileVars, dockerVars, otherThanSweep, apiVars>>
      BY <1>1 DEF SweepBegin
    <2> QED
      BY <2>1, <2>2, <1>t DEF TypeOK, DockerTypeOK, ManagerTypeOK, fileVars, dockerVars,
         otherThanSweep, apiVars
  <1>2. CASE SweepListContainers
    <2>1. sweep' \in Sweep
      BY <1>t, <1>2 DEF SweepListContainers, SweepList, SweepList, Sweep, SweepPc
    <2>2. UNCHANGED <<fileVars, dockerVars, otherThanSweep, apiVars>>
      BY <1>2 DEF SweepListContainers, SweepList
    <2> QED
      BY <2>1, <2>2, <1>t DEF TypeOK, DockerTypeOK, ManagerTypeOK, fileVars, dockerVars,
         otherThanSweep, apiVars
  <1>3. CASE SweepListNetworks
    <2>1. sweep' \in Sweep
      BY <1>t, <1>3 DEF SweepListNetworks, SweepList, SweepList, Sweep, SweepPc
    <2>2. UNCHANGED <<fileVars, dockerVars, otherThanSweep, apiVars>>
      BY <1>3 DEF SweepListNetworks, SweepList
    <2> QED
      BY <2>1, <2>2, <1>t DEF TypeOK, DockerTypeOK, ManagerTypeOK, fileVars, dockerVars,
         otherThanSweep, apiVars
  <1>4. CASE SweepListVolumes
    <2>1. sweep' \in Sweep
      BY <1>t, <1>4 DEF SweepListVolumes, SweepList, SweepList, Sweep, SweepPc
    <2>2. UNCHANGED <<fileVars, dockerVars, otherThanSweep, apiVars>>
      BY <1>4 DEF SweepListVolumes, SweepList
    <2> QED
      BY <2>1, <2>2, <1>t DEF TypeOK, DockerTypeOK, ManagerTypeOK, fileVars, dockerVars,
         otherThanSweep, apiVars
  <1>5. CASE \E j \in Jobs : SweepContainer(j)
    <2>1. container' \in [Jobs -> Container]
      BY <1>t, <1>5, StopType DEF SweepContainer
    <2>2. client' \in [Jobs -> ClientState]
      BY <1>t, <1>5, StopType DEF SweepContainer
    <2>3. sweep' \in Sweep
      BY <1>t, <1>5 DEF SweepContainer, Sweep, SweepPc
    <2>4. UNCHANGED <<fileVars, network, attached, volume, otherThanSweep, apiVars>>
      BY <1>5 DEF SweepContainer
    <2> QED
      BY <2>1, <2>2, <2>3, <2>4, <1>t DEF TypeOK, DockerTypeOK, ManagerTypeOK, fileVars,
         otherThanSweep, apiVars
  <1>6. CASE \E j \in Jobs : SweepNetwork(j)
    <2>1. network' \in [Jobs -> BOOLEAN]
      BY <1>t, <1>6 DEF SweepNetwork, RemoveNetwork
    <2>2. sweep' \in Sweep
      BY <1>t, <1>6 DEF SweepNetwork, Sweep, SweepPc
    <2>3. UNCHANGED <<fileVars, container, client, attached, volume, otherThanSweep, apiVars>>
      BY <1>6 DEF SweepNetwork
    <2> QED
      BY <2>1, <2>2, <2>3, <1>t DEF TypeOK, DockerTypeOK, ManagerTypeOK, fileVars,
         otherThanSweep, apiVars
  <1>7. CASE \E j \in Jobs : SweepVolume(j)
    <2>1. volume' \in [Jobs -> Volume]
      BY <1>t, <1>7 DEF SweepVolume, RemoveVolume, NoVolume, Volume, VolumeKind
    <2>2. sweep' \in Sweep
      BY <1>t, <1>7 DEF SweepVolume, Sweep, SweepPc
    <2>3. UNCHANGED <<fileVars, container, client, network, attached, otherThanSweep, apiVars>>
      BY <1>7 DEF SweepVolume
    <2> QED
      BY <2>1, <2>2, <2>3, <1>t DEF TypeOK, DockerTypeOK, ManagerTypeOK, fileVars,
         otherThanSweep, apiVars
  <1>8. CASE SweepDone("rm_containers", "networks")
    <2>1. sweep' \in Sweep
      BY <1>t, <1>8 DEF SweepDone, Sweep, SweepPc
    <2>2. UNCHANGED <<fileVars, dockerVars, otherThanSweep, apiVars>>
      BY <1>8 DEF SweepDone
    <2> QED
      BY <2>1, <2>2, <1>t DEF TypeOK, DockerTypeOK, ManagerTypeOK, fileVars, dockerVars,
         otherThanSweep, apiVars
  <1>9. CASE SweepDone("rm_networks", "volumes")
    <2>1. sweep' \in Sweep
      BY <1>t, <1>9 DEF SweepDone, Sweep, SweepPc
    <2>2. UNCHANGED <<fileVars, dockerVars, otherThanSweep, apiVars>>
      BY <1>9 DEF SweepDone
    <2> QED
      BY <2>1, <2>2, <1>t DEF TypeOK, DockerTypeOK, ManagerTypeOK, fileVars, dockerVars,
         otherThanSweep, apiVars
  <1>10. CASE SweepDone("rm_volumes", "dirs")
    <2>1. sweep' \in Sweep
      BY <1>t, <1>10 DEF SweepDone, Sweep, SweepPc
    <2>2. UNCHANGED <<fileVars, dockerVars, otherThanSweep, apiVars>>
      BY <1>10 DEF SweepDone
    <2> QED
      BY <2>1, <2>2, <1>t DEF TypeOK, DockerTypeOK, ManagerTypeOK, fileVars, dockerVars,
         otherThanSweep, apiVars
  <1>11. CASE SweepDirs
    <2>1. meta' \in [Jobs -> Meta]
      BY <1>t, <1>11 DEF SweepDirs, NoMeta, Meta, Status
    <2>2. staged' \in [Jobs -> BOOLEAN]
      BY <1>t, <1>11 DEF SweepDirs
    <2>3. sweep' \in Sweep
      BY <1>t, <1>11 DEF SweepDirs, NoSweep, Sweep, SweepPc
    <2>4. UNCHANGED <<dockerVars, otherThanSweep, apiVars>>
      BY <1>11 DEF SweepDirs
    <2> QED
      BY <2>1, <2>2, <2>3, <2>4, <1>t DEF TypeOK, DockerTypeOK, ManagerTypeOK,
         dockerVars, otherThanSweep, apiVars
  <1> QED
    BY <1>1, <1>2, <1>3, <1>4, <1>5, <1>6, <1>7, <1>8, <1>9, <1>10, <1>11 DEF SweepStep

\* The API's handling of a job keeps the types.
LEMMA ApiType ==
  ASSUME TypeOK, NEW j \in Jobs,
         ApiStep(j) \/ ApiRejects(j) \/ ApiUnreachable(j) \/ Watch(j)
           \/ ApiGet(j) \/ RetentionPasses(j) \/ \E c \in Cancels : ApiCancel(c, j)
  PROVE  TypeOK'
  <1>t. /\ container \in [Jobs -> Container] /\ client \in [Jobs -> ClientState]
        /\ network \in [Jobs -> BOOLEAN] /\ attached \in [Jobs -> SUBSET Targets]
        /\ volume \in [Jobs -> Volume] /\ meta \in [Jobs -> Meta]
        /\ staged \in [Jobs -> BOOLEAN] /\ create \in [Jobs -> Create]
        /\ final \in [Jobs -> Final] /\ cancel \in [Cancels -> Cancel]
        /\ sweep \in Sweep /\ managerRestarts \in 0..MaxRestarts
        /\ api \in [Jobs -> Api] /\ watched \in [Jobs -> BOOLEAN]
        /\ store \in SUBSET Jobs /\ built \in BOOLEAN
        /\ apiRestarts \in 0..MaxRestarts
    BY DEF TypeOK, DockerTypeOK, ManagerTypeOK
  <1>1. CASE ApiStage(j)
    <2>1. staged' \in [Jobs -> BOOLEAN]
      BY <1>t, <1>1 DEF ApiStage
    <2>2. api' \in [Jobs -> Api]
      BY <1>t, <1>1 DEF ApiStage, ApiTo, Api, ApiPc
    <2>3. UNCHANGED <<dockerVars, meta, managerVars, watched, store, built, apiRestarts>>
      BY <1>1 DEF ApiStage
    <2> QED
      BY <2>1, <2>2, <2>3, <1>t DEF TypeOK, DockerTypeOK, ManagerTypeOK, dockerVars,
         managerVars
  <1>2. CASE ApiQueue(j)
    <2>1. meta' \in [Jobs -> Meta]
      BY <1>t, <1>2 DEF ApiQueue, WriteMeta, NoMeta, Meta, Status, Active
    <2>2. api' \in [Jobs -> Api]
      BY <1>t, <1>2 DEF ApiQueue, ApiTo, Api, ApiPc
    <2>3. store' \in SUBSET Jobs
      BY <1>t, <1>2 DEF ApiQueue
    <2>4. UNCHANGED <<dockerVars, staged, managerVars, watched, built, apiRestarts>>
      BY <1>2 DEF ApiQueue
    <2> QED
      BY <2>1, <2>2, <2>3, <2>4, <1>t DEF TypeOK, DockerTypeOK, ManagerTypeOK,
         dockerVars, managerVars
  <1>3. CASE ApiRejects(j)
    <2>1. api' \in [Jobs -> Api]
      BY <1>t, <1>3 DEF ApiRejects, ApiTo, Api, ApiPc
    <2>2. UNCHANGED <<dockerVars, fileVars, managerVars, watched, store, built, apiRestarts>>
      BY <1>3 DEF ApiRejects
    <2> QED
      BY <2>1, <2>2, <1>t DEF TypeOK, DockerTypeOK, ManagerTypeOK, dockerVars, fileVars,
         managerVars
  <1>4. CASE ApiPost(j)
    <2>1. create' \in [Jobs -> Create]
      BY <1>t, <1>4, CreateToType DEF ApiPost, CreatePc
    <2>2. api' \in [Jobs -> Api]
      BY <1>t, <1>4 DEF ApiPost, ApiTo, Api, ApiPc
    <2>3. UNCHANGED <<dockerVars, fileVars, otherThanCreate, watched, store, built, apiRestarts>>
      BY <1>4 DEF ApiPost
    <2> QED
      BY <2>1, <2>2, <2>3, <1>t DEF TypeOK, DockerTypeOK, ManagerTypeOK, dockerVars,
         fileVars, otherThanCreate
  <1>5. CASE ApiUnreachable(j)
    <2>1. api' \in [Jobs -> Api]
      BY <1>t, <1>5 DEF ApiUnreachable, ApiTo, Api, ApiPc
    <2>2. UNCHANGED <<dockerVars, fileVars, managerVars, watched, store, built, apiRestarts>>
      BY <1>5 DEF ApiUnreachable
    <2> QED
      BY <2>1, <2>2, <1>t DEF TypeOK, DockerTypeOK, ManagerTypeOK, dockerVars, fileVars,
         managerVars
  <1>6. CASE ApiReturns(j)
    <2>1. api' \in [Jobs -> Api]
      BY <1>t, <1>6 DEF ApiReturns, ApiTo, Api, ApiPc
    <2>2. watched' \in [Jobs -> BOOLEAN]
      BY <1>t, <1>6 DEF ApiReturns
    <2>3. UNCHANGED <<dockerVars, fileVars, managerVars, store, built, apiRestarts>>
      BY <1>6 DEF ApiReturns
    <2> QED
      BY <2>1, <2>2, <2>3, <1>t DEF TypeOK, DockerTypeOK, ManagerTypeOK, dockerVars,
         fileVars, managerVars
  <1>7. CASE ApiStartFails(j)
    <2>1. api' \in [Jobs -> Api]
      BY <1>t, <1>7 DEF ApiStartFails, ApiTo, Api, ApiPc
    <2>2. UNCHANGED <<dockerVars, fileVars, managerVars, watched, store, built, apiRestarts>>
      BY <1>7 DEF ApiStartFails
    <2> QED
      BY <2>1, <2>2, <1>t DEF TypeOK, DockerTypeOK, ManagerTypeOK, dockerVars, fileVars,
         managerVars
  <1>8. CASE ApiErrorLoad(j)
    <2>1. api' \in [Jobs -> Api]
      BY <1>t, <1>8 DEF ApiErrorLoad, Api, ApiPc
    <2>2. UNCHANGED <<dockerVars, fileVars, managerVars, watched, store, built, apiRestarts>>
      BY <1>8 DEF ApiErrorLoad
    <2> QED
      BY <2>1, <2>2, <1>t DEF TypeOK, DockerTypeOK, ManagerTypeOK, dockerVars, fileVars,
         managerVars
  <1>9. CASE ApiErrorWrite(j)
    <2>1. meta' \in [Jobs -> Meta]
      <3>1. api[j].meta \in Meta
        BY <1>t DEF Api
      <3>2. [api[j].meta EXCEPT !.status = "failed"] \in Meta
        BY <3>1 DEF Meta, Status, Terminal
      <3> QED
        BY <1>t, <1>9, <3>2, WriteMetaType DEF ApiErrorWrite
    <2>2. api' \in [Jobs -> Api]
      BY <1>t, <1>9 DEF ApiErrorWrite, ApiTo, Api, ApiPc
    <2>3. UNCHANGED <<dockerVars, staged, managerVars, watched, store, built, apiRestarts>>
      BY <1>9 DEF ApiErrorWrite
    <2> QED
      BY <2>1, <2>2, <2>3, <1>t DEF TypeOK, DockerTypeOK, ManagerTypeOK, dockerVars,
         managerVars
  <1>10. CASE ApiErrorClean(j)
    <2>1. staged' \in [Jobs -> BOOLEAN]
      BY <1>t, <1>10 DEF ApiErrorClean
    <2>2. api' \in [Jobs -> Api]
      BY <1>t, <1>10 DEF ApiErrorClean, ApiTo, Api, ApiPc
    <2>3. store' \in SUBSET Jobs
      BY <1>t, <1>10 DEF ApiErrorClean
    <2>4. UNCHANGED <<dockerVars, meta, managerVars, watched, built, apiRestarts>>
      BY <1>10 DEF ApiErrorClean
    <2> QED
      BY <2>1, <2>2, <2>3, <2>4, <1>t DEF TypeOK, DockerTypeOK, ManagerTypeOK,
         dockerVars, managerVars
  <1>11. CASE Watch(j)
    <2>1. staged' \in [Jobs -> BOOLEAN]
      BY <1>t, <1>11 DEF Watch
    <2>2. watched' \in [Jobs -> BOOLEAN]
      BY <1>t, <1>11 DEF Watch
    <2>3. UNCHANGED <<dockerVars, meta, managerVars, api, store, built, apiRestarts>>
      BY <1>11 DEF Watch
    <2> QED
      BY <2>1, <2>2, <2>3, <1>t DEF TypeOK, DockerTypeOK, ManagerTypeOK, dockerVars,
         managerVars
  <1>12. CASE ApiGet(j)
    <2>1. staged' \in [Jobs -> BOOLEAN]
      BY <1>t, <1>12 DEF ApiGet
    <2>2. UNCHANGED <<dockerVars, meta, managerVars, apiVars>>
      BY <1>12 DEF ApiGet
    <2> QED
      BY <2>1, <2>2, <1>t DEF TypeOK, DockerTypeOK, ManagerTypeOK, dockerVars,
         managerVars, apiVars
  <1>13. CASE RetentionPasses(j)
    <2>1. meta' \in [Jobs -> Meta]
      <3>1. [meta[j] EXCEPT !.old = TRUE] \in Meta
        <4>1. meta[j] \in Meta
          BY <1>t
        <4> QED
          BY <4>1 DEF Meta
      <3>2. meta' = [meta EXCEPT ![j] = [meta[j] EXCEPT !.old = TRUE]]
        BY <1>13 DEF RetentionPasses
      <3> QED
        BY <1>t, <3>1, <3>2
    <2>2. UNCHANGED <<dockerVars, staged, managerVars, apiVars>>
      BY <1>13 DEF RetentionPasses
    <2> QED
      BY <2>1, <2>2, <1>t DEF TypeOK, DockerTypeOK, ManagerTypeOK, dockerVars,
         managerVars, apiVars
  <1>14. CASE \E c \in Cancels : ApiCancel(c, j)
    <2>1. cancel' \in [Cancels -> Cancel]
      BY <1>t, <1>14, NoMetaType DEF ApiCancel, NoCancel, Cancel, CancelPc
    <2>2. UNCHANGED <<dockerVars, fileVars, create, final, sweep, managerRestarts, apiVars>>
      BY <1>14 DEF ApiCancel
    <2> QED
      BY <2>1, <2>2, <1>t DEF TypeOK, DockerTypeOK, ManagerTypeOK, dockerVars, fileVars,
         apiVars
  <1> QED
    BY <1>1, <1>2, <1>3, <1>4, <1>5, <1>6, <1>7, <1>8, <1>9, <1>10, <1>11, <1>12, <1>13,
       <1>14 DEF ApiStep

\* Replies, requests and restarts keep the types.
LEMMA ProcessType ==
  ASSUME TypeOK,
         (\E c \in Cancels : ApiCancelReturns(c)) \/ ManagerRequest
           \/ ManagerRestart \/ ApiConstructs \/ ApiRestart
  PROVE  TypeOK'
  <1>t. /\ container \in [Jobs -> Container] /\ client \in [Jobs -> ClientState]
        /\ network \in [Jobs -> BOOLEAN] /\ attached \in [Jobs -> SUBSET Targets]
        /\ volume \in [Jobs -> Volume] /\ meta \in [Jobs -> Meta]
        /\ staged \in [Jobs -> BOOLEAN] /\ create \in [Jobs -> Create]
        /\ final \in [Jobs -> Final] /\ cancel \in [Cancels -> Cancel]
        /\ sweep \in Sweep /\ managerRestarts \in 0..MaxRestarts
        /\ api \in [Jobs -> Api] /\ watched \in [Jobs -> BOOLEAN]
        /\ store \in SUBSET Jobs /\ built \in BOOLEAN
        /\ apiRestarts \in 0..MaxRestarts
    BY DEF TypeOK, DockerTypeOK, ManagerTypeOK
  <1>1. CASE \E c \in Cancels : ApiCancelReturns(c)
    <2>1. cancel' \in [Cancels -> Cancel]
      BY <1>t, <1>1, NoMetaType DEF ApiCancelReturns, NoCancel, Cancel, CancelPc
    <2>2. store' \in SUBSET Jobs
      BY <1>t, <1>1 DEF ApiCancelReturns
    <2>3. UNCHANGED <<dockerVars, fileVars, create, final, sweep, managerRestarts, api, watched, built, apiRestarts>>
      BY <1>1 DEF ApiCancelReturns
    <2> QED
      BY <2>1, <2>2, <2>3, <1>t DEF TypeOK, DockerTypeOK, ManagerTypeOK, dockerVars,
         fileVars
  <1>2. CASE ManagerRequest
    <2>1. sweep' \in Sweep
      BY <1>t, <1>2 DEF ManagerRequest, ServiceConstructed, Sweep, SweepPc
    <2>2. UNCHANGED <<dockerVars, fileVars, create, final, cancel, managerRestarts, apiVars>>
      BY <1>2 DEF ManagerRequest
    <2> QED
      BY <2>1, <2>2, <1>t DEF TypeOK, DockerTypeOK, ManagerTypeOK, dockerVars, fileVars,
         apiVars
  <1>3. CASE ManagerRestart
    <2>1. client' \in [Jobs -> ClientState]
      BY <1>t, <1>3 DEF ManagerRestart, ClientState
    <2>2. create' \in [Jobs -> Create]
      BY <1>t, <1>3 DEF ManagerRestart, NoCreate, NoMeta, Create, CreatePc, Meta, Status
    <2>3. final' \in [Jobs -> Final]
      BY <1>t, <1>3 DEF ManagerRestart, NoFinal, NoMeta, Final, FinalPc, Meta, Status
    <2>4. cancel' \in [Cancels -> Cancel]
      BY <1>t, <1>3, NoMetaType DEF ManagerRestart, NoCancel, Cancel, CancelPc
    <2>5. sweep' \in Sweep
      BY <1>t, <1>3 DEF ManagerRestart, NoSweep, Sweep, SweepPc
    <2>6. managerRestarts' \in 0..MaxRestarts
      BY <1>t, <1>3, RestartsAssumption DEF ManagerRestart
    <2>7. UNCHANGED <<container, network, attached, volume, fileVars, apiVars>>
      BY <1>3 DEF ManagerRestart
    <2> QED
      BY <2>1, <2>2, <2>3, <2>4, <2>5, <2>6, <2>7, <1>t DEF TypeOK, DockerTypeOK,
         ManagerTypeOK, fileVars, apiVars
  <1>4. CASE ApiRestart
    <2>1. built' \in BOOLEAN
      BY <1>4 DEF ApiRestart
    <2>2. api' \in [Jobs -> Api]
      BY <1>t, <1>4 DEF ApiRestart, NoApi, NoMeta, Api, ApiPc, Meta, Status
    <2>3. watched' \in [Jobs -> BOOLEAN]
      BY <1>t, <1>4 DEF ApiRestart
    <2>4. store' \in SUBSET Jobs
      BY <1>t, <1>4 DEF ApiRestart
    <2>5. apiRestarts' \in 0..MaxRestarts
      BY <1>t, <1>4, RestartsAssumption DEF ApiRestart
    <2>6. UNCHANGED <<dockerVars, fileVars, managerVars>>
      BY <1>4 DEF ApiRestart
    <2> QED
      BY <2>1, <2>2, <2>3, <2>4, <2>5, <2>6, <1>t DEF TypeOK, DockerTypeOK,
         ManagerTypeOK, dockerVars, fileVars, managerVars
  <1>5. CASE ApiConstructs
    <2>1. staged' \in [Jobs -> BOOLEAN] /\ built' \in BOOLEAN
      BY <1>t, <1>5 DEF ApiConstructs
    <2>2. UNCHANGED <<dockerVars, meta, managerVars, api, watched, store, apiRestarts>>
      BY <1>5 DEF ApiConstructs
    <2> QED
      BY <2>1, <2>2, <1>t DEF TypeOK, DockerTypeOK, ManagerTypeOK, dockerVars, managerVars
  <1> QED
    BY <1>1, <1>2, <1>3, <1>4, <1>5

LEMMA NextType == TypeOK /\ [Next]_vars => TypeOK'
  <1> SUFFICES ASSUME TypeOK, [Next]_vars PROVE TypeOK'
    OBVIOUS
  <1>1. CASE UNCHANGED vars
    BY <1>1 DEF TypeOK, DockerTypeOK, ManagerTypeOK, vars, dockerVars, fileVars,
                managerVars, apiVars
  <1>2. CASE Next
    BY <1>2, DockerType, CreateType, FinalType, CancelType, SweepType, ApiType,
       ProcessType DEF Next
  <1> QED
    BY <1>1, <1>2

\* Every reachable state is well typed: the handlers only ever write to job.json
\* a status their readers know, and no counter, queue or program counter leaves
\* its range.
THEOREM TypeCorrect == Spec => []TypeOK
  BY InitType, NextType, PTL DEF Spec
-----------------------------------------------------------------------------
(***************************************************************************)
(* CancelStops holds in every reachable state.                             *)
(*                                                                         *)
(* The lemmas named Shape say, for one process, what any of its steps does *)
(* to the state StopInv is about; each is proved action by action.  The    *)
(* lemmas named Keeps derive from them that the process keeps StopInv.     *)
(***************************************************************************)

-----------------------------------------------------------------------------
(* The create handler. *)

\* Nothing of another job changes.
OthersSame(j) ==
  \A k \in Jobs \ {j} : /\ create'[k] = create[k]
                        /\ final'[k] = final[k]
                        /\ meta'[k] = meta[k]
                        /\ staged'[k] = staged[k]
                        /\ container'[k] = container[k]

\* The step takes the handler from its main path, or its load, to its main path.
StaysMain(j) ==
  create'[j].pc \in MainPc =>
    \/ create[j].pc = "load" /\ (create'[j].vol = staged[j] \/ meta[j].status = "running")
    \/ create[j].pc \in MainPc /\ create'[j].vol = create[j].vol

\* It reaches its last steps past a container that is up, or without secrets.
SeesUp(j) ==
  create'[j].pc \in {"seed", "publish", "ok"} =>
    \/ container'[j].state # "starting"
    \/ create[j].pc \in {"seed", "publish"} /\ container' = container
    \/ create[j].pc = "start" /\ ~create[j].vol
    \/ create[j].pc = "load" /\ meta[j].status = "running"

\* It publishes the job when, and only when, it answers.
Publishes(j) ==
  /\ final'[j] = final[j] \/ create'[j].pc = "ok"
  /\ meta'[j] = meta[j] \/ meta'[j].status = "failed" \/ (create'[j].pc = "ok" /\ meta'[j].cid)
  /\ create'[j].pc = "ok" => meta'[j].status = "running"

CreateShape(j) ==
  /\ create[j].pc \notin CreateOver /\ create'[j].pc \notin {"off", "load"}
  /\ cancel' = cancel
  /\ OthersSame(j) /\ StaysMain(j) /\ SeesUp(j) /\ Publishes(j)

LEMMA CreateShapeHolds ==
  ASSUME TypeOK, NEW j \in Jobs, CreateStep(j)
  PROVE  CreateShape(j)
  <1>t. /\ container \in [Jobs -> Container] /\ meta \in [Jobs -> Meta]
        /\ staged \in [Jobs -> BOOLEAN] /\ create \in [Jobs -> Create]
        /\ final \in [Jobs -> Final]
    BY DEF TypeOK, DockerTypeOK, ManagerTypeOK
  <1> USE DEF CreateShape, OthersSame, StaysMain, SeesUp, Publishes, MainPc, CreateOver
  <1>1. CASE CreateLoad(j)
    BY <1>1, <1>t DEF CreateLoad, Create, dockerVars, fileVars
  <1>2. CASE CreateNetworkStep(j)
    BY <1>2, <1>t DEF CreateNetworkStep, CreateTo, Create, fileVars, otherThanCreate
  <1>3. CASE CreateVolumeStep(j)
    BY <1>3, <1>t DEF CreateVolumeStep, CreateTo, CreateFaults, Create, fileVars,
       otherThanCreate
  <1>4. CASE CreateConnect(j)
    BY <1>4, <1>t DEF CreateConnect, CreateTo, CreateFaults, Create, fileVars,
       otherThanCreate
  <1>5. CASE CreateBuild(j)
    BY <1>5, <1>t DEF CreateBuild, CreateTo, CreateFaults, Create, fileVars, dockerVars,
       otherThanCreate
  <1>6. CASE CreateStart(j)
    BY <1>6, <1>t DEF CreateStart, CreateTo, CreateFaults, LaunchContainer, Create,
       Container, fileVars, otherThanCreate
  <1>7. CASE CreateWait(j)
    BY <1>7, <1>t DEF CreateWait, CreateTo, CreateFaults, Create, fileVars, dockerVars,
       otherThanCreate
  <1>8. CASE CreateSeed(j)
    BY <1>8, <1>t DEF CreateSeed, CreateTo, CreateFaults, Create, fileVars,
       otherThanCreate
  <1>9. CASE CreatePublish(j)
    BY <1>9, <1>t DEF CreatePublish, CreateTo, WriteMeta, Create, Meta, dockerVars
  <1>10. CASE CreateKill(j)
    BY <1>10, <1>t DEF CreateKill, CreateTo, TerminateClient, Create, fileVars,
       otherThanCreate
  <1>11. CASE CreateStop(j)
    BY <1>11, <1>t DEF CreateStop, CreateTo, StopContainer, Create, fileVars,
       otherThanCreate
  <1>12. CASE CreateDisconnect(j)
    BY <1>12, <1>t DEF CreateDisconnect, CreateTo, Create, fileVars, otherThanCreate
  <1>13. CASE CreateRemoveNetwork(j)
    BY <1>13, <1>t DEF CreateRemoveNetwork, CreateTo, Create, fileVars, otherThanCreate
  <1>14. CASE CreateFail(j)
    BY <1>14, <1>t DEF CreateFail, CreateTo, WriteMeta, Create, Meta, dockerVars,
       otherThanCreate
  <1>15. CASE CreateClean(j)
    BY <1>15, <1>t DEF CreateClean, CreateTo, Create, dockerVars, otherThanCreate
  <1>16. CASE CreateRemoveVolume(j)
    BY <1>16, <1>t DEF CreateRemoveVolume, CreateTo, Create, fileVars, otherThanCreate
  <1> QED
    BY <1>1, <1>2, <1>3, <1>4, <1>5, <1>6, <1>7, <1>8, <1>9, <1>10, <1>11, <1>12,
       <1>13, <1>14, <1>15, <1>16 DEF CreateStep

\* The create handler keeps StopInv.
LEMMA CreateKeeps ==
  ASSUME TypeOK, StopInv, NEW j \in Jobs, CreateStep(j), UNCHANGED apiVars
  PROVE  StopInv'
  <1>s. CreateShape(j)
    BY CreateShapeHolds
  <1>a. api' = api /\ watched' = watched
    BY DEF apiVars
  <1>b. api[j].pc \notin {"none", "staged", "queued", "returned"}
    BY <1>s DEF CreateShape, CreateOver, StopInv, Order, CreateAfterPost, ReturnedIsOk
  <1>c. \A c \in Cancels : cancel[c].pc # "idle" => cancel[c].job # j
    BY <1>b DEF StopInv, Order, CancelAfterReturn
  <1>t. /\ cancel \in [Cancels -> Cancel] /\ create \in [Jobs -> Create]
        /\ meta \in [Jobs -> Meta]
    BY DEF TypeOK, ManagerTypeOK
  <1>1. Order'
    BY <1>s, <1>a, <1>b DEF CreateShape, OthersSame, Publishes, CreateOver, StopInv, Order,
       CreateAfterPost, FinalAfterCreate, ReturnedIsOk, CancelAfterReturn, WatchAfterReturn
  <1>2. Published'
    <2>1. RunningIsPublished' /\ OkIsPublished'
      BY <1>s DEF CreateShape, OthersSame, Publishes, CreateOver, StopInv, Published,
         RunningIsPublished, OkIsPublished
    <2>2. FreshFiles'
      BY <1>s, <1>a, <1>b DEF CreateShape, OthersSame, StopInv, Published, FreshFiles
    <2> QED
      BY <2>1, <2>2 DEF Published
  <1>r. meta[j].status # "running"
    BY <1>s DEF CreateShape, CreateOver, StopInv, Published, RunningIsPublished
  <1>3. MountsSecrets'
    <2>1. create[j].pc = "load" /\ api[j].pc = "posted" => staged[j]
      BY DEF StopInv, Published, FreshFiles
    <2>2. staged[j] \in BOOLEAN
      BY DEF TypeOK, ManagerTypeOK
    <2> QED
      BY <1>s, <1>a, <1>b, <1>r, <2>1, <2>2 DEF CreateShape, OthersSame, StaysMain, StopInv, MountsSecrets
  <1>4. NotStarting'
    BY <1>s, <1>a, <1>b, <1>r DEF CreateShape, OthersSame, SeesUp, StopInv, MountsSecrets,
       NotStarting, MainPc
  <1>5. CancelKnows'
    BY <1>s DEF CreateShape, StopInv, CancelKnows
  <1>6. CancelStops'
    <2> SUFFICES ASSUME NEW c \in Cancels, cancel[c].pc \in StoppedPc
                 PROVE  container'[cancel[c].job].state = "none"
      BY <1>s DEF CreateShape, CancelStops
    <2>1. cancel[c].job \in Jobs \ {j}
      BY <1>c, <1>t DEF StoppedPc, Cancel
    <2> QED
      BY <2>1, <1>s DEF CreateShape, OthersSame, StopInv, CancelStops
  <1> QED
    BY <1>1, <1>2, <1>3, <1>4, <1>5, <1>6 DEF StopInv

-----------------------------------------------------------------------------
(* The finalizer. *)

FinalShape(j) ==
  /\ final[j].pc # "none"
  /\ create' = create /\ cancel' = cancel /\ container' = container
  /\ OthersSame(j)
  /\ meta'[j] = meta[j] \/ meta'[j].status \in Terminal

LEMMA FinalShapeHolds ==
  ASSUME TypeOK, NEW j \in Jobs, FinalStep(j)
  PROVE  FinalShape(j)
  <1>t. /\ meta \in [Jobs -> Meta] /\ staged \in [Jobs -> BOOLEAN]
        /\ final \in [Jobs -> Final]
    BY DEF TypeOK, DockerTypeOK, ManagerTypeOK
  <1> USE DEF FinalShape, OthersSame, FinalTo, Terminal
  <1>1. CASE FinalWait(j)
    BY <1>1, <1>t DEF FinalWait, fileVars, dockerVars, otherThanFinal
  <1>2. CASE FinalLoad(j)
    BY <1>2, <1>t DEF FinalLoad, fileVars, dockerVars, otherThanFinal
  <1>3. CASE FinalWrite(j)
    BY <1>3, <1>t DEF FinalWrite, WriteMeta, Final, Meta, dockerVars, otherThanFinal
  <1>4. CASE FinalDisconnect(j)
    BY <1>4, <1>t DEF FinalDisconnect, fileVars, otherThanFinal
  <1>5. CASE FinalRemoveNetwork(j)
    BY <1>5, <1>t DEF FinalRemoveNetwork, fileVars, otherThanFinal
  <1>6. CASE FinalClean(j)
    BY <1>6, <1>t DEF FinalClean, dockerVars, otherThanFinal
  <1>7. CASE FinalRemoveVolume(j)
    BY <1>7, <1>t DEF FinalRemoveVolume, fileVars, otherThanFinal
  <1> QED
    BY <1>1, <1>2, <1>3, <1>4, <1>5, <1>6, <1>7 DEF FinalStep

\* The finalizer keeps StopInv: it runs once the job is published, starts
\* nothing, and never writes "running" or "queued".
LEMMA FinalKeeps ==
  ASSUME TypeOK, StopInv, NEW j \in Jobs, FinalStep(j), UNCHANGED apiVars
  PROVE  StopInv'
  <1>s. FinalShape(j)
    BY FinalShapeHolds
  <1>a. api' = api /\ watched' = watched
    BY DEF apiVars
  <1>b. create[j].pc = "ok"
    BY <1>s DEF FinalShape, StopInv, Order, FinalAfterCreate
  <1>c. api[j].pc \notin {"none", "staged", "queued"}
    BY <1>b DEF StopInv, Order, CreateAfterPost
  <1>1. Order'
    BY <1>s, <1>a, <1>b DEF FinalShape, OthersSame, StopInv, Order, CreateAfterPost,
       FinalAfterCreate, ReturnedIsOk, CancelAfterReturn, WatchAfterReturn
  <1>2. RunningIsPublished' /\ OkIsPublished'
    BY <1>s DEF FinalShape, OthersSame, Terminal, StopInv, Published, RunningIsPublished,
       OkIsPublished
  <1>3. FreshFiles'
    BY <1>s, <1>a, <1>b, <1>c DEF FinalShape, OthersSame, StopInv, Published, FreshFiles
  <1>4. (MountsSecrets /\ NotStarting /\ CancelKnows /\ CancelStops)'
    BY <1>s, <1>a DEF FinalShape, StopInv, MountsSecrets, NotStarting, CancelKnows,
       CancelStops
  <1> QED
    BY <1>1, <1>2, <1>3, <1>4 DEF StopInv, Published

-----------------------------------------------------------------------------
(* The cancel handlers. *)

\* What the step knows of the container, which it may only remove.
StopsKnown(c) ==
  LET j == cancel[c].job
  IN  /\ container'[j] = container[j] \/ container'[j].state = "none"
      /\ cancel'[c].pc \in {"terminate", "stop"} =>
           \/ cancel'[c].meta = meta[j] /\ meta[j].status \in Active
           \/ cancel[c].pc = "terminate" /\ cancel'[c].meta = cancel[c].meta
      /\ cancel'[c].pc \in StoppedPc =>
           \/ cancel[c].pc \in StoppedPc
           \/ /\ cancel[c].pc = "stop"
              /\ cancel[c].meta.cid => container'[j].state # "up"

CancelShape(c) ==
  /\ cancel[c].pc # "idle"
  /\ create' = create /\ final' = final
  /\ cancel'[c].job = cancel[c].job
  /\ \A d \in Cancels \ {c} : cancel'[d] = cancel[d]
  /\ OthersSame(cancel[c].job)
  /\ meta'[cancel[c].job] = meta[cancel[c].job]
       \/ meta'[cancel[c].job].status = "canceled"
  /\ StopsKnown(c)

LEMMA CancelShapeHolds ==
  ASSUME TypeOK, NEW c \in Cancels, CancelStep(c)
  PROVE  CancelShape(c)
  <1>t. /\ container \in [Jobs -> Container] /\ meta \in [Jobs -> Meta]
        /\ staged \in [Jobs -> BOOLEAN] /\ cancel \in [Cancels -> Cancel]
        /\ cancel[c].job \in Jobs
    BY DEF TypeOK, DockerTypeOK, ManagerTypeOK, Cancel
  <1> USE DEF CancelShape, OthersSame, StopsKnown, StoppedPc, CancelTo
  <1>1. CASE CancelLoad(c)
    BY <1>1, <1>t DEF CancelLoad, Cancel, fileVars, dockerVars
  <1>2. CASE CancelTerminate(c)
    BY <1>2, <1>t DEF CancelTerminate, TerminateClient, NoContainer, Cancel, Container,
       fileVars, otherThanCancel
  <1>3. CASE CancelStop(c)
    BY <1>3, <1>t DEF CancelStop, StopContainer, NoContainer, Cancel, Container, fileVars,
       otherThanCancel
  <1>4. CASE CancelDisconnect(c)
    BY <1>4, <1>t DEF CancelDisconnect, Cancel, fileVars, otherThanCancel
  <1>5. CASE CancelRemoveNetwork(c)
    BY <1>5, <1>t DEF CancelRemoveNetwork, Cancel, fileVars, otherThanCancel
  <1>6. CASE CancelWrite(c)
    BY <1>6, <1>t DEF CancelWrite, WriteMeta, Cancel, Meta, dockerVars, otherThanCancel
  <1>7. CASE CancelClean(c)
    BY <1>7, <1>t DEF CancelClean, Cancel, dockerVars, otherThanCancel
  <1>8. CASE CancelRemoveVolume(c)
    BY <1>8, <1>t DEF CancelRemoveVolume, Cancel, fileVars, otherThanCancel
  <1> QED
    BY <1>1, <1>2, <1>3, <1>4, <1>5, <1>6, <1>7, <1>8 DEF CancelStep

\* A cancel handler keeps StopInv.  Its job is published, so the container is up
\* or gone when it looks, and job.json names it.
LEMMA CancelKeeps ==
  ASSUME TypeOK, StopInv, NEW c \in Cancels, CancelStep(c), UNCHANGED apiVars
  PROVE  StopInv'
  <1> DEFINE j == cancel[c].job
  <1>s. CancelShape(c)
    BY CancelShapeHolds
  <1>a. api' = api /\ watched' = watched
    BY DEF apiVars
  <1>t. cancel \in [Cancels -> Cancel] /\ j \in Jobs /\ container \in [Jobs -> Container]
    BY DEF TypeOK, ManagerTypeOK, DockerTypeOK, Cancel
  <1>b. api[j].pc = "returned"
    BY <1>s DEF CancelShape, StopInv, Order, CancelAfterReturn
  <1>c. create[j].pc = "ok"
    BY <1>b, <1>t DEF StopInv, Order, ReturnedIsOk
  <1>d. container[j].state # "starting"
    BY <1>b, <1>c, <1>t DEF StopInv, NotStarting
  <1>e. meta[j].status \in Active => meta[j].cid
    BY <1>c, <1>t DEF Active, StopInv, Published, RunningIsPublished, OkIsPublished
  <1>1. Order'
    <2>1. CancelAfterReturn'
      <3> SUFFICES ASSUME NEW d \in Cancels, cancel'[d].pc # "idle"
                   PROVE  api'[cancel'[d].job].pc = "returned"
        BY DEF CancelAfterReturn
      <3>1. CASE d = c
        BY <3>1, <1>s, <1>a, <1>b DEF CancelShape
      <3>2. CASE d # c
        BY <3>2, <1>s, <1>a DEF CancelShape, StopInv, Order, CancelAfterReturn
      <3> QED
        BY <3>1, <3>2
    <2> QED
      BY <2>1, <1>s, <1>a DEF CancelShape, StopInv, Order, CreateAfterPost,
         FinalAfterCreate, ReturnedIsOk, WatchAfterReturn
  <1>2. RunningIsPublished' /\ OkIsPublished'
    BY <1>s, <1>t DEF CancelShape, OthersSame, StopInv, Published, RunningIsPublished,
       OkIsPublished
  <1>3. FreshFiles'
    BY <1>s, <1>a, <1>b, <1>t DEF CancelShape, OthersSame, StopInv, Published, FreshFiles
  <1>4. MountsSecrets'
    BY <1>s, <1>a DEF CancelShape, StopInv, MountsSecrets
  <1>5. NotStarting'
    BY <1>s, <1>a, <1>t DEF CancelShape, OthersSame, StopsKnown, StopInv, NotStarting
  <1>6. CancelKnows'
    BY <1>s, <1>e DEF CancelShape, StopsKnown, StopInv, CancelKnows
  <1>7. CancelStops'
    <2> SUFFICES ASSUME NEW d \in Cancels, cancel'[d].pc \in StoppedPc
                 PROVE  container'[cancel'[d].job].state = "none"
      BY DEF CancelStops
    <2>1. CASE d = c /\ cancel[c].pc \in StoppedPc
      BY <2>1, <1>s DEF CancelShape, StopsKnown, StopInv, CancelStops
    <2>2. CASE d = c /\ cancel[c].pc = "stop"
      <3>1. container'[j].state # "up"
        BY <2>2, <1>s DEF CancelShape, StopsKnown, StoppedPc, StopInv, CancelKnows
      <3>2. container[j].state \in {"none", "starting", "up"}
        BY <1>t DEF Container, ContainerState
      <3> QED
        BY <2>2, <3>1, <3>2, <1>s, <1>d DEF CancelShape, StopsKnown
    <2>3. CASE d # c
      <3>1. cancel[d].pc \in StoppedPc /\ cancel'[d].job = cancel[d].job
        BY <2>3, <1>s DEF CancelShape
      <3>2. container[cancel[d].job].state = "none" /\ cancel[d].job \in Jobs
        BY <3>1, <1>t DEF StopInv, CancelStops, Cancel
      <3> QED
        BY <3>1, <3>2, <1>s DEF CancelShape, OthersSame, StopsKnown
    <2> QED
      BY <2>1, <2>2, <2>3, <1>s DEF CancelShape, StopsKnown
  <1> QED
    BY <1>1, <1>2, <1>3, <1>4, <1>5, <1>6, <1>7 DEF StopInv, Published

-----------------------------------------------------------------------------
(* The sweep and the daemon. *)

\* No container is launched.
NoneLaunched ==
  \A k \in Jobs :
    /\ container'[k].state = "starting" => container[k].state = "starting"
    /\ container[k].state = "none" => container'[k].state = "none"

SweepShape ==
  /\ create' = create /\ final' = final /\ cancel' = cancel
  /\ NoneLaunched
  /\ \A k \in Jobs :
       \/ meta'[k] = meta[k] /\ staged'[k] = staged[k]
       \/ meta[k].status \in Terminal /\ meta'[k] = NoMeta

LEMMA SweepShapeHolds ==
  ASSUME TypeOK, SweepStep
  PROVE  SweepShape
  <1>t. container \in [Jobs -> Container] /\ staged \in [Jobs -> BOOLEAN]
    BY DEF TypeOK, DockerTypeOK, ManagerTypeOK
  <1> USE DEF SweepShape, NoneLaunched
  <1>1. CASE SweepBegin \/ SweepListContainers \/ SweepListNetworks \/ SweepListVolumes
    BY <1>1 DEF SweepBegin, SweepListContainers, SweepListNetworks, SweepListVolumes,
       SweepList, dockerVars, fileVars, otherThanSweep
  <1>2. ASSUME NEW j \in Jobs, SweepContainer(j) PROVE SweepShape
    <2>1. UNCHANGED <<fileVars, otherThanSweep>>
      BY <1>2 DEF SweepContainer
    <2>2. container' = container \/ container' = [container EXCEPT ![j] = NoContainer]
      BY <1>2 DEF SweepContainer, StopContainer
    <2>3. NoneLaunched
      BY <2>2, <1>t DEF NoContainer
    <2> QED
      BY <2>1, <2>3 DEF fileVars, otherThanSweep
  <1>3. ASSUME NEW j \in Jobs, SweepNetwork(j) \/ SweepVolume(j) PROVE SweepShape
    BY <1>3 DEF SweepNetwork, SweepVolume, fileVars, otherThanSweep
  <1>4. CASE SweepDone("rm_containers", "networks") \/ SweepDone("rm_networks", "volumes")
             \/ SweepDone("rm_volumes", "dirs")
    BY <1>4 DEF SweepDone, dockerVars, fileVars, otherThanSweep
  <1>5. CASE SweepDirs
    BY <1>5, <1>t DEF SweepDirs, dockerVars, otherThanSweep
  <1> QED
    BY <1>1, <1>2, <1>3, <1>4, <1>5 DEF SweepStep

\* The sweep keeps StopInv: it forces containers away, and of job.json removes
\* only the terminal ones.
LEMMA SweepKeeps ==
  ASSUME TypeOK, StopInv, SweepStep, UNCHANGED apiVars
  PROVE  StopInv'
  <1>s. SweepShape
    BY SweepShapeHolds
  <1>a. api' = api /\ watched' = watched
    BY DEF apiVars
  <1>t. cancel \in [Cancels -> Cancel]
    BY DEF TypeOK, ManagerTypeOK
  <1>1. Order'
    BY <1>s, <1>a DEF SweepShape, StopInv, Order, CreateAfterPost, FinalAfterCreate,
       ReturnedIsOk, CancelAfterReturn, WatchAfterReturn
  <1>2. RunningIsPublished' /\ OkIsPublished'
    BY <1>s DEF SweepShape, NoMeta, StopInv, Published, RunningIsPublished, OkIsPublished
  <1>3. FreshFiles'
    BY <1>s, <1>a DEF SweepShape, NoMeta, Terminal, StopInv, Published, FreshFiles
  <1>4. (MountsSecrets /\ CancelKnows)'
    BY <1>s, <1>a DEF SweepShape, StopInv, MountsSecrets, CancelKnows
  <1>5. (NotStarting /\ CancelStops)'
    BY <1>s, <1>a, <1>t DEF SweepShape, NoneLaunched, StopInv, NotStarting, CancelStops,
       Cancel
  <1> QED
    BY <1>1, <1>2, <1>3, <1>4, <1>5 DEF StopInv, Published

\* The daemon keeps StopInv: what comes up was being launched.
LEMMA DockerKeeps ==
  ASSUME TypeOK, StopInv, NEW j \in Jobs, DockerStep(j),
         UNCHANGED <<fileVars, managerVars, apiVars>>
  PROVE  StopInv'
  <1>t. container \in [Jobs -> Container] /\ cancel \in [Cancels -> Cancel]
    BY DEF TypeOK, DockerTypeOK, ManagerTypeOK
  <1>1. NoneLaunched
    BY <1>t DEF DockerStep, ContainerComesUp, ContainerFailsToStart, RunnerExits,
       NoneLaunched, NoContainer, Container
  <1>2. UNCHANGED <<meta, staged, create, final, cancel, api, watched>>
    BY DEF fileVars, managerVars, apiVars
  <1>3. (Order /\ Published /\ MountsSecrets /\ CancelKnows)'
    BY <1>2 DEF StopInv, Order, CreateAfterPost, FinalAfterCreate, ReturnedIsOk,
       CancelAfterReturn, WatchAfterReturn, Published, RunningIsPublished, OkIsPublished,
       FreshFiles, MountsSecrets, CancelKnows
  <1>4. (NotStarting /\ CancelStops)'
    BY <1>1, <1>2, <1>t DEF NoneLaunched, StopInv, NotStarting, CancelStops, Cancel
  <1> QED
    BY <1>3, <1>4 DEF StopInv

-----------------------------------------------------------------------------
(* The API process. *)

\* The handler of POST /api/deployments moves along its path, or leaves it.
ApiMoves(j) ==
  \/ api'[j] = api[j] /\ create' = create
  \/ /\ api[j].pc = "none" /\ api'[j].pc = "staged"
     /\ create' = create /\ meta' = meta /\ staged'[j]
  \/ /\ api[j].pc = "staged" /\ api'[j].pc = "queued"
     /\ create' = create /\ staged' = staged /\ meta'[j].status = "queued"
  \/ /\ api[j].pc = "queued" /\ api'[j].pc = "posted"
     /\ create'[j].pc = "load" /\ meta' = meta /\ staged' = staged
  \/ api[j].pc = "posted" /\ api'[j].pc = "returned" /\ create[j].pc = "ok" /\ create' = create
  \/ /\ api[j].pc # "returned" /\ create' = create
     /\ api'[j].pc \notin {"none", "staged", "queued", "posted", "returned"}

ApiShape(j) ==
  /\ container' = container /\ final' = final /\ cancel' = cancel
  /\ \A k \in Jobs \ {j} : /\ api'[k] = api[k]
                           /\ create'[k] = create[k]
                           /\ meta'[k] = meta[k]
                           /\ staged'[k] = staged[k]
                           /\ watched'[k] = watched[k]
  /\ ApiMoves(j)
  /\ \/ meta'[j].status = meta[j].status /\ meta'[j].cid = meta[j].cid
     \/ api'[j].pc = "queued" /\ meta'[j].status = "queued"
     \/ api[j].pc = "err_write" /\ meta'[j].status = "failed"
  /\ \/ staged'[j] = staged[j]
     \/ api[j].pc = "none" /\ staged'[j]
     \/ api[j].pc \in {"err_clean", "returned"} \/ watched[j]
  /\ watched'[j] => watched[j] \/ api'[j].pc = "returned"

LEMMA ApiShapeHolds ==
  ASSUME TypeOK, NEW j \in Jobs,
         ApiStep(j) \/ ApiRejects(j) \/ ApiUnreachable(j) \/ Watch(j)
           \/ ApiGet(j) \/ RetentionPasses(j)
  PROVE  ApiShape(j)
  <1>t. /\ meta \in [Jobs -> Meta] /\ staged \in [Jobs -> BOOLEAN]
        /\ create \in [Jobs -> Create] /\ api \in [Jobs -> Api]
        /\ watched \in [Jobs -> BOOLEAN]
    BY DEF TypeOK, ManagerTypeOK
  <1> USE DEF ApiShape, ApiMoves, ApiTo, dockerVars, managerVars
  <1>1. CASE ApiStage(j)
    BY <1>1, <1>t DEF ApiStage, Api
  <1>2. CASE ApiQueue(j)
    BY <1>2, <1>t DEF ApiQueue, WriteMeta, NoMeta, Api
  <1>3. CASE ApiRejects(j)
    BY <1>3, <1>t DEF ApiRejects, Api, fileVars
  <1>4. CASE ApiPost(j)
    BY <1>4, <1>t DEF ApiPost, CreateTo, Api, Create, fileVars, otherThanCreate
  <1>5. CASE ApiUnreachable(j)
    BY <1>5, <1>t DEF ApiUnreachable, Api, fileVars
  <1>6. CASE ApiReturns(j)
    BY <1>6, <1>t DEF ApiReturns, Api, fileVars
  <1>7. CASE ApiStartFails(j)
    BY <1>7, <1>t DEF ApiStartFails, Api, fileVars
  <1>8. CASE ApiErrorLoad(j)
    BY <1>8, <1>t DEF ApiErrorLoad, Api, fileVars
  <1>9. CASE ApiErrorWrite(j)
    BY <1>9, <1>t DEF ApiErrorWrite, WriteMeta, Api, Meta
  <1>10. CASE ApiErrorClean(j)
    BY <1>10, <1>t DEF ApiErrorClean, Api
  <1>11. CASE Watch(j)
    BY <1>11, <1>t DEF Watch
  <1>12. CASE ApiGet(j)
    BY <1>12, <1>t DEF ApiGet, apiVars
  <1>13. CASE RetentionPasses(j)
    BY <1>13, <1>t DEF RetentionPasses, Meta, apiVars
  <1> QED
    BY <1>1, <1>2, <1>3, <1>4, <1>5, <1>6, <1>7, <1>8, <1>9, <1>10, <1>11, <1>12, <1>13
       DEF ApiStep

\* The API keeps StopInv.
LEMMA ApiKeeps ==
  ASSUME TypeOK, StopInv, NEW j \in Jobs,
         ApiStep(j) \/ ApiRejects(j) \/ ApiUnreachable(j) \/ Watch(j)
           \/ ApiGet(j) \/ RetentionPasses(j)
  PROVE  StopInv'
  <1>s. ApiShape(j)
    BY ApiShapeHolds
  <1>t. cancel \in [Cancels -> Cancel]
    BY DEF TypeOK, ManagerTypeOK
  <1>w. watched[j] => api[j].pc = "returned"
    BY DEF StopInv, Order, WatchAfterReturn
  <1>c. /\ api[j].pc \in {"none", "staged", "queued"} => create[j].pc = "off" /\ final[j].pc = "none"
        /\ api[j].pc = "returned" => create[j].pc = "ok"
    BY DEF StopInv, Order, CreateAfterPost, FinalAfterCreate, ReturnedIsOk
  <1>1. (CreateAfterPost /\ FinalAfterCreate /\ ReturnedIsOk /\ WatchAfterReturn)'
    <2>1. CreateAfterPost' /\ FinalAfterCreate'
      BY <1>s, <1>c DEF ApiShape, ApiMoves, StopInv, Order, CreateAfterPost, FinalAfterCreate
    <2>2. ReturnedIsOk' /\ WatchAfterReturn'
      BY <1>s, <1>c, <1>w DEF ApiShape, ApiMoves, StopInv, Order, ReturnedIsOk, WatchAfterReturn
    <2> QED
      BY <2>1, <2>2
  <1>2. CancelAfterReturn'
    <2> SUFFICES ASSUME NEW c \in Cancels, cancel[c].pc # "idle"
                 PROVE  api'[cancel[c].job].pc = "returned"
      BY <1>s DEF ApiShape, CancelAfterReturn
    <2>1. api[cancel[c].job].pc = "returned" /\ cancel[c].job \in Jobs
      BY <1>t DEF StopInv, Order, CancelAfterReturn, Cancel
    <2> QED
      BY <2>1, <1>s DEF ApiShape, ApiMoves
  <1>3. RunningIsPublished' /\ OkIsPublished'
    BY <1>s, <1>c DEF ApiShape, ApiMoves, StopInv, Published, RunningIsPublished,
       OkIsPublished
  <1>4. FreshFiles'
    BY <1>s, <1>c, <1>w DEF ApiShape, ApiMoves, StopInv, Published, FreshFiles
  <1>5. MountsSecrets' /\ NotStarting'
    BY <1>s, <1>c DEF ApiShape, ApiMoves, StopInv, MountsSecrets, NotStarting, MainPc
  <1>6. CancelKnows' /\ CancelStops'
    BY <1>s DEF ApiShape, StopInv, CancelKnows, CancelStops
  <1> QED
    BY <1>1, <1>2, <1>3, <1>4, <1>5, <1>6 DEF StopInv, Order, Published

-----------------------------------------------------------------------------
(* Cancel requests and their answers, and restarts. *)

\* A request for a cancel keeps StopInv: its client was told the job id.
LEMMA RequestKeeps ==
  ASSUME TypeOK, StopInv, NEW j \in Jobs,
         (\E c \in Cancels : ApiCancel(c, j)) \/ (\E c \in Cancels : ApiCancelReturns(c))
  PROVE  StopInv'
  <1>t. cancel \in [Cancels -> Cancel]
    BY DEF TypeOK, ManagerTypeOK
  <1>1. UNCHANGED <<container, meta, staged, create, final, api, watched>>
    BY DEF ApiCancel, ApiCancelReturns, dockerVars, fileVars, apiVars
  <1>2. \A c \in Cancels :
           \/ cancel'[c] = cancel[c]
           \/ cancel'[c].pc = "idle"
           \/ cancel'[c].pc = "load" /\ api[cancel'[c].job].pc = "returned"
    BY <1>t DEF ApiCancel, ApiCancelReturns, NoCancel
  <1>3. (CancelAfterReturn /\ CancelKnows /\ CancelStops)'
    BY <1>1, <1>2 DEF StopInv, Order, CancelAfterReturn, CancelKnows, CancelStops, StoppedPc
  <1> QED
    BY <1>1, <1>3 DEF StopInv, Order, CreateAfterPost, FinalAfterCreate, ReturnedIsOk,
       WatchAfterReturn, Published, RunningIsPublished, OkIsPublished, FreshFiles,
       MountsSecrets, NotStarting

\* A restart of the manager keeps StopInv: what it interrupts never goes on.
LEMMA ManagerRestartKeeps ==
  ASSUME TypeOK, StopInv, ManagerRestart
  PROVE  StopInv'
  <1>1. UNCHANGED <<container, meta, staged, api, watched>>
    BY DEF ManagerRestart, fileVars, apiVars
  <1>2. \A j \in Jobs : /\ \/ create'[j] = create[j] /\ create[j].pc \in CreateOver
                           \/ create'[j].pc = "dead" /\ create[j].pc \notin CreateOver
                        /\ final'[j].pc = "none"
    <2> SUFFICES ASSUME NEW j \in Jobs
                 PROVE  /\ \/ create'[j] = create[j] /\ create[j].pc \in CreateOver
                           \/ create'[j].pc = "dead" /\ create[j].pc \notin CreateOver
                        /\ final'[j].pc = "none"
      OBVIOUS
    <2>1. create'[j] = IF create[j].pc \in CreateOver THEN create[j]
                       ELSE [NoCreate EXCEPT !.pc = "dead"]
      BY DEF ManagerRestart
    <2>2. final'[j] = NoFinal
      BY DEF ManagerRestart
    <2> QED
      BY <2>1, <2>2 DEF NoCreate, NoFinal
  <1>3. \A c \in Cancels : cancel'[c] = cancel[c] \/ cancel'[c].pc = "idle"
    BY DEF ManagerRestart, NoCancel
  <1>4. Order'
    BY <1>1, <1>2, <1>3 DEF CreateOver, StopInv, Order, CreateAfterPost,
       FinalAfterCreate, ReturnedIsOk, CancelAfterReturn, WatchAfterReturn
  <1>5. Published'
    BY <1>1, <1>2 DEF CreateOver, StopInv, Published, RunningIsPublished, OkIsPublished,
       FreshFiles
  <1>6. (MountsSecrets /\ NotStarting)'
    BY <1>1, <1>2 DEF StopInv, MountsSecrets, NotStarting, MainPc
  <1>7. (CancelKnows /\ CancelStops)'
    BY <1>1, <1>3 DEF StopInv, CancelKnows, CancelStops, StoppedPc
  <1> QED
    BY <1>4, <1>5, <1>6, <1>7 DEF StopInv

\* Until the API has its service, it handles no job.
UnbuiltIsIdle == ~built => \A j \in Jobs : api[j].pc \in ApiOver \cup {"none"}

LEMMA UnbuiltKeeps ==
  ASSUME TypeOK, UnbuiltIsIdle, [Next]_vars
  PROVE  UnbuiltIsIdle'
  <1>t. api \in [Jobs -> Api]
    BY DEF TypeOK
  <1>1. CASE ApiRestart
    BY <1>1 DEF ApiRestart, UnbuiltIsIdle, NoApi, ApiOver
  <1>2. CASE ApiConstructs
    BY <1>2 DEF ApiConstructs, UnbuiltIsIdle
  <1>3. ASSUME NEW j \in Jobs, ApiStep(j) \/ ApiRejects(j) \/ ApiUnreachable(j)
        PROVE  UnbuiltIsIdle'
    <2>1. built' = built
      BY <1>3 DEF ApiStep, ApiStage, ApiQueue, ApiPost, ApiReturns, ApiStartFails,
         ApiErrorLoad, ApiErrorWrite, ApiErrorClean, ApiRejects, ApiUnreachable
    <2>2. api[j].pc = "none" => built
      BY <1>3 DEF ApiStep, ApiStage, ApiQueue, ApiPost, ApiReturns, ApiStartFails,
         ApiErrorLoad, ApiErrorWrite, ApiErrorClean, ApiRejects, ApiUnreachable
    <2>3. api[j].pc \notin ApiOver
      BY <1>3 DEF ApiStep, ApiStage, ApiQueue, ApiPost, ApiReturns, ApiStartFails,
         ApiErrorLoad, ApiErrorWrite, ApiErrorClean, ApiRejects, ApiUnreachable, ApiOver
    <2> QED
      BY <2>1, <2>2, <2>3 DEF UnbuiltIsIdle
  <1>4. CASE UNCHANGED <<api, built>>
    BY <1>4 DEF UnbuiltIsIdle
  <1>5. CASE UNCHANGED vars
    BY <1>5, <1>4 DEF vars, apiVars
  <1>6. CASE Next
    <2>1. ASSUME NEW j \in Jobs,
                 \/ UNCHANGED apiVars
                 \/ Watch(j) \/ ApiGet(j) \/ RetentionPasses(j)
                 \/ \E c \in Cancels : ApiCancel(c, j)
          PROVE  UnbuiltIsIdle'
      BY <2>1, <1>4 DEF Watch, ApiGet, RetentionPasses, ApiCancel, apiVars
    <2>2. CASE UNCHANGED apiVars
      BY <2>2, <1>4 DEF apiVars
    <2>3. CASE \E c \in Cancels : ApiCancelReturns(c)
      BY <2>3, <1>4 DEF ApiCancelReturns
    <2>4. CASE ManagerRequest \/ ManagerRestart
      BY <2>4, <1>4 DEF ManagerRequest, ManagerRestart, apiVars
    <2> QED
      BY <1>6, <1>1, <1>2, <1>3, <2>1, <2>2, <2>3, <2>4 DEF Next
  <1> QED
    BY <1>5, <1>6

\* The construction of the service keeps StopInv: what it takes away was staged by
\* an earlier process.
LEMMA ApiConstructsKeeps ==
  ASSUME TypeOK, StopInv, UnbuiltIsIdle, ApiConstructs
  PROVE  StopInv'
  <1>1. UNCHANGED <<container, meta, create, final, cancel, api, watched>>
    BY DEF ApiConstructs, dockerVars, managerVars
  <1>2. \A j \in Jobs : api[j].pc \notin {"staged", "queued", "posted"}
    BY DEF ApiConstructs, UnbuiltIsIdle, ApiOver
  <1> QED
    BY <1>1, <1>2 DEF StopInv, Order, CreateAfterPost, FinalAfterCreate, ReturnedIsOk,
       CancelAfterReturn, WatchAfterReturn, Published, RunningIsPublished, OkIsPublished,
       FreshFiles, MountsSecrets, NotStarting, CancelKnows, CancelStops

\* A restart of the API keeps StopInv: what it interrupts never goes on.
LEMMA ApiRestartKeeps ==
  ASSUME TypeOK, StopInv, ApiRestart
  PROVE  StopInv'
  <1>1. UNCHANGED <<container, meta, create, final, cancel>>
    BY DEF ApiRestart, dockerVars, fileVars, managerVars
  <1>2. \A j \in Jobs : /\ \/ api'[j] = api[j] /\ api[j].pc \in ApiOver \cup {"none"}
                           \/ api'[j].pc = "dead" /\ api[j].pc \notin ApiOver \cup {"none"}
                        /\ ~watched'[j]
    <2> SUFFICES ASSUME NEW j \in Jobs
                 PROVE  /\ \/ api'[j] = api[j] /\ api[j].pc \in ApiOver \cup {"none"}
                           \/ api'[j].pc = "dead" /\ api[j].pc \notin ApiOver \cup {"none"}
                        /\ ~watched'[j]
      OBVIOUS
    <2>1. api'[j] = IF api[j].pc \in ApiOver \cup {"none"} THEN api[j]
                    ELSE [NoApi EXCEPT !.pc = "dead"]
      BY DEF ApiRestart
    <2>2. watched'[j] = FALSE
      BY DEF ApiRestart
    <2> QED
      BY <2>1, <2>2 DEF NoApi
  <1>t. cancel \in [Cancels -> Cancel]
    BY DEF TypeOK, ManagerTypeOK
  <1>3. (CreateAfterPost /\ FinalAfterCreate /\ ReturnedIsOk /\ WatchAfterReturn)'
    BY <1>1, <1>2 DEF ApiOver, StopInv, Order, CreateAfterPost, FinalAfterCreate,
       ReturnedIsOk, WatchAfterReturn
  <1>4. CancelAfterReturn'
    BY <1>1, <1>2, <1>t DEF ApiOver, StopInv, Order, CancelAfterReturn, Cancel
  <1>5. Published'
    BY <1>1, <1>2 DEF ApiOver, StopInv, Published, RunningIsPublished, OkIsPublished,
       FreshFiles
  <1>6. (MountsSecrets /\ NotStarting)'
    BY <1>1, <1>2 DEF ApiOver, StopInv, MountsSecrets, NotStarting
  <1>7. (CancelKnows /\ CancelStops)'
    BY <1>1 DEF StopInv, CancelKnows, CancelStops
  <1> QED
    BY <1>3, <1>4, <1>5, <1>6, <1>7 DEF StopInv, Order

-----------------------------------------------------------------------------
(* The theorem. *)

LEMMA InitStop == Init => StopInv
  <1> SUFFICES ASSUME Init PROVE StopInv
    OBVIOUS
  <1>1. \A c \in Cancels : cancel[c].pc = "idle"
    BY DEF Init, ManagerInit, NoCancel
  <1>2. \A j \in Jobs : /\ api[j].pc = "none" /\ create[j].pc = "off"
                        /\ final[j].pc = "none" /\ meta[j].status = "absent"
                        /\ ~watched[j]
    BY DEF Init, ManagerInit, NoApi, NoCreate, NoFinal, NoMeta
  <1> QED
    BY <1>1, <1>2 DEF StopInv, Order, CreateAfterPost, FinalAfterCreate, ReturnedIsOk,
       CancelAfterReturn, WatchAfterReturn, Published, RunningIsPublished, OkIsPublished,
       FreshFiles, MountsSecrets, NotStarting, MainPc, CancelKnows, CancelStops, StoppedPc

LEMMA NextStop == TypeOK /\ StopInv /\ UnbuiltIsIdle /\ [Next]_vars => StopInv'
  <1> SUFFICES ASSUME TypeOK, StopInv, UnbuiltIsIdle, [Next]_vars PROVE StopInv'
    OBVIOUS
  <1>1. CASE UNCHANGED vars
    BY <1>1 DEF vars, dockerVars, fileVars, managerVars, apiVars, StopInv, Order,
       CreateAfterPost, FinalAfterCreate, ReturnedIsOk, CancelAfterReturn,
       WatchAfterReturn, Published, RunningIsPublished, OkIsPublished, FreshFiles,
       MountsSecrets, NotStarting, CancelKnows, CancelStops
  <1>2. CASE Next
    <2>1. ASSUME NEW j \in Jobs,
                 \/ DockerStep(j) /\ UNCHANGED <<fileVars, managerVars, apiVars>>
                 \/ CreateStep(j) /\ UNCHANGED apiVars
                 \/ FinalStep(j) /\ UNCHANGED apiVars
                 \/ ApiStep(j) \/ ApiRejects(j) \/ ApiUnreachable(j)
                 \/ Watch(j) \/ ApiGet(j) \/ RetentionPasses(j)
                 \/ \E c \in Cancels : ApiCancel(c, j)
          PROVE  StopInv'
      BY <2>1, DockerKeeps, CreateKeeps, FinalKeeps, ApiKeeps, RequestKeeps
    <2>2. ASSUME NEW c \in Cancels,
                 \/ CancelStep(c) /\ UNCHANGED apiVars
                 \/ ApiCancelReturns(c)
          PROVE  StopInv'
      <3>1. cancel[c].job \in Jobs
        BY DEF TypeOK, ManagerTypeOK, Cancel
      <3> QED
        BY <2>2, <3>1, CancelKeeps, RequestKeeps
    <2>3. CASE SweepStep /\ UNCHANGED apiVars
      BY <2>3, SweepKeeps
    <2>4. CASE ManagerRequest
      BY <2>4 DEF ManagerRequest, dockerVars, fileVars, apiVars, StopInv, Order,
         CreateAfterPost, FinalAfterCreate, ReturnedIsOk, CancelAfterReturn,
         WatchAfterReturn, Published, RunningIsPublished, OkIsPublished, FreshFiles,
         MountsSecrets, NotStarting, CancelKnows, CancelStops
    <2>5. CASE ManagerRestart \/ ApiConstructs \/ ApiRestart
      BY <2>5, ManagerRestartKeeps, ApiConstructsKeeps, ApiRestartKeeps
    <2> QED
      BY <1>2, <2>1, <2>2, <2>3, <2>4, <2>5 DEF Next
  <1> QED
    BY <1>1, <1>2

\* StopInv holds in every reachable state: the handlers of a job run one after
\* another, and a published job has a container that is up or gone.
THEOREM OrderCorrect == Spec => []StopInv
  <1>1. Init => UnbuiltIsIdle
    BY DEF Init, UnbuiltIsIdle, NoApi
  <1>2. TypeOK /\ UnbuiltIsIdle /\ [Next]_vars => UnbuiltIsIdle'
    BY UnbuiltKeeps
  <1> QED
    BY <1>1, <1>2, TypeCorrect, InitStop, NextStop, PTL DEF Spec

\* A cancel that has stopped the runner has stopped it for good: whatever is
\* restarted, fails or times out meanwhile, the job has no container again.
THEOREM CancelCorrect == Spec => []CancelStops
  <1>1. StopInv => CancelStops
    BY DEF StopInv
  <1> QED
    BY <1>1, OrderCorrect, PTL
=============================================================================
