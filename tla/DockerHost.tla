----------------------------- MODULE DockerHost -----------------------------
(***************************************************************************)
(* The Docker daemon as runner-manager drives it: one runner container,    *)
(* one internal network and one secret volume per job, and the `docker     *)
(* run` client process that attaches to the container.                     *)
(*                                                                         *)
(* The operators with a primed variable are the effects of the functions   *)
(* of services/job_runner/container_runner_runtime.py (and of the two      *)
(* docker calls of _connect_mode_a_targets / _disconnect_mode_a_targets).  *)
(* Each says what the daemon does, including the failures those functions  *)
(* swallow: `docker network rm` refuses a network with endpoints, `docker  *)
(* volume rm` refuses a mounted volume, `docker stop` of a container that  *)
(* does not exist yet does nothing.                                        *)
(***************************************************************************)
EXTENDS Integers, FiniteSets

CONSTANTS
  Jobs,      \* job ids (uuid4 in the code, never reused)
  Targets    \* compose services a job's inventory names (mode A targets)

VARIABLES
  container, \* [state, vol]: the runner container; vol: it mounts the secret volume
  client,    \* the `docker run` process started by the manager, and its exit
  network,   \* does the internal network job-<id> exist
  attached,  \* mode A targets connected to job-<id>
  volume     \* [kind, seeded]: the volume infinito-job-secrets-<id>

dockerVars == <<container, client, network, attached, volume>>

ContainerState == {"none", "starting", "up"}
ClientState    == {"none", "live", "zero", "nonzero", "lost"}
VolumeKind     == {"none", "tmpfs", "plain"}

Container == [state: ContainerState, vol: BOOLEAN]
Volume    == [kind: VolumeKind, seeded: BOOLEAN]

NoContainer == [state |-> "none", vol |-> FALSE]
NoVolume    == [kind |-> "none", seeded |-> FALSE]

DockerTypeOK ==
  /\ container \in [Jobs -> Container]
  /\ client    \in [Jobs -> ClientState]
  /\ network   \in [Jobs -> BOOLEAN]
  /\ attached  \in [Jobs -> SUBSET Targets]
  /\ volume    \in [Jobs -> Volume]

DockerInit ==
  /\ container = [j \in Jobs |-> NoContainer]
  /\ client    = [j \in Jobs |-> "none"]
  /\ network   = [j \in Jobs |-> FALSE]
  /\ attached  = [j \in Jobs |-> {}]
  /\ volume    = [j \in Jobs |-> NoVolume]

-----------------------------------------------------------------------------
(* Predicates on the daemon's state. *)

\* A network with endpoints cannot be removed.
HasEndpoints(j) == container[j].state = "up" \/ attached[j] # {}

\* A volume some container mounts cannot be removed.
Mounted(j) == container[j].state = "up" /\ container[j].vol

ClientExited(j) == client[j] \in {"zero", "nonzero"}

\* What the client reports once its container is stopped or removed.
Interrupted(s) == IF s = "live" THEN "nonzero" ELSE s

-----------------------------------------------------------------------------
(* Calls.  Each primes only the variables it names. *)

\* docker network create --internal; the name must be free.
CreateNetwork(j) == ~network[j] /\ network' = [network EXCEPT ![j] = TRUE]

\* docker network rm, its failure ignored.
RemoveNetwork(j) ==
  network' = [network EXCEPT ![j] = @ /\ HasEndpoints(j)]

\* docker volume create with tmpfs options: keeps a volume of that name.
CreateTmpfsVolume(j) ==
  volume' = [volume EXCEPT ![j] = IF @.kind = "none"
                                  THEN [kind |-> "tmpfs", seeded |-> FALSE]
                                  ELSE @]

\* docker volume rm, retried for five seconds, then given up silently.
\* "named" is FALSE when the caller holds no volume name.
RemoveVolume(j, named) ==
  volume' = [volume EXCEPT ![j] = IF named /\ ~Mounted(j) THEN NoVolume ELSE @]

\* Popen of `docker run --rm`: the client lives, the container comes later.
LaunchContainer(j, vol) ==
  /\ container' = [container EXCEPT ![j] = [state |-> "starting", vol |-> vol]]
  /\ client'    = [client EXCEPT ![j] = "live"]

\* SIGTERM to the client's process group; pid is known only to a caller that
\* holds it.  A container still being launched may or may not appear later.
TerminateClient(j, pidKnown) ==
  IF pidKnown /\ client[j] = "live"
  THEN /\ client' = [client EXCEPT ![j] = "nonzero"]
       /\ \/ UNCHANGED container
          \/ /\ container[j].state = "starting"
             /\ container' = [container EXCEPT ![j] = NoContainer]
  ELSE UNCHANGED <<client, container>>

\* docker stop --time 10, and docker rm -f: an existing container is gone
\* (it runs with --rm), one still being launched is not found.
StopContainer(j, nameKnown) ==
  IF nameKnown /\ container[j].state = "up"
  THEN /\ container' = [container EXCEPT ![j] = NoContainer]
       /\ client'    = [client EXCEPT ![j] = Interrupted(@)]
  ELSE UNCHANGED <<container, client>>

\* docker run -v <volume>:/... creates a missing volume with default options.
SeedVolume(j, secrets) ==
  volume' = [volume EXCEPT ![j] =
               [kind   |-> IF @.kind = "none" THEN "plain" ELSE @.kind,
                seeded |-> @.seeded \/ secrets]]

Disconnect(j, ts) == attached' = [attached EXCEPT ![j] = @ \ ts]

-----------------------------------------------------------------------------
(* The daemon and the workload act by themselves. *)

\* The launched container comes up on its network, or docker run fails: always
\* when the network is missing, and possibly for reasons of its own.
ContainerComesUp(j) ==
  /\ container[j].state = "starting"
  /\ network[j]
  /\ container' = [container EXCEPT ![j].state = "up"]
  /\ volume' = [volume EXCEPT ![j] =
                  IF container[j].vol /\ @.kind = "none"
                  THEN [kind |-> "plain", seeded |-> FALSE] ELSE @]
  /\ UNCHANGED <<client, network, attached>>

ContainerFailsToStart(j) ==
  /\ container[j].state = "starting"
  /\ container' = [container EXCEPT ![j] = NoContainer]
  /\ client' = [client EXCEPT ![j] = Interrupted(@)]
  /\ UNCHANGED <<network, attached, volume>>

\* The workload ends by itself; --rm removes the container and an attached
\* client reports its exit code.
RunnerExits(j) ==
  /\ container[j].state = "up"
  /\ container' = [container EXCEPT ![j] = NoContainer]
  /\ \E rc \in {"zero", "nonzero"} :
       client' = [client EXCEPT ![j] = IF @ = "live" THEN rc ELSE @]
  /\ UNCHANGED <<network, attached, volume>>

DockerStep(j) ==
  ContainerComesUp(j) \/ ContainerFailsToStart(j) \/ RunnerExits(j)
=============================================================================
