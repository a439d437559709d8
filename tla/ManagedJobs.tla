---------------------------- MODULE ManagedJobs -----------------------------
(***************************************************************************)
(* Deployment jobs run through the runner-manager: the API process         *)
(* (services/job_runner/job_runner_runtime.py, job_runner_workspace.py)    *)
(* composed with the manager of module RunnerManager.  The two processes   *)
(* share the job directories and talk over HTTP; each may restart alone.   *)
(***************************************************************************)
EXTENDS RunnerManager

VARIABLES
  api,     \* the POST /api/deployments handler of each job
  watched, \* is the _watch_managed_job_cleanup thread of the job alive
  store,   \* _secret_store: jobs whose secret values the API holds in memory
  built,   \* has this API process constructed its JobRunnerService
  apiRestarts

apiVars == <<api, watched, store, built, apiRestarts>>
vars == <<dockerVars, fileVars, managerVars, apiVars>>

\* "posted": waiting for the manager; "returned": the client knows the job id;
\* "rejected": an exception no except block catches.
ApiPc == {"none", "staged", "queued", "posted", "err_load", "err_write",
          "err_clean", "returned", "failed", "rejected", "dead"}
ApiOver == {"returned", "failed", "rejected", "dead"}

Api == [pc: ApiPc, meta: Meta]
NoApi == [pc |-> "none", meta |-> NoMeta]

TypeOK ==
  /\ DockerTypeOK
  /\ ManagerTypeOK
  /\ api \in [Jobs -> Api]
  /\ watched \in [Jobs -> BOOLEAN]
  /\ store \in SUBSET Jobs
  /\ built \in BOOLEAN
  /\ apiRestarts \in 0..MaxRestarts

Init ==
  /\ DockerInit
  /\ ManagerInit
  /\ api = [j \in Jobs |-> NoApi]
  /\ watched = [j \in Jobs |-> FALSE]
  /\ store = {}
  /\ built = FALSE
  /\ apiRestarts = 0

ApiTo(j, pc) == api' = [api EXCEPT ![j].pc = pc]

-----------------------------------------------------------------------------
(* _jobs(): the service is a lazy singleton.  Nothing constructs it at start-up;
   the first request under /deployments does, of whichever job and client. *)

\* (Defect: the constructor removes nothing.)
ApiConstructsOnly ==
  /\ ~built
  /\ built' = TRUE
  /\ UNCHANGED <<dockerVars, fileVars, managerVars, api, watched, store, apiRestarts>>

\* Its constructor removes the secrets of every job that is not "running"; for a
\* running job it probes the recorded pid, which belongs to another container:
\* either answer is possible.
ApiConstructs ==
  /\ ~built
  /\ built' = TRUE
  /\ \E alive \in SUBSET {j \in Jobs : meta[j].status = "running"} :
       staged' = [j \in Jobs |-> staged[j] /\ j \in alive]
  /\ UNCHANGED <<dockerVars, meta, managerVars, api, watched, store, apiRestarts>>

(* POST /api/deployments: JobRunnerService.create. *)

\* Creates the job directory and materializes the secret files.
ApiStage(j) ==
  /\ built
  /\ api[j].pc = "none"
  /\ staged' = [staged EXCEPT ![j] = TRUE]
  /\ ApiTo(j, "staged")
  /\ UNCHANGED <<dockerVars, meta, managerVars, watched, store, built, apiRestarts>>

\* Writes job.json as "queued" and remembers the secret values.
ApiQueue(j) ==
  /\ api[j].pc = "staged"
  /\ WriteMeta(j, [NoMeta EXCEPT !.status = "queued"])
  /\ store' = store \cup {j}
  /\ ApiTo(j, "queued")
  /\ UNCHANGED <<dockerVars, staged, managerVars, watched, built, apiRestarts>>

\* A request whose playbook, version or inventory is refused raises after
\* job.json is written; no except block covers it, so nothing is undone.
ApiRejects(j) ==
  /\ "request" \in Faults
  /\ api[j].pc = "queued"
  /\ ApiTo(j, "rejected")
  /\ UNCHANGED <<dockerVars, fileVars, managerVars, watched, store, built, apiRestarts>>

\* start_job: POST /jobs to the manager.
ApiPost(j) ==
  /\ api[j].pc = "queued"
  /\ ApiTo(j, "posted")
  /\ CreateTo(j, "load")
  /\ UNCHANGED <<dockerVars, fileVars, otherThanCreate, watched, store, built, apiRestarts>>

\* The manager cannot be reached.
ApiUnreachable(j) ==
  /\ "manager_restart" \in Faults
  /\ api[j].pc = "queued"
  /\ ApiTo(j, "err_load")
  /\ UNCHANGED <<dockerVars, fileVars, managerVars, watched, store, built, apiRestarts>>

\* The manager has answered: start the watcher and return the job.
ApiReturns(j) ==
  /\ api[j].pc = "posted"
  /\ create[j].pc = "ok"
  /\ watched' = [watched EXCEPT ![j] = TRUE]
  /\ ApiTo(j, "returned")
  /\ UNCHANGED <<dockerVars, fileVars, managerVars, store, built, apiRestarts>>

\* The manager has answered with an error or is gone, or the client's 30 second
\* timeout has passed while the manager is still at work.
ApiStartFails(j) ==
  /\ api[j].pc = "posted"
  /\ create[j].pc \in {"raised", "dead"} \/ "client_timeout" \in Faults
  /\ ApiTo(j, "err_load")
  /\ UNCHANGED <<dockerVars, fileVars, managerVars, watched, store, built, apiRestarts>>

ApiErrorLoad(j) ==
  /\ api[j].pc = "err_load"
  /\ api' = [api EXCEPT ![j] = [pc |-> "err_write", meta |-> meta[j]]]
  /\ UNCHANGED <<dockerVars, fileVars, managerVars, watched, store, built, apiRestarts>>

\* (Defect: the status written is none of the five the readers know.)
ApiErrorWriteUnknown(j) ==
  /\ api[j].pc = "err_write"
  /\ WriteMeta(j, [api[j].meta EXCEPT !.status = "error"])
  /\ ApiTo(j, "err_clean")
  /\ UNCHANGED <<dockerVars, staged, managerVars, watched, store, built, apiRestarts>>

ApiErrorWrite(j) ==
  /\ api[j].pc = "err_write"
  /\ WriteMeta(j, [api[j].meta EXCEPT !.status = "failed"])
  /\ ApiTo(j, "err_clean")
  /\ UNCHANGED <<dockerVars, staged, managerVars, watched, store, built, apiRestarts>>

\* (Defect: the error path forgets the values and leaves the files.)
ApiErrorCleanStoreOnly(j) ==
  /\ api[j].pc = "err_clean"
  /\ store' = store \ {j}
  /\ ApiTo(j, "failed")
  /\ UNCHANGED <<dockerVars, fileVars, managerVars, watched, built, apiRestarts>>

ApiErrorClean(j) ==
  /\ api[j].pc = "err_clean"
  /\ store' = store \ {j}
  /\ staged' = [staged EXCEPT ![j] = FALSE]
  /\ ApiTo(j, "failed")
  /\ UNCHANGED <<dockerVars, meta, managerVars, watched, built, apiRestarts>>

ApiStep(j) ==
  \/ ApiStage(j)   \/ ApiQueue(j)      \/ ApiPost(j)       \/ ApiReturns(j)
  \/ ApiStartFails(j) \/ ApiErrorLoad(j)  \/ ApiErrorWrite(j) \/ ApiErrorClean(j)

-----------------------------------------------------------------------------
(* The watcher, GET and cancel. *)

\* Polls job.json until the job has ended or its directory is gone.
Watch(j) ==
  /\ watched[j]
  /\ meta[j].status \in Terminal \cup {"absent"}
  /\ watched' = [watched EXCEPT ![j] = FALSE]
  /\ staged' = [staged EXCEPT ![j] = @ /\ meta[j].status = "absent"]
  /\ UNCHANGED <<dockerVars, meta, managerVars, api, store, built, apiRestarts>>

\* GET /api/deployments/<id> of an ended job removes its secret files.
ApiGet(j) ==
  /\ built
  /\ api[j].pc = "returned"
  /\ staged[j] /\ meta[j].status \in Terminal
  /\ staged' = [staged EXCEPT ![j] = FALSE]
  /\ UNCHANGED <<dockerVars, meta, managerVars, apiVars>>

\* POST /api/deployments/<id>/cancel: only a client that was told the id can
\* send it.  A terminal job is answered by the API alone.
ApiCancel(c, j) ==
  /\ built
  /\ cancel[c].pc = "idle"
  /\ api[j].pc = "returned"
  /\ meta[j].status \in Active
  /\ cancel' = [cancel EXCEPT ![c] = [NoCancel(j) EXCEPT !.pc = "load"]]
  /\ UNCHANGED <<dockerVars, fileVars, create, final, sweep, managerRestarts, apiVars>>

\* The manager has answered: drop the secret values.
ApiCancelReturns(c) ==
  /\ cancel[c].pc = "reply"
  /\ store' = store \ {cancel[c].job}
  /\ cancel' = [cancel EXCEPT ![c] = NoCancel(cancel[c].job)]
  /\ UNCHANGED <<dockerVars, fileVars, create, final, sweep, managerRestarts,
                 api, watched, built, apiRestarts>>

\* Any other request (the rate limiter lists running jobs before each new
\* deployment) constructs the manager's service if no request has yet.
ManagerRequest ==
  /\ sweep.pc = "off" /\ SweepEnabled
  /\ ServiceConstructed
  /\ UNCHANGED <<dockerVars, fileVars, create, final, cancel, managerRestarts, apiVars>>

-----------------------------------------------------------------------------
(* Restarts and the passing of time. *)

\* The manager's threads and the docker run clients, its children, are gone;
\* containers, networks and volumes stay.
ManagerRestart ==
  /\ "manager_restart" \in Faults
  /\ managerRestarts < MaxRestarts
  /\ managerRestarts' = managerRestarts + 1
  /\ create' = [j \in Jobs |-> IF create[j].pc \in CreateOver THEN create[j]
                               ELSE [NoCreate EXCEPT !.pc = "dead"]]
  /\ final' = [j \in Jobs |-> NoFinal]
  /\ cancel' = [c \in Cancels |-> IF cancel[c].pc = "reply" THEN cancel[c]
                                  ELSE NoCancel(cancel[c].job)]
  /\ client' = [j \in Jobs |-> IF client[j] = "live" THEN "lost" ELSE client[j]]
  /\ sweep' = NoSweep
  /\ UNCHANGED <<container, network, attached, volume, fileVars, apiVars>>

\* The API's memory and threads are gone.  What was staged stays until the new
\* process constructs its service.
ApiRestart ==
  /\ "api_restart" \in Faults
  /\ apiRestarts < MaxRestarts
  /\ apiRestarts' = apiRestarts + 1
  /\ api' = [j \in Jobs |-> IF api[j].pc \in ApiOver \cup {"none"} THEN api[j]
                            ELSE [NoApi EXCEPT !.pc = "dead"]]
  /\ watched' = [j \in Jobs |-> FALSE]
  /\ store' = {}
  /\ built' = FALSE
  /\ UNCHANGED <<dockerVars, fileVars, managerVars>>

\* No handler, thread or cancel is working on the job.
Quiet(j) ==
  /\ api[j].pc \in ApiOver
  /\ create[j].pc \in CreateOver
  /\ final[j].pc \in {"none", "done"}
  /\ \A c \in Cancels : cancel[c].job = j => cancel[c].pc \in {"idle", "reply"}

\* JOB_RETENTION_DAYS pass, longer than any handler or watcher lives.
RetentionPasses(j) ==
  /\ Quiet(j) /\ ~watched[j]
  /\ meta[j].status \in Terminal /\ ~meta[j].old
  /\ meta' = [meta EXCEPT ![j].old = TRUE]
  /\ UNCHANGED <<dockerVars, staged, managerVars, apiVars>>

-----------------------------------------------------------------------------
Next ==
  \/ \E j \in Jobs :
       \/ DockerStep(j) /\ UNCHANGED <<fileVars, managerVars, apiVars>>
       \/ CreateStep(j) /\ UNCHANGED apiVars
       \/ FinalStep(j)  /\ UNCHANGED apiVars
       \/ ApiStep(j) \/ ApiRejects(j) \/ ApiUnreachable(j)
       \/ Watch(j) \/ ApiGet(j) \/ RetentionPasses(j)
       \/ \E c \in Cancels : ApiCancel(c, j)
  \/ \E c \in Cancels : CancelStep(c) /\ UNCHANGED apiVars
  \/ \E c \in Cancels : ApiCancelReturns(c)
  \/ SweepStep /\ UNCHANGED apiVars
  \/ ManagerRequest \/ ManagerRestart \/ ApiConstructs \/ ApiRestart

Spec == Init /\ [][Next]_vars

\* Threads that have work take their next step, the daemon answers and time
\* passes.  That a workload ends by itself, that a client sends anything, and
\* that any fault or restart happens, is not assumed.
DockerAnswers(j) == ContainerComesUp(j) \/ ContainerFailsToStart(j)

Fairness ==
  /\ \A j \in Jobs :
       /\ WF_vars(DockerAnswers(j) /\ UNCHANGED <<fileVars, managerVars, apiVars>>)
       /\ WF_vars(CreateStep(j) /\ UNCHANGED apiVars)
       /\ WF_vars(FinalStep(j) /\ UNCHANGED apiVars)
       /\ WF_vars(ApiStep(j) /\ api[j].pc # "none")
       /\ WF_vars(Watch(j))
       /\ WF_vars(RetentionPasses(j))
  /\ \A c \in Cancels : WF_vars(CancelStep(c) /\ UNCHANGED apiVars)
  /\ \A c \in Cancels : WF_vars(ApiCancelReturns(c))
  /\ WF_vars(SweepStep /\ UNCHANGED apiVars)

FairSpec == Spec /\ Fairness

\* As FairSpec, when moreover some request eventually reaches a restarted
\* manager, some deployments request a restarted API, and every workload ends.
BusySpec ==
  /\ FairSpec
  /\ WF_vars(ManagerRequest)
  /\ WF_vars(ApiConstructs)
  /\ \A j \in Jobs : WF_vars(RunnerExits(j) /\ UNCHANGED <<fileVars, managerVars, apiVars>>)

-----------------------------------------------------------------------------
(* Properties. *)

IsTerminal(j) == meta[j].status \in Terminal

\* Nothing of the job is left on the host.
Released(j) ==
  /\ container[j].state = "none"
  /\ ~network[j] /\ attached[j] = {}
  /\ volume[j] = NoVolume
  /\ ~staged[j]

\* A cancel that has stopped the runner has stopped it for good: from the stop
\* to the answer, whatever the other handlers and the daemon do meanwhile, the
\* job has no container.  Milestones.md: "reliably stops the deployment".
StoppedPc == {"disconnect", "rmnet", "write", "clean", "rmvol"}
CancelStops ==
  \A c \in Cancels : cancel[c].pc \in StoppedPc =>
                        container[cancel[c].job].state = "none"

\* Secrets are copied only into a volume created with the tmpfs options, never
\* into one that docker run created on disk because the name was free.
SecretsOnTmpfs == \A j \in Jobs : volume[j].seeded => volume[j].kind = "tmpfs"

\* When a job has ended and no handler works on it any more, its create, its
\* finalizer and its cancels, in whatever order they ran, have between them
\* removed everything, without the help of the sweep.
ReleasedWhenQuiet == \A j \in Jobs : IsTerminal(j) /\ Quiet(j) => Released(j)

\* The status of every job follows the abstract life cycle: no write of a stale
\* copy of job.json brings an ended job back to "running".
Lifecycle == INSTANCE JobLifecycle WITH status <- [j \in Jobs |-> meta[j].status]
FollowsLifecycle == Lifecycle!Spec

\* While the manager does not restart, a running job ends, whichever of
\* finalizer, cancel or API writes the end.
RunningEnds ==
  [](managerRestarts = 0) => \A j \in Jobs : meta[j].status = "running" ~> IsTerminal(j)

\* A job that stays ended is in the end released, by its own handlers or, when
\* a crash or a race left something behind, by the sweep and its retention rule;
\* a job that died before its job.json, by the API's next construction.
EndedIsReleased ==
  \A j \in Jobs : <>[](meta[j].status \in Terminal \cup {"absent"}) => <>[]Released(j)

\* The staged secret files of an ended job are removed by its handlers or its
\* watcher, or, when the API died before its own clean-up, by the first
\* deployments request its successor serves; they do not wait for the retention
\* sweep.  Only when both processes have restarted may they.
UnstagedBy ==
  \/ apiRestarts = 0
  \/ managerRestarts = 0 /\ built
EndedIsUnstaged ==
  UnstagedBy => \A j \in Jobs : meta[j].old => ~staged[j]
=============================================================================
