# Infinito Deployer: a formal model

This directory specifies and checks what is concurrent in the Infinito Deployer (the
repository's `src/`). The first part is the deployment job: accepted by the API, started by the
runner-manager, run in Docker, canceled, ended and cleaned up. The second is the workspace page
with the requests it sends: everything in it happens while answers are on their way. The modules
are TLA+. TLC checks them on small instances; TLAPS proves their safety properties for instances
of any size. Line numbers of the job part are those of the sources in `src/apps/api`, abbreviated:

| short | file |
|---|---|
| `RT` | `services/runner_manager_service_runtime.py` |
| `SW` | `services/runner_manager_service_sweep.py` |
| `CR` | `services/job_runner/container_runner_runtime.py` |
| `RN` | `services/job_runner/runner.py` |
| `JR` | `services/job_runner/job_runner_runtime.py` |
| `JW` | `services/job_runner/job_runner_workspace.py` |
| `CL` | `services/runner_manager_client.py` |

## 1. Inventory

The API is a FastAPI process whose synchronous handlers run in a thread pool. A second
process, the runner-manager, is the only one that may talk to Docker. They share a state
directory: `workspaces/<id>/...`, `jobs/<id>/job.json`, `jobs/<id>/secrets`. A JSON file is
written by rename (`persistence.py`), so a reader sees one whole version, but a handler that
changes a file reads it, changes its copy and writes it back, and takes no lock.
A missing or damaged file reads as `{}`. The page is one React tree; handlers, effects of a
rendering and what follows an `await` run without interruption, and in between anything else runs.

| component | state | operations | hard behaviour | correct when |
|---|---|---|---|---|
| Runner-manager lifecycle (`RT`, `SW`) | `job.json`; a finalizer thread and a `docker run` client per job; the sweep thread | create, cancel, finalize, sweep | unlocked rewrites of `job.json`; failure half way through a start; restart; a sweep that acts on what it read earlier | a cancel stops the runner for good; an ended job stays ended and leaves nothing behind; a running job ends |
| Docker adapter (`CR`, `RN`) | containers, networks, volumes, attached services | the docker calls | refused and failing calls that are swallowed | the order of calls makes refusals harmless |
| API job runner, managed (`JR`, `JW`) | `_secret_store`, watcher threads, staged secrets | create, get, cancel, watch, purge when the service is constructed | 30 s client timeout against a manager still at work; restart during a start; a service that only the first deployments request constructs | what it says of a job agrees with the manager; secrets are dropped |
| Workspace metadata, access control | owner, members, invitations | invite, claim, remove, transfer, rename, delete | some rewrites take no lock; the owner is looked up before it | one owner, no address twice; no decision is undone |
| Workspace history | a git work tree per workspace | write, commit, list, restore | a failing commit; a restore beside a write; a renamed file is not validated | a secret is committed only as a renamed file; nothing stays staged |
| Vault, credentials | vault, keys, encrypted blocks | reset, rotate, show, change, generate, make and change a key, set entries, restore | rotation rewrites files one after another; a key is replaced before the master password is checked; git has blocks and keys but no vault | the passwords that are kept open what they are kept for |
| Artifacts and zip | files | preview, import, upload | one request per file; a modal that outlives its workspace | only what was asked for is replaced |
| Audit log | bounded queue, worker, cached settings, database | enqueue, flush, query, configure | full queue, failed batch, stale cache | every event is in exactly one place; the cache is that of the row |
| Orders, domains, inventory, role settings | one document per request | edit | unlocked read and write, from several pages | no lost change, a status follows its order |
| Workspace selection | URL, open workspace, file tree | open, select, create, delete | overlapping operations, each with several awaits; file operations list the workspace they began in | all three are of one workspace |
| File editor, leave guard, KeePass view | text, dirty flag, queue of one leave | type, save, autosave, leave, unlock | typing while a save runs; answers of a file that is closed | what looks saved is saved; nothing typed is lost |
| History dialog | scope, selected commit and mode | select | lists and diffs in any order | the difference is of the selection |
| Servers and inventory sync | servers and roles three times: page, browser storage, inventory | toggle, rename, delete, purge, switch | five effects that read and rewrite the inventory and run only when something is rendered | page and inventory settle on the same; what is purged stays out |
| Device dialog | connection fields, keys | type, generate, color | saves overtake each other | what is shown is stored |
| Deploy tab, live view | selection, request keys, stream | start, attach, cancel | effects that take a change for a request | a device is marked as deployed only if it was |
| Users tab, users overview | rows, timer, poll; a draft | edit, undo, import, save | debounced save, poll, switch | an edit reaches its file; no user is dropped |
| Domains tab | entries, default domain | add, order, check, attach | the page rewrites the whole list while the API, for this page or an administrator's, moves one entry | the status moves along its life cycle |
| Software tab | filters, buttons, editor and forms | filter, enable, disable, edit | effects at the first rendering; timers; late answers | a reload keeps the filters; a button comes to rest; an editor shows its role |
| Page frame | session, tab, mode in URL and storage | sign in, out, switch | three readers of one session | they agree |
| Orders and billing | cart, quotes, drafts | order, quote | late quotes, a switch while an order is sent | the bill is of the cart; orders stay in their workspace |
| Not modelled | local job runner, log hub, rate limits, server users, role index, versions, price computation, scripts | – | – | see section 6 |

`PROJECT.json` lists the components with their sources and status, and every hazard of
the code with its line.

## 2. Modules

| module | models |
|---|---|
| `DockerHost` | the daemon: per job a container, its `docker run` client, network, attached services, volume; the effect of each call with its refusals; containers that come up, fail to start or exit by themselves |
| `RunnerManager` (extends it) | the manager: create, cancel, finalizer, sweep, one action per read of `job.json`, write of it and docker call |
| `ManagedJobs` (extends it) | the API process composed with the manager; restarts of either; time passing; fairness; the properties |
| `JobLifecycle` | abstract: what a job promises to whoever watches its status |
| `JobClaims` | requirements of `docs/requirements` that the code does not keep |
| `CancelOrder` | the inductive invariant behind `CancelStops` |
| `WorkspaceSelection` | which workspace the browser has open |
| `FileEditor`, `KdbxView` | the editor with autosave and leave guard; the view of KeePass files |
| `WorkspaceVault` | master password, vault password, passphrase, blocks, in page and API |
| `BulkFiles` | import of a zip with a mode per file; cleanup of orphaned host_vars |
| `WorkspaceHistory`, `HistoryPanel` | writes and restores in the API's threads; the dialog |
| `WorkspaceMembers` | metadata requests of page, account hub and other users |
| `PageShell` | session, tab and mode in URL, storage, header, Settings tab and panel |
| `CustomerOrders` | cart, quotes, drafts, orders of apps and servers |
| `AuditLog` | settings, cache, queue, worker and panel of the audit log |
| `InventorySync` | servers and roles in page, storage and inventory, with the effects between them |
| `LiveDeployment` | Deploy tab, live view and jobs |
| `UsersTable`, `UsersOverview` | the two editors of the users in `group_vars/all.yml` |
| `ServerDetails` | connection and keys of a device |
| `WorkspaceDomains` | catalog of domains in page, file and API |
| `RoleConfig`, `SoftwareFilters`, `SoftwareSelection` | the settings of a role; filters and their URL; the enable buttons |
| `MCManagedJobs`, `MCFileEditor`, `MCWorkspaceHistory`, `MCWorkspacePage`, `MCWorkspaceServers`, `MCInventorySync` | instances for TLC. A composed one looks at one of its parts per behaviour (variable `part`). What other parts of the page do to the same file is an action of the part itself (`WriteByOthers` and the like) |
| `*_proofs` | the theorems of section 5 |

### How the state of a job corresponds to the code

* `meta[j]` is `job.json`. The model keeps `status`, whether pid and container id are
  recorded (`cid`; one write sets both, except that the write of `failed` after a failed
  seeding sets the container id only, and no decision about an ended job uses the pid), whether `secret_volume_name` is (`vol`), the recorded
  `targets`, and whether `finished_at` is past the retention period (`old`). `"absent"` stands
  for a missing file. Every handler that rewrites the file carries the copy it read
  (`create[j].meta`, `final[j].meta`, `cancel[c].meta`, `api[j].meta`), because that copy is
  what it writes back.
* `staged[j]`: `jobs/<id>/secrets` exists. `store`: the keys of `_secret_store`.
* `create[j]`, `final[j]`, `cancel[c]`, `api[j]`, `sweep`: one record per handler or
  thread. `pc` names its next step, the other fields are its local variables.
  `create[j].fault` says which of the three `except` blocks of `create` it is in
  (`RT:92-101`, `RT:111-127`, `RT:136-204`).
* `client[j]`: the `docker run` process. `"lost"`: it was a child of a manager that
  restarted. `container[j].state = "starting"`: `docker run` has been launched and the
  container is not there yet, the window in which `docker stop` finds nothing.

### How actions correspond to the code

One action is one access to shared state with the local work up to the next one; a
helper that the code calls in the middle (cleanup of the secrets, disconnect, removal of the
network) is a step of the handler, in the code's order. Refusals that the code swallows are
part of the call: `RemoveNetwork` keeps a network that has endpoints, `RemoveVolume` keeps a
mounted volume after its five seconds of retries, `StopContainer` of a container that is not
there does nothing.

What is left out of a step is data: composing inventory and command line, log
lines, timestamps other than retention, labels, authentication of the manager's requests
(they are refused or not, before anything changes), and the legacy ssh-egress sidecars the
sweep still removes and no code creates. The sweep's reading of the job files is one
step: jobs are independent, so reading them at different times equals other interleavings of
the jobs' own steps. `WriteMeta` and a removal of a directory tree are single steps.

The sweep. The constructor of the manager's service sweeps once before the first
handler runs, then starts the thread that sweeps at intervals. The model starts the thread
only, whose first sweep may run beside the request: that is the periodic sweep
of a service some earlier request constructed (`ManagerRequest`). Not modelled: a `docker ps`,
`network ls` or `volume ls` that fails, which makes that pass skip the list, and an exception
that ends the sweep thread.

Restarts. `ManagerRestart` loses handlers, finalizers and clients, and keeps Docker's objects
and the files. `ApiRestart` loses handlers, watchers, `_secret_store` and the service itself. Nothing constructs
the next one at start-up: `_jobs()` is a lazy singleton (`api/routes/deployments.py:34`), and
`ApiConstructs` is the first request under `/deployments`, of whichever job and client. Its constructor runs
`_purge_orphaned_secret_material` (`JW:51`); the other handlers need `built`. The purge probes a
pid recorded by another container, so its answer for a running job is arbitrary. Not modelled: the
singleton's cache takes no lock around its call, so that two first requests at the same moment
construct two services.

### How the page corresponds to the code

* A module has the React state its properties speak of as variables, with the code's names where
  they were free. State of other components that it only reads is chosen once or changed by
  actions of its own.
* An action is a handler, an effect, a timer, or what follows an `await`, up to the next one, with
  the effects of the rendering it causes where they run before anything else can.
* A request is a record: what it asks, what its closure captured, and the state of its answer.
  The API applies it (`Serve...`, `...Written`, `PutApplied`) and the page goes on with the answer
  (`...Answered`) in two steps, so any two requests overtake each other on both ways. Requests
  fail where the code has a path for it; a refusal is an answer of its own.
* `HistorySpec`, `MembersSpec` and the API half of `WorkspaceVault` and `AuditLog` have the steps
  of the API's threads instead: what is read before a lock, under it, and after it.
* A text, a content or a file is a number or a model value. YAML, JSON and URLs are what they
  hold: `Parsed` keeps the status of a domain, `YamlMap` has one entry for two rows of one name,
  `Read` of the URL drops what it cannot name.
* Several variables only remember what happened, for the properties: `meant`, `written`, `asked`,
  `gone`, `wanted`, `deployed` of which job, and the flags that say that one of the orders
  the code does not master has happened (`torn`, `mixed`, `moved`, `raced`, `outlived`, `lossy`,
  `strayed`, `adrift`, `loose`, `tangled`, `amiss`, `crossed`, `overlapped`, `disturbed`, `revived`,
  `stray`, `editMixed`, `rowsOvertaken`, `excused`, `outdated`, `renamed`, `lost`, `missed` in what the page
  has `seen`, and `Late(w)`, a tree that is not of the open workspace). Section 4 says what they stand for. No action of the code is guarded by them.

## 3. What the runs check

Each constant `Faults` names the faults an instance of the job part may meet: `client_timeout`
(30 s at `CL:30`), `connect` (attaching a target fails), `docker` (any docker call of a
start fails), `inspect` (`docker inspect` fails in a sweep), `manager_restart`,
`api_restart`, `request` (a request refused after `job.json` is written).

| run | instance | shows |
|---|---|---|
| `jobs_safety` | all faults, sweep, two cancels, one target, one restart of each process | `TypeOK`. `CancelStops`: between a cancel's stop and its answer the job has no container, although the create handler launches containers asynchronously. `EndedIsUnstaged`: secrets are gone long before retention, by a handler or by the first deployments request a restarted API serves, unless the manager has restarted too |
| `jobs_release` | API restarts and refused requests, no sweep, two targets, two cancels | `ReleasedWhenQuiet`: whatever the interleaving of finalizer, cancels, watcher and readers, an ended job on which nobody works has left no container, network, attachment, volume or staged secret. `SecretsOnTmpfs`. `FollowsLifecycle`: under `status[j] <- meta[j].status` the unlocked rewrites of `job.json` implement `JobLifecycle` |
| `jobs_reclaim` | all faults, no target, under `BusySpec` | `RunningEnds`; `EndedIsReleased`: what races and crashes leave behind is in the end removed by the sweep and its retention rule |
| `web_page` | six parts: selection, Deploy tab, users, overview, device, domains | `SelectionAgrees`, `DeployedUnlessMixed`, `LiveViewFollows`, `EditsReachFile`, `SavedUsersKept`, `DetailsAgree`, `StatusFollowsOrder` |
| `web_editor` | four parts: editor, KeePass, vault, bulk | `CleanMeansSaved`, `LeaveKeepsEdits`, `AutosaveEventually`, `EntriesOfUnlocked`, `PasswordsOpen`, `BulkAsAsked` |
| `web_history` | six parts: history in the API, dialog, members, frame, orders, audit | `SecretsOnlyRenamed`, `NothingLeftStaged`, `DiffIsOfSelection`, `AddressesUnique`, `DecisionsKept`, `ShellAgrees`, `OrdersAgree`, `AuditAgrees`, `PanelShowsItsQuery` |
| `web_servers` | four parts: sync, role settings, filters, selection | `PurgedStaysOut`, `RoleConfigAgrees`, `FiltersSurviveReload`, `ButtonSettles`, `SelectionConverges`, `RemovalsDrain` |
| `claim_*` | see section 4 | one requirement each that the code does not keep |

Each composed run has one invariant of types besides (`PageTypeOK`, `PanelTypeOK`,
`HistoriesTypeOK`, `ServersTypeOK`). The comment before each property says what it means and
names the code; `PROJECT.json` relates them to the hazards.

Every property has a mutant in `PROJECT.json`: a variant of one mapped definition, next to it
and marked `(Defect: ...)`, under which TLC finds that property violated in the same run. No
specification uses these variants.

### Bounds

One job (`Jobs = {j1}`): job ids are fresh, each job has its own files and Docker objects, and
the only shared state is the sweep's lists, which are used per job, and the cancel slots. Two
cancels let one act on what the other changed; more would repeat the second. Two targets let an
attachment fail with one made before; one suffices where the partial list does not matter.
Without targets (`jobs_reclaim`) a known loss is out of the way: when the second of two
attachments fails, `create` never received the list of the first (`RT:90`), disconnects nothing,
and its network stays for ever. `MaxRestarts = 1` per process: a second restart meets a state
that one restart or none can also leave, as far as `job.json` and Docker go.

In the page modules one constant per module bounds what the user does (`MaxActs`, `MaxClicks`,
`MaxSteps`, ...: two to five actions) and another, where several may be under way, the requests
(`Slots`, `OpSlots`, `MaxLoads`, ...). Answers, timers and effects are not bounded. Two workspaces
are enough for an answer to come in the wrong one and for the way back; two names, files, devices
or domains for one to be taken for the other. `ServerDetails` has one device and
`WorkspaceDomains` one device per workspace, as part of the model.

The bounds are small, but each property still says something of the code within them: every
action fires, and the mutant of every property is found. With two edits in `UsersTable`,
where opening the tab is one, or three steps in `ServerDetails`, where opening the dialog
and choosing the method are two, the mutants of `EditsReachFile` and `DetailsAgree` would
not be. (`MaxInputs = 5` is four steps, for the first value is that of the file.) `SmallSpec` of
`web_page` is `Spec` from fewer initial states: `SmallInit` leaves out the mirror image of each state
of `ServerDetails`, whose aliases are interchangeable, the workspaces without a `group_vars`
file, which the page meets anyway when others have deleted it, and some of the catalogs
`WorkspaceDomains` may start from. `Init` of `web_history` lets the files that are there hold one
content at first; writes bring the others.

Larger instances were checked once, with no error: `WorkspaceHistory` with four requests (6.6
million states), the invariants of `WorkspaceVault` with four actions of the user (2.1 million),
`InventorySync` with two failures (300 thousand, liveness included), `FileEditor` with three commands besides typing and
saving (1.45 million), and the parts for the Deploy tab, the overview, the members, orders, frame
and role settings with one more action each. Where the theorems of section 5 need an invariant, it
was model-checked as an invariant first (up to 15 million states). The theorems hold for every
bound, and those of the page are about `Spec`.

`CHECK_DEADLOCK FALSE` is set where the system may rest: a released job without sweep, and a page
whose user does nothing more.

### Fairness

`FairSpec` assumes weak fairness of every thread that has work (`CreateStep`, `FinalStep`,
`ApiStep` once begun, `Watch`, `CancelStep`, `ApiCancelReturns`, `SweepStep`): operating
system threads, none of which waits for a lock. It also assumes that the daemon answers
(a launched container comes up or fails) and that time passes for retention. `BusySpec` adds
that workloads end, that some request reaches a restarted manager, for the first
request constructs the service and starts the sweep (`manager_main.py:14`), and that some
deployments request reaches a restarted API, for it constructs the service that purges. Neither assumes
that a client sends a cancel or a read, or that any fault or restart happens. `_wait_and_finalize`
blocks on the client process, which the model lets exit only when its container ends, fails or is
stopped, or a signal reaches it.

`EditorFairness`: requests are answered, the autosave timer fires if it is set again and again
(strong fairness: typing sets it anew), and a save that is repeated is not refused for ever.
`SyncFairness`: a change of state is rendered (`RenderDue`), and what an effect has begun goes on
when its answer is there. Nothing is rendered because a ref changed: an effect that finds
`autoSyncRef` set returns, and if the run that set it changes no state, none comes after it. The other page modules have safety properties only and assume nothing.

## 4. What the code does not keep

Each of the `claim_` runs has one property that quotes a requirement, and TLC finds a behaviour of
the code that violates it.

* `claim_timeout` (`CL:30`). The API posts the job; the manager starts the container and
  waits for it, up to 30 s, then seeds it. The client's timeout is 30 s too. The
  API writes `failed` and removes the secrets, the manager goes on to write `running`; the
  ended job has a runner for as long as its workload lasts, and its client was told it failed.
* `claim_tmpfs` (`SW:502`). No fault at all: a sweep reads the active jobs, then a job is
  queued and its tmpfs volume created, then the sweep lists volumes, finds one that belongs
  to no active job and removes it before the container mounts it. `docker run -v` makes a
  volume of that name with default options, and the secrets are copied to disk.
* `claim_leave` (`useUnsavedChangesGuard.ts:96`). *Save and leave* is canceled while it saves,
  more is typed, another leave is queued; the end of the first save runs that one.
* `claim_secret_history` (`history/restore.py:98`). A restore empties the files without the lock
  while a write has a secret staged; the write is validated against the empty files.
* `claim_scoped` (`useWorkspaceSelectionStorage.ts:85`). When another workspace is opened, the
  selection of the one before is stored, and pushed, under the new one.

`SecretsOnTmpfs` holds in `jobs_release`, which has no sweep, and is violated in
`claim_tmpfs`, which has one: the sweep is the only cause. `GuardPreventsLoss` is
`LeaveKeepsEdits` without its exception `outlived`.

Known to the models of the job part besides: after a manager restart the job whose finalizer died
stays `running` and the sweep keeps what belongs to it (`SW:66`); a request that is refused after
`job.json` is written leaves the job `queued` (`JR:105`); the entry of `_secret_store` of a job
that ended by itself stays until the API restarts (`JW:45`); the staged secrets of a job whose API
died before its clean-up stay until somebody sends the new one a deployments request, past retention
if nobody does.

The properties of the page name their exceptions, and each exception is an order of events the
code lets happen. They are worth knowing:

* *Selection, editor.* A creation overtaken by a selection leaves URL, panel and tree apart.
  A save, a creation, a rename, a restore and every other file operation lists the workspace it
  began in (`editor.ts:226`, `files.ts:186`, `:234`, `:264`, `:302`, `:337`, `useWorkspaceHistory.ts:206`,
  `:262`, `useWorkspaceUsers.ts:457`) and shows that tree, whichever workspace is open by then, until
  the next one is opened.
  `saveFile` clears the dirty flag whatever was typed meanwhile (`editor.ts:199`), and any save
  that ends clears the flag that one is running.
* *Vault.* A rotation does not reload the open file: a later save brings back blocks nobody can
  decrypt, and the next rotation is refused there. A failure half way leaves rewritten files
  under a password nobody has. A failing commit answers an error although the password is changed.
  `generate_ssh_keypair` replaces the key before it opens the vault (`security.py:275`): with a wrong
  master password the old key is gone and nothing has the passphrase of the new one. `set_vault_entries` stores the passphrase that is typed, right or wrong, and a vault password
  without re-encrypting anything. A commit from before a rotation brings back blocks and keys of
  passwords the vault no longer has, and restoring a whole workspace removes `credentials.kdbx`, which
  git excludes unless `WORKSPACE_HISTORY_INCLUDE_KDBX` says otherwise (the model has it excluded). The prompts of
  the device dialog and of a deployment remember a master password before anybody has checked it.
* *History.* A write that is refused for a secret leaves the secret in the file. If that file is
  then renamed, or a removed one is similar to it, git takes it for a renamed one, which
  `--diff-filter=AM` does not list (`history/main.py:176`): nothing is validated, and the secret is committed. The
  model lets git pair any added file with any removed one, and equal contents always.
* *Import, cleanup.* Lists and modals outlive the workspace and the inventory they were made from:
  items of one are deleted in another. After a failed deletion the retry stops at the first file
  that is already gone. Cleanup, purge and rename look for keys in `secrets/ssh_keys`, the API
  keeps them in `secrets/keys`.
* *Members.* Claim, state change and rename rewrite the metadata without the lock the others take;
  the owner is looked up before the lock, so that a request is carried out for somebody who no longer is it
  (no document says it must not; a hazard no property covers).
* *Frame.* With `?user=` in the URL the panel writes the session back at every synchronisation.
* *Orders.* Leaving the Order tab resets the flag against a second order; what is ordered for one
  workspace appears in whichever is open at the answer.
* *Audit log.* The settings are cached without an end: two updates may be cached in the opposite
  order. A batch that cannot be inserted is lost, an event that meets a full queue is inserted out
  of order. Saving before the settings are loaded writes those of another workspace.
* *Servers.* A purge beside a run that rewrites the inventory is undone by it; so is one whose
  queue entry was lost by a switch there and back, or that a waiting rename to the same alias
  follows. A workspace with a late file list is taken to have an inventory.
  A role that is toggled while a push or pull is under way is pushed by a later rendering, if there
  is one: the effect returns at `autoSyncRef` (`useWorkspacePanelSyncEffects.ts:158`, `:201`), and a pull
  that finds nothing changed sets no state (`sync.ts:268`).
* *Device dialog.* Saves overtake each other after 75 ms; Escape drops the edit; a color rewrites
  the whole host_vars from an earlier read; a rename leaves key and passphrase behind.
* *Deploy tab.* Switching the workspace sets the request keys to 0, which a mounted live view takes
  for a request: if Cancel had been pressed before, it cancels the running job. One reference
  remembers the selection of the deployment started last and is consumed by any job's success.
* *Users tab.* An edit undone within half a second is still written; leaving the tab loses the
  last one. The answer of a password encryption that comes after a switch there and back, or
  after the content was loaded anew, patches other rows; a poll answered while a save is pending shows
  old rows, and an import then overwrites the save. The overview saves its draft into the
  workspace that is open by then.
* *Domains.* The page writes its list as it was at the click, while the API moves a status. An order becomes
  active or failed on an administrator's page (`domains.py:50`); the customer's page does not hear of it, and its next
  save of the list takes the domain back to ordered. After
  a failed load the next save erases the catalog.
* *Role settings.* The editor takes any answer, also one to what an earlier editing of the same role
  asked for, and is unlocked by it. The forms drop an edit when the server is changed within 300 ms.
* *Overtaken answers.* A KeePass file whose download was overtaken shows entries of another one, and the history
  dialog the difference of another version: the code compares nothing when the answer comes.
  `EntriesOfUnlocked` and `DiffIsOfSelection` excuse exactly these, so the two hazards stand in
  `PROJECT.json` without a property.
* *Filters, buttons.* A status filter of the URL is lost when roles are not there yet; a
  confirmation after the item was deselected leaves the label "Disable".

## 5. What is proved

Every safety property of the passing runs, the type invariants of the composed instances
included, is a theorem, for any sets of jobs, targets, cancels, workspaces, users,
files, devices and requests, and without the bounds' being small. The assumptions are the named `ASSUME`s of the
modules (a model value for "none" is not a member, finite sets where the code counts them, bounds
are natural numbers) and the hypotheses in the statements.

| module | theorems |
|---|---|
| `ManagedJobs_proofs` | `TypeCorrect` (`TypeOK`), `OrderCorrect` (`StopInv`), `CancelCorrect` (`CancelStops`) |
| `JobResources_proofs` | `TmpfsCorrect` (`SecretsOnTmpfs`), `EndedFilesAreRemoved` (`EndedIsUnstaged`), `HandlersRelease` (`ReleasedWhenQuiet`) |
| `FollowsLifecycle_proofs` | `LifecycleCorrect`: the refinement `FollowsLifecycle`; `JobsNeverComeBack`: what it comes to for whoever polls a job |
| `WorkspaceHistory_proofs` | `NothingStaysStaged`, `SecretsAreInRenamed` (`SecretsOnlyRenamed`), `DiffStaysOfSelection`; of the composition `HistoriesAreTheirParts`, `HistoriesKeepTypes` (`HistoriesTypeOK`), `HistoriesKeepPromises` |
| `PanelFiles_proofs` | `EntriesAreOfTheOpenFile`, `BulkDoesAsAsked`, `CleanTextIsSaved`, `LeavingKeepsEdits` (an action property), `PasswordsStayOpen`; of the composition `PanelIsItsParts`, `PanelKeepsTypes` (`PanelTypeOK`), `PanelKeepsPromises` |
| `SettingsTab_proofs` | `AddressesStayUnique`, `DecisionsAreKept`, `ShellStaysAgreed`, `OrdersStayAgreed`, `AuditStaysAgreed`, `AuditPanelShowsItsQuery` |
| `DeploymentPage_proofs` | `SelectionStaysAgreed`, `MarkedWasDeployed`, `LiveViewStaysAgreed`, `EveryEditReachesItsFile`, `DialogShowsFiles`, `SaveKeepsOtherUsers` and `OrderOfADomain` (action properties); of the composition `PageIsItsParts`, `PageKeepsTypes` (`PageTypeOK`), `PageKeepsPromises` |
| `WorkspaceServers_proofs` | `RoleShowsItsConfig`, `FiltersComeBack`, `ButtonsComeToRest`, `PurgedServersStayOut`; of the composition `ServersAreTheirParts`, `ServersKeepTypes` (`ServersTypeOK`), `ServersKeepPromises` |

A theorem about one page module is first of all about that module's own specification
(`LiveSpec`, `UsersSpec`, ...). The composed instances, which the runs check, take one step of one
part at a time and leave the others alone, so each of their behaviours is one of every part's
specification (`...AreTheirParts`, `...IsItsParts`), and what is proved of the parts holds of the
composition (`...KeepTypes`, `...KeepPromises`). Nothing of it rests on fairness: where a part's
specification states some (editor, sync), the safety theorems are about `Init /\ [][Next]_vars`.
Two hypotheses remain in the statements, `Shops # {}` and `AuditSpaces # {}`: the order tab and the
panel of the audit log open on some workspace.

### The types

The type invariants are proved beside the invariants of the properties, which already type
whatever their argument needs; what is left for each part is one more invariant of its steps
(`...Rest`). Some of them are more than bookkeeping.

* *Selection.* An operation is a full record, one that opens the page has a candidate left while it
  asks for one, and a creation names the workspace that it made, so no reply is applied to a name
  that is not there.
* *Users tab.* The rows stay a list, without gaps, whatever is edited, renamed, removed or imported.
* *Audit log.* Queue and batch never grow past their sizes, and at most one load of the panel is live.
* *History dialog.* The commit it selects is one of the log: `Newest` of a scope is one of its commits,
  since a nonempty bounded set of numbers has a greatest element (by the well-foundedness of `<`,
  from the library).

They changed the models in two places. `MaxCommits` has to be positive, as the log starts
with the commit of the workspace's creation. And neighbouring tabs of the page frame are now
related by what lies between them (`Adjacent`) instead of by positions in a filtered sequence.

### The job

For any `Faults`, with or without the sweep and for any `MaxRestarts`, unless said otherwise.
`TypeOK` is inductive as it stands. There is one lemma per process, with a case per action: it
types the variables the action assigns and frames the others.

`CancelStops` alone is not inductive: a state in which a cancel has stopped the runner and the
create handler is about to launch it satisfies it. Only the create handler launches a
container, so the argument is in two parts.

1. *No cancel runs beside the create handler of its job.* A cancel can only be sent by a
   client that knows the job id, which is in the answer to `POST /api/deployments`, which
   the API gives when the manager has answered (`Order`).
2. *A cancel does not find the container half started, and knows it.* `create` waits for
   the container before it publishes the job, but only when there are secrets to copy
   (`RT:129`). There are: the API stages the directory before it posts, and until the
   manager reads `job.json` nobody removes it: the status is still `queued` (`FreshFiles`).
   Hence `MountsSecrets`, hence `NotStarting`; and `running` is only ever written together with
   the container id (`RunningIsPublished`), hence `CancelKnows`.

The API restart and the client timeout are the delicate cases: both break the second part
for a job that is being started, and the invariant survives because such a job is never
returned to a client, so nobody can cancel it. A lemma `...Shape...` per process states what any
of its steps does to the state the invariant speaks of, and a lemma `...Keeps` derives
that the invariant is kept.

* `TmpfsCorrect`: `SweepEnabled = FALSE => (Spec => []SecretsOnTmpfs)`. `CreateSeed` copies into
  whatever volume there is; `TmpfsInv` adds that from the step that creates it until the
  step that removes it the volume of a handler with secrets is a tmpfs (`VolumeReady`). What could
  remove it in between is the job's own finalizer or a cancel, which `Order` places after
  the handler, or the sweep, which the hypothesis excludes and `claim_tmpfs` shows to be the culprit.
* `EndedFilesAreRemoved`: `UnstagedInv` says for every stage of a job who still has to remove
  its staged files, watcher, create handler, finalizer or reader, or the service that is not yet
  constructed, and that at retention nobody has to, unless that service is still to come.
* `HandlersRelease`: `HandlersSuffice => (Spec => []ReleasedWhenQuiet)`. `ReleaseInv` says what of
  a job's Docker objects each handler still has to remove, and that the copies of
  `job.json` in finalizer and cancels name them (`Records`). `HandlersSuffice` excludes the sweep and four faults under which
  the property is false: a start that fails half way at `docker` or `connect` and has lost
  the list of what it attached; a manager restart, which loses the finalizer; and the client timeout, after
  which the API's error path overwrites `job.json` with its older copy, so that the finalizer
  does not know targets and volume. Without the excluded faults nothing is left to the sweep.
* `LifecycleCorrect`: `"client_timeout" \notin Faults => (Spec => FollowsLifecycle)`, where
  `FollowsLifecycle` is `JobLifecycle!Spec` with `status[j] <- meta[j].status`. A handler writes a
  status it decided from an old copy of `job.json`, so the refinement needs to know who else may
  have written since. `LifeInv` says so: until the create handler has written a status the job is
  `queued`, and until it is over `queued` or `failed` (`CreateAlone`); the error path of the
  API only runs when that handler is over without having published the job (`ErrorAfterCreate`; here
  the client timeout would break it); nobody works on a job past retention
  (`OldIsQuiet`), so no write recreates a removed job. Each action is a `LegalMove` of one job, the
  retention sweep an `Expire`, and everything else a stutter. `JobsNeverComeBack` reads off the
  abstract life cycle what it means: an ended job stays ended until it is forgotten, a running one
  is never queued again, and none runs that was not accepted.

### The page

The inductive invariants have one form. Unless the flag is set that says an unmastered order
has happened, they tie each request that is still on its way to the state it was asked in: an answer
either is for what is shown now, or will be ignored, or its arrival sets the flag. Where the
flags only grow, it is enough to look at steps after which they are still unset.

* *History.* While a thread holds the lock, the index is the last commit plus what it has staged;
  the restore that runs beside it is what the flag `overlapped` excludes. Once a request is validated
  each secret it has staged is in a file that is in `renamed`.
* *Editor.* Each text under way in a save is one that was typed, and a text that counts as saved is
  in `written` or is the one a save is carrying; the queue of a leave is only run by a save of what is shown, or
  of a queue it outlived.
* *Vault.* For every file, key and session: the password that opens it, and who is changing it. The
  request that holds the lock has opened the vault that is there, unless a restore has removed it
  since; a file its rotation has visited has a block of the new password, or is in `lost`.
* *Members.* Every copy of the metadata a request holds has no address twice; under the lock the
  copy is the file, unless a rewrite without the lock crossed it.
* *Audit log.* Every event that is to be logged is in exactly one place: queue, batch, on its way
  past a full queue, table, or lost; every reader, load and update of a workspace holds its row, unless
  the row was changed under one of them (`disturbed`).
* *Users tab.* For every workspace, `meant` is what the file holds, or a timer or a save that is not
  overtaken still carries it; rows of the open workspace are those of its document.
* *Device dialog.* All saves that no later one replaces carry the same connection, the one that
  was typed last. This part was found when the first invariant, which held on the instance, turned out
  not to be inductive.
* *Selection.* The tree is empty, of the open workspace, or the late listing of another one; a file
  operation keeps the workspace it began in and touches nothing else.
* *Domains.* In a workspace where nothing crossed and whose copy is not out of date at most one catalog request is under
  way, the page lists every domain of the file with its status, and what a request will write leads on from it.
* *Deploy tab.* The reference to the remembered selection is that of the job whose stream is
  attached; jobs end once.
* *Purged servers.* From the purge on the alias is neither listed, selected nor the goal of a rename, so no
  new run of the page can carry it. While its entry is queued, a file it has is one the page
  lists, and once the run of its last entry has begun no push, pull or rename runs beside it, so that each
  of its steps leaves less of the alias. When the entry is worked off the alias is out of
  inventory, host_vars and list, and out of every copy of them that a run still holds.
* *Role settings.* A call marked as taken was asked for by who is still there, in the settings that
  are open; reads of a row are followed by no write that is not its own.
* *Filters.* Until the first pass has read it the URL holds the filters, afterwards the page does.
* *Buttons.* A button says "disable" only while the fade of what was disabled is still to begin.

Some of the proofs changed the models. The invariant of the Users tab was false in two orders
of events that the bounds had kept out of reach (password encryption across a switch, and import over a
poll); the exceptions of `EditsReachFile` name them now. In the editor of a role an answer to an
earlier editing of the same role was found the same way, and in the inventory a purge whose
queue entry was lost, and one that a waiting rename follows.

### Only model-checked

* `EndedIsReleased`, `RunningEnds`, `AutosaveEventually`, `SelectionConverges`, `RemovalsDrain`:
  liveness under fairness, out of this prover's reach, as is `ENABLED`.
* No module uses a `RECURSIVE` operator or an induction over data.

## 6. Not modelled, and the plan

Components without a module are listed with their reason in `PROJECT.json`: the local job
runner (`RUNNER_CMD`), the replay buffers of the log hub, rate limits (two requests that check the
limit of running jobs at once, `rate_limits.py:241`, is a hazard no property covers), server
users, which only a panel calls that is rendered nowhere, the role index and the list of
versions (caches with a time to live), the computation of prices, and scripts. In the modelled
ones layout, wording, validation of names and cryptography are left out.

Next:

1. `LogHub`: every subscriber gets a gap-free continuation, or a bounded loss at a full queue;
2. `RateLimits`: windows and the concurrency check, composed with the status of jobs;
3. `LocalJobRunner`: jobs without a manager, refining `JobLifecycle` as well.
