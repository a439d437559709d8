--------------------------- MODULE InventorySync ---------------------------
(* The servers and the roles selected for them, kept three times: in the page *)
(* (useWorkspaceServerSelectionActions.ts), in the browser's storage          *)
(* (useWorkspaceSelectionStorage.ts) and in the inventory.yml and host_vars   *)
(* of the workspace, which effects of the workspace panel read and write      *)
(* (useWorkspacePanelSyncEffects.ts, actions/core/sync.ts).  A step is what   *)
(* runs without interruption: a handler, the effects of one rendering, or     *)
(* what follows an await.                                                     *)
EXTENDS Naturals, Sequences, FiniteSets, SequencesExt

CONSTANTS
  Spaces, FirstSpace,      \* FirstSpace is open to begin with and has an inventory
  Aliases, Device,        \* Device is the alias of the placeholder server
  NoAlias, Roles, NoEntry,
  MaxClicks,            \* bound: what the user asks for
  MaxFailures,            \* bound: requests that fail
  Commands                \* the clicks the user gives

ASSUME InventoryAssumption ==
  /\ FirstSpace \in Spaces /\ Device \in Aliases /\ NoAlias \notin Aliases /\ IsFiniteSet(Aliases)
  /\ (\A S \in SUBSET Roles : NoEntry # S) /\ {MaxClicks, MaxFailures} \subseteq Nat

VARIABLES
  inventory, hostVars,           \* API: roles of each alias, and the host_vars files
  stored,                        \* browser: selection and plans of each workspace
  open, ready, hosts,            \* workspaceId, inventoryReady, hostVarsAliases
  servers, active,               \* servers (their aliases), activeAlias
  selected, plans,               \* selectedByAlias; roles with a plan that is not the default
  renames, deletes, cleanups,    \* aliasRenames, aliasDeletes, aliasCleanups
  touched, seeded, roled,        \* selectionTouched, inventorySeededRef, initialRolesSyncDoneRef
  runs,                          \* under autoSyncRef, deleteSyncRef and hostVarsSyncRef
  due, seen,                     \* a rendering is due; what the last one saw
  clicks, failures,            \* bounds
  asked, gone, excused           \* history: see WorkspaceScoped, PurgedStaysOut

api == <<inventory, hostVars>>
page == <<servers, active, selected, plans>>
queues == <<renames, deletes, cleanups>>
marks == <<touched, seeded, roled>>
bounds == <<clicks, failures>>
ghosts == <<asked, gone, excused>>
syncVars == <<api, stored, open, ready, hosts, page, queues, marks, runs, due, seen, bounds, ghosts>>

Refs == {"auto", "removal", "vars"}
NoRun == [kind |-> "idle"]
NoFile == [a \in Aliases |-> NoEntry]
\* missed is history: the rendering found autoSyncRef set by a run that may end
\* without a change of state, or its own pull failed silently.
NothingSeen ==
  [ws |-> NoAlias, ready |-> FALSE, alias |-> NoAlias, touched |-> FALSE, missed |-> FALSE]
NoRoles == [a \in Aliases |-> {}]
AliasesOf(s) == {a \in Aliases : s[a] # NoEntry}
Stored == [sel : [Aliases -> {NoEntry} \cup SUBSET Roles], plans : SUBSET (Aliases \X Roles)]

\* activeServer: the one of the active alias, or the first.
PanelAlias ==
  IF active \in ToSet(servers) THEN active
  ELSE IF servers # <<>> THEN Head(servers) ELSE NoAlias

SyncTypeOK ==
  /\ \A w \in Spaces : inventory[w] = NoFile \/ inventory[w] \in [Aliases -> SUBSET Roles]
  /\ hostVars \in [Spaces -> SUBSET Aliases] /\ stored \in [Spaces -> Stored]
  /\ open \in Spaces /\ ready \in BOOLEAN /\ hosts \subseteq Aliases
  /\ servers \in Seq(Aliases) /\ IsInjective(servers) /\ active \in Aliases \cup {NoAlias}
  /\ [sel |-> selected, plans |-> plans] \in Stored
  /\ renames \in Seq(Aliases \X Aliases) /\ {deletes, cleanups} \subseteq Seq(Aliases)
  /\ {touched, seeded, roled, due} \subseteq BOOLEAN
  /\ runs.auto.kind \in {"idle", "generate", "push", "pull", "rename"}
  /\ runs.removal.kind \in {"idle", "delete", "cleanup"} /\ runs.vars.kind \in {"idle", "hostVars"}
  /\ \A s \in Refs : runs[s] # NoRun =>
       runs[s].pc \in {"post", "read", "apply", "write", "files", "list"}

\* The open workspace has servers, with every role; the others are new.
SyncInit ==
  /\ hosts = Aliases \ {Device}
  /\ inventory = [w \in Spaces |->
       IF w = FirstSpace THEN [a \in Aliases |-> IF a \in hosts THEN Roles ELSE {}] ELSE NoFile]
  /\ hostVars = [w \in Spaces |-> IF w = FirstSpace THEN hosts ELSE {}]
  /\ stored = [w \in Spaces |-> [sel |-> NoFile, plans |-> {}]]
  /\ open = FirstSpace /\ ready = TRUE
  /\ servers = <<>> /\ active = NoAlias /\ selected = NoFile /\ plans = {}
  /\ renames = <<>> /\ deletes = <<>> /\ cleanups = <<>>
  /\ touched = FALSE /\ seeded = FALSE /\ roled = FALSE
  /\ runs = [s \in Refs |-> NoRun]
  /\ due = TRUE /\ seen = NothingSeen
  /\ clicks = 0 /\ failures = 0 /\ asked = {FirstSpace} \X hosts \X Roles /\ gone = {} /\ excused = {}

------------------------------------------------------------------------------
(* mergeRolesByAlias: every server with a host_vars file has an entry.       *)
Merge(sel, h) == [a \in Aliases |-> IF sel[a] = NoEntry /\ a \in h THEN {} ELSE sel[a]]

\* applySelectedRolesByAlias: given entries replace those of the page, the others
\* stay; missing servers are appended.
Given(m) == IF AliasesOf(m) = {} /\ AliasesOf(selected) = {} THEN {Device} ELSE AliasesOf(m)
WithRoles(m) ==
  [a \in Aliases |-> IF a \in AliasesOf(m) THEN m[a]
                     ELSE IF a \in Given(m) THEN {} ELSE selected[a]]
WithPlans(m) == {p \in plans : p[1] \in AliasesOf(m) => p[2] \in m[p[1]]}
WithServersAgain(m) ==  \* (Defect: servers that are listed are appended once more.)
  servers \o SetToSeq(IF AliasesOf(m) # {} THEN AliasesOf(m) ELSE {Device})
WithServers(m) ==
  LET wanted == IF AliasesOf(m) # {} THEN AliasesOf(m) ELSE IF servers = <<>> THEN {Device} ELSE {} IN
  servers \o SetToSeq(wanted \ ToSet(servers))
WithActive(m) ==
  IF active # NoAlias THEN active
  ELSE IF AliasesOf(m) = {} THEN Device ELSE SetToSeq(AliasesOf(m))[1]

\* syncInventoryWithSelection: the aliases of the selection have exactly its roles.
PushedAdded(sel, inv) ==  \* (Defect: roles are only ever added.)
  [a \in Aliases |-> IF sel[a] = NoEntry THEN inv[a] ELSE sel[a] \cup inv[a]]
Pushed(sel, inv) == [a \in Aliases |-> IF sel[a] = NoEntry THEN inv[a] ELSE sel[a]]
Renamed(from, to, inv) == [inv EXCEPT ![to] = @ \cup inv[from], ![from] = {}]
Without(a, inv) == [inv EXCEPT ![a] = {}]
\* extractRolesByAlias: an alias without a role is not in the inventory.
Extract(inv) == [a \in Aliases |-> IF inv[a] = {} THEN NoEntry ELSE inv[a]]

Run(kind, pc, from, to) ==
  [kind |-> kind, pc |-> pc, ws |-> open, from |-> from, to |-> to,
   sel |-> NoFile, hosts |-> hosts, text |-> NoFile]

------------------------------------------------------------------------------
(* The effects of a rendering, those of the panel before those of the page.  *)
PendingRenames == renames # <<>> \/ deletes # <<>>  \* (Defect: purges are not waited for.)
PendingMutations == renames # <<>> \/ deletes # <<>> \/ cleanups # <<>>

Seeded ==
  \/ touched /\ ~seen.touched
  \/ /\ seeded /\ open = seen.ws /\ (ready \/ ready = seen.ready)
     /\ (PanelAlias = NoAlias \/ PanelAlias = seen.alias)

CanGenerate == PanelAlias # NoAlias /\ selected[PanelAlias] # NoEntry /\ selected[PanelAlias] # {}

NextAuto ==
  CASE runs.auto # NoRun -> runs.auto
    [] runs.auto = NoRun /\ ~PendingMutations /\ ~ready /\ CanGenerate ->
         [Run("generate", "post", PanelAlias, NoAlias) EXCEPT !.sel = selected]
    [] runs.auto = NoRun /\ ~PendingMutations /\ ready /\ Seeded ->
         [Run("push", "read", NoAlias, NoAlias) EXCEPT !.sel = Merge(selected, hosts)]
    [] runs.auto = NoRun /\ ~PendingMutations /\ ready /\ ~Seeded ->
         [Run("pull", "read", NoAlias, NoAlias) EXCEPT !.sel = selected]
    [] runs.auto = NoRun /\ renames # <<>> ->
         Run("rename", IF ready THEN "read" ELSE "files", Head(renames)[1], Head(renames)[2])
    [] OTHER -> NoRun

NextRemovalAlone ==  \* (Defect: under the ref of the other runs.)
  CASE runs.removal # NoRun \/ runs.auto # NoRun -> runs.removal
    [] runs.removal = NoRun /\ deletes # <<>> ->
         Run("delete", IF ready THEN "read" ELSE "list", Head(deletes), NoAlias)
    [] runs.removal = NoRun /\ deletes = <<>> /\ cleanups # <<>> ->
         Run("cleanup", IF ready THEN "read" ELSE "files", Head(cleanups), NoAlias)
    [] OTHER -> NoRun
NextRemoval ==
  CASE runs.removal # NoRun -> runs.removal
    [] runs.removal = NoRun /\ deletes # <<>> ->
         Run("delete", IF ready THEN "read" ELSE "list", Head(deletes), NoAlias)
    [] runs.removal = NoRun /\ deletes = <<>> /\ cleanups # <<>> ->
         Run("cleanup", IF ready THEN "read" ELSE "files", Head(cleanups), NoAlias)
    [] OTHER -> NoRun

\* The active alias falls back to the first server.
NextActive(given) ==
  IF active \in ToSet(servers) THEN active
  ELSE IF active = NoAlias /\ servers = <<>> THEN given
  ELSE IF servers = <<>> THEN NoAlias ELSE Head(servers)

EnsureEntry(sel) ==
  [a \in Aliases |-> IF a = active /\ sel[a] = NoEntry THEN {} ELSE sel[a]]

KeptPlans(ps) == {p \in ps : selected[p[1]] # NoEntry => p[2] \in selected[p[1]]}

\* With nothing due the page may render again all the same (typing, timers).
Render ==
  LET moved == open # seen.ws
      m == Merge(selected, hosts)
      applies == ~PendingMutations /\ (m # selected \/ ~roled \/ moved)
      now == [sel |-> selected, plans |-> plans]
  IN
  /\ seeded' = Seeded /\ roled' = (applies \/ (roled /\ ~moved))
  /\ runs' = [runs EXCEPT !.auto = NextAuto, !.removal = NextRemoval]
  /\ servers' = (IF applies THEN WithServers(m) ELSE servers)
  /\ active' = NextActive(IF applies THEN WithActive(m) ELSE active)
  /\ stored' = [stored EXCEPT ![open] = now]
  /\ IF moved
     THEN selected' = stored'[open].sel /\ plans' = stored'[open].plans
     ELSE /\ selected' = EnsureEntry(IF applies THEN WithRoles(m) ELSE selected)
          /\ plans' = KeptPlans(IF applies THEN WithPlans(m) ELSE plans)
  /\ IF moved THEN renames' = <<>> /\ deletes' = <<>> /\ cleanups' = <<>> ELSE UNCHANGED queues
  /\ seen' = [ws |-> open, ready |-> ready, alias |-> PanelAlias, touched |-> touched,
             missed |-> runs.auto.kind \in {"push", "pull"}]
  /\ due' = ((<<page, queues>>)' # <<page, queues>>)
  /\ excused' = (IF runs'.auto.kind = "rename" /\ runs'.removal # NoRun
                THEN excused \cup {<<open, runs'.removal.from>>} ELSE excused)
  /\ UNCHANGED <<api, open, ready, hosts, touched, bounds, asked, gone>>

------------------------------------------------------------------------------
(* The user.  React renders, and runs the effects, before the next click.    *)
May(c) == c \in Commands /\ clicks < MaxClicks /\ ~due /\ clicks' = clicks + 1
Touch == touched' = TRUE /\ due' = TRUE

Asked(a, r, on) ==
  asked' = IF on THEN asked \cup {<<open, a, r>>} ELSE asked

\* toggleSelectedForAlias: a plan is dropped with its role.
Toggle(a, r) ==
  LET on == selected[a] = NoEntry \/ r \notin selected[a]
      roles == IF selected[a] = NoEntry THEN {} ELSE selected[a]
  IN
  /\ May("toggle") /\ a \in ToSet(servers) /\ Touch /\ Asked(a, r, on)
  /\ selected' = [selected EXCEPT ![a] = IF on THEN roles \cup {r} ELSE roles \ {r}]
  /\ plans' = plans \ {<<a, r>>}
  /\ UNCHANGED <<api, stored, open, ready, hosts, servers, active, queues, seeded, roled,
                 runs, seen, failures, gone, excused>>

\* selectRolePlanForAlias with a plan that is not the default.
ChoosePlan(a, r) ==
  /\ May("plan") /\ a \in ToSet(servers) /\ Touch /\ Asked(a, r, TRUE)
  /\ selected' = [selected EXCEPT ![a] = IF @ = NoEntry THEN {r} ELSE @ \cup {r}]
  /\ plans' = plans \cup {<<a, r>>}
  /\ UNCHANGED <<api, stored, open, ready, hosts, servers, active, queues, seeded, roled,
                 runs, seen, failures, gone, excused>>

SelectServer(a) ==
  /\ May("select") /\ a \in ToSet(servers) /\ a # active /\ active' = a /\ due' = TRUE
  /\ UNCHANGED <<api, stored, open, ready, hosts, servers, selected, plans, queues, marks,
                 runs, seen, failures, ghosts>>

\* addServer: the visual metadata make a host_vars file, which is not listed yet.
AddServer(a) ==
  /\ May("add") /\ a \notin ToSet(servers)
  /\ servers' = Append(servers, a) /\ selected' = [selected EXCEPT ![a] = {}]
  /\ active' = a /\ due' = TRUE
  /\ hostVars' = [hostVars EXCEPT ![open] = @ \cup {a}] /\ gone' = gone \ {<<open, a>>}
  /\ UNCHANGED <<inventory, stored, open, ready, hosts, plans, queues, marks, runs, seen, failures, asked, excused>>

\* handleProviderOrderedServer, for a server the API has put into host_vars.
OrderServer(a) ==
  /\ May("order") /\ active' = a /\ due' = TRUE
  /\ servers' = (IF a \in ToSet(servers) THEN servers ELSE Append(servers, a))
  /\ selected' = [selected EXCEPT ![a] = IF @ = NoEntry THEN {} ELSE @]
  /\ hostVars' = [hostVars EXCEPT ![open] = @ \cup {a}] /\ gone' = gone \ {<<open, a>>}
  /\ UNCHANGED <<inventory, stored, open, ready, hosts, plans, queues, marks, runs, seen, failures, asked, excused>>

\* updateServer with another alias: the form refuses one that exists.
RenameServer(a, b) ==
  LET roles == IF selected[a] = NoEntry THEN {} ELSE selected[a] IN
  /\ May("rename") /\ a \in ToSet(servers) /\ b \notin ToSet(servers) /\ due' = TRUE
  /\ servers' = [i \in DOMAIN servers |-> IF servers[i] = a THEN b ELSE servers[i]]
  /\ selected' = [selected EXCEPT ![a] = NoEntry, ![b] = IF @ = NoEntry THEN roles ELSE @ \cup roles]
  /\ plans' = {IF p[1] = a THEN <<b, p[2]>> ELSE p : p \in plans}
  /\ active' = (IF active = a THEN b ELSE active) /\ renames' = Append(renames, <<a, b>>)
  /\ asked' = asked \cup {<<open, b, r>> : r \in roles} /\ gone' = gone \ {<<open, b>>}
  /\ UNCHANGED <<api, stored, open, ready, hosts, deletes, cleanups, marks, runs, seen, failures, excused>>

\* removeServerFromClient.
Drop(a) ==
  LET rest == RemoveAt(servers, CHOOSE i \in DOMAIN servers : servers[i] = a) IN
  /\ servers' = rest
  /\ active' = (IF active # a THEN active ELSE IF rest = <<>> THEN NoAlias ELSE Head(rest))
  /\ selected' = [selected EXCEPT ![a] = NoEntry]
  /\ plans' = {p \in plans : p[1] # a} /\ Touch

\* removeServer.
DeleteServer(a) ==
  /\ May("delete") /\ ready /\ a \in ToSet(servers) /\ Drop(a)
  /\ deletes' = Append(deletes, a)
  /\ UNCHANGED <<api, stored, open, ready, hosts, renames, cleanups, seeded, roled, runs, seen, failures, ghosts>>

\* cleanupServer.
Unlisted(a) == a \in hostVars[open] \ hosts
\* Another run, or a purge whose entry the queue has lost, is under way.
Lost(run) == run.kind = "cleanup" /\ (cleanups = <<>> \/ Head(cleanups) # run.from)
Beside == \E s \in Refs :
  runs[s] # NoRun /\ (s # "removal" \/ runs[s].ws # open \/ Lost(runs[s]))
PurgeServer(a) ==
  /\ May("purge") /\ ready /\ a \in ToSet(servers) /\ Drop(a)
  /\ cleanups' = Append(cleanups, a) /\ gone' = gone \cup {<<open, a>>}
  /\ excused' = (IF Unlisted(a) \/ Beside \/ \E i \in DOMAIN renames : renames[i][2] = a
                 THEN excused \cup {<<open, a>>} ELSE excused \ {<<open, a>>})
  /\ UNCHANGED <<api, stored, open, ready, hosts, renames, deletes, seeded, roled, runs, seen, failures, asked>>

\* selectWorkspace, when its list of files came (see WorkspaceSelection).
SwitchWorkspace(w) ==
  /\ May("switch") /\ w # open /\ open' = w /\ due' = TRUE
  /\ ready' = (inventory[w] # NoFile) /\ hosts' = hostVars[w]
  /\ excused' = excused \cup gone
  /\ UNCHANGED <<api, stored, page, queues, marks, runs, seen, failures, asked, gone>>

\* The page is loaded again, for the workspace in its URL.
Reload ==
  /\ May("reload") /\ due' = TRUE
  /\ ready' = (inventory[open] # NoFile) /\ hosts' = hostVars[open]
  /\ servers' = <<>> /\ active' = NoAlias
  /\ selected' = stored[open].sel /\ plans' = stored[open].plans
  /\ renames' = <<>> /\ deletes' = <<>> /\ cleanups' = <<>>
  /\ touched' = FALSE /\ seeded' = FALSE /\ roled' = FALSE
  /\ runs' = [s \in Refs |-> NoRun]
  /\ seen' = NothingSeen
  /\ excused' = excused \cup gone
  /\ UNCHANGED <<api, stored, open, failures, asked, gone>>

------------------------------------------------------------------------------
(* What follows an await.  A request may be refused, or take effect and lose  *)
(* its reply.                                                                *)
Fails == failures < MaxFailures /\ failures' = failures + 1
Rest(queue) == IF queue = <<>> THEN <<>> ELSE Tail(queue)

\* The finally block: a queue loses its first entry, by now perhaps another one.
End(s) ==
  LET kind == runs[s].kind IN
  /\ runs' = [runs EXCEPT ![s] = NoRun]
  /\ seeded' = (seeded \/ kind = "pull")
  /\ renames' = (IF kind = "rename" THEN Rest(renames) ELSE renames)
  /\ deletes' = (IF kind = "delete" THEN Rest(deletes) ELSE deletes)
  /\ cleanups' = (IF kind = "cleanup" THEN Rest(cleanups) ELSE cleanups)

RunGoesOn(s, pc) ==
  /\ runs' = [runs EXCEPT ![s].pc = pc, ![s].sel = NoFile, ![s].text = NoFile]
  /\ UNCHANGED <<seeded, queues, due>>

\* A step on host_vars is taken for the files the page lists; the API answers 404
\* for a file (or an inventory) that is not there.
Wants(run) ==
  run.pc = "files" => /\ run.from \in run.hosts
                      /\ run.kind = "rename" => run.to \notin run.hosts
Possible(run) ==
  /\ run.pc = "read" => inventory[run.ws] # NoFile
  /\ run.pc = "files" => /\ run.from \in hostVars[run.ws]
                         /\ run.kind = "rename" => run.to \notin hostVars[run.ws]

\* The text syncInventoryWithSelection, renameAliasInInventory or
\* removeAliasFromInventory makes of the file, and the step behind its PUT.
Edited(run) ==
  LET inv == inventory[run.ws] IN
  CASE run.kind = "push" -> Pushed(run.sel, inv)
    [] run.kind = "rename" -> Renamed(run.from, run.to, inv)
    [] OTHER -> Without(run.from, inv)
AfterWrite(kind) == IF kind \in {"rename", "cleanup"} THEN "files" ELSE "list"

\* An inventory that needs no change is not written; an unchanged push ends here.
ReadInventory(s) ==
  LET run == runs[s] IN
  /\ run # NoRun /\ run.kind # "pull" /\ run.pc = "read" /\ Possible(run)
  /\ \/ /\ Edited(run) # inventory[run.ws] /\ UNCHANGED <<seeded, queues, due>>
        /\ runs' = [runs EXCEPT ![s].pc = "write", ![s].sel = NoFile, ![s].text = Edited(run)]
     \/ /\ Edited(run) = inventory[run.ws] /\ run.kind # "push" /\ RunGoesOn(s, AfterWrite(run.kind))
     \/ /\ Edited(run) = inventory[run.ws] /\ run.kind = "push" /\ End(s) /\ UNCHANGED due
  /\ UNCHANGED <<api, stored, open, ready, hosts, page, touched, roled, seen, bounds, ghosts>>

\* What the request of a run does at the API.
Effect(run) ==
  CASE run.pc = "write" /\ run.kind # "hostVars" ->
         inventory' = [inventory EXCEPT ![run.ws] = run.text] /\ UNCHANGED hostVars
    [] run.pc = "write" /\ run.kind = "hostVars" ->
         hostVars' = [hostVars EXCEPT ![run.ws] = @ \cup {run.from}] /\ UNCHANGED inventory
    [] run.pc = "post" ->
         /\ inventory' = [inventory EXCEPT ![run.ws] = [a \in Aliases |->
              (IF @[a] = NoEntry THEN {} ELSE @[a]) \cup (IF a = run.from THEN run.sel[a] ELSE {})]]
         /\ hostVars' = [hostVars EXCEPT ![run.ws] = @ \cup {run.from}]
    [] run.pc = "files" /\ run.kind = "rename" ->
         hostVars' = [hostVars EXCEPT ![run.ws] = (@ \ {run.from}) \cup {run.to}] /\ UNCHANGED inventory
    [] run.pc = "files" /\ run.kind = "cleanup" ->
         hostVars' = [hostVars EXCEPT ![run.ws] = @ \ {run.from}] /\ UNCHANGED inventory
    [] OTHER -> UNCHANGED api

Request(s) ==
  LET run == runs[s] IN
  /\ run # NoRun /\ run.pc \in {"post", "write", "files"}
  /\ IF Wants(run) THEN Possible(run) /\ Effect(run) ELSE UNCHANGED api
  /\ RunGoesOn(s, IF run.pc = "write" THEN AfterWrite(run.kind) ELSE "list")
  /\ UNCHANGED <<stored, open, ready, hosts, page, touched, roled, seen, bounds, ghosts>>

\* refreshFiles, of the workspace the run began in.
ListFiles(s) ==
  LET run == runs[s] IN
  /\ run # NoRun /\ run.pc = "list" /\ End(s) /\ due' = TRUE
  /\ hosts' = hostVars[run.ws] /\ ready' = (inventory[run.ws] # NoFile)
  /\ UNCHANGED <<api, stored, open, page, touched, roled, seen, bounds, ghosts>>

\* syncSelectionFromInventory: the reply is applied to the page as it is by then.
FetchRoles ==
  LET run == runs.auto IN
  /\ run.kind = "pull" /\ run.pc = "read" /\ Possible(run)
  /\ runs' = [runs EXCEPT !.auto.pc = "apply", !.auto.text = Merge(Extract(inventory[run.ws]), run.hosts)]
  /\ UNCHANGED <<api, stored, open, ready, hosts, page, queues, marks, due, seen, bounds, ghosts>>

ApplyRoles ==
  LET run == runs.auto
      changed == run.text # run.sel
  IN
  /\ run.kind = "pull" /\ run.pc = "apply" /\ End("auto")
  /\ IF changed
     THEN /\ selected' = WithRoles(run.text) /\ plans' = WithPlans(run.text)
          /\ servers' = WithServers(run.text) /\ active' = WithActive(run.text) /\ due' = TRUE
     ELSE UNCHANGED <<page, due>>
  /\ UNCHANGED <<api, stored, open, ready, hosts, touched, roled, seen, bounds, ghosts>>

\* syncHostVarsFromCredentials, 1400 ms after a rendering: a file that is missing
\* is made (what an existing file says of the connection is left out).
SaveHostVars ==
  /\ runs.vars = NoRun /\ PanelAlias # NoAlias /\ PanelAlias \notin hostVars[open] /\ ~due
  /\ runs' = [runs EXCEPT !.vars = [Run("hostVars", "write", PanelAlias, NoAlias) EXCEPT !.hosts = {}]]
  /\ UNCHANGED <<api, stored, open, ready, hosts, page, queues, marks, due, seen, bounds, ghosts>>

\* A failing read, PUT, POST or DELETE ends the run; so does a file that is gone.
\* The error is shown, but for a pull and for host_vars.
RunFails(s) ==
  LET run == runs[s] IN
  /\ run # NoRun
  /\ \/ Fails /\ (UNCHANGED api \/ (Wants(run) /\ Possible(run) /\ Effect(run)))
     \/ Wants(run) /\ ~Possible(run) /\ UNCHANGED <<api, failures>>
  /\ End(s) /\ due' = (due \/ run.kind \notin {"pull", "hostVars"})
  /\ excused' = (IF run.kind = "cleanup" THEN excused \cup {<<run.ws, run.from>>} ELSE excused)
  /\ seen' = (IF run.kind = "pull" THEN [seen EXCEPT !.missed = TRUE] ELSE seen)
  /\ UNCHANGED <<stored, open, ready, hosts, page, touched, roled, clicks, asked, gone>>

Continue(s) == ReadInventory(s) \/ Request(s) \/ ListFiles(s) \/ RunFails(s)
SyncNext ==
  \/ Render \/ FetchRoles \/ ApplyRoles \/ SaveHostVars \/ Reload
  \/ \E s \in Refs : Continue(s)
  \/ \E w \in Spaces : SwitchWorkspace(w)
  \/ \E a \in Aliases :
       \/ SelectServer(a) \/ AddServer(a) \/ OrderServer(a) \/ DeleteServer(a) \/ PurgeServer(a)
       \/ \E r \in Roles : Toggle(a, r) \/ ChoosePlan(a, r)
       \/ \E b \in Aliases : RenameServer(a, b)

\* Requests end, and React renders when a state has changed; nothing else has to
\* happen, so that what a rendering left undone may stay so.
RenderDue == due /\ Render
SyncFairness ==
  /\ WF_syncVars(RenderDue) /\ WF_syncVars(FetchRoles \/ ApplyRoles)
  /\ \A s \in Refs : WF_syncVars(Continue(s))

SyncSpec == SyncInit /\ [][SyncNext]_syncVars /\ SyncFairness

------------------------------------------------------------------------------
\* Nothing runs, waits or is due.
Quiet == ~due /\ ~PendingMutations /\ \A s \in Refs : runs[s] = NoRun

(* A purged server is gone from the list, the selection, the inventory and    *)
(* the host_vars, whatever else ran: the merge of the servers that have a     *)
(* file, the push and the pull of roles.  Excused are purges that began       *)
(* beside another run or ran beside a rename (both write the whole            *)
(* inventory.yml), that were asked for while a rename to the same alias was   *)
(* waiting, that failed, whose file the page had not listed yet, or before a  *)
(* switch or a reload;                                                        *)
(* the placeholder server comes back by design (cleanupServer,                *)
(* hasPendingAliasMutations).                                                 *)
PurgedStaysOut ==
  Quiet => \A p \in gone \ excused : (p[1] = open /\ p[2] # Device) =>
    /\ p[2] \notin ToSet(servers) /\ selected[p[2]] = NoEntry
    /\ p[2] \notin hostVars[open]
    /\ inventory[open][p[2]] = {} \/ inventory[open][p[2]] = NoEntry

(* Once the user and the failures stop, the page and the inventory of the     *)
(* open workspace settle on the same roles, each rendering being due to a     *)
(* change of state.  Two pages do not: one whose last rendering was of no     *)
(* effect, because a run held autoSyncRef or because its pull failed, which   *)
(* nothing wakes when the run ends without a change; and one that believes in *)
(* an inventory that does not exist, after the late file list of another      *)
(* workspace (syncInventoryWithSelection, syncSelectionFromInventory,         *)
(* inventorySeededRef, autoSyncRef).                                          *)
SelectionConverges ==
  <>[](seen.missed \/ (ready /\ inventory[open] # NoFile =>
         \A a \in ToSet(servers) :
           inventory[open][a] = IF selected[a] = NoEntry THEN {} ELSE selected[a]))

(* Queued deletes and purges are worked off, also when their requests fail    *)
(* and when a switch empties the queues under a run (onAliasDeletesHandled,   *)
(* onAliasCleanupsHandled).                                                   *)
RemovalsDrain == (deletes # <<>> \/ cleanups # <<>>) ~> (deletes = <<>> /\ cleanups = <<>>)

(* 003: workspaces and inventories are strictly scoped.  An inventory has     *)
(* only roles that were asked for in its own workspace; but the selection of  *)
(* the workspace before is stored, and pushed, under the one that is opened   *)
(* (useWorkspaceSelectionStorage runs before the effect that resets it).      *)
WorkspaceScoped ==
  \A w \in Spaces, a \in Aliases, r \in Roles :
    (inventory[w][a] # NoEntry /\ r \in inventory[w][a]) => <<w, a, r>> \in asked
=============================================================================
