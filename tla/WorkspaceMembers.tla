-------------------------- MODULE WorkspaceMembers --------------------------
(* Who may use a workspace: the requests that read and rewrite its metadata  *)
(* in the API (mixins/rbac.py), the members panel of the page, and the       *)
(* account hub that removes somebody from all workspaces.  A person stands   *)
(* for a user id and its address.                                            *)
EXTENDS Naturals, FiniteSets

CONSTANTS
  Shared,       \* workspaces with an owner
  People, Me,   \* users; the one at the page
  NoPerson, Requests,
  MaxAsked

ASSUME MembersAssumption ==
  /\ Me \in People /\ NoPerson \notin People /\ NoPerson \notin Shared /\ NoPerson \notin Requests
  /\ MaxAsked \in Nat

VARIABLES
  meta, writeLock,                        \* API: workspace.json and the lock of each workspace
  reqs, asked,                            \* requests under way, and how many there were
  panel,                                  \* RbacView and its MembersPanel
  hub,                                    \* AccountHub and its CollaboratorsTab
  decided, crossed                        \* history: see DecisionsKept

apiVars == <<meta, writeLock, decided, crossed>>
membersVars == <<apiVars, reqs, asked, panel, hub>>

Meta == [owner : People, members : SUBSET People, pending : SUBSET People]
NoList == [owner |-> NoPerson, members |-> {}, pending |-> {}]
Free == [kind |-> "free"]
\* A member is named by its user id, an invitation by its address (MembersPanel).
Keys == [by : {"id", "mail"}, who : People]
OwnerOnly == {"invite", "remove", "transfer"}
Unlocked == {"claim", "restate"}

MembersTypeOK ==
  /\ meta \in [Shared -> Meta] /\ decided \in [Shared -> Meta]
  /\ crossed \in [Shared -> BOOLEAN] /\ writeLock \in [Shared -> Requests \cup {NoPerson}]
  /\ panel.space \in Shared \cup {NoPerson} /\ panel.isOwner \in {"unknown", "yes", "no"}
  /\ panel.busy \in BOOLEAN /\ panel.list \in Meta \cup {NoList}
  /\ hub.busy \in People \cup {NoPerson} /\ hub.owned \subseteq Shared
  /\ \A p \in People : hub.rows[p].spaces \subseteq Shared /\ hub.tasks[p].todo \subseteq Shared
  /\ \A r \in Requests : reqs[r] # Free => reqs[r].copy \in Meta \cup {NoList}

NoPanel == [space |-> NoPerson, isOwner |-> "unknown", list |-> NoList, busy |-> FALSE]
NoRows == [p \in People |-> [id |-> FALSE, spaces |-> {}]]
NoTask == [todo |-> {}, adds |-> FALSE, id |-> FALSE]
NoHub == [owned |-> {}, rows |-> NoRows, reads |-> {}, busy |-> NoPerson,
          tasks |-> [p \in People |-> NoTask]]

\* A workspace is created by its owner; Me may have been invited to it.
MembersInit ==
  /\ meta \in [Shared -> {m \in Meta : m.members = {} /\ m.owner \notin m.pending}]
  /\ writeLock = [s \in Shared |-> NoPerson] /\ reqs = [r \in Requests |-> Free] /\ asked = 0
  /\ panel = NoPanel /\ hub = NoHub /\ decided = meta /\ crossed = [s \in Shared |-> FALSE]

------------------------------------------------------------------------------
(* What a request makes of the metadata it has read; the same metadata when  *)
(* it is refused (409, 404 or 400).                                          *)
Invite(m, p) ==
  IF p \in {m.owner} \cup m.members \cup m.pending THEN m ELSE [m EXCEPT !.pending = @ \cup {p}]
Claim(m, p) == [m EXCEPT !.members = @ \cup {p}, !.pending = @ \ {p}]
\* An address finds members and invitations, a user id members only.
Named(m, key) == (IF key.by = "id" THEN m.members ELSE m.members \cup m.pending) \cap {key.who}
Remove(m, key) ==
  IF key.who = m.owner THEN m
  ELSE [m EXCEPT !.members = @ \ Named(m, key), !.pending = @ \ Named(m, key)]

TransferKeeping(m, p) ==  \* (Defect: the new owner stays a member.)
  IF p \notin m.members THEN m ELSE [m EXCEPT !.owner = p, !.members = @ \cup {m.owner}]
Transfer(m, p) ==
  IF p \notin m.members THEN m
  ELSE [m EXCEPT !.owner = p, !.members = (@ \ {p}) \cup {m.owner}]

Applied(kind, m, key) ==
  CASE kind = "invite" -> Invite(m, key.who)
    [] kind = "claim" -> Claim(m, key.who)
    [] kind = "remove" -> Remove(m, key)
    [] kind = "transfer" -> Transfer(m, key.who)
    [] OTHER -> m

------------------------------------------------------------------------------
(* Requests.  Reading the metadata and writing it back are two steps; what   *)
(* is written is what was read, changed.                                     *)
Put(r, q) == reqs' = [reqs EXCEPT ![r] = q]
Answered(r, how) == [reqs[r] EXCEPT !.state = "done", !.reply = how]
Reading(s) == {r \in Requests : reqs[r] # Free /\ reqs[r].space = s /\ reqs[r].state = "read"}
Doing(q) == IF q.claiming THEN "claim" ELSE q.kind

\* ensure_workspace_access: an invited person is made a member by any request.
Access(r) ==
  LET q == reqs[r]
      m == meta[q.space]
  IN
  /\ q # Free /\ q.state = "sent"
  /\ IF q.by \in {m.owner} \cup m.members THEN Put(r, [q EXCEPT !.state = "seen"])
     ELSE IF q.by \in m.pending
     THEN Put(r, [q EXCEPT !.state = "read", !.claiming = TRUE, !.copy = Claim(m, q.by)])
     ELSE Put(r, Answered(r, "refused"))
  /\ UNCHANGED <<apiVars, asked, panel, hub>>

\* list_members, and the requests that need no owner.
Look(r) ==
  /\ reqs[r] # Free /\ reqs[r].state = "seen"
  /\ \/ /\ reqs[r].kind \in {"open", "list"}
        /\ Put(r, [Answered(r, "ok") EXCEPT !.copy = meta[reqs[r].space]])
     \/ /\ reqs[r].kind = "restate"
        /\ Put(r, [reqs[r] EXCEPT !.state = "read", !.copy = meta[reqs[r].space]])
     \/ reqs[r].kind = "version" /\ Put(r, [reqs[r] EXCEPT !.state = "owned"])
  /\ UNCHANGED <<apiVars, asked, panel, hub>>

\* _require_workspace_owner, before the lock.
CheckOwner(r) ==
  /\ reqs[r] # Free /\ reqs[r].state = "seen" /\ reqs[r].kind \in OwnerOnly
  /\ IF meta[reqs[r].space].owner = reqs[r].by
     THEN Put(r, [reqs[r] EXCEPT !.state = "owned"]) ELSE Put(r, Answered(r, "refused"))
  /\ UNCHANGED <<apiVars, asked, panel, hub>>

ReadLockedAnyway(r) ==  \* (Defect: the metadata is read before the lock is there.)
  LET q == reqs[r]
      next == Applied(q.kind, meta[q.space], q.key)
  IN
  /\ q # Free /\ q.state = "owned" /\ writeLock' = [writeLock EXCEPT ![q.space] = r]
  /\ Put(r, [q EXCEPT !.state = "read", !.copy = next])
  /\ UNCHANGED <<meta, decided, crossed, asked, panel, hub>>
ReadLocked(r) ==
  LET q == reqs[r]
      next == Applied(q.kind, meta[q.space], q.key)
  IN
  /\ q # Free /\ q.state = "owned" /\ writeLock[q.space] = NoPerson
  /\ IF next = meta[q.space] /\ q.kind \in OwnerOnly
     THEN Put(r, Answered(r, "refused")) /\ UNCHANGED writeLock
     ELSE /\ Put(r, [q EXCEPT !.state = "read", !.copy = next])
          /\ writeLock' = [writeLock EXCEPT ![q.space] = r]
  /\ UNCHANGED <<meta, decided, crossed, asked, panel, hub>>

\* _write_meta.  A request that has read before is now late.
Write(r) ==
  LET q == reqs[r]
      s == q.space
      free == Doing(q) \in Unlocked
      after == IF q.claiming THEN [q EXCEPT !.state = "seen", !.claiming = FALSE, !.late = "no"]
               ELSE Answered(r, "ok")
  IN
  /\ q # Free /\ q.state = "read"
  /\ meta' = [meta EXCEPT ![s] = q.copy]
  /\ writeLock' = [writeLock EXCEPT ![s] = IF @ = r THEN NoPerson ELSE @]
  /\ decided' = [decided EXCEPT ![s] =
       Applied(Doing(q), @, IF q.claiming THEN [by |-> "mail", who |-> q.by] ELSE q.key)]
  /\ crossed' = [crossed EXCEPT ![s] = @ \/ q.late = "unlocked" \/ (q.late = "locked" /\ free)]
  /\ reqs' = [o \in Requests |->
       IF o = r THEN after
       ELSE IF o \in Reading(s)
       THEN [reqs[o] EXCEPT !.late = IF free \/ @ = "unlocked" THEN "unlocked" ELSE "locked"]
       ELSE reqs[o]]
  /\ UNCHANGED <<asked, panel, hub>>

Serve(r) == Access(r) \/ Look(r) \/ CheckOwner(r) \/ ReadLocked(r) \/ Write(r)

Request(kind, by, s, key, from) ==
  [kind |-> kind, by |-> by, space |-> s, key |-> key, from |-> from, state |-> "sent",
   claiming |-> FALSE, copy |-> NoList, late |-> "no", reply |-> "none"]
NoKey(p) == [by |-> "id", who |-> p]
Send(r, q) == reqs[r] = Free /\ asked < MaxAsked /\ asked' = asked + 1 /\ Put(r, q)

\* Other people open the workspace, rename it or set its state (management.py),
\* or choose its version; the owner of the moment may manage it, too.
OthersAsk(r) ==
  \E p \in People \ {Me}, s \in Shared, kind \in {"open", "restate", "version"} \cup OwnerOnly :
  \E key \in Keys :
    /\ kind \in OwnerOnly => meta[s].owner = p
    /\ kind \in {"open", "restate", "version"} => key = NoKey(p)
    /\ Send(r, Request(kind, p, s, key, "others"))
    /\ UNCHANGED <<apiVars, panel, hub>>
OthersAnswered(r) ==
  /\ reqs[r] # Free /\ reqs[r].state = "done" /\ reqs[r].from \in {"others", "gone"}
  /\ Put(r, Free) /\ UNCHANGED <<apiVars, asked, panel, hub>>

------------------------------------------------------------------------------
(* The members panel.  The user opens it in a workspace: RbacView asks who   *)
(* the owner is, then mounts MembersPanel, which asks again.                 *)
Unmounted(q) ==
  IF q # Free /\ q.from \in {"owner", "load", "act"} THEN [q EXCEPT !.from = "gone"] ELSE q

OpenMembers(r, s) ==
  /\ s # panel.space /\ panel' = [NoPanel EXCEPT !.space = s]
  /\ reqs[r] = Free /\ asked < MaxAsked /\ asked' = asked + 1
  /\ reqs' = [o \in Requests |->
       IF o = r THEN Request("list", Me, s, NoKey(Me), "owner") ELSE Unmounted(reqs[o])]
  /\ UNCHANGED <<apiVars, hub>>

Done(r, from) == reqs[r] # Free /\ reqs[r].state = "done" /\ reqs[r].from = from
Ok(r) == reqs[r].reply = "ok"
Load(r) == Put(r, Request("list", Me, reqs[r].space, NoKey(Me), "load"))

OwnerAnswered(r) ==
  /\ Done(r, "owner") /\ Load(r)
  /\ panel' = [panel EXCEPT !.isOwner = IF Ok(r) /\ reqs[r].copy.owner = Me THEN "yes" ELSE "no"]
  /\ UNCHANGED <<apiVars, asked, hub>>

LoadAnswered(r) ==
  /\ Done(r, "load") /\ Put(r, Free)
  /\ panel' = [panel EXCEPT !.busy = FALSE, !.list = IF Ok(r) THEN reqs[r].copy ELSE @]
  /\ UNCHANGED <<apiVars, asked, hub>>

\* onInvite, and the buttons of the rows: the key of a row is its user id, or else its address.
Manage(r, s) ==
  \E kind \in OwnerOnly, p \in People :
    LET key == [by |-> IF p \in panel.list.pending THEN "mail" ELSE "id", who |-> p] IN
    /\ panel.space = s /\ panel.isOwner = "yes" /\ panel.list # NoList /\ ~panel.busy
    /\ kind = "remove" => p \in panel.list.members \cup panel.list.pending
    /\ kind = "transfer" => p \in panel.list.members
    /\ Send(r, Request(kind, Me, s, key, "act"))
    /\ panel' = [panel EXCEPT !.busy = TRUE]
    /\ UNCHANGED <<apiVars, hub>>

ManageAnswered(r) ==
  /\ Done(r, "act")
  /\ IF Ok(r) THEN Load(r) /\ UNCHANGED panel
     ELSE Put(r, Free) /\ panel' = [panel EXCEPT !.busy = FALSE]
  /\ UNCHANGED <<apiVars, asked, hub>>

------------------------------------------------------------------------------
(* The account hub: one row for everybody in the workspaces I own.           *)
Owned == {s \in Shared : meta[s].owner = Me}
\* aggregateCollaborators reads the members of workspace after workspace.
Aggregate(over) == [left |-> over, got |-> NoRows]
Joined(rows, s) ==
  [p \in People |->
    IF p \in meta[s].members \cup meta[s].pending
    THEN [id |-> rows[p].id \/ p \in meta[s].members, spaces |-> rows[p].spaces \cup {s}] ELSE rows[p]]

\* reload; the effect of the new list aborts the aggregation of the one before.
OpenHub ==
  /\ hub = NoHub /\ Owned # {}
  /\ hub' = [hub EXCEPT !.owned = Owned, !.reads = {Aggregate(Owned)}]
  /\ UNCHANGED <<apiVars, reqs, asked, panel>>

HubReads ==
  \E a \in hub.reads, s \in Shared :
    /\ s \in a.left
    /\ \E got \in {a.got, Joined(a.got, s)} :
         hub' = [hub EXCEPT !.reads = (@ \ {a}) \cup {[left |-> a.left \ {s}, got |-> got]}]
    /\ UNCHANGED <<apiVars, reqs, asked, panel>>
HubShows ==
  \E a \in hub.reads :
    /\ a.left = {} /\ hub' = [hub EXCEPT !.reads = @ \ {a}, !.rows = a.got]
    /\ UNCHANGED <<apiVars, reqs, asked, panel>>

\* removeFromAll and addToWorkspace: busy keeps one row from being used again.
HubRemoves(p) ==
  /\ hub.reads = {} /\ hub.busy # p /\ hub.tasks[p] = NoTask /\ hub.rows[p].spaces # {}
  /\ hub' = [hub EXCEPT !.busy = p, !.tasks[p] =
       [todo |-> hub.rows[p].spaces, adds |-> FALSE, id |-> hub.rows[p].id]]
  /\ UNCHANGED <<apiVars, reqs, asked, panel>>
HubAdds(p, s) ==
  /\ hub.reads = {} /\ hub.busy # p /\ hub.tasks[p] = NoTask /\ hub.rows[p].spaces # {}
  /\ s \in hub.owned \ hub.rows[p].spaces
  /\ hub' = [hub EXCEPT !.busy = p, !.tasks[p] = [todo |-> {s}, adds |-> TRUE, id |-> FALSE]]
  /\ UNCHANGED <<apiVars, reqs, asked, panel>>

\* One workspace after the other; a refusal is noted and the others are tried.
HubSends(r, p, s) ==
  LET key == [by |-> IF hub.tasks[p].id THEN "id" ELSE "mail", who |-> p] IN
  /\ s \in hub.tasks[p].todo
  /\ \A o \in Requests : reqs[o] # Free => reqs[o].from # "hub" \/ reqs[o].key.who # p
  /\ Send(r, Request(IF hub.tasks[p].adds THEN "invite" ELSE "remove", Me, s, key, "hub"))
  /\ UNCHANGED <<apiVars, panel, hub>>
\* After the last one, onMutated lists the workspaces again; the rows are read for
\* the list it began with, and once more by the effect of the new one.
HubAnswered(r) ==
  LET p == reqs[r].key.who
      left == hub.tasks[p].todo \ {reqs[r].space}
  IN
  /\ Done(r, "hub") /\ Put(r, Free)
  /\ hub' = IF left # {} THEN [hub EXCEPT !.tasks[p].todo = left]
            ELSE IF hub.tasks[p].adds /\ ~Ok(r)
            THEN [hub EXCEPT !.tasks[p] = NoTask, !.busy = NoPerson]
            ELSE [hub EXCEPT !.tasks[p] = NoTask, !.busy = NoPerson, !.owned = Owned,
                             !.reads = {Aggregate(hub.owned), Aggregate(Owned)}]
  /\ UNCHANGED <<apiVars, asked, panel>>

MembersNext ==
  \/ \E r \in Requests :
       \/ Serve(r) \/ OthersAsk(r) \/ OthersAnswered(r)
       \/ \E s \in Shared : OpenMembers(r, s) \/ Manage(r, s) \/ \E p \in People : HubSends(r, p, s)
       \/ OwnerAnswered(r) \/ LoadAnswered(r) \/ ManageAnswered(r) \/ HubAnswered(r)
  \/ OpenHub \/ HubReads \/ HubShows
  \/ \E p \in People : HubRemoves(p) \/ \E s \in Shared : HubAdds(p, s)

MembersSpec == MembersInit /\ [][MembersNext]_membersVars

------------------------------------------------------------------------------
(* An address is at most once among owner, members and invitations of a      *)
(* workspace (019-workspace-rbac.md:53), whatever requests cross each other: *)
(* each writes a whole file that it made of a whole file.                    *)
UniqueIn(m) == m.owner \notin m.members \cup m.pending /\ m.members \cap m.pending = {}
AddressesUnique == \A s \in Shared : UniqueIn(meta[s])

(* The metadata is what the requests, one after the other, make of it: no    *)
(* invitation, removal or transfer is undone, except by the rewrites that    *)
(* take no lock (the claim of an invitation, set_workspace_state and         *)
(* rename_workspace_alias) when they cross another one.                      *)
DecisionsKept == \A s \in Shared : ~crossed[s] => meta[s] = decided[s]
=============================================================================
